----------------------------- MODULE Scheduler -----------------------------
(***************************************************************************)
(* The preemptive round-robin scheduler of kernel/task/scheduler.rs, the   *)
(* timer interrupt that drives it (kernel/timer.rs) and the calls through  *)
(* which tasks and the shell reach it: yield_now, exit_current_task,       *)
(* spawn, kill and sys_getpid.                                             *)
(*                                                                         *)
(* One processor executes everything.  A step is what the processor does   *)
(* between two points at which something else may happen: code that runs   *)
(* with interrupts disabled is split only where it hands over (entry of    *)
(* the timer handler, end of interrupt, scheduling decision, the switch    *)
(* of stacks), and sys_getpid, which locks SCHEDULER with interrupts       *)
(* enabled, is split between locking and reading.                          *)
(***************************************************************************)
EXTENDS Integers, Sequences, FiniteSets, Ordering

CONSTANTS DefaultQuantum,  \* timer ticks of a time slice
          MaxId            \* bound: ids handed out by NEXT_TASK_ID

ASSUME QuantumAssumption == DefaultQuantum \in Nat \ {0}
ASSUME MaxIdAssumption == MaxId \in Nat

Kernel == 0                     \* TaskId(0), the task that runs the GUI loop
Ids == 0..MaxId
NoId == -1                      \* no lock holder; no answer from getpid yet
NoSwitch == [from |-> NoId, to |-> NoId, at |-> "task"]

VARIABLES
  tasks,        \* Scheduler.tasks: the vector of task records
  current,      \* Scheduler.current, counted from 1
  nextId,       \* NEXT_TASK_ID
  lock,         \* who holds the SCHEDULER mutex across a step, or NoId
  cpu,          \* the id whose stack the processor is on
  pc,           \* what the processor executes there
  interrupts,   \* the IF flag
  inService,    \* the PIC waits for the end-of-interrupt of the timer
  interrupted,  \* what the timer handler on the stack will return to
  pending,      \* the pair of context pointers taken out of the lock
  pid           \* what sys_getpid answered to each task

vars == <<tasks, current, nextId, lock, cpu, pc, interrupts, inService,
          interrupted, pending, pid>>

(***************************************************************************)
(* A saved context is where the task goes on when it is switched to:       *)
(* "fresh" is the frame Task::new builds for the trampoline, "task" and    *)
(* "getpid" are places in the task's code, "live" is the context of the    *)
(* task on the processor, whose saved stack pointer is out of date.        *)
(***************************************************************************)
Context == {"live", "fresh", "task", "getpid"}
TaskState == {"Ready", "Running", "Terminated"}
Task == [id: Ids, state: TaskState, context: Context, quantum: 0..DefaultQuantum]

NewTask(id) == [id |-> id, state |-> "Ready", context |-> "fresh",
                quantum |-> DefaultQuantum]

kernel_task == [id |-> Kernel, state |-> "Running", context |-> "live",
                quantum |-> DefaultQuantum]

Init ==
  /\ tasks = <<kernel_task>>
  /\ current = 1
  /\ nextId = 1
  /\ lock = NoId
  /\ cpu = Kernel
  /\ pc = "task"
  /\ interrupts = TRUE
  /\ inService = FALSE
  /\ interrupted = "task"
  /\ pending = NoSwitch
  /\ pid = [i \in Ids |-> NoId]

(***************************************************************************)
(* The choice of the next task.                                            *)
(***************************************************************************)
\* Fault: the search does not look at the state of a task.
Runnable_AnyState(s) == 1..Len(s)

Runnable(s) == {i \in 1..Len(s) : s[i].state \in {"Ready", "Running"}}

\* Fault: the search starts at the head of the vector on every switch.
NextRunnable_FromHead(s, c) ==
  IF Runnable(s) \ {c} # {} THEN Least(Runnable(s) \ {c}) ELSE c

\* The first runnable task after c, going round; c itself when there is none.
NextRunnable(s, c) ==
  LET after == {i \in Runnable(s) : i > c}
  IN  IF after # {} THEN Least(after)
      ELSE IF Runnable(s) # {} THEN Least(Runnable(s)) ELSE c

\* Fault: the old task is not put back to Ready.
Switched_KeepsOldRunning(s, c, next) ==
  [s EXCEPT ![next].state = "Running", ![next].quantum = DefaultQuantum]

\* The table after find_and_switch chose next to follow c.
Switched(s, c, next) ==
  IF next = c
  THEN [s EXCEPT ![c].quantum = DefaultQuantum]
  ELSE [s EXCEPT ![c].state = IF @ = "Running" THEN "Ready" ELSE @,
                 ![next].state = "Running",
                 ![next].quantum = DefaultQuantum]

\* The processor goes on at place where, on the stack it is on or has just
\* switched to; the trampoline is the one place entered with IF clear.
Resume(where) ==
  /\ pc' = where
  /\ interrupts' = (where # "fresh")

\* The scheduling decision on table s. When it is to switch, the caller leaves
\* the lock with the two context pointers and will be resumed at place back.
\* When it is not, the caller goes on at place stay.
find_and_switch(s, back, stay) ==
  LET next == NextRunnable(s, current)
  IN  /\ tasks' = Switched(s, current, next)
      /\ current' = next
      /\ IF next # current
         THEN /\ pending' = [from |-> s[current].id, to |-> s[next].id, at |-> back]
              /\ pc' = "switch"
              /\ interrupts' = FALSE
         ELSE pending' = pending /\ Resume(stay)

(***************************************************************************)
(* The timer interrupt.                                                    *)
(***************************************************************************)
TimerInterrupt ==
  /\ interrupts
  /\ ~inService
  /\ pc \in {"task", "getpid"}
  /\ interrupted' = pc
  /\ pc' = "tick"
  /\ interrupts' = FALSE
  /\ inService' = TRUE
  /\ UNCHANGED <<tasks, current, nextId, lock, cpu, pending, pid>>

\* rust_timer_handler: the interrupt is acknowledged before any switch.
rust_timer_handler ==
  /\ pc = "tick"
  /\ inService' = FALSE
  /\ pc' = "schedule"
  /\ UNCHANGED <<tasks, current, nextId, lock, cpu, interrupts, interrupted,
                 pending, pid>>

SkipTick ==
  /\ Resume(interrupted)
  /\ UNCHANGED <<tasks, current, pending>>

UseQuantum ==
  /\ tasks' = [tasks EXCEPT ![current].quantum = @ - 1]
  /\ Resume(interrupted)
  /\ UNCHANGED <<current, pending>>

schedule_preempt ==
  IF Len(tasks) <= 1 THEN SkipTick
  ELSE IF tasks[current].quantum > 1 THEN UseQuantum
  ELSE find_and_switch([tasks EXCEPT ![current].quantum = 0], interrupted, interrupted)

\* Fault: the decision is taken without the lock.
scheduler_schedule_NoTryLock ==
  /\ pc = "schedule"
  /\ schedule_preempt
  /\ UNCHANGED <<nextId, lock, cpu, inService, interrupted, pid>>

\* scheduler_schedule: try_lock, and skip the tick when the lock is taken.
scheduler_schedule ==
  /\ pc = "schedule"
  /\ IF lock = NoId THEN schedule_preempt ELSE SkipTick
  /\ UNCHANGED <<nextId, lock, cpu, inService, interrupted, pid>>

(***************************************************************************)
(* switch_context: the registers and the stack pointer go to the context   *)
(* of one task and are taken from the context of the other.                *)
(***************************************************************************)
IndexOf(id) == CHOOSE i \in 1..Len(tasks) : tasks[i].id = id

\* Fault: the registers of the old task are not saved.
switch_context_NoSave ==
  /\ pc = "switch"
  /\ tasks' = [tasks EXCEPT ![IndexOf(pending.to)].context = "live"]
  /\ Resume(tasks[IndexOf(pending.to)].context)
  /\ cpu' = pending.to
  /\ pending' = NoSwitch
  /\ UNCHANGED <<current, nextId, lock, inService, interrupted, pid>>

switch_context ==
  /\ pc = "switch"
  /\ LET from == IndexOf(pending.from)
         to   == IndexOf(pending.to)
     IN  /\ tasks' = [tasks EXCEPT ![from].context = pending.at,
                                   ![to].context = "live"]
         /\ Resume(tasks[to].context)
  /\ cpu' = pending.to
  /\ pending' = NoSwitch
  /\ UNCHANGED <<current, nextId, lock, inService, interrupted, pid>>

\* task_entry_trampoline enables interrupts and calls the entry function.
task_entry_trampoline ==
  /\ pc = "fresh"
  /\ Resume("task")
  /\ UNCHANGED <<tasks, current, nextId, lock, cpu, inService, interrupted,
                 pending, pid>>

(***************************************************************************)
(* Calls made by the running task.  SCHEDULER.lock() spins: with           *)
(* interrupts disabled nothing can ever release the mutex, and the         *)
(* processor is lost.                                                      *)
(***************************************************************************)
SpinForever ==
  /\ pc' = "spin"
  /\ interrupts' = FALSE
  /\ UNCHANGED <<tasks, current, nextId, lock, cpu, inService, interrupted,
                 pending, pid>>

\* schedule_yield on table s; stay is where the caller goes on without a switch.
schedule_yield(s, stay) ==
  IF Len(s) <= 1
  THEN tasks' = s /\ Resume(stay) /\ UNCHANGED <<current, pending>>
  ELSE find_and_switch(s, "task", stay)

yield_now ==
  /\ pc = "task"
  /\ IF lock # NoId THEN SpinForever
     ELSE /\ schedule_yield(tasks, "task")
          /\ UNCHANGED <<nextId, lock, cpu, inService, interrupted, pid>>

\* Fault: the task frees its own slot, and its stack, on the way out.
exit_current_task_Frees ==
  /\ pc = "task"
  /\ cpu # Kernel
  /\ tasks' = Retained(tasks, (1..Len(tasks)) \ {current})
  /\ UNCHANGED <<current, nextId, lock, cpu, pc, interrupts, inService,
                 interrupted, pending, pid>>

\* exit_current_task, called by the trampoline when the entry function returns
\* and by sys_exit; the loop behind the call is the place "halt".
exit_current_task ==
  /\ pc = "task"
  /\ cpu # Kernel
  /\ IF lock # NoId THEN SpinForever
     ELSE /\ schedule_yield([tasks EXCEPT ![current].state = "Terminated"], "halt")
          /\ UNCHANGED <<nextId, lock, cpu, inService, interrupted, pid>>

\* spawn, called by the shell commands spawn and exec in the kernel task.
spawn ==
  /\ pc = "task"
  /\ cpu = Kernel
  /\ nextId <= MaxId
  /\ IF lock # NoId THEN SpinForever
     ELSE /\ tasks' = Append(tasks, NewTask(nextId))
          /\ nextId' = nextId + 1
          /\ UNCHANGED <<current, lock, cpu, pc, interrupts, inService,
                         interrupted, pending, pid>>

(***************************************************************************)
(* kill: the shell command marks the first task with that id that is not   *)
(* terminated, then removes every terminated task from the vector and      *)
(* looks for the new index of the running one.                             *)
(***************************************************************************)
Kept(s) == {i \in 1..Len(s) : s[i].id = Kernel \/ s[i].state # "Terminated"}

RunningIn(s) == {i \in 1..Len(s) : s[i].state = "Running"}

cleanup_terminated(s) ==
  LET kept == Retained(s, Kept(s))
  IN  /\ tasks' = kept
      /\ current' = IF RunningIn(kept) # {} THEN Least(RunningIn(kept)) ELSE current

Killable(id) == {i \in 1..Len(tasks) : tasks[i].id = id /\ tasks[i].state # "Terminated"}

kill(id) ==
  /\ pc = "task"
  /\ cpu = Kernel
  /\ id # Kernel
  /\ IF lock # NoId THEN SpinForever
     ELSE /\ Killable(id) # {}
          /\ cleanup_terminated([tasks EXCEPT ![Least(Killable(id))].state = "Terminated"])
          /\ UNCHANGED <<nextId, lock, cpu, pc, interrupts, inService,
                         interrupted, pending, pid>>

(***************************************************************************)
(* sys_getpid, called once by the built-in program run_user_hello: it      *)
(* locks SCHEDULER with interrupts enabled and answers the id of the first *)
(* task in state Running.                                                  *)
(***************************************************************************)
getpid_lock ==
  /\ pc = "task"
  /\ cpu # Kernel
  /\ pid[cpu] = NoId
  /\ lock = NoId
  /\ lock' = cpu
  /\ pc' = "getpid"
  /\ UNCHANGED <<tasks, current, nextId, cpu, interrupts, inService,
                 interrupted, pending, pid>>

FirstRunning == IF RunningIn(tasks) = {} THEN Kernel ELSE tasks[Least(RunningIn(tasks))].id

sys_getpid ==
  /\ pc = "getpid"
  /\ pid' = [pid EXCEPT ![cpu] = FirstRunning]
  /\ lock' = NoId
  /\ pc' = "task"
  /\ UNCHANGED <<tasks, current, nextId, cpu, interrupts, inService,
                 interrupted, pending>>

----------------------------------------------------------------------------

TaskStep ==
  \/ yield_now
  \/ exit_current_task
  \/ spawn
  \/ \E id \in Ids : kill(id)
  \/ getpid_lock

\* What the processor does without the choice of any program.
KernelStep ==
  \/ rust_timer_handler
  \/ scheduler_schedule
  \/ switch_context
  \/ task_entry_trampoline
  \/ sys_getpid

Next == TimerInterrupt \/ KernelStep \/ TaskStep

Spec == Init /\ [][Next]_vars

(***************************************************************************)
(* The processor keeps executing instructions and the PIT keeps ticking at *)
(* 100 Hz; no program is assumed to yield, to exit or to do anything. The  *)
(* strong fairness says that the 10 ms between two ticks suffice for the   *)
(* few instructions of sys_getpid: ticks may hit it, but not for ever.     *)
(***************************************************************************)
Fairness == WF_vars(KernelStep) /\ WF_vars(TimerInterrupt) /\ SF_vars(sys_getpid)

FairSpec == Spec /\ Fairness

----------------------------------------------------------------------------

PcSet == {"task", "getpid", "tick", "schedule", "switch", "fresh", "halt", "spin"}

\* The types of the variables; current is an index of the vector, which the
\* code uses to index it without a check on every tick.
TypeOK ==
  /\ tasks \in Seq(Task)
  /\ current \in 1..Len(tasks)
  /\ nextId \in 1..(MaxId + 1)
  /\ lock \in Ids \cup {NoId}
  /\ cpu \in Ids
  /\ pc \in PcSet
  /\ interrupts \in BOOLEAN
  /\ inService \in BOOLEAN
  /\ interrupted \in {"task", "getpid"}
  /\ pending \in [from: Ids \cup {NoId}, to: Ids \cup {NoId}, at: {"task", "getpid"}]
  /\ pid \in [Ids -> Ids \cup {NoId}]

\* Exactly one task is Running, it is the one Scheduler.current points at,
\* and outside the window between the decision and the switch of stacks it is
\* the one whose stack the processor is on. This is what sys_getpid, ps and
\* cleanup_terminated take for granted when they look for a Running task.
OneRunning ==
  /\ RunningIn(tasks) = {current}
  /\ cpu = IF pc = "switch" THEN pending.from ELSE tasks[current].id

\* A task the scheduler may pick has a context that was saved and not yet
\* resumed; only the task that is on the processor has none. Switching to a
\* stale stack pointer would run two tasks on one stack.
ContextsSaved ==
  \A i \in 1..Len(tasks) :
    tasks[i].context = "live" <=> tasks[i].id = cpu

\* scheduler_schedule uses try_lock "to avoid deadlocks": nobody ever spins on
\* SCHEDULER with interrupts disabled, which holds because whoever holds the
\* mutex is never switched away from. And the loop behind exit_current_task,
\* which "should never" be reached, is not.
ProcessorNeverLost ==
  /\ pc \notin {"spin", "halt"}
  /\ lock # NoId => /\ lock = cpu
                    /\ "getpid" \in {pc, interrupted}
                    /\ pc \in {"getpid", "tick", "schedule"}

\* A terminated task is never dispatched again, and the kernel task, which
\* runs the GUI and every shell command, is never terminated.
TerminatedStaysOff ==
  \A i \in 1..Len(tasks) :
    tasks[i].state = "Terminated" =>
      /\ tasks[i].id # Kernel
      /\ tasks[i].id = cpu => pc = "switch"

\* sys_getpid answers the id of the task that called it.
PidIsOwn == \A i \in Ids : pid[i] \in {NoId, i}

\* Interrupts are disabled and the timer unacknowledged only inside the kernel:
\* whenever a program runs, the next tick can reach the processor. In
\* particular a task entered for the first time from the timer handler, which
\* does not return through that handler, does not run with the timer masked.
TimerReachesPrograms ==
  pc \in {"task", "getpid"} => interrupts /\ ~inService

InTable(id) == \E i \in 1..Len(tasks) : tasks[i].id = id
IsReady(id) == \E i \in 1..Len(tasks) : tasks[i].id = id /\ tasks[i].state = "Ready"

\* Every task that is ready gets the processor, unless it is killed first,
\* whatever the other programs do: none has to yield.
EveryReadyTaskRuns ==
  \A id \in Ids : IsReady(id) ~> (cpu = id /\ pc = "task") \/ ~InTable(id)

(***************************************************************************)
(* The parts of the inductive invariant that are not properties above.     *)
(***************************************************************************)

\* The context pointers used after the lock is dropped still point at two
\* different tasks of the vector, the second of them the chosen one.
PendingValid ==
  pc = "switch" =>
    /\ \E i \in 1..Len(tasks) : tasks[i].id = pending.from
    /\ tasks[current].id = pending.to
    /\ pending.from # pending.to

\* The vector is ordered by id, task 0 first: ids are handed out in the order
\* in which tasks are pushed, and no id is in the vector twice.
IdsOrdered ==
  /\ tasks # <<>> /\ tasks[1].id = Kernel
  /\ \A i \in 1..Len(tasks) : tasks[i].id < nextId
  /\ \A i, j \in 1..Len(tasks) : i < j => tasks[i].id < tasks[j].id

\* What the processor's place says of the interrupt flag, of the timer and of
\* the lock; no task is switched away from inside sys_getpid.
PlaceShape ==
  /\ interrupts <=> pc \in {"task", "getpid"}
  /\ inService <=> pc = "tick"
  /\ pc = "getpid" => lock = cpu
  /\ pc \in {"tick", "schedule"} => (lock = NoId <=> interrupted = "task")
  /\ pc \in {"tick", "schedule"} /\ lock # NoId => lock = cpu
  /\ pc \in {"task", "fresh", "switch"} => lock = NoId
  /\ pc = "switch" => pending.at = "task"
  /\ \A i \in 1..Len(tasks) : tasks[i].context # "getpid"

SchedulerInv ==
  /\ TypeOK
  /\ OneRunning
  /\ ContextsSaved
  /\ PendingValid
  /\ ProcessorNeverLost
  /\ TerminatedStaysOff
  /\ PidIsOwn
  /\ IdsOrdered
  /\ PlaceShape

(***************************************************************************)
(* The life of each task, as the abstract specification sees it.           *)
(***************************************************************************)
StatusOf(id) ==
  IF id >= nextId THEN "unborn"
  ELSE IF ~InTable(id) THEN "dead"
  ELSE CASE tasks[IndexOf(id)].state = "Ready"      -> "ready"
         [] tasks[IndexOf(id)].state = "Running"    -> "running"
         [] tasks[IndexOf(id)].state = "Terminated" -> "dead"

status == [id \in Ids |-> StatusOf(id)]

Lifecycle == INSTANCE TaskLifecycle

\* The scheduler implements the life cycle of TaskLifecycle: one task runs at
\* a time, a switch takes a ready one, the dead never come back, and ids are
\* never given out twice.
ImplementsLifecycle == Lifecycle!Spec

=============================================================================

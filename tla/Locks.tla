-------------------------------- MODULE Locks --------------------------------
(***************************************************************************)
(* The spin locks of the kernel: who takes which one, in which order and   *)
(* with interrupts enabled or not.  The kernel task (GUI loop and shell),  *)
(* the programs and the interrupt handlers run on one processor, so a lock *)
(* that is waited for with interrupts disabled is never released.          *)
(*                                                                         *)
(* A piece of code is the sequence of what it does to locks and to the     *)
(* interrupt flag; everything else it does is left out.  MEMORY_MANAGER    *)
(* and ENV_VARS are left out too: only the kernel task takes them.         *)
(*                                                                         *)
(* A system call comes in one of two ways.  The programs the kernel brings *)
(* along call the dispatcher like any function, with interrupts enabled.   *)
(* The syscall instruction masks them (SFMASK) until sysretq.  Which       *)
(* privilege a program has after sysretq is left out: it goes on.          *)
(***************************************************************************)
EXTENDS Integers, Sequences

CONSTANT Programs     \* tasks besides the kernel task

Kernel == 0
ASSUME LocksAssumption == Programs \subseteq Nat \ {Kernel}

Tasks == {Kernel} \cup Programs
LockNames == {"SCHEDULER", "ALLOCATOR", "FS", "EVENT_QUEUE", "SCANCODE_QUEUE", "WRITER",
              "SERIAL1", "KEYBOARD", "MOUSE_STATE", "PICS"}
Free == -1
Irq == -2                 \* an interrupt handler as the holder of a lock

VARIABLES
  holder,    \* who holds each lock
  alive,     \* the tasks in the task table
  cpu,       \* the task on the processor
  code, pos, \* what each task executes, and the next step of it
  masked,    \* the task has disabled interrupts
  irq,       \* the interrupt handler running on top of it, and its next step
  created,   \* the lazily initialised SCHEDULER exists
  mode       \* what the kernel task does: still "boot", then "gui" or "console"

vars == <<holder, alive, cpu, code, pos, masked, irq, created, mode>>

Step(op, name) == [op |-> op, name |-> name]
Lock(l) == Step("lock", l)
TryLock(l) == Step("try_lock", l)
Unlock(l) == Step("unlock", l)
Cli == Step("cli", "none")
Sti == Step("sti", "none")

(***************************************************************************)
(* The code.  Every allocation and every release of memory locks the heap. *)
(***************************************************************************)
Alloc == <<Lock("ALLOCATOR"), Unlock("ALLOCATOR")>>

\* The first use of SCHEDULER builds it: the vector gets its kernel task.
Deref == <<Step("create", "ALLOCATOR"), Step("created", "ALLOCATOR")>>

without_interrupts(body) == <<Cli>> \o body \o <<Sti>>

Scheduling(body) == Deref \o <<Lock("SCHEDULER")>> \o body \o <<Unlock("SCHEDULER")>>

\* Shell commands on files hold FS while they copy data and build messages.
file_command == <<Lock("FS")>> \o Alloc \o <<Unlock("FS")>>

pop == <<TryLock("EVENT_QUEUE"), Unlock("EVENT_QUEUE")>>

\* The console asks for a scancode, and decodes the one it gets.
poll_scancode == <<Lock("SCANCODE_QUEUE"), Unlock("SCANCODE_QUEUE")>>
read_key == poll_scancode \o <<Lock("KEYBOARD"), Unlock("KEYBOARD")>>

spawn == without_interrupts(Scheduling(Alloc \o <<Step("push", "none")>>))
cmd_kill == without_interrupts(Scheduling(<<Step("remove", "none")>> \o Alloc))
cmd_ps == without_interrupts(Scheduling(Alloc))

\* Fault: the console is locked with interrupts enabled.
print_Interruptible == <<Lock("WRITER"), Unlock("WRITER")>>

print == without_interrupts(<<Lock("WRITER"), Unlock("WRITER")>>)
serial_print == without_interrupts(<<Lock("SERIAL1"), Unlock("SERIAL1")>>)

\* Fault: the lock is kept across the switch.
yield_now_KeepsLock ==
  without_interrupts(Deref \o <<Lock("SCHEDULER"), Step("switch", "none"), Unlock("SCHEDULER")>>)

yield_now == without_interrupts(Scheduling(<<>>) \o <<Step("switch", "none")>>)
end_task == Scheduling(<<Step("terminate", "none")>>) \o <<Step("switch", "none")>>
exit_current_task == <<Cli>> \o end_task

\* Dropping the open files frees their paths, before interrupts are disabled.
sys_exit == Alloc \o exit_current_task

sys_getpid == Scheduling(<<>>)

\* The same calls, and those no program of the kernel makes, through syscall.
\* print and yield_now, which mask interrupts themselves, are the same this way.
entry(body) == <<Cli>> \o body \o <<Sti>>
lookup == Alloc \o <<Lock("FS"), Unlock("FS")>>

sys_open == entry(lookup)
sys_read == entry(<<Lock("FS"), Unlock("FS")>>)
sys_close == entry(Alloc)
sys_stat == entry(lookup \o Alloc)     \* and a sys_open that finds no file
entered_getpid == entry(sys_getpid)
entered_exit == <<Cli>> \o Alloc \o end_task

EndOfInterrupt == <<Lock("PICS"), Unlock("PICS")>>

\* Fault: the handler waits for the scheduler.
timer_Waits ==
  EndOfInterrupt \o Deref \o <<Lock("SCHEDULER"), Step("preempt", "SCHEDULER")>>

timer == EndOfInterrupt \o Deref \o <<TryLock("SCHEDULER"), Step("preempt", "SCHEDULER")>>

\* The keyboard's handler before the desktop is there.
add_scancode == <<Lock("SCANCODE_QUEUE"), Unlock("SCANCODE_QUEUE")>> \o EndOfInterrupt

keyboard ==
  <<Lock("KEYBOARD"), TryLock("EVENT_QUEUE"), Unlock("EVENT_QUEUE"), Unlock("KEYBOARD")>>
    \o EndOfInterrupt

mouse ==
  <<Lock("MOUSE_STATE"), TryLock("EVENT_QUEUE"), Unlock("EVENT_QUEUE"), Unlock("MOUSE_STATE")>>
    \o EndOfInterrupt

Steps ==
  [file_command |-> file_command, pop |-> pop, poll_scancode |-> poll_scancode,
   read_key |-> read_key, alloc |-> Alloc, spawn |-> spawn, cmd_kill |-> cmd_kill,
   cmd_ps |-> cmd_ps, print |-> print, serial_print |-> serial_print,
   yield_now |-> yield_now, exit_current_task |-> exit_current_task,
   sys_exit |-> sys_exit, sys_getpid |-> sys_getpid, sys_open |-> sys_open,
   sys_read |-> sys_read, sys_close |-> sys_close, sys_stat |-> sys_stat,
   entered_getpid |-> entered_getpid, entered_exit |-> entered_exit,
   timer |-> timer, add_scancode |-> add_scancode, keyboard |-> keyboard, mouse |-> mouse]

Handlers == {"timer", "add_scancode", "keyboard", "mouse"}
TableCommands == {"spawn", "cmd_kill", "cmd_ps"}
ConsoleCode == {"poll_scancode", "read_key"}
KernelCode ==
  {"file_command", "pop", "alloc", "print", "serial_print"} \cup TableCommands \cup ConsoleCode

DirectCalls == {"print", "serial_print", "yield_now", "sys_getpid", "sys_exit", "exit_current_task"}
EntryCalls == {"sys_open", "sys_read", "sys_close", "sys_stat", "entered_getpid", "entered_exit"}
Calls == DirectCalls \cup EntryCalls

\* Right after interrupts::enable in init_late: the heap is there, no task is.
Init ==
  /\ holder = [l \in LockNames |-> Free]
  /\ alive = {Kernel}
  /\ cpu = Kernel
  /\ code = [t \in Tasks |-> "idle"]
  /\ pos = [t \in Tasks |-> 1]
  /\ masked = [t \in Tasks |-> FALSE]
  /\ irq = [code |-> "idle", pos |-> 1]
  /\ created = FALSE
  /\ mode = "boot"

(***************************************************************************)
(* What the processor executes next: the handler, if there is one.         *)
(***************************************************************************)
InHandler == irq.code # "idle"
Busy == InHandler \/ code[cpu] # "idle"
Now == IF InHandler THEN Steps[irq.code][irq.pos] ELSE Steps[code[cpu]][pos[cpu]]
Self == IF InHandler THEN Irq ELSE cpu

Advanced(name, at) ==
  IF at > Len(Steps[name]) THEN [code |-> "idle", pos |-> 1] ELSE [code |-> name, pos |-> at]

Advance(n) ==
  IF InHandler
  THEN irq' = Advanced(irq.code, irq.pos + n) /\ UNCHANGED <<code, pos>>
  ELSE LET next == Advanced(code[cpu], pos[cpu] + n)
       IN  /\ code' = [code EXCEPT ![cpu] = next.code]
           /\ pos' = [pos EXCEPT ![cpu] = next.pos]
           /\ UNCHANGED irq

Doing(op) == Busy /\ Now.op = op

(***************************************************************************)
(* The steps.                                                              *)
(***************************************************************************)
Acquire ==
  /\ Doing("lock")
  /\ holder[Now.name] = Free
  /\ holder' = [holder EXCEPT ![Now.name] = Self]
  /\ Advance(1)
  /\ UNCHANGED <<alive, cpu, masked, created, mode>>

\* Without the lock, what is done under it is skipped.
TryAcquire ==
  /\ Doing("try_lock")
  /\ IF holder[Now.name] = Free
     THEN holder' = [holder EXCEPT ![Now.name] = Self] /\ Advance(1)
     ELSE UNCHANGED holder /\ Advance(2)
  /\ UNCHANGED <<alive, cpu, masked, created, mode>>

Release ==
  /\ Doing("unlock")
  /\ holder' = [holder EXCEPT ![Now.name] = Free]
  /\ Advance(1)
  /\ UNCHANGED <<alive, cpu, masked, created, mode>>

Mask ==
  /\ Doing("cli") \/ Doing("sti")
  /\ masked' = [masked EXCEPT ![cpu] = Now.op = "cli"]
  /\ Advance(1)
  /\ UNCHANGED <<holder, alive, cpu, created, mode>>

Create ==
  /\ Doing("create")
  /\ IF created THEN UNCHANGED holder /\ Advance(2)
     ELSE /\ holder["ALLOCATOR"] = Free
          /\ holder' = [holder EXCEPT !["ALLOCATOR"] = Self]
          /\ Advance(1)
  /\ UNCHANGED <<alive, cpu, masked, created, mode>>

Created ==
  /\ Doing("created")
  /\ created' = TRUE
  /\ holder' = [holder EXCEPT !["ALLOCATOR"] = Free]
  /\ Advance(1)
  /\ UNCHANGED <<alive, cpu, masked, mode>>

\* The timer handler leaves the lock; the running task goes on, or another one.
Preempt(t) ==
  /\ Doing("preempt")
  /\ t \in alive
  /\ holder' = [holder EXCEPT !["SCHEDULER"] = Free]
  /\ cpu' = t
  /\ Advance(1)
  /\ UNCHANGED <<alive, masked, created, mode>>

SwitchTo(t) ==
  /\ Doing("switch")
  /\ t \in alive
  /\ cpu' = t
  /\ Advance(1)
  /\ UNCHANGED <<holder, alive, masked, created, mode>>

Push(t) ==
  /\ Doing("push")
  /\ t \in Programs \ alive
  /\ code[t] = "idle"     \* bound: the number of a task killed in its code is not reused
  /\ alive' = alive \cup {t}
  /\ masked' = [masked EXCEPT ![t] = FALSE]
  /\ Advance(1)
  /\ UNCHANGED <<holder, cpu, created, mode>>

\* kill takes a task away wherever it is in its code and releases its stack; of
\* an id that is not there nothing is released.
Remove(t) ==
  /\ Doing("remove")
  /\ alive' = alive \ {t}
  /\ Advance(IF t \in alive THEN 1 ELSE 1 + Len(Alloc))
  /\ UNCHANGED <<holder, cpu, masked, created, mode>>

Terminate ==
  /\ Doing("terminate")
  /\ alive' = alive \ {cpu}
  /\ Advance(1)
  /\ UNCHANGED <<holder, cpu, masked, created, mode>>

Execute ==
  \/ Acquire \/ TryAcquire \/ Release \/ Mask \/ Create \/ Created \/ Terminate
  \/ \E t \in Programs : Push(t) \/ Remove(t)

\* The kernel task enters the desktop's loop, or the console's.
StartFront ==
  /\ ~Busy
  /\ cpu = Kernel
  /\ mode = "boot"
  /\ mode' \in {"gui", "console"}
  /\ UNCHANGED <<holder, alive, cpu, code, pos, masked, irq, created>>

\* A task goes on to its next piece of code.
Begin(name) ==
  /\ ~Busy
  /\ name \in IF cpu = Kernel THEN KernelCode ELSE Calls
  /\ name = "pop" => mode = "gui"
  /\ name \in ConsoleCode => mode = "console"
  /\ name \in TableCommands => mode # "boot"
  /\ name = "spawn" => \E t \in Programs \ alive : code[t] = "idle"
  /\ code' = [code EXCEPT ![cpu] = name]
  /\ pos' = [pos EXCEPT ![cpu] = 1]
  /\ UNCHANGED <<holder, alive, cpu, masked, irq, created, mode>>

Interrupt(name) ==
  /\ ~InHandler
  /\ ~masked[cpu]
  /\ name \in {"keyboard", "mouse"} => mode = "gui"
  /\ name = "add_scancode" => mode # "gui"
  /\ irq' = [code |-> name, pos |-> 1]
  /\ UNCHANGED <<holder, alive, cpu, code, pos, masked, created, mode>>

Next ==
  \/ Execute
  \/ StartFront
  \/ \E t \in Tasks : Preempt(t) \/ SwitchTo(t)
  \/ \E name \in KernelCode \cup Calls : Begin(name)
  \/ \E name \in Handlers : Interrupt(name)

Spec == Init /\ [][Next]_vars

(***************************************************************************)
(* The processor executes handlers to their end, the timer ticks and does  *)
(* not hit sys_getpid every time, and the scheduler gives every task the   *)
(* processor again and again, from time to time for at least one step. No  *)
(* task has to begin anything.                                             *)
(***************************************************************************)
RunTask(t) == ~InHandler /\ cpu = t /\ Execute
RunHandler == InHandler /\ (Execute \/ \E t \in Tasks : Preempt(t))

Fairness ==
  /\ WF_vars(RunHandler)
  /\ SF_vars(holder["SCHEDULER"] = Free /\ Interrupt("timer"))
  /\ \A t \in Tasks : SF_vars(RunTask(t)) /\ SF_vars(Preempt(t))

FairSpec == Spec /\ Fairness /\ WF_vars(\E t \in Tasks : SwitchTo(t))

----------------------------------------------------------------------------

\* The step that comes next has to wait for a lock.
Waiting ==
  /\ Doing("lock") \/ (Doing("create") /\ ~created)
  /\ holder[Now.name] # Free

\* The processor waits with interrupts disabled: for ever.
Lost == Waiting /\ (InHandler \/ masked[cpu])

\* A program that ends with sys_exit is stopped inside the heap.
StoppedInSysExit(t) ==
  t \in Programs /\ holder["ALLOCATOR"] = t /\ code[t] = "sys_exit"

FirstTick ==
  irq.code = "timer" /\ Doing("create") /\ holder["ALLOCATOR"] = Kernel

KeyOfTheConsole ==
  /\ irq.code = "add_scancode" /\ mode = "console"
  /\ Now.name = "SCANCODE_QUEUE" /\ holder["SCANCODE_QUEUE"] = Kernel

CommandOnTheTable ==
  /\ ~InHandler /\ cpu = Kernel /\ code[Kernel] \in TableCommands
  /\ Now.name = "ALLOCATOR" /\ StoppedInSysExit(holder["ALLOCATOR"])

EnteredCall ==
  /\ ~InHandler /\ cpu \in Programs /\ code[cpu] \in EntryCalls
  /\ \/ Now.name \in {"FS", "ALLOCATOR"} /\ holder[Now.name] = Kernel
     \/ Now.name = "ALLOCATOR" /\ StoppedInSysExit(holder["ALLOCATOR"])

\* The locks are used so that the processor is lost in four ways only: the very
\* first tick finds the kernel task allocating and has to allocate itself to
\* build SCHEDULER; a key arrives while the console looks into its queue; a
\* shell command that works on the task table with interrupts disabled meets
\* the heap of a program stopped in sys_exit; or a program waits inside syscall,
\* where interrupts are masked, for the kernel task or for such a program.
LostInKnownWays == Lost => FirstTick \/ KeyOfTheConsole \/ CommandOnTheTable \/ EnteredCall

Orphaned(l) == holder[l] \in Programs \ (alive \cup {cpu})

\* A task that is killed leaves no lock behind it, wherever it was killed,
\* unless sys_exit was dropping its files: the masked calls cannot be cut, and
\* those print, yield and getpid make are safe.
OrphanedBySysExitOnly ==
  \A l \in LockNames : Orphaned(l) => l = "ALLOCATOR" /\ StoppedInSysExit(holder[l])

\* Every lock is released again, as long as the processor is not lost in one of
\* those ways and no lock is left behind by a kill.
EveryLockIsReleased ==
  \A l \in LockNames :
    holder[l] # Free ~> holder[l] = Free \/ Lost \/ \E o \in LockNames : Orphaned(o)

\* What the comment of scheduler_schedule says: the timer handler does not
\* deadlock, because it does not wait.
TimerNeverWaits == irq.code = "timer" => ~Waiting

=============================================================================

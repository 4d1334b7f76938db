---------------------------- MODULE KernelProofs ----------------------------
(***************************************************************************)
(* Proofs about the kernel's two allotters, of the processor and of memory.*)
(*                                                                         *)
(* SchedulerInv is an invariant of Scheduler for every time slice and      *)
(* every number of tasks, and Scheduler implements TaskLifecycle.          *)
(*                                                                         *)
(* MemoryInv is one of Memory, for every set of memory maps, every set of  *)
(* ELF programs and every layout of pages and tables.                      *)
(***************************************************************************)
EXTENDS Scheduler, Memory, Facts

(***************************************************************************)
(* Facts about the operators on a table of tasks.                          *)
(***************************************************************************)

\* find_and_switch stays within the vector and only picks a runnable task.
LEMMA NextRunnableProperties ==
  ASSUME NEW s \in Seq(Task), NEW c \in 1..Len(s)
  PROVE  /\ NextRunnable(s, c) \in 1..Len(s)
         /\ NextRunnable(s, c) # c => NextRunnable(s, c) \in Runnable(s)
         /\ Runnable(s) # {} => NextRunnable(s, c) \in Runnable(s)
<1> DEFINE after == {i \in Runnable(s) : i > c}
<1>1. Len(s) \in Nat /\ Runnable(s) \in SUBSET (1..Len(s))
  BY LenProperties DEF Runnable
<1>2. Runnable(s) \in SUBSET Nat /\ after \in SUBSET Nat
  BY <1>1
<1>3. after # {} => Least(after) \in after
  BY <1>2, LeastProperties, Zenon
<1>4. Runnable(s) # {} => Least(Runnable(s)) \in Runnable(s)
  BY <1>2, LeastProperties, Zenon
<1> HIDE DEF after
<1>5. after # {} => Least(after) \in Runnable(s) /\ Runnable(s) # {}
  BY <1>3 DEF after
<1>6. NextRunnable(s, c) = IF after # {} THEN Least(after)
                           ELSE IF Runnable(s) # {} THEN Least(Runnable(s)) ELSE c
  BY Zenon DEF NextRunnable, after
<1> QED BY <1>1, <1>4, <1>5, <1>6

\* Replacing one record keeps the type and the length of the table.
LEMMA TableUpdate ==
  ASSUME NEW s \in Seq(Task), NEW c \in 1..Len(s), NEW t \in Task
  PROVE  /\ [s EXCEPT ![c] = t] \in Seq(Task)
         /\ Len([s EXCEPT ![c] = t]) = Len(s)
         /\ \A i \in 1..Len(s) : [s EXCEPT ![c] = t][i] = IF i = c THEN t ELSE s[i]
BY ExceptSeq, LenProperties

\* What a switch does to the table: identities and contexts stay, the chosen
\* task is Running, and the old one is Ready unless it is terminated.
LEMMA SwitchedProperties ==
  ASSUME NEW s \in Seq(Task), NEW c \in 1..Len(s), NEW next \in 1..Len(s)
  PROVE  /\ Switched(s, c, next) \in Seq(Task)
         /\ Len(Switched(s, c, next)) = Len(s)
         /\ \A i \in 1..Len(s) :
              /\ Switched(s, c, next)[i].id = s[i].id
              /\ Switched(s, c, next)[i].context = s[i].context
              /\ Switched(s, c, next)[i].state =
                   IF next = c THEN s[i].state
                   ELSE IF i = next THEN "Running"
                   ELSE IF i = c /\ s[c].state = "Running" THEN "Ready"
                   ELSE s[i].state
<1>1. \A i \in 1..Len(s) : s[i] \in Task
  BY ElementOfSeq
<1>2. DefaultQuantum \in 0..DefaultQuantum
  BY QuantumAssumption
<1>3. CASE next = c
  <2> DEFINE t == [s[c] EXCEPT !.quantum = DefaultQuantum]
  <2>1. Switched(s, c, next) = [s EXCEPT ![c] = t]
    BY <1>3 DEF Switched
  <2>2. t \in Task /\ t.id = s[c].id /\ t.context = s[c].context /\ t.state = s[c].state
    BY <1>1, <1>2 DEF Task
  <2> QED BY <1>3, <2>1, <2>2, TableUpdate
<1>4. CASE next # c
  <2> DEFINE old == [s[c] EXCEPT !.state = IF @ = "Running" THEN "Ready" ELSE @]
             new == [s[next] EXCEPT !.state = "Running", !.quantum = DefaultQuantum]
             mid == [s EXCEPT ![c] = old]
  <2>1. old \in Task /\ old.id = s[c].id /\ old.context = s[c].context
        /\ old.state = IF s[c].state = "Running" THEN "Ready" ELSE s[c].state
    BY <1>1 DEF Task, TaskState
  <2>2. new \in Task /\ new.id = s[next].id /\ new.context = s[next].context
        /\ new.state = "Running"
    BY <1>1, <1>2 DEF Task, TaskState
  <2>3. mid \in Seq(Task) /\ Len(mid) = Len(s)
        /\ \A i \in 1..Len(s) : mid[i] = IF i = c THEN old ELSE s[i]
    BY <2>1, TableUpdate
  <2>4. Switched(s, c, next) = [mid EXCEPT ![next] = new]
    <3>1. Switched(s, c, next) =
            [s EXCEPT ![c].state = IF @ = "Running" THEN "Ready" ELSE @,
                      ![next].state = "Running",
                      ![next].quantum = DefaultQuantum]
      BY <1>4, Zenon DEF Switched
    <3>2. mid[next] = s[next]
      BY <1>4, <2>3
    <3> QED BY <1>4, <3>1, <3>2
  <2> HIDE DEF old, new, mid
  <2>5. /\ [mid EXCEPT ![next] = new] \in Seq(Task)
        /\ Len([mid EXCEPT ![next] = new]) = Len(s)
        /\ \A i \in 1..Len(s) : [mid EXCEPT ![next] = new][i] = IF i = next THEN new ELSE mid[i]
    BY <2>2, <2>3, TableUpdate
  <2> QED BY <1>4, <2>1, <2>2, <2>3, <2>4, <2>5
<1> QED BY <1>3, <1>4

(***************************************************************************)
(* The initial state.                                                      *)
(***************************************************************************)
LEMMA InitInv == Init => SchedulerInv
<1> SUFFICES ASSUME Init PROVE SchedulerInv
  OBVIOUS
<1> USE DEF Init
<1>1. kernel_task \in Task /\ Kernel \in Ids
  BY QuantumAssumption, MaxIdAssumption DEF kernel_task, Task, TaskState, Context, Ids, Kernel
<1>2. tasks \in Seq(Task) /\ Len(tasks) = 1 /\ tasks[1] = kernel_task
  BY <1>1
<1>3. TypeOK
  <2>1. interrupts \in BOOLEAN /\ inService \in BOOLEAN
    BY Zenon
  <2>2. pending \in [from: Ids \cup {NoId}, to: Ids \cup {NoId}, at: {"task", "getpid"}]
    BY DEF NoSwitch
  <2>3. current \in 1..Len(tasks) /\ nextId \in 1..(MaxId + 1)
    BY <1>2, MaxIdAssumption
  <2> QED BY <1>1, <1>2, <2>1, <2>2, <2>3 DEF TypeOK, PcSet
<1>4. \A i \in 1..Len(tasks) : i = 1
  BY <1>2
<1>5. /\ tasks[1].id = Kernel /\ tasks[1].state = "Running"
      /\ tasks[1].context = "live"
  BY <1>2 DEF kernel_task
<1>6. OneRunning /\ ContextsSaved /\ PendingValid /\ TerminatedStaysOff
  BY <1>2, <1>4, <1>5 DEF OneRunning, RunningIn, ContextsSaved, PendingValid, TerminatedStaysOff
<1>7. ProcessorNeverLost /\ PidIsOwn
  BY DEF ProcessorNeverLost, PidIsOwn
<1>8. IdsOrdered
  BY <1>2, <1>4, <1>5 DEF IdsOrdered, Kernel
<1>9. PlaceShape
  BY <1>4, <1>5 DEF PlaceShape
<1> QED BY <1>3, <1>6, <1>7, <1>8, <1>9 DEF SchedulerInv

(***************************************************************************)
(* The scheduling decision, for each of its callers: s is the table the    *)
(* caller prepared, in which the current task is Running or, when it is    *)
(* exiting, Terminated.                                                    *)
(***************************************************************************)
Prepared(s) ==
  /\ s \in Seq(Task)
  /\ Len(s) = Len(tasks)
  /\ \A i \in 1..Len(tasks) : /\ s[i].id = tasks[i].id
                              /\ s[i].context = tasks[i].context
                              /\ i # current => s[i].state = tasks[i].state
  /\ s[current].state \in {"Running", "Terminated"}
  /\ s[current].state = "Terminated" => cpu # Kernel

\* At a place from which the scheduler is called.
AtCall == \/ pc = "task"
          \/ pc = "schedule" /\ interrupted = "task"

LEMMA FindAndSwitchStep ==
  ASSUME SchedulerInv, NEW s, Prepared(s), AtCall, lock = NoId,
         NEW stay, s[current].state = "Running" => stay = "task",
         find_and_switch(s, "task", stay),
         UNCHANGED <<nextId, lock, cpu, inService, interrupted, pid>>
  PROVE  SchedulerInv'
<1> DEFINE next == NextRunnable(s, current)
<1> USE DEF SchedulerInv
<1>1. /\ tasks \in Seq(Task) /\ Len(tasks) \in Nat /\ current \in 1..Len(tasks)
      /\ \A i \in 1..Len(tasks) : tasks[i] \in Task
  BY LenProperties, ElementOfSeq DEF TypeOK
<1>2. /\ s \in Seq(Task) /\ Len(s) = Len(tasks) /\ current \in 1..Len(s)
      /\ \A i \in 1..Len(tasks) : s[i] \in Task
  BY <1>1, ElementOfSeq DEF Prepared
<1>3. /\ next \in 1..Len(tasks)
      /\ next # current => next \in Runnable(s)
      /\ Runnable(s) # {} => next \in Runnable(s)
  BY <1>2, NextRunnableProperties
<1>4. tasks' = Switched(s, current, next) /\ current' = next
  BY DEF find_and_switch
<1> HIDE DEF next
<1>5. /\ tasks' \in Seq(Task) /\ Len(tasks') = Len(tasks)
      /\ \A i \in 1..Len(tasks) :
           /\ tasks'[i].id = tasks[i].id
           /\ tasks'[i].context = tasks[i].context
           /\ tasks'[i].state =
                IF next = current THEN s[i].state
                ELSE IF i = next THEN "Running"
                ELSE IF i = current /\ s[current].state = "Running" THEN "Ready"
                ELSE s[i].state
  BY <1>2, <1>3, <1>4, SwitchedProperties DEF Prepared
<1>6. /\ cpu = tasks[current].id
      /\ \A i \in 1..Len(tasks) : tasks[i].state = "Running" <=> i = current
  BY DEF OneRunning, AtCall, RunningIn
<1>7. s[current].state = "Terminated" => next # current
  <2> SUFFICES ASSUME s[current].state = "Terminated" PROVE next # current
    OBVIOUS
  <2>1. 1 \in 1..Len(tasks) /\ tasks[1].id = Kernel /\ current # 1
    BY <1>1, <1>6 DEF IdsOrdered, Prepared
  <2>2. tasks[1].state = "Ready"
    BY <1>1, <1>6, <2>1 DEF TerminatedStaysOff, Task, TaskState
  <2>3. 1 \in Runnable(s)
    BY <1>2, <2>1, <2>2 DEF Runnable, Prepared
  <2>4. current \notin Runnable(s)
    BY DEF Runnable
  <2> QED BY <1>3, <2>3, <2>4
<1>8. \A i, j \in 1..Len(tasks) : tasks[i].id = tasks[j].id => i = j
  <2>1. \A i \in 1..Len(tasks) : tasks[i].id \in Int
    BY <1>1 DEF Task, Ids
  <2> QED BY <2>1, <1>1 DEF IdsOrdered
<1>9. next # current => /\ pc' = "switch" /\ interrupts' = FALSE
                        /\ pending' = [from |-> tasks[current].id, to |-> tasks[next].id,
                                       at |-> "task"]
  BY <1>2, <1>3 DEF find_and_switch, next, Prepared
<1>10. next = current => /\ s[current].state = "Running"
                         /\ pc' = "task" /\ interrupts' = TRUE
                         /\ pending' = pending
  BY <1>7 DEF find_and_switch, next, Resume, Prepared
<1>11. TypeOK'
  <2>1. tasks[current].id \in Ids /\ tasks[next].id \in Ids
    BY <1>1, <1>3 DEF Task
  <2>2. interrupts' \in BOOLEAN /\ inService' \in BOOLEAN
    BY <1>9, <1>10, Zenon DEF TypeOK
  <2>3. pending' \in [from: Ids \cup {NoId}, to: Ids \cup {NoId}, at: {"task", "getpid"}]
    BY <1>9, <1>10, <2>1 DEF TypeOK
  <2>4. current' \in 1..Len(tasks') /\ pc' \in PcSet
    BY <1>3, <1>4, <1>5, <1>9, <1>10 DEF PcSet
  <2> QED BY <1>5, <2>2, <2>3, <2>4 DEF TypeOK
<1>12. OneRunning'
  <2>1. \A i \in 1..Len(tasks) : tasks'[i].state = "Running" <=> i = next
    BY <1>3, <1>5, <1>6, <1>10 DEF Prepared
  <2> QED BY <1>3, <1>4, <1>5, <1>6, <1>9, <1>10, <2>1 DEF OneRunning, RunningIn
<1>13. ContextsSaved'
  BY <1>5 DEF ContextsSaved
<1>14. PendingValid'
  BY <1>1, <1>3, <1>4, <1>5, <1>8, <1>9, <1>10 DEF PendingValid
<1>15. ProcessorNeverLost'
  BY <1>9, <1>10 DEF ProcessorNeverLost
<1>16. TerminatedStaysOff'
  <2> SUFFICES ASSUME NEW i \in 1..Len(tasks), tasks'[i].state = "Terminated"
               PROVE  tasks'[i].id # Kernel /\ (tasks'[i].id = cpu => pc' = "switch")
    BY <1>5 DEF TerminatedStaysOff
  <2>1. CASE i = current
    BY <1>5, <1>6, <1>9, <1>10, <2>1 DEF Prepared
  <2>2. CASE i # current
    <3>1. tasks[i].state = "Terminated" /\ tasks[i].id # cpu
      BY <1>5, <1>6, <1>8, <1>1, <2>2 DEF Prepared
    <3> QED BY <1>5, <3>1 DEF TerminatedStaysOff
  <2> QED BY <2>1, <2>2
<1>17. PidIsOwn'
  BY DEF PidIsOwn
<1>18. IdsOrdered'
  BY <1>1, <1>5 DEF IdsOrdered
<1>19. PlaceShape'
  BY <1>5, <1>9, <1>10 DEF PlaceShape, AtCall
<1> QED BY <1>11, <1>12, <1>13, <1>14, <1>15, <1>16, <1>17, <1>18, <1>19

(***************************************************************************)
(* The types and the uniqueness of ids, in the form the steps use.         *)
(***************************************************************************)
LEMMA TableFacts ==
  ASSUME SchedulerInv
  PROVE  /\ tasks \in Seq(Task) /\ Len(tasks) \in Nat /\ current \in 1..Len(tasks)
         /\ \A i \in 1..Len(tasks) : tasks[i] \in Task
         /\ \A i \in 1..Len(tasks) : tasks[i].state = "Running" <=> i = current
         /\ \A i, j \in 1..Len(tasks) : tasks[i].id = tasks[j].id => i = j
         /\ pc # "switch" => cpu = tasks[current].id
         /\ 1 \in 1..Len(tasks) /\ tasks[1].id = Kernel
<1> USE DEF SchedulerInv
<1>1. /\ tasks \in Seq(Task) /\ Len(tasks) \in Nat /\ current \in 1..Len(tasks)
      /\ \A i \in 1..Len(tasks) : tasks[i] \in Task
  BY LenProperties, ElementOfSeq DEF TypeOK
<1>2. \A i \in 1..Len(tasks) : tasks[i].state = "Running" <=> i = current
  BY DEF OneRunning, RunningIn
<1>3. \A i, j \in 1..Len(tasks) : tasks[i].id = tasks[j].id => i = j
  <2>1. \A i \in 1..Len(tasks) : tasks[i].id \in Int
    BY <1>1 DEF Task, Ids
  <2> QED BY <2>1, <1>1 DEF IdsOrdered
<1> QED BY <1>1, <1>2, <1>3 DEF OneRunning, IdsOrdered

LEMMA StutterStep == SchedulerInv /\ UNCHANGED vars => SchedulerInv'
<1> SUFFICES ASSUME SchedulerInv, UNCHANGED vars PROVE SchedulerInv'
  OBVIOUS
<1> USE DEF vars, SchedulerInv
<1>1. TypeOK'
  BY Zenon DEF TypeOK
<1>2. OneRunning' /\ ContextsSaved' /\ PendingValid'
  BY DEF OneRunning, RunningIn, ContextsSaved, PendingValid
<1>3. ProcessorNeverLost' /\ TerminatedStaysOff' /\ PidIsOwn'
  BY DEF ProcessorNeverLost, TerminatedStaysOff, PidIsOwn
<1>4. IdsOrdered' /\ PlaceShape'
  BY DEF IdsOrdered, PlaceShape
<1> QED BY <1>1, <1>2, <1>3, <1>4

(***************************************************************************)
(* Calls of the running task.                                              *)
(***************************************************************************)
LEMMA YieldStep == SchedulerInv /\ yield_now => SchedulerInv'
<1> SUFFICES ASSUME SchedulerInv, yield_now PROVE SchedulerInv'
  OBVIOUS
<1>1. pc = "task" /\ lock = NoId
  BY DEF yield_now, SchedulerInv, PlaceShape
<1>2. Prepared(tasks)
  BY TableFacts DEF Prepared
<1>3. /\ schedule_yield(tasks, "task")
      /\ UNCHANGED <<nextId, lock, cpu, inService, interrupted, pid>>
  BY <1>1 DEF yield_now
<1>4. CASE Len(tasks) <= 1
  <2>1. UNCHANGED vars
    BY <1>1, <1>3, <1>4, Zenon DEF schedule_yield, Resume, vars, SchedulerInv, PlaceShape
  <2> QED BY <2>1, StutterStep
<1>5. CASE ~(Len(tasks) <= 1)
  <2>1. find_and_switch(tasks, "task", "task")
    BY <1>3, <1>5 DEF schedule_yield
  <2> QED BY <1>1, <1>2, <1>3, <2>1, FindAndSwitchStep DEF AtCall
<1> QED BY <1>4, <1>5

LEMMA ExitStep == SchedulerInv /\ exit_current_task => SchedulerInv'
<1> SUFFICES ASSUME SchedulerInv, exit_current_task PROVE SchedulerInv'
  OBVIOUS
<1> DEFINE t == [tasks[current] EXCEPT !.state = "Terminated"]
           s == [tasks EXCEPT ![current] = t]
<1>1. pc = "task" /\ lock = NoId /\ cpu # Kernel
  BY DEF exit_current_task, SchedulerInv, PlaceShape
<1>2. t \in Task /\ t.id = tasks[current].id /\ t.context = tasks[current].context
      /\ t.state = "Terminated"
  BY TableFacts DEF Task, TaskState
<1> HIDE DEF t
<1>3. /\ s \in Seq(Task) /\ Len(s) = Len(tasks)
      /\ \A i \in 1..Len(tasks) : s[i] = IF i = current THEN t ELSE tasks[i]
  BY <1>2, TableFacts, TableUpdate
<1>4. /\ schedule_yield(s, "halt")
      /\ UNCHANGED <<nextId, lock, cpu, inService, interrupted, pid>>
  BY <1>1 DEF exit_current_task, t
<1> HIDE DEF s
<1>5. Prepared(s)
  BY <1>1, <1>2, <1>3, TableFacts DEF Prepared
<1>6. Len(s) > 1
  BY <1>1, <1>3, TableFacts
<1>7. find_and_switch(s, "task", "halt")
  BY <1>4, <1>6, <1>3, TableFacts DEF schedule_yield
<1>8. s[current].state = "Running" => "halt" = "task"
  BY <1>2, <1>3, TableFacts
<1>9. AtCall
  BY <1>1 DEF AtCall
<1> QED BY <1>1, <1>4, <1>5, <1>7, <1>8, <1>9, FindAndSwitchStep

LEMMA SpawnStep == SchedulerInv /\ spawn => SchedulerInv'
<1> SUFFICES ASSUME SchedulerInv, spawn PROVE SchedulerInv'
  OBVIOUS
<1>1. pc = "task" /\ lock = NoId /\ cpu = Kernel /\ nextId \in Ids /\ nextId \in 1..MaxId
  BY MaxIdAssumption DEF spawn, SchedulerInv, PlaceShape, TypeOK, Ids
<1>2. /\ tasks' = Append(tasks, NewTask(nextId))
      /\ nextId' = nextId + 1
      /\ UNCHANGED <<current, lock, cpu, pc, interrupts, inService, interrupted, pending, pid>>
  BY <1>1 DEF spawn
<1>3. NewTask(nextId) \in Task
  BY <1>1, QuantumAssumption DEF NewTask, Task, TaskState, Context
<1>4. /\ tasks' \in Seq(Task) /\ Len(tasks') = Len(tasks) + 1
      /\ \A i \in 1..Len(tasks) : tasks'[i] = tasks[i]
      /\ tasks'[Len(tasks) + 1] = NewTask(nextId)
  BY <1>2, <1>3, TableFacts, AppendProperties
<1>5. /\ NewTask(nextId).id = nextId /\ NewTask(nextId).state = "Ready"
      /\ NewTask(nextId).context = "fresh"
  BY DEF NewTask
<1>6. \A i \in 1..Len(tasks') : i \in 1..Len(tasks) \/ i = Len(tasks) + 1
  BY <1>4, TableFacts
<1>7. \A i \in 1..Len(tasks) : i \in 1..Len(tasks')
  BY <1>4, TableFacts
<1>8. \A i \in 1..Len(tasks) : tasks[i].id < nextId
  BY DEF SchedulerInv, IdsOrdered
<1>9. TypeOK'
  <2>1. nextId' \in 1..(MaxId + 1) /\ current' \in 1..Len(tasks')
    BY <1>1, <1>2, <1>4, <1>7, MaxIdAssumption, TableFacts
  <2> QED BY <1>2, <1>4, <2>1 DEF SchedulerInv, TypeOK
<1>10. OneRunning'
  <2>1. \A i \in 1..Len(tasks') : tasks'[i].state = "Running" <=> i = current
    BY <1>4, <1>5, <1>6, TableFacts
  <2>2. cpu' = tasks'[current'].id /\ pc' = "task"
    BY <1>1, <1>2, <1>4, TableFacts
  <2> QED BY <1>2, <1>7, <2>1, <2>2, TableFacts DEF OneRunning, RunningIn
<1>11. ContextsSaved'
  <2>1. nextId # Kernel
    BY <1>1 DEF Kernel
  <2> QED BY <1>1, <1>2, <1>4, <1>5, <1>6, <2>1 DEF SchedulerInv, ContextsSaved
<1>12. PendingValid' /\ ProcessorNeverLost' /\ PidIsOwn'
  BY <1>1, <1>2 DEF SchedulerInv, PendingValid, ProcessorNeverLost, PidIsOwn
<1>13. TerminatedStaysOff'
  BY <1>2, <1>4, <1>5, <1>6 DEF SchedulerInv, TerminatedStaysOff
<1>14. IdsOrdered'
  <2>1. tasks' # <<>> /\ tasks'[1].id = Kernel
    BY <1>4, TableFacts
  <2>2. \A i \in 1..Len(tasks) : tasks[i].id \in Int
    BY TableFacts DEF Task, Ids
  <2>3. \A i \in 1..Len(tasks') : tasks'[i].id < nextId'
    BY <1>1, <1>2, <1>4, <1>5, <1>6, <1>8, <2>2
  <2>4. ASSUME NEW i \in 1..Len(tasks'), NEW j \in 1..Len(tasks'), i < j
        PROVE  tasks'[i].id < tasks'[j].id
    <3>1. i \in 1..Len(tasks)
      BY <1>4, <2>4, TableFacts
    <3>2. CASE j \in 1..Len(tasks)
      BY <1>4, <2>4, <3>1, <3>2 DEF SchedulerInv, IdsOrdered
    <3>3. CASE j = Len(tasks) + 1
      BY <1>4, <1>5, <1>8, <3>1, <3>3
    <3> QED BY <1>6, <3>2, <3>3
  <2> QED BY <2>1, <2>3, <2>4 DEF IdsOrdered
<1>15. PlaceShape'
  BY <1>1, <1>2, <1>4, <1>5, <1>6 DEF SchedulerInv, PlaceShape
<1> QED BY <1>9, <1>10, <1>11, <1>12, <1>13, <1>14, <1>15 DEF SchedulerInv

(***************************************************************************)
(* kill removes tasks: the others keep their order, so ids stay ordered,   *)
(* and the running task, which is the kernel task, is kept and found again.*)
(***************************************************************************)
LEMMA KillStep ==
  ASSUME SchedulerInv, NEW id \in Ids, kill(id)
  PROVE  SchedulerInv'
<1> DEFINE j == Least(Killable(id))
           t == [tasks[j] EXCEPT !.state = "Terminated"]
           s == [tasks EXCEPT ![j] = t]
           S == Kept(s)
           r == Rank(current, S)
<1>1. pc = "task" /\ lock = NoId /\ cpu = Kernel /\ id # Kernel
  BY DEF kill, SchedulerInv, PlaceShape
<1>2. /\ Killable(id) # {}
      /\ cleanup_terminated([tasks EXCEPT ![j].state = "Terminated"])
      /\ UNCHANGED <<nextId, lock, cpu, pc, interrupts, inService, interrupted, pending, pid>>
  BY <1>1 DEF kill
<1>3. j \in 1..Len(tasks) /\ tasks[j].id = id
  <2>1. Killable(id) \in SUBSET (1..Len(tasks)) /\ Killable(id) \in SUBSET Nat
    BY TableFacts DEF Killable
  <2>2. j \in Killable(id)
    BY <1>2, <2>1, LeastProperties
  <2> QED BY <2>1, <2>2 DEF Killable
<1>4. current = 1 /\ tasks[current].id = Kernel /\ j # current
  BY <1>1, <1>3, TableFacts
<1> HIDE DEF j
<1>5. t \in Task /\ t.id = tasks[j].id /\ t.context = tasks[j].context
      /\ t.state = "Terminated"
  BY <1>3, TableFacts DEF Task, TaskState
<1>6. s = [tasks EXCEPT ![j].state = "Terminated"]
  OBVIOUS
<1> HIDE DEF t
<1>7. /\ s \in Seq(Task) /\ Len(s) = Len(tasks)
      /\ \A i \in 1..Len(tasks) : s[i] = IF i = j THEN t ELSE tasks[i]
  BY <1>3, <1>5, TableFacts, TableUpdate
<1>8. cleanup_terminated(s)
  BY <1>2, <1>6
<1> HIDE DEF s
<1>9. S \in SUBSET (1..Len(s)) /\ current \in S
  <2>1. S \in SUBSET (1..Len(s))
    BY DEF Kept
  <2>2. current \in S
    BY <1>4, <1>7, TableFacts DEF Kept
  <2> QED BY <2>1, <2>2
<1>10. \A i \in S : s[i] = tasks[i] /\ i \in 1..Len(tasks)
  <2>1. \A i \in S : i # j /\ i \in 1..Len(tasks)
    BY <1>5, <1>7, <1>3, <1>1 DEF Kept
  <2> QED BY <1>7, <2>1
<1> HIDE DEF S
<1>11. /\ Retained(s, S) \in Seq(Task)
       /\ Len(Retained(s, S)) = Cardinality(S)
       /\ Cardinality(S) \in 0..Len(s)
       /\ \A i \in S : /\ Rank(i, S) \in 1..Cardinality(S)
                       /\ Retained(s, S)[Rank(i, S)] = tasks[i]
       /\ \A k \in 1..Cardinality(S) :
            \E i \in S : Rank(i, S) = k /\ Retained(s, S)[k] = tasks[i]
       /\ \A i, k \in S : i < k => Rank(i, S) < Rank(k, S)
  BY <1>7, <1>9, <1>10, RetainedProperties
<1> DEFINE kept == Retained(s, S)
<1>12. tasks' = kept
       /\ current' = IF RunningIn(kept) # {} THEN Least(RunningIn(kept)) ELSE current
  BY <1>8 DEF cleanup_terminated, S
<1> HIDE DEF kept
<1>13. /\ kept \in Seq(Task) /\ Len(kept) = Cardinality(S) /\ Cardinality(S) \in Nat
       /\ r \in 1..Len(kept) /\ kept[r] = tasks[current]
       /\ \A k \in 1..Len(kept) : \E i \in S : Rank(i, S) = k /\ kept[k] = tasks[i]
  BY <1>7, <1>9, <1>11, TableFacts DEF kept
<1>14. RunningIn(kept) = {r}
  <2>1. \A k \in 1..Len(kept) : kept[k].state = "Running" <=> k = r
    BY <1>10, <1>13, TableFacts
  <2> QED BY <1>13, <2>1 DEF RunningIn
<1>15. current' = r
  <2>1. {r} \in SUBSET Nat /\ {r} # {}
    BY <1>13
  <2>2. Least({r}) \in {r}
    BY <2>1, LeastProperties
  <2> QED BY <1>12, <1>14, <2>2
<1>16. TypeOK'
  BY <1>2, <1>12, <1>13, <1>15 DEF SchedulerInv, TypeOK
<1>17. OneRunning'
  BY <1>1, <1>2, <1>4, <1>12, <1>13, <1>14, <1>15 DEF OneRunning, RunningIn
<1>18. ContextsSaved' /\ TerminatedStaysOff'
  <2>1. ASSUME NEW k \in 1..Len(kept)
        PROVE  /\ kept[k].context = "live" <=> kept[k].id = cpu
               /\ kept[k].state = "Terminated" =>
                    kept[k].id # Kernel /\ (kept[k].id = cpu => pc = "switch")
    <3>1. PICK i \in 1..Len(tasks) : kept[k] = tasks[i]
      BY <1>10, <1>13
    <3>2. tasks[i].context = "live" <=> tasks[i].id = cpu
      BY DEF SchedulerInv, ContextsSaved
    <3>3. tasks[i].state = "Terminated" =>
            tasks[i].id # Kernel /\ (tasks[i].id = cpu => pc = "switch")
      BY DEF SchedulerInv, TerminatedStaysOff
    <3> QED BY <3>1, <3>2, <3>3
  <2> QED BY <1>2, <1>12, <2>1 DEF ContextsSaved, TerminatedStaysOff
<1>19. PendingValid' /\ ProcessorNeverLost' /\ PidIsOwn'
  BY <1>1, <1>2 DEF SchedulerInv, PendingValid, ProcessorNeverLost, PidIsOwn
<1>20. IdsOrdered'
  <2>1. \A k \in 1..Len(kept) : kept[k].id < nextId
    BY <1>10, <1>13 DEF SchedulerInv, IdsOrdered
  <2>2. ASSUME NEW a \in 1..Len(kept), NEW b \in 1..Len(kept), a < b
        PROVE  kept[a].id < kept[b].id
    <3>1. PICK i \in S : Rank(i, S) = a /\ kept[a] = tasks[i]
      BY <1>13
    <3>2. PICK k \in S : Rank(k, S) = b /\ kept[b] = tasks[k]
      BY <1>13
    <3>3. i \in 1..Len(tasks) /\ k \in 1..Len(tasks)
      BY <1>10
    <3>4. ~ (k < i) /\ i # k
      BY <1>11, <2>2, <3>1, <3>2, <1>13
    <3>5. i < k
      BY <3>3, <3>4
    <3> QED BY <3>1, <3>2, <3>3, <3>5 DEF SchedulerInv, IdsOrdered
  <2>3. 1 \in S /\ 1 \in 1..Len(kept)
    BY <1>4, <1>9, <1>13
  <2>4. kept[1].id = Kernel
    <3>1. PICK i \in S : Rank(i, S) = 1 /\ kept[1] = tasks[i]
      BY <1>13, <2>3
    <3>2. i = 1 \/ 1 < i
      BY <1>10
    <3>3. Rank(1, S) \in 1..Cardinality(S)
      BY <1>11, <2>3
    <3>4. ~ (1 < i)
      BY <1>11, <2>3, <3>1, <3>3
    <3> QED BY <3>1, <3>2, <3>4, TableFacts
  <2>5. kept # <<>>
    BY <1>13
  <2> QED BY <1>2, <1>12, <2>1, <2>2, <2>4, <2>5 DEF IdsOrdered
<1>21. PlaceShape'
  BY <1>1, <1>2, <1>10, <1>12, <1>13 DEF SchedulerInv, PlaceShape
<1> QED BY <1>16, <1>17, <1>18, <1>19, <1>20, <1>21 DEF SchedulerInv

LEMMA GetpidStep == SchedulerInv /\ (getpid_lock \/ sys_getpid) => SchedulerInv'
<1>1. ASSUME SchedulerInv, getpid_lock PROVE SchedulerInv'
  <2> USE <1>1 DEF SchedulerInv, getpid_lock
  <2>1. TypeOK'
    BY DEF TypeOK, PcSet
  <2>2. OneRunning' /\ ContextsSaved' /\ PendingValid'
    BY DEF OneRunning, RunningIn, ContextsSaved, PendingValid
  <2>3. ProcessorNeverLost' /\ TerminatedStaysOff' /\ PidIsOwn'
    BY DEF ProcessorNeverLost, TerminatedStaysOff, PidIsOwn, PlaceShape
  <2>4. IdsOrdered' /\ PlaceShape'
    BY DEF IdsOrdered, PlaceShape
  <2> QED BY <2>1, <2>2, <2>3, <2>4
<1>2. ASSUME SchedulerInv, sys_getpid PROVE SchedulerInv'
  <2>1. FirstRunning = cpu
    <3>1. RunningIn(tasks) = {current} /\ {current} \in SUBSET Nat
      BY <1>2, TableFacts DEF SchedulerInv, OneRunning
    <3>2. Least({current}) \in {current}
      BY <3>1, LeastProperties
    <3> QED BY <1>2, <3>1, <3>2, TableFacts DEF FirstRunning, sys_getpid
  <2>2. pid' = [pid EXCEPT ![cpu] = cpu]
    BY <1>2, <2>1 DEF sys_getpid
  <2> USE <1>2 DEF SchedulerInv, sys_getpid
  <2>3. TypeOK' /\ PidIsOwn'
    BY <2>2 DEF TypeOK, PcSet, PidIsOwn
  <2>4. OneRunning' /\ ContextsSaved' /\ PendingValid'
    BY DEF OneRunning, RunningIn, ContextsSaved, PendingValid
  <2>5. ProcessorNeverLost' /\ TerminatedStaysOff'
    BY DEF ProcessorNeverLost, TerminatedStaysOff, PlaceShape
  <2>6. IdsOrdered' /\ PlaceShape'
    BY DEF IdsOrdered, PlaceShape
  <2> QED BY <2>3, <2>4, <2>5, <2>6
<1> QED BY <1>1, <1>2

(***************************************************************************)
(* The timer interrupt and the switch of stacks.                           *)
(***************************************************************************)
LEMMA HandlerStep ==
  SchedulerInv /\ (TimerInterrupt \/ rust_timer_handler \/ task_entry_trampoline) => SchedulerInv'
<1> SUFFICES ASSUME SchedulerInv,
                    TimerInterrupt \/ rust_timer_handler \/ task_entry_trampoline
             PROVE  SchedulerInv'
  OBVIOUS
<1> USE DEF SchedulerInv
<1>1. /\ UNCHANGED <<tasks, current, nextId, lock, cpu, pending, pid>>
      /\ pc \in {"task", "getpid", "tick", "fresh"}
      /\ pc' \in {"task", "tick", "schedule"}
  BY DEF TimerInterrupt, rust_timer_handler, task_entry_trampoline, Resume
<1>2. /\ interrupts' \in BOOLEAN /\ inService' \in BOOLEAN
      /\ interrupted' \in {"task", "getpid"}
  BY DEF TypeOK, TimerInterrupt, rust_timer_handler, task_entry_trampoline, Resume
<1>3. TypeOK'
  BY <1>1, <1>2 DEF TypeOK, PcSet
<1>4. OneRunning' /\ ContextsSaved' /\ PendingValid' /\ TerminatedStaysOff'
  BY <1>1 DEF OneRunning, RunningIn, ContextsSaved, PendingValid, TerminatedStaysOff
<1>5. PidIsOwn' /\ IdsOrdered'
  BY <1>1 DEF PidIsOwn, IdsOrdered
<1>6. PlaceShape' /\ ProcessorNeverLost'
  <2>1. CASE TimerInterrupt
    <3>1. cpu # NoId
      BY DEF TypeOK, Ids, NoId
    <3>2. PlaceShape'
      BY <2>1, <3>1 DEF TimerInterrupt, PlaceShape
    <3>3. ProcessorNeverLost'
      BY <2>1, <3>1 DEF TimerInterrupt, PlaceShape, ProcessorNeverLost
    <3> QED BY <3>2, <3>3
  <2>2. CASE rust_timer_handler
    BY <2>2 DEF rust_timer_handler, PlaceShape, ProcessorNeverLost
  <2>3. CASE task_entry_trampoline
    BY <2>3 DEF task_entry_trampoline, Resume, PlaceShape, ProcessorNeverLost
  <2> QED BY <2>1, <2>2, <2>3
<1> QED BY <1>3, <1>4, <1>5, <1>6

LEMMA ScheduleStep == SchedulerInv /\ scheduler_schedule => SchedulerInv'
<1> SUFFICES ASSUME SchedulerInv, scheduler_schedule PROVE SchedulerInv'
  OBVIOUS
<1>1. /\ pc = "schedule"
      /\ (lock = NoId) <=> (interrupted = "task")
      /\ interrupted \in {"task", "getpid"}
      /\ UNCHANGED <<nextId, lock, cpu, inService, interrupted, pid>>
      /\ inService = FALSE
  BY DEF scheduler_schedule, SchedulerInv, TypeOK, PlaceShape
<1> DEFINE t == [tasks[current] EXCEPT !.quantum = @ - 1]
           z == [tasks[current] EXCEPT !.quantum = 0]
<1>2. ASSUME tasks' \in Seq(Task), Len(tasks') = Len(tasks), current' = current,
             pending' = pending, Resume(interrupted),
             \A i \in 1..Len(tasks) : /\ tasks'[i].id = tasks[i].id
                                     /\ tasks'[i].state = tasks[i].state
                                     /\ tasks'[i].context = tasks[i].context
      PROVE  SchedulerInv'
  <2> USE DEF SchedulerInv
  <2>1. pc' = interrupted /\ interrupts' = TRUE /\ pc' \in {"task", "getpid"}
    BY <1>1, <1>2 DEF Resume
  <2>2. TypeOK'
    BY <1>1, <1>2, <2>1 DEF TypeOK, PcSet
  <2>3. OneRunning' /\ ContextsSaved' /\ PendingValid' /\ TerminatedStaysOff'
    BY <1>1, <1>2, <2>1 DEF OneRunning, RunningIn, ContextsSaved, PendingValid, TerminatedStaysOff
  <2>4. PidIsOwn' /\ ProcessorNeverLost'
    BY <1>1, <2>1 DEF PidIsOwn, ProcessorNeverLost, PlaceShape
  <2>5. IdsOrdered'
    BY <1>1, <1>2, TableFacts DEF IdsOrdered
  <2>6. PlaceShape'
    BY <1>1, <1>2, <2>1 DEF PlaceShape
  <2> QED BY <2>2, <2>3, <2>4, <2>5, <2>6
<1>3. CASE SkipTick
  BY <1>2, <1>3, TableFacts DEF SkipTick
<1>4. CASE UseQuantum /\ tasks[current].quantum > 1
  <2>1. t \in Task /\ t.id = tasks[current].id /\ t.context = tasks[current].context
        /\ t.state = tasks[current].state
    BY <1>4, TableFacts, QuantumAssumption DEF Task
  <2>2. tasks' = [tasks EXCEPT ![current] = t]
    BY <1>4 DEF UseQuantum
  <2> HIDE DEF t
  <2>3. /\ tasks' \in Seq(Task) /\ Len(tasks') = Len(tasks)
        /\ \A i \in 1..Len(tasks) : tasks'[i] = IF i = current THEN t ELSE tasks[i]
    BY <2>1, <2>2, TableFacts, TableUpdate
  <2>4. current' = current /\ pending' = pending /\ Resume(interrupted)
    BY <1>4 DEF UseQuantum
  <2> QED BY <1>2, <2>1, <2>3, <2>4
<1>5. CASE lock = NoId /\ find_and_switch([tasks EXCEPT ![current].quantum = 0], interrupted, interrupted)
  <2> DEFINE s == [tasks EXCEPT ![current] = z]
  <2>1. z \in Task /\ z.id = tasks[current].id /\ z.context = tasks[current].context
        /\ z.state = tasks[current].state
    BY TableFacts, QuantumAssumption DEF Task
  <2>2. s = [tasks EXCEPT ![current].quantum = 0]
    OBVIOUS
  <2> HIDE DEF z
  <2>3. /\ s \in Seq(Task) /\ Len(s) = Len(tasks)
        /\ \A i \in 1..Len(tasks) : s[i] = IF i = current THEN z ELSE tasks[i]
    BY <2>1, TableFacts, TableUpdate
  <2> HIDE DEF s
  <2>4. Prepared(s)
    BY <2>1, <2>3, TableFacts DEF Prepared
  <2>5. find_and_switch(s, "task", "task")
    BY <1>1, <1>5, <2>2
  <2>6. AtCall
    BY <1>1, <1>5 DEF AtCall
  <2> QED BY <1>1, <1>5, <2>4, <2>5, <2>6, FindAndSwitchStep
<1> QED BY <1>3, <1>4, <1>5 DEF scheduler_schedule, schedule_preempt

LEMMA SwitchContextStep == SchedulerInv /\ switch_context => SchedulerInv'
<1> SUFFICES ASSUME SchedulerInv, switch_context PROVE SchedulerInv'
  OBVIOUS
<1> DEFINE from == IndexOf(pending.from)
           to == IndexOf(pending.to)
           f == [tasks[from] EXCEPT !.context = "task"]
           t == [tasks[to] EXCEPT !.context = "live"]
           mid == [tasks EXCEPT ![from] = f]
<1>1. /\ pc = "switch" /\ lock = NoId /\ inService = FALSE /\ pending.at = "task"
      /\ cpu = pending.from /\ pending.from # pending.to
      /\ cpu' = pending.to /\ pending' = NoSwitch
      /\ UNCHANGED <<current, nextId, lock, inService, interrupted, pid>>
  BY DEF switch_context, SchedulerInv, OneRunning, PendingValid, PlaceShape, TypeOK
<1>2. /\ from \in 1..Len(tasks) /\ tasks[from].id = pending.from
      /\ to \in 1..Len(tasks) /\ tasks[to].id = pending.to
      /\ to = current /\ from # to
  <2>1. /\ \E i \in 1..Len(tasks) : tasks[i].id = pending.from
        /\ tasks[current].id = pending.to
    BY <1>1 DEF SchedulerInv, PendingValid
  <2>2. from \in 1..Len(tasks) /\ tasks[from].id = pending.from
    BY <2>1 DEF IndexOf
  <2>3. to \in 1..Len(tasks) /\ tasks[to].id = pending.to
    BY <2>1, TableFacts DEF IndexOf
  <2> HIDE DEF from, to
  <2> QED BY <1>1, <2>1, <2>2, <2>3, TableFacts
<1>3. /\ tasks' = [tasks EXCEPT ![from].context = pending.at, ![to].context = "live"]
      /\ Resume(tasks[to].context)
  BY DEF switch_context
<1> HIDE DEF from, to
<1>4. f \in Task /\ f.id = tasks[from].id /\ f.context = "task" /\ f.state = tasks[from].state
  BY <1>2, TableFacts DEF Task, Context
<1>5. t \in Task /\ t.id = tasks[to].id /\ t.context = "live" /\ t.state = tasks[to].state
  BY <1>2, TableFacts DEF Task, Context
<1>6. /\ mid \in Seq(Task) /\ Len(mid) = Len(tasks)
      /\ \A i \in 1..Len(tasks) : mid[i] = IF i = from THEN f ELSE tasks[i]
  BY <1>2, <1>4, TableFacts, TableUpdate
<1>7. tasks' = [mid EXCEPT ![to] = t]
  BY <1>1, <1>2, <1>3
<1> HIDE DEF f, t, mid
<1>8. /\ tasks' \in Seq(Task) /\ Len(tasks') = Len(tasks)
      /\ \A i \in 1..Len(tasks) : tasks'[i] = IF i = to THEN t ELSE IF i = from THEN f ELSE tasks[i]
  BY <1>2, <1>5, <1>6, <1>7, TableUpdate
<1>9. \A i \in 1..Len(tasks) : /\ tasks'[i].id = tasks[i].id
                             /\ tasks'[i].state = tasks[i].state
                             /\ tasks'[i].context = IF i = to THEN "live"
                                  ELSE IF i = from THEN "task" ELSE tasks[i].context
  BY <1>4, <1>5, <1>8
<1>10. pc' \in {"fresh", "task"} /\ interrupts' = (pc' # "fresh")
  <2>1. tasks[to].context # "live" /\ tasks[to].context # "getpid"
    BY <1>1, <1>2 DEF SchedulerInv, ContextsSaved, PlaceShape
  <2> QED BY <1>2, <1>3, <2>1, TableFacts DEF Resume, Task, Context
<1>11. TypeOK'
  <2>1. cpu' \in Ids
    BY <1>1, <1>2, TableFacts DEF Task
  <2>2. pending' \in [from: Ids \cup {NoId}, to: Ids \cup {NoId}, at: {"task", "getpid"}]
    BY <1>1 DEF NoSwitch
  <2>3. interrupts' \in BOOLEAN /\ inService' \in BOOLEAN
    BY <1>1, <1>10
  <2> QED BY <1>1, <1>8, <1>10, <2>1, <2>2, <2>3 DEF SchedulerInv, TypeOK, PcSet
<1>12. OneRunning'
  BY <1>1, <1>2, <1>8, <1>9, <1>10 DEF SchedulerInv, OneRunning, RunningIn
<1>13. ContextsSaved'
  <2>1. ASSUME NEW i \in 1..Len(tasks)
        PROVE  tasks'[i].context = "live" <=> tasks'[i].id = cpu'
    <3>1. CASE i = to
      BY <1>1, <1>2, <1>9, <3>1
    <3>2. CASE i = from
      BY <1>1, <1>2, <1>9, <3>2
    <3>3. CASE i # to /\ i # from
      <4>1. tasks[i].id # pending.to /\ tasks[i].id # cpu
        BY <1>1, <1>2, <3>3, TableFacts
      <4>2. tasks[i].context # "live"
        BY <4>1 DEF SchedulerInv, ContextsSaved
      <4> QED BY <1>1, <1>9, <3>3, <4>1, <4>2
    <3> QED BY <3>1, <3>2, <3>3
  <2> QED BY <1>8, <2>1 DEF ContextsSaved
<1>14. PendingValid' /\ ProcessorNeverLost' /\ PidIsOwn'
  BY <1>1, <1>10 DEF SchedulerInv, PendingValid, ProcessorNeverLost, PidIsOwn
<1>15. TerminatedStaysOff'
  BY <1>1, <1>2, <1>8, <1>9, TableFacts DEF SchedulerInv, TerminatedStaysOff
<1>16. IdsOrdered'
  BY <1>1, <1>8, <1>9, TableFacts DEF SchedulerInv, IdsOrdered
<1>17. PlaceShape'
  BY <1>1, <1>8, <1>9, <1>10 DEF SchedulerInv, PlaceShape
<1> QED BY <1>11, <1>12, <1>13, <1>14, <1>15, <1>16, <1>17 DEF SchedulerInv

(***************************************************************************)
(* The results.                                                            *)
(***************************************************************************)
LEMMA NextInv == SchedulerInv /\ [Next]_vars => SchedulerInv'
<1> SUFFICES ASSUME SchedulerInv, [Next]_vars PROVE SchedulerInv'
  OBVIOUS
<1>1. CASE UNCHANGED vars
  BY <1>1, StutterStep
<1>2. CASE TimerInterrupt \/ rust_timer_handler \/ task_entry_trampoline
  BY <1>2, HandlerStep
<1>3. CASE scheduler_schedule
  BY <1>3, ScheduleStep
<1>4. CASE switch_context
  BY <1>4, SwitchContextStep
<1>5. CASE getpid_lock \/ sys_getpid
  BY <1>5, GetpidStep
<1>6. CASE yield_now
  BY <1>6, YieldStep
<1>7. CASE exit_current_task
  BY <1>7, ExitStep
<1>8. CASE spawn
  BY <1>8, SpawnStep
<1>9. ASSUME NEW id \in Ids, kill(id) PROVE SchedulerInv'
  BY <1>9, KillStep
<1> QED BY <1>1, <1>2, <1>3, <1>4, <1>5, <1>6, <1>7, <1>8, <1>9
        DEF Next, KernelStep, TaskStep

\* Every reachable state satisfies the inductive invariant.
THEOREM SchedulerCorrect == Spec => []SchedulerInv
<1>1. Init => SchedulerInv
  BY InitInv
<1>2. SchedulerInv /\ [Next]_vars => SchedulerInv'
  BY NextInv
<1> QED BY <1>1, <1>2, PTL DEF Spec

\* The variables keep their types; in particular the unchecked index current
\* stays within the vector.
THEOREM TypeCorrect == Spec => []TypeOK
<1>1. SchedulerInv => TypeOK
  BY DEF SchedulerInv
<1> QED BY <1>1, SchedulerCorrect, PTL

\* At all times exactly one task is Running, it is the one Scheduler.current
\* points at, and it is the one on the processor except while the stacks are
\* being switched.
THEOREM OneTaskRuns == Spec => []OneRunning
<1>1. SchedulerInv => OneRunning
  BY DEF SchedulerInv
<1> QED BY <1>1, SchedulerCorrect, PTL

\* No switch ever goes to a context that was not saved.
THEOREM SwitchesToSavedContexts == Spec => []ContextsSaved
<1>1. SchedulerInv => ContextsSaved
  BY DEF SchedulerInv
<1> QED BY <1>1, SchedulerCorrect, PTL

\* Nobody ever spins on SCHEDULER with interrupts disabled, the holder of the
\* mutex is never switched away from, and exit_current_task never returns.
THEOREM NoSelfDeadlock == Spec => []ProcessorNeverLost
<1>1. SchedulerInv => ProcessorNeverLost
  BY DEF SchedulerInv
<1> QED BY <1>1, SchedulerCorrect, PTL

\* Terminated tasks are never dispatched and the kernel task never terminates.
THEOREM TerminatedNeverRuns == Spec => []TerminatedStaysOff
<1>1. SchedulerInv => TerminatedStaysOff
  BY DEF SchedulerInv
<1> QED BY <1>1, SchedulerCorrect, PTL

\* sys_getpid answers the caller's own id.
THEOREM GetpidCorrect == Spec => []PidIsOwn
<1>1. SchedulerInv => PidIsOwn
  BY DEF SchedulerInv
<1> QED BY <1>1, SchedulerCorrect, PTL

\* Whenever a program runs, the next tick can reach the processor.
THEOREM TimerAlwaysReaches == Spec => []TimerReachesPrograms
<1>1. SchedulerInv => TimerReachesPrograms
  BY DEF SchedulerInv, PlaceShape, TimerReachesPrograms
<1> QED BY <1>1, SchedulerCorrect, PTL

----------------------------------------------------------------------------

(***************************************************************************)
(* The life cycle of TaskLifecycle: each step of the scheduler is a birth, *)
(* a passing of the processor or a kill, or leaves every status as it is.  *)
(***************************************************************************)


\* The status of a task that is in the vector in state st.
Phase(st) ==
  CASE st = "Ready"      -> "ready"
    [] st = "Running"    -> "running"
    [] st = "Terminated" -> "dead"

\* The refinement mapping, read off the vector by index and not by id.
StatusShape ==
  /\ status = [id \in Ids |-> status[id]]
  /\ \A i \in 1..Len(tasks) : /\ tasks[i].id \in Ids
                              /\ tasks[i].id < nextId
                              /\ status[tasks[i].id] = Phase(tasks[i].state)
  /\ \A id \in Ids : id >= nextId => status[id] = "unborn"
  /\ \A id \in Ids : /\ id < nextId
                     /\ \A i \in 1..Len(tasks) : tasks[i].id # id
                     => status[id] = "dead"

LEMMA StatusHasShape == SchedulerInv => StatusShape
<1> SUFFICES ASSUME SchedulerInv PROVE StatusShape
  OBVIOUS
<1>1. \A i \in 1..Len(tasks) : tasks[i].id \in Ids /\ tasks[i].id < nextId
  BY TableFacts DEF Task, SchedulerInv, IdsOrdered
<1>2. nextId \in Int /\ Ids \in SUBSET Int
  BY MaxIdAssumption DEF SchedulerInv, TypeOK, Ids
<1>3. ASSUME NEW i \in 1..Len(tasks)
      PROVE  status[tasks[i].id] = Phase(tasks[i].state)
  <2> DEFINE id == tasks[i].id
  <2>1. IndexOf(id) = i
    <3>1. IndexOf(id) \in 1..Len(tasks) /\ tasks[IndexOf(id)].id = id
      BY DEF IndexOf
    <3> QED BY <3>1, TableFacts
  <2>2. InTable(id) /\ ~(id >= nextId) /\ id \in Ids
    <3>1. id \in Ids /\ id < nextId
      BY <1>1
    <3>2. InTable(id)
      BY Zenon DEF InTable
    <3> HIDE DEF id
    <3> QED BY <1>2, <3>1, <3>2
  <2>3. status[id] = StatusOf(id)
    BY <2>2 DEF status
  <2> HIDE DEF id
  <2> QED BY <2>1, <2>2, <2>3 DEF StatusOf, Phase, id
<1>4. \A id \in Ids : id >= nextId => status[id] = "unborn"
  BY DEF status, StatusOf
<1>5. ASSUME NEW id \in Ids, id < nextId, \A i \in 1..Len(tasks) : tasks[i].id # id
      PROVE  status[id] = "dead"
  <2>1. ~(id >= nextId) /\ ~InTable(id)
    BY <1>2, <1>5 DEF InTable
  <2> QED BY <2>1 DEF status, StatusOf
<1>6. status = [id \in Ids |-> status[id]]
  BY DEF status
<1> QED BY <1>1, <1>3, <1>4, <1>5, <1>6 DEF StatusShape

(***************************************************************************)
(* Steps that keep the vector's ids and states keep every status.          *)
(***************************************************************************)
SameLives ==
  /\ nextId' = nextId
  /\ Len(tasks') = Len(tasks)
  /\ \A i \in 1..Len(tasks) : /\ tasks'[i].id = tasks[i].id
                              /\ tasks'[i].state = tasks[i].state

LEMMA SameLivesStep ==
  ASSUME SchedulerInv, StatusShape, StatusShape', SameLives
  PROVE  status' = status
<1>1. nextId \in Int /\ Ids \in SUBSET Int
  BY MaxIdAssumption DEF SchedulerInv, TypeOK, Ids
<1>2. ASSUME NEW id \in Ids PROVE status'[id] = status[id]
  <2>1. CASE id >= nextId
    BY <2>1 DEF StatusShape, SameLives
  <2>2. CASE \E i \in 1..Len(tasks) : tasks[i].id = id
    BY <2>2 DEF StatusShape, SameLives
  <2>3. CASE id < nextId /\ \A i \in 1..Len(tasks) : tasks[i].id # id
    BY <2>3 DEF StatusShape, SameLives
  <2> QED BY <1>1, <2>1, <2>2, <2>3
<1> QED BY <1>2 DEF StatusShape

(***************************************************************************)
(* A decision either changes no status or passes the processor on.         *)
(***************************************************************************)
LEMMA DecisionStep ==
  ASSUME SchedulerInv, StatusShape, StatusShape',
         NEW s, Prepared(s), AtCall, NEW stay,
         find_and_switch(s, "task", stay), nextId' = nextId,
         s[current].state = "Terminated" => NextRunnable(s, current) # current
  PROVE  Lifecycle!LNext \/ status' = status
<1> DEFINE next == NextRunnable(s, current)
           from == tasks[current].id
           to == tasks[next].id
           becomes == IF s[current].state = "Running" THEN "ready" ELSE "dead"
<1>1. /\ s \in Seq(Task) /\ Len(s) = Len(tasks) /\ current \in 1..Len(s)
      /\ \A i \in 1..Len(tasks) : s[i].id = tasks[i].id
  BY TableFacts DEF Prepared
<1>2. /\ next \in 1..Len(tasks)
      /\ next # current => next \in Runnable(s)
  BY <1>1, NextRunnableProperties
<1>3. tasks' = Switched(s, current, next)
  BY DEF find_and_switch
<1> HIDE DEF next
<1>4. /\ Len(tasks') = Len(tasks)
      /\ \A i \in 1..Len(tasks) :
           /\ tasks'[i].id = tasks[i].id
           /\ tasks'[i].state =
                IF next = current THEN s[i].state
                ELSE IF i = next THEN "Running"
                ELSE IF i = current /\ s[current].state = "Running" THEN "Ready"
                ELSE s[i].state
  BY <1>1, <1>2, <1>3, SwitchedProperties
<1>5. tasks[current].state = "Running" /\ current \in 1..Len(tasks)
  BY TableFacts
<1>6. CASE next = current
  <2>1. s[current].state = "Running"
    BY <1>6 DEF Prepared, next
  <2>2. SameLives
    BY <1>4, <1>5, <1>6, <2>1 DEF SameLives, Prepared
  <2> QED BY <2>2, SameLivesStep
<1>7. CASE next # current
  <2>1. tasks[next].state = "Ready"
    BY <1>2, <1>7, TableFacts DEF Runnable, Prepared
  <2>2. /\ from \in Ids /\ to \in Ids /\ from # to
        /\ status[from] = "running" /\ status[to] = "ready"
    BY <1>2, <1>5, <1>7, <2>1, TableFacts DEF StatusShape, Phase
  <2>3. becomes \in {"ready", "dead"} /\ (becomes = "dead" => from # 0)
    <3>1. cpu = tasks[current].id
      BY TableFacts DEF AtCall
    <3> QED BY <3>1 DEF Prepared, Kernel
  <2>4. status' = [status EXCEPT ![from] = becomes, ![to] = "running"]
    <3>1. ASSUME NEW id \in Ids
          PROVE  status'[id] = IF id = to THEN "running"
                               ELSE IF id = from THEN becomes ELSE status[id]
      <4>1. nextId \in Int /\ Ids \in SUBSET Int
        BY MaxIdAssumption DEF SchedulerInv, TypeOK, Ids
      <4>2. CASE id >= nextId
        BY <1>2, <1>5, <4>1, <4>2 DEF StatusShape
      <4>3. CASE id < nextId /\ \A i \in 1..Len(tasks) : tasks[i].id # id
        BY <1>2, <1>4, <1>5, <4>3 DEF StatusShape
      <4>4. ASSUME NEW i \in 1..Len(tasks), tasks[i].id = id
            PROVE  status'[id] = IF id = to THEN "running"
                                 ELSE IF id = from THEN becomes ELSE status[id]
        <5>1. status'[id] = Phase(tasks'[i].state) /\ status[id] = Phase(tasks[i].state)
          BY <1>4, <4>4 DEF StatusShape
        <5>2. (id = to <=> i = next) /\ (id = from <=> i = current)
          BY <1>2, <1>5, <4>4, TableFacts
        <5>3. s[current].state \in {"Running", "Terminated"}
          BY DEF Prepared
        <5>4. i # current => s[i].state = tasks[i].state
          BY DEF Prepared
        <5> QED BY <1>4, <1>7, <5>1, <5>2, <5>3, <5>4 DEF Phase
      <4> QED BY <4>1, <4>2, <4>3, <4>4
    <3>2. /\ status' = [id \in Ids |-> status'[id]]
          /\ status = [id \in Ids |-> status[id]]
      BY DEF StatusShape
    <3> HIDE DEF from, to, becomes
    <3> QED BY <2>2, <3>1, <3>2
  <2>5. from \in Lifecycle!LifeIds /\ to \in Lifecycle!LifeIds
    BY <2>2 DEF Lifecycle!LifeIds, Ids
  <2> HIDE DEF from, to, becomes
  <2>6. Lifecycle!Passes(from, to, becomes)
    BY <2>2, <2>3, <2>4 DEF Lifecycle!Passes
  <2> QED BY <2>3, <2>5, <2>6 DEF Lifecycle!LNext
<1> QED BY <1>6, <1>7

(***************************************************************************)
(* The callers of the decision.                                            *)
(***************************************************************************)
LEMMA QuietStep ==
  ASSUME SchedulerInv, StatusShape, StatusShape', UNCHANGED <<tasks, nextId>>
  PROVE  status' = status
BY SameLivesStep DEF SameLives

LEMMA YieldLives ==
  ASSUME SchedulerInv, StatusShape, StatusShape', yield_now
  PROVE  Lifecycle!LNext \/ status' = status
<1>1. pc = "task" /\ lock = NoId /\ nextId' = nextId /\ schedule_yield(tasks, "task")
  BY DEF yield_now, SchedulerInv, PlaceShape
<1>2. CASE Len(tasks) <= 1
  BY <1>1, <1>2, QuietStep DEF schedule_yield
<1>3. CASE ~(Len(tasks) <= 1)
  <2>1. Prepared(tasks) /\ AtCall
    BY <1>1, TableFacts DEF Prepared, AtCall
  <2>2. find_and_switch(tasks, "task", "task")
    BY <1>1, <1>3 DEF schedule_yield
  <2>3. tasks[current].state # "Terminated"
    BY TableFacts
  <2> QED BY <1>1, <2>1, <2>2, <2>3, DecisionStep
<1> QED BY <1>2, <1>3

\* The kernel task never exits, so an exiting task always finds another one.
LEMMA ExitLives ==
  ASSUME SchedulerInv, StatusShape, StatusShape', exit_current_task
  PROVE  Lifecycle!LNext \/ status' = status
<1> DEFINE t == [tasks[current] EXCEPT !.state = "Terminated"]
           s == [tasks EXCEPT ![current] = t]
<1>1. pc = "task" /\ lock = NoId /\ cpu # Kernel /\ nextId' = nextId
  BY DEF exit_current_task, SchedulerInv, PlaceShape
<1>2. t \in Task /\ t.id = tasks[current].id /\ t.context = tasks[current].context
      /\ t.state = "Terminated"
  BY TableFacts DEF Task, TaskState
<1>3. schedule_yield(s, "halt")
  BY <1>1 DEF exit_current_task
<1> HIDE DEF t
<1>4. /\ s \in Seq(Task) /\ Len(s) = Len(tasks)
      /\ \A i \in 1..Len(tasks) : s[i] = IF i = current THEN t ELSE tasks[i]
  BY <1>2, TableFacts, TableUpdate
<1> HIDE DEF s
<1>5. Prepared(s) /\ AtCall
  BY <1>1, <1>2, <1>4, TableFacts DEF Prepared, AtCall
<1>6. current # 1 /\ Len(s) > 1
  BY <1>1, <1>4, TableFacts
<1>7. find_and_switch(s, "task", "halt")
  BY <1>3, <1>4, <1>6, TableFacts DEF schedule_yield
<1>8. NextRunnable(s, current) # current
  <2>1. tasks[1].state = "Ready"
    BY <1>6, TableFacts DEF SchedulerInv, TerminatedStaysOff, Task, TaskState
  <2>2. 1 \in Runnable(s)
    BY <1>4, <1>6, <2>1, TableFacts DEF Runnable
  <2>3. current \notin Runnable(s)
    BY <1>2, <1>4, TableFacts DEF Runnable
  <2> QED BY <1>4, <2>2, <2>3, NextRunnableProperties, TableFacts
<1> QED BY <1>1, <1>5, <1>7, <1>8, DecisionStep

\* A tick takes the lock only when no getpid holds it, and then decides for a
\* task that was interrupted in its own code.
LEMMA TickLives ==
  ASSUME SchedulerInv, StatusShape, StatusShape', scheduler_schedule
  PROVE  Lifecycle!LNext \/ status' = status
<1>1. /\ pc = "schedule" /\ nextId' = nextId
      /\ (lock = NoId) <=> (interrupted = "task")
  BY DEF scheduler_schedule, SchedulerInv, PlaceShape
<1>2. CASE SkipTick
  BY <1>1, <1>2, QuietStep DEF SkipTick
<1>3. CASE UseQuantum /\ tasks[current].quantum > 1
  <2> DEFINE t == [tasks[current] EXCEPT !.quantum = @ - 1]
  <2>1. t \in Task /\ t.id = tasks[current].id /\ t.state = tasks[current].state
    BY <1>3, TableFacts, QuantumAssumption DEF Task
  <2>2. tasks' = [tasks EXCEPT ![current] = t]
    BY <1>3 DEF UseQuantum
  <2> HIDE DEF t
  <2>3. /\ Len(tasks') = Len(tasks)
        /\ \A i \in 1..Len(tasks) : tasks'[i] = IF i = current THEN t ELSE tasks[i]
    BY <2>1, <2>2, TableFacts, TableUpdate
  <2>4. SameLives
    BY <1>1, <2>1, <2>3 DEF SameLives
  <2> QED BY <2>4, SameLivesStep
<1>4. CASE lock = NoId /\ find_and_switch([tasks EXCEPT ![current].quantum = 0], interrupted, interrupted)
  <2> DEFINE z == [tasks[current] EXCEPT !.quantum = 0]
             s == [tasks EXCEPT ![current] = z]
  <2>1. z \in Task /\ z.id = tasks[current].id /\ z.context = tasks[current].context
        /\ z.state = tasks[current].state
    BY TableFacts, QuantumAssumption DEF Task
  <2>2. s = [tasks EXCEPT ![current].quantum = 0]
    OBVIOUS
  <2> HIDE DEF z
  <2>3. /\ s \in Seq(Task) /\ Len(s) = Len(tasks)
        /\ \A i \in 1..Len(tasks) : s[i] = IF i = current THEN z ELSE tasks[i]
    BY <2>1, TableFacts, TableUpdate
  <2> HIDE DEF s
  <2>4. Prepared(s) /\ s[current].state # "Terminated"
    BY <2>1, <2>3, TableFacts DEF Prepared
  <2>5. find_and_switch(s, "task", "task") /\ AtCall
    BY <1>1, <1>4, <2>2 DEF AtCall
  <2> QED BY <1>1, <2>4, <2>5, DecisionStep
<1> QED BY <1>2, <1>3, <1>4 DEF scheduler_schedule, schedule_preempt

\* The switch of stacks moves contexts, not states.
LEMMA SwitchLives ==
  ASSUME SchedulerInv, StatusShape, StatusShape', switch_context
  PROVE  status' = status
<1> DEFINE from == IndexOf(pending.from)
           to == IndexOf(pending.to)
           f == [tasks[from] EXCEPT !.context = pending.at]
           mid == [tasks EXCEPT ![from] = f]
           t == [mid[to] EXCEPT !.context = "live"]
<1>1. from \in 1..Len(tasks) /\ to \in 1..Len(tasks)
  <2>1. /\ \E i \in 1..Len(tasks) : tasks[i].id = pending.from
        /\ tasks[current].id = pending.to
    BY DEF switch_context, SchedulerInv, PendingValid
  <2> QED BY <2>1, TableFacts DEF IndexOf
<1>2. /\ tasks' = [tasks EXCEPT ![from].context = pending.at, ![to].context = "live"]
      /\ nextId' = nextId
  BY DEF switch_context
<1> HIDE DEF from, to
<1>3. pending.at \in Context /\ "live" \in Context
  BY DEF SchedulerInv, TypeOK, Context
<1>4. f \in Task /\ f.id = tasks[from].id /\ f.state = tasks[from].state
  BY <1>1, <1>3, TableFacts DEF Task
<1> HIDE DEF f
<1>5. /\ mid \in Seq(Task) /\ Len(mid) = Len(tasks)
      /\ \A i \in 1..Len(tasks) : mid[i] = IF i = from THEN f ELSE tasks[i]
  BY <1>1, <1>4, TableFacts, TableUpdate
<1>6. tasks' = [mid EXCEPT ![to] = t]
  BY <1>1, <1>2, TableFacts DEF mid, f
<1> HIDE DEF mid
<1>7. t \in Task /\ t.id = mid[to].id /\ t.state = mid[to].state
  <2>1. mid[to] \in Task
    BY <1>1, <1>4, <1>5, TableFacts
  <2> QED BY <1>3, <2>1 DEF Task
<1> HIDE DEF t
<1>8. /\ Len(tasks') = Len(tasks)
      /\ \A i \in 1..Len(tasks) : tasks'[i] = IF i = to THEN t ELSE mid[i]
  BY <1>1, <1>5, <1>6, <1>7, TableUpdate
<1>9. SameLives
  BY <1>1, <1>2, <1>4, <1>5, <1>7, <1>8 DEF SameLives
<1> QED BY <1>9, SameLivesStep

(***************************************************************************)
(* Births and kills.                                                       *)
(***************************************************************************)
LEMMA SpawnLives ==
  ASSUME SchedulerInv, StatusShape, StatusShape', spawn
  PROVE  Lifecycle!LNext
<1>1. /\ lock = NoId /\ nextId \in Ids
      /\ tasks' = Append(tasks, NewTask(nextId)) /\ nextId' = nextId + 1
  BY MaxIdAssumption DEF spawn, SchedulerInv, PlaceShape, TypeOK, Ids
<1>2. NewTask(nextId) \in Task /\ NewTask(nextId).id = nextId /\ NewTask(nextId).state = "Ready"
  BY <1>1, QuantumAssumption DEF NewTask, Task, TaskState, Context
<1>3. /\ Len(tasks') = Len(tasks) + 1 /\ Len(tasks) \in Nat
      /\ \A i \in 1..Len(tasks) : tasks'[i] = tasks[i]
      /\ tasks'[Len(tasks) + 1] = NewTask(nextId)
  BY <1>1, <1>2, TableFacts, AppendProperties
<1>4. nextId \in Int /\ Ids \in SUBSET Int
  BY <1>1 DEF Ids
<1>5. status[nextId] = "unborn"
  BY <1>1, <1>4 DEF StatusShape
<1>6. \A id \in Ids : id < nextId => status[id] # "unborn"
  <2> SUFFICES ASSUME NEW id \in Ids, id < nextId PROVE status[id] # "unborn"
    OBVIOUS
  <2>1. CASE \A i \in 1..Len(tasks) : tasks[i].id # id
    BY <2>1 DEF StatusShape
  <2>2. ASSUME NEW i \in 1..Len(tasks), tasks[i].id = id PROVE status[id] # "unborn"
    BY <2>2, TableFacts DEF StatusShape, Phase, Task, TaskState
  <2> QED BY <2>1, <2>2
<1>7. \A id \in Ids : status'[id] = IF id = nextId THEN "ready" ELSE status[id]
  <2> SUFFICES ASSUME NEW id \in Ids
               PROVE  status'[id] = IF id = nextId THEN "ready" ELSE status[id]
    OBVIOUS
  <2>1. CASE id = nextId
    <3>1. Len(tasks) + 1 \in 1..Len(tasks')
      BY <1>3
    <3> QED BY <1>2, <1>3, <2>1, <3>1 DEF StatusShape, Phase
  <2>2. CASE id > nextId
    BY <1>1, <1>4, <2>2 DEF StatusShape
  <2>3. ASSUME id < nextId, NEW i \in 1..Len(tasks), tasks[i].id = id
        PROVE  status'[id] = status[id]
    <3>1. i \in 1..Len(tasks') /\ tasks'[i] = tasks[i]
      BY <1>3, <2>3
    <3> QED BY <2>3, <3>1 DEF StatusShape
  <2>4. CASE id < nextId /\ \A i \in 1..Len(tasks) : tasks[i].id # id
    <3>1. \A i \in 1..Len(tasks') : tasks'[i].id # id
      <4>1. \A i \in 1..Len(tasks') : i \in 1..Len(tasks) \/ i = Len(tasks) + 1
        BY <1>3
      <4> QED BY <1>2, <1>3, <1>4, <2>4, <4>1
    <3>2. id < nextId'
      BY <1>1, <1>4, <2>4
    <3> QED BY <2>4, <3>1, <3>2 DEF StatusShape
  <2> QED BY <1>4, <2>1, <2>2, <2>3, <2>4
<1>8. status' = [status EXCEPT ![nextId] = "ready"]
  BY <1>1, <1>7 DEF StatusShape
<1>9. Lifecycle!Born(nextId)
  BY <1>5, <1>6, <1>8 DEF Lifecycle!Born, Lifecycle!LifeIds, Ids
<1> QED BY <1>1, <1>9 DEF Lifecycle!LNext, Lifecycle!LifeIds, Ids

\* The terminated tasks a kill removes on the way were dead before.
LEMMA KillLives ==
  ASSUME SchedulerInv, StatusShape, StatusShape', NEW id \in Ids, kill(id)
  PROVE  Lifecycle!LNext
<1> DEFINE j == Least(Killable(id))
           t == [tasks[j] EXCEPT !.state = "Terminated"]
           s == [tasks EXCEPT ![j] = t]
           S == Kept(s)
<1>1. pc = "task" /\ lock = NoId /\ cpu = Kernel /\ id # Kernel /\ nextId' = nextId
  BY DEF kill, SchedulerInv, PlaceShape
<1>2. Killable(id) # {} /\ cleanup_terminated(s)
  BY <1>1 DEF kill
<1>3. j \in 1..Len(tasks) /\ tasks[j].id = id /\ tasks[j].state # "Terminated"
  <2>1. Killable(id) \in SUBSET (1..Len(tasks)) /\ Killable(id) \in SUBSET Nat
    BY TableFacts DEF Killable
  <2>2. j \in Killable(id)
    BY <1>2, <2>1, LeastProperties
  <2> QED BY <2>1, <2>2 DEF Killable
<1> HIDE DEF j
<1>4. t \in Task /\ t.id = id /\ t.state = "Terminated"
  BY <1>3, TableFacts DEF Task, TaskState
<1> HIDE DEF t
<1>5. /\ s \in Seq(Task) /\ Len(s) = Len(tasks)
      /\ \A i \in 1..Len(tasks) : s[i] = IF i = j THEN t ELSE tasks[i]
  BY <1>3, <1>4, TableFacts, TableUpdate
<1>6. /\ tasks' = Retained(s, S)
      /\ S = {i \in 1..Len(tasks) : i # j /\ (tasks[i].id = Kernel \/ tasks[i].state # "Terminated")}
  <2>1. tasks' = Retained(s, S)
    BY <1>2 DEF cleanup_terminated
  <2> QED BY <1>1, <1>4, <1>5, <2>1 DEF Kept
<1> HIDE DEF s, S
<1>7. /\ \A i \in S : \E k \in 1..Len(tasks') : tasks'[k] = tasks[i]
      /\ \A k \in 1..Len(tasks') : \E i \in S : tasks'[k] = tasks[i]
  <2>1. S \in SUBSET (1..Len(s)) /\ \A i \in S : s[i] = tasks[i]
    BY <1>5, <1>6
  <2>2. /\ Len(Retained(s, S)) = Cardinality(S)
        /\ \A i \in S : /\ Rank(i, S) \in 1..Cardinality(S)
                        /\ Retained(s, S)[Rank(i, S)] = s[i]
        /\ \A k \in 1..Cardinality(S) :
             \E i \in S : Rank(i, S) = k /\ Retained(s, S)[k] = s[i]
    BY <1>5, <2>1, RetainedProperties
  <2> DEFINE kept == Retained(s, S)
  <2>3. tasks' = kept
    BY <1>6
  <2>4. /\ \A i \in S : Rank(i, S) \in 1..Len(kept) /\ kept[Rank(i, S)] = tasks[i]
        /\ \A k \in 1..Len(kept) : \E i \in S : kept[k] = tasks[i]
    BY <2>1, <2>2
  <2> HIDE DEF kept
  <2> QED BY <2>3, <2>4
<1>8. cpu = tasks[current].id /\ current \in 1..Len(tasks)
      /\ tasks[current].state = "Running" /\ j # current
  BY <1>1, <1>3, TableFacts
<1>9. status[id] = "ready" /\ status[0] = "running"
  <2>1. tasks[j].state = "Ready"
    BY <1>3, <1>8, TableFacts DEF Task, TaskState
  <2> QED BY <1>1, <1>3, <1>8, <2>1 DEF StatusShape, Phase, Kernel
<1>10. \A other \in Ids : status'[other] = IF other = id THEN "dead" ELSE status[other]
  <2> SUFFICES ASSUME NEW other \in Ids
               PROVE  status'[other] = IF other = id THEN "dead" ELSE status[other]
    OBVIOUS
  <2>1. nextId \in Int /\ Ids \in SUBSET Int /\ id < nextId
    BY <1>3, MaxIdAssumption DEF SchedulerInv, TypeOK, Ids, StatusShape
  <2>2. CASE other >= nextId
    BY <1>1, <2>1, <2>2 DEF StatusShape
  <2>3. ASSUME NEW i \in S, tasks[i].id = other
        PROVE  status'[other] = IF other = id THEN "dead" ELSE status[other]
    <3>1. PICK k \in 1..Len(tasks') : tasks'[k] = tasks[i]
      BY <1>7
    <3>2. i \in 1..Len(tasks) /\ other # id
      BY <1>3, <1>6, <2>3, TableFacts
    <3> QED BY <2>3, <3>1, <3>2 DEF StatusShape
  <2>4. ASSUME other < nextId, \A i \in S : tasks[i].id # other
        PROVE  status'[other] = IF other = id THEN "dead" ELSE status[other]
    <3>1. \A k \in 1..Len(tasks') : tasks'[k].id # other
      BY <1>7, <2>4
    <3>2. status'[other] = "dead"
      BY <1>1, <2>4, <3>1 DEF StatusShape
    <3>3. ASSUME other # id PROVE status[other] = "dead"
      <4>1. CASE \A i \in 1..Len(tasks) : tasks[i].id # other
        BY <2>4, <4>1 DEF StatusShape
      <4>2. ASSUME NEW i \in 1..Len(tasks), tasks[i].id = other PROVE status[other] = "dead"
        <5>1. tasks[i].state = "Terminated"
          BY <1>3, <1>6, <2>4, <3>3, <4>2
        <5> QED BY <4>2, <5>1 DEF StatusShape, Phase
      <4> QED BY <4>1, <4>2
    <3> QED BY <3>2, <3>3
  <2> QED BY <2>1, <2>2, <2>3, <2>4
<1>11. status' = [status EXCEPT ![id] = "dead"]
  BY <1>10 DEF StatusShape
<1>12. Lifecycle!Killed(id)
  BY <1>9, <1>11 DEF Lifecycle!Killed
<1> QED BY <1>12 DEF Lifecycle!LNext, Lifecycle!LifeIds, Ids

(***************************************************************************)
(* The refinement.                                                         *)
(***************************************************************************)
LEMMA InitLives == Init => Lifecycle!LInit
<1> SUFFICES ASSUME Init PROVE Lifecycle!LInit
  OBVIOUS
<1>1. StatusShape
  BY InitInv, StatusHasShape
<1>2. Len(tasks) = 1 /\ tasks[1].id = 0 /\ tasks[1].state = "Running" /\ nextId = 1
  BY DEF Init, kernel_task, Kernel
<1>3. \A id \in Ids : id = 0 \/ id >= 1
  BY MaxIdAssumption DEF Ids
<1>4. \A id \in Ids : status[id] = IF id = 0 THEN "running" ELSE "unborn"
  BY <1>1, <1>2, <1>3 DEF StatusShape, Phase
<1> QED BY <1>1, <1>4 DEF StatusShape, Lifecycle!LInit, Lifecycle!LifeIds, Ids

LEMMA StepLives ==
  ASSUME SchedulerInv, StatusShape, StatusShape', [Next]_vars
  PROVE  Lifecycle!LNext \/ status' = status
<1>1. CASE \/ UNCHANGED vars \/ TimerInterrupt \/ rust_timer_handler
           \/ task_entry_trampoline \/ getpid_lock \/ sys_getpid
  <2>1. UNCHANGED <<tasks, nextId>>
    BY <1>1 DEF vars, TimerInterrupt, rust_timer_handler, task_entry_trampoline,
                getpid_lock, sys_getpid
  <2> QED BY <2>1, QuietStep
<1>2. CASE yield_now
  BY <1>2, YieldLives
<1>3. CASE exit_current_task
  BY <1>3, ExitLives
<1>4. CASE scheduler_schedule
  BY <1>4, TickLives
<1>5. CASE switch_context
  BY <1>5, SwitchLives
<1>6. CASE spawn
  BY <1>6, SpawnLives
<1>7. ASSUME NEW id \in Ids, kill(id) PROVE Lifecycle!LNext
  BY <1>7, KillLives
<1> QED BY <1>1, <1>2, <1>3, <1>4, <1>5, <1>6, <1>7 DEF Next, KernelStep, TaskStep

\* Whatever ticks, programs and the shell do, ids are born once and in order,
\* the processor passes from the one running task to a ready one, only ready
\* tasks are killed, and the dead stay dead.
THEOREM SchedulerRefinesLifecycle == Spec => ImplementsLifecycle
<1>1. SchedulerInv => StatusShape
  BY StatusHasShape
<1>2. SchedulerInv /\ SchedulerInv' /\ StatusShape /\ StatusShape' /\ [Next]_vars
      => [Lifecycle!LNext]_status
  BY StepLives
<1> QED BY <1>1, <1>2, InitLives, SchedulerCorrect, PTL
        DEF Spec, ImplementsLifecycle, Lifecycle!Spec

(***************************************************************************)
(* Memory                                                                  *)
(***************************************************************************)
\* allocate_frame finds the first usable frame from next_addr on.
LEMMA FrameAtProperties ==
  ASSUME memory_map \in MemoryMaps, NEW next \in Nat, HasFrame(next)
  PROVE  /\ FrameAt(next) \in Nat
         /\ next <= FrameAt(next)
         /\ UsableFrame(FrameAt(next))
         /\ \A g \in Nat : next <= g /\ UsableFrame(g) => FrameAt(next) <= g
<1> DEFINE W == WithFrames(next)
           i == Least(W)
<1>1. IsMemoryMap(memory_map)
  BY MemoryAssumption
<1>2. \A j \in DOMAIN memory_map : /\ memory_map[j] \in Region
                                   /\ From(j, next) \in Nat
                                   /\ next <= From(j, next)
                                   /\ memory_map[j].start <= From(j, next)
  <2>1. \A j \in DOMAIN memory_map : memory_map[j] \in Region
    BY <1>1 DEF IsMemoryMap
  <2> QED BY <2>1 DEF From, Region
<1>3. W \in SUBSET Nat /\ W # {} /\ W \subseteq DOMAIN memory_map
  BY <1>1 DEF IsMemoryMap, WithFrames, HasFrame
<1>4. i \in W /\ \A j \in W : i <= j
  BY <1>3, LeastProperties
<1> HIDE DEF i
<1>5. FrameAt(next) = From(i, next)
  BY DEF FrameAt, i
<1>6. FrameAt(next) \in Nat /\ next <= FrameAt(next)
  BY <1>2, <1>3, <1>4, <1>5
<1>7. UsableFrame(FrameAt(next))
  BY <1>2, <1>3, <1>4, <1>5 DEF UsableFrame, WithFrames
<1>8. ASSUME NEW g \in Nat, next <= g, UsableFrame(g)
      PROVE  FrameAt(next) <= g
  <2>1. PICK j \in DOMAIN memory_map :
          memory_map[j].usable /\ memory_map[j].start <= g /\ g < memory_map[j].end
    BY <1>8 DEF UsableFrame
  <2>2. From(j, next) <= g /\ j \in W
    BY <1>2, <1>8, <2>1 DEF From, WithFrames, Region
  <2>3. i <= j /\ i \in DOMAIN memory_map /\ i \in Nat /\ j \in Nat
    BY <1>3, <1>4, <2>2
  <2>4. CASE i = j
    BY <1>5, <2>2, <2>4
  <2>5. CASE i < j
    <3>1. memory_map[i].end <= memory_map[j].start
      BY <1>1, <2>3, <2>5 DEF IsMemoryMap
    <3>2. From(i, next) < memory_map[i].end
      BY <1>4 DEF WithFrames
    <3> QED BY <1>2, <1>5, <2>1, <2>3, <3>1, <3>2 DEF Region
  <2> QED BY <2>3, <2>4, <2>5
<1> QED BY <1>6, <1>7, <1>8

\* When it finds none, all usable frames lie before next_addr.
LEMMA NoFrameProperties ==
  ASSUME memory_map \in MemoryMaps, NEW next \in Nat, ~HasFrame(next),
         NEW g \in Nat, UsableFrame(g)
  PROVE  g < next
<1>1. IsMemoryMap(memory_map)
  BY MemoryAssumption
<1>2. PICK j \in DOMAIN memory_map :
        memory_map[j].usable /\ memory_map[j].start <= g /\ g < memory_map[j].end
  BY DEF UsableFrame
<1>3. memory_map[j] \in Region
  BY <1>1 DEF IsMemoryMap
<1>4. ~(From(j, next) < memory_map[j].end)
  BY <1>2 DEF HasFrame, WithFrames
<1> QED BY <1>2, <1>3, <1>4 DEF From, Region

\* A frame that is handed out is the least usable one not handed out before.
LEMMA HandOut ==
  ASSUME memory_map \in MemoryMaps, NEW next \in Nat, HasFrame(next), NEW set,
         \A f \in set : f \in Nat /\ f < next /\ UsableFrame(f),
         \A f \in Nat : f < next /\ UsableFrame(f) => f \in set
  PROVE  LET frame == FrameAt(next)
             more == set \cup {frame}
         IN  /\ frame \in Nat /\ frame \notin set
             /\ Behind(frame) \in Nat
             /\ \A f \in more : f \in Nat /\ f < Behind(frame) /\ UsableFrame(f)
             /\ \A f \in Nat : f < Behind(frame) /\ UsableFrame(f) => f \in more
<1> DEFINE frame == FrameAt(next)
<1>1. /\ frame \in Nat /\ next <= frame /\ UsableFrame(frame)
      /\ \A g \in Nat : next <= g /\ UsableFrame(g) => frame <= g
  BY FrameAtProperties
<1> HIDE DEF frame
<1>2. frame \notin set /\ Behind(frame) = frame + 1
  BY <1>1 DEF Behind
<1>3. ASSUME NEW f \in Nat, f < frame + 1, UsableFrame(f) PROVE f \in set \cup {frame}
  BY <1>1, <1>3
<1> QED BY <1>1, <1>2, <1>3 DEF frame

\* Mapping a page hands out its frame, and the frame of its table if need be.
LEMMA MappedStep ==
  ASSUME FrameInv, NEW page, NEW writable, page \notin DOMAIN mapped,
         Mapped(page, writable), UNCHANGED <<memory_map, protect>>
  PROVE  FrameInv' /\ DOMAIN mapped' = DOMAIN mapped \cup {page}
<1> DEFINE frame == FrameAt(next_addr)
           next == Behind(frame)
           table == FrameAt(next)
<1> USE DEF FrameInv
<1>1. /\ frame \in Nat /\ frame \notin handed /\ next \in Nat
      /\ \A f \in handed \cup {frame} : f \in Nat /\ f < next /\ UsableFrame(f)
      /\ \A f \in Nat : f < next /\ UsableFrame(f) => f \in handed \cup {frame}
  BY HandOut DEF Mapped
<1>2. /\ DOMAIN mapped' = DOMAIN mapped \cup {page}
      /\ mapped'[page].frame = frame
      /\ \A p \in DOMAIN mapped : mapped'[p] = mapped[p]
  <2> DEFINE entry == [frame |-> frame, writable |-> writable]
  <2>1. mapped' = Put(mapped, page, entry) /\ entry.frame = frame
    BY DEF Mapped
  <2> HIDE DEF entry, frame
  <2>2. /\ DOMAIN mapped' = DOMAIN mapped \cup {page}
        /\ mapped'[page] = entry
        /\ \A p \in DOMAIN mapped : mapped'[p] = mapped[p]
    BY <2>1 DEF Put
  <2> QED BY <2>1, <2>2
<1>3. PageFrames' = PageFrames \cup {frame}
  BY <1>2 DEF PageFrames
<1>4. ~refused /\ refused' = refused /\ misses' = misses /\ Owned \subseteq handed
  BY DEF Mapped
<1>5. \A f : UsableFrame(f)' <=> UsableFrame(f)
  BY DEF UsableFrame
<1>6. CASE /\ Table[page] \in DOMAIN tables /\ next_addr' = next
           /\ handed' = handed \cup {frame} /\ UNCHANGED tables
  <2>1. TableFrames' = TableFrames
    BY <1>6 DEF TableFrames
  <2>2. Owned' \subseteq handed' /\ Lost' = Lost
    BY <1>1, <1>3, <1>4, <1>6, <2>1 DEF Owned, Lost
  <2>3. FramesAreExclusive'
    <3>1. \A a, b \in DOMAIN mapped' : mapped'[a].frame = mapped'[b].frame => a = b
      BY <1>1, <1>2, <1>4 DEF FramesAreExclusive, Owned, PageFrames
    <3>2. \A t, u \in DOMAIN tables' : tables'[t] = tables'[u] => t = u
      BY <1>6 DEF FramesAreExclusive
    <3>3. PageFrames' \cap TableFrames' = {}
      BY <1>1, <1>3, <1>4, <2>1 DEF FramesAreExclusive, Owned
    <3>4. \A f \in PageFrames' \cup TableFrames' : UsableFrame(f)'
      BY <1>1, <1>3, <1>5, <2>1 DEF FramesAreExclusive
    <3> QED BY <3>1, <3>2, <3>3, <3>4 DEF FramesAreExclusive
  <2>4. memory_map' \in MemoryMaps /\ next_addr' \in Nat /\ protect' \in BOOLEAN
    BY <1>1, <1>6
  <2>5. \A f \in handed' : f \in Nat /\ f < next_addr' /\ UsableFrame(f)'
    BY <1>1, <1>5, <1>6
  <2>6. \A f \in Nat : f < next_addr' /\ UsableFrame(f)' => f \in handed'
    BY <1>1, <1>5, <1>6
  <2>7. IsFiniteSet(Lost') /\ EachLossHasAFailure' /\ misses' \in Nat
    BY <1>4, <2>2 DEF EachLossHasAFailure
  <2> HIDE DEF FrameInv
  <2> QED BY <1>2, <1>4, <2>2, <2>3, <2>4, <2>5, <2>6, <2>7 DEF FrameInv
<1>7. CASE /\ Table[page] \notin DOMAIN tables /\ HasFrame(next)
           /\ next_addr' = Behind(table) /\ handed' = handed \cup {frame, table}
           /\ tables' = Put(tables, Table[page], table)
  <2>0. handed' = (handed \cup {frame}) \cup {table}
    BY <1>7
  <2>1. /\ table \in Nat /\ table \notin handed \cup {frame} /\ Behind(table) \in Nat
        /\ \A f \in handed' : f \in Nat /\ f < Behind(table) /\ UsableFrame(f)
        /\ \A f \in Nat : f < Behind(table) /\ UsableFrame(f) => f \in handed'
    <3> HIDE DEF next, frame
    <3> QED BY <1>1, <1>7, <2>0, HandOut
  <2>2. /\ DOMAIN tables' = DOMAIN tables \cup {Table[page]}
        /\ tables'[Table[page]] = table
        /\ \A t \in DOMAIN tables : tables'[t] = tables[t]
    <3> HIDE DEF table
    <3> QED BY <1>7 DEF Put
  <2>3. TableFrames' = TableFrames \cup {table}
    BY <2>2 DEF TableFrames
  <2> HIDE DEF table, next, frame
  <2>4. Owned' \subseteq handed' /\ Lost' = Lost
    BY <1>1, <1>3, <1>4, <2>0, <2>1, <2>3 DEF Owned, Lost
  <2>5. FramesAreExclusive'
    <3>1. \A a, b \in DOMAIN mapped' : mapped'[a].frame = mapped'[b].frame => a = b
      BY <1>1, <1>2, <1>4 DEF FramesAreExclusive, Owned, PageFrames
    <3>2. \A t, u \in DOMAIN tables' : tables'[t] = tables'[u] => t = u
      BY <1>4, <2>1, <2>2 DEF FramesAreExclusive, Owned, TableFrames
    <3>3. PageFrames' \cap TableFrames' = {}
      BY <1>1, <1>3, <1>4, <2>1, <2>3 DEF FramesAreExclusive, Owned
    <3>4. \A f \in PageFrames' \cup TableFrames' : UsableFrame(f)'
      BY <1>3, <1>4, <1>5, <2>0, <2>1, <2>3 DEF Owned
    <3> QED BY <3>1, <3>2, <3>3, <3>4 DEF FramesAreExclusive
  <2>6. memory_map' \in MemoryMaps /\ next_addr' \in Nat /\ protect' \in BOOLEAN
    BY <1>7, <2>1 DEF table, next, frame
  <2>7. \A f \in handed' : f \in Nat /\ f < next_addr' /\ UsableFrame(f)'
    BY <1>5, <1>7, <2>1 DEF table, next, frame
  <2>8. \A f \in Nat : f < next_addr' /\ UsableFrame(f)' => f \in handed'
    BY <1>5, <1>7, <2>1 DEF table, next, frame
  <2>9. IsFiniteSet(Lost') /\ EachLossHasAFailure' /\ misses' \in Nat
    BY <1>4, <2>4 DEF EachLossHasAFailure
  <2> HIDE DEF FrameInv
  <2> QED BY <1>2, <1>4, <2>4, <2>5, <2>6, <2>7, <2>8, <2>9 DEF FrameInv
<1> QED BY <1>2, <1>6, <1>7 DEF Mapped

\* A frame that is handed out and not mapped is lost.
LEMMA OneMoreIsLost ==
  ASSUME FrameInv, allocate_frame, UNCHANGED <<memory_map, protect, mapped, tables>>
  PROVE  /\ ~refused
         /\ next_addr' \in Nat /\ Owned' = Owned /\ FramesAreExclusive' /\ Owned' \subseteq handed'
         /\ \A f \in handed' : f \in Nat /\ f < next_addr' /\ UsableFrame(f)'
         /\ \A f \in Nat : f < next_addr' /\ UsableFrame(f)' => f \in handed'
         /\ IsFiniteSet(Lost') /\ Cardinality(Lost') = misses + 1
<1> DEFINE frame == FrameAt(next_addr)
<1> USE DEF FrameInv
<1>1. /\ HasFrame(next_addr) /\ ~refused
      /\ next_addr' = Behind(frame) /\ handed' = handed \cup {frame}
  BY DEF allocate_frame
<1>2. /\ Owned' = Owned /\ FramesAreExclusive'
      /\ \A f : UsableFrame(f)' <=> UsableFrame(f)
  BY DEF Owned, PageFrames, TableFrames, FramesAreExclusive, UsableFrame
<1>3. /\ frame \in Nat /\ frame \notin handed /\ Behind(frame) \in Nat
      /\ \A f \in handed \cup {frame} : f \in Nat /\ f < Behind(frame) /\ UsableFrame(f)
      /\ \A f \in Nat : f < Behind(frame) /\ UsableFrame(f) => f \in handed \cup {frame}
  BY <1>1, HandOut
<1> HIDE DEF frame
<1>4. Lost' = Lost \cup {frame} /\ frame \notin Lost
  BY <1>1, <1>2, <1>3 DEF Lost, Owned
<1>5. IsFiniteSet(Lost) /\ Cardinality(Lost) = misses
  BY <1>1 DEF EachLossHasAFailure
<1>6. IsFiniteSet(Lost') /\ Cardinality(Lost') = misses + 1
  BY <1>4, <1>5, FS_AddElement
<1>7. Owned' \subseteq handed'
  BY <1>1, <1>2
<1> HIDE DEF FrameInv
<1> QED BY <1>1, <1>2, <1>3, <1>6, <1>7

\* When a page cannot be mapped, one frame at most has no owner from then on: there
\* is never a frame again, or map_to has met a huge page once more.
LEMMA NotMappedStep ==
  ASSUME FrameInv, NEW page, NotMapped(page), UNCHANGED <<memory_map, protect>>
  PROVE  FrameInv' /\ UNCHANGED mapped
<1>0. /\ UNCHANGED <<mapped, tables>> /\ memory_map' \in MemoryMaps /\ protect' \in BOOLEAN
      /\ misses \in Nat /\ (OutOfMemory(page) \/ MapFailed(page))
      /\ \A n : HasFrame(n)' <=> HasFrame(n)
  BY DEF NotMapped, FrameInv, HasFrame, WithFrames, From
<1>1. CASE ~HasFrame(next_addr) /\ UNCHANGED <<next_addr, handed, misses>> /\ refused' = TRUE
  BY <1>0, <1>1
     DEF FrameInv, Owned, PageFrames, TableFrames, FramesAreExclusive, UsableFrame, Lost,
         EachLossHasAFailure
<1>2. CASE allocate_frame /\ ~HasFrame(next_addr') /\ refused' = TRUE /\ UNCHANGED misses
  <2>1. /\ next_addr' \in Nat /\ FramesAreExclusive' /\ Owned' \subseteq handed'
        /\ \A f \in handed' : f \in Nat /\ f < next_addr' /\ UsableFrame(f)'
        /\ \A f \in Nat : f < next_addr' /\ UsableFrame(f)' => f \in handed'
        /\ IsFiniteSet(Lost') /\ Cardinality(Lost') = misses + 1
    BY <1>0, <1>2, OneMoreIsLost
  <2>2. EachLossHasAFailure' /\ misses' \in Nat /\ ~HasFrame(next_addr)'
    BY <1>0, <1>2, <2>1 DEF EachLossHasAFailure, HasFrame, WithFrames, From
  <2> QED BY <1>0, <1>2, <2>1, <2>2 DEF FrameInv
<1>3. CASE allocate_frame /\ misses' = misses + 1 /\ UNCHANGED refused
  <2>1. /\ ~refused /\ next_addr' \in Nat /\ FramesAreExclusive' /\ Owned' \subseteq handed'
        /\ \A f \in handed' : f \in Nat /\ f < next_addr' /\ UsableFrame(f)'
        /\ \A f \in Nat : f < next_addr' /\ UsableFrame(f)' => f \in handed'
        /\ IsFiniteSet(Lost') /\ Cardinality(Lost') = misses + 1
    BY <1>0, <1>3, OneMoreIsLost
  <2>2. EachLossHasAFailure' /\ misses' \in Nat /\ refused' = FALSE
    BY <1>0, <1>3, <2>1 DEF EachLossHasAFailure, FrameInv
  <2> QED BY <1>0, <2>1, <2>2 DEF FrameInv
<1> QED BY <1>0, <1>1, <1>2, <1>3 DEF OutOfMemory, MapFailed

LEMMA FramesStay ==
  ASSUME FrameInv,
         UNCHANGED <<memory_map, next_addr, mapped, tables, protect, handed, refused, misses>>
  PROVE  FrameInv'
BY DEF FrameInv, Owned, PageFrames, TableFrames, FramesAreExclusive, UsableFrame,
       HasFrame, WithFrames, From, Lost, EachLossHasAFailure

LEMMA SegmentProperties ==
  ASSUME NEW p \in Programs, NEW i \in DOMAIN Segments[p]
  PROVE  /\ Segments[p][i].first \in Int /\ Segments[p][i].last \in Int
         /\ Segments[p][i].first <= Segments[p][i].last
         /\ Segments[p][i].first..Segments[p][i].last \subseteq Pages
<1>1. Segments[p][i] \in Segment
  BY MemoryAssumption
<1> QED BY <1>1, MemoryAssumption DEF Segment

LEMMA MemoryInitially == MemoryInit => MemoryInv
<1> SUFFICES ASSUME MemoryInit PROVE MemoryInv
  OBVIOUS
<1> USE DEF MemoryInit
<1>1. WorkInv
  BY MemoryAssumption DEF WorkInv, HeapPage
<1>2. FrameInv
  <2>1. Owned = {} /\ PageFrames = {} /\ TableFrames = {}
    BY DEF Owned, PageFrames, TableFrames
  <2>2. FramesAreExclusive
    BY <2>1 DEF FramesAreExclusive
  <2>3. 0 \in Nat /\ \A f \in Nat : ~(f < next_addr)
    OBVIOUS
  <2>4. IsFiniteSet(Lost) /\ EachLossHasAFailure /\ misses \in Nat
    <3>1. Lost = {}
      BY DEF Lost
    <3>2. misses = 0 /\ IsFiniteSet({}) /\ Cardinality({}) = 0
      BY FS_EmptySet
    <3> QED BY <3>1, <3>2 DEF EachLossHasAFailure
  <2> QED BY <2>1, <2>2, <2>3, <2>4 DEF FrameInv
<1> QED BY <1>1, <1>2 DEF MemoryInv

LEMMA HeapStep == MemoryInv /\ init_heap => MemoryInv'
<1> SUFFICES ASSUME MemoryInv, init_heap PROVE MemoryInv'
  OBVIOUS
<1> USE DEF MemoryInv
<1>0. /\ work.at = "heap" /\ work.page \in HeapFirst..HeapLast
      /\ DOMAIN mapped = HeapFirst..(work.page - 1)
      /\ HeapFirst \in Int /\ HeapLast \in Int /\ work.page \in Pages
      /\ work.page \in Int /\ work.page \notin DOMAIN mapped
  <2>1. /\ HeapFirst \in Int /\ HeapLast \in Int
        /\ HeapFirst..HeapLast \subseteq Pages
    BY MemoryAssumption
  <2>2. /\ work.at = "heap" /\ work.page \in HeapFirst..HeapLast
        /\ DOMAIN mapped = HeapFirst..(work.page - 1)
    BY DEF init_heap, WorkInv
  <2> QED BY <2>1, <2>2
<1>1. CASE /\ Mapped(work.page, TRUE)
           /\ work' = IF work.page = HeapLast THEN Idle ELSE HeapPage(work.page + 1)
  <2>1. FrameInv' /\ DOMAIN mapped' = DOMAIN mapped \cup {work.page}
    BY <1>0, <1>1, MappedStep DEF init_heap
  <2>2. DOMAIN mapped' = HeapFirst..work.page /\ DOMAIN mapped' \subseteq Pages
    BY <1>0, <2>1, MemoryAssumption
  <2>3. WorkInv'
    BY <1>0, <1>1, <2>2 DEF WorkInv, Idle, HeapPage
  <2> QED BY <2>1, <2>3
<1>2. CASE NotMapped(work.page) /\ work' = Halted
  <2>1. FrameInv' /\ UNCHANGED mapped
    BY <1>2, NotMappedStep DEF init_heap
  <2> QED BY <1>2, <2>1 DEF WorkInv, Halted
<1> QED BY <1>1, <1>2 DEF init_heap

LEMMA ExecStep == ASSUME NEW p \in Programs PROVE MemoryInv /\ cmd_exec(p) => MemoryInv'
<1> SUFFICES ASSUME MemoryInv, cmd_exec(p) PROVE MemoryInv'
  OBVIOUS
<1>1. FrameInv'
  BY FramesStay DEF MemoryInv, cmd_exec
<1>2. 1 \in DOMAIN Segments[p]
  BY MemoryAssumption
<1>3. /\ Segments[p][1].first \in Int /\ Segments[p][1].last \in Int
      /\ Segments[p][1].first <= Segments[p][1].last
  BY <1>2, SegmentProperties
<1>4. WorkInv'
  BY <1>2, <1>3 DEF MemoryInv, WorkInv, cmd_exec, LoadPage, AtSegment, Current
<1> QED BY <1>1, <1>4 DEF MemoryInv

LEMMA MapStep == MemoryInv /\ MapSegment => MemoryInv'
<1> SUFFICES ASSUME MemoryInv, MapSegment PROVE MemoryInv'
  OBVIOUS
<1>0. /\ work.at = "load" /\ AtSegment
      /\ work.page \in Current.first..Current.last
      /\ Current.first..(work.page - 1) \subseteq DOMAIN mapped
      /\ HeapFirst..HeapLast \subseteq DOMAIN mapped /\ DOMAIN mapped \subseteq Pages
      /\ FrameInv
  BY DEF MemoryInv, WorkInv, MapSegment
<1>1. /\ Current.first \in Int /\ Current.last \in Int
      /\ Current.first..Current.last \subseteq Pages
      /\ work.page \in Pages /\ work.page \in Int
  BY <1>0, SegmentProperties DEF AtSegment, Current
<1>2. ASSUME DOMAIN mapped \cup {work.page} = DOMAIN mapped', work' = AfterPage
      PROVE  WorkInv'
  <2>1. DOMAIN mapped' \subseteq Pages /\ HeapFirst..HeapLast \subseteq DOMAIN mapped'
    BY <1>0, <1>1, <1>2
  <2>2. Current.first..work.page \subseteq DOMAIN mapped'
    BY <1>0, <1>1, <1>2
  <2>3. CASE work.page = Current.last
    <3>1. work' = Copy(work.program, work.segment)
      BY <1>2, <2>3 DEF AfterPage, Current
    <3> QED BY <1>0, <2>1, <2>2, <2>3, <3>1 DEF WorkInv, Copy, AtSegment, Current
  <2>4. CASE work.page # Current.last
    <3>1. work' = LoadPage(work.program, work.segment, work.page + 1)
      BY <1>2, <2>4 DEF AfterPage, Current
    <3>2. work.page + 1 \in Current.first..Current.last
      BY <1>0, <1>1, <2>4
    <3>3. work'.at = "load" /\ work'.page = work.page + 1 /\ Current' = Current /\ AtSegment'
      BY <1>0, <3>1 DEF LoadPage, Current, AtSegment
    <3>4. Current.first..(work'.page - 1) \subseteq DOMAIN mapped'
      BY <1>1, <2>2, <3>3
    <3> QED BY <2>1, <3>2, <3>3, <3>4 DEF WorkInv
  <2> QED BY <2>3, <2>4
<1>3. CASE /\ work.page \in DOMAIN mapped /\ work' = AfterPage
           /\ UNCHANGED <<next_addr, mapped, tables, handed, refused, misses>>
  <2>1. FrameInv'
    BY <1>0, <1>3, FramesStay DEF MapSegment
  <2> QED BY <1>2, <1>3, <2>1 DEF MemoryInv
<1>4. CASE /\ work.page \notin DOMAIN mapped /\ work' = AfterPage
           /\ Mapped(work.page, Segments[work.program][work.segment].writable)
  <2>1. FrameInv' /\ DOMAIN mapped' = DOMAIN mapped \cup {work.page}
    BY <1>0, <1>4, MappedStep DEF MapSegment
  <2> QED BY <1>2, <1>4, <2>1 DEF MemoryInv
<1>5. CASE NotMapped(work.page) /\ work' = Idle
  <2>1. FrameInv' /\ UNCHANGED mapped
    BY <1>0, <1>5, NotMappedStep DEF MapSegment
  <2> QED BY <1>0, <1>5, <2>1 DEF MemoryInv, WorkInv, Idle
<1> QED BY <1>3, <1>4, <1>5 DEF MapSegment

LEMMA CopyStep == MemoryInv /\ CopySegment => MemoryInv'
<1> SUFFICES ASSUME MemoryInv, CopySegment PROVE MemoryInv'
  OBVIOUS
<1> DEFINE i == work.segment + 1
<1>1. FrameInv'
  BY FramesStay DEF MemoryInv, CopySegment
<1>2. /\ work.at = "copy" /\ AtSegment /\ DOMAIN mapped \subseteq Pages
      /\ HeapFirst..HeapLast \subseteq DOMAIN mapped /\ UNCHANGED mapped
  BY DEF MemoryInv, WorkInv, CopySegment
<1>3. CASE work' \in {Idle, Halted}
  <2>1. work'.at \in {"idle", "halted"}
    BY <1>3 DEF Idle, Halted
  <2> QED BY <1>1, <1>2, <2>1 DEF MemoryInv, WorkInv
<1>4. CASE i <= Len(Segments[work.program])
           /\ work' = LoadPage(work.program, i, Segments[work.program][i].first)
  <2>1. i \in DOMAIN Segments[work.program]
    BY <1>2, <1>4, MemoryAssumption DEF AtSegment
  <2>2. /\ Segments[work.program][i].first \in Int /\ Segments[work.program][i].last \in Int
        /\ Segments[work.program][i].first <= Segments[work.program][i].last
    BY <1>2, <2>1, SegmentProperties DEF AtSegment
  <2>3. /\ work'.at = "load" /\ AtSegment' /\ work'.page = Current'.first
        /\ Current' = Segments[work.program][i]
    BY <1>2, <1>4, <2>1 DEF LoadPage, AtSegment, Current
  <2> QED BY <1>1, <1>2, <2>2, <2>3 DEF MemoryInv, WorkInv
<1>5. i \in Int /\ Len(Segments[work.program]) \in Nat
  BY <1>2, MemoryAssumption DEF AtSegment
<1> QED BY <1>1, <1>3, <1>4, <1>5 DEF CopySegment, MemoryInv

\* Every reachable state satisfies the inductive invariant.
THEOREM MemoryCorrect == MemorySpec => []MemoryInv
<1>1. MemoryInit => MemoryInv
  BY MemoryInitially
<1>2. MemoryInv /\ [MemoryNext]_mvars => MemoryInv'
  <2> SUFFICES ASSUME MemoryInv, [MemoryNext]_mvars PROVE MemoryInv'
    OBVIOUS
  <2>1. CASE init_heap
    BY <2>1, HeapStep
  <2>2. CASE \E p \in Programs : cmd_exec(p)
    BY <2>2, ExecStep
  <2>3. CASE MapSegment
    BY <2>3, MapStep
  <2>4. CASE CopySegment
    BY <2>4, CopyStep
  <2>5. CASE UNCHANGED mvars
    <3>1. FrameInv'
      BY <2>5, FramesStay DEF MemoryInv, mvars
    <3> QED BY <2>5, <3>1 DEF MemoryInv, WorkInv, AtSegment, Current, mvars
  <2> QED BY <2>1, <2>2, <2>3, <2>4, <2>5 DEF MemoryNext
<1> QED BY <1>1, <1>2, PTL DEF MemorySpec

\* The heap is mapped once boot is over, and no segment is copied before all
\* of its pages are mapped.
THEOREM MemoryTypeCorrect == MemorySpec => []MemoryTypeOK
<1>1. MemoryInv => MemoryTypeOK
  BY DEF MemoryInv, WorkInv, FrameInv, MemoryTypeOK, Current
<1> QED BY <1>1, MemoryCorrect, PTL

\* No frame ever has two owners, and all owned frames are usable memory.
THEOREM FramesHaveOneOwner == MemorySpec => []FramesAreExclusive
<1>1. MemoryInv => FramesAreExclusive
  BY DEF MemoryInv, FrameInv
<1> QED BY <1>1, MemoryCorrect, PTL

\* The allocator passes no usable frame over.
THEOREM NoFrameIsPassedOver == MemorySpec => []RunsOutOnlyWhenUsed
<1>1. MemoryInv => RunsOutOnlyWhenUsed
  <2> SUFFICES ASSUME MemoryInv, refused,
                      NEW i \in DOMAIN memory_map, memory_map[i].usable,
                      NEW f \in memory_map[i].start..(memory_map[i].end - 1)
               PROVE  f \in handed
    BY DEF RunsOutOnlyWhenUsed
  <2>1. memory_map[i].start \in Nat /\ memory_map[i].end \in Nat
    <3>1. memory_map[i] \in Region
      BY MemoryAssumption DEF MemoryInv, FrameInv, IsMemoryMap
    <3> QED BY <3>1 DEF Region
  <2>2. f \in Nat /\ UsableFrame(f)
    BY <2>1 DEF UsableFrame
  <2>3. f < next_addr
    BY <2>2, NoFrameProperties DEF MemoryInv, FrameInv
  <2> QED BY <2>2, <2>3 DEF MemoryInv, FrameInv
<1> QED BY <1>1, MemoryCorrect, PTL

\* However many loads fail, the frames that they lose are those of the pages below
\* a huge page, one for each time that map_to met one, and one more at most.
THEOREM LossesAreCounted == MemorySpec => []EachLossHasAFailure
<1>1. MemoryInv => EachLossHasAFailure
  BY DEF MemoryInv, FrameInv
<1> QED BY <1>1, MemoryCorrect, PTL
=============================================================================

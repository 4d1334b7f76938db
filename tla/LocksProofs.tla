---------------------------- MODULE LocksProofs ----------------------------
(***************************************************************************)
(* LocksInv is an invariant of Locks for any set of programs.              *)
(*                                                                         *)
(* A place is a piece of code and the number of its next step.  Which      *)
(* locks are held at a place and whether interrupts are disabled there is  *)
(* fixed by the code; the lemmas of the first part read it off the steps,  *)
(* and the invariant says that the state agrees with it.                   *)
(***************************************************************************)
EXTENDS Locks, TLAPS

(***************************************************************************)
(* Places.                                                                 *)
(***************************************************************************)

\* Between taking lock l and giving it back.
Within(l, c, p) ==
  CASE l = "SCHEDULER"    -> \/ c \in {"spawn", "cmd_kill"} /\ p \in 5..8
                             \/ c = "cmd_ps" /\ p \in 5..7
                             \/ c \in {"yield_now", "entered_getpid"} /\ p = 5
                             \/ c = "exit_current_task" /\ p \in 5..6
                             \/ c \in {"sys_exit", "entered_exit"} /\ p \in 7..8
                             \/ c = "sys_getpid" /\ p = 4
                             \/ c = "timer" /\ p = 6
    [] l = "ALLOCATOR"    -> \/ c \in {"alloc", "sys_getpid"} /\ p = 2
                             \/ c \in {"file_command", "yield_now", "exit_current_task",
                                       "sys_open", "sys_close", "entered_getpid"} /\ p = 3
                             \/ c \in {"spawn", "cmd_ps"} /\ p \in {3, 6}
                             \/ c \in {"cmd_kill", "sys_stat"} /\ p \in {3, 7}
                             \/ c = "sys_exit" /\ p \in {2, 5}
                             \/ c = "entered_exit" /\ p \in {3, 5}
                             \/ c = "timer" /\ p = 4
    [] l = "FS"           -> \/ c = "file_command" /\ p \in 2..4
                             \/ c \in {"sys_open", "sys_stat"} /\ p = 5
                             \/ c = "sys_read" /\ p = 3
    [] l = "EVENT_QUEUE"  -> \/ c = "pop" /\ p = 2
                             \/ c \in {"keyboard", "mouse"} /\ p = 3
    [] l = "SCANCODE_QUEUE" -> c \in {"poll_scancode", "read_key", "add_scancode"} /\ p = 2
    [] l = "WRITER"       -> c = "print" /\ p = 3
    [] l = "SERIAL1"      -> c = "serial_print" /\ p = 3
    [] l = "KEYBOARD"     -> \/ c = "keyboard" /\ p \in 2..4
                             \/ c = "read_key" /\ p = 4
    [] l = "MOUSE_STATE"  -> c = "mouse" /\ p \in 2..4
    [] l = "PICS"         -> \/ c = "timer" /\ p = 2
                             \/ c \in {"keyboard", "mouse"} /\ p = 6
                             \/ c = "add_scancode" /\ p = 4
    [] OTHER              -> FALSE

Endings == {"exit_current_task", "sys_exit", "entered_exit"}

\* Between cli and sti.
Shielded(c, p) ==
  \/ /\ c \in TableCommands \cup EntryCalls
                \cup {"print", "serial_print", "yield_now", "exit_current_task"}
     /\ p > 1
  \/ c = "sys_exit" /\ p > 3

\* Where a task can be that is not on the processor: it was interrupted, or it
\* has given the processor away in yield_now.
Parked(c, p) ==
  /\ Shielded(c, p) => c = "yield_now" /\ p = 7
  /\ ~Within("SCHEDULER", c, p)

\* Building SCHEDULER, for the one that finds that it does not exist.
Creating(c, p) ==
  \/ /\ c \in {"spawn", "cmd_kill", "cmd_ps", "yield_now", "exit_current_task", "entered_getpid"}
     /\ p = 3
  \/ c = "sys_getpid" /\ p = 2
  \/ c \in {"sys_exit", "entered_exit"} /\ p = 5

\* Where the kernel task and the timer handler rely on it.
Using(c, p) ==
  \/ c = "spawn" /\ p > 3
  \/ c = "timer" /\ p > 4

\* A task that has marked itself as terminated.
Ended(c, p) ==
  \/ c = "exit_current_task" /\ p > 5
  \/ c \in {"sys_exit", "entered_exit"} /\ p > 7

PlaceOK(c, p) ==
  \/ c = "idle" /\ p = 1
  \/ c \in DOMAIN Steps /\ p \in 1..Len(Steps[c])

(***************************************************************************)
(* The inductive invariant.                                                *)
(***************************************************************************)
TypeOK ==
  /\ holder \in [LockNames -> Tasks \cup {Free, Irq}]
  /\ alive \in SUBSET Tasks
  /\ cpu \in Tasks
  /\ code \in [Tasks -> KernelCode \cup Calls \cup {"idle"}]
  /\ pos \in [Tasks -> Nat]
  /\ masked \in [Tasks -> BOOLEAN]
  /\ irq \in [code : Handlers \cup {"idle"}, pos : Nat]
  /\ created \in BOOLEAN
  /\ mode \in {"boot", "gui", "console"}
  /\ code[Kernel] \in KernelCode \cup {"idle"}
  /\ \A t \in Programs : code[t] \in Calls \cup {"idle"}
  /\ \A t \in Tasks : PlaceOK(code[t], pos[t])
  /\ PlaceOK(irq.code, irq.pos)

\* Who holds a lock is in the code that takes it and has not given it back.
HoldersAreWithin ==
  \A l \in LockNames :
    /\ \A t \in Tasks : holder[l] = t => Within(l, code[t], pos[t])
    /\ holder[l] = Irq => Within(l, irq.code, irq.pos)

\* Whoever executes the code between taking and giving back SCHEDULER has it.
SchedulerIsHeld ==
  /\ Within("SCHEDULER", code[cpu], pos[cpu]) => holder["SCHEDULER"] = cpu
  /\ Within("SCHEDULER", irq.code, irq.pos) => holder["SCHEDULER"] = Irq

\* The interrupt flag of a task that will run again is what its place says.
MasksAreShields ==
  /\ \A t \in alive \cup {cpu} : masked[t] <=> Shielded(code[t], pos[t])
  /\ InHandler => ~masked[cpu]
  /\ \A t \in alive : ~Ended(code[t], pos[t])

OthersAreParked == \A t \in Tasks \ {cpu} : Parked(code[t], pos[t])

\* Before SCHEDULER exists there is the kernel task alone; a program finds it.
CreatedBeforePrograms ==
  /\ ~created => /\ cpu = Kernel
                 /\ alive = {Kernel}
                 /\ \A t \in Programs : code[t] = "idle"
                 /\ ~Using(code[Kernel], pos[Kernel])
                 /\ ~Using(irq.code, irq.pos)
  /\ \A t \in Programs : ~Creating(code[t], pos[t])

\* The code of the desktop and that of the console do not meet in one machine.
FrontsMatch ==
  /\ code[Kernel] \in ConsoleCode => mode = "console"
  /\ irq.code \in {"keyboard", "mouse"} => mode = "gui"

LocksInv ==
  /\ TypeOK
  /\ FrontsMatch
  /\ HoldersAreWithin
  /\ SchedulerIsHeld
  /\ MasksAreShields
  /\ OthersAreParked
  /\ CreatedBeforePrograms

----------------------------------------------------------------------------

(***************************************************************************)
(* What the code does at each of its places.                               *)
(***************************************************************************)

\* The steps of a piece of code are those of the sequence s.
Reads(c, s) ==
  /\ Len(Steps[c]) = Len(s)
  /\ \A i \in 1..Len(s) : Steps[c][i] = s[i]

LEMMA ShellReads ==
  /\ Reads("alloc", <<Lock("ALLOCATOR"), Unlock("ALLOCATOR")>>)
  /\ Reads("file_command", <<Lock("FS"), Lock("ALLOCATOR"), Unlock("ALLOCATOR"), Unlock("FS")>>)
  /\ Reads("pop", <<TryLock("EVENT_QUEUE"), Unlock("EVENT_QUEUE")>>)
BY DEF Reads, Steps, file_command, pop, Alloc

LEMMA ConsoleReads ==
  /\ Reads("poll_scancode", <<Lock("SCANCODE_QUEUE"), Unlock("SCANCODE_QUEUE")>>)
  /\ Reads("read_key", <<Lock("SCANCODE_QUEUE"), Unlock("SCANCODE_QUEUE"), Lock("KEYBOARD"),
                         Unlock("KEYBOARD")>>)
BY DEF Reads, Steps, poll_scancode, read_key

LEMMA SpawnReads ==
  Reads("spawn", <<Cli, Step("create", "ALLOCATOR"),
                   Step("created", "ALLOCATOR"), Lock("SCHEDULER"),
                   Lock("ALLOCATOR"), Unlock("ALLOCATOR"),
                   Step("push", "none"), Unlock("SCHEDULER"), Sti>>)
BY DEF Reads, Steps, spawn, without_interrupts, Scheduling, Deref, Alloc

LEMMA CmdKillReads ==
  Reads("cmd_kill", <<Cli, Step("create", "ALLOCATOR"),
                      Step("created", "ALLOCATOR"), Lock("SCHEDULER"),
                      Step("remove", "none"), Lock("ALLOCATOR"),
                      Unlock("ALLOCATOR"), Unlock("SCHEDULER"), Sti>>)
BY DEF Reads, Steps, cmd_kill, without_interrupts, Scheduling, Deref, Alloc

LEMMA CmdPsReads ==
  Reads("cmd_ps", <<Cli, Step("create", "ALLOCATOR"),
                    Step("created", "ALLOCATOR"), Lock("SCHEDULER"),
                    Lock("ALLOCATOR"), Unlock("ALLOCATOR"),
                    Unlock("SCHEDULER"), Sti>>)
BY DEF Reads, Steps, cmd_ps, without_interrupts, Scheduling, Deref, Alloc

LEMMA PrintReads ==
  Reads("print", <<Cli, Lock("WRITER"), Unlock("WRITER"), Sti>>)
BY DEF Reads, Steps, print, without_interrupts

LEMMA SerialPrintReads ==
  Reads("serial_print", <<Cli, Lock("SERIAL1"), Unlock("SERIAL1"), Sti>>)
BY DEF Reads, Steps, serial_print, without_interrupts

LEMMA YieldNowReads ==
  Reads("yield_now", <<Cli, Step("create", "ALLOCATOR"),
                       Step("created", "ALLOCATOR"), Lock("SCHEDULER"),
                       Unlock("SCHEDULER"), Step("switch", "none"), Sti>>)
BY DEF Reads, Steps, yield_now, without_interrupts, Scheduling, Deref

LEMMA ExitCurrentTaskReads ==
  Reads("exit_current_task", <<Cli, Step("create", "ALLOCATOR"),
                               Step("created", "ALLOCATOR"),
                               Lock("SCHEDULER"), Step("terminate", "none"),
                               Unlock("SCHEDULER"),
                               Step("switch", "none")>>)
BY DEF Reads, Steps, exit_current_task, end_task, Scheduling, Deref

LEMMA SysExitReads ==
  Reads("sys_exit", <<Lock("ALLOCATOR"), Unlock("ALLOCATOR"), Cli,
                      Step("create", "ALLOCATOR"),
                      Step("created", "ALLOCATOR"), Lock("SCHEDULER"),
                      Step("terminate", "none"), Unlock("SCHEDULER"),
                      Step("switch", "none")>>)
BY DEF Reads, Steps, sys_exit, exit_current_task, end_task, Alloc, Scheduling, Deref

LEMMA EnteredExitReads ==
  Reads("entered_exit", <<Cli, Lock("ALLOCATOR"), Unlock("ALLOCATOR"),
                          Step("create", "ALLOCATOR"),
                          Step("created", "ALLOCATOR"), Lock("SCHEDULER"),
                          Step("terminate", "none"), Unlock("SCHEDULER"),
                          Step("switch", "none")>>)
BY DEF Reads, Steps, entered_exit, end_task, Alloc, Scheduling, Deref

LEMMA SysGetpidReads ==
  Reads("sys_getpid", <<Step("create", "ALLOCATOR"),
                        Step("created", "ALLOCATOR"), Lock("SCHEDULER"),
                        Unlock("SCHEDULER")>>)
BY DEF Reads, Steps, sys_getpid, Scheduling, Deref

LEMMA EnteredGetpidReads ==
  Reads("entered_getpid", <<Cli, Step("create", "ALLOCATOR"),
                            Step("created", "ALLOCATOR"), Lock("SCHEDULER"),
                            Unlock("SCHEDULER"), Sti>>)
BY DEF Reads, Steps, entered_getpid, entry, sys_getpid, Scheduling, Deref

LEMMA SysOpenReads ==
  Reads("sys_open", <<Cli, Lock("ALLOCATOR"), Unlock("ALLOCATOR"), Lock("FS"),
                      Unlock("FS"), Sti>>)
BY DEF Reads, Steps, sys_open, entry, lookup, Alloc

LEMMA SysStatReads ==
  Reads("sys_stat", <<Cli, Lock("ALLOCATOR"), Unlock("ALLOCATOR"), Lock("FS"),
                      Unlock("FS"), Lock("ALLOCATOR"), Unlock("ALLOCATOR"), Sti>>)
BY DEF Reads, Steps, sys_stat, entry, lookup, Alloc

LEMMA SysReadReads ==
  Reads("sys_read", <<Cli, Lock("FS"), Unlock("FS"), Sti>>)
BY DEF Reads, Steps, sys_read, entry

LEMMA SysCloseReads ==
  Reads("sys_close", <<Cli, Lock("ALLOCATOR"), Unlock("ALLOCATOR"), Sti>>)
BY DEF Reads, Steps, sys_close, entry, Alloc

LEMMA TimerReads ==
  Reads("timer", <<Lock("PICS"), Unlock("PICS"),
                   Step("create", "ALLOCATOR"),
                   Step("created", "ALLOCATOR"), TryLock("SCHEDULER"),
                   Step("preempt", "SCHEDULER")>>)
BY DEF Reads, Steps, timer, EndOfInterrupt, Deref

LEMMA KeyboardReads ==
  Reads("keyboard", <<Lock("KEYBOARD"), TryLock("EVENT_QUEUE"),
                      Unlock("EVENT_QUEUE"), Unlock("KEYBOARD"),
                      Lock("PICS"), Unlock("PICS")>>)
BY DEF Reads, Steps, keyboard, EndOfInterrupt

LEMMA AddScancodeReads ==
  Reads("add_scancode", <<Lock("SCANCODE_QUEUE"), Unlock("SCANCODE_QUEUE"),
                          Lock("PICS"), Unlock("PICS")>>)
BY DEF Reads, Steps, add_scancode, EndOfInterrupt

LEMMA MouseReads ==
  Reads("mouse", <<Lock("MOUSE_STATE"), TryLock("EVENT_QUEUE"),
                   Unlock("EVENT_QUEUE"), Unlock("MOUSE_STATE"),
                   Lock("PICS"), Unlock("PICS")>>)
BY DEF Reads, Steps, mouse, EndOfInterrupt

----------------------------------------------------------------------------

(***************************************************************************)
(* The discipline: what every step does to the locks that are held and to  *)
(* the interrupt flag, and where the steps with an effect of their own     *)
(* are.                                                                    *)
(***************************************************************************)

\* How many steps further a step can lead.
Strides(op) ==
  CASE op \in {"try_lock", "create"} -> {1, 2}
    [] op = "remove"                  -> {1, 3}
    [] OTHER                          -> {1}

Releases(s, l) == s.op \in {"unlock", "created", "preempt"} /\ s.name = l

\* A lock that is held stays held unless this step gives it back; one that is
\* taken was not held by this code before and is after.
LocksDisciplined(c) ==
  \A p \in 1..Len(Steps[c]) :
    /\ \A n \in Strides(Steps[c][p].op), l \in LockNames :
         /\ Within(l, c, p)
         /\ ~Releases(Steps[c][p], l)
         => Within(l, Advanced(c, p + n).code, Advanced(c, p + n).pos)
    /\ Steps[c][p].op \in {"lock", "try_lock", "create"} =>
         /\ Steps[c][p].name \in LockNames
         /\ ~Within(Steps[c][p].name, c, p)
         /\ Within(Steps[c][p].name, Advanced(c, p + 1).code, Advanced(c, p + 1).pos)

\* Code gets between taking and giving back SCHEDULER by taking it only, and
\* gives back what it has taken.
SchedulerDisciplined(c) ==
  \A p \in 1..Len(Steps[c]) :
    /\ Releases(Steps[c][p], "SCHEDULER") => Within("SCHEDULER", c, p)
    /\ \A n \in Strides(Steps[c][p].op) :
         Within("SCHEDULER", Advanced(c, p + n).code, Advanced(c, p + n).pos) =>
           /\ ~Releases(Steps[c][p], "SCHEDULER")
           /\ \/ Within("SCHEDULER", c, p)
              \/ /\ Steps[c][p].op \in {"lock", "try_lock"}
                 /\ Steps[c][p].name = "SCHEDULER"
                 /\ n = 1

\* Interrupts are disabled from cli to sti, or for ever by the code of a task
\* that ends.
ShieldsDisciplined(c) ==
  \A p \in 1..Len(Steps[c]) : \A n \in Strides(Steps[c][p].op) :
    Shielded(Advanced(c, p + n).code, Advanced(c, p + n).pos) <=>
      \/ Steps[c][p].op = "cli"
      \/ /\ Shielded(c, p)
         /\ Steps[c][p].op # "sti"
         /\ ~(c \in Endings /\ Steps[c][p].op = "switch")

\* Where the steps are that do more than to take or to give back a lock.
PlacesDisciplined(c) ==
  \A p \in 1..Len(Steps[c]) :
    /\ Steps[c][p].op \in {"create", "created"} => Steps[c][p].name = "ALLOCATOR"
    /\ Steps[c][p].op = "created" => Creating(c, p) \/ (c = "timer" /\ p = 4)
    /\ Steps[c][p].op = "preempt" =>
         c = "timer" /\ p = 6 /\ Steps[c][p].name = "SCHEDULER" /\ Len(Steps[c]) = 6
    /\ Steps[c][p].op = "terminate" => c \in Endings
    /\ Steps[c][p].op = "push" => c = "spawn" /\ p = 7
    /\ Steps[c][p].op = "remove" => c = "cmd_kill"
    /\ Steps[c][p].op \in {"cli", "sti"} => c \notin Handlers

\* Only a task that gives up the processor switches, and is then parked.
SwitchesDisciplined(c) ==
  \A p \in 1..Len(Steps[c]) :
    Steps[c][p].op = "switch" =>
      /\ c = "yield_now" \/ Ended(c, p)
      /\ c \in {"yield_now"} \cup Endings
      /\ Parked(Advanced(c, p + 1).code, Advanced(c, p + 1).pos)

\* Nobody uses SCHEDULER before it is built, and who finds it builds nothing.
CreationDisciplined(c) ==
  \A p \in 1..Len(Steps[c]) : \A n \in Strides(Steps[c][p].op) :
    /\ Creating(Advanced(c, p + n).code, Advanced(c, p + n).pos) =>
         Steps[c][p].op = "create" /\ n = 1
    /\ Using(Advanced(c, p + n).code, Advanced(c, p + n).pos) =>
         \/ Using(c, p)
         \/ Steps[c][p].op = "created"
         \/ Steps[c][p].op = "create" /\ n = 2
    /\ Ended(Advanced(c, p + n).code, Advanced(c, p + n).pos) =>
         Ended(c, p) \/ Steps[c][p].op = "terminate"

\* Which locks are waited for with interrupts disabled.
WaitsDisciplined(c) ==
  \A p \in 1..Len(Steps[c]) :
    /\ Steps[c][p].op = "lock" /\ Shielded(c, p) =>
         \/ Steps[c][p].name \in {"SCHEDULER", "WRITER", "SERIAL1"}
         \/ Steps[c][p].name = "ALLOCATOR" /\ c \in TableCommands
         \/ Steps[c][p].name \in {"FS", "ALLOCATOR"} /\ c \in EntryCalls
    /\ Steps[c][p].op = "lock" /\ c \in Handlers =>
         \/ Steps[c][p].name = "PICS"
         \/ Steps[c][p].name = "SCANCODE_QUEUE" /\ c = "add_scancode"
         \/ Steps[c][p].name = "KEYBOARD" /\ c = "keyboard"
         \/ Steps[c][p].name = "MOUSE_STATE" /\ c = "mouse"
    /\ Steps[c][p].op = "create" /\ c \in Handlers => c = "timer"

Disciplined(c) ==
  /\ LocksDisciplined(c)
  /\ SchedulerDisciplined(c)
  /\ ShieldsDisciplined(c)
  /\ PlacesDisciplined(c)
  /\ SwitchesDisciplined(c)
  /\ CreationDisciplined(c)
  /\ WaitsDisciplined(c)

LEMMA EveryPieceIsDisciplined == \A c \in DOMAIN Steps : Disciplined(c)
<1> USE DEF Reads, Disciplined, LocksDisciplined, SchedulerDisciplined, ShieldsDisciplined,
            PlacesDisciplined, SwitchesDisciplined, CreationDisciplined, WaitsDisciplined,
            Within, Shielded, Parked, Creating, Using, Ended, Strides, Releases, Advanced,
            Endings, Step, Lock, Unlock, TryLock, Cli, Sti, LockNames, Handlers,
            TableCommands, EntryCalls
<1>1. Disciplined("alloc")
  BY ShellReads
<1>2. Disciplined("file_command")
  BY ShellReads
<1>3. Disciplined("pop")
  BY ShellReads
<1>4. Disciplined("spawn")
  BY SpawnReads
<1>5. Disciplined("cmd_kill")
  BY CmdKillReads
<1>6. Disciplined("cmd_ps")
  BY CmdPsReads
<1>7. Disciplined("print")
  BY PrintReads
<1>8. Disciplined("serial_print")
  BY SerialPrintReads
<1>9. Disciplined("yield_now")
  BY YieldNowReads
<1>10. Disciplined("exit_current_task")
  BY ExitCurrentTaskReads
<1>11. Disciplined("sys_exit")
  BY SysExitReads
<1>12. Disciplined("entered_exit")
  BY EnteredExitReads
<1>13. Disciplined("sys_getpid")
  BY SysGetpidReads
<1>14. Disciplined("entered_getpid")
  BY EnteredGetpidReads
<1>15. Disciplined("sys_open")
  BY SysOpenReads
<1>16. Disciplined("sys_stat")
  BY SysStatReads
<1>17. Disciplined("sys_read")
  BY SysReadReads
<1>18. Disciplined("sys_close")
  BY SysCloseReads
<1>19. Disciplined("poll_scancode")
  BY ConsoleReads
<1>20. Disciplined("read_key")
  BY ConsoleReads
<1>21. Disciplined("timer")
  BY TimerReads
<1>22. Disciplined("add_scancode")
  BY AddScancodeReads
<1>23. Disciplined("keyboard")
  BY KeyboardReads
<1>24. Disciplined("mouse")
  BY MouseReads
<1> HIDE DEF Disciplined
<1> QED BY <1>1, <1>2, <1>3, <1>4, <1>5, <1>6, <1>7, <1>8,
          <1>9, <1>10, <1>11, <1>12, <1>13, <1>14, <1>15, <1>16,
          <1>17, <1>18, <1>19, <1>20, <1>21, <1>22, <1>23, <1>24 DEF Steps

\* Every piece of code begins with nothing taken and interrupts enabled.
LEMMA Beginnings ==
  /\ \A c \in DOMAIN Steps : PlaceOK(c, 1)
  /\ \A c : ~Shielded(c, 1) /\ ~Creating(c, 1) /\ ~Using(c, 1) /\ ~Ended(c, 1)
  /\ \A c, l : ~Within(l, c, 1)
<1>1. \A c \in DOMAIN Steps : Len(Steps[c]) \in Nat \ {0}
  <2> DEFINE L(c) == Len(Steps[c])
  <2>1. /\ L("alloc") = 2 /\ L("file_command") = 4 /\ L("pop") = 2 /\ L("spawn") = 9
        /\ L("cmd_kill") = 9 /\ L("cmd_ps") = 8 /\ L("print") = 4 /\ L("serial_print") = 4
        /\ L("yield_now") = 7 /\ L("poll_scancode") = 2 /\ L("read_key") = 4
    BY ShellReads, SpawnReads, CmdKillReads, CmdPsReads, PrintReads, SerialPrintReads, YieldNowReads,
       ConsoleReads DEF Reads
  <2>2. /\ L("exit_current_task") = 7 /\ L("sys_exit") = 9 /\ L("sys_getpid") = 4
        /\ L("timer") = 6 /\ L("keyboard") = 6 /\ L("mouse") = 6 /\ L("add_scancode") = 4
    BY ExitCurrentTaskReads, SysExitReads, SysGetpidReads, TimerReads, KeyboardReads, MouseReads,
       AddScancodeReads DEF Reads
  <2>3. /\ L("sys_open") = 6 /\ L("sys_stat") = 8 /\ L("sys_read") = 4 /\ L("sys_close") = 4
        /\ L("entered_getpid") = 6 /\ L("entered_exit") = 9
    BY SysOpenReads, SysStatReads, SysReadReads, SysCloseReads, EnteredGetpidReads, EnteredExitReads DEF Reads
  <2> HIDE DEF L
  <2>4. \A c \in DOMAIN Steps : L(c) \in Nat \ {0}
    BY <2>1, <2>2, <2>3 DEF Steps
  <2> QED BY <2>4 DEF L
<1>2. \A c \in DOMAIN Steps : PlaceOK(c, 1)
  BY <1>1 DEF PlaceOK
<1>3. \A c : ~Shielded(c, 1) /\ ~Creating(c, 1) /\ ~Using(c, 1) /\ ~Ended(c, 1)
  BY DEF Shielded, Creating, Using, Ended, TableCommands, EntryCalls
<1>4. \A c, l : ~Within(l, c, 1)
  BY DEF Within
<1> QED BY <1>2, <1>3, <1>4

\* There is nothing to hold, to mask or to build where no code is executed.
LEMMA IdlePlace ==
  \A p : /\ \A l : ~Within(l, "idle", p)
         /\ ~Shielded("idle", p) /\ ~Creating("idle", p) /\ ~Using("idle", p)
         /\ ~Ended("idle", p)
BY DEF Within, Shielded, Creating, Using, Ended, TableCommands, EntryCalls

----------------------------------------------------------------------------

(***************************************************************************)
(* What a step of the code that is executed does, whichever it is.         *)
(***************************************************************************)

\* The place of what the processor executes.
C == IF InHandler THEN irq.code ELSE code[cpu]
P == IF InHandler THEN irq.pos ELSE pos[cpu]

Takes(s, l) == s.op \in {"lock", "try_lock", "create"} /\ s.name = l

HolderEffect(n) ==
  \A l \in LockNames :
    /\ holder'[l] = IF Releases(Now, l) THEN Free
                    ELSE IF Takes(Now, l) /\ n = 1 THEN Self ELSE holder[l]
    /\ Takes(Now, l) /\ n = 1 => holder[l] = Free

TableEffect ==
  CASE Now.op = "push"      -> \E t \in Programs \ alive :
                                 /\ code[t] = "idle"
                                 /\ alive' = alive \cup {t}
                                 /\ masked' = [masked EXCEPT ![t] = FALSE]
    [] Now.op = "remove"    -> \E t \in Programs : alive' = alive \ {t} /\ masked' = masked
    [] Now.op = "terminate" -> alive' = alive \ {cpu} /\ masked' = masked
    [] Now.op = "cli"       -> alive' = alive /\ masked' = [masked EXCEPT ![cpu] = TRUE]
    [] Now.op = "sti"       -> alive' = alive /\ masked' = [masked EXCEPT ![cpu] = FALSE]
    [] OTHER                -> alive' = alive /\ masked' = masked

Effect(n) ==
  /\ Busy
  /\ n \in Strides(Now.op)
  /\ Advance(n)
  /\ HolderEffect(n)
  /\ holder' \in [LockNames -> Tasks \cup {Free, Irq}]
  /\ TableEffect
  /\ IF Now.op \in {"preempt", "switch"} THEN cpu' \in alive ELSE cpu' = cpu
  /\ created' = (created \/ Now.op = "created")
  /\ Now.op = "create" => (created <=> n = 2)
  /\ mode' = mode

LEMMA PlaceFacts ==
  ASSUME LocksInv, Busy
  PROVE  /\ C \in DOMAIN Steps
         /\ P \in 1..Len(Steps[C])
         /\ P \in Nat
         /\ Now = Steps[C][P]
         /\ Disciplined(C)
         /\ Self \in Tasks \cup {Irq}
<1>1. PlaceOK(C, P) /\ C # "idle" /\ P \in Nat
  BY DEF LocksInv, TypeOK, C, P, Busy, InHandler
<1>2. C \in DOMAIN Steps /\ P \in 1..Len(Steps[C])
  BY <1>1 DEF PlaceOK
<1>3. Now = Steps[C][P]
  BY DEF Now, C, P
<1>4. Self \in Tasks \cup {Irq}
  BY DEF LocksInv, TypeOK, Self
<1> QED BY <1>1, <1>2, <1>3, <1>4, EveryPieceIsDisciplined

LEMMA TaskNumbers ==
  /\ Kernel \in Tasks
  /\ \A t \in Tasks : t # Free /\ t # Irq
  /\ Free # Irq
  /\ \A t \in Programs : t # Kernel /\ t \in Tasks
BY LocksAssumption DEF Tasks, Kernel, Free, Irq

\* Every step has such an effect.
LEMMA ExecuteHasEffect ==
  ASSUME LocksInv, Execute
  PROVE  \E n \in {1, 2, 3} : Effect(n)
<1>0. Busy
  BY DEF Execute, Acquire, TryAcquire, Release, Mask, Create, Created, Terminate, Push, Remove, Doing
<1>1. /\ Now = Steps[C][P] /\ Disciplined(C) /\ Self \in Tasks \cup {Irq}
      /\ P \in 1..Len(Steps[C])
      /\ holder \in [LockNames -> Tasks \cup {Free, Irq}] /\ created \in BOOLEAN
  BY <1>0, PlaceFacts DEF LocksInv, TypeOK
<1>2. Now.op \in {"lock", "try_lock", "create"} => Now.name \in LockNames
  BY <1>1 DEF Disciplined, LocksDisciplined
<1>3. Now.op \in {"create", "created"} => Now.name = "ALLOCATOR"
  BY <1>1 DEF Disciplined, PlacesDisciplined
<1> USE DEF Effect, HolderEffect, TableEffect, Releases, Takes, Strides, Doing
<1>4. CASE Acquire
  <2>1. Effect(1)
    BY <1>1, <1>2, <1>4 DEF Acquire
  <2> QED BY <2>1
<1>5. CASE TryAcquire
  <2>1. CASE holder[Now.name] = Free
    <3>1. Effect(1)
      BY <1>1, <1>2, <1>5, <2>1 DEF TryAcquire
    <3> QED BY <3>1
  <2>2. CASE holder[Now.name] # Free
    <3>1. Effect(2)
      BY <1>1, <1>2, <1>5, <2>2 DEF TryAcquire
    <3> QED BY <3>1
  <2> QED BY <2>1, <2>2
<1>6. CASE Release
  <2>1. Effect(1)
    BY <1>1, <1>6 DEF Release
  <2> QED BY <2>1
<1>7. CASE Mask
  <2>1. Effect(1)
    BY <1>1, <1>7 DEF Mask
  <2> QED BY <2>1
<1>8. CASE Create
  <2>1. CASE created
    <3>1. Now.op = "create" /\ UNCHANGED <<holder, alive, cpu, masked, created, mode>> /\ Advance(2)
      BY <1>8, <2>1 DEF Create
    <3>2. HolderEffect(2) /\ TableEffect
      BY <3>1
    <3> HIDE DEF HolderEffect, TableEffect
    <3>3. Effect(2)
      BY <1>0, <1>1, <2>1, <3>1, <3>2
    <3> QED BY <3>3
  <2>2. CASE ~created
    <3>1. Effect(1)
      BY <1>1, <1>2, <1>3, <1>8, <2>2 DEF Create
    <3> QED BY <3>1
  <2> QED BY <2>1, <2>2
<1>9. CASE Created
  <2>1. Effect(1)
    BY <1>1, <1>3, <1>9 DEF Created
  <2> QED BY <2>1
<1>10. CASE Terminate
  <2>1. Effect(1)
    BY <1>1, <1>10 DEF Terminate
  <2> QED BY <2>1
<1>11. ASSUME NEW t \in Programs, Push(t)
       PROVE  Effect(1)
  BY <1>1, <1>11 DEF Push
<1>12. ASSUME NEW t \in Programs, Remove(t)
       PROVE  Effect(1) \/ Effect(3)
  <2>1. Len(Alloc) = 2
    BY DEF Alloc
  <2>2. CASE t \in alive
    <3>1. Effect(1)
      BY <1>1, <1>12, <2>2 DEF Remove
    <3> QED BY <3>1
  <2>3. CASE t \notin alive
    <3>1. Effect(3)
      BY <1>1, <1>12, <2>1, <2>3 DEF Remove
    <3> QED BY <3>1
  <2> QED BY <2>2, <2>3
<1> HIDE DEF Effect
<1> QED BY <1>4, <1>5, <1>6, <1>7, <1>8, <1>9, <1>10, <1>11, <1>12 DEF Execute

LEMMA SwitchHasEffect ==
  ASSUME LocksInv, NEW t \in Tasks, Preempt(t) \/ SwitchTo(t)
  PROVE  Effect(1)
<1>0. Busy
  BY DEF Preempt, SwitchTo, Doing
<1>1. /\ Now = Steps[C][P] /\ Disciplined(C) /\ P \in 1..Len(Steps[C])
      /\ holder \in [LockNames -> Tasks \cup {Free, Irq}] /\ created \in BOOLEAN
  BY <1>0, PlaceFacts DEF LocksInv, TypeOK
<1>2. Now.op = "preempt" => Now.name = "SCHEDULER"
  BY <1>1 DEF Disciplined, PlacesDisciplined
<1> USE DEF Effect, HolderEffect, TableEffect, Releases, Takes, Strides, Doing
<1>3. CASE Preempt(t)
  BY <1>1, <1>2, <1>3 DEF Preempt
<1>4. CASE SwitchTo(t)
  BY <1>1, <1>4 DEF SwitchTo
<1> QED BY <1>3, <1>4

\* Where the step leads: the task moves, or the handler, and nobody else.
LEMMA Moves ==
  ASSUME LocksInv, NEW n \in {1, 2, 3}, Effect(n)
  PROVE  LET nx == Advanced(C, P + n) IN
         /\ PlaceOK(nx.code, nx.pos) /\ nx.code \in {C, "idle"} /\ nx.pos \in Nat
         /\ InHandler => /\ C = irq.code /\ P = irq.pos /\ C \in Handlers
                         /\ irq' = nx /\ code' = code /\ pos' = pos
                         /\ Self = Irq
         /\ ~InHandler => /\ C = code[cpu] /\ P = pos[cpu] /\ irq.code = "idle"
                          /\ C \in KernelCode \cup Calls
                          /\ code' = [code EXCEPT ![cpu] = nx.code]
                          /\ pos' = [pos EXCEPT ![cpu] = nx.pos]
                          /\ irq' = irq
                          /\ Self = cpu
<1> DEFINE nx == Advanced(C, P + n)
<1>0. Busy /\ Advance(n)
  BY DEF Effect
<1>1. C \in DOMAIN Steps /\ P \in 1..Len(Steps[C]) /\ P \in Nat
  BY <1>0, PlaceFacts
<1>2. nx = IF P + n > Len(Steps[C]) THEN [code |-> "idle", pos |-> 1]
           ELSE [code |-> C, pos |-> P + n]
  BY DEF Advanced
<1>3. PlaceOK(nx.code, nx.pos) /\ nx.code \in {C, "idle"} /\ nx.pos \in Nat
  <2>1. CASE P + n > Len(Steps[C])
    BY <1>2, <2>1 DEF PlaceOK
  <2>2. CASE ~(P + n > Len(Steps[C]))
    <3>1. nx.code = C /\ nx.pos = P + n
      BY <1>2, <2>2
    <3>2. P + n \in 1..Len(Steps[C]) /\ P + n \in Nat
      BY <1>1, <2>2
    <3> QED BY <1>1, <3>1, <3>2 DEF PlaceOK
  <2> QED BY <2>1, <2>2
<1> HIDE DEF nx
<1>4. ASSUME InHandler
      PROVE  /\ C = irq.code /\ P = irq.pos /\ C \in Handlers
             /\ irq' = nx /\ code' = code /\ pos' = pos /\ Self = Irq
  <2>1. C = irq.code /\ P = irq.pos /\ Self = Irq
    BY <1>4 DEF C, P, Self
  <2>2. C \in Handlers
    BY <1>4, <2>1 DEF LocksInv, TypeOK, InHandler
  <2> QED BY <1>0, <1>4, <2>1, <2>2 DEF Advance, nx
<1>5. ASSUME ~InHandler
      PROVE  /\ C = code[cpu] /\ P = pos[cpu] /\ irq.code = "idle" /\ C \in KernelCode \cup Calls
             /\ code' = [code EXCEPT ![cpu] = nx.code] /\ pos' = [pos EXCEPT ![cpu] = nx.pos]
             /\ irq' = irq /\ Self = cpu
  <2>1. C = code[cpu] /\ P = pos[cpu] /\ Self = cpu /\ irq.code = "idle"
    BY <1>5 DEF C, P, Self, InHandler
  <2>2. C \in KernelCode \cup Calls
    BY <1>0, <1>5, <2>1 DEF LocksInv, TypeOK, Busy
  <2> QED BY <1>0, <1>5, <2>1, <2>2 DEF Advance, nx
<1> QED BY <1>3, <1>4, <1>5 DEF nx

\* The code of a step determines whose it is.
LEMMA WhoseStep ==
  ASSUME LocksInv, NEW n \in {1, 2, 3}, Effect(n)
  PROVE  /\ Now.op = "preempt" => InHandler
         /\ Now.op \in {"push", "remove", "terminate", "switch", "cli", "sti"} => ~InHandler
         /\ Now.op \in {"push", "remove"} => cpu = Kernel
         /\ Now.op \in {"terminate", "switch"} => cpu \in Programs
<1>1. Now = Steps[C][P] /\ Disciplined(C) /\ P \in 1..Len(Steps[C])
  BY PlaceFacts DEF Effect
<1>2. InHandler => C \in Handlers
  BY Moves
<1>3. ~InHandler => C = code[cpu] /\ C \in KernelCode \cup Calls
  BY Moves
<1>4. /\ Now.op = "preempt" => C = "timer"
      /\ Now.op \in {"terminate", "switch"} => C \in {"yield_now"} \cup Endings
      /\ Now.op \in {"push", "remove"} => C \in {"spawn", "cmd_kill"}
      /\ Now.op \in {"cli", "sti"} => C \notin Handlers
  BY <1>1 DEF Disciplined, PlacesDisciplined, SwitchesDisciplined
<1>5. ~InHandler => (C \notin Calls => cpu = Kernel) /\ (C \notin KernelCode => cpu \in Programs)
  <2>1. cpu \in Tasks /\ code[Kernel] \in KernelCode \cup {"idle"}
    BY DEF LocksInv, TypeOK
  <2>2. \A t \in Programs : code[t] \in Calls \cup {"idle"}
    BY DEF LocksInv, TypeOK
  <2>3. "idle" \notin KernelCode /\ "idle" \notin Calls
    BY DEF KernelCode, Calls, DirectCalls, EntryCalls, TableCommands, ConsoleCode
  <2> QED BY <1>3, <2>1, <2>2, <2>3 DEF Tasks
<1>6. /\ "timer" \notin KernelCode \cup Calls
      /\ ({"yield_now"} \cup Endings) \cap (KernelCode \cup Handlers) = {}
      /\ {"spawn", "cmd_kill"} \cap (Calls \cup Handlers) = {}
  BY DEF KernelCode, Handlers, Endings, Calls, DirectCalls, EntryCalls, TableCommands, ConsoleCode
<1> QED BY <1>2, <1>3, <1>4, <1>5, <1>6

----------------------------------------------------------------------------

(***************************************************************************)
(* A step of the code preserves the invariant, part by part.               *)
(***************************************************************************)

LEMMA EffectTypes ==
  ASSUME LocksInv, NEW n \in {1, 2, 3}, Effect(n)
  PROVE  TypeOK'
<1> DEFINE nx == Advanced(C, P + n)
<1>1. /\ PlaceOK(nx.code, nx.pos) /\ nx.code \in {C, "idle"} /\ nx.pos \in Nat
      /\ InHandler => /\ C \in Handlers /\ irq' = nx /\ code' = code /\ pos' = pos
      /\ ~InHandler => /\ C = code[cpu] /\ code' = [code EXCEPT ![cpu] = nx.code]
                       /\ pos' = [pos EXCEPT ![cpu] = nx.pos] /\ irq' = irq
  BY Moves
<1>2. nx = [code |-> nx.code, pos |-> nx.pos]
  BY DEF Advanced
<1> HIDE DEF nx
<1> USE DEF LocksInv, TypeOK
<1>3. /\ holder' \in [LockNames -> Tasks \cup {Free, Irq}] /\ cpu' \in Tasks /\ created' \in BOOLEAN
      /\ mode' \in {"boot", "gui", "console"}
  BY DEF Effect
<1>4. alive' \in SUBSET Tasks /\ masked' \in [Tasks -> BOOLEAN]
  <2>1. TableEffect /\ alive \in SUBSET Tasks /\ masked \in [Tasks -> BOOLEAN]
    BY DEF Effect
  <2>2. \/ alive' = alive
        \/ \E t \in Programs : alive' = alive \cup {t} \/ alive' = alive \ {t}
        \/ alive' = alive \ {cpu}
    BY <2>1 DEF TableEffect
  <2>3. masked' = masked \/ \E t \in Tasks, b \in BOOLEAN : masked' = [masked EXCEPT ![t] = b]
    BY <2>1, TaskNumbers DEF TableEffect
  <2> QED BY <2>1, <2>2, <2>3, TaskNumbers
<1>5. /\ code' \in [Tasks -> KernelCode \cup Calls \cup {"idle"}]
      /\ pos' \in [Tasks -> Nat]
      /\ code'[Kernel] \in KernelCode \cup {"idle"}
      /\ \A t \in Programs : code'[t] \in Calls \cup {"idle"}
      /\ \A t \in Tasks : PlaceOK(code'[t], pos'[t])
  BY <1>1, TaskNumbers
<1>6. irq' \in [code : Handlers \cup {"idle"}, pos : Nat] /\ PlaceOK(irq'.code, irq'.pos)
  BY <1>1, <1>2
<1> QED BY <1>3, <1>4, <1>5, <1>6

LEMMA EffectHolders ==
  ASSUME LocksInv, NEW n \in {1, 2, 3}, Effect(n)
  PROVE  HoldersAreWithin'
<1> DEFINE nx == Advanced(C, P + n)
<1>1. /\ InHandler => /\ C = irq.code /\ P = irq.pos
                      /\ irq' = nx /\ code' = code /\ pos' = pos /\ Self = Irq
      /\ ~InHandler => /\ C = code[cpu] /\ P = pos[cpu] /\ irq' = irq /\ Self = cpu
                       /\ code' = [code EXCEPT ![cpu] = nx.code]
                       /\ pos' = [pos EXCEPT ![cpu] = nx.pos]
  BY Moves
<1>2. ASSUME NEW l \in LockNames
      PROVE  /\ Within(l, C, P) /\ ~Releases(Now, l) => Within(l, nx.code, nx.pos)
             /\ Takes(Now, l) /\ n = 1 => Within(l, nx.code, nx.pos)
  <2>1. /\ Now = Steps[C][P] /\ LocksDisciplined(C) /\ P \in 1..Len(Steps[C])
        /\ n \in Strides(Now.op)
    BY PlaceFacts DEF Effect, Disciplined
  <2> QED BY <2>1 DEF LocksDisciplined, Takes
<1> HIDE DEF nx
<1>3. ASSUME NEW l \in LockNames, NEW t \in Tasks, holder'[l] = t
      PROVE  Within(l, code'[t], pos'[t])
  <2>1. t # Free /\ t # Irq
    BY TaskNumbers
  <2>2. ~Releases(Now, l) /\ (Takes(Now, l) /\ n = 1 => t = Self)
    BY <1>3, <2>1 DEF Effect, HolderEffect
  <2>3. ~(Takes(Now, l) /\ n = 1) => holder[l] = t /\ Within(l, code[t], pos[t])
    BY <1>3, <2>2 DEF Effect, HolderEffect, LocksInv, HoldersAreWithin
  <2>4. CASE InHandler \/ t # cpu
    <3>1. code'[t] = code[t] /\ pos'[t] = pos[t]
      BY <1>1, <2>4 DEF LocksInv, TypeOK
    <3>2. t # Self
      BY <1>1, <2>1, <2>4
    <3> QED BY <2>2, <2>3, <3>1, <3>2
  <2>5. CASE ~InHandler /\ t = cpu
    <3>1. code'[t] = nx.code /\ pos'[t] = nx.pos /\ C = code[t] /\ P = pos[t]
      BY <1>1, <2>5 DEF LocksInv, TypeOK
    <3> QED BY <1>2, <2>2, <2>3, <3>1
  <2> QED BY <2>4, <2>5
<1>4. ASSUME NEW l \in LockNames, holder'[l] = Irq
      PROVE  Within(l, irq'.code, irq'.pos)
  <2>1. Irq # Free /\ cpu # Irq
    BY TaskNumbers DEF LocksInv, TypeOK
  <2>2. ~Releases(Now, l) /\ (Takes(Now, l) /\ n = 1 => InHandler)
    BY <1>1, <1>4, <2>1 DEF Effect, HolderEffect
  <2>3. ~(Takes(Now, l) /\ n = 1) => Within(l, irq.code, irq.pos)
    BY <1>4, <2>2 DEF Effect, HolderEffect, LocksInv, HoldersAreWithin
  <2> QED BY <1>1, <1>2, <2>2, <2>3
<1> QED BY <1>3, <1>4 DEF HoldersAreWithin

LEMMA EffectScheduler ==
  ASSUME LocksInv, NEW n \in {1, 2, 3}, Effect(n)
  PROVE  SchedulerIsHeld'
<1> DEFINE nx == Advanced(C, P + n)
           S == "SCHEDULER"
<1>1. /\ InHandler => /\ C = irq.code /\ P = irq.pos
                      /\ irq' = nx /\ code' = code /\ pos' = pos /\ Self = Irq
      /\ ~InHandler => /\ C = code[cpu] /\ P = pos[cpu] /\ irq' = irq /\ Self = cpu
                       /\ irq.code = "idle"
                       /\ code' = [code EXCEPT ![cpu] = nx.code]
                       /\ pos' = [pos EXCEPT ![cpu] = nx.pos]
  BY Moves
<1>2. /\ Now = Steps[C][P] /\ P \in 1..Len(Steps[C]) /\ n \in Strides(Now.op)
      /\ SchedulerDisciplined(C) /\ SwitchesDisciplined(C) /\ PlacesDisciplined(C)
  BY PlaceFacts DEF Effect, Disciplined
<1>3. cpu \in Tasks /\ cpu # Free /\ cpu # Irq /\ Irq # Free /\ S \in LockNames
  BY TaskNumbers DEF LocksInv, TypeOK, LockNames
<1> HIDE DEF nx
\* Whoever executes the step has the lock afterwards, if its place says so.
<1>4. Within(S, nx.code, nx.pos) => holder'[S] = Self
  <2> SUFFICES ASSUME Within(S, nx.code, nx.pos) PROVE holder'[S] = Self
    OBVIOUS
  <2>1. /\ ~Releases(Now, S)
        /\ Within(S, C, P) \/ (Takes(Now, S) /\ n = 1)
    BY <1>2 DEF SchedulerDisciplined, nx, Takes
  <2>2. Within(S, C, P) => holder[S] = Self
    BY <1>1 DEF LocksInv, SchedulerIsHeld
  <2> QED BY <1>3, <2>1, <2>2 DEF Effect, HolderEffect
\* Taking it from under somebody who has it is impossible.
<1>5. ASSUME InHandler, Within(S, code[cpu], pos[cpu])
      PROVE  holder'[S] = cpu
  <2>1. holder[S] = cpu
    BY <1>5 DEF LocksInv, SchedulerIsHeld
  <2>2. ~(Takes(Now, S) /\ n = 1)
    BY <1>3, <2>1 DEF Effect, HolderEffect
  <2>3. ~Releases(Now, S)
    <3>1. SUFFICES ASSUME Releases(Now, S) PROVE FALSE
      OBVIOUS
    <3>2. Within(S, C, P)
      BY <1>2, <3>1 DEF SchedulerDisciplined
    <3>3. holder[S] = Irq
      BY <1>1, <1>5, <3>2 DEF LocksInv, SchedulerIsHeld
    <3> QED BY <1>3, <2>1, <3>3
  <2> QED BY <1>3, <2>1, <2>2, <2>3 DEF Effect, HolderEffect
<1>6. ASSUME cpu' = cpu
      PROVE  Within(S, code'[cpu'], pos'[cpu']) => holder'[S] = cpu'
  <2>1. CASE InHandler
    BY <1>1, <1>5, <1>6, <2>1
  <2>2. CASE ~InHandler
    <3>1. code'[cpu] = nx.code /\ pos'[cpu] = nx.pos
      BY <1>1, <1>3, <2>2 DEF LocksInv, TypeOK
    <3> QED BY <1>1, <1>4, <1>6, <2>2, <3>1
  <2> QED BY <2>1, <2>2
\* Another task that gets the processor was parked.
<1>7. ASSUME cpu' # cpu
      PROVE  ~Within(S, code'[cpu'], pos'[cpu'])
  <2>1. cpu' \in Tasks
    BY <1>3, <1>7 DEF Effect, LocksInv, TypeOK
  <2>2. code'[cpu'] = code[cpu'] /\ pos'[cpu'] = pos[cpu']
    BY <1>1, <1>7, <2>1 DEF LocksInv, TypeOK
  <2>3. Parked(code[cpu'], pos[cpu'])
    BY <1>7, <2>1 DEF LocksInv, OthersAreParked
  <2> QED BY <2>2, <2>3 DEF Parked
<1>8. Within(S, irq'.code, irq'.pos) => holder'[S] = Irq
  <2>1. CASE InHandler
    BY <1>1, <1>4, <2>1
  <2>2. CASE ~InHandler
    BY <1>1, <2>2, IdlePlace
  <2> QED BY <2>1, <2>2
<1> QED BY <1>6, <1>7, <1>8 DEF SchedulerIsHeld

LEMMA EffectMasks ==
  ASSUME LocksInv, NEW n \in {1, 2, 3}, Effect(n)
  PROVE  MasksAreShields'
<1> DEFINE nx == Advanced(C, P + n)
<1>1. /\ InHandler => irq' = nx /\ code' = code /\ pos' = pos /\ C = irq.code /\ P = irq.pos
      /\ ~InHandler => /\ C = code[cpu] /\ P = pos[cpu] /\ irq' = irq /\ irq.code = "idle"
                       /\ code' = [code EXCEPT ![cpu] = nx.code]
                       /\ pos' = [pos EXCEPT ![cpu] = nx.pos]
  BY Moves
<1>2. /\ Now = Steps[C][P] /\ P \in 1..Len(Steps[C]) /\ n \in Strides(Now.op)
      /\ ShieldsDisciplined(C) /\ SwitchesDisciplined(C) /\ PlacesDisciplined(C)
      /\ CreationDisciplined(C)
  BY PlaceFacts DEF Effect, Disciplined
<1>3. /\ cpu \in Tasks /\ alive \in SUBSET Tasks /\ masked \in [Tasks -> BOOLEAN]
      /\ code \in [Tasks -> KernelCode \cup Calls \cup {"idle"}] /\ pos \in [Tasks -> Nat]
  BY DEF LocksInv, TypeOK
<1>4. /\ \A t \in alive \cup {cpu} : masked[t] <=> Shielded(code[t], pos[t])
      /\ \A t \in alive : ~Ended(code[t], pos[t])
      /\ InHandler => ~masked[cpu]
  BY DEF LocksInv, MasksAreShields
<1>5. cpu' \in alive \cup {cpu}
  BY DEF Effect
<1>6. Now.op \in {"push", "remove", "terminate", "switch", "cli", "sti"} => ~InHandler
  BY WhoseStep
\* Who is in the table afterwards was in it before, or is a new program.
<1>7. ASSUME NEW t \in alive' \cup {cpu'}
      PROVE  /\ t \in Tasks
             /\ \/ t \in alive \cup {cpu}
                \/ t # cpu /\ Now.op = "push" /\ code[t] = "idle" /\ masked'[t] = FALSE
  <2>1. CASE Now.op = "push"
    BY <1>3, <1>5, <2>1, TaskNumbers DEF Effect, TableEffect
  <2>2. CASE Now.op # "push"
    <3>1. alive' \in SUBSET alive
      BY <2>2 DEF Effect, TableEffect
    <3> QED BY <1>3, <1>5, <3>1
  <2> QED BY <2>1, <2>2
<1>8. ASSUME NEW t \in alive \cup {cpu}
      PROVE  masked'[t] = IF t = cpu /\ Now.op = "cli" THEN TRUE
                          ELSE IF t = cpu /\ Now.op = "sti" THEN FALSE
                          ELSE masked[t]
  <2>1. CASE Now.op = "push"
    <3>1. PICK u \in Programs \ alive : code[u] = "idle" /\ masked' = [masked EXCEPT ![u] = FALSE]
      BY <2>1 DEF Effect, TableEffect
    <3>2. u # cpu
      <4>1. Busy /\ ~InHandler
        BY <1>6, <2>1 DEF Effect
      <4> QED BY <3>1, <4>1 DEF Busy
    <3> QED BY <1>3, <2>1, <3>1, <3>2
  <2>2. CASE Now.op = "remove"
    BY <2>2 DEF Effect, TableEffect
  <2>3. CASE Now.op \in {"cli", "sti"}
    BY <1>3, <2>3 DEF Effect, TableEffect
  <2>4. CASE Now.op \notin {"push", "remove", "cli", "sti"}
    BY <2>4 DEF Effect, TableEffect
  <2> QED BY <2>1, <2>2, <2>3, <2>4
<1>9. ASSUME NEW t \in alive' \cup {cpu'}
      PROVE  masked'[t] <=> Shielded(code'[t], pos'[t])
  <2>1. CASE t \notin alive \cup {cpu}
    <3>1. code'[t] = "idle" /\ masked'[t] = FALSE
      BY <1>1, <1>3, <1>7, <2>1
    <3> QED BY <3>1, IdlePlace
  <2>2. CASE t \in alive \cup {cpu} /\ (InHandler \/ t # cpu)
    <3>1. code'[t] = code[t] /\ pos'[t] = pos[t]
      BY <1>1, <1>3, <1>7, <2>2
    <3>2. masked'[t] = masked[t]
      BY <1>6, <1>8, <2>2
    <3> QED BY <1>4, <2>2, <3>1, <3>2
  <2>3. CASE t = cpu /\ ~InHandler
    <3>1. code'[t] = nx.code /\ pos'[t] = nx.pos /\ C = code[t] /\ P = pos[t]
      BY <1>1, <1>3, <2>3
    <3>2. ~(C \in Endings /\ Now.op = "switch")
      <4> SUFFICES ASSUME C \in Endings, Now.op = "switch" PROVE FALSE
        OBVIOUS
      <4>1. Ended(C, P)
        BY <1>2 DEF SwitchesDisciplined, Endings
      <4>2. cpu \notin alive
        BY <1>4, <3>1, <4>1, <2>3
      <4>3. alive' = alive /\ cpu' \in alive
        BY DEF Effect, TableEffect
      <4> QED BY <2>3, <4>2, <4>3
    <3>3. Shielded(nx.code, nx.pos) <=> \/ Now.op = "cli"
                                        \/ Shielded(C, P) /\ Now.op # "sti"
      BY <1>2, <3>2 DEF ShieldsDisciplined
    <3> QED BY <1>4, <1>8, <2>3, <3>1, <3>3
  <2> QED BY <2>1, <2>2, <2>3
<1>10. InHandler' => ~masked'[cpu']
  <2> SUFFICES ASSUME irq'.code # "idle" PROVE ~masked'[cpu']
    BY DEF InHandler
  <2>1. InHandler
    BY <1>1 DEF InHandler
  <2>2. Now.op \notin {"preempt", "switch", "cli", "sti"}
    <3>1. Now.op # "preempt"
      <4> SUFFICES ASSUME Now.op = "preempt" PROVE FALSE
        OBVIOUS
      <4>1. P = 6 /\ Len(Steps[C]) = 6 /\ n = 1
        BY <1>2 DEF PlacesDisciplined, Strides
      <4>2. nx.code = "idle"
        BY <4>1 DEF Advanced
      <4> QED BY <1>1, <2>1, <4>2
    <3> QED BY <1>6, <2>1, <3>1
  <2>3. cpu' = cpu
    BY <2>2 DEF Effect
  <2> QED BY <1>4, <1>8, <2>1, <2>2, <2>3
<1>11. ASSUME NEW t \in alive'
       PROVE  ~Ended(code'[t], pos'[t])
  <2>1. CASE t \notin alive \cup {cpu}
    <3>1. t # cpu /\ t \in Tasks /\ code[t] = "idle"
      BY <1>7, <2>1
    <3>2. code'[t] = "idle"
      BY <1>1, <1>3, <3>1
    <3> QED BY <3>2, IdlePlace
  <2>2. CASE t \in alive /\ (InHandler \/ t # cpu)
    BY <1>1, <1>3, <1>4, <2>2
  <2>3. CASE t = cpu /\ ~InHandler
    <3>1. code'[t] = nx.code /\ pos'[t] = nx.pos /\ C = code[t] /\ P = pos[t]
      BY <1>1, <1>3, <2>3
    <3>2. Now.op # "terminate"
      BY <1>11, <2>3 DEF Effect, TableEffect
    <3>3. t \in alive
      <4>1. Now.op = "push" => cpu = Kernel
        BY WhoseStep
      <4> QED BY <1>11, <2>3, <4>1, TaskNumbers DEF Effect, TableEffect
    <3>4. Ended(nx.code, nx.pos) => Ended(C, P)
      BY <1>2, <3>2 DEF CreationDisciplined
    <3> QED BY <1>4, <3>1, <3>3, <3>4
  <2>4. CASE t = cpu /\ InHandler
    <3>1. t \in alive
      BY <1>6, <1>11, <2>4 DEF Effect, TableEffect
    <3> QED BY <2>2, <2>4, <3>1
  <2> QED BY <2>1, <2>2, <2>3, <2>4
<1> QED BY <1>9, <1>10, <1>11 DEF MasksAreShields

LEMMA EffectParks ==
  ASSUME LocksInv, NEW n \in {1, 2, 3}, Effect(n)
  PROVE  OthersAreParked'
<1> DEFINE nx == Advanced(C, P + n)
           S == "SCHEDULER"
<1>1. /\ InHandler => /\ code' = code /\ pos' = pos /\ C = irq.code /\ P = irq.pos /\ Self = Irq
      /\ ~InHandler => /\ C = code[cpu] /\ P = pos[cpu]
                       /\ code' = [code EXCEPT ![cpu] = nx.code]
                       /\ pos' = [pos EXCEPT ![cpu] = nx.pos]
  BY Moves
<1>2. /\ Now = Steps[C][P] /\ P \in 1..Len(Steps[C]) /\ n \in Strides(Now.op)
      /\ SwitchesDisciplined(C) /\ PlacesDisciplined(C) /\ SchedulerDisciplined(C)
  BY PlaceFacts DEF Effect, Disciplined
<1>3. /\ cpu \in Tasks /\ alive \in SUBSET Tasks
      /\ code \in [Tasks -> KernelCode \cup Calls \cup {"idle"}] /\ pos \in [Tasks -> Nat]
  BY DEF LocksInv, TypeOK
<1> HIDE DEF nx
<1>4. ASSUME NEW t \in Tasks, t # cpu
      PROVE  Parked(code'[t], pos'[t])
  <2>1. code'[t] = code[t] /\ pos'[t] = pos[t]
    BY <1>1, <1>3, <1>4
  <2> QED BY <1>4, <2>1 DEF LocksInv, OthersAreParked
\* The task that loses the processor gives it up, or is interrupted by a timer
\* handler that has got SCHEDULER.
<1>5. ASSUME cpu' # cpu
      PROVE  Parked(code'[cpu], pos'[cpu])
  <2>1. Now.op \in {"preempt", "switch"}
    BY <1>5 DEF Effect
  <2>2. CASE Now.op = "switch"
    <3>1. ~InHandler /\ n = 1
      BY <1>2, <2>2, WhoseStep DEF Strides
    <3>2. code'[cpu] = nx.code /\ pos'[cpu] = nx.pos
      BY <1>1, <1>3, <3>1
    <3> QED BY <1>2, <2>2, <3>1, <3>2 DEF SwitchesDisciplined, nx
  <2>3. CASE Now.op = "preempt"
    <3>1. InHandler
      BY <2>3, WhoseStep
    <3>2. ~Shielded(code[cpu], pos[cpu])
      BY <3>1 DEF LocksInv, MasksAreShields
    <3>3. Releases(Now, S)
      BY <1>2, <2>3 DEF PlacesDisciplined, Releases
    <3>4. Within(S, irq.code, irq.pos)
      BY <1>1, <1>2, <3>1, <3>3 DEF SchedulerDisciplined
    <3>5. holder[S] = Irq /\ cpu # Irq
      BY <1>3, <3>4, TaskNumbers DEF LocksInv, SchedulerIsHeld
    <3>6. ~Within(S, code[cpu], pos[cpu])
      BY <3>5 DEF LocksInv, SchedulerIsHeld
    <3> QED BY <1>1, <3>1, <3>2, <3>6 DEF Parked
  <2> QED BY <2>1, <2>2, <2>3
<1> QED BY <1>4, <1>5 DEF OthersAreParked

LEMMA EffectCreation ==
  ASSUME LocksInv, NEW n \in {1, 2, 3}, Effect(n)
  PROVE  CreatedBeforePrograms'
<1> DEFINE nx == Advanced(C, P + n)
<1>1. /\ InHandler => /\ code' = code /\ pos' = pos /\ C = irq.code /\ P = irq.pos /\ irq' = nx
      /\ ~InHandler => /\ C = code[cpu] /\ P = pos[cpu] /\ irq' = irq
                       /\ code' = [code EXCEPT ![cpu] = nx.code]
                       /\ pos' = [pos EXCEPT ![cpu] = nx.pos]
  BY Moves
<1>2. /\ Now = Steps[C][P] /\ P \in 1..Len(Steps[C]) /\ n \in Strides(Now.op)
      /\ PlacesDisciplined(C) /\ CreationDisciplined(C)
  BY PlaceFacts DEF Effect, Disciplined
<1>3. /\ cpu \in Tasks /\ created \in BOOLEAN
      /\ code \in [Tasks -> KernelCode \cup Calls \cup {"idle"}] /\ pos \in [Tasks -> Nat]
      /\ \A t \in Programs : code[t] \in Calls \cup {"idle"}
  BY DEF LocksInv, TypeOK
<1>4. /\ ~created => /\ cpu = Kernel /\ alive = {Kernel}
                     /\ \A t \in Programs : code[t] = "idle"
                     /\ ~Using(code[Kernel], pos[Kernel]) /\ ~Using(irq.code, irq.pos)
      /\ \A t \in Programs : ~Creating(code[t], pos[t])
  BY DEF LocksInv, CreatedBeforePrograms
<1>5. /\ created' = (created \/ Now.op = "created")
      /\ Now.op = "create" => (created <=> n = 2)
  BY DEF Effect
<1> HIDE DEF nx
<1>6. Creating(nx.code, nx.pos) => ~created
  <2>1. Creating(nx.code, nx.pos) => Now.op = "create" /\ n = 1
    BY <1>2 DEF CreationDisciplined, nx
  <2> QED BY <1>5, <2>1
<1>7. ~created' => (Using(nx.code, nx.pos) => Using(C, P))
  BY <1>2, <1>3, <1>5 DEF CreationDisciplined, nx
<1>8. ASSUME NEW t \in Programs
      PROVE  ~Creating(code'[t], pos'[t])
  <2>1. t \in Tasks /\ t # Kernel
    BY TaskNumbers
  <2>2. CASE InHandler \/ t # cpu
    <3>1. code'[t] = code[t] /\ pos'[t] = pos[t]
      BY <1>1, <1>3, <2>1, <2>2
    <3> QED BY <1>4, <3>1
  <2>3. CASE ~InHandler /\ t = cpu
    <3>1. code'[t] = nx.code /\ pos'[t] = nx.pos
      BY <1>1, <1>3, <2>1, <2>3
    <3>2. created
      BY <1>3, <1>4, <2>1, <2>3
    <3> QED BY <1>6, <3>1, <3>2
  <2> QED BY <2>2, <2>3
<1>9. ASSUME ~created'
      PROVE  /\ cpu' = Kernel /\ alive' = {Kernel}
             /\ \A t \in Programs : code'[t] = "idle"
             /\ ~Using(code'[Kernel], pos'[Kernel]) /\ ~Using(irq'.code, irq'.pos)
  <2>1. ~created
    BY <1>3, <1>5, <1>9
  <2>2. cpu = Kernel /\ alive = {Kernel} /\ ~Using(code[Kernel], pos[Kernel])
        /\ ~Using(irq.code, irq.pos) /\ Kernel \notin Programs /\ Kernel \in Tasks
    BY <1>4, <2>1, TaskNumbers
  <2>3. cpu' = Kernel
    BY <2>2 DEF Effect
  <2>4. Now.op \notin {"push", "terminate"}
    <3>1. Now.op # "push"
      <4>1. Now.op = "push" => Using(C, P) /\ ~InHandler
        BY <1>2, WhoseStep DEF PlacesDisciplined, Using
      <4> QED BY <1>1, <2>2, <4>1
    <3> QED BY <2>2, <3>1, WhoseStep
  <2>5. alive' = {Kernel}
    <3>1. alive' = alive \/ \E t \in Programs : alive' = alive \ {t}
      BY <2>4 DEF Effect, TableEffect
    <3> QED BY <2>2, <3>1
  <2>6. ASSUME NEW t \in Programs
        PROVE  code'[t] = "idle"
    <3>1. t \in Tasks /\ t # cpu /\ code[t] = "idle"
      BY <1>4, <2>1, <2>2, TaskNumbers
    <3> QED BY <1>1, <1>3, <3>1
  <2>7. ~Using(code'[Kernel], pos'[Kernel]) /\ ~Using(irq'.code, irq'.pos)
    <3>1. CASE InHandler
      BY <1>1, <1>7, <1>9, <2>2, <3>1
    <3>2. CASE ~InHandler
      <4>1. code'[Kernel] = nx.code /\ pos'[Kernel] = nx.pos
        BY <1>1, <1>3, <2>2, <3>2
      <4> QED BY <1>1, <1>7, <1>9, <2>2, <3>2, <4>1
    <3> QED BY <3>1, <3>2
  <2> QED BY <2>3, <2>5, <2>6, <2>7
<1> QED BY <1>8, <1>9 DEF CreatedBeforePrograms

LEMMA EffectFronts ==
  ASSUME LocksInv, NEW n \in {1, 2, 3}, Effect(n)
  PROVE  FrontsMatch'
<1> DEFINE nx == Advanced(C, P + n)
<1>1. /\ nx.code \in {C, "idle"}
      /\ InHandler => C = irq.code /\ irq' = nx /\ code' = code
      /\ ~InHandler => C = code[cpu] /\ code' = [code EXCEPT ![cpu] = nx.code] /\ irq' = irq
  BY Moves
<1> HIDE DEF nx
<1>2. mode' = mode
  BY DEF Effect
<1>3. code'[Kernel] \in {code[Kernel], "idle"}
  BY <1>1, TaskNumbers DEF LocksInv, TypeOK
<1>4. irq'.code \in {irq.code, "idle"}
  BY <1>1
<1> QED BY <1>2, <1>3, <1>4 DEF LocksInv, FrontsMatch, ConsoleCode

----------------------------------------------------------------------------

(***************************************************************************)
(* The invariant.                                                          *)
(***************************************************************************)

LEMMA InitLocks == Init => LocksInv
<1> SUFFICES ASSUME Init PROVE LocksInv
  OBVIOUS
<1>1. TypeOK
  BY TaskNumbers DEF Init, TypeOK, PlaceOK
<1>2. HoldersAreWithin /\ SchedulerIsHeld
  BY TaskNumbers, IdlePlace DEF Init, HoldersAreWithin, SchedulerIsHeld
<1>3. MasksAreShields /\ OthersAreParked
  BY TaskNumbers, IdlePlace DEF Init, MasksAreShields, OthersAreParked, Parked, InHandler
<1>4. CreatedBeforePrograms
  BY TaskNumbers, IdlePlace DEF Init, CreatedBeforePrograms
<1>5. FrontsMatch
  BY TaskNumbers DEF Init, FrontsMatch, ConsoleCode
<1> QED BY <1>1, <1>2, <1>3, <1>4, <1>5 DEF LocksInv

LEMMA EffectLocks ==
  ASSUME LocksInv, NEW n \in {1, 2, 3}, Effect(n)
  PROVE  LocksInv'
BY EffectTypes, EffectHolders, EffectScheduler, EffectMasks, EffectParks, EffectCreation,
   EffectFronts DEF LocksInv

LEMMA BeginLocks ==
  ASSUME LocksInv, NEW name \in KernelCode \cup Calls, Begin(name)
  PROVE  LocksInv'
<1>1. /\ code[cpu] = "idle" /\ ~InHandler /\ irq.code = "idle"
      /\ name \in IF cpu = Kernel THEN KernelCode ELSE Calls
      /\ code' = [code EXCEPT ![cpu] = name] /\ pos' = [pos EXCEPT ![cpu] = 1]
      /\ UNCHANGED <<holder, alive, cpu, masked, irq, created, mode>>
      /\ name \in ConsoleCode => mode = "console"
  BY DEF Begin, Busy, InHandler
<1>2. PlaceOK(name, 1)
  <2>1. name \in DOMAIN Steps
    BY DEF Steps, KernelCode, Calls, DirectCalls, EntryCalls, TableCommands, ConsoleCode
  <2> QED BY <2>1, Beginnings
<1>3. TypeOK'
  BY <1>1, <1>2, TaskNumbers DEF LocksInv, TypeOK
<1>4. ASSUME NEW t \in Tasks
      PROVE  IF t = cpu THEN code'[t] = name /\ pos'[t] = 1
             ELSE code'[t] = code[t] /\ pos'[t] = pos[t]
  BY <1>1 DEF LocksInv, TypeOK
<1>5. cpu \in Tasks /\ alive \in SUBSET Tasks
  BY DEF LocksInv, TypeOK
<1>6. HoldersAreWithin' /\ SchedulerIsHeld'
  BY <1>1, <1>4, <1>5, IdlePlace, Beginnings DEF LocksInv, HoldersAreWithin, SchedulerIsHeld
<1>7. MasksAreShields' /\ OthersAreParked'
  <2>1. masked[cpu] <=> FALSE
    BY <1>1, IdlePlace DEF LocksInv, MasksAreShields
  <2>2. ~Shielded(name, 1) /\ ~Ended(name, 1)
    BY Beginnings
  <2> QED BY <1>1, <1>4, <1>5, <2>1, <2>2 DEF LocksInv, MasksAreShields, OthersAreParked, InHandler
<1>8. CreatedBeforePrograms'
  <2>1. ~Creating(name, 1) /\ ~Using(name, 1)
    BY Beginnings
  <2> QED BY <1>1, <1>4, <2>1, TaskNumbers DEF LocksInv, CreatedBeforePrograms
<1>9. FrontsMatch'
  BY <1>1, <1>4, TaskNumbers DEF LocksInv, FrontsMatch
<1> QED BY <1>3, <1>6, <1>7, <1>8, <1>9 DEF LocksInv

LEMMA StartFrontLocks ==
  ASSUME LocksInv, StartFront
  PROVE  LocksInv'
<1>1. /\ code[Kernel] = "idle" /\ irq.code = "idle" /\ mode' \in {"gui", "console"}
      /\ UNCHANGED <<holder, alive, cpu, code, pos, masked, irq, created>>
  BY DEF StartFront, Busy, InHandler
<1>2. FrontsMatch'
  BY <1>1 DEF FrontsMatch, ConsoleCode
<1>3. TypeOK'
  BY <1>1 DEF LocksInv, TypeOK
<1>4. HoldersAreWithin' /\ SchedulerIsHeld' /\ MasksAreShields' /\ OthersAreParked'
      /\ CreatedBeforePrograms'
  BY <1>1 DEF LocksInv, HoldersAreWithin, SchedulerIsHeld, MasksAreShields, OthersAreParked,
              CreatedBeforePrograms, InHandler
<1> QED BY <1>2, <1>3, <1>4 DEF LocksInv

LEMMA InterruptLocks ==
  ASSUME LocksInv, NEW name \in Handlers, Interrupt(name)
  PROVE  LocksInv'
<1>1. /\ ~masked[cpu] /\ irq.code = "idle"
      /\ irq' = [code |-> name, pos |-> 1]
      /\ UNCHANGED <<holder, alive, cpu, code, pos, masked, created, mode>>
      /\ name \in {"keyboard", "mouse"} => mode = "gui"
  BY DEF Interrupt, InHandler
<1>2. PlaceOK(name, 1) /\ 1 \in Nat
  BY Beginnings DEF Handlers, Steps
<1>3. TypeOK'
  BY <1>1, <1>2 DEF LocksInv, TypeOK
<1>4. HoldersAreWithin' /\ SchedulerIsHeld'
  BY <1>1, IdlePlace, Beginnings DEF LocksInv, HoldersAreWithin, SchedulerIsHeld
<1>5. MasksAreShields' /\ OthersAreParked'
  BY <1>1 DEF LocksInv, MasksAreShields, OthersAreParked, InHandler
<1>6. CreatedBeforePrograms'
  BY <1>1, Beginnings DEF LocksInv, CreatedBeforePrograms
<1>7. FrontsMatch'
  BY <1>1 DEF LocksInv, FrontsMatch
<1> QED BY <1>3, <1>4, <1>5, <1>6, <1>7 DEF LocksInv

LEMMA StepLocks == LocksInv /\ [Next]_vars => LocksInv'
<1> SUFFICES ASSUME LocksInv, [Next]_vars PROVE LocksInv'
  OBVIOUS
<1>1. CASE Execute
  BY <1>1, ExecuteHasEffect, EffectLocks
<1>2. ASSUME NEW t \in Tasks, Preempt(t) \/ SwitchTo(t)
      PROVE  LocksInv'
  BY <1>2, SwitchHasEffect, EffectLocks
<1>3. ASSUME NEW name \in KernelCode \cup Calls, Begin(name)
      PROVE  LocksInv'
  BY <1>3, BeginLocks
<1>4. ASSUME NEW name \in Handlers, Interrupt(name)
      PROVE  LocksInv'
  BY <1>4, InterruptLocks
<1>5. CASE UNCHANGED vars
  BY <1>5 DEF vars, LocksInv, TypeOK, HoldersAreWithin, SchedulerIsHeld, MasksAreShields,
              OthersAreParked, CreatedBeforePrograms, FrontsMatch, InHandler
<1>6. CASE StartFront
  BY <1>6, StartFrontLocks
<1> QED BY <1>1, <1>2, <1>3, <1>4, <1>5, <1>6 DEF Next

\* Locks are held by the code that has taken them, interrupts are disabled
\* where the code says so, and nobody off the processor has SCHEDULER.
THEOREM LocksCorrect == Spec => []LocksInv
<1>1. Init => LocksInv
  BY InitLocks
<1>2. LocksInv /\ [Next]_vars => LocksInv'
  BY StepLocks
<1> QED BY <1>1, <1>2, PTL DEF Spec

\* Whoever waits for a lock with interrupts disabled is in one of the four
\* situations the code cannot exclude.
THEOREM LostWays == Spec => []LostInKnownWays
<1>1. LocksInv => LostInKnownWays
  <2> SUFFICES ASSUME LocksInv, Lost
               PROVE  FirstTick \/ KeyOfTheConsole \/ CommandOnTheTable \/ EnteredCall
    BY DEF LostInKnownWays
  <2> DEFINE h == holder[Now.name]
  <2>1. Busy /\ h # Free /\ (Now.op = "lock" \/ (Now.op = "create" /\ ~created))
    BY DEF Lost, Waiting, Doing
  <2>2. /\ C \in DOMAIN Steps /\ P \in 1..Len(Steps[C]) /\ Now = Steps[C][P]
        /\ LocksDisciplined(C) /\ PlacesDisciplined(C) /\ WaitsDisciplined(C)
    BY <2>1, PlaceFacts DEF Disciplined
  <2>3. Now.name \in LockNames /\ ~Within(Now.name, C, P)
    BY <2>1, <2>2 DEF LocksDisciplined
  <2>4. h \in Tasks \/ h = Irq
    BY <2>1, <2>3 DEF LocksInv, TypeOK
  <2>5. h \in Tasks => Within(Now.name, code[h], pos[h])
    BY <2>3 DEF LocksInv, HoldersAreWithin
  <2>6. h = Irq => Within(Now.name, irq.code, irq.pos)
    BY <2>3 DEF LocksInv, HoldersAreWithin
  <2>7. h \in Tasks => code[h] \notin Handlers
    BY DEF LocksInv, TypeOK, KernelCode, Handlers, Calls, DirectCalls, EntryCalls, TableCommands,
           ConsoleCode
  <2>8. Now.op = "create" => Now.name = "ALLOCATOR"
    BY <2>2 DEF PlacesDisciplined
  <2>9. ~created => /\ cpu = Kernel
                    /\ \A t \in Programs : code[t] = "idle"
    BY DEF LocksInv, CreatedBeforePrograms
  <2>10. h \in Programs => code[h] \in Calls \cup {"idle"}
    BY DEF LocksInv, TypeOK
  <2> HIDE DEF h
  <2>11. ~created /\ h \in Tasks => h = Kernel
    BY <2>5, <2>9, IdlePlace DEF Tasks
  <2>12. CASE InHandler
    <3>1. C = irq.code /\ P = irq.pos /\ C \in Handlers
      BY <2>12 DEF C, P, InHandler, LocksInv, TypeOK
    <3>2. h \in Tasks
      BY <2>3, <2>4, <2>6, <3>1
    <3>3. CASE Now.op = "lock"
      <4>1. \/ Now.name = "PICS"
            \/ Now.name = "SCANCODE_QUEUE" /\ C = "add_scancode"
            \/ Now.name = "KEYBOARD" /\ C = "keyboard"
            \/ Now.name = "MOUSE_STATE" /\ C = "mouse"
        BY <2>2, <3>1, <3>3 DEF WaitsDisciplined
      <4>2. Now.name \in {"SCANCODE_QUEUE", "KEYBOARD"} /\ code[h] \in ConsoleCode
        BY <2>5, <2>7, <3>2, <4>1 DEF Within, Handlers, ConsoleCode
      <4>3. h = Kernel
        BY <2>10, <3>2, <4>2
           DEF Tasks, ConsoleCode, Calls, DirectCalls, EntryCalls
      <4>4. mode = "console" /\ C # "keyboard"
        BY <3>1, <4>2, <4>3 DEF LocksInv, FrontsMatch
      <4>5. KeyOfTheConsole
        BY <3>1, <4>1, <4>2, <4>3, <4>4 DEF KeyOfTheConsole, h
      <4> QED BY <4>5
    <3>4. CASE Now.op # "lock"
      <4>1. C = "timer" /\ Now.op = "create" /\ ~created /\ Now.name = "ALLOCATOR"
        BY <2>1, <2>2, <2>8, <3>1, <3>4 DEF WaitsDisciplined, Handlers
      <4>2. FirstTick
        BY <2>1, <2>11, <3>1, <3>2, <4>1 DEF FirstTick, Doing, h
      <4> QED BY <4>2
    <3> QED BY <3>3, <3>4
  <2>13. CASE ~InHandler
    <3>1. C = code[cpu] /\ P = pos[cpu] /\ irq.code = "idle" /\ cpu \in Tasks
      BY <2>13 DEF C, P, InHandler, LocksInv, TypeOK
    <3>2. h \in Tasks /\ h # cpu
      BY <2>3, <2>4, <2>5, <2>6, <3>1, IdlePlace
    <3>3. Parked(code[h], pos[h])
      BY <3>2 DEF LocksInv, OthersAreParked
    <3>4. Shielded(C, P)
      BY <2>13, <3>1 DEF Lost, LocksInv, MasksAreShields
    <3>5. Now.op = "lock"
      BY <2>1, <2>9, <2>11, <3>2
    <3>6. Now.name \notin {"SCHEDULER", "WRITER", "SERIAL1"}
      BY <2>5, <3>2, <3>3 DEF Parked, Within, Shielded
    <3>7. \/ Now.name = "ALLOCATOR" /\ C \in TableCommands
          \/ Now.name \in {"FS", "ALLOCATOR"} /\ C \in EntryCalls
      BY <2>2, <3>4, <3>5, <3>6 DEF WaitsDisciplined
    \* A program that is not on the processor holds no more than the heap.
    <3>8. h \in Programs => Now.name = "ALLOCATOR" /\ StoppedInSysExit(h)
      <4> SUFFICES ASSUME h \in Programs PROVE Now.name = "ALLOCATOR" /\ StoppedInSysExit(h)
        OBVIOUS
      <4>1. ~Creating(code[h], pos[h])
        BY DEF LocksInv, CreatedBeforePrograms
      <4>2. code[h] \in Calls
        BY <2>5, <2>10, <3>2, IdlePlace
      <4>3. Now.name = "ALLOCATOR" /\ code[h] = "sys_exit"
        BY <2>5, <3>2, <3>3, <3>7, <4>1, <4>2
           DEF Within, Creating, Parked, Shielded, Calls, DirectCalls, EntryCalls
      <4> QED BY <4>3 DEF StoppedInSysExit, h
    <3>9. CASE Now.name = "ALLOCATOR" /\ C \in TableCommands
      <4>1. cpu = Kernel
        <5>1. cpu \in Programs => code[cpu] \in Calls \cup {"idle"}
          BY DEF LocksInv, TypeOK
        <5> QED BY <3>1, <3>9, <5>1
            DEF Tasks, TableCommands, Calls, DirectCalls, EntryCalls
      <4>2. h \in Programs
        BY <3>2, <4>1 DEF Tasks
      <4>3. CommandOnTheTable
        BY <2>13, <3>1, <3>8, <3>9, <4>1, <4>2 DEF CommandOnTheTable, h
      <4> QED BY <4>3
    <3>10. CASE Now.name \in {"FS", "ALLOCATOR"} /\ C \in EntryCalls
      <4>1. cpu \in Programs
        <5>1. code[Kernel] \in KernelCode \cup {"idle"}
          BY DEF LocksInv, TypeOK
        <5> QED BY <3>1, <3>10, <5>1
            DEF Tasks, TableCommands, ConsoleCode, KernelCode, EntryCalls
      <4>2. h = Kernel \/ h \in Programs
        BY <3>2 DEF Tasks
      <4>3. EnteredCall
        BY <2>13, <3>1, <3>8, <3>10, <4>1, <4>2 DEF EnteredCall, h
      <4> QED BY <4>3
    <3> QED BY <3>7, <3>9, <3>10
  <2> QED BY <2>12, <2>13
<1> QED BY <1>1, LocksCorrect, PTL

\* What a task that is killed off the processor can leave locked is the heap,
\* while sys_exit drops its files.
THEOREM OrphansOfSysExit == Spec => []OrphanedBySysExitOnly
<1>1. LocksInv => OrphanedBySysExitOnly
  <2> SUFFICES ASSUME LocksInv, NEW l \in LockNames, Orphaned(l)
               PROVE  l = "ALLOCATOR" /\ StoppedInSysExit(holder[l])
    BY DEF OrphanedBySysExitOnly
  <2> DEFINE h == holder[l]
  <2>1. h \in Programs /\ h # cpu /\ h \in Tasks
    BY TaskNumbers DEF Orphaned
  <2>2. Within(l, code[h], pos[h])
    BY <2>1 DEF LocksInv, HoldersAreWithin
  <2>3. Parked(code[h], pos[h])
    BY <2>1 DEF LocksInv, OthersAreParked
  <2>4. ~Creating(code[h], pos[h])
    BY <2>1 DEF LocksInv, CreatedBeforePrograms
  <2>5. code[h] \in Calls
    <3>1. code[h] \in Calls \cup {"idle"}
      BY <2>1 DEF LocksInv, TypeOK
    <3> HIDE DEF h
    <3> QED BY <2>2, <3>1, IdlePlace
  <2> HIDE DEF h
  <2>6. l = "ALLOCATOR" /\ code[h] = "sys_exit"
    BY <2>2, <2>3, <2>4, <2>5
       DEF Within, Parked, Shielded, Creating, LockNames, Calls, DirectCalls, EntryCalls
  <2> QED BY <2>1, <2>6 DEF StoppedInSysExit, h
<1> QED BY <1>1, LocksCorrect, PTL

=============================================================================

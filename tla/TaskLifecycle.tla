--------------------------- MODULE TaskLifecycle ---------------------------
(***************************************************************************)
(* What the scheduler promises, with no vector, index, quantum, lock or    *)
(* interrupt: each task has a status, exactly one task runs, the processor *)
(* passes only to a ready task, and a dead task stays dead.                *)
(***************************************************************************)
EXTENDS Integers

CONSTANT MaxId   \* bound: the last task id

VARIABLE status

LifeIds == 0..MaxId
Status == {"unborn", "ready", "running", "dead"}

LInit == status = [id \in LifeIds |-> IF id = 0 THEN "running" ELSE "unborn"]

\* Ids are given out in order, each once.
Born(id) ==
  /\ status[id] = "unborn"
  /\ \A other \in LifeIds : other < id => status[other] # "unborn"
  /\ status' = [status EXCEPT ![id] = "ready"]

\* The processor passes from one task to another, which stays ready or is dead.
Passes(from, to, becomes) ==
  /\ status[from] = "running"
  /\ status[to] = "ready"
  /\ becomes = "dead" => from # 0
  /\ status' = [status EXCEPT ![from] = becomes, ![to] = "running"]

Killed(id) ==
  /\ status[0] = "running"
  /\ status[id] = "ready"
  /\ status' = [status EXCEPT ![id] = "dead"]

LNext ==
  \/ \E id \in LifeIds : Born(id) \/ Killed(id)
  \/ \E from, to \in LifeIds, becomes \in {"ready", "dead"} : Passes(from, to, becomes)

Spec == LInit /\ [][LNext]_status

=============================================================================

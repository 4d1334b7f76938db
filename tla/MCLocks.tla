------------------------------ MODULE MCLocks ------------------------------
(***************************************************************************)
(* Locks with a program that makes every system call, and with none, as    *)
(* the kernel is when it has just enabled interrupts.                      *)
(***************************************************************************)
EXTENDS Locks
MCPrograms == {1}
MCNoPrograms == {}
=============================================================================

----------------------------- MODULE MCFdTable -----------------------------
(***************************************************************************)
(* FdTable with two slots for files, two names and files of three bytes:   *)
(* one loaded program and a built-in one beside the shell.                 *)
(***************************************************************************)
EXTENDS FdTable
MCTwoPrograms == {1, 2}
MCBuiltIn == {1}
MCNames == {"a", "b"}
MCContents == {<<>>, <<1, 2, 3>>}
MCLengths == {1, 2}
MCReserved == 1
MCMaxFds == 3
=============================================================================

------------------------------- MODULE MCMemory -------------------------------
(***************************************************************************)
(* Memory with several memory maps of usable and reserved regions, from    *)
(* too small for the heap to enough for everything; a heap of two pages;   *)
(* two programs, with a page that two segments of one program and the      *)
(* other program share; a file that is cut behind its first segment; and a *)
(* program whose second segment is linked where there is a huge page.      *)
(***************************************************************************)
EXTENDS Memory
R(start, end, usable) == [start |-> start, end |-> end, usable |-> usable]
MCMemoryMaps ==
  {<<R(0, 1, FALSE), R(1, a, TRUE), R(a, 6, FALSE), R(6, 6 + b, TRUE), R(12, 12 + c, TRUE)>> :
     a \in 1..5, b \in 0..4, c \in 0..2}
MCHeapFirst == 7
MCHeapLast == 8
MCPages == 1..11
MCTable == [page \in MCPages |-> (page + 1) \div 3]
MCHuge == {4}
MCPrograms == {"a", "b", "cut", "huge"}
S(first, last, writable) == [first |-> first, last |-> last, writable |-> writable, whole |-> TRUE]
MCSegments == [p \in MCPrograms |->
  CASE p = "a"   -> <<S(1, 2, FALSE), S(2, 3, TRUE)>>
    [] p = "b"   -> <<S(3, 5, TRUE)>>
    [] p = "cut" -> <<S(2, 2, TRUE), [S(6, 6, TRUE) EXCEPT !.whole = FALSE]>>
    [] p = "huge" -> <<S(3, 3, TRUE), S(10, 11, TRUE)>>]
=============================================================================

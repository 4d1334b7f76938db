------------------------------ MODULE MCStorage ------------------------------
(***************************************************************************)
(* Storage with three names, of which the second is too long for the image *)
(* and reads there like the first, and the third is cut inside a           *)
(* character; two entries below the root, directories only in the root;    *)
(* files of one unit; two terminals, which are alike.  The smallest image  *)
(* fits the first sector, the largest is one unit larger than the disk.    *)
(* OneLongName bounds the search: behind a tree in which both long names   *)
(* stand, or the third beside data, it does not go on.                     *)
(***************************************************************************)
EXTENDS Storage, TLC
MCNames == {1, 2, 3}
MCCut == <<1, 1, 4>>
MCContents == {<<5>>}
TerminalSymmetry == Permutations(Terminals)
InTree(n) == \E p \in DOMAIN fs : \E i \in DOMAIN p : p[i] = n
OneLongName == InTree(3) => ~InTree(2) /\ \A p \in DOMAIN fs : fs[p] \in {Dir, File(<<>>)}
MCBootFs == [p \in {<<>>, <<1>>, <<1, 2>>} |-> IF p = <<1, 2>> THEN File(<<5>>) ELSE Dir]
MCNewline == 9
MCMaxEntries == 3
MCMaxDepth == 1
MCMaxData == 1
MCHead == 4
MCSector == 2
MCSectors == 2
=============================================================================

------------------------------ MODULE Ordering ------------------------------
(***************************************************************************)
(* Helpers on indices: the code looks for the first element of a vector or *)
(* a table with some property, removes elements keeping the order of the   *)
(* others, and splits a text at separators.                                *)
(***************************************************************************)
EXTENDS Integers, Sequences, FiniteSets

\* The smallest element of a non-empty set of naturals.
Least(S) == CHOOSE i \in S : \A j \in S : i <= j

\* The position of i among the elements of S, counted from 1.
Rank(i, S) == Cardinality({j \in S : j <= i})

\* The elements of S, the smallest first.
Sorted(S) == [k \in 1..Cardinality(S) |-> CHOOSE i \in S : Rank(i, S) = k]

\* Vec::retain: the elements of s at the indices S, in their order.
Retained(s, S) == [k \in 1..Cardinality(S) |-> s[Sorted(S)[k]]]

\* The parts of a text between separators; of a last one that is empty, nothing.
Ends(text, separator) ==
  {i \in DOMAIN text : text[i] = separator}
    \cup (IF text = <<>> \/ text[Len(text)] = separator THEN {} ELSE {Len(text) + 1})

Split(text, separator) ==
  LET ends == Sorted(Ends(text, separator))
  IN  [k \in DOMAIN ends |->
         SubSeq(text, IF k = 1 THEN 1 ELSE ends[k - 1] + 1, ends[k] - 1)]

=============================================================================

--------------------------------- MODULE Text ---------------------------------
(***************************************************************************)
(* The text commands of shell/commands.rs as functions of their input.  A  *)
(* text is a sequence of words with Newline between its lines; blanks are  *)
(* left out, and a pattern is found in a line that has it as a word.       *)
(***************************************************************************)
EXTENDS Ordering, SequencesExt

CONSTANTS Newline,
          Collation   \* of a word: its place in the order of strings, for sort

lines(text) == Split(text, Newline)

\* A Newline behind every line, and the last one taken away again.
trim_trailing_newline(ls) ==
  FlattenSeq([k \in DOMAIN ls |-> IF k = Len(ls) THEN ls[k] ELSE Append(ls[k], Newline)])

grep(pattern, text) ==
  trim_trailing_newline(SelectSeq(lines(text), LAMBDA l : Contains(l, pattern)))

head(n, text) ==
  LET ls == lines(text) IN trim_trailing_newline(SubSeq(ls, 1, Min({n, Len(ls)})))

tail(n, text) ==
  LET ls == lines(text)
  IN  trim_trailing_newline(SubSeq(ls, Len(ls) - Min({n, Len(ls)}) + 1, Len(ls)))

\* The order of lines: that of their first words that differ.
AtOrBefore(a, b) ==
  \/ IsPrefix(a, b)
  \/ \E i \in DOMAIN a \cap DOMAIN b :
       SubSeq(a, 1, i - 1) = SubSeq(b, 1, i - 1) /\ Collation[a[i]] < Collation[b[i]]

sort(text) ==
  LET ls    == lines(text)
      order == SetToSortSeq(DOMAIN ls, LAMBDA i, j :
                 AtOrBefore(ls[i], ls[j]) /\ (ls[i] = ls[j] => i < j))
  IN  trim_trailing_newline([k \in DOMAIN ls |-> ls[order[k]]])

\* Fault: every line is compared with the first one.
uniq_First(text) ==
  LET ls == lines(text)
  IN  trim_trailing_newline(Retained(ls, {k \in DOMAIN ls : k = 1 \/ ls[k] # ls[1]}))

\* Of lines that are alike and next to each other, the first.
uniq(text) ==
  LET ls == lines(text)
  IN  trim_trailing_newline(Retained(ls, {k \in DOMAIN ls : k = 1 \/ ls[k] # ls[k - 1]}))
===============================================================================

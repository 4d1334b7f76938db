-------------------------------- MODULE LineText --------------------------------
(***************************************************************************)
(* What the two front ends share: strings, which are sequences of bytes in *)
(* UTF-8, and a kernel that halts when one is cut inside a character or a  *)
(* vector is read behind its end.                                          *)
(***************************************************************************)
EXTENDS SequencesExt

CONSTANTS Byte,
          Chars,         \* the characters that are typed, each a sequence of bytes
          Blank,         \* the byte of the space
          Continuation,  \* the bytes that do not begin a character
          Prompts        \* what prompt() makes of the directories there are

ASSUME TextAssumption ==
  /\ Blank \in Byte
  /\ Chars \subseteq Seq(Byte) /\ Prompts \subseteq Seq(Byte)

VARIABLES
  halted,   \* the panic handler has been entered
  prompt    \* of the directory the shell is in

IsBoundary(s, i) == i = Len(s) \/ s[i + 1] \notin Continuation

\* String::pop
Pop(s) ==
  IF s = <<>> THEN s
  ELSE SubSeq(s, 1, SelectLastInSeq(s, LAMBDA b : b \notin Continuation) - 1)

trim(s) ==
  LET printed == {i \in DOMAIN s : s[i] # Blank}
  IN  IF printed = {} THEN <<>> ELSE SubSeq(s, Min(printed), Max(printed))

LineInit == halted = FALSE /\ prompt \in Prompts

Panic == halted' = TRUE
===============================================================================

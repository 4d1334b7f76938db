----------------------------- MODULE TerminalWidget -----------------------------
(***************************************************************************)
(* The text of a terminal window, gui/widget/terminal.rs: the line typed   *)
(* and the rows above it.  What a line does when it is executed is         *)
(* CommandLine's; here it prints any of Outputs and leaves any prompt.     *)
(***************************************************************************)
EXTENDS LineText

CONSTANTS COLS, MAX_SCROLLBACK, MAX_INPUT,
          Banner,     \* the lines of a new window
          Outputs     \* sequences of lines

ASSUME TerminalAssumption ==
  /\ COLS \in Nat \ {0} /\ MAX_SCROLLBACK \in Nat /\ MAX_INPUT \in Nat
  /\ Banner \in Seq(Seq(Byte)) /\ Outputs \subseteq Seq(Seq(Byte))

VARIABLES lines, input_buf

tvars == <<lines, input_buf>>

\* Fault: the byte at each cut goes to neither row.
Wrapped_DropsCut(text) ==
  [k \in 1..Max({1, (Len(text) + COLS - 1) \div COLS}) |->
     SubSeq(text, (k - 1) * COLS + 1 + (IF k > 1 THEN 1 ELSE 0), Min({k * COLS, Len(text)}))]

\* The rows that push_line makes of a line: of COLS bytes each but the last.
Wrapped(text) ==
  [k \in 1..Max({1, (Len(text) + COLS - 1) \div COLS}) |->
     SubSeq(text, (k - 1) * COLS + 1, Min({k * COLS, Len(text)}))]

CutsInside(text) ==
  \E k \in 1..Len(text) : k * COLS < Len(text) /\ ~IsBoundary(text, k * COLS)

\* push_line for each of texts; the oldest rows go.
Pushed(old, texts) ==
  LET all == old \o FlattenSeq([i \in DOMAIN texts |-> Wrapped(texts[i])])
  IN  SubSeq(all, Max({0, Len(all) - MAX_SCROLLBACK}) + 1, Len(all))

TerminalInit == lines = Pushed(<<>>, Banner) /\ input_buf = <<>>

KeyChar(c) ==
  /\ Len(input_buf) < MAX_INPUT
  /\ input_buf' = input_buf \o c
  /\ UNCHANGED <<lines, halted, prompt>>

KeyBackspace ==
  /\ input_buf' = Pop(input_buf)
  /\ UNCHANGED <<lines, halted, prompt>>

\* Unless it is empty the line is executed: it may clear the rows, itself too,
\* and prints output.
execute_command(cleared, output) ==
  LET shown == <<prompt \o input_buf>>
      run   == trim(input_buf) # <<>>
      all   == IF run THEN shown \o output ELSE shown
  IN  /\ input_buf' = <<>>
      /\ prompt' \in IF run THEN Prompts ELSE {prompt}
      /\ IF \E i \in DOMAIN all : CutsInside(all[i]) THEN Panic /\ UNCHANGED lines
         ELSE /\ UNCHANGED halted
              /\ lines' = IF run /\ cleared THEN Pushed(<<>>, output) ELSE Pushed(lines, all)

KeyEnter ==
  \E cleared \in BOOLEAN, output \in Outputs : execute_command(cleared, output)

TerminalNext == (\E c \in Chars : KeyChar(c)) \/ KeyBackspace \/ KeyEnter

\* No row is wider than the window, and there are no more than MAX_SCROLLBACK.
TerminalTypeOK ==
  /\ Len(lines) <= MAX_SCROLLBACK
  /\ \A i \in DOMAIN lines : Len(lines[i]) <= COLS

\* Wrapping loses nothing: put together, the rows that are left are the end of
\* what was there, was typed and was printed, and all of it while there is room.
WrappingKeepsText ==
  [][\A cleared \in BOOLEAN, output \in Outputs :
       execute_command(cleared, output) /\ ~halted' =>
         LET run   == trim(input_buf) # <<>>
             typed == IF run /\ cleared THEN <<>>
                      ELSE FlattenSeq(lines) \o prompt \o input_buf
             all   == typed \o (IF run THEN FlattenSeq(output) ELSE <<>>)
         IN  /\ IsSuffix(FlattenSeq(lines'), all)
             /\ Len(lines') < MAX_SCROLLBACK => FlattenSeq(lines') = all]_tvars
===============================================================================

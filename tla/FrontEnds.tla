------------------------------- MODULE FrontEnds -------------------------------
(***************************************************************************)
(* A machine with one of the two front ends, as kernel_main starts it: the *)
(* terminal window, or the text console, which is there but not started.   *)
(***************************************************************************)
EXTENDS Console, TerminalWidget

VARIABLE front

vars == <<halted, prompt, front, cvars, tvars>>

Init == LineInit /\ ConsoleInit /\ TerminalInit /\ front \in {"gui", "text"}

ConsoleStep == ~halted /\ front = "text" /\ ConsoleNext /\ UNCHANGED <<tvars, front>>

WindowStep == ~halted /\ front = "gui" /\ TerminalNext /\ UNCHANGED <<cvars, front>>

hlt_loop == halted /\ UNCHANGED vars

Next == ConsoleStep \/ WindowStep \/ hlt_loop

Spec == Init /\ [][Next]_vars

TypeOK == halted \in BOOLEAN /\ prompt \in Prompts /\ ConsoleTypeOK /\ TerminalTypeOK

\* When the loop waits for a key, what is on the row is the prompt and the line
\* that Enter would execute, however it was typed, completed, recalled, erased and
\* drawn anew: while they fit, and unless a character of several bytes was erased
\* or a program has printed since the row was begun.
ScreenShowsInput ==
  front = "text" /\ ~halted /\ Idle /\ exact => row = Cells(prompt \o buf)

IsWide(s) == \E i \in DOMAIN s : s[i] \in Wide

\* Typing, completing and browsing can halt the kernel in one way only: with a
\* character of more than one byte in a name, a prompt or what is printed.
PanicNeedsWideChar ==
  [][~halted /\ halted' =>
       \/ IsWide(prompt \o buf \o input_buf)
       \/ front = "text" /\ \E n \in names : IsWide(n)
       \/ front = "gui" /\ \E o \in Outputs : \E i \in DOMAIN o : IsWide(o[i])]_vars
===============================================================================

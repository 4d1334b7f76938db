-------------------------------- MODULE Console --------------------------------
(***************************************************************************)
(* The text console: the loop of shell/mod.rs with its line editor and     *)
(* history, completion.rs, and the row of the screen that vga.rs writes to.*)
(* What a line does when it is executed is CommandLine's; here it leaves   *)
(* any names and any prompt behind.  The screen is written one print! at a *)
(* time, each with the lock of the writer and interrupts off: a program    *)
(* that the timer switches to prints between two of them.                  *)
(***************************************************************************)
EXTENDS LineText

CONSTANTS MAX_LINE, HISTORY_MAX, BUFFER_WIDTH,
          Wide,         \* the bytes from 0x7f on
          Other,        \* the cell that stands for one of them
          Commands,     \* the names of COMMAND_TABLE
          NameSets,     \* the names a directory may hold
          Written       \* what programs print, between two newlines

ASSUME ConsoleAssumption ==
  /\ MAX_LINE \in Nat /\ HISTORY_MAX \in Nat \ {0} /\ BUFFER_WIDTH \in Nat \ {0}
  /\ Continuation \subseteq Wide
  /\ Commands \subseteq Seq(Byte \ Wide) /\ NameSets \subseteq SUBSET Seq(Byte)
  /\ Written \subseteq Seq(Byte)

VARIABLES
  buf,      \* the line being edited
  entries, history_cursor,   \* CommandHistory
  names,    \* of the files in the directory
  row,      \* the last row of the screen, up to column_position
  erasing,  \* the cells that the console has still to erase,
  printing, \* and what it has then still to print
  executing,   \* run is in execute_line
  exact,    \* history: since the last new row of the console the line was never
            \* longer than the row, no character of several cells was erased as
            \* one, and no program has printed
  browsed   \* history: an arrow key was pressed since a line was executed

cvars == <<buf, entries, history_cursor, names, row, erasing, printing, executing,
           exact, browsed>>

\* The loop waits for a key.
Idle == erasing = 0 /\ printing = <<>> /\ ~executing

Fits(on, text) == Len(on) + Len(text) <= BUFFER_WIDTH

Cells(s) == [i \in DOMAIN s |-> IF s[i] \in Wide THEN Other ELSE s[i]]

Rightmost(s, n) == SubSeq(s, Len(s) - n + 1, Len(s))

\* Fault: the row is left one byte late.
Printed_OneLate(on, text) ==
  LET all == on \o Cells(text)
  IN  IF all = <<>> THEN all ELSE Rightmost(all, ((Len(all) - 1) % (BUFFER_WIDTH + 1)) + 1)

\* write_string: what remains on the last row when text without a newline is
\* printed; the row is left when there is one more byte to write.
Printed(on, text) ==
  LET all == on \o Cells(text)
  IN  IF all = <<>> THEN all ELSE Rightmost(all, ((Len(all) - 1) % BUFFER_WIDTH) + 1)

\* delete_last_char, n times.
Erased(on, n) == SubSeq(on, 1, Max({0, Len(on) - n}))

ConsoleInit ==
  /\ buf = <<>> /\ entries = <<>> /\ history_cursor = 0 /\ names \in NameSets
  /\ row = <<>> /\ erasing = 0 /\ printing = prompt /\ executing = FALSE
  /\ exact = Fits(prompt, <<>>) /\ browsed = FALSE

\* text is typed or completed, and printed behind the line.
Typed(text) ==
  /\ buf' = buf \o text /\ row' = Printed(row, text)
  /\ exact' = (exact /\ Fits(prompt, buf'))
  /\ UNCHANGED <<erasing, printing>>

TypeChar(c) ==
  /\ Idle /\ Len(buf) < MAX_LINE
  /\ Typed(c)
  /\ UNCHANGED <<entries, history_cursor, names, executing, browsed, halted, prompt>>

\* A cell is erased for a character.
Backspace ==
  /\ Idle /\ buf # <<>>
  /\ buf' = Pop(buf) /\ row' = Erased(row, 1)
  /\ exact' = (exact /\ Len(Pop(buf)) = Len(buf) - 1)
  /\ UNCHANGED <<entries, history_cursor, names, erasing, printing, executing, browsed,
                 halted, prompt>>

\* Fault: a repeated line leaves the cursor where browsing has moved it.
push_KeepsCursor(cmd) ==
  LET kept == IF Len(entries) >= HISTORY_MAX THEN Tail(entries) ELSE entries
  IN  IF entries # <<>> /\ entries[Len(entries)] = cmd THEN UNCHANGED <<entries, history_cursor>>
      ELSE entries' = Append(kept, cmd) /\ history_cursor' = Len(entries')

\* CommandHistory::push: a line that repeats the last one is not kept twice.
push(cmd) ==
  LET kept == IF Len(entries) >= HISTORY_MAX THEN Tail(entries) ELSE entries
  IN  /\ entries' = IF entries # <<>> /\ entries[Len(entries)] = cmd THEN entries
                    ELSE Append(kept, cmd)
      /\ history_cursor' = Len(entries')

\* A new row is begun, and on it the prompt and the line are printed.
Redrawn(text) == printing' = text /\ exact' = (Len(text) <= BUFFER_WIDTH)

\* One of blanks is not executed, and leaves the cursor where it was.
Enter ==
  /\ Idle
  /\ buf' = <<>> /\ row' = <<>>
  /\ IF trim(buf) = <<>>
     THEN /\ Redrawn(prompt)
          /\ UNCHANGED <<entries, history_cursor, executing, browsed>>
     ELSE /\ push(trim(buf))
          /\ executing' = TRUE /\ browsed' = FALSE
          /\ printing' = <<>> /\ exact' = TRUE
  /\ UNCHANGED <<names, erasing, halted, prompt>>

\* The command is done; what it has printed, if anything, ends with a newline.
execute_line ==
  /\ executing /\ executing' = FALSE
  /\ names' \in NameSets /\ prompt' \in Prompts
  /\ \/ row' = <<>> /\ Redrawn(prompt')
     \/ /\ row' = row /\ printing' = prompt'
        /\ exact' = (exact /\ Len(prompt') <= BUFFER_WIDTH)
  /\ UNCHANGED <<buf, entries, history_cursor, erasing, browsed, halted>>

(***************************************************************************)
(* Completion                                                              *)
(***************************************************************************)
word_start == SelectLastInSeq(buf, LAMBDA b : b = Blank)
partial == SubSeq(buf, word_start + 1, Len(buf))

\* tab_complete: a first word is a command, any other the name of a file.
Completions ==
  {c \in (IF word_start = 0 THEN Commands ELSE names) : IsPrefix(partial, c)}

\* The bytes that all of S begin with.
common_prefix(S) ==
  LET one == CHOOSE s \in S : TRUE
      n   == Max({k \in 0..Len(one) : \A s \in S : IsPrefix(SubSeq(one, 1, k), s)})
  IN  SubSeq(one, 1, n)

\* The prefix of several is cut out of one of them, and a string is never cut
\* inside a character. When it adds nothing they are listed on rows of their own.
Tab ==
  LET prefix == common_prefix(Completions)
      suffix == Rightmost(prefix, Len(prefix) - Len(partial))
      safe   == \A c \in Completions : IsBoundary(c, Len(prefix))
  IN  /\ Idle /\ Completions # {}
      /\ IF ~safe THEN Panic /\ UNCHANGED <<buf, row, printing, erasing, exact>>
         ELSE /\ UNCHANGED halted
              /\ IF suffix # <<>> \/ Cardinality(Completions) = 1
                 THEN Typed(suffix)
                 ELSE row' = <<>> /\ Redrawn(prompt \o buf) /\ UNCHANGED <<buf, erasing>>
      /\ UNCHANGED <<entries, history_cursor, names, executing, browsed, prompt>>

(***************************************************************************)
(* History                                                                 *)
(***************************************************************************)
\* The line shown is to be erased, a cell for every byte, and entry to be printed.
Recalled(entry) ==
  /\ buf' = entry /\ erasing' = Len(buf) /\ printing' = entry
  /\ exact' = (exact /\ Fits(prompt, entry))
  /\ UNCHANGED row

ArrowUp ==
  LET cursor == IF history_cursor > 0 THEN history_cursor - 1 ELSE 0
  IN  /\ Idle /\ entries # <<>>
      /\ history_cursor' = cursor
      /\ IF cursor < Len(entries)
         THEN Recalled(entries[cursor + 1]) /\ UNCHANGED halted
         ELSE Panic /\ UNCHANGED <<buf, row, erasing, printing, exact>>
      /\ browsed' = TRUE
      /\ UNCHANGED <<entries, names, executing, prompt>>

\* Fault: the cursor moves past the end.
down_Unbounded == history_cursor + 1

down == IF history_cursor >= Len(entries) THEN history_cursor ELSE history_cursor + 1

\* Fault: the line is left on the screen.
ArrowDown_NoClear ==
  /\ Idle
  /\ history_cursor' = down
  /\ buf' = (IF down < Len(entries) THEN entries[down + 1] ELSE <<>>)
  /\ printing' = buf' /\ exact' = (exact /\ Fits(prompt, buf'))
  /\ browsed' = TRUE
  /\ UNCHANGED <<entries, names, row, erasing, executing, halted, prompt>>

\* Behind the last entry the line becomes empty, whatever was typed.
ArrowDown ==
  /\ Idle
  /\ history_cursor' = down
  /\ Recalled(IF down < Len(entries) THEN entries[down + 1] ELSE <<>>)
  /\ browsed' = TRUE
  /\ UNCHANGED <<entries, names, executing, halted, prompt>>

(***************************************************************************)
(* The row, of the console and of programs                                 *)
(***************************************************************************)
\* One turn of clear_input.
EraseCell ==
  /\ erasing > 0
  /\ erasing' = erasing - 1 /\ row' = Erased(row, 1)
  /\ UNCHANGED <<buf, entries, history_cursor, names, printing, executing, exact, browsed,
                 halted, prompt>>

\* The next print! of print_prompt, or the one of the line.  Which of them prints
\* how much is left open.
PrintNext ==
  /\ erasing = 0
  /\ \E k \in 1..Len(printing) :
       /\ row' = Printed(row, SubSeq(printing, 1, k))
       /\ printing' = SubSeq(printing, k + 1, Len(printing))
  /\ UNCHANGED <<buf, entries, history_cursor, names, erasing, executing, exact, browsed,
                 halted, prompt>>

\* A program prints, behind whatever the row shows.
sys_write(text, newline) ==
  /\ row' = Printed(IF newline THEN <<>> ELSE row, text)
  /\ exact' = FALSE
  /\ UNCHANGED <<buf, entries, history_cursor, names, erasing, printing, executing, browsed,
                 halted, prompt>>

ConsoleNext ==
  \/ \E c \in Chars : TypeChar(c)
  \/ Backspace \/ Enter \/ execute_line \/ Tab \/ ArrowUp \/ ArrowDown
  \/ EraseCell \/ PrintNext
  \/ \E text \in Written, newline \in BOOLEAN : sys_write(text, newline)

(***************************************************************************)
(* Properties                                                              *)
(***************************************************************************)
\* The screen's row and the history keep to their sizes, and the cursor is an
\* entry or the place behind the last one.
ConsoleTypeOK ==
  /\ Len(row) <= BUFFER_WIDTH
  /\ Len(entries) <= HISTORY_MAX
  /\ history_cursor \in 0..Len(entries)
  /\ \A i \in 1..(Len(entries) - 1) : entries[i] # entries[i + 1]

\* The first arrow up after a line was executed shows that line, also when it was
\* a repeated one and the history had been browsed before.
FirstUpRecallsLast ==
  [][ArrowUp /\ ~browsed /\ ~halted' => buf' = entries[Len(entries)]]_cvars
===============================================================================

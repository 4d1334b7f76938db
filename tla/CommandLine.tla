------------------------------ MODULE CommandLine ------------------------------
(***************************************************************************)
(* A line given to the shell: its variables replaced, its redirections     *)
(* found, and its commands run one after the other, each on the output of  *)
(* the one before.  The terminal window (execute_command) and the text     *)
(* console (shell::execute_line) do this with a parser of their own each;  *)
(* a machine has one of the two.  A line is a sequence of words, operators *)
(* among them; a file name is one too, as a redirection may take several.  *)
(* Messages are all one word; options and load are left out.               *)
(***************************************************************************)
EXTENDS Shell, Ordering, SequencesExt

CONSTANTS Words, Collation,
          Vars,          \* the words $NAME, each with its NAME
          BootEnv,       \* the variables a machine starts with
          Lines,         \* the lines that are given
          Message,
          DEFAULT_LINES, \* of head and tail
          MaxPaths, MaxWords   \* bounds: no line is given in a larger file system

ASSUME CommandLineAssumption ==
  /\ Lines \subseteq Seq(Words)
  /\ {Newline, Message} \subseteq Words /\ Vars \in [DOMAIN Vars -> Words]
  /\ \A v \in DOMAIN BootEnv : BootEnv[v] \in Seq(Words)
  /\ \A p \in DOMAIN BootFs : p \in Seq(Seq(Words))
  /\ MaxPaths \in Nat /\ MaxWords \in Nat /\ DEFAULT_LINES \in Nat

Text == INSTANCE Text

VARIABLES
  env,     \* ENV_VARS: what each variable stands for
  front,   \* which of the two loops the machine runs
  job      \* the line being executed: what is left of it; history: the line
           \* itself and the file system it found

lvars == <<fs, cwd, env, front, job>>

Idle == [on |-> FALSE]

LineInit ==
  /\ ShellInit
  /\ env = BootEnv
  /\ front \in {"gui", "text"}
  /\ job = Idle

(***************************************************************************)
(* Parsing                                                                 *)
(***************************************************************************)
expand_env_vars(line) ==
  FlattenSeq([i \in DOMAIN line |->
    IF line[i] \notin DOMAIN Vars THEN <<line[i]>>
    ELSE IF Vars[line[i]] \in DOMAIN env THEN env[Vars[line[i]]] ELSE <<>>])

LastOf(line, words) == Max({0} \cup {i \in DOMAIN line : line[i] \in words})
Before(line, i) == SubSeq(line, 1, i - 1)
After(line, i) == SubSeq(line, i + 1, Len(line))
Has(line, words) == \E i \in DOMAIN line : line[i] \in words

\* Fault: the input stays in the pipeline, an argument of its last command.
Parsed_KeepsInput(line, out, rest, in) ==
  [pipeline |-> rest,
   input    |-> IF in = 0 THEN <<>> ELSE After(rest, in),
   mode     |-> IF out = 0 THEN "print" ELSE line[out],
   name     |-> IF out = 0 THEN <<>> ELSE After(line, out)]

\* The line is parsed up to rest, with a redirection at out and an input at in,
\* where 0 is none.
Parsed(line, out, rest, in) ==
  [pipeline |-> IF in = 0 THEN rest ELSE Before(rest, in),
   input    |-> IF in = 0 THEN <<>> ELSE After(rest, in),
   mode     |-> IF out = 0 THEN "print" ELSE line[out],
   name     |-> IF out = 0 THEN <<>> ELSE After(line, out)]

IsTarget(name) == name # <<>> /\ ~Has(name, {"|"})

\* TerminalWidget::parse_redirections: with a >> in the line no > is looked for.
parse_gui(line) ==
  LET last == LastOf(line, IF Has(line, {">>"}) THEN {">>"} ELSE {">"})
      out  == IF last # 0 /\ IsTarget(After(line, last)) THEN last ELSE 0
      rest == IF out = 0 THEN line ELSE Before(line, out)
      in   == LastOf(rest, {"<"})
  IN  Parsed(line, out, rest, IF After(rest, in) = <<>> THEN 0 ELSE in)

\* shell::parse_redirections: a > counts when >> does not; an input that is the
\* only redirection has to be a name without operators.
parse_text(line) ==
  LET append == LastOf(line, {">>"})
      last   == IF append # 0 /\ IsTarget(After(line, append)) THEN append
                ELSE LastOf(line, {">", ">>"})
      out    == IF last # 0 /\ IsTarget(After(line, last)) THEN last ELSE 0
      rest   == IF out = 0 THEN line ELSE Before(line, out)
      in     == LastOf(rest, {"<"})
      name   == After(rest, in)
  IN  Parsed(line, out, rest,
             IF name = <<>> \/ (out = 0 /\ Has(name, {"|", ">", ">>"})) THEN 0 ELSE in)

Parse(line) == IF front = "gui" THEN parse_gui(line) ELSE parse_text(line)

Stages(pipeline) ==
  LET parts == Split(pipeline, "|") IN Retained(parts, {k \in DOMAIN parts : parts[k] # <<>>})

InBounds ==
  /\ Cardinality(DOMAIN fs) <= MaxPaths
  /\ MapThenSumSet(LAMBDA p : Len(fs[p].data), {p \in DOMAIN fs : fs[p] # Dir}) <= MaxWords

\* execute_command and execute_line, up to the first command. When the input
\* cannot be read that is all.
execute_line(t, typed) ==
  LET p == Parse(expand_env_vars(typed))
  IN  /\ ~job.on
      /\ InBounds
      /\ p.input # <<>> => readable(fs, cwd[t], p.input)
      /\ job' = [on |-> TRUE, t |-> t, stages |-> Stages(p.pipeline),
                 pipe |-> IF p.input = <<>> THEN <<>>
                          ELSE <<fs[Append(cwd[t], p.input)].data>>,
                 mode |-> p.mode, name |-> p.name, typed |-> typed, before |-> fs]
      /\ UNCHANGED <<fs, cwd, env, front>>

(***************************************************************************)
(* The commands.  One whose arguments are missing or that cannot be done   *)
(* answers with a message, and the next one reads that.                    *)
(***************************************************************************)
Cmd == Head(job.stages)[1]
Args == Tail(Head(job.stages))
Word(n) == IF n \in DOMAIN Args THEN <<Args[n]>> ELSE <<>>
Name == Word(1)
LastWord == Word(Len(Args))   \* parse_n_args: of several files the last
Rest == Tail(Args)
Here == cwd[job.t]

Outputs(text) == job' = [job EXCEPT !.stages = Tail(@), !.pipe = <<text>>]

OrMessage(text) == IF text = <<>> THEN <<Message>> ELSE text

\* Fault: a file that is named comes before what is in the pipe.
read_text_input_FileFirst(name) ==
  IF readable(fs, Here, name) THEN <<fs[Append(Here, name)].data>> ELSE job.pipe

\* What is in the pipe, or else in the file.
read_text_input(name) ==
  IF job.pipe # <<>> THEN job.pipe
  ELSE IF readable(fs, Here, name) THEN <<fs[Append(Here, name)].data>> ELSE <<>>

OfInput(filter(_), name) ==
  LET input == read_text_input(name)
  IN  IF input = <<>> THEN <<Message>> ELSE filter(input[1])

\* One line per element, in the order given.
Listed(S, Line(_), Order(_, _)) ==
  LET sorted == SetToSortSeq(S, Order)
  IN  Text!trim_trailing_newline([i \in DOMAIN sorted |-> Line(sorted[i])])

cmd_echo == Args
cmd_cat == IF readable(fs, Here, Name) THEN fs[Append(Here, Name)].data ELSE <<Message>>
cmd_ls == OrMessage(IF get_dir(fs, Here)
                    THEN Listed(Children(fs, Here), LAMBDA n : n, Text!AtOrBefore) ELSE <<>>)
cmd_pwd == IF Here = <<>> THEN <<"/">> ELSE FlattenSeq([i \in DOMAIN Here |-> <<"/">> \o Here[i]])
cmd_env == Listed(DOMAIN env, LAMBDA v : <<v, "=">> \o env[v], LAMBDA v, w : Collation[v] < Collation[w])
cmd_grep == OfInput(LAMBDA text : OrMessage(Text!grep(Args[1], text)), Word(2))
cmd_head == OfInput(LAMBDA text : Text!head(DEFAULT_LINES, text), LastWord)
cmd_tail == OfInput(LAMBDA text : Text!tail(DEFAULT_LINES, text), LastWord)
cmd_sort == OfInput(Text!sort, Name)
cmd_uniq == IF job.pipe = <<>> THEN <<Message>> ELSE Text!uniq(job.pipe[1])

Answer ==
  CASE Cmd = "echo" -> cmd_echo
    [] Cmd = "cat"  -> cmd_cat
    [] Cmd = "ls"   -> cmd_ls
    [] Cmd = "pwd"  -> cmd_pwd
    [] Cmd = "env"  -> cmd_env
    [] Cmd = "grep" /\ Args # <<>> -> cmd_grep
    [] Cmd = "head" -> cmd_head
    [] Cmd = "tail" -> cmd_tail
    [] Cmd = "sort" -> cmd_sort
    [] Cmd = "uniq" -> cmd_uniq
    [] Cmd = "clear" -> <<>>
    [] OTHER -> <<Message>>

TreeCommands == {"touch", "mkdir", "rm", "write", "cp", "mv", "cd", "export"}

run_reader ==
  /\ Cmd \notin TreeCommands
  /\ Outputs(Answer)
  /\ UNCHANGED <<fs, cwd, env>>

run_on_name ==
  /\ Args # <<>>
  /\ \/ Cmd = "touch" /\ cmd_touch(job.t, Name)
     \/ Cmd = "mkdir" /\ cmd_mkdir(job.t, Name)
     \/ Cmd = "rm" /\ cmd_rm(job.t, Name)
  /\ Outputs(<<Message>>)
  /\ UNCHANGED env

\* The second of two names is all that is behind the first.
run_on_two ==
  /\ Len(Args) > 1
  /\ \/ Cmd = "write" /\ cmd_write(job.t, Name, Rest) /\ Outputs(<<Message>>)
     \/ Cmd = "cp" /\ cmd_cp(job.t, Name, Rest) /\ Outputs(<<Message>>)
     \/ Cmd = "mv" /\ cmd_mv(job.t, Name, Rest) /\ Outputs(<<Message>>)
     \/ Cmd = "mv" /\ Name = Rest /\ UNCHANGED <<fs, cwd>> /\ Outputs(<<>>)
     \/ /\ Cmd = "cp" \/ (Cmd = "mv" /\ Name # Rest)
        /\ ~readable(fs, Here, Name)
        /\ UNCHANGED <<fs, cwd>>
        /\ Outputs(<<Message>>)
  /\ UNCHANGED env

run_without_arguments ==
  /\ Cmd \in TreeCommands \ {"cd"}
  /\ Len(Args) < IF Cmd \in {"write", "cp", "mv"} THEN 2 ELSE 1
  /\ Outputs(<<Message>>)
  /\ UNCHANGED <<fs, cwd, env>>

\* cd answers nothing, whether it moves or not.
run_cd ==
  /\ Cmd = "cd"
  /\ IF Args = <<>> \/ Name = <<"/">> THEN cd_root(job.t)
     ELSE IF Name = <<"..">> THEN cd_up(job.t)
     ELSE IF Name # <<".">> /\ is_dir(fs, Here, Name) THEN cd(job.t, Name)
     ELSE UNCHANGED <<fs, cwd>>
  /\ Outputs(<<>>)
  /\ UNCHANGED env

\* A value is as many words as there are; without a value the variable is shown.
cmd_export ==
  /\ Cmd = "export" /\ Args # <<>>
  /\ IF Len(Args) > 1 /\ Args[2] = "="
     THEN env' = [v \in DOMAIN env \cup {Args[1]} |->
                    IF v = Args[1] THEN Tail(Rest) ELSE env[v]] /\ Outputs(Args)
     ELSE /\ UNCHANGED env
          /\ Outputs(IF Len(Args) = 1 /\ Args[1] \in DOMAIN env
                     THEN <<Args[1], "=">> \o env[Args[1]] ELSE <<Message>>)
  /\ UNCHANGED <<fs, cwd>>

run_command ==
  /\ job.on /\ job.stages # <<>>
  /\ \/ run_reader \/ run_on_name \/ run_on_two \/ run_without_arguments
     \/ run_cd \/ cmd_export
  /\ UNCHANGED front

\* The output of the last command, if there was one, is printed or written: in
\* the directory the commands have left.
handle_output ==
  /\ job.on /\ job.stages = <<>>
  /\ CASE job.mode = "print" \/ job.pipe = <<>> -> UNCHANGED <<fs, cwd>>
       [] job.mode = ">"  /\ job.pipe # <<>> -> cmd_write(job.t, job.name, job.pipe[1])
       [] job.mode = ">>" /\ job.pipe # <<>> -> AppendTo(job.t, job.name, job.pipe[1])
  /\ job' = Idle
  /\ UNCHANGED <<env, front>>

\* Everything is in memory and starts anew with the machine.
restart ==
  /\ ~job.on
  /\ fs' = BootFs /\ cwd' = [t \in Terminals |-> <<>>]
  /\ env' = BootEnv
  /\ front' \in {"gui", "text"}
  /\ UNCHANGED job

LineNext ==
  \/ \E t \in Terminals, typed \in Lines : execute_line(t, typed)
  \/ run_command
  \/ handle_output
  \/ restart

LineSpec == LineInit /\ [][LineNext]_lvars

(***************************************************************************)
(* Properties                                                              *)
(***************************************************************************)
\* The file system stays a tree whatever lines are given, working directories
\* are paths, and of the line in progress every command that is left has a name.
LineTypeOK ==
  /\ IsTree(fs)
  /\ \A p \in DOMAIN fs : p \in Seq(Seq(Words))
  /\ cwd \in [Terminals -> Seq(Seq(Words))]
  /\ \A v \in DOMAIN env : env[v] \in Seq(Words)
  /\ job.on \in BOOLEAN
  /\ job.on => /\ job.t \in Terminals
               /\ job.stages \in Seq(Seq(Words) \ {<<>>})
               /\ job.mode \in {"print", ">", ">>"}
               /\ job.name \in Seq(Words)

Operators == {"|", "<", ">", ">>"}

\* The place of the first redirection, or behind the line.
Redirections(line) == {i \in DOMAIN line : line[i] \in Operators \ {"|"}}
FirstOf(line) == CHOOSE i \in Redirections(line) \cup {Len(line) + 1} :
                   \A j \in Redirections(line) : i <= j

\* Commands, then at most one input, then at most one output, of one word each.
WellFormed(line) ==
  LET from == FirstOf(line)
      Is(i, words) == i \in DOMAIN line /\ line[i] \in words
      one == IF Is(from, {"<"}) THEN from + 2 ELSE from
  IN  /\ one = Len(line) + 1 \/ (Is(one, {">", ">>"}) /\ one = Len(line) - 1)
      /\ \A i \in {1, from - 1} \cup (from + 1)..Len(line) : ~Is(i, {"|"})
      /\ \A i \in 1..(Len(line) - 1) : Is(i, Operators) => ~Is(i + 1, Operators)

\* The help text: "cmd1 | cmd2   Redirect: cmd > plik, >> plik, < plik". When the
\* commands come first, then the input, then the output, both parsers take each
\* for what it is, and the commands are those between the pipes.
WellFormedIsUnderstood ==
  [][(~job.on /\ job'.on) =>
       LET line == expand_env_vars(job'.typed)
           from == FirstOf(line)
           to   == LastOf(line, {">", ">>"})
       IN  WellFormed(line) =>
             /\ Before(line, from) =
                  FlattenSeq([k \in DOMAIN job'.stages |->
                    IF k = 1 THEN job'.stages[k] ELSE <<"|">> \o job'.stages[k]])
             /\ job'.pipe = IF Has(line, {"<"})
                            THEN <<fs[Append(cwd[job'.t], <<line[from + 1]>>)].data>> ELSE <<>>
             /\ job'.mode = IF to = 0 THEN "print" ELSE line[to]
             /\ to # 0 => job'.name = <<line[to + 1]>>]_lvars

\* A file may be read and written by one line: "sort f | uniq > f" leaves each of
\* its lines once, in order, and no others. (A file of blank lines only becomes
\* an empty one.)
SortUniqInPlace ==
  [][\A f \in Words :
       (/\ job.on /\ ~job'.on
        /\ job.typed = <<"sort", f, "|", "uniq", ">", f>>
        /\ readable(job.before, Here, <<f>>)) =>
          LET old == Text!lines(job.before[Append(Here, <<f>>)].data)
              new == Text!lines(fs'[Append(Here, <<f>>)].data)
          IN  /\ ToSet(new) = ToSet(old) \/ ToSet(old) = {<<>>}
              /\ \A i, j \in DOMAIN new :
                    i < j => Text!AtOrBefore(new[i], new[j]) /\ new[i] # new[j]]_lvars

\* A line loses no line of any file unless it says so: by rm, by replacing a file
\* with write, cp, > or mv. What >> and mv write comes to what is there or takes
\* its place, also when a file is moved to itself or appended to itself.
LinesSurvive ==
  [][(job.on /\ ~job'.on /\ job.mode # ">" /\ ~Has(job.typed, {"rm", "write", "cp"})) =>
       LET mv == Len(job.typed) = 3 /\ job.typed[1] = "mv" /\ job.typed[2] # job.typed[3]
       IN  \A p \in DOMAIN job.before :
             (job.before[p] # Dir /\ ~(mv /\ p = Append(Here, <<job.typed[3]>>))) =>
               \A l \in ToSet(Text!lines(job.before[p].data)) :
                 \E q \in DOMAIN fs' : fs'[q] # Dir /\ l \in ToSet(Text!lines(fs'[q].data))]_lvars
===============================================================================

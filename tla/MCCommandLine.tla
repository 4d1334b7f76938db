----------------------------- MODULE MCCommandLine -----------------------------
(***************************************************************************)
(* CommandLine with one terminal, a file a and a directory d.  The lines   *)
(* are single commands, some with every redirection, the help's and others,*)
(* and pipelines of a source and a filter that write to a.                 *)
(***************************************************************************)
EXTENDS CommandLine

MCNewline == "\n"
MCVars == [w \in {"$V"} |-> "V"]
MCBootEnv == [v \in {"V"} |-> <<"/">>]
MCMessage == "message"
Ordered == <<"\n", "$V", "/", "<", "=", ">", ">>", "|", "..", "a", "b", "d", "message",
             "v", "w", "V", "cat", "cd", "clear", "cp", "echo", "env", "export", "grep", "head",
             "ls", "mkdir", "mv", "pwd", "rm", "sort", "tail", "touch", "uniq", "write", "wc">>
MCWords == ToSet(Ordered)
MCCollation == [w \in MCWords |-> CHOOSE i \in DOMAIN Ordered : Ordered[i] = w]
MCBootFs ==
  [p \in {<<>>, <<<<"a">>>>, <<<<"d">>>>} |->
     IF p = <<<<"a">>>> THEN File(<<"w", "\n", "v", "\n", "w">>) ELSE Dir]

Plain == {<<"ls">>, <<"grep", "w", "a">>, <<"tail">>, <<"clear">>, <<"wc">>, <<"cat", "b">>,
          <<"env">>, <<"pwd">>, <<"echo", "$V", "b">>, <<"touch">>, <<"touch", "a">>,
          <<"mkdir", "d">>, <<"rm", "a">>, <<"rm", "d">>, <<"write", "a", "v">>,
          <<"cp", "a", "b">>, <<"mv", "a", "b">>, <<"mv", "a", "a">>,
          <<"cd", "d">>, <<"cd", "d", ">", "b">>, <<"cd", "..">>, <<"cd">>, <<"cd", "$V">>,
          <<"export", "V", "=", ">">>, <<"export", "V">>, <<"export", "$V">>}
Written == {<<>>, <<">", "b">>, <<">>", "a">>, <<">>", "b", "|", "sort", ">", "a">>}
Read == {<<"<", "a">>, <<"<", "a", ">>", "a">>, <<">", "b", "<", "a">>, <<"<", "a", "|", "sort">>}
Sources == {<<"cat", "a">>, <<"sort", "a">>, <<"cd", "d">>}
Filters == {<<"uniq">>, <<"grep", "w">>}
MCLines ==
  Plain
  \cup {<<"echo", "v">> \o r : r \in Written} \cup {<<"head">> \o r : r \in Read}
  \cup {s \o <<"|">> \o f \o r : s \in Sources, f \in Filters, r \in {<<>>, <<">", "a">>}}

MCLinesDefault == 1
MCMaxPaths == 4
MCMaxWords == 5
===============================================================================

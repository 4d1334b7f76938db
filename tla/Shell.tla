-------------------------------- MODULE Shell --------------------------------
(***************************************************************************)
(* The commands of shell/commands.rs that change the file system or a      *)
(* working directory, given in several terminal windows.  All of them run  *)
(* in the kernel task, one whole command at a time; programs only read.    *)
(* Options, messages and the text commands are left out.                   *)
(***************************************************************************)
EXTENDS RamFs

CONSTANTS Terminals,
          BootFs,       \* what fs::init writes
          Newline

ASSUME ShellAssumption == IsTree(BootFs)

VARIABLES
  fs,      \* FS
  cwd      \* the cwd of each terminal: a path, whether or not it leads somewhere

Becomes(tree) == fs' = tree /\ UNCHANGED cwd

ShellInit == fs = BootFs /\ cwd = [t \in Terminals |-> <<>>]

cmd_touch(t, name) == Becomes(create(fs, cwd[t], name))

cmd_mkdir(t, name) == Becomes(mkdir(fs, cwd[t], name))

\* The command, and the redirection of any other with >.
cmd_write(t, name, data) == Becomes(write(fs, cwd[t], name, data))

cmd_rm(t, name) == Becomes(remove(fs, cwd[t], name))

cmd_cp(t, src, dst) ==
  /\ readable(fs, cwd[t], src)
  /\ Becomes(write(fs, cwd[t], dst, fs[Append(cwd[t], src)].data))

\* Fault: the names are not compared.
cmd_mv_ToItself(t, src, dst) ==
  /\ readable(fs, cwd[t], src)
  /\ Becomes(IF can_write(fs, cwd[t], dst)
             THEN remove(write(fs, cwd[t], dst, fs[Append(cwd[t], src)].data), cwd[t], src)
             ELSE fs)

\* The copy is written, then the source removed; nothing when the copy fails.
cmd_mv(t, src, dst) ==
  /\ src # dst
  /\ readable(fs, cwd[t], src)
  /\ Becomes(IF can_write(fs, cwd[t], dst)
             THEN remove(write(fs, cwd[t], dst, fs[Append(cwd[t], src)].data), cwd[t], src)
             ELSE fs)

\* Redirection with >>: on a line of its own behind what the file holds.
AppendTo(t, name, data) ==
  LET old == IF readable(fs, cwd[t], name) THEN fs[Append(cwd[t], name)].data ELSE <<>>
      sep == IF old # <<>> /\ old[Len(old)] # Newline THEN <<Newline>> ELSE <<>>
  IN  Becomes(write(fs, cwd[t], name, old \o sep \o data))

Moves(t, path) == cwd' = [cwd EXCEPT ![t] = path] /\ UNCHANGED fs

\* Fault: cd believes any name that exists.
cd_AnyEntry(t, name) ==
  /\ exists(fs, cwd[t], name)
  /\ Moves(t, Append(cwd[t], name))

cd(t, name) ==
  /\ is_dir(fs, cwd[t], name)
  /\ Moves(t, Append(cwd[t], name))

cd_up(t) == Moves(t, IF cwd[t] = <<>> THEN <<>> ELSE Parent(cwd[t]))

\* cd / and cd alone; a terminal window that is opened starts there too.
cd_root(t) == Moves(t, <<>>)
=============================================================================

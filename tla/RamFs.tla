-------------------------------- MODULE RamFs --------------------------------
(***************************************************************************)
(* The tree of files and directories of fs/ramfs.rs, kept as a function    *)
(* from the paths that exist to what is there.  The root is the empty path.*)
(***************************************************************************)
EXTENDS Naturals, Sequences, FiniteSets

Dir == [kind |-> "dir"]
File(data) == [kind |-> "file", data |-> data]

EmptyFs == [p \in {<<>>} |-> Dir]

Parent(p) == SubSeq(p, 1, Len(p) - 1)

\* What the program means by a tree: whatever is not the root is in a directory.
IsTree(fs) ==
  /\ <<>> \in DOMAIN fs
  /\ fs[<<>>] = Dir
  /\ \A p \in DOMAIN fs \ {<<>>} : Parent(p) \in DOMAIN fs /\ fs[Parent(p)] = Dir

\* get_dir: the path leads to a directory.
get_dir(fs, path) == path \in DOMAIN fs /\ fs[path] = Dir

exists(fs, path, name) == get_dir(fs, path) /\ Append(path, name) \in DOMAIN fs

is_dir(fs, path, name) == exists(fs, path, name) /\ fs[Append(path, name)] = Dir

readable(fs, path, name) == exists(fs, path, name) /\ fs[Append(path, name)] # Dir

Children(fs, path) == {p[Len(p)] : p \in {q \in DOMAIN fs \ {<<>>} : Parent(q) = path}}

Insert(fs, p, entry) ==
  [q \in DOMAIN fs \cup {p} |-> IF q = p THEN entry ELSE fs[q]]

Without(fs, p) == [q \in DOMAIN fs \ {p} |-> fs[q]]

\* Each operation: whether it succeeds, and the tree it leaves.
can_create(fs, path, name) == get_dir(fs, path) /\ ~exists(fs, path, name)

create(fs, path, name) ==
  IF can_create(fs, path, name) THEN Insert(fs, Append(path, name), File(<<>>)) ELSE fs

mkdir(fs, path, name) ==
  IF can_create(fs, path, name) THEN Insert(fs, Append(path, name), Dir) ELSE fs

can_write(fs, path, name) == get_dir(fs, path) /\ ~is_dir(fs, path, name)

write(fs, path, name, data) ==
  IF can_write(fs, path, name) THEN Insert(fs, Append(path, name), File(data)) ELSE fs

\* Fault: the contents of a directory are not looked at.
can_remove_AnyDir(fs, path, name) == exists(fs, path, name)

can_remove(fs, path, name) ==
  /\ exists(fs, path, name)
  /\ is_dir(fs, path, name) => Children(fs, Append(path, name)) = {}

remove(fs, path, name) ==
  IF can_remove(fs, path, name) THEN Without(fs, Append(path, name)) ELSE fs
=============================================================================

-------------------------------- MODULE Image --------------------------------
(***************************************************************************)
(* RamFs::serialize and RamFs::load_from: the tree as a sequence of units. *)
(* A count, a type, a name, a length is one unit; so is an element of a    *)
(* file's data.  Units are numbers, and a reader that is out of place      *)
(* takes one for the other, as it would bytes.  A heap of 512 KiB is full  *)
(* long before a directory has the 65536 entries at which a count of two   *)
(* bytes, or a file the 4 GiB at which a length of four, would wrap.       *)
(***************************************************************************)
EXTENDS RamFs, Ordering, SequencesExt

CONSTANTS Names,
          Cut    \* Cut[n]: the first 255 bytes of the name n

\* Names are numbers in the order of the strings. A number that is no name
\* stands for bytes that are no string, as a cut inside a character leaves them.
ASSUME ImageAssumption == Names \subseteq Nat \ {0} /\ Cut \in [Names -> Nat]

\* No name of the tree is cut inside a character.
Readable(fs) == \A p \in DOMAIN fs : \A i \in DOMAIN p : Cut[p[i]] \in Names

\* An entry of dir, whose own image is below if it is a directory.
Entry(fs, dir, n, below) ==
  LET e == fs[Append(dir, n)]
  IN  IF e = Dir THEN <<1, Cut[n]>> \o below ELSE <<0, Cut[n], Len(e.data)>> \o e.data

\* The entries of a BTreeMap come in the order of their names.
serialize(fs) ==
  LET serialize_dir[dir \in DOMAIN fs] ==
        LET names == Sorted(Children(fs, dir))
        IN  <<Len(names)>> \o FlattenSeq([i \in DOMAIN names |->
              Entry(fs, dir, names[i], serialize_dir[Append(dir, names[i])])])
  IN  serialize_dir[<<>>]

(***************************************************************************)
(* The reader: the units not yet read, the entries found so far as a tree, *)
(* the directory it is in, and for this one and those around it, from the  *)
(* inside out, how many entries are still to come: the calls of            *)
(* deserialize_dir that have not returned.                                 *)
(***************************************************************************)
Reading(rest, tree, dir, left) ==
  [ok |-> TRUE, rest |-> rest, tree |-> tree, dir |-> dir, left |-> left]

Corrupt == [ok |-> FALSE]

Below(p, q) == Len(q) > Len(p) /\ SubSeq(q, 1, Len(p)) = p

\* An entry of a name that was there before takes its place and that of all below it.
Replaced(tree, p, entry) ==
  Insert([q \in {x \in DOMAIN tree : ~Below(p, x)} |-> tree[q]], p, entry)

\* deserialize_dir, up to its loop.
deserialize_dir(rest, tree, dir, left) ==
  IF rest = <<>> THEN Corrupt
  ELSE Reading(Tail(rest), tree, dir, <<rest[1]>> \o left)

\* Fault: a name that is no string is taken as it is.
deserialize_entry_AnyName(r) ==
  LET path == Append(r.dir, r.rest[2])
      left == <<r.left[1] - 1>> \o Tail(r.left)
      body == SubSeq(r.rest, 3, Len(r.rest))
  IN  IF Len(r.rest) < 2 \/ r.rest[1] \notin {0, 1} THEN Corrupt
      ELSE IF r.rest[1] = 1
           THEN deserialize_dir(body, Replaced(r.tree, path, Dir), path, left)
      ELSE IF body = <<>> \/ Len(body) - 1 < body[1] THEN Corrupt
      ELSE Reading(SubSeq(body, body[1] + 2, Len(body)),
                   Replaced(r.tree, path, File(SubSeq(body, 2, body[1] + 1))), r.dir, left)

\* The loop for one entry; before the next, deserialize_dir of one that is a directory.
deserialize_entry(r) ==
  LET path == Append(r.dir, r.rest[2])
      left == <<r.left[1] - 1>> \o Tail(r.left)
      body == SubSeq(r.rest, 3, Len(r.rest))
  IN  IF Len(r.rest) < 2 \/ r.rest[1] \notin {0, 1} \/ r.rest[2] \notin Names THEN Corrupt
      ELSE IF r.rest[1] = 1
           THEN deserialize_dir(body, Replaced(r.tree, path, Dir), path, left)
      ELSE IF body = <<>> THEN Corrupt
      ELSE IF Len(body) - 1 < body[1] THEN Corrupt
      ELSE Reading(SubSeq(body, body[1] + 2, Len(body)),
                   Replaced(r.tree, path, File(SubSeq(body, 2, body[1] + 1))), r.dir, left)

\* What the reader does next: nothing when all has been read or something was corrupt.
Round(r) ==
  IF ~r.ok THEN r
  ELSE IF r.left = <<>> THEN r
  ELSE IF r.left[1] = 0 THEN Reading(r.rest, r.tree, Parent(r.dir), Tail(r.left))
  ELSE deserialize_entry(r)

\* What is left behind the last entry is not looked at. There are no more rounds
\* than units, as each round but those that leave a directory reads two.
load_from(units, rounds) ==
  LET reader[n \in 0..rounds] ==
        IF n = 0 THEN deserialize_dir(units, EmptyFs, <<>>, <<>>) ELSE Round(reader[n - 1])
  IN  reader[rounds]
=============================================================================

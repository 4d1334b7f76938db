---------------------------- MODULE ShellProofs -----------------------------
(***************************************************************************)
(* Proofs about the files and the command line.  Every operation of RamFs  *)
(* leaves a tree, and so do the commands of Shell and load, whatever is on *)
(* the disk; what save wrote, load gives back; a line runs in trees, and a *)
(* well-formed one as the commands it means.                               *)
(***************************************************************************)
EXTENDS Storage, CommandLine, Facts

(***************************************************************************)
(* Paths                                                                   *)
(***************************************************************************)
LEMMA EntryPath ==
  ASSUME NEW S, NEW path \in Seq(S), NEW name \in S
  PROVE  /\ Append(path, name) \in Seq(S)
         /\ Append(path, name) # <<>>
         /\ Append(path, name) # path
         /\ Len(Append(path, name)) = Len(path) + 1
         /\ Parent(Append(path, name)) = path
<1>1. Append(path, name) \in Seq(S) /\ Len(Append(path, name)) = Len(path) + 1
  BY AppendProperties
<1>2. SubSeq(Append(path, name), 1, Len(path)) = path
  OBVIOUS
<1>3. Len(path) \in Nat
  OBVIOUS
<1>4. Len(Append(path, name)) - 1 = Len(path)
  BY <1>1, <1>3
<1>5. Parent(Append(path, name)) = path
  BY <1>2, <1>4, Zenon DEF Parent
<1>6. Append(path, name) # <<>> /\ Append(path, name) # path
  BY <1>1, <1>3
<1> QED BY <1>1, <1>5, <1>6

LEMMA ParentPath ==
  ASSUME NEW S, NEW p \in Seq(S)
  PROVE  /\ Parent(p) \in Seq(S)
         /\ p = <<>> => Parent(p) = <<>>
         /\ p # <<>> => /\ Len(Parent(p)) = Len(p) - 1
                        /\ p[Len(p)] \in S
                        /\ p = Append(Parent(p), p[Len(p)])
<1>1. CASE p = <<>>
  <2>1. SubSeq(p, 1, Len(p) - 1) = <<>>
    BY <1>1
  <2> QED BY <1>1, <2>1 DEF Parent
<1>2. CASE p # <<>>
  <2>1. Len(p) \in Nat \ {0}
    BY <1>2
  <2>2. Parent(p) \in Seq(S) /\ Len(Parent(p)) = Len(p) - 1
    <3> DEFINE n == Len(p) - 1
    <3>1. n \in Nat /\ n < Len(p)
      BY <2>1
    <3> HIDE DEF n
    <3>2. SubSeq(p, 1, n) \in Seq(S) /\ Len(SubSeq(p, 1, n)) = n
      BY <2>1, <3>1
    <3> QED BY <3>2 DEF Parent, n
  <2>3. p[Len(p)] \in S
    BY <2>1
  <2>4. \A i \in 1..(Len(p) - 1) : Parent(p)[i] = p[i]
    BY <2>1 DEF Parent
  <2>5. p = Append(Parent(p), p[Len(p)])
    BY <2>1, <2>2, <2>3, <2>4
  <2> QED BY <1>2, <2>2, <2>3, <2>5
<1> QED BY <1>1, <1>2

(***************************************************************************)
(* Trees                                                                   *)
(***************************************************************************)
\* Of paths whose elements are in N.
Tree(N, t) == IsTree(t) /\ DOMAIN t \subseteq Seq(N)

IsLeaf(t, p) == \A q \in DOMAIN t \ {<<>>} : Parent(q) # p

\* An entry put into a directory leaves a tree, if it is a directory or nothing
\* was below what it replaces.
LEMMA InsertIsTree ==
  ASSUME NEW N, NEW t, Tree(N, t), NEW path, NEW name \in N, NEW entry, get_dir(t, path),
         entry = Dir \/ IsLeaf(t, Append(path, name))
  PROVE  LET p == Append(path, name)
         IN  /\ Tree(N, Insert(t, p, entry))
             /\ \A q : get_dir(t, q) /\ (q # p \/ entry = Dir) => get_dir(Insert(t, p, entry), q)
<1> DEFINE p == Append(path, name)
           u == Insert(t, p, entry)
<1>1. path \in Seq(N) /\ path \in DOMAIN t /\ t[path] = Dir
  BY DEF Tree, get_dir
<1>2. p \in Seq(N) /\ p # <<>> /\ p # path /\ Parent(p) = path
  BY <1>1, EntryPath
<1> HIDE DEF p
<1>3. DOMAIN u = DOMAIN t \cup {p}
  BY DEF Insert
<1>4. u[p] = entry /\ \A q \in DOMAIN t : q # p => u[q] = t[q]
  BY DEF Insert
<1> HIDE DEF u
<1>5. <<>> \in DOMAIN u /\ u[<<>>] = Dir
  BY <1>2, <1>3, <1>4 DEF Tree, IsTree
<1>6. ASSUME NEW q \in DOMAIN u \ {<<>>}
      PROVE  Parent(q) \in DOMAIN u /\ u[Parent(q)] = Dir
  <2>1. CASE q = p
    BY <2>1, <1>1, <1>2, <1>3, <1>4
  <2>2. CASE q # p
    <3>1. q \in DOMAIN t /\ Parent(q) \in DOMAIN t /\ t[Parent(q)] = Dir
      BY <2>2, <1>3 DEF Tree, IsTree
    <3>2. CASE Parent(q) = p
      <4>1. entry = Dir
        BY <3>1, <3>2 DEF IsLeaf, p
      <4> QED BY <4>1, <3>2, <1>3, <1>4
    <3>3. CASE Parent(q) # p
      BY <3>1, <3>3, <1>3, <1>4
    <3> QED BY <3>2, <3>3
  <2> QED BY <2>1, <2>2
<1>7. Tree(N, u)
  BY <1>2, <1>3, <1>5, <1>6 DEF Tree, IsTree
<1>8. \A q : get_dir(t, q) /\ (q # p \/ entry = Dir) => get_dir(u, q)
  BY <1>3, <1>4 DEF get_dir
<1> QED BY <1>7, <1>8 DEF u, p

\* Nothing is below a file, or below what is not there.
LEMMA FilesAreLeaves ==
  ASSUME NEW N, NEW t, Tree(N, t), NEW p, ~get_dir(t, p)
  PROVE  IsLeaf(t, p)
BY DEF Tree, IsTree, IsLeaf, get_dir

LEMMA WithoutIsTree ==
  ASSUME NEW N, NEW t, Tree(N, t), NEW path, NEW name \in N, can_remove(t, path, name)
  PROVE  LET p == Append(path, name)
         IN  /\ Tree(N, Without(t, p))
             /\ \A q : get_dir(t, q) /\ q # p => get_dir(Without(t, p), q)
<1> DEFINE p == Append(path, name)
           u == Without(t, p)
<1>1. path \in Seq(N) /\ path \in DOMAIN t /\ p \in DOMAIN t
  BY DEF can_remove, exists, get_dir, Tree
<1>2. p \in Seq(N) /\ p # <<>>
  BY <1>1, EntryPath
<1>3. IsLeaf(t, p)
  <2>1. CASE get_dir(t, p)
    <3>1. Children(t, p) = {}
      BY <2>1 DEF can_remove, is_dir, get_dir
    <3> QED BY <3>1 DEF Children, IsLeaf
  <2>2. CASE ~get_dir(t, p)
    BY <2>2, FilesAreLeaves
  <2> QED BY <2>1, <2>2
<1> HIDE DEF p
<1>4. DOMAIN u = DOMAIN t \ {p} /\ \A q \in DOMAIN u : u[q] = t[q]
  BY DEF Without
<1> HIDE DEF u
<1>5. Tree(N, u)
  BY <1>2, <1>3, <1>4 DEF Tree, IsTree, IsLeaf
<1>6. \A q : get_dir(t, q) /\ q # p => get_dir(u, q)
  BY <1>4 DEF get_dir
<1> QED BY <1>5, <1>6 DEF u, p

(***************************************************************************)
(* The reader                                                              *)
(***************************************************************************)
LEMMA BelowParent ==
  ASSUME NEW p \in Seq(Names), NEW q \in Seq(Names), q # <<>>
  PROVE  /\ Below(p, Parent(q)) => Below(p, q)
         /\ Parent(q) = p => Below(p, q)
<1>1. Len(p) \in Nat /\ Len(q) \in Nat /\ Len(Parent(q)) = Len(q) - 1
  BY ParentPath
<1>2. Parent(q) \in Seq(Names) /\ q[Len(q)] \in Names /\ q = Append(Parent(q), q[Len(q)])
  BY ParentPath
<1>3. ASSUME NEW n \in Nat, n <= Len(Parent(q))
      PROVE  SubSeq(q, 1, n) = SubSeq(Parent(q), 1, n)
  <2> DEFINE r == Parent(q)
             e == q[Len(q)]
  <2>1. r \in Seq(Names) /\ e \in Names /\ n <= Len(r)
    BY <1>2, <1>3
  <2> HIDE DEF r, e
  <2>2. SubSeq(Append(r, e), 1, n) = SubSeq(r, 1, n)
    BY <2>1
  <2> QED BY <2>2, <1>2 DEF r, e
<1>4. SubSeq(Parent(q), 1, Len(Parent(q))) = Parent(q)
  BY <1>2
<1>5. ASSUME Below(p, Parent(q)) PROVE Below(p, q)
  BY <1>1, <1>3, <1>5 DEF Below
<1>6. ASSUME Parent(q) = p PROVE Below(p, q)
  BY <1>1, <1>3, <1>4, <1>6 DEF Below
<1> QED BY <1>5, <1>6

LEMMA ReplacedIsTree ==
  ASSUME NEW t, Tree(Names, t), NEW path, NEW name \in Names, NEW entry, get_dir(t, path)
  PROVE  LET p == Append(path, name)
             u == Replaced(t, p, entry)
         IN  /\ Tree(Names, u) /\ get_dir(u, path)
             /\ entry = Dir => get_dir(u, p)
<1> DEFINE p == Append(path, name)
           v == [q \in {x \in DOMAIN t : ~Below(p, x)} |-> t[q]]
<1>1. path \in Seq(Names) /\ path \in DOMAIN t /\ t[path] = Dir
  BY DEF Tree, get_dir
<1>2. p \in Seq(Names) /\ p # <<>> /\ p # path /\ Parent(p) = path
  BY <1>1, EntryPath
<1>3. ~Below(p, path) /\ ~Below(p, <<>>)
  <2>1. Len(p) = Len(path) + 1 /\ Len(path) \in Nat
    BY <1>1, EntryPath
  <2>2. Len(<<>>) = 0
    OBVIOUS
  <2> HIDE DEF p
  <2> QED BY <2>1, <2>2 DEF Below
<1> HIDE DEF p
<1>4. DOMAIN v = {x \in DOMAIN t : ~Below(p, x)} /\ \A q \in DOMAIN v : v[q] = t[q]
  OBVIOUS
<1> HIDE DEF v
<1>5. Tree(Names, v)
  <2>1. \A q \in DOMAIN v \ {<<>>} : q \in Seq(Names) /\ ~Below(p, Parent(q))
    BY <1>2, <1>4, BelowParent DEF Tree
  <2> QED BY <1>3, <1>4, <2>1 DEF Tree, IsTree
<1>6. get_dir(v, path)
  BY <1>1, <1>3, <1>4 DEF get_dir
<1>7. IsLeaf(v, p)
  BY <1>2, <1>4, BelowParent DEF IsLeaf, Tree
<1>8. /\ Tree(Names, Insert(v, p, entry))
      /\ \A q : get_dir(v, q) /\ (q # p \/ entry = Dir) => get_dir(Insert(v, p, entry), q)
  BY <1>5, <1>6, <1>7, InsertIsTree DEF p
<1>9. entry = Dir => get_dir(Insert(v, p, entry), p)
  BY DEF Insert, get_dir
<1> QED BY <1>2, <1>6, <1>8, <1>9 DEF Replaced, v, p

\* While it reads, the reader is in a directory of a tree.
ReaderInv(r) ==
  r.ok => /\ r = Reading(r.rest, r.tree, r.dir, r.left)
          /\ Tree(Names, r.tree) /\ get_dir(r.tree, r.dir)

LEMMA ReadingInv ==
  ASSUME NEW rest, NEW t, NEW dir, NEW left, Tree(Names, t), get_dir(t, dir)
  PROVE  ReaderInv(Reading(rest, t, dir, left))
BY DEF ReaderInv, Reading

LEMMA CorruptInv == ReaderInv(Corrupt)
BY DEF ReaderInv, Corrupt

LEMMA DescendInv ==
  ASSUME NEW rest, NEW t, NEW dir, NEW left, Tree(Names, t), get_dir(t, dir)
  PROVE  ReaderInv(deserialize_dir(rest, t, dir, left))
BY ReadingInv, CorruptInv DEF deserialize_dir

LEMMA RoundInv ==
  ASSUME NEW r, ReaderInv(r)
  PROVE  ReaderInv(Round(r))
<1>1. CASE ~r.ok \/ r.left = <<>>
  BY <1>1 DEF Round
<1>2. CASE r.ok /\ r.left # <<>> /\ r.left[1] = 0
  <2>1. Tree(Names, r.tree) /\ get_dir(r.tree, r.dir) /\ r = Reading(r.rest, r.tree, r.dir, r.left)
    BY <1>2 DEF ReaderInv
  <2>2. Round(r) = Reading(r.rest, r.tree, Parent(r.dir), Tail(r.left))
    BY <1>2 DEF Round
  <2>3. get_dir(r.tree, Parent(r.dir))
    BY <2>1, ParentPath DEF Tree, IsTree, get_dir
  <2> QED BY <2>1, <2>2, <2>3, ReadingInv
<1>3. CASE r.ok /\ r.left # <<>> /\ r.left[1] # 0
  <2>1. Tree(Names, r.tree) /\ get_dir(r.tree, r.dir)
    BY <1>3 DEF ReaderInv
  <2>2. Round(r) = deserialize_entry(r)
    BY <1>3 DEF Round
  <2>3. CASE r.rest[2] \notin Names
    BY <2>2, <2>3, CorruptInv DEF deserialize_entry
  <2>4. CASE r.rest[2] \in Names
    <3> DEFINE path == Append(r.dir, r.rest[2])
    <3>1. \A entry : /\ Tree(Names, Replaced(r.tree, path, entry))
                     /\ get_dir(Replaced(r.tree, path, entry), r.dir)
                     /\ entry = Dir => get_dir(Replaced(r.tree, path, entry), path)
      BY <2>1, <2>4, ReplacedIsTree
    <3> HIDE DEF path
    <3>2. \A rest, entry, left :
            ReaderInv(Reading(rest, Replaced(r.tree, path, entry), r.dir, left))
      BY <3>1, ReadingInv
    <3>3. \A rest, left :
            ReaderInv(deserialize_dir(rest, Replaced(r.tree, path, Dir), path, left))
      BY <3>1, DescendInv
    <3> QED BY <2>2, <3>2, <3>3, CorruptInv, Zenon DEF deserialize_entry, path
  <2> QED BY <2>3, <2>4
<1> QED BY <1>1, <1>2, <1>3

\* The recursive function in load_from is there, and each of its values is a
\* round after the one before.
LEMMA ReaderAt ==
  ASSUME NEW rounds \in Nat, NEW first, NEW f,
         f = [n \in 0..rounds |-> IF n = 0 THEN first ELSE Round(f[n - 1])]
  PROVE  f[0] = first /\ \A n \in 1..rounds : f[n] = Round(f[n - 1])
<1>1. 0 \in 0..rounds /\ \A n \in 1..rounds : n \in 0..rounds /\ n # 0
  OBVIOUS
<1> QED BY <1>1

LEMMA ReaderExists ==
  ASSUME NEW first
  PROVE  \A rounds \in Nat :
           \E f : f = [n \in 0..rounds |-> IF n = 0 THEN first ELSE Round(f[n - 1])]
<1> DEFINE Is(f, k) == f = [n \in 0..k |-> IF n = 0 THEN first ELSE Round(f[n - 1])]
           S == {k \in Nat : \E f : Is(f, k)}
<1>1. 0 \in S
  <2> DEFINE f == [n \in 0..0 |-> first]
  <2>1. f = [n \in 0..0 |-> IF n = 0 THEN first ELSE Round(f[n - 1])]
    OBVIOUS
  <2> HIDE DEF f
  <2> QED BY <2>1
<1>2. ASSUME NEW k \in Nat, k \in S PROVE k + 1 \in S
  <2>1. PICK f : Is(f, k)
    BY <1>2
  <2> DEFINE g == [n \in 0..(k + 1) |-> IF n = k + 1 THEN Round(f[k]) ELSE f[n]]
  <2>2. f[0] = first /\ \A n \in 1..k : f[n] = Round(f[n - 1])
    BY <2>1, ReaderAt
  <2>3. /\ \A n \in 0..k : n \in 0..(k + 1) /\ n # k + 1
        /\ \A n \in 0..(k + 1) : n = k + 1 \/ n = 0 \/ n \in 1..k
        /\ \A n \in 1..k : n - 1 \in 0..k
        /\ k + 1 - 1 = k /\ k \in 0..k /\ 0 \in 0..k /\ k + 1 \in 0..(k + 1) /\ k + 1 # 0
    OBVIOUS
  <2>4. g[k + 1] = Round(f[k]) /\ \A n \in 0..k : g[n] = f[n]
    BY <2>3
  <2>5. \A n \in 0..(k + 1) : g[n] = IF n = 0 THEN first ELSE Round(g[n - 1])
    <3> TAKE n \in 0..(k + 1)
    <3>1. CASE n = k + 1
      BY <3>1, <2>3, <2>4
    <3>2. CASE n = 0
      BY <3>2, <2>2, <2>3, <2>4
    <3>3. CASE n \in 1..k
      <4>1. n \in 0..k /\ n - 1 \in 0..k /\ n # 0
        BY <3>3, <2>3
      <4> HIDE DEF g
      <4> QED BY <3>3, <4>1, <2>2, <2>4
    <3> QED BY <3>1, <3>2, <3>3, <2>3
  <2>6. g = [n \in 0..(k + 1) |-> g[n]]
    OBVIOUS
  <2> HIDE DEF g
  <2>7. Is(g, k + 1)
    BY <2>5, <2>6
  <2> QED BY <2>7
<1> HIDE DEF S
<1>3. \A k \in Nat : k \in S
  BY <1>1, <1>2, SetInduction
<1> QED BY <1>3 DEF S

\* Whatever the units are, what the reader makes of them is a tree.
LEMMA LoadedIsTree ==
  ASSUME NEW units, NEW rounds \in Nat, load_from(units, rounds).ok
  PROVE  Tree(Names, load_from(units, rounds).tree)
<1> DEFINE first == deserialize_dir(units, EmptyFs, <<>>, <<>>)
           Is(f) == f = [n \in 0..rounds |-> IF n = 0 THEN first ELSE Round(f[n - 1])]
           reader == CHOOSE f : Is(f)
           S == {n \in Nat : n <= rounds => ReaderInv(reader[n])}
<1>1. ReaderInv(first)
  <2>1. Tree(Names, EmptyFs) /\ get_dir(EmptyFs, <<>>)
    BY DEF EmptyFs, Tree, IsTree, get_dir
  <2> QED BY <2>1, DescendInv
<1> HIDE DEF first
<1>2. Is(reader)
  BY ReaderExists
<1> HIDE DEF reader
<1>3. reader[0] = first /\ \A n \in 1..rounds : reader[n] = Round(reader[n - 1])
  BY <1>2, ReaderAt
<1>4. 0 \in S
  BY <1>1, <1>3
<1>5. ASSUME NEW n \in Nat, n \in S PROVE n + 1 \in S
  <2> SUFFICES ASSUME n + 1 <= rounds PROVE ReaderInv(reader[n + 1])
    OBVIOUS
  <2>1. n + 1 \in 1..rounds /\ n + 1 - 1 = n /\ n <= rounds
    OBVIOUS
  <2>2. reader[n + 1] = Round(reader[n])
    BY <1>3, <2>1
  <2> QED BY <1>5, <2>1, <2>2, RoundInv
<1> HIDE DEF S
<1>6. rounds \in S
  BY <1>4, <1>5, SetInduction
<1>7. ReaderInv(reader[rounds])
  BY <1>6 DEF S
<1>8. load_from(units, rounds) = reader[rounds]
  BY DEF load_from, reader, first
<1> QED BY <1>7, <1>8 DEF ReaderInv

(***************************************************************************)
(* Prefixes of paths                                                       *)
(***************************************************************************)
LEMMA PrefixIs ==
  ASSUME NEW S, NEW p \in Seq(S), NEW k \in 0..Len(p)
  PROVE  /\ SubSeq(p, 1, k) \in Seq(S) /\ Len(SubSeq(p, 1, k)) = k
         /\ \A i \in 1..k : SubSeq(p, 1, k)[i] = p[i]
<1>1. Len(p) \in Nat
  BY LenProperties
<1>2. 1 \in Nat \ {0} /\ k \in Int /\ k <= Len(p)
  BY <1>1
<1>3. /\ SubSeq(p, 1, k) \in Seq(S)
      /\ Len(SubSeq(p, 1, k)) = IF 1 <= k THEN k - 1 + 1 ELSE 0
      /\ \A i \in 1..(k - 1 + 1) : SubSeq(p, 1, k)[i] = p[1 + i - 1]
  BY <1>2, PartOf
<1>4. \A i \in 1..k : i \in 1..(k - 1 + 1) /\ 1 + i - 1 = i
  BY <1>1
<1>5. (IF 1 <= k THEN k - 1 + 1 ELSE 0) = k
  BY <1>1
<1> QED BY <1>3, <1>4, <1>5

LEMMA PrefixOfPrefix ==
  ASSUME NEW S, NEW p \in Seq(S), NEW k \in 0..Len(p), NEW j \in 0..k
  PROVE  SubSeq(SubSeq(p, 1, k), 1, j) = SubSeq(p, 1, j)
<1> DEFINE q == SubSeq(p, 1, k)
           a == SubSeq(q, 1, j)
           b == SubSeq(p, 1, j)
<1>1. Len(p) \in Nat /\ j \in 0..Len(p)
  BY LenProperties
<1>2. q \in Seq(S) /\ Len(q) = k /\ \A i \in 1..k : q[i] = p[i]
  BY PrefixIs
<1> HIDE DEF q
<1>3. a \in Seq(S) /\ Len(a) = j /\ \A i \in 1..j : a[i] = q[i]
  BY <1>2, PrefixIs
<1>4. b \in Seq(S) /\ Len(b) = j /\ \A i \in 1..j : b[i] = p[i]
  BY <1>1, PrefixIs
<1> HIDE DEF a, b
<1>5. \A i \in 1..j : i \in 1..k
  BY <1>1
<1>6. \A i \in 1..Len(a) : a[i] = b[i]
  BY <1>2, <1>3, <1>4, <1>5
<1>7. a = b
  BY <1>3, <1>4, <1>6, SeqEqual
<1> QED BY <1>7 DEF a, b, q

\* The parent of a prefix is the one before it.
LEMMA ParentOfPrefix ==
  ASSUME NEW S, NEW p \in Seq(S), NEW k \in 1..Len(p)
  PROVE  /\ Parent(SubSeq(p, 1, k)) = SubSeq(p, 1, k - 1)
         /\ SubSeq(p, 1, k) # <<>>
         /\ SubSeq(p, 1, k) = Append(SubSeq(p, 1, k - 1), p[k])
         /\ SubSeq(p, 1, k - 1) \in Seq(S) /\ p[k] \in S
<1>1. Len(p) \in Nat /\ k \in 0..Len(p) /\ k - 1 \in 0..k /\ k \in 1..k /\ k # 0
  BY LenProperties
<1>2. /\ SubSeq(p, 1, k) \in Seq(S) /\ Len(SubSeq(p, 1, k)) = k
      /\ SubSeq(p, 1, k)[k] = p[k]
  BY <1>1, PrefixIs
<1>3. SubSeq(SubSeq(p, 1, k), 1, k - 1) = SubSeq(p, 1, k - 1)
  BY <1>1, PrefixOfPrefix
<1>4. Parent(SubSeq(p, 1, k)) = SubSeq(p, 1, k - 1)
  BY <1>2, <1>3 DEF Parent
<1>5. SubSeq(p, 1, k) # <<>>
  BY <1>1, <1>2, EmptySeq
<1>6. SubSeq(p, 1, k) = Append(SubSeq(p, 1, k - 1), p[k])
  BY <1>2, <1>4, <1>5, ParentPath
<1>7. k - 1 \in 0..Len(p)
  BY <1>1
<1>8. SubSeq(p, 1, k - 1) \in Seq(S) /\ p[k] \in S
  BY <1>7, PrefixIs, ElementOfSeq
<1> QED BY <1>4, <1>5, <1>6, <1>8

\* The prefixes of a path with one name more.
LEMMA PrefixOfEntry ==
  ASSUME NEW S, NEW d \in Seq(S), NEW n \in S
  PROVE  /\ \A k \in 0..Len(d) : SubSeq(Append(d, n), 1, k) = SubSeq(d, 1, k)
         /\ SubSeq(Append(d, n), 1, Len(d)) = d
         /\ \A k \in 1..Len(d) : Append(d, n)[k] = d[k]
         /\ Append(d, n)[Len(d) + 1] = n
<1> DEFINE p == Append(d, n)
<1>1. /\ p \in Seq(S) /\ Len(p) = Len(d) + 1 /\ Len(d) \in Nat
      /\ \A k \in 1..Len(d) : p[k] = d[k]
      /\ p[Len(d) + 1] = n
  BY AppendProperties, LenProperties
<1>2. SubSeq(p, 1, Len(d)) = d
  <2>1. Parent(p) = d
    BY EntryPath
  <2>2. Len(p) - 1 = Len(d)
    BY <1>1
  <2> QED BY <2>1, <2>2 DEF Parent
<1> HIDE DEF p
<1>3. ASSUME NEW k \in 0..Len(d) PROVE SubSeq(p, 1, k) = SubSeq(d, 1, k)
  <2>1. Len(d) \in 0..Len(p)
    BY <1>1
  <2>2. SubSeq(SubSeq(p, 1, Len(d)), 1, k) = SubSeq(p, 1, k)
    BY <1>1, <2>1, PrefixOfPrefix
  <2> QED BY <1>2, <2>2
<1> QED BY <1>1, <1>2, <1>3 DEF p

\* A set of paths in which the parent of each is another.
Closed(P) == P \subseteq Seq(Names) /\ \A p \in P : p # <<>> => Parent(p) \in P

LEMMA ClosedPrefixes ==
  ASSUME NEW P, Closed(P), NEW p \in P, NEW k \in 0..Len(p)
  PROVE  SubSeq(p, 1, k) \in P
<1> DEFINE S == {j \in Nat : j <= Len(p) => SubSeq(p, 1, Len(p) - j) \in P}
<1>1. p \in Seq(Names) /\ Len(p) \in Nat
  BY LenProperties DEF Closed
<1>2. 0 \in S
  <2>1. SubSeq(p, 1, Len(p)) = p /\ Len(p) - 0 = Len(p)
    BY <1>1, SubSeqFull
  <2> QED BY <2>1
<1>3. ASSUME NEW j \in Nat, j \in S PROVE j + 1 \in S
  <2> SUFFICES ASSUME j + 1 <= Len(p) PROVE SubSeq(p, 1, Len(p) - (j + 1)) \in P
    OBVIOUS
  <2> DEFINE i == Len(p) - j
  <2>1. i \in 1..Len(p) /\ i - 1 = Len(p) - (j + 1) /\ j <= Len(p)
    BY <1>1
  <2>2. SubSeq(p, 1, i) \in P
    BY <1>3, <2>1
  <2> HIDE DEF i
  <2>3. Parent(SubSeq(p, 1, i)) = SubSeq(p, 1, i - 1) /\ SubSeq(p, 1, i) # <<>>
    BY <1>1, <2>1, ParentOfPrefix
  <2>4. SubSeq(p, 1, i - 1) \in P
    BY <2>2, <2>3 DEF Closed
  <2> QED BY <2>1, <2>4
<1> HIDE DEF S
<1>4. \A j \in Nat : j \in S
  BY <1>2, <1>3, SetInduction
<1>5. Len(p) - k \in Nat /\ Len(p) - k <= Len(p) /\ Len(p) - (Len(p) - k) = k
  BY <1>1
<1> QED BY <1>4, <1>5 DEF S

(***************************************************************************)
(* What a directory holds                                                  *)
(***************************************************************************)
\* A file system as there is one in the machine.
Stored(t) ==
  /\ Tree(Names, t)
  /\ IsFiniteSet(DOMAIN t)
  /\ \A p \in DOMAIN t : IsEntry(t[p])

LEMMA TreeIsClosed ==
  ASSUME NEW t, Tree(Names, t)
  PROVE  Closed(DOMAIN t)
BY DEF Tree, IsTree, Closed

LEMMA Depth ==
  ASSUME NEW t, Stored(t)
  PROVE  \E m \in Nat : \A p \in DOMAIN t : Len(p) <= m
<1> DEFINE f == [p \in DOMAIN t |-> Len(p)]
           T == {f[p] : p \in DOMAIN t}
<1>1. IsFiniteSet(T)
  <2>1. IsFiniteSet(DOMAIN t) /\ DOMAIN f = DOMAIN t
    BY DEF Stored
  <2> HIDE DEF f
  <2> QED BY <2>1, FiniteImage
<1>2. \A p \in DOMAIN t : f[p] = Len(p) /\ Len(p) \in Nat
  BY LenProperties DEF Stored, Tree
<1>3. T \subseteq Nat
  BY <1>2
<1>4. PICK m \in Nat : \A s \in T : s <= m
  <2> HIDE DEF T
  <2> QED BY <1>1, <1>3, FiniteIsBounded
<1> QED BY <1>2, <1>4

LEMMA ChildrenAre ==
  ASSUME NEW t, Tree(Names, t), NEW d \in Seq(Names)
  PROVE  /\ Children(t, d) \subseteq Names
         /\ \A n \in Names : n \in Children(t, d) <=> Append(d, n) \in DOMAIN t
<1>1. \A p \in DOMAIN t \ {<<>>} : p \in Seq(Names) /\ p[Len(p)] \in Names
                                   /\ p = Append(Parent(p), p[Len(p)])
  BY ParentPath DEF Tree
<1>2. \A n \in Names : /\ Append(d, n) # <<>> /\ Parent(Append(d, n)) = d
                       /\ Append(d, n)[Len(Append(d, n))] = n
  <2> TAKE n \in Names
  <2>1. Append(d, n) # <<>> /\ Parent(Append(d, n)) = d /\ Len(Append(d, n)) = Len(d) + 1
    BY EntryPath
  <2>2. Append(d, n)[Len(d) + 1] = n
    BY AppendProperties
  <2> QED BY <2>1, <2>2
<1>3. Children(t, d) \subseteq Names
  BY <1>1 DEF Children
<1>4. ASSUME NEW n \in Names
      PROVE  n \in Children(t, d) <=> Append(d, n) \in DOMAIN t
  <2>1. ASSUME n \in Children(t, d) PROVE Append(d, n) \in DOMAIN t
    <3>1. PICK p \in DOMAIN t \ {<<>>} : Parent(p) = d /\ n = p[Len(p)]
      BY <2>1 DEF Children
    <3> QED BY <1>1, <3>1
  <2>2. ASSUME Append(d, n) \in DOMAIN t PROVE n \in Children(t, d)
    BY <1>2, <2>2 DEF Children
  <2> QED BY <2>1, <2>2
<1> QED BY <1>3, <1>4

LEMMA ChildrenAreFew ==
  ASSUME NEW t, Stored(t), NEW d \in Seq(Names)
  PROVE  \E k \in Nat : Children(t, d) \in SUBSET (1..k)
<1> DEFINE f == [p \in DOMAIN t |-> p[Len(p)]]
           T == {f[p] : p \in DOMAIN t}
           C == Children(t, d)
<1>1. IsFiniteSet(T)
  <2>1. IsFiniteSet(DOMAIN t) /\ DOMAIN f = DOMAIN t
    BY DEF Stored
  <2> HIDE DEF f
  <2> QED BY <2>1, FiniteImage
<1>2. C \in SUBSET T
  BY DEF Children
<1>3. IsFiniteSet(C)
  <2> HIDE DEF C, T
  <2> QED BY <1>1, <1>2, FS_Subset
<1>4. C \subseteq Nat \ {0}
  BY ChildrenAre, ImageAssumption DEF Stored
<1> HIDE DEF C
<1>5. PICK k \in Nat : \A s \in C : s <= k
  BY <1>3, <1>4, FiniteIsBounded
<1>6. C \in SUBSET (1..k)
  BY <1>4, <1>5
<1> QED BY <1>6 DEF C

\* The entries of a directory in their order.
LEMMA ChildrenInOrder ==
  ASSUME NEW t, Stored(t), NEW d \in Seq(Names)
  PROVE  LET C == Children(t, d)
             s == Sorted(C)
             K == Cardinality(C)
         IN  /\ K \in Nat /\ DOMAIN s = 1..K /\ Len(s) = K
             /\ \A k \in 1..K : s[k] \in C /\ s[k] \in Names /\ Rank(s[k], C) = k
             /\ \A n \in C : Rank(n, C) \in 1..K /\ s[Rank(n, C)] = n
             /\ \A m, n \in C : m < n => Rank(m, C) < Rank(n, C)
<1> DEFINE C == Children(t, d)
           s == Sorted(C)
           K == Cardinality(C)
<1>1. PICK k \in Nat : C \in SUBSET (1..k)
  BY ChildrenAreFew
<1>2. C \subseteq Names
  BY ChildrenAre DEF Stored
<1> HIDE DEF C
<1>3. /\ K \in 0..k /\ s \in [1..K -> C]
      /\ \A j \in 1..K : Rank(s[j], C) = j
      /\ \A n \in C : Rank(n, C) \in 1..K /\ s[Rank(n, C)] = n
  BY <1>1, SortedProperties
<1>4. \A m, n \in C : m < n => Rank(m, C) < Rank(n, C)
  BY <1>1, RankProperties
<1> HIDE DEF s, K
<1>5. K \in Nat /\ Len(s) = K
  BY <1>3, FunctionIsSeq
<1> QED BY <1>2, <1>3, <1>4, <1>5 DEF s, K, C

(***************************************************************************)
(* The image                                                               *)
(***************************************************************************)
\* What serialize_dir writes for a directory, when f is what it writes for others.
Pieces(t, f, d) ==
  LET names == Sorted(Children(t, d))
  IN  [i \in DOMAIN names |-> Entry(t, d, names[i], f[Append(d, names[i])])]

Listing(t, f, d) == <<Len(Sorted(Children(t, d)))>> \o FlattenSeq(Pieces(t, f, d))

\* f is serialize_dir on the paths P.
Writes(t, f, P) == f = [d \in P |-> Listing(t, f, d)]

LEMMA SameListing ==
  ASSUME NEW t, Stored(t), NEW d \in Seq(Names), NEW f, NEW g,
         \A n \in Children(t, d) : f[Append(d, n)] = g[Append(d, n)]
  PROVE  Listing(t, f, d) = Listing(t, g, d)
<1> DEFINE names == Sorted(Children(t, d))
<1>1. \A i \in DOMAIN names : names[i] \in Children(t, d)
  BY ChildrenInOrder
<1> HIDE DEF names
<1>2. \A i \in DOMAIN names : f[Append(d, names[i])] = g[Append(d, names[i])]
  BY <1>1
<1>3. [i \in DOMAIN names |-> Entry(t, d, names[i], f[Append(d, names[i])])]
      = [i \in DOMAIN names |-> Entry(t, d, names[i], g[Append(d, names[i])])]
  BY <1>2
<1>4. Pieces(t, f, d) = Pieces(t, g, d)
  BY <1>3 DEF Pieces, names
<1> QED BY <1>4 DEF Listing

LEMMA WriterExists ==
  ASSUME NEW t, Stored(t)
  PROVE  \E f : Writes(t, f, DOMAIN t)
<1>1. PICK m \in Nat : \A p \in DOMAIN t : Len(p) <= m
  BY Depth
<1> DEFINE D(k) == {p \in DOMAIN t : Len(p) + k > m}
           S == {k \in Nat : \E f : Writes(t, f, D(k))}
<1>2. \A p \in DOMAIN t : p \in Seq(Names) /\ Len(p) \in Nat
  BY LenProperties DEF Stored, Tree
<1>3. 0 \in S
  <2> DEFINE f == [d \in {} |-> 0]
  <2>1. D(0) = {}
    BY <1>1, <1>2
  <2>2. f = [d \in {} |-> Listing(t, f, d)]
    OBVIOUS
  <2> HIDE DEF D, f
  <2>3. Writes(t, f, D(0))
    BY <2>1, <2>2 DEF Writes
  <2> QED BY <2>3
<1>4. ASSUME NEW k \in Nat, k \in S PROVE k + 1 \in S
  <2>1. PICK f : Writes(t, f, D(k))
    BY <1>4
  <2> DEFINE g == [d \in D(k + 1) |-> Listing(t, f, d)]
  <2>2. ASSUME NEW d \in D(k + 1) PROVE Listing(t, f, d) = Listing(t, g, d)
    <3>1. d \in DOMAIN t /\ d \in Seq(Names) /\ Len(d) + (k + 1) > m /\ Len(d) \in Nat
      BY <1>2
    <3>2. ASSUME NEW n \in Children(t, d) PROVE f[Append(d, n)] = g[Append(d, n)]
      <4> DEFINE p == Append(d, n)
      <4>1. n \in Names /\ p \in DOMAIN t
        BY <3>1, ChildrenAre DEF Stored
      <4>2. Len(p) = Len(d) + 1
        BY <3>1, <4>1, EntryPath
      <4> HIDE DEF p
      <4>3. p \in D(k) /\ p \in D(k + 1)
        BY <3>1, <4>1, <4>2
      <4> HIDE DEF D
      <4>4. g[p] = Listing(t, f, p)
        BY <4>3
      <4>5. f[p] = Listing(t, f, p)
        <5>1. [e \in D(k) |-> Listing(t, f, e)][p] = Listing(t, f, p)
          BY <4>3
        <5> QED BY <2>1, <5>1 DEF Writes
      <4> QED BY <4>4, <4>5 DEF p
    <3> HIDE DEF g, D
    <3> QED BY <3>1, <3>2, SameListing
  <2>3. g = [d \in D(k + 1) |-> Listing(t, g, d)]
    <3> HIDE DEF D
    <3>1. g = [d \in D(k + 1) |-> Listing(t, f, d)]
      OBVIOUS
    <3> HIDE DEF g
    <3>2. [d \in D(k + 1) |-> Listing(t, f, d)] = [d \in D(k + 1) |-> Listing(t, g, d)]
      BY <2>2
    <3> QED BY <3>1, <3>2, Zenon
  <2> HIDE DEF g, D
  <2> QED BY <2>3 DEF Writes
<1> HIDE DEF S
<1>5. m + 1 \in S
  BY <1>3, <1>4, SetInduction
<1>6. D(m + 1) = DOMAIN t
  <2>1. \A p \in DOMAIN t : Len(p) + (m + 1) > m
    BY <1>2
  <2> QED BY <2>1
<1> HIDE DEF D
<1> QED BY <1>5, <1>6 DEF S

LEMMA WriterAt ==
  ASSUME NEW t, NEW f, Writes(t, f, DOMAIN t), NEW d \in DOMAIN t
  PROVE  f[d] = Listing(t, f, d)
<1>1. [e \in DOMAIN t |-> Listing(t, f, e)][d] = Listing(t, f, d)
  OBVIOUS
<1> QED BY <1>1 DEF Writes

LEMMA SerializeIs ==
  ASSUME NEW t, Stored(t)
  PROVE  \E f : Writes(t, f, DOMAIN t) /\ serialize(t) = f[<<>>]
<1> DEFINE f == CHOOSE f : f = [d \in DOMAIN t |->
              LET names == Sorted(Children(t, d))
              IN  <<Len(names)>> \o FlattenSeq([i \in DOMAIN names |->
                    Entry(t, d, names[i], f[Append(d, names[i])])])]
<1>1. \E g : g = [d \in DOMAIN t |->
              LET names == Sorted(Children(t, d))
              IN  <<Len(names)>> \o FlattenSeq([i \in DOMAIN names |->
                    Entry(t, d, names[i], g[Append(d, names[i])])])]
  BY WriterExists, Zenon DEF Writes, Listing, Pieces
<1>2. f = [d \in DOMAIN t |->
              LET names == Sorted(Children(t, d))
              IN  <<Len(names)>> \o FlattenSeq([i \in DOMAIN names |->
                    Entry(t, d, names[i], f[Append(d, names[i])])])]
  BY <1>1, Zenon
<1>3. serialize(t) = f[<<>>]
  BY Zenon DEF serialize
<1> HIDE DEF f
<1>4. Writes(t, f, DOMAIN t)
  BY <1>2, Zenon DEF Writes, Listing, Pieces
<1> QED BY <1>3, <1>4

\* Lengths, names and data are numbers.
LEMMA EntryType ==
  ASSUME NEW t, Stored(t), NEW d, NEW n \in Names, Append(d, n) \in DOMAIN t,
         NEW below, t[Append(d, n)] = Dir => below \in Seq(Nat)
  PROVE  Entry(t, d, n, below) \in Seq(Nat)
<1> DEFINE e == t[Append(d, n)]
<1>1. Cut[n] \in Nat /\ n \in Nat
  BY ImageAssumption
<1>2. CASE e = Dir
  <2>1. <<1, Cut[n]>> \in Seq(Nat)
    BY <1>1
  <2> QED BY <1>2, <2>1, ConcatProperties DEF Entry
<1>3. CASE e # Dir
  <2>1. e.data \in Seq(Nat)
    BY <1>3 DEF Stored, IsEntry
  <2>2. <<0, Cut[n], Len(e.data)>> \in Seq(Nat)
    BY <1>1, <2>1, LenProperties
  <2> QED BY <1>3, <2>1, <2>2, ConcatProperties DEF Entry
<1> QED BY <1>2, <1>3

LEMMA PiecesType ==
  ASSUME NEW t, Stored(t), NEW d \in Seq(Names), NEW f,
         \A n \in Children(t, d) : f[Append(d, n)] \in Seq(Nat)
  PROVE  /\ Pieces(t, f, d) \in Seq(Seq(Nat))
         /\ Len(Pieces(t, f, d)) = Cardinality(Children(t, d))
         /\ Listing(t, f, d) \in Seq(Nat)
<1> DEFINE C == Children(t, d)
           names == Sorted(C)
           K == Cardinality(C)
<1>1. /\ K \in Nat /\ DOMAIN names = 1..K /\ Len(names) = K
      /\ \A i \in 1..K : names[i] \in C /\ names[i] \in Names
  BY ChildrenInOrder
<1>2. \A i \in 1..K : Append(d, names[i]) \in DOMAIN t
  BY <1>1, ChildrenAre DEF Stored
<1>3. \A i \in 1..K : f[Append(d, names[i])] \in Seq(Nat)
  BY <1>1
<1> HIDE DEF names, K, C
<1>4. \A i \in 1..K : Entry(t, d, names[i], f[Append(d, names[i])]) \in Seq(Nat)
  BY <1>1, <1>2, <1>3, EntryType
<1>5. Pieces(t, f, d) = [i \in 1..K |-> Entry(t, d, names[i], f[Append(d, names[i])])]
  BY <1>1 DEF Pieces, names, C
<1>6. Pieces(t, f, d) \in [1..K -> Seq(Nat)]
  BY <1>4, <1>5
<1>7. Pieces(t, f, d) \in Seq(Seq(Nat)) /\ Len(Pieces(t, f, d)) = K
  BY <1>1, <1>6, FunctionIsSeq
<1>8. FlattenSeq(Pieces(t, f, d)) \in Seq(Nat)
  BY <1>7, FlattenType
<1>9. <<Len(names)>> \in Seq(Nat)
  BY <1>1
<1>10. Listing(t, f, d) \in Seq(Nat)
  BY <1>8, <1>9, ConcatProperties DEF Listing, names, C
<1> QED BY <1>7, <1>10 DEF K, C

LEMMA WriterType ==
  ASSUME NEW t, Stored(t), NEW f, Writes(t, f, DOMAIN t)
  PROVE  \A d \in DOMAIN t : f[d] \in Seq(Nat)
<1>1. PICK m \in Nat : \A p \in DOMAIN t : Len(p) <= m
  BY Depth
<1> DEFINE S == {k \in Nat : \A p \in DOMAIN t : Len(p) + k > m => f[p] \in Seq(Nat)}
<1>2. \A p \in DOMAIN t : p \in Seq(Names) /\ Len(p) \in Nat
  BY LenProperties DEF Stored, Tree
<1>3. 0 \in S
  BY <1>1, <1>2
<1>4. ASSUME NEW k \in Nat, k \in S PROVE k + 1 \in S
  <2> SUFFICES ASSUME NEW d \in DOMAIN t, Len(d) + (k + 1) > m PROVE f[d] \in Seq(Nat)
    OBVIOUS
  <2>1. ASSUME NEW n \in Children(t, d) PROVE f[Append(d, n)] \in Seq(Nat)
    <3>1. n \in Names /\ Append(d, n) \in DOMAIN t
      BY <1>2, ChildrenAre DEF Stored
    <3>2. Len(Append(d, n)) + k > m
      <4>1. Len(Append(d, n)) = Len(d) + 1
        BY <1>2, <3>1, EntryPath
      <4> QED BY <1>2, <4>1
    <3> QED BY <1>4, <3>1, <3>2
  <2>2. Listing(t, f, d) \in Seq(Nat)
    BY <1>2, <2>1, PiecesType
  <2> QED BY <2>2, WriterAt
<1> HIDE DEF S
<1>5. m + 1 \in S
  BY <1>3, <1>4, SetInduction
<1>6. \A p \in DOMAIN t : Len(p) + (m + 1) > m
  BY <1>2
<1> QED BY <1>5, <1>6 DEF S

(***************************************************************************)
(* A place in the image: in directory d, behind the first i entries        *)
(***************************************************************************)
Kids(t, d) == Cardinality(Children(t, d))
Place(t, d, n) == Rank(n, Children(t, d))

\* What is still to come of d, and of the directories around it; how many
\* entries of these.
RestIn(t, f, d, i) == FlattenSeq(SubSeq(Pieces(t, f, d), i + 1, Kids(t, d)))

RestAround(t, f, d) ==
  FlattenSeq([j \in 1..Len(d) |->
    LET k == Len(d) - j
    IN  RestIn(t, f, SubSeq(d, 1, k), Place(t, SubSeq(d, 1, k), d[k + 1]))])

LeftAround(t, d) ==
  [j \in 1..Len(d) |->
    LET k == Len(d) - j
    IN  Kids(t, SubSeq(d, 1, k)) - Place(t, SubSeq(d, 1, k), d[k + 1])]

LEMMA PiecesOf ==
  ASSUME NEW t, Stored(t), NEW f, Writes(t, f, DOMAIN t), NEW d \in DOMAIN t
  PROVE  /\ d \in Seq(Names) /\ Kids(t, d) \in Nat
         /\ Pieces(t, f, d) \in Seq(Seq(Nat)) /\ Len(Pieces(t, f, d)) = Kids(t, d)
         /\ \A i \in 0..Kids(t, d) : RestIn(t, f, d, i) \in Seq(Nat)
<1>1. d \in Seq(Names)
  BY DEF Stored, Tree
<1>2. \A n \in Children(t, d) : f[Append(d, n)] \in Seq(Nat)
  BY <1>1, ChildrenAre, WriterType DEF Stored
<1>3. Pieces(t, f, d) \in Seq(Seq(Nat)) /\ Len(Pieces(t, f, d)) = Kids(t, d)
  BY <1>1, <1>2, PiecesType DEF Kids
<1>4. Kids(t, d) \in Nat
  BY <1>1, ChildrenInOrder DEF Kids
<1>5. ASSUME NEW i \in 0..Kids(t, d) PROVE RestIn(t, f, d, i) \in Seq(Nat)
  <2>1. i + 1 \in Nat \ {0} /\ Kids(t, d) \in Int /\ Kids(t, d) <= Len(Pieces(t, f, d))
    BY <1>3, <1>4
  <2>2. SubSeq(Pieces(t, f, d), i + 1, Kids(t, d)) \in Seq(Seq(Nat))
    BY <1>3, <2>1, PartOf
  <2> QED BY <2>2, FlattenType DEF RestIn
<1> QED BY <1>1, <1>3, <1>4, <1>5

\* From one place to the next.
LEMMA RestInSteps ==
  ASSUME NEW t, Stored(t), NEW f, Writes(t, f, DOMAIN t), NEW d \in DOMAIN t
  PROVE  /\ f[d] = <<Kids(t, d)>> \o RestIn(t, f, d, 0)
         /\ RestIn(t, f, d, Kids(t, d)) = <<>>
         /\ \A i \in 0..(Kids(t, d) - 1) :
              LET n == Sorted(Children(t, d))[i + 1]
              IN  RestIn(t, f, d, i) =
                    Entry(t, d, n, f[Append(d, n)]) \o RestIn(t, f, d, i + 1)
<1> DEFINE K == Kids(t, d)
           s == Pieces(t, f, d)
           names == Sorted(Children(t, d))
<1>1. d \in Seq(Names) /\ K \in Nat /\ s \in Seq(Seq(Nat)) /\ Len(s) = K
  BY PiecesOf
<1>2. Len(names) = K /\ DOMAIN names = 1..K
  BY <1>1, ChildrenInOrder DEF Kids
<1>3. \A i \in 1..K : s[i] = Entry(t, d, names[i], f[Append(d, names[i])])
  BY <1>2 DEF Pieces
<1>4. f[d] = <<Len(names)>> \o FlattenSeq(s)
  BY WriterAt DEF Listing
<1> HIDE DEF K, s, names
<1>5. SubSeq(s, 0 + 1, K) = s
  BY <1>1, SubSeqFull
<1>6. SubSeq(s, K + 1, K) = <<>>
  <2>1. K + 1 \in Int /\ K \in Int /\ K < K + 1
    BY <1>1
  <2> QED BY <2>1, SubSeqEmpty
<1>7. ASSUME NEW i \in 0..(K - 1)
      PROVE  FlattenSeq(SubSeq(s, i + 1, K)) = s[i + 1] \o FlattenSeq(SubSeq(s, i + 2, K))
  <2>1. /\ i + 1 \in 1..Len(s) /\ K \in (i + 1)..Len(s) /\ i + 1 + 1 = i + 2
        /\ i + 2 \in Nat \ {0} /\ K \in Int /\ K <= Len(s)
    BY <1>1
  <2>2. SubSeq(s, i + 1, K) = <<s[i + 1]>> \o SubSeq(s, i + 1 + 1, K)
    BY <1>1, <2>1, SubSeqRecursiveFirst
  <2>3. SubSeq(s, i + 2, K) \in Seq(Seq(Nat)) /\ s[i + 1] \in Seq(Nat)
    BY <1>1, <2>1, PartOf, ElementOfSeq
  <2> QED BY <2>1, <2>2, <2>3, FlattenCons
<1>8. f[d] = <<K>> \o FlattenSeq(SubSeq(s, 0 + 1, K))
  BY <1>2, <1>4, <1>5
<1>9. FlattenSeq(SubSeq(s, K + 1, K)) = <<>>
  BY <1>6, FlattenEmpty
<1>10. ASSUME NEW i \in 0..(K - 1)
       PROVE  FlattenSeq(SubSeq(s, i + 1, K)) =
                Entry(t, d, names[i + 1], f[Append(d, names[i + 1])])
                  \o FlattenSeq(SubSeq(s, i + 1 + 1, K))
  <2>1. i + 1 \in 1..K /\ i + 1 + 1 = i + 2
    BY <1>1
  <2> QED BY <1>3, <1>7, <2>1
<1> QED BY <1>8, <1>9, <1>10, Zenon DEF RestIn, K, s, names

LEMMA AroundTypes ==
  ASSUME NEW t, Stored(t), NEW f, Writes(t, f, DOMAIN t), NEW d \in DOMAIN t
  PROVE  /\ RestAround(t, f, d) \in Seq(Nat)
         /\ LeftAround(t, d) \in Seq(Nat)
         /\ Len(LeftAround(t, d)) = Len(d)
         /\ LET s == [j \in 1..Len(d) |->
                        LET k == Len(d) - j
                        IN  RestIn(t, f, SubSeq(d, 1, k), Place(t, SubSeq(d, 1, k), d[k + 1]))]
            IN  s \in Seq(Seq(Nat)) /\ Len(s) = Len(d)
<1>1. d \in Seq(Names) /\ Len(d) \in Nat
  BY PiecesOf, LenProperties
<1>2. ASSUME NEW k \in 0..(Len(d) - 1)
      PROVE  LET e == SubSeq(d, 1, k)
             IN  /\ RestIn(t, f, e, Place(t, e, d[k + 1])) \in Seq(Nat)
                 /\ Kids(t, e) - Place(t, e, d[k + 1]) \in Nat
  <2> DEFINE e == SubSeq(d, 1, k)
  <2>1. k \in 0..Len(d) /\ k + 1 \in 1..Len(d) /\ k + 1 \in 0..Len(d) /\ k + 1 - 1 = k
    BY <1>1
  <2>2. e \in DOMAIN t /\ SubSeq(d, 1, k + 1) \in DOMAIN t
    BY <2>1, TreeIsClosed, ClosedPrefixes DEF Stored
  <2>3. SubSeq(d, 1, k + 1) = Append(e, d[k + 1]) /\ d[k + 1] \in Names /\ e \in Seq(Names)
    BY <1>1, <2>1, ParentOfPrefix
  <2> HIDE DEF e
  <2>4. d[k + 1] \in Children(t, e)
    BY <2>2, <2>3, ChildrenAre DEF Stored
  <2>5. Kids(t, e) \in Nat /\ Place(t, e, d[k + 1]) \in 1..Kids(t, e)
    BY <2>3, <2>4, ChildrenInOrder DEF Kids, Place
  <2>6. Place(t, e, d[k + 1]) \in 0..Kids(t, e) /\ Kids(t, e) - Place(t, e, d[k + 1]) \in Nat
    BY <2>5
  <2>7. RestIn(t, f, e, Place(t, e, d[k + 1])) \in Seq(Nat)
    BY <2>2, <2>6, PiecesOf
  <2> QED BY <2>6, <2>7 DEF e
<1>3. \A j \in 1..Len(d) : Len(d) - j \in 0..(Len(d) - 1)
  BY <1>1
<1> DEFINE s == [j \in 1..Len(d) |->
                   LET k == Len(d) - j
                   IN  RestIn(t, f, SubSeq(d, 1, k), Place(t, SubSeq(d, 1, k), d[k + 1]))]
<1>4. s \in [1..Len(d) -> Seq(Nat)]
  BY <1>2, <1>3
<1>5. LeftAround(t, d) \in [1..Len(d) -> Nat]
  BY <1>2, <1>3 DEF LeftAround
<1> HIDE DEF s
<1>6. s \in Seq(Seq(Nat)) /\ Len(s) = Len(d)
  BY <1>1, <1>4, FunctionIsSeq
<1>7. LeftAround(t, d) \in Seq(Nat) /\ Len(LeftAround(t, d)) = Len(d)
  BY <1>1, <1>5, FunctionIsSeq
<1>8. FlattenSeq(s) \in Seq(Nat)
  BY <1>6, FlattenType
<1>9. RestAround(t, f, d) \in Seq(Nat)
  BY <1>8 DEF RestAround, s
<1> QED BY <1>6, <1>7, <1>9 DEF s

\* Around the root there is nothing; around an entry of d, what is behind it in d
\* and what is around d.
LEMMA AroundSteps ==
  ASSUME NEW t, Stored(t), NEW f, Writes(t, f, DOMAIN t)
  PROVE  /\ RestAround(t, f, <<>>) = <<>>
         /\ LeftAround(t, <<>>) = <<>>
         /\ \A d \in DOMAIN t : \A n \in Children(t, d) :
              /\ RestAround(t, f, Append(d, n)) =
                   RestIn(t, f, d, Place(t, d, n)) \o RestAround(t, f, d)
              /\ LeftAround(t, Append(d, n)) =
                   <<Kids(t, d) - Place(t, d, n)>> \o LeftAround(t, d)
<1> DEFINE R(d) == [j \in 1..Len(d) |->
                      LET k == Len(d) - j
                      IN  RestIn(t, f, SubSeq(d, 1, k), Place(t, SubSeq(d, 1, k), d[k + 1]))]
           L(d) == [j \in 1..Len(d) |->
                      LET k == Len(d) - j
                      IN  Kids(t, SubSeq(d, 1, k)) - Place(t, SubSeq(d, 1, k), d[k + 1])]
<1>1. <<>> \in DOMAIN t
  BY DEF Stored, Tree, IsTree
<1>2. RestAround(t, f, <<>>) = <<>>
  <2>1. R(<<>>) \in Seq(Seq(Nat)) /\ Len(R(<<>>)) = Len(<<>>)
    BY <1>1, AroundTypes
  <2>2. R(<<>>) = <<>>
    <3> HIDE DEF R
    <3>1. Len(R(<<>>)) = 0
      BY <2>1
    <3> QED BY <2>1, <3>1, EmptySeq
  <2>3. RestAround(t, f, <<>>) = FlattenSeq(R(<<>>))
    BY DEF RestAround
  <2> QED BY <2>2, <2>3, FlattenEmpty
<1>3. LeftAround(t, <<>>) = <<>>
  <2>1. LeftAround(t, <<>>) \in Seq(Nat) /\ Len(LeftAround(t, <<>>)) = Len(<<>>)
    BY <1>1, AroundTypes
  <2>2. Len(LeftAround(t, <<>>)) = 0
    BY <2>1
  <2> QED BY <2>1, <2>2, EmptySeq
<1>4. ASSUME NEW d \in DOMAIN t, NEW n \in Children(t, d)
      PROVE  /\ RestAround(t, f, Append(d, n)) =
                  RestIn(t, f, d, Place(t, d, n)) \o RestAround(t, f, d)
             /\ LeftAround(t, Append(d, n)) =
                  <<Kids(t, d) - Place(t, d, n)>> \o LeftAround(t, d)
  <2> DEFINE p == Append(d, n)
             x == RestIn(t, f, d, Place(t, d, n))
             y == Kids(t, d) - Place(t, d, n)
  <2>1. d \in Seq(Names) /\ n \in Names /\ p \in DOMAIN t
    BY ChildrenAre DEF Stored, Tree
  <2>2. Len(p) = Len(d) + 1 /\ Len(d) \in Nat
    BY <2>1, EntryPath, LenProperties
  <2>3. /\ \A k \in 0..Len(d) : SubSeq(p, 1, k) = SubSeq(d, 1, k)
        /\ SubSeq(p, 1, Len(d)) = d
        /\ \A k \in 1..Len(d) : p[k] = d[k]
        /\ p[Len(d) + 1] = n
    BY <2>1, PrefixOfEntry
  <2>4. /\ R(p) \in Seq(Seq(Nat)) /\ Len(R(p)) = Len(p)
        /\ R(d) \in Seq(Seq(Nat)) /\ Len(R(d)) = Len(d)
        /\ L(p) \in Seq(Nat) /\ Len(L(p)) = Len(p)
        /\ L(d) \in Seq(Nat) /\ Len(L(d)) = Len(d)
    <3>1. LeftAround(t, p) = L(p) /\ LeftAround(t, d) = L(d)
      BY DEF LeftAround
    <3> HIDE DEF L, p
    <3> QED BY <2>1, <3>1, AroundTypes
  <2> HIDE DEF p
  <2>5. 1 \in 1..Len(p) /\ Len(p) - 1 = Len(d) /\ \A j \in 1..Len(d) : j + 1 \in 1..Len(p)
        /\ Len(p) - (j + 1) = Len(d) - j /\ Len(d) - j \in 0..Len(d)
        /\ Len(d) - j + 1 \in 1..Len(d)
    BY <2>2
  <2>6. R(p)[1] = x /\ L(p)[1] = y
    BY <2>3, <2>5
  <2>7. \A j \in 1..Len(d) : R(p)[j + 1] = R(d)[j] /\ L(p)[j + 1] = L(d)[j]
    BY <2>3, <2>5
  <2>8. x \in Seq(Nat) /\ y \in Nat
    <3>1. R(p)[1] \in Seq(Nat) /\ L(p)[1] \in Nat
      <4> HIDE DEF R, L
      <4> QED BY <2>4, <2>5, ElementOfSeq
    <3> QED BY <2>6, <3>1
  <2> HIDE DEF R, L, x, y
  <2>9. R(p) = <<x>> \o R(d)
    <3> DEFINE v == R(p)
               w == R(d)
    <3>1. /\ x \in Seq(Nat) /\ w \in Seq(Seq(Nat)) /\ v \in Seq(Seq(Nat)) /\ Len(v) = Len(w) + 1 /\ v[1] = x
          /\ \A i \in 1..Len(w) : v[i + 1] = w[i]
      BY <2>2, <2>4, <2>6, <2>7, <2>8
    <3> HIDE DEF v, w
    <3>2. v = <<x>> \o w
      BY <3>1, IsCons
    <3> QED BY <3>2 DEF v, w
  <2>10. L(p) = <<y>> \o L(d)
    <3> DEFINE v == L(p)
               w == L(d)
    <3>1. /\ y \in Nat /\ w \in Seq(Nat) /\ v \in Seq(Nat) /\ Len(v) = Len(w) + 1 /\ v[1] = y
          /\ \A i \in 1..Len(w) : v[i + 1] = w[i]
      BY <2>2, <2>4, <2>6, <2>7, <2>8
    <3> HIDE DEF v, w
    <3>2. v = <<y>> \o w
      BY <3>1, IsCons
    <3> QED BY <3>2 DEF v, w
  <2>11. FlattenSeq(R(p)) = x \o FlattenSeq(R(d))
    BY <2>4, <2>8, <2>9, FlattenCons
  <2> QED BY <2>10, <2>11 DEF RestAround, LeftAround, R, L, x, y, p
<1> QED BY <1>2, <1>3, <1>4

(***************************************************************************)
(* The tree that a save can give back                                      *)
(***************************************************************************)
LEMMA CutPathIs ==
  ASSUME NEW p \in Seq(Names)
  PROVE  /\ CutPath(p) \in Seq(Nat) /\ Len(CutPath(p)) = Len(p)
         /\ \A i \in 1..Len(p) : CutPath(p)[i] = Cut[p[i]]
         /\ \A k \in 0..Len(p) : CutPath(SubSeq(p, 1, k)) = SubSeq(CutPath(p), 1, k)
<1>1. Len(p) \in Nat /\ DOMAIN p = 1..Len(p) /\ \A i \in 1..Len(p) : p[i] \in Names
  BY LenProperties, ElementOfSeq
<1>2. CutPath(p) \in [1..Len(p) -> Nat] /\ \A i \in 1..Len(p) : CutPath(p)[i] = Cut[p[i]]
  BY <1>1, ImageAssumption DEF CutPath
<1>3. CutPath(p) \in Seq(Nat) /\ Len(CutPath(p)) = Len(p)
  BY <1>1, <1>2, FunctionIsSeq
<1>4. ASSUME NEW k \in 0..Len(p)
      PROVE  CutPath(SubSeq(p, 1, k)) = SubSeq(CutPath(p), 1, k)
  <2> DEFINE q == SubSeq(p, 1, k)
             a == CutPath(q)
             b == SubSeq(CutPath(p), 1, k)
  <2>1. q \in Seq(Names) /\ Len(q) = k /\ \A i \in 1..k : q[i] = p[i]
    BY PrefixIs
  <2> HIDE DEF q
  <2>2. DOMAIN q = 1..k /\ \A i \in 1..k : q[i] \in Names
    BY <2>1, LenProperties, ElementOfSeq
  <2>3. a \in [1..k -> Nat] /\ \A i \in 1..k : a[i] = Cut[q[i]]
    BY <2>2, ImageAssumption DEF CutPath
  <2>4. k \in Nat /\ \A i \in 1..k : i \in 1..Len(p)
    BY <1>1
  <2> HIDE DEF a
  <2>5. a \in Seq(Nat) /\ Len(a) = k
    BY <2>3, <2>4, FunctionIsSeq
  <2>6. b \in Seq(Nat) /\ Len(b) = k /\ \A i \in 1..k : b[i] = CutPath(p)[i]
    BY <1>3, PrefixIs
  <2> HIDE DEF b
  <2>7. \A i \in 1..Len(a) : a[i] = b[i]
    <3> SUFFICES ASSUME NEW i \in 1..k PROVE a[i] = b[i]
      BY <2>5
    <3>1. a[i] = Cut[p[i]]
      BY <2>1, <2>3
    <3>2. b[i] = CutPath(p)[i]
      BY <2>6
    <3>3. CutPath(p)[i] = Cut[p[i]]
      BY <1>2, <2>4
    <3> QED BY <3>1, <3>2, <3>3
  <2>8. a = b
    BY <2>5, <2>6, <2>7, SeqEqual
  <2> QED BY <2>8 DEF a, b, q
<1> QED BY <1>2, <1>3, <1>4

LEMMA CutEntry ==
  ASSUME NEW d \in Seq(Names), NEW n \in Names
  PROVE  CutPath(Append(d, n)) = Append(CutPath(d), Cut[n])
<1> DEFINE p == Append(d, n)
<1>1. /\ p \in Seq(Names) /\ Len(p) = Len(d) + 1 /\ Len(d) \in Nat
      /\ p[Len(d) + 1] = n /\ SubSeq(p, 1, Len(d)) = d
  BY AppendProperties, PrefixOfEntry, LenProperties
<1> HIDE DEF p
<1>2. /\ CutPath(p) \in Seq(Nat) /\ Len(CutPath(p)) = Len(p)
      /\ \A i \in 1..Len(p) : CutPath(p)[i] = Cut[p[i]]
      /\ \A k \in 0..Len(p) : CutPath(SubSeq(p, 1, k)) = SubSeq(CutPath(p), 1, k)
  BY <1>1, CutPathIs
<1>3. Len(p) \in 1..Len(CutPath(p)) /\ Len(p) \in 1..Len(p) /\ Len(d) \in 0..Len(p)
      /\ Len(p) - 1 = Len(d)
  BY <1>1, <1>2
<1>4. SubSeq(CutPath(p), 1, Len(p)) = Append(SubSeq(CutPath(p), 1, Len(p) - 1), CutPath(p)[Len(p)])
  BY <1>2, <1>3, ParentOfPrefix
<1>5. SubSeq(CutPath(p), 1, Len(p)) = CutPath(p)
  BY <1>2, SubSeqFull
<1>6. SubSeq(CutPath(p), 1, Len(d)) = CutPath(d) /\ CutPath(p)[Len(p)] = Cut[n]
  BY <1>1, <1>2, <1>3
<1> QED BY <1>3, <1>4, <1>5, <1>6 DEF p

LEMMA CutParent ==
  ASSUME NEW p \in Seq(Names)
  PROVE  CutPath(Parent(p)) = Parent(CutPath(p))
<1>1. CASE p = <<>>
  <2>1. CutPath(<<>>) = <<>>
    BY CutPathIs, EmptySeq
  <2>2. Parent(<<>>) = <<>>
    BY ParentPath, EmptySeq
  <2> QED BY <1>1, <2>1, <2>2
<1>2. CASE p # <<>>
  <2>1. Len(p) - 1 \in 0..Len(p)
    <3>1. Len(p) \in Nat \ {0}
      BY <1>2, EmptySeq
    <3> QED BY <3>1
  <2> QED BY <2>1, CutPathIs DEF Parent
<1> QED BY <1>1, <1>2

\* Among the paths P, those of which no other takes the place.
Shadowed(P, p) ==
  \E i \in DOMAIN p, n \in Names :
    /\ n > p[i] /\ Cut[n] = Cut[p[i]]
    /\ Append(SubSeq(p, 1, i - 1), n) \in P

KeptOf(P) == {p \in P : ~Shadowed(P, p)}

LEMMA PrefixKept ==
  ASSUME NEW P, Closed(P), NEW p \in KeptOf(P), NEW k \in 0..Len(p)
  PROVE  SubSeq(p, 1, k) \in KeptOf(P)
<1> DEFINE q == SubSeq(p, 1, k)
<1>1. p \in P /\ ~Shadowed(P, p) /\ p \in Seq(Names) /\ Len(p) \in Nat /\ DOMAIN p = 1..Len(p)
  BY LenProperties DEF KeptOf, Closed
<1>2. q \in P
  BY <1>1, ClosedPrefixes
<1>3. q \in Seq(Names) /\ Len(q) = k /\ DOMAIN q = 1..k /\ \A i \in 1..k : q[i] = p[i]
  BY <1>1, PrefixIs, LenProperties
<1>4. ASSUME NEW i \in 1..k PROVE SubSeq(q, 1, i - 1) = SubSeq(p, 1, i - 1)
  <2>1. i - 1 \in 0..k
    BY <1>1
  <2> QED BY <1>1, <2>1, PrefixOfPrefix
<1> HIDE DEF q
<1>5. ASSUME Shadowed(P, q) PROVE FALSE
  <2>1. PICK i \in DOMAIN q, n \in Names :
          /\ n > q[i] /\ Cut[n] = Cut[q[i]]
          /\ Append(SubSeq(q, 1, i - 1), n) \in P
    BY <1>5 DEF Shadowed
  <2>2. i \in 1..k /\ i \in DOMAIN p
    BY <1>1, <1>3
  <2>3. q[i] = p[i] /\ SubSeq(q, 1, i - 1) = SubSeq(p, 1, i - 1)
    BY <1>3, <1>4, <2>2
  <2>4. Shadowed(P, p)
    BY <2>1, <2>2, <2>3, Zenon DEF Shadowed
  <2> QED BY <1>1, <2>4
<1> QED BY <1>2, <1>5 DEF KeptOf, q

\* Where two paths that read alike part, neither goes on with a greater name.
LEMMA NoneShadows ==
  ASSUME NEW P, Closed(P), NEW p \in KeptOf(P), NEW q \in P, CutPath(p) = CutPath(q),
         NEW i \in 1..Len(p), \A j \in 1..(i - 1) : p[j] = q[j]
  PROVE  ~ (q[i] > p[i])
<1> SUFFICES ASSUME q[i] > p[i] PROVE FALSE
  OBVIOUS
<1>1. /\ p \in P /\ ~Shadowed(P, p) /\ p \in Seq(Names) /\ q \in Seq(Names)
      /\ Len(p) \in Nat /\ DOMAIN p = 1..Len(p)
  BY LenProperties DEF KeptOf, Closed
<1>2. Len(p) = Len(q) /\ Cut[p[i]] = Cut[q[i]]
  <2>1. Len(CutPath(p)) = Len(p) /\ CutPath(p)[i] = Cut[p[i]]
    BY <1>1, CutPathIs
  <2>2. Len(CutPath(q)) = Len(q) /\ \A j \in 1..Len(q) : CutPath(q)[j] = Cut[q[j]]
    BY <1>1, CutPathIs
  <2> QED BY <2>1, <2>2
<1>3. i - 1 \in 0..Len(p) /\ i - 1 \in 0..Len(q) /\ i \in 1..Len(q) /\ i \in 0..Len(q)
  BY <1>1, <1>2
<1>4. SubSeq(p, 1, i - 1) = SubSeq(q, 1, i - 1)
  <2> DEFINE a == SubSeq(p, 1, i - 1)
             b == SubSeq(q, 1, i - 1)
  <2>1. a \in Seq(Names) /\ Len(a) = i - 1 /\ \A j \in 1..(i - 1) : a[j] = p[j]
    BY <1>1, <1>3, PrefixIs
  <2>2. b \in Seq(Names) /\ Len(b) = i - 1 /\ \A j \in 1..(i - 1) : b[j] = q[j]
    BY <1>1, <1>3, PrefixIs
  <2> HIDE DEF a, b
  <2>3. a = b
    BY <2>1, <2>2, SeqEqual
  <2> QED BY <2>3 DEF a, b
<1>5. SubSeq(q, 1, i) = Append(SubSeq(q, 1, i - 1), q[i]) /\ q[i] \in Names
  BY <1>1, <1>3, ParentOfPrefix
<1>6. SubSeq(q, 1, i) \in P
  BY <1>3, ClosedPrefixes
<1>7. Append(SubSeq(p, 1, i - 1), q[i]) \in P
  BY <1>4, <1>5, <1>6
<1>8. Shadowed(P, p)
  BY <1>1, <1>2, <1>5, <1>7, Zenon DEF Shadowed
<1> QED BY <1>1, <1>8

\* Of the paths that read alike one at most is kept.
LEMMA KeptAreUnique ==
  ASSUME NEW P, Closed(P), NEW p \in KeptOf(P), NEW q \in KeptOf(P), CutPath(p) = CutPath(q)
  PROVE  p = q
<1> DEFINE T == {i \in 1..Len(p) : p[i] # q[i]}
<1>1. /\ p \in P /\ q \in P /\ p \in Seq(Names) /\ q \in Seq(Names) /\ Len(p) \in Nat
  BY LenProperties DEF KeptOf, Closed
<1>2. Len(p) = Len(q)
  BY <1>1, CutPathIs
<1>3. CASE T = {}
  <2>1. \A i \in 1..Len(p) : p[i] = q[i]
    BY <1>3
  <2> QED BY <1>1, <1>2, <2>1, SeqEqual
<1>4. CASE T # {}
  <2>1. T \subseteq Nat
    OBVIOUS
  <2>2. PICK i \in T : \A j \in T : i <= j
    <3> HIDE DEF T
    <3> QED BY <1>4, <2>1, LeastExists
  <2>3. i \in 1..Len(p) /\ i \in 1..Len(q) /\ p[i] # q[i]
    BY <1>2
  <2>4. \A j \in 1..(i - 1) : p[j] = q[j]
    <3> TAKE j \in 1..(i - 1)
    <3>1. j \in 1..Len(p) /\ ~ (i <= j)
      BY <1>1, <2>3
    <3> QED BY <2>2, <3>1
  <2>5. ~ (q[i] > p[i]) /\ ~ (p[i] > q[i])
    BY <1>1, <2>3, <2>4, NoneShadows
  <2>6. p[i] \in Nat /\ q[i] \in Nat
    BY <1>1, <2>3, ElementOfSeq, ImageAssumption
  <2> QED BY <2>3, <2>5, <2>6
<1> QED BY <1>3, <1>4

\* The part of the tree that has been read.
Only(t, P) == [p \in P |-> t[p]]

LEMMA SavedIs ==
  ASSUME NEW t, NEW P, Closed(P)
  PROVE  LET v == Saved(Only(t, P))
         IN  /\ v = [c \in DOMAIN v |-> v[c]]
             /\ DOMAIN v = {CutPath(p) : p \in KeptOf(P)}
             /\ \A p \in KeptOf(P) : v[CutPath(p)] = t[p]
<1> DEFINE v == Saved(Only(t, P))
           D == {CutPath(p) : p \in KeptOf(P)}
           pick(c) == CHOOSE p \in KeptOf(P) : CutPath(p) = c
<1>1. {p \in DOMAIN Only(t, P) : ~Overwritten(Only(t, P), p)} = KeptOf(P)
  BY DEF Only, Overwritten, Shadowed, KeptOf
<1>2. v = [c \in D |-> Only(t, P)[pick(c)]]
  <2> DEFINE K == {p \in DOMAIN Only(t, P) : ~Overwritten(Only(t, P), p)}
  <2>1. v = [c \in {CutPath(p) : p \in K} |-> Only(t, P)[CHOOSE p \in K : CutPath(p) = c]]
    BY DEF Saved
  <2>2. K = KeptOf(P)
    BY <1>1
  <2> HIDE DEF K, v
  <2> QED BY <2>1, <2>2
<1>3. DOMAIN v = D /\ \A c \in D : v[c] = Only(t, P)[pick(c)]
  BY <1>2
<1>4. v = [c \in DOMAIN v |-> v[c]]
  BY <1>2
<1>5. ASSUME NEW p \in KeptOf(P) PROVE v[CutPath(p)] = t[p]
  <2>1. CutPath(p) \in D
    OBVIOUS
  <2>2. pick(CutPath(p)) \in KeptOf(P) /\ CutPath(pick(CutPath(p))) = CutPath(p)
    OBVIOUS
  <2>3. pick(CutPath(p)) = p
    <3> HIDE DEF pick
    <3> QED BY <2>2, KeptAreUnique
  <2>4. Only(t, P)[p] = t[p]
    BY DEF Only, KeptOf
  <2> HIDE DEF v, D, pick
  <2> QED BY <1>3, <2>1, <2>3, <2>4
<1> HIDE DEF v
<1> QED BY <1>3, <1>4, <1>5 DEF v

\* c, or a path below it.
Within(c, s) == Len(s) >= Len(c) /\ SubSeq(s, 1, Len(c)) = c

LEMMA WithinIs ==
  ASSUME NEW c \in Seq(Nat), NEW s \in Seq(Nat)
  PROVE  Within(c, s) <=> s = c \/ Below(c, s)
<1>1. Len(c) \in Nat /\ Len(s) \in Nat /\ SubSeq(s, 1, Len(s)) = s /\ SubSeq(c, 1, Len(c)) = c
  BY LenProperties, SubSeqFull
<1>2. ASSUME Len(s) = Len(c) PROVE Within(c, s) <=> s = c
  <2>1. SubSeq(s, 1, Len(c)) = s
    BY <1>1, <1>2
  <2> QED BY <1>1, <1>2, <2>1 DEF Within
<1>3. s = c => Len(s) = Len(c)
  OBVIOUS
<1> DEFINE m == Len(c)
           n == Len(s)
           starts == SubSeq(s, 1, m) = c
<1>4. (Below(c, s) <=> n > m /\ starts) /\ (Within(c, s) <=> n >= m /\ starts)
  BY DEF Within, Below
<1>5. m \in Nat /\ n \in Nat
  BY <1>1
<1>6. (Within(c, s) /\ n # m <=> Below(c, s)) /\ (Below(c, s) => n # m)
  <2> HIDE DEF m, n, starts
  <2> QED BY <1>4, <1>5
<1> QED BY <1>2, <1>3, <1>6

\* An entry p of a directory that is kept, behind the other entries of it that have been
\* read: it takes the place of what reads as it does, and of all below that.
LEMMA NextIsKept ==
  ASSUME NEW P, Closed(P), NEW d \in KeptOf(P), NEW n \in Names, Append(d, n) \notin P,
         \A m \in Names : Append(d, m) \in P => m < n
  PROVE  LET p == Append(d, n)
             Q == P \cup {p}
         IN  /\ Closed(Q) /\ p \in KeptOf(Q)
             /\ \A q \in P : q \in KeptOf(Q) <=>
                               q \in KeptOf(P) /\ ~Within(CutPath(p), CutPath(q))
<1> DEFINE p == Append(d, n)
           Q == P \cup {p}
           c == CutPath(p)
<1>1. d \in P /\ ~Shadowed(P, d) /\ d \in Seq(Names) /\ Len(d) \in Nat /\ DOMAIN d = 1..Len(d)
  BY LenProperties DEF KeptOf, Closed
<1>2. /\ p \in Seq(Names) /\ p # <<>> /\ Parent(p) = d /\ Len(p) = Len(d) + 1
      /\ DOMAIN p = 1..(Len(d) + 1) /\ p[Len(d) + 1] = n
      /\ \A k \in 1..Len(d) : p[k] = d[k]
      /\ \A k \in 0..Len(d) : SubSeq(p, 1, k) = SubSeq(d, 1, k)
      /\ SubSeq(p, 1, Len(d)) = d
  BY <1>1, EntryPath, PrefixOfEntry, LenProperties
<1>3. c = Append(CutPath(d), Cut[n]) /\ CutPath(d) \in Seq(Nat) /\ Len(CutPath(d)) = Len(d)
      /\ c \in Seq(Nat) /\ Len(c) = Len(d) + 1
  <2>1. c = Append(CutPath(d), Cut[n])
    BY <1>1, CutEntry
  <2>2. CutPath(d) \in Seq(Nat) /\ Len(CutPath(d)) = Len(d) /\ Cut[n] \in Nat
    BY <1>1, CutPathIs, ImageAssumption
  <2> HIDE DEF c
  <2> QED BY <2>1, <2>2, AppendProperties
<1> HIDE DEF p, c
<1>4. Closed(Q)
  BY <1>1, <1>2 DEF Closed
<1>5. p \in KeptOf(Q)
  <2> SUFFICES ASSUME Shadowed(Q, p) PROVE FALSE
    BY DEF KeptOf
  <2>1. PICK i \in DOMAIN p, m \in Names :
          m > p[i] /\ Cut[m] = Cut[p[i]] /\ Append(SubSeq(p, 1, i - 1), m) \in Q
    BY DEF Shadowed
  <2> DEFINE q == Append(SubSeq(p, 1, i - 1), m)
  <2>2. i \in 1..(Len(d) + 1) /\ i - 1 \in 0..Len(d) /\ i - 1 \in 0..Len(p)
    BY <1>1, <1>2, <2>1
  <2>3. SubSeq(p, 1, i - 1) = SubSeq(d, 1, i - 1)
    BY <1>2, <2>2
  <2>4. CASE i = Len(d) + 1
    <3>1. SubSeq(p, 1, i - 1) = d /\ p[i] = n
      BY <1>1, <1>2, <2>4
    <3>2. Append(d, m) \in Q /\ m > n
      BY <2>1, <3>1
    <3>3. m \in Nat /\ n \in Nat
      BY ImageAssumption
    <3>4. Append(d, m) \in P
      <4>1. m # n
        BY <3>2, <3>3
      <4>2. Append(d, m) # Append(d, n)
        BY <1>1, <4>1, AppendInjective
      <4> QED BY <3>2, <4>2 DEF p
    <3> QED BY <3>2, <3>3, <3>4
  <2>5. CASE i # Len(d) + 1
    <3>1. i \in 1..Len(d) /\ p[i] = d[i]
      BY <1>1, <1>2, <2>2, <2>5
    <3>2. q # p
      <4>1. SubSeq(d, 1, i - 1) \in Seq(Names) /\ Len(SubSeq(d, 1, i - 1)) = i - 1
        BY <1>1, <2>2, PrefixIs
      <4>2. Len(q) = i - 1 + 1
        BY <2>3, <4>1, EntryPath
      <4>3. Len(q) # Len(p)
        BY <1>1, <1>2, <2>2, <2>5, <4>2
      <4> QED BY <4>3
    <3>3. Append(SubSeq(d, 1, i - 1), m) \in P
      BY <2>1, <2>3, <3>2
    <3>4. Shadowed(P, d)
      BY <1>1, <2>1, <3>1, <3>3, Zenon DEF Shadowed
    <3> QED BY <1>1, <3>4
  <2> QED BY <2>4, <2>5
<1>6. ASSUME NEW q \in P
      PROVE  q \in KeptOf(Q) <=> q \in KeptOf(P) /\ ~Within(c, CutPath(q))
  <2>1. q \in Seq(Names) /\ Len(q) \in Nat /\ DOMAIN q = 1..Len(q)
        /\ CutPath(q) \in Seq(Nat) /\ Len(CutPath(q)) = Len(q)
    BY CutPathIs, LenProperties DEF Closed
  <2>2. Shadowed(P, q) => Shadowed(Q, q)
    BY DEF Shadowed
  <2>3. ASSUME q \in KeptOf(P), Within(c, CutPath(q)) PROVE Shadowed(Q, q)
    <3> DEFINE k == Len(d) + 1
               m == q[k]
               e == SubSeq(q, 1, Len(d))
    <3>1. Len(q) >= k /\ SubSeq(CutPath(q), 1, k) = c
      BY <1>3, <2>1, <2>3 DEF Within
    <3>2. k \in 1..Len(q) /\ k \in 0..Len(q) /\ Len(d) \in 0..Len(q) /\ k - 1 = Len(d)
          /\ Len(d) \in 0..k
      BY <1>1, <2>1, <3>1
    <3> HIDE DEF k
    <3>3. SubSeq(q, 1, k) = Append(e, m) /\ e \in Seq(Names) /\ m \in Names
      BY <2>1, <3>2, ParentOfPrefix
    <3>4. SubSeq(q, 1, k) \in P
      BY <3>2, ClosedPrefixes
    <3>5. e \in KeptOf(P)
      BY <2>3, <3>2, PrefixKept
    <3>6. c = Append(CutPath(e), Cut[m])
      <4>1. CutPath(SubSeq(q, 1, k)) = SubSeq(CutPath(q), 1, k)
        BY <2>1, <3>2, CutPathIs
      <4> HIDE DEF e, m
      <4> QED BY <3>1, <3>3, <4>1, CutEntry
    <3> HIDE DEF e, m
    <3>7. CutPath(e) = CutPath(d) /\ Cut[m] = Cut[n]
      <4> DEFINE x == CutPath(e)
                 y == CutPath(d)
                 k1 == Cut[m]
                 k2 == Cut[n]
      <4>1. x \in Seq(Nat) /\ y \in Seq(Nat) /\ k1 \in Nat /\ k2 \in Nat
        BY <1>3, <3>3, CutPathIs, ImageAssumption
      <4>2. Append(x, k1) = Append(y, k2)
        BY <1>3, <3>6
      <4> HIDE DEF x, y, k1, k2
      <4>3. x = y /\ k1 = k2
        BY <4>1, <4>2, AppendInjective
      <4> QED BY <4>3 DEF x, y, k1, k2
    <3>8. e = d
      BY <3>5, <3>7, KeptAreUnique
    <3>9. m < n /\ m \in Nat /\ n \in Nat
      BY <3>3, <3>4, <3>8, ImageAssumption
    <3>10. Append(SubSeq(q, 1, k - 1), n) \in Q
      BY <3>2, <3>8 DEF e, p
    <3>11. n > q[k] /\ Cut[n] = Cut[q[k]]
      BY <3>7, <3>9 DEF m
    <3> QED BY <2>1, <3>2, <3>10, <3>11, Zenon DEF Shadowed
  <2>4. ASSUME Shadowed(Q, q), ~Shadowed(P, q) PROVE Within(c, CutPath(q))
    <3>1. PICK i \in DOMAIN q, m \in Names :
            m > q[i] /\ Cut[m] = Cut[q[i]] /\ Append(SubSeq(q, 1, i - 1), m) \in Q
      BY <2>4 DEF Shadowed
    <3>2. Append(SubSeq(q, 1, i - 1), m) \notin P
      BY <2>4, <3>1, Zenon DEF Shadowed
    <3>3. Append(SubSeq(q, 1, i - 1), m) = p
      BY <3>1, <3>2
    <3>4. i \in 1..Len(q) /\ i \in 0..Len(q) /\ i - 1 \in 0..Len(q)
      BY <2>1, <3>1
    <3>5. /\ SubSeq(q, 1, i) = Append(SubSeq(q, 1, i - 1), q[i]) /\ q[i] \in Names
          /\ SubSeq(q, 1, i - 1) \in Seq(Names) /\ Len(SubSeq(q, 1, i - 1)) = i - 1
      BY <2>1, <3>4, ParentOfPrefix, PrefixIs
    <3>6. SubSeq(q, 1, i - 1) = d /\ m = n
      <4> DEFINE e == SubSeq(q, 1, i - 1)
      <4>1. e \in Seq(Names) /\ d \in Seq(Names) /\ m \in Names /\ n \in Names
        BY <1>1, <3>5
      <4>2. Append(e, m) = Append(d, n)
        BY <3>3 DEF p
      <4> HIDE DEF e
      <4>3. e = d /\ m = n
        BY <4>1, <4>2, AppendInjective
      <4> QED BY <4>3 DEF e
    <3>7. i = Len(d) + 1
      BY <1>1, <3>4, <3>5, <3>6
    <3>8. CutPath(SubSeq(q, 1, i)) = Append(CutPath(d), Cut[q[i]])
      BY <1>1, <3>5, <3>6, CutEntry
    <3>9. SubSeq(CutPath(q), 1, i) = c
      BY <1>3, <2>1, <3>1, <3>4, <3>6, <3>8, CutPathIs
    <3> QED BY <1>3, <2>1, <3>4, <3>7, <3>9 DEF Within
  <2> QED BY <2>2, <2>3, <2>4 DEF KeptOf
<1> QED BY <1>4, <1>5, <1>6 DEF p, c

LEMMA SavedNext ==
  ASSUME NEW t, NEW P, Closed(P), NEW d \in KeptOf(P), NEW n \in Names, Append(d, n) \notin P,
         \A m \in Names : Append(d, m) \in P => m < n
  PROVE  Saved(Only(t, P \cup {Append(d, n)})) =
           Replaced(Saved(Only(t, P)), CutPath(Append(d, n)), t[Append(d, n)])
<1> DEFINE p == Append(d, n)
           Q == P \cup {p}
           c == CutPath(p)
           v == Saved(Only(t, P))
           w == Saved(Only(t, Q))
           u == Replaced(v, c, t[p])
<1>1. /\ Closed(Q) /\ p \in KeptOf(Q)
      /\ \A q \in P : q \in KeptOf(Q) <=> q \in KeptOf(P) /\ ~Within(c, CutPath(q))
  BY NextIsKept
<1> HIDE DEF p
<1>2. /\ DOMAIN v = {CutPath(q) : q \in KeptOf(P)}
      /\ \A q \in KeptOf(P) : v[CutPath(q)] = t[q]
  BY SavedIs
<1>3. /\ w = [x \in DOMAIN w |-> w[x]]
      /\ DOMAIN w = {CutPath(q) : q \in KeptOf(Q)}
      /\ \A q \in KeptOf(Q) : w[CutPath(q)] = t[q]
  <2> HIDE DEF Q
  <2> QED BY <1>1, SavedIs
<1>4. /\ p \in Seq(Names) /\ c \in Seq(Nat)
      /\ \A q \in P : CutPath(q) \in Seq(Nat) /\ (Within(c, CutPath(q)) <=>
                                                    CutPath(q) = c \/ Below(c, CutPath(q)))
  <2>1. p \in Seq(Names) /\ c \in Seq(Nat)
    BY <1>1, CutPathIs DEF Closed, KeptOf
  <2> HIDE DEF c
  <2> QED BY <2>1, CutPathIs, WithinIs DEF Closed
<1> HIDE DEF v, w, Q, c
<1>5. /\ DOMAIN u = {x \in DOMAIN v : ~Below(c, x)} \cup {c}
      /\ u = [x \in DOMAIN u |-> u[x]]
      /\ u[c] = t[p]
      /\ \A x \in DOMAIN u : x # c => u[x] = v[x]
  BY DEF Replaced, Insert
<1> HIDE DEF u
<1>6. \A q \in KeptOf(Q) : q = p \/ (q \in KeptOf(P) /\ q \in P)
  BY <1>1 DEF Q, KeptOf
<1>7. DOMAIN w = DOMAIN u
  <2>1. ASSUME NEW x \in DOMAIN w PROVE x \in DOMAIN u
    <3>1. PICK q \in KeptOf(Q) : x = CutPath(q)
      BY <1>3
    <3>2. CASE q = p
      BY <1>5, <3>1, <3>2 DEF c
    <3>3. CASE q \in KeptOf(P) /\ q \in P
      <4>1. ~Below(c, x) /\ x \in DOMAIN v
        BY <1>1, <1>2, <1>4, <3>1, <3>3
      <4> QED BY <1>5, <4>1
    <3> QED BY <1>6, <3>2, <3>3
  <2>2. ASSUME NEW x \in DOMAIN u PROVE x \in DOMAIN w
    <3>1. CASE x = c
      BY <1>1, <1>3, <3>1 DEF c
    <3>2. CASE x # c
      <4>1. x \in DOMAIN v /\ ~Below(c, x)
        BY <1>5, <3>2
      <4>2. PICK q \in KeptOf(P) : x = CutPath(q)
        BY <1>2, <4>1
      <4>3. q \in P
        BY DEF KeptOf
      <4>4. q \in KeptOf(Q)
        BY <1>1, <1>4, <3>2, <4>1, <4>2, <4>3
      <4> QED BY <1>3, <4>2, <4>4
    <3> QED BY <3>1, <3>2
  <2> QED BY <2>1, <2>2
<1>8. ASSUME NEW x \in DOMAIN w PROVE w[x] = u[x]
  <2>1. PICK q \in KeptOf(Q) : x = CutPath(q)
    BY <1>3
  <2>2. CASE q = p
    BY <1>3, <1>5, <2>1, <2>2 DEF c
  <2>3. CASE q \in KeptOf(P) /\ q \in P
    <3>1. x # c
      BY <1>1, <1>4, <2>1, <2>3
    <3>2. u[x] = v[x]
      BY <1>5, <1>7, <3>1
    <3> QED BY <1>2, <1>3, <2>1, <2>3, <3>2
  <2> QED BY <1>6, <2>2, <2>3
<1>9. w = u
  BY <1>3, <1>5, <1>7, <1>8
<1> QED BY <1>9 DEF w, u, v, c, Q, p

(***************************************************************************)
(* What the reader takes off the units                                     *)
(***************************************************************************)
\* Behind a type and a name comes the rest.
LEMMA BehindTwo ==
  ASSUME NEW a \in Nat, NEW b \in Nat, NEW s \in Seq(Nat)
  PROVE  LET v == <<a, b>> \o s
         IN  /\ v \in Seq(Nat) /\ Len(v) = Len(s) + 2 /\ v[1] = a /\ v[2] = b
             /\ SubSeq(v, 3, Len(v)) = s
<1> DEFINE h == <<a, b>>
           v == h \o s
<1>1. h \in Seq(Nat) /\ Len(h) = 2 /\ h[1] = a /\ h[2] = b /\ Len(s) \in Nat
  OBVIOUS
<1> HIDE DEF h
<1>2. /\ v \in Seq(Nat) /\ Len(v) = Len(h) + Len(s)
      /\ \A i \in 1..(Len(h) + Len(s)) : v[i] = IF i <= Len(h) THEN h[i] ELSE s[i - Len(h)]
  BY <1>1, ConcatProperties
<1>3. SubSeq(v, Len(h) + 1, Len(v)) = s
  BY <1>1, PartsOfConcat
<1> HIDE DEF v
<1>4. Len(v) = Len(s) + 2 /\ v[1] = a /\ v[2] = b
  BY <1>1, <1>2
<1>5. Len(h) + 1 = 3
  BY <1>1
<1> QED BY <1>2, <1>3, <1>4, <1>5 DEF v, h

\* Behind a length comes as much data, then the rest.
LEMMA BehindLength ==
  ASSUME NEW data \in Seq(Nat), NEW s \in Seq(Nat)
  PROVE  LET n == Len(data)
             v == <<n>> \o (data \o s)
         IN  /\ v \in Seq(Nat) /\ v # <<>> /\ v[1] = n /\ Len(v) = n + Len(s) + 1
             /\ SubSeq(v, 2, n + 1) = data
             /\ SubSeq(v, n + 2, Len(v)) = s
<1> DEFINE n == Len(data)
           w == data \o s
           v == <<n>> \o w
<1>1. n \in Nat /\ Len(s) \in Nat
  BY LenProperties
<1> HIDE DEF n
<1>2. /\ w \in Seq(Nat) /\ Len(w) = n + Len(s)
      /\ \A i \in 1..(n + Len(s)) : w[i] = IF i <= n THEN data[i] ELSE s[i - n]
  BY ConcatProperties DEF n
<1> HIDE DEF w
<1>3. /\ v \in Seq(Nat) /\ Len(v) = Len(w) + 1 /\ v[1] = n /\ v # <<>>
      /\ \A i \in 1..Len(w) : v[i + 1] = w[i]
  BY <1>1, <1>2, ConsIs
<1> HIDE DEF v
<1>4. SubSeq(v, 2, n + 1) = data
  <2> DEFINE m == n + 1
             x == SubSeq(v, 2, m)
  <2>1. 2 \in Nat \ {0} /\ m \in Int /\ m <= Len(v)
    BY <1>1, <1>2, <1>3
  <2>2. (IF 2 <= m THEN m - 2 + 1 ELSE 0) = n /\ m - 2 + 1 = n
    BY <1>1
  <2> HIDE DEF m
  <2>3. /\ x \in Seq(Nat) /\ Len(x) = n /\ \A i \in 1..n : x[i] = v[2 + i - 1]
    BY <1>3, <2>1, <2>2, PartOf
  <2> HIDE DEF x
  <2>4. ASSUME NEW i \in 1..n PROVE x[i] = data[i]
    <3>1. 2 + i - 1 = i + 1 /\ i \in 1..(n + Len(s)) /\ i <= n
      BY <1>1
    <3>2. i \in 1..Len(w) /\ w[i] = data[i]
      BY <1>2, <3>1
    <3> QED BY <1>3, <2>3, <3>1, <3>2
  <2>5. x = data
    <3>1. Len(x) = Len(data) /\ \A i \in 1..Len(x) : x[i] = data[i]
      BY <2>3, <2>4 DEF n
    <3> QED BY <2>3, <3>1, SeqEqual
  <2> QED BY <2>5 DEF x, m
<1>5. SubSeq(v, n + 2, Len(v)) = s
  <2> DEFINE h == <<n>> \o data
  <2>1. <<n>> \in Seq(Nat)
    BY <1>1
  <2>2. v = h \o s
    <3> DEFINE c == <<n>>
    <3>1. c \in Seq(Nat)
      BY <2>1
    <3> HIDE DEF c
    <3>2. (c \o data) \o s = c \o (data \o s)
      BY ONLY <3>1, data \in Seq(Nat), s \in Seq(Nat), ConcatAssociative
    <3> QED BY <3>2 DEF v, w, c
  <2>3. h \in Seq(Nat) /\ Len(h) = n + 1
    BY <1>1, ConsIs DEF n
  <2> HIDE DEF h
  <2>4. SubSeq(v, Len(h) + 1, Len(v)) = s
    BY <2>2, <2>3, PartsOfConcat
  <2>5. Len(h) + 1 = n + 2
    BY <1>1, <2>3
  <2> QED BY <2>4, <2>5
<1>6. Len(v) = n + Len(s) + 1
  BY <1>1, <1>2, <1>3
<1> QED BY <1>3, <1>4, <1>5, <1>6 DEF v, w, n

\* The count of a directory, then its entries.
LEMMA Descends ==
  ASSUME NEW k \in Nat, NEW x \in Seq(Nat), NEW y \in Seq(Nat), NEW tree, NEW dir, NEW left
  PROVE  /\ deserialize_dir((<<k>> \o x) \o y, tree, dir, left) =
              Reading(x \o y, tree, dir, <<k>> \o left)
         /\ Len((<<k>> \o x) \o y) = Len(x \o y) + 1 /\ (<<k>> \o x) \o y \in Seq(Nat)
<1> DEFINE s == x \o y
           v == <<k>> \o s
<1>1. <<k>> \in Seq(Nat)
  OBVIOUS
<1>2. (<<k>> \o x) \o y = v
  BY <1>1, ConcatAssociative
<1>3. s \in Seq(Nat)
  BY ConcatProperties
<1> HIDE DEF s
<1>4. v \in Seq(Nat) /\ Len(v) = Len(s) + 1 /\ v[1] = k /\ v # <<>> /\ Tail(v) = s
  BY <1>3, ConsIs
<1> HIDE DEF v
<1>5. deserialize_dir(v, tree, dir, left) = Reading(s, tree, dir, <<k>> \o left)
  BY <1>4 DEF deserialize_dir
<1> QED BY <1>2, <1>4, <1>5 DEF s

\* A file.
LEMMA ReadsFile ==
  ASSUME NEW c \in Names, NEW data \in Seq(Nat), NEW x \in Seq(Nat), NEW y \in Seq(Nat),
         NEW tree, NEW dir, NEW k \in Nat \ {0}, NEW left \in Seq(Nat)
  PROVE  LET rest == ((<<0, c, Len(data)>> \o data) \o x) \o y
         IN  /\ Round(Reading(rest, tree, dir, <<k>> \o left)) =
                  Reading(x \o y, Replaced(tree, Append(dir, c), File(data)), dir,
                          <<k - 1>> \o left)
             /\ Len(rest) > Len(x \o y)
<1> DEFINE n == Len(data)
           s == x \o y
           body == <<n>> \o (data \o s)
           rest == <<0, c>> \o body
           v == <<k>> \o left
           r == Reading(rest, tree, dir, v)
<1>1. n \in Nat /\ c \in Nat /\ s \in Seq(Nat) /\ Len(s) \in Nat
  BY LenProperties, ConcatProperties, ImageAssumption
<1>2. ((<<0, c, n>> \o data) \o x) \o y = rest
  <2> DEFINE h == <<0, c, n>>
             g == <<0, c>>
             o == <<n>>
  <2>0. h = g \o o
    OBVIOUS
  <2>1. h \in Seq(Nat) /\ g \in Seq(Nat) /\ o \in Seq(Nat)
    BY <1>1
  <2> HIDE DEF h, g, o
  <2>2. Cat(Cat(Cat(h, data), x), y) = Cat(h, Cat(data, Cat(x, y)))
    BY <2>1, FourParts
  <2> DEFINE z == data \o s
  <2>3. z \in Seq(Nat)
    <3> HIDE DEF s
    <3> QED BY <1>1, ConcatProperties
  <2> HIDE DEF z
  <2>4. Cat(Cat(g, o), z) = Cat(g, Cat(o, z))
    BY <2>1, <2>3, CatIs
  <2> QED BY <2>0, <2>2, <2>4 DEF h, g, o, z, Cat
<1> HIDE DEF s
<1>3. /\ body \in Seq(Nat) /\ body # <<>> /\ body[1] = n /\ Len(body) = n + Len(s) + 1
      /\ SubSeq(body, 2, n + 1) = data
      /\ SubSeq(body, n + 2, Len(body)) = s
  BY <1>1, BehindLength
<1> HIDE DEF body
<1>4. /\ rest \in Seq(Nat) /\ Len(rest) = Len(body) + 2 /\ rest[1] = 0 /\ rest[2] = c
      /\ SubSeq(rest, 3, Len(rest)) = body
  <2>1. 0 \in Nat
    OBVIOUS
  <2> QED BY <1>1, <1>3, <2>1, BehindTwo, Zenon
<1> HIDE DEF rest, n
<1>5. v[1] = k /\ Tail(v) = left /\ v # <<>>
  BY ConsIs
<1> HIDE DEF v
<1>6. Len(rest) > Len(s) /\ ~ (Len(rest) < 2) /\ ~ (Len(body) - 1 < n) /\ rest[1] \in {0, 1} /\ rest[1] # 1
  <2>1. Len(rest) = n + Len(s) + 1 + 2 /\ Len(body) - 1 = n + Len(s) /\ rest[1] = 0
    BY <1>1, <1>3, <1>4
  <2> QED BY <1>1, <2>1
<1>7. Round(r) = deserialize_entry(r)
  BY <1>5 DEF Round, Reading
<1>8. r.rest = rest /\ r.tree = tree /\ r.dir = dir /\ r.left = v
  BY DEF Reading
<1> HIDE DEF r
<1>9. deserialize_entry(r) =
        Reading(s, Replaced(tree, Append(dir, c), File(data)), dir, <<k - 1>> \o left)
  BY <1>3, <1>4, <1>5, <1>6, <1>8 DEF deserialize_entry
<1> QED BY <1>2, <1>6, <1>7, <1>9 DEF r, v, s, n

\* A directory.
LEMMA ReadsDirectory ==
  ASSUME NEW c \in Names, NEW j \in Nat, NEW w \in Seq(Nat), NEW x \in Seq(Nat), NEW y \in Seq(Nat),
         NEW tree, NEW dir, NEW k \in Nat \ {0}, NEW left \in Seq(Nat)
  PROVE  LET rest == ((<<1, c>> \o (<<j>> \o w)) \o x) \o y
             path == Append(dir, c)
         IN  /\ Round(Reading(rest, tree, dir, <<k>> \o left)) =
                  Reading(w \o (x \o y), Replaced(tree, path, Dir), path,
                          <<j>> \o (<<k - 1>> \o left))
             /\ Len(rest) > Len(w \o (x \o y)) + 1
<1> DEFINE s == x \o y
           body == (<<j>> \o w) \o s
           rest == <<1, c>> \o body
           v == <<k>> \o left
           r == Reading(rest, tree, dir, v)
<1>1. c \in Nat /\ s \in Seq(Nat) /\ Len(s) \in Nat /\ <<j>> \in Seq(Nat) /\ <<j>> \o w \in Seq(Nat)
  BY LenProperties, ConcatProperties, ConsIs, ImageAssumption
<1>2. ((<<1, c>> \o (<<j>> \o w)) \o x) \o y = rest
  <2> DEFINE g == <<1, c>>
             h == <<j>> \o w
  <2>1. g \in Seq(Nat) /\ h \in Seq(Nat)
    BY <1>1
  <2> HIDE DEF g, h
  <2>2. Cat(Cat(Cat(g, h), x), y) = Cat(g, Cat(h, Cat(x, y)))
    BY <2>1, FourParts
  <2> QED BY <2>2 DEF g, h, Cat
<1> HIDE DEF s
<1>3. /\ \A l : deserialize_dir(body, Replaced(tree, Append(dir, c), Dir), Append(dir, c), l) =
                 Reading(w \o s, Replaced(tree, Append(dir, c), Dir), Append(dir, c), <<j>> \o l)
      /\ Len(body) = Len(w \o s) + 1 /\ body \in Seq(Nat)
  BY <1>1, Descends
<1> HIDE DEF body
<1>4. /\ rest \in Seq(Nat) /\ Len(rest) = Len(body) + 2 /\ rest[1] = 1 /\ rest[2] = c
      /\ SubSeq(rest, 3, Len(rest)) = body
  <2>1. 1 \in Nat
    OBVIOUS
  <2> QED BY <1>1, <1>3, <2>1, BehindTwo, Zenon
<1> HIDE DEF rest
<1>5. v[1] = k /\ Tail(v) = left /\ v # <<>>
  BY ConsIs
<1> HIDE DEF v
<1>6. Len(rest) > Len(w \o s) + 1 /\ ~ (Len(rest) < 2) /\ rest[1] \in {0, 1}
  <2>1. Len(w \o s) \in Nat
    BY <1>1, ConcatProperties, LenProperties
  <2>2. Len(rest) = Len(w \o s) + 1 + 2 /\ rest[1] = 1
    BY <1>3, <1>4
  <2> QED BY <2>1, <2>2
<1>7. Round(r) = deserialize_entry(r)
  BY <1>5 DEF Round, Reading
<1>8. r.rest = rest /\ r.tree = tree /\ r.dir = dir /\ r.left = v
  BY DEF Reading
<1> HIDE DEF r
<1>9. deserialize_entry(r) =
        deserialize_dir(body, Replaced(tree, Append(dir, c), Dir), Append(dir, c), <<k - 1>> \o left)
  BY <1>4, <1>5, <1>6, <1>8 DEF deserialize_entry
<1> QED BY <1>2, <1>3, <1>6, <1>7, <1>9 DEF r, v, s

\* An entry whose name was cut inside a character.
LEMMA Refuses ==
  ASSUME NEW a \in Nat, NEW c \in Nat, c \notin Names, NEW b \in Seq(Nat), NEW x \in Seq(Nat),
         NEW y \in Seq(Nat), NEW tree, NEW dir, NEW k \in Nat \ {0}, NEW left \in Seq(Nat)
  PROVE  Round(Reading(Cat(Cat(Cat(<<a, c>>, b), x), y), tree, dir, <<k>> \o left)) = Corrupt
<1> DEFINE s == Cat(b, Cat(x, y))
           rest == <<a, c>> \o s
           v == <<k>> \o left
           r == Reading(rest, tree, dir, v)
<1>1. Cat(Cat(Cat(<<a, c>>, b), x), y) = rest
  <2> DEFINE g == <<a, c>>
  <2>1. g \in Seq(Nat)
    OBVIOUS
  <2> HIDE DEF g
  <2>2. Cat(Cat(Cat(g, b), x), y) = Cat(g, Cat(b, Cat(x, y)))
    BY <2>1, FourParts
  <2> QED BY <2>2 DEF g, Cat
<1>2. s \in Seq(Nat) /\ a \in Nat /\ c \in Nat
  BY ConcatProperties DEF Cat
<1> HIDE DEF s
<1>3. rest[2] = c
  <2>1. LET v1 == <<a, c>> \o s
        IN  /\ v1 \in Seq(Nat) /\ Len(v1) = Len(s) + 2 /\ v1[1] = a /\ v1[2] = c
            /\ SubSeq(v1, 3, Len(v1)) = s
    BY <1>2, BehindTwo
  <2> QED BY <2>1
<1> HIDE DEF rest
<1>4. v[1] = k /\ v # <<>>
  BY ConsIs
<1> HIDE DEF v
<1>5. Round(r) = deserialize_entry(r)
  BY <1>4 DEF Round, Reading
<1>6. r.rest = rest
  BY DEF Reading
<1> HIDE DEF r
<1>7. deserialize_entry(r) = Corrupt
  BY <1>3, <1>6 DEF deserialize_entry
<1> QED BY <1>1, <1>5, <1>7 DEF r, v

\* The end of a directory.
LEMMA ReadsEnd ==
  ASSUME NEW rest, NEW tree, NEW dir, NEW left \in Seq(Nat)
  PROVE  Round(Reading(rest, tree, dir, <<0>> \o left)) = Reading(rest, tree, Parent(dir), left)
<1> DEFINE v == <<0>> \o left
<1>1. v[1] = 0 /\ Tail(v) = left /\ v # <<>>
  BY ConsIs
<1> HIDE DEF v
<1>2. Round(Reading(rest, tree, dir, v)) = Reading(rest, tree, Parent(dir), left)
  BY <1>1 DEF Round, Reading
<1> QED BY <1>2 DEF v

(***************************************************************************)
(* What has been read at a place                                           *)
(***************************************************************************)
OnTheWay(d) == {SubSeq(d, 1, k) : k \in 0..Len(d)}

LEMMA WayIs ==
  /\ OnTheWay(<<>>) = {<<>>}
  /\ \A d \in Seq(Names) : d \in OnTheWay(d)
  /\ \A d \in Seq(Names), n \in Names :
       OnTheWay(Append(d, n)) = OnTheWay(d) \cup {Append(d, n)}
<1>1. OnTheWay(<<>>) = {<<>>}
  <2>1. Len(<<>>) = 0 /\ SubSeq(<<>>, 1, 0) = <<>> /\ 0..0 = {0}
    BY SubSeqEmpty
  <2> QED BY <2>1 DEF OnTheWay
<1>2. ASSUME NEW d \in Seq(Names) PROVE d \in OnTheWay(d) /\ Len(d) \in Nat
  <2>1. SubSeq(d, 1, Len(d)) = d /\ Len(d) \in Nat /\ Len(d) \in 0..Len(d)
    BY SubSeqFull, LenProperties
  <2> QED BY <2>1 DEF OnTheWay
<1>3. ASSUME NEW d \in Seq(Names), NEW n \in Names
      PROVE  OnTheWay(Append(d, n)) = OnTheWay(d) \cup {Append(d, n)}
  <2> DEFINE p == Append(d, n)
  <2>1. Len(p) = Len(d) + 1 /\ p \in Seq(Names) /\ Len(d) \in Nat
    BY <1>2, EntryPath
  <2>2. \A k \in 0..Len(d) : SubSeq(p, 1, k) = SubSeq(d, 1, k)
    BY PrefixOfEntry
  <2>3. SubSeq(p, 1, Len(p)) = p
    BY <2>1, SubSeqFull
  <2> HIDE DEF p
  <2>4. 0..Len(p) = 0..Len(d) \cup {Len(p)}
    BY <2>1
  <2> QED BY <2>2, <2>3, <2>4 DEF OnTheWay, p
<1> QED BY <1>1, <1>2, <1>3

\* Of d the first i entries, of the directories around it those up to the one on the
\* way to d, and all of those that are not on this way.
ReadTo(t, d, i, P) ==
  /\ Closed(P) /\ P \subseteq DOMAIN t /\ d \in P
  /\ \A m \in Names : Append(d, m) \in P <=> m \in Children(t, d) /\ Place(t, d, m) <= i
  /\ \A j \in 1..Len(d) : \A m \in Names :
       LET e == SubSeq(d, 1, j - 1)
       IN  Append(e, m) \in P <=> m \in Children(t, e) /\ m <= d[j]
  /\ \A q \in P \ OnTheWay(d) : \A m \in Names : Append(q, m) \in DOMAIN t => Append(q, m) \in P

LEMMA ReadToKeeps ==
  ASSUME NEW t, NEW d, NEW i, NEW P, ReadTo(t, d, i, P)
  PROVE  d \in KeptOf(P)
<1>1. Closed(P) /\ d \in P /\ d \in Seq(Names) /\ DOMAIN d = 1..Len(d)
  BY LenProperties DEF ReadTo, Closed
<1> SUFFICES ASSUME Shadowed(P, d) PROVE FALSE
  BY <1>1 DEF KeptOf
<1>2. PICK j \in 1..Len(d), m \in Names :
        m > d[j] /\ Append(SubSeq(d, 1, j - 1), m) \in P
  BY <1>1 DEF Shadowed
<1>3. m <= d[j]
  BY <1>2 DEF ReadTo
<1>4. m \in Nat /\ d[j] \in Nat
  BY <1>1, ElementOfSeq, ImageAssumption
<1> QED BY <1>2, <1>3, <1>4

\* The entries of a directory are in the order of their places.
LEMMA PlaceIs ==
  ASSUME NEW t, Stored(t), NEW d \in Seq(Names)
  PROVE  /\ Kids(t, d) \in Nat
         /\ \A m \in Children(t, d) : m \in Names /\ m \in Nat /\ Place(t, d, m) \in 1..Kids(t, d)
         /\ \A m, n \in Children(t, d) : m <= n <=> Place(t, d, m) <= Place(t, d, n)
         /\ \A i \in 0..(Kids(t, d) - 1) :
              LET n == Sorted(Children(t, d))[i + 1]
              IN  n \in Children(t, d) /\ Place(t, d, n) = i + 1
<1> DEFINE C == Children(t, d)
           K == Cardinality(C)
<1>1. /\ K \in Nat
      /\ \A k \in 1..K : Sorted(C)[k] \in C /\ Rank(Sorted(C)[k], C) = k
      /\ \A n \in C : Rank(n, C) \in 1..K
      /\ \A m, n \in C : m < n => Rank(m, C) < Rank(n, C)
  BY ChildrenInOrder
<1>2. C \subseteq Names /\ C \subseteq Nat
  BY ChildrenAre, ImageAssumption DEF Stored
<1> HIDE DEF C, K
<1>3. ASSUME NEW m \in C, NEW n \in C PROVE m <= n <=> Rank(m, C) <= Rank(n, C)
  <2>1. m \in Nat /\ n \in Nat /\ Rank(m, C) \in Nat /\ Rank(n, C) \in Nat
    BY <1>1, <1>2
  <2>2. m = n => Rank(m, C) = Rank(n, C)
    OBVIOUS
  <2> QED BY <1>1, <2>1, <2>2
<1>4. ASSUME NEW i \in 0..(K - 1)
      PROVE  Sorted(C)[i + 1] \in C /\ Rank(Sorted(C)[i + 1], C) = i + 1
  <2>1. i + 1 \in 1..K
    BY <1>1
  <2> QED BY <1>1, <2>1
<1> QED BY <1>1, <1>2, <1>3, <1>4 DEF Kids, Place, C, K

LEMMA ReadNothing ==
  ASSUME NEW t, Stored(t)
  PROVE  ReadTo(t, <<>>, 0, {<<>>})
<1>1. Closed({<<>>}) /\ {<<>>} \subseteq DOMAIN t
  BY EmptySeq DEF Closed, Stored, Tree, IsTree
<1>2. \A m \in Names : Append(<<>>, m) # <<>>
  BY EntryPath, EmptySeq
<1>3. \A m \in Children(t, <<>>) : ~ (Place(t, <<>>, m) <= 0)
  <2> DEFINE r == <<>>
  <2>1. r \in Seq(Names)
    BY EmptySeq
  <2> HIDE DEF r
  <2>2. \A m \in Children(t, r) : Place(t, r, m) \in 1..Kids(t, r) /\ Kids(t, r) \in Nat
    BY <2>1, PlaceIs
  <2>3. \A m \in Children(t, r) : ~ (Place(t, r, m) <= 0)
    BY <2>2
  <2> QED BY <2>3 DEF r
<1>4. 1..Len(<<>>) = {}
  OBVIOUS
<1> QED BY <1>1, <1>2, <1>3, <1>4, WayIs DEF ReadTo

LEMMA ReadNext ==
  ASSUME NEW t, Stored(t), NEW d, NEW i, NEW P, ReadTo(t, d, i, P), i \in 0..(Kids(t, d) - 1)
  PROVE  LET n == Sorted(Children(t, d))[i + 1]
             p == Append(d, n)
         IN  /\ d \in Seq(Names) /\ n \in Children(t, d) /\ n \in Names /\ p \in DOMAIN t \ P
             /\ Place(t, d, n) = i + 1
             /\ \A m \in Names : Append(d, m) \in P => m < n
             /\ t[p] # Dir => ReadTo(t, d, i + 1, P \cup {p})
             /\ t[p] = Dir => ReadTo(t, p, 0, P \cup {p})
<1> DEFINE n == Sorted(Children(t, d))[i + 1]
           p == Append(d, n)
           Q == P \cup {p}
<1>1. Closed(P) /\ P \subseteq DOMAIN t /\ d \in P /\ d \in Seq(Names) /\ Len(d) \in Nat /\ i \in Nat
  BY LenProperties DEF ReadTo, Closed
<1>2. n \in Children(t, d) /\ Place(t, d, n) = i + 1
  BY <1>1, PlaceIs
<1> HIDE DEF n
<1>3. n \in Names /\ n \in Nat /\ p \in DOMAIN t
  BY <1>1, <1>2, ChildrenAre, ImageAssumption DEF Stored
<1>4. p \notin P
  <2>1. ~ (i + 1 <= i)
    BY <1>1
  <2> QED BY <1>2, <1>3, <2>1 DEF ReadTo
<1>5. ASSUME NEW m \in Names, Append(d, m) \in P PROVE m < n
  <2>1. m \in Children(t, d) /\ Place(t, d, m) <= i
    BY <1>5 DEF ReadTo
  <2>2. Place(t, d, m) \in Nat /\ m \in Nat
    BY <1>1, <2>1, PlaceIs
  <2>3. ~ (n <= m)
    <3>1. ~ (i + 1 <= Place(t, d, m))
      BY <1>1, <2>1, <2>2
    <3>2. n <= m <=> Place(t, d, n) <= Place(t, d, m)
      BY <1>1, <1>2, <2>1, PlaceIs
    <3> QED BY <1>2, <3>1, <3>2
  <2> QED BY <1>3, <2>2, <2>3
<1>6. /\ p \in Seq(Names) /\ p # <<>> /\ Parent(p) = d /\ Len(p) = Len(d) + 1 /\ p # d
      /\ \A k \in 0..Len(d) : SubSeq(p, 1, k) = SubSeq(d, 1, k)
      /\ SubSeq(p, 1, Len(d)) = d
      /\ \A k \in 1..Len(d) : p[k] = d[k]
      /\ p[Len(d) + 1] = n
  BY <1>1, <1>3, EntryPath, PrefixOfEntry
<1>7. \A m \in Names : Append(d, m) = p <=> m = n
  BY <1>1, <1>3, AppendInjective
<1> HIDE DEF p
<1>8. Closed(Q) /\ Q \subseteq DOMAIN t /\ d \in Q /\ p \in Q
  BY <1>1, <1>3, <1>6 DEF Closed
<1>9. ASSUME NEW m \in Names
      PROVE  /\ Append(d, m) \in Q <=> m \in Children(t, d) /\ Place(t, d, m) <= i + 1
             /\ Append(d, m) \in Q <=> m \in Children(t, d) /\ m <= n
  <2>1. Append(d, m) \in Q <=> (m \in Children(t, d) /\ Place(t, d, m) <= i) \/ m = n
    BY <1>7 DEF ReadTo
  <2>2. CASE m \in Children(t, d)
    <3>1. Place(t, d, m) \in Nat /\ m \in Nat
      BY <1>1, <2>2, PlaceIs
    <3>2. m <= n <=> Place(t, d, m) <= i + 1
      BY <1>1, <1>2, <2>2, PlaceIs
    <3>3. n <= m <=> i + 1 <= Place(t, d, m)
      BY <1>1, <1>2, <2>2, PlaceIs
    <3>4. m = n <=> Place(t, d, m) = i + 1
      BY <1>1, <1>3, <3>1, <3>2, <3>3
    <3> QED BY <1>1, <2>1, <2>2, <3>1, <3>2, <3>4
  <2>3. CASE m \notin Children(t, d)
    BY <1>2, <2>1, <2>3
  <2> QED BY <2>2, <2>3
<1>10. ASSUME NEW j \in 1..Len(d), NEW m \in Names
       PROVE  LET e == SubSeq(d, 1, j - 1)
              IN  Append(e, m) \in Q <=> m \in Children(t, e) /\ m <= d[j]
  <2> DEFINE e == SubSeq(d, 1, j - 1)
  <2>1. j - 1 \in 0..Len(d)
    BY <1>1
  <2>2. e \in Seq(Names) /\ Len(e) = j - 1
    BY <1>1, <2>1, PrefixIs
  <2>3. Append(e, m) # p
    <3>1. Len(Append(e, m)) = j - 1 + 1
      BY <2>2, EntryPath
    <3>2. j - 1 + 1 # Len(p)
      BY <1>1, <1>6
    <3> QED BY <3>1, <3>2
  <2>4. Append(e, m) \in P <=> m \in Children(t, e) /\ m <= d[j]
    BY DEF ReadTo
  <2> QED BY <2>3, <2>4
<1>11. ASSUME t[p] # Dir PROVE ReadTo(t, d, i + 1, Q)
  <2>1. ASSUME NEW q \in Q \ OnTheWay(d), NEW m \in Names, Append(q, m) \in DOMAIN t
        PROVE  Append(q, m) \in Q
    <3>1. CASE q = p
      <4>1. Append(p, m) # <<>> /\ Parent(Append(p, m)) = p
        BY <1>6, EntryPath
      <4>2. t[p] = Dir
        <5> DEFINE x == Append(p, m)
        <5>1. x \in DOMAIN t \ {<<>>} /\ Parent(x) = p
          BY <2>1, <3>1, <4>1
        <5> HIDE DEF x
        <5> QED BY <5>1 DEF Stored, Tree, IsTree
      <4> QED BY <1>11, <4>2
    <3>2. CASE q \in P
      BY <2>1, <3>2 DEF ReadTo
    <3> QED BY <3>1, <3>2
  <2> HIDE DEF Q
  <2> QED BY <1>8, <1>9, <1>10, <2>1 DEF ReadTo
<1>12. ASSUME t[p] = Dir PROVE ReadTo(t, p, 0, Q)
  <2>1. ASSUME NEW m \in Names
        PROVE  Append(p, m) \in Q <=> m \in Children(t, p) /\ Place(t, p, m) <= 0
    <3>1. Append(p, m) # <<>> /\ Parent(Append(p, m)) = p /\ Append(p, m) # p
      BY <1>6, EntryPath
    <3>2. Append(p, m) \notin Q
      BY <1>4, <1>1, <3>1 DEF Closed
    <3>3. m \in Children(t, p) => ~ (Place(t, p, m) <= 0)
      BY <1>6, PlaceIs
    <3> QED BY <3>2, <3>3
  <2>2. ASSUME NEW j \in 1..Len(p), NEW m \in Names
        PROVE  LET e == SubSeq(p, 1, j - 1)
               IN  Append(e, m) \in Q <=> m \in Children(t, e) /\ m <= p[j]
    <3>1. CASE j = Len(p)
      <4>1. SubSeq(p, 1, j - 1) = d /\ p[j] = n
        BY <1>1, <1>6, <3>1
      <4> HIDE DEF Q
      <4> QED BY <1>9, <4>1
    <3>2. CASE j # Len(p)
      <4>1. j \in 1..Len(d) /\ j - 1 \in 0..Len(d)
        BY <1>1, <1>6, <3>2
      <4>2. SubSeq(p, 1, j - 1) = SubSeq(d, 1, j - 1) /\ p[j] = d[j]
        BY <1>6, <4>1
      <4> HIDE DEF Q
      <4> QED BY <1>10, <4>1, <4>2
    <3> QED BY <3>1, <3>2
  <2>3. OnTheWay(p) = OnTheWay(d) \cup {p}
    BY <1>1, <1>3, WayIs DEF p
  <2>4. ASSUME NEW q \in Q \ OnTheWay(p), NEW m \in Names, Append(q, m) \in DOMAIN t
        PROVE  Append(q, m) \in Q
    <3>1. q \in P \ OnTheWay(d)
      BY <2>3, <2>4
    <3> QED BY <2>4, <3>1 DEF ReadTo
  <2> HIDE DEF Q
  <2> QED BY <1>8, <2>1, <2>2, <2>4 DEF ReadTo
<1> QED BY <1>1, <1>2, <1>3, <1>4, <1>5, <1>11, <1>12 DEF p, n

LEMMA ReadBack ==
  ASSUME NEW t, Stored(t), NEW d, NEW P, ReadTo(t, d, Kids(t, d), P), d # <<>>
  PROVE  LET e == Parent(d)
             n == d[Len(d)]
         IN  /\ e \in DOMAIN t /\ t[e] = Dir /\ e \in Seq(Names) /\ n \in Children(t, e)
             /\ d = Append(e, n) /\ ReadTo(t, e, Place(t, e, n), P)
<1> DEFINE e == Parent(d)
           n == d[Len(d)]
<1>1. Closed(P) /\ P \subseteq DOMAIN t /\ d \in P /\ d \in Seq(Names) /\ d \in DOMAIN t
  BY DEF ReadTo, Closed
<1>2. e \in Seq(Names) /\ n \in Names /\ d = Append(e, n)
  BY <1>1, ParentPath
<1>3. e \in P /\ e \in DOMAIN t /\ t[e] = Dir
  BY <1>1 DEF Closed, Stored, Tree, IsTree
<1> HIDE DEF e, n
<1>4. n \in Children(t, e)
  BY <1>1, <1>2, ChildrenAre DEF Stored
<1>5. /\ Len(e) \in Nat /\ Len(d) = Len(e) + 1
      /\ \A k \in 0..Len(e) : SubSeq(d, 1, k) = SubSeq(e, 1, k)
      /\ SubSeq(d, 1, Len(e)) = e
      /\ \A k \in 1..Len(e) : d[k] = e[k]
      /\ d[Len(e) + 1] = n
  BY <1>2, PrefixOfEntry, EntryPath, LenProperties
<1>6. ASSUME NEW m \in Names
      PROVE  Append(e, m) \in P <=> m \in Children(t, e) /\ Place(t, e, m) <= Place(t, e, n)
  <2>1. Len(d) \in 1..Len(d) /\ Len(d) - 1 = Len(e) /\ SubSeq(d, 1, Len(d) - 1) = e /\ d[Len(d)] = n
    BY <1>5
  <2>2. Append(e, m) \in P <=> m \in Children(t, e) /\ m <= n
    BY <2>1 DEF ReadTo
  <2>3. m \in Children(t, e) => (m <= n <=> Place(t, e, m) <= Place(t, e, n))
    BY <1>2, <1>4, PlaceIs
  <2> QED BY <2>2, <2>3
<1>7. ASSUME NEW j \in 1..Len(e), NEW m \in Names
      PROVE  LET x == SubSeq(e, 1, j - 1)
             IN  Append(x, m) \in P <=> m \in Children(t, x) /\ m <= e[j]
  <2>1. j \in 1..Len(d) /\ j - 1 \in 0..Len(e)
    BY <1>5
  <2>2. SubSeq(d, 1, j - 1) = SubSeq(e, 1, j - 1) /\ d[j] = e[j]
    BY <1>5, <2>1
  <2>3. LET x == SubSeq(d, 1, j - 1)
        IN  Append(x, m) \in P <=> m \in Children(t, x) /\ m <= d[j]
    BY <2>1 DEF ReadTo
  <2> QED BY <2>2, <2>3
<1>8. OnTheWay(d) = OnTheWay(e) \cup {d}
  BY <1>2, WayIs
<1>9. ASSUME NEW q \in P \ OnTheWay(e), NEW m \in Names, Append(q, m) \in DOMAIN t
      PROVE  Append(q, m) \in P
  <2>1. CASE q = d
    <3>1. m \in Children(t, d)
      BY <1>1, <1>9, <2>1, ChildrenAre DEF Stored
    <3>2. Place(t, d, m) <= Kids(t, d)
      BY <1>1, <3>1, PlaceIs
    <3> QED BY <2>1, <3>1, <3>2 DEF ReadTo
  <2>2. CASE q # d
    BY <1>8, <1>9, <2>2 DEF ReadTo
  <2> QED BY <2>1, <2>2
<1>10. ReadTo(t, e, Place(t, e, n), P)
  BY <1>1, <1>3, <1>6, <1>7, <1>9 DEF ReadTo
<1> QED BY <1>2, <1>3, <1>4, <1>10 DEF e, n

LEMMA ReadAll ==
  ASSUME NEW t, Stored(t), NEW P, ReadTo(t, <<>>, Kids(t, <<>>), P)
  PROVE  P = DOMAIN t
<1> DEFINE S == {k \in Nat : \A p \in DOMAIN t : Len(p) <= k => p \in P}
<1>1. \A p \in DOMAIN t : p \in Seq(Names) /\ Len(p) \in Nat
  BY LenProperties DEF Stored, Tree
<1>2. <<>> \in P /\ P \subseteq DOMAIN t
  BY DEF ReadTo
<1>3. 0 \in S
  <2>1. \A p \in DOMAIN t : Len(p) <= 0 => p = <<>>
    BY <1>1, EmptySeq
  <2> QED BY <1>2, <2>1
<1>4. ASSUME NEW k \in Nat, k \in S PROVE k + 1 \in S
  <2> SUFFICES ASSUME NEW p \in DOMAIN t, Len(p) <= k + 1, p # <<>> PROVE p \in P
    BY <1>2
  <2> DEFINE e == Parent(p)
             n == p[Len(p)]
  <2>1. e \in Seq(Names) /\ Len(e) = Len(p) - 1 /\ n \in Names /\ p = Append(e, n)
    BY <1>1, ParentPath
  <2>2. e \in DOMAIN t
    BY DEF Stored, Tree, IsTree
  <2> HIDE DEF e, n
  <2>3. e \in P
    <3>1. Len(e) <= k
      BY <1>1, <2>1
    <3> QED BY <1>4, <2>2, <3>1
  <2>4. CASE e = <<>>
    <3>1. n \in Children(t, <<>>)
      BY <2>1, <2>4, ChildrenAre DEF Stored
    <3>2. Place(t, <<>>, n) <= Kids(t, <<>>)
      <4>1. n \in Children(t, e)
        BY <2>4, <3>1
      <4>2. Place(t, e, n) \in 1..Kids(t, e) /\ Kids(t, e) \in Nat
        BY <2>1, <4>1, PlaceIs
      <4>3. Place(t, e, n) <= Kids(t, e)
        BY <4>2
      <4> QED BY <2>4, <4>3
    <3> QED BY <2>1, <2>4, <3>1, <3>2 DEF ReadTo
  <2>5. CASE e # <<>>
    <3>1. e \in P \ OnTheWay(<<>>)
      BY <2>3, <2>5, WayIs
    <3> QED BY <2>1, <3>1 DEF ReadTo
  <2> QED BY <2>4, <2>5
<1> HIDE DEF S
<1>5. \A k \in Nat : k \in S
  BY <1>3, <1>4, SetInduction
<1>6. ASSUME NEW p \in DOMAIN t PROVE p \in P
  <2>1. Len(p) \in S /\ Len(p) <= Len(p)
    BY <1>1, <1>5
  <2> QED BY <2>1 DEF S
<1> QED BY <1>2, <1>6

(***************************************************************************)
(* The reader on what serialize wrote                                      *)
(***************************************************************************)
LEMMA DescendsOn ==
  ASSUME NEW k \in Nat, NEW x \in Seq(Nat), NEW y \in Seq(Nat), NEW tree, NEW dir, NEW left
  PROVE  LET units == Cat(Cat(<<k>>, x), y)
         IN  /\ deserialize_dir(units, tree, dir, left) =
                  Reading(Cat(x, y), tree, dir, Cat(<<k>>, left))
             /\ Len(units) = Len(Cat(x, y)) + 1 /\ units \in Seq(Nat)
BY Descends DEF Cat

One(k) == <<k>>
Directory(c) == <<1, c>>

LEMMA ReadsDirectoryOn ==
  ASSUME NEW c \in Names, NEW j \in Nat, NEW w \in Seq(Nat), NEW x \in Seq(Nat), NEW y \in Seq(Nat),
         NEW tree, NEW dir, NEW k \in Nat \ {0}, NEW left \in Seq(Nat)
  PROVE  LET rest == Cat(Cat(Cat(Directory(c), Cat(One(j), w)), x), y)
             path == Append(dir, c)
         IN  /\ Round(Reading(rest, tree, dir, Cat(One(k), left))) =
                  Reading(Cat(w, Cat(x, y)), Replaced(tree, path, Dir), path,
                          Cat(One(j), Cat(One(k - 1), left)))
             /\ Len(rest) > Len(Cat(w, Cat(x, y))) + 1
BY ReadsDirectory DEF Cat, One, Directory

\* Where the reader is in directory d behind its first i entries.
StateAt(t, f, d, i, P) ==
  Reading(RestIn(t, f, d, i) \o RestAround(t, f, d), Saved(Only(t, P)), CutPath(d),
          <<Kids(t, d) - i>> \o LeftAround(t, d))

\* None of the paths P ends in a name that is cut inside a character.
Legible(P) == \A p \in P : p # <<>> => Cut[p[Len(p)]] \in Names

At(t, f, d, i, P) ==
  d \in DOMAIN t /\ t[d] = Dir /\ i \in 0..Kids(t, d) /\ ReadTo(t, d, i, P) /\ Legible(P)

Finished(t) == Reading(<<>>, Saved(t), <<>>, <<>>)

Outcome(t) == IF Legible(DOMAIN t) THEN Finished(t) ELSE Corrupt

OnCourse(t, f, r) == r = Outcome(t) \/ \E d, i, P : At(t, f, d, i, P) /\ r = StateAt(t, f, d, i, P)

Work(r) == Len(r.rest) + Len(r.left)

LEMMA StateIs ==
  ASSUME NEW t, Stored(t), NEW f, Writes(t, f, DOMAIN t), NEW d, NEW i, NEW P, At(t, f, d, i, P)
  PROVE  /\ d \in Seq(Names) /\ Kids(t, d) \in Nat /\ Kids(t, d) - i \in Nat /\ i \in Nat
         /\ RestIn(t, f, d, i) \in Seq(Nat) /\ RestAround(t, f, d) \in Seq(Nat)
         /\ LeftAround(t, d) \in Seq(Nat)
         /\ Work(StateAt(t, f, d, i, P)) =
              Len(RestIn(t, f, d, i) \o RestAround(t, f, d)) + Len(LeftAround(t, d)) + 1
         /\ Work(StateAt(t, f, d, i, P)) \in Nat \ {0}
<1> DEFINE x == RestIn(t, f, d, i) \o RestAround(t, f, d)
           l == <<Kids(t, d) - i>> \o LeftAround(t, d)
<1>1. /\ d \in Seq(Names) /\ Kids(t, d) \in Nat
      /\ RestIn(t, f, d, i) \in Seq(Nat) /\ RestAround(t, f, d) \in Seq(Nat)
      /\ LeftAround(t, d) \in Seq(Nat)
  BY PiecesOf, AroundTypes DEF At
<1>2. Kids(t, d) - i \in Nat /\ i \in Nat
  BY <1>1 DEF At
<1>3. x \in Seq(Nat) /\ Len(x) \in Nat
  BY <1>1, ConcatProperties, LenProperties
<1>4. Len(l) = Len(LeftAround(t, d)) + 1 /\ Len(LeftAround(t, d)) \in Nat
  BY <1>1, <1>2, ConsIs, LenProperties
<1> HIDE DEF x, l
<1>5. Work(StateAt(t, f, d, i, P)) = Len(x) + Len(l)
  BY DEF Work, StateAt, Reading, x, l
<1>6. Work(StateAt(t, f, d, i, P)) = Len(x) + Len(LeftAround(t, d)) + 1
  BY <1>3, <1>4, <1>5
<1>7. Work(StateAt(t, f, d, i, P)) \in Nat \ {0}
  BY <1>3, <1>4, <1>6
<1> QED BY <1>1, <1>2, <1>6, <1>7 DEF x

LEMMA Starts ==
  ASSUME NEW t, Stored(t), NEW f, Writes(t, f, DOMAIN t)
  PROVE  LET r == deserialize_dir(f[<<>>], EmptyFs, <<>>, <<>>)
         IN  OnCourse(t, f, r) /\ Work(r) = Len(f[<<>>]) /\ Len(f[<<>>]) \in Nat
<1> DEFINE o == <<>>
           K == Kids(t, o)
           x == RestIn(t, f, o, 0)
           P == {<<>>}
<1>1. o \in DOMAIN t /\ t[o] = Dir
  BY DEF Stored, Tree, IsTree
<1> HIDE DEF o
<1>2. K \in Nat /\ f[o] = <<K>> \o x /\ x \in Seq(Nat)
  <2>1. K \in Nat
    BY <1>1, PiecesOf
  <2>2. 0 \in 0..K
    BY <2>1
  <2> HIDE DEF K
  <2> QED BY <1>1, <2>1, <2>2, PiecesOf, RestInSteps DEF K
<1> HIDE DEF x, K
<1>3. /\ deserialize_dir((<<K>> \o x) \o <<>>, EmptyFs, <<>>, <<>>) =
           Reading(x \o <<>>, EmptyFs, <<>>, <<K>> \o <<>>)
      /\ Len((<<K>> \o x) \o <<>>) = Len(x \o <<>>) + 1
      /\ (<<K>> \o x) \o <<>> \in Seq(Nat)
  <2> DEFINE y == <<>>
  <2>1. y \in Seq(Nat)
    BY EmptySeq
  <2> HIDE DEF y
  <2>2. LET units == Cat(Cat(<<K>>, x), y)
        IN  /\ deserialize_dir(units, EmptyFs, <<>>, <<>>) =
                 Reading(Cat(x, y), EmptyFs, <<>>, Cat(<<K>>, <<>>))
            /\ Len(units) = Len(Cat(x, y)) + 1 /\ units \in Seq(Nat)
    <3>1. K \in Nat /\ x \in Seq(Nat)
      BY <1>2
    <3> QED BY <2>1, <3>1, DescendsOn
  <2> QED BY <2>2 DEF y, Cat
<1>4. (<<K>> \o x) \o <<>> = f[o]
  <2>1. <<K>> \o x \in Seq(Nat)
    BY <1>2, ConsIs
  <2> QED BY <1>2, <2>1, ConcatEmptySeq
<1>5. At(t, f, o, 0, P)
  <2>1. 0 \in 0..Kids(t, o)
    BY <1>2 DEF K
  <2>2. ReadTo(t, o, 0, P)
    BY ReadNothing DEF o
  <2>3. Legible(P)
    BY DEF Legible
  <2> QED BY <1>1, <2>1, <2>2, <2>3 DEF At
<1>6. Saved(Only(t, P)) = EmptyFs
  <2>1. Closed(P) /\ CutPath(<<>>) = <<>>
    <3>1. CutPath(<<>>) \in Seq(Nat) /\ Len(CutPath(<<>>)) = 0
      BY EmptySeq, CutPathIs
    <3>2. Closed(P)
      BY EmptySeq DEF Closed
    <3> QED BY <3>1, <3>2, EmptySeq
  <2>2. KeptOf(P) = {<<>>}
    <3>1. ReadTo(t, o, 0, P)
      BY <1>5 DEF At
    <3>2. o \in KeptOf(P)
      BY <3>1, ReadToKeeps
    <3> QED BY <3>2 DEF KeptOf, o
  <2> DEFINE v == Saved(Only(t, P))
  <2>3. v = [c \in DOMAIN v |-> v[c]] /\ DOMAIN v = {CutPath(p) : p \in KeptOf(P)}
        /\ \A p \in KeptOf(P) : v[CutPath(p)] = t[p]
    BY <2>1, SavedIs
  <2> HIDE DEF v
  <2>4. DOMAIN v = {<<>>} /\ v[<<>>] = Dir
    BY <1>1, <2>1, <2>2, <2>3 DEF o
  <2> QED BY <2>3, <2>4 DEF EmptyFs, v
<1>7. StateAt(t, f, o, 0, P) = Reading(x \o <<>>, EmptyFs, <<>>, <<K>> \o <<>>)
  <2>1. RestAround(t, f, o) = <<>> /\ LeftAround(t, o) = <<>>
    BY AroundSteps DEF o
  <2>2. CutPath(o) = <<>>
    <3>1. CutPath(<<>>) \in Seq(Nat) /\ Len(CutPath(<<>>)) = 0
      BY EmptySeq, CutPathIs
    <3> QED BY <3>1, EmptySeq DEF o
  <2>3. K - 0 = K
    BY <1>2
  <2> QED BY <1>6, <2>1, <2>2, <2>3 DEF StateAt, x, K
<1> DEFINE r == deserialize_dir(f[o], EmptyFs, <<>>, <<>>)
<1>8. r = StateAt(t, f, o, 0, P)
  BY <1>3, <1>4, <1>7
<1> HIDE DEF r
<1>9. OnCourse(t, f, r)
  <2> HIDE DEF P
  <2> QED BY <1>5, <1>8 DEF OnCourse
<1>10. Work(r) = Len(f[o]) /\ Len(f[o]) \in Nat
  <2>1. f[o] \in Seq(Nat) /\ Len(f[o]) = Len(x \o <<>>) + 1
    BY <1>3, <1>4
  <2>2. Len(<<K>> \o <<>>) = 1
    OBVIOUS
  <2>3. Work(r) = Len(x \o <<>>) + Len(<<K>> \o <<>>)
    <3> DEFINE a == x \o <<>>
               b == <<K>> \o <<>>
    <3>1. r = Reading(a, EmptyFs, <<>>, b)
      BY <1>7, <1>8
    <3> HIDE DEF a, b
    <3>2. Work(r) = Len(a) + Len(b)
      BY <3>1 DEF Work, Reading
    <3> QED BY <3>2 DEF a, b
  <2> QED BY <2>1, <2>2, <2>3, LenProperties
<1> QED BY <1>9, <1>10 DEF r, o

LEMMA GoesOn ==
  ASSUME NEW t, Stored(t), NEW f, Writes(t, f, DOMAIN t), NEW d, NEW i, NEW P, At(t, f, d, i, P),
         i # Kids(t, d)
  PROVE  LET u == Round(StateAt(t, f, d, i, P))
         IN  /\ OnCourse(t, f, u)
             /\ u # Outcome(t) => Work(u) < Work(StateAt(t, f, d, i, P)) /\ Work(u) \in Nat
<1> DEFINE K == Kids(t, d)
           n == Sorted(Children(t, d))[i + 1]
           p == Append(d, n)
           Q == P \cup {p}
           c == Cut[n]
           x == RestIn(t, f, d, i + 1)
           y == RestAround(t, f, d)
           l == LeftAround(t, d)
           tree == Saved(Only(t, P))
           s == StateAt(t, f, d, i, P)
<1>1. /\ d \in Seq(Names) /\ K \in Nat /\ i \in Nat /\ K - i \in Nat
      /\ y \in Seq(Nat) /\ l \in Seq(Nat)
      /\ Work(s) = Len(RestIn(t, f, d, i) \o y) + Len(l) + 1
  BY StateIs
<1>2. i \in 0..(K - 1) /\ K - i \in Nat \ {0} /\ K - i - 1 = K - (i + 1) /\ K - (i + 1) \in Nat
      /\ i + 1 \in 0..K
  <2>1. i \in 0..K /\ i # K
    BY DEF At
  <2> QED BY <1>1, <2>1
<1>3. /\ n \in Children(t, d) /\ n \in Names /\ p \in DOMAIN t /\ p \notin P
      /\ Place(t, d, n) = i + 1
      /\ \A m \in Names : Append(d, m) \in P => m < n
      /\ t[p] # Dir => ReadTo(t, d, i + 1, Q)
      /\ t[p] = Dir => ReadTo(t, p, 0, Q)
  <2>1. ReadTo(t, d, i, P)
    BY DEF At
  <2> QED BY <1>2, <2>1, ReadNext
<1>4. RestIn(t, f, d, i) = Entry(t, d, n, f[p]) \o x
  BY <1>2, RestInSteps DEF At
<1>5. x \in Seq(Nat)
  BY <1>2, PiecesOf DEF At
<1>6. Saved(Only(t, Q)) = Replaced(tree, CutPath(p), t[p]) /\ CutPath(p) = Append(CutPath(d), c)
  <2>1. Closed(P) /\ d \in KeptOf(P)
    BY ReadToKeeps DEF At, ReadTo
  <2>2. Append(d, n) \notin P
    BY <1>3
  <2> HIDE DEF n
  <2>3. Saved(Only(t, P \cup {Append(d, n)})) =
          Replaced(Saved(Only(t, P)), CutPath(Append(d, n)), t[Append(d, n)])
    BY <1>3, <2>1, <2>2, SavedNext
  <2>4. CutPath(Append(d, n)) = Append(CutPath(d), Cut[n])
    BY <1>1, <1>3, CutEntry
  <2> QED BY <2>3, <2>4
<1>7. c \in Nat
  BY <1>3, ImageAssumption
<1>b. p # <<>> /\ p[Len(p)] = n
  <2>1. d \in Seq(Names) /\ n \in Names
    BY <1>1, <1>3
  <2> HIDE DEF n
  <2>2. p # <<>> /\ Len(p) = Len(d) + 1
    BY <2>1, EntryPath
  <2>3. p[Len(d) + 1] = n
    BY <2>1, AppendProperties
  <2> HIDE DEF p
  <2> QED BY <2>2, <2>3
<1>c. ASSUME c \in Names PROVE Legible(Q)
  <2>1. Legible(P)
    BY DEF At
  <2> HIDE DEF p, n
  <2> QED BY <1>b, <1>c, <2>1 DEF Legible
<1>d. ASSUME c \notin Names PROVE Outcome(t) = Corrupt
  <2> HIDE DEF p, n
  <2> QED BY <1>3, <1>b, <1>d DEF Outcome, Legible
<1> HIDE DEF K, n, p, c, x, y, l, tree, s
<1>8. s = Reading((Entry(t, d, n, f[p]) \o x) \o y, tree, CutPath(d), <<K - i>> \o l)
  BY <1>4 DEF s, StateAt, tree, y, l, K
<1>a. CASE c \notin Names
  <2> DEFINE k == K - i
             rest == (Entry(t, d, n, f[p]) \o x) \o y
  <2>1. k \in Nat \ {0}
    BY <1>2
  <2>2. PICK a \in Nat, b \in Seq(Nat) : Entry(t, d, n, f[p]) = <<a, c>> \o b
    <3>1. CASE t[p] = Dir
      <4>1. Entry(t, d, n, f[p]) = <<1, c>> \o f[p]
        BY <3>1 DEF Entry, p, c
      <4>2. f[p] \in Seq(Nat)
        BY <1>3, WriterType
      <4> QED BY <4>1, <4>2
    <3>2. CASE t[p] # Dir
      <4> DEFINE data == t[p].data
                 m == Len(data)
                 g == <<0, c>>
                 o == <<m>>
      <4>1. data \in Seq(Nat)
        BY <1>3, <3>2 DEF Stored, IsEntry
      <4>2. Entry(t, d, n, f[p]) = <<0, c, m>> \o data
        BY <3>2 DEF Entry, p, c
      <4> HIDE DEF data
      <4>3. m \in Nat
        BY <4>1, LenProperties
      <4> HIDE DEF m
      <4>4. <<0, c, m>> = g \o o
        BY <4>3
      <4>5. g \in Seq(Nat) /\ o \in Seq(Nat)
        BY <1>7, <4>3
      <4>6. o \o data \in Seq(Nat)
        BY <4>1, <4>3, ConsIs
      <4> HIDE DEF g, o
      <4>7. (g \o o) \o data = g \o (o \o data)
        BY <4>1, <4>5, ConcatAssociative
      <4>8. Entry(t, d, n, f[p]) = <<0, c>> \o (o \o data)
        BY <4>2, <4>4, <4>7 DEF g
      <4> QED BY <4>6, <4>8
    <3> QED BY <3>1, <3>2
  <2> HIDE DEF k
  <2>3. Round(Reading(Cat(Cat(Cat(<<a, c>>, b), x), y), tree, CutPath(d), <<k>> \o l)) = Corrupt
    BY <1>1, <1>5, <1>7, <1>a, <2>1, Refuses
  <2>4. Round(s) = Corrupt
    BY <1>8, <2>2, <2>3 DEF Cat, k
  <2> QED BY <1>a, <1>d, <2>4 DEF OnCourse, s
<1>9. CASE t[p] # Dir /\ c \in Names
  <2> DEFINE data == t[p].data
  <2>1. t[p] = File(data) /\ data \in Seq(Nat)
    BY <1>3, <1>9 DEF Stored, IsEntry
  <2>2. Entry(t, d, n, f[p]) = <<0, c, Len(data)>> \o data
    BY <1>9 DEF Entry, p, c
  <2> HIDE DEF data
  <2>a. LET rest == ((<<0, c, Len(data)>> \o data) \o x) \o y
            k    == K - i
        IN  /\ Round(Reading(rest, tree, CutPath(d), <<k>> \o l)) =
                 Reading(x \o y, Replaced(tree, Append(CutPath(d), c), File(data)), CutPath(d),
                         <<k - 1>> \o l)
            /\ Len(rest) > Len(x \o y)
    <3> DEFINE k == K - i
    <3>1. k \in Nat \ {0}
      BY <1>2
    <3> HIDE DEF k
    <3>2. LET rest == ((<<0, c, Len(data)>> \o data) \o x) \o y
          IN  /\ Round(Reading(rest, tree, CutPath(d), <<k>> \o l)) =
                   Reading(x \o y, Replaced(tree, Append(CutPath(d), c), File(data)), CutPath(d),
                           <<k - 1>> \o l)
              /\ Len(rest) > Len(x \o y)
      BY <1>1, <1>5, <1>9, <2>1, <3>1, ReadsFile
    <3> QED BY <3>2 DEF k
  <2>3. /\ Round(s) = Reading(x \o y, Replaced(tree, Append(CutPath(d), c), File(data)), CutPath(d),
                             <<K - i - 1>> \o l)
        /\ Len(RestIn(t, f, d, i) \o y) > Len(x \o y)
    BY <1>4, <1>8, <2>2, <2>a
  <2>4. At(t, f, d, i + 1, Q)
    BY <1>2, <1>3, <1>9, <1>c DEF At, K
  <2>5. Round(s) = StateAt(t, f, d, i + 1, Q)
    BY <1>2, <1>6, <2>1, <2>3 DEF StateAt, x, y, l, tree, K
  <2>6. Work(Round(s)) = Len(x \o y) + Len(l) + 1 /\ Work(Round(s)) \in Nat
    <3> HIDE DEF Q
    <3> QED BY <2>4, <2>5, StateIs DEF x, y, l
  <2>7. OnCourse(t, f, Round(s))
    <3> HIDE DEF Q
    <3> QED BY <2>4, <2>5 DEF OnCourse
  <2>8. Len(x \o y) \in Nat /\ Len(RestIn(t, f, d, i) \o y) \in Nat /\ Len(l) \in Nat
    BY <1>1, <1>5, ConcatProperties, LenProperties, StateIs
  <2>9. Work(Round(s)) < Work(s)
    BY <1>1, <2>3, <2>6, <2>8
  <2> QED BY <2>6, <2>7, <2>9 DEF s
<1>10. CASE t[p] = Dir /\ c \in Names
  <2> DEFINE w == RestIn(t, f, p, 0)
             j == Kids(t, p)
  <2>1. j \in Nat /\ w \in Seq(Nat) /\ f[p] = <<j>> \o w /\ 0 \in 0..j /\ j - 0 = j
    <3>1. j \in Nat
      BY <1>3, PiecesOf
    <3>2. 0 \in 0..j /\ j - 0 = j
      BY <3>1
    <3> QED BY <1>3, <3>1, <3>2, PiecesOf, RestInSteps
  <2>2. Entry(t, d, n, f[p]) = <<1, c>> \o f[p]
    BY <1>10, <2>1 DEF Entry, p, c
  <2> HIDE DEF w, j
  <2> DEFINE at == CutPath(d)
             k == K - i
  <2>a. /\ c \in Names /\ j \in Nat /\ w \in Seq(Nat) /\ x \in Seq(Nat) /\ y \in Seq(Nat)
        /\ k \in Nat \ {0} /\ l \in Seq(Nat)
    BY <1>1, <1>2, <1>5, <1>10, <2>1
  <2> HIDE DEF at, k
  <2>c. Round(Reading(Cat(Cat(Cat(Directory(c), Cat(One(j), w)), x), y), tree, at,
                      Cat(One(k), l))) =
          Reading(Cat(w, Cat(x, y)), Replaced(tree, Append(at, c), Dir), Append(at, c),
                  Cat(One(j), Cat(One(k - 1), l)))
    BY <2>a, ReadsDirectoryOn
  <2>d. Len(Cat(Cat(Cat(Directory(c), Cat(One(j), w)), x), y)) > Len(Cat(w, Cat(x, y))) + 1
    BY <2>a, ReadsDirectoryOn
  <2>3. /\ Round(s) = Reading(w \o (x \o y), Replaced(tree, Append(CutPath(d), c), Dir),
                             Append(CutPath(d), c), <<j>> \o (<<K - i - 1>> \o l))
        /\ Len(RestIn(t, f, d, i) \o y) > Len(w \o (x \o y)) + 1
    BY <1>4, <1>8, <2>1, <2>2, <2>c, <2>d DEF Cat, One, Directory, at, k
  <2>4. At(t, f, p, 0, Q)
    BY <1>3, <1>10, <1>c, <2>1 DEF At, j
  <2>5. RestAround(t, f, p) = x \o y /\ LeftAround(t, p) = <<K - (i + 1)>> \o l
    BY <1>3, AroundSteps DEF At, p, x, y, l, K
  <2>6. Round(s) = StateAt(t, f, p, 0, Q)
    BY <1>2, <1>6, <1>10, <2>1, <2>3, <2>5 DEF StateAt, w, j, tree
  <2>7. Work(Round(s)) = Len(w \o (x \o y)) + Len(LeftAround(t, p)) + 1 /\ Work(Round(s)) \in Nat
    <3> HIDE DEF Q
    <3> QED BY <2>4, <2>5, <2>6, StateIs DEF w
  <2>8. OnCourse(t, f, Round(s))
    <3> HIDE DEF Q
    <3> QED BY <2>4, <2>6 DEF OnCourse
  <2>9. Len(LeftAround(t, p)) = Len(l) + 1 /\ Len(l) \in Nat
    BY <1>1, <1>2, <2>5, ConsIs, LenProperties
  <2>10. Len(w \o (x \o y)) \in Nat
    BY <1>1, <1>5, <2>1, ConcatProperties, LenProperties
  <2>11. Len(RestIn(t, f, d, i) \o y) \in Nat
    BY ConcatProperties, LenProperties, StateIs DEF y
  <2>12. Work(Round(s)) < Work(s)
    BY <1>1, <2>3, <2>7, <2>9, <2>10, <2>11
  <2> QED BY <2>7, <2>8, <2>12 DEF s
<1> QED BY <1>a, <1>9, <1>10

LEMMA ComesBack ==
  ASSUME NEW t, Stored(t), NEW f, Writes(t, f, DOMAIN t), NEW d, NEW P, At(t, f, d, Kids(t, d), P)
  PROVE  LET s == StateAt(t, f, d, Kids(t, d), P)
         IN  OnCourse(t, f, Round(s)) /\ Work(Round(s)) < Work(s) /\ Work(Round(s)) \in Nat
<1> DEFINE K == Kids(t, d)
           y == RestAround(t, f, d)
           l == LeftAround(t, d)
           tree == Saved(Only(t, P))
           s == StateAt(t, f, d, K, P)
<1>1. /\ d \in Seq(Names) /\ K \in Nat /\ y \in Seq(Nat) /\ l \in Seq(Nat)
      /\ Work(s) = Len(RestIn(t, f, d, K) \o y) + Len(l) + 1
  BY StateIs
<1>2. RestIn(t, f, d, K) = <<>> /\ <<>> \o y = y /\ K - K = 0
  <2>1. RestIn(t, f, d, K) = <<>>
    BY RestInSteps DEF At
  <2>2. <<>> \o y = y
    <3> HIDE DEF y
    <3> QED BY <1>1, ConcatEmptySeq
  <2> QED BY <1>1, <2>1, <2>2
<1>3. ReadTo(t, d, K, P)
  BY DEF At
<1> HIDE DEF K, y, l, tree, s
<1>4. s = Reading(y, tree, CutPath(d), <<0>> \o l)
  BY <1>2 DEF s, StateAt, y, l, tree, K
<1>5. Round(s) = Reading(y, tree, CutPath(Parent(d)), l)
  BY <1>1, <1>4, ReadsEnd, CutParent
<1>6. Len(l) \in Nat /\ Len(y) \in Nat /\ Work(s) = Len(y) + Len(l) + 1
  BY <1>1, <1>2, LenProperties
<1>7. Work(Round(s)) = Len(y) + Len(l)
  BY <1>5 DEF Work, Reading
<1>8. CASE d = <<>>
  <2>1. y = <<>> /\ l = <<>>
    BY <1>8, AroundSteps DEF y, l
  <2>2. P = DOMAIN t
    BY <1>3, <1>8, ReadAll DEF K
  <2>3. tree = Saved(t)
    <3>1. DOMAIN Only(t, P) = DOMAIN t /\ \A p \in DOMAIN t : Only(t, P)[p] = t[p]
      BY <2>2 DEF Only
    <3>2. \A p : Overwritten(Only(t, P), p) <=> Overwritten(t, p)
      BY <3>1 DEF Overwritten
    <3> DEFINE A == {p \in DOMAIN Only(t, P) : ~Overwritten(Only(t, P), p)}
               B == {p \in DOMAIN t : ~Overwritten(t, p)}
               pick(k) == CHOOSE p \in B : CutPath(p) = k
    <3>3. A = B
      BY <3>1, <3>2
    <3>4. \A k \in {CutPath(p) : p \in B} : pick(k) \in DOMAIN t
      OBVIOUS
    <3>5. tree = [k \in {CutPath(p) : p \in B} |-> Only(t, P)[pick(k)]]
      <4>1. tree = [k \in {CutPath(p) : p \in A} |-> Only(t, P)[CHOOSE p \in A : CutPath(p) = k]]
        BY DEF tree, Saved
      <4> HIDE DEF A, B
      <4> QED BY <3>3, <4>1
    <3>6. Saved(t) = [k \in {CutPath(p) : p \in B} |-> t[pick(k)]]
      BY DEF Saved
    <3> HIDE DEF A, B, pick
    <3> QED BY <3>1, <3>4, <3>5, <3>6
  <2>4. CutPath(Parent(d)) = <<>>
    <3>1. Parent(d) = <<>>
      BY <1>1, <1>8, ParentPath
    <3>2. CutPath(<<>>) \in Seq(Nat) /\ Len(CutPath(<<>>)) = 0
      BY EmptySeq, CutPathIs
    <3> QED BY <3>1, <3>2, EmptySeq
  <2>5. Round(s) = Outcome(t)
    BY <1>5, <2>1, <2>2, <2>3, <2>4 DEF Finished, Outcome, At
  <2>6. OnCourse(t, f, Round(s))
    BY <2>5 DEF OnCourse
  <2> QED BY <1>6, <1>7, <2>6 DEF s, K
<1>9. CASE d # <<>>
  <2> DEFINE e == Parent(d)
             n == d[Len(d)]
             k == Place(t, e, n)
  <2>1. /\ e \in DOMAIN t /\ t[e] = Dir /\ e \in Seq(Names) /\ n \in Children(t, e)
        /\ d = Append(e, n) /\ ReadTo(t, e, k, P)
    BY <1>3, <1>9, ReadBack DEF K
  <2> HIDE DEF e, n
  <2>2. k \in 0..Kids(t, e)
    <3>1. k \in 1..Kids(t, e) /\ Kids(t, e) \in Nat
      BY <2>1, PlaceIs
    <3> QED BY <3>1
  <2>3. At(t, f, e, k, P)
    BY <2>1, <2>2 DEF At
  <2>4. y = RestIn(t, f, e, k) \o RestAround(t, f, e) /\ l = <<Kids(t, e) - k>> \o LeftAround(t, e)
    BY <2>1, AroundSteps DEF y, l
  <2>5. Round(s) = StateAt(t, f, e, k, P)
    BY <1>5, <2>4 DEF StateAt, tree, e
  <2>6. OnCourse(t, f, Round(s))
    <3> HIDE DEF k
    <3> QED BY <2>3, <2>5 DEF OnCourse
  <2> QED BY <1>6, <1>7, <2>6 DEF s, K
<1> QED BY <1>8, <1>9

\* Each round but those after the last goes on.
LEMMA StaysOnCourse ==
  ASSUME NEW t, Stored(t), NEW f, Writes(t, f, DOMAIN t), NEW r, OnCourse(t, f, r)
  PROVE  /\ OnCourse(t, f, Round(r))
         /\ r = Outcome(t) => Round(r) = Outcome(t)
         /\ r # Outcome(t) => Work(r) \in Nat \ {0}
         /\ Round(r) # Outcome(t) => Work(Round(r)) \in Nat /\ Work(Round(r)) < Work(r)
<1>1. CASE r = Outcome(t)
  <2>1. Round(r) = r
    BY <1>1 DEF Round, Finished, Outcome, Corrupt, Reading
  <2> QED BY <1>1, <2>1
<1>2. CASE r # Outcome(t)
  <2>1. PICK d, i, P : At(t, f, d, i, P) /\ r = StateAt(t, f, d, i, P)
    BY <1>2 DEF OnCourse
  <2>2. Work(r) \in Nat \ {0}
    BY <2>1, StateIs
  <2>3. CASE i = Kids(t, d)
    BY <1>2, <2>1, <2>2, <2>3, ComesBack
  <2>4. CASE i # Kids(t, d)
    BY <1>2, <2>1, <2>2, <2>4, GoesOn
  <2> QED BY <2>3, <2>4
<1> QED BY <1>1, <1>2

LEMMA LegibleIs ==
  ASSUME NEW t, Stored(t)
  PROVE  Readable(t) <=> Legible(DOMAIN t)
<1>1. Closed(DOMAIN t)
  BY TreeIsClosed DEF Stored
<1>2. ASSUME Readable(t) PROVE Legible(DOMAIN t)
  <2> SUFFICES ASSUME NEW p \in DOMAIN t, p # <<>> PROVE Cut[p[Len(p)]] \in Names
    BY DEF Legible
  <2>1. p \in Seq(Names)
    BY <1>1 DEF Closed
  <2>2. Len(p) \in DOMAIN p
    <3>1. Len(p) \in Nat \ {0} /\ DOMAIN p = 1..Len(p)
      BY <2>1, EmptySeq, LenProperties
    <3> QED BY <3>1
  <2> QED BY <1>2, <2>2 DEF Readable
<1>3. ASSUME Legible(DOMAIN t) PROVE Readable(t)
  <2> SUFFICES ASSUME NEW p \in DOMAIN t, NEW i \in DOMAIN p PROVE Cut[p[i]] \in Names
    BY DEF Readable
  <2> DEFINE q == SubSeq(p, 1, i)
  <2>1. p \in Seq(Names)
    BY <1>1 DEF Closed
  <2>2. i \in 1..Len(p) /\ i \in 0..Len(p) /\ i \in Nat \ {0} /\ i \in 1..i
    <3>1. Len(p) \in Nat /\ DOMAIN p = 1..Len(p)
      BY <2>1, LenProperties
    <3> QED BY <3>1
  <2>3. q \in DOMAIN t
    BY <1>1, <2>2, ClosedPrefixes
  <2>4. Len(q) = i /\ q[i] = p[i]
    BY <2>1, <2>2, PrefixIs
  <2> HIDE DEF q
  <2>5. q # <<>>
    BY <2>2, <2>4, EmptySeq
  <2> QED BY <1>3, <2>3, <2>4, <2>5 DEF Legible
<1> QED BY <1>2, <1>3

\* load_from gives back what serialize wrote, of every tree of files none of whose
\* names is cut inside a character: the same entries with the same data, under names
\* cut to what an image can hold, where of two that are cut to the same one the later
\* in the order of the names is left. Of every other tree it refuses the whole image.
THEOREM RoundTrip ==
  ASSUME NEW t, Stored(t), NEW rounds \in Nat, Len(serialize(t)) <= rounds
  PROVE  LET read == load_from(serialize(t), rounds)
         IN  /\ serialize(t) \in Seq(Nat)
             /\ IF Readable(t) THEN read.ok /\ read.tree = Saved(t) ELSE ~read.ok
<1>1. PICK f : Writes(t, f, DOMAIN t) /\ serialize(t) = f[<<>>]
  BY SerializeIs
<1> DEFINE units == serialize(t)
           first == deserialize_dir(units, EmptyFs, <<>>, <<>>)
           Is(g) == g = [n \in 0..rounds |-> IF n = 0 THEN first ELSE Round(g[n - 1])]
           reader == CHOOSE g : Is(g)
<1>2. OnCourse(t, f, first) /\ Work(first) = Len(units) /\ Len(units) \in Nat
  <2>1. first = deserialize_dir(f[<<>>], EmptyFs, <<>>, <<>>)
    BY <1>1
  <2> HIDE DEF first
  <2> QED BY <1>1, <2>1, Starts
<1>3. load_from(units, rounds) = reader[rounds]
  BY DEF load_from
<1>4. units \in Seq(Nat)
  <2>1. <<>> \in DOMAIN t
    BY DEF Stored, Tree, IsTree
  <2> QED BY <1>1, <2>1, WriterType
<1> HIDE DEF units, first
<1>5. Is(reader)
  <2>1. \E g : Is(g)
    BY ReaderExists
  <2> HIDE DEF Is
  <2> QED BY <2>1
<1> HIDE DEF reader
<1>6. reader[0] = first /\ \A n \in 1..rounds : reader[n] = Round(reader[n - 1])
  BY <1>5, ReaderAt
<1> HIDE DEF Is
<1> DEFINE S == {n \in Nat : n <= rounds => /\ OnCourse(t, f, reader[n])
                                            /\ reader[n] # Outcome(t) =>
                                                 Work(reader[n]) \in Nat /\ Work(reader[n]) + n <= Len(units)}
<1>7. 0 \in S
  <2>1. Len(units) + 0 = Len(units) /\ Len(units) <= Len(units)
    BY <1>2
  <2> QED BY <1>2, <1>6, <2>1
<1>8. ASSUME NEW n \in Nat, n \in S PROVE n + 1 \in S
  <2> SUFFICES ASSUME n + 1 <= rounds
               PROVE  /\ OnCourse(t, f, reader[n + 1])
                      /\ reader[n + 1] # Outcome(t) =>
                           /\ Work(reader[n + 1]) \in Nat
                           /\ Work(reader[n + 1]) + (n + 1) <= Len(units)
    OBVIOUS
  <2> DEFINE r == reader[n]
             u == reader[n + 1]
  <2>1. n <= rounds /\ n + 1 \in 1..rounds /\ n + 1 - 1 = n
    OBVIOUS
  <2>2. u = Round(r)
    BY <1>6, <2>1
  <2>3. OnCourse(t, f, r) /\ (r # Outcome(t) => Work(r) \in Nat /\ Work(r) + n <= Len(units))
    BY <1>8, <2>1
  <2> HIDE DEF r, u
  <2>4. OnCourse(t, f, u)
    BY <1>1, <2>2, <2>3, StaysOnCourse
  <2>5. ASSUME u # Outcome(t)
        PROVE  Work(u) \in Nat /\ Work(u) + (n + 1) <= Len(units)
    <3>1. r # Outcome(t)
      BY <1>1, <2>2, <2>3, <2>5, StaysOnCourse
    <3>2. Work(r) \in Nat /\ Work(u) \in Nat /\ Work(u) < Work(r) /\ Work(r) + n <= Len(units)
      <4>1. Work(r) \in Nat /\ Work(r) + n <= Len(units)
        BY <2>3, <3>1
      <4>2. OnCourse(t, f, r) /\ Round(r) # Outcome(t)
        BY <2>2, <2>3, <2>5
      <4>3. Work(Round(r)) \in Nat /\ Work(Round(r)) < Work(r)
        BY <1>1, <4>2, StaysOnCourse
      <4> QED BY <2>2, <4>1, <4>3
    <3> QED BY <1>2, <3>2
  <2> QED BY <2>4, <2>5 DEF u
<1> HIDE DEF S
<1>9. rounds \in S
  BY <1>7, <1>8, SetInduction
<1>10. reader[rounds] = Outcome(t)
  <2> DEFINE r == reader[rounds]
  <2>1. OnCourse(t, f, r) /\ (r # Outcome(t) => Work(r) \in Nat /\ Work(r) + rounds <= Len(units))
    BY <1>9 DEF S
  <2> HIDE DEF r
  <2>2. r # Outcome(t) => Work(r) \in Nat \ {0}
    BY <1>1, <2>1, StaysOnCourse
  <2>3. Len(units) <= rounds
    BY DEF units
  <2>4. r = Outcome(t)
    BY <1>2, <2>1, <2>2, <2>3
  <2> QED BY <2>4 DEF r
<1>11. Finished(t).ok /\ Finished(t).tree = Saved(t) /\ ~Corrupt.ok
  BY DEF Finished, Reading, Corrupt
<1> QED BY <1>3, <1>4, <1>10, <1>11, LegibleIs DEF units, Outcome

(***************************************************************************)
(* The operations of RamFs                                                 *)
(***************************************************************************)
\* A tree in which all directories of t are still there.
Keeps(N, t, u) == Tree(N, u) /\ \A q : get_dir(t, q) => get_dir(u, q)

LEMMA CreateKeeps ==
  ASSUME NEW N, NEW t, Tree(N, t), NEW path, NEW name \in N, NEW entry, can_create(t, path, name)
  PROVE  Keeps(N, t, Insert(t, Append(path, name), entry))
<1>1. get_dir(t, path) /\ ~get_dir(t, Append(path, name))
  BY DEF can_create, exists, get_dir
<1>2. IsLeaf(t, Append(path, name))
  BY <1>1, FilesAreLeaves
<1> QED BY <1>1, <1>2, InsertIsTree DEF Keeps

LEMMA WriteKeeps ==
  ASSUME NEW N, NEW t, Tree(N, t), NEW path, NEW name \in N, NEW data
  PROVE  Keeps(N, t, write(t, path, name, data))
<1>1. CASE can_write(t, path, name)
  <2>1. get_dir(t, path) /\ ~get_dir(t, Append(path, name))
    BY <1>1 DEF can_write, is_dir, exists, get_dir
  <2>2. IsLeaf(t, Append(path, name))
    BY <2>1, FilesAreLeaves
  <2>3. Keeps(N, t, Insert(t, Append(path, name), File(data)))
    BY <2>1, <2>2, InsertIsTree DEF Keeps
  <2> QED BY <1>1, <2>3 DEF write
<1>2. CASE ~can_write(t, path, name)
  BY <1>2 DEF write, Keeps
<1> QED BY <1>1, <1>2

LEMMA CreatesKeep ==
  ASSUME NEW N, NEW t, Tree(N, t), NEW path, NEW name \in N
  PROVE  Keeps(N, t, create(t, path, name)) /\ Keeps(N, t, mkdir(t, path, name))
<1>1. CASE can_create(t, path, name)
  BY <1>1, CreateKeeps DEF create, mkdir
<1>2. CASE ~can_create(t, path, name)
  BY <1>2 DEF create, mkdir, Keeps
<1> QED BY <1>1, <1>2

LEMMA RemoveIsTree ==
  ASSUME NEW N, NEW t, Tree(N, t), NEW path, NEW name \in N
  PROVE  /\ Tree(N, remove(t, path, name))
         /\ \A q : get_dir(t, q) /\ q # Append(path, name) => get_dir(remove(t, path, name), q)
<1>1. CASE can_remove(t, path, name)
  BY <1>1, WithoutIsTree DEF remove
<1>2. CASE ~can_remove(t, path, name)
  BY <1>2 DEF remove
<1> QED BY <1>1, <1>2

\* What mv does with a file leaves all directories.
LEMMA MoveKeeps ==
  ASSUME NEW N, NEW t, Tree(N, t), NEW path, NEW src \in N, NEW dst \in N, NEW data,
         readable(t, path, src)
  PROVE  Keeps(N, t, remove(write(t, path, dst, data), path, src))
<1>1. Keeps(N, t, write(t, path, dst, data))
  BY WriteKeeps
<1>2. ~get_dir(t, Append(path, src))
  BY DEF readable, get_dir
<1> QED BY <1>1, <1>2, RemoveIsTree DEF Keeps

(***************************************************************************)
(* The commands of Shell                                                   *)
(***************************************************************************)
\* The file system and the working directories, on names in N.
ShellInv(N) == Tree(N, fs) /\ cwd \in [Terminals -> Seq(N)]

\* After a command of terminal t: no directory is gone but by rm, t's own working
\* directory leads on, and the others' are what they were.
CommandEffect(N, t) ==
  /\ ShellInv(N)'
  /\ (\E n \in N : cmd_rm(t, n)) \/ \A q : get_dir(fs, q) => get_dir(fs', q)
  /\ get_dir(fs, cwd[t]) => get_dir(fs', cwd'[t])
  /\ \A u \in Terminals \ {t} : cwd'[u] = cwd[u]

LEMMA KeepingStep ==
  ASSUME NEW N, ShellInv(N), NEW t \in Terminals, NEW u, Keeps(N, fs, u), Becomes(u)
  PROVE  CommandEffect(N, t)
BY DEF ShellInv, Keeps, Becomes, CommandEffect

LEMMA MovingStep ==
  ASSUME NEW N, ShellInv(N), NEW t \in Terminals, NEW path \in Seq(N), Moves(t, path),
         get_dir(fs, cwd[t]) => get_dir(fs, path)
  PROVE  CommandEffect(N, t)
<1>1. fs' = fs /\ cwd' \in [Terminals -> Seq(N)] /\ cwd'[t] = path
      /\ \A u \in Terminals \ {t} : cwd'[u] = cwd[u]
  BY DEF Moves, ShellInv
<1> QED BY <1>1 DEF ShellInv, CommandEffect

LEMMA RemovingStep ==
  ASSUME NEW N, ShellInv(N), NEW t \in Terminals, NEW n \in N, cmd_rm(t, n)
  PROVE  CommandEffect(N, t)
<1>1. fs' = remove(fs, cwd[t], n) /\ cwd' = cwd /\ Tree(N, fs) /\ cwd[t] \in Seq(N)
  BY DEF cmd_rm, Becomes, ShellInv
<1>2. cwd[t] # Append(cwd[t], n)
  BY <1>1, EntryPath
<1>3. Tree(N, fs') /\ (get_dir(fs, cwd[t]) => get_dir(fs', cwd[t]))
  BY <1>1, <1>2, RemoveIsTree
<1> QED BY <1>1, <1>3 DEF ShellInv, CommandEffect

LEMMA CommandEffects ==
  ASSUME NEW N, ShellInv(N), NEW t \in Terminals
  PROVE  /\ \A n \in N : cmd_touch(t, n) \/ cmd_mkdir(t, n) \/ cmd_rm(t, n) \/ cd(t, n) =>
                            CommandEffect(N, t)
         /\ \A n \in N : \A d : cmd_write(t, n, d) \/ AppendTo(t, n, d) => CommandEffect(N, t)
         /\ \A m, n \in N : cmd_cp(t, m, n) \/ cmd_mv(t, m, n) => CommandEffect(N, t)
         /\ cd_up(t) \/ cd_root(t) => CommandEffect(N, t)
<1>1. Tree(N, fs) /\ cwd[t] \in Seq(N)
  BY DEF ShellInv
<1>2. ASSUME NEW n \in N, cmd_touch(t, n) \/ cmd_mkdir(t, n) PROVE CommandEffect(N, t)
  BY <1>1, <1>2, CreatesKeep, KeepingStep DEF cmd_touch, cmd_mkdir
<1>3. ASSUME NEW n \in N, cmd_rm(t, n) PROVE CommandEffect(N, t)
  BY <1>3, RemovingStep
<1>4. ASSUME NEW n \in N, cd(t, n) PROVE CommandEffect(N, t)
  <2>1. Append(cwd[t], n) \in Seq(N)
    BY <1>1, EntryPath
  <2>2. get_dir(fs, Append(cwd[t], n)) /\ Moves(t, Append(cwd[t], n))
    BY <1>4 DEF cd, is_dir, exists, get_dir
  <2> QED BY <2>1, <2>2, MovingStep
<1>5. ASSUME NEW n \in N, NEW d, cmd_write(t, n, d) \/ AppendTo(t, n, d)
      PROVE  CommandEffect(N, t)
  <2>1. PICK data : Becomes(write(fs, cwd[t], n, data))
    BY <1>5, Zenon DEF cmd_write, AppendTo
  <2> QED BY <1>1, <2>1, WriteKeeps, KeepingStep
<1>6. ASSUME NEW m \in N, NEW n \in N, cmd_cp(t, m, n) PROVE CommandEffect(N, t)
  <2>1. Becomes(write(fs, cwd[t], n, fs[Append(cwd[t], m)].data))
    BY <1>6 DEF cmd_cp
  <2> QED BY <1>1, <2>1, WriteKeeps, KeepingStep
<1>7. ASSUME NEW m \in N, NEW n \in N, cmd_mv(t, m, n) PROVE CommandEffect(N, t)
  <2> DEFINE u == remove(write(fs, cwd[t], n, fs[Append(cwd[t], m)].data), cwd[t], m)
  <2>1. readable(fs, cwd[t], m) /\ (Becomes(u) \/ Becomes(fs))
    BY <1>7 DEF cmd_mv
  <2>2. Keeps(N, fs, u)
    BY <1>1, <2>1, MoveKeeps
  <2>3. Keeps(N, fs, fs)
    BY <1>1 DEF Keeps
  <2> HIDE DEF u
  <2> QED BY <2>1, <2>2, <2>3, KeepingStep
<1>8. ASSUME cd_up(t) PROVE CommandEffect(N, t)
  <2> DEFINE path == IF cwd[t] = <<>> THEN <<>> ELSE Parent(cwd[t])
  <2>1. path \in Seq(N) /\ (get_dir(fs, cwd[t]) => get_dir(fs, path))
    BY <1>1, ParentPath DEF Tree, IsTree, get_dir
  <2>2. Moves(t, path)
    BY <1>8 DEF cd_up
  <2> HIDE DEF path
  <2> QED BY <2>1, <2>2, MovingStep
<1>9. ASSUME cd_root(t) PROVE CommandEffect(N, t)
  <2>1. Moves(t, <<>>) /\ get_dir(fs, <<>>) /\ <<>> \in Seq(N)
    BY <1>1, <1>9 DEF cd_root, Tree, IsTree, get_dir
  <2> QED BY <2>1, MovingStep
<1> QED BY <1>2, <1>3, <1>4, <1>5, <1>6, <1>7, <1>8, <1>9

(***************************************************************************)
(* Storage                                                                 *)
(***************************************************************************)
SaveInv ==
  /\ \E R : disk.units \in [1..Capacity -> R]
  /\ saving.on => /\ {"on", "tree", "sector"} \subseteq DOMAIN saving
                  /\ Tree(Names, saving.tree)
                  /\ saving.sector \in 0..(DISK_SECTORS + 1)
  /\ held \in {Nothing, Part} \/ Tree(Names, held.tree)

StorageInv == ShellInv(Names) /\ SaveInv

LEMMA CapacityIsNat == Capacity \in Nat
BY StorageAssumption DEF Capacity

LEMMA StorageInitially == Init => StorageInv
<1> SUFFICES ASSUME Init PROVE StorageInv
  OBVIOUS
<1>1. ShellInv(Names)
  BY ShellAssumption, StorageAssumption DEF Init, ShellInit, ShellInv, Tree
<1>2. disk.units \in [1..Capacity -> {0}]
  BY DEF Init, Blank
<1> QED BY <1>1, <1>2 DEF Init, StorageInv, SaveInv, No

LEMMA CommandStep ==
  ASSUME ShellInv(Names), NEW t \in Terminals, Command(t)
  PROVE  CommandEffect(Names, t)
BY CommandEffects, Zenon DEF Command

\* load leaves a tree and takes its terminal to the root; the directories of the
\* others may be gone.
LEMMA LoadStep ==
  ASSUME ShellInv(Names), NEW t \in Terminals, cmd_load(t)
  PROVE  /\ ShellInv(Names)'
         /\ get_dir(fs', cwd'[t])
         /\ UNCHANGED <<disk, saving, held>>
<1>1. Loaded.ok /\ fs' = Loaded.tree
  BY DEF cmd_load
<1>2. Tree(Names, fs')
  <2>1. ~Corrupt.ok
    BY DEF Corrupt
  <2>2. Loaded = load_from(SubSeq(disk.units, 1, disk.total_len), Capacity)
    BY <1>1, <2>1, Zenon DEF Loaded
  <2> QED BY <1>1, <2>2, LoadedIsTree, CapacityIsNat
<1>3. cwd' \in [Terminals -> Seq(Names)] /\ cwd'[t] = <<>>
  BY DEF cmd_load, ShellInv
<1> QED BY <1>2, <1>3 DEF cmd_load, ShellInv, Tree, IsTree, get_dir

LEMMA WriteSectorStep ==
  ASSUME SaveInv, NEW reaches \in BOOLEAN, write_sector(reaches)
  PROVE  SaveInv'
<1>1. /\ saving.on /\ Sent(reaches)
      /\ {"on", "tree", "sector"} \subseteq DOMAIN saving
      /\ Tree(Names, saving.tree) /\ saving.sector \in 0..(DISK_SECTORS + 1)
  BY DEF write_sector, SaveInv
<1>2. saving.sector + 1 \in 0..(DISK_SECTORS + 1)
  BY <1>1, StorageAssumption DEF Sent
<1>3. \E R : disk'.units \in [1..Capacity -> R]
  <2>1. CASE ~reaches
    BY <1>1, <2>1 DEF Sent, SaveInv
  <2>2. CASE reaches
    <3> DEFINE next(i) == IF i \notin UnitsOf(saving.sector) THEN disk.units[i]
                          ELSE IF i <= Len(saving.data) THEN saving.data[i] ELSE 0
               R == {next(i) : i \in 1..Capacity}
    <3>1. disk'.units = [i \in 1..Capacity |-> next(i)]
      BY <1>1, <2>2 DEF Sent
    <3>2. [i \in 1..Capacity |-> next(i)] \in [1..Capacity -> R]
      OBVIOUS
    <3> HIDE DEF next, R
    <3> QED BY <3>1, <3>2
  <2> QED BY <2>1, <2>2
<1>4. saving' = No \/ saving' = [saving EXCEPT !.sector = @ + 1]
  BY Zenon DEF write_sector
<1>5. saving'.on => /\ {"on", "tree", "sector"} \subseteq DOMAIN saving'
                   /\ Tree(Names, saving'.tree)
                   /\ saving'.sector \in 0..(DISK_SECTORS + 1)
  BY <1>1, <1>2, <1>4 DEF No
<1>6. held' \in {Nothing, Part} \/ Tree(Names, held'.tree)
  <2>1. held' \in {Nothing, Part} \/ held' = Whole(saving.tree)
    BY Zenon DEF write_sector
  <2> QED BY <1>1, <2>1 DEF Whole
<1> QED BY <1>3, <1>5, <1>6 DEF SaveInv

LEMMA StorageSteps == StorageInv /\ [Next]_vars => StorageInv'
<1> SUFFICES ASSUME StorageInv, [Next]_vars PROVE StorageInv'
  OBVIOUS
<1>0. ShellInv(Names) /\ SaveInv
  BY DEF StorageInv
<1>1. CASE Shell
  <2>1. PICK t \in Terminals : Command(t)
    BY <1>1 DEF Shell
  <2>2. ShellInv(Names)'
    BY <1>0, <2>1, CommandStep DEF CommandEffect
  <2>3. UNCHANGED <<disk, saving, held>>
    BY <1>1 DEF Shell
  <2> QED BY <1>0, <2>2, <2>3 DEF StorageInv, SaveInv
<1>2. ASSUME NEW t \in Terminals, cmd_save(t) PROVE StorageInv'
  <2>1. saving' = [on |-> TRUE, tree |-> fs, data |-> serialize(fs), sector |-> 0]
       /\ UNCHANGED <<fs, cwd, disk, held>>
    BY <1>2 DEF cmd_save
  <2>2. Tree(Names, saving'.tree) /\ saving'.sector \in 0..(DISK_SECTORS + 1)
        /\ {"on", "tree", "sector"} \subseteq DOMAIN saving'
    BY <1>0, <2>1, StorageAssumption DEF ShellInv
  <2> QED BY <1>0, <2>1, <2>2 DEF StorageInv, ShellInv, SaveInv
<1>3. ASSUME NEW t \in Terminals, cmd_load(t) PROVE StorageInv'
  BY <1>0, <1>3, LoadStep DEF StorageInv, SaveInv
<1>4. ASSUME NEW reaches \in BOOLEAN, write_sector(reaches) PROVE StorageInv'
  <2>1. UNCHANGED <<fs, cwd>>
    BY <1>4 DEF write_sector
  <2> QED BY <1>0, <1>4, <2>1, WriteSectorStep DEF StorageInv, ShellInv
<1>5. CASE write_refused
  BY <1>0, <1>5 DEF write_refused, StorageInv, ShellInv, SaveInv, No
<1>6. CASE Restart
  <2>1. Tree(Names, fs') /\ cwd' \in [Terminals -> Seq(Names)]
    BY <1>6, ShellAssumption, StorageAssumption DEF Restart, Tree
  <2> QED BY <1>0, <1>6, <2>1 DEF Restart, StorageInv, ShellInv, SaveInv, No
<1>7. CASE UNCHANGED vars
  BY <1>0, <1>7 DEF vars, StorageInv, ShellInv, SaveInv
<1> QED BY <1>1, <1>2, <1>3, <1>4, <1>5, <1>6, <1>7 DEF Next

\* In every reachable state the file system is a tree, through every sequence of
\* commands, saves that fail in any way, restarts, and loads of whatever is then
\* on the disk.
THEOREM StorageTypes == Spec => []TypeOK
<1>1. StorageInv => TypeOK
  <2> SUFFICES ASSUME StorageInv PROVE TypeOK
    OBVIOUS
  <2>1. PICK R : disk.units \in [1..Capacity -> R]
    BY DEF StorageInv, SaveInv
  <2>2. disk.units \in Seq(R) /\ DOMAIN disk.units = 1..Capacity
    BY <2>1, CapacityIsNat, SeqDef
  <2>3. Len(disk.units) = Capacity
    BY <2>2, CapacityIsNat, LenProperties
  <2> QED BY <2>3 DEF StorageInv, ShellInv, SaveInv, TypeOK, Tree
<1> QED BY <1>1, StorageInitially, StorageSteps, PTL DEF Spec

\* A terminal whose working directory is a directory keeps it one, whatever it
\* does: it is lost only by an rm or a load given in another terminal.
THEOREM OthersTakeTheDirectory == Spec => CwdLostToOthersOnly
<1>1. StorageInv /\ [Next]_vars =>
        [\A t \in Terminals :
           (get_dir(fs, cwd[t]) /\ ~get_dir(fs', cwd'[t])) =>
             \E u \in Terminals \ {t} :
               cmd_load(u) \/ \E n \in Names : cmd_rm(u, n)]_vars
  <2> SUFFICES ASSUME StorageInv, Next, NEW t \in Terminals,
                      get_dir(fs, cwd[t]), ~get_dir(fs', cwd'[t])
               PROVE  \E u \in Terminals \ {t} :
                        cmd_load(u) \/ \E n \in Names : cmd_rm(u, n)
    BY Zenon
  <2>0. ShellInv(Names) /\ SaveInv
    BY DEF StorageInv
  <2>1. CASE Shell
    <3>1. PICK u \in Terminals : Command(u)
      BY <2>1 DEF Shell
    <3>2. CommandEffect(Names, u)
      BY <2>0, <3>1, CommandStep
    <3>3. u # t
      BY <3>2 DEF CommandEffect
    <3>4. cwd'[t] = cwd[t]
      BY <3>2, <3>3 DEF CommandEffect
    <3>5. \E n \in Names : cmd_rm(u, n)
      BY <3>2, <3>4 DEF CommandEffect
    <3> QED BY <3>3, <3>5
  <2>2. ASSUME NEW u \in Terminals, cmd_load(u)
        PROVE  \E v \in Terminals \ {t} : cmd_load(v)
    <3>1. u # t
      BY <2>0, <2>2, LoadStep
    <3> QED BY <2>2, <3>1
  <2>3. CASE Restart
    <3>1. get_dir(fs', cwd'[t])
      BY <2>3, ShellAssumption DEF Restart, IsTree, get_dir
    <3> QED BY <3>1
  <2>4. CASE UNCHANGED <<fs, cwd>>
    BY <2>4
  <2>5. ASSUME NEW u \in Terminals, cmd_save(u) PROVE UNCHANGED <<fs, cwd>>
    BY <2>5 DEF cmd_save
  <2>6. ASSUME NEW reaches \in BOOLEAN, write_sector(reaches) PROVE UNCHANGED <<fs, cwd>>
    BY <2>6 DEF write_sector
  <2>7. write_refused => UNCHANGED <<fs, cwd>>
    BY DEF write_refused
  <2> QED BY <2>1, <2>2, <2>3, <2>4, <2>5, <2>6, <2>7 DEF Next
<1> QED BY <1>1, StorageInitially, StorageSteps, PTL DEF Spec, CwdLostToOthersOnly

(***************************************************************************)
(* What the commands and the reader leave in the files                     *)
(***************************************************************************)
\* As many entries as there can be, each of which is one.
Sound(t) == IsFiniteSet(DOMAIN t) /\ \A p \in DOMAIN t : IsEntry(t[p])

LEMMA StoredIs ==
  ASSUME NEW t
  PROVE  Stored(t) <=> Tree(Names, t) /\ Sound(t)
BY DEF Stored, Sound

LEMMA FileIsEntry ==
  ASSUME NEW data \in Seq(Nat)
  PROVE  IsEntry(File(data))
<1>1. File(data).data = data
  BY DEF File
<1> QED BY <1>1 DEF IsEntry

LEMMA InsertIsSound ==
  ASSUME NEW t, Sound(t), NEW p, NEW entry, IsEntry(entry)
  PROVE  Sound(Insert(t, p, entry))
<1> DEFINE u == Insert(t, p, entry)
<1>1. DOMAIN u = DOMAIN t \cup {p} /\ \A q \in DOMAIN u : u[q] = IF q = p THEN entry ELSE t[q]
  BY DEF Insert
<1>2. IsFiniteSet(DOMAIN t \cup {p})
  BY FS_AddElement DEF Sound
<1> HIDE DEF u
<1>3. \A q \in DOMAIN u : IsEntry(u[q])
  BY <1>1 DEF Sound
<1>4. IsFiniteSet(DOMAIN u)
  BY <1>1, <1>2
<1>5. Sound(u)
  BY <1>3, <1>4 DEF Sound
<1> QED BY <1>5 DEF u

LEMMA PartIsSound ==
  ASSUME NEW t, Sound(t), NEW S, S \subseteq DOMAIN t
  PROVE  Sound([q \in S |-> t[q]])
<1>1. IsFiniteSet(S)
  BY FS_Subset DEF Sound
<1> QED BY <1>1 DEF Sound

LEMMA ReplacedIsSound ==
  ASSUME NEW t, Sound(t), NEW p, NEW entry, IsEntry(entry)
  PROVE  Sound(Replaced(t, p, entry))
<1> DEFINE S == {x \in DOMAIN t : ~Below(p, x)}
           u == [q \in S |-> t[q]]
<1>1. S \subseteq DOMAIN t
  OBVIOUS
<1>2. Sound(u)
  <2> HIDE DEF S
  <2> QED BY <1>1, PartIsSound
<1> HIDE DEF u
<1>3. Sound(Insert(u, p, entry))
  BY <1>2, InsertIsSound
<1> QED BY <1>3 DEF Replaced, u

LEMMA WriteIsSound ==
  ASSUME NEW t, Sound(t), NEW path, NEW name, NEW data \in Seq(Nat)
  PROVE  Sound(write(t, path, name, data))
BY InsertIsSound, FileIsEntry DEF write

LEMMA CreateIsSound ==
  ASSUME NEW t, Sound(t), NEW path, NEW name
  PROVE  Sound(create(t, path, name)) /\ Sound(mkdir(t, path, name))
<1>1. IsEntry(File(<<>>)) /\ IsEntry(Dir)
  BY FileIsEntry, EmptySeq DEF IsEntry
<1> QED BY <1>1, InsertIsSound DEF create, mkdir

LEMMA RemoveIsSound ==
  ASSUME NEW t, Sound(t), NEW path, NEW name
  PROVE  Sound(remove(t, path, name))
<1> DEFINE p == Append(path, name)
           S == DOMAIN t \ {p}
<1>1. S \subseteq DOMAIN t
  OBVIOUS
<1>2. Sound([q \in S |-> t[q]])
  <2> HIDE DEF S
  <2> QED BY <1>1, PartIsSound
<1> QED BY <1>2 DEF remove, Without

LEMMA DataOf ==
  ASSUME NEW t, Sound(t), NEW path, NEW name, readable(t, path, name)
  PROVE  t[Append(path, name)].data \in Seq(Nat)
BY DEF Sound, readable, exists, IsEntry

LEMMA CommandIsSound ==
  ASSUME Sound(fs), NEW t \in Terminals, Command(t)
  PROVE  Sound(fs')
<1> DEFINE d == cwd[t]
<1>1. ASSUME NEW n \in Names, cmd_touch(t, n) \/ cmd_mkdir(t, n) \/ cmd_rm(t, n) \/ cd(t, n)
      PROVE  Sound(fs')
  BY <1>1, CreateIsSound, RemoveIsSound
     DEF cmd_touch, cmd_mkdir, cmd_rm, cd, Becomes, Moves
<1>2. ASSUME NEW n \in Names, NEW x \in Contents, cmd_write(t, n, x) PROVE Sound(fs')
  <2>1. x \in Seq(Nat)
    BY StorageAssumption
  <2> QED BY <1>2, <2>1, WriteIsSound DEF cmd_write, Becomes
<1>3. ASSUME NEW n \in Names, NEW x \in Contents, AppendTo(t, n, x) PROVE Sound(fs')
  <2> DEFINE old == IF readable(fs, d, n) THEN fs[Append(d, n)].data ELSE <<>>
             sep == IF old # <<>> /\ old[Len(old)] # Newline THEN <<Newline>> ELSE <<>>
  <2>1. old \in Seq(Nat)
    BY DataOf, EmptySeq
  <2>2. sep \in Seq(Nat) /\ x \in Seq(Nat)
    BY StorageAssumption, EmptySeq
  <2>3. Becomes(write(fs, d, n, old \o sep \o x))
    BY <1>3 DEF AppendTo
  <2> HIDE DEF old, sep, d
  <2>4. old \o sep \o x \in Seq(Nat)
    <3>1. old \o sep \in Seq(Nat)
      BY <2>1, <2>2, ConcatProperties
    <3> QED BY <2>2, <3>1, ConcatProperties
  <2> QED BY <2>3, <2>4, WriteIsSound DEF Becomes
<1>4. ASSUME NEW m \in Names, NEW n \in Names, cmd_cp(t, m, n) PROVE Sound(fs')
  <2>1. fs[Append(d, m)].data \in Seq(Nat)
    BY <1>4, DataOf DEF cmd_cp
  <2> QED BY <1>4, <2>1, WriteIsSound DEF cmd_cp, Becomes
<1>5. ASSUME NEW m \in Names, NEW n \in Names, cmd_mv(t, m, n) PROVE Sound(fs')
  <2>1. fs[Append(d, m)].data \in Seq(Nat)
    BY <1>5, DataOf DEF cmd_mv
  <2> DEFINE u == write(fs, d, n, fs[Append(d, m)].data)
  <2>2. Sound(u)
    BY <2>1, WriteIsSound
  <2>3. fs' = fs \/ fs' = remove(u, d, m)
    BY <1>5 DEF cmd_mv, Becomes
  <2> HIDE DEF u
  <2> QED BY <2>2, <2>3, RemoveIsSound
<1>6. cd_up(t) \/ cd_root(t) => Sound(fs')
  BY DEF cd_up, cd_root, Moves
<1> QED BY <1>1, <1>2, <1>3, <1>4, <1>5, <1>6, Zenon DEF Command

\* The reader finds numbers, whatever it reads.
SoundReader(r) == r.ok => r.rest \in Seq(Nat) /\ Sound(r.tree)

LEMMA DescendIsSound ==
  ASSUME NEW rest \in Seq(Nat), NEW t, Sound(t), NEW dir, NEW left
  PROVE  SoundReader(deserialize_dir(rest, t, dir, left))
<1>1. CASE rest = <<>>
  BY <1>1 DEF deserialize_dir, Corrupt, SoundReader
<1>2. CASE rest # <<>>
  <2>1. Tail(rest) \in Seq(Nat)
    BY <1>2, HeadTailProperties
  <2> QED BY <1>2, <2>1 DEF deserialize_dir, Reading, SoundReader
<1> QED BY <1>1, <1>2

LEMMA RoundIsSound ==
  ASSUME NEW r, SoundReader(r)
  PROVE  SoundReader(Round(r))
<1>1. CASE ~r.ok \/ r.left = <<>>
  BY <1>1 DEF Round
<1>2. CASE r.ok /\ r.left # <<>> /\ r.left[1] = 0
  BY <1>2 DEF Round, Reading, SoundReader
<1>3. CASE r.ok /\ r.left # <<>> /\ r.left[1] # 0
  <2> DEFINE rest == r.rest
             path == Append(r.dir, rest[2])
             left == <<r.left[1] - 1>> \o Tail(r.left)
             body == SubSeq(rest, 3, Len(rest))
  <2>1. Round(r) = deserialize_entry(r)
    BY <1>3 DEF Round
  <2>2. rest \in Seq(Nat) /\ Sound(r.tree) /\ Len(rest) \in Nat
    BY <1>3, LenProperties DEF SoundReader
  <2> HIDE DEF rest, left
  <2>3. body \in Seq(Nat) /\ Len(body) \in Nat
    <3>1. 3 \in Nat \ {0} /\ Len(rest) \in Int /\ Len(rest) <= Len(rest)
      BY <2>2
    <3> QED BY <2>2, <3>1, PartOf, LenProperties
  <2>4. CASE Len(rest) < 2 \/ rest[1] \notin {0, 1} \/ rest[2] \notin Names
    BY <2>1, <2>4 DEF deserialize_entry, SoundReader, Corrupt, rest
  <2>5. CASE ~ (Len(rest) < 2 \/ rest[1] \notin {0, 1} \/ rest[2] \notin Names) /\ rest[1] = 1
    <3>1. Sound(Replaced(r.tree, path, Dir))
      BY <2>2, ReplacedIsSound DEF IsEntry
    <3>2. Round(r) = deserialize_dir(body, Replaced(r.tree, path, Dir), path, left)
      BY <2>1, <2>5 DEF deserialize_entry, rest, left
    <3> HIDE DEF body, path
    <3> QED BY <2>3, <3>1, <3>2, DescendIsSound
  <2>6. CASE ~ (Len(rest) < 2 \/ rest[1] \notin {0, 1} \/ rest[2] \notin Names) /\ rest[1] # 1
    <3> DEFINE data == SubSeq(body, 2, body[1] + 1)
               next == SubSeq(body, body[1] + 2, Len(body))
    <3>1. Round(r) = IF body = <<>> THEN Corrupt
                     ELSE IF Len(body) - 1 < body[1] THEN Corrupt
                     ELSE Reading(next, Replaced(r.tree, path, File(data)), r.dir, left)
      BY <2>1, <2>6 DEF deserialize_entry, rest, left
    <3> HIDE DEF body, path
    <3>2. CASE body = <<>> \/ Len(body) - 1 < body[1]
      BY <3>1, <3>2 DEF SoundReader, Corrupt
    <3>3. CASE ~ (body = <<>> \/ Len(body) - 1 < body[1])
      <4>1. body[1] \in Nat /\ 1 \in 1..Len(body)
        <5>1. 1 \in 1..Len(body)
          BY <2>3, <3>3, EmptySeq
        <5> QED BY <2>3, <5>1, ElementOfSeq
      <4>2. /\ 2 \in Nat \ {0} /\ body[1] + 1 \in Int /\ body[1] + 1 <= Len(body)
            /\ body[1] + 2 \in Nat \ {0} /\ Len(body) \in Int /\ Len(body) <= Len(body)
        BY <2>3, <3>3, <4>1
      <4>3. data \in Seq(Nat) /\ next \in Seq(Nat)
        BY <2>3, <4>2, PartOf
      <4> HIDE DEF data, next
      <4>4. Sound(Replaced(r.tree, path, File(data)))
        BY <2>2, <4>3, ReplacedIsSound, FileIsEntry
      <4> QED BY <3>1, <3>3, <4>3, <4>4 DEF SoundReader, Reading
    <3> QED BY <3>2, <3>3
  <2> QED BY <2>4, <2>5, <2>6
<1> QED BY <1>1, <1>2, <1>3

LEMMA LoadRuns ==
  ASSUME NEW units, NEW rounds \in Nat
  PROVE  \E reader : /\ load_from(units, rounds) = reader[rounds]
                     /\ reader[0] = deserialize_dir(units, EmptyFs, <<>>, <<>>)
                     /\ \A n \in 1..rounds : reader[n] = Round(reader[n - 1])
<1> DEFINE first == deserialize_dir(units, EmptyFs, <<>>, <<>>)
           Is(g) == g = [n \in 0..rounds |-> IF n = 0 THEN first ELSE Round(g[n - 1])]
           reader == CHOOSE g : Is(g)
<1>1. load_from(units, rounds) = reader[rounds]
  BY DEF load_from
<1> HIDE DEF first
<1>2. Is(reader)
  BY ReaderExists
<1> HIDE DEF reader
<1>3. reader[0] = first /\ \A n \in 1..rounds : reader[n] = Round(reader[n - 1])
  BY <1>2, ReaderAt
<1> HIDE DEF Is
<1> QED BY <1>1, <1>3 DEF first

LEMMA LoadedIsSound ==
  ASSUME NEW units \in Seq(Nat), NEW rounds \in Nat, load_from(units, rounds).ok
  PROVE  Sound(load_from(units, rounds).tree)
<1> DEFINE first == deserialize_dir(units, EmptyFs, <<>>, <<>>)
<1>1. SoundReader(first)
  <2>1. Sound(EmptyFs)
    BY FS_Singleton DEF EmptyFs, Sound, IsEntry
  <2> QED BY <2>1, DescendIsSound
<1> HIDE DEF first
<1>2. \E reader : /\ load_from(units, rounds) = reader[rounds] /\ reader[0] = first
                  /\ \A n \in 1..rounds : reader[n] = Round(reader[n - 1])
  BY LoadRuns DEF first
<1>3. PICK reader : /\ load_from(units, rounds) = reader[rounds] /\ reader[0] = first
                    /\ \A n \in 1..rounds : reader[n] = Round(reader[n - 1])
  BY <1>2
<1> DEFINE S == {n \in Nat : n <= rounds => SoundReader(reader[n])}
<1>5. 0 \in S
  BY <1>1, <1>3
<1>6. ASSUME NEW n \in Nat, n \in S PROVE n + 1 \in S
  <2> SUFFICES ASSUME n + 1 <= rounds PROVE SoundReader(reader[n + 1])
    OBVIOUS
  <2>1. n <= rounds /\ n + 1 \in 1..rounds /\ n + 1 - 1 = n
    OBVIOUS
  <2> QED BY <1>3, <1>6, <2>1, RoundIsSound
<1> HIDE DEF S
<1>7. rounds \in S
  BY <1>5, <1>6, SetInduction
<1> QED BY <1>3, <1>7 DEF S, SoundReader

(***************************************************************************)
(* The sectors of the disk                                                 *)
(***************************************************************************)
LEMMA Sectors ==
  /\ Capacity \in Nat /\ UpTo(0) = HEAD_UNITS /\ HEAD_UNITS \in Nat
  /\ \A k \in 0..DISK_SECTORS : UpTo(k) \in 0..Capacity
  /\ \A k \in 1..DISK_SECTORS : UpTo(k - 1) \in Nat /\ UpTo(k - 1) <= UpTo(k)
<1>1. HEAD_UNITS \in Nat /\ SECTOR_UNITS \in Nat /\ DISK_SECTORS \in Nat
  BY StorageAssumption
<1>2. \A k \in Nat : SECTOR_UNITS * k \in Nat
  BY <1>1
<1>3. SECTOR_UNITS * 0 = 0
  BY <1>1
<1>4. ASSUME NEW k \in 0..DISK_SECTORS PROVE SECTOR_UNITS * k <= SECTOR_UNITS * DISK_SECTORS
  <2> DEFINE r == DISK_SECTORS - k
  <2>1. r \in Nat /\ k \in Nat /\ DISK_SECTORS = k + r
    BY <1>1
  <2> HIDE DEF r
  <2>2. SECTOR_UNITS * (k + r) = SECTOR_UNITS * k + SECTOR_UNITS * r
    BY <1>1, <2>1
  <2>3. SECTOR_UNITS * r \in Nat /\ SECTOR_UNITS * k \in Nat
    BY <1>2, <2>1
  <2> QED BY <2>1, <2>2, <2>3
<1>5. ASSUME NEW k \in 1..DISK_SECTORS
      PROVE  SECTOR_UNITS * (k - 1) \in Nat /\ SECTOR_UNITS * (k - 1) <= SECTOR_UNITS * k
  <2> DEFINE j == k - 1
  <2>1. j \in Nat /\ k = j + 1
    BY <1>1
  <2> HIDE DEF j
  <2>2. SECTOR_UNITS * (j + 1) = SECTOR_UNITS * j + SECTOR_UNITS
    BY <1>1, <2>1
  <2>3. SECTOR_UNITS * j \in Nat
    BY <1>2, <2>1
  <2>4. SECTOR_UNITS * j <= SECTOR_UNITS * k
    BY <1>1, <2>1, <2>2, <2>3
  <2> QED BY <2>3, <2>4 DEF j
<1>6. Capacity \in Nat /\ UpTo(0) = HEAD_UNITS
  BY <1>1, <1>2, <1>3 DEF Capacity, UpTo
<1>7. ASSUME NEW k \in 0..DISK_SECTORS PROVE UpTo(k) \in 0..Capacity
  <2>1. k \in Nat
    BY <1>1
  <2>2. SECTOR_UNITS * k \in Nat /\ SECTOR_UNITS * DISK_SECTORS \in Nat
    BY <1>1, <1>2, <2>1
  <2>3. SECTOR_UNITS * k <= SECTOR_UNITS * DISK_SECTORS
    BY <1>4
  <2> QED BY <1>1, <2>2, <2>3 DEF Capacity, UpTo
<1>8. ASSUME NEW k \in 1..DISK_SECTORS PROVE UpTo(k - 1) \in Nat /\ UpTo(k - 1) <= UpTo(k)
  <2>1. k \in Nat
    BY <1>1
  <2>2. SECTOR_UNITS * (k - 1) \in Nat /\ SECTOR_UNITS * k \in Nat
    BY <1>2, <1>5, <2>1
  <2>3. SECTOR_UNITS * (k - 1) <= SECTOR_UNITS * k
    BY <1>5
  <2> QED BY <1>1, <2>2, <2>3 DEF UpTo
<1> QED BY <1>1, <1>6, <1>7, <1>8

(***************************************************************************)
(* What the disk holds                                                     *)
(***************************************************************************)
\* Disk d holds the header and the first n units of data.
OnDisk(d, data, n) ==
  /\ d.magic /\ d.total_len = Len(data)
  /\ \A i \in 1..Capacity : i <= n /\ i <= Len(data) => d.units[i] = data[i]

\* The whole image, or of the save in progress the sectors it has written.
ImageInv ==
  /\ Sound(fs)
  /\ disk.units \in [1..Capacity -> Nat] /\ disk.total_len \in Nat
  /\ saving.on => /\ Stored(saving.tree) /\ saving.data = serialize(saving.tree)
                  /\ saving.sector \in Nat
                  /\ saving = [on |-> TRUE, tree |-> saving.tree, data |-> saving.data,
                               sector |-> saving.sector]
                  /\ saving.sector # 0 =>
                       /\ held \in {Nothing, Part}
                       /\ held = Part => OnDisk(disk, saving.data, UpTo(saving.sector - 1))
  /\ \/ held \in {Nothing, Part}
     \/ /\ held = Whole(held.tree) /\ Stored(held.tree)
        /\ Len(serialize(held.tree)) <= Capacity
        /\ OnDisk(disk, serialize(held.tree), Len(serialize(held.tree)))

SavedInv == StorageInv /\ ImageInv

LEMMA ImageInitially == Init => ImageInv
<1> SUFFICES ASSUME Init PROVE ImageInv
  OBVIOUS
<1>1. Sound(fs)
  BY StorageAssumption DEF Init, ShellInit, Sound
<1>2. disk.units \in [1..Capacity -> Nat] /\ disk.total_len \in Nat
  BY DEF Init, Blank
<1>3. ~saving.on /\ held = Nothing
  BY DEF Init, No
<1> QED BY <1>1, <1>2, <1>3 DEF ImageInv

\* What a step does that leaves the disk and the save alone.
LEMMA SameImage ==
  ASSUME ImageInv, Sound(fs'), UNCHANGED <<disk, saving, held>>
  PROVE  ImageInv'
  BY DEF ImageInv

LEMMA LoadIsSound ==
  ASSUME ImageInv, NEW t \in Terminals, cmd_load(t)
  PROVE  ImageInv'
<1>1. Loaded.ok /\ fs' = Loaded.tree /\ UNCHANGED <<disk, saving, held>>
  BY DEF cmd_load
<1> DEFINE units == SubSeq(disk.units, 1, disk.total_len)
<1>2. Loaded = load_from(units, Capacity) /\ disk.total_len <= Capacity
  <2>1. ~Corrupt.ok
    BY DEF Corrupt
  <2> QED BY <1>1, <2>1, Zenon DEF Loaded
<1>3. units \in Seq(Nat)
  <2>1. disk.units \in Seq(Nat) /\ Len(disk.units) = Capacity
    BY CapacityIsNat, FunctionIsSeq DEF ImageInv
  <2>2. 1 \in Nat \ {0} /\ disk.total_len \in Int /\ disk.total_len <= Len(disk.units)
    BY <1>2, <2>1 DEF ImageInv
  <2> QED BY <2>1, <2>2, PartOf
<1> HIDE DEF units
<1>4. Sound(fs')
  BY <1>1, <1>2, <1>3, CapacityIsNat, LoadedIsSound
<1> QED BY <1>1, <1>4, SameImage

\* A sector that reaches the disk adds to what it holds of the image.
LEMMA SectorReaches ==
  ASSUME NEW data \in Seq(Nat), NEW k \in 0..DISK_SECTORS,
         saving.on, saving.data = data, saving.sector = k, Sent(TRUE),
         disk.units \in [1..Capacity -> Nat], disk.total_len \in Nat,
         k = 0 \/ OnDisk(disk, data, UpTo(k - 1))
  PROVE  OnDisk(disk', data, UpTo(k))
<1>1. Len(data) \in Nat /\ k \in Nat
  BY LenProperties, StorageAssumption
<1>2. /\ disk'.magic = (k = 0 \/ disk.magic)
      /\ disk'.total_len = IF k = 0 THEN Len(data) ELSE disk.total_len
      /\ \A i \in 1..Capacity : disk'.units[i] =
           IF i \notin UnitsOf(k) THEN disk.units[i] ELSE IF i <= Len(data) THEN data[i] ELSE 0
  BY DEF Sent
<1>3. disk'.magic /\ disk'.total_len = Len(data)
  BY <1>2 DEF OnDisk
<1>4. ASSUME NEW i \in 1..Capacity, i <= UpTo(k), i <= Len(data)
      PROVE  disk'.units[i] = data[i]
  <2>1. CASE i \in UnitsOf(k)
    BY <1>2, <1>4, <2>1
  <2>2. CASE i \notin UnitsOf(k)
    <3>1. k # 0 /\ i <= UpTo(k - 1)
      <4>1. k # 0
        BY <1>4, <2>2, Sectors DEF UnitsOf
      <4>2. k \in 1..DISK_SECTORS /\ k \in 0..DISK_SECTORS
        BY <4>1, StorageAssumption
      <4>3. UpTo(k - 1) \in Nat /\ UpTo(k) \in Nat /\ Capacity \in Nat
        BY <4>2, Sectors
      <4>4. i \notin (UpTo(k - 1) + 1)..UpTo(k)
        BY <2>2, <4>1 DEF UnitsOf
      <4> QED BY <1>4, <4>1, <4>3, <4>4
    <3> QED BY <1>2, <1>4, <2>2, <3>1 DEF OnDisk
  <2> QED BY <2>1, <2>2
<1> QED BY <1>3, <1>4 DEF OnDisk

LEMMA NextSector ==
  ASSUME NEW s, NEW s2, NEW t, NEW d, NEW k \in Nat,
         s = [on |-> TRUE, tree |-> t, data |-> d, sector |-> k],
         s2 = [s EXCEPT !.sector = @ + 1]
  PROVE  s2 = [on |-> TRUE, tree |-> t, data |-> d, sector |-> k + 1]
  OBVIOUS

LEMMA SectorStep ==
  ASSUME ImageInv, NEW reaches \in BOOLEAN, write_sector(reaches)
  PROVE  ImageInv'
<1> DEFINE data == saving.data
           k == saving.sector
           last == UpTo(k) >= Len(data)
<1>1. /\ saving.on /\ Sent(reaches) /\ UNCHANGED <<fs, cwd>>
      /\ saving' = IF last THEN No ELSE [saving EXCEPT !.sector = @ + 1]
      /\ held' = IF ~reaches \/ (held = Nothing /\ k # 0) THEN Nothing
                 ELSE IF last THEN Whole(saving.tree) ELSE Part
  BY DEF write_sector
<1>2. /\ Stored(saving.tree) /\ data = serialize(saving.tree) /\ k \in Nat
      /\ saving = [on |-> TRUE, tree |-> saving.tree, data |-> data, sector |-> k]
      /\ k # 0 => held \in {Nothing, Part} /\ (held = Part => OnDisk(disk, data, UpTo(k - 1)))
      /\ disk.units \in [1..Capacity -> Nat] /\ disk.total_len \in Nat
  BY <1>1 DEF ImageInv
<1>3. data \in Seq(Nat) /\ Len(data) \in Nat
  <2>1. Len(serialize(saving.tree)) \in Nat /\ serialize(saving.tree) \in Seq(Nat)
    <3>1. \E f : Writes(saving.tree, f, DOMAIN saving.tree) /\ serialize(saving.tree) = f[<<>>]
      BY <1>2, SerializeIs
    <3>2. <<>> \in DOMAIN saving.tree
      BY <1>2 DEF Stored, Tree, IsTree
    <3>3. serialize(saving.tree) \in Seq(Nat)
      BY <1>2, <3>1, <3>2, WriterType
    <3> QED BY <3>3, LenProperties
  <2> QED BY <1>2, <2>1
<1>4. k \in 0..DISK_SECTORS
  BY <1>1, <1>2, StorageAssumption DEF Sent
<1> HIDE DEF data, k
<1>5. UpTo(k) \in Nat /\ UpTo(k) <= Capacity /\ Capacity \in Nat
  BY <1>4, Sectors
<1>6. disk'.units \in [1..Capacity -> Nat] /\ disk'.total_len \in Nat
  <2>1. \A i \in 1..Capacity : i <= Len(data) => data[i] \in Nat
    <3>1. \A i \in 1..Capacity : i <= Len(data) => i \in 1..Len(data)
      BY <1>3, <1>5
    <3> QED BY <1>3, <3>1, ElementOfSeq
  <2>2. CASE ~reaches
    BY <1>1, <1>2, <2>2 DEF Sent
  <2>3. CASE reaches
    BY <1>1, <1>2, <1>3, <2>1, <2>3 DEF Sent, data, k
  <2> QED BY <2>2, <2>3
<1>7. ASSUME reaches, ~ (held = Nothing /\ k # 0) PROVE OnDisk(disk', data, UpTo(k))
  <2>1. k = 0 \/ OnDisk(disk, data, UpTo(k - 1))
    BY <1>2, <1>7
  <2>2. Sent(TRUE)
    BY <1>1, <1>7
  <2> QED BY <1>1, <1>2, <1>3, <1>4, <2>1, <2>2, SectorReaches DEF data, k
<1>8. CASE last
  <2>1. ~saving'.on
    BY <1>1, <1>8 DEF No
  <2>2. CASE ~reaches \/ (held = Nothing /\ k # 0)
    <3>1. held' = Nothing
      BY <1>1, <2>2
    <3> QED BY <1>1, <1>6, <2>1, <3>1 DEF ImageInv
  <2>3. CASE ~ (~reaches \/ (held = Nothing /\ k # 0))
    <3>1. held' = Whole(saving.tree) /\ held'.tree = saving.tree
      BY <1>1, <1>8, <2>3 DEF Whole
    <3>2. OnDisk(disk', data, UpTo(k))
      BY <1>7, <2>3
    <3>3. OnDisk(disk', data, Len(data))
      <4>1. \A i \in 1..Capacity : i <= Len(data) => i <= UpTo(k)
        BY <1>3, <1>5, <1>8
      <4> QED BY <3>2, <4>1 DEF OnDisk
    <3>4. Len(data) <= Capacity
      BY <1>3, <1>5, <1>8
    <3>5. data = serialize(held'.tree)
      BY <1>2, <3>1
    <3>6. held' = Whole(held'.tree) /\ Stored(held'.tree)
      BY <1>2, <3>1
    <3> QED BY <1>1, <1>6, <2>1, <3>3, <3>4, <3>5, <3>6 DEF ImageInv
  <2> QED BY <2>2, <2>3
<1>9. CASE ~last
  <2>1. saving' = [on |-> TRUE, tree |-> saving.tree, data |-> data, sector |-> k + 1]
    <3> DEFINE tree == saving.tree
    <3>1. saving' = [saving EXCEPT !.sector = @ + 1]
      BY <1>1, <1>9
    <3>2. saving = [on |-> TRUE, tree |-> tree, data |-> data, sector |-> k]
      BY <1>2
    <3>3. k \in Nat
      BY <1>2
    <3> HIDE DEF tree
    <3>4. saving' = [on |-> TRUE, tree |-> tree, data |-> data, sector |-> k + 1]
      BY <3>1, <3>2, <3>3, NextSector
    <3> QED BY <3>4 DEF tree
  <2>2. saving'.tree = saving.tree /\ saving'.data = data /\ saving'.sector = k + 1
        /\ k + 1 \in Nat /\ k + 1 - 1 = k
    BY <1>2, <2>1
  <2>3. held' \in {Nothing, Part}
    BY <1>1, <1>9
  <2>4. held' = Part => reaches /\ ~ (held = Nothing /\ k # 0)
    BY <1>1 DEF Nothing, Part
  <2>5. held' = Part => OnDisk(disk', data, UpTo(k))
    BY <1>7, <2>4
  <2>6. /\ Stored(saving'.tree) /\ saving'.data = serialize(saving'.tree)
        /\ saving'.sector \in Nat
        /\ saving' = [on |-> TRUE, tree |-> saving'.tree, data |-> saving'.data,
                      sector |-> saving'.sector]
    BY <1>2, <2>1, <2>2
  <2>7. held' = Part => OnDisk(disk', saving'.data, UpTo(saving'.sector - 1))
    <3>1. k \in Nat /\ saving'.sector = k + 1
      BY <1>2, <2>2
    <3>2. saving'.sector - 1 = k
      BY <3>1
    <3>3. saving'.data = data
      BY <2>2
    <3> QED BY <2>5, <3>2, <3>3
  <2> QED BY <1>1, <1>2, <1>6, <2>3, <2>6, <2>7 DEF ImageInv
<1> QED BY <1>8, <1>9

LEMMA ImageSteps == SavedInv /\ [Next]_vars => SavedInv'
<1> SUFFICES ASSUME SavedInv, [Next]_vars PROVE ImageInv'
  BY StorageSteps DEF SavedInv
<1>0. ImageInv /\ Tree(Names, fs) /\ Sound(fs)
  BY DEF SavedInv, StorageInv, ShellInv, ImageInv
<1>1. CASE Shell
  <2>1. PICK t \in Terminals : Command(t)
    BY <1>1 DEF Shell
  <2>2. Sound(fs')
    BY <1>0, <2>1, CommandIsSound
  <2> QED BY <1>0, <1>1, <2>2, SameImage DEF Shell
<1>2. ASSUME NEW t \in Terminals, cmd_save(t) PROVE ImageInv'
  <2>1. saving' = [on |-> TRUE, tree |-> fs, data |-> serialize(fs), sector |-> 0]
        /\ UNCHANGED <<fs, cwd, disk, held>>
    BY <1>2 DEF cmd_save
  <2>2. /\ Stored(saving'.tree) /\ saving'.data = serialize(saving'.tree)
        /\ saving'.sector = 0 /\ 0 \in Nat
        /\ saving' = [on |-> TRUE, tree |-> saving'.tree, data |-> saving'.data,
                      sector |-> saving'.sector]
    BY <1>0, <2>1, StoredIs
  <2> QED BY <1>0, <2>1, <2>2 DEF ImageInv
<1>3. ASSUME NEW t \in Terminals, cmd_load(t) PROVE ImageInv'
  BY <1>0, <1>3, LoadIsSound
<1>4. ASSUME NEW reaches \in BOOLEAN, write_sector(reaches) PROVE ImageInv'
  BY <1>0, <1>4, SectorStep
<1>5. ASSUME saving' = No, UNCHANGED <<disk, held>>, Sound(fs') PROVE ImageInv'
  <2>1. ~saving'.on
    BY <1>5 DEF No
  <2> QED BY <1>0, <1>5, <2>1 DEF ImageInv
<1>6. CASE write_refused
  BY <1>0, <1>5, <1>6 DEF write_refused
<1>7. CASE Restart
  BY <1>5, <1>7, StorageAssumption DEF Restart, Sound
<1>8. CASE UNCHANGED vars
  BY <1>0, <1>8, SameImage DEF vars
<1> QED BY <1>1, <1>2, <1>3, <1>4, <1>6, <1>7, <1>8 DEF Next

\* Once all writes of a save have reached the disk, load gives back the tree that
\* was saved, for every tree, size of sector and disk: whatever was there before,
\* after saves that were given up before their first sector, and across restarts.
\* A tree with a name that is cut inside a character it refuses.
THEOREM SavedTreeComesBack == Spec => []SavedTreeIsLoaded
<1>1. SavedInv => SavedTreeIsLoaded
  <2> SUFFICES ASSUME SavedInv, held.kind = "whole"
               PROVE  IF Readable(held.tree) THEN Loaded.ok /\ Loaded.tree = Saved(held.tree)
                      ELSE ~Loaded.ok
    BY DEF SavedTreeIsLoaded
  <2> DEFINE data == serialize(held.tree)
             units == SubSeq(disk.units, 1, disk.total_len)
  <2>1. held \notin {Nothing, Part}
    BY DEF Nothing, Part
  <2>2. Stored(held.tree) /\ Len(data) <= Capacity /\ OnDisk(disk, data, Len(data))
        /\ disk.units \in [1..Capacity -> Nat]
    BY <2>1 DEF SavedInv, ImageInv
  <2>3. /\ data \in Seq(Nat)
        /\ IF Readable(held.tree)
           THEN load_from(data, Capacity).ok /\ load_from(data, Capacity).tree = Saved(held.tree)
           ELSE ~load_from(data, Capacity).ok
    BY <2>2, CapacityIsNat, RoundTrip
  <2> HIDE DEF data
  <2>4. Len(data) \in Nat /\ disk.magic /\ disk.total_len = Len(data)
        /\ \A i \in 1..Capacity : i <= Len(data) => disk.units[i] = data[i]
    BY <2>2, <2>3, LenProperties DEF OnDisk
  <2>5. units = data
    <3>1. disk.units \in Seq(Nat) /\ Len(disk.units) = Capacity
      BY <2>2, CapacityIsNat, FunctionIsSeq
    <3>2. Len(data) \in 0..Len(disk.units)
      BY <2>2, <2>4, <3>1, CapacityIsNat
    <3>3. units \in Seq(Nat) /\ Len(units) = Len(data) /\ \A i \in 1..Len(data) : units[i] = disk.units[i]
      BY <2>4, <3>1, <3>2, PrefixIs
    <3> HIDE DEF units
    <3>4. \A i \in 1..Len(units) : units[i] = data[i]
      <4>1. \A i \in 1..Len(data) : i \in 1..Capacity /\ i <= Len(data)
        BY <2>2, <2>4, CapacityIsNat
      <4> QED BY <2>4, <3>3, <4>1
    <3> QED BY <2>3, <3>3, <3>4, SeqEqual
  <2>6. Loaded = load_from(units, Capacity)
    BY <2>2, <2>4 DEF Loaded
  <2> QED BY <2>3, <2>5, <2>6
<1>2. Init => SavedInv
  BY StorageInitially, ImageInitially DEF SavedInv
<1> QED BY <1>1, <1>2, ImageSteps, PTL DEF Spec

(***************************************************************************)
(* Parsing a line                                                          *)
(***************************************************************************)
LEMMA LastOfIs ==
  ASSUME NEW W, NEW line \in Seq(W), NEW words
  PROVE  /\ LastOf(line, words) \in 0..Len(line)
         /\ LastOf(line, words) # 0 => line[LastOf(line, words)] \in words
         /\ \A i \in 1..Len(line) : line[i] \in words => i <= LastOf(line, words)
<1> DEFINE S == {0} \cup {i \in DOMAIN line : line[i] \in words}
<1>1. Len(line) \in Nat /\ DOMAIN line = 1..Len(line)
  OBVIOUS
<1>2. S \in SUBSET (0..Len(line)) /\ S # {}
  BY <1>1
<1>3. \A i : i \in S <=> i = 0 \/ (i \in 1..Len(line) /\ line[i] \in words)
  BY <1>1
<1> HIDE DEF S
<1>4. Max(S) \in S /\ \A j \in S : j <= Max(S)
  BY <1>1, <1>2, GreatestOf
<1>5. LastOf(line, words) = Max(S)
  BY Zenon DEF LastOf, S
<1> QED BY <1>2, <1>3, <1>4, <1>5

\* The last one is where the words are and none is behind.
LEMMA LastIsAt ==
  ASSUME NEW W, NEW line \in Seq(W), NEW words, NEW i \in 0..Len(line),
         i # 0 => line[i] \in words,
         \A j \in 1..Len(line) : line[j] \in words => j <= i
  PROVE  LastOf(line, words) = i
<1> DEFINE last == LastOf(line, words)
<1>1. /\ last \in 0..Len(line)
      /\ last # 0 => line[last] \in words
      /\ \A j \in 1..Len(line) : line[j] \in words => j <= last
  BY LastOfIs
<1>2. Len(line) \in Nat
  OBVIOUS
<1> HIDE DEF last
<1>3. last <= i /\ i <= last
  BY <1>1, <1>2
<1>4. last = i
  BY <1>1, <1>2, <1>3
<1> QED BY <1>4 DEF last

LEMMA Sides ==
  ASSUME NEW W, NEW line \in Seq(W), NEW i \in 0..(Len(line) + 1)
  PROVE  /\ After(line, i) \in Seq(W)
         /\ Len(After(line, i)) = IF i <= Len(line) THEN Len(line) - i ELSE 0
         /\ \A j \in 1..(Len(line) - i) : After(line, i)[j] = line[i + j]
         /\ i # 0 => /\ Before(line, i) \in Seq(W)
                     /\ Len(Before(line, i)) = i - 1
                     /\ \A j \in 1..(i - 1) : Before(line, i)[j] = line[j]
<1>1. Len(line) \in Nat
  OBVIOUS
<1>2. /\ After(line, i) \in Seq(W)
      /\ Len(After(line, i)) = IF i <= Len(line) THEN Len(line) - i ELSE 0
      /\ \A j \in 1..(Len(line) - i) : After(line, i)[j] = line[i + j]
  <2> DEFINE m == i + 1
             n == Len(line)
  <2>1. m \in Nat \ {0} /\ n \in Int /\ n <= Len(line) /\ n - m + 1 = Len(line) - i
        /\ \A j \in Int : m + j - 1 = i + j
    BY <1>1
  <2>2. m <= n <=> i < Len(line)
    BY <1>1
  <2> HIDE DEF m, n
  <2>3. /\ SubSeq(line, m, n) \in Seq(W)
        /\ Len(SubSeq(line, m, n)) = IF m <= n THEN n - m + 1 ELSE 0
        /\ \A j \in 1..(n - m + 1) : SubSeq(line, m, n)[j] = line[m + j - 1]
    BY <2>1, PartOf
  <2>4. After(line, i) = SubSeq(line, m, n)
    BY DEF After, m, n
  <2> QED BY <1>1, <2>1, <2>2, <2>3, <2>4
<1>3. ASSUME i # 0
      PROVE  /\ Before(line, i) \in Seq(W)
             /\ Len(Before(line, i)) = i - 1
             /\ \A j \in 1..(i - 1) : Before(line, i)[j] = line[j]
  <2> DEFINE n == i - 1
  <2>1. n \in Int /\ n <= Len(line) /\ n - 1 + 1 = n /\ n >= 0 /\ (1 <= n \/ n = 0)
        /\ \A j \in Int : 1 + j - 1 = j
    BY <1>1, <1>3
  <2> HIDE DEF n
  <2>2. /\ SubSeq(line, 1, n) \in Seq(W)
        /\ Len(SubSeq(line, 1, n)) = IF 1 <= n THEN n - 1 + 1 ELSE 0
        /\ \A j \in 1..(n - 1 + 1) : SubSeq(line, 1, n)[j] = line[1 + j - 1]
    BY <2>1, PartOf
  <2>3. Before(line, i) = SubSeq(line, 1, n)
    BY DEF Before, n
  <2> QED BY <2>1, <2>2, <2>3 DEF n
<1> QED BY <1>2, <1>3

Modes == {"print", ">", ">>"}

LEMMA ParsedType ==
  ASSUME NEW W, NEW line \in Seq(W),
         NEW out \in 0..Len(line), out # 0 => line[out] \in {">", ">>"},
         NEW rest \in Seq(W), NEW in \in 0..Len(rest)
  PROVE  LET p == Parsed(line, out, rest, in)
         IN  /\ p.pipeline \in Seq(W) /\ p.input \in Seq(W)
             /\ p.mode \in Modes /\ p.name \in Seq(W)
<1>1. Len(line) \in Nat /\ Len(rest) \in Nat
  OBVIOUS
<1>2. After(line, out) \in Seq(W) /\ After(rest, in) \in Seq(W)
  BY <1>1, Sides
<1>3. in # 0 => Before(rest, in) \in Seq(W)
  BY <1>1, Sides
<1>4. <<>> \in Seq(W)
  OBVIOUS
<1> QED BY <1>2, <1>3, <1>4 DEF Parsed, Modes

LEMMA ParseType ==
  ASSUME NEW W, NEW line \in Seq(W)
  PROVE  /\ Parse(line).pipeline \in Seq(W) /\ Parse(line).input \in Seq(W)
         /\ Parse(line).mode \in Modes /\ Parse(line).name \in Seq(W)
<1>0. Len(line) \in Nat
  OBVIOUS
<1>1. ASSUME NEW out \in 0..Len(line), NEW rest,
             rest = IF out = 0 THEN line ELSE Before(line, out)
      PROVE  rest \in Seq(W) /\ LastOf(rest, {"<"}) \in 0..Len(rest) /\ 0 \in 0..Len(rest)
  <2>1. rest \in Seq(W)
    BY <1>0, <1>1, Sides
  <2> QED BY <2>1, LastOfIs
<1>2. CASE front = "gui"
  <2> DEFINE S    == IF Has(line, {">>"}) THEN {">>"} ELSE {">"}
             last == LastOf(line, S)
             out  == IF last # 0 /\ IsTarget(After(line, last)) THEN last ELSE 0
             rest == IF out = 0 THEN line ELSE Before(line, out)
             at   == LastOf(rest, {"<"})
             in   == IF After(rest, at) = <<>> THEN 0 ELSE at
  <2>1. last \in 0..Len(line) /\ (last # 0 => line[last] \in S)
    BY LastOfIs
  <2>2. S \subseteq {">", ">>"}
    OBVIOUS
  <2> HIDE DEF last, S
  <2>a. last # 0 => line[last] \in {">", ">>"}
    BY <2>1, <2>2
  <2>3. out \in 0..Len(line) /\ (out # 0 => line[out] \in {">", ">>"})
    <3>1. out = last \/ out = 0
      BY Zenon
    <3> QED BY <1>0, <2>1, <2>a, <3>1
  <2> HIDE DEF out
  <2>4. rest \in Seq(W) /\ at \in 0..Len(rest) /\ 0 \in 0..Len(rest)
    BY <1>1, <2>3
  <2> HIDE DEF rest, at
  <2>5. in \in 0..Len(rest)
    BY <2>4
  <2> HIDE DEF in
  <2>6. Parse(line) = Parsed(line, out, rest, in)
    BY <1>2, Zenon DEF Parse, parse_gui, S, last, out, rest, at, in
  <2> QED BY <2>3, <2>4, <2>5, <2>6, ParsedType
<1>3. CASE front # "gui"
  <2> DEFINE append == LastOf(line, {">>"})
             last == IF append # 0 /\ IsTarget(After(line, append)) THEN append
                     ELSE LastOf(line, {">", ">>"})
             out  == IF last # 0 /\ IsTarget(After(line, last)) THEN last ELSE 0
             rest == IF out = 0 THEN line ELSE Before(line, out)
             at   == LastOf(rest, {"<"})
             name == After(rest, at)
             in   == IF name = <<>> \/ (out = 0 /\ Has(name, {"|", ">", ">>"})) THEN 0 ELSE at
  <2>1. append \in 0..Len(line) /\ (append # 0 => line[append] \in {">>"})
    BY LastOfIs
  <2>2. LastOf(line, {">", ">>"}) \in 0..Len(line)
        /\ (LastOf(line, {">", ">>"}) # 0 => line[LastOf(line, {">", ">>"})] \in {">", ">>"})
    BY LastOfIs
  <2> HIDE DEF append
  <2>3. last \in 0..Len(line) /\ (last # 0 => line[last] \in {">", ">>"})
    BY <2>1, <2>2
  <2> HIDE DEF last
  <2>4. out \in 0..Len(line) /\ (out # 0 => line[out] \in {">", ">>"})
    BY <1>0, <2>3
  <2> HIDE DEF out
  <2>5. rest \in Seq(W) /\ at \in 0..Len(rest) /\ 0 \in 0..Len(rest)
    BY <1>1, <2>4
  <2> HIDE DEF rest, at, name
  <2>6. in \in 0..Len(rest)
    BY <2>5
  <2> HIDE DEF in
  <2>7. Parse(line) = Parsed(line, out, rest, in)
    BY <1>3, Zenon DEF Parse, parse_text, append, last, out, rest, at, name, in
  <2> QED BY <2>4, <2>5, <2>6, <2>7, ParsedType
<1> QED BY <1>2, <1>3

\* The commands of a line are not empty.
LEMMA StagesType ==
  ASSUME NEW W, NEW pipeline \in Seq(W)
  PROVE  Stages(pipeline) \in Seq(Seq(W) \ {<<>>})
<1> DEFINE parts == Split(pipeline, "|")
           S == {k \in DOMAIN parts : parts[k] # <<>>}
           kept == Retained(parts, S)
<1>1. parts \in Seq(Seq(W))
  BY SplitType
<1> HIDE DEF parts
<1>2. S \in SUBSET (1..Len(parts))
  BY <1>1
<1>3. /\ kept \in Seq(Seq(W)) /\ Len(kept) = Cardinality(S)
      /\ \A k \in 1..Cardinality(S) : \E i \in S : kept[k] = parts[i]
  <2> HIDE DEF S
  <2> QED BY <1>1, <1>2, RetainedProperties, Zenon
<1>4. \A k \in 1..Len(kept) : kept[k] \in Seq(W) \ {<<>>}
  <2> HIDE DEF kept
  <2>1. \A k \in 1..Len(kept) : kept[k] \in Seq(W)
    BY <1>3
  <2>2. \A k \in 1..Len(kept) : kept[k] # <<>>
    BY <1>3
  <2> QED BY <2>1, <2>2
<1>5. Stages(pipeline) = kept
  BY Zenon DEF Stages, parts
<1> HIDE DEF kept
<1>6. kept \in [1..Len(kept) -> Seq(W) \ {<<>>}] /\ Len(kept) \in Nat
  BY <1>3, <1>4, LenProperties
<1> QED BY <1>5, <1>6, FunctionIsSeq

(***************************************************************************)
(* CommandLine                                                             *)
(***************************************************************************)
JobInv ==
  \/ job = Idle
  \/ /\ job.on = TRUE
     /\ {"on", "t", "stages", "pipe", "mode", "name"} \subseteq DOMAIN job
     /\ job.t \in Terminals
     /\ job.stages \in Seq(Seq(Words) \ {<<>>})
     /\ job.mode \in Modes /\ job.name \in Seq(Words)

EnvInv == \A v \in DOMAIN env : env[v] \in Seq(Words)

LineInv == ShellInv(Seq(Words)) /\ EnvInv /\ JobInv

LEMMA LineInitially == LineInit => LineInv
<1> SUFFICES ASSUME LineInit PROVE LineInv
  OBVIOUS
<1>1. fs = BootFs /\ cwd = [t \in Terminals |-> <<>>]
  BY DEF LineInit, ShellInit
<1>2. Tree(Seq(Words), BootFs)
  BY ShellAssumption, CommandLineAssumption DEF Tree
<1>3. <<>> \in Seq(Seq(Words))
  OBVIOUS
<1>4. ShellInv(Seq(Words))
  BY <1>1, <1>2, <1>3 DEF ShellInv
<1> QED BY <1>4, CommandLineAssumption DEF LineInit, LineInv, JobInv, EnvInv

LEMMA ExpandType ==
  ASSUME EnvInv, NEW line \in Seq(Words)
  PROVE  expand_env_vars(line) \in Seq(Words)
<1> DEFINE s == [i \in DOMAIN line |->
             IF line[i] \notin DOMAIN Vars THEN <<line[i]>>
             ELSE IF Vars[line[i]] \in DOMAIN env THEN env[Vars[line[i]]] ELSE <<>>]
<1>1. Len(line) \in Nat /\ DOMAIN line = 1..Len(line) /\ \A i \in 1..Len(line) : line[i] \in Words
  OBVIOUS
<1>2. \A i \in 1..Len(line) : <<line[i]>> \in Seq(Words)
  BY <1>1
<1>3. <<>> \in Seq(Words)
  OBVIOUS
<1>4. s \in [1..Len(line) -> Seq(Words)]
  BY <1>1, <1>2, <1>3 DEF EnvInv
<1>5. s \in Seq(Seq(Words))
  BY <1>1, <1>4, FunctionIsSeq
<1> HIDE DEF s
<1>6. FlattenSeq(s) \in Seq(Words)
  BY <1>5, FlattenType
<1> QED BY <1>6, Zenon DEF expand_env_vars, s

LEMMA GivenStep ==
  ASSUME LineInv, NEW t \in Terminals, NEW typed \in Lines, execute_line(t, typed)
  PROVE  LineInv'
<1> DEFINE line == expand_env_vars(typed)
           p == Parse(line)
<1>1. typed \in Seq(Words)
  BY CommandLineAssumption
<1>2. line \in Seq(Words)
  BY <1>1, ExpandType DEF LineInv
<1> HIDE DEF line
<1>3. p.pipeline \in Seq(Words) /\ p.mode \in Modes /\ p.name \in Seq(Words)
  BY <1>2, ParseType
<1>4. Stages(p.pipeline) \in Seq(Seq(Words) \ {<<>>})
  BY <1>3, StagesType
<1>5. /\ job'.on = TRUE /\ {"on", "t", "stages", "pipe", "mode", "name"} \subseteq DOMAIN job'
      /\ job'.t = t /\ job'.stages = Stages(p.pipeline)
      /\ job'.mode = p.mode /\ job'.name = p.name
  <2> HIDE DEF p
  <2> QED BY DEF execute_line, p, line
<1>6. JobInv'
  BY <1>3, <1>4, <1>5 DEF JobInv
<1>7. UNCHANGED <<fs, cwd, env>>
  BY DEF execute_line
<1> QED BY <1>6, <1>7 DEF LineInv, ShellInv, EnvInv

LEMMA OutputStep ==
  ASSUME JobInv, job.on, job.stages # <<>>, NEW text, Outputs(text)
  PROVE  JobInv'
<1>1. job # Idle
  BY DEF Idle
<1>2. Tail(job.stages) \in Seq(Seq(Words) \ {<<>>})
  BY <1>1 DEF JobInv
<1>3. job' = [job EXCEPT !.stages = Tail(job.stages), !.pipe = <<text>>]
  BY DEF Outputs
<1> QED BY <1>1, <1>2, <1>3 DEF JobInv

\* The words of the next command.
LEMMA Arguments ==
  ASSUME JobInv, job.on, job.stages # <<>>
  PROVE  /\ job.t \in Terminals
         /\ Args \in Seq(Words) /\ Name \in Seq(Words)
         /\ Args # <<>> => Rest \in Seq(Words) /\ Args[1] \in Words
<1>1. job # Idle
  BY DEF Idle
<1>2. job.t \in Terminals /\ Head(job.stages) \in Seq(Words) \ {<<>>}
  BY <1>1 DEF JobInv
<1>3. Args \in Seq(Words)
  BY <1>2, HeadTailProperties DEF Args
<1> HIDE DEF Args
<1>4. \A i \in DOMAIN Args : Args[i] \in Words
  BY <1>3
<1>5. Name \in Seq(Words)
  BY <1>4 DEF Name, Word
<1>6. Args # <<>> => Rest \in Seq(Words) /\ Args[1] \in Words
  BY <1>3, HeadTailProperties DEF Rest
<1> QED BY <1>2, <1>3, <1>5, <1>6

LEMMA CommandLineStep ==
  ASSUME LineInv, run_command
  PROVE  LineInv'
<1> DEFINE N == Seq(Words)
           t == job.t
<1>0. job.on /\ job.stages # <<>> /\ JobInv /\ EnvInv /\ ShellInv(N)
  BY DEF run_command, LineInv
<1>1. /\ t \in Terminals /\ Args \in Seq(Words) /\ Name \in N
      /\ Args # <<>> => Rest \in N /\ Args[1] \in Words
  BY <1>0, Arguments
<1>2. \A u : CommandEffect(N, u) => ShellInv(N)'
  BY DEF CommandEffect
<1>3. /\ \A n \in N : cmd_touch(t, n) \/ cmd_mkdir(t, n) \/ cmd_rm(t, n) \/ cd(t, n) => ShellInv(N)'
      /\ \A n \in N : \A d : cmd_write(t, n, d) => ShellInv(N)'
      /\ \A m, n \in N : cmd_cp(t, m, n) \/ cmd_mv(t, m, n) => ShellInv(N)'
      /\ cd_up(t) \/ cd_root(t) => ShellInv(N)'
  BY <1>0, <1>1, <1>2, CommandEffects, Zenon
<1>4. UNCHANGED <<fs, cwd>> => ShellInv(N)'
  BY <1>0 DEF ShellInv
<1>5. UNCHANGED env => EnvInv'
  BY <1>0 DEF EnvInv
<1>6. \A text : Outputs(text) => JobInv'
  BY <1>0, OutputStep
<1> HIDE DEF N
<1>7. CASE run_reader
  BY <1>4, <1>5, <1>6, <1>7 DEF run_reader, LineInv, N
<1>8. CASE run_on_name
  <2>1. ShellInv(N)'
    BY <1>1, <1>3, <1>8, Zenon DEF run_on_name
  <2>2. JobInv' /\ EnvInv'
    BY <1>5, <1>6, <1>8 DEF run_on_name
  <2> QED BY <2>1, <2>2 DEF LineInv, N
<1>9. CASE run_on_two
  <2>1. Args # <<>>
    BY <1>1, <1>9 DEF run_on_two
  <2>2. /\ \/ cmd_write(t, Name, Rest) \/ cmd_cp(t, Name, Rest) \/ cmd_mv(t, Name, Rest)
           \/ UNCHANGED <<fs, cwd>>
        /\ \E text : Outputs(text)
        /\ UNCHANGED env
    BY <1>9, Zenon DEF run_on_two
  <2>3. ShellInv(N)'
    BY <1>1, <1>3, <1>4, <2>1, <2>2, Zenon
  <2> QED BY <1>5, <1>6, <2>2, <2>3 DEF LineInv, N
<1>10. CASE run_without_arguments
  BY <1>4, <1>5, <1>6, <1>10 DEF run_without_arguments, LineInv, N
<1>11. CASE run_cd
  <2>1. cd_root(t) \/ cd_up(t) \/ cd(t, Name) \/ UNCHANGED <<fs, cwd>>
    BY <1>11, Zenon DEF run_cd
  <2>2. ShellInv(N)'
    BY <1>1, <1>3, <1>4, <2>1, Zenon
  <2>3. JobInv' /\ EnvInv'
    BY <1>5, <1>6, <1>11 DEF run_cd
  <2> QED BY <2>2, <2>3 DEF LineInv, N
<1>12. CASE cmd_export
  <2>1. Args # <<>> /\ UNCHANGED <<fs, cwd>> /\ \E text : Outputs(text)
    BY <1>12, Zenon DEF cmd_export
  <2>2. EnvInv'
    <3>1. CASE UNCHANGED env
      BY <1>5, <3>1
    <3>2. CASE /\ Len(Args) > 1
               /\ env' = [v \in DOMAIN env \cup {Args[1]} |->
                            IF v = Args[1] THEN Tail(Rest) ELSE env[v]]
      <4>1. Rest # <<>> /\ Rest \in Seq(Words)
        <5>1. Rest = Tail(Args) /\ Args \in Seq(Words) /\ Args # <<>> /\ Len(Args) \in Nat
          BY <1>1, <2>1 DEF Rest
        <5>2. Len(Rest) = Len(Args) - 1 /\ Rest \in Seq(Words)
          BY <5>1, HeadTailProperties
        <5>3. Len(Args) > 1
          BY <3>2
        <5>4. Len(Rest) # 0
          BY <5>1, <5>2, <5>3
        <5> QED BY <5>2, <5>4, EmptySeq
      <4>2. Tail(Rest) \in Seq(Words)
        BY <4>1, HeadTailProperties
      <4> QED BY <1>0, <3>2, <4>2 DEF EnvInv
    <3> QED BY <1>12, <3>1, <3>2, Zenon DEF cmd_export
  <2>3. ShellInv(N)' /\ JobInv'
    BY <1>4, <1>6, <2>1
  <2> QED BY <2>2, <2>3 DEF LineInv, N
<1> QED BY <1>7, <1>8, <1>9, <1>10, <1>11, <1>12 DEF run_command

LEMMA LineSteps == LineInv /\ [LineNext]_lvars => LineInv'
<1> SUFFICES ASSUME LineInv, [LineNext]_lvars PROVE LineInv'
  OBVIOUS
<1>1. ASSUME NEW t \in Terminals, NEW typed \in Lines, execute_line(t, typed) PROVE LineInv'
  BY <1>1, GivenStep
<1>2. CASE run_command
  BY <1>2, CommandLineStep
<1>3. CASE handle_output
  <2>1. job # Idle /\ job.on /\ JobInv /\ ShellInv(Seq(Words))
    BY <1>3 DEF handle_output, Idle, LineInv
  <2>2. job.t \in Terminals /\ job.mode \in Modes /\ job.name \in Seq(Words)
    BY <2>1 DEF JobInv
  <2>3. \/ UNCHANGED <<fs, cwd>>
        \/ cmd_write(job.t, job.name, job.pipe[1])
        \/ AppendTo(job.t, job.name, job.pipe[1])
    <3>1. CASE job.mode = "print" \/ job.pipe = <<>>
      BY <1>3, <3>1 DEF handle_output
    <3>2. CASE job.mode = ">" /\ job.pipe # <<>>
      BY <1>3, <3>2 DEF handle_output
    <3>3. CASE job.mode = ">>" /\ job.pipe # <<>>
      BY <1>3, <3>3 DEF handle_output
    <3> QED BY <2>2, <3>1, <3>2, <3>3 DEF Modes
  <2>4. ShellInv(Seq(Words))'
    <3>1. \A n \in Seq(Words) : \A d :
            cmd_write(job.t, n, d) \/ AppendTo(job.t, n, d) => CommandEffect(Seq(Words), job.t)
      BY <2>1, <2>2, CommandEffects, Zenon
    <3>2. CommandEffect(Seq(Words), job.t) => ShellInv(Seq(Words))'
      BY DEF CommandEffect
    <3>3. UNCHANGED <<fs, cwd>> => ShellInv(Seq(Words))'
      BY <2>1 DEF ShellInv
    <3> QED BY <2>2, <2>3, <3>1, <3>2, <3>3, Zenon
  <2>5. job' = Idle /\ UNCHANGED env
    BY <1>3 DEF handle_output
  <2> QED BY <2>4, <2>5 DEF LineInv, JobInv, EnvInv, Idle
<1>4. CASE restart
  <2>1. Tree(Seq(Words), fs') /\ cwd' \in [Terminals -> Seq(Seq(Words))]
    BY <1>4, ShellAssumption, CommandLineAssumption DEF restart, Tree
  <2> QED BY <1>4, <2>1, CommandLineAssumption DEF restart, LineInv, ShellInv, JobInv, EnvInv
<1>5. CASE UNCHANGED lvars
  BY <1>5 DEF lvars, LineInv, ShellInv, JobInv, EnvInv
<1> QED BY <1>1, <1>2, <1>3, <1>4, <1>5 DEF LineNext

\* Whatever lines are given, the file system stays a tree through redirections
\* and pipelines, and a command that is run has a name.
THEOREM LineTypes == LineSpec => []LineTypeOK
<1>1. LineInv => LineTypeOK
  <2> SUFFICES ASSUME LineInv PROVE LineTypeOK
    OBVIOUS
  <2>1. /\ IsTree(fs) /\ \A p \in DOMAIN fs : p \in Seq(Seq(Words))
        /\ cwd \in [Terminals -> Seq(Seq(Words))]
        /\ \A v \in DOMAIN env : env[v] \in Seq(Words)
    BY DEF LineInv, ShellInv, Tree, EnvInv
  <2>2. job.on \in BOOLEAN
    <3>1. CASE job = Idle
      <4>1. Idle.on = FALSE
        BY DEF Idle
      <4> QED BY <3>1, <4>1
    <3>2. CASE job.on = TRUE
      BY <3>2
    <3> QED BY <3>1, <3>2, Zenon DEF LineInv, JobInv
  <2>3. job.on => /\ job.t \in Terminals
                  /\ job.stages \in Seq(Seq(Words) \ {<<>>})
                  /\ job.mode \in {"print", ">", ">>"}
                  /\ job.name \in Seq(Words)
    BY DEF LineInv, JobInv, Idle, Modes
  <2> QED BY <2>1, <2>2, <2>3 DEF LineTypeOK
<1> QED BY <1>1, LineInitially, LineSteps, PTL DEF LineSpec

(***************************************************************************)
(* Well-formed lines                                                       *)
(***************************************************************************)
LEMMA FirstOfIs ==
  ASSUME NEW W, NEW line \in Seq(W)
  PROVE  /\ FirstOf(line) \in 1..(Len(line) + 1)
         /\ FirstOf(line) # Len(line) + 1 => line[FirstOf(line)] \in {"<", ">", ">>"}
         /\ \A i \in 1..Len(line) : line[i] \in {"<", ">", ">>"} => FirstOf(line) <= i
<1> DEFINE S == Redirections(line) \cup {Len(line) + 1}
<1>1. Len(line) \in Nat /\ DOMAIN line = 1..Len(line)
  OBVIOUS
<1>2. \A i : i \in Redirections(line) <=> i \in 1..Len(line) /\ line[i] \in {"<", ">", ">>"}
  BY <1>1 DEF Redirections, Operators
<1>3. S \subseteq Nat /\ S # {}
  BY <1>1, <1>2
<1>4. \E i \in S : \A j \in S : i <= j
  <2> HIDE DEF S
  <2> QED BY <1>3, LeastExists
<1>5. FirstOf(line) \in S /\ \A j \in Redirections(line) : FirstOf(line) <= j
  BY <1>4 DEF FirstOf
<1> HIDE DEF S
<1>6. FirstOf(line) \in 1..(Len(line) + 1)
  BY <1>1, <1>2, <1>5 DEF S
<1>7. FirstOf(line) # Len(line) + 1 => line[FirstOf(line)] \in {"<", ">", ">>"}
  BY <1>2, <1>5 DEF S
<1> QED BY <1>2, <1>5, <1>6, <1>7

\* The end of what is left of a line without its output, which is at to or nowhere.
EndOfRest(line, to) == IF to = 0 THEN Len(line) ELSE Len(line) - 2

\* A line with its input at at and its output at to, where 0 is none.
Shaped(line, at, to) ==
  /\ at \in 0..Len(line) /\ to \in 0..Len(line)
  /\ to # 0 => to = Len(line) - 1 /\ line[Len(line)] \notin Operators
  /\ at # 0 => /\ at = EndOfRest(line, to) - 1
               /\ line[EndOfRest(line, to)] \notin Operators
  /\ FirstOf(line) = IF at # 0 THEN at ELSE EndOfRest(line, to) + 1
  /\ \A i \in 1..Len(line) : line[i] = "<" <=> i = at
  /\ \A i \in 1..Len(line) : line[i] \in {">", ">>"} <=> i = to

LEMMA WellFormedIsShaped ==
  ASSUME NEW W, NEW line \in Seq(W), WellFormed(line)
  PROVE  \E at, to : Shaped(line, at, to)
<1> DEFINE from == FirstOf(line)
           L == Len(line)
           one == IF from \in DOMAIN line /\ line[from] \in {"<"} THEN from + 2 ELSE from
<1>1. L \in Nat /\ DOMAIN line = 1..L
  OBVIOUS
<1>2. /\ from \in 1..(L + 1)
      /\ from # L + 1 => line[from] \in {"<", ">", ">>"}
      /\ \A i \in 1..L : line[i] \in {"<", ">", ">>"} => from <= i
  BY FirstOfIs
<1>3. /\ one = L + 1 \/ (one \in DOMAIN line /\ line[one] \in {">", ">>"} /\ one = L - 1)
      /\ \A i \in 1..(L - 1) :
           i \in DOMAIN line /\ line[i] \in Operators =>
             ~(i + 1 \in DOMAIN line /\ line[i + 1] \in Operators)
  BY DEF WellFormed
<1> HIDE DEF from, L
<1>4. \A i : i \in Operators <=> i = "|" \/ i \in {"<", ">", ">>"}
  BY DEF Operators
<1>5. \A i \in 1..L : line[i] \in {"<", ">", ">>"} <=> line[i] = "<" \/ line[i] \in {">", ">>"}
  OBVIOUS
<1>6. \A i \in 1..(L - 1) : line[i] \in {"<", ">", ">>"} => line[i + 1] \notin Operators
  BY <1>1, <1>3, <1>4
<1>7. CASE from = L + 1
  <2>1. \A i \in 1..L : line[i] \notin {"<", ">", ">>"}
    BY <1>1, <1>2, <1>7
  <2>2. Shaped(line, 0, 0)
    BY <1>1, <1>7, <2>1 DEF Shaped, EndOfRest, from, L
  <2> QED BY <2>2
<1>8. CASE from # L + 1 /\ line[from] # "<"
  <2>1. from \in 1..L /\ from = L - 1 /\ line[from] \in {">", ">>"}
    BY <1>1, <1>2, <1>3, <1>8
  <2>2. line[L] \notin Operators
    <3>1. from \in 1..(L - 1) /\ from + 1 = L
      BY <1>1, <2>1
    <3> QED BY <1>6, <2>1, <3>1
  <2>3. \A i \in 1..L : i # from => line[i] \notin {"<", ">", ">>"}
    <3> SUFFICES ASSUME NEW i \in 1..L, i # from, line[i] \in {"<", ">", ">>"} PROVE FALSE
      OBVIOUS
    <3>1. from <= i
      BY <1>2
    <3>2. i = L
      BY <1>1, <2>1, <3>1
    <3> QED BY <1>4, <2>2, <3>2
  <2>4. Shaped(line, 0, from)
    <3>1. from \in 0..L /\ 0 \in 0..L /\ from # 0 /\ from = (L - 2) + 1
      BY <1>1, <2>1
    <3>2. \A i \in 1..L : line[i] = "<" <=> i = 0
      <4> TAKE i \in 1..L
      <4>1. i # 0 /\ (i = from => line[i] # "<")
        BY <1>1, <1>8
      <4> QED BY <2>3, <4>1
    <3>3. \A i \in 1..L : line[i] \in {">", ">>"} <=> i = from
      BY <2>1, <2>3
    <3> QED BY <2>1, <2>2, <3>1, <3>2, <3>3 DEF Shaped, EndOfRest, from, L
  <2> QED BY <2>4
<1>9. CASE from # L + 1 /\ line[from] = "<"
  <2>1. from \in 1..L /\ one = from + 2
    BY <1>1, <1>2, <1>9
  <2>2. from + 2 = L + 1 \/ (from + 2 = L - 1 /\ line[from + 2] \in {">", ">>"})
    BY <1>3, <2>1
  <2> HIDE DEF one
  <2>3. from + 1 \in 1..L /\ line[from + 1] \notin Operators
    <3>1. from \in 1..(L - 1) /\ from + 1 \in 1..L
      BY <1>1, <2>1, <2>2
    <3> QED BY <1>6, <1>9, <3>1
  <2>4. CASE from + 2 = L + 1
    <3>1. \A i \in 1..L : i # from => line[i] \notin {"<", ">", ">>"}
      <4> SUFFICES ASSUME NEW i \in 1..L, i # from, line[i] \in {"<", ">", ">>"} PROVE FALSE
        OBVIOUS
      <4>1. from <= i
        BY <1>2
      <4>2. i = from + 1
        BY <1>1, <2>1, <2>4, <4>1
      <4> QED BY <1>4, <2>3, <4>2
    <3>2. from \in 0..L /\ 0 \in 0..L /\ from # 0 /\ from = L - 1 /\ L = from + 1
      BY <1>1, <2>1, <2>4
    <3>3. \A i \in 1..L : line[i] = "<" <=> i = from
      BY <1>9, <3>1
    <3>4. \A i \in 1..L : line[i] \in {">", ">>"} <=> i = 0
      <4> TAKE i \in 1..L
      <4>1. i # 0 /\ (i = from => line[i] \notin {">", ">>"})
        BY <1>1, <1>9
      <4> QED BY <3>1, <4>1
    <3>5. line[L] \notin Operators
      BY <2>3, <3>2
    <3>6. Shaped(line, from, 0)
      BY <3>2, <3>3, <3>4, <3>5 DEF Shaped, EndOfRest, from, L
    <3> QED BY <3>6
  <2>5. CASE from + 2 = L - 1 /\ line[from + 2] \in {">", ">>"}
    <3> DEFINE to == from + 2
    <3>1. /\ from \in 0..L /\ to \in 0..L /\ from # 0 /\ to # 0 /\ to # from /\ to \in 1..L
          /\ to = L - 1 /\ from = (L - 2) - 1 /\ L - 2 = from + 1 /\ L = to + 1
          /\ to \in 1..(L - 1)
      BY <1>1, <2>1, <2>5
    <3>2. line[L] \notin Operators
      BY <1>6, <2>5, <3>1
    <3>3. \A i \in 1..L : i # from /\ i # to => line[i] \notin {"<", ">", ">>"}
      <4> SUFFICES ASSUME NEW i \in 1..L, i # from, i # to, line[i] \in {"<", ">", ">>"}
                   PROVE  FALSE
        OBVIOUS
      <4>1. from <= i
        BY <1>2
      <4>2. i = from + 1 \/ i = L
        BY <1>1, <2>1, <2>5, <4>1
      <4> QED BY <1>4, <2>3, <3>2, <4>2
    <3>4. \A i \in 1..L : line[i] = "<" <=> i = from
      <4> TAKE i \in 1..L
      <4>1. i = to => line[i] # "<"
        BY <2>5
      <4> QED BY <1>9, <3>3, <4>1
    <3>5. \A i \in 1..L : line[i] \in {">", ">>"} <=> i = to
      <4> TAKE i \in 1..L
      <4>1. i = from => line[i] \notin {">", ">>"}
        BY <1>9
      <4> QED BY <2>5, <3>1, <3>3, <4>1
    <3>6. line[L - 2] \notin Operators
      BY <2>3, <3>1
    <3> HIDE DEF to
    <3>7. Shaped(line, from, to)
      BY <3>1, <3>2, <3>4, <3>5, <3>6 DEF Shaped, EndOfRest, from, L
    <3> QED BY <3>7
  <2> QED BY <2>2, <2>4, <2>5
<1> QED BY <1>7, <1>8, <1>9

\* The part of a line in front of its output.
RestOf(line, to) == IF to = 0 THEN line ELSE Before(line, to)

LEMMA RestOfIs ==
  ASSUME NEW W, NEW line \in Seq(W), NEW at, NEW to, Shaped(line, at, to)
  PROVE  LET rest == RestOf(line, to)
             m == EndOfRest(line, to)
         IN  /\ m \in 0..Len(line) /\ rest \in Seq(W) /\ Len(rest) = m
             /\ \A i \in 1..m : rest[i] = line[i]
             /\ LastOf(rest, {"<"}) = at
<1> DEFINE rest == RestOf(line, to)
           m == EndOfRest(line, to)
<1>1. Len(line) \in Nat
  OBVIOUS
<1>2. at \in 0..Len(line) /\ to \in 0..Len(line) /\ (to # 0 => to = Len(line) - 1)
  BY DEF Shaped
<1>3. m \in 0..Len(line) /\ rest \in Seq(W) /\ Len(rest) = m /\ \A i \in 1..m : rest[i] = line[i]
  <2>1. CASE to = 0
    BY <1>1, <2>1 DEF RestOf, EndOfRest
  <2>2. CASE to # 0
    <3>1. to \in 0..(Len(line) + 1) /\ to - 1 = m /\ m \in 0..Len(line)
      BY <1>1, <1>2, <2>2 DEF EndOfRest
    <3>2. rest = Before(line, to)
      BY <2>2 DEF RestOf
    <3> HIDE DEF m, rest
    <3> QED BY <2>2, <3>1, <3>2, Sides
  <2> QED BY <2>1, <2>2
<1>4. (at # 0 => at = m - 1) /\ \A i \in 1..Len(line) : line[i] = "<" <=> i = at
  BY DEF Shaped
<1> HIDE DEF rest, m
<1>5. at \in 0..m /\ \A i \in 1..m : i \in 1..Len(line)
  BY <1>1, <1>2, <1>3, <1>4
<1>6. \A i \in 1..m : rest[i] \in {"<"} <=> i = at
  BY <1>3, <1>4, <1>5
<1>7. (at # 0 => rest[at] \in {"<"}) /\ \A j \in 1..m : rest[j] \in {"<"} => j <= at
  BY <1>1, <1>3, <1>5, <1>6
<1>8. LastOf(rest, {"<"}) = at
  BY <1>3, <1>5, <1>7, LastIsAt
<1> QED BY <1>3, <1>8 DEF rest, m

\* The line is taken for what it is.
Understood(line, p) ==
  LET from == FirstOf(line)
      to   == LastOf(line, {">", ">>"})
  IN  /\ p.pipeline = Before(line, from)
      /\ p.input = IF Has(line, {"<"}) THEN <<line[from + 1]>> ELSE <<>>
      /\ p.mode = IF to = 0 THEN "print" ELSE line[to]
      /\ to # 0 => p.name = <<line[to + 1]>>

\* What is behind the output, and behind the input, is one word that is no operator.
LEMMA NamesAreWords ==
  ASSUME NEW W, NEW line \in Seq(W), NEW at, NEW to, Shaped(line, at, to)
  PROVE  /\ to # 0 => /\ After(line, to) = <<line[to + 1]>> /\ IsTarget(After(line, to))
         /\ at # 0 => LET name == After(RestOf(line, to), at)
                      IN  /\ name = <<line[at + 1]>> /\ name # <<>>
                          /\ ~Has(name, {"|", ">", ">>"})
<1> DEFINE rest == RestOf(line, to)
           m == EndOfRest(line, to)
<1>1. Len(line) \in Nat
  OBVIOUS
<1>2. /\ at \in 0..Len(line) /\ to \in 0..Len(line)
      /\ to # 0 => to = Len(line) - 1 /\ line[Len(line)] \notin Operators
      /\ at # 0 => at = m - 1 /\ line[m] \notin Operators
  BY DEF Shaped
<1>3. m \in 0..Len(line) /\ rest \in Seq(W) /\ Len(rest) = m /\ \A i \in 1..m : rest[i] = line[i]
  BY RestOfIs
<1> HIDE DEF m, rest
<1>4. ASSUME NEW w \in W, w \notin Operators
      PROVE  ~Has(<<w>>, {"|"}) /\ ~Has(<<w>>, {"|", ">", ">>"}) /\ <<w>> # <<>>
  BY <1>4 DEF Has, Operators
<1>5. ASSUME NEW V, NEW s \in Seq(V), NEW i \in 0..Len(s), i = Len(s) - 1
      PROVE  After(s, i) = <<s[i + 1]>>
  <2>1. Len(s) \in Nat /\ i \in 0..(Len(s) + 1) /\ i <= Len(s) /\ Len(s) - i = 1
    BY <1>5
  <2>2. After(s, i) \in Seq(V) /\ Len(After(s, i)) = 1 /\ After(s, i)[1] = s[i + 1]
    <3>1. /\ After(s, i) \in Seq(V)
          /\ Len(After(s, i)) = IF i <= Len(s) THEN Len(s) - i ELSE 0
          /\ \A j \in 1..(Len(s) - i) : After(s, i)[j] = s[i + j]
      BY <2>1, Sides
    <3>2. 1 \in 1..(Len(s) - i)
      BY <2>1
    <3> QED BY <2>1, <3>1, <3>2
  <2> QED BY <2>2
<1>6. ASSUME to # 0
      PROVE  After(line, to) = <<line[to + 1]>> /\ IsTarget(After(line, to))
  <2>1. to = Len(line) - 1 /\ to + 1 = Len(line) /\ to + 1 \in 1..Len(line)
    BY <1>1, <1>2, <1>6
  <2>2. After(line, to) = <<line[to + 1]>>
    BY <1>2, <1>5, <2>1
  <2>3. line[to + 1] \in W /\ line[to + 1] \notin Operators
    BY <1>2, <1>6, <2>1
  <2> QED BY <1>4, <2>2, <2>3 DEF IsTarget
<1>7. ASSUME at # 0
      PROVE  /\ After(rest, at) = <<line[at + 1]>> /\ After(rest, at) # <<>>
             /\ ~Has(After(rest, at), {"|", ">", ">>"})
  <2>1. at = Len(rest) - 1 /\ at + 1 = m /\ at + 1 \in 1..m /\ at \in 0..Len(rest)
        /\ at + 1 \in 1..Len(line)
    BY <1>1, <1>2, <1>3, <1>7
  <2>2. After(rest, at) = <<rest[at + 1]>>
    BY <1>3, <1>5, <2>1
  <2>3. rest[at + 1] = line[at + 1] /\ line[at + 1] \in W /\ line[at + 1] \notin Operators
    BY <1>2, <1>3, <1>7, <2>1
  <2> QED BY <1>4, <2>2, <2>3
<1> QED BY <1>6, <1>7 DEF rest

LEMMA OutputIsAt ==
  ASSUME NEW W, NEW line \in Seq(W), NEW at, NEW to, Shaped(line, at, to),
         NEW words, words \subseteq {">", ">>"}
  PROVE  /\ LastOf(line, words) = IF to # 0 /\ line[to] \in words THEN to ELSE 0
         /\ to # 0 => line[to] \in {">", ">>"}
<1>1. Len(line) \in Nat /\ 0 \in 0..Len(line)
  OBVIOUS
<1>2. to \in 0..Len(line) /\ \A i \in 1..Len(line) : line[i] \in {">", ">>"} <=> i = to
  BY DEF Shaped
<1>3. to # 0 => to \in 1..Len(line) /\ line[to] \in {">", ">>"}
  BY <1>1, <1>2
<1>4. \A i \in 1..Len(line) : line[i] \in words => i = to
  BY <1>2
<1>5. CASE to # 0 /\ line[to] \in words
  <2>1. \A i \in 1..Len(line) : line[i] \in words => i <= to
    BY <1>1, <1>2, <1>4
  <2> QED BY <1>2, <1>3, <1>5, <2>1, LastIsAt
<1>6. CASE ~(to # 0 /\ line[to] \in words)
  <2>1. \A i \in 1..Len(line) : line[i] \notin words
    BY <1>1, <1>4, <1>6
  <2>2. LastOf(line, words) = 0
    BY <1>1, <2>1, LastIsAt
  <2> QED BY <1>3, <1>6, <2>2
<1> QED BY <1>5, <1>6

LEMMA ParsedIsUnderstood ==
  ASSUME NEW W, NEW line \in Seq(W), NEW at, NEW to, Shaped(line, at, to)
  PROVE  Understood(line, Parsed(line, to, RestOf(line, to), at))
<1> DEFINE rest == RestOf(line, to)
           m == EndOfRest(line, to)
           p == Parsed(line, to, rest, at)
           from == FirstOf(line)
<1>1. Len(line) \in Nat /\ DOMAIN line = 1..Len(line)
  OBVIOUS
<1>2. /\ at \in 0..Len(line) /\ to \in 0..Len(line)
      /\ to # 0 => to = Len(line) - 1
      /\ at # 0 => at = m - 1
      /\ from = IF at # 0 THEN at ELSE m + 1
      /\ \A i \in 1..Len(line) : line[i] = "<" <=> i = at
  BY DEF Shaped
<1>3. m \in 0..Len(line) /\ rest \in Seq(W) /\ Len(rest) = m /\ \A i \in 1..m : rest[i] = line[i]
  BY RestOfIs
<1>4. /\ to # 0 => After(line, to) = <<line[to + 1]>>
      /\ at # 0 => After(rest, at) = <<line[at + 1]>>
  BY NamesAreWords
<1>5. LastOf(line, {">", ">>"}) = to
  BY OutputIsAt
<1>6. Has(line, {"<"}) <=> at # 0
  <2> HIDE DEF from, m
  <2>0. at \in 0..Len(line)
    BY <1>2
  <2>1. at # 0 => at \in 1..Len(line)
    BY <1>1, <2>0
  <2>2. 0 \notin 1..Len(line)
    OBVIOUS
  <2> QED BY <1>1, <1>2, <2>1, <2>2 DEF Has
<1> HIDE DEF rest, m, from
<1>7. p.pipeline = Before(line, from)
  <2>1. from \in 1..(m + 1) /\ from \in 0..(Len(line) + 1) /\ from # 0
    <3>1. m \in 0..Len(line) /\ at \in 0..Len(line)
      BY <1>2, <1>3
    <3>2. CASE at = 0
      <4>1. from = m + 1
        BY <1>2, <3>2
      <4> QED BY <1>1, <3>1, <4>1
    <3>3. CASE at # 0
      <4>1. from = at /\ at = m - 1
        BY <1>2, <3>3
      <4> QED BY <1>1, <3>1, <3>3, <4>1
    <3> QED BY <3>2, <3>3
  <2>2. /\ Before(line, from) \in Seq(W) /\ Len(Before(line, from)) = from - 1
        /\ \A j \in 1..(from - 1) : Before(line, from)[j] = line[j]
    BY <2>1, Sides
  <2>3. CASE at = 0
    <3>1. p.pipeline = rest /\ from - 1 = m
      BY <1>2, <1>3, <2>3 DEF Parsed
    <3> QED BY <1>3, <2>2, <3>1, SeqEqual
  <2>4. CASE at # 0
    <3>1. p.pipeline = Before(rest, from) /\ from \in 0..(Len(rest) + 1)
      BY <1>2, <1>3, <2>1, <2>4 DEF Parsed
    <3>2. /\ Before(rest, from) \in Seq(W) /\ Len(Before(rest, from)) = from - 1
          /\ \A j \in 1..(from - 1) : Before(rest, from)[j] = rest[j]
      BY <1>3, <2>1, <3>1, Sides
    <3>3. \A j \in 1..(from - 1) : j \in 1..m
      BY <1>3, <2>1
    <3>4. \A j \in 1..(from - 1) : Before(rest, from)[j] = Before(line, from)[j]
      BY <1>3, <2>2, <3>2, <3>3
    <3> QED BY <2>2, <3>1, <3>2, <3>4, SeqEqual
  <2> QED BY <2>3, <2>4
<1>8. p.input = IF at # 0 THEN <<line[from + 1]>> ELSE <<>>
  BY <1>2, <1>4 DEF Parsed
<1>9. p.mode = (IF to = 0 THEN "print" ELSE line[to]) /\ (to # 0 => p.name = <<line[to + 1]>>)
  BY <1>4 DEF Parsed
<1> HIDE DEF p
<1>10. Understood(line, p)
  BY <1>5, <1>6, <1>7, <1>8, <1>9 DEF Understood, from
<1> QED BY <1>10 DEF p, rest

\* Both parsers find the input and the output where they are.
LEMMA ParseIsParsed ==
  ASSUME NEW W, NEW line \in Seq(W), NEW at, NEW to, Shaped(line, at, to)
  PROVE  Parse(line) = Parsed(line, to, RestOf(line, to), at)
<1> DEFINE rest == RestOf(line, to)
           name == After(rest, at)
<1>1. /\ to # 0 => IsTarget(After(line, to))
      /\ at # 0 => name # <<>> /\ ~Has(name, {"|", ">", ">>"})
  BY NamesAreWords
<1>2. LastOf(rest, {"<"}) = at
  BY RestOfIs
<1>3. /\ LastOf(line, {">>"}) = IF to # 0 /\ line[to] \in {">>"} THEN to ELSE 0
      /\ LastOf(line, {">"}) = IF to # 0 /\ line[to] \in {">"} THEN to ELSE 0
      /\ LastOf(line, {">", ">>"}) = to
      /\ to # 0 => line[to] \in {">", ">>"}
  <2>1. {">>"} \subseteq {">", ">>"} /\ {">"} \subseteq {">", ">>"}
    OBVIOUS
  <2> QED BY <2>1, OutputIsAt
<1>4. Has(line, {">>"}) <=> to # 0 /\ line[to] \in {">>"}
  <2>1. Len(line) \in Nat /\ DOMAIN line = 1..Len(line)
    OBVIOUS
  <2>2. to \in 0..Len(line) /\ \A i \in 1..Len(line) : line[i] \in {">", ">>"} <=> i = to
    BY DEF Shaped
  <2>3. to # 0 => to \in DOMAIN line
    BY <2>1, <2>2
  <2>4. 0 \notin DOMAIN line
    BY <2>1
  <2> QED BY <2>1, <2>2, <2>3, <2>4 DEF Has
<1> HIDE DEF rest, name
<1>5. CASE front = "gui"
  <2> DEFINE last == LastOf(line, IF Has(line, {">>"}) THEN {">>"} ELSE {">"})
             out  == IF last # 0 /\ IsTarget(After(line, last)) THEN last ELSE 0
             r    == IF out = 0 THEN line ELSE Before(line, out)
             i    == LastOf(r, {"<"})
             in   == IF After(r, i) = <<>> THEN 0 ELSE i
  <2>1. last = to
    BY <1>3, <1>4
  <2> HIDE DEF last
  <2>2. out = to
    BY <1>1, <2>1
  <2> HIDE DEF out
  <2>3. r = rest
    BY <2>2 DEF rest, RestOf
  <2> HIDE DEF r
  <2>4. i = at
    BY <1>2, <2>3
  <2> HIDE DEF i
  <2>5. in = at
    BY <1>1, <2>3, <2>4 DEF name
  <2> HIDE DEF in
  <2>6. Parse(line) = Parsed(line, out, r, in)
    BY <1>5, Zenon DEF Parse, parse_gui, last, out, r, i, in
  <2> QED BY <2>2, <2>3, <2>5, <2>6 DEF rest
<1>6. CASE front # "gui"
  <2> DEFINE append == LastOf(line, {">>"})
             last == IF append # 0 /\ IsTarget(After(line, append)) THEN append
                     ELSE LastOf(line, {">", ">>"})
             out  == IF last # 0 /\ IsTarget(After(line, last)) THEN last ELSE 0
             r    == IF out = 0 THEN line ELSE Before(line, out)
             i    == LastOf(r, {"<"})
             n    == After(r, i)
             in   == IF n = <<>> \/ (out = 0 /\ Has(n, {"|", ">", ">>"})) THEN 0 ELSE i
  <2>1. append = to \/ append = 0
    BY <1>3
  <2> HIDE DEF append
  <2>2. last = to
    BY <1>3, <2>1
  <2> HIDE DEF last
  <2>3. out = to
    BY <1>1, <2>2
  <2> HIDE DEF out
  <2>4. r = rest
    BY <2>3 DEF rest, RestOf
  <2> HIDE DEF r
  <2>5. i = at
    BY <1>2, <2>4
  <2> HIDE DEF i
  <2>6. n = name
    BY <2>4, <2>5 DEF name
  <2> HIDE DEF n
  <2>7. in = at
    BY <1>1, <2>5, <2>6
  <2> HIDE DEF in
  <2>8. Parse(line) = Parsed(line, out, r, in)
    BY <1>6, Zenon DEF Parse, parse_text, append, last, out, r, i, n, in
  <2> QED BY <2>3, <2>4, <2>7, <2>8 DEF rest
<1> QED BY <1>5, <1>6

LEMMA ParserUnderstands ==
  ASSUME NEW W, NEW line \in Seq(W), WellFormed(line)
  PROVE  Understood(line, Parse(line))
<1>1. PICK at, to : Shaped(line, at, to)
  BY WellFormedIsShaped
<1> QED BY <1>1, ParseIsParsed, ParsedIsUnderstood

\* The stages are what is between the pipes.
LEMMA StagesAreCommands ==
  ASSUME NEW W, NEW line \in Seq(W), WellFormed(line)
  PROVE  LET stages == Stages(Before(line, FirstOf(line)))
         IN  Before(line, FirstOf(line)) =
               FlattenSeq([k \in DOMAIN stages |->
                 IF k = 1 THEN stages[k] ELSE <<"|">> \o stages[k]])
<1> DEFINE from == FirstOf(line)
           text == Before(line, from)
           parts == Split(text, "|")
<1>1. Len(line) \in Nat /\ DOMAIN line = 1..Len(line)
  OBVIOUS
<1>2. from \in 1..(Len(line) + 1)
  BY FirstOfIs
<1>3. /\ \A i \in {1, from - 1} : ~(i \in DOMAIN line /\ line[i] \in {"|"})
      /\ \A i \in 1..(Len(line) - 1) :
           i \in DOMAIN line /\ line[i] \in Operators =>
             ~(i + 1 \in DOMAIN line /\ line[i + 1] \in Operators)
  BY DEF WellFormed
<1> HIDE DEF from
<1>4. /\ text \in Seq(W) /\ Len(text) = from - 1
      /\ \A j \in 1..(from - 1) : text[j] = line[j]
  <2>1. from \in 0..(Len(line) + 1) /\ from # 0
    BY <1>1, <1>2
  <2> QED BY <2>1, Sides
<1>5. text = <<>> \/ (text[1] # "|" /\ text[Len(text)] # "|")
  <2>1. CASE from = 1
    BY <1>4, <2>1
  <2>2. CASE from # 1
    <3>1. from - 1 \in 1..Len(line) /\ 1 \in 1..Len(line) /\ 1 \in 1..(from - 1)
          /\ from - 1 \in 1..(from - 1)
      BY <1>1, <1>2, <2>2
    <3>2. line[1] # "|" /\ line[from - 1] # "|"
      BY <1>1, <1>3, <3>1
    <3> QED BY <1>4, <3>1, <3>2
  <2> QED BY <2>1, <2>2
<1>6. \A i \in 1..(Len(text) - 1) : text[i] = "|" => text[i + 1] # "|"
  <2> SUFFICES ASSUME NEW i \in 1..(from - 2), text[i] = "|", text[i + 1] = "|" PROVE FALSE
    BY <1>1, <1>2, <1>4
  <2>1. i \in 1..(from - 1) /\ i + 1 \in 1..(from - 1) /\ i \in 1..(Len(line) - 1)
        /\ i \in DOMAIN line /\ i + 1 \in DOMAIN line
    BY <1>1, <1>2
  <2>2. line[i] = "|" /\ line[i + 1] = "|"
    BY <1>4, <2>1
  <2> QED BY <1>3, <2>1, <2>2 DEF Operators
<1> HIDE DEF text
<1>7. \A k \in DOMAIN parts : parts[k] # <<>>
  BY <1>4, <1>5, <1>6, SplitFull
<1>8. text = FlattenSeq([k \in DOMAIN parts |-> IF k = 1 THEN parts[k] ELSE <<"|">> \o parts[k]])
  BY <1>4, <1>5, SplitJoins
<1>9. parts \in Seq(Seq(W))
  BY <1>4, SplitType
<1> HIDE DEF parts
<1>10. {k \in DOMAIN parts : parts[k] # <<>>} = DOMAIN parts
  BY <1>7
<1>11. Stages(text) = parts
  BY <1>9, <1>10, RetainedAll, Zenon DEF Stages, parts
<1> QED BY <1>8, <1>11 DEF text, from

\* A line with its commands first, then its input, then its output, is understood by
\* the parser of the window and by that of the console, whatever the variables stand
\* for: its commands are those between the pipes, they begin with what the input
\* holds, and what they leave goes where it says.
THEOREM WellFormedLines == LineSpec => WellFormedIsUnderstood
<1>1. LineInv /\ [LineNext]_lvars =>
        [(~job.on /\ job'.on) =>
           LET line == expand_env_vars(job'.typed)
               from == FirstOf(line)
               to   == LastOf(line, {">", ">>"})
           IN  WellFormed(line) =>
                 /\ Before(line, from) =
                      FlattenSeq([k \in DOMAIN job'.stages |->
                        IF k = 1 THEN job'.stages[k] ELSE <<"|">> \o job'.stages[k]])
                 /\ job'.pipe = IF Has(line, {"<"})
                                THEN <<fs[Append(cwd[job'.t], <<line[from + 1]>>)].data>> ELSE <<>>
                 /\ job'.mode = IF to = 0 THEN "print" ELSE line[to]
                 /\ to # 0 => job'.name = <<line[to + 1]>>]_lvars
  <2> DEFINE line == expand_env_vars(job'.typed)
             from == FirstOf(line)
             to   == LastOf(line, {">", ">>"})
             p    == Parse(line)
  <2> SUFFICES ASSUME LineInv, LineNext, ~job.on, job'.on, WellFormed(line)
               PROVE  /\ Before(line, from) =
                           FlattenSeq([k \in DOMAIN job'.stages |->
                             IF k = 1 THEN job'.stages[k] ELSE <<"|">> \o job'.stages[k]])
                      /\ job'.pipe = IF Has(line, {"<"})
                                     THEN <<fs[Append(cwd[job'.t], <<line[from + 1]>>)].data>>
                                     ELSE <<>>
                      /\ job'.mode = IF to = 0 THEN "print" ELSE line[to]
                      /\ to # 0 => job'.name = <<line[to + 1]>>
    BY DEF lvars
  <2>1. PICK t \in Terminals, typed \in Lines : execute_line(t, typed)
    BY DEF LineNext, run_command, handle_output, restart
  <2>2. /\ job'.typed = typed /\ job'.t = t
        /\ job'.stages = Stages(Parse(expand_env_vars(typed)).pipeline)
        /\ job'.pipe = IF Parse(expand_env_vars(typed)).input = <<>> THEN <<>>
                       ELSE <<fs[Append(cwd[t], Parse(expand_env_vars(typed)).input)].data>>
        /\ job'.mode = Parse(expand_env_vars(typed)).mode
        /\ job'.name = Parse(expand_env_vars(typed)).name
    BY <2>1 DEF execute_line
  <2>3. /\ job'.stages = Stages(p.pipeline) /\ job'.mode = p.mode /\ job'.name = p.name
        /\ job'.pipe = IF p.input = <<>> THEN <<>>
                       ELSE <<fs[Append(cwd[job'.t], p.input)].data>>
    BY <2>2
  <2>4. line \in Seq(Words)
    BY <2>2, CommandLineAssumption, ExpandType DEF LineInv
  <2> HIDE DEF line
  <2>5. Understood(line, p)
    BY <2>4, ParserUnderstands
  <2>6. Before(line, from) =
          FlattenSeq([k \in DOMAIN Stages(Before(line, from)) |->
            IF k = 1 THEN Stages(Before(line, from))[k]
            ELSE <<"|">> \o Stages(Before(line, from))[k]])
    BY <2>4, StagesAreCommands
  <2> HIDE DEF p, from, to
  <2>7. /\ p.pipeline = Before(line, from)
        /\ p.input = IF Has(line, {"<"}) THEN <<line[from + 1]>> ELSE <<>>
        /\ p.mode = IF to = 0 THEN "print" ELSE line[to]
        /\ to # 0 => p.name = <<line[to + 1]>>
    BY <2>5 DEF Understood, from, to
  <2>8. Before(line, from) =
          FlattenSeq([k \in DOMAIN job'.stages |->
            IF k = 1 THEN job'.stages[k] ELSE <<"|">> \o job'.stages[k]])
    BY <2>3, <2>6, <2>7
  <2>9. job'.pipe = IF Has(line, {"<"})
                    THEN <<fs[Append(cwd[job'.t], <<line[from + 1]>>)].data>> ELSE <<>>
    BY <2>3, <2>7
  <2> QED BY <2>3, <2>7, <2>8, <2>9
<1> QED BY <1>1, LineInitially, LineSteps, PTL DEF LineSpec, WellFormedIsUnderstood

==============================================================================

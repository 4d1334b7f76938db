---------------------------- MODULE FdTableProofs ----------------------------
(***************************************************************************)
(* What holds of the table of open files for every number of programs,     *)
(* and what holds only as long as programs run one at a time.              *)
(***************************************************************************)
EXTENDS FdTable, FiniteSetTheorems, SequenceTheorems, TLAPS

\* A non-empty set of naturals has a smallest element, and Least is it.
LEMMA LeastProperties ==
  ASSUME NEW S \in SUBSET Nat, S # {}
  PROVE  /\ Least(S) \in S
         /\ \A j \in S : Least(S) <= j
<1> DEFINE LessThan == {p \in Nat \X Nat : p[1] < p[2]}
<1>1. IsWellFoundedOn(LessThan, Nat)
  BY NatLessThanWellFounded, Zenon DEF OpToRel
<1> HIDE DEF LessThan
<1>2. PICK x \in S : \A y \in S : ~ (<<y, x>> \in LessThan)
  BY <1>1, WFMin, Zenon
<1>3. \A i, j \in Nat : i < j => <<i, j>> \in LessThan
  BY DEF LessThan
<1>4. ASSUME NEW y \in S PROVE x <= y
  <2>1. x \in Nat /\ y \in Nat /\ ~ (y < x)
    BY <1>2, <1>3
  <2> QED BY <2>1
<1> QED BY <1>4, Zenon DEF Least

Byte == 0..255
FileFds == RESERVED_FDS..(MAX_FDS - 1)
OpenFile == [name: Names, offset: Nat]
Places == [fd: RESERVED_FDS..MAX_FDS, step: {"drop", "clear"}]

(***************************************************************************)
(* The inductive form of TypeOK: it adds the types of the sweeps and of    *)
(* the history, and that what is freed is not taken for intact.            *)
(***************************************************************************)
Types ==
  /\ fs \in [Names -> Entries]
  /\ table \in [Fds -> OpenFile \cup {None}]
  /\ \A fd \in Fds : fd \notin FileFds => table[fd] = None
  /\ freed \in SUBSET FileFds
  /\ \A fd \in freed : table[fd] # None /\ ~intact[fd]
  /\ alive \in SUBSET Programs
  /\ sweep \in [BuiltIn -> Places]
  /\ own \in [Programs -> SUBSET FileFds]
  /\ \A p \in BuiltIn : own[p] = {}
  /\ got \in [Fds -> Seq(Byte)]
  /\ intact \in [Fds -> BOOLEAN]
  /\ leaked \in SUBSET FileFds
  /\ crowded \in SUBSET alive

LEMMA Limits ==
  /\ RESERVED_FDS \in Nat /\ MAX_FDS \in Nat
  /\ FileFds \in SUBSET Fds /\ FileFds \in SUBSET Nat
  /\ \A fd \in Fds : fd \in FileFds <=> fd >= RESERVED_FDS
  /\ None \notin OpenFile
<1>1. None \notin OpenFile
  <2>1. None.name = "" /\ \A file \in OpenFile : file.name \in Names
    BY DEF None, OpenFile
  <2> QED BY <2>1, DataAssumption
<1> QED BY <1>1, FdAssumption DEF FileFds, Fds

\* The data of an entry is a sequence of bytes.
LEMMA EntryData ==
  ASSUME NEW entry \in Entries
  PROVE  entry.data \in Seq(Byte) /\ Len(entry.data) \in Nat
<1>1. <<>> \in Seq(Byte)
  OBVIOUS
<1>2. \A data \in Contents : data \in Seq(Byte)
  BY DataAssumption DEF Byte
<1>3. entry.data = <<>> \/ entry.data \in Contents
  BY DEF Entries, Absent, Dir, File
<1>4. entry.data \in Seq(Byte)
  BY <1>1, <1>2, <1>3
<1> QED BY <1>4, LenProperties

\* What is copied is the part of the file from the offset up to some place.
LEMMA CopiedProperties ==
  ASSUME NEW data \in Seq(Byte), NEW offset \in Nat, NEW len \in Nat
  PROVE  /\ Copied(data, offset, len) \in Seq(Byte)
         /\ Len(Copied(data, offset, len)) \in Nat
         /\ offset <= Len(data) =>
              \E end \in offset..Len(data) :
                /\ Copied(data, offset, len) = SubSeq(data, offset + 1, end)
                /\ offset + Len(Copied(data, offset, len)) = end
<1> DEFINE end == IF offset + len < Len(data) THEN offset + len ELSE Len(data)
<1>1. Len(data) \in Nat /\ end \in Nat /\ end <= Len(data)
  BY LenProperties
<1>2. Copied(data, offset, len) = SubSeq(data, offset + 1, end)
  BY DEF Copied
<1>3. offset <= Len(data) => offset <= end
  BY <1>1
<1> HIDE DEF end
<1>4. \A i \in (offset + 1)..end : data[i] \in Byte
  <2>1. \A i \in (offset + 1)..end : i \in 1..Len(data)
    BY <1>1
  <2> QED BY <2>1, ElementOfSeq
<1>5. /\ SubSeq(data, offset + 1, end) \in Seq(Byte)
      /\ Len(SubSeq(data, offset + 1, end)) =
           IF offset + 1 <= end THEN end - (offset + 1) + 1 ELSE 0
  BY <1>1, <1>4, SubSeqProperties
<1>6. offset <= end => offset + Len(SubSeq(data, offset + 1, end)) = end
  BY <1>1, <1>5
<1> QED BY <1>1, <1>2, <1>3, <1>5, <1>6

(***************************************************************************)
(* The types.                                                              *)
(***************************************************************************)
LEMMA InitTypes == Init => Types
<1> SUFFICES ASSUME Init PROVE Types
  OBVIOUS
<1>1. At(RESERVED_FDS, "drop") \in Places
  BY FdAssumption DEF At, Places
<1>2. sweep \in [BuiltIn -> Places] /\ \A p \in BuiltIn : own[p] = {}
  BY <1>1, FdAssumption DEF Init
<1>3. intact \in [Fds -> BOOLEAN] /\ got \in [Fds -> Seq(Byte)]
  BY DEF Init
<1> QED BY <1>2, <1>3 DEF Init, Types

\* The slot sys_open picks is one for files, and is empty.
LEMMA Allocated ==
  ASSUME Types, alloc_fd # {}
  PROVE  Least(alloc_fd) \in FileFds /\ table[Least(alloc_fd)] = None
<1>1. alloc_fd \in SUBSET FileFds /\ alloc_fd \in SUBSET Nat
  BY Limits DEF alloc_fd, FileFds
<1>2. Least(alloc_fd) \in alloc_fd
  BY <1>1, LeastProperties
<1> QED BY <1>1, <1>2 DEF alloc_fd

LEMMA OpenEffect ==
  ASSUME Types, NEW p \in Programs, NEW name \in Names, sys_open(p, name)
  PROVE  \E fd \in FileFds :
           /\ fd \in Fds /\ table[fd] = None /\ p \in alive /\ p \notin BuiltIn
           /\ table' = [table EXCEPT ![fd] = [name |-> name, offset |-> 0]]
           /\ own' = [own EXCEPT ![p] = @ \cup {fd}]
           /\ got' = [got EXCEPT ![fd] = <<>>]
           /\ intact' = [intact EXCEPT ![fd] = TRUE]
           /\ leaked' = leaked \ {fd}
           /\ UNCHANGED <<fs, freed, alive, sweep, crowded>>
<1> DEFINE fd == Least(alloc_fd)
<1>1. fd \in FileFds /\ fd \in Fds /\ table[fd] = None
  BY Allocated, Limits DEF sys_open
<1> QED BY <1>1 DEF sys_open, Calls, Loaded

LEMMA OpenTypes ==
  ASSUME Types, NEW p \in Programs, NEW name \in Names, sys_open(p, name)
  PROVE  Types'
<1>1. PICK fd \in FileFds :
        /\ fd \in Fds /\ table[fd] = None /\ p \in alive /\ p \notin BuiltIn
        /\ table' = [table EXCEPT ![fd] = [name |-> name, offset |-> 0]]
        /\ own' = [own EXCEPT ![p] = @ \cup {fd}]
        /\ got' = [got EXCEPT ![fd] = <<>>]
        /\ intact' = [intact EXCEPT ![fd] = TRUE]
        /\ leaked' = leaked \ {fd}
        /\ UNCHANGED <<fs, freed, alive, sweep, crowded>>
  BY OpenEffect
<1>2. [name |-> name, offset |-> 0] \in OpenFile
  BY DEF OpenFile
<1>3. table' \in [Fds -> OpenFile \cup {None}]
      /\ \A f \in Fds : f \notin FileFds => table'[f] = None
  BY <1>1, <1>2 DEF Types
<1>4. own' \in [Programs -> SUBSET FileFds] /\ \A q \in BuiltIn : own'[q] = {}
  BY <1>1, FdAssumption DEF Types
<1>5. got' \in [Fds -> Seq(Byte)] /\ intact' \in [Fds -> BOOLEAN]
  BY <1>1 DEF Types
<1>6. \A f \in freed : f # fd /\ f \in Fds
  BY <1>1, Limits DEF Types
<1>7. \A f \in freed : table'[f] # None /\ ~intact'[f]
  BY <1>1, <1>6 DEF Types
<1> QED BY <1>1, <1>3, <1>4, <1>5, <1>7 DEF Types

\* A read copies what follows the offset in some file, and moves the offset.
LEMMA ReadEffect ==
  ASSUME Types, NEW p \in Programs, NEW fd \in Fds, NEW len \in Lengths, sys_read(p, fd, len)
  PROVE  \E name \in NamedBy(fd) :
           LET data == fs[name].data
               bytes == Copied(data, table[fd].offset, len)
           IN  /\ table[fd] \in OpenFile /\ name \in Names
               /\ data \in Seq(Byte) /\ len \in Nat
               /\ bytes \in Seq(Byte) /\ Len(bytes) \in Nat
               /\ table' = [table EXCEPT ![fd] =
                              [name |-> table[fd].name, offset |-> table[fd].offset + Len(bytes)]]
               /\ got' = [got EXCEPT ![fd] = got[fd] \o bytes]
               /\ UNCHANGED <<fs, freed, alive, sweep, own, intact, leaked, crowded>>
<1>1. PICK name \in NamedBy(fd) :
        LET bytes == Copied(fs[name].data, table[fd].offset, len)
        IN  /\ table' = [table EXCEPT ![fd].offset = @ + Len(bytes)]
            /\ got' = [got EXCEPT ![fd] = @ \o bytes]
  BY DEF sys_read
<1>2. table[fd] \in OpenFile /\ UNCHANGED <<fs, freed, alive, sweep, own, intact, leaked, crowded>>
  BY DEF sys_read, Types
<1>3. name \in Names /\ table[fd].offset \in Nat /\ len \in Nat
  BY <1>2, DataAssumption DEF NamedBy, OpenFile
<1> DEFINE data == fs[name].data
           bytes == Copied(data, table[fd].offset, len)
<1>4. data \in Seq(Byte)
  <2>1. fs[name] \in Entries
    BY <1>3 DEF Types
  <2> QED BY <2>1, EntryData
<1>5. bytes \in Seq(Byte) /\ Len(bytes) \in Nat
  BY <1>3, <1>4, CopiedProperties
<1>6. /\ table' = [table EXCEPT ![fd].offset = @ + Len(bytes)]
      /\ got' = [got EXCEPT ![fd] = @ \o bytes]
  BY <1>1
<1> HIDE DEF data, bytes
<1>7. table' = [table EXCEPT ![fd] =
                  [name |-> table[fd].name, offset |-> table[fd].offset + Len(bytes)]]
  <2>1. [table[fd] EXCEPT !.offset = @ + Len(bytes)]
          = [name |-> table[fd].name, offset |-> table[fd].offset + Len(bytes)]
    BY <1>2 DEF OpenFile
  <2> QED BY <1>6, <2>1 DEF Types
<1>8. got' = [got EXCEPT ![fd] = got[fd] \o bytes]
  BY <1>6 DEF Types
<1> QED BY <1>2, <1>3, <1>4, <1>5, <1>7, <1>8 DEF data, bytes

\* A read leaves an open file open.
LEMMA ReadMoves ==
  ASSUME Types, NEW p \in Programs, NEW fd \in Fds, NEW len \in Lengths, sys_read(p, fd, len)
  PROVE  \E to \in OpenFile : own' = own /\ table' = [table EXCEPT ![fd] = to]
<1>1. PICK bytes \in Seq(Byte) :
        /\ table[fd] \in OpenFile /\ Len(bytes) \in Nat
        /\ table' = [table EXCEPT ![fd] =
                       [name |-> table[fd].name, offset |-> table[fd].offset + Len(bytes)]]
        /\ own' = own
  BY ReadEffect
<1> DEFINE to == [name |-> table[fd].name, offset |-> table[fd].offset + Len(bytes)]
<1>2. to \in OpenFile
  BY <1>1 DEF OpenFile
<1>3. own' = own /\ table' = [table EXCEPT ![fd] = to]
  BY <1>1
<1> HIDE DEF to
<1> QED BY <1>2, <1>3

LEMMA ReadTypes ==
  ASSUME Types, NEW p \in Programs, NEW fd \in Fds, NEW len \in Lengths, sys_read(p, fd, len)
  PROVE  Types'
<1>1. PICK bytes \in Seq(Byte) :
        /\ table[fd] \in OpenFile /\ Len(bytes) \in Nat
        /\ table' = [table EXCEPT ![fd] =
                       [name |-> table[fd].name, offset |-> table[fd].offset + Len(bytes)]]
        /\ got' = [got EXCEPT ![fd] = got[fd] \o bytes]
        /\ UNCHANGED <<fs, freed, alive, sweep, own, intact, leaked, crowded>>
  BY ReadEffect
<1>2. /\ [name |-> table[fd].name, offset |-> table[fd].offset + Len(bytes)] \in OpenFile
      /\ fd \in FileFds
  BY <1>1, Limits DEF OpenFile, Types
<1>3. /\ table' \in [Fds -> OpenFile \cup {None}]
      /\ \A f \in Fds : f \notin FileFds => table'[f] = None
      /\ \A f \in Fds : table'[f] = None <=> table[f] = None
  BY <1>1, <1>2, Limits DEF Types
<1>4. got' \in [Fds -> Seq(Byte)]
  <2>1. got[fd] \o bytes \in Seq(Byte)
    BY ConcatProperties DEF Types
  <2> QED BY <1>1, <2>1 DEF Types
<1>5. \A f \in freed : f \in Fds /\ table'[f] # None /\ ~intact[f]
  BY <1>3, Limits DEF Types
<1> QED BY <1>1, <1>3, <1>4, <1>5 DEF Types

LEMMA CloseTypes ==
  ASSUME Types, NEW p \in Programs, NEW fd \in Fds, sys_close(p, fd)
  PROVE  Types'
<1>1. table' \in [Fds -> OpenFile \cup {None}]
      /\ \A f \in Fds : f \notin FileFds => table'[f] = None
  BY DEF sys_close, Types
<1>2. /\ own' \in [Programs -> SUBSET FileFds] /\ leaked' \in SUBSET FileFds
      /\ freed' \in SUBSET FileFds /\ \A q \in BuiltIn : own'[q] = {}
  BY FdAssumption DEF sys_close, Types
<1>3. \A f \in freed' : table'[f] # None /\ ~intact'[f]
  BY Limits DEF sys_close, Types
<1> QED BY <1>1, <1>2, <1>3 DEF sys_close, Types

\* The end of a program takes its descriptors from it.
LEMMA GoneTypes ==
  ASSUME Types, NEW p \in Programs, Gone(p)
  PROVE  /\ alive' \in SUBSET Programs /\ crowded' \in SUBSET alive'
         /\ own' \in [Programs -> SUBSET FileFds]
         /\ \A q \in BuiltIn : own'[q] = {}
BY FdAssumption DEF Gone, Types

LEMMA ExitTypes ==
  ASSUME Types, NEW p \in Programs, sys_exit(p) \/ ReturnOrKill(p)
  PROVE  Types'
<1>1. /\ alive' \in SUBSET Programs /\ crowded' \in SUBSET alive'
      /\ own' \in [Programs -> SUBSET FileFds]
      /\ \A q \in BuiltIn : own'[q] = {}
  BY GoneTypes DEF sys_exit, ReturnOrKill
<1>2. table' \in [Fds -> OpenFile \cup {None}]
      /\ \A f \in Fds : f \notin FileFds => table'[f] = None
  BY DEF sys_exit, ReturnOrKill, Types
<1>3. leaked' \in SUBSET FileFds
  BY DEF sys_exit, ReturnOrKill, Types
<1>4. freed' \in SUBSET FileFds /\ \A fd \in freed' : table'[fd] # None /\ ~intact'[fd]
  BY DEF sys_exit, ReturnOrKill, Types
<1> QED BY <1>1, <1>2, <1>3, <1>4 DEF sys_exit, ReturnOrKill, Types

\* The slot a sweep is at, and the place behind it.
LEMMA SweepFacts ==
  ASSUME Types, NEW p \in Programs, NEW step, Sweeping(p, step)
  PROVE  /\ p \in BuiltIn /\ sweep[p].fd \in FileFds /\ sweep[p].fd \in Fds
         /\ At(sweep[p].fd, "clear") \in Places /\ At(sweep[p].fd + 1, "drop") \in Places
<1>1. p \in BuiltIn /\ sweep[p] \in Places /\ sweep[p].fd < MAX_FDS
  BY DEF Sweeping, Types
<1>2. sweep[p].fd \in RESERVED_FDS..MAX_FDS
  BY <1>1 DEF Places
<1>3. sweep[p].fd \in FileFds /\ sweep[p].fd + 1 \in RESERVED_FDS..MAX_FDS
  BY <1>1, <1>2, FdAssumption DEF FileFds
<1> QED BY <1>1, <1>2, <1>3, Limits DEF At, Places

LEMMA SweepTypes ==
  ASSUME Types, NEW p \in Programs, DropSlot(p) \/ ClearSlot(p)
  PROVE  Types'
<1> DEFINE fd == sweep[p].fd
<1>1. /\ p \in BuiltIn /\ fd \in FileFds /\ fd \in Fds
      /\ At(fd, "clear") \in Places /\ At(fd + 1, "drop") \in Places
  BY SweepFacts DEF DropSlot, ClearSlot
<1> HIDE DEF fd
<1>2. CASE DropSlot(p)
  <2>1. /\ freed' = IF table[fd] = None THEN freed ELSE freed \cup {fd}
        /\ intact' = [intact EXCEPT ![fd] = FALSE]
        /\ sweep' = [sweep EXCEPT ![p] = At(fd, "clear")]
        /\ UNCHANGED <<fs, table, alive, own, got, leaked, crowded>>
    BY <1>2 DEF DropSlot, fd
  <2>2. intact' \in [Fds -> BOOLEAN] /\ sweep' \in [BuiltIn -> Places]
    BY <1>1, <2>1 DEF Types
  <2>3. freed' \in SUBSET FileFds /\ \A f \in freed' : table[f] # None /\ ~intact'[f]
    BY <1>1, <2>1, Limits DEF Types
  <2> QED BY <2>1, <2>2, <2>3 DEF Types
<1>3. CASE ClearSlot(p)
  <2>1. /\ table' = [table EXCEPT ![fd] = None]
        /\ freed' = freed \ {fd} /\ leaked' = leaked \ {fd}
        /\ sweep' = [sweep EXCEPT ![p] = At(fd + 1, "drop")]
        /\ UNCHANGED <<fs, alive, own, got, intact, crowded>>
    BY <1>3 DEF ClearSlot, fd
  <2>2. sweep' \in [BuiltIn -> Places]
    BY <1>1, <2>1 DEF Types
  <2>3. table' \in [Fds -> OpenFile \cup {None}]
        /\ \A f \in Fds : f \notin FileFds => table'[f] = None
    BY <1>1, <2>1 DEF Types
  <2>4. freed' \in SUBSET FileFds /\ \A f \in freed' : table'[f] # None /\ ~intact[f]
    BY <1>1, <2>1, Limits DEF Types
  <2> QED BY <2>1, <2>2, <2>3, <2>4 DEF Types
<1> QED BY <1>2, <1>3

LEMMA ShellTypes ==
  ASSUME Types,
         \/ \E p \in Programs : cmd_exec(p)
         \/ \E name \in Names, entry \in Entries : ChangeFile(name, entry)
  PROVE  Types'
<1>1. ASSUME NEW p \in Programs, cmd_exec(p) PROVE Types'
  <2>1. At(RESERVED_FDS, "drop") \in Places
    BY FdAssumption DEF At, Places
  <2>2. sweep' \in [BuiltIn -> Places]
    BY <1>1, <2>1 DEF cmd_exec, Types
  <2> QED BY <1>1, <2>2 DEF cmd_exec, Types
<1>2. ASSUME NEW name \in Names, NEW entry \in Entries, ChangeFile(name, entry) PROVE Types'
  <2>1. fs' \in [Names -> Entries] /\ intact' \in [Fds -> BOOLEAN]
    BY <1>2 DEF ChangeFile, Types
  <2>2. \A fd \in freed : ~intact'[fd]
    BY <1>2, Limits DEF ChangeFile, Types
  <2> QED BY <1>2, <2>1, <2>2 DEF ChangeFile, Types
<1> QED BY <1>1, <1>2

LEMMA TypesKept == Types /\ [Next]_vars => Types'
<1> SUFFICES ASSUME Types, [Next]_vars PROVE Types'
  OBVIOUS
<1>1. CASE UNCHANGED vars
  BY <1>1 DEF Types, vars
<1>2. ASSUME NEW p \in Programs, NEW name \in Names, sys_open(p, name) PROVE Types'
  BY <1>2, OpenTypes
<1>3. ASSUME NEW p \in Programs, NEW fd \in Fds, NEW len \in Lengths, sys_read(p, fd, len)
      PROVE Types'
  BY <1>3, ReadTypes
<1>4. ASSUME NEW p \in Programs, NEW fd \in Fds, sys_close(p, fd) PROVE Types'
  BY <1>4, CloseTypes
<1>5. ASSUME NEW p \in Programs, sys_exit(p) \/ ReturnOrKill(p) PROVE Types'
  BY <1>5, ExitTypes
<1>6. ASSUME NEW p \in Programs, DropSlot(p) \/ ClearSlot(p) PROVE Types'
  BY <1>6, SweepTypes
<1>7. CASE \/ \E p \in Programs : cmd_exec(p)
           \/ \E name \in Names, entry \in Entries : ChangeFile(name, entry)
  BY <1>7, ShellTypes
<1> QED BY <1>1, <1>2, <1>3, <1>4, <1>5, <1>6, <1>7 DEF Next

\* Every reachable state has the types of the inductive invariant.
THEOREM TypesHold == Spec => []Types
BY InitTypes, TypesKept, PTL DEF Spec

\* The standard streams never stand for a file, what stands in the table is a
\* file by its name, and only what a sys_exit is or was at is freed, for every
\* size of the table and number of programs.
THEOREM TypeCorrect == Spec => []TypeOK
<1>1. Types => TypeOK
  <2> SUFFICES ASSUME Types PROVE TypeOK
    OBVIOUS
  <2>1. \A fd \in Fds : table[fd] # None => table[fd].name \in Names /\ table[fd].offset \in Nat
    BY DEF Types, OpenFile
  <2>2. \A fd \in 0..(RESERVED_FDS - 1) : fd \in Fds /\ fd \notin FileFds
    BY FdAssumption DEF Fds, FileFds
  <2>3. freed \subseteq {fd \in Fds : table[fd] # None}
    BY Limits DEF Types
  <2> QED BY <2>1, <2>2, <2>3 DEF Types, TypeOK, FileFds
<1> QED BY <1>1, TypesHold, PTL

(***************************************************************************)
(* Slots are lost by a kill or a return only.                              *)
(***************************************************************************)

\* Steps that fill no slot and end no program take nobody's slot.
LEMMA NothingLeaks ==
  ASSUME Types, LeakedByKillOnly,
         \A fd \in Fds : table'[fd] # None => table[fd] # None,
         alive \subseteq alive', own' = own, leaked' = leaked
  PROVE  LeakedByKillOnly'
BY DEF LeakedByKillOnly

LEMMA LeaksKept == Types /\ LeakedByKillOnly /\ [Next]_vars => LeakedByKillOnly'
<1> SUFFICES ASSUME Types, LeakedByKillOnly, [Next]_vars PROVE LeakedByKillOnly'
  OBVIOUS
<1>1. CASE UNCHANGED vars
  BY <1>1, NothingLeaks DEF vars
<1>2. ASSUME NEW p \in Programs, cmd_exec(p) \/ DropSlot(p) PROVE LeakedByKillOnly'
  <2>1. table' = table /\ own' = own /\ leaked' = leaked /\ alive \subseteq alive'
    BY <1>2 DEF cmd_exec, DropSlot
  <2> QED BY <2>1, NothingLeaks
<1>3. ASSUME NEW p \in Programs, NEW name \in Names, sys_open(p, name) PROVE LeakedByKillOnly'
  <2>1. PICK fd \in FileFds :
          /\ p \in alive /\ alive' = alive /\ leaked' = leaked \ {fd}
          /\ table' = [table EXCEPT ![fd] = [name |-> name, offset |-> 0]]
          /\ own' = [own EXCEPT ![p] = @ \cup {fd}]
    BY <1>3, OpenEffect
  <2>2. fd \in own'[p] /\ \A q \in Programs : own[q] \subseteq own'[q]
    BY <2>1 DEF Types
  <2>3. \A f \in Fds : f # fd => table'[f] = table[f]
    BY <2>1 DEF Types
  <2>4. alive \subseteq Programs
    BY DEF Types
  <2> QED BY <2>1, <2>2, <2>3, <2>4 DEF LeakedByKillOnly
<1>4. ASSUME NEW p \in Programs, NEW fd \in Fds, NEW len \in Lengths, sys_read(p, fd, len)
      PROVE LeakedByKillOnly'
  <2>1. /\ own' = own /\ leaked' = leaked /\ alive' = alive /\ table[fd] # None
        /\ \E to : table' = [table EXCEPT ![fd] = to]
    <3>1. PICK to \in OpenFile : table' = [table EXCEPT ![fd] = to]
      BY <1>4, ReadMoves
    <3> QED BY <1>4, <3>1 DEF sys_read
  <2>2. \A f \in Fds : table'[f] # None => table[f] # None
    BY <2>1 DEF Types
  <2> QED BY <2>1, <2>2, NothingLeaks
<1>5. ASSUME NEW p \in Programs, NEW fd \in Fds, sys_close(p, fd) PROVE LeakedByKillOnly'
  <2>1. /\ table' = [table EXCEPT ![fd] = None] /\ own' = [own EXCEPT ![p] = @ \ {fd}]
        /\ leaked' = leaked \ {fd} /\ alive' = alive
    BY <1>5 DEF sys_close
  <2>2. \A f \in Fds : table'[f] # None => f # fd /\ table[f] # None
    BY <2>1 DEF Types
  <2>3. \A q \in Programs : \A f \in own[q] : f # fd => f \in own'[q]
    BY <2>1 DEF Types
  <2>4. alive \subseteq Programs
    BY DEF Types
  <2> QED BY <2>1, <2>2, <2>3, <2>4 DEF LeakedByKillOnly
<1>6. ASSUME NEW p \in Programs, sys_exit(p) PROVE LeakedByKillOnly'
  <2>1. \A fd \in Fds : table'[fd] = None
    BY <1>6, Limits DEF sys_exit, Types
  <2> QED BY <2>1 DEF LeakedByKillOnly
<1>7. ASSUME NEW p \in Programs, ReturnOrKill(p) PROVE LeakedByKillOnly'
  <2>1. /\ table' = table /\ leaked' = leaked \cup own[p] /\ alive' = alive \ {p}
        /\ own' = [own EXCEPT ![p] = {}]
    BY <1>7 DEF ReturnOrKill, Gone
  <2>2. \A q \in Programs : q # p => own'[q] = own[q]
    BY <2>1 DEF Types
  <2>3. alive \subseteq Programs
    BY DEF Types
  <2> QED BY <2>1, <2>2, <2>3 DEF LeakedByKillOnly
<1>8. ASSUME NEW p \in Programs, ClearSlot(p) PROVE LeakedByKillOnly'
  <2> DEFINE fd == sweep[p].fd
  <2>1. /\ table' = [table EXCEPT ![fd] = None] /\ leaked' = leaked \ {fd}
        /\ own' = own /\ alive' = alive
    BY <1>8 DEF ClearSlot
  <2> HIDE DEF fd
  <2>2. \A f \in Fds : table'[f] # None => f # fd /\ table[f] # None
    BY <2>1 DEF Types
  <2> QED BY <2>1, <2>2 DEF LeakedByKillOnly
<1>9. ASSUME NEW name \in Names, NEW entry \in Entries, ChangeFile(name, entry)
      PROVE LeakedByKillOnly'
  BY <1>9, NothingLeaks DEF ChangeFile
<1> QED BY <1>1, <1>2, <1>3, <1>4, <1>5, <1>6, <1>7, <1>8, <1>9 DEF Next

\* However many programs run at once, a slot in use belongs to one that is
\* there, or was left behind by one that was killed or returned.
THEOREM LeaksHaveACause == Spec => []LeakedByKillOnly
<1>1. Init => LeakedByKillOnly
  BY DEF Init, LeakedByKillOnly
<1> QED BY <1>1, LeaksKept, TypesHold, PTL DEF Spec

(***************************************************************************)
(* Reads tile the file.                                                    *)
(***************************************************************************)

\* Two adjacent parts of a file make one.
LEMMA NextPart ==
  ASSUME NEW data \in Seq(Byte), NEW o \in Nat, NEW end \in o..Len(data)
  PROVE  SubSeq(data, 1, o) \o SubSeq(data, o + 1, end) = SubSeq(data, 1, end)
<1>0. Len(data) \in Nat
  BY LenProperties
<1>1. /\ 1 \in 1..(Len(data) + 1) /\ o \in (1 - 1)..Len(data)
      /\ end \in o..Len(data) /\ data \in Seq(Byte)
  BY <1>0
<1> QED BY ONLY <1>1, ConcatAdjacentSubSeq

LEMMA ReadTiles ==
  ASSUME Types, ReadsAreSequential, NEW p \in Programs, NEW fd \in Fds, NEW len \in Lengths,
         sys_read(p, fd, len)
  PROVE  ReadsAreSequential'
<1> DEFINE o == table[fd].offset
<1>1. PICK name \in NamedBy(fd) :
        LET data == fs[name].data
            bytes == Copied(data, o, len)
        IN  /\ table[fd] \in OpenFile
            /\ data \in Seq(Byte) /\ len \in Nat
            /\ table' = [table EXCEPT ![fd] = [name |-> table[fd].name, offset |-> o + Len(bytes)]]
            /\ got' = [got EXCEPT ![fd] = got[fd] \o bytes]
            /\ UNCHANGED <<fs, intact>>
  BY ReadEffect
<1> DEFINE data == fs[name].data
           bytes == Copied(data, o, len)
           file == [name |-> table[fd].name, offset |-> o + Len(bytes)]
<1>2. /\ table[fd] \in OpenFile /\ data \in Seq(Byte) /\ len \in Nat
      /\ table' = [table EXCEPT ![fd] = file]
      /\ got' = [got EXCEPT ![fd] = got[fd] \o bytes]
      /\ UNCHANGED <<fs, intact>>
  BY <1>1
<1>3. o \in Nat /\ file.name = table[fd].name /\ file.offset = o + Len(bytes) /\ table[fd] # None
  BY <1>2, Limits DEF OpenFile
<1>4. intact[fd] => name = table[fd].name
  BY DEF Types, NamedBy
<1>5. intact[fd] => o <= Len(data) /\ got[fd] = SubSeq(data, 1, o)
  BY <1>3, <1>4 DEF ReadsAreSequential
<1>6. o <= Len(data) => \E end \in o..Len(data) :
                          bytes = SubSeq(data, o + 1, end) /\ o + Len(bytes) = end
  <2> HIDE DEF o, data
  <2> QED BY <1>2, <1>3, CopiedProperties
<1>0. Len(data) \in Nat
  BY <1>2, LenProperties
<1> HIDE DEF o, data, bytes
<1>7. intact[fd] => /\ o + Len(bytes) <= Len(data)
                    /\ got[fd] \o bytes = SubSeq(data, 1, o + Len(bytes))
  <2> SUFFICES ASSUME intact[fd]
               PROVE  /\ o + Len(bytes) <= Len(data)
                      /\ got[fd] \o bytes = SubSeq(data, 1, o + Len(bytes))
    OBVIOUS
  <2>1. PICK end \in o..Len(data) : bytes = SubSeq(data, o + 1, end) /\ o + Len(bytes) = end
    BY <1>5, <1>6
  <2>2. end <= Len(data)
    BY <1>0, <1>3, <2>1
  <2>3. SubSeq(data, 1, o) \o SubSeq(data, o + 1, end) = SubSeq(data, 1, end)
    BY <1>2, <1>3, NextPart
  <2> QED BY <1>5, <2>1, <2>2, <2>3
<1> HIDE DEF file
<1>8. \A f \in Fds : /\ table'[f] = IF f = fd THEN file ELSE table[f]
                     /\ got'[f] = IF f = fd THEN got[fd] \o bytes ELSE got[f]
  BY <1>2 DEF Types
<1> SUFFICES ASSUME NEW f \in Fds, table'[f] # None, intact'[f]
             PROVE  /\ table'[f].offset <= Len(fs'[table'[f].name].data)
                    /\ got'[f] = SubSeq(fs'[table'[f].name].data, 1, table'[f].offset)
  BY DEF ReadsAreSequential
<1>9. CASE f = fd
  <2>1. table'[f] = file /\ fs'[table'[f].name].data = data /\ intact[fd]
    BY <1>2, <1>3, <1>4, <1>8, <1>9 DEF data
  <2> QED BY <1>3, <1>7, <1>8, <1>9, <2>1
<1>10. CASE f # fd
  BY <1>2, <1>8, <1>10 DEF ReadsAreSequential
<1> QED BY <1>9, <1>10

LEMMA OpenTiles ==
  ASSUME Types, ReadsAreSequential, NEW p \in Programs, NEW name \in Names, sys_open(p, name)
  PROVE  ReadsAreSequential'
<1> DEFINE file == [name |-> name, offset |-> 0]
<1>1. PICK fd \in FileFds :
        /\ fd \in Fds /\ table' = [table EXCEPT ![fd] = file] /\ got' = [got EXCEPT ![fd] = <<>>]
        /\ intact' = [intact EXCEPT ![fd] = TRUE] /\ fs' = fs
  BY OpenEffect
<1>2. fs[name].data \in Seq(Byte) /\ Len(fs[name].data) \in Nat
  BY EntryData DEF Types
<1>3. SubSeq(fs[name].data, 1, 0) = <<>>
  BY SubSeqEmpty
<1>4. file.offset = 0 /\ file.name = name
  OBVIOUS
<1> HIDE DEF file
<1>5. \A f \in Fds : /\ table'[f] = IF f = fd THEN file ELSE table[f]
                     /\ got'[f] = IF f = fd THEN <<>> ELSE got[f]
                     /\ f # fd => intact'[f] = intact[f]
  BY <1>1 DEF Types
<1> SUFFICES ASSUME NEW f \in Fds, table'[f] # None, intact'[f]
             PROVE  /\ table'[f].offset <= Len(fs'[table'[f].name].data)
                    /\ got'[f] = SubSeq(fs'[table'[f].name].data, 1, table'[f].offset)
  BY DEF ReadsAreSequential
<1>6. CASE f = fd
  <2>1. table'[f] = file /\ got'[f] = <<>> /\ fs' = fs
    BY <1>1, <1>5, <1>6
  <2> QED BY <1>2, <1>3, <1>4, <2>1
<1>7. CASE f # fd
  BY <1>1, <1>5, <1>7 DEF ReadsAreSequential
<1> QED BY <1>6, <1>7

\* Steps that empty slots, give up on them or change files take intact away.
LEMMA OthersTile ==
  ASSUME Types, ReadsAreSequential, got' = got,
         \A fd \in Fds : table'[fd] # None /\ intact'[fd] =>
           /\ table'[fd] = table[fd] /\ intact[fd]
           /\ fs'[table[fd].name] = fs[table[fd].name]
  PROVE  ReadsAreSequential'
BY DEF ReadsAreSequential

LEMMA ReadsKept == Types /\ ReadsAreSequential /\ [Next]_vars => ReadsAreSequential'
<1> SUFFICES ASSUME Types, ReadsAreSequential, [Next]_vars PROVE ReadsAreSequential'
  OBVIOUS
<1>1. CASE UNCHANGED vars
  BY <1>1, OthersTile DEF vars
<1>2. ASSUME NEW p \in Programs, NEW name \in Names, sys_open(p, name)
      PROVE ReadsAreSequential'
  BY <1>2, OpenTiles
<1>3. ASSUME NEW p \in Programs, NEW fd \in Fds, NEW len \in Lengths, sys_read(p, fd, len)
      PROVE ReadsAreSequential'
  BY <1>3, ReadTiles
<1>4. ASSUME NEW p \in Programs, NEW fd \in Fds, sys_close(p, fd) PROVE ReadsAreSequential'
  <2>1. \A f \in Fds : table'[f] # None => table'[f] = table[f]
    BY <1>4 DEF sys_close, Types
  <2> QED BY <1>4, <2>1, OthersTile DEF sys_close
<1>5. ASSUME NEW p \in Programs, sys_exit(p) PROVE ReadsAreSequential'
  <2>1. \A f \in Fds : table'[f] # None => table'[f] = table[f]
    BY <1>5 DEF sys_exit, Types
  <2> QED BY <1>5, <2>1, OthersTile DEF sys_exit
<1>6. ASSUME NEW p \in Programs, ReturnOrKill(p) \/ cmd_exec(p) PROVE ReadsAreSequential'
  BY <1>6, OthersTile DEF ReturnOrKill, cmd_exec
<1>7. ASSUME NEW p \in Programs, DropSlot(p) PROVE ReadsAreSequential'
  <2>1. \A f \in Fds : intact'[f] => intact[f]
    BY <1>7, SweepFacts DEF DropSlot, Types
  <2> QED BY <1>7, <2>1, OthersTile DEF DropSlot
<1>8. ASSUME NEW p \in Programs, ClearSlot(p) PROVE ReadsAreSequential'
  <2>1. \A f \in Fds : table'[f] # None => table'[f] = table[f]
    BY <1>8, SweepFacts DEF ClearSlot, Types
  <2> QED BY <1>8, <2>1, OthersTile DEF ClearSlot
<1>9. ASSUME NEW name \in Names, NEW entry \in Entries, ChangeFile(name, entry)
      PROVE ReadsAreSequential'
  <2>1. /\ fs' = [fs EXCEPT ![name] = entry] /\ UNCHANGED <<table, got>>
        /\ \A fd \in Fds : intact'[fd] <=> intact[fd] /\ table[fd].name # name
    BY <1>9 DEF ChangeFile
  <2>2. \A fd \in Fds : table[fd] # None /\ intact'[fd] =>
          intact[fd] /\ fs'[table[fd].name] = fs[table[fd].name]
    BY <2>1 DEF Types, OpenFile
  <2> QED BY <2>1, <2>2, OthersTile
<1> QED BY <1>1, <1>2, <1>3, <1>4, <1>5, <1>6, <1>7, <1>8, <1>9 DEF Next

\* The reads of a descriptor tile each file that is left alone, however many
\* programs there are, whatever is asked for and however long the files are.
THEOREM ReadsInOrder == Spec => []ReadsAreSequential
<1>1. Init => ReadsAreSequential
  BY DEF Init, ReadsAreSequential
<1> QED BY <1>1, ReadsKept, TypesHold, PTL DEF Spec

(***************************************************************************)
(* A program that is alone keeps its files.                                *)
(***************************************************************************)

\* Who is not crowded is alone, and only programs that are there own anything:
\* so whoever closes a slot of such a program is this program.
Solitude ==
  /\ \A p \in alive \ crowded : \A q \in alive : q = p
  /\ \A p \in Programs : own[p] # {} => p \in alive

AloneInv == Types /\ Solitude /\ AloneKeepsItsFiles

LEMMA SolitudeKept == Types /\ Solitude /\ [Next]_vars => Solitude'
<1> SUFFICES ASSUME Types, Solitude, [Next]_vars PROVE Solitude'
  OBVIOUS
<1>1. ASSUME alive' = alive, crowded' = crowded,
             \A q \in Programs : own'[q] = own[q] \/ q \in alive
      PROVE  Solitude'
  BY <1>1 DEF Solitude
<1>2. CASE UNCHANGED vars
  BY <1>1, <1>2 DEF vars
<1>3. ASSUME NEW p \in Programs, NEW name \in Names, sys_open(p, name) PROVE Solitude'
  <2>1. p \in alive /\ alive' = alive /\ crowded' = crowded /\ \A q \in Programs : q # p => own'[q] = own[q]
    BY <1>3, OpenEffect DEF Types
  <2> QED BY <1>1, <2>1
<1>4. ASSUME NEW p \in Programs, NEW fd \in Fds, NEW len \in Lengths, sys_read(p, fd, len)
      PROVE Solitude'
  BY <1>1, <1>4 DEF sys_read
<1>5. ASSUME NEW p \in Programs, NEW fd \in Fds, sys_close(p, fd) PROVE Solitude'
  <2>1. p \in alive /\ alive' = alive /\ crowded' = crowded /\ \A q \in Programs : q # p => own'[q] = own[q]
    BY <1>5 DEF sys_close, Calls, Types
  <2> QED BY <1>1, <2>1
<1>6. ASSUME NEW p \in Programs, sys_exit(p) \/ ReturnOrKill(p) PROVE Solitude'
  <2>1. /\ alive' = alive \ {p} /\ crowded' = crowded \ {p}
        /\ \A q \in Programs : own'[q] = IF q = p THEN {} ELSE own[q]
    BY <1>6 DEF sys_exit, ReturnOrKill, Gone, Types
  <2> QED BY <2>1 DEF Solitude
<1>7. ASSUME NEW p \in Programs, DropSlot(p) \/ ClearSlot(p) PROVE Solitude'
  BY <1>1, <1>7 DEF DropSlot, ClearSlot
<1>8. ASSUME NEW p \in Programs, cmd_exec(p) PROVE Solitude'
  <2>1. /\ alive' = alive \cup {p} /\ own' = own
        /\ crowded' = IF alive = {} THEN {} ELSE alive'
    BY <1>8 DEF cmd_exec
  <2> QED BY <2>1 DEF Solitude
<1>9. ASSUME NEW name \in Names, NEW entry \in Entries, ChangeFile(name, entry) PROVE Solitude'
  BY <1>1, <1>9 DEF ChangeFile
<1> QED BY <1>2, <1>3, <1>4, <1>5, <1>6, <1>7, <1>8, <1>9 DEF Next

\* Of two programs that are there, neither is alone.
LEMMA NobodyElse ==
  ASSUME Types, Solitude, NEW p \in alive, NEW q \in Programs \ crowded, q # p
  PROVE  own[q] = {}
BY DEF Solitude, Types

LEMMA FilesKept == AloneInv /\ [Next]_vars => AloneKeepsItsFiles'
<1> SUFFICES ASSUME Types, Solitude, AloneKeepsItsFiles, [Next]_vars PROVE AloneKeepsItsFiles'
  BY DEF AloneInv
<1>0. \A q \in Programs : own[q] \subseteq Fds
  BY Limits DEF Types
<1>1. ASSUME UNCHANGED table, UNCHANGED own, crowded \subseteq crowded' PROVE AloneKeepsItsFiles'
  BY <1>1 DEF AloneKeepsItsFiles
<1>2. CASE UNCHANGED vars \/ \E p \in Programs : DropSlot(p)
  BY <1>1, <1>2 DEF vars, DropSlot
<1>3. ASSUME NEW p \in Programs, NEW name \in Names, sys_open(p, name) PROVE AloneKeepsItsFiles'
  <2>1. PICK fd \in FileFds :
          /\ fd \in Fds /\ table' = [table EXCEPT ![fd] = [name |-> name, offset |-> 0]]
          /\ own' = [own EXCEPT ![p] = @ \cup {fd}] /\ crowded' = crowded
    BY <1>3, OpenEffect
  <2>2. [name |-> name, offset |-> 0] # None
    <3>1. [name |-> name, offset |-> 0] \in OpenFile
      BY DEF OpenFile
    <3> QED BY <3>1, Limits
  <2>3. \A q \in Programs : \A f \in own'[q] : f \in own[q] \/ f = fd
    BY <2>1 DEF Types
  <2> QED BY <1>0, <2>1, <2>2, <2>3 DEF AloneKeepsItsFiles, Types
<1>4. ASSUME NEW p \in Programs, NEW fd \in Fds, NEW len \in Lengths, sys_read(p, fd, len)
      PROVE AloneKeepsItsFiles'
  <2>1. PICK to \in OpenFile : own' = own /\ table' = [table EXCEPT ![fd] = to]
    BY <1>4, ReadMoves
  <2>2. crowded' = crowded
    BY <1>4 DEF sys_read
  <2> QED BY <1>0, <2>1, <2>2, Limits DEF AloneKeepsItsFiles, Types
<1>5. ASSUME NEW p \in Programs, NEW fd \in Fds, sys_close(p, fd) PROVE AloneKeepsItsFiles'
  <2>1. p \in alive /\ own'[p] = own[p] \ {fd} /\ crowded' = crowded
        /\ \A q \in Programs : q # p => own'[q] = own[q]
    BY <1>5 DEF sys_close, Calls, Types
  <2>2. \A f \in Fds : f # fd => table'[f] = table[f]
    BY <1>5 DEF sys_close, Types
  <2>3. \A q \in Programs \ crowded : q # p => own'[q] = {}
    BY <2>1, NobodyElse
  <2> QED BY <1>0, <2>1, <2>2, <2>3 DEF AloneKeepsItsFiles
<1>6. ASSUME NEW p \in Programs, sys_exit(p) PROVE AloneKeepsItsFiles'
  <2>1. p \in alive /\ own'[p] = {} /\ crowded' = crowded \ {p}
        /\ \A q \in Programs : q # p => own'[q] = own[q]
    BY <1>6 DEF sys_exit, Gone, Calls, Types
  <2>2. \A q \in Programs \ crowded' : own'[q] = {}
    BY <2>1, NobodyElse
  <2> QED BY <2>2 DEF AloneKeepsItsFiles
<1>7. ASSUME NEW p \in Programs, ReturnOrKill(p) PROVE AloneKeepsItsFiles'
  <2>1. table' = table /\ own'[p] = {} /\ crowded' = crowded \ {p}
        /\ \A q \in Programs : q # p => own'[q] = own[q]
    BY <1>7 DEF ReturnOrKill, Gone, Types
  <2> QED BY <2>1 DEF AloneKeepsItsFiles
\* A built-in program has no descriptors, and whoever is there with it is crowded.
<1>8. ASSUME NEW p \in Programs, ClearSlot(p) PROVE AloneKeepsItsFiles'
  <2>1. p \in alive /\ own[p] = {} /\ own' = own /\ crowded' = crowded
    BY <1>8 DEF ClearSlot, Sweeping, Types
  <2>2. \A q \in Programs \ crowded' : own'[q] = {}
    BY <2>1, NobodyElse
  <2> QED BY <2>2 DEF AloneKeepsItsFiles
<1>9. ASSUME NEW p \in Programs, cmd_exec(p) PROVE AloneKeepsItsFiles'
  <2>1. table' = table /\ own' = own /\ crowded \subseteq crowded'
    BY <1>9 DEF cmd_exec, Types
  <2> QED BY <1>1, <2>1
<1>10. ASSUME NEW name \in Names, NEW entry \in Entries, ChangeFile(name, entry)
       PROVE AloneKeepsItsFiles'
  BY <1>1, <1>10 DEF ChangeFile
<1> QED BY <1>2, <1>3, <1>4, <1>5, <1>6, <1>7, <1>8, <1>9, <1>10 DEF Next

\* What the comment of the table promises for each task holds of one that is
\* alone with the shell, however many there were before it.
THEOREM AloneProgramKeepsItsFiles == Spec => []AloneKeepsItsFiles
<1>1. Init => AloneInv
  BY InitTypes DEF Init, AloneInv, Solitude, AloneKeepsItsFiles
<1>2. AloneInv /\ [Next]_vars => AloneInv'
  BY TypesKept, SolitudeKept, FilesKept DEF AloneInv
<1>3. AloneInv => AloneKeepsItsFiles
  BY DEF AloneInv
<1> QED BY <1>1, <1>2, <1>3, PTL DEF Spec

=============================================================================

------------------------------- MODULE FdTable -------------------------------
(***************************************************************************)
(* The file system calls of kernel/syscall/handlers.rs and the table of    *)
(* open files behind them.  A loaded program makes its calls through the   *)
(* syscall instruction, which masks interrupts: each is one step.  The     *)
(* programs the kernel brings along call sys_exit like any function, with  *)
(* interrupts enabled: it is preempted between any two of its steps, by    *)
(* the shell, which changes files, starts programs and kills them, and by  *)
(* other programs.  Those make no other call on files.                     *)
(***************************************************************************)
EXTENDS Integers, Sequences, Ordering

CONSTANTS Programs,
          BuiltIn,       \* those of them that come with the kernel
          Names,         \* file names; path components are left out
          Contents,      \* what files contain: sequences of bytes
          Lengths,       \* how much a program asks for at once
          RESERVED_FDS, MAX_FDS

ASSUME FdAssumption == /\ RESERVED_FDS \in Nat /\ MAX_FDS \in Nat /\ RESERVED_FDS < MAX_FDS
                       /\ BuiltIn \subseteq Programs
ASSUME DataAssumption == "" \notin Names /\ Contents \subseteq Seq(0..255) /\ Lengths \subseteq Nat

Loaded == Programs \ BuiltIn
Fds == 0..(MAX_FDS - 1)
None == [name |-> "", offset |-> 0]     \* an empty slot
Absent == [kind |-> "absent", data |-> <<>>]
Dir == [kind |-> "dir", data |-> <<>>]
File(data) == [kind |-> "file", data |-> data]
Entries == {Absent, Dir} \cup {File(data) : data \in Contents}

VARIABLES
  fs,       \* FS: what each name stands for
  table,    \* FD_TABLE
  freed,    \* slots whose name and path have been given back to the heap
  alive,    \* programs in the task table
  sweep,    \* how far the sys_exit of each built-in program has come
  own,      \* descriptors a program was given and has not closed
  got,      \* history: what has been read of each descriptor since its open
  intact,   \* history: file and slot of the descriptor are as they were at the open
  leaked,   \* history: descriptors whose program is gone and did not exit
  crowded   \* history: programs in the table that were not always alone there

vars == <<fs, table, freed, alive, sweep, own, got, intact, leaked, crowded>>

At(fd, step) == [fd |-> fd, step |-> step]

Init ==
  /\ fs \in [Names -> Entries]
  /\ table = [fd \in Fds |-> None]
  /\ freed = {}
  /\ alive = {}
  /\ sweep = [p \in BuiltIn |-> At(RESERVED_FDS, "drop")]
  /\ own = [p \in Programs |-> {}]
  /\ got = [fd \in Fds |-> <<>>]
  /\ intact = [fd \in Fds |-> FALSE]
  /\ leaked = {}
  /\ crowded = {}

Calls(p) == p \in alive \cap Loaded

(***************************************************************************)
(* sys_open and sys_read; a call that fails changes nothing.  sys_stat and *)
(* sys_write change nothing here.                                          *)
(***************************************************************************)

\* Fault: the reserved descriptors are given out too.
alloc_fd_Reserved == {fd \in Fds : table[fd] = None}

alloc_fd == {fd \in RESERVED_FDS..(MAX_FDS - 1) : table[fd] = None}

\* alloc_fd picks the first free slot, or the call fails.
sys_open(p, name) ==
  /\ Calls(p)
  /\ fs[name].kind = "file"
  /\ alloc_fd # {}
  /\ LET fd == Least(alloc_fd)
     IN  /\ table' = [table EXCEPT ![fd] = [name |-> name, offset |-> 0]]
         /\ own' = [own EXCEPT ![p] = @ \cup {fd}]
         /\ got' = [got EXCEPT ![fd] = <<>>]
         /\ intact' = [intact EXCEPT ![fd] = TRUE]
         /\ leaked' = leaked \ {fd}
  /\ UNCHANGED <<fs, freed, alive, sweep, crowded>>

Copied(data, offset, len) ==
  SubSeq(data, offset + 1, IF offset + len < Len(data) THEN offset + len ELSE Len(data))

\* A name that has been freed reads as any bytes.
NamedBy(fd) == IF fd \in freed THEN Names ELSE {table[fd].name}

\* Fault: the offset is counted from the beginning of this read.
sys_read_Restarts(p, fd, len) ==
  /\ Calls(p)
  /\ table[fd] # None
  /\ \E name \in NamedBy(fd) :
       LET bytes == Copied(fs[name].data, table[fd].offset, len)
       IN  /\ fs[name].kind = "file"
           /\ table' = [table EXCEPT ![fd].offset = Len(bytes)]
           /\ got' = [got EXCEPT ![fd] = @ \o bytes]
  /\ UNCHANGED <<fs, freed, alive, sweep, own, intact, leaked, crowded>>

\* Fault: the slot is emptied for the time of the read and not filled again.
sys_read_Takes(p, fd, len) ==
  /\ Calls(p)
  /\ table[fd] # None
  /\ table' = [table EXCEPT ![fd] = None]
  /\ UNCHANGED <<fs, freed, alive, sweep, own, got, intact, leaked, crowded>>

sys_read(p, fd, len) ==
  /\ Calls(p)
  /\ table[fd] # None
  /\ \E name \in NamedBy(fd) :
       LET bytes == Copied(fs[name].data, table[fd].offset, len)
       IN  /\ fs[name].kind = "file"
           /\ table' = [table EXCEPT ![fd].offset = @ + Len(bytes)]
           /\ got' = [got EXCEPT ![fd] = @ \o bytes]
  /\ UNCHANGED <<fs, freed, alive, sweep, own, intact, leaked, crowded>>

(***************************************************************************)
(* sys_close, and sys_exit through syscall.                                *)
(***************************************************************************)
sys_close(p, fd) ==
  /\ Calls(p)
  /\ fd \in RESERVED_FDS..(MAX_FDS - 1) /\ table[fd] # None
  /\ table' = [table EXCEPT ![fd] = None]
  /\ freed' = freed \ {fd}
  /\ own' = [own EXCEPT ![p] = @ \ {fd}]
  /\ leaked' = leaked \ {fd}
  /\ UNCHANGED <<fs, alive, sweep, got, intact, crowded>>

Gone(p) ==
  /\ alive' = alive \ {p}
  /\ own' = [own EXCEPT ![p] = {}]
  /\ crowded' = crowded \ {p}

\* Fault: the last slot is forgotten.
sys_exit_MissesLast(p) ==
  /\ Calls(p)
  /\ table' = [fd \in Fds |-> IF fd \in RESERVED_FDS..(MAX_FDS - 2) THEN None ELSE table[fd]]
  /\ freed' = freed \cap {MAX_FDS - 1}
  /\ leaked' = {}
  /\ Gone(p)
  /\ UNCHANGED <<fs, sweep, got, intact>>

\* sys_exit empties every slot, those of other programs included.
sys_exit(p) ==
  /\ Calls(p)
  /\ table' = [fd \in Fds |-> IF fd >= RESERVED_FDS THEN None ELSE table[fd]]
  /\ freed' = {}
  /\ leaked' = {}
  /\ Gone(p)
  /\ UNCHANGED <<fs, sweep, got, intact>>

(***************************************************************************)
(* sys_exit of a built-in program: for each slot, what stands in it is     *)
(* freed first, and then the slot is marked as empty.                      *)
(***************************************************************************)
Sweeping(p, step) == p \in alive \cap BuiltIn /\ sweep[p].fd < MAX_FDS /\ sweep[p].step = step

DropSlot(p) ==
  /\ Sweeping(p, "drop")
  /\ LET fd == sweep[p].fd
     IN  /\ freed' = IF table[fd] = None THEN freed ELSE freed \cup {fd}
         /\ intact' = [intact EXCEPT ![fd] = FALSE]
         /\ sweep' = [sweep EXCEPT ![p] = At(fd, "clear")]
  /\ UNCHANGED <<fs, table, alive, own, got, leaked, crowded>>

ClearSlot(p) ==
  /\ Sweeping(p, "clear")
  /\ LET fd == sweep[p].fd
     IN  /\ table' = [table EXCEPT ![fd] = None]
         /\ freed' = freed \ {fd}
         /\ leaked' = leaked \ {fd}
         /\ sweep' = [sweep EXCEPT ![p] = At(fd + 1, "drop")]
  /\ UNCHANGED <<fs, alive, own, got, intact, crowded>>

\* The program has swept the table, returns without sys_exit as
\* run_user_counter does, or is killed at any point: the table is not touched.
ReturnOrKill(p) ==
  /\ p \in alive
  /\ leaked' = leaked \cup own[p]
  /\ Gone(p)
  /\ UNCHANGED <<fs, table, freed, sweep, got, intact>>

(***************************************************************************)
(* The shell starts programs and changes files.                            *)
(***************************************************************************)
cmd_exec(p) ==
  /\ p \notin alive
  /\ alive' = alive \cup {p}
  /\ crowded' = IF alive = {} THEN {} ELSE alive'
  /\ sweep' = [q \in BuiltIn |-> IF q = p THEN At(RESERVED_FDS, "drop") ELSE sweep[q]]
  /\ UNCHANGED <<fs, table, freed, own, got, intact, leaked>>

ChangeFile(name, entry) ==
  /\ fs[name] # entry
  /\ fs[name].kind \in {"absent", entry.kind} \/ entry = Absent
  /\ fs' = [fs EXCEPT ![name] = entry]
  /\ intact' = [fd \in Fds |-> intact[fd] /\ table[fd].name # name]
  /\ UNCHANGED <<table, freed, alive, sweep, own, got, leaked, crowded>>

Next ==
  \/ \E p \in Programs :
       \/ \E name \in Names : sys_open(p, name)
       \/ \E fd \in Fds, len \in Lengths : sys_read(p, fd, len)
       \/ \E fd \in Fds : sys_close(p, fd)
       \/ sys_exit(p) \/ DropSlot(p) \/ ClearSlot(p)
       \/ ReturnOrKill(p) \/ cmd_exec(p)
  \/ \E name \in Names, entry \in Entries : ChangeFile(name, entry)

Spec == Init /\ [][Next]_vars

----------------------------------------------------------------------------

\* Types; the descriptors of the standard streams never stand for a file, and
\* what has been freed is a slot that some sys_exit is at, or was killed at.
TypeOK ==
  /\ fs \in [Names -> Entries]
  /\ \A fd \in Fds : table[fd] # None => table[fd].name \in Names /\ table[fd].offset \in Nat
  /\ \A fd \in 0..(RESERVED_FDS - 1) : table[fd] = None
  /\ freed \subseteq {fd \in Fds : table[fd] # None}
  /\ alive \subseteq Programs
  /\ own \in [Programs -> SUBSET (RESERVED_FDS..(MAX_FDS - 1))]
  /\ \A p \in BuiltIn : own[p] = {}

\* The reads of a descriptor tile the file from its beginning, without a gap or
\* a repetition, whoever made them and whatever happens between them, as long
\* as the file is left alone and no sys_exit is at the slot; the offset is
\* where the last one ended.
ReadsAreSequential ==
  \A fd \in Fds :
    table[fd] # None /\ intact[fd] =>
      LET data == fs[table[fd].name].data
      IN  table[fd].offset <= Len(data) /\ got[fd] = SubSeq(data, 1, table[fd].offset)

\* A slot in use belongs to a program that is there and was given it, or was
\* left behind by one that was killed or returned without sys_exit; those are
\* lost until some program calls sys_exit, and a killed sys_exit adds none.
LeakedByKillOnly ==
  \A fd \in Fds :
    table[fd] # None => fd \in leaked \/ \E p \in alive : fd \in own[p]

\* What a program has opened and not closed stays open to it as long as no other
\* has been in the task table together with it, whatever earlier programs left
\* behind, half-done exits included, and whatever becomes of the files.
AloneKeepsItsFiles ==
  \A p \in Programs \ crowded : \A fd \in own[p] : table[fd] # None


=============================================================================

------------------------------- MODULE Storage -------------------------------
(***************************************************************************)
(* save and load of shell/commands.rs: the file system of Shell as an      *)
(* image on the sectors of an ATA disk.  A save writes one sector after    *)
(* another; each write is refused, done, or lost without the driver        *)
(* noticing, which does not look at the status once it has sent the data;  *)
(* and the power may go between two of them.  The kernel task does nothing *)
(* else during a save, and a disk that init has not found is left out.     *)
(***************************************************************************)
EXTENDS Shell, Image

CONSTANTS HEAD_UNITS, SECTOR_UNITS,  \* units of the image in the first sector, in the others
          DISK_SECTORS,              \* sectors of the disk behind the first
          Contents,                  \* what write may put into a file
          MaxEntries, MaxDepth, MaxData   \* bounds of the model

IsEntry(e) == e = Dir \/ (e = File(e.data) /\ e.data \in Seq(Nat))

ASSUME StorageAssumption ==
  /\ MaxEntries \in Nat /\ MaxDepth \in Nat /\ MaxData \in Nat
  /\ HEAD_UNITS \in Nat /\ SECTOR_UNITS \in Nat \ {0} /\ DISK_SECTORS \in Nat
  /\ DOMAIN BootFs \subseteq Seq(Names) /\ IsFiniteSet(DOMAIN BootFs)
  /\ \A p \in DOMAIN BootFs : IsEntry(BootFs[p])
  /\ Contents \subseteq Seq(Nat) /\ Newline \in Nat

VARIABLES
  disk,     \* from DATA_START_SECTOR on: the header, and all units behind it
  saving,   \* the save in progress: the units to write, the next sector, and the tree
  held      \* history: the tree whose image the disk holds; part, when all that a
            \* save has written so far is there; nothing, when a write was lost

vars == <<fs, cwd, disk, saving, held>>

No == [on |-> FALSE]
Nothing == [kind |-> "nothing"]
Part == [kind |-> "part"]
Whole(tree) == [kind |-> "whole", tree |-> tree]

Capacity == HEAD_UNITS + SECTOR_UNITS * DISK_SECTORS

Blank == [magic |-> FALSE, total_len |-> 0, units |-> [i \in 1..Capacity |-> 0]]

Init ==
  /\ ShellInit
  /\ disk = Blank
  /\ saving = No
  /\ held = Nothing

\* The model grows no further.
Bounded(tree) ==
  /\ Cardinality(DOMAIN tree) <= MaxEntries
  /\ \A p \in DOMAIN tree : IF tree[p] = Dir THEN Len(p) <= MaxDepth
                            ELSE Len(p) <= MaxDepth + 1 /\ Len(tree[p].data) <= MaxData

Command(t) ==
  \/ \E n \in Names : cmd_touch(t, n) \/ cmd_mkdir(t, n) \/ cmd_rm(t, n) \/ cd(t, n)
  \/ \E n \in Names, d \in Contents : cmd_write(t, n, d) \/ AppendTo(t, n, d)
  \/ \E m, n \in Names : cmd_cp(t, m, n) \/ cmd_mv(t, m, n)
  \/ cd_up(t)
  \/ cd_root(t)

Shell ==
  /\ ~saving.on
  /\ \E t \in Terminals : Command(t)
  /\ fs' = fs \/ Bounded(fs')
  /\ UNCHANGED <<disk, saving, held>>

(***************************************************************************)
(* save                                                                    *)
(***************************************************************************)
cmd_save(t) ==
  /\ ~saving.on
  /\ saving' = [on |-> TRUE, tree |-> fs, data |-> serialize(fs), sector |-> 0]
  /\ UNCHANGED <<fs, cwd, disk, held>>

\* The units up to the end of a sector; the first of them is sector 0.
UpTo(sector) == HEAD_UNITS + SECTOR_UNITS * sector
UnitsOf(sector) == IF sector = 0 THEN 1..HEAD_UNITS ELSE (UpTo(sector - 1) + 1)..UpTo(sector)

\* The next sector is on its way to the disk, which has it, and reaches it or not.
\* The last one is filled up with zeros.
Sent(reaches) ==
  LET data   == saving.data
      header == saving.sector = 0
  IN  /\ saving.sector <= DISK_SECTORS
      /\ disk' = IF ~reaches THEN disk
                 ELSE [magic     |-> header \/ disk.magic,
                       total_len |-> IF header THEN Len(data) ELSE disk.total_len,
                       units     |-> [i \in 1..Capacity |->
                          IF i \notin UnitsOf(saving.sector) THEN disk.units[i]
                          ELSE IF i <= Len(data) THEN data[i] ELSE 0]]

\* Fault: the last sector, which is not full, is left out.
write_sector_FullOnly(reaches) ==
  /\ saving.on
  /\ Sent(reaches)
  /\ LET last == UpTo(saving.sector + 1) > Len(saving.data)
     IN  /\ saving' = IF last THEN No ELSE [saving EXCEPT !.sector = @ + 1]
         /\ held' = IF ~reaches \/ (held = Nothing /\ saving.sector # 0) THEN Nothing
                    ELSE IF last THEN Whole(saving.tree) ELSE Part
  /\ UNCHANGED <<fs, cwd>>

write_sector(reaches) ==
  /\ saving.on
  /\ Sent(reaches)
  /\ LET last == UpTo(saving.sector) >= Len(saving.data)
     IN  /\ saving' = IF last THEN No ELSE [saving EXCEPT !.sector = @ + 1]
         /\ held' = IF ~reaches \/ (held = Nothing /\ saving.sector # 0) THEN Nothing
                    ELSE IF last THEN Whole(saving.tree) ELSE Part
  /\ UNCHANGED <<fs, cwd>>

\* The drive answers the command with an error, as it does when it has no such
\* sector: the save is given up.
write_refused ==
  /\ saving.on
  /\ saving' = No
  /\ UNCHANGED <<fs, cwd, disk, held>>

(***************************************************************************)
(* load.  A sector that cannot be read ends it with nothing changed.       *)
(***************************************************************************)
Loaded ==
  IF disk.magic /\ disk.total_len <= Capacity
  THEN load_from(SubSeq(disk.units, 1, disk.total_len), Capacity)
  ELSE Corrupt

\* Only the terminal that gave the command goes back to the root.
cmd_load(t) ==
  /\ ~saving.on
  /\ Loaded.ok
  /\ fs' = Loaded.tree
  /\ cwd' = [cwd EXCEPT ![t] = <<>>]
  /\ UNCHANGED <<disk, saving, held>>

\* The machine is switched off and on: fs::init builds the tree it always builds.
Restart ==
  /\ fs' = BootFs
  /\ cwd' = [t \in Terminals |-> <<>>]
  /\ saving' = No
  /\ UNCHANGED <<disk, held>>

Next ==
  \/ Shell
  \/ \E t \in Terminals : cmd_save(t) \/ cmd_load(t)
  \/ \E reaches \in BOOLEAN : write_sector(reaches)
  \/ write_refused
  \/ Restart

Spec == Init /\ [][Next]_vars

(***************************************************************************)
(* Properties                                                              *)
(***************************************************************************)
\* The file system and what a save works on are trees, and working
\* directories are paths.
TypeOK ==
  /\ IsTree(fs)
  /\ cwd \in [Terminals -> Seq(Names)]
  /\ Len(disk.units) = Capacity
  /\ saving.on => IsTree(saving.tree) /\ saving.sector \in 0..(DISK_SECTORS + 1)
  /\ held \in {Nothing, Part} \/ IsTree(held.tree)

\* The tree a save can give back: every name cut to what fits in the image,
\* and of the entries of a directory whose cut names agree, the last.
CutPath(p) == [i \in DOMAIN p |-> Cut[p[i]]]
Overwritten(tree, p) ==
  \E i \in DOMAIN p, n \in Names :
    /\ n > p[i] /\ Cut[n] = Cut[p[i]]
    /\ Append(SubSeq(p, 1, i - 1), n) \in DOMAIN tree
Saved(tree) ==
  LET kept == {p \in DOMAIN tree : ~Overwritten(tree, p)}
  IN  [c \in {CutPath(p) : p \in kept} |-> tree[CHOOSE p \in kept : CutPath(p) = c]]

\* Once the writes of a save have all reached the disk, load gives back that
\* tree, whatever was on the disk before, through failed saves that did not
\* get to replace its header, and across restarts; and refuses it whole when
\* one of its names was cut inside a character, however deep it is.
SavedTreeIsLoaded ==
  held.kind = "whole" =>
    IF Readable(held.tree) THEN Loaded.ok /\ Loaded.tree = Saved(held.tree) ELSE ~Loaded.ok

\* A terminal is moved out of the tree by others only: its working directory
\* stops being a directory when another terminal removes it or loads.
CwdLostToOthersOnly ==
  [][\A t \in Terminals :
       (get_dir(fs, cwd[t]) /\ ~get_dir(fs', cwd'[t])) =>
         \E u \in Terminals \ {t} :
           cmd_load(u) \/ \E n \in Names : cmd_rm(u, n)]_vars

=============================================================================

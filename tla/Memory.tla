-------------------------------- MODULE Memory --------------------------------
(***************************************************************************)
(* Physical frames and the pages mapped to them: the frame allocator, the  *)
(* mapping of the heap at boot and the loading of ELF programs by exec.    *)
(* Frames are numbered; page tables are one level deep.  All of it happens *)
(* in the boot code and then in the kernel task, which holds               *)
(* MEMORY_MANAGER for a whole load; nothing is ever unmapped or freed.     *)
(***************************************************************************)
EXTENDS Integers, Sequences, FiniteSets, Ordering

CONSTANTS MemoryMaps,   \* the memory maps the boot loader may hand over
          HeapFirst, HeapLast,
          Programs,     \* the ELF programs that exec can find
          Segments,     \* of each program: first and last page, whether writable,
                        \* and whether the file that was read holds its data
          Pages,
          Table,        \* the page table that a page's entry is in
          Huge          \* external: the tables in whose place the boot loader has put
                        \* a huge page, as it maps the physical memory

Region == [start : Nat, end : Nat, usable : BOOLEAN]
Segment == {s \in [first : Pages, last : Pages, writable : BOOLEAN, whole : BOOLEAN] : s.first <= s.last}

\* In the order of the addresses, without overlaps.
IsMemoryMap(regions) ==
  /\ regions \in Seq(Region)
  /\ \A i, j \in DOMAIN regions :
       i < j => regions[i].start <= regions[i].end /\ regions[i].end <= regions[j].start

ASSUME MemoryAssumption ==
  /\ \A regions \in MemoryMaps : IsMemoryMap(regions)
  /\ Pages \subseteq Int
  /\ HeapFirst \in Pages /\ HeapLast \in Pages /\ HeapFirst <= HeapLast
  /\ \A a, b \in Pages : a..b \subseteq Pages
  /\ \A p \in Programs : Segments[p] \in Seq(Segment) /\ Segments[p] # <<>>

VARIABLES
  memory_map,
  next_addr,
  mapped,      \* the pages that are mapped: the frame, and whether writable
  tables,      \* the page tables that exist, and their frames
  work,        \* what is being mapped, and how far
  protect,     \* external: whether the boot loader left CR0.WP set
  handed,      \* history: the frames handed out
  refused,     \* history: the allocator has answered that there is none
  misses       \* history: how often map_to has met a huge page

mvars == <<memory_map, next_addr, mapped, tables, work, protect, handed, refused, misses>>

(***************************************************************************)
(* allocate_frame: the first region, in the order of the map, with         *)
(* anything left behind next_addr.                                         *)
(***************************************************************************)
From(i, next) == IF next >= memory_map[i].start THEN next ELSE memory_map[i].start

WithFrames(next) ==
  {i \in DOMAIN memory_map : memory_map[i].usable /\ From(i, next) < memory_map[i].end}

HasFrame(next) == WithFrames(next) # {}

FrameAt(next) == From(Least(WithFrames(next)), next)

\* Fault: next_addr is set to the frame that was found.
Behind_Found(frame) == frame

Behind(frame) == frame + 1

(***************************************************************************)
(* Mapper::map_to of a page that is not mapped, to a frame allocated       *)
(* before: it allocates a frame for the table when there is none yet.      *)
(***************************************************************************)
Put(f, x, value) == [y \in DOMAIN f \cup {x} |-> IF y = x THEN value ELSE f[y]]

Mapped(page, writable) ==
  LET frame == FrameAt(next_addr)
      next == Behind(frame)
      table == FrameAt(next)
  IN  /\ HasFrame(next_addr)
      /\ Table[page] \notin Huge
      /\ mapped' = Put(mapped, page, [frame |-> frame, writable |-> writable])
      /\ \/ /\ Table[page] \in DOMAIN tables
            /\ next_addr' = next
            /\ handed' = handed \cup {frame}
            /\ UNCHANGED tables
         \/ /\ Table[page] \notin DOMAIN tables
            /\ HasFrame(next)
            /\ next_addr' = Behind(table)
            /\ handed' = handed \cup {frame, table}
            /\ tables' = Put(tables, Table[page], table)
      /\ UNCHANGED <<refused, misses>>

allocate_frame ==
  /\ HasFrame(next_addr)
  /\ next_addr' = Behind(FrameAt(next_addr))
  /\ handed' = handed \cup {FrameAt(next_addr)}

\* There is no frame for the page, or none for its table.
OutOfMemory(page) ==
  /\ \/ ~HasFrame(next_addr) /\ UNCHANGED <<next_addr, handed>>
     \/ /\ Table[page] \notin DOMAIN tables \cup Huge
        /\ allocate_frame
        /\ ~HasFrame(next_addr')
  /\ refused' = TRUE
  /\ UNCHANGED misses

\* Where the table should be there is a huge page.
MapFailed(page) ==
  /\ Table[page] \in Huge
  /\ allocate_frame
  /\ misses' = misses + 1
  /\ UNCHANGED refused

\* A frame that was handed out for the page is then nobody's.
NotMapped(page) ==
  /\ OutOfMemory(page) \/ MapFailed(page)
  /\ UNCHANGED <<mapped, tables>>

Idle == [at |-> "idle"]
Halted == [at |-> "halted"]
HeapPage(page) == [at |-> "heap", page |-> page]
LoadPage(p, i, page) == [at |-> "load", program |-> p, segment |-> i, page |-> page]
Copy(p, i) == [at |-> "copy", program |-> p, segment |-> i]

MemoryInit ==
  /\ memory_map \in MemoryMaps
  /\ next_addr = 0
  /\ mapped = [x \in {} |-> x]
  /\ tables = [x \in {} |-> x]
  /\ work = HeapPage(HeapFirst)
  /\ protect \in BOOLEAN
  /\ handed = {}
  /\ refused = FALSE
  /\ misses = 0

(***************************************************************************)
(* Boot                                                                    *)
(***************************************************************************)
\* Fault: the range of pages without its last.
init_heap_Exclusive ==
  /\ work.at = "heap"
  /\ \/ /\ Mapped(work.page, TRUE)
        /\ work' = IF work.page + 1 >= HeapLast THEN Idle ELSE HeapPage(work.page + 1)
     \/ NotMapped(work.page) /\ work' = Halted
  /\ UNCHANGED <<memory_map, protect>>

\* One page of the heap after the other; main gives up when one fails.
init_heap ==
  /\ work.at = "heap"
  /\ \/ /\ Mapped(work.page, TRUE)
        /\ work' = IF work.page = HeapLast THEN Idle ELSE HeapPage(work.page + 1)
     \/ NotMapped(work.page) /\ work' = Halted
  /\ UNCHANGED <<memory_map, protect>>

(***************************************************************************)
(* load_and_map_elf                                                        *)
(***************************************************************************)
cmd_exec(p) ==
  /\ work.at = "idle"
  /\ work' = LoadPage(p, 1, Segments[p][1].first)
  /\ UNCHANGED <<memory_map, next_addr, mapped, tables, protect, handed, refused, misses>>

AfterPage ==
  IF work.page = Segments[work.program][work.segment].last
  THEN Copy(work.program, work.segment)
  ELSE LoadPage(work.program, work.segment, work.page + 1)

\* Fault: the frame is allocated before the page is looked up.
MapSegment_AllocatesFirst ==
  /\ work.at = "load"
  /\ \/ /\ work.page \in DOMAIN mapped
        /\ allocate_frame
        /\ work' = AfterPage
        /\ UNCHANGED <<mapped, tables, refused, misses>>
     \/ /\ work.page \notin DOMAIN mapped
        /\ Mapped(work.page, Segments[work.program][work.segment].writable)
        /\ work' = AfterPage
     \/ NotMapped(work.page) /\ work' = Idle
  /\ UNCHANGED <<memory_map, protect>>

\* A page that is mapped stays as it is, whatever this segment's flags. A page
\* below a huge one is not found to be mapped. When there is no frame, or map_to
\* fails, the load fails, and what it has mapped stays.
MapSegment ==
  /\ work.at = "load"
  /\ \/ /\ work.page \in DOMAIN mapped
        /\ work' = AfterPage
        /\ UNCHANGED <<next_addr, mapped, tables, handed, refused, misses>>
     \/ /\ work.page \notin DOMAIN mapped
        /\ Mapped(work.page, Segments[work.program][work.segment].writable)
        /\ work' = AfterPage
     \/ /\ work.page \notin DOMAIN mapped
        /\ NotMapped(work.page)
        /\ work' = Idle
  /\ UNCHANGED <<memory_map, protect>>

\* The data are a slice of the file, which panics when the file is shorter, as
\* one from a FAT disk that was cut to 512 bytes. Data and zeros are written
\* through the mapping itself: a page without the writable flag is a page fault
\* where the flag binds the kernel, and the handler does not return.
CopySegment ==
  /\ work.at = "copy"
  /\ LET s == Segments[work.program][work.segment]
         faults == protect /\ \E page \in s.first..s.last : ~mapped[page].writable
         i == work.segment + 1
     IN  work' = IF ~s.whole \/ faults THEN Halted
                 ELSE IF i > Len(Segments[work.program]) THEN Idle
                 ELSE LoadPage(work.program, i, Segments[work.program][i].first)
  /\ UNCHANGED <<memory_map, next_addr, mapped, tables, protect, handed, refused, misses>>

MemoryNext ==
  \/ init_heap
  \/ \E p \in Programs : cmd_exec(p)
  \/ MapSegment
  \/ CopySegment

MemorySpec == MemoryInit /\ [][MemoryNext]_mvars

(***************************************************************************)
(* Properties                                                              *)
(***************************************************************************)
\* Once boot is over the heap is mapped; a segment is copied when all of it is.
MemoryTypeOK ==
  /\ next_addr \in Nat
  /\ DOMAIN mapped \subseteq Pages
  /\ work.at \in {"heap", "load", "copy", "idle", "halted"}
  /\ work.at \notin {"heap", "halted"} => HeapFirst..HeapLast \subseteq DOMAIN mapped
  /\ work.at = "copy" =>
       LET s == Segments[work.program][work.segment]
       IN  s.first..s.last \subseteq DOMAIN mapped
  /\ protect \in BOOLEAN /\ refused \in BOOLEAN

UsableFrame(f) ==
  \E i \in DOMAIN memory_map :
    memory_map[i].usable /\ memory_map[i].start <= f /\ f < memory_map[i].end

PageFrames == {mapped[page].frame : page \in DOMAIN mapped}
TableFrames == {tables[t] : t \in DOMAIN tables}

\* No frame stands behind two pages, or behind a page and a page table, or two
\* page tables; and all of them are usable memory.
FramesAreExclusive ==
  /\ \A a, b \in DOMAIN mapped : mapped[a].frame = mapped[b].frame => a = b
  /\ \A t, u \in DOMAIN tables : tables[t] = tables[u] => t = u
  /\ PageFrames \cap TableFrames = {}
  /\ \A f \in PageFrames \cup TableFrames : UsableFrame(f)

\* The allocator gives up only when it has handed out every usable frame.
RunsOutOnlyWhenUsed ==
  refused => \A i \in DOMAIN memory_map :
               memory_map[i].usable =>
                 memory_map[i].start..(memory_map[i].end - 1) \subseteq handed

Lost == handed \ (PageFrames \cup TableFrames)

\* Of the frames handed out, those behind nothing are the ones of the pages below
\* a huge page, one for each load that met one, and at most one more, that of the
\* page for whose table there was none, however many loads fail for want of memory.
EachLossHasAFailure ==
  \/ Cardinality(Lost) = misses
  \/ refused /\ Cardinality(Lost) = misses + 1

(***************************************************************************)
(* The inductive invariant of the proofs: how far the work has come, and   *)
(* what has become of every frame that the allocator has passed.           *)
(***************************************************************************)
Current == Segments[work.program][work.segment]
AtSegment == work.program \in Programs /\ work.segment \in DOMAIN Segments[work.program]

WorkInv ==
  /\ work.at \in {"heap", "load", "copy", "idle", "halted"}
  /\ DOMAIN mapped \subseteq Pages
  /\ work.at = "heap" => /\ work.page \in HeapFirst..HeapLast
                         /\ DOMAIN mapped = HeapFirst..(work.page - 1)
  /\ work.at \notin {"heap", "halted"} => HeapFirst..HeapLast \subseteq DOMAIN mapped
  /\ work.at = "load" => /\ AtSegment
                         /\ work.page \in Current.first..Current.last
                         /\ Current.first..(work.page - 1) \subseteq DOMAIN mapped
  /\ work.at = "copy" => AtSegment /\ Current.first..Current.last \subseteq DOMAIN mapped

Owned == PageFrames \cup TableFrames

FrameInv ==
  /\ memory_map \in MemoryMaps
  /\ next_addr \in Nat
  /\ protect \in BOOLEAN /\ refused \in BOOLEAN
  /\ \A f \in handed : f \in Nat /\ f < next_addr /\ UsableFrame(f)
  /\ \A f \in Nat : f < next_addr /\ UsableFrame(f) => f \in handed
  /\ Owned \subseteq handed
  /\ FramesAreExclusive
  /\ refused => ~HasFrame(next_addr)
  /\ misses \in Nat
  /\ IsFiniteSet(Lost)
  /\ EachLossHasAFailure

MemoryInv == WorkInv /\ FrameInv
=============================================================================

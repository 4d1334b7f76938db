# PolarOS in TLA+

PolarOS is an operating system for one x86_64 processor, written in Rust: a
kernel with a preemptive scheduler, a RAM file system that can be saved to a
disk, system calls for programs, and a graphical desktop with terminal windows
in which a shell runs. This directory holds specifications of the parts that
carry its logic, the instances TLC checks, and proofs for every size.

Line numbers refer to the repository, whose crate is under `src/` of its root.

## 1. The system

Everything runs on one processor. The **kernel task** (id 0) runs `gui::run`: it
pops input events, hands them to the compositor, and so runs every shell command
to its end inside an event handler. **Programs** (`spawn`, `exec`) are further
tasks, entered with interrupts enabled. Those the kernel brings along call
`syscall_dispatch` like any function; a loaded one uses the `syscall` instruction,
which masks interrupts until `sysretq` (`syscall/mod.rs:31`). The **timer, keyboard and mouse interrupts** run on top of whichever task has the
processor. The hard part is what these three do to each other: spin locks on one
processor, `try_lock` in handlers, switches inside the timer handler, tasks killed
in the middle of their code. Two more sources of trouble come from outside:
bytes of the mouse that are read by the wrong reader, and a disk on which a save
may stop half way.

| Component | State | Operations | Interacts with | What makes it correct |
|---|---|---|---|---|
| Scheduler (`kernel/task`, `timer.rs`) | task vector, index of the current task, id counter, saved contexts, IF, in-service bit of the PIC | timer tick, `find_and_switch`, `switch_context`, `yield_now`, `exit_current_task`, `spawn`, `kill` + `cleanup_terminated`, `sys_getpid` | timer; shell commands; programs | one task runs and it is the one on the processor; only saved contexts are resumed; the dead stay dead; the processor is never lost; everybody ready runs |
| Spin locks (all modules) | ten mutexes, the interrupt flag, the lazily built `SCHEDULER` | every code path that takes one | all three kinds of actors | a lock is waited for with interrupts disabled in known situations only, and left behind by a kill in one; every lock is released otherwise |
| Input path (`gui/event.rs`, `gui/mod.rs`, handlers) | ring of 256 events, loop position, flag for a new terminal | push from handlers, pop, handle, end of round, `hlt` | mouse, keyboard, compositor | accepted events are handled once, in order; losses have known causes |
| Mouse (`drivers/mouse.rs`) | decoder cycle, three bytes, position, last buttons | `init`, `handle_byte` | input path | reports are decoded exactly; it gets back in step |
| System calls on files (`syscall/handlers.rs`) | one table of open files, with offsets | open, read, close, exit | file system, scheduler | descriptors stay open, reads tile the file, a slot in use has an owner or a known cause |
| RAM file system (`fs/ramfs.rs`) | a tree | create, mkdir, write, remove, serialise, deserialise | shell, programs | it is a tree; an image gives back the tree, or is refused for a name cut inside a character |
| Shell commands (`shell/commands.rs`) | one cwd per terminal, `ENV_VARS` | touch, mkdir, write, rm, cp, mv, cd, export, the text filters, save, load, exec, kill, ps | file system, disk, scheduler | a cwd is lost only through somebody else; no line of text is lost unless the command says so |
| Command lines (`shell/mod.rs`, `widget/terminal.rs`, `shell/commands.rs`) | the line being executed: its stages, pipe and redirections | expansion of variables, two parsers, the pipeline, the output | shell commands, file system | a line in the documented form means the same to both parsers; a file may be read and written by one line |
| Front ends (`widget/terminal.rs`; `shell/mod.rs`, `completion.rs`, `drivers/vga.rs`) | line typed, rows kept, history with its cursor, row on the screen | keys, completion, history, Enter, wrapping | command lines | what is on the screen is what Enter executes, unless a program printed on it; wrapping loses nothing; a panic has one cause |
| Disk (`drivers/ata.rs`) | sectors | write, read | save, load | a save that reached the disk is loaded again |
| Compositor (`gui/compositor.rs`, `widget/window.rs`, `widget/desktop.rs`) | stack of windows, focus, drag | press, move, release, open, close | input path | windows stay reachable; clicks reach the one on top; drag and focus do not outlive a window |
| Memory (`kernel/memory`, `elf.rs`) | next frame address, page tables | `init_heap`, loading of programs | boot loader, exec | a frame has one owner; none is passed over; each frame lost has a failure that lost it |

Two components meet in a **terminal**: the front end hands a line to the command
line, and gets rows and a prompt back. The desktop's terminal windows and the text
console each have a line editor and a parser of their own over the same commands.
`main` starts the desktop only; the console is compiled and called by nothing.

Not modelled, with the reason in each case:

- drawing (framebuffer, palette, fonts, primitives, theme, wallpaper, mouse pointer),
  the status bar and the blinking text cursor have no control state;
- label, panel and button widgets are in no window;
- the FAT reader is a pure parser of byte offsets, without state. What it does to its
  callers is kept: it returns 512 bytes of a longer file, and `Memory` loads such a file;
- descriptor tables, PIC set-up and the registers of the serial port are written once,
  with fixed values; the lock of the serial port is in `Locks`;
  `paging::init` is one call; the tables of scancodes are tables;
- of the system call entry in assembly, only that it masks interrupts is modelled
  (`Locks`, `FdTable`). The registers it saves, the stack it stays on and the privilege
  `sysretq` returns with are left out: the models say what the calls do when a loaded
  program gets to make them. The task state segment has no stack for privilege 0 and
  the loader maps pages without the user flag, so what becomes of a program behind
  `sysretq` is decided by the processor and the boot loader, not by this code;
- `Scheduler::schedule` and `force_unlock` have no caller.

## 2. The modules

An action is what the processor does between two points where something else may
happen. Definitions keep the names of the code. A definition whose name ends in
an underscore and a fault (`Runnable_AnyState`) is used by nothing: it says what
a plausible mistake in the definition after it would be, and each property has
one that breaks it.

**`Scheduler`** (with `TaskLifecycle`, `Ordering`). `tasks` is the vector, in its
order; `current` the index, from 1. `pc` says what the processor executes on the
stack of `cpu`: a task's own code, `sys_getpid` under the lock, the entry of the
timer handler (`tick`), the scheduling decision (`schedule`), the time between
dropping the lock and `switch_context` (`switch`), the trampoline (`fresh`), or
the two places that must not be reached, `spin` and `halt`. A context is a place:
`live` means the stack pointer saved in the task is out of date. A tick may hit
any step with interrupts enabled. `TaskLifecycle` is the abstract specification:
statuses, no table. `ImplementsLifecycle` maps the table to it. `Ordering` holds
least elements of sets of integers, which `FdTable` and `Memory` use as well, the
vector after `retain`, and the parts `split` takes a text into, for the two shells.

**`Locks`**. All paths that take locks are sequences of steps (lock, `try_lock`,
unlock, cli, sti, the switch, the push and removal of a task). This abstracts from
everything else and puts the locks side by side: scheduler, heap, `FS`, the queues of
events and scancodes, the text console, the serial port, keyboard, mouse and PIC.
`SCHEDULER` is a `lazy_static`, so its first user allocates (`Deref`). The kernel task
boots and then runs the desktop or the console (`mode`), which decides which handler of
the keyboard there is. A program makes its calls in either way: directly with
interrupts as they are (`DirectCalls`), or through the entry, masked from its first step
to its last (`EntryCalls`). `open`, `read`, `close` and `stat` come through the entry only,
since no built-in program makes them. `sys_exit` drops the open files, which locks the heap,
before it disables interrupts.

**`RingBuffer`, `LossyFifo`, `GuiInput`**. The ring as in `event.rs`; the abstract
channel that may refuse an element but never loses, repeats or reorders an accepted
one; handlers, the loop of `gui/mod.rs` and the queue's mutex between them. A packet of
the mouse raises up to three events at once (a move and two buttons), a key one.

**`MouseDecoder`**. Two readers on one byte stream: `mouse::init`, which enables
the interrupt before the commands whose acknowledgements it reads itself, and
the interrupt handler. Bytes, masks and the two's complement are the code's;
`told` folds the button events into the set of buttons that are down.

**`FdTable`**. Calls on files come through the masked entry, so `sys_open`, `sys_read`
and `sys_close` are one step each, and so is the `sys_exit` of a loaded program. The
`sys_exit` of a built-in one is not: it goes from slot to slot, drops what stands in it
(`DropSlot`) and then marks it as empty (`ClearSlot`), and may be preempted or killed
in between. A read through a slot whose name has been freed (`freed`) may see any
name. The shell changes files, starts and kills programs between any two steps.

**`RamFs`, `Shell`, `Image`, `Storage`**. `RamFs` is the tree as a function from the
paths that exist; each operation has a `can_` predicate for the code's early
returns. `Shell` has one action per command, in the terminal that gives it. `Image`
serialises as the code does, directory by directory, a count, type, name or
length being one unit; a name is cut to 255 bytes in the image, here by `Cut`. The cut
may fall inside a character: then `Cut` gives a number that is no name, and the reader,
which takes only strings for names, refuses the whole image. The
reader is written as its rounds: the units left, the tree so far, and for each call of
`deserialize_dir` that has not returned the entries it still expects. A
reader out of place takes one unit for another, as it would bytes. `Storage` puts
the image on sectors: each write is done, refused (as it is behind the disk's last
sector), or lost without the driver
noticing (it looks at the error bit before the data only), and the machine may be
restarted between any two. A save that was cut off leaves new sectors before old
ones on the disk. Nothing in an image covers all of it, so such a mixture may parse;
the properties therefore speak of a save whose writes all reached the disk, and a write
lost or cut off is exempt from them.

**`Text`, `CommandLine`**. `Text` has the filters (`sort`, `uniq`, `grep`, `head`,
`tail`) as functions of a text, which is a sequence of words with newlines among
them. `CommandLine` extends `Shell` with the life of a line: expand, parse, one action
per command in the order of the pipe, then print or write the output. Between
these steps the working directory may change (`cd d > b` writes into `d`) and a file
the line reads may be replaced by the line itself. Both parsers are there; `front` says
which the machine has.

**`LineText`, `Console`, `TerminalWidget`, `FrontEnds`**. Here a line is a sequence of
bytes (the set `Byte`), because the two editors differ in what they do to characters of more than one
byte: the buffer drops a character, the screen a cell; completion cuts a name at a
byte and wrapping cuts a row at one, and Rust panics when that is inside a character
(`halted`). `Console` is the loop, the history with its cursor, completion and the row
of the screen that is written to. A row is not redrawn at once: each `print!` takes the
writer's lock for itself, so that the cells of a recalled line are erased and the
pieces of a prompt printed one by one (`EraseCell`, `PrintNext`), and a program that the
timer switches to may print between any two (`sys_write`). From then on the row is not
what is edited, and Backspace takes from the program's text: `exact` says that nobody
has printed since the console began the row. `TerminalWidget` is the line and the rows of a
window. `FrontEnds` starts a machine with either. What an executed line does is left
open: it prints anything and leaves any names and any prompt. Two habits of the code
the model keeps: an empty line leaves the history's cursor where browsing has put it,
so that the next arrow up passes over an entry; and arrow down behind the last entry
throws away what was typed.

**`Compositor`**. Windows, desktop, focus and drag, in the code's coordinates. Every
mouse event may be lost on its way (`GuiInput` says when). `pointer` and `left` are those
of the decoder (`MOUSE_STATE`), not the user's hand: while it is out of step
(`MouseDecoder`), the pointer jumps and buttons go down that nobody pressed, and both are
among the moves, presses and releases here. All that is used of it is that presses and
releases of a button alternate, which `EventsMatchButtons` shows. A key press changes
nothing in this state, and neither does a tick: the loop sends ticks (`gui/mod.rs:109`)
and the desktop's handler drops them, so that no terminal's cursor blinks.

**`Memory`**. Frames are numbers, the boot loader's memory map a sequence of regions,
page tables one level deep. A page is mapped in one step, which allocates its
frame, then a frame for the table if there is none, and fails in between as the
code does. Where a table should be there may be a huge page of the boot loader's
(`Huge`): `translate_page` does not find the page mapped, its frame is allocated, and
`map_to` fails, at every new attempt again (`misses` counts them). Whether the boot
loader leaves CR0.WP set is not in the repository, so it is either; with it, the copy into a page that is not writable ends in the page
fault handler, which halts. A file of which the FAT reader has returned only a part
(`whole` is FALSE) halts the machine too, by a slice behind its end.

How they fit together: `Shell` extends `RamFs`; `Storage` adds `Image` and the disk to
it, `CommandLine` the lines and `Text`. `FrontEnds` puts `Console` and
`TerminalWidget` side by side, over `LineText`. `GuiInput` instantiates `RingBuffer`
and `LossyFifo`, `Scheduler` instantiates `TaskLifecycle`. `Facts` has the lemmas that
several proofs use. Each `...Proofs` module extends the modules it is about:
`KernelProofs` is about `Scheduler` and `Memory`, `InputProofs` about `GuiInput` and
`MouseDecoder`, `ShellProofs` about `Storage` and `CommandLine`; the second of each pair
has its own names for initial state, steps and types (`MemoryInit`, `LineTypeOK`). The others share
facts rather than state: `Compositor` assumes the losses `GuiInput` shows, `FdTable`
the preemption `Scheduler` shows, `FrontEnds` leaves open what `CommandLine`
determines.

## 3. The runs

| Run | States | Shows |
|---|---|---|
| `scheduler` | 56,958 | one task runs, saved contexts, the processor is kept, `ImplementsLifecycle`, `EveryReadyTaskRuns` |
| `locks` | 23,267 | the only four ways to lose the processor; the only lock a kill leaves behind; every lock is released otherwise |
| `locks_boot` | violation | the very first tick may wait for the heap for ever |
| `gui_input` | 15,621 | the path is a lossy FIFO; why events are lost; nothing accepted is forgotten |
| `mouse_decoder` | 1,426,564 | exact decoding in step, return to step, alternating buttons |
| `fd_table` | 685,654 | a loaded and a built-in program, preempted by each other and the shell: reads, leaks, and what a program alone keeps |
| `fd_table_shared` | violation | two programs: one loses its file to the other |
| `storage` | 854,259 | save and load through failures, with names an image cannot hold; cwd under commands of two terminals |
| `command_line` | 617,785 | what a line means to either parser, and what it does to the text in files |
| `front_ends` | 281,397 | screen and line agree while programs print, history, wrapping, the one cause of a panic |
| `compositor` | 64,992 | reachable windows, drags and clicks under lost events |
| `memory` | 4,261 | owners of frames, and what each lost frame was lost to |

**Bounds and why they suffice.** *scheduler*: three programs and a time slice of two
ticks (`DEFAULT_QUANTUM` is 10): with three the search goes round, and one task can be
passed over by two others. Removal does not move the current index: only the kernel task
removes any, and it is the first. Two ticks are the least with a tick that does not switch.
`MaxId` bounds the ids ever handed out, as every task is new. *locks*: one program beside the
kernel task and all four handlers; two programs, so that one is stopped in `sys_exit`
while the other waits through the entry (about a million states), were checked once for the two
safety properties, with no error; these are theorems, which are about any number. *gui_input*: a ring of three slots, five events, of which up to
three come at once, so that it fills up, overflows in the middle of a packet, and wraps
around. *mouse*: a screen of 3 by 2, so that every border is
reached; distances of both signs and one whose byte looks like a first byte.
*fd_table*: two free slots, two names, files of none and of three bytes read by one or
two; so the table is full with two files open, and reads end early; one
program of either kind, so that a `sys_exit` is preempted slot by slot by calls of the
other. *storage*: three
names, of which the second is too long for the image and there reads like the first, and
the third is cut inside a character; behind a tree with both long names, or with the third
and data, the search does not go on (`OneLongName`);
three entries, depth one, one unit of data, three sectors of eight units together; the
smallest image needs only the first sector, and the largest is one unit too long for
the disk, so that its save fails behind the last sector; the two terminals are interchangeable,
so the run uses symmetry (it checks no liveness, and neither `Storage` nor its
properties tell them apart). *command_line*: one terminal, as a line runs to its end
before another is read; a file of three lines, of which two are alike, so that sorting
and `uniq` both have something to do, and a directory; 46 lines: single commands with
and without arguments, two commands with the redirections of the help and with ones it
does not have, and pipelines of two; a variable whose value may be an operator, so
that it makes a redirection of `echo $V b`. Lines build on what earlier ones left
behind; none is given when the file system has more than four entries, the root
included, or five words (`MaxPaths`, `MaxWords`). *front_ends*: a letter, a blank and
a character of two bytes; rows of three cells and of three bytes under lines of two
characters with a prompt of one or two, so that rows are full, overflow and cut a
character; a history of two entries, so that it drops one; names that differ in the
second byte of a character; programs print one letter, at any time and any number of times,
as on a row only how much is printed matters. *compositor*: three windows and four points: on the icon
and the first window's title bar above it, on its close button, on the second window's
title bar, in the corner of the screen. *memory*: 75 memory maps from too small for
the heap to ample, with empty and reserved regions; a page common to two segments, a
program that shares a page with the other, one whose file was cut off, and one whose
second segment lies below a huge page.

`CHECK_DEADLOCK FALSE` is in three configurations: in the two of `Locks` because
losing the processor is a behaviour of the code and the property says when, and in
`memory` because the machine halts when the heap cannot be mapped.

**Fairness.** *Scheduler*: weak fairness of the processor's own steps, of the timer
(it ticks at 100 Hz), and strong fairness of the few instructions of `sys_getpid`,
which ticks 10 ms apart cannot hit for ever. No program is assumed to yield or
exit. *GuiInput*: weak fairness of the loop, which is the liveness `EveryReadyTaskRuns`
gives to task 0, and of the timer; nothing of the devices. *Locks*: handlers run to
their end, the scheduler gives each task the processor again and again for at least
one step, the tick does not fall on `sys_getpid` every time. The others check
safety only.

**What the violations show** (each run names one sentence of the repository):

- `locks_boot`: `timer.rs:135` says `try_lock` avoids deadlocks. The first use of
  `SCHEDULER` is the first tick, inside the handler, and building it allocates. If it
  interrupts an allocation of `fs::init` or of the GUI's start, it waits for ever.
- `fd_table_shared`: `handlers.rs:22` calls the table per-task; it is one `static mut`.
  One program closes what another has opened, or ends, which empties every slot. The
  passing run says how far the promise is kept: to a program that shares the table with
  no other (`AloneKeepsItsFiles`). What two programs do not break is `ReadsAreSequential`:
  a read goes on in the file its descriptor was opened with, as no call on files can be
  preempted.

`locks` bounds further ways to lose the processor, which no sentence of the repository
denies. `FirstTick` is the one of `locks_boot`. `KeyOfTheConsole`: the console polls the queue
of scancodes with interrupts enabled, and the handler waits for the same lock.
`CommandOnTheTable`: `spawn`, `kill` and `ps` allocate with interrupts disabled, and a
built-in program stopped in `sys_exit` may hold the heap. `EnteredCall`: a loaded program
waits, masked, for `FS` or the heap, which the kernel task or such a program holds. A kill
leaves a lock behind in one place, the same `sys_exit`: calls through the entry cannot be cut,
`print` and `yield` mask interrupts while they hold a lock, and no tick switches away from
`getpid` while it holds that of the scheduler.

## 4. The proofs

Checked by TLAPS, for every value of the constants that satisfies the named
`ASSUME`s of the module, which TLC evaluates in the runs as well. Every theorem is a
property of `Spec`; each rests on an inductive invariant that TLC agreed to first.

**`KernelProofs`**. `SchedulerCorrect` proves `Spec => []SchedulerInv`; most of the
other theorems are its consequences (`TypeCorrect`, `OneTaskRuns`,
`SwitchesToSavedContexts`, `NoSelfDeadlock`, `TerminatedNeverRuns`, `GetpidCorrect`,
`TimerAlwaysReaches`). The properties alone are not inductive. What they need is: the
vector is ordered by id (`IdsOrdered`: otherwise "the task with that id" is ambiguous
and the first Running task need not be the caller of getpid); what each place says
about flag, timer and lock (`PlaceShape`: the lock is held only by the task on the
processor inside getpid, so nobody switches while holding it); and that the pair of
context pointers used after the lock is dropped still names two tasks of the vector,
the second of them the current one (`PendingValid`). The proof has a lemma per action;
those on switching rest on lemmas of what the least element of a set of naturals and
the vector after `retain` are. `SchedulerRefinesLifecycle` proves
`Spec => ImplementsLifecycle`, the abstract specification under the refinement mapping,
its initial states and its steps. A lemma per action names the abstract step (`Spawn`,
`Kill`, `Dispatch`, `Exit`) it is, or shows that the statuses stay. `SchedulerInv` makes
the mapping a function (ids are unique) and says who is running when the index moves.

Of memory, `MemoryCorrect` proves `MemorySpec => []MemoryInv`, which is `WorkInv`
(how far boot or a load has come, and what is mapped by then) and `FrameInv` (the
frames handed out are exactly the usable ones below `next_addr`; all owned frames are
among them; of the others there is one for each time `map_to` met a huge page, and after
a refusal at most one more). Consequences: `MemoryTypeCorrect`, `FramesHaveOneOwner`,
`NoFrameIsPassedOver`, `LossesAreCounted`. That the regions are in order is assumed of
the boot loader; the allocator's search from the first region needs it.

**`LocksProofs`**. `LocksCorrect` proves `Spec => []LocksInv` for any number of programs,
`LostWays` and `OrphansOfSysExit` the two properties of the run. The proof is
in two halves. The first is about the text of the paths and not about their execution:
every piece is disciplined (`EveryPieceIsDisciplined`), that is, whatever step of it
comes next, the steps done before it say which locks are held and whether interrupts
are masked. The second follows the execution, through one abstraction of what a step does to
locks and flag (`Effect`). `LocksInv` then says that a lock's holder is at a place of
its path that holds it (`HoldersAreWithin`), that the lock of the scheduler is held
only with interrupts disabled or inside getpid (`SchedulerIsHeld`), what a masked
interrupt protects (`MasksAreShields`), that a context off the processor stopped
where interrupts were enabled or at the switch itself (`OthersAreParked`), that programs
exist only once the scheduler does (`CreatedBeforePrograms`), and that each front has its own
code and handlers (`FrontsMatch`). Without `MasksAreShields` and `OthersAreParked`, a context found waiting
could have been preempted in the middle of any path, and the properties would blame more
locks than the code can lose. The assumption is that the programs' ids are positive and
none is the kernel task's.

**`InputProofs`**. The ring's invariant is that its two positions are `count` apart
modulo its size and that exactly the slots between them are filled. From it, push is
Append and pop is Tail of the sequence the slots hold, for every size and however it
wraps (`TypeCorrect`). `LossHasTwoReasons` follows from it and the steps of the
handlers; `GuiInputRefinesFifo` maps the ring, the event in the loop's hands and the
history of handled events to the abstract channel.

Of the mouse, `MouseCorrect` proves an invariant that follows one report:
what is left of it on the line (`Rest`), which of its bytes are in the buffer when it
began in step (`InStep`), how far out of step the decoder can be when it did not
(`Resynchronises`), and that the events told agree with `prev_buttons`. Two lemmas
carry the arithmetic: what the bits of a first byte say, and that `signed` takes back
the cut to eight bits, for each distance from -256 to 255. All four properties of the
run follow, for every screen.

**`FdTableProofs`**. For any number of programs of either kind, names and slots:
`TypeCorrect`, `LeaksHaveACause`, `ReadsInOrder`. `AloneProgramKeepsItsFiles` needs in addition
that a program that is not `crowded` is alone and that only programs in the table own
descriptors (`Solitude`). All of them rest on `Types`, which says more than `TypeOK`: that a
`sys_exit` is at a slot of the table, and histories are sequences of bytes. That a read of
any length goes on where the last one ended is `ReadTiles`. `DataAssumption` says that
contents are bytes, and that a name is not the empty one that marks a standard stream.

**`CompositorProofs`**. `CompositorCorrect` proves that windows, focus and drag belong
together in every reachable state: ids are distinct and below the next one, the focus
is on an open window or the desktop, a window that is dragged is open, is held where
it can be, and the button is down or its release was lost. Consequences:
`TypeCorrect`, `WindowsReachable`, `WindowsDoNotMoveAlone`, `ClosesTheTopmost`, for every
set of points the pointer can be at on the screen of 320 by 200, and every number of
windows.

**`FrontEndsProofs`**. `FrontEndsTypes`, `TheScreenShowsInput`, `UpRecallsLast`,
`WrappingKeeps` and `PanicsNeedWideChars` are the five properties of the run, for lines,
histories, rows and names of any length. A line is looked at through folds, and the
library's induction rules cannot be instantiated here; `SetInduction` in `Facts` says the same of
a set of numbers instead of a predicate, and each fact about all lengths is proved with
the set of the lengths for which it holds (what `FlattenSeq` makes of a sequence with
one element more, that the rows of a wrapped line put together are the line, that a
completion begins with what was typed). `FrontInv` has three parts beside the types. Of
the line: while the screen is exact, the row, without the cells still to be erased and with the
text still to be printed, is the prompt and the cells of the line, and this fits the row
(`RowInv`, of the text console only); the property says so of the moments when the loop
waits for a key, but the next piece needs it in between. Of the history: nobody
browses with the cursor behind the last entry, or the cursor is on an entry. Of the
halt: it names a character of more than one byte in the names, the prompt or the text
printed. Assumed are the types of the constants (lines are sequences of bytes, the
banner and the output of sequences of them) and that no command's name has a character of
more than one byte, which the table of commands shows.

**`ShellProofs`**. The first part is about trees. Every operation of `RamFs` leaves a
tree of names and keeps every directory but the one it is given (`InsertIsTree`,
`WithoutIsTree`), so that a command is one of four things to the rest of the system: it
keeps all directories, moves its own terminal, removes one directory, or does nothing
(`CommandEffects`). Of load, the invariant is that the reader is in a directory of a
tree, whatever units it reads (`ReaderInv`). `StorageTypes` is the type invariant of
`Storage` and `OthersTakeTheDirectory` says why a terminal's directory can go.

The second part is about images. `RoundTrip`: what `serialize` wrote, `load_from` gives
back, of every tree, and it refuses the image if and only if some name of the tree is
cut inside a character (`Readable`). What a
recursive definition gives for every tree is out of reach, but a tree has a greatest depth,
and by induction on what is left below a directory there is a function that satisfies
the definition (`WriterExists`, `Writes`). A place in the image is a directory and a
number of its entries already read: `RestIn` and `RestAround` are the units behind it,
`ReadTo` says which paths have been read, and `KeptOf` which of them no later entry of
the same cut name has replaced. The invariant of the reader is that it is at a place with
exactly those units left and exactly those entries found (`OnCourse`). Each round leads
to the next place and leaves fewer units and open directories (`GoesOn`, `Work`), of
which there are as many as the image has units to begin with. `SavedTreeComesBack` puts it on a disk: its invariant
says which units of the image are on the disk after each sector (`ImageInv`), that
`held` is never more than they are, and that commands and load leave finitely many
entries, of numbers (`Sound`).

The third part is about lines. `LineTypes` is the type invariant of `CommandLine`:
whatever a line consists of, files, variables and pipes hold words, and no stage is
empty. `WellFormedLines` says that both parsers take every well-formed line, of any
length, apart into what was meant: `WellFormedIsShaped` finds in such a line at most
one output and one input, in this order or the other; with `LastOf` either parser comes
to the same places (`ParseIsParsed`); and the parts that `Split` makes, put together
with the bars between them, are the pipeline again (`SplitJoins`), so that they are the
commands that were written.

Assumed is that what the machine starts with is a finite tree of names whose files hold
numbers, as do the texts that `write` is given, and that variables stand for words.

**Only model-checked**: every liveness property, because fairness and ENABLED are out
of the prover's reach (`EveryReadyTaskRuns`, `AcceptedIsDelivered`,
`EveryLockIsReleased`); and `SortUniqInPlace` and `LinesSurvive`, which speak of the lines the run gives: they are false of some others, as a variable
may stand for `rm`, and so are no theorem for every `Lines`.

## 5. Plan

The order was: what everything rests on first (scheduler, then locks), then what
feeds it (mouse, queue, loop), then what can lose data (descriptors, file system,
disk), then windows and memory, then lines and the two front ends; proofs for the
parts whose size is arbitrary in the machine. Done: all modules above.

Left, in this order:

1. Model: a heap of counted blocks, for stacks of terminated tasks that only a kill
   gives back (`scheduler.rs:239`); the contents of pages, for a program loaded over
   one that runs (`elf.rs:54`); FAT images, for the reader.
2. Composition of `Scheduler` with `FdTable`, so that preemption is the scheduler's
   and not assumed.

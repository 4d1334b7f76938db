----------------------------- MODULE RingBuffer -----------------------------
(***************************************************************************)
(* The fixed-size ring buffer the kernel uses between interrupt handlers   *)
(* and their readers: EventQueue in gui/event.rs and ScancodeBuffer in     *)
(* drivers/keyboard.rs are the same structure.                             *)
(***************************************************************************)
EXTENDS Integers, Sequences

CONSTANTS Size,    \* QUEUE_SIZE, BUF_SIZE; positive
          Empty    \* the value of a slot nothing was put in, or taken from

Slots == 0..(Size - 1)

new == [buf |-> [i \in Slots |-> Empty], read_pos |-> 0, write_pos |-> 0, count |-> 0]

\* Fault: the bound is checked after the write.
push_Overwrites(q, e) ==
  [q EXCEPT !.buf[q.write_pos] = e,
            !.write_pos = (@ + 1) % Size,
            !.count = IF @ < Size THEN @ + 1 ELSE @]

\* When the buffer is full the newest element is dropped.
push(q, e) ==
  IF q.count < Size
  THEN [q EXCEPT !.buf[q.write_pos] = e,
                 !.write_pos = (@ + 1) % Size,
                 !.count = @ + 1]
  ELSE q

\* pop returns first(q) and leaves popped(q); the slot is taken.
first(q) == IF q.count = 0 THEN Empty ELSE q.buf[q.read_pos]

\* Fault: the slot is read but the position is not advanced.
popped_KeepsPosition(q) ==
  IF q.count = 0 THEN q ELSE [q EXCEPT !.count = @ - 1]

popped(q) ==
  IF q.count = 0 THEN q
  ELSE [q EXCEPT !.buf[q.read_pos] = Empty,
                 !.read_pos = (@ + 1) % Size,
                 !.count = @ - 1]

\* The elements in the buffer, oldest first.
contents(q) == [i \in 1..q.count |-> q.buf[(q.read_pos + i - 1) % Size]]

\* A buffer of elements of E: the positions are count apart, and exactly the
\* count slots from read_pos on are occupied.
RingOver(E) ==
  {q \in [buf: [Slots -> E \cup {Empty}], read_pos: Slots, write_pos: Slots, count: 0..Size] :
     /\ q.write_pos = (q.read_pos + q.count) % Size
     /\ \A i \in 0..(Size - 1) :
          q.buf[(q.read_pos + i) % Size] # Empty <=> i < q.count}

=============================================================================

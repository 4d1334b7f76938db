------------------------------ MODULE GuiInput ------------------------------
(***************************************************************************)
(* The path of an input event: the keyboard and mouse interrupt handlers   *)
(* (kernel/idt.rs, add_scancode_gui, handle_byte) push events into         *)
(* EVENT_QUEUE, and the GUI loop of gui/mod.rs pops and handles them.      *)
(*                                                                         *)
(* The loop runs with interrupts enabled, so an interrupt arrives between  *)
(* any two of its steps, also while it holds the mutex of the queue; both  *)
(* sides use try_lock, and a handler that cannot have the lock drops its   *)
(* event.  A handler runs to its end with interrupts disabled.             *)
(***************************************************************************)
EXTENDS Integers, Sequences

CONSTANTS QUEUE_SIZE,   \* slots of EVENT_QUEUE
          FramesPerTick, \* loop rounds per frame: "every 3 ticks"
          MaxEvents     \* bound: events the devices raise

ASSUME GuiInputAssumption == /\ QUEUE_SIZE \in Nat \ {0}
                             /\ FramesPerTick \in Nat \ {0}
                             /\ MaxEvents \in Nat

None == [id |-> 0, kind |-> "none"]

\* What the loop does with an event depends only on whether it is a MouseDown
\* the desktop answers with OpenTerminal.
Kinds == {"click", "other"}
Event == [id: 1..MaxEvents, kind: Kinds]

Ring == INSTANCE RingBuffer WITH Size <- QUEUE_SIZE, Empty <- None

VARIABLES
  queue,              \* EVENT_QUEUE
  locked,             \* the GUI loop holds its mutex
  pc,                 \* where the GUI loop is
  event,              \* the event it has in hand
  need_new_terminal,
  frame_counter,
  terminals,          \* windows opened by a click on the icon
  raised,             \* history: events raised by the devices
  delivered           \* history: ids of the events handled

vars == <<queue, locked, pc, event, need_new_terminal, frame_counter,
          terminals, raised, delivered>>

Init ==
  /\ queue = Ring!new
  /\ locked = FALSE
  /\ pc = "try_lock"
  /\ event = None
  /\ need_new_terminal = FALSE
  /\ frame_counter = 0
  /\ terminals = 0
  /\ raised = 0
  /\ delivered = <<>>

(***************************************************************************)
(* Interrupts.  A scancode raises at most one event; a mouse packet raises *)
(* a move, an event of the left button and one of the right, or some of    *)
(* them, each with its own try_lock.                                       *)
(***************************************************************************)
\* Fault: the loop keeps the guard of the mutex while it handles the event.
offer_LockedWhileHandling(q, e) ==
  IF pc \in {"pop", "handle"} THEN q ELSE Ring!push(q, e)

offer(q, e) == IF locked THEN q ELSE Ring!push(q, e)

\* An interrupt ends the hlt at the end of a round.
Woken == IF pc = "hlt" THEN "try_lock" ELSE pc

\* The k-th of the events, if there are as many.
offered(q, kinds, k) ==
  IF k \in DOMAIN kinds THEN offer(q, [id |-> raised + k, kind |-> kinds[k]]) ELSE q

InputInterrupt(kinds) ==
  /\ raised + Len(kinds) <= MaxEvents
  /\ queue' = offered(offered(offered(queue, kinds, 1), kinds, 2), kinds, 3)
  /\ raised' = raised + Len(kinds)
  /\ pc' = Woken
  /\ UNCHANGED <<locked, event, need_new_terminal, frame_counter, terminals,
                 delivered>>

\* Fault: the loop waits for input only.
TimerInterrupt_NoWake == FALSE /\ UNCHANGED vars

TimerInterrupt ==
  /\ pc = "hlt"
  /\ pc' = Woken
  /\ UNCHANGED <<queue, locked, event, need_new_terminal, frame_counter,
                 terminals, raised, delivered>>

(***************************************************************************)
(* The GUI loop.                                                           *)
(***************************************************************************)
TryLock ==
  /\ pc = "try_lock"
  /\ locked' = TRUE
  /\ pc' = "pop"
  /\ UNCHANGED <<queue, event, need_new_terminal, frame_counter, terminals,
                 raised, delivered>>

\* The guard of the mutex is dropped with the event in hand.
Pop ==
  /\ pc = "pop"
  /\ event' = Ring!first(queue)
  /\ queue' = Ring!popped(queue)
  /\ locked' = FALSE
  /\ pc' = IF Ring!first(queue) = None THEN "frame" ELSE "handle"
  /\ UNCHANGED <<need_new_terminal, frame_counter, terminals, raised,
                 delivered>>

Handle ==
  /\ pc = "handle"
  /\ delivered' = Append(delivered, event.id)
  /\ need_new_terminal' = (need_new_terminal \/ event.kind = "click")
  /\ event' = None
  /\ pc' = "try_lock"
  /\ UNCHANGED <<queue, locked, frame_counter, terminals, raised>>

\* The queue was empty: at most one terminal is opened for all the clicks of
\* the round, a frame is rendered every FramesPerTick rounds, and hlt waits
\* for the next interrupt.
EndOfRound ==
  /\ pc = "frame"
  /\ terminals' = IF need_new_terminal THEN terminals + 1 ELSE terminals
  /\ need_new_terminal' = FALSE
  /\ frame_counter' = IF frame_counter + 1 >= FramesPerTick THEN 0 ELSE frame_counter + 1
  /\ pc' = "hlt"
  /\ UNCHANGED <<queue, locked, event, raised, delivered>>

LoopStep == TryLock \/ Pop \/ Handle \/ EndOfRound

Bursts == UNION {[1..n -> Kinds] : n \in 1..3}

Next ==
  \/ \E kinds \in Bursts : InputInterrupt(kinds)
  \/ TimerInterrupt
  \/ LoopStep

Spec == Init /\ [][Next]_vars

\* The scheduler gives the kernel task the processor again and again, and the
\* timer ticks; nothing is assumed of the devices.
FairSpec == Spec /\ WF_vars(LoopStep) /\ WF_vars(TimerInterrupt)

----------------------------------------------------------------------------

\* Types; that of the queue says that the occupied slots are the count slots
\* from read_pos on, so that neither side ever meets the wrong end of the ring.
TypeOK ==
  /\ queue \in Ring!RingOver(Event)
  /\ locked = (pc = "pop")
  /\ pc \in {"try_lock", "pop", "handle", "frame", "hlt"}
  /\ event \in Event \cup {None}
  /\ event # None <=> pc = "handle"
  /\ need_new_terminal \in BOOLEAN
  /\ frame_counter \in 0..(FramesPerTick - 1)
  /\ raised \in 0..MaxEvents

accepted ==
  LET ids == [i \in 1..queue.count |-> Ring!contents(queue)[i].id]
  IN  IF event = None THEN ids ELSE <<event.id>> \o ids

Fifo == INSTANCE LossyFifo

\* Accepted events are handled once and in the order they were raised, whatever
\* the interleaving of handlers and loop and however often the ring wraps.
ImplementsLossyFifo == Fifo!Spec

\* Events are lost for two reasons only: the queue is full, or the loop is
\* inside pop. In particular none is lost while the loop handles an event, which
\* takes as long as a whole shell command.
LostOnlyWhenFullOrLocked ==
  [][raised' # raised =>
       \/ locked
       \/ queue.count + (raised' - raised) > QUEUE_SIZE
       \/ queue'.count = queue.count + (raised' - raised)]_vars

\* Every event in the queue is handled, also one that arrives between the last
\* pop of a round and its hlt, which no further input would wake.
AcceptedIsDelivered ==
  \A i \in 1..MaxEvents :
    (\E k \in 1..Len(accepted) : accepted[k] = i) ~>
      (\E k \in 1..Len(delivered) : delivered[k] = i)

=============================================================================

----------------------------- MODULE InputProofs -----------------------------
(***************************************************************************)
(* Proofs about the path of the user's input, in its two parts.            *)
(*                                                                         *)
(* GuiInput: the ring buffer is a bounded queue, for every number of       *)
(* slots, and the path of an event through it implements LossyFifo, for    *)
(* every number of events.                                                 *)
(*                                                                         *)
(* MouseDecoder, for every screen and every set of distances and buttons a *)
(* report may tell: the invariant follows one report through handle_byte,  *)
(* what is left of it on the line, which of its bytes are in the buffer if *)
(* it began in step, and how far out of step the decoder can be if it did  *)
(* not.                                                                    *)
(***************************************************************************)
EXTENDS GuiInput, MouseDecoder, SequenceTheorems, TLAPS

(***************************************************************************)
(* Positions in the ring.                                                  *)
(***************************************************************************)
LEMMA ModSmall ==
  ASSUME NEW n \in Nat \ {0}, NEW k \in 0..(n - 1)
  PROVE  k % n = k
OBVIOUS

LEMMA ModWrap ==
  ASSUME NEW n \in Nat \ {0}, NEW k \in n..(2 * n - 1)
  PROVE  k % n = k - n
OBVIOUS

\* The slot k places behind position p.
Slot(p, k) == IF p + k < QUEUE_SIZE THEN p + k ELSE p + k - QUEUE_SIZE

LEMMA SlotIsMod ==
  ASSUME NEW p \in Ring!Slots, NEW k \in 0..QUEUE_SIZE
  PROVE  (p + k) % QUEUE_SIZE = Slot(p, k) /\ Slot(p, k) \in Ring!Slots
<1>1. QUEUE_SIZE \in Nat \ {0} /\ p \in 0..(QUEUE_SIZE - 1)
  BY GuiInputAssumption DEF Ring!Slots
<1>2. CASE p + k < QUEUE_SIZE
  <2>1. p + k \in 0..(QUEUE_SIZE - 1)
    BY <1>1, <1>2
  <2> QED BY <1>1, <1>2, <2>1, ModSmall DEF Slot, Ring!Slots
<1>3. CASE ~(p + k < QUEUE_SIZE)
  <2>1. p + k \in QUEUE_SIZE..(2 * QUEUE_SIZE - 1)
    BY <1>1, <1>3
  <2> QED BY <1>1, <1>3, <2>1, ModWrap DEF Slot, Ring!Slots
<1> QED BY <1>2, <1>3

LEMMA SlotSteps ==
  ASSUME NEW p \in 0..(QUEUE_SIZE - 1), NEW k \in 0..QUEUE_SIZE
  PROVE  /\ k < QUEUE_SIZE => Slot(Slot(p, k), 1) = Slot(p, k + 1)
         /\ k > 0 => Slot(Slot(p, 1), k - 1) = Slot(p, k)
         /\ \A i \in 0..(QUEUE_SIZE - 1) :
              /\ k < QUEUE_SIZE => (Slot(p, i) = Slot(p, k) <=> i = k)
              /\ Slot(Slot(p, 1), i) \in 0..(QUEUE_SIZE - 1)
              /\ Slot(Slot(p, 1), i) = p <=> i = QUEUE_SIZE - 1
              /\ i # QUEUE_SIZE - 1 => Slot(Slot(p, 1), i) = Slot(p, i + 1)
BY GuiInputAssumption DEF Slot

Queues == Ring!RingOver(Event)

Records == [buf: [Ring!Slots -> Event \cup {None}], read_pos: Ring!Slots,
            write_pos: Ring!Slots, count: 0..QUEUE_SIZE]

\* What it is to be a buffer of events, without the modulus.
IsQueue(q) ==
  /\ q \in Records
  /\ q.write_pos = Slot(q.read_pos, q.count)
  /\ \A i \in Ring!Slots : q.buf[Slot(q.read_pos, i)] # None <=> i < q.count

LEMMA QueuesAre == \A q : q \in Queues <=> IsQueue(q)
<1> SUFFICES ASSUME NEW q, q \in Records
             PROVE  q \in Queues <=> IsQueue(q)
  BY DEF Queues, IsQueue, Records, Ring!RingOver
<1>1. (q.read_pos + q.count) % QUEUE_SIZE = Slot(q.read_pos, q.count)
  BY SlotIsMod DEF Records
<1>2. \A i \in Ring!Slots : (q.read_pos + i) % QUEUE_SIZE = Slot(q.read_pos, i)
  <2>1. Ring!Slots \subseteq 0..QUEUE_SIZE
    BY GuiInputAssumption DEF Ring!Slots
  <2> QED BY <2>1, SlotIsMod DEF Records
<1>3. Ring!Slots = 0..(QUEUE_SIZE - 1)
  BY DEF Ring!Slots
<1> QED BY <1>1, <1>2, <1>3 DEF Queues, IsQueue, Records, Ring!RingOver

LEMMA NoneIsNoEvent == None \notin Event
BY GuiInputAssumption DEF None, Event

(***************************************************************************)
(* The ids in the queue, oldest first.                                     *)
(***************************************************************************)
IdsOf(q) == [i \in 1..q.count |-> Ring!contents(q)[i].id]

LEMMA IdsProperties ==
  ASSUME NEW q \in Queues
  PROVE  /\ IdsOf(q) \in Seq(Nat) /\ Len(IdsOf(q)) = q.count /\ q.count \in 0..QUEUE_SIZE
         /\ \A i \in 1..q.count :
              /\ IdsOf(q)[i] = q.buf[Slot(q.read_pos, i - 1)].id
              /\ q.buf[Slot(q.read_pos, i - 1)] \in Event
<1>1. /\ IsQueue(q) /\ q.count \in 0..QUEUE_SIZE /\ QUEUE_SIZE \in Nat \ {0}
      /\ q.read_pos \in Ring!Slots
  BY QueuesAre, GuiInputAssumption DEF IsQueue, Records
<1>2. ASSUME NEW i \in 1..q.count
      PROVE  /\ IdsOf(q)[i] = q.buf[Slot(q.read_pos, i - 1)].id
             /\ q.buf[Slot(q.read_pos, i - 1)] \in Event
             /\ IdsOf(q)[i] \in Nat
  <2>1. i - 1 \in Ring!Slots /\ i - 1 \in 0..QUEUE_SIZE /\ i - 1 < q.count
    BY <1>1 DEF Ring!Slots
  <2>2. /\ (q.read_pos + (i - 1)) % QUEUE_SIZE = Slot(q.read_pos, i - 1)
        /\ Slot(q.read_pos, i - 1) \in Ring!Slots
    BY <1>1, <2>1, SlotIsMod
  <2>3. q.read_pos + (i - 1) = q.read_pos + i - 1
    BY <1>1 DEF Ring!Slots
  <2>4. Ring!contents(q)[i] = q.buf[Slot(q.read_pos, i - 1)]
    BY <2>2, <2>3 DEF Ring!contents
  <2>5. q.buf[Slot(q.read_pos, i - 1)] \in Event
    BY <1>1, <2>1, <2>2 DEF IsQueue, Records
  <2> QED BY <2>4, <2>5 DEF IdsOf, Event
<1>3. IdsOf(q) = [i \in 1..q.count |-> IdsOf(q)[i]]
  BY DEF IdsOf
<1>4. IdsOf(q) \in Seq(Nat) /\ Len(IdsOf(q)) = q.count
  <2>1. IdsOf(q) \in [1..q.count -> Nat]
    BY <1>2, <1>3
  <2>2. q.count \in Nat
    BY <1>1
  <2> HIDE DEF IdsOf
  <2> QED BY <2>1, <2>2
<1> QED BY <1>1, <1>2, <1>4

(***************************************************************************)
(* push and pop.                                                           *)
(***************************************************************************)
LEMMA PushProperties ==
  ASSUME NEW q \in Queues, NEW e \in Event
  PROVE  /\ Ring!push(q, e) \in Queues
         /\ q.count = QUEUE_SIZE => Ring!push(q, e) = q
         /\ q.count # QUEUE_SIZE =>
              /\ Ring!push(q, e).count = q.count + 1
              /\ IdsOf(Ring!push(q, e)) = Append(IdsOf(q), e.id)
<1> DEFINE n == Ring!push(q, e)
<1>1. /\ IsQueue(q) /\ q.count \in 0..QUEUE_SIZE /\ QUEUE_SIZE \in Nat \ {0}
      /\ q.read_pos \in 0..(QUEUE_SIZE - 1) /\ q.write_pos \in 0..(QUEUE_SIZE - 1)
      /\ Ring!Slots = 0..(QUEUE_SIZE - 1)
      /\ q.write_pos = Slot(q.read_pos, q.count)
      /\ q \in Records
  BY QueuesAre, GuiInputAssumption DEF IsQueue, Ring!Slots, Records
<1>2. CASE q.count = QUEUE_SIZE
  BY <1>2, <1>1 DEF Ring!push
<1>3. CASE q.count # QUEUE_SIZE
  <2>1. (q.write_pos + 1) % QUEUE_SIZE = Slot(q.write_pos, 1)
        /\ Slot(q.write_pos, 1) \in Ring!Slots
    <3>1. 1 \in 0..QUEUE_SIZE
      BY <1>1
    <3> QED BY <1>1, <3>1, SlotIsMod
  <2>2. n = [q EXCEPT !.buf[q.write_pos] = e,
                      !.write_pos = Slot(q.write_pos, 1),
                      !.count = q.count + 1]
    <3>1. q.count < QUEUE_SIZE
      BY <1>1, <1>3
    <3>2. n = [q EXCEPT !.buf[q.write_pos] = e,
                        !.write_pos = (@ + 1) % QUEUE_SIZE,
                        !.count = @ + 1]
      BY <3>1, Zenon DEF Ring!push
    <3> HIDE DEF n
    <3> QED BY <1>1, <2>1, <3>2 DEF Records
  <2> HIDE DEF n
  <2>3. /\ n.count = q.count + 1 /\ n.read_pos = q.read_pos
        /\ n.write_pos = Slot(q.write_pos, 1)
        /\ n.buf = [q.buf EXCEPT ![q.write_pos] = e]
        /\ n \in Records
    <3>1. q.count + 1 \in 0..QUEUE_SIZE
      BY <1>1, <1>3
    <3> QED BY <1>1, <2>1, <2>2, <3>1 DEF Records
  <2>4. n.write_pos = Slot(n.read_pos, n.count)
    <3>1. Slot(Slot(q.read_pos, q.count), 1) = Slot(q.read_pos, q.count + 1)
      <4>1. q.read_pos \in 0..(QUEUE_SIZE - 1) /\ q.count \in 0..QUEUE_SIZE /\ q.count < QUEUE_SIZE
        BY <1>1, <1>3
      <4> QED BY <4>1, SlotSteps
    <3> QED BY <1>1, <2>3, <3>1
  <2>5. \A i \in Ring!Slots : Slot(q.read_pos, i) = q.write_pos <=> i = q.count
    <3>1. \A i \in 0..(QUEUE_SIZE - 1) :
            Slot(q.read_pos, i) = Slot(q.read_pos, q.count) <=> i = q.count
      <4>1. q.read_pos \in 0..(QUEUE_SIZE - 1) /\ q.count \in 0..QUEUE_SIZE /\ q.count < QUEUE_SIZE
        BY <1>1, <1>3
      <4> QED BY <4>1, SlotSteps
    <3> QED BY <1>1, <3>1
  <2>6. \A i \in Ring!Slots : Slot(q.read_pos, i) \in Ring!Slots
    <3>1. \A i \in Ring!Slots : i \in 0..QUEUE_SIZE
      BY <1>1
    <3> QED BY <1>1, <3>1, SlotIsMod
  <2>7. \A i \in Ring!Slots :
          n.buf[Slot(q.read_pos, i)] = IF i = q.count THEN e ELSE q.buf[Slot(q.read_pos, i)]
    BY <1>1, <2>3, <2>5, <2>6 DEF Records
  <2>8. IsQueue(n)
    <3>1. \A i \in Ring!Slots : n.buf[Slot(n.read_pos, i)] # None <=> i < n.count
      BY <1>1, <1>3, <2>3, <2>7, NoneIsNoEvent DEF IsQueue
    <3> QED BY <2>3, <2>4, <3>1 DEF IsQueue
  <2>9. n \in Queues
    BY <2>8, QueuesAre
  <2>10. IdsOf(n) = Append(IdsOf(q), e.id)
    <3> DEFINE a == IdsOf(n)
               b == Append(IdsOf(q), e.id)
    <3>1. /\ IdsOf(q) \in Seq(Nat) /\ Len(IdsOf(q)) = q.count
          /\ a \in Seq(Nat) /\ Len(a) = q.count + 1 /\ e.id \in Nat
      BY <2>3, <2>9, IdsProperties DEF Event
    <3>2. b \in Seq(Nat) /\ Len(b) = q.count + 1
      BY <3>1, AppendProperties
    <3>3. ASSUME NEW i \in 1..(q.count + 1) PROVE a[i] = b[i]
      <4>1. a[i] = n.buf[Slot(q.read_pos, i - 1)].id /\ i - 1 \in Ring!Slots
        <5>1. i \in 1..n.count /\ i - 1 \in 0..(QUEUE_SIZE - 1)
          BY <1>1, <1>3, <2>3
        <5>2. IdsOf(n)[i] = n.buf[Slot(n.read_pos, i - 1)].id
          BY <2>9, <5>1, IdsProperties
        <5> QED BY <1>1, <2>3, <5>1, <5>2
      <4>2. CASE i = q.count + 1
        <5>1. i - 1 = q.count
          BY <1>1, <4>2
        <5>2. b[i] = e.id
          BY <3>1, <4>2, AppendProperties
        <5> QED BY <2>7, <4>1, <5>1, <5>2
      <4>3. CASE i # q.count + 1
        <5>1. i \in 1..q.count /\ i - 1 # q.count
          BY <1>1, <4>3
        <5>2. b[i] = IdsOf(q)[i]
          BY <3>1, <5>1, AppendProperties
        <5> QED BY <2>7, <4>1, <5>1, <5>2, IdsProperties
      <4> QED BY <4>2, <4>3
    <3> HIDE DEF a, b
    <3>4. a = b
      BY <3>1, <3>2, <3>3, SeqEqual
    <3> QED BY <3>4 DEF a, b
  <2> QED BY <1>3, <2>3, <2>9, <2>10 DEF n
<1> QED BY <1>2, <1>3

LEMMA PopProperties ==
  ASSUME NEW q \in Queues
  PROVE  /\ Ring!popped(q) \in Queues
         /\ q.count = 0 => Ring!first(q) = None /\ Ring!popped(q) = q
         /\ q.count # 0 =>
              /\ Ring!first(q) \in Event
              /\ IdsOf(q) = <<Ring!first(q).id>> \o IdsOf(Ring!popped(q))
<1> DEFINE n == Ring!popped(q)
<1>1. /\ IsQueue(q) /\ q.count \in 0..QUEUE_SIZE /\ QUEUE_SIZE \in Nat \ {0}
      /\ q.read_pos \in 0..(QUEUE_SIZE - 1) /\ q.write_pos \in 0..(QUEUE_SIZE - 1)
      /\ Ring!Slots = 0..(QUEUE_SIZE - 1)
      /\ q.write_pos = Slot(q.read_pos, q.count)
      /\ q \in Records
  BY QueuesAre, GuiInputAssumption DEF IsQueue, Ring!Slots, Records
<1>2. CASE q.count = 0
  BY <1>2 DEF Ring!popped, Ring!first
<1>3. CASE q.count # 0
  <2>1. (q.read_pos + 1) % QUEUE_SIZE = Slot(q.read_pos, 1)
        /\ Slot(q.read_pos, 1) \in Ring!Slots
    <3>1. 1 \in 0..QUEUE_SIZE
      BY <1>1
    <3> QED BY <1>1, <3>1, SlotIsMod
  <2>2. n = [q EXCEPT !.buf[q.read_pos] = None,
                      !.read_pos = Slot(q.read_pos, 1),
                      !.count = q.count - 1]
    BY <1>1, <1>3, <2>1 DEF Ring!popped, Records
  <2> HIDE DEF n
  <2>3. /\ n.count = q.count - 1 /\ n.write_pos = q.write_pos
        /\ n.read_pos = Slot(q.read_pos, 1)
        /\ n.buf = [q.buf EXCEPT ![q.read_pos] = None]
        /\ n \in Records
    <3>1. q.count - 1 \in 0..QUEUE_SIZE
      BY <1>1, <1>3
    <3> QED BY <1>1, <2>1, <2>2, <3>1 DEF Records
  <2>4. n.write_pos = Slot(n.read_pos, n.count)
    <3>1. Slot(Slot(q.read_pos, 1), q.count - 1) = Slot(q.read_pos, q.count)
      <4>1. q.read_pos \in 0..(QUEUE_SIZE - 1) /\ q.count \in 0..QUEUE_SIZE /\ q.count > 0
        BY <1>1, <1>3
      <4> QED BY <4>1, SlotSteps
    <3> QED BY <1>1, <2>3, <3>1
  <2>5. \A i \in Ring!Slots :
          /\ Slot(n.read_pos, i) \in Ring!Slots
          /\ Slot(n.read_pos, i) = q.read_pos <=> i = QUEUE_SIZE - 1
          /\ i # QUEUE_SIZE - 1 => Slot(n.read_pos, i) = Slot(q.read_pos, i + 1)
    <3>1. \A i \in 0..(QUEUE_SIZE - 1) :
            /\ Slot(Slot(q.read_pos, 1), i) \in 0..(QUEUE_SIZE - 1)
            /\ Slot(Slot(q.read_pos, 1), i) = q.read_pos <=> i = QUEUE_SIZE - 1
            /\ i # QUEUE_SIZE - 1 => Slot(Slot(q.read_pos, 1), i) = Slot(q.read_pos, i + 1)
      <4>1. q.read_pos \in 0..(QUEUE_SIZE - 1) /\ q.count \in 0..QUEUE_SIZE
        BY <1>1
      <4> QED BY <4>1, SlotSteps
    <3> QED BY <1>1, <2>3, <3>1
  <2>6. \A i \in Ring!Slots :
          n.buf[Slot(n.read_pos, i)] =
            IF i = QUEUE_SIZE - 1 THEN None ELSE q.buf[Slot(q.read_pos, i + 1)]
    BY <1>1, <2>3, <2>5 DEF Records
  <2>7. IsQueue(n)
    <3>1. ASSUME NEW i \in Ring!Slots
          PROVE  n.buf[Slot(n.read_pos, i)] # None <=> i < n.count
      <4>1. CASE i = QUEUE_SIZE - 1
        BY <1>1, <1>3, <2>3, <2>6, <4>1
      <4>2. CASE i # QUEUE_SIZE - 1
        <5>1. i + 1 \in Ring!Slots
          BY <1>1, <4>2
        <5>2. q.buf[Slot(q.read_pos, i + 1)] # None <=> i + 1 < q.count
          BY <1>1, <5>1 DEF IsQueue
        <5> QED BY <1>1, <2>3, <2>6, <4>2, <5>2
      <4> QED BY <4>1, <4>2
    <3> QED BY <2>3, <2>4, <3>1 DEF IsQueue
  <2>8. n \in Queues
    BY <2>7, QueuesAre
  <2>9. Ring!first(q) = q.buf[q.read_pos] /\ Slot(q.read_pos, 0) = q.read_pos
    BY <1>1, <1>3 DEF Ring!first, Slot
  <2>10. Ring!first(q) \in Event
    <3>1. 1 \in 1..q.count /\ 1 - 1 = 0
      BY <1>1, <1>3
    <3> QED BY <2>9, <3>1, IdsProperties
  <2>11. IdsOf(q) = <<Ring!first(q).id>> \o IdsOf(n)
    <3> DEFINE a == IdsOf(q)
               h == <<Ring!first(q).id>>
               b == h \o IdsOf(n)
    <3>1. /\ a \in Seq(Nat) /\ Len(a) = q.count /\ q.count \in Nat
          /\ IdsOf(n) \in Seq(Nat) /\ Len(IdsOf(n)) = q.count - 1
          /\ h \in Seq(Nat) /\ Len(h) = 1 /\ h[1] = Ring!first(q).id
      BY <1>1, <2>3, <2>8, <2>10, IdsProperties DEF Event
    <3> HIDE DEF a, h
    <3>2. /\ b \in Seq(Nat) /\ Len(b) = q.count
          /\ \A i \in 1..q.count : b[i] = IF i <= 1 THEN h[i] ELSE IdsOf(n)[i - 1]
      <4>1. /\ b \in Seq(Nat) /\ Len(b) = Len(h) + Len(IdsOf(n))
            /\ \A i \in 1..(Len(h) + Len(IdsOf(n))) :
                 b[i] = IF i <= Len(h) THEN h[i] ELSE IdsOf(n)[i - Len(h)]
        BY <3>1, ConcatProperties
      <4> HIDE DEF b
      <4>2. Len(h) + Len(IdsOf(n)) = q.count
        BY <3>1
      <4> QED BY <3>1, <4>1, <4>2
    <3>3. ASSUME NEW i \in 1..q.count PROVE a[i] = b[i]
      <4>1. a[i] = q.buf[Slot(q.read_pos, i - 1)].id
        BY IdsProperties DEF a
      <4>2. CASE i = 1
        BY <2>9, <3>1, <3>2, <4>1, <4>2
      <4>3. CASE i # 1
        <5>1. /\ i - 1 \in 1..n.count /\ i - 2 \in Ring!Slots /\ i - 2 # QUEUE_SIZE - 1
              /\ (i - 1) - 1 = i - 2 /\ (i - 2) + 1 = i - 1
          BY <1>1, <2>3, <4>3
        <5>2. IdsOf(n)[i - 1] = n.buf[Slot(n.read_pos, i - 2)].id
          BY <2>8, <5>1, IdsProperties
        <5>3. n.buf[Slot(n.read_pos, i - 2)] = q.buf[Slot(q.read_pos, i - 1)]
          BY <2>6, <5>1
        <5> QED BY <3>2, <4>1, <4>3, <5>2, <5>3
      <4> QED BY <4>2, <4>3
    <3> HIDE DEF b
    <3>4. a = b
      BY <3>1, <3>2, <3>3, SeqEqual
    <3> QED BY <3>4 DEF a, b, h
  <2> QED BY <1>3, <2>8, <2>10, <2>11 DEF n
<1> QED BY <1>2, <1>3

(***************************************************************************)
(* The types.                                                              *)
(***************************************************************************)
LEMMA NewIsQueue == Ring!new \in Queues /\ Ring!new.count = 0
<1>1. QUEUE_SIZE \in Nat \ {0} /\ Ring!Slots = 0..(QUEUE_SIZE - 1)
  BY GuiInputAssumption DEF Ring!Slots
<1>2. \A i \in Ring!Slots : Slot(0, i) = i /\ ~(i < 0)
  BY <1>1 DEF Slot
<1>3. Slot(0, 0) = 0 /\ 0 \in Ring!Slots /\ 0 \in 0..QUEUE_SIZE
  BY <1>1 DEF Slot
<1>4. IsQueue(Ring!new)
  BY <1>2, <1>3 DEF IsQueue, Records, Ring!new
<1> QED BY <1>4, QueuesAre DEF Ring!new

\* An event raised at an interrupt, and the queue it is offered to.
LEMMA OfferProperties ==
  ASSUME NEW q \in Queues, NEW e \in Event
  PROVE  /\ offer(q, e) \in Queues
         /\ IdsOf(offer(q, e)) = IdsOf(q) \/ IdsOf(offer(q, e)) = Append(IdsOf(q), e.id)
         /\ ~locked /\ q.count < QUEUE_SIZE => offer(q, e).count = q.count + 1
<1>1. q.count \in 0..QUEUE_SIZE /\ QUEUE_SIZE \in Nat
  BY IdsProperties, GuiInputAssumption
<1> QED BY <1>1, PushProperties DEF offer

\* What an interrupt raises: one, two or three events with the next ids.
LEMMA BurstProperties ==
  ASSUME TypeOK, NEW kinds \in Bursts, raised + Len(kinds) <= MaxEvents
  PROVE  /\ Len(kinds) \in 1..3 /\ DOMAIN kinds = 1..Len(kinds)
         /\ \A k \in 1..Len(kinds) : [id |-> raised + k, kind |-> kinds[k]] \in Event
<1>1. raised \in Nat /\ MaxEvents \in Nat
  BY GuiInputAssumption DEF TypeOK
<1>2. PICK n \in 1..3 : kinds \in [1..n -> Kinds]
  BY DEF Bursts
<1>3. Len(kinds) = n /\ DOMAIN kinds = 1..n /\ \A k \in 1..n : kinds[k] \in Kinds
  BY <1>2
<1> HIDE DEF Kinds
<1>4. \A k \in 1..n : raised + k \in 1..MaxEvents
  BY <1>1, <1>3
<1> QED BY <1>3, <1>4 DEF Event

\* An event of an interrupt is not raised, lost, or appended.
LEMMA OfferedProperties ==
  ASSUME TypeOK, NEW kinds \in Bursts, raised + Len(kinds) <= MaxEvents,
         NEW q \in Queues, NEW k \in 1..3
  PROVE  /\ offered(q, kinds, k) \in Queues
         /\ k > Len(kinds) => offered(q, kinds, k) = q
         /\ \/ IdsOf(offered(q, kinds, k)) = IdsOf(q)
            \/ k <= Len(kinds) /\ IdsOf(offered(q, kinds, k)) = Append(IdsOf(q), raised + k)
         /\ ~locked /\ q.count < QUEUE_SIZE /\ k <= Len(kinds) =>
              offered(q, kinds, k).count = q.count + 1
<1> DEFINE e == [id |-> raised + k, kind |-> kinds[k]]
<1>1. Len(kinds) \in 1..3 /\ (k \in DOMAIN kinds <=> k <= Len(kinds))
  BY BurstProperties
<1>2. e.id = raised + k
  OBVIOUS
<1>3. CASE k <= Len(kinds)
  <2>1. e \in Event
    BY <1>1, <1>3, BurstProperties
  <2>2. offered(q, kinds, k) = offer(q, e)
    BY <1>1, <1>3 DEF offered
  <2> HIDE DEF e
  <2> QED BY <1>1, <1>2, <1>3, <2>1, <2>2, OfferProperties
<1>4. CASE ~(k <= Len(kinds))
  <2>1. offered(q, kinds, k) = q
    BY <1>1, <1>4 DEF offered
  <2> QED BY <1>4, <2>1
<1> QED BY <1>3, <1>4

\* Concatenation, for steps that need no more of it than this.
Cat(s, t) == s \o t

LEMMA CatIs ==
  ASSUME NEW R
  PROVE  /\ \A s \in Seq(R) : \A t \in Seq(R) : Cat(s, t) \in Seq(R)
         /\ \A s \in Seq(R) : \A t \in Seq(R) : \A u \in Seq(R) :
              Cat(Cat(s, t), u) = Cat(s, Cat(t, u))
<1>1. \A s \in Seq(R) : \A t \in Seq(R) : Cat(s, t) \in Seq(R)
  BY ConcatProperties DEF Cat
<1>2. \A s \in Seq(R) : \A t \in Seq(R) : \A u \in Seq(R) :
              Cat(Cat(s, t), u) = Cat(s, Cat(t, u))
  BY ConcatAssociative DEF Cat
<1> QED BY <1>1, <1>2

\* Three texts appended one after the other.
LEMMA InFront ==
  ASSUME NEW R, NEW h \in Seq(R), NEW i \in Seq(R), NEW j \in Seq(R), NEW k \in Seq(R),
         NEW l \in Seq(R)
  PROVE  Cat(h, Cat(Cat(Cat(i, j), k), l)) = Cat(Cat(Cat(Cat(h, i), j), k), l)
<1>1. Cat(i, j) \in Seq(R) /\ Cat(h, Cat(i, j)) = Cat(Cat(h, i), j)
  BY CatIs
<1>2. Cat(Cat(i, j), k) \in Seq(R) /\ Cat(h, Cat(Cat(i, j), k)) = Cat(Cat(h, Cat(i, j)), k)
  BY <1>1, CatIs
<1>3. Cat(h, Cat(Cat(Cat(i, j), k), l)) = Cat(Cat(h, Cat(Cat(i, j), k)), l)
  BY <1>2, CatIs
<1> QED BY <1>1, <1>2, <1>3, Zenon

\* The ids of the events of an interrupt that came into the queue.
Appended(kinds) ==
  \E S \in SUBSET (1..Len(kinds)) :
    IdsOf(queue') = ((IdsOf(queue) \o Fifo!Kept(1, S)) \o Fifo!Kept(2, S)) \o Fifo!Kept(3, S)

\* What an interrupt does to the queue: nothing, or it appends the ids of some
\* of its events in their order.
LEMMA InterruptProperties ==
  ASSUME TypeOK, NEW kinds \in Bursts, InputInterrupt(kinds)
  PROVE  /\ queue' \in Queues
         /\ Appended(kinds)
         /\ ~locked /\ queue.count + Len(kinds) <= QUEUE_SIZE =>
              queue'.count = queue.count + Len(kinds)
<1> DEFINE q1 == offered(queue, kinds, 1)
           q2 == offered(q1, kinds, 2)
           q3 == offered(q2, kinds, 3)
           n == Len(kinds)
<1>1. raised + Len(kinds) <= MaxEvents /\ queue' = q3
  BY DEF InputInterrupt
<1>2. n \in 1..3 /\ raised \in Nat
  BY <1>1, BurstProperties DEF TypeOK
<1>3. /\ queue \in Queues /\ IdsOf(queue) \in Seq(Nat)
      /\ queue.count \in 0..QUEUE_SIZE /\ QUEUE_SIZE \in Nat
  <2>1. queue \in Queues
    BY DEF TypeOK, Queues
  <2> QED BY <2>1, IdsProperties, GuiInputAssumption
<1>4. /\ q1 \in Queues
      /\ 1 > n => q1 = queue
      /\ IdsOf(q1) = IdsOf(queue) \/ (1 <= n /\ IdsOf(q1) = Append(IdsOf(queue), raised + 1))
      /\ ~locked /\ queue.count < QUEUE_SIZE /\ 1 <= n => q1.count = queue.count + 1
  BY <1>1, <1>3, 1 \in 1..3, OfferedProperties
<1> HIDE DEF q1
<1>5. /\ q2 \in Queues
      /\ 2 > n => q2 = q1
      /\ IdsOf(q2) = IdsOf(q1) \/ (2 <= n /\ IdsOf(q2) = Append(IdsOf(q1), raised + 2))
      /\ ~locked /\ q1.count < QUEUE_SIZE /\ 2 <= n => q2.count = q1.count + 1
  BY <1>1, <1>4, 2 \in 1..3, OfferedProperties
<1> HIDE DEF q2
<1>6. /\ q3 \in Queues
      /\ 3 > n => q3 = q2
      /\ IdsOf(q3) = IdsOf(q2) \/ (3 <= n /\ IdsOf(q3) = Append(IdsOf(q2), raised + 3))
      /\ ~locked /\ q2.count < QUEUE_SIZE /\ 3 <= n => q3.count = q2.count + 1
  BY <1>1, <1>5, 3 \in 1..3, OfferedProperties
<1> HIDE DEF q3, n
<1>7. Appended(kinds)
  <2> DEFINE S == {k \in 1..n : \/ k = 1 /\ IdsOf(q1) # IdsOf(queue)
                                \/ k = 2 /\ IdsOf(q2) # IdsOf(q1)
                                \/ k = 3 /\ IdsOf(q3) # IdsOf(q2)}
  <2>1. S \in SUBSET (1..n)
    OBVIOUS
  <2>2. /\ 1 \in S <=> (1 <= n /\ IdsOf(q1) # IdsOf(queue))
        /\ 2 \in S <=> (2 <= n /\ IdsOf(q2) # IdsOf(q1))
        /\ 3 \in S <=> (3 <= n /\ IdsOf(q3) # IdsOf(q2))
    BY <1>2
  <2> HIDE DEF S
  <2>3. \A t \in Seq(Nat) : \A i \in Nat : t \o <<>> = t /\ t \o <<i>> = Append(t, i)
    OBVIOUS
  <2>4. /\ raised + 1 \in Nat /\ raised + 2 \in Nat /\ raised + 3 \in Nat
        /\ IdsOf(q1) \in Seq(Nat) /\ IdsOf(q2) \in Seq(Nat)
    BY <1>2, <1>4, <1>5, IdsProperties
  <2>5. IdsOf(q1) = IdsOf(queue) \o Fifo!Kept(1, S)
    BY <1>3, <1>4, <2>2, <2>3, <2>4, Zenon DEF Fifo!Kept
  <2>6. IdsOf(q2) = IdsOf(q1) \o Fifo!Kept(2, S)
    BY <1>5, <2>2, <2>3, <2>4, Zenon DEF Fifo!Kept
  <2>7. IdsOf(q3) = IdsOf(q2) \o Fifo!Kept(3, S)
    BY <1>6, <2>2, <2>3, <2>4, Zenon DEF Fifo!Kept
  <2> QED BY <1>1, <2>1, <2>5, <2>6, <2>7, Zenon DEF Appended, n
<1>8. ~locked /\ queue.count + n <= QUEUE_SIZE => q3.count = queue.count + n
  <2>1. CASE n = 1
    BY <1>3, <1>4, <1>5, <1>6, <2>1
  <2>2. CASE n = 2
    BY <1>3, <1>4, <1>5, <1>6, <2>2
  <2>3. CASE n = 3
    BY <1>3, <1>4, <1>5, <1>6, <2>3
  <2> QED BY <1>2, <2>1, <2>2, <2>3
<1> QED BY <1>1, <1>6, <1>7, <1>8 DEF n

\* The event the loop takes out of the queue.
LEMMA PopStep ==
  ASSUME TypeOK, Pop
  PROVE  /\ queue' \in Queues
         /\ event' \in Event \cup {None} /\ (event' # None <=> pc' = "handle")
         /\ event' = None => queue' = queue
         /\ event' # None => IdsOf(queue) = <<event'.id>> \o IdsOf(queue')
<1>1. queue \in Queues /\ queue.count \in Nat
  <2>1. queue \in Queues
    BY DEF TypeOK, Queues
  <2> QED BY <2>1, IdsProperties
<1>2. queue' = Ring!popped(queue) /\ event' = Ring!first(queue)
      /\ pc' = IF Ring!first(queue) = None THEN "frame" ELSE "handle"
  BY DEF Pop
<1> QED BY <1>1, <1>2, PopProperties, NoneIsNoEvent

LEMMA InitTypes == Init => TypeOK
<1> SUFFICES ASSUME Init PROVE TypeOK
  OBVIOUS
<1>1. queue \in Ring!RingOver(Event)
  BY NewIsQueue DEF Init, Queues
<1>2. frame_counter \in 0..(FramesPerTick - 1) /\ raised \in 0..MaxEvents
  BY GuiInputAssumption DEF Init
<1>3. need_new_terminal \in BOOLEAN /\ locked = (pc = "pop")
  BY DEF Init
<1> QED BY <1>1, <1>2, <1>3 DEF Init, TypeOK

LEMMA TypesKept == TypeOK /\ [Next]_vars => TypeOK'
<1> SUFFICES ASSUME TypeOK, [Next]_vars PROVE TypeOK'
  OBVIOUS
<1>0. QUEUE_SIZE \in Nat /\ FramesPerTick \in Nat \ {0} /\ MaxEvents \in Nat
  BY GuiInputAssumption
<1>1. CASE UNCHANGED vars
  BY <1>1 DEF TypeOK, vars
<1>2. ASSUME NEW kinds \in Bursts, InputInterrupt(kinds) PROVE TypeOK'
  <2>1. queue' \in Ring!RingOver(Event)
    BY <1>2, InterruptProperties DEF Queues
  <2>2. Len(kinds) \in 1..3 /\ raised + Len(kinds) <= MaxEvents
    BY <1>2, BurstProperties DEF InputInterrupt
  <2>3. raised' \in 0..MaxEvents
    BY <1>0, <1>2, <2>2 DEF InputInterrupt, TypeOK
  <2>4. locked' = (pc' = "pop") /\ pc' \in {"try_lock", "pop", "handle", "frame", "hlt"}
        /\ (event' # None <=> pc' = "handle")
    BY <1>2 DEF InputInterrupt, Woken, TypeOK
  <2>5. /\ need_new_terminal' \in BOOLEAN
        /\ frame_counter' \in 0..(FramesPerTick - 1)
        /\ event' \in Event \cup {None}
    BY <1>2, Zenon DEF InputInterrupt, TypeOK
  <2> QED BY <2>1, <2>3, <2>4, <2>5, Zenon DEF TypeOK
<1>3. CASE TimerInterrupt
  BY <1>3 DEF TimerInterrupt, Woken, TypeOK
<1>4. CASE TryLock
  BY <1>4 DEF TryLock, TypeOK
<1>5. CASE Pop
  <2>1. queue' \in Ring!RingOver(Event) /\ event' \in Event \cup {None}
        /\ (event' # None <=> pc' = "handle")
    BY <1>5, PopStep DEF Queues
  <2> QED BY <1>5, <2>1 DEF Pop, TypeOK
<1>6. CASE Handle
  BY <1>6 DEF Handle, TypeOK
<1>7. CASE EndOfRound
  <2>1. frame_counter' \in 0..(FramesPerTick - 1)
    <3>1. frame_counter \in 0..(FramesPerTick - 1)
      BY DEF TypeOK
    <3>2. frame_counter' = IF frame_counter + 1 >= FramesPerTick THEN 0 ELSE frame_counter + 1
      BY <1>7 DEF EndOfRound
    <3> QED BY <1>0, <3>1, <3>2
  <2> QED BY <1>7, <2>1 DEF EndOfRound, TypeOK
<1> QED BY <1>1, <1>2, <1>3, <1>4, <1>5, <1>6, <1>7 DEF Next, LoopStep

\* The ring stays a ring: its two positions are count slots apart, and exactly
\* the slots between them hold events, for every size and however it wraps.
THEOREM TypeCorrect == Spec => []TypeOK
BY InitTypes, TypesKept, PTL DEF Spec

(***************************************************************************)
(* Loss and order.                                                         *)
(***************************************************************************)

\* An event is lost to a full queue or to the loop being inside pop, and to
\* nothing else.
THEOREM LossHasTwoReasons == Spec => LostOnlyWhenFullOrLocked
<1> DEFINE Lost == raised' # raised =>
                     \/ locked
                     \/ queue.count + (raised' - raised) > QUEUE_SIZE
                     \/ queue'.count = queue.count + (raised' - raised)
<1>1. ASSUME TypeOK, Next PROVE Lost
  <2>1. ASSUME NEW kinds \in Bursts, InputInterrupt(kinds) PROVE Lost
    <3>1. raised' = raised + Len(kinds) /\ raised \in Nat /\ Len(kinds) \in 1..3
      BY <1>1, <2>1, BurstProperties DEF InputInterrupt, TypeOK
    <3>2. raised' - raised = Len(kinds)
      BY <3>1
    <3>3. queue.count \in Nat /\ QUEUE_SIZE \in Nat
      <4>1. queue \in Queues
        BY <1>1 DEF TypeOK, Queues
      <4> QED BY <4>1, IdsProperties, GuiInputAssumption
    <3>4. ~locked /\ queue.count + Len(kinds) <= QUEUE_SIZE =>
            queue'.count = queue.count + Len(kinds)
      BY <1>1, <2>1, InterruptProperties
    <3> QED BY <3>1, <3>2, <3>3, <3>4
  <2>2. CASE TimerInterrupt \/ LoopStep
    BY <2>2 DEF TimerInterrupt, LoopStep, TryLock, Pop, Handle, EndOfRound
  <2> QED BY <1>1, <2>1, <2>2 DEF Next
<1>2. TypeOK /\ [Next]_vars => [Lost]_vars
  BY <1>1
<1> QED BY TypeCorrect, <1>2, PTL DEF Spec, LostOnlyWhenFullOrLocked

LEMMA AcceptedIs ==
  accepted = IF event = None THEN IdsOf(queue) ELSE <<event.id>> \o IdsOf(queue)
BY DEF accepted, IdsOf

LEMMA InitFifo == Init => Fifo!LInit
<1> SUFFICES ASSUME Init PROVE Fifo!LInit
  OBVIOUS
<1>1. IdsOf(queue) \in Seq(Nat) /\ Len(IdsOf(queue)) = 0
  BY NewIsQueue, IdsProperties DEF Init
<1>2. accepted = <<>>
  BY <1>1, AcceptedIs, EmptySeq DEF Init
<1> QED BY <1>2 DEF Init, Fifo!LInit

LEMMA FifoStep ==
  ASSUME TypeOK, Next
  PROVE  Fifo!LNext \/ UNCHANGED <<raised, accepted, delivered>>
<1>1. IdsOf(queue) \in Seq(Nat) /\ (event # None => event.id \in Nat)
  <2>1. queue \in Queues
    BY DEF TypeOK, Queues
  <2>2. event # None => event \in Event
    BY DEF TypeOK
  <2> QED BY <2>1, <2>2, IdsProperties DEF Event
<1>2. ASSUME NEW kinds \in Bursts, InputInterrupt(kinds) PROVE Fifo!LNext
  <2>1. Len(kinds) \in 1..3 /\ raised \in Nat
        /\ raised' = raised + Len(kinds) /\ event' = event /\ delivered' = delivered
    BY <1>2, BurstProperties DEF InputInterrupt, TypeOK
  <2>2. PICK S \in SUBSET (1..Len(kinds)) :
          IdsOf(queue') = ((IdsOf(queue) \o Fifo!Kept(1, S)) \o Fifo!Kept(2, S)) \o Fifo!Kept(3, S)
    BY <1>2, InterruptProperties DEF Appended
  <2> DEFINE kx == Fifo!Kept(1, S)
             ky == Fifo!Kept(2, S)
             kz == Fifo!Kept(3, S)
             ids == IdsOf(queue)
  <2>3. kx \in Seq(Nat) /\ ky \in Seq(Nat) /\ kz \in Seq(Nat) /\ ids \in Seq(Nat)
    BY <1>1, <2>1 DEF Fifo!Kept
  <2>4. IdsOf(queue') = ((ids \o kx) \o ky) \o kz
    BY <2>2
  <2> HIDE DEF kx, ky, kz, ids
  <2>5. accepted' = ((accepted \o kx) \o ky) \o kz
    <3>1. accepted' = IF event' = None THEN IdsOf(queue') ELSE <<event'.id>> \o IdsOf(queue')
      BY DEF accepted, IdsOf
    <3>2. CASE event = None
      BY <2>1, <2>4, <3>1, <3>2, AcceptedIs DEF ids
    <3>3. CASE event # None
      <4> DEFINE h == <<event.id>>
      <4>1. h \in Seq(Nat)
        BY <1>1, <3>3
      <4>2. accepted' = h \o (((ids \o kx) \o ky) \o kz) /\ accepted = h \o ids
        BY <2>1, <2>4, <3>1, <3>3, AcceptedIs DEF ids
      <4> HIDE DEF h
      <4>3. h \o (((ids \o kx) \o ky) \o kz) = (((h \o ids) \o kx) \o ky) \o kz
        <5>1. Cat(h, Cat(Cat(Cat(ids, kx), ky), kz)) = Cat(Cat(Cat(Cat(h, ids), kx), ky), kz)
          BY <2>3, <4>1, InFront
        <5> QED BY <5>1, Zenon DEF Cat
      <4> QED BY <4>2, <4>3, Zenon
    <3> QED BY <3>2, <3>3
  <2>6. S \in SUBSET (1..Len(kinds))
    OBVIOUS
  <2> QED BY <2>1, <2>5, <2>6 DEF Fifo!LNext, Fifo!Arrive, kx, ky, kz
<1>3. CASE Pop
  <2>1. event = None /\ raised' = raised /\ delivered' = delivered
    BY <1>3 DEF Pop, TypeOK
  <2>2. accepted' = IF event' = None THEN IdsOf(queue') ELSE <<event'.id>> \o IdsOf(queue')
    BY DEF accepted, IdsOf
  <2>3. accepted' = accepted
    BY <1>3, <2>1, <2>2, PopStep, AcceptedIs
  <2> QED BY <2>1, <2>3
<1>4. CASE Handle
  <2>1. /\ event # None /\ event' = None /\ queue' = queue /\ raised' = raised
        /\ delivered' = Append(delivered, event.id)
    BY <1>4 DEF Handle, TypeOK
  <2>2. accepted = <<event.id>> \o IdsOf(queue)
    BY <2>1, AcceptedIs
  <2>3. accepted' = IdsOf(queue)
    <3>1. accepted' = IF event' = None THEN IdsOf(queue') ELSE <<event'.id>> \o IdsOf(queue')
      BY DEF accepted, IdsOf
    <3> QED BY <2>1, <3>1
  <2> DEFINE a == <<event.id>> \o IdsOf(queue)
             ids == IdsOf(queue)
  <2>4. a # <<>> /\ Head(a) = event.id /\ Tail(a) = ids
    <3> DEFINE h == <<event.id>>
    <3>1. /\ ids \in Seq(Nat) /\ Len(ids) \in Nat
          /\ h \in Seq(Nat) /\ Len(h) = 1 /\ h[1] = event.id
      BY <1>1, <2>1, LenProperties
    <3> HIDE DEF h, ids, a
    <3>2. a = h \o ids
      BY DEF h, ids, a
    <3>3. /\ a \in Seq(Nat) /\ Len(a) = Len(ids) + 1
          /\ \A i \in 1..(Len(ids) + 1) : a[i] = IF i <= 1 THEN h[i] ELSE ids[i - 1]
      <4>1. /\ a \in Seq(Nat) /\ Len(a) = Len(h) + Len(ids)
            /\ \A i \in 1..(Len(h) + Len(ids)) :
                 a[i] = IF i <= Len(h) THEN h[i] ELSE ids[i - Len(h)]
        BY <3>1, <3>2, ConcatProperties
      <4>2. Len(h) + Len(ids) = Len(ids) + 1
        BY <3>1
      <4> QED BY <3>1, <4>1, <4>2
    <3>4. a # <<>> /\ a[1] = event.id
      BY <3>1, <3>3
    <3>5. /\ Head(a) = a[1] /\ Tail(a) \in Seq(Nat) /\ Len(Tail(a)) = Len(ids)
          /\ \A i \in 1..Len(Tail(a)) : Tail(a)[i] = a[i + 1]
      BY <3>1, <3>3, <3>4, HeadTailProperties
    <3>6. \A i \in 1..Len(Tail(a)) : Tail(a)[i] = ids[i]
      BY <3>1, <3>3, <3>5
    <3>7. Tail(a) = ids
      BY <3>1, <3>5, <3>6, SeqEqual
    <3> QED BY <3>4, <3>5, <3>7
  <2> QED BY <2>1, <2>2, <2>3, <2>4 DEF Fifo!LNext, Fifo!Deliver
<1>5. CASE TimerInterrupt \/ TryLock \/ EndOfRound
  <2>1. UNCHANGED <<queue, event, raised, delivered>>
    BY <1>5 DEF TimerInterrupt, TryLock, EndOfRound
  <2>2. accepted' = accepted
    BY <2>1 DEF accepted
  <2> QED BY <2>1, <2>2
<1> QED BY <1>2, <1>3, <1>4, <1>5 DEF Next, LoopStep

\* Accepted events are handled once and in the order in which they were raised,
\* for every size of the queue and every interleaving of handlers and loop.
THEOREM GuiInputRefinesFifo == Spec => ImplementsLossyFifo
<1>1. UNCHANGED vars => UNCHANGED <<raised, accepted, delivered>>
  BY DEF vars, accepted
<1>2. TypeOK /\ [Next]_vars => [Fifo!LNext]_<<raised, accepted, delivered>>
  BY <1>1, FifoStep
<1> QED BY <1>2, InitFifo, TypeCorrect, PTL DEF Spec, ImplementsLossyFifo, Fifo!Spec

(***************************************************************************)
(* MouseDecoder: the invariant.                                            *)
(***************************************************************************)
AnyReport == [dx: -256..255, dy: -256..255, buttons: 0..3, overflow: BOOLEAN]

Start == [cycle: 0..2, x: 0..(Width - 1), y: 0..(Height - 1)]

First(r) == Encoded(r)[1]
Second(r) == Encoded(r)[2]
Third(r) == Encoded(r)[3]

\* The buttons 1 and 2 that are down in a first byte or in prev_buttons.
Down(b) == {mask \in {1, 2} : IsSet(b, mask)}

Types == MouseTypeOK /\ report \in AnyReport /\ start \in Start

\* The line holds what handle_byte was not given yet of the report.
Rest ==
  /\ handled = 0 => (line = <<>> /\ init = "defaults") \/ line = Encoded(report)
  /\ handled = 1 => line = <<Second(report), Third(report)>>
  /\ handled = 2 => line = <<Third(report)>>
  /\ handled = 3 => line = <<>>

\* A report that began in step is in the buffer as far as it was read.
InStep ==
  handled \in 1..3 /\ start.cycle = 0 =>
    /\ handled < 3 => /\ cycle = handled
                      /\ bytes[1] = First(report)
                      /\ x = start.x /\ y = start.y
    /\ handled = 2 => bytes[2] = Second(report)
    /\ handled = 3 =>
         /\ cycle = 0
         /\ IF report.overflow
            THEN x = start.x /\ y = start.y
            ELSE /\ x = Clamp(start.x + report.dx, Width)
                 /\ y = Clamp(start.y - report.dy, Height)
                 /\ prev_buttons = report.buttons

Quiet(r) == ~IsSet(Second(r), 8) /\ ~IsSet(Third(r), 8)

\* Where a quiet report may find the decoder, byte by byte.
Resynchronises ==
  Quiet(report) => /\ handled = 2 => cycle # 1
                   /\ handled = 3 => cycle = 0

MouseInv == Types /\ Rest /\ InStep /\ Resynchronises /\ EventsMatchButtons

----------------------------------------------------------------------------
(***************************************************************************)
(* What the three bytes of a report say, by arithmetic on a byte.          *)
(***************************************************************************)

\* The first byte: the marker, the buttons, the signs and the overflow.
LEMMA FirstByte ==
  ASSUME NEW r \in AnyReport
  PROVE  /\ First(r) \in Byte
         /\ IsSet(First(r), 8)
         /\ IsSet(First(r), 16) <=> r.dx < 0
         /\ IsSet(First(r), 32) <=> r.dy < 0
         /\ IsSet(First(r), 64) <=> r.overflow
         /\ ~IsSet(First(r), 128)
         /\ First(r) % 8 = r.buttons
<1> DEFINE s == IF r.dx < 0 THEN 1 ELSE 0
           t == IF r.dy < 0 THEN 1 ELSE 0
           o == IF r.overflow THEN 1 ELSE 0
           b == r.buttons
<1>1. b \in 0..3 /\ s \in 0..1 /\ t \in 0..1 /\ o \in 0..1
  BY DEF AnyReport
<1>2. First(r) = 8 + b + 16 * s + 32 * t + 64 * o
  BY DEF AnyReport, First, Encoded
<1>3. (s = 1 <=> r.dx < 0) /\ (t = 1 <=> r.dy < 0) /\ (o = 1 <=> r.overflow)
  BY DEF AnyReport
<1> HIDE DEF s, t, o, b
<1>4. /\ First(r) \in Byte
      /\ IsSet(First(r), 8) /\ ~IsSet(First(r), 128)
      /\ IsSet(First(r), 16) <=> s = 1
      /\ IsSet(First(r), 32) <=> t = 1
      /\ IsSet(First(r), 64) <=> o = 1
      /\ First(r) % 8 = b
  BY <1>1, <1>2 DEF Byte, IsSet
<1> QED BY <1>3, <1>4 DEF b

\* The other two are the low eight bits, which signed extends again.
LEMMA MotionBytes ==
  ASSUME NEW r \in AnyReport
  PROVE  /\ Second(r) \in Byte /\ Third(r) \in Byte
         /\ signed(Second(r), r.dx < 0) = r.dx
         /\ signed(Third(r), r.dy < 0) = r.dy
         /\ Encoded(r) = <<First(r), Second(r), Third(r)>>
<1>1. /\ Second(r) = r.dx % 256 /\ Third(r) = r.dy % 256
      /\ Encoded(r) = <<First(r), Second(r), Third(r)>>
  BY DEF First, Second, Third, Encoded
<1>2. \A d \in -256..255 : d % 256 \in Byte /\ signed(d % 256, d < 0) = d
  BY DEF Byte, signed
<1>3. r.dx \in -256..255 /\ r.dy \in -256..255
  BY DEF AnyReport
<1>4. r.dx % 256 \in Byte /\ signed(r.dx % 256, r.dx < 0) = r.dx
  BY <1>2, <1>3, Zenon
<1>5. r.dy % 256 \in Byte /\ signed(r.dy % 256, r.dy < 0) = r.dy
  BY <1>2, <1>3, Zenon
<1> QED BY <1>1, <1>4, <1>5, Zenon

\* The pointer stays on a screen of any size.
LEMMA ClampOnScreen ==
  ASSUME NEW v \in Int, NEW size \in Nat \ {0}
  PROVE  Clamp(v, size) \in 0..(size - 1)
BY DEF Clamp

LEMMA SignedIsInt ==
  ASSUME NEW b \in Byte, NEW negative \in BOOLEAN
  PROVE  signed(b, negative) \in Int
BY DEF Byte, signed

\* The two events of a packet turn the buttons that were down into those that are.
LEMMA EventsFollow ==
  ASSUME NEW b, NEW p
  PROVE  emit_button_event(b, p, 2, emit_button_event(b, p, 1, Down(p))) = Down(b)
<1> DEFINE one == emit_button_event(b, p, 1, Down(p))
           two == emit_button_event(b, p, 2, one)
<1>1. one \subseteq {1, 2} /\ (1 \in one <=> IsSet(b, 1)) /\ (2 \in one <=> IsSet(p, 2))
  BY DEF emit_button_event, Down
<1> HIDE DEF one
<1>2. two \subseteq {1, 2} /\ (1 \in two <=> IsSet(b, 1)) /\ (2 \in two <=> IsSet(b, 2))
  BY <1>1 DEF emit_button_event
<1> HIDE DEF two
<1>3. two = Down(b)
  BY <1>2 DEF Down
<1> QED BY <1>3 DEF one, two

----------------------------------------------------------------------------
(***************************************************************************)
(* Each action keeps the invariant.                                        *)
(***************************************************************************)

\* It holds before the mouse is touched.
LEMMA InitInv == MouseInit => MouseInv
<1> SUFFICES ASSUME MouseInit PROVE MouseInv
  OBVIOUS
<1> USE MouseAssumption
<1>1. Width \div 2 \in 0..(Width - 1) /\ Height \div 2 \in 0..(Height - 1)
  OBVIOUS
<1>2. Types
  BY <1>1 DEF MouseInit, Types, MouseTypeOK, Start, AnyReport, NoReport, Byte
<1>3. Rest /\ InStep /\ Resynchronises
  BY DEF MouseInit, Rest, InStep, Resynchronises
<1>4. EventsMatchButtons
  BY DEF MouseInit, EventsMatchButtons, IsSet
<1> QED BY <1>2, <1>3, <1>4 DEF MouseInv

\* A complete packet keeps the pointer on the screen and tells the buttons.
LEMMA PacketInv ==
  ASSUME Types, EventsMatchButtons, NEW flags \in Byte, NEW b1 \in Byte, NEW b2 \in Byte,
         Packet(flags, b1, b2)
  PROVE  /\ x' \in 0..(Width - 1) /\ y' \in 0..(Height - 1)
         /\ prev_buttons' \in 0..7
         /\ EventsMatchButtons'
<1> USE MouseAssumption
<1>1. CASE IsSet(flags, 64) \/ IsSet(flags, 128)
  BY <1>1 DEF Packet, Types, MouseTypeOK, EventsMatchButtons
<1>2. CASE ~(IsSet(flags, 64) \/ IsSet(flags, 128))
  <2> DEFINE dx == signed(b1, IsSet(flags, 16))
             dy == signed(b2, IsSet(flags, 32))
  <2>1. /\ x' = Clamp(x + dx, Width) /\ y' = Clamp(y - dy, Height)
        /\ prev_buttons' = flags % 8
        /\ told' = emit_button_event(flags % 8, prev_buttons, 2,
                     emit_button_event(flags % 8, prev_buttons, 1, told))
    BY <1>2 DEF Packet
  <2>2. IsSet(flags, 16) \in BOOLEAN /\ IsSet(flags, 32) \in BOOLEAN
    BY DEF IsSet
  <2>3. x + dx \in Int /\ y - dy \in Int
    <3>1. dx \in Int /\ dy \in Int
      BY <2>2, SignedIsInt
    <3> HIDE DEF dx, dy
    <3> QED BY <3>1 DEF Types, MouseTypeOK
  <2>4. x' \in 0..(Width - 1) /\ y' \in 0..(Height - 1)
    <3> HIDE DEF dx, dy
    <3> QED BY <2>1, <2>3, ClampOnScreen
  <2>5. prev_buttons' \in 0..7
    BY <2>1 DEF Byte
  <2>6. told = Down(prev_buttons)
    BY DEF EventsMatchButtons, Down
  <2>7. told' = Down(prev_buttons')
    BY <2>1, <2>6, EventsFollow
  <2> QED BY <2>4, <2>5, <2>7 DEF EventsMatchButtons, Down
<1> QED BY <1>1, <1>2

\* Whatever byte is read, the types and the buttons told are right.
LEMMA HandleByteInv ==
  ASSUME Types, EventsMatchButtons, NEW byte \in Byte, handle_byte(byte)
  PROVE  /\ cycle' \in 0..2 /\ bytes' \in [1..3 -> Byte]
         /\ x' \in 0..(Width - 1) /\ y' \in 0..(Height - 1)
         /\ prev_buttons' \in 0..7
         /\ EventsMatchButtons'
<1>1. cycle \in 0..2 /\ bytes \in [1..3 -> Byte]
  BY DEF Types, MouseTypeOK
<1>2. CASE cycle = 0 /\ ~IsSet(byte, 8)
  BY <1>2 DEF handle_byte, Types, MouseTypeOK, EventsMatchButtons
<1>3. CASE ~(cycle = 0 /\ ~IsSet(byte, 8))
  <2>1. /\ bytes' = [bytes EXCEPT ![cycle + 1] = byte] /\ cycle' = (cycle + 1) % 3
        /\ IF cycle = 2 THEN Packet(bytes[1], bytes[2], byte)
           ELSE UNCHANGED <<x, y, prev_buttons, told>>
    BY <1>3 DEF handle_byte
  <2>2. cycle' \in 0..2 /\ bytes' \in [1..3 -> Byte]
    BY <2>1, <1>1
  <2>3. CASE cycle = 2
    <3>1. bytes[1] \in Byte /\ bytes[2] \in Byte
      BY <1>1
    <3> QED BY <2>1, <2>2, <2>3, <3>1, PacketInv
  <2>4. CASE cycle # 2
    BY <2>1, <2>2, <2>4 DEF Types, MouseTypeOK, EventsMatchButtons
  <2> QED BY <2>3, <2>4
<1> QED BY <1>2, <1>3

\* Of one, two or three bytes, the first and what is left.
LEMMA HeadAndTail ==
  ASSUME NEW a, NEW b, NEW c
  PROVE  /\ Head(<<a, b, c>>) = a /\ Tail(<<a, b, c>>) = <<b, c>>
         /\ Head(<<b, c>>) = b /\ Tail(<<b, c>>) = <<c>>
         /\ Head(<<c>>) = c /\ Tail(<<c>>) = <<>>
OBVIOUS

\* The next byte of a report, by the number of those read before it.
LEMMA NextByte ==
  ASSUME Types, Rest, line # <<>>
  PROVE  /\ handled # 3
         /\ handled = 0 => /\ Head(line) = First(report)
                           /\ Tail(line) = <<Second(report), Third(report)>>
         /\ handled = 1 => Head(line) = Second(report) /\ Tail(line) = <<Third(report)>>
         /\ handled = 2 => Head(line) = Third(report) /\ Tail(line) = <<>>
<1>1. Encoded(report) = <<First(report), Second(report), Third(report)>>
  BY MotionBytes DEF Types
<1>2. handled = 0 => line = <<First(report), Second(report), Third(report)>>
  BY <1>1 DEF Rest
<1>3. handled = 0 => /\ Head(line) = First(report)
                     /\ Tail(line) = <<Second(report), Third(report)>>
  <2> SUFFICES ASSUME handled = 0
      PROVE  Head(line) = First(report) /\ Tail(line) = <<Second(report), Third(report)>>
    OBVIOUS
  <2>1. line = <<First(report), Second(report), Third(report)>>
    BY <1>2
  <2> QED BY <2>1, HeadAndTail
<1>4. handled = 1 => Head(line) = Second(report) /\ Tail(line) = <<Third(report)>>
  BY HeadAndTail DEF Rest
<1>5. handled = 2 => Head(line) = Third(report) /\ Tail(line) = <<>>
  BY HeadAndTail DEF Rest
<1>6. handled # 3
  BY DEF Rest
<1> QED BY <1>3, <1>4, <1>5, <1>6

\* A packet of the three bytes of a report does what the report says.
LEMMA PacketOfReport ==
  ASSUME NEW r \in AnyReport, Packet(First(r), Second(r), Third(r))
  PROVE  IF r.overflow THEN x' = x /\ y' = y
         ELSE /\ x' = Clamp(x + r.dx, Width) /\ y' = Clamp(y - r.dy, Height)
              /\ prev_buttons' = r.buttons
<1>1. r.overflow \in BOOLEAN
  BY DEF AnyReport
<1>2. CASE r.overflow
  BY <1>2, FirstByte DEF Packet
<1>3. CASE ~r.overflow
  <2>1. ~(IsSet(First(r), 64) \/ IsSet(First(r), 128))
    BY <1>3, FirstByte
  <2>2. /\ x' = Clamp(x + signed(Second(r), IsSet(First(r), 16)), Width)
        /\ y' = Clamp(y - signed(Third(r), IsSet(First(r), 32)), Height)
        /\ prev_buttons' = First(r) % 8
    BY <2>1 DEF Packet
  <2>3. /\ signed(Second(r), IsSet(First(r), 16)) = r.dx
        /\ signed(Third(r), IsSet(First(r), 32)) = r.dy
    BY FirstByte, MotionBytes DEF signed
  <2> QED BY <1>3, <2>2, <2>3, FirstByte
<1> QED BY <1>1, <1>2, <1>3

\* The interrupt handler takes one more byte.
LEMMA InterruptInv == MouseInv /\ MouseInterrupt => MouseInv'
<1> SUFFICES ASSUME MouseInv, MouseInterrupt PROVE MouseInv'
  OBVIOUS
<1> DEFINE b == Head(line)
<1>1. /\ Types /\ Rest /\ InStep /\ Resynchronises /\ EventsMatchButtons
      /\ line # <<>> /\ line' = Tail(line) /\ handle_byte(b) /\ handled' = handled + 1
      /\ start' = IF handled = 0 THEN [cycle |-> cycle, x |-> x, y |-> y] ELSE start
      /\ init' = init /\ report' = report
  BY DEF MouseInv, MouseInterrupt
<1>2. /\ report \in AnyReport /\ start \in Start /\ line \in Seq(Byte) /\ handled \in Nat
      /\ cycle \in 0..2 /\ bytes \in [1..3 -> Byte]
      /\ x \in 0..(Width - 1) /\ y \in 0..(Height - 1)
  BY <1>1 DEF Types, MouseTypeOK
<1>3. b \in Byte /\ Tail(line) \in Seq(Byte)
  BY <1>1, <1>2
<1>4. /\ handled # 3
      /\ handled = 0 => b = First(report) /\ Tail(line) = <<Second(report), Third(report)>>
      /\ handled = 1 => b = Second(report) /\ Tail(line) = <<Third(report)>>
      /\ handled = 2 => b = Third(report) /\ Tail(line) = <<>>
  BY <1>1, NextByte
<1> HIDE DEF b
<1>5. /\ cycle' \in 0..2 /\ bytes' \in [1..3 -> Byte]
      /\ x' \in 0..(Width - 1) /\ y' \in 0..(Height - 1)
      /\ prev_buttons' \in 0..7
      /\ EventsMatchButtons'
  BY <1>1, <1>3, HandleByteInv
<1>6. start' \in Start
  BY <1>1, <1>2 DEF Start
<1>7. Types'
  BY <1>1, <1>2, <1>3, <1>5, <1>6 DEF Types, MouseTypeOK
<1>8. Rest'
  BY <1>1, <1>2, <1>4 DEF Rest, Second, Third
<1>9. IsSet(First(report), 8)
  BY <1>2, FirstByte
<1>10. /\ cycle = 0 /\ ~IsSet(b, 8) => UNCHANGED <<cycle, bytes, x, y>>
       /\ ~(cycle = 0 /\ ~IsSet(b, 8)) =>
            /\ bytes' = [bytes EXCEPT ![cycle + 1] = b] /\ cycle' = (cycle + 1) % 3
            /\ cycle = 2 => Packet(bytes[1], bytes[2], b)
            /\ cycle # 2 => UNCHANGED <<x, y>>
  BY <1>1 DEF handle_byte
<1>11. InStep'
  <2> SUFFICES ASSUME handled \in 0..2, start'.cycle = 0
      PROVE /\ handled < 2 => /\ cycle' = handled + 1
                              /\ bytes'[1] = First(report)
                              /\ x' = start'.x /\ y' = start'.y
            /\ handled = 1 => bytes'[2] = Second(report)
            /\ handled = 2 =>
                 /\ cycle' = 0
                 /\ IF report.overflow
                    THEN x' = start'.x /\ y' = start'.y
                    ELSE /\ x' = Clamp(start'.x + report.dx, Width)
                         /\ y' = Clamp(start'.y - report.dy, Height)
                         /\ prev_buttons' = report.buttons
    BY <1>1, <1>2 DEF InStep, First, Second
  <2>1. CASE handled = 0
    <3>1. cycle = 0 /\ b = First(report)
      BY <2>1, <1>1, <1>4
    <3>2. cycle' = 1 /\ bytes'[1] = b /\ x' = x /\ y' = y
      BY <3>1, <1>2, <1>9, <1>10
    <3> QED BY <2>1, <3>1, <3>2, <1>1
  <2>2. CASE handled = 1
    <3>1. cycle = 1 /\ bytes[1] = First(report) /\ x = start.x /\ y = start.y /\ start' = start
      BY <2>2, <1>1, <1>2 DEF InStep
    <3>2. /\ cycle' = 2 /\ bytes'[1] = bytes[1] /\ bytes'[2] = b /\ x' = x /\ y' = y
      BY <3>1, <1>2, <1>10
    <3> QED BY <2>2, <3>1, <3>2, <1>4
  <2>3. CASE handled = 2
    <3>1. /\ cycle = 2 /\ bytes[1] = First(report) /\ bytes[2] = Second(report)
          /\ x = start.x /\ y = start.y /\ start' = start
      BY <2>3, <1>1, <1>2 DEF InStep
    <3>2. cycle' = 0 /\ Packet(First(report), Second(report), Third(report))
      BY <2>3, <3>1, <1>4, <1>10
    <3> QED BY <2>3, <3>1, <3>2, <1>2, PacketOfReport
  <2> QED BY <2>1, <2>2, <2>3
<1>12. Resynchronises'
  <2> SUFFICES ASSUME Quiet(report)
      PROVE (handled = 1 => cycle' # 1) /\ (handled = 2 => cycle' = 0)
    BY <1>1, <1>2 DEF Resynchronises, Quiet, Second, Third
  <2>1. CASE handled = 1
    <3>1. ~IsSet(b, 8)
      BY <2>1, <1>4 DEF Quiet
    <3> QED BY <2>1, <3>1, <1>2, <1>10
  <2>2. CASE handled = 2
    <3>1. ~IsSet(b, 8) /\ cycle # 1
      BY <2>2, <1>1, <1>4 DEF Quiet, Resynchronises
    <3> QED BY <2>2, <3>1, <1>2, <1>10
  <2> QED BY <2>1, <2>2
<1> QED BY <1>5, <1>7, <1>8, <1>11, <1>12 DEF MouseInv

\* The commands of init put bytes on the line that are of no report.
LEMMA CommandInv == MouseInv /\ command => MouseInv'
<1> SUFFICES ASSUME MouseInv, command PROVE MouseInv'
  OBVIOUS
<1>1. Types'
  BY DEF MouseInv, Types, MouseTypeOK, command, Byte, Ack
<1>2. handled' = 4 /\ UNCHANGED <<cycle, bytes, x, y, prev_buttons, report, start, told>>
  BY DEF command
<1>3. Rest' /\ InStep' /\ Resynchronises' /\ EventsMatchButtons'
  BY <1>2 DEF MouseInv, Rest, InStep, Resynchronises, EventsMatchButtons
<1> QED BY <1>1, <1>3 DEF MouseInv

\* init takes a byte, which is then missing in any report it belongs to.
LEMMA ReadByteInv == MouseInv /\ ReadByte => MouseInv'
<1> SUFFICES ASSUME MouseInv, ReadByte PROVE MouseInv'
  OBVIOUS
<1>1. Types'
  BY DEF MouseInv, Types, MouseTypeOK, ReadByte, AfterAck
<1>2. handled' = 4 /\ UNCHANGED <<cycle, bytes, x, y, prev_buttons, report, start, told>>
  BY DEF ReadByte
<1>3. Rest' /\ InStep' /\ Resynchronises' /\ EventsMatchButtons'
  BY <1>2 DEF MouseInv, Rest, InStep, Resynchronises, EventsMatchButtons
<1> QED BY <1>1, <1>3 DEF MouseInv

\* init gives up waiting and goes on.
LEMMA TimeOutInv == MouseInv /\ TimeOut => MouseInv'
<1> SUFFICES ASSUME MouseInv, TimeOut PROVE MouseInv'
  OBVIOUS
<1>1. /\ init \in {"defaults_ack", "enable_ack"} /\ init' \in {"enable", "done"}
      /\ UNCHANGED <<cycle, bytes, x, y, prev_buttons, line, report, start, handled, told>>
  BY DEF TimeOut, AfterAck
<1>2. Types'
  BY <1>1 DEF MouseInv, Types, MouseTypeOK
<1>3. Rest'
  BY <1>1 DEF MouseInv, Rest, Second, Third, Encoded
<1>4. InStep' /\ Resynchronises' /\ EventsMatchButtons'
  BY <1>1 DEF MouseInv, InStep, Resynchronises, EventsMatchButtons, Quiet, First, Second, Third
<1> QED BY <1>2, <1>3, <1>4 DEF MouseInv

\* A new report is on the line, and nothing of it was read.
LEMMA SendInv == ASSUME NEW r \in Report PROVE MouseInv /\ SendReport(r) => MouseInv'
<1> SUFFICES ASSUME MouseInv, SendReport(r) PROVE MouseInv'
  OBVIOUS
<1>1. r \in AnyReport
  <2>1. /\ r = [dx |-> r.dx, dy |-> r.dy, buttons |-> r.buttons, overflow |-> r.overflow]
        /\ r.dx \in Motions /\ r.dy \in Motions /\ r.buttons \in Buttons
        /\ r.overflow \in BOOLEAN
    BY DEF Report
  <2>2. r.dx \in -256..255 /\ r.dy \in -256..255 /\ r.buttons \in 0..3
    BY <2>1, MouseAssumption
  <2> QED BY <2>1, <2>2 DEF AnyReport
<1>2. Encoded(r) \in Seq(Byte)
  <2> HIDE DEF Byte
  <2>1. First(r) \in Byte /\ Second(r) \in Byte /\ Third(r) \in Byte
    BY <1>1, FirstByte, MotionBytes
  <2>2. <<First(r), Second(r), Third(r)>> \in Seq(Byte)
    BY <2>1
  <2> QED BY <1>1, <2>2, MotionBytes
<1>3. /\ line' = Encoded(r) /\ report' = r /\ handled' = 0
      /\ UNCHANGED <<init, cycle, bytes, x, y, prev_buttons, start, told>>
  BY DEF SendReport
<1>4. Types'
  BY <1>1, <1>2, <1>3 DEF MouseInv, Types, MouseTypeOK
<1>5. Rest'
  BY <1>3 DEF Rest, Encoded
<1>6. InStep' /\ Resynchronises' /\ EventsMatchButtons'
  BY <1>3 DEF MouseInv, InStep, Resynchronises, EventsMatchButtons
<1> QED BY <1>4, <1>5, <1>6 DEF MouseInv

\* A stuttering step changes nothing.
LEMMA StutterInv == MouseInv /\ UNCHANGED mvars => MouseInv'
BY DEF MouseInv, Types, MouseTypeOK, Rest, InStep, Resynchronises, EventsMatchButtons, mvars,
       Quiet, First, Second, Third, Encoded

----------------------------------------------------------------------------
(***************************************************************************)
(* The theorems.                                                           *)
(***************************************************************************)

\* The inductive invariant holds in every reachable state, for every screen and
\* whatever the mouse reports (mouse.rs: init, handle_byte).
THEOREM MouseCorrect == MouseSpec => []MouseInv
<1>1. MouseInit => MouseInv
  BY InitInv
<1>2. MouseInv /\ [MouseNext]_mvars => MouseInv'
  <2> SUFFICES ASSUME MouseInv, [MouseNext]_mvars PROVE MouseInv'
    OBVIOUS
  <2>1. CASE MouseInterrupt
    BY <2>1, InterruptInv
  <2>2. CASE command
    BY <2>2, CommandInv
  <2>3. CASE ReadByte
    BY <2>3, ReadByteInv
  <2>4. CASE TimeOut
    BY <2>4, TimeOutInv
  <2>5. CASE \E r \in Report : SendReport(r)
    BY <2>5, SendInv
  <2>6. CASE UNCHANGED mvars
    BY <2>6, StutterInv
  <2> QED BY <2>1, <2>2, <2>3, <2>4, <2>5, <2>6 DEF MouseNext
<1> QED BY <1>1, <1>2, PTL DEF MouseSpec

\* The position stays on the screen whatever bytes are read as a packet.
THEOREM MouseTypeCorrect == MouseSpec => []MouseTypeOK
<1>1. MouseInv => MouseTypeOK
  BY DEF MouseInv, Types
<1> QED BY <1>1, MouseCorrect, PTL

\* A report that begins in step is decoded as it was meant, and the next is in
\* step too: handle_byte inverts the encoding of the mouse.
THEOREM DecodesExactly == MouseSpec => []InStepIsExact
<1>1. MouseInv => InStepIsExact
  <2> SUFFICES ASSUME MouseInv, Decoded, start.cycle = 0
      PROVE /\ cycle = 0
            /\ IF report.overflow
               THEN x = start.x /\ y = start.y
               ELSE /\ x = Clamp(start.x + report.dx, Width)
                    /\ y = Clamp(start.y - report.dy, Height)
                    /\ told = {mask \in {1, 2} : IsSet(report.buttons, mask)}
    BY DEF InStepIsExact
  <2>1. /\ cycle = 0
        /\ IF report.overflow
           THEN x = start.x /\ y = start.y
           ELSE /\ x = Clamp(start.x + report.dx, Width)
                /\ y = Clamp(start.y - report.dy, Height)
                /\ prev_buttons = report.buttons
    BY DEF MouseInv, InStep, Decoded
  <2>2. told = {mask \in {1, 2} : IsSet(prev_buttons, mask)}
    BY DEF MouseInv, EventsMatchButtons
  <2> QED BY <2>1, <2>2
<1> QED BY <1>1, MouseCorrect, PTL

\* One report without bit 3 in its motion bytes puts the decoder back in step,
\* wherever it was, for instance after init lost it a byte.
THEOREM FindsItsStepAgain == MouseSpec => []QuietReportResynchronises
<1>1. MouseInv => QuietReportResynchronises
  BY DEF MouseInv, Resynchronises, QuietReportResynchronises, Decoded, Quiet, Second, Third
<1> QED BY <1>1, MouseCorrect, PTL

\* No button is released that was not pressed, or pressed twice.
THEOREM ButtonsAlternate == MouseSpec => []EventsMatchButtons
<1>1. MouseInv => EventsMatchButtons
  BY DEF MouseInv
<1> QED BY <1>1, MouseCorrect, PTL

==============================================================================

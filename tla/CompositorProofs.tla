-------------------------- MODULE CompositorProofs --------------------------
(***************************************************************************)
(* What Compositor promises for every set of points of the pointer and any *)
(* number of windows: the stack of layers, the reachability of windows and *)
(* the two facts on moving and closing.                                    *)
(***************************************************************************)
EXTENDS Compositor, FiniteSetTheorems, SequenceTheorems, TLAPS

(***************************************************************************)
(* The stack of layers                                                     *)
(***************************************************************************)
Stack(s) ==
  /\ s \in Seq(Nat)
  /\ Len(s) >= 1 /\ s[1] = Desktop
  /\ \A i, j \in 1..Len(s) : s[i] = s[j] => i = j

OpenIn(s) == {s[i] : i \in 2..Len(s)}

\* The desktop is no window, and every other layer is one.
LEMMA OpenInStack ==
  ASSUME NEW s, Stack(s)
  PROVE  /\ OpenIn(s) \in SUBSET Nat /\ Desktop \notin OpenIn(s)
         /\ DOMAIN s = 1..Len(s) /\ Len(s) \in Nat
         /\ \A i \in 1..Len(s) : s[i] \in Nat /\ (s[i] \in OpenIn(s) <=> i # 1)
<1>1. Len(s) \in Nat /\ DOMAIN s = 1..Len(s) /\ \A i \in 1..Len(s) : s[i] \in Nat
  BY LenProperties, ElementOfSeq DEF Stack
<1>2. ASSUME NEW i \in 1..Len(s)
      PROVE  s[i] \in OpenIn(s) <=> i # 1
  <2>1. i # 1 => i \in 2..Len(s)
    BY <1>1
  <2>2. \A j \in 2..Len(s) : j \in 1..Len(s) /\ j # 1
    BY <1>1
  <2> QED BY <1>1, <2>1, <2>2 DEF OpenIn, Stack
<1>3. OpenIn(s) \in SUBSET Nat
  <2>1. \A j \in 2..Len(s) : j \in 1..Len(s)
    BY <1>1
  <2> QED BY <1>1, <2>1 DEF OpenIn
<1>4. Desktop \notin OpenIn(s)
  BY <1>1, <1>2 DEF Stack
<1> QED BY <1>1, <1>2, <1>3, <1>4

\* A new id on top is one more window.
LEMMA AppendStack ==
  ASSUME NEW s, Stack(s), NEW id \in Nat, id # Desktop, id \notin OpenIn(s)
  PROVE  Stack(Append(s, id)) /\ OpenIn(Append(s, id)) = OpenIn(s) \cup {id}
<1> DEFINE t == Append(s, id)
<1>1. s \in Seq(Nat) /\ Len(s) \in Nat /\ Len(s) >= 1
  BY OpenInStack DEF Stack
<1>2. /\ t \in Seq(Nat) /\ Len(t) = Len(s) + 1
      /\ \A i \in 1..Len(s) : t[i] = s[i]
      /\ t[Len(s) + 1] = id
  BY <1>1, AppendProperties
<1> HIDE DEF t
<1>3. \A i \in 1..Len(s) : s[i] # id
  BY OpenInStack, <1>1 DEF Stack
<1>4. \A i \in 1..Len(t) : i \in 1..Len(s) \/ i = Len(s) + 1
  BY <1>1, <1>2
<1>5. ASSUME NEW i \in 1..Len(t), NEW j \in 1..Len(t), t[i] = t[j]
      PROVE  i = j
  BY <1>2, <1>3, <1>4, <1>5 DEF Stack
<1>6. t[1] = Desktop /\ Len(t) >= 1
  <2>1. 1 \in 1..Len(s)
    BY <1>1
  <2> QED BY <1>1, <1>2, <2>1 DEF Stack
<1>7. OpenIn(t) = OpenIn(s) \cup {id}
  <2>1. \A i \in 2..Len(t) : i \in 2..Len(s) \/ i = Len(s) + 1
    BY <1>1, <1>2
  <2>2. \A i \in 2..Len(s) : i \in 1..Len(s) /\ i \in 2..Len(t)
    BY <1>1, <1>2
  <2>3. Len(s) + 1 \in 2..Len(t)
    BY <1>1, <1>2
  <2> QED BY <1>2, <2>1, <2>2, <2>3 DEF OpenIn
<1>8. Stack(t)
  BY <1>2, <1>5, <1>6 DEF Stack
<1> QED BY <1>7, <1>8 DEF t

\* Without one window the stack is a stack of the others.
LEMMA OthersStack ==
  ASSUME Stack(layers), NEW id \in OpenIn(layers)
  PROVE  Stack(Others(id)) /\ OpenIn(Others(id)) = OpenIn(layers) \ {id}
<1> DEFINE n == Len(layers)
           pos == CHOOSE i \in DOMAIN layers : layers[i] = id
           from(i) == IF i < pos THEN i ELSE i + 1
           t == Others(id)
<1>1. /\ layers \in Seq(Nat) /\ n \in Nat /\ DOMAIN layers = 1..n /\ layers[1] = Desktop
      /\ \A i, j \in 1..n : layers[i] = layers[j] => i = j
      /\ \A i \in 1..n : layers[i] \in Nat
  BY OpenInStack DEF Stack
<1>2. pos \in 2..n /\ layers[pos] = id
  <2>1. PICK i \in 2..n : layers[i] = id
    BY DEF OpenIn
  <2>2. i \in DOMAIN layers
    BY <1>1
  <2>3. pos \in DOMAIN layers /\ layers[pos] = id
    BY <2>1, <2>2
  <2> HIDE DEF pos
  <2> QED BY <1>1, <2>1, <2>2, <2>3
<1>3. t = [i \in 1..(n - 1) |-> layers[from(i)]]
  BY DEF Others
<1> HIDE DEF n, pos, t
<1>4. \A i \in 1..(n - 1) : from(i) \in 1..n /\ from(i) # pos /\ (from(i) = 1 <=> i = 1)
  BY <1>1, <1>2
<1>5. t \in Seq(Nat) /\ Len(t) = n - 1 /\ \A i \in 1..(n - 1) : t[i] = layers[from(i)]
  <2>1. \A i \in 1..(n - 1) : layers[from(i)] \in Nat
    BY <1>1, <1>4
  <2>2. n - 1 \in Nat
    BY <1>1, <1>2
  <2> HIDE DEF from
  <2> QED BY <1>3, <2>1, <2>2, IsASeq
<1>6. ASSUME NEW i \in 1..(n - 1), NEW j \in 1..(n - 1), t[i] = t[j]
      PROVE  i = j
  <2>1. from(i) \in 1..n /\ from(j) \in 1..n
    BY <1>4
  <2>2. layers[from(i)] = layers[from(j)]
    BY <1>5, <1>6
  <2>3. from(i) = from(j)
    <3> HIDE DEF from
    <3> QED BY <1>1, <2>1, <2>2
  <2> QED BY <1>2, <2>3
<1>7. Len(t) >= 1 /\ t[1] = Desktop
  BY <1>1, <1>2, <1>4, <1>5
<1>8. Stack(t)
  BY <1>5, <1>6, <1>7 DEF Stack
<1>9. ASSUME NEW x \in OpenIn(t)
      PROVE  x \in OpenIn(layers) \ {id}
  <2>1. PICK k \in 2..(n - 1) : x = t[k]
    BY <1>5 DEF OpenIn
  <2>2. from(k) \in 2..n /\ from(k) # pos /\ x = layers[from(k)]
    BY <1>1, <1>2, <1>4, <1>5, <2>1
  <2> HIDE DEF from
  <2>3. x # id
    BY <1>1, <1>2, <2>2
  <2> QED BY <2>2, <2>3 DEF OpenIn, n
<1>10. ASSUME NEW x \in OpenIn(layers) \ {id}
       PROVE  x \in OpenIn(t)
  <2>1. PICK i \in 2..n : x = layers[i]
    BY DEF OpenIn, n
  <2>2. i # pos
    BY <1>2, <2>1
  <2>3. \E k \in 2..(n - 1) : from(k) = i
    <3>1. CASE i < pos
      <4>1. i \in 2..(n - 1) /\ from(i) = i
        BY <1>1, <1>2, <3>1
      <4> QED BY <4>1
    <3>2. CASE i > pos
      <4>1. i - 1 \in 2..(n - 1) /\ from(i - 1) = i
        BY <1>1, <1>2, <3>2
      <4> QED BY <4>1
    <3> QED BY <1>1, <1>2, <2>2, <3>1, <3>2
  <2>4. PICK k \in 2..(n - 1) : from(k) = i
    BY <2>3
  <2> HIDE DEF from
  <2>5. k \in 1..(n - 1) /\ k \in 2..Len(t)
    BY <1>1, <1>5
  <2>6. x = t[k]
    BY <1>5, <2>1, <2>4, <2>5
  <2> QED BY <2>5, <2>6 DEF OpenIn
<1>11. OpenIn(t) = OpenIn(layers) \ {id}
  BY <1>9, <1>10
<1> QED BY <1>8, <1>11 DEF t

\* Raising a window changes the order only.
LEMMA RaisedStack ==
  ASSUME Stack(layers), NEW id \in OpenIn(layers)
  PROVE  Stack(Raised(id)) /\ OpenIn(Raised(id)) = OpenIn(layers)
<1>1. /\ Stack(Others(id)) /\ OpenIn(Others(id)) = OpenIn(layers) \ {id}
      /\ id \in Nat /\ id # Desktop
  BY OthersStack, OpenInStack
<1>2. Stack(Append(Others(id), id)) /\ OpenIn(Append(Others(id), id)) = OpenIn(Others(id)) \cup {id}
  BY <1>1, AppendStack
<1> QED BY <1>1, <1>2 DEF Raised

(***************************************************************************)
(* Geometry                                                                *)
(***************************************************************************)
Corner == [x : Int, y : Int]

\* A point of the title bar outside the close button, as offsets from the
\* window's corner.
Grip(dx, dy) ==
  /\ dx \in 0..279 /\ dy \in 0..11
  /\ ~(dx >= 269 /\ dx < 279 /\ dy >= 1 /\ dy < 11)

Reachable(corner) ==
  \E x \in 0..319, y \in 0..199 : Grip(x - corner.x, y - corner.y)

\* GrabsTitle in offsets.
LEMMA GrabsTitleIsGrip ==
  ASSUME NEW w, place[w] \in Corner, NEW p, p.x \in Int, p.y \in Int
  PROVE  GrabsTitle(w, p) <=> Grip(p.x - place[w].x, p.y - place[w].y)
<1>1. place[w].x \in Int /\ place[w].y \in Int
  BY DEF Corner
<1> QED BY <1>1 DEF GrabsTitle, Contains, TitleBar, CloseButton, Rect, Window, title_height, Grip

\* When any point of the title bar on the screen is a grip, one of the corners
\* of what is on the screen of it is: the close button, which is convex, does
\* not contain all four without that point.
LEMMA SomeCornerIsGrip ==
  ASSUME NEW w, place[w] \in Corner, Reachable(place[w]),
         NEW t, t = TitleBar(w)
  PROVE  \E x \in {Greater(t.x, 0), Smaller(t.x + t.w, SCREEN_WIDTH) - 1},
            y \in {Greater(t.y, 0), Smaller(t.y + t.h, SCREEN_HEIGHT) - 1} :
           /\ Contains(Bounds(Desktop), [x |-> x, y |-> y])
           /\ GrabsTitle(w, [x |-> x, y |-> y])
<1> DEFINE a == place[w].x  b == place[w].y
           x1 == Greater(a, 0)  x2 == Smaller(a + 280, 320) - 1
           y1 == Greater(b, 0)  y2 == Smaller(b + 12, 200) - 1
<1>1. a \in Int /\ b \in Int
  BY DEF Corner
<1>2. t.x = a /\ t.y = b /\ t.w = 280 /\ t.h = 12
  BY DEF TitleBar, Rect, Window, title_height
<1>3. PICK px \in 0..319, py \in 0..199 : Grip(px - a, py - b)
  BY DEF Reachable
<1> HIDE DEF a, b
<1>4. /\ x1 \in Int /\ x2 \in Int /\ y1 \in Int /\ y2 \in Int
      /\ x1 <= px /\ px <= x2 /\ y1 <= py /\ py <= y2
      /\ 0 <= x1 /\ x2 <= 319 /\ 0 <= y1 /\ y2 <= 199
      /\ a <= x1 /\ x2 <= a + 279 /\ b <= y1 /\ y2 <= b + 11
  BY <1>1, <1>3 DEF Greater, Smaller, Grip
<1> HIDE DEF x1, x2, y1, y2
<1>5. \E x \in {x1, x2}, y \in {y1, y2} : Grip(x - a, y - b)
  BY <1>1, <1>3, <1>4 DEF Grip
<1>6. PICK x \in {x1, x2}, y \in {y1, y2} : Grip(x - a, y - b)
  BY <1>5
<1>7. x \in 0..319 /\ y \in 0..199
  BY <1>4, <1>6
<1>8. Contains(Bounds(Desktop), [x |-> x, y |-> y])
  BY <1>7 DEF Contains, Bounds, Rect, SCREEN_WIDTH, SCREEN_HEIGHT
<1>9. GrabsTitle(w, [x |-> x, y |-> y])
  <2> DEFINE p == [x |-> x, y |-> y]
  <2>1. p.x = x /\ p.y = y /\ p.x \in Int /\ p.y \in Int
    BY <1>7
  <2>2. Grip(p.x - place[w].x, p.y - place[w].y)
    BY <1>6, <2>1 DEF a, b
  <2> HIDE DEF p
  <2>3. GrabsTitle(w, p)
    BY <2>1, <2>2, GrabsTitleIsGrip, Zenon
  <2> QED BY <2>3 DEF p
<1>10. /\ x \in {Greater(t.x, 0), Smaller(t.x + t.w, SCREEN_WIDTH) - 1}
       /\ y \in {Greater(t.y, 0), Smaller(t.y + t.h, SCREEN_HEIGHT) - 1}
  BY <1>2, <1>6 DEF x1, x2, y1, y2, SCREEN_WIDTH, SCREEN_HEIGHT
<1> QED BY <1>8, <1>9, <1>10

(***************************************************************************)
(* The inductive invariant                                                 *)
(***************************************************************************)
Dragging == \E id \in OpenIn(layers), dx, dy \in Int :
              Grip(dx, dy) /\ drag_state = [id |-> id, dx |-> dx, dy |-> dy]

StackInv ==
  /\ Stack(layers)
  /\ place \in [OpenIn(layers) -> Corner]
  /\ \A w \in OpenIn(layers) : Reachable(place[w]) /\ w < next_id
  /\ focused_id \in OpenIn(layers) \cup {Desktop}
  /\ next_id \in Nat /\ next_id > Desktop

UserInv ==
  /\ drag_state = None \/ (Dragging /\ (left \/ stuck))
  /\ need_new_terminal \in BOOLEAN /\ left \in BOOLEAN /\ stuck \in BOOLEAN
  /\ pointer \in Points

CompositorInv == StackInv /\ UserInv

LEMMA OpenIsOpenIn == Open = OpenIn(layers)
BY DEF Open, OpenIn

\* A window appears with its upper left corner on the screen.
LEMMA SpawnPlaceReachable ==
  ASSUME NEW id \in Nat
  PROVE  SpawnPlace(id) \in Corner /\ Reachable(SpawnPlace(id))
<1> DEFINE offset == ((id - FirstId) * 15) % 60
<1>1. offset \in 0..59
  BY DEF FirstId
<1> HIDE DEF offset
<1>2. SpawnPlace(id) = [x |-> 20 + offset, y |-> 10 + offset]
  BY DEF SpawnPlace, offset
<1>3. 20 + offset \in 0..319 /\ 10 + offset \in 0..199
  BY <1>1
<1>4. Grip((20 + offset) - SpawnPlace(id).x, (10 + offset) - SpawnPlace(id).y)
  BY <1>1, <1>2 DEF Grip
<1>5. Reachable(SpawnPlace(id))
  BY <1>3, <1>4, Zenon DEF Reachable
<1>6. SpawnPlace(id) \in Corner
  BY <1>1, <1>2 DEF Corner
<1> QED BY <1>5, <1>6

LEMMA InitInv == Init => CompositorInv
<1> SUFFICES ASSUME Init PROVE CompositorInv
  OBVIOUS
<1> USE DEF FirstId, Desktop
<1>1. layers = <<0, 10>> /\ Len(layers) = 2 /\ layers[1] = 0 /\ layers[2] = 10
  BY DEF Init
<1>2. Stack(layers) /\ OpenIn(layers) = {10}
  <2>1. layers \in Seq(Nat)
    BY <1>1
  <2>2. 1..Len(layers) = {1, 2} /\ 2..Len(layers) = {2}
    BY <1>1
  <2> QED BY <1>1, <2>1, <2>2 DEF Stack, OpenIn
<1>3. SpawnPlace(10) \in Corner /\ Reachable(SpawnPlace(10))
  BY SpawnPlaceReachable
<1>4. place = [w \in {10} |-> SpawnPlace(w)] /\ place[10] = SpawnPlace(10)
  BY DEF Init
<1>5. StackInv
  BY <1>2, <1>3, <1>4 DEF StackInv, Init
<1> QED BY <1>5 DEF CompositorInv, UserInv, Init

\* A non-empty set of positions has a greatest one.
LEMMA GreatestExists ==
  ASSUME NEW n \in Nat, NEW S \in SUBSET (1..n), S # {}
  PROVE  \E i \in S : \A j \in S : j <= i
<1> DEFINE T == {n - i : i \in S}
           LessThan == {p \in Nat \X Nat : p[1] < p[2]}
<1>1. T \in SUBSET Nat /\ T # {}
  <2>1. \A i \in S : n - i \in Nat
    OBVIOUS
  <2>2. T \in SUBSET Nat
    BY <2>1
  <2>3. T # {}
    OBVIOUS
  <2> QED BY <2>2, <2>3
<1>2. IsWellFoundedOn(LessThan, Nat)
  BY NatLessThanWellFounded, Zenon DEF OpToRel
<1> HIDE DEF T, LessThan
<1>3. PICK x \in T : \A y \in T : ~ (<<y, x>> \in LessThan)
  BY <1>1, <1>2, WFMin, Zenon
<1>4. ASSUME NEW y \in T
      PROVE  x <= y
  <2>1. \A i, j \in Nat : i < j => <<i, j>> \in LessThan
    BY DEF LessThan
  <2>2. x \in Nat /\ y \in Nat /\ ~ (y < x)
    BY <1>1, <1>3, <2>1
  <2> QED BY <2>2
<1>5. PICK i \in S : x = n - i
  BY DEF T
<1>6. \A j \in S : n - i <= n - j
  BY <1>4, <1>5 DEF T
<1> QED BY <1>5, <1>6

\* A press hits a layer, and none of those above it.
LEMMA HitTestProperties ==
  ASSUME StackInv, NEW p \in Points
  PROVE  /\ \E i \in 1..Len(layers) :
              /\ hit_test(p) = layers[i]
              /\ \A j \in (i + 1)..Len(layers) : ~Contains(Bounds(layers[j]), p)
         /\ hit_test(p) # Desktop => hit_test(p) \in OpenIn(layers)
<1>1. /\ Stack(layers) /\ DOMAIN layers = 1..Len(layers) /\ Len(layers) \in Nat
      /\ \A i \in 1..Len(layers) : layers[i] \in OpenIn(layers) <=> i # 1
  BY OpenInStack DEF StackInv
<1>2. Hits(p) \in SUBSET (1..Len(layers))
  BY <1>1 DEF Hits
<1>3. 1 \in Hits(p)
  <2>1. 1 \in 1..Len(layers) /\ layers[1] = Desktop
    BY <1>1 DEF Stack
  <2>2. Contains(Bounds(Desktop), p)
    BY PointAssumption DEF Contains, Bounds, Rect, SCREEN_WIDTH, SCREEN_HEIGHT
  <2> QED BY <1>1, <2>1, <2>2 DEF Hits
<1>4. \E i \in Hits(p) : \A j \in Hits(p) : j <= i
  BY <1>1, <1>2, <1>3, GreatestExists
<1>5. PICK i \in Hits(p) : hit_test(p) = layers[i] /\ \A j \in Hits(p) : j <= i
  BY <1>4 DEF hit_test
<1>6. ASSUME NEW j \in (i + 1)..Len(layers)
      PROVE  ~Contains(Bounds(layers[j]), p)
  <2>1. i \in Nat /\ i >= 1
    BY <1>2
  <2>2. j \in 1..Len(layers) /\ ~(j <= i)
    BY <1>1, <2>1
  <2> QED BY <1>1, <1>5, <2>2 DEF Hits
<1>7. hit_test(p) # Desktop => hit_test(p) \in OpenIn(layers)
  BY <1>1, <1>2, <1>5 DEF Stack
<1> QED BY <1>2, <1>5, <1>6, <1>7

(***************************************************************************)
(* The steps                                                               *)
(***************************************************************************)
DragInv == drag_state = None \/ Dragging

\* A window is closed.
LEMMA RemoveStep ==
  ASSUME CompositorInv, NEW id \in OpenIn(layers), remove_widget(id), UNCHANGED next_id
  PROVE  StackInv' /\ DragInv' /\ DOMAIN place' = OpenIn(layers) \ {id}
<1>1. Stack(layers') /\ OpenIn(layers') = OpenIn(layers) \ {id}
  BY OthersStack DEF CompositorInv, StackInv, remove_widget
<1>2. /\ place \in [OpenIn(layers) -> Corner]
      /\ place' = [w \in DOMAIN place \ {id} |-> place[w]]
  BY DEF CompositorInv, StackInv, remove_widget, But
<1>3. /\ place' \in [OpenIn(layers') -> Corner]
      /\ \A w \in OpenIn(layers') : place'[w] = place[w] /\ w \in OpenIn(layers)
  BY <1>1, <1>2
<1>4. \A w \in OpenIn(layers') : Reachable(place'[w]) /\ w < next_id'
  BY <1>3 DEF CompositorInv, StackInv
<1>5. StackInv'
  <2>1. focused_id' = Desktop /\ next_id' \in Nat /\ next_id' > Desktop
    BY DEF CompositorInv, StackInv, remove_widget
  <2> QED BY <1>1, <1>3, <1>4, <2>1 DEF StackInv
<1>6. DragInv'
  <2>1. CASE drag_state = None \/ drag_state.id = id
    BY <2>1 DEF remove_widget, DragInv
  <2>2. CASE drag_state # None /\ drag_state.id # id
    <3>1. PICK w \in OpenIn(layers), dx \in Int, dy \in Int :
            Grip(dx, dy) /\ drag_state = [id |-> w, dx |-> dx, dy |-> dy]
      BY <2>2 DEF CompositorInv, UserInv, Dragging
    <3>2. w # id /\ drag_state' = drag_state
      BY <2>2, <3>1 DEF remove_widget
    <3>3. w \in OpenIn(layers')
      BY <1>1, <3>2
    <3> QED BY <3>1, <3>2, <3>3 DEF DragInv, Dragging
  <2> QED BY <2>1, <2>2
<1> QED BY <1>1, <1>3, <1>5, <1>6

\* A window is raised, and taken hold of when its title bar is hit.
LEMMA RaiseStep ==
  ASSUME CompositorInv, NEW id \in OpenIn(layers),
         layers' = Raised(id), focused_id' = id,
         drag_state' = IF GrabsTitle(id, pointer) THEN Grabbed(id, pointer) ELSE drag_state,
         UNCHANGED <<place, next_id>>
  PROVE  StackInv' /\ DragInv'
<1>1. Stack(layers') /\ OpenIn(layers') = OpenIn(layers)
  BY RaisedStack DEF CompositorInv, StackInv
<1>2. StackInv'
  BY <1>1 DEF CompositorInv, StackInv
<1>3. CASE ~GrabsTitle(id, pointer)
  <2>1. drag_state' = drag_state
    BY <1>3
  <2>2. DragInv
    BY DEF CompositorInv, UserInv, DragInv
  <2> QED BY <1>1, <1>2, <2>1, <2>2 DEF DragInv, Dragging
<1>4. CASE GrabsTitle(id, pointer)
  <2> DEFINE dx == pointer.x - place[id].x
             dy == pointer.y - place[id].y
  <2>1. place[id] \in Corner /\ place[id].x \in Int /\ place[id].y \in Int
    BY DEF CompositorInv, StackInv, Corner
  <2>2. pointer.x \in Int /\ pointer.y \in Int
    BY PointAssumption DEF CompositorInv, UserInv, SCREEN_WIDTH, SCREEN_HEIGHT
  <2>3. Grip(dx, dy) /\ dx \in Int /\ dy \in Int
    BY <1>4, <2>1, <2>2, GrabsTitleIsGrip
  <2>4. drag_state' = [id |-> id, dx |-> dx, dy |-> dy]
    BY <1>4 DEF Grabbed
  <2> HIDE DEF dx, dy
  <2> QED BY <1>1, <1>2, <2>3, <2>4 DEF DragInv, Dragging
<1> QED BY <1>3, <1>4

\* A press of the left button that is delivered.
LEMMA DownStep ==
  ASSUME CompositorInv, DownOnDesktop(pointer) \/ DownOnWindow(pointer)
  PROVE  StackInv' /\ DragInv' /\ need_new_terminal' \in BOOLEAN
<1>1. CASE DownOnDesktop(pointer)
  <2>1. UNCHANGED <<layers, place, focused_id, drag_state, next_id>>
    BY <1>1 DEF DownOnDesktop
  <2>2. need_new_terminal' \in BOOLEAN
    BY <1>1 DEF DownOnDesktop, CompositorInv, UserInv
  <2>3. DragInv
    BY DEF CompositorInv, UserInv, DragInv
  <2> QED BY <2>1, <2>2, <2>3 DEF CompositorInv, StackInv, DragInv, Dragging
<1>2. CASE DownOnWindow(pointer)
  <2> DEFINE id == hit_test(pointer)
  <2>1. id \in OpenIn(layers)
    BY <1>2, HitTestProperties DEF DownOnWindow, CompositorInv, UserInv
  <2>2. need_new_terminal' \in BOOLEAN /\ UNCHANGED next_id
    BY <1>2 DEF DownOnWindow, loop, CompositorInv, UserInv
  <2>3. CASE remove_widget(id)
    BY <2>1, <2>2, <2>3, RemoveStep
  <2>4. CASE /\ layers' = Raised(id) /\ focused_id' = id
             /\ drag_state' = IF GrabsTitle(id, pointer) THEN Grabbed(id, pointer) ELSE drag_state
             /\ UNCHANGED place
    BY <2>1, <2>2, <2>4, RaiseStep
  <2> QED BY <1>2, <2>3, <2>4 DEF DownOnWindow
<1> QED BY <1>1, <1>2

\* Nothing but the pointer, the button and the end of a drag.
LEMMA UserStep ==
  ASSUME CompositorInv, UNCHANGED <<layers, place, focused_id, next_id, need_new_terminal>>,
         drag_state' = drag_state \/ drag_state' = None
  PROVE  StackInv' /\ DragInv' /\ need_new_terminal' \in BOOLEAN
<1>1. DragInv
  BY DEF CompositorInv, UserInv, DragInv
<1> QED BY <1>1 DEF CompositorInv, StackInv, UserInv, DragInv, Dragging

\* A move takes the dragged window along: the pointer stays where it took hold.
LEMMA MoveStep ==
  ASSUME CompositorInv, NEW p \in Points, MouseMove(p)
  PROVE  StackInv' /\ DragInv' /\ need_new_terminal' \in BOOLEAN
<1>1. UNCHANGED <<layers, focused_id, drag_state, next_id, need_new_terminal>>
  BY DEF MouseMove, loop
<1>2. CASE drag_state = None
  BY <1>1, <1>2, UserStep DEF MouseMove
<1>3. CASE drag_state # None
  <2>1. PICK id \in OpenIn(layers), dx \in Int, dy \in Int :
          Grip(dx, dy) /\ drag_state = [id |-> id, dx |-> dx, dy |-> dy]
    BY <1>3 DEF CompositorInv, UserInv, Dragging
  <2> DEFINE corner == [x |-> p.x - dx, y |-> p.y - dy]
  <2>2. place' = [place EXCEPT ![id] = corner]
    BY <1>3, <2>1 DEF MouseMove
  <2>3. p.x \in 0..319 /\ p.y \in 0..199
    BY PointAssumption DEF SCREEN_WIDTH, SCREEN_HEIGHT
  <2>4. corner \in Corner
    BY <2>3 DEF Corner
  <2>5. Reachable(corner)
    <3>1. p.x - corner.x = dx /\ p.y - corner.y = dy
      BY <2>3
    <3>2. Grip(p.x - corner.x, p.y - corner.y)
      BY <2>1, <3>1
    <3> QED BY <2>3, <3>2, Zenon DEF Reachable
  <2> HIDE DEF corner
  <2>6. /\ place \in [OpenIn(layers) -> Corner]
        /\ \A w \in OpenIn(layers) : Reachable(place[w])
    BY DEF CompositorInv, StackInv
  <2>7. /\ place' \in [OpenIn(layers) -> Corner]
        /\ \A w \in OpenIn(layers) : place'[w] = IF w = id THEN corner ELSE place[w]
    BY <2>2, <2>4, <2>6
  <2>8. \A w \in OpenIn(layers) : Reachable(place'[w])
    BY <2>5, <2>6, <2>7
  <2>9. StackInv'
    BY <1>1, <2>7, <2>8 DEF CompositorInv, StackInv
  <2>10. DragInv' /\ need_new_terminal' \in BOOLEAN
    BY <1>1, <2>1 DEF CompositorInv, UserInv, DragInv, Dragging
  <2> QED BY <2>9, <2>10
<1> QED BY <1>2, <1>3

\* A new window.
LEMMA SpawnStep ==
  ASSUME CompositorInv, spawn_terminal_window
  PROVE  /\ StackInv' /\ DragInv' /\ need_new_terminal' \in BOOLEAN
         /\ UNCHANGED user
         /\ \A w \in OpenIn(layers) : w \in OpenIn(layers') /\ place'[w] = place[w]
<1>1. /\ Stack(layers) /\ next_id \in Nat /\ next_id # Desktop
      /\ \A w \in OpenIn(layers) : w \in Nat /\ w < next_id
      /\ place \in [OpenIn(layers) -> Corner]
  BY OpenInStack DEF CompositorInv, StackInv, Desktop
<1>2. next_id \notin OpenIn(layers)
  BY <1>1
<1>3. Stack(layers') /\ OpenIn(layers') = OpenIn(layers) \cup {next_id}
  BY <1>1, <1>2, AppendStack DEF spawn_terminal_window
<1>4. SpawnPlace(next_id) \in Corner /\ Reachable(SpawnPlace(next_id))
  BY <1>1, SpawnPlaceReachable
<1>5. place' = [w \in OpenIn(layers) \cup {next_id} |->
                  IF w = next_id THEN SpawnPlace(next_id) ELSE place[w]]
  BY <1>1 DEF spawn_terminal_window, With
<1>6. /\ place' \in [OpenIn(layers') -> Corner]
      /\ \A w \in OpenIn(layers') :
           place'[w] = IF w = next_id THEN SpawnPlace(next_id) ELSE place[w]
  BY <1>1, <1>3, <1>4, <1>5
<1>7. next_id' = next_id + 2 /\ UNCHANGED <<focused_id, drag_state, user>>
  BY DEF spawn_terminal_window
<1>8. \A w \in OpenIn(layers') : Reachable(place'[w]) /\ w < next_id'
  BY <1>1, <1>3, <1>4, <1>6, <1>7 DEF CompositorInv, StackInv
<1>9. StackInv'
  BY <1>1, <1>3, <1>6, <1>7, <1>8 DEF CompositorInv, StackInv, Desktop
<1>10. DragInv'
  <2>1. DragInv
    BY DEF CompositorInv, UserInv, DragInv
  <2> QED BY <1>3, <1>7, <2>1 DEF DragInv, Dragging
<1>11. need_new_terminal' \in BOOLEAN
  BY DEF spawn_terminal_window
<1> QED BY <1>2, <1>3, <1>6, <1>7, <1>9, <1>10, <1>11

\* Every step keeps the invariant, and no window moves unless it is dragged.
LEMMA NextInv ==
  ASSUME CompositorInv, Next
  PROVE  CompositorInv'
<1> SUFFICES /\ StackInv' /\ DragInv' /\ need_new_terminal' \in BOOLEAN
             /\ drag_state' = None \/ left' \/ stuck'
             /\ left' \in BOOLEAN /\ stuck' \in BOOLEAN /\ pointer' \in Points
  BY DEF CompositorInv, UserInv, DragInv
<1>0. /\ drag_state = None \/ left \/ stuck
      /\ left \in BOOLEAN /\ stuck \in BOOLEAN /\ pointer \in Points
  BY DEF CompositorInv, UserInv
<1>1. ASSUME NEW delivered \in BOOLEAN, Press(delivered)
      PROVE  /\ StackInv' /\ DragInv' /\ need_new_terminal' \in BOOLEAN
             /\ left' /\ left' \in BOOLEAN /\ UNCHANGED <<pointer, stuck>>
  <2>1. left' = TRUE /\ UNCHANGED <<pointer, stuck>>
    BY <1>1 DEF Press
  <2>2. CASE DownOnDesktop(pointer) \/ DownOnWindow(pointer)
    BY <2>1, <2>2, DownStep
  <2>3. CASE UNCHANGED <<layers, place, focused_id, drag_state, loop>>
    BY <2>1, <2>3, UserStep DEF loop
  <2> QED BY <1>1, <2>2, <2>3 DEF Press
<1>2. ASSUME NEW delivered \in BOOLEAN, Release(delivered)
      PROVE  /\ StackInv' /\ DragInv' /\ need_new_terminal' \in BOOLEAN
             /\ drag_state' = None \/ stuck'
             /\ left' \in BOOLEAN /\ stuck' \in BOOLEAN /\ UNCHANGED pointer
  <2>1. left' = FALSE /\ stuck' = ~delivered /\ UNCHANGED pointer
    BY <1>2 DEF Release
  <2>2. /\ UNCHANGED <<layers, place, focused_id, next_id, need_new_terminal>>
        /\ drag_state' = drag_state \/ drag_state' = None
        /\ delivered => drag_state' = None
    BY <1>2 DEF Release, MouseUp, loop
  <2>3. StackInv' /\ DragInv' /\ need_new_terminal' \in BOOLEAN
    BY <2>2, UserStep
  <2> QED BY <2>1, <2>2, <2>3
<1>3. ASSUME NEW delivered \in BOOLEAN, NEW p \in Points, Move(p, delivered)
      PROVE  /\ StackInv' /\ DragInv' /\ need_new_terminal' \in BOOLEAN
             /\ drag_state' = drag_state /\ UNCHANGED <<left, stuck>> /\ pointer' \in Points
  <2>1. pointer' = p /\ UNCHANGED <<left, stuck>>
    BY <1>3 DEF Move
  <2>2. CASE MouseMove(p)
    BY <2>1, <2>2, MoveStep DEF MouseMove
  <2>3. CASE UNCHANGED <<layers, place, focused_id, drag_state, loop>>
    BY <2>1, <2>3, UserStep DEF loop
  <2> QED BY <1>3, <2>2, <2>3 DEF Move
<1>4. ASSUME ReleaseOther
      PROVE  /\ StackInv' /\ DragInv' /\ need_new_terminal' \in BOOLEAN
             /\ drag_state' = None /\ stuck' \in BOOLEAN /\ UNCHANGED <<pointer, left>>
  <2>1. /\ UNCHANGED <<layers, place, focused_id, next_id, need_new_terminal>>
        /\ drag_state' = None /\ stuck' = FALSE /\ UNCHANGED <<pointer, left>>
    BY <1>4 DEF ReleaseOther, MouseUp, loop
  <2> QED BY <2>1, UserStep
<1>5. ASSUME spawn_terminal_window
      PROVE  /\ StackInv' /\ DragInv' /\ need_new_terminal' \in BOOLEAN
             /\ UNCHANGED <<drag_state, pointer, left, stuck>>
  BY <1>5, SpawnStep DEF spawn_terminal_window, user
<1> QED BY <1>0, <1>1, <1>2, <1>3, <1>4, <1>5 DEF Next

LEMMA StutterInv ==
  ASSUME CompositorInv, UNCHANGED vars
  PROVE  CompositorInv'
BY DEF CompositorInv, StackInv, UserInv, Dragging, vars

\* Windows, focus and drag belong together in every reachable state.
THEOREM CompositorCorrect == Spec => []CompositorInv
<1>1. CompositorInv /\ [Next]_vars => CompositorInv'
  BY NextInv, StutterInv
<1> QED BY InitInv, <1>1, PTL DEF Spec

\* Neither focus nor drag outlives its window, for every set of points.
THEOREM TypeCorrect == Spec => []TypeOK
<1>1. CompositorInv => TypeOK
  <2> SUFFICES ASSUME CompositorInv PROVE TypeOK
    OBVIOUS
  <2>1. /\ Stack(layers) /\ DOMAIN layers = 1..Len(layers)
        /\ Open = OpenIn(layers) /\ DOMAIN place = OpenIn(layers)
    BY OpenInStack, OpenIsOpenIn DEF CompositorInv, StackInv
  <2>2. drag_state.id \in OpenIn(layers) \cup {Desktop}
    BY DEF CompositorInv, UserInv, Dragging, None
  <2> QED BY <2>1, <2>2 DEF TypeOK, CompositorInv, StackInv, UserInv, Stack
<1> QED BY CompositorCorrect, <1>1, PTL

\* Wherever the user drags windows, and whichever events are lost, each can
\* still be taken hold of.
THEOREM WindowsReachable == Spec => []WindowsStayReachable
<1>1. CompositorInv => WindowsStayReachable
  <2> SUFFICES ASSUME CompositorInv, NEW w \in Open
               PROVE  LET t == TitleBar(w)
                      IN  \E x \in {Greater(t.x, 0), Smaller(t.x + t.w, SCREEN_WIDTH) - 1},
                             y \in {Greater(t.y, 0), Smaller(t.y + t.h, SCREEN_HEIGHT) - 1} :
                            /\ Contains(Bounds(Desktop), [x |-> x, y |-> y])
                            /\ GrabsTitle(w, [x |-> x, y |-> y])
    BY Zenon DEF WindowsStayReachable
  <2>1. place[w] \in Corner /\ Reachable(place[w])
    BY OpenIsOpenIn DEF CompositorInv, StackInv
  <2> QED BY <2>1, SomeCornerIsGrip
<1> QED BY CompositorCorrect, <1>1, PTL

\* A window that stays open moves only in the hand of the user, or when the
\* event that would have ended the drag was lost.
THEOREM WindowsDoNotMoveAlone == Spec => MovesOnlyWhileHeld
<1> DEFINE Held == \A w \in Open : (w \in DOMAIN place' /\ place'[w] # place[w]) => left \/ stuck
<1>1. ASSUME CompositorInv, Next PROVE Held
  <2> SUFFICES ASSUME NEW w \in Open, w \in DOMAIN place', place'[w] # place[w]
               PROVE  left \/ stuck
    OBVIOUS
  <2>0. w \in OpenIn(layers) /\ DOMAIN place = OpenIn(layers)
    BY <1>1, OpenIsOpenIn DEF CompositorInv, StackInv
  <2>1. ~UNCHANGED place
    OBVIOUS
  <2>2. ASSUME NEW id, remove_widget(id) PROVE FALSE
    BY <2>2, <2>0 DEF remove_widget, But
  <2>3. ASSUME NEW delivered \in BOOLEAN, Press(delivered) PROVE FALSE
    BY <2>1, <2>2, <2>3 DEF Press, DownOnDesktop, DownOnWindow
  <2>4. ASSUME NEW delivered \in BOOLEAN, Release(delivered) PROVE FALSE
    BY <2>1, <2>4 DEF Release, MouseUp
  <2>5. ASSUME ReleaseOther PROVE FALSE
    BY <2>1, <2>5 DEF ReleaseOther, MouseUp
  <2>6. ASSUME spawn_terminal_window PROVE FALSE
    BY <1>1, <2>0, <2>6, SpawnStep
  <2>7. ASSUME NEW delivered \in BOOLEAN, NEW p \in Points, Move(p, delivered)
        PROVE  drag_state # None
    BY <2>1, <2>7 DEF Move, MouseMove
  <2>8. drag_state # None
    BY <1>1, <2>3, <2>4, <2>5, <2>6, <2>7 DEF Next
  <2> QED BY <1>1, <2>8 DEF CompositorInv, UserInv
<1>2. CompositorInv /\ [Next]_vars => [Held]_vars
  BY <1>1
<1> QED BY CompositorCorrect, <1>2, PTL DEF Spec, MovesOnlyWhileHeld

\* No press closes a window that lies beneath another one where it hits.
THEOREM ClosesTheTopmost == Spec => OnlyTheTopmostCloses
<1> DEFINE Topmost == \A i \in DOMAIN layers :
             (layers[i] # Desktop /\ layers[i] \notin DOMAIN place') =>
               \A j \in (i + 1)..Len(layers) : ~Contains(Bounds(layers[j]), pointer)
<1>1. ASSUME CompositorInv, Next PROVE Topmost
  <2> SUFFICES ASSUME NEW i \in DOMAIN layers, layers[i] # Desktop, layers[i] \notin DOMAIN place'
               PROVE  \A j \in (i + 1)..Len(layers) : ~Contains(Bounds(layers[j]), pointer)
    OBVIOUS
  <2> DEFINE hit == hit_test(pointer)
  <2>0. /\ Stack(layers) /\ DOMAIN layers = 1..Len(layers) /\ DOMAIN place = OpenIn(layers)
        /\ layers[i] \in OpenIn(layers) /\ StackInv /\ pointer \in Points
    BY <1>1, OpenInStack DEF CompositorInv, StackInv, UserInv, Stack
  <2>1. DOMAIN place' # DOMAIN place
    BY <2>0
  <2>2. ASSUME NEW delivered \in BOOLEAN, NEW p \in Points, Move(p, delivered)
        PROVE  FALSE
    BY <2>1, <2>2 DEF Move, MouseMove
  <2>3. ASSUME NEW delivered \in BOOLEAN, Release(delivered) PROVE FALSE
    BY <2>1, <2>3 DEF Release, MouseUp
  <2>4. ASSUME ReleaseOther PROVE FALSE
    BY <2>1, <2>4 DEF ReleaseOther, MouseUp
  <2>5. ASSUME spawn_terminal_window PROVE FALSE
    <3>1. layers[i] \in OpenIn(layers') /\ place' \in [OpenIn(layers') -> Corner]
      BY <1>1, <2>0, <2>5, SpawnStep DEF StackInv
    <3> QED BY <3>1
  <2>6. PICK delivered \in BOOLEAN : Press(delivered)
    BY <1>1, <2>2, <2>3, <2>4, <2>5 DEF Next
  <2>7. hit # Desktop /\ remove_widget(hit)
    BY <2>1, <2>6 DEF Press, DownOnDesktop, DownOnWindow
  <2>8. hit \in OpenIn(layers) /\ layers[i] = hit
    <3>1. hit \in OpenIn(layers)
      BY <2>0, <2>7, HitTestProperties
    <3>2. DOMAIN place' = OpenIn(layers) \ {hit}
      BY <2>7 , <2>0 DEF remove_widget, But
    <3> QED BY <2>0, <3>1, <3>2
  <2>9. PICK k \in 1..Len(layers) :
          /\ hit = layers[k]
          /\ \A j \in (k + 1)..Len(layers) : ~Contains(Bounds(layers[j]), pointer)
    BY <2>0, HitTestProperties
  <2>10. i = k
    BY <2>0, <2>8, <2>9 DEF Stack
  <2> QED BY <2>9, <2>10
<1>2. CompositorInv /\ [Next]_vars => [Topmost]_vars
  BY <1>1
<1> QED BY CompositorCorrect, <1>2, PTL DEF Spec, OnlyTheTopmostCloses

=============================================================================

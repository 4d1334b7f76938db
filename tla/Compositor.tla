----------------------------- MODULE Compositor -----------------------------
(***************************************************************************)
(* The windows of the GUI: Compositor::handle_event with the windows and   *)
(* the desktop it calls, and the part of gui::run that opens terminals.    *)
(* The events come from handle_byte; each may be lost on the way, because  *)
(* the queue was full or locked (GuiInput).  They tell of changes of       *)
(* MOUSE_STATE, which while the decoder is out of step (MouseDecoder) are  *)
(* not what the user does: any press, release and jump may come, in any    *)
(* order but that presses and releases of a button alternate.              *)
(* Coordinates are the code's.                                             *)
(* A KeyPress changes nothing here but the terminal that has the focus.    *)
(***************************************************************************)
EXTENDS Integers, Sequences

CONSTANTS Points,      \* where the pointer can be: on the screen
          MaxOpened    \* bound: windows opened in a behaviour

SCREEN_WIDTH == 320
SCREEN_HEIGHT == 200
title_height == 12
Window == [w |-> 280, h |-> 160]
Desktop == 0
FirstId == 10

ASSUME PointAssumption ==
  \A p \in Points : p.x \in 0..(SCREEN_WIDTH - 1) /\ p.y \in 0..(SCREEN_HEIGHT - 1)

VARIABLES
  layers,      \* the ids of the widgets, from the bottom
  place,       \* the upper left corner of each window
  focused_id, drag_state,
  next_id,
  need_new_terminal,
  pointer,     \* MOUSE_STATE: x and y, and the left button of prev_buttons
  left,
  stuck        \* history: the release that would have ended the drag was lost

vars == <<layers, place, focused_id, drag_state, next_id, need_new_terminal,
          pointer, left, stuck>>
user == <<pointer, left, stuck>>
loop == <<next_id, need_new_terminal>>

None == [id |-> Desktop]
Open == {layers[i] : i \in 2..Len(layers)}

Rect(x, y, w, h) == [x |-> x, y |-> y, w |-> w, h |-> h]
Contains(r, p) == p.x >= r.x /\ p.x < r.x + r.w /\ p.y >= r.y /\ p.y < r.y + r.h

Bounds(id) == IF id = Desktop THEN Rect(0, 0, SCREEN_WIDTH, SCREEN_HEIGHT)
              ELSE Rect(place[id].x, place[id].y, Window.w, Window.h)
TitleBar(id) == Rect(place[id].x, place[id].y, Window.w, title_height)
CloseButton(id) == Rect(place[id].x + Window.w - title_height + 1, place[id].y + 1,
                        title_height - 2, title_height - 2)
Icon == Rect(8, 8, 32, 28)

\* Each window of its own, 0 or 30 points from the corner: ids go up by two.
SpawnPlace(id) == LET offset == ((id - FirstId) * 15) % 60
                  IN  [x |-> 20 + offset, y |-> 10 + offset]

With(f, id, value) == [w \in DOMAIN f \cup {id} |-> IF w = id THEN value ELSE f[w]]
But(f, id) == [w \in DOMAIN f \ {id} |-> f[w]]

Init ==
  /\ layers = <<Desktop, FirstId>>
  /\ place = [w \in {FirstId} |-> SpawnPlace(w)]
  /\ focused_id = Desktop     \* nothing
  /\ drag_state = None
  /\ next_id = FirstId + 2
  /\ need_new_terminal = FALSE
  /\ pointer \in Points
  /\ left = FALSE
  /\ stuck = FALSE

(***************************************************************************)
(* MouseDown of the left button                                            *)
(***************************************************************************)
Hits(p) == {i \in DOMAIN layers : Contains(Bounds(layers[i]), p)}

\* Fault: the newest window is taken, wherever it lies.
hit_test_Newest(p) ==
  LET hit == {layers[i] : i \in Hits(p)}
  IN  CHOOSE id \in hit : \A other \in hit : other <= id

hit_test(p) == layers[CHOOSE i \in Hits(p) : \A j \in Hits(p) : j <= i]

\* No two layers have the same id: retain takes one away, as remove(pos) does.
Others(id) ==
  LET pos == CHOOSE i \in DOMAIN layers : layers[i] = id
  IN  [i \in 1..(Len(layers) - 1) |-> layers[IF i < pos THEN i ELSE i + 1]]

Raised(id) == Append(Others(id), id)

GrabsTitle(id, p) == Contains(TitleBar(id), p) /\ ~Contains(CloseButton(id), p)

Grabbed(id, p) == [id |-> id, dx |-> p.x - place[id].x, dy |-> p.y - place[id].y]

\* Fault: the drag survives the window.
remove_widget_KeepsDrag(id) ==
  /\ layers' = Others(id)
  /\ place' = But(place, id)
  /\ focused_id' = Desktop
  /\ UNCHANGED drag_state

remove_widget(id) ==
  /\ layers' = Others(id)
  /\ place' = But(place, id)
  /\ focused_id' = Desktop     \* it was raised and focused before
  /\ drag_state' = IF drag_state.id = id THEN None ELSE drag_state

DownOnDesktop(p) ==
  /\ hit_test(p) = Desktop
  /\ need_new_terminal' = (need_new_terminal \/ Contains(Icon, p))
  /\ UNCHANGED <<layers, place, focused_id, drag_state, next_id>>

DownOnWindow(p) ==
  LET id == hit_test(p)
  IN  /\ id # Desktop
      /\ IF Contains(CloseButton(id), p)
         THEN remove_widget(id)
         ELSE /\ layers' = Raised(id)
              /\ focused_id' = id
              /\ drag_state' = IF GrabsTitle(id, p) THEN Grabbed(id, p) ELSE drag_state
              /\ UNCHANGED place
      /\ UNCHANGED loop

\* A packet in which the left button is down, as the decoder reads it, pressed by
\* the user or not; the event is handled, or lost.
Press(delivered) ==
  /\ ~left
  /\ left' = TRUE
  /\ IF delivered THEN DownOnDesktop(pointer) \/ DownOnWindow(pointer)
     ELSE UNCHANGED <<layers, place, focused_id, drag_state, loop>>
  /\ UNCHANGED <<pointer, stuck>>

(***************************************************************************)
(* MouseMove, MouseUp.  A Tick changes nothing: the compositor keeps it.   *)
(***************************************************************************)
\* Fault: the wrong sign on one axis.
MouseMove_Mirrored(p) ==
  /\ place' = IF drag_state = None THEN place
              ELSE [place EXCEPT ![drag_state.id] =
                      [x |-> p.x - drag_state.dx, y |-> p.y + drag_state.dy]]
  /\ UNCHANGED <<layers, focused_id, drag_state, loop>>

MouseMove(p) ==
  /\ place' = IF drag_state = None THEN place
              ELSE [place EXCEPT ![drag_state.id] =
                      [x |-> p.x - drag_state.dx, y |-> p.y - drag_state.dy]]
  /\ UNCHANGED <<layers, focused_id, drag_state, loop>>

Move(p, delivered) ==
  /\ p # pointer
  /\ pointer' = p
  /\ IF delivered THEN MouseMove(p)
     ELSE UNCHANGED <<layers, place, focused_id, drag_state, loop>>
  /\ UNCHANGED <<left, stuck>>

\* Fault: the end of a press elsewhere does not end the drag.
MouseUp_Inside ==
  /\ drag_state' = IF drag_state # None /\ layers[Len(layers)] # drag_state.id
                   THEN drag_state ELSE None
  /\ UNCHANGED <<layers, place, focused_id, loop>>

\* Of whatever button.
MouseUp ==
  /\ drag_state' = None
  /\ UNCHANGED <<layers, place, focused_id, loop>>

Release(delivered) ==
  /\ left
  /\ left' = FALSE
  /\ stuck' = ~delivered
  /\ IF delivered THEN MouseUp
     ELSE UNCHANGED <<layers, place, focused_id, drag_state, loop>>
  /\ UNCHANGED pointer

\* Another button; its press does nothing.
ReleaseOther ==
  /\ MouseUp
  /\ stuck' = FALSE
  /\ UNCHANGED <<pointer, left>>

(***************************************************************************)
(* At the end of a round of the event loop                                 *)
(***************************************************************************)
spawn_terminal_window ==
  /\ need_new_terminal
  /\ next_id < FirstId + 2 * MaxOpened
  /\ need_new_terminal' = FALSE
  /\ next_id' = next_id + 2
  /\ layers' = Append(layers, next_id)
  /\ place' = With(place, next_id, SpawnPlace(next_id))
  /\ UNCHANGED <<focused_id, drag_state, user>>

Next ==
  \/ \E delivered \in BOOLEAN :
       Press(delivered) \/ Release(delivered) \/ \E p \in Points : Move(p, delivered)
  \/ ReleaseOther
  \/ spawn_terminal_window

Spec == Init /\ [][Next]_vars

(***************************************************************************)
(* Properties                                                              *)
(***************************************************************************)
\* The desktop is at the bottom and each window is one layer; whoever has the
\* focus or is dragged is open.
TypeOK ==
  /\ layers[1] = Desktop
  /\ \A i, j \in DOMAIN layers : layers[i] = layers[j] => i = j
  /\ DOMAIN place = Open
  /\ focused_id \in Open \cup {Desktop}
  /\ drag_state.id \in Open \cup {Desktop}
  /\ \A w \in Open : w < next_id
  /\ need_new_terminal \in BOOLEAN /\ left \in BOOLEAN /\ stuck \in BOOLEAN
  /\ pointer \in Points

Greater(a, b) == IF a < b THEN b ELSE a
Smaller(a, b) == IF a < b THEN a ELSE b

\* Wherever windows are dragged, and whichever events are lost, some point of
\* each window's title bar stays on the screen outside the close button: there
\* is always something left to take hold of.  (Of a rectangle that does not lie
\* in another one, some corner does not.)
WindowsStayReachable ==
  \A w \in Open :
    LET t == TitleBar(w)
    IN  \E x \in {Greater(t.x, 0), Smaller(t.x + t.w, SCREEN_WIDTH) - 1},
           y \in {Greater(t.y, 0), Smaller(t.y + t.h, SCREEN_HEIGHT) - 1} :
          /\ Contains(Bounds(Desktop), [x |-> x, y |-> y])
          /\ GrabsTitle(w, [x |-> x, y |-> y])

\* A window that stays open moves only while the left button is down for the
\* decoder, in step or not, unless the event of its release was lost: nothing
\* else, no closing, raising or opening of windows, leaves a drag behind.
MovesOnlyWhileHeld ==
  [][\A w \in Open : (w \in DOMAIN place' /\ place'[w] # place[w]) => left \/ stuck]_vars

\* A press closes at most the window it can be seen to hit: none that is open
\* above it contains the point.
OnlyTheTopmostCloses ==
  [][\A i \in DOMAIN layers :
       (layers[i] # Desktop /\ layers[i] \notin DOMAIN place') =>
         \A j \in (i + 1)..Len(layers) : ~Contains(Bounds(layers[j]), pointer)]_vars

=============================================================================

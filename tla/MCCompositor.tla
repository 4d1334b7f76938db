---------------------------- MODULE MCCompositor ----------------------------
(***************************************************************************)
(* Compositor with three windows in a behaviour and four points: on the    *)
(* icon and on the title bar of the first window above it, on that         *)
(* window's close button, on the title bar of the second window, in the    *)
(* corner of the screen.                                                   *)
(***************************************************************************)
EXTENDS Compositor
MCPoints == {[x |-> 25, y |-> 12], [x |-> 294, y |-> 12], [x |-> 60, y |-> 45],
             [x |-> 319, y |-> 199]}
MCMaxOpened == 3
=============================================================================

--------------------------- MODULE MCMouseDecoder ---------------------------
(***************************************************************************)
(* MouseDecoder on a small screen. The motions are one in each direction   *)
(* (a step that reaches the border after two reports), none, and one whose *)
(* byte has bit 3 set, which the decoder can mistake for a first byte.     *)
(***************************************************************************)
EXTENDS MouseDecoder
MCWidth == 3
MCHeight == 2
MCMotions == {-1, 0, 9}
MCButtons == {0, 1, 3}
=============================================================================

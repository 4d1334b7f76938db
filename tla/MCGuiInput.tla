----------------------------- MODULE MCGuiInput -----------------------------
(***************************************************************************)
(* GuiInput with a queue of three slots, so that it fills up and wraps     *)
(* around, and five events.                                                *)
(***************************************************************************)
EXTENDS GuiInput
MCQueueSize == 3
MCFrames == 3
MCMaxEvents == 5
=============================================================================

---------------------------- MODULE MCEofFrames -----------------------------
(***************************************************************************)
(* Small instances of EofFrames for TLC.                                   *)
(***************************************************************************)
EXTENDS EofFrames
=============================================================================

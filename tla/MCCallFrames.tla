---------------------------- MODULE MCCallFrames ----------------------------
(***************************************************************************)
(* Small instances of CallFrames for TLC.  Gas is counted in units: a      *)
(* transaction has a handful, so that a few frames can be opened and run   *)
(* out.                                                                    *)
(***************************************************************************)
EXTENDS CallFrames
=============================================================================

---------------------------- MODULE MCFailReplay -----------------------------
(***************************************************************************)
(* Instances of FailReplay for TLC.                                        *)
(***************************************************************************)
EXTENDS FailReplay, MCStore
=============================================================================

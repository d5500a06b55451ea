------------------------------ MODULE MCPublish ------------------------------
(***************************************************************************)
(* Small instances of Publish for TLC.                                     *)
(***************************************************************************)
EXTENDS Publish, TLC
=============================================================================

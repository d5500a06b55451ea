---------------------------- MODULE MCOrderCards ----------------------------
(***************************************************************************)
(* Small instances of OrderCards for TLC.                                  *)
(***************************************************************************)
EXTENDS OrderCards

=============================================================================

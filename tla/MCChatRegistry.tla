--------------------------- MODULE MCChatRegistry ---------------------------
(***************************************************************************)
(* Small instances of ChatRegistry for TLC.                                *)
(***************************************************************************)
EXTENDS ChatRegistry, TLC
=============================================================================

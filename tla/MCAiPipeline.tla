---------------------------- MODULE MCAiPipeline ----------------------------
(***************************************************************************)
(* Small instances of AiPipeline for TLC.                                  *)
(***************************************************************************)
EXTENDS AiPipeline, TLC
=============================================================================

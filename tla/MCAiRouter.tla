----------------------------- MODULE MCAiRouter -----------------------------
(***************************************************************************)
(* Small instances of AiRouter for TLC: one Gemini key with two models,    *)
(* and one key of a fallback provider whose model sees no images.          *)
(***************************************************************************)
EXTENDS AiRouter

Cascade ==
  << [key |-> "gemini", model |-> "m1", group |-> 0, fallback |-> FALSE, vision |-> TRUE],
     [key |-> "gemini", model |-> "m2", group |-> 0, fallback |-> FALSE, vision |-> TRUE],
     [key |-> "groq", model |-> "m1", group |-> 1, fallback |-> TRUE, vision |-> FALSE] >>
=============================================================================

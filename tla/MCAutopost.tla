----------------------------- MODULE MCAutopost -----------------------------
(***************************************************************************)
(* Small instances of Autopost for TLC.                                    *)
(***************************************************************************)
EXTENDS Autopost, TLC

\* autopost on, no night yet, and weights from before update_settings had its limits
\* (tests/test_multiplier_limits.py:82): one above them, one of zero
Row ==
  [n \in Names |->
     CASE n = "new_multi" -> MultiMax + 1
       [] n = "mid_multi" -> 0
       [] n = "old_multi" -> MultiMin
       [] n \in Keeps -> 1
       [] n \in Times -> Day - 1
       [] OTHER -> 1]
=============================================================================

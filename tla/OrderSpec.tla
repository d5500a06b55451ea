----------------------------- MODULE OrderSpec -----------------------------
(***************************************************************************)
(* What the order flow promises about one order, whoever handles it and    *)
(* in whatever interleaving: it is placed once, gets one verdict, an       *)
(* accepted order gets one outcome, only an order with nothing left to     *)
(* happen is forgotten, and the customer never hears of an event that did  *)
(* not happen.  Orders.tla is shown to implement this module.              *)
(***************************************************************************)
EXTENDS Naturals

CONSTANT MaxOrders

OrderIds == 1 .. MaxOrders

Notices == {"accepted", "rejected", "withdrawn", "closed", "completed", "cancelled"}

Phases == {"none", "pending", "rejected", "withdrawn", "accepted", "completed", "cancelled"}

FinalPhases == {"rejected", "withdrawn", "completed", "cancelled"}

\* the phases an order may be in when the customer hears a notice about it
Justifies(n) ==
  CASE n = "accepted"  -> {"accepted", "completed", "cancelled"}
    [] n = "closed"    -> {"accepted", "completed", "cancelled"}
    [] n = "rejected"  -> {"rejected"}
    [] n = "withdrawn" -> {"withdrawn"}
    [] n = "completed" -> {"completed"}
    [] n = "cancelled" -> {"cancelled"}

VARIABLES
  phase,      \* phase[o]: how far order o has come
  kept,       \* the orders the shop still keeps on record
  heard       \* heard[o]: the notices about o sent to its customer

vars == <<phase, kept, heard>>

Init ==
  /\ phase = [o \in OrderIds |-> "none"]
  /\ kept = {}
  /\ heard = [o \in OrderIds |-> {}]

Place(o) ==
  /\ phase[o] = "none"
  /\ phase' = [phase EXCEPT ![o] = "pending"]
  /\ kept' = kept \cup {o}
  /\ UNCHANGED heard

Decide(o, verdict) ==
  /\ phase[o] = "pending"
  /\ phase' = [phase EXCEPT ![o] = verdict]
  /\ UNCHANGED <<kept, heard>>

Finish(o, outcome) ==
  /\ phase[o] = "accepted"
  /\ phase' = [phase EXCEPT ![o] = outcome]
  /\ UNCHANGED <<kept, heard>>

Hear(o, n) ==
  /\ phase[o] \in Justifies(n)
  /\ heard' = [heard EXCEPT ![o] = @ \cup {n}]
  /\ UNCHANGED <<phase, kept>>

Forget(S) ==
  /\ S \subseteq kept
  /\ \A o \in S : phase[o] \in FinalPhases
  /\ kept' = kept \ S
  /\ UNCHANGED <<phase, heard>>

Next ==
  \/ \E o \in OrderIds :
       \/ Place(o)
       \/ \E v \in {"accepted", "rejected", "withdrawn"} : Decide(o, v)
       \/ \E c \in {"completed", "cancelled"} : Finish(o, c)
       \/ \E n \in Notices : Hear(o, n)
  \/ \E S \in SUBSET OrderIds : Forget(S)

Spec == Init /\ [][Next]_vars
============================================================================

---------------------------- MODULE OrdersProofs ----------------------------
(***************************************************************************)
(* What holds of Orders for every number of orders, customers, products    *)
(* and concurrent handlers, and any number of failures: the types, the     *)
(* confirmation's exclusion (ConfirmInv), and the truth of the notices     *)
(* (NoticesAreTrue), each an inductive invariant, with the safety          *)
(* properties of Orders that follow from them, and the refinement of       *)
(* OrderSpec.                                                              *)
(***************************************************************************)
EXTENDS Orders, TLAPS

-----------------------------------------------------------------------------
(* Types *)

\* a handler that goes on with well-typed locals
LEMMA RunTyped ==
  ASSUME TaskTypeOK, NEW t \in Tasks, NEW l \in PCs, NEW u \in Users \cup {NoUser},
         NEW p \in Products \cup {NoProduct}, NEW o \in OrderIds \cup {NoOrder},
         NEW w \in Words, NEW ids \in SUBSET OrderIds, Run(t, l, u, p, o, w, ids),
         l \in ConfirmPCs => u \in Users
  PROVE  TaskTypeOK'
BY DEF Run, TaskTypeOK

\* a handler that goes on with the locals it has
LEMMA GotoTyped ==
  ASSUME TaskTypeOK, NEW t \in Tasks, NEW l \in PCs, Goto(t, l),
         l \in ConfirmPCs => pc[t] \in ConfirmPCs
  PROVE  TaskTypeOK'
BY DEF Goto, locals, TaskTypeOK

\* a handler that ends
LEMMA DoneTyped ==
  ASSUME TaskTypeOK, NEW t \in Tasks, Done(t)
  PROVE  TaskTypeOK'
BY DEF Done, Run, TaskTypeOK, PCs, ConfirmPCs, Words

\* a handler that starts to work on an order
LEMMA StartOnTyped ==
  ASSUME TaskTypeOK, NEW t \in Tasks, NEW l \in PCs, NEW o \in OrderIds,
         NEW w \in Words, StartOn(t, l, o, w), l \notin ConfirmPCs
  PROVE  TaskTypeOK'
BY RunTyped DEF StartOn

\* a notice is counted, whatever it names
LEMMA TellTyped ==
  ASSUME SeenTypeOK, NEW o, NEW n, Tell(o, n), UNCHANGED opens
  PROVE  SeenTypeOK'
<1>1. CASE o \in OrderIds /\ n \in Notices
  <2>1. told' = [told EXCEPT ![o] = [told[o] EXCEPT ![n] = told[o][n] + 1]]
    BY DEF Tell
  <2>2. told[o] \in [Notices -> Nat]
    BY <1>1 DEF SeenTypeOK
  <2>3. [told[o] EXCEPT ![n] = told[o][n] + 1] \in [Notices -> Nat]
    BY <1>1, <2>2
  <2>4. QED
    BY <1>1, <2>1, <2>3 DEF SeenTypeOK
<1>2. CASE o \notin OrderIds
  <2>1. told' = told
    BY <1>2 DEF SeenTypeOK, Tell
  <2>2. QED
    BY <2>1 DEF SeenTypeOK
<1>3. CASE o \in OrderIds /\ n \notin Notices
  <2>1. told' = [told EXCEPT ![o] = [told[o] EXCEPT ![n] = told[o][n] + 1]]
    BY DEF Tell
  <2>2. told[o] \in [Notices -> Nat]
    BY <1>3 DEF SeenTypeOK
  <2>3. [told[o] EXCEPT ![n] = told[o][n] + 1] \in [Notices -> Nat]
    BY <1>3, <2>2
  <2>4. QED
    BY <1>3, <2>1, <2>3 DEF SeenTypeOK
<1>4. QED
  BY <1>1, <1>2, <1>3

\* state.clear()
LEMMA ClearFormTyped ==
  ASSUME MemTypeOK, NEW u, ClearForm(u), confirming' \in SUBSET Users
  PROVE  MemTypeOK'
BY DEF MemTypeOK, ClearForm

\* a group of variables that a step leaves alone
LEMMA Untouched ==
  /\ RowTypeOK /\ UNCHANGED rowVars => RowTypeOK'
  /\ MemTypeOK /\ UNCHANGED memVars => MemTypeOK'
  /\ TaskTypeOK /\ UNCHANGED taskVars => TaskTypeOK'
  /\ SeenTypeOK /\ UNCHANGED seenVars => SeenTypeOK'
BY DEF RowTypeOK, MemTypeOK, TaskTypeOK, SeenTypeOK, rowVars, memVars, taskVars, locals, seenVars

\* every step of a running handler keeps the types
LEMMA StepTyped ==
  ASSUME TypeOK, NEW t \in Tasks, Step(t)
  PROVE  TypeOK'
<1> USE DEF TypeOK, PCs, ConfirmPCs, DecidePCs, FinishPCs, WithdrawPCs, ClosePCs, PurgePCs
<1>1. CASE ConfirmDeclined(t)
  BY <1>1, ClearFormTyped, GotoTyped, Untouched DEF ConfirmDeclined, At, memVars, MemTypeOK
<1>2. CASE ConfirmData(t)
  <2> DEFINE data == IF who[t] \in filled THEN "full" ELSE "partial"
  <2>1. form[who[t]] \in Products
    BY <1>2 DEF ConfirmData, At, TaskTypeOK, MemTypeOK
  <2>2. Run(t, "c_product", who[t], form[who[t]], NoOrder, data, {})
    BY <1>2 DEF ConfirmData
  <2>3. TaskTypeOK'
    BY <1>2, <2>1, <2>2 DEF ConfirmData, At, Run, TaskTypeOK, Words, NoOrder
  <2> QED
    BY <1>2, <2>3, Untouched DEF ConfirmData
<1>3. CASE ConfirmUnavailable(t)
  BY <1>3, ClearFormTyped, GotoTyped, Untouched DEF ConfirmUnavailable, At, MemTypeOK
<1>4. CASE ConfirmAvailable(t)
  BY <1>4, GotoTyped, Untouched DEF ConfirmAvailable, At
<1>5. CASE ConfirmDuplicate(t)
  BY <1>5, ClearFormTyped, GotoTyped, Untouched DEF ConfirmDuplicate, At, MemTypeOK
<1>6. CASE ConfirmCreate(t)
  <2>1. who[t] \in Users \cup {NoUser} /\ wants[t] \in Products \cup {NoProduct}
    BY <1>6 DEF TaskTypeOK, ConfirmCreate, At
  <2>2. TaskTypeOK'
    BY <1>6, <2>1 DEF ConfirmCreate, At, Run, TaskTypeOK, Words
  <2>3. lastId' \in 0 .. MaxOrders
    BY <1>6, OrdersAssumption DEF ConfirmCreate, OrderIds
  <2>4. RowTypeOK'
    BY <1>6, <2>1, <2>3 DEF ConfirmCreate, RowTypeOK
  <2>5. MemTypeOK'
    BY <1>6, ClearFormTyped DEF ConfirmCreate, MemTypeOK
  <2> QED
    BY <1>6, <2>2, <2>4, <2>5, Untouched DEF ConfirmCreate
<1>7. CASE ConfirmIncomplete(t)
  BY <1>7, GotoTyped, Untouched DEF ConfirmIncomplete, At
<1>8. CASE ConfirmNotify(t)
  BY <1>8, GotoTyped, Untouched DEF ConfirmNotify, At
<1>9. CASE ConfirmSave(t)
  BY <1>9, GotoTyped, Untouched DEF ConfirmSave, At
<1>10. CASE ConfirmEnd(t)
  BY <1>10, DoneTyped, Untouched DEF ConfirmEnd, At, MemTypeOK
<1>11. CASE DecideOpen(t)
  <2>1. RowTypeOK'
    BY <1>11 DEF DecideOpen, RowTypeOK
  <2>2. SeenTypeOK'
    BY <1>11 DEF DecideOpen, SeenTypeOK
  <2> QED
    BY <1>11, <2>1, <2>2, GotoTyped, Untouched DEF DecideOpen, At
<1>12. CASE DecideGet(t)
  BY <1>12, GotoTyped, DoneTyped, Untouched DEF DecideGet, At
<1>13. CASE DecideTell(t)
  BY <1>13, GotoTyped, TellTyped, Untouched DEF DecideTell, At
<1>14. CASE DecideCards(t)
  BY <1>14, DoneTyped, Untouched DEF DecideCards, At
<1>15. CASE FinishGet(t)
  BY <1>15, GotoTyped, DoneTyped, Untouched DEF FinishGet, At
<1>16. CASE FinishCards(t)
  BY <1>16, GotoTyped, Untouched DEF FinishCards, At
<1>17. CASE FinishTell(t)
  BY <1>17, DoneTyped, TellTyped, Untouched DEF FinishTell, At
<1>18. CASE WithdrawTell(t)
  BY <1>18, GotoTyped, TellTyped, Untouched DEF WithdrawTell, At
<1>19. CASE WithdrawGet(t)
  BY <1>19, GotoTyped, DoneTyped, Untouched DEF WithdrawGet, At
<1>20. CASE WithdrawCards(t)
  BY <1>20, DoneTyped, Untouched DEF WithdrawCards, At
<1>21. CASE CloseChat(t)
  BY <1>21, GotoTyped, DoneTyped, Untouched DEF CloseChat, At, RowTypeOK
<1>22. CASE CloseTell(t)
  BY <1>22, DoneTyped, TellTyped, Untouched DEF CloseTell, At
<1>23. CASE PurgeDelete(t)
  BY <1>23, DoneTyped, Untouched DEF PurgeDelete, At, RowTypeOK
<1> QED
  BY ONLY Step(t), <1>1, <1>2, <1>3, <1>4, <1>5, <1>6, <1>7, <1>8, <1>9, <1>10, <1>11, <1>12, <1>13, <1>14, <1>15, <1>16, <1>17, <1>18, <1>19, <1>20, <1>21, <1>22, <1>23 DEF Step

\* every start of a handler keeps the types
LEMMA TapTyped ==
  ASSUME TypeOK, NEW t \in Tasks, Tap(t)
  PROVE  TypeOK'
<1> USE DEF TypeOK, PCs, ConfirmPCs, DecidePCs, FinishPCs, WithdrawPCs, ClosePCs, PurgePCs, Words, Notices
<1>1. ASSUME NEW u \in Users, NEW answer \in {"yes", "no"}, StartConfirm(t, u, answer)
      PROVE  TypeOK'
  <2>1. TaskTypeOK'
    BY <1>1 DEF StartConfirm, Run, TaskTypeOK
  <2> QED
    BY <1>1, <2>1, Untouched DEF StartConfirm, MemTypeOK
<1>2. ASSUME NEW o \in OrderIds, NEW verdict \in {"accepted", "rejected"}, StartDecide(t, o, verdict)
      PROVE  TypeOK'
  BY <1>2, StartOnTyped, Untouched DEF StartDecide, RowTypeOK
<1>3. ASSUME NEW o \in OrderIds, NEW result \in {"completed", "cancelled"}, StartFinish(t, o, result)
      PROVE  TypeOK'
  BY <1>3, StartOnTyped, Untouched DEF StartFinish, RowTypeOK
<1>4. ASSUME NEW o \in OrderIds, NEW u \in Users, StartWithdraw(t, o, u)
      PROVE  TypeOK'
  BY <1>4, StartOnTyped, Untouched DEF StartWithdraw, RowTypeOK
<1>5. ASSUME NEW o \in OrderIds, StartClose(t, o)
      PROVE  TypeOK'
  BY <1>5, StartOnTyped, Untouched DEF StartClose
<1>6. ASSUME NEW ids \in SUBSET OrderIds, StartPurge(t, ids)
      PROVE  TypeOK'
  <2>1. TaskTypeOK'
    BY <1>6 DEF StartPurge, Run, TaskTypeOK
  <2> QED
    BY <1>6, <2>1, Untouched DEF StartPurge
<1> QED
  BY ONLY Tap(t), <1>1, <1>2, <1>3, <1>4, <1>5, <1>6 DEF Tap

(* Every variable keeps its type, and a handler that is confirming an      *)
(* order has a customer.                                                   *)
THEOREM TypeCorrect == Spec => []TypeOK
<1>1. Init => TypeOK
  <2> SUFFICES ASSUME Init PROVE TypeOK
    OBVIOUS
  <2>1. RowTypeOK
    <3>1. lastId = 0
      BY DEF Init
    <3>2. lastId \in 0 .. MaxOrders
      BY <3>1, OrdersAssumption
    <3> QED
      BY <3>2 DEF Init, RowTypeOK
  <2>2. MemTypeOK
    BY DEF Init, MemTypeOK
  <2>3. TaskTypeOK
    BY DEF Init, TaskTypeOK, PCs, ConfirmPCs, Words
  <2>4. SeenTypeOK
    BY DEF Init, SeenTypeOK
  <2>5. faults \in 0 .. MaxFaults
    <3>1. faults = 0
      BY DEF Init
    <3> QED
      BY <3>1, OrdersAssumption
  <2> QED
    BY <2>1, <2>2, <2>3, <2>4, <2>5 DEF TypeOK
<1>2. TypeOK /\ [Next]_vars => TypeOK'
  <2> SUFFICES ASSUME TypeOK, [Next]_vars PROVE TypeOK'
    OBVIOUS
  <2>1. ASSUME NEW t \in Tasks, HandlerFails(t) PROVE TypeOK'
    BY <2>1, DoneTyped, Untouched, OrdersAssumption DEF HandlerFails, TypeOK, MemTypeOK, SeenTypeOK
  <2>2. ASSUME NEW u \in Users, FormStep(u) PROVE TypeOK'
    BY <2>2, Untouched DEF FormStep, FillForm, DropForm, OpenForm, ClearForm, TypeOK, MemTypeOK
  <2>3. ASSUME NEW o \in OrderIds, AgeOrder(o) PROVE TypeOK'
    BY <2>3, Untouched DEF AgeOrder, TypeOK, RowTypeOK
  <2>4. CASE Crash
    <3>1. MemTypeOK' /\ TaskTypeOK'
      BY <2>4 DEF Crash, MemTypeOK, TaskTypeOK, PCs, ConfirmPCs, Words
    <3>2. faults' \in 0 .. MaxFaults
      <4>1. faults < MaxFaults /\ faults' = faults + 1
        BY <2>4 DEF Crash
      <4> QED
        BY <4>1, OrdersAssumption DEF TypeOK
    <3> QED
      BY <2>4, <3>1, <3>2, Untouched DEF Crash, TypeOK
  <2>5. CASE UNCHANGED vars
    BY <2>5, Untouched DEF vars, TypeOK
  <2> QED
    BY <2>1, <2>2, <2>3, <2>4, <2>5, StepTyped, TapTyped DEF Next
<1> QED
  BY <1>1, <1>2, PTL DEF Spec

-----------------------------------------------------------------------------
(* Confirmations *)

\* what a step of t leaves in the locals that confirmations use
Carries(t, l, u, p) ==
  \A s \in Tasks :
    /\ pc'[s] = IF s = t THEN l ELSE pc[s]
    /\ who'[s] = IF s = t THEN u ELSE who[s]
    /\ wants'[s] = IF s = t THEN p ELSE wants[s]

\* goes on with new locals
LEMMA RunCarries ==
  ASSUME TaskTypeOK, NEW t \in Tasks, NEW l, NEW u, NEW p, NEW o, NEW w, NEW ids,
         Run(t, l, u, p, o, w, ids)
  PROVE  Carries(t, l, u, p)
BY DEF Run, TaskTypeOK, Carries

\* goes on with the locals it has
LEMMA GotoCarries ==
  ASSUME TaskTypeOK, NEW t \in Tasks, NEW l, Goto(t, l)
  PROVE  Carries(t, l, who[t], wants[t])
BY DEF Goto, locals, TaskTypeOK, Carries

\* ends
LEMMA DoneCarries ==
  ASSUME TaskTypeOK, NEW t \in Tasks, Done(t)
  PROVE  Carries(t, "idle", NoUser, NoProduct)
BY RunCarries DEF Done

\* no order becomes fresh and pending
NothingNew ==
  /\ recent' \subseteq recent
  /\ \A o \in OrderIds : (o \in recent /\ Pending(o))' => o \in recent /\ Pending(o)
  /\ UNCHANGED <<buyer, item>>

\* t enters, stays in or leaves a confirmation, and _confirming follows
Follows(t, l, u) ==
  \/ pc[t] \in ConfirmPCs /\ l \in ConfirmPCs /\ u = who[t] /\ confirming' = confirming
  \/ pc[t] \in ConfirmPCs /\ l \notin ConfirmPCs /\ confirming' = confirming \ {who[t]}
  \/ pc[t] \notin ConfirmPCs /\ l \notin ConfirmPCs /\ confirming' = confirming
  \/ /\ pc[t] \notin ConfirmPCs /\ l \in ConfirmPCs
     /\ u \in Users \ confirming /\ confirming' = confirming \cup {u}

\* _confirming keeps naming the customers of the running confirmations
LEMMA ConfirmingFollows ==
  ASSUME TypeOK, ConfirmInv, NEW t \in Tasks, NEW l, NEW u, NEW p,
         Carries(t, l, u, p), Follows(t, l, u)
  PROVE  /\ ConfirmingIsRunning'
         /\ \A s \in Tasks, s2 \in Tasks :
              pc'[s] \in ConfirmPCs /\ pc'[s2] \in ConfirmPCs /\ who'[s] = who'[s2] => s = s2
<1> USE DEF TypeOK, ConfirmInv
<1>1. \A v \in Users : v \in confirming <=> \E s \in Tasks : pc[s] \in ConfirmPCs /\ who[s] = v
  BY DEF ConfirmingIsRunning
<1>2. \A s \in Tasks, s2 \in Tasks :
        pc[s] \in ConfirmPCs /\ pc[s2] \in ConfirmPCs /\ who[s] = who[s2] => s = s2
  BY DEF OneConfirmation
<1>3. \A s \in Tasks : pc[s] \in ConfirmPCs => who[s] \in Users
  BY DEF TaskTypeOK
<1>4. \A s \in Tasks, s2 \in Tasks :
        pc'[s] \in ConfirmPCs /\ pc'[s2] \in ConfirmPCs /\ who'[s] = who'[s2] => s = s2
  BY <1>1, <1>2, <1>3 DEF Carries, Follows
<1>5. \A v \in Users : v \in confirming' <=> \E s \in Tasks : pc'[s] \in ConfirmPCs /\ who'[s] = v
  BY <1>1, <1>2, <1>3 DEF Carries, Follows
<1> QED
  BY <1>4, <1>5 DEF ConfirmingIsRunning

\* a step that adds no fresh pending order
LEMMA ConfirmStays ==
  ASSUME TypeOK, ConfirmInv, NEW t \in Tasks, NEW l, NEW u, NEW p,
         Carries(t, l, u, p), Follows(t, l, u), NothingNew,
         l = "c_create" => ~ recent_pending_exists(u, p)
  PROVE  ConfirmInv'
<1>1. \A s \in Tasks :
        pc'[s] = "c_create" =>
          \A o \in OrderIds : (o \in recent /\ Pending(o))' => buyer[o] # who'[s] \/ item[o] # wants'[s]
  BY DEF ConfirmInv, OneConfirmation, At, Carries, NothingNew, recent_pending_exists
<1>2. OneConfirmation'
  BY <1>1, ConfirmingFollows DEF OneConfirmation, At, NothingNew
<1>3. NoDuplicateOrder'
  BY DEF TypeOK, RowTypeOK, ConfirmInv, NoDuplicateOrder, NothingNew
<1> QED
  BY <1>2, <1>3, ConfirmingFollows DEF ConfirmInv


\* a step that leaves the orders' customers, products and freshness alone
LEMMA NothingNewFromRows ==
  ASSUME UNCHANGED <<status, buyer, item, recent>>, stored' \subseteq stored
  PROVE  NothingNew
BY DEF NothingNew, Pending

\* create_order, the step the duplicate check is for
LEMMA ConfirmInvCreate ==
  ASSUME TypeOK, ConfirmInv, NEW t \in Tasks, ConfirmCreate(t)
  PROVE  ConfirmInv'
<1>1. PICK o \in OrderIds : o = lastId + 1
  BY DEF ConfirmCreate
<1>2. PICK u, p : u = who[t] /\ p = wants[t]
  OBVIOUS
<1>3. /\ stored' = stored \cup {o} /\ recent' = recent \cup {o}
      /\ status' = [status EXCEPT ![o] = "pending"]
      /\ buyer' = [buyer EXCEPT ![o] = u] /\ item' = [item EXCEPT ![o] = p]
      /\ confirming' = confirming /\ At(t, "c_create")
  BY <1>1, <1>2 DEF ConfirmCreate
<1>4. Carries(t, "c_notify", u, p)
  BY <1>2, RunCarries DEF ConfirmCreate, TypeOK
<1>5. \A o2 \in OrderIds \ {o} :
        /\ (o2 \in recent /\ Pending(o2))' <=> o2 \in recent /\ Pending(o2)
        /\ buyer'[o2] = buyer[o2] /\ item'[o2] = item[o2]
  BY <1>3 DEF Pending, TypeOK, RowTypeOK
<1>6. buyer'[o] = u /\ item'[o] = p
  BY <1>3 DEF TypeOK, RowTypeOK
<1>7. \A o2 \in OrderIds \ {o} : o2 \in recent /\ Pending(o2) => buyer[o2] # u \/ item[o2] # p
  BY <1>2, <1>3 DEF ConfirmInv, OneConfirmation
<1>8. Follows(t, "c_notify", u)
  BY <1>2, <1>3 DEF Follows, At, ConfirmPCs
<1>9. /\ ConfirmingIsRunning'
      /\ \A s \in Tasks, s2 \in Tasks :
           pc'[s] \in ConfirmPCs /\ pc'[s2] \in ConfirmPCs /\ who'[s] = who'[s2] => s = s2
  BY <1>4, <1>8, ConfirmingFollows
<1>10. \A s \in Tasks : pc'[s] = "c_create" => pc[s] = "c_create" /\ who'[s] = who[s] /\ wants'[s] = wants[s] /\ who[s] # u
  BY <1>2, <1>3, <1>4 DEF Carries, ConfirmInv, OneConfirmation, At, ConfirmPCs
<1>11. OneConfirmation'
  <2>1. \A s \in Tasks : pc'[s] = "c_create" =>
          \A o2 \in OrderIds : (o2 \in recent /\ Pending(o2))' => buyer'[o2] # who'[s] \/ item'[o2] # wants'[s]
    BY <1>5, <1>6, <1>10 DEF ConfirmInv, OneConfirmation, At
  <2> QED
    BY <1>9, <2>1 DEF OneConfirmation, At
<1>12. NoDuplicateOrder'
  <2> SUFFICES ASSUME NEW o1 \in recent', NEW o2 \in recent', Pending(o1)', Pending(o2)',
                      buyer'[o1] = buyer'[o2], item'[o1] = item'[o2]
               PROVE  o1 = o2
    BY DEF NoDuplicateOrder
  <2>1. o1 \in OrderIds /\ o2 \in OrderIds
    BY <1>3 DEF TypeOK, RowTypeOK
  <2>2. CASE o1 # o /\ o2 # o
    BY <1>5, <2>1, <2>2 DEF ConfirmInv, NoDuplicateOrder
  <2>3. CASE o1 = o \/ o2 = o
    BY <1>5, <1>6, <1>7, <2>1, <2>3
  <2> QED
    BY <2>2, <2>3
<1> QED
  BY <1>9, <1>11, <1>12 DEF ConfirmInv

\* every step of a running handler
LEMMA ConfirmInvStep ==
  ASSUME TypeOK, ConfirmInv, NEW t \in Tasks, Step(t)
  PROVE  ConfirmInv'
<1> USE ConfirmStays, NothingNewFromRows DEF ConfirmPCs, Follows, At, rowVars, memVars
<1> TaskTypeOK
  BY DEF TypeOK
<1>1. CASE ConfirmDeclined(t)
  BY <1>1, GotoCarries DEF ConfirmDeclined
<1>2. CASE ConfirmData(t)
  BY <1>2, RunCarries DEF ConfirmData
<1>3. CASE ConfirmUnavailable(t)
  BY <1>3, GotoCarries DEF ConfirmUnavailable
<1>4. CASE ConfirmAvailable(t)
  BY <1>4, GotoCarries DEF ConfirmAvailable
<1>5. CASE ConfirmDuplicate(t)
  <2>1. CASE recent_pending_exists(who[t], wants[t])
    BY <1>5, <2>1, GotoCarries DEF ConfirmDuplicate
  <2>2. CASE ~ recent_pending_exists(who[t], wants[t])
    BY <1>5, <2>2, GotoCarries DEF ConfirmDuplicate
  <2> QED
    BY <2>1, <2>2
<1>6. CASE ConfirmCreate(t)
  BY <1>6, ConfirmInvCreate
<1>7. CASE ConfirmIncomplete(t)
  BY <1>7, GotoCarries DEF ConfirmIncomplete
<1>8. CASE ConfirmNotify(t)
  <2>1. CASE ord[t] \in stored
    BY <1>8, <2>1, GotoCarries DEF ConfirmNotify
  <2>2. CASE ord[t] \notin stored
    BY <1>8, <2>2, GotoCarries DEF ConfirmNotify
  <2> QED
    BY <2>1, <2>2
<1>9. CASE ConfirmSave(t)
  BY <1>9, GotoCarries DEF ConfirmSave
<1>10. CASE ConfirmEnd(t)
  BY <1>10, DoneCarries DEF ConfirmEnd
<1>11. CASE DecideOpen(t)
  BY <1>11, GotoCarries DEF DecideOpen
<1>12. CASE DecideGet(t)
  <2>1. CASE ord[t] \in stored
    BY <1>12, <2>1, GotoCarries DEF DecideGet
  <2>2. CASE ~ (ord[t] \in stored)
    BY <1>12, <2>2, DoneCarries DEF DecideGet
  <2> QED
    BY <2>1, <2>2
<1>13. CASE DecideTell(t)
  BY <1>13, GotoCarries DEF DecideTell
<1>14. CASE DecideCards(t)
  BY <1>14, DoneCarries DEF DecideCards
<1>15. CASE FinishGet(t)
  <2>1. CASE ord[t] \in stored
    BY <1>15, <2>1, GotoCarries DEF FinishGet
  <2>2. CASE ~ (ord[t] \in stored)
    BY <1>15, <2>2, DoneCarries DEF FinishGet
  <2> QED
    BY <2>1, <2>2
<1>16. CASE FinishCards(t)
  BY <1>16, GotoCarries DEF FinishCards
<1>17. CASE FinishTell(t)
  BY <1>17, DoneCarries DEF FinishTell
<1>18. CASE WithdrawTell(t)
  BY <1>18, GotoCarries DEF WithdrawTell
<1>19. CASE WithdrawGet(t)
  <2>1. CASE ord[t] \in stored
    BY <1>19, <2>1, GotoCarries DEF WithdrawGet
  <2>2. CASE ~ (ord[t] \in stored)
    BY <1>19, <2>2, DoneCarries DEF WithdrawGet
  <2> QED
    BY <2>1, <2>2
<1>20. CASE WithdrawCards(t)
  BY <1>20, DoneCarries DEF WithdrawCards
<1>21. CASE CloseChat(t)
  <2>1. CASE ord[t] \in stored /\ ord[t] \in chatOpen
    BY <1>21, <2>1, GotoCarries DEF CloseChat
  <2>2. CASE ~ (ord[t] \in stored /\ ord[t] \in chatOpen)
    BY <1>21, <2>2, DoneCarries DEF CloseChat
  <2> QED
    BY <2>1, <2>2
<1>22. CASE CloseTell(t)
  BY <1>22, DoneCarries DEF CloseTell
<1>23. CASE PurgeDelete(t)
  BY <1>23, DoneCarries DEF PurgeDelete
<1> QED
  BY ONLY Step(t), <1>1, <1>2, <1>3, <1>4, <1>5, <1>6, <1>7, <1>8, <1>9, <1>10, <1>11, <1>12, <1>13, <1>14, <1>15, <1>16, <1>17, <1>18, <1>19, <1>20, <1>21, <1>22, <1>23 DEF Step

\* every start of a handler
LEMMA ConfirmInvTap ==
  ASSUME TypeOK, ConfirmInv, NEW t \in Tasks, Tap(t)
  PROVE  ConfirmInv'
<1> USE ConfirmStays, RunCarries, NothingNewFromRows DEF ConfirmPCs, Follows, Free, rowVars, memVars
<1> TaskTypeOK
  BY DEF TypeOK
<1>1. ASSUME NEW u \in Users, NEW answer \in {"yes", "no"}, StartConfirm(t, u, answer)
      PROVE  ConfirmInv'
  BY <1>1 DEF StartConfirm
<1>2. ASSUME NEW o \in OrderIds, NEW verdict \in {"accepted", "rejected"}, StartDecide(t, o, verdict)
      PROVE  ConfirmInv'
  <2>1. NothingNew
    BY <1>2 DEF StartDecide, NothingNew, Pending, TypeOK, RowTypeOK
  <2> QED
    BY <1>2, <2>1 DEF StartDecide, StartOn
<1>3. ASSUME NEW o \in OrderIds, NEW result \in {"completed", "cancelled"}, StartFinish(t, o, result)
      PROVE  ConfirmInv'
  BY <1>3 DEF StartFinish, StartOn
<1>4. ASSUME NEW o \in OrderIds, NEW u \in Users, StartWithdraw(t, o, u)
      PROVE  ConfirmInv'
  <2>1. NothingNew
    BY <1>4 DEF StartWithdraw, NothingNew, Pending, TypeOK, RowTypeOK
  <2> QED
    BY <1>4, <2>1 DEF StartWithdraw, StartOn
<1>5. ASSUME NEW o \in OrderIds, StartClose(t, o)
      PROVE  ConfirmInv'
  BY <1>5 DEF StartClose, StartOn
<1>6. ASSUME NEW ids \in SUBSET OrderIds, StartPurge(t, ids)
      PROVE  ConfirmInv'
  <2>1. Carries(t, "p_delete", NoUser, NoProduct)
    BY <1>6 DEF StartPurge
  <2>2. NothingNew /\ Follows(t, "p_delete", NoUser)
    BY <1>6 DEF StartPurge
  <2> QED
    BY <2>1, <2>2
<1> QED
  BY ONLY Tap(t), <1>1, <1>2, <1>3, <1>4, <1>5, <1>6 DEF Tap

\* steps that move no handler
LEMMA ConfirmInvUntouched ==
  ASSUME TypeOK, ConfirmInv, UNCHANGED <<confirming, pc, who, wants>>, NothingNew
  PROVE  ConfirmInv'
<1>1. ConfirmingIsRunning'
  BY DEF ConfirmInv, ConfirmingIsRunning
<1>2. OneConfirmation'
  BY DEF ConfirmInv, OneConfirmation, At, NothingNew
<1>3. NoDuplicateOrder'
  BY DEF TypeOK, RowTypeOK, ConfirmInv, NoDuplicateOrder, NothingNew
<1> QED
  BY <1>1, <1>2, <1>3 DEF ConfirmInv

(* One confirmation per customer at a time, and nothing ordered between    *)
(* its duplicate check and its INSERT (on_confirm).                        *)
THEOREM ConfirmCorrect == Spec => []ConfirmInv
<1>1. Init => ConfirmInv
  BY DEF Init, ConfirmInv, ConfirmingIsRunning, OneConfirmation, NoDuplicateOrder, ConfirmPCs, At
<1>2. TypeOK /\ ConfirmInv /\ [Next]_vars => ConfirmInv'
  <2> SUFFICES ASSUME TypeOK, ConfirmInv, [Next]_vars PROVE ConfirmInv'
    OBVIOUS
  <2> USE NothingNewFromRows DEF rowVars
  <2>1. ASSUME NEW t \in Tasks, HandlerFails(t) PROVE ConfirmInv'
    BY <2>1, DoneCarries, ConfirmStays DEF HandlerFails, TypeOK, ConfirmPCs, Follows
  <2>2. ASSUME NEW u \in Users, FormStep(u) PROVE ConfirmInv'
    BY <2>2, ConfirmInvUntouched DEF FormStep, FillForm, DropForm, OpenForm, taskVars, locals
  <2>3. ASSUME NEW o \in OrderIds, AgeOrder(o) PROVE ConfirmInv'
    <3>1. NothingNew
      BY <2>3 DEF AgeOrder, NothingNew, Pending
    <3> QED
      BY <2>3, <3>1, ConfirmInvUntouched DEF AgeOrder, memVars, taskVars, locals
  <2>4. CASE Crash
    <3>1. NothingNew /\ confirming' = {} /\ \A t \in Tasks : pc'[t] = "idle"
      BY <2>4 DEF Crash
    <3>2. ConfirmingIsRunning' /\ OneConfirmation'
      BY <3>1 DEF ConfirmingIsRunning, OneConfirmation, ConfirmPCs, At
    <3>3. NoDuplicateOrder'
      BY <3>1 DEF TypeOK, RowTypeOK, ConfirmInv, NoDuplicateOrder, NothingNew
    <3> QED
      BY <3>2, <3>3 DEF ConfirmInv
  <2>5. CASE UNCHANGED vars
    BY <2>5, ConfirmInvUntouched DEF vars, memVars, taskVars, locals
  <2> QED
    BY <2>1, <2>2, <2>3, <2>4, <2>5, ConfirmInvStep, ConfirmInvTap DEF Next
<1> QED
  BY <1>1, <1>2, TypeCorrect, PTL DEF Spec

(* Any number of taps on "confirm", by any number of customers, leaves no  *)
(* two fresh pending orders of one customer for one product.               *)
THEOREM NoDuplicateOrderHolds == Spec => []NoDuplicateOrder
<1>1. ConfirmInv => NoDuplicateOrder
  BY DEF ConfirmInv
<1> QED
  BY <1>1, ConfirmCorrect, PTL

-----------------------------------------------------------------------------
(* Chats and notices *)

\* what a handler's step leaves in its own locals and in those of the other handlers
Moves(t, l, o, w) ==
  \A s \in Tasks :
    /\ pc'[s] = IF s = t THEN l ELSE pc[s]
    /\ ord'[s] = IF s = t THEN o ELSE ord[s]
    /\ what'[s] = IF s = t THEN w ELSE what[s]

\* goes on with new locals
LEMMA RunMoves ==
  ASSUME TaskTypeOK, NEW t \in Tasks, NEW l, NEW u, NEW p, NEW o, NEW w, NEW ids,
         Run(t, l, u, p, o, w, ids)
  PROVE  Moves(t, l, o, w)
BY DEF Run, TaskTypeOK, Moves

\* goes on with the locals it has
LEMMA GotoMoves ==
  ASSUME TaskTypeOK, NEW t \in Tasks, NEW l, Goto(t, l)
  PROVE  Moves(t, l, ord[t], what[t])
BY DEF Goto, locals, TaskTypeOK, Moves

\* ends
LEMMA DoneMoves ==
  ASSUME TaskTypeOK, NEW t \in Tasks, Done(t)
  PROVE  Moves(t, "idle", NoOrder, "")
BY RunMoves DEF Done

\* events depend on the rows and on opens only
LEMMA EventStays ==
  ASSUME UNCHANGED <<rowVars, opens>>, NEW o, NEW n
  PROVE  Event(o, n)' <=> Event(o, n)
BY DEF Event, rowVars

\* a step of a handler that sends nothing: if it leaves a notice to send, the event the
\* notice reports has just happened, or the handler already owed the notice
LEMMA HandlerStep ==
  ASSUME OwesInv, ToldInv, NEW t \in Tasks, NEW l, NEW o, NEW w, Moves(t, l, o, w),
         UNCHANGED told,
         \A o2 \in OrderIds, n2 \in Notices : Event(o2, n2) => Event(o2, n2)',
         \A s \in Tasks \ {t} : At(s, "d_open") => opens'[ord[s]] = opens[ord[s]],
         l \in OwingPCs =>
           \/ Owes(t, o, w)
           \/ /\ o \in OrderIds /\ w \in Notices
              /\ Event(o, w)' /\ ~ Event(o, w),
         l = "d_open" => w = "accepted" /\ opens'[o] = 0,
         l = "k_close" => o \in OrderIds /\ w = "closed"
  PROVE  OwesInv' /\ ToldInv'
<1>1. ToldInv'
  BY DEF ToldInv
<1>2. ASSUME NEW s \in Tasks
      PROVE  /\ (pc[s] \in OwingPCs => ord[s] \in OrderIds /\ what[s] \in Notices)'
             /\ (At(s, "d_open") => what[s] = "accepted" /\ opens[ord[s]] = 0)'
             /\ (At(s, "k_close") => ord[s] \in OrderIds /\ what[s] = "closed")'
  BY <1>2 DEF OwesInv, Owes, At, Moves
<1>3. ASSUME NEW o2 \in OrderIds, NEW n2 \in Notices, NEW s \in Tasks, Owes(s, o2, n2)'
      PROVE  /\ Event(o2, n2)' /\ told[o2][n2] = 0
             /\ \A s2 \in Tasks : Owes(s2, o2, n2)' => s2 = s
  <2>1. CASE Owes(t, o2, n2)' /\ Event(o2, n2)' /\ ~ Event(o2, n2)
    <3>1. \A s2 \in Tasks : s2 # t => ~ Owes(s2, o2, n2)'
      BY <2>1 DEF OwesInv, Owes, Moves
    <3>2. told[o2][n2] = 0
      BY <2>1 DEF ToldInv
    <3> QED
      BY <1>3, <2>1, <3>1, <3>2
  <2>2. CASE ~ (Owes(t, o2, n2)' /\ Event(o2, n2)' /\ ~ Event(o2, n2))
    <3>1. \A s2 \in Tasks : Owes(s2, o2, n2)' => Owes(s2, o2, n2)
      BY <2>2 DEF Owes, Moves
    <3> QED
      BY <1>3, <3>1 DEF OwesInv
  <2> QED
    BY <2>1, <2>2
<1> QED
  BY <1>1, <1>2, <1>3 DEF OwesInv

\* a step of a handler that changes no row
LEMMA QuietStep ==
  ASSUME NoticesAreTrue, NEW t \in Tasks, NEW l, NEW o, NEW w, Moves(t, l, o, w),
         UNCHANGED <<rowVars, seenVars>>, l # "d_open",
         l \in OwingPCs => Owes(t, o, w),
         l = "k_close" => o \in OrderIds /\ w = "closed"
  PROVE  NoticesAreTrue'
<1> USE DEF NoticesAreTrue
<1>1. UNCHANGED <<lastId, stored, status, outcome, chatOpen, told, opens>>
  BY DEF rowVars, seenVars
<1>2. \A o2 \in OrderIds, n2 \in Notices : Event(o2, n2)' <=> Event(o2, n2)
  BY EventStays DEF rowVars, seenVars
<1>3. RowInv'
  BY <1>1 DEF RowInv
<1> QED
  BY <1>1, <1>2, <1>3, HandlerStep

\* what one more message to a customer changes
LEMMA TellValues ==
  ASSUME SeenTypeOK, NEW o \in OrderIds, NEW n \in Notices, Tell(o, n)
  PROVE  \A o2 \in OrderIds, n2 \in Notices :
           told'[o2][n2] = IF o2 = o /\ n2 = n THEN told[o][n] + 1 ELSE told[o2][n2]
<1>1. told' = [told EXCEPT ![o] = [told[o] EXCEPT ![n] = told[o][n] + 1]]
  BY DEF Tell
<1>2. told[o] \in [Notices -> Nat]
  BY DEF SeenTypeOK
<1> QED
  BY <1>1, <1>2 DEF SeenTypeOK

\* the message a handler owed is sent, and the handler owes nothing more
LEMMA TellStep ==
  ASSUME TypeOK, NoticesAreTrue, NEW t \in Tasks, pc[t] \in OwingPCs, NEW l, NEW o, NEW w, Moves(t, l, o, w),
         Tell(ord[t], what[t]), UNCHANGED <<rowVars, opens>>,
         l \in {"d_cards", "w_get", "idle"}
  PROVE  NoticesAreTrue'
<1> USE DEF TypeOK, NoticesAreTrue
<1>1. ord[t] \in OrderIds /\ what[t] \in Notices
  BY DEF OwesInv
<1>2. Event(ord[t], what[t]) /\ told[ord[t]][what[t]] = 0
  BY <1>1 DEF OwesInv, Owes
<1>3. \A o2 \in OrderIds, n2 \in Notices :
        told'[o2][n2] = IF o2 = ord[t] /\ n2 = what[t] THEN 1 ELSE told[o2][n2]
  BY <1>1, <1>2, TellValues
<1>4. \A o2 \in OrderIds, n2 \in Notices : Event(o2, n2)' <=> Event(o2, n2)
  BY EventStays
<1>5. \A o2 \in OrderIds, n2 \in Notices, s \in Tasks :
        Owes(s, o2, n2)' => Owes(s, o2, n2) /\ ~(o2 = ord[t] /\ n2 = what[t])
  BY <1>1 DEF OwesInv, Owes, Moves, OwingPCs
<1>6. UNCHANGED <<lastId, stored, status, outcome, chatOpen, opens>>
  BY DEF rowVars
<1>7. RowInv'
  BY <1>6 DEF RowInv
<1>8. OwesInv'
  <2>1. ASSUME NEW s \in Tasks
        PROVE  /\ (pc[s] \in OwingPCs => ord[s] \in OrderIds /\ what[s] \in Notices)'
               /\ (At(s, "d_open") => what[s] = "accepted" /\ opens[ord[s]] = 0)'
               /\ (At(s, "k_close") => ord[s] \in OrderIds /\ what[s] = "closed")'
    BY <1>6, <2>1 DEF OwesInv, Owes, At, Moves, OwingPCs
  <2> QED
    BY <1>3, <1>4, <1>5, <2>1 DEF OwesInv
<1>9. ToldInv'
  BY <1>2, <1>3, <1>4 DEF ToldInv
<1> QED
  BY <1>7, <1>8, <1>9

\* decide_order: the verdict is new, so nobody has reported it
LEMMA NoticesStartDecide ==
  ASSUME TypeOK, NoticesAreTrue, NEW t \in Tasks, NEW o \in OrderIds,
         NEW verdict \in {"accepted", "rejected"}, StartDecide(t, o, verdict)
  PROVE  NoticesAreTrue'
<1> USE DEF TypeOK, NoticesAreTrue
<1>1. /\ status[o] = "pending" /\ outcome[o] = "" /\ opens[o] = 0
      /\ status' = [status EXCEPT ![o] = verdict]
      /\ UNCHANGED <<lastId, stored, outcome, chatOpen, told, opens>>
  BY DEF StartDecide, Pending, RowInv, seenVars
<1>2. Moves(t, IF verdict = "accepted" THEN "d_open" ELSE "d_get", o, verdict)
  BY RunMoves DEF StartDecide, StartOn
<1>3. \A o2 \in OrderIds, n2 \in Notices : Event(o2, n2) => Event(o2, n2)'
  BY <1>1 DEF Event, RowTypeOK
<1>4. Event(o, verdict)' /\ ~ Event(o, verdict)
  BY <1>1 DEF Event, RowTypeOK
<1>5. RowInv'
  BY <1>1 DEF RowInv, RowTypeOK
<1> QED
  BY <1>1, <1>2, <1>3, <1>4, <1>5, HandlerStep DEF Notices

\* finish_order: the outcome is new
LEMMA NoticesStartFinish ==
  ASSUME TypeOK, NoticesAreTrue, NEW t \in Tasks, NEW o \in OrderIds,
         NEW result \in {"completed", "cancelled"}, StartFinish(t, o, result)
  PROVE  NoticesAreTrue'
<1> USE DEF TypeOK, NoticesAreTrue
<1>1. /\ status[o] = "accepted" /\ outcome[o] = ""
      /\ outcome' = [outcome EXCEPT ![o] = result]
      /\ chatOpen' = chatOpen \ {o}
      /\ UNCHANGED <<lastId, stored, status, told, opens>>
  BY DEF StartFinish, InProgress, seenVars
<1>2. Moves(t, "f_get", o, result)
  BY RunMoves DEF StartFinish, StartOn
<1>3. \A o2 \in OrderIds, n2 \in Notices : Event(o2, n2) => Event(o2, n2)'
  BY <1>1 DEF Event, RowTypeOK
<1>4. Event(o, result)' /\ ~ Event(o, result)
  BY <1>1 DEF Event, RowTypeOK
<1>5. RowInv'
  BY <1>1 DEF RowInv, RowTypeOK
<1> QED
  BY <1>1, <1>2, <1>3, <1>4, <1>5, HandlerStep DEF Notices

\* cancel_pending_by_user: the withdrawal is new
LEMMA NoticesStartWithdraw ==
  ASSUME TypeOK, NoticesAreTrue, NEW t \in Tasks, NEW o \in OrderIds, NEW u \in Users,
         StartWithdraw(t, o, u)
  PROVE  NoticesAreTrue'
<1> USE DEF TypeOK, NoticesAreTrue
<1>1. /\ status[o] = "pending" /\ outcome[o] = "" /\ opens[o] = 0
      /\ status' = [status EXCEPT ![o] = "rejected"]
      /\ outcome' = [outcome EXCEPT ![o] = "cancelled"]
      /\ chatOpen' = chatOpen \ {o}
      /\ UNCHANGED <<lastId, stored, told, opens>>
  BY DEF StartWithdraw, Pending, RowInv, seenVars
<1>2. Moves(t, "w_tell", o, "withdrawn")
  BY RunMoves DEF StartWithdraw, StartOn
<1>3. \A o2 \in OrderIds, n2 \in Notices : Event(o2, n2) => Event(o2, n2)'
  BY <1>1 DEF Event, RowTypeOK
<1>4. Event(o, "withdrawn")' /\ ~ Event(o, "withdrawn")
  BY <1>1 DEF Event, RowTypeOK
<1>5. RowInv'
  BY <1>1 DEF RowInv, RowTypeOK
<1> QED
  BY <1>1, <1>2, <1>3, <1>4, <1>5, HandlerStep DEF Notices

\* ids are natural numbers
LEMMA LastIdNat ==
  ASSUME RowTypeOK
  PROVE  lastId \in Nat
<1>1. lastId \in 0 .. MaxOrders
  BY DEF RowTypeOK
<1> QED
  BY <1>1, OrdersAssumption

\* create_order: the id was never used
LEMMA NoticesConfirmCreate ==
  ASSUME TypeOK, NoticesAreTrue, NEW t \in Tasks, ConfirmCreate(t)
  PROVE  NoticesAreTrue'
<1> USE DEF TypeOK, NoticesAreTrue
<1> DEFINE o == lastId + 1
<1>1. /\ o \in OrderIds /\ lastId' = o
      /\ stored' = stored \cup {o}
      /\ status' = [status EXCEPT ![o] = "pending"]
      /\ UNCHANGED <<outcome, chatOpen, told, opens>>
  BY DEF ConfirmCreate, seenVars
<1>2. status[o] = "none" /\ outcome[o] = "" /\ opens[o] = 0
  <2>1. o > lastId
    BY LastIdNat
  <2> QED
    BY <1>1, <2>1 DEF RowInv
<1>3. Moves(t, "c_notify", o, "full")
  BY RunMoves DEF ConfirmCreate
<1>4. \A o2 \in OrderIds, n2 \in Notices : Event(o2, n2) => Event(o2, n2)'
  BY <1>1, <1>2 DEF Event, RowTypeOK
<1>5. RowInv'
  <2>1. lastId \in Nat /\ \A o2 \in OrderIds : o2 \in Nat
    BY LastIdNat, OrdersAssumption DEF OrderIds
  <2>2. \A o2 \in OrderIds : o2 > lastId' => o2 > lastId /\ o2 # o
    BY <1>1, <2>1
  <2>3. \A o2 \in OrderIds : o2 > lastId' => status'[o2] = "none"
    BY <1>1, <2>2 DEF RowInv, RowTypeOK
  <2>4. \A o2 \in stored' : status'[o2] # "none"
    BY <1>1 DEF RowInv, RowTypeOK
  <2> QED
    BY <1>1, <1>2, <2>3, <2>4 DEF RowInv, RowTypeOK
<1> QED
  BY <1>1, <1>3, <1>4, <1>5, HandlerStep DEF OwingPCs

\* set_chat_open: the winner of decide_order opens the chat for the first time
LEMMA NoticesDecideOpen ==
  ASSUME TypeOK, NoticesAreTrue, NEW t \in Tasks, DecideOpen(t)
  PROVE  NoticesAreTrue'
<1> USE DEF TypeOK, NoticesAreTrue
<1>0. PICK o \in OrderIds : o = ord[t]
  BY DEF DecideOpen, At, OwesInv, OwingPCs
<1>1. what[t] = "accepted" /\ opens[o] = 0 /\ At(t, "d_open") /\ Owes(t, o, what[t])
  BY <1>0 DEF DecideOpen, At, OwesInv, Owes, OwingPCs
<1>2. status[o] = "accepted" /\ o \notin chatOpen
  <2>1. Event(o, "accepted")
    BY <1>1 DEF OwesInv, Notices
  <2>2. status[o] = "accepted"
    BY <2>1 DEF Event
  <2>3. o \in chatOpen => opens[o] = 1
    BY DEF RowInv
  <2> QED
    BY <1>1, <2>2, <2>3
<1>3. Moves(t, "d_get", o, what[t])
  BY <1>0, GotoMoves DEF DecideOpen
<1>4. /\ chatOpen' = IF o \in stored THEN chatOpen \cup {o} ELSE chatOpen
      /\ opens' = IF o \in stored THEN [opens EXCEPT ![o] = 1] ELSE opens
      /\ UNCHANGED <<lastId, stored, status, outcome, told>>
  BY <1>0, <1>1, <1>2 DEF DecideOpen, SeenTypeOK
<1>5. \A o2 \in OrderIds :
        /\ o2 # o => opens'[o2] = opens[o2] /\ (o2 \in chatOpen' <=> o2 \in chatOpen)
        /\ opens'[o] = IF o \in stored THEN 1 ELSE 0
        /\ o \in chatOpen' <=> o \in stored
  BY <1>1, <1>2, <1>4 DEF SeenTypeOK
<1>6. \A o2 \in OrderIds, n2 \in Notices : Event(o2, n2) => Event(o2, n2)'
  <2> SUFFICES ASSUME NEW o2 \in OrderIds, NEW n2 \in Notices, Event(o2, n2)
               PROVE  Event(o2, n2)'
    OBVIOUS
  <2>1. n2 = "closed" => o2 # o
    BY <1>1 DEF Event
  <2>2. n2 = "closed" => opens'[o2] = opens[o2] /\ (o2 \in chatOpen' <=> o2 \in chatOpen)
    BY <1>5, <2>1
  <2>3. status' = status /\ outcome' = outcome
    BY <1>4
  <2> QED
    BY <2>2, <2>3 DEF Event
<1>7. RowInv'
  <2>1. \A o2 \in OrderIds : opens'[o2] \in {0, 1} /\ (o2 \in chatOpen' => o2 \in stored /\ opens'[o2] = 1)
    BY <1>5 DEF RowInv
  <2>2. \A o2 \in OrderIds : status[o2] \in {"none", "pending"} => opens'[o2] = 0
    BY <1>2, <1>5 DEF RowInv
  <2> QED
    BY <1>2, <1>4, <1>5, <2>1, <2>2 DEF RowInv, RowTypeOK
<1>8. \A s \in Tasks \ {t} : At(s, "d_open") => ord[s] # o
  BY <1>1 DEF OwesInv, Owes, At, OwingPCs, Notices
<1>9. \A s \in Tasks \ {t} : At(s, "d_open") => opens'[ord[s]] = opens[ord[s]]
  BY <1>4, <1>8 DEF SeenTypeOK, OwesInv, At, OwingPCs
<1> QED
  BY <1>1, <1>3, <1>4, <1>6, <1>7, <1>9, HandlerStep

\* close_chat_if_open: the chat was open, so its end is new
LEMMA NoticesCloseChat ==
  ASSUME TypeOK, NoticesAreTrue, NEW t \in Tasks, CloseChat(t)
  PROVE  NoticesAreTrue'
<1> USE DEF TypeOK, NoticesAreTrue
<1>0. PICK o \in OrderIds : o = ord[t]
  BY DEF CloseChat, At, OwesInv
<1>1. /\ what[t] = "closed"
      /\ UNCHANGED <<lastId, stored, status, outcome, told, opens>>
  BY DEF CloseChat, At, OwesInv, seenVars
<1>2. CASE o \in stored /\ o \in chatOpen
  <2>1. chatOpen' = chatOpen \ {o} /\ Moves(t, "k_tell", o, "closed")
    BY <1>0, <1>1, <1>2, GotoMoves DEF CloseChat
  <2>2. \A o2 \in OrderIds, n2 \in Notices : Event(o2, n2) => Event(o2, n2)'
    BY <1>1, <2>1 DEF Event
  <2>3. Event(o, "closed")' /\ ~ Event(o, "closed")
    <3>1. status[o] = "accepted" /\ opens[o] = 1
      BY <1>2 DEF RowInv
    <3> QED
      BY <1>1, <1>2, <2>1, <3>1 DEF Event
  <2>4. RowInv'
    BY <1>1, <2>1 DEF RowInv
  <2> QED
    BY <1>1, <2>1, <2>2, <2>3, <2>4, HandlerStep DEF Notices, At
<1>3. CASE ~ (o \in stored /\ o \in chatOpen)
  BY <1>0, <1>1, <1>3, DoneMoves, QuietStep DEF CloseChat, rowVars, seenVars, OwingPCs
<1> QED
  BY <1>2, <1>3

\* purge_finished_orders: deleting rows takes no event back
LEMMA NoticesPurgeDelete ==
  ASSUME TypeOK, NoticesAreTrue, NEW t \in Tasks, PurgeDelete(t)
  PROVE  NoticesAreTrue'
<1> USE DEF TypeOK, NoticesAreTrue
<1>1. PICK gone : stored' = stored \ gone /\ chatOpen' = chatOpen \ gone
  BY DEF PurgeDelete
<1>2. UNCHANGED <<lastId, status, outcome, told, opens>>
  BY DEF PurgeDelete, seenVars
<1>3. Moves(t, "idle", NoOrder, "")
  BY DoneMoves DEF PurgeDelete
<1>4. \A o2 \in OrderIds, n2 \in Notices : Event(o2, n2) => Event(o2, n2)'
  BY <1>1, <1>2 DEF Event
<1>5. RowInv'
  BY <1>1, <1>2 DEF RowInv
<1> QED
  BY <1>2, <1>3, <1>4, <1>5, HandlerStep DEF OwingPCs

\* every step of a running handler
LEMMA NoticesStep ==
  ASSUME TypeOK, NoticesAreTrue, NEW t \in Tasks, Step(t)
  PROVE  NoticesAreTrue'
<1> USE DEF TypeOK, OwingPCs, Owes, At
<1>1. CASE ConfirmDeclined(t)
  BY <1>1, GotoMoves, QuietStep DEF ConfirmDeclined
<1>2. CASE ConfirmData(t)
  BY <1>2, RunMoves, QuietStep DEF ConfirmData
<1>3. CASE ConfirmUnavailable(t)
  BY <1>3, GotoMoves, QuietStep DEF ConfirmUnavailable
<1>4. CASE ConfirmAvailable(t)
  BY <1>4, GotoMoves, QuietStep DEF ConfirmAvailable
<1>5. CASE ConfirmDuplicate(t)
  BY <1>5, GotoMoves, QuietStep DEF ConfirmDuplicate
<1>6. CASE ConfirmCreate(t)
  BY <1>6, NoticesConfirmCreate
<1>7. CASE ConfirmIncomplete(t)
  BY <1>7, GotoMoves, QuietStep DEF ConfirmIncomplete
<1>8. CASE ConfirmNotify(t)
  BY <1>8, GotoMoves, QuietStep DEF ConfirmNotify
<1>9. CASE ConfirmSave(t)
  BY <1>9, GotoMoves, QuietStep DEF ConfirmSave
<1>10. CASE ConfirmEnd(t)
  BY <1>10, DoneMoves, QuietStep DEF ConfirmEnd
<1>11. CASE DecideOpen(t)
  BY <1>11, NoticesDecideOpen
<1>12. CASE DecideGet(t)
  <2>1. CASE ord[t] \in stored
    BY <1>12, <2>1, GotoMoves, QuietStep DEF DecideGet
  <2>2. CASE ord[t] \notin stored
    BY <1>12, <2>2, DoneMoves, QuietStep DEF DecideGet
  <2> QED
    BY <2>1, <2>2
<1>13. CASE DecideTell(t)
  BY <1>13, GotoMoves, TellStep DEF DecideTell
<1>14. CASE DecideCards(t)
  BY <1>14, DoneMoves, QuietStep DEF DecideCards
<1>15. CASE FinishGet(t)
  <2>1. CASE ord[t] \in stored
    BY <1>15, <2>1, GotoMoves, QuietStep DEF FinishGet
  <2>2. CASE ord[t] \notin stored
    BY <1>15, <2>2, DoneMoves, QuietStep DEF FinishGet
  <2> QED
    BY <2>1, <2>2
<1>16. CASE FinishCards(t)
  BY <1>16, GotoMoves, QuietStep DEF FinishCards
<1>17. CASE FinishTell(t)
  BY <1>17, DoneMoves, TellStep DEF FinishTell
<1>18. CASE WithdrawTell(t)
  BY <1>18, GotoMoves, TellStep DEF WithdrawTell
<1>19. CASE WithdrawGet(t)
  <2>1. CASE ord[t] \in stored
    BY <1>19, <2>1, GotoMoves, QuietStep DEF WithdrawGet
  <2>2. CASE ord[t] \notin stored
    BY <1>19, <2>2, DoneMoves, QuietStep DEF WithdrawGet
  <2> QED
    BY <2>1, <2>2
<1>20. CASE WithdrawCards(t)
  BY <1>20, DoneMoves, QuietStep DEF WithdrawCards
<1>21. CASE CloseChat(t)
  BY <1>21, NoticesCloseChat
<1>22. CASE CloseTell(t)
  BY <1>22, DoneMoves, TellStep DEF CloseTell
<1>23. CASE PurgeDelete(t)
  BY <1>23, NoticesPurgeDelete
<1> QED
  BY ONLY Step(t), <1>1, <1>2, <1>3, <1>4, <1>5, <1>6, <1>7, <1>8, <1>9, <1>10, <1>11, <1>12, <1>13, <1>14, <1>15, <1>16, <1>17, <1>18, <1>19, <1>20, <1>21, <1>22, <1>23 DEF Step

\* every start of a handler
LEMMA NoticesTap ==
  ASSUME TypeOK, NoticesAreTrue, NEW t \in Tasks, Tap(t)
  PROVE  NoticesAreTrue'
<1> USE DEF TypeOK, OwingPCs
<1>1. ASSUME NEW u \in Users, NEW answer \in {"yes", "no"}, StartConfirm(t, u, answer)
      PROVE  NoticesAreTrue'
  BY <1>1, RunMoves, QuietStep DEF StartConfirm
<1>2. ASSUME NEW o \in OrderIds, NEW verdict \in {"accepted", "rejected"}, StartDecide(t, o, verdict)
      PROVE  NoticesAreTrue'
  BY <1>2, NoticesStartDecide
<1>3. ASSUME NEW o \in OrderIds, NEW result \in {"completed", "cancelled"}, StartFinish(t, o, result)
      PROVE  NoticesAreTrue'
  BY <1>3, NoticesStartFinish
<1>4. ASSUME NEW o \in OrderIds, NEW u \in Users, StartWithdraw(t, o, u)
      PROVE  NoticesAreTrue'
  BY <1>4, NoticesStartWithdraw
<1>5. ASSUME NEW o \in OrderIds, StartClose(t, o)
      PROVE  NoticesAreTrue'
  BY <1>5, RunMoves, QuietStep DEF StartClose, StartOn
<1>6. ASSUME NEW ids \in SUBSET OrderIds, StartPurge(t, ids)
      PROVE  NoticesAreTrue'
  <2>1. Moves(t, "p_delete", NoOrder, "")
    BY <1>6, RunMoves DEF StartPurge
  <2> QED
    BY <1>6, <2>1, QuietStep DEF StartPurge
<1> QED
  BY ONLY Tap(t), <1>1, <1>2, <1>3, <1>4, <1>5, <1>6 DEF Tap

\* steps that leave the order rows, the notices and the running handlers as they are
LEMMA NoticesUntouched ==
  ASSUME NoticesAreTrue,
         UNCHANGED <<lastId, stored, status, outcome, chatOpen, pc, ord, what, told, opens>>
  PROVE  NoticesAreTrue'
<1>1. \A o \in OrderIds, n \in Notices : Event(o, n)' <=> Event(o, n)
  BY DEF Event
<1>2. RowInv'
  BY DEF NoticesAreTrue, RowInv
<1>3. OwesInv'
  BY <1>1 DEF NoticesAreTrue, OwesInv, Owes, At
<1>4. ToldInv'
  BY <1>1 DEF NoticesAreTrue, ToldInv
<1> QED
  BY <1>2, <1>3, <1>4 DEF NoticesAreTrue

(* The inductive invariant of the verdicts: every notice sent or on its    *)
(* way reports something that happened and is reported once.               *)
THEOREM NoticesCorrect == Spec => []NoticesAreTrue
<1>1. Init => NoticesAreTrue
  <2> SUFFICES ASSUME Init PROVE NoticesAreTrue
    OBVIOUS
  <2>1. RowInv
    BY DEF Init, RowInv
  <2>2. OwesInv
    BY DEF Init, OwesInv, Owes, OwingPCs, At
  <2>3. ToldInv
    <3>1. \A o \in OrderIds, n \in Notices : told[o][n] = 0
      BY DEF Init
    <3> QED
      BY <3>1 DEF ToldInv
  <2> QED
    BY <2>1, <2>2, <2>3 DEF NoticesAreTrue
<1>2. TypeOK /\ NoticesAreTrue /\ [Next]_vars => NoticesAreTrue'
  <2> SUFFICES ASSUME TypeOK, NoticesAreTrue, [Next]_vars PROVE NoticesAreTrue'
    OBVIOUS
  <2>1. ASSUME NEW t \in Tasks, HandlerFails(t) PROVE NoticesAreTrue'
    BY <2>1, DoneMoves, QuietStep DEF HandlerFails, TypeOK, OwingPCs
  <2>2. ASSUME NEW u \in Users, FormStep(u) PROVE NoticesAreTrue'
    BY <2>2, NoticesUntouched DEF FormStep, FillForm, DropForm, OpenForm, rowVars, taskVars, locals, seenVars
  <2>3. ASSUME NEW o \in OrderIds, AgeOrder(o) PROVE NoticesAreTrue'
    BY <2>3, NoticesUntouched DEF AgeOrder, taskVars, locals, seenVars
  <2>4. CASE Crash
    <3>1. UNCHANGED <<lastId, stored, status, outcome, chatOpen, told, opens>>
      BY <2>4 DEF Crash, rowVars, seenVars
    <3>2. \A o \in OrderIds, n \in Notices : Event(o, n)' <=> Event(o, n)
      BY <3>1 DEF Event
    <3>3. RowInv' /\ ToldInv'
      BY <3>1, <3>2 DEF NoticesAreTrue, RowInv, ToldInv
    <3>4. OwesInv'
      BY <2>4 DEF Crash, OwesInv, Owes, OwingPCs, At
    <3> QED
      BY <3>3, <3>4 DEF NoticesAreTrue
  <2>5. CASE UNCHANGED vars
    BY <2>5, NoticesUntouched DEF vars, rowVars, taskVars, locals, seenVars
  <2> QED
    BY <2>1, <2>2, <2>3, <2>4, <2>5, NoticesStep, NoticesTap DEF Next
<1> QED
  BY <1>1, <1>2, TypeCorrect, PTL DEF Spec

(* No customer is sent the same notice about an order twice.               *)
THEOREM EachNoticeOnceHolds == Spec => []EachNoticeOnce
<1>1. NoticesAreTrue => EachNoticeOnce
  BY DEF NoticesAreTrue, ToldInv, EachNoticeOnce
<1> QED
  BY <1>1, NoticesCorrect, PTL

\* what EndedChatStaysEnded says of one step
NoReopening ==
  \A o \in OrderIds : o \in chatOpen' =>
    \/ o \in chatOpen /\ outcome'[o] = outcome[o]
    \/ o \notin chatOpen /\ opens[o] = 0

\* a step that opens nothing and records no outcome
LEMMA ClosesOnly ==
  ASSUME UNCHANGED outcome, chatOpen' \subseteq chatOpen
  PROVE  NoReopening
BY DEF NoReopening

\* an outcome is recorded and the chat closed with it
LEMMA EndsChat ==
  ASSUME TypeOK, NEW o \in OrderIds, NEW c,
         outcome' = [outcome EXCEPT ![o] = c], chatOpen' = chatOpen \ {o}
  PROVE  NoReopening
BY DEF NoReopening, TypeOK, RowTypeOK

\* the accept handler opens the chat of an order nobody else opens
LEMMA OpensFirst ==
  ASSUME TypeOK, NoticesAreTrue, NEW t \in Tasks, DecideOpen(t)
  PROVE  NoReopening
<1>1. opens[ord[t]] = 0 /\ UNCHANGED outcome
  BY DEF DecideOpen, NoticesAreTrue, OwesInv
<1>2. chatOpen' \subseteq chatOpen \cup {ord[t]}
  BY DEF DecideOpen
<1> QED
  BY <1>1, <1>2 DEF NoReopening

\* every step of a running handler
LEMMA StepReopensNothing ==
  ASSUME TypeOK, NoticesAreTrue, NEW t \in Tasks, Step(t)
  PROVE  NoReopening
<1>1. CASE DecideOpen(t)
  BY <1>1, OpensFirst
<1>2. CASE CloseChat(t)
  BY <1>2, ClosesOnly DEF CloseChat
<1>3. CASE PurgeDelete(t)
  BY <1>3, ClosesOnly DEF PurgeDelete
<1>4. CASE ~ (DecideOpen(t) \/ CloseChat(t) \/ PurgeDelete(t))
  <2>1. UNCHANGED <<outcome, chatOpen>>
    BY <1>4 DEF Step, rowVars, ConfirmDeclined, ConfirmData, ConfirmUnavailable, ConfirmAvailable,
      ConfirmDuplicate, ConfirmCreate, ConfirmIncomplete, ConfirmNotify, ConfirmSave, ConfirmEnd,
      DecideGet, DecideTell, DecideCards, FinishGet, FinishCards, FinishTell,
      WithdrawTell, WithdrawGet, WithdrawCards, CloseTell
  <2> QED
    BY <2>1, ClosesOnly
<1> QED
  BY <1>1, <1>2, <1>3, <1>4

\* every tap
LEMMA TapReopensNothing ==
  ASSUME TypeOK, NEW t \in Tasks, Tap(t)
  PROVE  NoReopening
<1>1. ASSUME NEW o \in OrderIds, NEW result \in {"completed", "cancelled"}, StartFinish(t, o, result)
      PROVE  NoReopening
  BY <1>1, EndsChat DEF StartFinish
<1>2. ASSUME NEW o \in OrderIds, NEW u \in Users, StartWithdraw(t, o, u)
      PROVE  NoReopening
  BY <1>2, EndsChat DEF StartWithdraw
<1>3. ASSUME \/ \E u \in Users, answer \in {"yes", "no"} : StartConfirm(t, u, answer)
             \/ \E o \in OrderIds, verdict \in {"accepted", "rejected"} : StartDecide(t, o, verdict)
             \/ \E o \in OrderIds : StartClose(t, o)
             \/ \E ids \in SUBSET OrderIds : StartPurge(t, ids)
      PROVE  NoReopening
  <2>1. UNCHANGED <<outcome, chatOpen>>
    BY <1>3 DEF StartConfirm, StartDecide, StartClose, StartPurge, rowVars
  <2> QED
    BY <2>1, ClosesOnly
<1> QED
  BY <1>1, <1>2, <1>3 DEF Tap

(* A chat is opened only once: whoever closes it, and whichever handler,   *)
(* restart or failure comes after, an order whose chat was open before     *)
(* never has it opened again, and an outcome closes it.  The only opening  *)
(* is the accept handler's, and OwesInv says nobody opened the chat of the *)
(* order it is about to open.                                              *)
THEOREM EndedChatStaysEndedHolds == Spec => EndedChatStaysEnded
<1>1. TypeOK /\ NoticesAreTrue /\ [Next]_vars => [NoReopening]_vars
  <2> SUFFICES ASSUME TypeOK, NoticesAreTrue, Next PROVE NoReopening
    OBVIOUS
  <2>1. ASSUME NEW t \in Tasks, Step(t) \/ Tap(t) PROVE NoReopening
    BY <2>1, StepReopensNothing, TapReopensNothing
  <2>2. ASSUME NEW t \in Tasks, HandlerFails(t) PROVE NoReopening
    BY <2>2, ClosesOnly DEF HandlerFails, rowVars
  <2>3. ASSUME NEW u \in Users, FormStep(u) PROVE NoReopening
    BY <2>3, ClosesOnly DEF FormStep, FillForm, DropForm, OpenForm, rowVars
  <2>4. ASSUME NEW o \in OrderIds, AgeOrder(o) PROVE NoReopening
    BY <2>4, ClosesOnly DEF AgeOrder
  <2>5. CASE Crash
    BY <2>5, ClosesOnly DEF Crash, rowVars
  <2> QED
    BY <2>1, <2>2, <2>3, <2>4, <2>5 DEF Next
<1>2. [NoReopening]_vars <=> [\A o \in OrderIds : o \in chatOpen' =>
                               \/ o \in chatOpen /\ outcome'[o] = outcome[o]
                               \/ o \notin chatOpen /\ opens[o] = 0]_vars
  BY DEF NoReopening
<1> QED
  BY <1>1, <1>2, TypeCorrect, NoticesCorrect, PTL DEF Spec, EndedChatStaysEnded

-----------------------------------------------------------------------------
(* Refinement: every step of the handlers is one step of the promise of    *)
(* OrderSpec or leaves it unchanged.                                       *)

phases == [o \in OrderIds |-> PhaseOf(o)]
notices == [o \in OrderIds |-> {n \in Notices : told[o][n] > 0}]

\* what the phases are, away from the CASE that defines them
LEMMA PhaseValues ==
  ASSUME RowTypeOK, RowInv, NEW o \in OrderIds
  PROVE  /\ status[o] \in {"none", "pending"} => PhaseOf(o) = status[o]
         /\ status[o] = "accepted" => PhaseOf(o) = IF outcome[o] = "" THEN "accepted" ELSE outcome[o]
         /\ status[o] = "rejected" => PhaseOf(o) = IF outcome[o] = "" THEN "rejected" ELSE "withdrawn"
BY DEF PhaseOf, RowTypeOK, RowInv

\* the phase of an order an event has happened to justifies the notice of the event
LEMMA EventJustifies ==
  ASSUME RowTypeOK, RowInv, NEW o \in OrderIds, NEW n \in Notices, Event(o, n)
  PROVE  PhaseOf(o) \in Promise!Justifies(n)
BY PhaseValues DEF Event, Notices, Promise!Justifies, RowTypeOK

\* A step that writes neither the status nor the outcome of an order leaves every phase of the
\* promise alone.
LEMMA SamePhases ==
  ASSUME UNCHANGED <<status, outcome>>
  PROVE  phases' = phases
BY DEF phases, PhaseOf

\* A step that writes the status and the outcome of one order changes the phase of that order
\* only.
LEMMA OnePhaseChanges ==
  ASSUME TypeOK, NEW o \in OrderIds, NEW s, NEW c, NEW ph,
         status' = [status EXCEPT ![o] = s], outcome' = [outcome EXCEPT ![o] = c],
         PhaseOf(o)' = ph
  PROVE  phases' = [phases EXCEPT ![o] = ph]
<1>1. \A o2 \in OrderIds : o2 # o => PhaseOf(o2)' = PhaseOf(o2)
  BY DEF PhaseOf, TypeOK, RowTypeOK
<1> QED
  BY <1>1 DEF phases

\* A step that tells nobody anything leaves the notices of the promise alone.
LEMMA SameNotices ==
  ASSUME UNCHANGED told
  PROVE  notices' = notices
BY DEF notices

\* a message to a customer is a Hear of the promise
LEMMA TellHears ==
  ASSUME TypeOK, NoticesAreTrue, NEW t \in Tasks, pc[t] \in OwingPCs,
         Tell(ord[t], what[t]), UNCHANGED rowVars
  PROVE  Promise!Next
<1> USE DEF TypeOK, NoticesAreTrue
<1>1. PICK o \in OrderIds, n \in Notices : o = ord[t] /\ n = what[t]
  BY DEF OwesInv
<1>2. Event(o, n)
  BY <1>1 DEF OwesInv, Owes
<1>3. \A o2 \in OrderIds, n2 \in Notices :
        told'[o2][n2] = IF o2 = o /\ n2 = n THEN told[o][n] + 1 ELSE told[o2][n2]
  BY <1>1, TellValues
<1>4. told[o][n] + 1 > 0
  <2>1. told[o][n] \in Nat
    BY DEF SeenTypeOK
  <2> QED
    BY <2>1
<1>5. notices' = [notices EXCEPT ![o] = @ \cup {n}]
  <2>1. \A o2 \in OrderIds : {n2 \in Notices : told'[o2][n2] > 0} =
          IF o2 = o THEN {n2 \in Notices : told[o2][n2] > 0} \cup {n}
                    ELSE {n2 \in Notices : told[o2][n2] > 0}
    BY <1>3, <1>4
  <2> QED
    BY <2>1 DEF notices
<1>6. phases' = phases /\ stored' = stored
  BY SamePhases DEF rowVars
<1>7. phases[o] \in Promise!Justifies(n)
  BY <1>2, EventJustifies DEF phases
<1>8. Promise!Hear(o, n)
  BY <1>5, <1>6, <1>7 DEF Promise!Hear, phases, notices
<1> QED
  BY <1>8 DEF Promise!Next, Promise!OrderIds, OrderIds, Promise!Notices, Notices

\* a step that changes no verdict, no outcome, no row's existence and no notice
LEMMA QuietStutters ==
  ASSUME UNCHANGED <<stored, status, outcome, told>>
  PROVE  UNCHANGED Promise!vars
BY SamePhases, SameNotices DEF Promise!vars, phases, notices

\* create_order is a Place
LEMMA CreatePlaces ==
  ASSUME TypeOK, NoticesAreTrue, NEW t \in Tasks, ConfirmCreate(t)
  PROVE  Promise!Next
<1> USE DEF TypeOK, NoticesAreTrue
<1>1. PICK o \in OrderIds : o = lastId + 1
  BY DEF ConfirmCreate
<1>2. status[o] = "none"
  <2>1. o > lastId
    BY <1>1, LastIdNat
  <2> QED
    BY <2>1 DEF RowInv
<1>3. phases[o] = "none"
  BY <1>2, PhaseValues DEF phases
<1>4. status' = [status EXCEPT ![o] = "pending"] /\ outcome' = [outcome EXCEPT ![o] = outcome[o]]
  BY <1>1 DEF ConfirmCreate, RowTypeOK
<1>5. PhaseOf(o)' = "pending"
  BY <1>4 DEF PhaseOf, RowTypeOK
<1>6. phases' = [phases EXCEPT ![o] = "pending"]
  BY <1>4, <1>5, OnePhaseChanges
<1>7. stored' = stored \cup {o} /\ notices' = notices
  BY <1>1, SameNotices DEF ConfirmCreate, seenVars
<1>8. Promise!Place(o)
  BY <1>3, <1>6, <1>7 DEF Promise!Place, phases, notices
<1> QED
  BY <1>8 DEF Promise!Next, Promise!OrderIds, OrderIds

\* a won decide_order is a Decide
LEMMA DecideDecides ==
  ASSUME TypeOK, NoticesAreTrue, NEW t \in Tasks, NEW o \in OrderIds,
         NEW verdict \in {"accepted", "rejected"}, StartDecide(t, o, verdict)
  PROVE  Promise!Next
<1> USE DEF TypeOK, NoticesAreTrue
<1>1. phases[o] = "pending" /\ outcome[o] = ""
  BY PhaseValues DEF StartDecide, Pending, phases, RowInv
<1>2. status' = [status EXCEPT ![o] = verdict] /\ outcome' = [outcome EXCEPT ![o] = ""]
  BY <1>1 DEF StartDecide, RowTypeOK
<1>3. PhaseOf(o)' = verdict
  BY <1>2 DEF PhaseOf, RowTypeOK
<1>4. phases' = [phases EXCEPT ![o] = verdict]
  BY <1>2, <1>3, OnePhaseChanges
<1>5. stored' = stored /\ notices' = notices
  BY SameNotices DEF StartDecide, seenVars
<1>6. Promise!Decide(o, verdict)
  BY <1>1, <1>4, <1>5 DEF Promise!Decide, phases, notices
<1> QED
  BY <1>6 DEF Promise!Next, Promise!OrderIds, OrderIds

\* a won cancel_pending_by_user is a Decide
LEMMA WithdrawDecides ==
  ASSUME TypeOK, NoticesAreTrue, NEW t \in Tasks, NEW o \in OrderIds, NEW u \in Users,
         StartWithdraw(t, o, u)
  PROVE  Promise!Next
<1> USE DEF TypeOK, NoticesAreTrue
<1>1. phases[o] = "pending"
  BY PhaseValues DEF StartWithdraw, Pending, phases
<1>2. status' = [status EXCEPT ![o] = "rejected"] /\ outcome' = [outcome EXCEPT ![o] = "cancelled"]
  BY DEF StartWithdraw
<1>3. PhaseOf(o)' = "withdrawn"
  BY <1>2 DEF PhaseOf, RowTypeOK
<1>4. phases' = [phases EXCEPT ![o] = "withdrawn"]
  BY <1>2, <1>3, OnePhaseChanges
<1>5. stored' = stored /\ notices' = notices
  BY SameNotices DEF StartWithdraw, seenVars
<1>6. Promise!Decide(o, "withdrawn")
  BY <1>1, <1>4, <1>5 DEF Promise!Decide, phases, notices
<1> QED
  BY <1>6 DEF Promise!Next, Promise!OrderIds, OrderIds

\* a won finish_order is a Finish
LEMMA FinishFinishes ==
  ASSUME TypeOK, NoticesAreTrue, NEW t \in Tasks, NEW o \in OrderIds,
         NEW result \in {"completed", "cancelled"}, StartFinish(t, o, result)
  PROVE  Promise!Next
<1> USE DEF TypeOK, NoticesAreTrue
<1>1. phases[o] = "accepted" /\ status[o] = "accepted"
  BY PhaseValues DEF StartFinish, InProgress, phases
<1>2. status' = [status EXCEPT ![o] = "accepted"] /\ outcome' = [outcome EXCEPT ![o] = result]
  BY <1>1 DEF StartFinish, RowTypeOK
<1>3. PhaseOf(o)' = result
  BY <1>2 DEF PhaseOf, RowTypeOK
<1>4. phases' = [phases EXCEPT ![o] = result]
  BY <1>2, <1>3, OnePhaseChanges
<1>5. stored' = stored /\ notices' = notices
  BY SameNotices DEF StartFinish, seenVars
<1>6. Promise!Finish(o, result)
  BY <1>1, <1>4, <1>5 DEF Promise!Finish, phases, notices
<1> QED
  BY <1>6 DEF Promise!Next, Promise!OrderIds, OrderIds

\* purge_finished_orders is a Forget
LEMMA PurgeForgets ==
  ASSUME TypeOK, NoticesAreTrue, NEW t \in Tasks, PurgeDelete(t)
  PROVE  Promise!Next
<1> USE DEF TypeOK, NoticesAreTrue
<1>1. PICK gone \in SUBSET OrderIds : gone = {o \in batch[t] : Finished(o)}
  BY DEF TaskTypeOK
<1>2. \A o \in gone : o \in stored /\ phases[o] \in Promise!FinalPhases
  BY <1>1, PhaseValues DEF Finished, phases, Promise!FinalPhases, RowTypeOK
<1>3. stored' = stored \ gone /\ phases' = phases /\ notices' = notices
  BY <1>1, SamePhases, SameNotices DEF PurgeDelete, seenVars
<1>4. Promise!Forget(gone)
  BY <1>2, <1>3 DEF Promise!Forget, phases, notices
<1> QED
  BY <1>4 DEF Promise!Next, Promise!OrderIds, OrderIds

\* every step of a running handler
LEMMA StepKeepsPromise ==
  ASSUME TypeOK, NoticesAreTrue, NEW t \in Tasks, Step(t)
  PROVE  [Promise!Next]_(Promise!vars)
<1> USE QuietStutters DEF rowVars, seenVars
<1>1. CASE ConfirmDeclined(t)
  BY <1>1 DEF ConfirmDeclined
<1>2. CASE ConfirmData(t)
  BY <1>2 DEF ConfirmData
<1>3. CASE ConfirmUnavailable(t)
  BY <1>3 DEF ConfirmUnavailable
<1>4. CASE ConfirmAvailable(t)
  BY <1>4 DEF ConfirmAvailable
<1>5. CASE ConfirmDuplicate(t)
  BY <1>5 DEF ConfirmDuplicate
<1>6. CASE ConfirmCreate(t)
  BY <1>6, CreatePlaces
<1>7. CASE ConfirmIncomplete(t)
  BY <1>7 DEF ConfirmIncomplete
<1>8. CASE ConfirmNotify(t)
  BY <1>8 DEF ConfirmNotify
<1>9. CASE ConfirmSave(t)
  BY <1>9 DEF ConfirmSave
<1>10. CASE ConfirmEnd(t)
  BY <1>10 DEF ConfirmEnd
<1>11. CASE DecideOpen(t)
  BY <1>11 DEF DecideOpen
<1>12. CASE DecideGet(t)
  BY <1>12 DEF DecideGet
<1>13. CASE DecideTell(t)
  BY <1>13, TellHears DEF DecideTell, At, OwingPCs
<1>14. CASE DecideCards(t)
  BY <1>14 DEF DecideCards
<1>15. CASE FinishGet(t)
  BY <1>15 DEF FinishGet
<1>16. CASE FinishCards(t)
  BY <1>16 DEF FinishCards
<1>17. CASE FinishTell(t)
  BY <1>17, TellHears DEF FinishTell, At, OwingPCs
<1>18. CASE WithdrawTell(t)
  BY <1>18, TellHears DEF WithdrawTell, At, OwingPCs
<1>19. CASE WithdrawGet(t)
  BY <1>19 DEF WithdrawGet
<1>20. CASE WithdrawCards(t)
  BY <1>20 DEF WithdrawCards
<1>21. CASE CloseChat(t)
  BY <1>21 DEF CloseChat
<1>22. CASE CloseTell(t)
  BY <1>22, TellHears DEF CloseTell, At, OwingPCs
<1>23. CASE PurgeDelete(t)
  BY <1>23, PurgeForgets
<1> QED
  BY ONLY Step(t), <1>1, <1>2, <1>3, <1>4, <1>5, <1>6, <1>7, <1>8, <1>9, <1>10, <1>11, <1>12, <1>13, <1>14, <1>15, <1>16, <1>17, <1>18, <1>19, <1>20, <1>21, <1>22, <1>23 DEF Step

(* Every interleaving of customers, admins, failures and restarts keeps    *)
(* the promise of OrderSpec.                                               *)
THEOREM OrdersImplementPromise == Spec => KeepsPromise
<1>1. Init => Promise!Init
  <2> SUFFICES ASSUME Init PROVE Promise!Init
    OBVIOUS
  <2>1. phases = [o \in OrderIds |-> "none"]
    BY DEF Init, phases, PhaseOf
  <2>2. notices = [o \in OrderIds |-> {}]
    <3>1. \A o \in OrderIds, n \in Notices : told[o][n] = 0
      BY DEF Init
    <3>2. \A o \in OrderIds : {n \in Notices : told[o][n] > 0} = {}
      BY <3>1
    <3> QED
      BY <3>2 DEF notices
  <2>3. stored = {}
    BY DEF Init
  <2> QED
    BY <2>1, <2>2, <2>3 DEF Promise!Init, phases, notices, Promise!OrderIds, OrderIds
<1>2. TypeOK /\ NoticesAreTrue /\ [Next]_vars => [Promise!Next]_(Promise!vars)
  <2> SUFFICES ASSUME TypeOK, NoticesAreTrue, [Next]_vars
               PROVE  [Promise!Next]_(Promise!vars)
    OBVIOUS
  <2> USE QuietStutters DEF rowVars, seenVars
  <2>1. ASSUME NEW t \in Tasks, Tap(t) PROVE [Promise!Next]_(Promise!vars)
    <3>1. ASSUME NEW u \in Users, NEW answer \in {"yes", "no"}, StartConfirm(t, u, answer)
          PROVE  UNCHANGED Promise!vars
      BY <3>1 DEF StartConfirm
    <3>2. ASSUME NEW o \in OrderIds, StartClose(t, o)
          PROVE  UNCHANGED Promise!vars
      BY <3>2 DEF StartClose
    <3>3. ASSUME NEW ids \in SUBSET OrderIds, StartPurge(t, ids)
          PROVE  UNCHANGED Promise!vars
      BY <3>3 DEF StartPurge
    <3> QED
      BY <2>1, <3>1, <3>2, <3>3, DecideDecides, WithdrawDecides, FinishFinishes DEF Tap
  <2>2. ASSUME NEW t \in Tasks, HandlerFails(t) PROVE UNCHANGED Promise!vars
    BY <2>2 DEF HandlerFails
  <2>3. ASSUME NEW u \in Users, FormStep(u) PROVE UNCHANGED Promise!vars
    BY <2>3 DEF FormStep, FillForm, DropForm, OpenForm
  <2>4. ASSUME NEW o \in OrderIds, AgeOrder(o) PROVE UNCHANGED Promise!vars
    BY <2>4 DEF AgeOrder
  <2>5. CASE Crash
    BY <2>5 DEF Crash
  <2>6. CASE UNCHANGED vars
    BY <2>6 DEF vars
  <2> QED
    BY <2>1, <2>2, <2>3, <2>4, <2>5, <2>6, StepKeepsPromise DEF Next
<1> QED
  BY <1>1, <1>2, TypeCorrect, NoticesCorrect, PTL DEF Spec, KeepsPromise, Promise!Spec
=============================================================================

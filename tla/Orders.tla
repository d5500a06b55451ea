------------------------------- MODULE Orders -------------------------------
(***************************************************************************)
(* Order rows and the handlers that change them: the customer's            *)
(* confirmation and withdrawal, the admins' verdict, outcome, end-of-chat  *)
(* and clean-up (db/orders.py, handlers/client.py,                         *)
(* handlers/admin_products.py).                                            *)
(*                                                                         *)
(* Every handler invocation is an asyncio task.  It runs without           *)
(* interruption from one await on the database or on Telegram to the next, *)
(* so one action stands for one database transaction (or one message to a  *)
(* customer) with everything the handler does up to its next await.        *)
(* Between two actions of a task any other task may run, the handler may   *)
(* die of an exception, or the whole process may be killed.                *)
(*                                                                         *)
(* A handler whose first conditional UPDATE changes no row only shows an   *)
(* alert; that branch changes nothing and is left to stuttering.           *)
(***************************************************************************)
EXTENDS Naturals, FiniteSets

CONSTANTS
  MaxOrders,   \* bound: order ids handed out in a behaviour
  Users,       \* customers
  Products,
  Tasks,       \* handler invocations that may be running at the same time
  MaxFaults,   \* bound: failed handlers plus process crashes
  NoUser, NoProduct

ASSUME OrdersAssumption ==
  /\ MaxOrders \in Nat
  /\ MaxFaults \in Nat
  /\ NoUser \notin Users
  /\ NoProduct \notin Products

OrderIds == 1 .. MaxOrders

NoOrder == 0

Notices == {"accepted", "rejected", "withdrawn", "closed", "completed", "cancelled"}

VARIABLES
  \* the orders table
  lastId,      \* the highest order_id handed out (AUTOINCREMENT: never reused)
  stored,      \* ids of the rows in the table
  status,      \* status, kept in the model after the row is deleted
  outcome,     \* outcome, likewise
  chatOpen,    \* the orders with chat_open set
  buyer,       \* user_id
  item,        \* product_id
  recent,      \* orders created within the last ten minutes
  \* process memory, lost in a crash
  form,        \* the product of each customer's order form (MemoryStorage)
  filled,      \* customers whose form waits at the summary (OrderFlow.confirming)
  confirming,  \* _confirming
  pc,          \* what each running handler is about to do ("idle": no handler)
  who,         \* locals of the handler running as t: the customer ...
  wants,       \* ... the product of the form it confirms
  ord,         \* ... the order it works on
  what,        \* ... the answer, the verdict or the notice
  batch,       \* ... the order ids it deletes
  \* what the customers saw, and bookkeeping of the model
  told,        \* told[o][n]: how often the customer was sent notice n about o
  opens,       \* opens[o]: how often the live chat of o went from closed to open
  faults

rowVars == <<lastId, stored, status, outcome, chatOpen, buyer, item, recent>>
memVars == <<form, filled, confirming>>
seenVars == <<told, opens>>
locals == <<who, wants, ord, what, batch>>
taskVars == <<pc, locals>>
vars == <<rowVars, memVars, taskVars, seenVars, faults>>

-----------------------------------------------------------------------------
(* Tasks *)

ConfirmPCs == {"c_data", "c_product", "c_dup", "c_create", "c_notify", "c_save", "c_end"}
DecidePCs == {"d_open", "d_get", "d_tell", "d_cards"}
FinishPCs == {"f_get", "f_cards", "f_tell"}
WithdrawPCs == {"w_tell", "w_get", "w_cards"}
ClosePCs == {"k_close", "k_tell"}
PurgePCs == {"p_delete"}
PCs == ConfirmPCs \cup DecidePCs \cup FinishPCs \cup WithdrawPCs \cup ClosePCs
         \cup PurgePCs \cup {"idle"}

\* the values of what: an answer, the completeness of a form's data, a notice
Words == {"", "yes", "no", "full", "partial"} \cup Notices

Free(t) == pc[t] = "idle"

At(t, label) == pc[t] = label

Goto(t, label) ==
  /\ pc' = [pc EXCEPT ![t] = label]
  /\ UNCHANGED locals

\* a handler goes on with these local variables
Run(t, label, u, p, o, w, ids) ==
  /\ pc' = [pc EXCEPT ![t] = label]
  /\ who' = [who EXCEPT ![t] = u]
  /\ wants' = [wants EXCEPT ![t] = p]
  /\ ord' = [ord EXCEPT ![t] = o]
  /\ what' = [what EXCEPT ![t] = w]
  /\ batch' = [batch EXCEPT ![t] = ids]

\* the start of a handler that works on order o
StartOn(t, label, o, w) == Free(t) /\ Run(t, label, NoUser, NoProduct, o, w, {})

Done(t) == Run(t, "idle", NoUser, NoProduct, NoOrder, "", {})

Init ==
  /\ lastId = 0
  /\ stored = {}
  /\ status = [o \in OrderIds |-> "none"]
  /\ outcome = [o \in OrderIds |-> ""]
  /\ chatOpen = {}
  /\ buyer = [o \in OrderIds |-> NoUser]
  /\ item = [o \in OrderIds |-> NoProduct]
  /\ recent = {}
  /\ form = [u \in Users |-> NoProduct]
  /\ filled = {}
  /\ confirming = {}
  /\ pc = [t \in Tasks |-> "idle"]
  /\ who = [t \in Tasks |-> NoUser]
  /\ wants = [t \in Tasks |-> NoProduct]
  /\ ord = [t \in Tasks |-> NoOrder]
  /\ what = [t \in Tasks |-> ""]
  /\ batch = [t \in Tasks |-> {}]
  /\ told = [o \in OrderIds |-> [n \in Notices |-> 0]]
  /\ opens = [o \in OrderIds |-> 0]
  /\ faults = 0

-----------------------------------------------------------------------------
(* Order rows *)

Pending(o) == o \in stored /\ status[o] = "pending"

InProgress(o) == o \in stored /\ status[o] = "accepted" /\ outcome[o] = ""

\* _FINISHED
Finished(o) ==
  /\ o \in stored
  /\ \/ status[o] = "rejected"
     \/ status[o] = "accepted" /\ outcome[o] # ""

recent_pending_exists(u, p) ==
  \E o \in recent : Pending(o) /\ buyer[o] = u /\ item[o] = p

Tell(o, n) == told' = [told EXCEPT ![o][n] = @ + 1]

-----------------------------------------------------------------------------
(* The order form.  Its steps are collapsed here to "started" and "filled  *)
(* in and waiting at the summary".                                         *)

\* state.clear()
ClearForm(u) ==
  /\ form' = [form EXCEPT ![u] = NoProduct]
  /\ filled' = filled \ {u}

\* on_product_order: a new form replaces whatever form was there
OpenForm(u, p) ==
  /\ form' = [form EXCEPT ![u] = p]
  /\ filled' = filled \ {u}
  /\ UNCHANGED <<rowVars, confirming, taskVars, seenVars, faults>>

\* _show_summary: the last step of the form puts it in the confirming state
FillForm(u) ==
  /\ form[u] # NoProduct
  /\ filled' = filled \cup {u}
  /\ UNCHANGED <<rowVars, form, confirming, taskVars, seenVars, faults>>

\* cmd_cancel, and a product deep link, which abandons the form
DropForm(u) ==
  /\ ClearForm(u)
  /\ UNCHANGED <<rowVars, confirming, taskVars, seenVars, faults>>

-----------------------------------------------------------------------------
(* on_confirm *)

\* bound: confirmations are only started while an order id is left for each
Capacity == lastId + Cardinality({t \in Tasks : pc[t] \in ConfirmPCs}) < MaxOrders

\* broken: two taps are both let in
StartConfirmUnguarded(t, u, answer) ==
  /\ Capacity
  /\ u \in filled
  /\ Free(t)
  /\ Run(t, "c_data", u, NoProduct, NoOrder, answer, {})
  /\ confirming' = confirming \cup {u}
  /\ UNCHANGED <<rowVars, form, filled, seenVars, faults>>

\* a tap while the customer is in _confirming returns at once
StartConfirm(t, u, answer) ==
  /\ Capacity
  /\ u \in filled
  /\ u \notin confirming
  /\ Free(t)
  /\ Run(t, "c_data", u, NoProduct, NoOrder, answer, {})
  /\ confirming' = confirming \cup {u}
  /\ UNCHANGED <<rowVars, form, filled, seenVars, faults>>

\* "no", or the form is gone or has expired: the form is cleared and nothing is ordered
ConfirmDeclined(t) ==
  /\ At(t, "c_data")
  /\ ClearForm(who[t])
  /\ Goto(t, "c_end")
  /\ UNCHANGED <<rowVars, confirming, seenVars, faults>>

\* the form's data is read here, after an await, and used until the order is created
ConfirmData(t) ==
  LET u == who[t] IN
    /\ At(t, "c_data")
    /\ what[t] = "yes"
    /\ form[u] # NoProduct
    /\ Run(t, "c_product", u, form[u], NoOrder, IF u \in filled THEN "full" ELSE "partial", {})
    /\ UNCHANGED <<rowVars, memVars, seenVars, faults>>

\* broken: this early return is not inside the try block
ConfirmUnavailableLeaks(t) ==
  /\ At(t, "c_product")
  /\ ClearForm(who[t])
  /\ Done(t)
  /\ UNCHANGED <<rowVars, confirming, seenVars, faults>>

\* product missing, sold or removed (products are not modelled here: either may be read)
ConfirmUnavailable(t) ==
  /\ At(t, "c_product")
  /\ ClearForm(who[t])
  /\ Goto(t, "c_end")
  /\ UNCHANGED <<rowVars, confirming, seenVars, faults>>

ConfirmAvailable(t) ==
  /\ At(t, "c_product")
  /\ Goto(t, "c_dup")
  /\ UNCHANGED <<rowVars, memVars, seenVars, faults>>

ConfirmDuplicate(t) ==
  /\ At(t, "c_dup")
  /\ IF recent_pending_exists(who[t], wants[t])
       THEN /\ ClearForm(who[t])
            /\ Goto(t, "c_end")
       ELSE /\ UNCHANGED <<form, filled>>
            /\ Goto(t, "c_create")
  /\ UNCHANGED <<rowVars, confirming, seenVars, faults>>

\* create_order and, before the next await, state.clear()
ConfirmCreate(t) ==
  LET o == lastId + 1
      u == who[t]
  IN
    /\ At(t, "c_create")
    /\ what[t] = "full"
    /\ o \in OrderIds
    /\ lastId' = o
    /\ stored' = stored \cup {o}
    /\ status' = [status EXCEPT ![o] = "pending"]
    /\ buyer' = [buyer EXCEPT ![o] = u]
    /\ item' = [item EXCEPT ![o] = wants[t]]
    /\ recent' = recent \cup {o}
    /\ ClearForm(u)
    /\ Run(t, "c_notify", u, wants[t], o, "full", {})
    /\ UNCHANGED <<outcome, chatOpen, confirming, seenVars, faults>>

\* the data read at c_data came from a form that was restarted meanwhile: KeyError
ConfirmIncomplete(t) ==
  /\ At(t, "c_create")
  /\ what[t] = "partial"
  /\ Goto(t, "c_end")
  /\ UNCHANGED <<rowVars, memVars, seenVars, faults>>

\* _notify_admins: reads the order, which may be gone, and sends the cards
ConfirmNotify(t) ==
  /\ At(t, "c_notify")
  /\ Goto(t, IF ord[t] \in stored THEN "c_save" ELSE "c_end")
  /\ UNCHANGED <<rowVars, memVars, seenVars, faults>>

\* set_admin_msgs (the column itself is the state of OrderCards)
ConfirmSave(t) ==
  /\ At(t, "c_save")
  /\ Goto(t, "c_end")
  /\ UNCHANGED <<rowVars, memVars, seenVars, faults>>

\* finally: _confirming.discard
ConfirmEnd(t) ==
  /\ At(t, "c_end")
  /\ confirming' = confirming \ {who[t]}
  /\ Done(t)
  /\ UNCHANGED <<rowVars, form, filled, seenVars, faults>>

-----------------------------------------------------------------------------
(* on_order_decision *)

\* broken: decide_order without its status = 'pending' condition
StartDecideAgain(t, o, verdict) ==
  /\ o \in stored
  /\ status' = [status EXCEPT ![o] = verdict]
  /\ StartOn(t, IF verdict = "accepted" THEN "d_open" ELSE "d_get", o, verdict)
  /\ UNCHANGED <<lastId, stored, outcome, chatOpen, buyer, item, recent, memVars, seenVars, faults>>

\* decide_order changed the row
StartDecide(t, o, verdict) ==
  /\ Pending(o)
  /\ status' = [status EXCEPT ![o] = verdict]
  /\ StartOn(t, IF verdict = "accepted" THEN "d_open" ELSE "d_get", o, verdict)
  /\ UNCHANGED <<lastId, stored, outcome, chatOpen, buyer, item, recent, memVars, seenVars, faults>>

\* set_chat_open(order_id, True): no condition on the row but its id
DecideOpen(t) ==
  LET o == ord[t] IN
    /\ At(t, "d_open")
    /\ IF o \in stored
         THEN /\ chatOpen' = chatOpen \cup {o}
              /\ opens' = [opens EXCEPT ![o] = IF o \in chatOpen THEN @ ELSE @ + 1]
         ELSE UNCHANGED <<chatOpen, opens>>
    /\ Goto(t, "d_get")
    /\ UNCHANGED <<lastId, stored, status, outcome, buyer, item, recent, memVars, told, faults>>

\* broken: the handler returns when it finds the chat already closed again
DecideGetGivesUp(t) ==
  /\ At(t, "d_get")
  /\ IF ord[t] \in stored /\ ord[t] \in chatOpen THEN Goto(t, "d_tell") ELSE Done(t)
  /\ UNCHANGED <<rowVars, memVars, seenVars, faults>>

DecideGet(t) ==
  /\ At(t, "d_get")
  /\ IF ord[t] \in stored THEN Goto(t, "d_tell") ELSE Done(t)
  /\ UNCHANGED <<rowVars, memVars, seenVars, faults>>

DecideTell(t) ==
  /\ At(t, "d_tell")
  /\ Tell(ord[t], what[t])
  /\ Goto(t, "d_cards")
  /\ UNCHANGED <<rowVars, memVars, opens, faults>>

\* edits the admins' cards and registers them for replies (see OrderCards)
DecideCards(t) ==
  /\ At(t, "d_cards")
  /\ Done(t)
  /\ UNCHANGED <<rowVars, memVars, seenVars, faults>>

-----------------------------------------------------------------------------
(* on_order_finish *)

\* broken: finish_order without its outcome = '' condition
StartFinishTwice(t, o, result) ==
  /\ o \in stored /\ status[o] = "accepted"
  /\ outcome' = [outcome EXCEPT ![o] = result]
  /\ chatOpen' = chatOpen \ {o}
  /\ StartOn(t, "f_get", o, result)
  /\ UNCHANGED <<lastId, stored, status, buyer, item, recent, memVars, seenVars, faults>>

\* finish_order changed the row
StartFinish(t, o, result) ==
  /\ InProgress(o)
  /\ outcome' = [outcome EXCEPT ![o] = result]
  /\ chatOpen' = chatOpen \ {o}
  /\ StartOn(t, "f_get", o, result)
  /\ UNCHANGED <<lastId, stored, status, buyer, item, recent, memVars, seenVars, faults>>

FinishGet(t) ==
  /\ At(t, "f_get")
  /\ IF ord[t] \in stored THEN Goto(t, "f_cards") ELSE Done(t)
  /\ UNCHANGED <<rowVars, memVars, seenVars, faults>>

FinishCards(t) ==
  /\ At(t, "f_cards")
  /\ Goto(t, "f_tell")
  /\ UNCHANGED <<rowVars, memVars, seenVars, faults>>

FinishTell(t) ==
  /\ At(t, "f_tell")
  /\ Tell(ord[t], what[t])
  /\ Done(t)
  /\ UNCHANGED <<rowVars, memVars, opens, faults>>

-----------------------------------------------------------------------------
(* on_user_cancel *)

\* broken: the notice's name is stored as the outcome
StartWithdrawBadOutcome(t, o, u) ==
  /\ Pending(o)
  /\ buyer[o] = u
  /\ status' = [status EXCEPT ![o] = "rejected"]
  /\ outcome' = [outcome EXCEPT ![o] = "withdrawn"]
  /\ chatOpen' = chatOpen \ {o}
  /\ StartOn(t, "w_tell", o, "withdrawn")
  /\ UNCHANGED <<lastId, stored, buyer, item, recent, memVars, seenVars, faults>>

\* cancel_pending_by_user changed the row
StartWithdraw(t, o, u) ==
  /\ Pending(o)
  /\ buyer[o] = u
  /\ status' = [status EXCEPT ![o] = "rejected"]
  /\ outcome' = [outcome EXCEPT ![o] = "cancelled"]
  /\ chatOpen' = chatOpen \ {o}
  /\ StartOn(t, "w_tell", o, "withdrawn")
  /\ UNCHANGED <<lastId, stored, buyer, item, recent, memVars, seenVars, faults>>

WithdrawTell(t) ==
  /\ At(t, "w_tell")
  /\ Tell(ord[t], what[t])
  /\ Goto(t, "w_get")
  /\ UNCHANGED <<rowVars, memVars, opens, faults>>

WithdrawGet(t) ==
  /\ At(t, "w_get")
  /\ IF ord[t] \in stored THEN Goto(t, "w_cards") ELSE Done(t)
  /\ UNCHANGED <<rowVars, memVars, seenVars, faults>>

WithdrawCards(t) ==
  /\ At(t, "w_cards")
  /\ Done(t)
  /\ UNCHANGED <<rowVars, memVars, seenVars, faults>>

-----------------------------------------------------------------------------
(* on_chat_close *)

\* get_order found the order
StartClose(t, o) ==
  /\ o \in stored
  /\ StartOn(t, "k_close", o, "closed")
  /\ UNCHANGED <<rowVars, memVars, seenVars, faults>>

\* broken: close_chat_if_open without its chat_open condition
CloseChatBlindly(t) ==
  LET o == ord[t] IN
    /\ At(t, "k_close")
    /\ IF o \in stored
         THEN /\ chatOpen' = chatOpen \ {o}
              /\ Goto(t, "k_tell")
         ELSE /\ UNCHANGED chatOpen
              /\ Done(t)
    /\ UNCHANGED <<lastId, stored, status, outcome, buyer, item, recent, memVars, seenVars, faults>>

\* close_chat_if_open
CloseChat(t) ==
  LET o == ord[t] IN
    /\ At(t, "k_close")
    /\ IF o \in stored /\ o \in chatOpen
         THEN /\ chatOpen' = chatOpen \ {o}
              /\ Goto(t, "k_tell")
         ELSE /\ UNCHANGED chatOpen
              /\ Done(t)
    /\ UNCHANGED <<lastId, stored, status, outcome, buyer, item, recent, memVars, seenVars, faults>>

\* the card's buttons are rewritten (see OrderCards), then the customer is told
CloseTell(t) ==
  /\ At(t, "k_tell")
  /\ Tell(ord[t], what[t])
  /\ Done(t)
  /\ UNCHANGED <<rowVars, memVars, opens, faults>>

-----------------------------------------------------------------------------
(* on_clean_go: purge_finished_orders                                      *)
(* Which finished orders are old enough depends on their ages: any of them *)

StartPurge(t, ids) ==
  /\ ids # {}
  /\ \A o \in ids : Finished(o)
  /\ Free(t)
  /\ Run(t, "p_delete", NoUser, NoProduct, NoOrder, "", ids)
  /\ UNCHANGED <<rowVars, memVars, seenVars, faults>>

\* the condition is repeated in the DELETE
PurgeDelete(t) ==
  LET gone == {o \in batch[t] : Finished(o)} IN
    /\ At(t, "p_delete")
    /\ stored' = stored \ gone
    /\ chatOpen' = chatOpen \ gone
    /\ Done(t)
    /\ UNCHANGED <<lastId, status, outcome, buyer, item, recent, memVars, seenVars, faults>>

-----------------------------------------------------------------------------
(* Time and failures *)

\* ten minutes have passed since o was created
AgeOrder(o) ==
  /\ o \in recent
  /\ recent' = recent \ {o}
  /\ UNCHANGED <<lastId, stored, status, outcome, chatOpen, buyer, item, memVars, taskVars, seenVars, faults>>

\* an awaited call raises: the handler ends, on_confirm through its finally clause
HandlerFails(t) ==
  /\ faults < MaxFaults
  /\ ~Free(t)
  /\ faults' = faults + 1
  /\ confirming' = IF pc[t] \in ConfirmPCs THEN confirming \ {who[t]} ELSE confirming
  /\ Done(t)
  /\ UNCHANGED <<rowVars, form, filled, seenVars>>

\* the process is killed and started again: only the database survives
Crash ==
  /\ faults < MaxFaults
  /\ faults' = faults + 1
  /\ form' = [u \in Users |-> NoProduct]
  /\ filled' = {}
  /\ confirming' = {}
  /\ pc' = [t \in Tasks |-> "idle"]
  /\ who' = [t \in Tasks |-> NoUser]
  /\ wants' = [t \in Tasks |-> NoProduct]
  /\ ord' = [t \in Tasks |-> NoOrder]
  /\ what' = [t \in Tasks |-> ""]
  /\ batch' = [t \in Tasks |-> {}]
  /\ UNCHANGED <<rowVars, seenVars>>

-----------------------------------------------------------------------------

\* a running handler goes on
Step(t) ==
  \/ ConfirmDeclined(t) \/ ConfirmData(t) \/ ConfirmUnavailable(t) \/ ConfirmAvailable(t)
  \/ ConfirmDuplicate(t) \/ ConfirmCreate(t) \/ ConfirmIncomplete(t) \/ ConfirmNotify(t)
  \/ ConfirmSave(t) \/ ConfirmEnd(t)
  \/ DecideOpen(t) \/ DecideGet(t) \/ DecideTell(t) \/ DecideCards(t)
  \/ FinishGet(t) \/ FinishCards(t) \/ FinishTell(t)
  \/ WithdrawTell(t) \/ WithdrawGet(t) \/ WithdrawCards(t)
  \/ CloseChat(t) \/ CloseTell(t)
  \/ PurgeDelete(t)

\* a customer or an admin taps a button
Tap(t) ==
  \/ \E u \in Users, answer \in {"yes", "no"} : StartConfirm(t, u, answer)
  \/ \E o \in OrderIds :
       \/ \E verdict \in {"accepted", "rejected"} : StartDecide(t, o, verdict)
       \/ \E result \in {"completed", "cancelled"} : StartFinish(t, o, result)
       \/ \E u \in Users : StartWithdraw(t, o, u)
       \/ StartClose(t, o)
  \/ \E ids \in SUBSET OrderIds : StartPurge(t, ids)

FormStep(u) == FillForm(u) \/ DropForm(u) \/ \E p \in Products : OpenForm(u, p)

Next ==
  \/ \E t \in Tasks : Step(t) \/ Tap(t) \/ HandlerFails(t)
  \/ \E u \in Users : FormStep(u)
  \/ \E o \in OrderIds : AgeOrder(o)
  \/ Crash

Spec == Init /\ [][Next]_vars

\* the event loop resumes every task whose awaited call has returned, and every
\* awaited call returns (database and Telegram calls have time limits)
FairSpec == Spec /\ \A t \in Tasks : WF_vars(Step(t))

-----------------------------------------------------------------------------
(* Properties *)

RowTypeOK ==
  /\ lastId \in 0 .. MaxOrders
  /\ stored \in SUBSET OrderIds
  /\ status \in [OrderIds -> {"none", "pending", "accepted", "rejected"}]
  /\ outcome \in [OrderIds -> {"", "completed", "cancelled"}]
  /\ chatOpen \in SUBSET OrderIds
  /\ buyer \in [OrderIds -> Users \cup {NoUser}]
  /\ item \in [OrderIds -> Products \cup {NoProduct}]
  /\ recent \in SUBSET OrderIds

MemTypeOK ==
  /\ form \in [Users -> Products \cup {NoProduct}]
  /\ filled \in SUBSET Users
  /\ confirming \in SUBSET Users

TaskTypeOK ==
  /\ pc \in [Tasks -> PCs]
  /\ who \in [Tasks -> Users \cup {NoUser}]
  /\ wants \in [Tasks -> Products \cup {NoProduct}]
  /\ ord \in [Tasks -> OrderIds \cup {NoOrder}]
  /\ what \in [Tasks -> Words]
  /\ batch \in [Tasks -> SUBSET OrderIds]
  /\ \A t \in Tasks : pc[t] \in ConfirmPCs => who[t] \in Users

SeenTypeOK ==
  /\ told \in [OrderIds -> [Notices -> Nat]]
  /\ opens \in [OrderIds -> Nat]

TypeOK == RowTypeOK /\ MemTypeOK /\ TaskTypeOK /\ SeenTypeOK /\ faults \in 0 .. MaxFaults

(* Whoever ends a chat ends it for good: recording the outcome closes an   *)
(* open chat with the same statement (finish_order), and no verdict, late  *)
(* task or restart opens a chat again that was open before.  Not so the    *)
(* first opening: set_chat_open has no condition of its own                *)
(* (db/orders.py:143), so it may come after the outcome, against the       *)
(* comment at db/orders.py:200 (see README.md).                            *)
EndedChatStaysEnded ==
  [][\A o \in OrderIds : o \in chatOpen' =>
       \/ o \in chatOpen /\ outcome'[o] = outcome[o]
       \/ o \notin chatOpen /\ opens[o] = 0]_vars

(* Two quick taps on "confirm" never leave one customer with two fresh     *)
(* pending orders for one product (_confirming and recent_pending_exists,  *)
(* handlers/client.py:1426).                                               *)
NoDuplicateOrder ==
  \A o1, o2 \in recent :
    /\ Pending(o1) /\ Pending(o2)
    /\ buyer[o1] = buyer[o2] /\ item[o1] = item[o2]
    => o1 = o2

(* The customer is sent each notice about an order at most once, however   *)
(* many admins tap at the same instant (the rowcount of decide_order,      *)
(* finish_order and close_chat_if_open picks one winner).                  *)
EachNoticeOnce == \A o \in OrderIds : \A n \in Notices : told[o][n] <= 1

(* A customer is in _confirming exactly while one of the running handlers  *)
(* is confirming for that customer: an entry that outlived its handler     *)
(* would make every later confirmation a silent no-op.                     *)
ConfirmingIsRunning ==
  \A u \in Users :
    u \in confirming <=> \E t \in Tasks : pc[t] \in ConfirmPCs /\ who[t] = u

(* What the two properties of confirmations rest on: one confirmation per   *)
(* customer runs at a time, so nothing can be ordered between its          *)
(* duplicate check and its INSERT.                                         *)
OneConfirmation ==
  /\ \A t \in Tasks, t2 \in Tasks :
       pc[t] \in ConfirmPCs /\ pc[t2] \in ConfirmPCs /\ who[t] = who[t2] => t = t2
  /\ \A t \in Tasks :
       At(t, "c_create") =>
         \A o \in OrderIds : o \in recent /\ Pending(o) => buyer[o] # who[t] \/ item[o] # wants[t]

ConfirmInv == ConfirmingIsRunning /\ OneConfirmation /\ NoDuplicateOrder

(* What the three properties of chats and notices rest on.  A handler that *)
(* is yet to send a notice got there by winning a conditional UPDATE, so   *)
(* the event it reports has happened and nobody has reported it.           *)
\* n has happened to o, for good
Event(o, n) ==
  \/ n = "accepted" /\ status[o] = "accepted"
  \/ n = "rejected" /\ status[o] = "rejected" /\ outcome[o] = ""
  \/ n = "withdrawn" /\ status[o] = "rejected" /\ outcome[o] = "cancelled"
  \/ n \in {"completed", "cancelled"} /\ status[o] = "accepted" /\ outcome[o] = n
  \/ n = "closed" /\ status[o] = "accepted" /\ opens[o] = 1 /\ o \notin chatOpen

\* where a handler still has a notice to send
OwingPCs == {"d_open", "d_get", "d_tell", "f_get", "f_cards", "f_tell", "w_tell", "k_tell"}

\* t goes on to send notice n about o
Owes(t, o, n) == pc[t] \in OwingPCs /\ ord[t] = o /\ what[t] = n

RowInv ==
  /\ \A o \in OrderIds : o > lastId => status[o] = "none"
  /\ \A o \in stored : status[o] # "none"
  /\ \A o \in OrderIds :
       /\ status[o] \in {"none", "pending"} => outcome[o] = "" /\ opens[o] = 0
       /\ status[o] = "rejected" => outcome[o] \in {"", "cancelled"}
       /\ opens[o] \in {0, 1}
  /\ \A o \in chatOpen : o \in stored /\ status[o] = "accepted" /\ opens[o] = 1

OwesInv ==
  /\ \A t \in Tasks :
       /\ pc[t] \in OwingPCs => ord[t] \in OrderIds /\ what[t] \in Notices
       /\ At(t, "d_open") => what[t] = "accepted" /\ opens[ord[t]] = 0
       /\ At(t, "k_close") => ord[t] \in OrderIds /\ what[t] = "closed"
  /\ \A o \in OrderIds, n \in Notices, t \in Tasks :
       Owes(t, o, n) =>
         /\ Event(o, n)
         /\ told[o][n] = 0
         /\ \A t2 \in Tasks : Owes(t2, o, n) => t2 = t

ToldInv ==
  \A o \in OrderIds, n \in Notices :
    /\ told[o][n] \in {0, 1}
    /\ told[o][n] = 1 => Event(o, n)

(* No notice is sent, and none is on its way, about something that did not *)
(* happen or that was already reported, whatever tasks fail in between:    *)
(* every handler of handlers/client.py acts only on the rowcount of its    *)
(* own UPDATE.                                                             *)
NoticesAreTrue == RowInv /\ OwesInv /\ ToldInv

(* Unless the order is deleted first or a handler dies, the customer of an *)
(* accepted order hears about it: the handler that won goes on to tell.    *)
AcceptedIsTold ==
  \A o \in OrderIds :
    (status[o] = "accepted") ~> (told[o]["accepted"] > 0 \/ o \notin stored \/ faults > 0)

(* A customer can confirm again later: on_confirm always leaves            *)
(* _confirming, whichever of its returns it takes.                         *)
ConfirmationEnds == \A u \in Users : (u \in confirming) ~> (u \notin confirming)

(* Refinement of the promise in OrderSpec.                                 *)
PhaseOf(o) ==
  CASE status[o] = "accepted" /\ outcome[o] = "" -> "accepted"
    [] status[o] = "accepted" /\ outcome[o] # "" -> outcome[o]
    [] status[o] = "rejected" /\ outcome[o] = "" -> "rejected"
    [] status[o] = "rejected" /\ outcome[o] # "" -> "withdrawn"
    [] OTHER -> status[o]

Promise == INSTANCE OrderSpec WITH
  phase <- [o \in OrderIds |-> PhaseOf(o)],
  kept <- stored,
  heard <- [o \in OrderIds |-> {n \in Notices : told[o][n] > 0}]

(* Every interleaving of the handlers, failures included, keeps the        *)
(* promise: one verdict, one outcome, and no untrue notice.                *)
KeepsPromise == Promise!Spec
=============================================================================

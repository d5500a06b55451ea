----------------------------- MODULE OrderCards -----------------------------
(***************************************************************************)
(* The orders as the admins see them: the card of an order in every        *)
(* admin's chat (_notify_admins, _edit_admin_cards, _send_order_card), the *)
(* live chat with the customer and the rows that lead a reply to it        *)
(* (chat_relay), the reminders (order_reminder.py) and the clean-up of     *)
(* finished orders with their messages.                                    *)
(*                                                                         *)
(* One action is one database transaction or the calls of one loop over    *)
(* the admins, each in a chat of its own, with all the task does up to its *)
(* next await.  All orders are of one customer.                            *)
(* What the customer is told, and which orders he can place, is in Orders. *)
(* Only cards and copies of the customer's messages are messages here: the *)
(* headers, reminders and notes around them are not kept track of by the   *)
(* code, carry no buttons, and stay in the chats for good.                 *)
(***************************************************************************)
EXTENDS Naturals, FiniteSets

CONSTANTS
  NumAdmins,   \* admin_ids()
  MaxOrders,   \* bound: orders
  MaxMsgs,     \* bound: messages the bot sends to the admins
  MaxFaults,   \* bound: failed calls and crashes
  MaxMixed,    \* bound: orders whose cards two tasks work on at the same time
  RemindMax,   \* settings.order_remind_max
  BatchSize,   \* _BATCH_SIZE
  Tasks        \* handlers and jobs running at the same time

ASSUME OrderCardsAssumption ==
  /\ NumAdmins \in Nat \ {0}
  /\ MaxOrders \in Nat /\ MaxMsgs \in Nat /\ MaxFaults \in Nat /\ MaxMixed \in Nat
  /\ RemindMax \in Nat /\ BatchSize \in Nat \ {0}

Admins == 1 .. NumAdmins

Orders == 1 .. MaxOrders

NoOrder == 0

Msgs == 1 .. MaxMsgs

NoMsg == 0

\* the buttons of a message: those of a card ("none": a card without buttons),
\* the "end chat" of a relayed message, taken away from it, or the message is
\* not there
CardButtons == {"decide", "finish", "sold", "none"}
Buttons == CardButtons \cup {"chat", "ended", "hidden"}

NoCards == [a \in Admins |-> NoMsg]

VARIABLES
  order,    \* the orders table
  relay,    \* the messages chat_relay has rows for
  msg,      \* the messages in the admins' chats
  task,
  lastMsg,  \* message ids given away
  heard,    \* reminders sent for an order
  mixed,    \* orders two tasks that change cards worked on at the same time
  faults

vars == <<order, relay, msg, task, lastMsg, heard, mixed, faults>>

-----------------------------------------------------------------------------
(* Orders and messages *)

Row == [status : {"none", "pending", "accepted", "rejected", "deleted"},
        over : BOOLEAN,                       \* outcome is set
        chat : BOOLEAN,                       \* chat_open
        cards : [Admins -> Msgs \cup {NoMsg}],  \* admin_msg_ids
        count : 0 .. RemindMax]               \* remind_count

Stored(o) == order[o].status \notin {"none", "deleted"}

\* order_markup, without the chat button
Markup(row) ==
  CASE row.status = "pending" -> "decide"
    [] row.status = "accepted" /\ ~row.over -> "finish"
    [] row.status = "rejected" /\ ~row.over -> "sold"
    [] OTHER -> "none"

InProgress(o) == order[o].status = "accepted" /\ ~order[o].over

\* _FINISHED
Finished(o) == order[o].status = "rejected" \/ (order[o].status = "accepted" /\ order[o].over)

Visible(m) == msg[m].buttons # "hidden"

\* a message of order o for each admin in S: base + 1 for the first admin, and so on
Post(S, base, o, buttons) ==
  msg' = [m \in Msgs |-> IF m - base \in S THEN [of |-> o, admin |-> m - base, buttons |-> buttons] ELSE msg[m]]

\* a message that is not there cannot be edited
Relabel(S, buttons) == msg' = [m \in Msgs |-> IF m \in S /\ Visible(m) THEN [msg[m] EXCEPT !.buttons = buttons] ELSE msg[m]]

Hide(S) == msg' = [m \in Msgs |-> IF m \in S THEN [msg[m] EXCEPT !.buttons = "hidden"] ELSE msg[m]]

CardsAmong(row, S) == {row.cards[a] : a \in S} \ {NoMsg}

-----------------------------------------------------------------------------
(* Tasks *)

Free == [pc |-> "idle", kind |-> "none", list |-> {},
         rows |-> <<>>,       \* the rows of list as they were read
         admin |-> 0, refs |-> {},
         base |-> 0,          \* the task sends messages base + 1, base + 2, ...
         sent |-> NoCards]    \* cards sent so far

At(t, label) == task[t].pc = label

Become(t, r) == task' = [task EXCEPT ![t] = r]

Goto(t, label) == task' = [task EXCEPT ![t].pc = label]

Done(t) == Become(t, Free)

Least(S) == CHOOSE x \in S : \A y \in S : x <= y

\* the order a task is at
Current(t) == Least(task[t].list)

\* the row of o alone
Only(o) == [q \in {o} |-> order[o]]

RowOf(t) == task[t].rows[Current(t)]

Busy(o) == {t \in Tasks : o \in task[t].list}

\* messages of the customer and reminders touch no card; they only meet the clean-up
Apart(k1, k2) ==
  \/ "remind" \in {k1, k2}
  \/ "talk" \in {k1, k2} /\ "clean" \notin {k1, k2}

Meet(k, S) ==
  /\ mixed' = mixed \cup {o \in S : \E t \in Busy(o) : ~Apart(k, task[t].kind)}
  /\ Cardinality(mixed') <= MaxMixed

Fault == faults < MaxFaults /\ faults' = faults + 1

\* a call fails: what it would have changed stays
Missed(v) == Fault /\ UNCHANGED v

\* of the calls for all, those for S succeed
Reached(S, all) == S \subseteq all /\ IF S = all THEN UNCHANGED faults ELSE Fault

\* ids for n messages
Reserve(n) == lastMsg + n <= MaxMsgs /\ lastMsg' = lastMsg + n

Init ==
  /\ order = [o \in Orders |-> [status |-> "none", over |-> FALSE, chat |-> FALSE, cards |-> NoCards,
                                count |-> 0]]
  /\ relay = {}
  /\ msg = [m \in Msgs |-> [of |-> NoOrder, admin |-> 0, buttons |-> "hidden"]]
  /\ task = [t \in Tasks |-> Free]
  /\ lastMsg = 0
  /\ heard = [o \in Orders |-> 0]
  /\ mixed = {}
  /\ faults = 0

\* a handler of kind k begins with order o
Begin(t, k, o, label) ==
  /\ task[t] = Free
  /\ Meet(k, {o})
  /\ Become(t, [Free EXCEPT !.pc = label, !.kind = k, !.list = {o}])

-----------------------------------------------------------------------------
(* A new order *)

\* create_order
Place(t, o) ==
  /\ order[o].status = "none"
  /\ \A q \in Orders : q < o => order[q].status # "none"
  /\ order' = [order EXCEPT ![o].status = "pending"]
  /\ task[t] = Free
  /\ Reserve(NumAdmins)
  /\ Become(t, [Free EXCEPT !.pc = "n_get", !.kind = "place", !.list = {o}, !.base = lastMsg])
  /\ UNCHANGED <<relay, msg, heard, mixed, faults>>

\* get_order of _notify_admins
NotifyGet(t) ==
  /\ At(t, "n_get")
  /\ IF Stored(Current(t))
       THEN Become(t, [task[t] EXCEPT !.pc = "n_send", !.rows = Only(Current(t))])
       ELSE Done(t)
  /\ UNCHANGED <<order, relay, msg, lastMsg, heard, mixed, faults>>

\* a card for each admin; nothing is saved if none was delivered
NotifySend(t) ==
  /\ At(t, "n_send")
  /\ \E S \in SUBSET Admins :
       /\ Reached(S, Admins)
       /\ Post(S, task[t].base, Current(t), Markup(RowOf(t)))
       /\ IF S = {}
            THEN Done(t)
            ELSE Become(t, [task[t] EXCEPT !.pc = "n_save",
                                           !.sent = [a \in Admins |-> IF a \in S THEN task[t].base + a ELSE NoMsg]])
  /\ UNCHANGED <<order, relay, lastMsg, heard, mixed>>

\* set_admin_msgs
SetAdminMsgs(o, cards) == order' = IF Stored(o) THEN [order EXCEPT ![o].cards = cards] ELSE order

NotifySave(t) ==
  /\ At(t, "n_save")
  /\ SetAdminMsgs(Current(t), task[t].sent)
  /\ Done(t)
  /\ UNCHANGED <<relay, msg, lastMsg, heard, mixed, faults>>

-----------------------------------------------------------------------------
(* Verdict, outcome, withdrawal, end of the chat *)

Decide(t, o, verdict) ==
  /\ order[o].status = "pending"
  /\ order' = [order EXCEPT ![o].status = verdict]
  /\ Begin(t, "decide", o, IF verdict = "accepted" THEN "d_open" ELSE "g_get")
  /\ UNCHANGED <<relay, msg, lastMsg, heard, faults>>

\* set_chat_open
DecideOpen(t) ==
  /\ At(t, "d_open")
  /\ order' = IF Stored(Current(t)) THEN [order EXCEPT ![Current(t)].chat = TRUE] ELSE order
  /\ Become(t, [task[t] EXCEPT !.pc = "g_get", !.kind = "accept"])
  /\ UNCHANGED <<relay, msg, lastMsg, heard, mixed, faults>>

\* finish_order
Finish(t, o) ==
  /\ InProgress(o)
  /\ order' = [order EXCEPT ![o].over = TRUE, ![o].chat = FALSE]
  /\ Begin(t, "finish", o, "g_get")
  /\ UNCHANGED <<relay, msg, lastMsg, heard, faults>>

\* cancel_pending_by_user
Withdraw(t, o) ==
  /\ order[o].status = "pending"
  /\ order' = [order EXCEPT ![o].status = "rejected", ![o].over = TRUE, ![o].chat = FALSE]
  /\ Begin(t, "withdraw", o, "g_get")
  /\ UNCHANGED <<relay, msg, lastMsg, heard, faults>>

\* get_order of these handlers: the cards to edit
GetOrder(t) ==
  LET row == order[Current(t)] IN
    /\ At(t, "g_get")
    /\ IF Stored(Current(t)) /\ row.cards # NoCards
         THEN Become(t, [task[t] EXCEPT !.pc = "g_edit", !.rows = Only(Current(t))])
         ELSE Done(t)
    /\ UNCHANGED <<order, relay, msg, lastMsg, heard, mixed, faults>>

\* _edit_admin_cards; the handler of an acceptance goes on to link the cards
EditCards(t) ==
  /\ At(t, "g_edit")
  /\ \E S \in SUBSET Admins : Reached(S, Admins) /\ Relabel(CardsAmong(RowOf(t), S), Markup(RowOf(t)))
  /\ IF task[t].kind = "accept" THEN Goto(t, "d_link") ELSE Done(t)
  /\ UNCHANGED <<order, relay, lastMsg, heard, mixed>>

\* record_relay_message
Link(S) == relay' = relay \cup S

DecideLink(t) ==
  /\ At(t, "d_link")
  /\ \E S \in SUBSET Admins : Reached(S, Admins) /\ Link(CardsAmong(RowOf(t), S))
  /\ Done(t)
  /\ UNCHANGED <<order, msg, lastMsg, heard, mixed>>

\* on_chat_close, tapped on message m: close_chat_if_open
Close(t, m) ==
  LET o == msg[m].of IN
    /\ msg[m].buttons \in {"finish", "chat"}
    /\ order[o].chat
    /\ order' = [order EXCEPT ![o].chat = FALSE]
    /\ task[t] = Free
    /\ Meet("close", {o})
    /\ Become(t, [Free EXCEPT !.pc = "k_get", !.kind = "close", !.list = {o}, !.base = m])
    /\ UNCHANGED <<relay, msg, lastMsg, heard, faults>>

CloseGet(t) ==
  /\ At(t, "k_get")
  /\ Become(t, [task[t] EXCEPT !.pc = "k_edit", !.rows = Only(Current(t))])
  /\ UNCHANGED <<order, relay, msg, lastMsg, heard, mixed, faults>>

\* broken: the card loses the buttons that finish the order
CloseEditAll(t) ==
  /\ At(t, "k_edit")
  /\ Relabel({task[t].base}, "none")
  /\ Done(t)
  /\ UNCHANGED <<order, relay, lastMsg, heard, mixed, faults>>

\* the order card keeps the buttons of its state, a relayed message has none left
CloseEdit(t) ==
  LET m == task[t].base
      row == RowOf(t)
      isCard == row.status # "deleted" /\ row.cards[msg[m].admin] = m
  IN  /\ At(t, "k_edit")
      /\ (Relabel({m}, IF isCard THEN Markup(row) ELSE "ended") /\ UNCHANGED faults) \/ Missed(msg)
      /\ Done(t)
      /\ UNCHANGED <<order, relay, lastMsg, heard, mixed>>

-----------------------------------------------------------------------------
(* The lists of pending and of accepted orders: a new card for each *)

Show(t, a, S) ==
  /\ task[t] = Free
  /\ S # {}
  /\ Reserve(Cardinality(S))
  /\ Meet("show", S)
  /\ Become(t, [Free EXCEPT !.pc = "s_send", !.kind = "show", !.list = S, !.admin = a, !.base = lastMsg,
                            !.rows = [o \in S |-> order[o]]])
  /\ UNCHANGED <<order, relay, msg, heard, faults>>

ShowPending(t, a) == Show(t, a, {o \in Orders : order[o].status = "pending"})

ShowInProgress(t, a) == Show(t, a, {o \in Orders : InProgress(o)})

\* the card being sent, and the card of this admin it takes the place of
NewCard(t) == task[t].base + 1
OldCard(t) == RowOf(t).cards[task[t].admin]

NextShown(t) ==
  IF Cardinality(task[t].list) = 1
    THEN Done(t)
    ELSE Become(t, [task[t] EXCEPT !.pc = "s_send", !.list = @ \ {Current(t)}, !.base = @ + 1])

PostCard(t) ==
  msg' = [msg EXCEPT ![NewCard(t)] = [of |-> Current(t), admin |-> task[t].admin, buttons |-> Markup(RowOf(t))]]

\* _send_order_card
ShowSend(t) ==
  /\ At(t, "s_send")
  /\ \/ PostCard(t) /\ Goto(t, "s_save") /\ UNCHANGED faults
     \/ Missed(msg) /\ NextShown(t)
  /\ UNCHANGED <<order, relay, lastMsg, heard, mixed>>

\* broken: the other admins' cards are forgotten
ShowSaveOwn(t) ==
  /\ At(t, "s_save")
  /\ SetAdminMsgs(Current(t), [NoCards EXCEPT ![task[t].admin] = NewCard(t)])
  /\ IF RowOf(t).chat THEN Goto(t, "s_link") ELSE Goto(t, "s_delete")
  /\ UNCHANGED <<relay, msg, lastMsg, heard, mixed, faults>>

\* set_admin_msgs with the ids that were read before
ShowSave(t) ==
  /\ At(t, "s_save")
  /\ SetAdminMsgs(Current(t), [RowOf(t).cards EXCEPT ![task[t].admin] = NewCard(t)])
  /\ IF RowOf(t).chat THEN Goto(t, "s_link") ELSE Goto(t, "s_delete")
  /\ UNCHANGED <<relay, msg, lastMsg, heard, mixed, faults>>

\* broken: the new card does not lead to the chat
ShowLinkOld(t) ==
  /\ At(t, "s_link")
  /\ Goto(t, "s_delete")
  /\ UNCHANGED <<order, relay, msg, lastMsg, heard, mixed, faults>>

ShowLink(t) ==
  /\ At(t, "s_link")
  /\ Link({NewCard(t)})
  /\ Goto(t, "s_delete")
  /\ UNCHANGED <<order, msg, lastMsg, heard, mixed, faults>>

ShowDelete(t) ==
  /\ At(t, "s_delete")
  /\ \/ OldCard(t) = NoMsg /\ UNCHANGED <<msg, faults>>
     \/ OldCard(t) # NoMsg /\ Hide({OldCard(t)}) /\ UNCHANGED faults
     \/ OldCard(t) # NoMsg /\ Missed(msg)
  /\ NextShown(t)
  /\ UNCHANGED <<order, relay, lastMsg, heard, mixed>>

-----------------------------------------------------------------------------
(* A message of the customer *)

\* get_open_order_for_user: his latest order with an open chat
Talk(t) ==
  LET open == {o \in Orders : order[o].chat}
      o == CHOOSE x \in open : \A y \in open : y <= x
  IN  /\ task[t] = Free
      /\ open # {}
      /\ Reserve(NumAdmins)
      /\ Meet("talk", {o})
      /\ Become(t, [Free EXCEPT !.pc = "t_send", !.kind = "talk", !.list = {o}, !.base = lastMsg])
      /\ UNCHANGED <<order, relay, msg, heard, faults>>

TalkSend(t) ==
  /\ At(t, "t_send")
  /\ \E S \in SUBSET Admins :
       /\ Reached(S, Admins)
       /\ Post(S, task[t].base, Current(t), "chat")
       /\ Become(t, [task[t] EXCEPT !.pc = "t_link", !.refs = {task[t].base + a : a \in S}])
  /\ UNCHANGED <<order, relay, lastMsg, heard, mixed>>

TalkLink(t) ==
  /\ At(t, "t_link")
  /\ \E S \in SUBSET task[t].refs : Reached(S, task[t].refs) /\ Link(S)
  /\ Done(t)
  /\ UNCHANGED <<order, msg, lastMsg, heard, mixed>>

-----------------------------------------------------------------------------
(* Cleaning up: all finished orders, or those untouched for some days *)

LinkedTo(o) == {m \in relay : msg[m].of = o}

\* purge_finished_orders
Purge(t, S) ==
  LET links == UNION {LinkedTo(o) : o \in S}
      refs == links \cup UNION {CardsAmong(order[o], Admins) : o \in S}
  IN  /\ task[t] = Free
      /\ S # {} /\ \A o \in S : Finished(o)
      /\ order' = [o \in Orders |-> IF o \in S THEN [order[o] EXCEPT !.status = "deleted", !.chat = FALSE, !.cards = NoCards] ELSE order[o]]
      /\ relay' = relay \ links
      /\ Meet("clean", S)
      /\ Become(t, IF refs = {} THEN Free ELSE [Free EXCEPT !.pc = "c_delete", !.kind = "clean", !.list = S, !.refs = refs])
      /\ UNCHANGED <<msg, lastMsg, heard, faults>>

\* _delete_chat_messages
DeleteMessages(t) ==
  /\ At(t, "c_delete")
  /\ \E S \in SUBSET task[t].refs : Reached(S, task[t].refs) /\ Hide(S)
  /\ Done(t)
  /\ UNCHANGED <<order, relay, lastMsg, heard, mixed>>

-----------------------------------------------------------------------------
(* Reminders: a job of which one instance runs at a time *)

\* those still to be reminded of; some of them have waited long enough
Waiting == {o \in Orders : order[o].status = "pending" /\ order[o].count < RemindMax}

\* list_due_for_reminder: the oldest ones
Remind(t) ==
  /\ task[t] = Free
  /\ \A u \in Tasks : task[u].kind # "remind"
  /\ \E due \in (SUBSET Waiting) \ {{}} :
       Become(t, [Free EXCEPT !.pc = "r_get", !.kind = "remind",
                              !.list = {o \in due : Cardinality({q \in due : q < o}) < BatchSize}])
  /\ UNCHANGED <<order, relay, msg, lastMsg, heard, mixed, faults>>

NextReminder(t) ==
  IF Cardinality(task[t].list) = 1
    THEN Done(t)
    ELSE Become(t, [task[t] EXCEPT !.pc = "r_get", !.list = @ \ {Current(t)}])

\* decided or withdrawn meanwhile: no reminder
RemindGet(t) ==
  /\ At(t, "r_get")
  /\ IF order[Current(t)].status = "pending" THEN Goto(t, "r_send") ELSE NextReminder(t)
  /\ UNCHANGED <<order, relay, msg, lastMsg, heard, mixed, faults>>

\* to every admin; counted below even if nobody could be reached, however often
RemindSend(t) ==
  /\ At(t, "r_send")
  /\ heard' = [heard EXCEPT ![Current(t)] = @ + 1] \/ UNCHANGED heard
  /\ Goto(t, "r_mark")
  /\ UNCHANGED <<order, relay, msg, lastMsg, mixed, faults>>

\* broken: what was sent is not counted
MarkTime(t) ==
  /\ At(t, "r_mark")
  /\ NextReminder(t)
  /\ UNCHANGED <<order, relay, msg, lastMsg, heard, mixed, faults>>

\* broken: an order nobody could be reminded of stays first in line
MarkReached(t) ==
  LET o == Current(t) IN
    /\ At(t, "r_mark")
    /\ order' = IF order[o].status = "pending" /\ heard[o] > order[o].count
                  THEN [order EXCEPT ![o].count = @ + 1] ELSE order
    /\ NextReminder(t)
    /\ UNCHANGED <<relay, msg, lastMsg, heard, mixed, faults>>

\* mark_reminded
Mark(t) ==
  LET o == Current(t) IN
    /\ At(t, "r_mark")
    /\ \/ /\ order' = IF order[o].status = "pending"
                        THEN [order EXCEPT ![o].count = @ + 1] ELSE order
          /\ UNCHANGED faults
       \/ Missed(order)
    /\ NextReminder(t)
    /\ UNCHANGED <<relay, msg, lastMsg, heard, mixed>>

-----------------------------------------------------------------------------
(* Failures *)

\* a database call raises: the handler ends; the reminders go on with the next order
TaskFails(t) ==
  /\ task[t].pc \in {"n_get", "n_save", "d_open", "g_get", "k_get", "s_send", "s_save", "s_link", "r_get"}
  /\ Fault
  /\ IF At(t, "r_get") THEN NextReminder(t) ELSE Done(t)
  /\ UNCHANGED <<order, relay, msg, lastMsg, heard, mixed>>

Crash ==
  /\ Fault
  /\ task' = [t \in Tasks |-> Free]
  /\ UNCHANGED <<order, relay, msg, lastMsg, heard, mixed>>

-----------------------------------------------------------------------------

CardStep(t) ==
  \/ NotifyGet(t) \/ NotifySend(t) \/ NotifySave(t)
  \/ DecideOpen(t) \/ GetOrder(t) \/ CloseGet(t) \/ CloseEdit(t)
  \/ EditCards(t) \/ DecideLink(t)
  \/ ShowSend(t) \/ ShowSave(t) \/ ShowLink(t) \/ ShowDelete(t)
  \/ TalkSend(t) \/ TalkLink(t) \/ DeleteMessages(t)

RemindStep(t) == RemindGet(t) \/ RemindSend(t) \/ Mark(t)

Tap(t) ==
  \/ \E o \in Orders :
       \/ Place(t, o) \/ Finish(t, o) \/ Withdraw(t, o)
       \/ \E verdict \in {"accepted", "rejected"} : Decide(t, o, verdict)
  \/ \E m \in Msgs : Close(t, m)
  \/ \E a \in Admins : ShowPending(t, a) \/ ShowInProgress(t, a)
  \/ Talk(t)
  \/ \E S \in SUBSET Orders : Purge(t, S)

Next ==
  \/ \E t \in Tasks : CardStep(t) \/ RemindStep(t) \/ Tap(t) \/ Remind(t) \/ TaskFails(t)
  \/ Crash

Spec == Init /\ [][Next]_vars

\* awaited calls return, time passes, and the scheduler starts the reminders
\* every few minutes
FairSpec ==
  /\ Spec
  /\ \A t \in Tasks : WF_vars(CardStep(t) \/ RemindStep(t))
  /\ WF_vars(\E t \in Tasks : Remind(t))

-----------------------------------------------------------------------------
(* Properties *)

TaskOK(r) ==
  /\ r.pc \in {"idle", "n_get", "n_send", "n_save", "d_open", "g_get", "g_edit", "d_link", "k_get", "k_edit",
               "s_send", "s_save", "s_link", "s_delete", "t_send", "t_link", "c_delete", "r_get", "r_send", "r_mark"}
  /\ r.list \in SUBSET Orders /\ (r.list = {} <=> r.pc = "idle")
  /\ DOMAIN r.rows \subseteq Orders /\ \A o \in DOMAIN r.rows : r.rows[o] \in Row
  /\ r.admin \in Admins \cup {0} /\ r.base \in 0 .. MaxMsgs /\ r.sent \in [Admins -> Msgs \cup {NoMsg}]

TypeOK ==
  /\ order \in [Orders -> Row]
  /\ relay \subseteq Msgs
  /\ msg \in [Msgs -> [of : Orders \cup {NoOrder}, admin : Admins \cup {0}, buttons : Buttons]]
  /\ \A t \in Tasks : TaskOK(task[t])
  /\ heard \in [Orders -> Nat]
  /\ mixed \subseteq Orders
  /\ lastMsg \in 0 .. MaxMsgs /\ faults \in 0 .. MaxFaults

Undisturbed(o) == faults = 0 /\ o \notin mixed /\ \A t \in Busy(o) : task[t].kind \in {"talk", "remind"}

CardsWith(o, a) == {m \in Msgs : msg[m].of = o /\ msg[m].admin = a /\ msg[m].buttons \in CardButtons}

(* Every admin has one card of an order, the one the order knows, and its  *)
(* buttons are those of the order's state, through verdicts, outcomes,     *)
(* ended chats and cards that were sent anew (README.md:53-57); two tasks  *)
(* that work on the cards of one order at once do break it, see README.md. *)
CardIsCurrent ==
  \A o \in Orders, a \in Admins :
    Undisturbed(o) /\ Stored(o) =>
      LET m == order[o].cards[a] IN CardsWith(o, a) = {m} /\ msg[m].buttons = Markup(order[o])

(* "ANY admin replying to ANY message that was part of that order's chat"  *)
(* (client.py:1678) reaches the customer while the chat is open: the card, *)
(* also one sent anew, and every message relayed since.                    *)
EveryReplyFindsTheChat ==
  \A o \in Orders :
    Undisturbed(o) /\ order[o].chat /\ Busy(o) = {} =>
      {m \in Msgs : msg[m].of = o /\ Visible(m)} \subseteq relay

(* A clean-up leaves nothing of an order in the admins' chats, "together   *)
(* with their cards and relayed messages" (README.md:58), nor a row that   *)
(* leads a reply to it: every message an order ever had is either a card   *)
(* it knows, or linked, or deleted before.                                 *)
NothingIsLeftBehind ==
  \A o \in Orders :
    Undisturbed(o) /\ order[o].status = "deleted" =>
      \A m \in Msgs : msg[m].of = o => ~Visible(m) /\ m \notin relay

(* README.md:64, "at most ORDER_REMIND_MAX times", whoever decides the     *)
(* order meanwhile: more only for each call or process that fails between  *)
(* the sending and the counting.                                           *)
RemindersBounded == \A o \in Orders : heard[o] <= RemindMax + faults

(* A pending order is reminded of until the maximum is reached, even if    *)
(* nobody can be reached, calls fail or more orders are due than one run   *)
(* handles (order_reminder.py:99 "so a dead admin list cannot cause an     *)
(* endless loop").                                                         *)
PendingIsReminded ==
  \A o \in Orders :
    (order[o].status = "pending") ~> (order[o].status # "pending" \/ order[o].count = RemindMax)
=============================================================================

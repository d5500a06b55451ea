------------------------------ MODULE Inquiries ------------------------------
(***************************************************************************)
(* The inquiry of one customer: the chat he opens with "contact the admin" *)
(* (db/inquiries.py, handlers/client.py), the sweep that re-offers a quiet *)
(* chat (inquiry_idle.py) and the sweep that tells a waiting customer that *)
(* the admins are busy (inquiry_wait.py).                                  *)
(*                                                                         *)
(* Every query on inquiries names one user_id, and nothing relates the     *)
(* rows of two customers, so one customer is modelled.  As in Orders, an   *)
(* action stands for one database transaction, or one message, with all    *)
(* the handler does up to its next await.  A handler whose first           *)
(* conditional UPDATE changes no row only shows an alert: that branch is   *)
(* left to stuttering.                                                     *)
(*                                                                         *)
(* The rows of inquiry_notice, which say where the cards with buttons are, *)
(* decide nothing here: they are only read back to edit the cards.  The    *)
(* steps that touch them are here, their effect belongs to InquiryCards.   *)
(***************************************************************************)
EXTENDS Naturals, FiniteSets

CONSTANTS
  Admins,
  NoAdmin,     \* claimed_by is NULL
  Tasks,       \* handler invocations that may be running at the same time
  IdleSweep,   \* the job sweep_idle_inquiries (max_instances = 1)
  WaitSweep,   \* the job sweep_unanswered_inquiries (max_instances = 1)
  MaxRounds,   \* bound: how often the customer opens his inquiry
  MaxMsgs,     \* bound: messages written by the customer and the admins
  MaxFaults,   \* bound: undelivered messages, failed handlers and crashes
  MayCrash     \* whether crashes are among them

ASSUME InquiriesAssumption ==
  /\ Admins # {}
  /\ NoAdmin \notin Admins
  /\ IdleSweep \notin Tasks
  /\ WaitSweep \notin Tasks
  /\ IdleSweep # WaitSweep
  /\ MaxRounds \in Nat
  /\ MaxMsgs \in Nat
  /\ MaxFaults \in Nat
  /\ MayCrash \in BOOLEAN

Procs == Tasks \cup {IdleSweep, WaitSweep}

Rounds == 1 .. MaxRounds

Msgs == 1 .. MaxMsgs

NoMsg == 0

\* what an admin's private chat with the bot can hold: a card with "accept",
\* a card with "continue" and "end chat", relayed messages with "end chat"
Items == {"accept", "idle", "chat"}

VARIABLES
  \* the row of the inquiries table
  round,     \* how often it was (re-)opened; 0: there is no row
  isOpen,    \* is_open
  owner,     \* claimed_by
  idleSent,  \* idle_notice_sent
  waitSent,  \* wait_notice_sent
  age,       \* updated_at: "fresh", "quiet" (INQUIRY_IDLE_HOURS) or "expired" (24 hours)
  \* the rows of inquiry_history
  history,   \* the messages in the transcript
  ripe,      \* the customer's first message there is INQUIRY_WAIT_MIN minutes old
  \* the rows of inquiry_relay and the buttons in the admins' chats; never deleted
  got,
  \* handlers and jobs that are running
  pc, adm, msg, snap, todo,
  \* messages, and bookkeeping of the model
  lastMsg,   \* messages written so far
  msgRound,  \* the round each was written in
  fromAdmin, \* the messages that are an admin's reply
  copied,    \* the admins a message was addressed to, wrote it, or got it in a replay
  finished,  \* the customer's messages whose handler has addressed all its targets
  passed,    \* the chat was taken over with "continue" in this round
  notes,     \* notes[r]: "admins are busy" notes sent because of round r
  marked,    \* the round WaitSweep sends its note for
  pings,     \* "continue or end?" announcements since the last activity
  faults

rowVars == <<round, isOpen, owner, idleSent, waitSent, age>>
talkVars == <<history, ripe>>
msgVars == <<lastMsg, msgRound, fromAdmin>>
locals == <<adm, msg, snap, todo>>
taskVars == <<pc, locals>>
seenVars == <<copied, finished, passed, notes, marked, pings>>
vars == <<rowVars, talkVars, got, taskVars, msgVars, seenVars, faults>>

-----------------------------------------------------------------------------
(* Tasks *)

Free(t) == pc[t] = "idle"

At(t, label) == pc[t] = label

Goto(t, label) ==
  /\ pc' = [pc EXCEPT ![t] = label]
  /\ UNCHANGED locals

\* a handler goes on with these locals: its admin, its message, claimed_by as
\* it was read, the admins it has still to write to
Run(t, label, a, m, s, rest) ==
  /\ pc' = [pc EXCEPT ![t] = label]
  /\ adm' = [adm EXCEPT ![t] = a]
  /\ msg' = [msg EXCEPT ![t] = m]
  /\ snap' = [snap EXCEPT ![t] = s]
  /\ todo' = [todo EXCEPT ![t] = rest]

Done(t) == Run(t, "idle", NoAdmin, NoMsg, NoAdmin, {})

\* the next turn of a loop over the admins, or what follows the loop
NextTurn(t, a, label) ==
  /\ pc' = [pc EXCEPT ![t] = IF todo[t] = {a} THEN label ELSE @]
  /\ todo' = [todo EXCEPT ![t] = @ \ {a}]
  /\ UNCHANGED <<adm, msg, snap>>

Init ==
  /\ round = 0
  /\ isOpen = FALSE
  /\ owner = NoAdmin
  /\ idleSent = FALSE
  /\ waitSent = FALSE
  /\ age = "fresh"
  /\ history = {}
  /\ ripe = FALSE
  /\ got = [a \in Admins |-> {}]
  /\ pc = [t \in Procs |-> "idle"]
  /\ adm = [t \in Procs |-> NoAdmin]
  /\ msg = [t \in Procs |-> NoMsg]
  /\ snap = [t \in Procs |-> NoAdmin]
  /\ todo = [t \in Procs |-> {}]
  /\ lastMsg = 0
  /\ msgRound = [m \in Msgs |-> 0]
  /\ fromAdmin = {}
  /\ copied = [m \in Msgs |-> {}]
  /\ finished = {}
  /\ passed = FALSE
  /\ notes = [r \in Rounds |-> 0]
  /\ marked = 0
  /\ pings = 0
  /\ faults = 0

-----------------------------------------------------------------------------
(* Parts of the actions *)

\* the row that get_open_inquiry returns
Live == isOpen /\ age # "expired"

GiveTo(a, i) == got' = [got EXCEPT ![a] = @ \cup {i}]

\* any write to the row refreshes updated_at, but for the two mark_* statements
Active == age' = "fresh" /\ pings' = 0

WriteMsg(isReply, readers) ==
  /\ lastMsg < MaxMsgs
  /\ lastMsg' = lastMsg + 1
  /\ msgRound' = [msgRound EXCEPT ![lastMsg + 1] = round]
  /\ fromAdmin' = IF isReply THEN fromAdmin \cup {lastMsg + 1} ELSE fromAdmin
  /\ copied' = [copied EXCEPT ![lastMsg + 1] = readers]

\* touch_inquiry
TouchInquiry ==
  IF isOpen
    THEN /\ idleSent' = FALSE
         /\ Active
    ELSE UNCHANGED <<idleSent, age, pings>>

\* close_inquiry_if_open, for the caller that closes it
CloseRow ==
  /\ isOpen
  /\ isOpen' = FALSE
  /\ owner' = NoAdmin
  /\ Active
  /\ history' = {}
  /\ ripe' = FALSE
  /\ UNCHANGED <<round, idleSent, waitSent>>

-----------------------------------------------------------------------------
(* on_product_ask *)

\* broken: the transcript of the earlier round is kept
AskKeepsTalk(t) ==
  /\ Free(t)
  /\ round < MaxRounds
  /\ round' = round + 1
  /\ isOpen' = TRUE
  /\ owner' = NoAdmin
  /\ idleSent' = FALSE
  /\ waitSent' = FALSE
  /\ Active
  /\ passed' = FALSE
  /\ Run(t, "n_send", NoAdmin, NoMsg, NoAdmin, Admins)
  /\ UNCHANGED <<talkVars, got, msgVars, copied, finished, notes, marked, faults>>

\* open_inquiry: also when a chat is open, even one that an admin owns
Ask(t) ==
  /\ Free(t)
  /\ round < MaxRounds
  /\ round' = round + 1
  /\ isOpen' = TRUE
  /\ owner' = NoAdmin
  /\ idleSent' = FALSE
  /\ waitSent' = FALSE
  /\ Active
  /\ history' = {}
  /\ ripe' = FALSE
  /\ passed' = FALSE
  /\ Run(t, "n_send", NoAdmin, NoMsg, NoAdmin, Admins)
  /\ UNCHANGED <<got, msgVars, copied, finished, notes, marked, faults>>

\* _notify_admins_inquiry: the card, and its row in inquiry_relay
NotifyAdmin(t, a) ==
  /\ At(t, "n_send")
  /\ a \in todo[t]
  /\ GiveTo(a, "accept")
  /\ NextTurn(t, a, "n_cards")
  /\ UNCHANGED <<rowVars, talkVars, msgVars, seenVars, faults>>

\* replace_inquiry_notice_cards (see InquiryCards)
NotifyCards(t) ==
  /\ At(t, "n_cards")
  /\ Done(t)
  /\ UNCHANGED <<rowVars, talkVars, got, msgVars, seenVars, faults>>

-----------------------------------------------------------------------------
(* on_inquiry_claim and _reply_to_inquiry *)

\* broken: the UPDATE has no claimed_by IS NULL
ClaimAnyway(a) ==
  /\ isOpen
  /\ owner' = a
  /\ Active
  /\ UNCHANGED <<round, isOpen, idleSent, waitSent>>

\* try_claim_inquiry succeeds; only a new owner is written to the row
Claim(a) ==
  /\ isOpen
  /\ owner \in {NoAdmin, a}
  /\ owner' = a
  /\ IF owner = NoAdmin THEN Active ELSE UNCHANGED <<age, pings>>
  /\ UNCHANGED <<round, isOpen, idleSent, waitSent>>

\* the "accept" button; the card now has "end chat"
Accept(t, a) ==
  /\ Free(t)
  /\ "accept" \in got[a]
  /\ Claim(a)
  /\ GiveTo(a, "chat")
  /\ IF owner = NoAdmin
       THEN Run(t, "a_cards", a, NoMsg, NoAdmin, {})
       ELSE UNCHANGED taskVars
  /\ UNCHANGED <<talkVars, msgVars, copied, finished, passed, notes, marked, faults>>

\* the other admins' cards are edited (see InquiryCards) and the customer is told
AcceptCards(t) ==
  /\ At(t, "a_cards")
  /\ Done(t)
  /\ UNCHANGED <<rowVars, talkVars, got, msgVars, seenVars, faults>>

\* a reply to a message that inquiry_relay knows: it claims the chat if nobody owns it
Reply(t, a) ==
  /\ Free(t)
  /\ got[a] \cap {"accept", "chat"} # {}
  /\ Claim(a)
  /\ WriteMsg(TRUE, {a})
  /\ Run(t, "r_cards", a, lastMsg + 1, NoAdmin, {})
  /\ UNCHANGED <<talkVars, got, finished, passed, notes, marked, faults>>

\* pop_inquiry_notice_cards (see InquiryCards)
ReplyCards(t) ==
  /\ At(t, "r_cards")
  /\ Goto(t, "r_touch")
  /\ UNCHANGED <<rowVars, talkVars, got, msgVars, seenVars, faults>>

\* what touch_inquiry returns is not looked at: the reply goes out either way
ReplyTouch(t) ==
  /\ At(t, "r_touch")
  /\ TouchInquiry
  /\ Goto(t, "r_record")
  /\ UNCHANGED <<round, isOpen, owner, waitSent, talkVars, got, msgVars, copied,
                 finished, passed, notes, marked, faults>>

\* the reply has reached the customer: record_inquiry_history, whatever the row says
ReplyRecord(t) ==
  /\ At(t, "r_record")
  /\ history' = history \cup {msg[t]}
  /\ Done(t)
  /\ UNCHANGED <<rowVars, ripe, got, msgVars, seenVars, faults>>

-----------------------------------------------------------------------------
(* on_inquiry_continue *)

\* broken: try_continue_inquiry without its idle_notice_sent condition
ContinueAnyTime(t, a) ==
  /\ Free(t)
  /\ "idle" \in got[a]
  /\ isOpen
  /\ owner' = a
  /\ idleSent' = FALSE
  /\ Active
  /\ passed' = TRUE
  /\ Run(t, "h_cards", a, NoMsg, NoAdmin, {})
  /\ UNCHANGED <<round, isOpen, waitSent, talkVars, got, msgVars, copied, finished, notes, marked, faults>>

\* try_continue_inquiry changed the row
Continue(t, a) ==
  /\ Free(t)
  /\ "idle" \in got[a]
  /\ isOpen /\ idleSent
  /\ owner' = a
  /\ idleSent' = FALSE
  /\ Active
  /\ passed' = TRUE
  /\ Run(t, "h_cards", a, NoMsg, NoAdmin, {})
  /\ UNCHANGED <<round, isOpen, waitSent, talkVars, got, msgVars, copied, finished, notes, marked, faults>>

\* the cards (see InquiryCards); this one can be replied to from now on
ContinueCards(t) ==
  /\ At(t, "h_cards")
  /\ GiveTo(adm[t], "chat")
  /\ Goto(t, "h_open")
  /\ UNCHANGED <<rowVars, talkVars, msgVars, seenVars, faults>>

\* get_open_inquiry
ContinueOpen(t) ==
  /\ At(t, "h_open")
  /\ IF Live THEN Goto(t, "h_replay") ELSE Done(t)
  /\ UNCHANGED <<rowVars, talkVars, got, msgVars, seenVars, faults>>

\* _send_inquiry_context: the transcript as it is when it is read
ContinueReplay(t) ==
  /\ At(t, "h_replay")
  /\ copied' = [m \in Msgs |-> IF m \in history THEN copied[m] \cup {adm[t]} ELSE copied[m]]
  /\ Done(t)
  /\ UNCHANGED <<rowVars, talkVars, got, msgVars, finished, passed, notes, marked, pings, faults>>

-----------------------------------------------------------------------------
(* _relay_inquiry_message *)

\* get_open_inquiry: claimed_by is read here and used until the message is sent
Write(t) ==
  /\ Free(t)
  /\ Live
  /\ WriteMsg(FALSE, {})
  /\ Run(t, "m_touch", NoAdmin, lastMsg + 1, owner, {})
  /\ UNCHANGED <<rowVars, talkVars, got, finished, passed, notes, marked, pings, faults>>

MsgTouch(t) ==
  /\ At(t, "m_touch")
  /\ TouchInquiry
  /\ Goto(t, IF snap[t] # NoAdmin THEN "m_cards" ELSE "m_record")
  /\ UNCHANGED <<round, isOpen, owner, waitSent, talkVars, got, msgVars, copied,
                 finished, passed, notes, marked, faults>>

\* _dismiss_idle_cards (see InquiryCards)
MsgCards(t) ==
  /\ At(t, "m_cards")
  /\ Goto(t, "m_record")
  /\ UNCHANGED <<rowVars, talkVars, got, msgVars, seenVars, faults>>

\* broken: before anyone has claimed the chat, one admin gets the message
MsgRecordToOne(t) ==
  /\ At(t, "m_record")
  /\ history' = history \cup {msg[t]}
  /\ \E a \in Admins :
       Run(t, "m_send", NoAdmin, msg[t], snap[t], {IF snap[t] # NoAdmin THEN snap[t] ELSE a})
  /\ UNCHANGED <<rowVars, ripe, got, msgVars, seenVars, faults>>

\* record_inquiry_history, whatever the row says by now; then the targets are chosen
MsgRecord(t) ==
  /\ At(t, "m_record")
  /\ history' = history \cup {msg[t]}
  /\ Run(t, "m_send", NoAdmin, msg[t], snap[t],
         IF snap[t] # NoAdmin THEN {snap[t]} ELSE Admins)
  /\ UNCHANGED <<rowVars, ripe, got, msgVars, seenVars, faults>>

\* one turn of the loop over the targets, delivered or not
Addressed(t, a) ==
  /\ At(t, "m_send")
  /\ a \in todo[t]
  /\ copied' = [copied EXCEPT ![msg[t]] = @ \cup {a}]
  /\ finished' = IF todo[t] = {a} THEN finished \cup {msg[t]} ELSE finished
  /\ IF todo[t] = {a} THEN Done(t) ELSE NextTurn(t, a, "m_send")

\* the copy, and its row in inquiry_relay
MsgSend(t, a) ==
  /\ Addressed(t, a)
  /\ GiveTo(a, "chat")
  /\ UNCHANGED <<rowVars, talkVars, msgVars, passed, notes, marked, pings, faults>>

-----------------------------------------------------------------------------
(* on_inquiry_close and cmd_cancel_inquiry *)

\* the "end chat" button, which every card carries, the unclaimed one too; the cards are popped
\* first (see InquiryCards)
StartClose(t, a) ==
  /\ got[a] # {}
  /\ Free(t)
  /\ Run(t, "k_close", a, NoMsg, NoAdmin, {})
  /\ UNCHANGED <<rowVars, talkVars, got, msgVars, seenVars, faults>>

CloseInquiry(t) ==
  /\ At(t, "k_close")
  /\ IF isOpen
       THEN CloseRow /\ Goto(t, "k_cards")
       ELSE UNCHANGED <<rowVars, talkVars, pings>> /\ Done(t)
  /\ UNCHANGED <<got, msgVars, copied, finished, passed, notes, marked, faults>>

\* the popped cards are edited (see InquiryCards) and the customer is told
CloseCards(t) ==
  /\ At(t, "k_cards")
  /\ Done(t)
  /\ UNCHANGED <<rowVars, talkVars, got, msgVars, seenVars, faults>>

\* the customer's /cancel; the rest of the handler only writes to chats
CancelByCustomer ==
  /\ CloseRow
  /\ UNCHANGED <<got, taskVars, msgVars, copied, finished, passed, notes, marked, faults>>

-----------------------------------------------------------------------------
(* sweep_idle_inquiries *)

Quiet == age \in {"quiet", "expired"}

\* broken: the list leaves out the chats that have expired
ListIdleUnexpired ==
  /\ Free(IdleSweep)
  /\ isOpen /\ owner # NoAdmin /\ ~idleSent /\ age = "quiet"
  /\ Run(IdleSweep, "i_mark", NoAdmin, NoMsg, owner, {})
  /\ UNCHANGED <<rowVars, talkVars, got, msgVars, seenVars, faults>>

\* list_idle_claimed_inquiries
ListIdle ==
  /\ Free(IdleSweep)
  /\ isOpen /\ owner # NoAdmin /\ ~idleSent /\ Quiet
  /\ Run(IdleSweep, "i_mark", NoAdmin, NoMsg, owner, {})
  /\ UNCHANGED <<rowVars, talkVars, got, msgVars, seenVars, faults>>

\* broken: only the flag is checked again
MarkIdleAnyway ==
  /\ At(IdleSweep, "i_mark")
  /\ IF isOpen /\ ~idleSent
       THEN /\ idleSent' = TRUE
            /\ pings' = pings + 1
            /\ Run(IdleSweep, "i_send", NoAdmin, NoMsg, snap[IdleSweep], Admins)
       ELSE /\ UNCHANGED <<idleSent, pings>>
            /\ Done(IdleSweep)
  /\ UNCHANGED <<round, isOpen, owner, waitSent, age, talkVars, got, msgVars, copied,
                 finished, passed, notes, marked, faults>>

\* mark_idle_notice_sent with all the conditions of the list
MarkIdle ==
  /\ At(IdleSweep, "i_mark")
  /\ IF isOpen /\ owner # NoAdmin /\ ~idleSent /\ Quiet
       THEN /\ idleSent' = TRUE
            /\ pings' = pings + 1
            /\ Run(IdleSweep, "i_send", NoAdmin, NoMsg, snap[IdleSweep], Admins)
       ELSE /\ UNCHANGED <<idleSent, pings>>
            /\ Done(IdleSweep)
  /\ UNCHANGED <<round, isOpen, owner, waitSent, age, talkVars, got, msgVars, copied,
                 finished, passed, notes, marked, faults>>

\* notify_admins_inquiry_idle
SendIdle(a) ==
  /\ At(IdleSweep, "i_send")
  /\ a \in todo[IdleSweep]
  /\ GiveTo(a, "idle")
  /\ NextTurn(IdleSweep, a, "i_cards")
  /\ UNCHANGED <<rowVars, talkVars, msgVars, seenVars, faults>>

\* replace_inquiry_notice_cards (see InquiryCards)
IdleCards ==
  /\ At(IdleSweep, "i_cards")
  /\ Done(IdleSweep)
  /\ UNCHANGED <<rowVars, talkVars, got, msgVars, seenVars, faults>>

-----------------------------------------------------------------------------
(* sweep_unanswered_inquiries *)

\* list_unanswered_inquiries
ListWaiting ==
  /\ Free(WaitSweep)
  /\ isOpen /\ owner = NoAdmin /\ ~waitSent /\ ripe
  /\ Run(WaitSweep, "w_mark", NoAdmin, NoMsg, NoAdmin, {})
  /\ UNCHANGED <<rowVars, talkVars, got, msgVars, seenVars, faults>>

\* broken: the sweep goes on to the next inquiry when it has won
MarkWaitInverted ==
  /\ At(WaitSweep, "w_mark")
  /\ waitSent' = (waitSent \/ (isOpen /\ owner = NoAdmin))
  /\ Done(WaitSweep)
  /\ UNCHANGED <<round, isOpen, owner, idleSent, age, talkVars, got, msgVars, seenVars, faults>>

\* mark_wait_notice_sent: nothing about messages or time is checked again
MarkWait ==
  /\ At(WaitSweep, "w_mark")
  /\ IF isOpen /\ owner = NoAdmin /\ ~waitSent
       THEN /\ waitSent' = TRUE
            /\ marked' = round
            /\ Goto(WaitSweep, "w_send")
       ELSE /\ UNCHANGED <<waitSent, marked>>
            /\ Done(WaitSweep)
  /\ UNCHANGED <<round, isOpen, owner, idleSent, age, talkVars, got, msgVars, copied,
                 finished, passed, notes, pings, faults>>

\* the note reaches the customer
SendWait ==
  /\ At(WaitSweep, "w_send")
  /\ notes' = [notes EXCEPT ![marked] = @ + 1]
  /\ marked' = 0
  /\ Done(WaitSweep)
  /\ UNCHANGED <<rowVars, talkVars, got, msgVars, copied, finished, passed, pings, faults>>

-----------------------------------------------------------------------------
(* Time and failures *)

\* INQUIRY_IDLE_HOURS (at most 24) have passed since updated_at
GetQuiet ==
  /\ isOpen /\ age = "fresh"
  /\ age' = "quiet"
  /\ UNCHANGED <<round, isOpen, owner, idleSent, waitSent, talkVars, got, taskVars, msgVars,
                 seenVars, faults>>

\* INQUIRY_TTL_HOURS have passed
Expire ==
  /\ isOpen /\ age = "quiet"
  /\ age' = "expired"
  /\ UNCHANGED <<round, isOpen, owner, idleSent, waitSent, talkVars, got, taskVars, msgVars,
                 seenVars, faults>>

\* the customer's first message in the transcript is INQUIRY_WAIT_MIN minutes old
Ripen ==
  /\ ~ripe
  /\ \E m \in history : m \notin fromAdmin
  /\ ripe' = TRUE
  /\ UNCHANGED <<rowVars, history, got, taskVars, msgVars, seenVars, faults>>

\* a card or a copy cannot be delivered to this admin; the loop goes on
DeliveryFails(t, a) ==
  /\ faults < MaxFaults
  /\ faults' = faults + 1
  /\ \/ /\ At(t, "n_send") /\ a \in todo[t]
        /\ NextTurn(t, a, "n_cards")
        /\ UNCHANGED <<copied, finished>>
     \/ /\ At(t, "i_send") /\ a \in todo[t]
        /\ NextTurn(t, a, "i_cards")
        /\ UNCHANGED <<copied, finished>>
     \/ Addressed(t, a)
  /\ UNCHANGED <<rowVars, talkVars, got, msgVars, passed, notes, marked, pings>>

\* an awaited call raises: the handler, or this run of the job, ends
HandlerFails(t) ==
  /\ faults < MaxFaults
  /\ ~Free(t)
  /\ faults' = faults + 1
  /\ Done(t)
  /\ marked' = IF t = WaitSweep THEN 0 ELSE marked
  /\ UNCHANGED <<rowVars, talkVars, got, msgVars, copied, finished, passed, notes, pings>>

\* the process is killed and started again: only the database survives
Crash ==
  /\ MayCrash
  /\ faults < MaxFaults
  /\ faults' = faults + 1
  /\ pc' = [t \in Procs |-> "idle"]
  /\ adm' = [t \in Procs |-> NoAdmin]
  /\ msg' = [t \in Procs |-> NoMsg]
  /\ snap' = [t \in Procs |-> NoAdmin]
  /\ todo' = [t \in Procs |-> {}]
  /\ marked' = 0
  /\ UNCHANGED <<rowVars, talkVars, got, msgVars, copied, finished, passed, notes, pings>>

-----------------------------------------------------------------------------

\* a running handler goes on
Step(t) ==
  \/ \E a \in Admins : NotifyAdmin(t, a) \/ MsgSend(t, a)
  \/ NotifyCards(t)
  \/ AcceptCards(t) \/ ReplyCards(t) \/ ReplyTouch(t) \/ ReplyRecord(t)
  \/ ContinueCards(t) \/ ContinueOpen(t) \/ ContinueReplay(t)
  \/ MsgTouch(t) \/ MsgCards(t) \/ MsgRecord(t)
  \/ CloseInquiry(t) \/ CloseCards(t)

\* the customer or an admin does something
Tap(t) ==
  \/ Ask(t) \/ Write(t)
  \/ \E a \in Admins : Accept(t, a) \/ Reply(t, a) \/ Continue(t, a) \/ StartClose(t, a)

IdleStep == ListIdle \/ MarkIdle \/ IdleCards \/ \E a \in Admins : SendIdle(a)

WaitStep == ListWaiting \/ MarkWait \/ SendWait

Next ==
  \/ \E t \in Tasks : Step(t) \/ Tap(t)
  \/ CancelByCustomer
  \/ IdleStep
  \/ WaitStep
  \/ GetQuiet \/ Expire \/ Ripen
  \/ \E t \in Procs : HandlerFails(t) \/ \E a \in Admins : DeliveryFails(t, a)
  \/ Crash

Spec == Init /\ [][Next]_vars

\* awaited calls return (they have time limits), and the scheduler starts both
\* jobs again and again, every two minutes and every minute (scheduler.py)
FairSpec ==
  /\ Spec
  /\ \A t \in Tasks : WF_vars(Step(t))
  /\ WF_vars(IdleStep)
  /\ WF_vars(WaitStep)

-----------------------------------------------------------------------------
(* Properties *)

PCs == {"idle", "n_send", "n_cards", "a_cards", "r_cards", "r_touch", "r_record", "h_cards",
        "h_open", "h_replay", "m_touch", "m_cards", "m_record", "m_send", "k_close", "k_cards",
        "i_mark", "i_send", "i_cards", "w_mark", "w_send"}

TypeOK ==
  /\ round \in 0 .. MaxRounds
  /\ isOpen \in BOOLEAN
  /\ owner \in Admins \cup {NoAdmin}
  /\ idleSent \in BOOLEAN
  /\ waitSent \in BOOLEAN
  /\ age \in {"fresh", "quiet", "expired"}
  /\ history \in SUBSET Msgs
  /\ ripe \in BOOLEAN
  /\ got \in [Admins -> SUBSET Items]
  /\ pc \in [Procs -> PCs]
  /\ adm \in [Procs -> Admins \cup {NoAdmin}]
  /\ msg \in [Procs -> Msgs \cup {NoMsg}]
  /\ snap \in [Procs -> Admins \cup {NoAdmin}]
  /\ todo \in [Procs -> SUBSET Admins]
  /\ lastMsg \in 0 .. MaxMsgs
  /\ msgRound \in [Msgs -> 0 .. MaxRounds]
  /\ fromAdmin \in SUBSET Msgs
  /\ copied \in [Msgs -> SUBSET Admins]
  /\ finished \in SUBSET Msgs
  /\ passed \in BOOLEAN
  /\ notes \in [Rounds -> Nat]
  /\ marked \in 0 .. MaxRounds
  /\ pings \in Nat
  /\ faults \in 0 .. MaxFaults

(* A chat that an admin owns goes to another one only while the "continue  *)
(* or end?" announcement is out, or because the customer asked anew: of    *)
(* two admins who tap or reply at the same instant, and with cards and     *)
(* relayed messages of earlier rounds still in their chats, only one gets  *)
(* it (try_claim_inquiry, try_continue_inquiry).                           *)
OwnershipPasses ==
  [][owner # NoAdmin /\ isOpen' /\ owner' # owner => idleSent \/ round' # round]_vars

(* Whoever accepts the chat first has been sent everything the customer    *)
(* had written until then, also the messages that were on their way to all *)
(* the admins when he accepted, and everything after it.  Where the chat   *)
(* is taken over with "continue" a message that was being handled can miss *)
(* the new owner: _relay_inquiry_message uses the owner it read before.    *)
OwnerHasTheTalk ==
  isOpen /\ owner # NoAdmin /\ ~passed =>
    \A m \in finished : msgRound[m] = round => owner \in copied[m]

(* The announcement is only ever out for a chat that has an owner and has  *)
(* been quiet since: anything that wakes the chat also withdraws the right *)
(* to take it over, so an admin who tapped an old "continue" gets nothing. *)
OfferedIsQuiet == isOpen /\ idleSent => owner # NoAdmin /\ Quiet /\ pings = 1

(* The opposite of a stuck chat: a chat left quiet by its owner is offered *)
(* to the admins, unless it wakes up or ends, or a step failed.            *)
QuietChatIsOffered ==
  (isOpen /\ owner # NoAdmin /\ Quiet) ~> (idleSent \/ ~Quiet \/ ~isOpen \/ faults > 0)

(* A customer whose question nobody picks up is told, unless an admin      *)
(* takes the chat, it ends or a step failed: README.md:62, "he gets one    *)
(* note".                                                                  *)
WaitingCustomerIsTold ==
  \A r \in Rounds :
    (round = r /\ isOpen /\ owner = NoAdmin /\ ripe) ~>
      (notes[r] = 1 \/ round # r \/ owner # NoAdmin \/ ~isOpen \/ faults > 0)
=============================================================================

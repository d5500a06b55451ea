--------------------------- MODULE InquiriesProofs ---------------------------
(***************************************************************************)
(* What holds of Inquiries for every number of admins, handlers, rounds,   *)
(* messages and faults: the types, that a chat changes hands only by offer *)
(* or because the customer asks anew, that the offer is out only while the *)
(* chat is quiet, and that its owner has been sent all of it.              *)
(***************************************************************************)
EXTENDS Inquiries, TLAPS

-----------------------------------------------------------------------------
(* Types *)

RowTypes ==
  /\ round \in 0 .. MaxRounds /\ isOpen \in BOOLEAN /\ owner \in Admins \cup {NoAdmin}
  /\ idleSent \in BOOLEAN /\ waitSent \in BOOLEAN /\ passed \in BOOLEAN
  /\ age \in {"fresh", "quiet", "expired"}

TalkTypes ==
  /\ history \in SUBSET Msgs /\ ripe \in BOOLEAN /\ got \in [Admins -> SUBSET Items]

TaskTypes ==
  /\ pc \in [Procs -> PCs]
  /\ adm \in [Procs -> Admins \cup {NoAdmin}]
  /\ msg \in [Procs -> Msgs \cup {NoMsg}]
  /\ snap \in [Procs -> Admins \cup {NoAdmin}]
  /\ todo \in [Procs -> SUBSET Admins]

MsgTypes ==
  /\ lastMsg \in 0 .. MaxMsgs /\ msgRound \in [Msgs -> 0 .. MaxRounds]
  /\ fromAdmin \in SUBSET Msgs /\ copied \in [Msgs -> SUBSET Admins] /\ finished \in SUBSET Msgs

RestTypes ==
  /\ notes \in [Rounds -> Nat] /\ marked \in 0 .. MaxRounds
  /\ pings \in Nat /\ faults \in 0 .. MaxFaults

\* TypeOK is the conjunction of the types of the row, of the talk, of the tasks, of the messages
\* and of the rest, before a step and after it.
LEMMA TypeParts ==
  /\ TypeOK <=> RowTypes /\ TalkTypes /\ TaskTypes /\ MsgTypes /\ RestTypes
  /\ TypeOK' <=> RowTypes' /\ TalkTypes' /\ TaskTypes' /\ MsgTypes' /\ RestTypes'
BY DEF TypeOK, RowTypes, TalkTypes, TaskTypes, MsgTypes, RestTypes

\* the labels at which a handler has a message, or an admin
WithMsg == {"r_cards", "r_touch", "r_record", "m_touch", "m_cards", "m_record", "m_send"}

WithAdmin == {"h_cards", "h_open", "h_replay"}

\* a handler that needs a message or an admin has one, and it was written
LocalsInv ==
  /\ \A t \in Procs : pc[t] \in WithMsg => msg[t] \in 1 .. lastMsg
  /\ \A t \in Procs : pc[t] \in WithAdmin => adm[t] \in Admins
  /\ finished \subseteq 1 .. lastMsg
  /\ \A m \in Msgs : msgRound[m] <= round

\* what a step leaves alone
LEMMA Untouched ==
  /\ RowTypes /\ UNCHANGED <<rowVars, passed>> => RowTypes'
  /\ TalkTypes /\ UNCHANGED <<talkVars, got>> => TalkTypes'
  /\ TaskTypes /\ UNCHANGED taskVars => TaskTypes'
  /\ MsgTypes /\ UNCHANGED <<msgVars, copied, finished>> => MsgTypes'
  /\ RestTypes /\ UNCHANGED <<notes, marked, pings, faults>> => RestTypes'
BY DEF RowTypes, TalkTypes, TaskTypes, MsgTypes, RestTypes, rowVars, talkVars, taskVars, locals,
       msgVars

\* the values of the locals a handler does not need
LEMMA Defaults ==
  /\ NoAdmin \in Admins \cup {NoAdmin} /\ NoMsg \in Msgs \cup {NoMsg}
  /\ {} \in SUBSET Admins /\ Admins \in SUBSET Admins
OBVIOUS

\* A handler that starts with well-typed locals keeps the types of the tasks.
LEMMA RunTyped ==
  ASSUME TaskTypes, NEW t \in Procs, NEW l \in PCs, NEW a \in Admins \cup {NoAdmin},
         NEW m \in Msgs \cup {NoMsg}, NEW s \in Admins \cup {NoAdmin}, NEW rest \in SUBSET Admins,
         Run(t, l, a, m, s, rest)
  PROVE  TaskTypes'
BY DEF Run, TaskTypes

\* A handler that returns keeps the types of the tasks.
LEMMA DoneTyped ==
  ASSUME TaskTypes, NEW t \in Procs, Done(t)
  PROVE  TaskTypes'
BY DEF Done, Run, TaskTypes, PCs

\* A handler that moves on to a known place keeps the types of the tasks.
LEMMA GotoTyped ==
  ASSUME TaskTypes, NEW t \in Procs, NEW l \in PCs, Goto(t, l)
  PROVE  TaskTypes'
BY DEF Goto, TaskTypes, locals

\* A loop over the admins that takes its next turn, or ends, keeps the types of the tasks.
LEMMA NextTurnTyped ==
  ASSUME TaskTypes, NEW t \in Procs, NEW l \in PCs, NEW a, NextTurn(t, a, l)
  PROVE  TaskTypes'
BY DEF NextTurn, TaskTypes

\* Showing an item to an admin keeps the types of what the admins were shown.
LEMMA GiveToTyped ==
  ASSUME TalkTypes, NEW a, NEW i \in Items, GiveTo(a, i), UNCHANGED talkVars
  PROVE  TalkTypes'
BY DEF GiveTo, TalkTypes, talkVars

\* A message appended to the inquiry keeps the types, and gets an id below the bound.
LEMMA WriteMsgTyped ==
  ASSUME RowTypes, MsgTypes, NEW isReply \in BOOLEAN, NEW readers \in SUBSET Admins,
         WriteMsg(isReply, readers), finished' = finished
  PROVE  MsgTypes' /\ lastMsg + 1 \in Msgs
BY InquiriesAssumption DEF WriteMsg, MsgTypes, Msgs, RowTypes

\* The delivery of a message to one admin keeps the types, since the handler that delivers carries
\* a message.
LEMMA AddressedTyped ==
  ASSUME TypeOK, LocalsInv, NEW t \in Procs, NEW a \in Admins, Addressed(t, a), UNCHANGED msgVars
  PROVE  TaskTypes' /\ MsgTypes'
<1>1. TaskTypes'
  BY TypeParts, DoneTyped, NextTurnTyped DEF Addressed, PCs
<1>2. msg[t] \in 1 .. lastMsg
  BY DEF Addressed, At, LocalsInv, WithMsg
<1>3. msg[t] \in Msgs
  BY <1>2, TypeParts, InquiriesAssumption DEF MsgTypes, Msgs
<1> QED
  BY <1>1, <1>3, TypeParts DEF Addressed, MsgTypes, msgVars

\* Every later step of a handler keeps the types, given that its locals are what its place needs.
LEMMA StepTyped ==
  ASSUME TypeOK, LocalsInv, NEW t \in Tasks, Step(t)
  PROVE  TypeOK'
<1> USE TypeParts DEF PCs
<1>0. t \in Procs /\ "accept" \in Items /\ "chat" \in Items
  BY DEF Procs, Items
<1>1. ASSUME NEW a \in Admins, NotifyAdmin(t, a) PROVE TypeOK'
  BY <1>0, <1>1, Untouched, NextTurnTyped, GiveToTyped DEF NotifyAdmin, seenVars
<1>2. ASSUME NEW a \in Admins, MsgSend(t, a) PROVE TypeOK'
  BY <1>0, <1>2, Untouched, AddressedTyped, GiveToTyped DEF MsgSend
<1>3. CASE NotifyCards(t) \/ AcceptCards(t) \/ CloseCards(t)
  BY <1>0, <1>3, Untouched, DoneTyped DEF NotifyCards, AcceptCards, CloseCards, seenVars
<1>4. CASE ReplyCards(t) \/ MsgCards(t)
  BY <1>0, <1>4, Untouched, GotoTyped DEF ReplyCards, MsgCards, seenVars
<1>5. CASE ReplyTouch(t) \/ MsgTouch(t)
  <2>1. RowTypes'
    BY <1>5 DEF ReplyTouch, MsgTouch, TouchInquiry, Active, RowTypes
  <2>3. RestTypes'
    BY <1>5 DEF ReplyTouch, MsgTouch, TouchInquiry, Active, RestTypes
  <2>2. TaskTypes'
    BY <1>0, <1>5, GotoTyped DEF ReplyTouch, MsgTouch
  <2> QED
    BY <1>5, <2>1, <2>2, <2>3, Untouched DEF ReplyTouch, MsgTouch
<1>6. CASE ReplyRecord(t) \/ MsgRecord(t)
  <2>1. msg[t] \in Msgs
    <3>1. msg[t] \in 1 .. lastMsg
      BY <1>0, <1>6 DEF ReplyRecord, MsgRecord, At, LocalsInv, WithMsg
    <3> QED
      BY <3>1, InquiriesAssumption DEF MsgTypes, Msgs
  <2>2. TalkTypes'
    BY <1>6, <2>1 DEF ReplyRecord, MsgRecord, TalkTypes
  <2>3. CASE ReplyRecord(t)
    BY <1>0, <2>2, <2>3, Untouched, DoneTyped DEF ReplyRecord, seenVars
  <2>4. CASE MsgRecord(t)
    <3>1. snap[t] \in Admins \cup {NoAdmin}
      BY <1>0 DEF TaskTypes
    <3> DEFINE rest == IF snap[t] # NoAdmin THEN {snap[t]} ELSE Admins
    <3>2. rest \in SUBSET Admins /\ Run(t, "m_send", NoAdmin, msg[t], snap[t], rest)
      BY <2>4, <3>1 DEF MsgRecord
    <3>3. TaskTypes'
      BY <1>0, <2>1, <3>1, <3>2, RunTyped, Defaults
    <3> QED
      BY <2>2, <2>4, <3>3, Untouched DEF MsgRecord, seenVars
  <2> QED
    BY <1>6, <2>3, <2>4
<1>7. CASE ContinueCards(t)
  BY <1>0, <1>7, Untouched, GotoTyped, GiveToTyped DEF ContinueCards, seenVars
<1>8. CASE ContinueOpen(t)
  BY <1>0, <1>8, Untouched, GotoTyped, DoneTyped DEF ContinueOpen, seenVars
<1>9. CASE ContinueReplay(t)
  <2>1. adm[t] \in Admins
    BY <1>0, <1>9 DEF ContinueReplay, At, LocalsInv, WithAdmin
  <2>2. MsgTypes'
    BY <1>9, <2>1 DEF ContinueReplay, MsgTypes, msgVars
  <2> QED
    BY <1>0, <1>9, <2>2, Untouched, DoneTyped DEF ContinueReplay
<1>10. CASE CloseInquiry(t)
  <2>1. RowTypes' /\ TalkTypes'
    BY <1>10 DEF CloseInquiry, CloseRow, Active, RowTypes, TalkTypes, rowVars, talkVars
  <2>3. RestTypes'
    BY <1>10 DEF CloseInquiry, CloseRow, Active, RestTypes
  <2>2. TaskTypes'
    BY <1>0, <1>10, GotoTyped, DoneTyped DEF CloseInquiry
  <2> QED
    BY <1>10, <2>1, <2>2, <2>3, Untouched DEF CloseInquiry
<1> QED
  BY <1>1, <1>2, <1>3, <1>4, <1>5, <1>6, <1>7, <1>8, <1>9, <1>10 DEF Step

\* The write of accept_inquiry keeps the types.
LEMMA ClaimTyped ==
  ASSUME RowTypes, RestTypes, NEW a \in Admins, Claim(a),
         UNCHANGED <<passed, notes, marked, faults>>
  PROVE  RowTypes' /\ RestTypes'
<1>1. RowTypes'
  BY DEF Claim, Active, RowTypes
<1>2. RestTypes'
  BY DEF Claim, Active, RestTypes
<1> QED
  BY <1>1, <1>2

\* The first step of every handler an admin or the customer starts keeps the types.
LEMMA TapTyped ==
  ASSUME TypeOK, LocalsInv, NEW t \in Tasks, Tap(t)
  PROVE  TypeOK'
<1> USE TypeParts, Defaults DEF PCs
<1>0. t \in Procs /\ "accept" \in Items /\ "chat" \in Items /\ owner \in Admins \cup {NoAdmin}
  BY DEF Procs, Items, RowTypes
<1>1. CASE Ask(t)
  <2>1. round' \in 0 .. MaxRounds
    BY <1>1, InquiriesAssumption DEF Ask, RowTypes
  <2>2. RowTypes' /\ TalkTypes'
    BY <1>1, <2>1 DEF Ask, Active, RowTypes, TalkTypes
  <2>3. RestTypes'
    BY <1>1 DEF Ask, Active, RestTypes
  <2> QED
    BY <1>0, <1>1, <2>2, <2>3, Untouched, RunTyped DEF Ask
<1>2. CASE Write(t)
  <2>1. MsgTypes' /\ lastMsg + 1 \in Msgs
    BY <1>2, WriteMsgTyped DEF Write
  <2>2. TaskTypes'
    BY <1>0, <1>2, <2>1, RunTyped DEF Write
  <2> QED
    BY <1>2, <2>1, <2>2, Untouched DEF Write
<1>3. ASSUME NEW a \in Admins, Accept(t, a) PROVE TypeOK'
  <2>1. RowTypes' /\ RestTypes'
    BY <1>3, ClaimTyped DEF Accept
  <2>2. TaskTypes'
    <3>1. CASE owner = NoAdmin
      BY <1>0, <1>3, <3>1, RunTyped DEF Accept
    <3>2. CASE owner # NoAdmin
      BY <1>3, <3>2, Untouched DEF Accept
    <3> QED
      BY <3>1, <3>2
  <2> QED
    BY <1>0, <1>3, <2>1, <2>2, Untouched, GiveToTyped DEF Accept
<1>4. ASSUME NEW a \in Admins, Reply(t, a) PROVE TypeOK'
  <2>1. RowTypes' /\ RestTypes'
    BY <1>4, ClaimTyped DEF Reply
  <2>2. MsgTypes' /\ lastMsg + 1 \in Msgs
    BY <1>4, WriteMsgTyped DEF Reply
  <2> QED
    BY <1>0, <1>4, <2>1, <2>2, Untouched, RunTyped DEF Reply
<1>5. ASSUME NEW a \in Admins, Continue(t, a) PROVE TypeOK'
  <2>1. RowTypes'
    BY <1>5 DEF Continue, Active, RowTypes
  <2>2. RestTypes'
    BY <1>5 DEF Continue, Active, RestTypes
  <2>3. TaskTypes'
    BY <1>0, <1>5, RunTyped DEF Continue
  <2> QED
    BY <1>5, <2>1, <2>2, <2>3, Untouched DEF Continue
<1>6. ASSUME NEW a \in Admins, StartClose(t, a) PROVE TypeOK'
  <2>1. TaskTypes'
    BY <1>0, <1>6, RunTyped DEF StartClose
  <2> QED
    BY <1>6, <2>1, Untouched DEF StartClose, seenVars
<1> QED
  BY <1>1, <1>2, <1>3, <1>4, <1>5, <1>6 DEF Tap

\* The steps of the two sweeps (idle talks, waiting inquiries) keep the types.
LEMMA SweepTyped ==
  ASSUME TypeOK, IdleStep \/ WaitStep
  PROVE  TypeOK'
<1> USE TypeParts, Defaults DEF PCs
<1>0. /\ IdleSweep \in Procs /\ WaitSweep \in Procs /\ "idle" \in Items
      /\ owner \in Admins \cup {NoAdmin}
  BY DEF Procs, Items, RowTypes
<1>1. CASE ListIdle
  <2>1. TaskTypes'
    BY <1>0, <1>1, RunTyped DEF ListIdle
  <2> QED
    BY <1>1, <2>1, Untouched DEF ListIdle, seenVars
<1>2. CASE MarkIdle
  <2>1. RowTypes'
    BY <1>2 DEF MarkIdle, RowTypes
  <2>4. RestTypes'
    BY <1>2 DEF MarkIdle, RestTypes
  <2>2. snap[IdleSweep] \in Admins \cup {NoAdmin}
    BY <1>0 DEF TaskTypes
  <2>3. TaskTypes'
    BY <1>0, <1>2, <2>2, RunTyped, DoneTyped DEF MarkIdle
  <2> QED
    BY <1>2, <2>1, <2>3, <2>4, Untouched DEF MarkIdle
<1>3. CASE IdleCards
  BY <1>0, <1>3, Untouched, DoneTyped DEF IdleCards, seenVars
<1>4. ASSUME NEW a \in Admins, SendIdle(a) PROVE TypeOK'
  BY <1>0, <1>4, Untouched, NextTurnTyped, GiveToTyped DEF SendIdle, seenVars
<1>5. CASE ListWaiting
  BY <1>0, <1>5, Untouched, RunTyped DEF ListWaiting, seenVars
<1>6. CASE MarkWait
  <2>1. RowTypes'
    BY <1>6 DEF MarkWait, RowTypes
  <2>3. RestTypes'
    BY <1>6 DEF MarkWait, RowTypes, RestTypes
  <2>2. TaskTypes'
    BY <1>0, <1>6, GotoTyped, DoneTyped DEF MarkWait
  <2> QED
    BY <1>6, <2>1, <2>2, <2>3, Untouched DEF MarkWait
<1>7. CASE SendWait
  <2>1. RestTypes'
    <3>1. notes' \in [Rounds -> Nat]
      <4>1. notes' = [notes EXCEPT ![marked] = @ + 1] /\ notes \in [Rounds -> Nat]
        BY <1>7 DEF SendWait, RestTypes
      <4>2. notes' = [r \in Rounds |-> IF r = marked THEN notes[r] + 1 ELSE notes[r]]
        BY <4>1
      <4>3. \A r \in Rounds : notes[r] \in Nat /\ notes[r] + 1 \in Nat
        BY <4>1
      <4> QED
        BY <4>2, <4>3
    <3>2. marked' \in 0 .. MaxRounds
      BY <1>7, InquiriesAssumption DEF SendWait
    <3> QED
      BY <1>7, <3>1, <3>2 DEF SendWait, RestTypes
  <2> QED
    BY <1>0, <1>7, <2>1, Untouched, DoneTyped DEF SendWait
<1> QED
  BY <1>1, <1>2, <1>3, <1>4, <1>5, <1>6, <1>7 DEF IdleStep, WaitStep

\* A cancelled inquiry, the passing of time, a handler or a delivery that fails and a crash keep
\* the types.
LEMMA WorldTyped ==
  ASSUME TypeOK, LocalsInv,
         \/ CancelByCustomer
         \/ GetQuiet \/ Expire \/ Ripen
         \/ \E t \in Procs : HandlerFails(t) \/ \E a \in Admins : DeliveryFails(t, a)
         \/ Crash
  PROVE  TypeOK'
<1> USE TypeParts DEF PCs
<1>1. CASE CancelByCustomer
  <2>1. RowTypes' /\ TalkTypes'
    BY <1>1 DEF CancelByCustomer, CloseRow, Active, RowTypes, TalkTypes
  <2>2. RestTypes'
    BY <1>1 DEF CancelByCustomer, CloseRow, Active, RestTypes
  <2> QED
    BY <1>1, <2>1, <2>2, Untouched DEF CancelByCustomer
<1>2. CASE GetQuiet \/ Expire
  <2>1. RowTypes'
    BY <1>2 DEF GetQuiet, Expire, RowTypes, seenVars
  <2> QED
    BY <1>2, <2>1, Untouched DEF GetQuiet, Expire, seenVars
<1>3. CASE Ripen
  <2>1. TalkTypes'
    BY <1>3 DEF Ripen, TalkTypes
  <2> QED
    BY <1>3, <2>1, Untouched DEF Ripen, seenVars
<1>4. ASSUME NEW t \in Procs, HandlerFails(t) PROVE TypeOK'
  <2>1. RestTypes'
    BY <1>4, InquiriesAssumption DEF HandlerFails, RestTypes
  <2> QED
    BY <1>4, <2>1, Untouched, DoneTyped DEF HandlerFails
<1>5. ASSUME NEW t \in Procs, NEW a \in Admins, DeliveryFails(t, a) PROVE TypeOK'
  <2>1. RestTypes'
    BY <1>5, InquiriesAssumption DEF DeliveryFails, RestTypes
  <2>2. TaskTypes' /\ MsgTypes'
    BY <1>5, Untouched, NextTurnTyped, AddressedTyped DEF DeliveryFails
  <2> QED
    BY <1>5, <2>1, <2>2, Untouched DEF DeliveryFails
<1>6. CASE Crash
  <2>1. RestTypes' /\ TaskTypes'
    BY <1>6, InquiriesAssumption DEF Crash, RestTypes, TaskTypes
  <2> QED
    BY <1>6, <2>1, Untouched DEF Crash
<1> QED
  BY <1>1, <1>2, <1>3, <1>4, <1>5, <1>6

-----------------------------------------------------------------------------
(* Where a step leaves the handlers *)

\* t and its locals stay
Kept(t) == pc'[t] = pc[t] /\ adm'[t] = adm[t] /\ msg'[t] = msg[t] /\ snap'[t] = snap[t] /\ todo'[t] = todo[t]

\* Run gives its own handler the place and the locals it names, and leaves the other handlers
\* alone.
LEMMA RunMoves ==
  ASSUME TaskTypes, NEW s \in Procs, NEW l, NEW a, NEW m, NEW h, NEW rest, Run(s, l, a, m, h, rest)
  PROVE  /\ \A t \in Procs : t # s => Kept(t)
         /\ pc'[s] = l /\ adm'[s] = a /\ msg'[s] = m /\ snap'[s] = h /\ todo'[s] = rest
BY DEF Run, TaskTypes, Kept

\* Done ends its own handler and leaves the other handlers alone.
LEMMA DoneMoves ==
  ASSUME TaskTypes, NEW s \in Procs, Done(s)
  PROVE  /\ \A t \in Procs : t # s => Kept(t)
         /\ pc'[s] = "idle"
BY RunMoves DEF Done

\* Goto moves its own handler, keeps its locals, and leaves the other handlers alone.
LEMMA GotoMoves ==
  ASSUME TaskTypes, NEW s \in Procs, NEW l, Goto(s, l)
  PROVE  /\ \A t \in Procs : t # s => Kept(t)
         /\ pc'[s] = l /\ adm'[s] = adm[s] /\ msg'[s] = msg[s] /\ snap'[s] = snap[s]
BY DEF Goto, TaskTypes, Kept, locals

\* A turn of the loop over the admins takes the admin off the list, leaves the loop or stays in
\* it, and leaves the other handlers alone.
LEMMA NextTurnMoves ==
  ASSUME TaskTypes, NEW s \in Procs, NEW l, NEW a, NextTurn(s, a, l)
  PROVE  /\ \A t \in Procs : t # s => Kept(t)
         /\ pc'[s] \in {pc[s], l} /\ adm'[s] = adm[s] /\ msg'[s] = msg[s] /\ snap'[s] = snap[s]
         /\ todo'[s] = todo[s] \ {a}
BY DEF NextTurn, TaskTypes, Kept

\* the labels without a message and without an admin
Bare == PCs \ (WithMsg \cup WithAdmin)

\* where a step takes the handler s, and what of its locals it leaves
HandlerMoves(s) ==
  \/ Kept(s)
  \/ pc'[s] \in Bare
  \/ pc'[s] = "h_cards" /\ adm'[s] \in Admins
  \/ pc'[s] \in WithAdmin /\ pc[s] \in WithAdmin /\ adm'[s] = adm[s]
  \/ pc'[s] = "m_touch" /\ msg'[s] = lastMsg + 1 /\ lastMsg' = lastMsg + 1 /\ snap'[s] = owner
  \/ pc'[s] = "r_cards" /\ msg'[s] = lastMsg + 1 /\ lastMsg' = lastMsg + 1
  \/ /\ pc'[s] \in {"r_touch", "r_record"} /\ pc[s] \in WithMsg /\ msg'[s] = msg[s]
  \/ /\ pc'[s] \in {"m_cards", "m_record"} /\ pc[s] \in {"m_touch", "m_cards"}
     /\ msg'[s] = msg[s] /\ snap'[s] = snap[s]
  \/ /\ pc'[s] = "m_send" /\ pc[s] = "m_record" /\ msg'[s] = msg[s] /\ snap'[s] = snap[s]
     /\ todo'[s] = IF snap[s] # NoAdmin THEN {snap[s]} ELSE Admins
  \/ /\ pc'[s] = "m_send" /\ pc[s] = "m_send" /\ msg'[s] = msg[s]
     /\ todo[s] \subseteq todo'[s] \cup copied'[msg[s]]

\* what a step does to the messages: those that were written stay as they are,
\* lose no reader, and only s finishes one
MessagesMove(s) ==
  /\ lastMsg' \in {lastMsg, lastMsg + 1}
  /\ \A m \in Msgs : msgRound'[m] \in {msgRound[m], round}
  /\ \A m \in 1 .. lastMsg : msgRound'[m] = msgRound[m] /\ copied[m] \subseteq copied'[m]
  /\ \A m \in finished' : m \in finished \/
       (pc[s] = "m_send" /\ m = msg[s] /\ todo[s] \subseteq copied'[m])

Moves(s) ==
  /\ \A t \in Procs : t # s => Kept(t) \/ pc'[t] = "idle"
  /\ HandlerMoves(s)
  /\ MessagesMove(s)

\* A step that writes no message moves the messages in the allowed way.
LEMMA QuietMessages ==
  ASSUME NEW s, UNCHANGED <<msgVars, copied, finished>>
  PROVE  MessagesMove(s)
BY DEF MessagesMove, msgVars

\* A step that appends a message gives it the next id and leaves the earlier messages alone.
LEMMA WriteMessages ==
  ASSUME TypeOK, NEW s, NEW isReply, NEW readers, WriteMsg(isReply, readers), finished' = finished
  PROVE  MessagesMove(s) /\ lastMsg' = lastMsg + 1
<1>1. \A m \in 1 .. lastMsg : m # lastMsg + 1
  BY TypeParts, InquiriesAssumption DEF MsgTypes
<1> QED
  BY <1>1, TypeParts DEF WriteMsg, MessagesMove, MsgTypes

\* The delivery of a message to one admin moves its own handler only, and adds that admin to the
\* readers of that message only.
LEMMA AddressedMoves ==
  ASSUME TypeOK, LocalsInv, NEW t \in Procs, NEW a \in Admins, Addressed(t, a), UNCHANGED msgVars
  PROVE  Moves(t)
<1>1. msg[t] \in Msgs
  <2>1. msg[t] \in 1 .. lastMsg
    BY DEF Addressed, At, LocalsInv, WithMsg
  <2> QED
    BY <2>1, TypeParts, InquiriesAssumption DEF MsgTypes, Msgs
<1>2. /\ copied \in [Msgs -> SUBSET Admins] /\ pc[t] = "m_send"
      /\ copied' = [copied EXCEPT ![msg[t]] = @ \cup {a}]
      /\ copied'[msg[t]] = copied[msg[t]] \cup {a}
      /\ \A m \in Msgs : copied[m] \subseteq copied'[m]
  BY <1>1, TypeParts DEF Addressed, MsgTypes, At
<1>3. 1 .. lastMsg \subseteq Msgs
  BY TypeParts, InquiriesAssumption DEF MsgTypes, Msgs
<1>4. MessagesMove(t)
  BY <1>2, <1>3 DEF Addressed, MessagesMove, msgVars
<1>5. CASE todo[t] = {a}
  BY <1>4, <1>5, TypeParts, DoneMoves DEF Addressed, Moves, HandlerMoves, Bare, PCs, WithMsg, WithAdmin
<1>6. CASE todo[t] # {a}
  BY <1>2, <1>4, <1>6, TypeParts, NextTurnMoves DEF Addressed, Moves, HandlerMoves
<1> QED
  BY <1>5, <1>6

\* Every later step of a handler moves that handler in the allowed way and no other.
LEMMA StepMoves ==
  ASSUME TypeOK, LocalsInv, NEW t \in Tasks, Step(t)
  PROVE  Moves(t)
<1> USE TypeParts DEF HandlerMoves, Bare, PCs, WithMsg, WithAdmin
<1>0. t \in Procs
  BY DEF Procs
<1>1. ASSUME NEW a \in Admins, NotifyAdmin(t, a) PROVE Moves(t)
  BY <1>0, <1>1, NextTurnMoves, QuietMessages DEF NotifyAdmin, At, seenVars, Moves
<1>2. ASSUME NEW a \in Admins, MsgSend(t, a) PROVE Moves(t)
  BY <1>0, <1>2, AddressedMoves DEF MsgSend
<1>3. CASE NotifyCards(t) \/ AcceptCards(t) \/ CloseCards(t) \/ ReplyRecord(t)
  BY <1>0, <1>3, DoneMoves, QuietMessages
     DEF NotifyCards, AcceptCards, CloseCards, ReplyRecord, seenVars, Moves
<1>4. CASE ReplyCards(t) \/ MsgCards(t) \/ ReplyTouch(t) \/ MsgTouch(t) \/ ContinueCards(t)
  <2>1. MessagesMove(t)
    BY <1>4, QuietMessages DEF ReplyCards, MsgCards, ReplyTouch, MsgTouch, ContinueCards, seenVars
  <2>2. PICK l : Goto(t, l) /\ \/ l \in {"r_touch", "r_record", "h_open"} /\ pc[t] \in WithMsg \cup {"h_cards"} /\ (l = "h_open" <=> pc[t] = "h_cards")
                               \/ l \in {"m_cards", "m_record"} /\ pc[t] \in {"m_touch", "m_cards"}
    BY <1>4 DEF ReplyCards, MsgCards, ReplyTouch, MsgTouch, ContinueCards, At
  <2> QED
    BY <1>0, <2>1, <2>2, GotoMoves DEF Moves
<1>5. CASE ContinueOpen(t)
  <2>1. MessagesMove(t)
    BY <1>5, QuietMessages DEF ContinueOpen, seenVars
  <2> QED
    BY <1>0, <1>5, <2>1, GotoMoves, DoneMoves DEF ContinueOpen, At, Moves
<1>6. CASE ContinueReplay(t)
  <2>1. \A m \in Msgs : copied[m] \subseteq copied'[m]
    BY <1>6 DEF ContinueReplay
  <2>2. 1 .. lastMsg \subseteq Msgs
    BY InquiriesAssumption DEF MsgTypes, Msgs
  <2>3. MessagesMove(t)
    BY <1>6, <2>1, <2>2 DEF ContinueReplay, MessagesMove, msgVars
  <2> QED
    BY <1>0, <1>6, <2>3, DoneMoves DEF ContinueReplay, Moves
<1>7. CASE MsgRecord(t)
  BY <1>0, <1>7, RunMoves, QuietMessages DEF MsgRecord, At, seenVars, Moves
<1>8. CASE CloseInquiry(t)
  <2>1. MessagesMove(t)
    BY <1>8, QuietMessages DEF CloseInquiry
  <2> QED
    BY <1>0, <1>8, <2>1, GotoMoves, DoneMoves DEF CloseInquiry, Moves
<1> QED
  BY <1>1, <1>2, <1>3, <1>4, <1>5, <1>6, <1>7, <1>8 DEF Step

\* The first step of a handler moves that handler in the allowed way and no other.
LEMMA TapMoves ==
  ASSUME TypeOK, NEW t \in Tasks, Tap(t)
  PROVE  Moves(t)
<1> USE TypeParts DEF HandlerMoves, Bare, PCs, WithMsg, WithAdmin
<1>0. t \in Procs
  BY DEF Procs
<1>1. CASE Ask(t)
  BY <1>0, <1>1, RunMoves, QuietMessages DEF Ask, Moves
<1>2. CASE Write(t)
  <2>1. MessagesMove(t) /\ lastMsg' = lastMsg + 1
    BY <1>2, WriteMessages DEF Write
  <2> QED
    BY <1>0, <1>2, <2>1, RunMoves DEF Write, Moves
<1>3. ASSUME NEW a \in Admins, Accept(t, a) PROVE Moves(t)
  <2>1. MessagesMove(t)
    BY <1>3, QuietMessages DEF Accept
  <2>2. CASE owner = NoAdmin
    BY <1>0, <1>3, <2>1, <2>2, RunMoves DEF Accept, Moves
  <2>3. CASE owner # NoAdmin
    BY <1>3, <2>1, <2>3 DEF Accept, Moves, Kept, taskVars, locals
  <2> QED
    BY <2>2, <2>3
<1>4. ASSUME NEW a \in Admins, Reply(t, a) PROVE Moves(t)
  <2>1. MessagesMove(t) /\ lastMsg' = lastMsg + 1
    BY <1>4, WriteMessages DEF Reply
  <2> QED
    BY <1>0, <1>4, <2>1, RunMoves DEF Reply, Moves
<1>5. ASSUME NEW a \in Admins, Continue(t, a) PROVE Moves(t)
  BY <1>0, <1>5, RunMoves, QuietMessages DEF Continue, Moves
<1>6. ASSUME NEW a \in Admins, StartClose(t, a) PROVE Moves(t)
  BY <1>0, <1>6, RunMoves, QuietMessages DEF StartClose, seenVars, Moves
<1> QED
  BY <1>1, <1>2, <1>3, <1>4, <1>5, <1>6 DEF Tap

\* The steps of the two sweeps move the sweep in the allowed way and no handler.
LEMMA SweepMoves ==
  /\ TypeOK /\ IdleStep => Moves(IdleSweep)
  /\ TypeOK /\ WaitStep => Moves(WaitSweep)
<1> USE TypeParts DEF HandlerMoves, Bare, PCs, WithMsg, WithAdmin
<1>0. IdleSweep \in Procs /\ WaitSweep \in Procs
  BY DEF Procs
<1>1. ASSUME TypeOK, IdleStep PROVE Moves(IdleSweep)
  <2>1. MessagesMove(IdleSweep)
    BY <1>1, QuietMessages DEF IdleStep, ListIdle, MarkIdle, IdleCards, SendIdle, seenVars
  <2>2. CASE ListIdle
    BY <1>0, <1>1, <2>1, <2>2, RunMoves DEF ListIdle, Moves
  <2>3. CASE MarkIdle \/ IdleCards
    BY <1>0, <1>1, <2>1, <2>3, RunMoves, DoneMoves DEF MarkIdle, IdleCards, Moves
  <2>4. ASSUME NEW a \in Admins, SendIdle(a) PROVE Moves(IdleSweep)
    BY <1>0, <1>1, <2>1, <2>4, NextTurnMoves DEF SendIdle, At, Moves
  <2> QED
    BY <1>1, <2>2, <2>3, <2>4 DEF IdleStep
<1>2. ASSUME TypeOK, WaitStep PROVE Moves(WaitSweep)
  <2>1. MessagesMove(WaitSweep)
    BY <1>2, QuietMessages DEF WaitStep, ListWaiting, MarkWait, SendWait, seenVars
  <2> QED
    BY <1>0, <1>2, <2>1, RunMoves, GotoMoves, DoneMoves
       DEF WaitStep, ListWaiting, MarkWait, SendWait, Moves
<1> QED
  BY <1>1, <1>2

\* The clock, a cancellation, a crash and a handler that fails move handlers in the allowed way.
LEMMA WorldMoves ==
  ASSUME TypeOK, LocalsInv
  PROVE  /\ CancelByCustomer \/ GetQuiet \/ Expire \/ Ripen \/ Crash \/ UNCHANGED vars =>
              Moves(IdleSweep)
         /\ \A t \in Procs : HandlerFails(t) => Moves(t)
         /\ \A t \in Procs, a \in Admins : DeliveryFails(t, a) => Moves(t)
<1> USE TypeParts DEF HandlerMoves, Bare, PCs, WithMsg, WithAdmin
<1>0. IdleSweep \in Procs
  BY DEF Procs
<1>1. ASSUME CancelByCustomer \/ GetQuiet \/ Expire \/ Ripen \/ UNCHANGED vars
      PROVE  Moves(IdleSweep)
  <2>1. MessagesMove(IdleSweep) /\ UNCHANGED taskVars
    BY <1>1, QuietMessages DEF CancelByCustomer, GetQuiet, Expire, Ripen, vars, seenVars
  <2> QED
    BY <2>1 DEF Moves, Kept, taskVars, locals
<1>2. CASE Crash
  BY <1>0, <1>2, QuietMessages DEF Crash, Moves
<1>3. ASSUME NEW t \in Procs, HandlerFails(t) PROVE Moves(t)
  BY <1>3, DoneMoves, QuietMessages DEF HandlerFails, Moves
<1>4. ASSUME NEW t \in Procs, NEW a \in Admins, DeliveryFails(t, a) PROVE Moves(t)
  <2>1. CASE Addressed(t, a)
    BY <1>4, <2>1, AddressedMoves DEF DeliveryFails
  <2>2. CASE ~Addressed(t, a)
    <3>1. MessagesMove(t)
      BY <1>4, <2>2, QuietMessages DEF DeliveryFails
    <3> QED
      BY <1>4, <2>2, <3>1, NextTurnMoves DEF DeliveryFails, At, Moves
  <2> QED
    BY <2>1, <2>2
<1> QED
  BY <1>1, <1>2, <1>3, <1>4

\* A step that moves one handler in the allowed way keeps every handler's locals what its place
\* needs.
LEMMA LocalsStep ==
  ASSUME TypeOK, TypeOK', LocalsInv, NEW s \in Procs, Moves(s), round <= round'
  PROVE  LocalsInv'
<1> USE DEF WithMsg, WithAdmin, Bare, PCs
<1>0. /\ lastMsg \in Nat /\ lastMsg' \in Nat /\ lastMsg <= lastMsg' /\ lastMsg' <= MaxMsgs
      /\ 1 .. lastMsg \subseteq 1 .. lastMsg' /\ lastMsg + 1 > 0
      /\ round \in Nat /\ round' \in Nat
  BY TypeParts, InquiriesAssumption DEF MsgTypes, RowTypes, Moves, MessagesMove
<1>1. \A t \in Procs : pc'[t] \in WithMsg => msg'[t] \in 1 .. lastMsg'
  <2> SUFFICES ASSUME NEW t \in Procs, pc'[t] \in WithMsg PROVE msg'[t] \in 1 .. lastMsg'
    OBVIOUS
  <2>1. CASE Kept(t)
    BY <1>0, <2>1 DEF Kept, LocalsInv
  <2>2. CASE ~Kept(t)
    <3>1. t = s /\ HandlerMoves(s)
      BY <2>2 DEF Moves
    <3>2. CASE msg'[s] = lastMsg + 1 /\ lastMsg' = lastMsg + 1
      BY <1>0, <3>1, <3>2
    <3>3. CASE pc[s] \in WithMsg /\ msg'[s] = msg[s]
      BY <1>0, <3>1, <3>3 DEF LocalsInv
    <3> QED
      BY <2>2, <3>1, <3>2, <3>3 DEF HandlerMoves
  <2> QED
    BY <2>1, <2>2
<1>2. \A t \in Procs : pc'[t] \in WithAdmin => adm'[t] \in Admins
  BY DEF Moves, HandlerMoves, LocalsInv, Kept
<1>3. finished' \subseteq 1 .. lastMsg'
  BY <1>0 DEF Moves, MessagesMove, LocalsInv
<1>4. \A m \in Msgs : msgRound'[m] <= round'
  BY <1>0, TypeParts DEF Moves, MessagesMove, LocalsInv, MsgTypes
<1> QED
  BY <1>1, <1>2, <1>3, <1>4 DEF LocalsInv

\* the types, with what the handlers need
TypeInv == TypeOK /\ LocalsInv

\* Every step keeps the types and the locals.
LEMMA TypeInvStep == TypeInv /\ [Next]_vars => TypeInv'
<1> SUFFICES ASSUME TypeInv, [Next]_vars PROVE TypeInv'
  OBVIOUS
<1>1. TypeOK'
  <2>1. CASE UNCHANGED vars
    BY <2>1, TypeParts, Untouched DEF TypeInv, vars, seenVars
  <2> QED
    BY <2>1, StepTyped, TapTyped, SweepTyped, WorldTyped DEF Next, TypeInv
<1>2. \E s \in Procs : Moves(s)
  BY StepMoves, TapMoves, SweepMoves, WorldMoves DEF Next, TypeInv, Procs
<1>3. round' \in {round, round + 1}
  BY DEF Next, Step, NotifyAdmin, MsgSend, NotifyCards, AcceptCards, ReplyCards, ReplyTouch,
         ReplyRecord, ContinueCards, ContinueOpen, ContinueReplay, MsgTouch, MsgCards, MsgRecord,
         CloseInquiry, CloseCards, CloseRow, Tap, Ask, Write, Accept, Claim, Reply, Continue,
         StartClose, CancelByCustomer, IdleStep, ListIdle, MarkIdle, IdleCards, SendIdle,
         WaitStep, ListWaiting, MarkWait, SendWait, GetQuiet, Expire, Ripen, HandlerFails,
         DeliveryFails, Crash, vars, rowVars
<1>4. round <= round'
  BY <1>3, TypeParts DEF RowTypes, TypeInv
<1> QED
  BY <1>1, <1>2, <1>4, LocalsStep DEF TypeInv

\* The initial state is well typed.
LEMMA TypeInvInit == Init => TypeInv
<1> SUFFICES ASSUME Init PROVE TypeInv
  OBVIOUS
<1>1. RowTypes /\ TalkTypes
  <2>1. 0 \in 0 .. MaxRounds
    BY InquiriesAssumption
  <2> QED
    BY <2>1 DEF Init, RowTypes, TalkTypes
<1>2. TaskTypes
  BY DEF Init, TaskTypes, PCs
<1>3. MsgTypes /\ RestTypes
  BY InquiriesAssumption DEF Init, MsgTypes, RestTypes
<1>4. LocalsInv
  BY DEF Init, LocalsInv, WithMsg, WithAdmin
<1> QED
  BY <1>1, <1>2, <1>3, <1>4, TypeParts DEF TypeInv

(* Every variable keeps its type: whoever handles a message has one that   *)
(* was written, and no handler goes on with an admin it does not have.     *)
THEOREM TypeCorrect == Spec => []TypeOK
<1>1. TypeInv => TypeOK
  BY DEF TypeInv
<1> QED
  BY <1>1, TypeInvInit, TypeInvStep, PTL DEF Spec

\* In every reachable state the types hold and every handler carries the message and the admin its
\* place needs.
THEOREM TypeInvCorrect == Spec => []TypeInv
BY TypeInvInit, TypeInvStep, PTL DEF Spec

-----------------------------------------------------------------------------
(* What a step does to the row *)

\* the customer asked, or the chat ended
Asked == round' = round + 1 /\ isOpen' /\ owner' = NoAdmin /\ ~idleSent' /\ pings' = 0

Ended == ~isOpen' /\ round' = round

\* an admin was the first to take it; somebody wrote; it was taken over with "continue"
FirstTaken ==
  /\ owner = NoAdmin /\ pings' = 0
  /\ UNCHANGED <<round, isOpen, idleSent, passed>>

Woken == ~idleSent' /\ pings' = 0 /\ UNCHANGED <<round, isOpen, owner, passed>>

TakenOver == idleSent /\ ~idleSent' /\ pings' = 0 /\ passed' /\ UNCHANGED <<round, isOpen>>

\* it was offered; time passed
Offered ==
  /\ ~idleSent /\ idleSent' /\ pings' = pings + 1 /\ owner # NoAdmin /\ Quiet
  /\ UNCHANGED <<round, isOpen, owner, age, passed>>

Aged == age' \in {"quiet", "expired"} /\ UNCHANGED <<round, isOpen, owner, idleSent, pings, passed>>

RowMove ==
  \/ UNCHANGED <<round, isOpen, owner, idleSent, age, pings, passed>>
  \/ Asked \/ Ended \/ FirstTaken \/ Woken \/ TakenOver \/ Offered \/ Aged

\* A step of the system changes the inquiry's row only in the ways listed in RowMove: the
\* conditional updates of src/db/inquiries.py.
LEMMA RowMoves ==
  ASSUME [Next]_vars
  PROVE  RowMove
<1>1. ASSUME NEW t \in Tasks, Step(t) PROVE RowMove
  BY <1>1
     DEF Step, NotifyAdmin, MsgSend, NotifyCards, AcceptCards, ReplyCards, ReplyTouch, ReplyRecord,
         ContinueCards, ContinueOpen, ContinueReplay, MsgTouch, MsgCards, MsgRecord, CloseInquiry,
         CloseCards, CloseRow, TouchInquiry, Active, rowVars, seenVars, RowMove, Ended, Woken
<1>2. ASSUME NEW t \in Tasks, Tap(t) PROVE RowMove
  BY <1>2
     DEF Tap, Ask, Write, Accept, Reply, Claim, Continue, StartClose, Active, rowVars, seenVars,
         RowMove, Asked, FirstTaken, TakenOver
<1>3. CASE IdleStep \/ WaitStep
  BY <1>3
     DEF IdleStep, ListIdle, MarkIdle, IdleCards, SendIdle, WaitStep, ListWaiting, MarkWait,
         SendWait, rowVars, seenVars, RowMove, Offered
<1>4. CASE CancelByCustomer \/ GetQuiet \/ Expire \/ Ripen \/ Crash \/ UNCHANGED vars
  BY <1>4
     DEF CancelByCustomer, CloseRow, GetQuiet, Expire, Ripen, Crash, vars, rowVars, seenVars,
         RowMove, Ended, Aged
<1>5. ASSUME NEW t \in Procs, HandlerFails(t) \/ \E a \in Admins : DeliveryFails(t, a)
      PROVE  RowMove
  BY <1>5 DEF HandlerFails, DeliveryFails, rowVars, RowMove
<1> QED
  BY <1>1, <1>2, <1>3, <1>4, <1>5 DEF Next

-----------------------------------------------------------------------------
(* The offer to take a chat over *)

(* Of two admins who tap or reply at the same instant only one gets the    *)
(* chat, and nobody takes it from him but by an announcement that is out,  *)
(* or because the customer asked anew.                                     *)
THEOREM OwnershipCorrect == Spec => OwnershipPasses
<1>1. TypeInv /\ [Next]_vars =>
        [owner # NoAdmin /\ isOpen' /\ owner' # owner => idleSent \/ round' # round]_vars
  <2> SUFFICES ASSUME TypeInv, [Next]_vars, owner # NoAdmin, isOpen', owner' # owner,
                      ~idleSent, round' = round
               PROVE  FALSE
    OBVIOUS
  <2>1. round # round + 1
    BY TypeParts, InquiriesAssumption DEF TypeInv, RowTypes
  <2> QED
    BY <2>1, RowMoves
       DEF RowMove, Asked, Ended, FirstTaken, Woken, TakenOver, Offered, Aged
<1> QED
  BY <1>1, TypeInvCorrect, PTL DEF Spec, OwnershipPasses

(* As long as the chat is open, the announcement of the idle sweep is out  *)
(* exactly once or not at all, and while it is out the chat has an owner   *)
(* and nothing has woken it.                                               *)
OfferInv ==
  isOpen =>
    /\ pings = IF idleSent THEN 1 ELSE 0
    /\ idleSent => owner # NoAdmin /\ Quiet

\* Every step keeps it so that an offered inquiry is one nobody talks in.
LEMMA OfferInvStep == TypeInv /\ OfferInv /\ [Next]_vars => OfferInv'
<1> SUFFICES ASSUME TypeInv, OfferInv, [Next]_vars PROVE OfferInv'
  OBVIOUS
<1>1. CASE Offered
  <2>1. isOpen => pings = 0
    BY <1>1 DEF OfferInv, Offered
  <2>2. isOpen => pings' = 1
    BY <1>1, <2>1 DEF Offered
  <2> QED
    BY <1>1, <2>2 DEF OfferInv, Offered, Quiet
<1>2. CASE Asked \/ Ended \/ FirstTaken \/ Woken \/ TakenOver
  BY <1>2 DEF OfferInv, Asked, Ended, FirstTaken, Woken, TakenOver
<1>3. CASE Aged
  BY <1>3 DEF OfferInv, Aged, Quiet
<1>4. CASE UNCHANGED <<round, isOpen, owner, idleSent, age, pings, passed>>
  BY <1>4 DEF OfferInv, Quiet
<1> QED
  BY <1>1, <1>2, <1>3, <1>4, RowMoves DEF RowMove

(* "Continue or end?" is only ever asked once, about a chat that its owner *)
(* has left quiet: whatever wakes it withdraws the offer.                  *)
THEOREM OfferCorrect == Spec => []OfferedIsQuiet
<1>1. Init => OfferInv
  BY DEF Init, OfferInv
<1>2. OfferInv => OfferedIsQuiet
  BY DEF OfferInv, OfferedIsQuiet
<1> QED
  BY <1>1, <1>2, OfferInvStep, TypeInvCorrect, PTL DEF Spec

-----------------------------------------------------------------------------
(* What the owner has been sent *)

\* message m has been, or will be, addressed to everyone or to the owner
Reaches(m, rest) ==
  \/ Admins \subseteq copied[m] \cup rest
  \/ owner # NoAdmin /\ owner \in copied[m] \cup rest

\* a message of this round that is being handled will reach the owner
OnItsWay(t) ==
  /\ pc[t] \in {"m_touch", "m_cards", "m_record"} /\ msgRound[msg[t]] = round =>
       snap[t] \in {NoAdmin, owner}
  /\ pc[t] = "m_send" /\ msgRound[msg[t]] = round => Reaches(msg[t], todo[t])

(* Until the chat is taken over with "continue", an owner read earlier in  *)
(* the round is the owner, so a message on its way, and one whose handler  *)
(* is through, goes to everyone or to the owner.                           *)
TalkInv ==
  isOpen /\ ~passed =>
    /\ \A t \in Procs : OnItsWay(t)
    /\ \A m \in finished : msgRound[m] = round => Reaches(m, {})

\* A step of one handler inside an open talk that has no new owner keeps the owner's reading of
\* the messages.
LEMMA TalkInvStep ==
  ASSUME TypeInv, TypeInv', TalkInv, NEW s \in Procs, Moves(s), isOpen', ~passed',
         isOpen, ~passed, round' = round, owner \in {NoAdmin, owner'}
  PROVE  TalkInv'
<1> USE DEF WithMsg
<1>1. \A m \in 1 .. lastMsg : msgRound'[m] = msgRound[m] /\ copied[m] \subseteq copied'[m]
  BY DEF Moves, MessagesMove
<1>3. ASSUME NEW t \in Procs PROVE OnItsWay(t)'
  <2>1. CASE Kept(t)
    <3>1. pc[t] \in WithMsg => msg[t] \in 1 .. lastMsg
      BY DEF TypeInv, LocalsInv
    <3>2. OnItsWay(t)
      BY DEF TalkInv
    <3>3. Reaches(msg[t], todo[t]) /\ pc[t] = "m_send" => Reaches(msg[t], todo[t])'
      BY <1>1, <2>1, <3>1 DEF Reaches, Kept
    <3> QED
      BY <1>1, <2>1, <3>1, <3>2, <3>3 DEF OnItsWay, Kept
  <2>2. CASE pc'[t] \notin {"m_touch", "m_cards", "m_record", "m_send"}
    BY <2>2 DEF OnItsWay
  <2>3. CASE ~Kept(t) /\ pc'[t] \in {"m_touch", "m_cards", "m_record", "m_send"}
    <3>1. t = s /\ HandlerMoves(s)
      BY <2>3 DEF Moves
    <3>2. CASE pc'[s] = "m_touch" /\ snap'[s] = owner
      BY <3>1, <3>2 DEF OnItsWay
    <3>3. CASE /\ pc'[s] \in {"m_cards", "m_record"} /\ pc[s] \in {"m_touch", "m_cards"}
               /\ msg'[s] = msg[s] /\ snap'[s] = snap[s]
      <4>1. msg[s] \in 1 .. lastMsg
        BY <3>3 DEF TypeInv, LocalsInv
      <4> QED
        BY <1>1, <3>1, <3>3, <4>1 DEF OnItsWay, TalkInv
    <3>4. CASE /\ pc'[s] = "m_send" /\ pc[s] = "m_record" /\ msg'[s] = msg[s] /\ snap'[s] = snap[s]
               /\ todo'[s] = IF snap[s] # NoAdmin THEN {snap[s]} ELSE Admins
      <4>1. msg[s] \in 1 .. lastMsg
        BY <3>4 DEF TypeInv, LocalsInv
      <4>2. msgRound[msg[s]] = round => snap[s] \in {NoAdmin, owner}
        BY <3>4 DEF OnItsWay, TalkInv
      <4> QED
        BY <1>1, <3>1, <3>4, <4>1, <4>2 DEF OnItsWay, Reaches
    <3>5. CASE /\ pc'[s] = "m_send" /\ pc[s] = "m_send" /\ msg'[s] = msg[s]
               /\ todo[s] \subseteq todo'[s] \cup copied'[msg[s]]
      <4>1. msg[s] \in 1 .. lastMsg
        BY <3>5 DEF TypeInv, LocalsInv
      <4>2. msgRound[msg[s]] = round => Reaches(msg[s], todo[s])
        BY <3>5 DEF OnItsWay, TalkInv
      <4> QED
        BY <1>1, <3>1, <3>5, <4>1, <4>2 DEF OnItsWay, Reaches
    <3> QED
      BY <2>3, <3>1, <3>2, <3>3, <3>4, <3>5 DEF HandlerMoves, Bare, WithAdmin
  <2> QED
    BY <2>1, <2>2, <2>3
<1>4. ASSUME NEW m \in finished', msgRound'[m] = round PROVE Reaches(m, {})'
  <2>1. CASE m \in finished
    <3>1. m \in 1 .. lastMsg /\ Reaches(m, {})
      BY <1>1, <1>4, <2>1 DEF TypeInv, LocalsInv, TalkInv
    <3> QED
      BY <1>1, <3>1 DEF Reaches
  <2>2. CASE pc[s] = "m_send" /\ m = msg[s] /\ todo[s] \subseteq copied'[m]
    <3>1. m \in 1 .. lastMsg
      BY <2>2 DEF TypeInv, LocalsInv
    <3>2. Reaches(m, todo[s])
      BY <1>1, <1>4, <2>2, <3>1 DEF OnItsWay, TalkInv
    <3> QED
      BY <1>1, <2>2, <3>1, <3>2 DEF Reaches
  <2> QED
    BY <2>1, <2>2 DEF Moves, MessagesMove
<1> QED
  BY <1>3, <1>4 DEF TalkInv

\* Every step keeps it so that the owner has the messages of the talk, or a handler is about to
\* bring them.
LEMMA TalkInvNext == TypeInv /\ TalkInv /\ [Next]_vars => TalkInv'
<1> SUFFICES ASSUME TypeInv, TalkInv, [Next]_vars, isOpen', ~passed' PROVE TalkInv'
  BY DEF TalkInv
<1>0. PICK s \in Procs : Moves(s)
  BY StepMoves, TapMoves, SweepMoves, WorldMoves DEF Next, TypeInv, Procs
<1>1. TypeInv'
  BY TypeInvStep
<1>2. CASE Asked
  <2>1. \A m \in Msgs : msgRound'[m] # round'
    BY <1>0, <1>2, TypeParts, InquiriesAssumption
       DEF Asked, TypeInv, LocalsInv, Moves, MessagesMove, MsgTypes, RowTypes
  <2>2. finished' \subseteq Msgs /\ \A t \in Procs : pc'[t] \in WithMsg => msg'[t] \in Msgs
    <3>1. 1 .. lastMsg' \subseteq Msgs
      BY <1>1, TypeParts, InquiriesAssumption DEF TypeInv, MsgTypes, Msgs
    <3> QED
      BY <1>1, <3>1 DEF TypeInv, LocalsInv
  <2> QED
    BY <2>1, <2>2 DEF TalkInv, OnItsWay, WithMsg
<1>3. CASE ~Asked
  <2>1. isOpen /\ ~passed /\ round' = round /\ owner \in {NoAdmin, owner'}
    <3>1. RowMove
      BY RowMoves
    <3>2. CASE FirstTaken
      BY <3>2 DEF FirstTaken
    <3>3. CASE Woken \/ Offered \/ Aged
      <4>1. isOpen' = isOpen /\ passed' = passed /\ round' = round /\ owner' = owner
        BY <3>3 DEF Woken, Offered, Aged
      <4> QED
        BY <4>1
    <3>4. CASE UNCHANGED <<round, isOpen, owner, idleSent, age, pings, passed>>
      <4>1. isOpen' = isOpen /\ passed' = passed /\ round' = round /\ owner' = owner
        BY <3>4
      <4> QED
        BY <4>1
    <3>5. ~Ended /\ ~TakenOver
      BY DEF Ended, TakenOver
    <3> QED
      BY <1>3, <3>1, <3>2, <3>3, <3>4, <3>5 DEF RowMove
  <2> QED
    BY <1>0, <1>1, <2>1, TalkInvStep
<1> QED
  BY <1>2, <1>3

(* Whoever accepts the chat first has been sent all the customer wrote in  *)
(* this round, also what was on its way to all the admins when he          *)
(* accepted.                                                               *)
THEOREM OwnerHasTheTalkCorrect == Spec => []OwnerHasTheTalk
<1>1. Init => TalkInv
  BY DEF Init, TalkInv
<1>2. TypeInv /\ TalkInv => OwnerHasTheTalk
  <2>1. ASSUME TypeInv PROVE owner # NoAdmin => owner \in Admins
    BY <2>1, TypeParts DEF TypeInv, RowTypes
  <2> QED
    BY <2>1 DEF TalkInv, OwnerHasTheTalk, Reaches
<1> QED
  BY <1>1, <1>2, TalkInvNext, TypeInvCorrect, PTL DEF Spec
=============================================================================

-------------------------- MODULE OrderCardsProofs --------------------------
(***************************************************************************)
(* What holds of OrderCards for every number of admins, orders, messages,  *)
(* tasks and faults: the types, that an order is reminded of at most as    *)
(* often as the settings say, and, of an order on whose cards no two tasks *)
(* worked at once and no call failed, that its cards are current, that     *)
(* every reply finds the chat and that a clean-up leaves nothing behind.   *)
(***************************************************************************)
EXTENDS OrderCards, TLAPS, FiniteSetTheorems

-----------------------------------------------------------------------------
(* Types *)

Labels == {"idle", "n_get", "n_send", "n_save", "d_open", "g_get", "g_edit", "d_link", "k_get", "k_edit",
           "s_send", "s_save", "s_link", "s_delete", "t_send", "t_link", "c_delete",
           "r_get", "r_send", "r_mark"}

Placing == {"n_get", "n_send", "n_save"}
Showing == {"s_send", "s_save", "s_link", "s_delete"}
Closing == {"k_get", "k_edit"}
Talking == {"t_send", "t_link"}
Reminding == {"r_get", "r_send", "r_mark"}

\* where a handler of this kind can be
Where(kind) ==
  CASE kind = "none" -> {"idle"}
    [] kind = "place" -> Placing
    [] kind = "decide" -> {"d_open", "g_get", "g_edit"}
    [] kind = "accept" -> {"g_get", "g_edit", "d_link"}
    [] kind \in {"finish", "withdraw"} -> {"g_get", "g_edit"}
    [] kind = "close" -> Closing
    [] kind = "show" -> Showing
    [] kind = "talk" -> Talking
    [] kind = "clean" -> {"c_delete"}
    [] kind = "remind" -> Reminding

Kinds == {"none", "place", "decide", "accept", "finish", "withdraw", "close", "show", "talk", "clean", "remind"}

RowTables == UNION {[S -> Row] : S \in SUBSET Orders}

CardTables == [Admins -> Msgs \cup {NoMsg}]

TaskRecords ==
  [pc : Labels, kind : Kinds, list : SUBSET Orders, rows : RowTables, admin : Admins \cup {0},
   refs : SUBSET Msgs, base : 0 .. MaxMsgs, sent : CardTables]

\* the steps that use the rows that were read
Knowing == {"n_send", "g_edit", "d_link", "k_edit"} \cup Showing

Shape(r) ==
  /\ r.pc \in Where(r.kind)
  /\ r.list = {} <=> r.pc = "idle"
  /\ r.kind \notin {"none", "show", "clean", "remind"} => \E o \in Orders : r.list = {o}
  /\ r.pc \in Knowing => r.list \subseteq DOMAIN r.rows
  /\ r.pc \in Showing => r.admin \in Admins
  /\ r.pc \in Closing => r.base \in Msgs

\* the ids a task has for messages it has not sent yet
Reserved(t) ==
  {m \in Msgs :
     \/ task[t].pc \in {"n_get", "n_send", "t_send"} /\ task[t].base < m /\ m <= task[t].base + NumAdmins
     \/ task[t].pc = "s_send" /\ task[t].base < m /\ m <= task[t].base + Cardinality(task[t].list)
     \/ task[t].pc \in {"s_save", "s_link", "s_delete"} /\ task[t].base + 1 < m
                                                       /\ m <= task[t].base + Cardinality(task[t].list)}

Held(t) ==
  /\ task[t].pc \in {"n_get", "n_send", "n_save", "t_send"} => task[t].base + NumAdmins <= lastMsg
  /\ task[t].pc \in Showing => task[t].base + Cardinality(task[t].list) <= lastMsg

\* one job reminds, of orders that may still be reminded of
Due ==
  /\ \A t, u \in Tasks : task[t].kind = "remind" /\ task[u].kind = "remind" => t = u
  /\ \A t \in Tasks : task[t].kind = "remind" =>
       \A o \in task[t].list : order[o].status # "none" /\ order[o].count < RemindMax

OrderTypes == order \in [Orders -> Row]

MsgTypes ==
  /\ msg \in [Msgs -> [of : Orders \cup {NoOrder}, admin : Admins \cup {0}, buttons : Buttons]]
  /\ \A m \in Msgs : Visible(m) => msg[m].of # NoOrder

TableTypes == OrderTypes /\ relay \subseteq Msgs /\ MsgTypes

CountTypes == lastMsg \in 0 .. MaxMsgs /\ heard \in [Orders -> Nat] /\ mixed \subseteq Orders /\ faults \in 0 .. MaxFaults

TaskTypes == task \in [Tasks -> TaskRecords] /\ \A t \in Tasks : Shape(task[t]) /\ Held(t)

TypeInv == TableTypes /\ CountTypes /\ TaskTypes /\ Due

-----------------------------------------------------------------------------
(* Reminders *)

\* the order somebody was just reminded of, not yet counted
Counting(t, o) == task[t].pc = "r_mark" /\ Current(t) = o

RemindInv ==
  /\ \A o \in Orders : heard[o] <= RemindMax + faults
  /\ \A o \in Orders : order[o].status \in {"none", "pending"} /\ (\A t \in Tasks : ~Counting(t, o)) =>
       heard[o] <= order[o].count + faults
  /\ \A t \in Tasks : At(t, "r_send") => heard[Current(t)] <= order[Current(t)].count + faults
  /\ \A t \in Tasks : At(t, "r_mark") => heard[Current(t)] <= order[Current(t)].count + faults + 1

-----------------------------------------------------------------------------
(* Whose a message is *)

Of(m) == msg[m].of

\* what is not sent yet is nobody's, and what one task will send no other will
FreshInv ==
  /\ \A m \in Msgs : m > lastMsg => Of(m) = NoOrder
  /\ \A t \in Tasks : \A m \in Reserved(t) : Of(m) = NoOrder
  /\ \A t, u \in Tasks : t # u => Reserved(t) \cap Reserved(u) = {}

OrderRefs == \A o \in Orders, a \in Admins : order[o].cards[a] # NoMsg => Of(order[o].cards[a]) = o

RowRefs(t) ==
  \A o \in DOMAIN task[t].rows, a \in Admins :
    task[t].rows[o].cards[a] # NoMsg => Of(task[t].rows[o].cards[a]) = o

HandRefs(t) ==
  /\ At(t, "n_save") => \A a \in Admins : task[t].sent[a] # NoMsg => Of(task[t].sent[a]) \in task[t].list
  /\ task[t].pc \in {"t_link", "c_delete"} => \A m \in task[t].refs : Of(m) \in task[t].list
  /\ task[t].pc \in Closing => Of(task[t].base) \in task[t].list
  /\ task[t].pc \in {"s_save", "s_link", "s_delete"} => Of(NewCard(t)) = Current(t)

RefInv == FreshInv /\ OrderRefs /\ \A t \in Tasks : RowRefs(t) /\ HandRefs(t)

-----------------------------------------------------------------------------
(* An order nothing disturbed *)

Clear(o) == faults = 0 /\ o \notin mixed

Work(o) == {t \in Tasks : o \in task[t].list /\ task[t].kind # "remind"}

CardTasks(o) == {t \in Work(o) : task[t].kind # "talk"}

\* where a task is with an order: the list of cards shows one after the other
Stage(t, o) == IF task[t].kind = "show" /\ Current(t) # o THEN "s_send" ELSE task[t].pc

\* one task works on its cards, customer and clean-up do not meet
Alone(o) ==
  /\ \A t, u \in CardTasks(o) : t = u
  /\ \A t, u \in Work(o) : task[t].kind = "clean" => t = u
  /\ order[o].status = "none" => Work(o) = {}

HasNone(o) == \A m \in Msgs : Of(m) # o

IsCard(o, a, m) == Of(m) = o /\ msg[m].admin = a /\ msg[m].buttons \in CardButtons

\* every card has the buttons of the order's state
Lettered(o) == \A a \in Admins, m \in Msgs : IsCard(o, a, m) => msg[m].buttons = Markup(order[o])

\* every admin has one card, the one in the table
OneEach(o, cards) == \A a \in Admins : cards[a] \in Msgs /\ \A m \in Msgs : IsCard(o, a, m) <=> m = cards[a]

Cards(o) == OneEach(o, order[o].cards)

Sent(t, o) == OneEach(o, task[t].sent)

Fit(o) == Cards(o) /\ Lettered(o)

\* what the task read is still so
SameState(t, o) ==
  /\ task[t].rows[o].status = order[o].status
  /\ task[t].rows[o].over = order[o].over
  /\ task[t].rows[o].chat = order[o].chat

Same(t, o) == SameState(t, o) /\ task[t].rows[o].cards = order[o].cards

\* a card was sent anew: for a while its admin has two
Twin(t, o) ==
  /\ NewCard(t) \in Msgs
  /\ \A a \in Admins : /\ task[t].rows[o].cards[a] \in Msgs /\ task[t].rows[o].cards[a] # NewCard(t)
                       /\ \A m \in Msgs : IsCard(o, a, m) <=> \/ m = task[t].rows[o].cards[a]
                                                              \/ a = task[t].admin /\ m = NewCard(t)

\* what holds of the order when one task is at this stage with it
Phase(t, o) ==
  /\ Stage(t, o) \in Placing => order[o].status = "pending" /\ order[o].cards = NoCards
  /\ Stage(t, o) \in {"n_get", "n_send"} => HasNone(o)
  /\ Stage(t, o) = "n_send" => SameState(t, o)
  /\ Stage(t, o) = "n_save" => Sent(t, o) /\ Lettered(o)
  /\ Stage(t, o) = "d_open" => InProgress(o) /\ ~order[o].chat
  /\ Stage(t, o) \in {"d_open", "g_get", "g_edit"} => Stored(o) /\ Cards(o)
  /\ Stage(t, o) \in {"g_edit", "d_link", "k_edit", "s_send", "s_save"} => Same(t, o)
  /\ Stage(t, o) \in {"d_link", "k_get", "k_edit"} => InProgress(o) /\ Fit(o)
  /\ task[t].kind = "accept" => InProgress(o)
  /\ Stage(t, o) = "s_send" => Stored(o) /\ Fit(o)
  /\ Stage(t, o) \in {"s_save", "s_link", "s_delete"} => Stored(o) /\ SameState(t, o) /\ Twin(t, o) /\ Lettered(o)
  /\ Stage(t, o) \in {"s_link", "s_delete"} =>
       \A a \in Admins : order[o].cards[a] = IF a = task[t].admin THEN NewCard(t) ELSE task[t].rows[o].cards[a]
  /\ Stage(t, o) = "c_delete" => order[o].status = "deleted"

PhaseInv(o) ==
  /\ CardTasks(o) = {} => /\ order[o].status = "none" => HasNone(o) /\ order[o].cards = NoCards
                          /\ Stored(o) => Fit(o)
  /\ \A t \in CardTasks(o) : Phase(t, o)

\* the chat, and when no message of the customer is under way
TalkInv(o) ==
  /\ order[o].chat => InProgress(o)
  /\ order[o].status \in {"none", "pending"} => ~order[o].over
  /\ order[o].status \in {"none", "pending", "deleted"} \/ (\E t \in CardTasks(o) : At(t, "d_open")) =>
       \A t \in Work(o) : task[t].kind # "talk"

Seen(o, m) == Of(m) = o /\ Visible(m)

Known(o, m) == \E a \in Admins : order[o].cards[a] = m

\* a relayed message that does not lead to the chat yet
Awaited(o, m) == \E t \in Work(o) : At(t, "t_link") /\ m \in task[t].refs

\* a card the table does not know yet, or no more
Carries(t, o, m) ==
  \/ Stage(t, o) = "n_save" /\ \E a \in Admins : task[t].sent[a] = m
  \/ Stage(t, o) = "s_save" /\ NewCard(t) = m
  \/ Stage(t, o) \in {"s_link", "s_delete"} /\ task[t].rows[o].cards[task[t].admin] = m

\* a card that does not lead to the chat yet
Loose(t, o, m) ==
  \/ task[t].kind = "accept" /\ Known(o, m)
  \/ Stage(t, o) \in {"s_save", "s_link"} /\ NewCard(t) = m

LinkInv(o) ==
  \A m \in Msgs :
    /\ Seen(o, m) /\ Stored(o) => \/ m \in relay \/ Known(o, m) \/ Awaited(o, m)
                                  \/ \E t \in CardTasks(o) : Carries(t, o, m)
    /\ Seen(o, m) /\ order[o].chat => \/ m \in relay \/ Awaited(o, m)
                                      \/ \E t \in CardTasks(o) : Loose(t, o, m)
    /\ Of(m) = o /\ order[o].status = "deleted" =>
         m \notin relay /\ (Visible(m) => \E t \in CardTasks(o) : m \in task[t].refs)

OrderInv(o) == Alone(o) /\ PhaseInv(o) /\ TalkInv(o) /\ LinkInv(o)

ClearInv == \A o \in Orders : Clear(o) => OrderInv(o)

-----------------------------------------------------------------------------
(* Sets of orders *)

Smaller == {pair \in Nat \X Nat : pair[1] < pair[2]}

\* a set of numbers has a least one
LEMMA LeastNumber ==
  ASSUME NEW S \in SUBSET Nat, S # {}
  PROVE  \E n \in S : \A m \in S : n <= m
<1>1. IsWellFoundedOn(Smaller, Nat)
  <2>1. Smaller = OpToRel(<, Nat)
    BY DEF OpToRel, Smaller
  <2> QED
    BY <2>1, NatLessThanWellFounded
<1>2. PICK n \in S : \A m \in S : ~(<<m, n>> \in Smaller)
  BY <1>1, WFMin
<1>3. \A m \in S : n \in Nat /\ m \in Nat /\ ~(m < n)
  BY <1>2 DEF Smaller
<1>4. \A m \in S : n <= m
  BY <1>3
<1> QED
  BY <1>4

\* the order a list is at is in it
LEMMA LeastOrder ==
  ASSUME NEW S \in SUBSET Orders, S # {}
  PROVE  Least(S) \in S
<1>1. S \in SUBSET Nat
  BY OrderCardsAssumption DEF Orders
<1>2. \E m \in S : \A k \in S : m <= k
  BY <1>1, LeastNumber
<1> QED
  BY <1>2 DEF Least

\* how many orders a list has, and has left without the one it is at
LEMMA ListCounted ==
  ASSUME NEW S \in SUBSET Orders, S # {}
  PROVE  /\ Cardinality(S) \in Nat \ {0}
         /\ Cardinality(S) = 1 => S = {Least(S)}
         /\ Cardinality(S) # 1 => S \ {Least(S)} # {} /\ Cardinality(S \ {Least(S)}) = Cardinality(S) - 1
<1>1. IsFiniteSet(Orders)
  BY FS_Interval, OrderCardsAssumption DEF Orders
<1>2. IsFiniteSet(S)
  BY <1>1, FS_Subset
<1>3. Cardinality(S) \in Nat /\ Cardinality(S) # 0
  BY <1>2, FS_CardinalityType, FS_EmptySet
<1>4. PICK x \in S : x = Least(S)
  BY LeastOrder
<1>5. IsFiniteSet(S \ {x}) /\ Cardinality(S \ {x}) = Cardinality(S) - 1
  BY <1>2, FS_RemoveElement
<1>6. Cardinality(S) = 1 => S \ {x} = {}
  BY <1>5, FS_EmptySet
<1>7. S \ {x} = {} => Cardinality(S) = 1
  BY <1>5, <1>3, FS_EmptySet
<1> QED
  BY <1>3, <1>4, <1>5, <1>6, <1>7

-----------------------------------------------------------------------------
(* Records of the tasks *)

\* The bounds are natural numbers, and orders, messages and admins are the numbers the arithmetic
\* on ids takes them for.
LEMMA Constants ==
  /\ NumAdmins \in Nat /\ NumAdmins # 0 /\ MaxMsgs \in Nat /\ MaxFaults \in Nat /\ RemindMax \in Nat
  /\ \A a \in Admins : a \in Nat /\ 1 <= a /\ a <= NumAdmins
  /\ Orders \subseteq Nat \ {0} /\ Msgs \subseteq Nat \ {0} /\ NoOrder \notin Orders /\ NoMsg \notin Msgs
  /\ \A m : m \in Msgs <=> (m \in Nat /\ 1 <= m /\ m <= MaxMsgs)
BY OrderCardsAssumption DEF Admins, Orders, Msgs, NoOrder, NoMsg

\* The record of a task that does nothing is well typed and names no order.
LEMMA FreeTyped == Free \in TaskRecords /\ Shape(Free) /\ Free.pc = "idle" /\ Free.list = {} /\ Free.kind = "none"
<1>1. NoCards \in CardTables
  BY DEF NoCards, CardTables
<1>2. <<>> \in RowTables
  <2>1. <<>> \in [{} -> Row]
    OBVIOUS
  <2> QED
    BY <2>1 DEF RowTables
<1>3. 0 \in 0 .. MaxMsgs
  BY Constants
<1> QED
  BY <1>1, <1>2, <1>3 DEF Free, TaskRecords, Labels, Kinds, Shape, Where, Knowing, Showing, Closing

\* The columns of an order's row, each with its type.
LEMMA RowTyped ==
  ASSUME NEW r \in Row
  PROVE  /\ r.status \in {"none", "pending", "accepted", "rejected", "deleted"}
         /\ r.over \in BOOLEAN /\ r.chat \in BOOLEAN /\ r.cards \in CardTables /\ r.count \in 0 .. RemindMax
BY DEF Row, CardTables

\* the rows of a list of orders
LEMMA RowsTyped ==
  ASSUME TableTypes, NEW S \in SUBSET Orders
  PROVE  [o \in S |-> order[o]] \in RowTables /\ DOMAIN [o \in S |-> order[o]] = S
<1>1. [o \in S |-> order[o]] \in [S -> Row]
  BY DEF TableTypes, OrderTypes
<1> QED
  BY <1>1 DEF RowTables

\* A row a task has read is a row, and of an order.
LEMMA RowsKnown ==
  ASSUME TaskTypes, NEW t \in Tasks, NEW o \in DOMAIN task[t].rows
  PROVE  o \in Orders /\ task[t].rows[o] \in Row
<1>1. task[t].rows \in RowTables
  BY DEF TaskTypes, TaskRecords
<1>2. PICK S \in SUBSET Orders : task[t].rows \in [S -> Row]
  BY <1>1 DEF RowTables
<1> QED
  BY <1>2

\* The fields of a task's record, each with its type.
LEMMA RecordTyped ==
  ASSUME TaskTypes, NEW t \in Tasks
  PROVE  /\ task[t].pc \in Labels /\ task[t].kind \in Kinds /\ task[t].list \in SUBSET Orders
         /\ task[t].rows \in RowTables /\ task[t].admin \in Admins \cup {0} /\ task[t].refs \in SUBSET Msgs
         /\ task[t].base \in 0 .. MaxMsgs /\ task[t].sent \in CardTables /\ Shape(task[t]) /\ Held(t)
BY DEF TaskTypes, TaskRecords

\* whoever is not idle is at an order
LEMMA CurrentTyped ==
  ASSUME TaskTypes, NEW t \in Tasks, task[t].pc # "idle"
  PROVE  /\ Current(t) \in task[t].list /\ Current(t) \in Orders
         /\ task[t].kind \notin {"none", "show", "clean", "remind"} => task[t].list = {Current(t)}
         /\ task[t].pc \in Knowing => Current(t) \in DOMAIN task[t].rows /\ RowOf(t) \in Row
<1>1. task[t].list \in SUBSET Orders /\ task[t].list # {} /\ Shape(task[t])
  BY RecordTyped DEF Shape
<1>2. Current(t) \in task[t].list
  BY <1>1, LeastOrder DEF Current
<1> QED
  BY <1>1, <1>2, RowsKnown DEF Shape, RowOf

-----------------------------------------------------------------------------
(* Where the steps take a task *)

\* the others stay where they are
Rest(t) == (\A u \in Tasks \ {t} : task'[u] = task[u]) /\ task' = [task EXCEPT ![t] = task'[t]]

Typed(t) == task'[t] \in TaskRecords /\ Shape(task'[t])

SameHand(t) == task'[t].kind = task[t].kind /\ task'[t].list = task[t].list /\ task'[t].admin = task[t].admin

SameRows(t) == task'[t].rows = task[t].rows

SameMail(t) == task'[t].base = task[t].base /\ task'[t].sent = task[t].sent /\ task'[t].refs = task[t].refs

\* A task that takes a record has that record, and the other tasks keep theirs.
LEMMA BecomeLands ==
  ASSUME TaskTypes, NEW t \in Tasks, NEW r, Become(t, r)
  PROVE  task'[t] = r /\ Rest(t) /\ task' = [task EXCEPT ![t] = r]
BY DEF Become, TaskTypes, Rest

\* A handler that returns leaves nothing of its work behind.
LEMMA DoneLands ==
  ASSUME TaskTypes, NEW t \in Tasks, Done(t)
  PROVE  /\ task'[t] = Free /\ Rest(t) /\ Typed(t)
         /\ task'[t].pc = "idle" /\ task'[t].kind = "none" /\ task'[t].list = {} /\ task'[t].rows = <<>>
<1>1. Free.rows = <<>>
  BY DEF Free
<1> QED
  BY <1>1, BecomeLands, FreeTyped DEF Done, Typed

\* A handler that moves on to a place of its own kind keeps what it has read and stays well typed.
LEMMA GotoLands ==
  ASSUME TaskTypes, NEW t \in Tasks, NEW l \in Labels, Goto(t, l), l \in Where(task[t].kind),
         l # "idle", task[t].pc # "idle",
         l \in Knowing => task[t].list \subseteq DOMAIN task[t].rows,
         l \in Showing => task[t].admin \in Admins,
         l \in Closing => task[t].base \in Msgs
  PROVE  task'[t].pc = l /\ SameHand(t) /\ SameRows(t) /\ SameMail(t) /\ Rest(t) /\ Typed(t)
<1> DEFINE r == [task[t] EXCEPT !.pc = l]
<1>1. task[t] \in TaskRecords /\ Shape(task[t])
  BY DEF TaskTypes
<1>2. r \in TaskRecords /\ r.pc = l /\ r.kind = task[t].kind /\ r.list = task[t].list /\ r.rows = task[t].rows
      /\ r.admin = task[t].admin /\ r.refs = task[t].refs /\ r.base = task[t].base /\ r.sent = task[t].sent
  BY <1>1 DEF TaskRecords
<1>3. task' = [task EXCEPT ![t] = r]
  BY DEF Goto, TaskTypes
<1>4. task'[t] = r /\ Rest(t)
  BY <1>3 DEF TaskTypes, Rest
<1> HIDE DEF r
<1>5. Shape(r)
  BY <1>1, <1>2 DEF Shape
<1> QED
  BY <1>2, <1>4, <1>5 DEF SameHand, SameRows, SameMail, Typed

\* a handler that has read the order
LEMMA ReadLands ==
  ASSUME TypeInv, NEW t \in Tasks, NEW l \in {"n_send", "g_edit", "k_edit"},
         Become(t, [task[t] EXCEPT !.pc = l, !.rows = Only(Current(t))]),
         l \in Where(task[t].kind), task[t].pc # "idle", task[t].list = {Current(t)},
         l \in Closing => task[t].base \in Msgs
  PROVE  /\ task'[t].pc = l /\ SameHand(t) /\ SameMail(t) /\ Rest(t) /\ Typed(t)
         /\ DOMAIN task'[t].rows = {Current(t)} /\ task'[t].rows[Current(t)] = order[Current(t)]
<1> DEFINE o == Current(t)
           r == [task[t] EXCEPT !.pc = l, !.rows = Only(o)]
<1>0. task[t] \in TaskRecords /\ o \in Orders /\ task[t].list = {o} /\ TableTypes /\ Shape(task[t])
  BY CurrentTyped DEF TaskTypes, TypeInv
<1>1. task'[t] = r /\ Rest(t)
  BY BecomeLands DEF TypeInv
<1> HIDE DEF o
<1>2. Only(o) \in RowTables /\ DOMAIN Only(o) = {o} /\ Only(o)[o] = order[o]
  BY <1>0, RowsTyped DEF Only
<1>3. r \in TaskRecords /\ r.pc = l /\ r.kind = task[t].kind /\ r.list = task[t].list /\ r.rows = Only(o)
      /\ r.admin = task[t].admin /\ r.refs = task[t].refs /\ r.base = task[t].base /\ r.sent = task[t].sent
  BY <1>0, <1>2 DEF TaskRecords, Labels
<1> HIDE DEF r
<1>4. Shape(r)
  BY <1>0, <1>2, <1>3 DEF Shape, Showing
<1>5. o = Current(t)
  BY DEF o
<1> QED
  BY <1>1, <1>2, <1>3, <1>4, <1>5 DEF SameHand, SameMail, Typed

\* a handler begins with one order
LEMMA BeginLands ==
  ASSUME TaskTypes, NEW t \in Tasks, NEW o \in Orders, NEW k \in Kinds, NEW l \in Labels \ (Knowing \cup Closing),
         l \in Where(k), l # "idle",
         Become(t, [Free EXCEPT !.pc = l, !.kind = k, !.list = {o}])
  PROVE  /\ task'[t].pc = l /\ task'[t].kind = k /\ task'[t].list = {o} /\ Rest(t) /\ Typed(t)
         /\ task'[t].rows = <<>>
<1> DEFINE r == [Free EXCEPT !.pc = l, !.kind = k, !.list = {o}]
<1>1. task'[t] = r /\ Rest(t)
  BY BecomeLands
<1>2. r \in TaskRecords /\ r.pc = l /\ r.kind = k /\ r.list = {o} /\ r.rows = <<>>
  BY FreeTyped DEF TaskRecords, Free
<1> HIDE DEF r
<1>3. Shape(r)
  BY <1>2 DEF Shape, Knowing
<1> QED
  BY <1>1, <1>2, <1>3 DEF Typed

\* it will send messages
LEMMA BaseLands ==
  ASSUME TypeInv, NEW t \in Tasks, NEW o \in Orders, NEW k \in {"place", "talk"}, NEW l \in {"n_get", "t_send"},
         l \in Where(k), Become(t, [Free EXCEPT !.pc = l, !.kind = k, !.list = {o}, !.base = lastMsg])
  PROVE  /\ task'[t].pc = l /\ task'[t].kind = k /\ task'[t].list = {o} /\ task'[t].base = lastMsg
         /\ task'[t].refs = {} /\ task'[t].rows = <<>> /\ Rest(t) /\ Typed(t)
<1> DEFINE r == [Free EXCEPT !.pc = l, !.kind = k, !.list = {o}, !.base = lastMsg]
<1>1. task'[t] = r /\ Rest(t)
  BY BecomeLands DEF TypeInv
<1>2. lastMsg \in 0 .. MaxMsgs
  BY DEF TypeInv, CountTypes
<1>3. r \in TaskRecords /\ r.pc = l /\ r.kind = k /\ r.list = {o} /\ r.base = lastMsg /\ r.refs = {} /\ r.rows = <<>>
  BY <1>2, FreeTyped DEF TaskRecords, Labels, Kinds, Free
<1> HIDE DEF r
<1>4. Shape(r)
  BY <1>3 DEF Shape, Knowing, Showing, Closing
<1> QED
  BY <1>1, <1>3, <1>4 DEF Typed

\* The closing of a chat starts with the message it was tapped on and nothing read yet.
LEMMA CloseLands ==
  ASSUME TypeInv, NEW t \in Tasks, NEW o \in Orders, NEW m \in Msgs,
         Become(t, [Free EXCEPT !.pc = "k_get", !.kind = "close", !.list = {o}, !.base = m])
  PROVE  /\ task'[t].pc = "k_get" /\ task'[t].kind = "close" /\ task'[t].list = {o} /\ task'[t].base = m
         /\ task'[t].refs = {} /\ task'[t].rows = <<>> /\ Rest(t) /\ Typed(t)
<1> DEFINE r == [Free EXCEPT !.pc = "k_get", !.kind = "close", !.list = {o}, !.base = m]
<1>1. task'[t] = r /\ Rest(t)
  BY BecomeLands DEF TypeInv
<1>2. m \in 0 .. MaxMsgs
  BY Constants
<1>3. r \in TaskRecords /\ r.pc = "k_get" /\ r.kind = "close" /\ r.list = {o} /\ r.base = m /\ r.refs = {} /\ r.rows = <<>>
  BY <1>2, FreeTyped DEF TaskRecords, Labels, Kinds, Free
<1> HIDE DEF r
<1>4. Shape(r)
  BY <1>3 DEF Shape, Knowing, Showing, Closing, Where
<1> QED
  BY <1>1, <1>3, <1>4 DEF Typed

\* The listing of the orders starts with the rows as they are stored, one new card to send for
\* each.
LEMMA ListLands ==
  ASSUME TypeInv, NEW t \in Tasks, NEW a \in Admins, NEW S \in SUBSET Orders, S # {}, Show(t, a, S)
  PROVE  /\ task'[t].pc = "s_send" /\ task'[t].kind = "show" /\ task'[t].list = S /\ task'[t].base = lastMsg
         /\ task'[t].admin = a /\ DOMAIN task'[t].rows = S /\ \A o \in S : task'[t].rows[o] = order[o]
         /\ task'[t].refs = {} /\ Rest(t) /\ Typed(t)
<1> DEFINE rows == [o \in S |-> order[o]]
           r == [Free EXCEPT !.pc = "s_send", !.kind = "show", !.list = S, !.admin = a, !.base = lastMsg,
                             !.rows = rows]
<1>1. task'[t] = r /\ Rest(t)
  <2>1. Become(t, r)
    BY DEF Show
  <2> QED
    BY <2>1, BecomeLands DEF TypeInv
<1>2. lastMsg \in 0 .. MaxMsgs
  BY DEF TypeInv, CountTypes
<1>3. rows \in RowTables /\ DOMAIN rows = S /\ \A o \in S : rows[o] = order[o]
  BY RowsTyped DEF TypeInv
<1> HIDE DEF rows
<1>4. r \in TaskRecords /\ r.pc = "s_send" /\ r.kind = "show" /\ r.list = S /\ r.base = lastMsg /\ r.admin = a /\ r.rows = rows /\ r.refs = {}
  BY <1>2, <1>3, FreeTyped DEF TaskRecords, Labels, Kinds, Free
<1> HIDE DEF r
<1>5. Shape(r)
  BY <1>3, <1>4 DEF Shape, Knowing, Showing, Closing, Where
<1> QED
  BY <1>1, <1>3, <1>4, <1>5 DEF Typed

\* The purge's background deletion starts with the ids it has collected.
LEMMA CleanLands ==
  ASSUME TypeInv, NEW t \in Tasks, NEW S \in SUBSET Orders, S # {}, NEW R \in SUBSET Msgs,
         Become(t, [Free EXCEPT !.pc = "c_delete", !.kind = "clean", !.list = S, !.refs = R])
  PROVE  /\ task'[t].pc = "c_delete" /\ task'[t].kind = "clean" /\ task'[t].list = S /\ task'[t].refs = R
         /\ task'[t].rows = <<>> /\ Rest(t) /\ Typed(t)
<1> DEFINE r == [Free EXCEPT !.pc = "c_delete", !.kind = "clean", !.list = S, !.refs = R]
<1>1. task'[t] = r /\ Rest(t)
  BY BecomeLands DEF TypeInv
<1>2. r \in TaskRecords /\ r.pc = "c_delete" /\ r.kind = "clean" /\ r.list = S /\ r.refs = R /\ r.rows = <<>>
  BY FreeTyped DEF TaskRecords, Labels, Kinds, Free
<1> HIDE DEF r
<1>3. Shape(r)
  BY <1>2 DEF Shape, Knowing, Showing, Closing, Where
<1> QED
  BY <1>1, <1>2, <1>3 DEF Typed

\* The reminder job starts with the orders that were waiting.
LEMMA DueLands ==
  ASSUME TypeInv, NEW t \in Tasks, NEW S \in SUBSET Orders, S # {},
         Become(t, [Free EXCEPT !.pc = "r_get", !.kind = "remind", !.list = S])
  PROVE  /\ task'[t].pc = "r_get" /\ task'[t].kind = "remind" /\ task'[t].list = S /\ Rest(t) /\ Typed(t)
         /\ task'[t].rows = <<>>
<1> DEFINE r == [Free EXCEPT !.pc = "r_get", !.kind = "remind", !.list = S]
<1>1. task'[t] = r /\ Rest(t)
  BY BecomeLands DEF TypeInv
<1>2. r \in TaskRecords /\ r.pc = "r_get" /\ r.kind = "remind" /\ r.list = S /\ r.rows = <<>>
  BY FreeTyped DEF TaskRecords, Labels, Kinds, Free
<1> HIDE DEF r
<1>3. Shape(r)
  BY <1>2 DEF Shape, Knowing, Showing, Closing, Where, Reminding
<1> QED
  BY <1>1, <1>2, <1>3 DEF Typed

\* a handler has sent the cards, or the lines of the chat
LEMMA CardsLand ==
  ASSUME TypeInv, NEW t \in Tasks, NEW cards \in CardTables, At(t, "n_send"),
         Become(t, [task[t] EXCEPT !.pc = "n_save", !.sent = cards])
  PROVE  /\ task'[t].pc = "n_save" /\ SameHand(t) /\ SameRows(t) /\ task'[t].base = task[t].base
         /\ task'[t].refs = task[t].refs /\ task'[t].sent = cards /\ Rest(t) /\ Typed(t)
<1> DEFINE r == [task[t] EXCEPT !.pc = "n_save", !.sent = cards]
<1>0. task[t] \in TaskRecords /\ Shape(task[t])
  BY DEF TypeInv, TaskTypes
<1>1. task'[t] = r /\ Rest(t)
  BY BecomeLands DEF TypeInv
<1>2. r \in TaskRecords /\ r.pc = "n_save" /\ r.kind = task[t].kind /\ r.list = task[t].list /\ r.rows = task[t].rows
      /\ r.admin = task[t].admin /\ r.refs = task[t].refs /\ r.base = task[t].base /\ r.sent = cards
  BY <1>0 DEF TaskRecords, Labels
<1> HIDE DEF r
<1>3. Shape(r)
  BY <1>0, <1>2 DEF Shape, Knowing, Showing, Closing, Where, Placing, Talking, Reminding, At, TaskRecords, Kinds
<1> QED
  BY <1>1, <1>2, <1>3 DEF SameHand, SameRows, Typed

\* The relay of a chat line keeps what its handler has read, and takes the ids of the lines it has
\* sent.
LEMMA LinesLand ==
  ASSUME TypeInv, NEW t \in Tasks, NEW R \in SUBSET Msgs, At(t, "t_send"),
         Become(t, [task[t] EXCEPT !.pc = "t_link", !.refs = R])
  PROVE  /\ task'[t].pc = "t_link" /\ SameHand(t) /\ SameRows(t) /\ task'[t].base = task[t].base
         /\ task'[t].refs = R /\ task'[t].sent = task[t].sent /\ Rest(t) /\ Typed(t)
<1> DEFINE r == [task[t] EXCEPT !.pc = "t_link", !.refs = R]
<1>0. task[t] \in TaskRecords /\ Shape(task[t])
  BY DEF TypeInv, TaskTypes
<1>1. task'[t] = r /\ Rest(t)
  BY BecomeLands DEF TypeInv
<1>2. r \in TaskRecords /\ r.pc = "t_link" /\ r.kind = task[t].kind /\ r.list = task[t].list /\ r.rows = task[t].rows
      /\ r.admin = task[t].admin /\ r.refs = R /\ r.base = task[t].base /\ r.sent = task[t].sent
  BY <1>0 DEF TaskRecords, Labels
<1> HIDE DEF r
<1>3. Shape(r)
  BY <1>0, <1>2 DEF Shape, Knowing, Showing, Closing, Where, Placing, Talking, Reminding, At, TaskRecords, Kinds
<1> QED
  BY <1>1, <1>2, <1>3 DEF SameHand, SameRows, Typed

\* where a step can be tells what the task does
LEMMA KindOf ==
  ASSUME TaskTypes, NEW t \in Tasks
  PROVE  /\ task[t].pc \in Placing <=> task[t].kind = "place"
         /\ task[t].pc \in Showing <=> task[t].kind = "show"
         /\ task[t].pc \in Closing <=> task[t].kind = "close"
         /\ task[t].pc \in Talking <=> task[t].kind = "talk"
         /\ task[t].pc \in Reminding <=> task[t].kind = "remind"
         /\ task[t].pc = "c_delete" <=> task[t].kind = "clean"
         /\ task[t].pc = "idle" <=> task[t].kind = "none"
         /\ task[t].pc = "d_open" => task[t].kind = "decide"
         /\ task[t].pc = "d_link" => task[t].kind = "accept"
         /\ task[t].pc \in {"g_get", "g_edit"} => task[t].kind \in {"decide", "accept", "finish", "withdraw"}
<1>1. task[t].pc \in Where(task[t].kind) /\ task[t].kind \in Kinds
  BY RecordTyped DEF Shape
<1> QED
  BY <1>1 DEF Where, Kinds, Placing, Showing, Closing, Talking, Reminding

\* the next card to show, or the last one is done
LEMMA ShownLands ==
  ASSUME TypeInv, NEW t \in Tasks, task[t].pc \in Showing, NextShown(t)
  PROVE  /\ Rest(t) /\ Typed(t) /\ task'[t].list = task[t].list \ {Current(t)}
         /\ \/ Cardinality(task[t].list) = 1 /\ task'[t] = Free /\ task[t].list = {Current(t)}
            \/ /\ task'[t].pc = "s_send" /\ task'[t].kind = "show" /\ task'[t].admin = task[t].admin
               /\ task'[t].base = task[t].base + 1 /\ task'[t].rows = task[t].rows
               /\ Cardinality(task'[t].list) = Cardinality(task[t].list) - 1
<1>0. task[t] \in TaskRecords /\ Shape(task[t]) /\ task[t].kind = "show" /\ Held(t) /\ TaskTypes /\ lastMsg \in 0 .. MaxMsgs
  BY KindOf DEF TypeInv, TaskTypes, CountTypes
<1>1. task[t].list \in SUBSET Orders /\ task[t].list # {} /\ task[t].base \in 0 .. MaxMsgs
  BY <1>0 DEF TaskRecords, Shape, Showing
<1> DEFINE rest == task[t].list \ {Current(t)}
<1>2. /\ Cardinality(task[t].list) \in Nat \ {0}
      /\ Cardinality(task[t].list) = 1 => rest = {}
      /\ Cardinality(task[t].list) = 1 => task[t].list = {Current(t)}
      /\ Cardinality(task[t].list) # 1 => rest # {} /\ Cardinality(rest) = Cardinality(task[t].list) - 1
  BY <1>1, ListCounted DEF Current
<1>3. CASE Cardinality(task[t].list) = 1
  <2>1. Done(t)
    BY <1>3 DEF NextShown
  <2> QED
    BY <1>0, <1>2, <1>3, <2>1, DoneLands
<1>4. CASE Cardinality(task[t].list) # 1
  <2> DEFINE r == [task[t] EXCEPT !.pc = "s_send", !.list = @ \ {Current(t)}, !.base = @ + 1]
  <2>1. Become(t, r)
    BY <1>4 DEF NextShown
  <2>2. task'[t] = r /\ Rest(t)
    BY <1>0, <2>1, BecomeLands
  <2>3. task[t].base + 1 \in 0 .. MaxMsgs
    BY <1>0, <1>1, <1>2, Constants DEF Held
  <2>4. r \in TaskRecords /\ r.pc = "s_send" /\ r.kind = "show" /\ r.list = rest /\ r.base = task[t].base + 1
        /\ r.admin = task[t].admin /\ r.rows = task[t].rows
    BY <1>0, <2>3 DEF TaskRecords, Labels
  <2> HIDE DEF r
  <2>5. Shape(r)
    BY <1>0, <1>2, <1>4, <2>4 DEF Shape, Knowing, Showing, Closing, Where
  <2> QED
    BY <1>2, <1>4, <2>2, <2>4, <2>5 DEF Typed
<1> QED
  BY <1>3, <1>4

\* A reminder that is done, or skipped, leaves its order off the job's list, and the job ends with
\* its last order.
LEMMA RemindedLands ==
  ASSUME TypeInv, NEW t \in Tasks, task[t].pc \in Reminding, NextReminder(t)
  PROVE  /\ Rest(t) /\ Typed(t) /\ task'[t].list = task[t].list \ {Current(t)}
         /\ \/ task'[t] = Free
            \/ task'[t].pc = "r_get" /\ task'[t].kind = "remind" /\ task'[t].rows = task[t].rows
<1>0. task[t] \in TaskRecords /\ Shape(task[t]) /\ task[t].kind = "remind" /\ TaskTypes
  BY KindOf DEF TypeInv, TaskTypes
<1>1. task[t].list \in SUBSET Orders /\ task[t].list # {}
  BY <1>0 DEF TaskRecords, Shape, Reminding
<1> DEFINE rest == task[t].list \ {Current(t)}
<1>2. /\ Cardinality(task[t].list) = 1 => rest = {}
      /\ Cardinality(task[t].list) # 1 => rest # {}
  BY <1>1, ListCounted DEF Current
<1>3. CASE Cardinality(task[t].list) = 1
  <2>1. Done(t)
    BY <1>3 DEF NextReminder
  <2> QED
    BY <1>0, <1>2, <1>3, <2>1, DoneLands
<1>4. CASE Cardinality(task[t].list) # 1
  <2> DEFINE r == [task[t] EXCEPT !.pc = "r_get", !.list = @ \ {Current(t)}]
  <2>1. Become(t, r)
    BY <1>4 DEF NextReminder
  <2>2. task'[t] = r /\ Rest(t)
    BY <1>0, <2>1, BecomeLands
  <2>4. r \in TaskRecords /\ r.pc = "r_get" /\ r.kind = "remind" /\ r.list = rest /\ r.rows = task[t].rows
    BY <1>0 DEF TaskRecords, Labels
  <2> HIDE DEF r
  <2>5. Shape(r)
    BY <1>0, <1>2, <1>4, <2>4 DEF Shape, Knowing, Showing, Closing, Where, Reminding
  <2> QED
    BY <2>2, <2>4, <2>5 DEF Typed
<1> QED
  BY <1>3, <1>4

-----------------------------------------------------------------------------
(* What each step does to the tasks *)

\* no new order is to be reminded of
NotMore(t) == task'[t].kind = "remind" => task[t].kind = "remind" /\ task'[t].list \subseteq task[t].list

Moved(t) == Rest(t) /\ Typed(t) /\ Held(t)' /\ NotMore(t) /\ lastMsg <= lastMsg'

\* the task goes on to l with what it has in its hands
Goes(t, l) == task'[t].pc = l /\ SameHand(t) /\ SameRows(t) /\ SameMail(t)

Ends(t) == task'[t] = Free

\* A handler that returns moves in the allowed way and lets go of everything.
LEMMA EndsMoves ==
  ASSUME TypeInv, NEW t \in Tasks, Done(t), lastMsg' = lastMsg
  PROVE  Moved(t) /\ Ends(t)
<1>1. Held(t)'
  BY DoneLands DEF Held, Showing, TypeInv
<1>2. lastMsg <= lastMsg'
  BY DEF TypeInv, CountTypes
<1> QED
  BY <1>1, <1>2, DoneLands DEF Moved, Ends, NotMore, TypeInv

\* A handler that moves on keeps the types, what it has read and the ids it has reserved.
LEMMA GoesMoves ==
  ASSUME TypeInv, NEW t \in Tasks, NEW l \in Labels, Goto(t, l), l \in Where(task[t].kind),
         l # "idle", task[t].pc # "idle", lastMsg' = lastMsg,
         l \in Knowing => task[t].list \subseteq DOMAIN task[t].rows,
         l \in Showing => task[t].admin \in Admins,
         l \in Closing => task[t].base \in Msgs,
         l \in Placing \cup {"t_send"} => task[t].pc \in Placing \cup {"t_send"},
         l \in Showing => task[t].pc \in Showing
  PROVE  Moved(t) /\ Goes(t, l)
<1>1. Goes(t, l) /\ Rest(t) /\ Typed(t)
  BY GotoLands DEF Goes, TypeInv
<1>2. Held(t)'
  <2>1. Held(t) /\ task'[t].base = task[t].base /\ task'[t].list = task[t].list /\ task'[t].pc = l
    BY <1>1, RecordTyped DEF Goes, SameHand, SameMail, TypeInv
  <2> QED
    BY <2>1 DEF Held, Placing
<1>3. lastMsg <= lastMsg' /\ NotMore(t)
  BY <1>1 DEF TypeInv, CountTypes, NotMore, Goes, SameHand
<1> QED
  BY <1>1, <1>2, <1>3 DEF Moved

\* what a step that is awaited has in its hands
LEMMA AtStep ==
  ASSUME TypeInv, NEW t \in Tasks, task[t].pc # "idle"
  PROVE  /\ Current(t) \in task[t].list /\ Current(t) \in Orders /\ task[t].list \in SUBSET Orders
         /\ task[t].kind \notin {"show", "clean", "remind"} => task[t].list = {Current(t)}
         /\ task[t].pc \in Knowing => task[t].list \subseteq DOMAIN task[t].rows /\ RowOf(t) \in Row
         /\ task[t].pc \in Showing => task[t].admin \in Admins
         /\ task[t].pc \in Closing => task[t].base \in Msgs
         /\ lastMsg \in Nat
<1>1. task[t].pc \in Knowing => task[t].list \subseteq DOMAIN task[t].rows
  BY RecordTyped DEF TypeInv, Shape
<1>2. task[t].pc \in Showing => task[t].admin \in Admins
  BY RecordTyped DEF TypeInv, Shape
<1>3. task[t].pc \in Closing => task[t].base \in Msgs
  BY RecordTyped DEF TypeInv, Shape
<1>4. task[t].list \in SUBSET Orders
  BY RecordTyped DEF TypeInv
<1>5. lastMsg \in Nat
  BY DEF TypeInv, CountTypes
<1>6. /\ Current(t) \in task[t].list /\ Current(t) \in Orders
      /\ task[t].kind \notin {"none", "show", "clean", "remind"} => task[t].list = {Current(t)}
      /\ task[t].pc \in Knowing => RowOf(t) \in Row
  BY CurrentTyped DEF TypeInv
<1>7. task[t].kind # "none"
  BY KindOf DEF TypeInv
<1> QED
  BY <1>1, <1>2, <1>3, <1>4, <1>5, <1>6, <1>7

\* Placing an order starts the notification of the admins, with nothing read yet.
LEMMA PlaceLands ==
  ASSUME TypeInv, NEW t \in Tasks, NEW o \in Orders, Place(t, o)
  PROVE  /\ Moved(t) /\ task[t] = Free /\ task'[t].pc = "n_get" /\ task'[t].kind = "place" /\ task'[t].list = {o}
         /\ task'[t].base = lastMsg /\ task'[t].rows = <<>> /\ task'[t].refs = {}
<1>1. Become(t, [Free EXCEPT !.pc = "n_get", !.kind = "place", !.list = {o}, !.base = lastMsg])
      /\ lastMsg' = lastMsg + NumAdmins /\ lastMsg \in Nat /\ task[t] = Free
  BY DEF Place, Reserve, TypeInv, CountTypes
<1>2. /\ task'[t].pc = "n_get" /\ task'[t].kind = "place" /\ task'[t].list = {o} /\ task'[t].base = lastMsg
      /\ task'[t].refs = {} /\ task'[t].rows = <<>> /\ Rest(t) /\ Typed(t)
  <2>1. "n_get" \in Where("place")
    BY DEF Where, Placing
  <2> QED
    BY <1>1, <2>1, BaseLands
<1>3. Held(t)' /\ lastMsg <= lastMsg'
  BY <1>1, <1>2, Constants DEF Held, Showing
<1> QED
  BY <1>1, <1>2, <1>3 DEF Moved, NotMore

\* A chat line starts its relay only while the order's chat is open.
LEMMA TalkLands ==
  ASSUME TypeInv, NEW t \in Tasks, Talk(t)
  PROVE  \E o \in Orders :
           /\ order[o].chat /\ Meet("talk", {o}) /\ Moved(t) /\ task[t] = Free
           /\ task'[t].pc = "t_send" /\ task'[t].kind = "talk" /\ task'[t].list = {o}
           /\ task'[t].base = lastMsg /\ task'[t].rows = <<>> /\ task'[t].refs = {}
<1> DEFINE open == {o \in Orders : order[o].chat}
<1>0. open # {} /\ open \in SUBSET Orders /\ Orders = 1 .. MaxOrders /\ MaxOrders \in Nat
  BY OrderCardsAssumption DEF Talk, Orders
<1>1. PICK last \in open : \A y \in open : y <= last
  <2> DEFINE low == {MaxOrders - z : z \in open}
  <2>1. low \in SUBSET Nat /\ low # {}
    BY <1>0
  <2>2. PICK n \in low : \A m \in low : n <= m
    BY <2>1, LeastNumber
  <2>3. PICK z \in open : n = MaxOrders - z
    BY <2>2
  <2>4. \A y \in open : y \in Nat /\ MaxOrders - y \in low
    BY <1>0
  <2>5. \A y \in open : n <= MaxOrders - y
    BY <2>2, <2>4
  <2>6. z \in Nat
    BY <1>0, <2>3
  <2>7. \A y \in open : y <= z
    BY <1>0, <2>3, <2>4, <2>5, <2>6
  <2> QED
    BY <2>3, <2>7
<1>2. PICK o \in open : /\ o = CHOOSE x \in open : \A y \in open : y <= x
  BY <1>1
<1>3. /\ Become(t, [Free EXCEPT !.pc = "t_send", !.kind = "talk", !.list = {o}, !.base = lastMsg])
      /\ lastMsg' = lastMsg + NumAdmins /\ lastMsg \in Nat /\ task[t] = Free /\ Meet("talk", {o})
  BY <1>2 DEF Talk, Reserve, TypeInv, CountTypes
<1>4. o \in Orders /\ order[o].chat
  BY <1>2
<1>5. /\ task'[t].pc = "t_send" /\ task'[t].kind = "talk" /\ task'[t].list = {o} /\ task'[t].base = lastMsg
      /\ task'[t].refs = {} /\ task'[t].rows = <<>> /\ Rest(t) /\ Typed(t)
  <2>1. "t_send" \in Where("talk")
    BY DEF Where, Talking
  <2> QED
    BY <1>3, <1>4, <2>1, BaseLands
<1>6. Held(t)' /\ lastMsg <= lastMsg'
  BY <1>3, <1>5, Constants DEF Held, Showing
<1> QED
  BY <1>3, <1>4, <1>5, <1>6 DEF Moved, NotMore

\* _notify_admins reads the order as it is stored, or ends when the order is gone.
LEMMA NotifyGetLands ==
  ASSUME TypeInv, NEW t \in Tasks, NotifyGet(t)
  PROVE  /\ Moved(t) /\ task[t].pc = "n_get" /\ task[t].kind = "place" /\ task[t].list = {Current(t)}
         /\ \/ Ends(t) /\ ~Stored(Current(t))
            \/ /\ Stored(Current(t)) /\ task'[t].pc = "n_send" /\ SameHand(t) /\ SameMail(t)
               /\ DOMAIN task'[t].rows = {Current(t)} /\ task'[t].rows[Current(t)] = order[Current(t)]
<1>1. task[t].pc = "n_get" /\ task[t].kind = "place" /\ lastMsg' = lastMsg /\ "n_send" \in Where(task[t].kind)
  BY KindOf DEF NotifyGet, At, Placing, Where, TypeInv
<1>2. task[t].list = {Current(t)}
  BY <1>1, AtStep
<1>3. CASE Stored(Current(t))
  <2>1. Become(t, [task[t] EXCEPT !.pc = "n_send", !.rows = Only(Current(t))])
    BY <1>3 DEF NotifyGet
  <2>2. /\ task'[t].pc = "n_send" /\ SameHand(t) /\ SameMail(t) /\ Rest(t) /\ Typed(t)
        /\ DOMAIN task'[t].rows = {Current(t)} /\ task'[t].rows[Current(t)] = order[Current(t)]
    BY <1>1, <1>2, <2>1, ReadLands DEF Closing
  <2>3. Held(t)' /\ lastMsg <= lastMsg' /\ NotMore(t)
    BY <1>1, <2>2, RecordTyped DEF Held, Showing, SameMail, SameHand, NotMore, TypeInv, CountTypes
  <2> QED
    BY <1>1, <1>2, <1>3, <2>2, <2>3 DEF Moved
<1>4. CASE ~Stored(Current(t))
  <2>1. Done(t)
    BY <1>4 DEF NotifyGet
  <2> QED
    BY <1>1, <1>2, <1>4, <2>1, EndsMoves
<1> QED
  BY <1>3, <1>4

\* _notify_admins sends one card to each admin it reaches, lettered after the row it has read, and
\* keeps the ids of those it has sent.
LEMMA NotifySendLands ==
  ASSUME TypeInv, NEW t \in Tasks, NotifySend(t)
  PROVE  /\ Moved(t) /\ task[t].pc = "n_send" /\ task[t].kind = "place" /\ task[t].list = {Current(t)}
         /\ \E S \in SUBSET Admins :
              /\ Reached(S, Admins) /\ Post(S, task[t].base, Current(t), Markup(RowOf(t)))
              /\ \/ S = {} /\ Ends(t)
                 \/ /\ S # {} /\ task'[t].pc = "n_save" /\ SameHand(t) /\ SameRows(t)
                    /\ task'[t].base = task[t].base
                    /\ task'[t].sent = [a \in Admins |-> IF a \in S THEN task[t].base + a ELSE NoMsg]
<1>1. task[t].pc = "n_send" /\ task[t].kind = "place" /\ lastMsg' = lastMsg /\ At(t, "n_send")
  BY KindOf DEF NotifySend, At, Placing, TypeInv
<1>2. task[t].list = {Current(t)}
  BY <1>1, AtStep
<1>3. PICK S \in SUBSET Admins :
       /\ Reached(S, Admins)
       /\ Post(S, task[t].base, Current(t), Markup(RowOf(t)))
       /\ IF S = {}
            THEN Done(t)
            ELSE Become(t, [task[t] EXCEPT !.pc = "n_save",
                                           !.sent = [a \in Admins |-> IF a \in S THEN task[t].base + a ELSE NoMsg]])
  BY DEF NotifySend
<1>4. CASE S = {}
  <2>1. Moved(t) /\ Ends(t)
    BY <1>1, <1>3, <1>4, EndsMoves
  <2> QED
    BY <1>1, <1>2, <1>3, <1>4, <2>1
<1>5. CASE S # {}
  <2> DEFINE cards == [a \in Admins |-> IF a \in S THEN task[t].base + a ELSE NoMsg]
  <2>0. task[t].base \in 0 .. MaxMsgs /\ task[t].base + NumAdmins <= lastMsg /\ lastMsg \in 0 .. MaxMsgs
    BY <1>1, RecordTyped DEF Held, TypeInv, CountTypes
  <2>1. cards \in CardTables
    <3>1. ASSUME NEW a \in Admins PROVE task[t].base + a \in Msgs
      <4>1. task[t].base \in Nat /\ lastMsg \in Nat /\ lastMsg <= MaxMsgs
        BY <2>0, Constants
      <4>2. task[t].base + a \in Nat /\ 1 <= task[t].base + a /\ task[t].base + a <= MaxMsgs
        BY <4>1, <2>0, Constants
      <4> QED
        BY <4>2, Constants
    <3> QED
      BY <3>1 DEF CardTables
  <2>2. Become(t, [task[t] EXCEPT !.pc = "n_save", !.sent = cards])
    BY <1>3, <1>5
  <2> HIDE DEF cards
  <2>3. /\ task'[t].pc = "n_save" /\ SameHand(t) /\ SameRows(t) /\ task'[t].base = task[t].base
        /\ task'[t].sent = cards /\ Rest(t) /\ Typed(t)
    BY <1>1, <2>1, <2>2, CardsLand
  <2>4. Held(t)' /\ lastMsg <= lastMsg' /\ NotMore(t)
    BY <1>1, <2>0, <2>3, Constants DEF Held, Showing, SameHand, NotMore
  <2>5. task'[t].sent = [a \in Admins |-> IF a \in S THEN task[t].base + a ELSE NoMsg]
    BY <2>3 DEF cards
  <2> QED
    BY <1>1, <1>2, <1>3, <1>5, <2>3, <2>4, <2>5 DEF Moved
<1> QED
  BY <1>4, <1>5

\* The save of the card ids ends the notification.
LEMMA NotifySaveLands ==
  ASSUME TypeInv, NEW t \in Tasks, NotifySave(t)
  PROVE  Moved(t) /\ Ends(t) /\ task[t].pc = "n_save" /\ task[t].kind = "place" /\ task[t].list = {Current(t)}
<1>1. task[t].pc = "n_save" /\ task[t].kind = "place" /\ lastMsg' = lastMsg
  BY KindOf DEF NotifySave, At, Placing, TypeInv
<1>2. task[t].list = {Current(t)}
  BY <1>1, AtStep
<1> QED
  BY <1>1, <1>2, EndsMoves DEF NotifySave

\* the handlers of the buttons begin
LEMMA TapLands ==
  ASSUME TypeInv, NEW t \in Tasks, NEW o \in Orders, NEW k \in {"decide", "finish", "withdraw"},
         NEW l \in {"d_open", "g_get"}, l = "d_open" => k = "decide", Begin(t, k, o, l), lastMsg' = lastMsg
  PROVE  /\ Moved(t) /\ task[t] = Free /\ Meet(k, {o})
         /\ task'[t].pc = l /\ task'[t].kind = k /\ task'[t].list = {o} /\ task'[t].rows = <<>>
<1>1. l \in Where(k) /\ l \in Labels \ (Knowing \cup Closing) /\ l # "idle" /\ k \in Kinds
  BY DEF Where, Labels, Knowing, Closing, Showing, Kinds
<1>2. Become(t, [Free EXCEPT !.pc = l, !.kind = k, !.list = {o}]) /\ task[t] = Free /\ Meet(k, {o})
  BY DEF Begin
<1>3. /\ task'[t].pc = l /\ task'[t].kind = k /\ task'[t].list = {o} /\ Rest(t) /\ Typed(t) /\ task'[t].rows = <<>>
  BY <1>1, <1>2, BeginLands DEF TypeInv
<1>4. Held(t)' /\ lastMsg <= lastMsg' /\ NotMore(t)
  BY <1>3 DEF Held, Showing, NotMore, TypeInv, CountTypes
<1> QED
  BY <1>2, <1>3, <1>4 DEF Moved

\* The opening of the chat after an acceptance is followed by the edit of the cards.
LEMMA DecideOpenLands ==
  ASSUME TypeInv, NEW t \in Tasks, DecideOpen(t)
  PROVE  /\ Moved(t) /\ task[t].pc = "d_open" /\ task[t].kind = "decide" /\ task[t].list = {Current(t)}
         /\ task'[t].pc = "g_get" /\ task'[t].kind = "accept" /\ task'[t].list = task[t].list /\ SameRows(t)
<1>1. task[t].pc = "d_open" /\ task[t].kind = "decide" /\ lastMsg' = lastMsg
  BY KindOf DEF DecideOpen, At, TypeInv
<1>2. task[t].list = {Current(t)} /\ Current(t) \in Orders
  BY <1>1, AtStep
<1> DEFINE r == [task[t] EXCEPT !.pc = "g_get", !.kind = "accept"]
<1>3. task'[t] = r /\ Rest(t)
  BY BecomeLands DEF DecideOpen, TypeInv
<1>4. r \in TaskRecords /\ r.pc = "g_get" /\ r.kind = "accept" /\ r.list = task[t].list /\ r.rows = task[t].rows
  <2>1. task[t] \in TaskRecords
    BY DEF TypeInv, TaskTypes
  <2> QED
    BY <2>1 DEF TaskRecords, Labels, Kinds
<1> HIDE DEF r
<1>5. Shape(r)
  BY <1>2, <1>4 DEF Shape, Where, Knowing, Showing, Closing
<1>6. Held(t)' /\ lastMsg <= lastMsg' /\ NotMore(t)
  BY <1>1, <1>3, <1>4 DEF Held, Showing, NotMore, TypeInv, CountTypes
<1> QED
  BY <1>1, <1>2, <1>3, <1>4, <1>5, <1>6 DEF Moved, Typed, SameRows

\* The edit of the cards reads the order as it is stored, or ends when the order is gone or has no
\* cards.
LEMMA GetOrderLands ==
  ASSUME TypeInv, NEW t \in Tasks, GetOrder(t)
  PROVE  /\ Moved(t) /\ task[t].pc = "g_get" /\ task[t].list = {Current(t)}
         /\ task[t].kind \in {"decide", "accept", "finish", "withdraw"}
         /\ \/ Ends(t) /\ ~(Stored(Current(t)) /\ order[Current(t)].cards # NoCards)
            \/ /\ task'[t].pc = "g_edit" /\ SameHand(t) /\ SameMail(t)
               /\ DOMAIN task'[t].rows = {Current(t)} /\ task'[t].rows[Current(t)] = order[Current(t)]
<1>1. /\ task[t].pc = "g_get" /\ lastMsg' = lastMsg
      /\ task[t].kind \in {"decide", "accept", "finish", "withdraw"} /\ "g_edit" \in Where(task[t].kind)
  BY KindOf DEF GetOrder, At, Where, TypeInv
<1>2. task[t].list = {Current(t)}
  BY <1>1, AtStep
<1>3. CASE Stored(Current(t)) /\ order[Current(t)].cards # NoCards
  <2>1. Become(t, [task[t] EXCEPT !.pc = "g_edit", !.rows = Only(Current(t))])
    BY <1>3 DEF GetOrder
  <2>2. /\ task'[t].pc = "g_edit" /\ SameHand(t) /\ SameMail(t) /\ Rest(t) /\ Typed(t)
        /\ DOMAIN task'[t].rows = {Current(t)} /\ task'[t].rows[Current(t)] = order[Current(t)]
    BY <1>1, <1>2, <2>1, ReadLands DEF Closing
  <2>3. Held(t)' /\ lastMsg <= lastMsg' /\ NotMore(t)
    BY <1>1, <2>2 DEF Held, Showing, SameMail, SameHand, NotMore, TypeInv, CountTypes
  <2> QED
    BY <1>1, <1>2, <1>3, <2>2, <2>3 DEF Moved
<1>4. CASE ~(Stored(Current(t)) /\ order[Current(t)].cards # NoCards)
  <2>1. Done(t)
    BY <1>4 DEF GetOrder
  <2> QED
    BY <1>1, <1>2, <1>4, <2>1, EndsMoves
<1> QED
  BY <1>3, <1>4

\* After the cards are edited an acceptance links them to the chat; every other handler ends.
LEMMA EditCardsLands ==
  ASSUME TypeInv, NEW t \in Tasks, EditCards(t)
  PROVE  /\ Moved(t) /\ task[t].pc = "g_edit" /\ task[t].list = {Current(t)}
         /\ task[t].kind \in {"decide", "accept", "finish", "withdraw"}
         /\ \/ Ends(t) /\ task[t].kind # "accept"
            \/ Goes(t, "d_link") /\ task[t].kind = "accept"
<1>1. /\ task[t].pc = "g_edit" /\ lastMsg' = lastMsg
      /\ task[t].kind \in {"decide", "accept", "finish", "withdraw"}
  BY KindOf DEF EditCards, At, TypeInv
<1>2. task[t].list = {Current(t)} /\ task[t].list \subseteq DOMAIN task[t].rows
  BY <1>1, AtStep DEF Knowing
<1>3. CASE task[t].kind = "accept"
  <2>1. Goto(t, "d_link") /\ "d_link" \in Where(task[t].kind) /\ "d_link" \in Labels
    BY <1>3 DEF EditCards, Where, Labels
  <2>2. Moved(t) /\ Goes(t, "d_link")
    BY <1>1, <1>2, <2>1, GoesMoves DEF Showing, Closing, Placing
  <2> QED
    BY <1>1, <1>2, <1>3, <2>2
<1>4. CASE task[t].kind # "accept"
  <2>1. Done(t)
    BY <1>4 DEF EditCards
  <2> QED
    BY <1>1, <1>2, <1>4, <2>1, EndsMoves
<1> QED
  BY <1>3, <1>4

\* The link of the cards ends the acceptance.
LEMMA DecideLinkLands ==
  ASSUME TypeInv, NEW t \in Tasks, DecideLink(t)
  PROVE  Moved(t) /\ Ends(t) /\ task[t].pc = "d_link" /\ task[t].kind = "accept" /\ task[t].list = {Current(t)}
<1>1. task[t].pc = "d_link" /\ task[t].kind = "accept" /\ lastMsg' = lastMsg
  BY KindOf DEF DecideLink, At, TypeInv
<1>2. task[t].list = {Current(t)}
  BY <1>1, AtStep
<1> QED
  BY <1>1, <1>2, EndsMoves DEF DecideLink

\* The closing of a chat is work on the order of the message it was tapped on.
LEMMA CloseLeads ==
  ASSUME TypeInv, NEW t \in Tasks, NEW m \in Msgs, Close(t, m)
  PROVE  /\ msg[m].of \in Orders /\ Moved(t) /\ task[t] = Free /\ Meet("close", {msg[m].of})
         /\ task'[t].pc = "k_get" /\ task'[t].kind = "close" /\ task'[t].list = {msg[m].of}
         /\ task'[t].base = m /\ task'[t].refs = {} /\ task'[t].rows = <<>>
<1> DEFINE o == msg[m].of
<1>1. /\ Become(t, [Free EXCEPT !.pc = "k_get", !.kind = "close", !.list = {o}, !.base = m])
      /\ lastMsg' = lastMsg /\ task[t] = Free /\ Meet("close", {o})
  BY DEF Close
<1>2. o \in Orders
  BY DEF Close, TypeInv, TableTypes, MsgTypes, Visible
<1> HIDE DEF o
<1>3. /\ task'[t].pc = "k_get" /\ task'[t].kind = "close" /\ task'[t].list = {o} /\ task'[t].base = m
      /\ task'[t].refs = {} /\ task'[t].rows = <<>> /\ Rest(t) /\ Typed(t)
  BY <1>1, <1>2, CloseLands
<1>4. Held(t)' /\ lastMsg <= lastMsg' /\ NotMore(t)
  BY <1>1, <1>3 DEF Held, Showing, NotMore, TypeInv, CountTypes
<1> QED
  BY <1>1, <1>2, <1>3, <1>4 DEF Moved, o

\* The closing of a chat reads the order as it is stored.
LEMMA CloseGetLands ==
  ASSUME TypeInv, NEW t \in Tasks, CloseGet(t)
  PROVE  /\ Moved(t) /\ task[t].pc = "k_get" /\ task[t].kind = "close" /\ task[t].list = {Current(t)}
         /\ task'[t].pc = "k_edit" /\ SameHand(t) /\ SameMail(t)
         /\ DOMAIN task'[t].rows = {Current(t)} /\ task'[t].rows[Current(t)] = order[Current(t)]
<1>1. /\ task[t].pc = "k_get" /\ task[t].kind = "close" /\ lastMsg' = lastMsg /\ "k_edit" \in Where(task[t].kind)
      /\ Become(t, [task[t] EXCEPT !.pc = "k_edit", !.rows = Only(Current(t))])
  BY KindOf DEF CloseGet, At, Closing, Where, TypeInv
<1>2. task[t].list = {Current(t)} /\ task[t].base \in Msgs
  BY <1>1, AtStep DEF Closing
<1>3. /\ task'[t].pc = "k_edit" /\ SameHand(t) /\ SameMail(t) /\ Rest(t) /\ Typed(t)
      /\ DOMAIN task'[t].rows = {Current(t)} /\ task'[t].rows[Current(t)] = order[Current(t)]
  BY <1>1, <1>2, ReadLands
<1>4. Held(t)' /\ lastMsg <= lastMsg' /\ NotMore(t)
  BY <1>1, <1>3 DEF Held, Showing, SameHand, NotMore, TypeInv, CountTypes
<1> QED
  BY <1>1, <1>2, <1>3, <1>4 DEF Moved

\* The edit of the tapped message ends the closing of a chat.
LEMMA CloseEditLands ==
  ASSUME TypeInv, NEW t \in Tasks, CloseEdit(t)
  PROVE  /\ Moved(t) /\ Ends(t) /\ task[t].pc = "k_edit" /\ task[t].kind = "close" /\ task[t].list = {Current(t)}
         /\ task[t].base \in Msgs
<1>1. task[t].pc = "k_edit" /\ task[t].kind = "close" /\ lastMsg' = lastMsg
  BY KindOf DEF CloseEdit, At, Closing, TypeInv
<1>2. task[t].list = {Current(t)} /\ task[t].base \in Msgs
  BY <1>1, AtStep DEF Closing
<1> QED
  BY <1>1, <1>2, EndsMoves DEF CloseEdit

\* The listing of orders starts its loop with the rows it has read, and reserves one message id
\* per order.
LEMMA ShowLands ==
  ASSUME TypeInv, NEW t \in Tasks, NEW a \in Admins, NEW S \in SUBSET Orders, Show(t, a, S)
  PROVE  /\ Moved(t) /\ task[t] = Free /\ Meet("show", S)
         /\ task'[t].pc = "s_send" /\ task'[t].kind = "show" /\ task'[t].list = S /\ task'[t].base = lastMsg
         /\ task'[t].admin = a /\ DOMAIN task'[t].rows = S /\ \A o \in S : task'[t].rows[o] = order[o]
         /\ lastMsg' = lastMsg + Cardinality(S)
<1>1. /\ S # {} /\ lastMsg' = lastMsg + Cardinality(S) /\ lastMsg \in Nat /\ task[t] = Free /\ Meet("show", S)
  BY DEF Show, Reserve, TypeInv, CountTypes
<1>2. /\ task'[t].pc = "s_send" /\ task'[t].kind = "show" /\ task'[t].list = S /\ task'[t].base = lastMsg
      /\ task'[t].admin = a /\ DOMAIN task'[t].rows = S /\ \A o \in S : task'[t].rows[o] = order[o]
      /\ Rest(t) /\ Typed(t)
  <2>1. S # {}
    BY <1>1
  <2> HIDE <1>1
  <2> QED
    BY <2>1, ListLands
<1>3. Cardinality(S) \in Nat
  BY <1>1, ListCounted
<1>4. Held(t)' /\ lastMsg <= lastMsg'
  BY <1>1, <1>2, <1>3 DEF Held, Showing
<1> QED
  BY <1>1, <1>2, <1>4 DEF Moved, NotMore

\* The loop over the listed orders drops the order it is done with and goes to the next id, or
\* ends with the last order.
LEMMA NextShownMoves ==
  ASSUME TypeInv, NEW t \in Tasks, task[t].pc \in Showing, NextShown(t), lastMsg' = lastMsg
  PROVE  /\ Moved(t) /\ task'[t].list = task[t].list \ {Current(t)}
         /\ \/ Cardinality(task[t].list) = 1 /\ Ends(t) /\ task[t].list = {Current(t)}
            \/ /\ task'[t].pc = "s_send" /\ task'[t].kind = "show" /\ task'[t].admin = task[t].admin
               /\ task'[t].base = task[t].base + 1 /\ SameRows(t)
               /\ Cardinality(task'[t].list) = Cardinality(task[t].list) - 1
<1>1. Rest(t) /\ Typed(t) /\ task'[t].list = task[t].list \ {Current(t)}
  BY ShownLands
<1>2. CASE Cardinality(task[t].list) = 1 /\ task'[t] = Free /\ task[t].list = {Current(t)}
  <2>1. Held(t)' /\ lastMsg <= lastMsg' /\ NotMore(t)
    BY <1>2, FreeTyped DEF Held, Showing, NotMore, TypeInv, CountTypes
  <2> QED
    BY <1>1, <1>2, <2>1 DEF Moved, Ends
<1>3. CASE /\ task'[t].pc = "s_send" /\ task'[t].kind = "show" /\ task'[t].admin = task[t].admin
           /\ task'[t].base = task[t].base + 1 /\ task'[t].rows = task[t].rows
           /\ Cardinality(task'[t].list) = Cardinality(task[t].list) - 1
  <2>0. task[t].base \in 0 .. MaxMsgs /\ Held(t) /\ task[t].list \in SUBSET Orders /\ task[t].list # {}
    BY RecordTyped DEF TypeInv, Shape, Showing
  <2>1. task[t].base \in Nat /\ lastMsg \in Nat /\ Cardinality(task[t].list) \in Nat
        /\ task[t].base + Cardinality(task[t].list) <= lastMsg
    <3>1. Cardinality(task[t].list) \in Nat
      BY <2>0, ListCounted
    <3>2. lastMsg \in 0 .. MaxMsgs /\ MaxMsgs \in Nat
      BY Constants DEF TypeInv, CountTypes
    <3>3. task[t].base + Cardinality(task[t].list) <= lastMsg
      BY <2>0 DEF Held
    <3> QED
      BY <2>0, <3>1, <3>2, <3>3
  <2>2. task'[t].base + Cardinality(task'[t].list) <= lastMsg'
    BY <1>3, <2>1
  <2>3. Held(t)' /\ lastMsg <= lastMsg' /\ NotMore(t)
    BY <1>3, <2>1, <2>2 DEF Held, NotMore
  <2> QED
    BY <1>1, <1>3, <2>3 DEF Moved, SameRows
<1> QED
  BY <1>2, <1>3, ShownLands

\* the steps with one card
LEMMA ShowStepLands ==
  ASSUME TypeInv, NEW t \in Tasks, NEW l \in {"s_save", "s_link", "s_delete"}, Goto(t, l), task[t].pc \in Showing,
         lastMsg' = lastMsg
  PROVE  Moved(t) /\ Goes(t, l) /\ task[t].kind = "show"
<1>1. task[t].kind = "show" /\ l \in Where(task[t].kind) /\ l \in Labels /\ l # "idle" /\ task[t].pc # "idle"
  BY KindOf DEF TypeInv, Where, Showing, Labels
<1>2. task[t].list \subseteq DOMAIN task[t].rows /\ task[t].admin \in Admins
  BY <1>1, AtStep DEF Knowing
<1> QED
  BY <1>1, <1>2, GoesMoves DEF Closing, Placing

\* The loop sends a new card and goes on to save its id, or misses and goes to the next order.
LEMMA ShowSendLands ==
  ASSUME TypeInv, NEW t \in Tasks, ShowSend(t)
  PROVE  /\ Moved(t) /\ task[t].pc = "s_send" /\ task[t].kind = "show"
         /\ \/ PostCard(t) /\ Goes(t, "s_save") /\ UNCHANGED faults
            \/ Missed(msg) /\ NextShown(t)
<1>1. task[t].pc = "s_send" /\ task[t].kind = "show" /\ lastMsg' = lastMsg /\ task[t].pc \in Showing
  BY KindOf DEF ShowSend, At, Showing, TypeInv
<1>2. CASE PostCard(t) /\ Goto(t, "s_save") /\ UNCHANGED faults
  BY <1>1, <1>2, ShowStepLands
<1>3. CASE Missed(msg) /\ NextShown(t)
  BY <1>1, <1>3, NextShownMoves
<1> QED
  BY <1>2, <1>3 DEF ShowSend

\* After the save of the new id, the card of an open chat is linked; otherwise the loop goes on to
\* delete the old card.
LEMMA ShowSaveLands ==
  ASSUME TypeInv, NEW t \in Tasks, ShowSave(t)
  PROVE  /\ Moved(t) /\ task[t].pc = "s_save" /\ task[t].kind = "show"
         /\ Goes(t, IF RowOf(t).chat THEN "s_link" ELSE "s_delete")
<1>1. task[t].pc = "s_save" /\ task[t].kind = "show" /\ lastMsg' = lastMsg /\ task[t].pc \in Showing
  BY KindOf DEF ShowSave, At, Showing, TypeInv
<1>2. Goto(t, IF RowOf(t).chat THEN "s_link" ELSE "s_delete")
  BY DEF ShowSave
<1> QED
  BY <1>1, <1>2, ShowStepLands

\* The link of the new card is followed by the deletion of the old one.
LEMMA ShowLinkLands ==
  ASSUME TypeInv, NEW t \in Tasks, ShowLink(t)
  PROVE  Moved(t) /\ task[t].pc = "s_link" /\ task[t].kind = "show" /\ Goes(t, "s_delete")
<1>1. task[t].pc = "s_link" /\ task[t].kind = "show" /\ lastMsg' = lastMsg /\ task[t].pc \in Showing
  BY KindOf DEF ShowLink, At, Showing, TypeInv
<1> QED
  BY <1>1, ShowStepLands DEF ShowLink

\* The deletion of the old card is followed by the next order.
LEMMA ShowDeleteLands ==
  ASSUME TypeInv, NEW t \in Tasks, ShowDelete(t)
  PROVE  Moved(t) /\ task[t].pc = "s_delete" /\ task[t].kind = "show" /\ NextShown(t)
<1>1. task[t].pc = "s_delete" /\ task[t].kind = "show" /\ lastMsg' = lastMsg /\ task[t].pc \in Showing
  BY KindOf DEF ShowDelete, At, Showing, TypeInv
<1> QED
  BY <1>1, NextShownMoves DEF ShowDelete

\* A chat line is sent to the admins it reaches, and the ids of what was sent are kept for the
\* link.
LEMMA TalkSendLands ==
  ASSUME TypeInv, NEW t \in Tasks, TalkSend(t)
  PROVE  /\ Moved(t) /\ task[t].pc = "t_send" /\ task[t].kind = "talk" /\ task[t].list = {Current(t)}
         /\ task'[t].pc = "t_link" /\ SameHand(t) /\ SameRows(t)
         /\ \E S \in SUBSET Admins :
              /\ Reached(S, Admins) /\ Post(S, task[t].base, Current(t), "chat")
              /\ task'[t].refs = {task[t].base + a : a \in S} /\ task'[t].refs \subseteq Msgs
<1>1. task[t].pc = "t_send" /\ task[t].kind = "talk" /\ lastMsg' = lastMsg /\ At(t, "t_send")
  BY KindOf DEF TalkSend, At, Talking, TypeInv
<1>2. task[t].list = {Current(t)}
  BY <1>1, AtStep
<1>3. PICK S \in SUBSET Admins :
       /\ Reached(S, Admins) /\ Post(S, task[t].base, Current(t), "chat")
       /\ Become(t, [task[t] EXCEPT !.pc = "t_link", !.refs = {task[t].base + a : a \in S}])
  BY DEF TalkSend
<1> DEFINE R == {task[t].base + a : a \in S}
<1>4. task[t].base \in 0 .. MaxMsgs /\ task[t].base + NumAdmins <= lastMsg /\ lastMsg \in 0 .. MaxMsgs
  BY <1>1, RecordTyped DEF Held, TypeInv, CountTypes
<1>5. R \in SUBSET Msgs
  <2>1. ASSUME NEW a \in Admins PROVE task[t].base + a \in Msgs
    <3>1. task[t].base \in Nat /\ lastMsg \in Nat /\ lastMsg <= MaxMsgs
      BY <1>4, Constants
    <3>2. task[t].base + a \in Nat /\ 1 <= task[t].base + a /\ task[t].base + a <= MaxMsgs
      BY <3>1, <1>4, Constants
    <3> QED
      BY <3>2, Constants
  <2> QED
    BY <2>1
<1>6. Become(t, [task[t] EXCEPT !.pc = "t_link", !.refs = R])
  BY <1>3
<1> HIDE DEF R
<1>7. /\ task'[t].pc = "t_link" /\ SameHand(t) /\ SameRows(t) /\ task'[t].base = task[t].base
      /\ task'[t].refs = R /\ task'[t].sent = task[t].sent /\ Rest(t) /\ Typed(t)
  BY <1>1, <1>5, <1>6, LinesLand
<1>8. Held(t)' /\ lastMsg <= lastMsg' /\ NotMore(t)
  BY <1>1, <1>7 DEF Held, Showing, SameHand, NotMore, TypeInv, CountTypes
<1>9. R = {task[t].base + a : a \in S}
  BY DEF R
<1> QED
  BY <1>1, <1>2, <1>3, <1>5, <1>7, <1>8, <1>9 DEF Moved

\* The link of the sent lines ends the relay.
LEMMA TalkLinkLands ==
  ASSUME TypeInv, NEW t \in Tasks, TalkLink(t)
  PROVE  Moved(t) /\ Ends(t) /\ task[t].pc = "t_link" /\ task[t].kind = "talk" /\ task[t].list = {Current(t)}
<1>1. task[t].pc = "t_link" /\ task[t].kind = "talk" /\ lastMsg' = lastMsg
  BY KindOf DEF TalkLink, At, Talking, TypeInv
<1>2. task[t].list = {Current(t)}
  BY <1>1, AtStep
<1> QED
  BY <1>1, <1>2, EndsMoves DEF TalkLink

\* what a clean-up has to delete
ToDelete(S) == (UNION {LinkedTo(o) : o \in S}) \cup UNION {CardsAmong(order[o], Admins) : o \in S}

\* The purge ends when there is no message to delete, and otherwise goes on with the messages it
\* has collected.
LEMMA PurgeLands ==
  ASSUME TypeInv, NEW t \in Tasks, NEW S \in SUBSET Orders, Purge(t, S)
  PROVE  /\ Moved(t) /\ task[t] = Free /\ Meet("clean", S) /\ S # {} /\ ToDelete(S) \subseteq Msgs
         /\ \/ ToDelete(S) = {} /\ Ends(t)
            \/ /\ task'[t].pc = "c_delete" /\ task'[t].kind = "clean" /\ task'[t].list = S
               /\ task'[t].refs = ToDelete(S) /\ task'[t].rows = <<>>
<1> DEFINE R == ToDelete(S)
<1>1. /\ lastMsg' = lastMsg /\ task[t] = Free /\ Meet("clean", S) /\ S # {}
      /\ Become(t, IF R = {} THEN Free ELSE [Free EXCEPT !.pc = "c_delete", !.kind = "clean", !.list = S, !.refs = R])
  <2>1. lastMsg' = lastMsg /\ task[t] = Free /\ Meet("clean", S) /\ S # {}
    BY DEF Purge
  <2>2. Become(t, IF R = {} THEN Free ELSE [Free EXCEPT !.pc = "c_delete", !.kind = "clean", !.list = S, !.refs = R])
    BY Zenon DEF Purge, ToDelete
  <2> QED
    BY <2>1, <2>2
<1>2. R \in SUBSET Msgs
  <2>1. ASSUME NEW o \in Orders PROVE CardsAmong(order[o], Admins) \subseteq Msgs /\ LinkedTo(o) \subseteq Msgs
    <3>1. order[o] \in Row
      BY DEF TypeInv, TableTypes, OrderTypes
    <3>2. order[o].cards \in CardTables
      BY <3>1, RowTyped
    <3>3. CardsAmong(order[o], Admins) \subseteq Msgs
      BY <3>2 DEF CardsAmong, CardTables
    <3> QED
      BY <3>3 DEF LinkedTo, TypeInv, TableTypes
  <2> QED
    BY <2>1 DEF ToDelete
<1> HIDE DEF R
<1>3. CASE R = {}
  <2>1. Done(t)
    BY <1>1, <1>3 DEF Done
  <2> QED
    BY <1>1, <1>2, <1>3, <2>1, EndsMoves DEF R
<1>4. CASE R # {}
  <2>1. Become(t, [Free EXCEPT !.pc = "c_delete", !.kind = "clean", !.list = S, !.refs = R])
    BY <1>1, <1>4
  <2>2. /\ task'[t].pc = "c_delete" /\ task'[t].kind = "clean" /\ task'[t].list = S /\ task'[t].refs = R
        /\ task'[t].rows = <<>> /\ Rest(t) /\ Typed(t)
    BY <1>1, <1>2, <2>1, CleanLands
  <2>3. Held(t)' /\ lastMsg <= lastMsg' /\ NotMore(t)
    BY <1>1, <2>2 DEF Held, Showing, NotMore, TypeInv, CountTypes
  <2> QED
    BY <1>1, <1>2, <2>2, <2>3 DEF Moved, R
<1> QED
  BY <1>3, <1>4

\* The deletion of the collected messages ends the purge.
LEMMA DeleteMessagesLands ==
  ASSUME TypeInv, NEW t \in Tasks, DeleteMessages(t)
  PROVE  Moved(t) /\ Ends(t) /\ task[t].pc = "c_delete" /\ task[t].kind = "clean"
<1>1. task[t].pc = "c_delete" /\ task[t].kind = "clean" /\ lastMsg' = lastMsg
  BY KindOf DEF DeleteMessages, At, TypeInv
<1> QED
  BY <1>1, EndsMoves DEF DeleteMessages

\* The reminder job starts with orders that wait, and nothing read.
LEMMA RemindLands ==
  ASSUME TypeInv, NEW t \in Tasks, Remind(t)
  PROVE  /\ Rest(t) /\ Typed(t) /\ Held(t)' /\ lastMsg <= lastMsg' /\ task[t] = Free
         /\ task'[t].pc = "r_get" /\ task'[t].kind = "remind" /\ task'[t].rows = <<>>
         /\ task'[t].list \subseteq Waiting
<1>1. PICK due \in (SUBSET Waiting) \ {{}} :
       Become(t, [Free EXCEPT !.pc = "r_get", !.kind = "remind",
                              !.list = {o \in due : Cardinality({q \in due : q < o}) < BatchSize}])
  BY DEF Remind
<1> DEFINE S == {o \in due : Cardinality({q \in due : q < o}) < BatchSize}
<1>2. S \in SUBSET Orders /\ S \subseteq Waiting
  BY DEF Waiting
<1>3. S # {}
  <2>1. due \in SUBSET Orders /\ due # {} /\ due \in SUBSET Nat
    BY Constants DEF Waiting
  <2>2. PICK x \in due : \A y \in due : x <= y
    BY <2>1, LeastNumber
  <2>3. \A q \in due : q \in Nat /\ x \in Nat /\ ~(q < x)
    BY <2>1, <2>2
  <2>4. {q \in due : q < x} = {}
    BY <2>3
  <2>5. Cardinality({q \in due : q < x}) = 0
    BY <2>4, FS_EmptySet
  <2>6. 0 < BatchSize
    BY OrderCardsAssumption
  <2> QED
    BY <2>2, <2>5, <2>6
<1>4. Become(t, [Free EXCEPT !.pc = "r_get", !.kind = "remind", !.list = S])
  BY <1>1
<1> HIDE DEF S
<1>5. /\ task'[t].pc = "r_get" /\ task'[t].kind = "remind" /\ task'[t].list = S /\ Rest(t) /\ Typed(t)
      /\ task'[t].rows = <<>>
  BY <1>2, <1>3, <1>4, DueLands
<1>6. Held(t)' /\ lastMsg <= lastMsg' /\ task[t] = Free
  BY <1>5 DEF Held, Showing, Remind, TypeInv, CountTypes
<1> QED
  BY <1>2, <1>5, <1>6

\* The job that has done with an order goes to the next one or ends.
LEMMA NextReminderMoves ==
  ASSUME TypeInv, NEW t \in Tasks, task[t].pc \in Reminding, NextReminder(t), lastMsg' = lastMsg
  PROVE  /\ Moved(t) /\ task'[t].list = task[t].list \ {Current(t)}
         /\ \/ Ends(t)
            \/ task'[t].pc = "r_get" /\ task'[t].kind = "remind" /\ SameRows(t)
<1>1. Rest(t) /\ Typed(t) /\ task'[t].list = task[t].list \ {Current(t)} /\ task[t].kind = "remind"
  BY RemindedLands, KindOf DEF TypeInv
<1>2. Held(t)'
  <2>1. task'[t].pc \in {"idle", "r_get"}
    BY RemindedLands, FreeTyped
  <2> QED
    BY <2>1 DEF Held, Showing
<1>3. lastMsg <= lastMsg' /\ NotMore(t)
  BY <1>1 DEF TypeInv, CountTypes, NotMore
<1> QED
  BY <1>1, <1>2, <1>3, RemindedLands DEF Moved, Ends, SameRows

\* The job stays with its order from the send of the reminder to its count.
LEMMA ReminderLands ==
  ASSUME TypeInv, NEW t \in Tasks, NEW l \in {"r_send", "r_mark"}, Goto(t, l), task[t].pc \in Reminding,
         lastMsg' = lastMsg
  PROVE  Moved(t) /\ Goes(t, l)
<1>1. task[t].kind = "remind" /\ l \in Where(task[t].kind) /\ l \in Labels /\ l # "idle" /\ task[t].pc # "idle"
  BY KindOf DEF TypeInv, Where, Reminding, Labels
<1> QED
  BY <1>1, GoesMoves DEF Closing, Placing, Knowing, Showing

\* The job reminds of an order only when the row read again says "pending", and skips it
\* otherwise.
LEMMA RemindGetLands ==
  ASSUME TypeInv, NEW t \in Tasks, RemindGet(t)
  PROVE  /\ Moved(t) /\ task[t].pc = "r_get" /\ task[t].kind = "remind"
         /\ \/ order[Current(t)].status = "pending" /\ Goes(t, "r_send")
            \/ order[Current(t)].status # "pending" /\ NextReminder(t)
<1>1. task[t].pc = "r_get" /\ task[t].kind = "remind" /\ lastMsg' = lastMsg /\ task[t].pc \in Reminding
  BY KindOf DEF RemindGet, At, Reminding, TypeInv
<1>2. CASE order[Current(t)].status = "pending"
  BY <1>1, <1>2, ReminderLands DEF RemindGet
<1>3. CASE order[Current(t)].status # "pending"
  BY <1>1, <1>3, NextReminderMoves DEF RemindGet
<1> QED
  BY <1>2, <1>3

\* The reminder that was sent is counted next.
LEMMA RemindSendLands ==
  ASSUME TypeInv, NEW t \in Tasks, RemindSend(t)
  PROVE  Moved(t) /\ task[t].pc = "r_send" /\ task[t].kind = "remind" /\ Goes(t, "r_mark")
<1>1. task[t].pc = "r_send" /\ task[t].kind = "remind" /\ lastMsg' = lastMsg /\ task[t].pc \in Reminding
  BY KindOf DEF RemindSend, At, Reminding, TypeInv
<1> QED
  BY <1>1, ReminderLands DEF RemindSend

\* After the count the job goes to its next order.
LEMMA MarkLands ==
  ASSUME TypeInv, NEW t \in Tasks, Mark(t)
  PROVE  Moved(t) /\ task[t].pc = "r_mark" /\ task[t].kind = "remind" /\ NextReminder(t)
<1>1. task[t].pc = "r_mark" /\ task[t].kind = "remind" /\ lastMsg' = lastMsg /\ task[t].pc \in Reminding
  BY KindOf DEF Mark, At, Reminding, TypeInv
<1> QED
  BY <1>1, NextReminderMoves DEF Mark

\* A handler that fails ends; the reminder job that fails at an order goes to the next one.
LEMMA FailsLands ==
  ASSUME TypeInv, NEW t \in Tasks, TaskFails(t)
  PROVE  /\ Moved(t) /\ faults' = faults + 1 /\ faults < MaxFaults
         /\ \/ Ends(t) /\ task[t].kind # "remind"
            \/ task[t].pc = "r_get" /\ task[t].kind = "remind" /\ NextReminder(t)
<1>1. lastMsg' = lastMsg /\ faults' = faults + 1 /\ faults < MaxFaults
  BY DEF TaskFails, Fault
<1>2. CASE task[t].pc = "r_get"
  <2>1. NextReminder(t) /\ task[t].kind = "remind" /\ task[t].pc \in Reminding
    BY <1>2, KindOf DEF TaskFails, At, Reminding, TypeInv
  <2> QED
    BY <1>1, <1>2, <2>1, NextReminderMoves
<1>3. CASE task[t].pc # "r_get"
  <2>1. Done(t) /\ task[t].kind # "remind"
    BY <1>3, KindOf DEF TaskFails, At, Reminding, TypeInv
  <2> QED
    BY <1>1, <2>1, EndsMoves
<1> QED
  BY <1>2, <1>3

\* A crash, which ends every task, keeps the types.
LEMMA CrashTyped ==
  ASSUME TypeInv, Crash
  PROVE  TypeInv'
<1>1. \A t \in Tasks : task'[t] = Free
  BY DEF Crash
<1>2. TaskTypes'
  BY <1>1, FreeTyped DEF Crash, TaskTypes, Held, Showing
<1>3. Due'
  BY <1>1, FreeTyped DEF Due
<1>4. TableTypes' /\ CountTypes'
  BY Constants DEF Crash, Fault, TypeInv, TableTypes, OrderTypes, MsgTypes, CountTypes, Visible
<1> QED
  BY <1>2, <1>3, <1>4 DEF TypeInv

-----------------------------------------------------------------------------
(* Type correctness *)

\* an order keeps its count and does not become new again
Advance == \A o \in Orders : order'[o].count = order[o].count /\ (order'[o].status = "none" => order[o].status = "none")

\* A step of one task that moves in the allowed way keeps the types, given that what it writes
\* does.
LEMMA MovedTyped ==
  ASSUME TypeInv, NEW t \in Tasks, Moved(t), Advance, TableTypes', CountTypes'
  PROVE  TypeInv'
<1>0. task \in [Tasks -> TaskRecords] /\ task'[t] \in TaskRecords /\ Shape(task'[t]) /\ Held(t)'
      /\ task' = [task EXCEPT ![t] = task'[t]] /\ \A u \in Tasks \ {t} : task'[u] = task[u]
  BY DEF TypeInv, TaskTypes, Moved, Rest, Typed
<1>1. task' \in [Tasks -> TaskRecords]
  BY <1>0
<1>2. ASSUME NEW u \in Tasks PROVE Shape(task'[u]) /\ Held(u)'
  <2>1. CASE u = t
    BY <1>0, <2>1
  <2>2. CASE u # t
    <3>1. task'[u] = task[u] /\ Shape(task[u]) /\ Held(u)
      BY <1>0, <2>2 DEF TypeInv, TaskTypes
    <3>2. task[u].base \in Nat /\ lastMsg \in Nat /\ lastMsg' \in Nat /\ lastMsg <= lastMsg' /\ NumAdmins \in Nat
      BY RecordTyped, Constants DEF TypeInv, CountTypes, Moved
    <3>3. task[u].pc \in Showing => Cardinality(task[u].list) \in Nat
      BY RecordTyped, ListCounted DEF TypeInv, Shape, Showing
    <3>4. Held(u)'
      BY <3>1, <3>2, <3>3 DEF Held
    <3> QED
      BY <3>1, <3>4
  <2> QED
    BY <2>1, <2>2
<1>3. Due'
  <2>1. \A u \in Tasks : task'[u].kind = "remind" => task[u].kind = "remind" /\ task'[u].list \subseteq task[u].list
    BY <1>0 DEF Moved, NotMore
  <2>2. \A u \in Tasks : task[u].list \subseteq Orders
    BY RecordTyped DEF TypeInv
  <2> QED
    BY <2>1, <2>2 DEF TypeInv, Due, Advance
<1> QED
  BY <1>1, <1>2, <1>3 DEF TypeInv, TaskTypes

-----------------------------------------------------------------------------
(* What the steps write *)

\* The buttons of a card are those of a card, and never those of a hidden message.
LEMMA MarkupTyped == \A row : Markup(row) \in CardButtons /\ Markup(row) \in Buttons /\ Markup(row) # "hidden"
BY DEF Markup, CardButtons, Buttons

MsgRecord == [of : Orders \cup {NoOrder}, admin : Admins \cup {0}, buttons : Buttons]

\* Sending a message to each of a set of admins writes the ids reserved for them and no other
\* message.
LEMMA PostMoves ==
  ASSUME MsgTypes, NEW S \in SUBSET Admins, NEW base \in Nat, NEW o \in Orders,
         NEW b \in Buttons, b # "hidden", Post(S, base, o, b)
  PROVE  /\ MsgTypes'
         /\ \A m \in Msgs : m - base \in S =>
              msg'[m].of = o /\ msg'[m].admin = m - base /\ msg'[m].buttons = b
         /\ \A m \in Msgs : m - base \notin S => msg'[m] = msg[m]
<1>1. ASSUME NEW m \in Msgs, m - base \in S
      PROVE  msg'[m].of = o /\ msg'[m].admin = m - base /\ msg'[m].buttons = b /\ msg'[m] \in MsgRecord
  BY <1>1 DEF Post, MsgRecord
<1>2. ASSUME NEW m \in Msgs, m - base \notin S
      PROVE  msg'[m] = msg[m] /\ msg'[m] \in MsgRecord
  BY <1>2 DEF Post, MsgTypes, MsgRecord
<1>3. msg' \in [Msgs -> MsgRecord]
  <2>1. \A m \in Msgs : msg'[m] \in MsgRecord
    BY <1>1, <1>2
  <2> QED
    BY <2>1 DEF Post
<1>4. \A m \in Msgs : Visible(m)' => msg'[m].of # NoOrder
  BY <1>1, <1>2, Constants DEF MsgTypes, Visible
<1> QED
  BY <1>1, <1>2, <1>3, <1>4 DEF MsgTypes, MsgRecord

\* Editing messages gives the new buttons to those still visible, and changes neither whose they
\* are nor any other.
LEMMA RelabelMoves ==
  ASSUME MsgTypes, NEW S, NEW b \in Buttons, Relabel(S, b)
  PROVE  /\ MsgTypes'
         /\ \A m \in Msgs : msg'[m].of = msg[m].of /\ msg'[m].admin = msg[m].admin
         /\ \A m \in Msgs : m \in S /\ Visible(m) => msg'[m].buttons = b
         /\ \A m \in Msgs : m \notin S \/ ~Visible(m) => msg'[m] = msg[m]
<1>1. ASSUME NEW m \in Msgs, m \in S /\ Visible(m)
      PROVE  /\ msg'[m].of = msg[m].of /\ msg'[m].admin = msg[m].admin /\ msg'[m].buttons = b
             /\ msg'[m] \in MsgRecord
  BY <1>1 DEF Relabel, MsgRecord, MsgTypes
<1>2. ASSUME NEW m \in Msgs, ~(m \in S /\ Visible(m))
      PROVE  msg'[m] = msg[m] /\ msg'[m] \in MsgRecord
  BY <1>2 DEF Relabel, MsgTypes, MsgRecord
<1>3. msg' \in [Msgs -> MsgRecord]
  <2>1. \A m \in Msgs : msg'[m] \in MsgRecord
    BY <1>1, <1>2
  <2> QED
    BY <2>1 DEF Relabel
<1>4. \A m \in Msgs : Visible(m)' => msg'[m].of # NoOrder
  BY <1>1, <1>2 DEF MsgTypes, Visible
<1> QED
  BY <1>1, <1>2, <1>3, <1>4 DEF MsgTypes, MsgRecord

\* Deleting messages hides them, and changes neither whose they are nor any other message.
LEMMA HideMoves ==
  ASSUME MsgTypes, NEW S, Hide(S)
  PROVE  /\ MsgTypes'
         /\ \A m \in Msgs : msg'[m].of = msg[m].of /\ msg'[m].admin = msg[m].admin
         /\ \A m \in Msgs : m \in S => msg'[m].buttons = "hidden"
         /\ \A m \in Msgs : m \notin S => msg'[m] = msg[m]
<1>1. ASSUME NEW m \in Msgs, m \in S
      PROVE  /\ msg'[m].of = msg[m].of /\ msg'[m].admin = msg[m].admin /\ msg'[m].buttons = "hidden"
             /\ msg'[m] \in MsgRecord
  BY <1>1 DEF Hide, MsgRecord, MsgTypes, Buttons
<1>2. ASSUME NEW m \in Msgs, m \notin S
      PROVE  msg'[m] = msg[m] /\ msg'[m] \in MsgRecord
  BY <1>2 DEF Hide, MsgTypes, MsgRecord
<1>3. msg' \in [Msgs -> MsgRecord]
  <2>1. \A m \in Msgs : msg'[m] \in MsgRecord
    BY <1>1, <1>2
  <2> QED
    BY <2>1 DEF Hide
<1>4. \A m \in Msgs : Visible(m)' => msg'[m].of # NoOrder
  BY <1>1, <1>2 DEF MsgTypes, Visible
<1> QED
  BY <1>1, <1>2, <1>3, <1>4 DEF MsgTypes, MsgRecord

\* A card of the listing is a new message of the listed order, to the admin who asked, lettered
\* after the row the loop has read.
LEMMA PostCardMoves ==
  ASSUME TypeInv, NEW t \in Tasks, task[t].pc = "s_send", PostCard(t)
  PROVE  /\ MsgTypes' /\ NewCard(t) \in Msgs
         /\ msg'[NewCard(t)].of = Current(t) /\ msg'[NewCard(t)].admin = task[t].admin
         /\ msg'[NewCard(t)].buttons = Markup(RowOf(t))
         /\ \A m \in Msgs \ {NewCard(t)} : msg'[m] = msg[m]
<1>1. Current(t) \in Orders /\ task[t].admin \in Admins /\ task[t].list \in SUBSET Orders /\ task[t].list # {}
  BY AtStep DEF Showing
<1>2. NewCard(t) \in Msgs
  <2>1. task[t].base \in 0 .. MaxMsgs /\ task[t].base + Cardinality(task[t].list) <= lastMsg /\ lastMsg \in 0 .. MaxMsgs
    BY RecordTyped DEF TypeInv, Held, CountTypes, Showing
  <2>2. Cardinality(task[t].list) \in Nat \ {0}
    BY <1>1, ListCounted
  <2>3. task[t].base + 1 \in Nat /\ 1 <= task[t].base + 1 /\ task[t].base + 1 <= MaxMsgs
    BY <2>1, <2>2, Constants
  <2> QED
    BY <2>3, Constants DEF NewCard
<1> DEFINE n == NewCard(t)
           r == [of |-> Current(t), admin |-> task[t].admin, buttons |-> Markup(RowOf(t))]
<1>3. r \in MsgRecord /\ r.of = Current(t) /\ r.admin = task[t].admin /\ r.buttons = Markup(RowOf(t))
  BY <1>1, MarkupTyped DEF MsgRecord
<1>4. msg' = [msg EXCEPT ![n] = r]
  BY DEF PostCard
<1>5. n \in Msgs /\ msg \in [Msgs -> MsgRecord]
  BY <1>2 DEF TypeInv, TableTypes, MsgTypes, MsgRecord
<1> HIDE DEF n, r
<1>6. msg' \in [Msgs -> MsgRecord] /\ msg'[n] = r /\ \A m \in Msgs \ {n} : msg'[m] = msg[m]
  BY <1>3, <1>4, <1>5
<1>7. \A m \in Msgs : Visible(m)' => msg'[m].of # NoOrder
  BY <1>1, <1>3, <1>6, Constants DEF TypeInv, TableTypes, MsgTypes, Visible
<1> QED
  BY <1>2, <1>3, <1>6, <1>7 DEF MsgTypes, MsgRecord, n

\* the row of another order
Elsewhere(o) == \A q \in Orders \ {o} : order'[q] = order[q]

\* A write of the status changes that column of that row only.
LEMMA StatusMoves ==
  ASSUME OrderTypes, NEW o \in Orders, NEW s \in {"pending", "accepted", "rejected"},
         order' = [order EXCEPT ![o].status = s]
  PROVE  /\ OrderTypes' /\ Elsewhere(o)
         /\ order'[o].status = s /\ order'[o].over = order[o].over /\ order'[o].chat = order[o].chat
         /\ order'[o].cards = order[o].cards /\ order'[o].count = order[o].count
BY DEF OrderTypes, Row, Elsewhere

\* A write of the chat flag changes that column of that row only.
LEMMA ChatMoves ==
  ASSUME OrderTypes, NEW o \in Orders, NEW b \in BOOLEAN,
         order' = [order EXCEPT ![o].chat = b]
  PROVE  /\ OrderTypes' /\ Elsewhere(o)
         /\ order'[o].status = order[o].status /\ order'[o].over = order[o].over /\ order'[o].chat = b
         /\ order'[o].cards = order[o].cards /\ order'[o].count = order[o].count
BY DEF OrderTypes, Row, Elsewhere

\* The end of an order closes its chat, and changes no other row.
LEMMA FinishMoves ==
  ASSUME OrderTypes, NEW o \in Orders, order' = [order EXCEPT ![o].over = TRUE, ![o].chat = FALSE]
  PROVE  /\ OrderTypes' /\ Elsewhere(o)
         /\ order'[o].status = order[o].status /\ order'[o].over /\ ~order'[o].chat
         /\ order'[o].cards = order[o].cards /\ order'[o].count = order[o].count
BY DEF OrderTypes, Row, Elsewhere

\* A withdrawal rejects the order and closes its chat, and changes no other row.
LEMMA WithdrawMoves ==
  ASSUME OrderTypes, NEW o \in Orders,
         order' = [order EXCEPT ![o].status = "rejected", ![o].over = TRUE, ![o].chat = FALSE]
  PROVE  /\ OrderTypes' /\ Elsewhere(o)
         /\ order'[o].status = "rejected" /\ order'[o].over /\ ~order'[o].chat
         /\ order'[o].cards = order[o].cards /\ order'[o].count = order[o].count
BY DEF OrderTypes, Row, Elsewhere

\* set_admin_msgs writes the card ids of a stored order, and nothing when the order is gone.
LEMMA CardsMove ==
  ASSUME OrderTypes, NEW o \in Orders, NEW cards \in CardTables, SetAdminMsgs(o, cards)
  PROVE  /\ OrderTypes' /\ Elsewhere(o)
         /\ order'[o].status = order[o].status /\ order'[o].over = order[o].over /\ order'[o].chat = order[o].chat
         /\ order'[o].count = order[o].count
         /\ order'[o].cards = IF Stored(o) THEN cards ELSE order[o].cards
<1>1. CASE Stored(o)
  <2>1. order' = [order EXCEPT ![o].cards = cards]
    BY <1>1 DEF SetAdminMsgs
  <2> QED
    BY <1>1, <2>1 DEF OrderTypes, Row, Elsewhere, CardTables
<1>2. CASE ~Stored(o)
  <2>1. order' = order
    BY <1>2 DEF SetAdminMsgs
  <2> QED
    BY <1>2, <2>1 DEF OrderTypes, Elsewhere
<1> QED
  BY <1>1, <1>2

\* The purge empties the rows it deletes, and changes no other row.
LEMMA PurgeMoves ==
  ASSUME OrderTypes, NEW S \in SUBSET Orders,
         order' = [o \in Orders |-> IF o \in S THEN [order[o] EXCEPT !.status = "deleted", !.chat = FALSE, !.cards = NoCards] ELSE order[o]]
  PROVE  /\ OrderTypes'
         /\ \A o \in S : /\ order'[o].status = "deleted" /\ ~order'[o].chat /\ order'[o].cards = NoCards
                         /\ order'[o].over = order[o].over /\ order'[o].count = order[o].count
         /\ \A o \in Orders \ S : order'[o] = order[o]
<1>1. NoCards \in [Admins -> Msgs \cup {NoMsg}]
  BY DEF NoCards
<1>2. ASSUME NEW o \in S
      PROVE  /\ order'[o].status = "deleted" /\ ~order'[o].chat /\ order'[o].cards = NoCards
             /\ order'[o].over = order[o].over /\ order'[o].count = order[o].count /\ order'[o] \in Row
  BY <1>1 DEF OrderTypes, Row
<1>3. ASSUME NEW o \in Orders \ S
      PROVE  order'[o] = order[o] /\ order'[o] \in Row
  BY DEF OrderTypes
<1>4. order' \in [Orders -> Row]
  <2>1. \A o \in Orders : order'[o] \in Row
    BY <1>2, <1>3
  <2> QED
    BY <2>1
<1> QED
  BY <1>2, <1>3, <1>4 DEF OrderTypes

\* The count of a reminder adds one to that row, and changes nothing else.
LEMMA CountMoves ==
  ASSUME OrderTypes, NEW o \in Orders, order[o].count < RemindMax,
         order' = [order EXCEPT ![o].count = @ + 1]
  PROVE  /\ OrderTypes' /\ Elsewhere(o)
         /\ order'[o].status = order[o].status /\ order'[o].over = order[o].over /\ order'[o].chat = order[o].chat
         /\ order'[o].cards = order[o].cards /\ order'[o].count = order[o].count + 1
<1>1. order[o].count \in 0 .. RemindMax /\ RemindMax \in Nat
  BY Constants DEF OrderTypes, Row
<1>2. order[o].count + 1 \in 0 .. RemindMax
  BY <1>1
<1> QED
  BY <1>2 DEF OrderTypes, Row, Elsewhere

-----------------------------------------------------------------------------

\* A step that leaves the table alone leaves every row alone.
LEMMA SameOrders ==
  ASSUME TypeInv, UNCHANGED order
  PROVE  OrderTypes' /\ Advance /\ \A o \in Orders : order'[o] = order[o]
BY DEF TypeInv, TableTypes, OrderTypes, Advance

\* A step that leaves the messages alone leaves every message alone.
LEMMA SameMsgs ==
  ASSUME TypeInv, UNCHANGED msg
  PROVE  MsgTypes' /\ \A m \in Msgs : msg'[m] = msg[m]
BY DEF TypeInv, TableTypes, MsgTypes, Visible

\* A fault is counted, within the bound.
LEMMA FaultCounts ==
  ASSUME TypeInv, Fault
  PROVE  faults' \in 0 .. MaxFaults /\ faults' = faults + 1 /\ faults' # 0 /\ faults <= faults'
BY Constants DEF TypeInv, CountTypes, Fault

\* the number of faults only grows
LEMMA ReachedCounts ==
  ASSUME TypeInv, NEW S, NEW all, Reached(S, all)
  PROVE  faults' \in 0 .. MaxFaults /\ (faults' = 0 => S = all /\ faults = 0) /\ faults <= faults'
<1>1. CASE S = all
  BY <1>1, Constants DEF Reached, TypeInv, CountTypes
<1>2. CASE S # all
  <2>1. Fault
    BY <1>2 DEF Reached
  <2> QED
    BY <2>1, FaultCounts
<1> QED
  BY <1>1, <1>2

\* A handler that starts at an order where one of another sort is at work marks the order as
\* mixed: when the order is not mixed, nobody at it disagrees with the newcomer.
LEMMA MeetMoves ==
  ASSUME TypeInv, NEW k, NEW S \in SUBSET Orders, Meet(k, S)
  PROVE  /\ mixed' \subseteq Orders /\ mixed \subseteq mixed'
         /\ \A o \in S : o \notin mixed' => \A t \in Busy(o) : Apart(k, task[t].kind)
BY DEF Meet, TypeInv, CountTypes

\* Reserving ids moves the last id by as many.
LEMMA ReserveMoves ==
  ASSUME TypeInv, NEW n \in Nat, Reserve(n)
  PROVE  lastMsg' \in 0 .. MaxMsgs /\ lastMsg' = lastMsg + n
BY Constants DEF Reserve, TypeInv, CountTypes

\* the counters that a step leaves alone
LEMMA SameCounts ==
  ASSUME TypeInv
  PROVE  /\ UNCHANGED lastMsg => lastMsg' \in 0 .. MaxMsgs
         /\ UNCHANGED heard => heard' \in [Orders -> Nat]
         /\ UNCHANGED mixed => mixed' \subseteq Orders
         /\ UNCHANGED faults => faults' \in 0 .. MaxFaults
         /\ UNCHANGED relay => relay' \subseteq Msgs
BY DEF TypeInv, CountTypes, TableTypes

\* Placing an order keeps the types.
LEMMA PlaceTyped ==
  ASSUME TypeInv, NEW t \in Tasks, NEW o \in Orders, Place(t, o)
  PROVE  TypeInv'
<1>1. Moved(t)
  BY PlaceLands
<1>2. OrderTypes' /\ Advance
  <2>1. order' = [order EXCEPT ![o].status = "pending"] /\ OrderTypes
    BY DEF Place, TypeInv, TableTypes
  <2> QED
    BY <2>1, StatusMoves DEF Advance, Elsewhere
<1>3. MsgTypes' /\ relay' \subseteq Msgs
  BY SameMsgs, SameCounts DEF Place
<1>4. CountTypes'
  BY SameCounts, ReserveMoves, Constants DEF Place, CountTypes
<1> QED
  BY <1>1, <1>2, <1>3, <1>4, MovedTyped DEF TableTypes

\* steps that only read
LEMMA ReadTyped ==
  ASSUME TypeInv, NEW t \in Tasks, Moved(t), UNCHANGED <<order, relay, msg, lastMsg, heard, mixed, faults>>
  PROVE  TypeInv'
BY SameOrders, SameMsgs, SameCounts, MovedTyped DEF TableTypes, CountTypes

\* Sending the cards of a new order keeps the types.
LEMMA NotifySendTyped ==
  ASSUME TypeInv, NEW t \in Tasks, NotifySend(t)
  PROVE  TypeInv'
<1>1. PICK S \in SUBSET Admins :
        Moved(t) /\ task[t].pc = "n_send" /\ Reached(S, Admins) /\ Post(S, task[t].base, Current(t), Markup(RowOf(t)))
  BY NotifySendLands
<1>2. Current(t) \in Orders /\ task[t].base \in Nat
  BY <1>1, AtStep, RecordTyped, Constants DEF TypeInv
<1>3. MsgTypes'
  BY <1>1, <1>2, PostMoves, MarkupTyped DEF TypeInv, TableTypes
<1>4. OrderTypes' /\ Advance /\ relay' \subseteq Msgs
  BY SameOrders, SameCounts DEF NotifySend
<1>5. CountTypes'
  BY <1>1, SameCounts, ReachedCounts DEF NotifySend, CountTypes
<1> QED
  BY <1>1, <1>3, <1>4, <1>5, MovedTyped DEF TableTypes

\* steps that write the row of one order
LEMMA RowTypedAfter ==
  ASSUME TypeInv, NEW t \in Tasks, Moved(t), OrderTypes', Advance,
         UNCHANGED <<relay, msg, lastMsg, heard, faults>>, mixed' \subseteq Orders
  PROVE  TypeInv'
BY SameMsgs, SameCounts, MovedTyped DEF TableTypes, CountTypes

\* Saving the card ids of a new order keeps the types.
LEMMA NotifySaveTyped ==
  ASSUME TypeInv, NEW t \in Tasks, NotifySave(t)
  PROVE  TypeInv'
<1>1. Moved(t) /\ Current(t) \in Orders /\ task[t].sent \in CardTables
  BY NotifySaveLands, AtStep, RecordTyped DEF TypeInv
<1>2. OrderTypes' /\ Advance
  BY <1>1, CardsMove DEF NotifySave, Advance, Elsewhere, TypeInv, TableTypes
<1> QED
  BY <1>1, <1>2, SameCounts, RowTypedAfter DEF NotifySave

\* A verdict keeps the types.
LEMMA DecideTyped ==
  ASSUME TypeInv, NEW t \in Tasks, NEW o \in Orders, NEW verdict \in {"accepted", "rejected"}, Decide(t, o, verdict)
  PROVE  TypeInv'
<1>1. Moved(t) /\ Meet("decide", {o})
  BY TapLands DEF Decide
<1>2. OrderTypes' /\ Advance
  BY StatusMoves DEF Decide, Advance, Elsewhere, TypeInv, TableTypes
<1> QED
  BY <1>1, <1>2, MeetMoves, RowTypedAfter DEF Decide

\* The opening of the chat after an acceptance keeps the types.
LEMMA DecideOpenTyped ==
  ASSUME TypeInv, NEW t \in Tasks, DecideOpen(t)
  PROVE  TypeInv'
<1>1. Moved(t) /\ Current(t) \in Orders
  BY DecideOpenLands, AtStep
<1>2. OrderTypes' /\ Advance
  <2>1. CASE Stored(Current(t))
    BY <1>1, <2>1, ChatMoves DEF DecideOpen, Advance, Elsewhere, TypeInv, TableTypes
  <2>2. CASE ~Stored(Current(t))
    BY <2>2, SameOrders DEF DecideOpen
  <2> QED
    BY <2>1, <2>2
<1> QED
  BY <1>1, <1>2, SameCounts, RowTypedAfter DEF DecideOpen

\* The end of an order keeps the types.
LEMMA FinishTyped ==
  ASSUME TypeInv, NEW t \in Tasks, NEW o \in Orders, Finish(t, o)
  PROVE  TypeInv'
<1>1. Moved(t) /\ Meet("finish", {o})
  BY TapLands DEF Finish
<1>2. OrderTypes' /\ Advance
  BY FinishMoves DEF Finish, Advance, Elsewhere, TypeInv, TableTypes
<1> QED
  BY <1>1, <1>2, MeetMoves, RowTypedAfter DEF Finish

\* A withdrawal keeps the types.
LEMMA WithdrawTyped ==
  ASSUME TypeInv, NEW t \in Tasks, NEW o \in Orders, Withdraw(t, o)
  PROVE  TypeInv'
<1>1. Moved(t) /\ Meet("withdraw", {o})
  BY TapLands DEF Withdraw
<1>2. OrderTypes' /\ Advance
  BY WithdrawMoves DEF Withdraw, Advance, Elsewhere, TypeInv, TableTypes
<1> QED
  BY <1>1, <1>2, MeetMoves, RowTypedAfter DEF Withdraw

\* Editing the cards keeps the types.
LEMMA EditCardsTyped ==
  ASSUME TypeInv, NEW t \in Tasks, EditCards(t)
  PROVE  TypeInv'
<1>1. PICK S \in SUBSET Admins : Reached(S, Admins) /\ Relabel(CardsAmong(RowOf(t), S), Markup(RowOf(t)))
  BY DEF EditCards
<1>2. MsgTypes'
  BY <1>1, RelabelMoves, MarkupTyped DEF TypeInv, TableTypes
<1>3. OrderTypes' /\ Advance /\ relay' \subseteq Msgs
  BY SameOrders, SameCounts DEF EditCards
<1>4. CountTypes'
  BY <1>1, SameCounts, ReachedCounts DEF EditCards, CountTypes
<1> QED
  BY <1>2, <1>3, <1>4, EditCardsLands, MovedTyped DEF TableTypes

\* The ids in a row's cards are ids of messages.
LEMMA CardsAmongTyped ==
  ASSUME NEW row \in Row, NEW S \in SUBSET Admins
  PROVE  CardsAmong(row, S) \subseteq Msgs
<1>1. row.cards \in CardTables
  BY RowTyped
<1> QED
  BY <1>1 DEF CardsAmong, CardTables

\* Linking the cards to the chat keeps the types.
LEMMA DecideLinkTyped ==
  ASSUME TypeInv, NEW t \in Tasks, DecideLink(t)
  PROVE  TypeInv'
<1>1. PICK S \in SUBSET Admins : Reached(S, Admins) /\ Link(CardsAmong(RowOf(t), S))
  BY DEF DecideLink
<1>2. Moved(t) /\ RowOf(t) \in Row
  BY DecideLinkLands, AtStep DEF Knowing
<1>3. OrderTypes' /\ Advance /\ MsgTypes'
  BY SameOrders, SameMsgs DEF DecideLink
<1>4. relay' \subseteq Msgs
  BY <1>1, <1>2, CardsAmongTyped DEF Link, TypeInv, TableTypes
<1>5. CountTypes'
  BY <1>1, SameCounts, ReachedCounts DEF DecideLink, CountTypes
<1> QED
  BY <1>2, <1>3, <1>4, <1>5, MovedTyped DEF TableTypes

\* Closing a chat keeps the types.
LEMMA CloseTyped ==
  ASSUME TypeInv, NEW t \in Tasks, NEW m \in Msgs, Close(t, m)
  PROVE  TypeInv'
<1>1. Moved(t) /\ Meet("close", {msg[m].of}) /\ msg[m].of \in Orders
  BY CloseLeads
<1>2. OrderTypes' /\ Advance
  BY <1>1, ChatMoves DEF Close, Advance, Elsewhere, TypeInv, TableTypes
<1> QED
  BY <1>1, <1>2, MeetMoves, RowTypedAfter DEF Close

\* The edit of a tapped message keeps the types.
LEMMA CloseEditTyped ==
  ASSUME TypeInv, NEW t \in Tasks, CloseEdit(t)
  PROVE  TypeInv'
<1>1. MsgTypes' /\ faults' \in 0 .. MaxFaults
  <2>1. CASE Missed(msg)
    BY <2>1, SameMsgs, FaultCounts DEF Missed
  <2>2. ASSUME NEW b \in Buttons, Relabel({task[t].base}, b), UNCHANGED faults
        PROVE  MsgTypes' /\ faults' \in 0 .. MaxFaults
    BY <2>2, RelabelMoves, SameCounts DEF TypeInv, TableTypes
  <2>3. "ended" \in Buttons
    BY DEF Buttons
  <2> QED
    BY <2>1, <2>2, <2>3, MarkupTyped DEF CloseEdit
<1>2. OrderTypes' /\ Advance /\ relay' \subseteq Msgs /\ CountTypes'
  BY <1>1, SameOrders, SameCounts DEF CloseEdit, CountTypes
<1> QED
  BY <1>1, <1>2, CloseEditLands, MovedTyped DEF TableTypes

\* The start of a listing keeps the types.
LEMMA ShowTyped ==
  ASSUME TypeInv, NEW t \in Tasks, NEW a \in Admins, NEW S \in SUBSET Orders, Show(t, a, S)
  PROVE  TypeInv'
<1>1. Moved(t) /\ Meet("show", S) /\ lastMsg' = lastMsg + Cardinality(S)
  BY ShowLands
<1>2. lastMsg' \in 0 .. MaxMsgs
  <2>1. Cardinality(S) \in Nat /\ Reserve(Cardinality(S))
    BY ListCounted DEF Show
  <2> QED
    BY <2>1, ReserveMoves
<1>3. OrderTypes' /\ Advance /\ MsgTypes' /\ relay' \subseteq Msgs
  BY SameOrders, SameMsgs, SameCounts DEF Show
<1>4. CountTypes'
  BY <1>1, <1>2, SameCounts, MeetMoves DEF Show, CountTypes
<1> QED
  BY <1>1, <1>3, <1>4, MovedTyped DEF TableTypes

\* Sending a card of the listing keeps the types.
LEMMA ShowSendTyped ==
  ASSUME TypeInv, NEW t \in Tasks, ShowSend(t)
  PROVE  TypeInv'
<1>1. Moved(t) /\ task[t].pc = "s_send"
  BY ShowSendLands
<1>2. MsgTypes' /\ faults' \in 0 .. MaxFaults
  <2>1. CASE PostCard(t) /\ UNCHANGED faults
    BY <1>1, <2>1, PostCardMoves, SameCounts
  <2>2. CASE Missed(msg)
    BY <2>2, SameMsgs, FaultCounts DEF Missed
  <2> QED
    BY <2>1, <2>2 DEF ShowSend
<1>3. OrderTypes' /\ Advance /\ relay' \subseteq Msgs /\ CountTypes'
  BY <1>2, SameOrders, SameCounts DEF ShowSend, CountTypes
<1> QED
  BY <1>1, <1>2, <1>3, MovedTyped DEF TableTypes

\* the card that was sent
LEMMA NewCardTyped ==
  ASSUME TypeInv, NEW t \in Tasks, task[t].pc \in Showing
  PROVE  NewCard(t) \in Msgs
<1>1. task[t].list \in SUBSET Orders /\ task[t].list # {}
  BY RecordTyped DEF TypeInv, Shape, Showing
<1>2. task[t].base \in 0 .. MaxMsgs /\ task[t].base + Cardinality(task[t].list) <= lastMsg /\ lastMsg \in 0 .. MaxMsgs
  BY RecordTyped DEF TypeInv, Held, CountTypes, Showing
<1>3. Cardinality(task[t].list) \in Nat \ {0}
  BY <1>1, ListCounted
<1>4. task[t].base + 1 \in Nat /\ 1 <= task[t].base + 1 /\ task[t].base + 1 <= MaxMsgs
  BY <1>2, <1>3, Constants
<1> QED
  BY <1>4, Constants DEF NewCard

\* the ids that are saved after a card was sent anew
LEMMA SavedTyped ==
  ASSUME TypeInv, NEW t \in Tasks, task[t].pc \in Showing
  PROVE  /\ [RowOf(t).cards EXCEPT ![task[t].admin] = NewCard(t)] \in CardTables
         /\ \A a \in Admins : [RowOf(t).cards EXCEPT ![task[t].admin] = NewCard(t)][a]
                                = IF a = task[t].admin THEN NewCard(t) ELSE RowOf(t).cards[a]
<1>1. RowOf(t) \in Row /\ task[t].admin \in Admins /\ NewCard(t) \in Msgs
  BY AtStep, NewCardTyped DEF Showing, Knowing
<1>2. RowOf(t).cards \in CardTables
  BY <1>1, RowTyped
<1> QED
  BY <1>1, <1>2 DEF CardTables

\* Saving the id of a card of the listing keeps the types.
LEMMA ShowSaveTyped ==
  ASSUME TypeInv, NEW t \in Tasks, ShowSave(t)
  PROVE  TypeInv'
<1>1. Moved(t) /\ task[t].pc \in Showing /\ task[t].pc # "idle"
  BY ShowSaveLands DEF Showing
<1>2. Current(t) \in Orders
  BY <1>1, AtStep
<1>3. OrderTypes' /\ Advance
  <2>1. SetAdminMsgs(Current(t), [RowOf(t).cards EXCEPT ![task[t].admin] = NewCard(t)])
    BY DEF ShowSave
  <2> QED
    BY <1>1, <1>2, <2>1, SavedTyped, CardsMove DEF Advance, Elsewhere, TypeInv, TableTypes
<1> QED
  BY <1>1, <1>3, SameCounts, RowTypedAfter DEF ShowSave

\* Linking a card of the listing keeps the types.
LEMMA ShowLinkTyped ==
  ASSUME TypeInv, NEW t \in Tasks, ShowLink(t)
  PROVE  TypeInv'
<1>1. Moved(t) /\ NewCard(t) \in Msgs
  BY ShowLinkLands, NewCardTyped DEF Showing
<1>2. OrderTypes' /\ Advance /\ MsgTypes' /\ CountTypes'
  BY SameOrders, SameMsgs, SameCounts DEF ShowLink, CountTypes
<1>3. relay' \subseteq Msgs
  BY <1>1 DEF ShowLink, Link, TypeInv, TableTypes
<1> QED
  BY <1>1, <1>2, <1>3, MovedTyped DEF TableTypes

\* Deleting the card a listing has replaced keeps the types.
LEMMA ShowDeleteTyped ==
  ASSUME TypeInv, NEW t \in Tasks, ShowDelete(t)
  PROVE  TypeInv'
<1>1. MsgTypes' /\ faults' \in 0 .. MaxFaults
  <2>1. CASE UNCHANGED <<msg, faults>>
    BY <2>1, SameMsgs, SameCounts
  <2>2. CASE Hide({OldCard(t)}) /\ UNCHANGED faults
    BY <2>2, HideMoves, SameCounts DEF TypeInv, TableTypes
  <2>3. CASE Missed(msg)
    BY <2>3, SameMsgs, FaultCounts DEF Missed
  <2> QED
    BY <2>1, <2>2, <2>3 DEF ShowDelete
<1>2. OrderTypes' /\ Advance /\ relay' \subseteq Msgs /\ CountTypes'
  BY <1>1, SameOrders, SameCounts DEF ShowDelete, CountTypes
<1> QED
  BY <1>1, <1>2, ShowDeleteLands, MovedTyped DEF TableTypes

\* The start of a chat line keeps the types.
LEMMA TalkTyped ==
  ASSUME TypeInv, NEW t \in Tasks, Talk(t)
  PROVE  TypeInv'
<1>1. PICK o \in Orders : Moved(t) /\ Meet("talk", {o})
  BY TalkLands
<1>2. OrderTypes' /\ Advance /\ MsgTypes' /\ relay' \subseteq Msgs
  BY SameOrders, SameMsgs, SameCounts DEF Talk
<1>3. CountTypes'
  BY <1>1, SameCounts, MeetMoves, ReserveMoves, Constants DEF Talk, CountTypes
<1> QED
  BY <1>1, <1>2, <1>3, MovedTyped DEF TableTypes

\* Sending a chat line to the admins keeps the types.
LEMMA TalkSendTyped ==
  ASSUME TypeInv, NEW t \in Tasks, TalkSend(t)
  PROVE  TypeInv'
<1>1. PICK S \in SUBSET Admins :
        Moved(t) /\ task[t].pc = "t_send" /\ Reached(S, Admins) /\ Post(S, task[t].base, Current(t), "chat")
  BY TalkSendLands
<1>2. Current(t) \in Orders /\ task[t].base \in Nat /\ "chat" \in Buttons
  BY <1>1, AtStep, RecordTyped, Constants DEF TypeInv, Buttons
<1>3. MsgTypes'
  BY <1>1, <1>2, PostMoves DEF TypeInv, TableTypes
<1>4. OrderTypes' /\ Advance /\ relay' \subseteq Msgs
  BY SameOrders, SameCounts DEF TalkSend
<1>5. CountTypes'
  BY <1>1, SameCounts, ReachedCounts DEF TalkSend, CountTypes
<1> QED
  BY <1>1, <1>3, <1>4, <1>5, MovedTyped DEF TableTypes

\* Linking the sent lines keeps the types.
LEMMA TalkLinkTyped ==
  ASSUME TypeInv, NEW t \in Tasks, TalkLink(t)
  PROVE  TypeInv'
<1>1. PICK S \in SUBSET task[t].refs : Reached(S, task[t].refs) /\ Link(S)
  BY DEF TalkLink
<1>2. OrderTypes' /\ Advance /\ MsgTypes'
  BY SameOrders, SameMsgs DEF TalkLink
<1>3. relay' \subseteq Msgs
  BY <1>1, RecordTyped DEF Link, TypeInv, TableTypes
<1>4. CountTypes'
  BY <1>1, SameCounts, ReachedCounts DEF TalkLink, CountTypes
<1> QED
  BY <1>2, <1>3, <1>4, TalkLinkLands, MovedTyped DEF TableTypes

\* The purge of the orders keeps the types.
LEMMA PurgeTyped ==
  ASSUME TypeInv, NEW t \in Tasks, NEW S \in SUBSET Orders, Purge(t, S)
  PROVE  TypeInv'
<1>1. Moved(t) /\ Meet("clean", S)
  BY PurgeLands
<1>2. OrderTypes' /\ Advance
  <2>1. order' = [o \in Orders |-> IF o \in S THEN [order[o] EXCEPT !.status = "deleted", !.chat = FALSE, !.cards = NoCards] ELSE order[o]]
    BY DEF Purge
  <2> QED
    BY <2>1, PurgeMoves DEF Advance, TypeInv, TableTypes
<1>3. MsgTypes' /\ relay' \subseteq Msgs
  BY SameMsgs DEF Purge, TypeInv, TableTypes
<1>4. CountTypes'
  BY <1>1, SameCounts, MeetMoves DEF Purge, CountTypes
<1> QED
  BY <1>1, <1>2, <1>3, <1>4, MovedTyped DEF TableTypes

\* The deletion of the purged orders' messages keeps the types.
LEMMA DeleteMessagesTyped ==
  ASSUME TypeInv, NEW t \in Tasks, DeleteMessages(t)
  PROVE  TypeInv'
<1>1. PICK S \in SUBSET task[t].refs : Reached(S, task[t].refs) /\ Hide(S)
  BY DEF DeleteMessages
<1>2. OrderTypes' /\ Advance /\ MsgTypes' /\ relay' \subseteq Msgs
  BY <1>1, SameOrders, SameCounts, HideMoves DEF DeleteMessages, TypeInv, TableTypes
<1>3. CountTypes'
  BY <1>1, SameCounts, ReachedCounts DEF DeleteMessages, CountTypes
<1> QED
  BY <1>2, <1>3, DeleteMessagesLands, MovedTyped DEF TableTypes

\* The start of the reminder job keeps the types: it is the only one, since the scheduler runs one
\* at a time.
LEMMA RemindTyped ==
  ASSUME TypeInv, NEW t \in Tasks, Remind(t)
  PROVE  TypeInv'
<1>0. /\ Rest(t) /\ task[t] = Free /\ task'[t].list \subseteq Waiting
      /\ task'[t] \in TaskRecords /\ Shape(task'[t]) /\ Held(t)' /\ lastMsg' = lastMsg
      /\ UNCHANGED <<order, relay, msg, lastMsg, heard, mixed, faults>>
  BY RemindLands DEF Typed, Remind
<1>1. task' \in [Tasks -> TaskRecords]
  BY <1>0 DEF Rest, TypeInv, TaskTypes
<1>2. ASSUME NEW u \in Tasks PROVE Shape(task'[u]) /\ Held(u)'
  <2>1. CASE u = t
    BY <1>0, <2>1
  <2>2. CASE u # t
    <3>1. task'[u] = task[u] /\ Shape(task[u]) /\ Held(u)
      BY <1>0, <2>2 DEF TypeInv, TaskTypes, Rest
    <3> QED
      BY <1>0, <3>1 DEF Held
  <2> QED
    BY <2>1, <2>2
<1>3. Due'
  <2>1. \A u \in Tasks : task[u].kind # "remind"
    BY DEF Remind
  <2>2. \A u \in Tasks : task'[u].kind = "remind" => u = t
    BY <1>0, <2>1 DEF Rest
  <2>3. \A o \in task'[t].list : o \in Orders /\ order[o].status = "pending" /\ order[o].count < RemindMax
    BY <1>0 DEF Waiting
  <2> QED
    BY <1>0, <2>2, <2>3 DEF Due
<1>4. TableTypes' /\ CountTypes'
  BY <1>0, SameOrders, SameMsgs, SameCounts DEF TableTypes, CountTypes
<1> QED
  BY <1>1, <1>2, <1>3, <1>4 DEF TypeInv, TaskTypes

\* Sending a reminder keeps the types.
LEMMA RemindSendTyped ==
  ASSUME TypeInv, NEW t \in Tasks, RemindSend(t)
  PROVE  TypeInv'
<1>1. Moved(t) /\ Current(t) \in Orders
  BY RemindSendLands, AtStep
<1>2. heard' \in [Orders -> Nat]
  BY <1>1 DEF RemindSend, TypeInv, CountTypes
<1>3. TableTypes' /\ CountTypes' /\ Advance
  BY <1>2, SameOrders, SameMsgs, SameCounts DEF RemindSend, TableTypes, CountTypes
<1> QED
  BY <1>1, <1>3, MovedTyped

\* Counting a reminder keeps the types: the order counted is one that was due.
LEMMA MarkTyped ==
  ASSUME TypeInv, NEW t \in Tasks, Mark(t)
  PROVE  TypeInv'
<1>0. /\ Moved(t) /\ task[t].kind = "remind" /\ Current(t) \in Orders /\ Current(t) \in task[t].list
      /\ task'[t].list = task[t].list \ {Current(t)}
  BY MarkLands, AtStep, NextReminderMoves DEF Reminding, Mark
<1>1. order[Current(t)].count < RemindMax
  BY <1>0 DEF TypeInv, Due
<1>2. CASE UNCHANGED order
  <2>1. faults' \in 0 .. MaxFaults
    BY SameCounts, FaultCounts DEF Mark, Missed
  <2>2. TableTypes' /\ CountTypes' /\ Advance
    BY <1>2, <2>1, SameOrders, SameMsgs, SameCounts DEF Mark, TableTypes, CountTypes
  <2> QED
    BY <1>0, <2>2, MovedTyped
<1>3. CASE order' = [order EXCEPT ![Current(t)].count = @ + 1] /\ UNCHANGED faults
  <2>1. OrderTypes' /\ Elsewhere(Current(t)) /\ order'[Current(t)].status = order[Current(t)].status
    BY <1>0, <1>1, <1>3, CountMoves DEF TypeInv, TableTypes
  <2>2. TableTypes' /\ CountTypes'
    BY <1>3, <2>1, SameMsgs, SameCounts DEF Mark, TableTypes, CountTypes
  <2>3. Rest(t) /\ Typed(t) /\ Held(t)' /\ lastMsg' = lastMsg
    BY <1>0 DEF Moved, Mark
  <2>4. TaskTypes'
    <3>1. task' \in [Tasks -> TaskRecords]
      BY <2>3 DEF Rest, Typed, TypeInv, TaskTypes
    <3>2. ASSUME NEW u \in Tasks PROVE Shape(task'[u]) /\ Held(u)'
      <4>1. CASE u = t
        BY <2>3, <4>1 DEF Typed
      <4>2. CASE u # t
        <5>1. task'[u] = task[u] /\ Shape(task[u]) /\ Held(u)
          BY <2>3, <4>2 DEF TypeInv, TaskTypes, Rest
        <5> QED
          BY <2>3, <5>1 DEF Held
      <4> QED
        BY <4>1, <4>2
    <3> QED
      BY <3>1, <3>2 DEF TaskTypes
  <2>5. Due'
    <3>1. \A u \in Tasks : task'[u].kind = "remind" => u = t
      BY <1>0, <2>3 DEF TypeInv, Due, Rest
    <3>2. \A o \in task'[t].list : o \in Orders /\ o # Current(t) /\ o \in task[t].list
      BY <1>0, RecordTyped DEF TypeInv
    <3>3. \A o \in task'[t].list : order'[o] = order[o]
      BY <2>1, <3>2 DEF Elsewhere
    <3> QED
      BY <1>0, <3>1, <3>2, <3>3 DEF TypeInv, Due
  <2> QED
    BY <2>2, <2>4, <2>5 DEF TypeInv
<1> QED
  BY <1>2, <1>3 DEF Mark, Missed

\* A handler or job that fails keeps the types.
LEMMA FailsTyped ==
  ASSUME TypeInv, NEW t \in Tasks, TaskFails(t)
  PROVE  TypeInv'
<1>1. Moved(t)
  BY FailsLands
<1>2. TableTypes' /\ CountTypes' /\ Advance
  BY SameOrders, SameMsgs, SameCounts, FaultCounts DEF TaskFails, TableTypes, CountTypes
<1> QED
  BY <1>1, <1>2, MovedTyped

-----------------------------------------------------------------------------

\* the steps of a task, one name each
LEMMA Steps ==
  ASSUME NEW t \in Tasks, CardStep(t) \/ RemindStep(t) \/ Tap(t) \/ Remind(t) \/ TaskFails(t)
  PROVE  \/ NotifyGet(t) \/ NotifySend(t) \/ NotifySave(t)
         \/ DecideOpen(t) \/ GetOrder(t) \/ CloseGet(t) \/ CloseEdit(t) \/ EditCards(t) \/ DecideLink(t)
         \/ ShowSend(t) \/ ShowSave(t) \/ ShowLink(t) \/ ShowDelete(t)
         \/ TalkSend(t) \/ TalkLink(t) \/ DeleteMessages(t)
         \/ RemindGet(t) \/ RemindSend(t) \/ Mark(t) \/ Remind(t) \/ TaskFails(t)
         \/ \E o \in Orders : Place(t, o) \/ Finish(t, o) \/ Withdraw(t, o)
         \/ \E o \in Orders, verdict \in {"accepted", "rejected"} : Decide(t, o, verdict)
         \/ \E m \in Msgs : Close(t, m)
         \/ \E a \in Admins, S \in SUBSET Orders :
              Show(t, a, S) /\ \A o \in S : order[o].status = "pending" \/ InProgress(o)
         \/ Talk(t)
         \/ \E S \in SUBSET Orders : Purge(t, S)
<1>1. ASSUME NEW a \in Admins, ShowPending(t, a) \/ ShowInProgress(t, a)
      PROVE  \E S \in SUBSET Orders :
               Show(t, a, S) /\ \A o \in S : order[o].status = "pending" \/ InProgress(o)
  <2>1. CASE ShowPending(t, a)
    <3> DEFINE S == {o \in Orders : order[o].status = "pending"}
    <3>1. S \in SUBSET Orders /\ Show(t, a, S) /\ \A o \in S : order[o].status = "pending" \/ InProgress(o)
      BY <2>1 DEF ShowPending
    <3> HIDE DEF S
    <3> QED
      BY <3>1
  <2>2. CASE ShowInProgress(t, a)
    <3> DEFINE S == {o \in Orders : InProgress(o)}
    <3>1. S \in SUBSET Orders /\ Show(t, a, S) /\ \A o \in S : order[o].status = "pending" \/ InProgress(o)
      BY <2>2 DEF ShowInProgress
    <3> HIDE DEF S
    <3> QED
      BY <3>1
  <2> QED
    BY <1>1, <2>1, <2>2
<1>2. CASE CardStep(t)
  BY <1>2 DEF CardStep
<1>3. CASE RemindStep(t) \/ Remind(t) \/ TaskFails(t)
  BY <1>3 DEF RemindStep
<1>4. CASE Tap(t)
  BY <1>1, <1>4 DEF Tap
<1> QED
  BY <1>2, <1>3, <1>4

\* Every step keeps the types.
LEMMA NextTyped == TypeInv /\ [Next]_vars => TypeInv'
<1> SUFFICES ASSUME TypeInv, [Next]_vars PROVE TypeInv'
  OBVIOUS
<1>1. CASE UNCHANGED vars
  <2>1. UNCHANGED <<order, relay, msg, task, lastMsg, heard, mixed, faults>>
    BY <1>1 DEF vars
  <2> QED
    BY <2>1 DEF TypeInv, TableTypes, OrderTypes, MsgTypes, Visible, CountTypes, TaskTypes, Held, Due
<1>2. CASE Crash
  BY <1>2, CrashTyped
<1>3. ASSUME NEW t \in Tasks, CardStep(t) \/ RemindStep(t) \/ Tap(t) \/ Remind(t) \/ TaskFails(t)
      PROVE  TypeInv'
  <2>1. CASE NotifyGet(t) \/ GetOrder(t) \/ CloseGet(t) \/ RemindGet(t)
    <3>1. Moved(t)
      BY <2>1, NotifyGetLands, GetOrderLands, CloseGetLands, RemindGetLands
    <3> QED
      BY <2>1, <3>1, ReadTyped DEF NotifyGet, GetOrder, CloseGet, RemindGet
  <2> QED
    BY <1>3, <2>1, Steps, NotifySendTyped, NotifySaveTyped, DecideOpenTyped, CloseEditTyped, EditCardsTyped,
       DecideLinkTyped, ShowSendTyped, ShowSaveTyped, ShowLinkTyped, ShowDeleteTyped, TalkSendTyped, TalkLinkTyped,
       DeleteMessagesTyped, RemindSendTyped, MarkTyped, RemindTyped, FailsTyped, PlaceTyped, FinishTyped,
       WithdrawTyped, DecideTyped, CloseTyped, ShowTyped, TalkTyped, PurgeTyped
<1> QED
  BY <1>1, <1>2, <1>3 DEF Next

\* The initial state is well typed.
LEMMA InitTyped == Init => TypeInv
<1> SUFFICES ASSUME Init PROVE TypeInv
  OBVIOUS
<1>1. NoCards \in [Admins -> Msgs \cup {NoMsg}] /\ 0 \in 0 .. RemindMax /\ 0 \in 0 .. MaxMsgs /\ 0 \in 0 .. MaxFaults
  BY Constants DEF NoCards
<1>2. OrderTypes
  BY <1>1 DEF Init, OrderTypes, Row
<1>3. MsgTypes
  BY DEF Init, MsgTypes, Buttons, Visible
<1>4. CountTypes /\ relay \subseteq Msgs
  BY <1>1 DEF Init, CountTypes
<1>5. \A t \in Tasks : task[t] = Free
  BY DEF Init
<1>6. TaskTypes
  BY <1>5, FreeTyped DEF Init, TaskTypes, Held, Showing
<1>7. Due
  BY <1>5, FreeTyped DEF Due
<1> QED
  BY <1>2, <1>3, <1>4, <1>6, <1>7 DEF TypeInv, TableTypes

\* The tables, the messages and what the tasks hold are what the code takes
\* them for (TypeInv); an id is only used for a message that there is room
\* for, and no two jobs remind at once.
THEOREM TypeInvCorrect == Spec => []TypeInv
<1>1. Init => TypeInv
  BY InitTyped
<1>2. TypeInv /\ [Next]_vars => TypeInv'
  BY NextTyped
<1> QED
  BY <1>1, <1>2, PTL DEF Spec

\* The type invariant the run checks follows from the one that is inductive.
LEMMA TypeOKHolds == TypeInv => TypeOK
<1> SUFFICES ASSUME TypeInv PROVE TypeOK
  OBVIOUS
<1>1. ASSUME NEW t \in Tasks PROVE TaskOK(task[t])
  <2>1. /\ task[t].pc \in Labels /\ task[t].list \in SUBSET Orders
        /\ task[t].admin \in Admins \cup {0} /\ task[t].base \in 0 .. MaxMsgs
        /\ task[t].sent \in [Admins -> Msgs \cup {NoMsg}] /\ (task[t].list = {} <=> task[t].pc = "idle")
    BY RecordTyped DEF TypeInv, CardTables, Shape
  <2>2. DOMAIN task[t].rows \subseteq Orders /\ \A o \in DOMAIN task[t].rows : task[t].rows[o] \in Row
    BY RowsKnown DEF TypeInv
  <2> QED
    BY <2>1, <2>2 DEF TaskOK, Labels
<1> QED
  BY <1>1 DEF TypeInv, TableTypes, OrderTypes, MsgTypes, CountTypes, TypeOK

\* The type invariant of the model.
THEOREM TypeCorrect == Spec => []TypeOK
BY TypeInvCorrect, TypeOKHolds, PTL

-----------------------------------------------------------------------------
(* Reminders *)

\* the steps of everybody but the job that reminds
LEMMA RemindAside ==
  ASSUME TypeInv, RemindInv, NEW t \in Tasks, Rest(t), task[t].kind # "remind", task'[t].kind # "remind", Typed(t), TypeInv',
         UNCHANGED heard, faults <= faults',
         \A o \in Orders : /\ order'[o].count = order[o].count
                           /\ order'[o].status \in {"none", "pending"} => order[o].status \in {"none", "pending"}
  PROVE  RemindInv'
<1>1. \A u \in Tasks : task'[u].pc \in Reminding => task'[u] = task[u] /\ task[u].kind = "remind" /\ u # t
  <2>1. task'[t].pc \notin Reminding
    <3>1. task'[t].pc \in Where(task'[t].kind) /\ task'[t].kind \in Kinds
      BY DEF Typed, Shape, TaskRecords
    <3> QED
      BY <3>1 DEF Where, Reminding, Kinds, Placing, Showing, Closing, Talking
  <2> QED
    BY KindOf, <2>1 DEF Rest, TypeInv
<1>2. \A u \in Tasks, o \in Orders : Counting(u, o) => Counting(u, o)'
  <2>1. \A u \in Tasks : task[u].pc = "r_mark" => u # t
    BY KindOf DEF TypeInv, Reminding
  <2> QED
    BY <2>1 DEF Rest, Counting, Current
<1>3. \A o \in Orders : heard[o] \in Nat /\ heard'[o] = heard[o] /\ order[o].count \in Nat
  <2>1. \A o \in Orders : order[o].count \in 0 .. RemindMax
    BY DEF TypeInv, TableTypes, OrderTypes, Row
  <2> QED
    BY <2>1, Constants DEF TypeInv, CountTypes
<1>4. faults \in Nat /\ faults' \in Nat /\ RemindMax \in Nat
  BY Constants DEF TypeInv, CountTypes
<1>5. \A u \in Tasks : task[u].pc \in Reminding => Current(u) \in Orders
  BY AtStep DEF Reminding
<1>6. \A u \in Tasks : task'[u].pc \in Reminding => At(u, task'[u].pc) /\ Current(u)' = Current(u)
  BY <1>1 DEF At, Current
<1> QED
  BY <1>1, <1>2, <1>3, <1>4, <1>5, <1>6 DEF RemindInv, At, Reminding

\* the numbers that are compared
LEMMA Numbers ==
  ASSUME TypeInv
  PROVE  /\ \A o \in Orders : heard[o] \in Nat /\ order[o].count \in Nat
         /\ faults \in Nat /\ RemindMax \in Nat
<1>1. \A o \in Orders : order[o].count \in 0 .. RemindMax
  BY DEF TypeInv, TableTypes, OrderTypes, Row
<1> QED
  BY <1>1, Constants DEF TypeInv, CountTypes

\* the job is the only one that reminds
LEMMA OneReminds ==
  ASSUME TypeInv, NEW t \in Tasks, task[t].kind = "remind", Rest(t)
  PROVE  \A u \in Tasks : u # t => task[u].pc \notin Reminding /\ task'[u].pc \notin Reminding
BY KindOf DEF TypeInv, Due, Rest

\* it goes on to the next order
LEMMA NextReminderAside ==
  ASSUME TypeInv, RemindInv, NEW t \in Tasks, task[t].kind = "remind", Rest(t), TypeInv', UNCHANGED heard,
         task'[t].pc \in {"idle", "r_get"},
         faults' \in Nat, faults <= faults',
         \A o \in Orders : order[o].count <= order'[o].count /\ order'[o].status = order[o].status,
         \A o \in Orders : task[t].pc = "r_mark" /\ o = Current(t) =>
             order[o].status # "pending" \/ order[o].count + 1 <= order'[o].count \/ faults + 1 <= faults'
  PROVE  RemindInv'
<1>1. \A u \in Tasks : task'[u].pc \notin {"r_send", "r_mark"}
  BY OneReminds DEF Reminding
<1>2. /\ \A o \in Orders : heard[o] \in Nat /\ heard'[o] = heard[o] /\ order[o].count \in Nat
      /\ faults \in Nat /\ RemindMax \in Nat
  BY Numbers
<1>3. \A o \in Orders : order'[o].count \in Nat
  <2>1. \A o \in Orders : order'[o].count \in 0 .. RemindMax
    BY DEF TypeInv, TableTypes, OrderTypes, Row
  <2> QED
    BY <2>1, Constants
<1>4. ASSUME NEW o \in Orders, order'[o].status \in {"none", "pending"}
      PROVE  heard'[o] <= order'[o].count + faults'
  <2>1. CASE task[t].pc = "r_mark" /\ o = Current(t)
    <3>1. heard[o] <= order[o].count + faults + 1
      BY <2>1 DEF RemindInv, At
    <3>2. order[o].status # "none"
      <4>1. o \in task[t].list
        BY <2>1, AtStep
      <4> QED
        BY <4>1 DEF TypeInv, Due
    <3> QED
      BY <1>2, <1>3, <1>4, <2>1, <3>1, <3>2
  <2>2. CASE ~(task[t].pc = "r_mark" /\ o = Current(t))
    <3>1. \A u \in Tasks : ~Counting(u, o)
      BY <2>2, OneReminds DEF Counting, Reminding
    <3>2. heard[o] <= order[o].count + faults
      BY <1>4, <3>1 DEF RemindInv
    <3> QED
      BY <1>2, <1>3, <3>2
  <2> QED
    BY <2>1, <2>2
<1>5. \A o \in Orders : heard'[o] <= RemindMax + faults'
  BY <1>2 DEF RemindInv
<1> QED
  BY <1>1, <1>4, <1>5 DEF RemindInv, At

\* A reminder that is counted, skipped or has failed keeps the counts in agreement with what was
\* heard.
LEMMA NextReminderKeeps ==
  ASSUME TypeInv, RemindInv, NEW t \in Tasks, Mark(t) \/ (RemindGet(t) /\ NextReminder(t)) \/ (TaskFails(t) /\ task[t].kind = "remind")
  PROVE  RemindInv'
<1>1. /\ TypeInv' /\ task[t].kind = "remind" /\ task[t].pc \in Reminding /\ task[t].pc # "idle" /\ NextReminder(t)
      /\ Moved(t) /\ UNCHANGED heard /\ lastMsg' = lastMsg
  <2>1. CASE Mark(t)
    BY <2>1, MarkTyped, MarkLands DEF Reminding, Mark
  <2>2. CASE RemindGet(t) /\ NextReminder(t)
    BY <2>2, ReadTyped, RemindGetLands DEF Reminding, RemindGet
  <2>3. CASE TaskFails(t) /\ task[t].kind = "remind"
    BY <2>3, FailsTyped, FailsLands DEF Reminding, TaskFails
  <2> QED
    BY <2>1, <2>2, <2>3
<1>2. Rest(t) /\ task'[t].pc \in {"idle", "r_get"}
  BY <1>1, NextReminderMoves, FreeTyped DEF Moved, Ends
<1>3. faults' \in Nat /\ faults <= faults' /\ faults \in Nat
  <2>1. UNCHANGED faults \/ Fault
    BY DEF Mark, RemindGet, TaskFails, Missed
  <2>2. faults \in Nat
    BY Numbers
  <2> QED
    BY <2>1, <2>2 DEF Fault
<1>4. Current(t) \in Orders /\ Current(t) \in task[t].list
  BY <1>1, AtStep
<1>5. \A o \in Orders : order[o].count \in Nat
  BY Numbers
<1>6. CASE UNCHANGED order
  <2>1. Mark(t) => order[Current(t)].status # "pending" \/ faults + 1 <= faults'
    <3>1. CASE Missed(order)
      BY <1>3, <3>1 DEF Missed, Fault
    <3>2. CASE /\ order' = (IF order[Current(t)].status = "pending"
                        THEN [order EXCEPT ![Current(t)].count = @ + 1] ELSE order)
               /\ order[Current(t)].status = "pending"
      <4>1. order[Current(t)].count < RemindMax /\ order' = [order EXCEPT ![Current(t)].count = @ + 1]
        BY <1>1, <1>4, <3>2 DEF TypeInv, Due
      <4>2. order'[Current(t)].count = order[Current(t)].count + 1
        BY <1>4, <4>1, CountMoves DEF TypeInv, TableTypes
      <4> QED
        BY <1>4, <1>5, <1>6, <4>2
    <3> QED
      BY <3>1, <3>2 DEF Mark
  <2>2. task[t].pc = "r_mark" => Mark(t)
    BY DEF RemindGet, TaskFails, At
  <2>3. \A o \in Orders : order[o].count <= order'[o].count /\ order'[o].status = order[o].status
    BY <1>5, <1>6
  <2> QED
    BY <1>1, <1>2, <1>3, <2>1, <2>2, <2>3, NextReminderAside
<1>7. CASE order' = [order EXCEPT ![Current(t)].count = @ + 1]
  <2>1. order[Current(t)].count < RemindMax
    BY <1>1, <1>4 DEF TypeInv, Due
  <2>2. Elsewhere(Current(t)) /\ order'[Current(t)].status = order[Current(t)].status
        /\ order'[Current(t)].count = order[Current(t)].count + 1
    BY <1>4, <1>7, <2>1, CountMoves DEF TypeInv, TableTypes
  <2>3. \A o \in Orders : order[o].count <= order'[o].count /\ order'[o].status = order[o].status
    BY <1>5, <2>2 DEF Elsewhere
  <2>4. \A o \in Orders : o = Current(t) => order[o].count + 1 <= order'[o].count
    BY <1>4, <1>5, <2>2
  <2> QED
    BY <1>1, <1>2, <1>3, <2>3, <2>4, NextReminderAside
<1> QED
  BY <1>6, <1>7 DEF Mark, RemindGet, TaskFails, Missed

\* The second read of an order keeps the counts in agreement with what was heard.
LEMMA RemindGetKeeps ==
  ASSUME TypeInv, RemindInv, NEW t \in Tasks, RemindGet(t)
  PROVE  RemindInv'
<1>1. Moved(t) /\ task[t].pc = "r_get" /\ task[t].kind = "remind" /\ UNCHANGED <<order, heard, faults>>
  BY RemindGetLands DEF RemindGet
<1>2. CASE order[Current(t)].status = "pending" /\ Goes(t, "r_send")
  <2>1. Rest(t) /\ task'[t].pc = "r_send" /\ Current(t)' = Current(t) /\ Current(t) \in Orders
    BY <1>1, <1>2, AtStep DEF Moved, Goes, SameHand, Current
  <2>2. \A u \in Tasks : u # t => task'[u].pc \notin Reminding /\ task[u].pc \notin Reminding
    BY <1>1, <2>1, OneReminds
  <2>3. \A u \in Tasks, o \in Orders : ~Counting(u, o)
    BY <1>1, <2>2 DEF Counting, Reminding
  <2>4. heard[Current(t)] <= order[Current(t)].count + faults
    BY <1>2, <2>1, <2>3 DEF RemindInv
  <2> QED
    BY <1>1, <2>1, <2>2, <2>3, <2>4 DEF RemindInv, At, Reminding
<1>3. CASE NextReminder(t)
  BY <1>3, NextReminderKeeps
<1> QED
  BY <1>2, <1>3, RemindGetLands

\* A reminder that is sent and not yet counted is one the invariant allows for.
LEMMA RemindSendKeeps ==
  ASSUME TypeInv, RemindInv, NEW t \in Tasks, RemindSend(t)
  PROVE  RemindInv'
<1>1. Moved(t) /\ task[t].pc = "r_send" /\ task[t].kind = "remind" /\ Goes(t, "r_mark") /\ UNCHANGED <<order, faults>>
  BY RemindSendLands DEF RemindSend
<1>2. PICK x \in Orders : x = Current(t) /\ x \in task[t].list
  BY <1>1, AtStep
<1>3. Rest(t) /\ task'[t].pc = "r_mark" /\ Current(t)' = x
  BY <1>1, <1>2 DEF Moved, Goes, SameHand, Current
<1>4. \A u \in Tasks : u # t => task'[u].pc \notin Reminding
  BY <1>1, <1>3, OneReminds
<1>5. order[x].count < RemindMax /\ heard[x] <= order[x].count + faults
  BY <1>1, <1>2 DEF TypeInv, Due, RemindInv, At
<1>6. /\ \A o \in Orders : heard[o] \in Nat /\ order[o].count \in Nat
      /\ faults \in Nat /\ RemindMax \in Nat
  BY Numbers
<1>7. (\A o \in Orders \ {x} : heard'[o] = heard[o]) /\ heard'[x] \in {heard[x], heard[x] + 1}
  BY <1>2 DEF RemindSend, TypeInv, CountTypes
<1>8. \A o \in Orders : heard'[o] <= RemindMax + faults
  BY <1>5, <1>6, <1>7 DEF RemindInv
<1>9. ASSUME NEW o \in Orders, order[o].status \in {"none", "pending"}, \A u \in Tasks : ~Counting(u, o)'
      PROVE  heard'[o] <= order[o].count + faults
  <2>1. o # x
    BY <1>3, <1>9 DEF Counting
  <2>2. \A u \in Tasks : ~Counting(u, o)
    BY <1>1, OneReminds, <1>3 DEF Counting, Reminding
  <2> QED
    BY <1>7, <1>9, <2>1, <2>2 DEF RemindInv
<1>10. heard'[x] <= order[x].count + faults + 1
  BY <1>5, <1>6, <1>7
<1> QED
  BY <1>1, <1>3, <1>4, <1>8, <1>9, <1>10 DEF RemindInv, At, Reminding

\* The start of the reminder job keeps the counts in agreement with what was heard.
LEMMA RemindKeeps ==
  ASSUME TypeInv, RemindInv, NEW t \in Tasks, Remind(t)
  PROVE  RemindInv'
<1>1. Rest(t) /\ task'[t].pc = "r_get" /\ task[t].pc = "idle" /\ UNCHANGED <<order, heard, faults>>
  BY RemindLands, FreeTyped DEF Remind
<1>2. \A u \in Tasks : task[u].pc \notin Reminding
  BY KindOf DEF Remind, TypeInv
<1>3. \A u \in Tasks : task'[u].pc \notin {"r_send", "r_mark"}
  BY <1>1, <1>2 DEF Rest, Reminding
<1>4. \A u \in Tasks, o \in Orders : ~Counting(u, o)
  BY <1>2 DEF Counting, Reminding
<1> QED
  BY <1>1, <1>3, <1>4 DEF RemindInv, At

\* A crash between the send of a reminder and its count is one fault more, which the invariant
\* allows for.
LEMMA CrashKeepsReminders ==
  ASSUME TypeInv, RemindInv, Crash
  PROVE  RemindInv'
<1>1. UNCHANGED <<order, heard>> /\ faults' = faults + 1 /\ \A t \in Tasks : task'[t].pc = "idle"
  BY FreeTyped DEF Crash, Fault
<1>2. /\ \A o \in Orders : heard[o] \in Nat /\ order[o].count \in Nat
      /\ faults \in Nat /\ RemindMax \in Nat
  BY Numbers
<1>3. ASSUME NEW o \in Orders, order[o].status \in {"none", "pending"}
      PROVE  heard[o] <= order[o].count + faults + 1
  <2>1. CASE \E t \in Tasks : Counting(t, o)
    BY <2>1 DEF RemindInv, Counting, At
  <2>2. CASE \A t \in Tasks : ~Counting(t, o)
    BY <1>2, <1>3, <2>2 DEF RemindInv
  <2> QED
    BY <2>1, <2>2
<1> QED
  BY <1>1, <1>2, <1>3 DEF RemindInv, At

\* a step of somebody else
LEMMA OtherKeepsReminders ==
  ASSUME TypeInv, RemindInv, NEW t \in Tasks, TypeInv', Moved(t), task[t].kind # "remind",
         UNCHANGED heard, faults <= faults',
         \A o \in Orders : /\ order'[o].count = order[o].count
                           /\ order'[o].status \in {"none", "pending"} => order[o].status \in {"none", "pending"}
  PROVE  RemindInv'
BY RemindAside DEF Moved, NotMore

\* an order that is not decided was not decided before
Undecided == \A o \in Orders : /\ order'[o].count = order[o].count
                               /\ order'[o].status \in {"none", "pending"} => order[o].status \in {"none", "pending"}

\* No handler but the reminder job counts a reminder.
LEMMA UndecidedBefore ==
  ASSUME TypeInv, NEW t \in Tasks
  PROVE  /\ UNCHANGED order => Undecided
         /\ NotifySave(t) \/ DecideOpen(t) \/ ShowSave(t) => Undecided
         /\ \A o \in Orders : Place(t, o) \/ Finish(t, o) \/ Withdraw(t, o) => Undecided
         /\ \A o \in Orders, verdict \in {"accepted", "rejected"} : Decide(t, o, verdict) => Undecided
         /\ \A m \in Msgs : Close(t, m) => Undecided
         /\ \A S \in SUBSET Orders : Purge(t, S) => Undecided
<1>0. OrderTypes
  BY DEF TypeInv, TableTypes
<1>1. UNCHANGED order => Undecided
  BY DEF Undecided
<1>2. NotifySave(t) => Undecided
  <2> SUFFICES ASSUME NotifySave(t) PROVE Undecided
    OBVIOUS
  <2>1. Current(t) \in Orders /\ task[t].sent \in CardTables
    BY AtStep, RecordTyped DEF NotifySave, At, TypeInv
  <2> QED
    BY <1>0, <2>1, CardsMove DEF NotifySave, Undecided, Elsewhere
<1>3. DecideOpen(t) => Undecided
  <2> SUFFICES ASSUME DecideOpen(t) PROVE Undecided
    OBVIOUS
  <2>1. Current(t) \in Orders
    BY AtStep DEF DecideOpen, At
  <2>2. CASE order' = [order EXCEPT ![Current(t)].chat = TRUE]
    BY <1>0, <2>1, <2>2, ChatMoves DEF Undecided, Elsewhere
  <2> QED
    BY <1>1, <2>2 DEF DecideOpen
<1>4. ShowSave(t) => Undecided
  <2> SUFFICES ASSUME ShowSave(t) PROVE Undecided
    OBVIOUS
  <2>1. Current(t) \in Orders /\ task[t].pc \in Showing
    BY AtStep DEF ShowSave, At, Showing
  <2>2. SetAdminMsgs(Current(t), [RowOf(t).cards EXCEPT ![task[t].admin] = NewCard(t)])
    BY DEF ShowSave
  <2> QED
    BY <1>0, <2>1, <2>2, SavedTyped, CardsMove DEF Undecided, Elsewhere
<1>5. ASSUME NEW o \in Orders, Place(t, o)
      PROVE  Undecided
  <2>1. order' = [order EXCEPT ![o].status = "pending"] /\ order[o].status = "none"
    BY <1>5 DEF Place
  <2> QED
    BY <1>0, <2>1, StatusMoves DEF Undecided, Elsewhere
<1>6. ASSUME NEW o \in Orders, Finish(t, o) \/ Withdraw(t, o)
      PROVE  Undecided
  BY <1>0, <1>6, FinishMoves, WithdrawMoves DEF Finish, Withdraw, Undecided, Elsewhere
<1>7. ASSUME NEW o \in Orders, NEW verdict \in {"accepted", "rejected"}, Decide(t, o, verdict)
      PROVE  Undecided
  <2>1. order' = [order EXCEPT ![o].status = verdict]
    BY <1>7 DEF Decide
  <2> QED
    BY <1>0, <2>1, StatusMoves DEF Undecided, Elsewhere
<1>8. ASSUME NEW m \in Msgs, Close(t, m)
      PROVE  Undecided
  <2>1. msg[m].of \in Orders /\ order' = [order EXCEPT ![msg[m].of].chat = FALSE]
    BY <1>8, CloseLeads DEF Close
  <2> QED
    BY <1>0, <2>1, ChatMoves DEF Undecided, Elsewhere
<1>9. ASSUME NEW S \in SUBSET Orders, Purge(t, S)
      PROVE  Undecided
  <2>1. order' = [o \in Orders |-> IF o \in S THEN [order[o] EXCEPT !.status = "deleted", !.chat = FALSE, !.cards = NoCards] ELSE order[o]]
    BY <1>9 DEF Purge
  <2> QED
    BY <1>0, <2>1, PurgeMoves DEF Undecided
<1> QED
  BY <1>1, <1>2, <1>3, <1>4, <1>5, <1>6, <1>7, <1>8, <1>9

\* the steps that neither remind nor fail
LEMMA OthersMove ==
  ASSUME TypeInv, NEW t \in Tasks, CardStep(t) \/ Tap(t)
  PROVE  /\ Moved(t) /\ task[t].kind # "remind" /\ UNCHANGED heard /\ Undecided
         /\ faults <= faults' /\ faults' \in 0 .. MaxFaults
<1>1. UNCHANGED faults => faults <= faults' /\ faults' \in 0 .. MaxFaults
  BY Constants DEF TypeInv, CountTypes
<1>2. Missed(msg) => faults <= faults' /\ faults' \in 0 .. MaxFaults
  BY FaultCounts DEF Missed
<1>3. CASE NotifyGet(t) \/ NotifySave(t) \/ DecideOpen(t) \/ GetOrder(t) \/ CloseGet(t)
  BY <1>1, <1>3, UndecidedBefore, NotifyGetLands, NotifySaveLands, DecideOpenLands, GetOrderLands, CloseGetLands
     DEF NotifyGet, NotifySave, DecideOpen, GetOrder, CloseGet
<1>4. CASE ShowSave(t) \/ ShowLink(t)
  BY <1>1, <1>4, UndecidedBefore, ShowSaveLands, ShowLinkLands DEF ShowSave, ShowLink
<1>5. CASE NotifySend(t) \/ EditCards(t) \/ DecideLink(t)
  <2>1. (\E S : Reached(S, Admins)) /\ UNCHANGED <<order, heard>>
    BY <1>5 DEF NotifySend, EditCards, DecideLink
  <2>2. faults <= faults' /\ faults' \in 0 .. MaxFaults
    BY <2>1, ReachedCounts
  <2> QED
    BY <1>5, <2>1, <2>2, UndecidedBefore, NotifySendLands, EditCardsLands, DecideLinkLands
<1>6. CASE TalkSend(t) \/ TalkLink(t) \/ DeleteMessages(t)
  <2>1. (\E S, all : Reached(S, all)) /\ UNCHANGED <<order, heard>>
    BY <1>6 DEF TalkSend, TalkLink, DeleteMessages
  <2>2. faults <= faults' /\ faults' \in 0 .. MaxFaults
    BY <2>1, ReachedCounts
  <2> QED
    BY <1>6, <2>1, <2>2, UndecidedBefore, TalkSendLands, TalkLinkLands, DeleteMessagesLands
<1>7. CASE CloseEdit(t) \/ ShowSend(t) \/ ShowDelete(t)
  <2>1. faults <= faults' /\ faults' \in 0 .. MaxFaults /\ UNCHANGED <<order, heard>>
    BY <1>1, <1>2, <1>7 DEF CloseEdit, ShowSend, ShowDelete
  <2> QED
    BY <1>7, <2>1, UndecidedBefore, CloseEditLands, ShowSendLands, ShowDeleteLands
<1>8. ASSUME NEW o \in Orders, Place(t, o) \/ Finish(t, o) \/ Withdraw(t, o)
             \/ \E verdict \in {"accepted", "rejected"} : Decide(t, o, verdict)
      PROVE  Moved(t) /\ task[t] = Free /\ UNCHANGED <<heard, faults>> /\ Undecided
  <2>1. CASE Place(t, o)
    BY <2>1, PlaceLands, UndecidedBefore DEF Place
  <2>2. CASE Finish(t, o)
    BY <2>2, TapLands, UndecidedBefore DEF Finish
  <2>3. CASE Withdraw(t, o)
    BY <2>3, TapLands, UndecidedBefore DEF Withdraw
  <2>4. ASSUME NEW verdict \in {"accepted", "rejected"}, Decide(t, o, verdict)
        PROVE  Moved(t) /\ task[t] = Free /\ UNCHANGED <<heard, faults>> /\ Undecided
    BY <2>4, TapLands, UndecidedBefore DEF Decide
  <2> QED
    BY <1>8, <2>1, <2>2, <2>3, <2>4
<1>9. ASSUME NEW m \in Msgs, Close(t, m)
      PROVE  Moved(t) /\ task[t] = Free /\ UNCHANGED <<heard, faults>> /\ Undecided
  BY <1>9, CloseLeads, UndecidedBefore DEF Close
<1>10. ASSUME NEW a \in Admins, NEW S \in SUBSET Orders, Show(t, a, S)
       PROVE  Moved(t) /\ task[t] = Free /\ UNCHANGED <<heard, faults>> /\ Undecided
  BY <1>10, ShowLands, UndecidedBefore DEF Show
<1>11. ASSUME Talk(t)
       PROVE  Moved(t) /\ task[t] = Free /\ UNCHANGED <<heard, faults>> /\ Undecided
  BY <1>11, TalkLands, UndecidedBefore DEF Talk
<1>12. ASSUME NEW S \in SUBSET Orders, Purge(t, S)
       PROVE  Moved(t) /\ task[t] = Free /\ UNCHANGED <<heard, faults>> /\ Undecided
  BY <1>12, PurgeLands, UndecidedBefore DEF Purge
<1>13. CASE Tap(t)
  <2>1. Moved(t) /\ task[t] = Free /\ UNCHANGED <<heard, faults>> /\ Undecided
    <3>1. \/ \E o \in Orders : Place(t, o) \/ Finish(t, o) \/ Withdraw(t, o)
                               \/ \E verdict \in {"accepted", "rejected"} : Decide(t, o, verdict)
          \/ \E m \in Msgs : Close(t, m)
          \/ \E a \in Admins, S \in SUBSET Orders : Show(t, a, S)
          \/ Talk(t)
          \/ \E S \in SUBSET Orders : Purge(t, S)
      BY <1>13 DEF Tap, ShowPending, ShowInProgress
    <3> QED
      BY <3>1, <1>8, <1>9, <1>10, <1>11, <1>12
  <2> QED
    BY <1>1, <2>1, FreeTyped
<1> QED
  BY <1>3, <1>4, <1>5, <1>6, <1>7, <1>13 DEF CardStep

\* Every step keeps the counts in agreement with what was heard.
LEMMA RemindKept == TypeInv /\ RemindInv /\ [Next]_vars => RemindInv'
<1> SUFFICES ASSUME TypeInv, RemindInv, [Next]_vars PROVE RemindInv'
  OBVIOUS
<1>0. TypeInv'
  BY NextTyped
<1>1. CASE UNCHANGED vars
  <2>1. UNCHANGED <<order, heard, faults, task>>
    BY <1>1 DEF vars
  <2> QED
    BY <2>1 DEF RemindInv, Counting, At, Current
<1>2. CASE Crash
  BY <1>2, CrashKeepsReminders
<1>3. ASSUME NEW t \in Tasks, CardStep(t) \/ Tap(t)
      PROVE  RemindInv'
  BY <1>0, <1>3, OthersMove, OtherKeepsReminders DEF Undecided
<1>4. ASSUME NEW t \in Tasks, RemindStep(t) \/ Remind(t)
      PROVE  RemindInv'
  BY <1>4, RemindGetKeeps, RemindSendKeeps, NextReminderKeeps, RemindKeeps DEF RemindStep
<1>5. ASSUME NEW t \in Tasks, TaskFails(t)
      PROVE  RemindInv'
  <2>1. CASE task[t].kind = "remind"
    BY <1>5, <2>1, NextReminderKeeps
  <2>2. CASE task[t].kind # "remind"
    <3>1. Moved(t) /\ UNCHANGED <<heard, order>>
      BY <1>5, FailsLands DEF TaskFails
    <3>2. faults <= faults' /\ Undecided
      BY <1>5, FaultCounts DEF TaskFails, Undecided
    <3> QED
      BY <1>0, <2>2, <3>1, <3>2, OtherKeepsReminders DEF Undecided
  <2> QED
    BY <2>1, <2>2
<1> QED
  BY <1>1, <1>2, <1>3, <1>4, <1>5 DEF Next

\* Nobody was reminded of anything when the bot starts.
LEMMA InitReminders == Init => RemindInv
<1> SUFFICES ASSUME Init PROVE RemindInv
  OBVIOUS
<1>1. \A t \in Tasks : task[t].pc = "idle"
  BY FreeTyped DEF Init
<1>2. \A o \in Orders : heard[o] = 0 /\ order[o].count = 0
  BY DEF Init
<1> QED
  BY <1>1, <1>2, Constants DEF RemindInv, At, Init

\* README.md:64: whoever decides, withdraws or purges an order meanwhile,
\* nobody is reminded of it more often than ORDER_REMIND_MAX times, but for
\* one reminder more with each fault between the sending and the counting.
THEOREM RemindersCorrect == Spec => []RemindersBounded
<1>1. Init => TypeInv /\ RemindInv
  BY InitTyped, InitReminders
<1>2. TypeInv /\ RemindInv /\ [Next]_vars => (TypeInv /\ RemindInv)'
  BY NextTyped, RemindKept
<1>3. RemindInv => RemindersBounded
  BY DEF RemindInv, RemindersBounded
<1> QED
  BY <1>1, <1>2, <1>3, PTL DEF Spec

-----------------------------------------------------------------------------
(* Whose a message is *)

\* a message is given to an order once, by the task that has the id
Given(t) == \A m \in Msgs : Of(m)' = Of(m) \/ (m \in Reserved(t) /\ m \notin Reserved(t)')

\* the ids of a task are those it had or the next ones
Taken(t) == \A m \in Reserved(t)' : m \in Reserved(t) \/ lastMsg < m

\* The ids a task has reserved are ids of messages, and none is above the last one.
LEMMA ReservedTyped ==
  ASSUME TypeInv, NEW t \in Tasks
  PROVE  Reserved(t) \subseteq Msgs /\ \A m \in Reserved(t) : m <= lastMsg
<1>1. /\ task[t].base \in Nat /\ lastMsg \in Nat /\ NumAdmins \in Nat /\ Held(t)
      /\ task[t].pc \in Showing => Cardinality(task[t].list) \in Nat
  <2>1. task[t].base \in Nat /\ lastMsg \in Nat /\ NumAdmins \in Nat /\ Held(t)
    BY RecordTyped, Constants DEF TypeInv, CountTypes
  <2>2. task[t].pc \in Showing => task[t].list \in SUBSET Orders /\ task[t].list # {}
    BY RecordTyped DEF TypeInv, Shape, Showing
  <2>3. task[t].pc \in Showing => Cardinality(task[t].list) \in Nat
    BY <2>2, ListCounted
  <2> QED
    BY <2>1, <2>3
<1>2. \A m \in Msgs : m \in Nat
  BY Constants
<1> QED
  BY <1>1, <1>2 DEF Reserved, Held, Showing

\* A step of one task that uses only ids it had reserved, and reserves only new ones, keeps the
\* reserved ids apart and unused.
LEMMA FreshKept ==
  ASSUME TypeInv, FreshInv, NEW t \in Tasks, Rest(t), Given(t), Taken(t), lastMsg <= lastMsg', TypeInv'
  PROVE  FreshInv'
<1>1. lastMsg \in Nat /\ lastMsg' \in Nat /\ \A m \in Msgs : m \in Nat
  BY Constants DEF TypeInv, CountTypes
<1>2. \A u \in Tasks : u # t => Reserved(u)' = Reserved(u)
  BY DEF Rest, Reserved
<1>3. \A u \in Tasks : \A m \in Reserved(u) : m \in Msgs /\ m <= lastMsg
  BY ReservedTyped
<1>4. \A m \in Reserved(t)' : m \in Msgs /\ m <= lastMsg'
  <2>1. /\ task'[t].base \in 0 .. MaxMsgs /\ Held(t)'
        /\ task'[t].pc \in Showing => task'[t].list \in SUBSET Orders /\ task'[t].list # {}
    BY DEF TypeInv, TaskTypes, TaskRecords, Shape, Showing
  <2>2. task'[t].base \in Nat /\ NumAdmins \in Nat
    BY <2>1, Constants
  <2>3. task'[t].pc \in Showing => Cardinality(task'[t].list) \in Nat
    BY <2>1, ListCounted
  <2> QED
    BY <1>1, <2>1, <2>2, <2>3 DEF Reserved, Held, Showing
<1>5. \A m \in Msgs : m > lastMsg' => m \notin Reserved(t) /\ Of(m) = NoOrder
  BY <1>1, <1>3 DEF FreshInv
<1>6. \A m \in Msgs : m > lastMsg' => Of(m)' = NoOrder
  BY <1>5 DEF Given
<1>7. ASSUME NEW u \in Tasks, NEW m \in Reserved(u)'
      PROVE  Of(m)' = NoOrder
  <2>1. CASE u = t
    <3>1. m \in Msgs /\ Of(m)' = Of(m)
      BY <1>4, <1>7, <2>1 DEF Given
    <3>2. m \in Reserved(t) \/ m > lastMsg
      BY <1>1, <1>7, <2>1, <3>1 DEF Taken
    <3> QED
      BY <3>1, <3>2 DEF FreshInv
  <2>2. CASE u # t
    <3>1. m \in Reserved(u) /\ m \in Msgs
      BY <1>2, <1>3, <1>7, <2>2
    <3>2. m \notin Reserved(t)
      BY <2>2, <3>1 DEF FreshInv
    <3> QED
      BY <3>1, <3>2 DEF FreshInv, Given
  <2> QED
    BY <2>1, <2>2
<1>8. ASSUME NEW u \in Tasks, u # t
      PROVE  Reserved(u)' \cap Reserved(t)' = {}
  <2>1. \A m \in Reserved(u)' : m \in Reserved(u) /\ m <= lastMsg /\ m \notin Reserved(t) /\ m \in Nat
    BY <1>1, <1>2, <1>3, <1>8 DEF FreshInv
  <2> QED
    BY <1>1, <2>1 DEF Taken
<1>9. \A u, v \in Tasks : u # v => Reserved(u)' \cap Reserved(v)' = {}
  BY <1>2, <1>8 DEF FreshInv
<1> QED
  BY <1>6, <1>7, <1>9 DEF FreshInv

\* once given, it stays
LEMMA GivenStays ==
  ASSUME TypeInv, FreshInv, NEW t \in Tasks, Given(t)
  PROVE  \A m \in Msgs : Of(m) # NoOrder => Of(m)' = Of(m)
BY DEF Given, FreshInv

\* A step of one task keeps the references right when what it writes and what it holds afterwards
\* are right: the other tasks hold what they held.
LEMMA RefsKept ==
  ASSUME TypeInv, RefInv, NEW t \in Tasks, Rest(t), Given(t), Taken(t), lastMsg <= lastMsg', TypeInv',
         OrderRefs', RowRefs(t)', HandRefs(t)'
  PROVE  RefInv'
<1>1. FreshInv'
  BY FreshKept DEF RefInv
<1>2. \A m \in Msgs : Of(m) # NoOrder => Of(m)' = Of(m)
  BY GivenStays DEF RefInv
<1>3. ASSUME NEW u \in Tasks, u # t
      PROVE  RowRefs(u)' /\ HandRefs(u)'
  <2>1. task'[u] = task[u] /\ RowRefs(u) /\ HandRefs(u)
    BY <1>3 DEF Rest, RefInv
  <2>2. RowRefs(u)'
    <3>1. ASSUME NEW o \in DOMAIN task[u].rows, NEW a \in Admins, task[u].rows[o].cards[a] # NoMsg
          PROVE  msg'[task[u].rows[o].cards[a]].of = o
      <4>1. o \in Orders /\ task[u].rows[o].cards \in CardTables
        BY RowsKnown, RowTyped DEF TypeInv
      <4>2. PICK m \in Msgs : m = task[u].rows[o].cards[a]
        BY <3>1, <4>1 DEF CardTables
      <4>3. Of(m) = o
        BY <2>1, <3>1, <4>2 DEF RowRefs
      <4>4. Of(m)' = o
        BY <1>2, <4>1, <4>3, Constants
      <4> QED
        BY <4>2, <4>4 DEF Of
    <3> QED
      BY <2>1, <3>1 DEF RowRefs, Of
  <2>3. HandRefs(u)'
    <3>0. /\ task[u].list \subseteq Orders /\ NoOrder \notin Orders /\ task[u].refs \subseteq Msgs
          /\ task[u].sent \in CardTables
          /\ task[u].pc \in Closing => task[u].base \in Msgs
      BY RecordTyped, Constants DEF TypeInv, Shape
    <3>1. ASSUME At(u, "n_save"), NEW a \in Admins, task[u].sent[a] # NoMsg
          PROVE  msg'[task[u].sent[a]].of \in task[u].list
      <4>1. PICK m \in Msgs : m = task[u].sent[a]
        BY <3>0, <3>1 DEF CardTables
      <4>2. Of(m) \in task[u].list
        BY <2>1, <3>1, <4>1 DEF HandRefs
      <4> QED
        BY <1>2, <3>0, <4>1, <4>2 DEF Of
    <3>2. task[u].pc \in {"t_link", "c_delete"} => \A m \in task[u].refs : Of(m)' \in task[u].list
      BY <1>2, <2>1, <3>0 DEF HandRefs
    <3>3. task[u].pc \in Closing => Of(task[u].base)' \in task[u].list
      BY <1>2, <2>1, <3>0 DEF HandRefs, Of
    <3>4. task[u].pc \in {"s_save", "s_link", "s_delete"} => Of(NewCard(u))' = Current(u)'
      <4> SUFFICES ASSUME task[u].pc \in {"s_save", "s_link", "s_delete"}
                   PROVE  msg'[NewCard(u)].of = Current(u) /\ NewCard(u)' = NewCard(u) /\ Current(u)' = Current(u)
        BY DEF Of
      <4>1. PICK m \in Msgs : m = NewCard(u)
        BY NewCardTyped DEF Showing
      <4>2. Of(m) = Current(u) /\ Current(u) \in Orders
        BY <2>1, <4>1, AtStep DEF HandRefs
      <4>3. msg'[m].of = Current(u)
        BY <1>2, <3>0, <4>2 DEF Of
      <4> QED
        BY <2>1, <4>1, <4>3 DEF NewCard, Current
    <3> QED
      BY <2>1, <3>1, <3>2, <3>3, <3>4 DEF HandRefs, At, Of
  <2> QED
    BY <2>2, <2>3
<1> QED
  BY <1>1, <1>3 DEF RefInv

\* where a task is, with nothing in its hands, or no messages to send
Empty(t) == task'[t].pc \notin {"n_save", "t_link", "c_delete", "s_save", "s_link", "s_delete"} \cup Closing

Silent(t) == task'[t].pc \notin {"n_get", "n_send", "t_send"} \cup Showing

\* A task that holds no ids refers to nothing.
LEMMA EmptyRefs ==
  ASSUME NEW t \in Tasks, Empty(t)
  PROVE  HandRefs(t)'
BY DEF Empty, HandRefs, At

\* A task that sends nothing more has no id reserved.
LEMMA SilentTakes ==
  ASSUME NEW t \in Tasks, Silent(t)
  PROVE  Taken(t) /\ Reserved(t)' = {}
BY DEF Silent, Taken, Reserved, Showing

\* A step that leaves every message with its order uses no reserved id.
LEMMA SameGiven ==
  ASSUME NEW t \in Tasks, \A m \in Msgs : msg'[m].of = msg[m].of
  PROVE  Given(t)
BY DEF Given, Of

\* the task knows no rows, those it knew, or those that are stored
LEMMA RowRefsKept ==
  ASSUME TypeInv, RefInv, NEW t \in Tasks, Given(t),
         \/ task'[t].rows = <<>>
         \/ SameRows(t)
         \/ DOMAIN task'[t].rows \subseteq Orders /\ \A o \in DOMAIN task'[t].rows : task'[t].rows[o] = order[o]
  PROVE  RowRefs(t)'
<1>0. \A m \in Msgs : Of(m) # NoOrder => Of(m)' = Of(m)
  BY GivenStays DEF RefInv
<1>1. CASE task'[t].rows = <<>>
  <2>1. DOMAIN task'[t].rows = {}
    BY <1>1
  <2> QED
    BY <2>1 DEF RowRefs
<1>2. CASE SameRows(t)
  <2>1. ASSUME NEW o \in DOMAIN task[t].rows, NEW a \in Admins, task[t].rows[o].cards[a] # NoMsg
        PROVE  msg'[task[t].rows[o].cards[a]].of = o
    <3>1. o \in Orders /\ task[t].rows[o].cards \in CardTables
      BY RowsKnown, RowTyped DEF TypeInv
    <3>2. PICK m \in Msgs : m = task[t].rows[o].cards[a]
      BY <2>1, <3>1 DEF CardTables
    <3>3. Of(m) = o
      BY <2>1, <3>2 DEF RefInv, RowRefs
    <3>4. msg'[m].of = o
      BY <1>0, <3>1, <3>3, Constants DEF Of
    <3> QED
      BY <3>2, <3>4
  <2> QED
    BY <1>2, <2>1 DEF RowRefs, Of, SameRows
<1>3. CASE DOMAIN task'[t].rows \subseteq Orders /\ \A o \in DOMAIN task'[t].rows : task'[t].rows[o] = order[o]
  <2>1. ASSUME NEW o \in Orders, NEW a \in Admins, order[o].cards[a] # NoMsg
        PROVE  msg'[order[o].cards[a]].of = o
    <3>1. order[o] \in Row
      BY DEF TypeInv, TableTypes, OrderTypes
    <3>2. order[o].cards \in CardTables
      BY <3>1, RowTyped
    <3>3. PICK m \in Msgs : m = order[o].cards[a]
      BY <2>1, <3>2 DEF CardTables
    <3>4. Of(m) = o
      BY <2>1, <3>3 DEF RefInv, OrderRefs
    <3>5. msg'[m].of = o
      BY <1>0, <3>4, Constants DEF Of
    <3> QED
      BY <3>3, <3>5
  <2> QED
    BY <1>3, <2>1 DEF RowRefs, Of
<1> QED
  BY <1>1, <1>2, <1>3

\* the orders know the cards they knew, or none
LEMMA OrderRefsKept ==
  ASSUME TypeInv, RefInv, NEW t \in Tasks, Given(t),
         \A o \in Orders, a \in Admins : order'[o].cards[a] = order[o].cards[a] \/ order'[o].cards[a] = NoMsg
  PROVE  OrderRefs'
<1>0. \A m \in Msgs : Of(m) # NoOrder => Of(m)' = Of(m)
  BY GivenStays DEF RefInv
<1>1. ASSUME NEW o \in Orders, NEW a \in Admins, order[o].cards[a] # NoMsg
      PROVE  msg'[order[o].cards[a]].of = o
  <2>1. order[o] \in Row
    BY DEF TypeInv, TableTypes, OrderTypes
  <2>2. order[o].cards \in CardTables
    BY <2>1, RowTyped
  <2>3. PICK m \in Msgs : m = order[o].cards[a]
    BY <1>1, <2>2 DEF CardTables
  <2>4. Of(m) = o
    BY <1>1, <2>3 DEF RefInv, OrderRefs
  <2>5. msg'[m].of = o
    BY <1>0, <2>4, Constants DEF Of
  <2> QED
    BY <2>3, <2>5
<1> QED
  BY <1>1 DEF OrderRefs, Of

\* a step whose task has nothing in its hands then
LEMMA QuietRefs ==
  ASSUME TypeInv, RefInv, NEW t \in Tasks, Moved(t), TypeInv', Taken(t), Empty(t),
         \A m \in Msgs : msg'[m].of = msg[m].of,
         \A o \in Orders, a \in Admins : order'[o].cards[a] = order[o].cards[a] \/ order'[o].cards[a] = NoMsg,
         \/ task'[t].rows = <<>>
         \/ SameRows(t)
         \/ DOMAIN task'[t].rows \subseteq Orders /\ \A o \in DOMAIN task'[t].rows : task'[t].rows[o] = order[o]
  PROVE  RefInv'
<1>1. Given(t) /\ Rest(t) /\ lastMsg <= lastMsg'
  BY SameGiven DEF Moved
<1>2. HandRefs(t)'
  BY EmptyRefs
<1>3. OrderRefs'
  BY <1>1, OrderRefsKept
<1>4. RowRefs(t)'
  BY <1>1, RowRefsKept
<1> QED
  BY <1>1, <1>2, <1>3, <1>4, RefsKept

\* A handler that ends, having written no card ids or cleared them, keeps the references right.
LEMMA EndsRefs ==
  ASSUME TypeInv, RefInv, NEW t \in Tasks, Moved(t), Ends(t), TypeInv',
         \A m \in Msgs : msg'[m].of = msg[m].of,
         \A o \in Orders, a \in Admins : order'[o].cards[a] = order[o].cards[a] \/ order'[o].cards[a] = NoMsg
  PROVE  RefInv'
<1>1. task'[t].rows = <<>> /\ task'[t].pc = "idle"
  BY DEF Ends, Free
<1>2. Empty(t) /\ Taken(t)
  BY <1>1, SilentTakes DEF Empty, Silent, Showing, Closing
<1> QED
  BY <1>1, <1>2, QuietRefs

CardsKept == \A o \in Orders, a \in Admins : order'[o].cards[a] = order[o].cards[a] \/ order'[o].cards[a] = NoMsg

\* only who sends cards writes their ids
LEMMA CardsKeptBy ==
  ASSUME TypeInv, NEW t \in Tasks
  PROVE  /\ UNCHANGED order => CardsKept
         /\ DecideOpen(t) \/ Mark(t) => CardsKept
         /\ \A o \in Orders : Place(t, o) \/ Finish(t, o) \/ Withdraw(t, o) => CardsKept
         /\ \A o \in Orders, verdict \in {"accepted", "rejected"} : Decide(t, o, verdict) => CardsKept
         /\ \A m \in Msgs : Close(t, m) => CardsKept
         /\ \A S \in SUBSET Orders : Purge(t, S) => CardsKept
<1>0. OrderTypes
  BY DEF TypeInv, TableTypes
<1>1. UNCHANGED order => CardsKept
  BY DEF CardsKept
<1>3. DecideOpen(t) => CardsKept
  <2> SUFFICES ASSUME DecideOpen(t) PROVE CardsKept
    OBVIOUS
  <2>1. Current(t) \in Orders
    BY AtStep DEF DecideOpen, At
  <2>2. CASE order' = [order EXCEPT ![Current(t)].chat = TRUE]
    BY <1>0, <2>1, <2>2, ChatMoves DEF CardsKept, Elsewhere
  <2> QED
    BY <1>1, <2>2 DEF DecideOpen
<1>4. Mark(t) => CardsKept
  <2> SUFFICES ASSUME Mark(t) PROVE CardsKept
    OBVIOUS
  <2>1. Current(t) \in Orders /\ Current(t) \in task[t].list /\ task[t].kind = "remind"
    BY AtStep, MarkLands DEF Mark, At
  <2>2. order[Current(t)].count < RemindMax
    BY <2>1 DEF TypeInv, Due
  <2>3. CASE order' = [order EXCEPT ![Current(t)].count = @ + 1]
    BY <1>0, <2>1, <2>2, <2>3, CountMoves DEF CardsKept, Elsewhere
  <2> QED
    BY <1>1, <2>3 DEF Mark, Missed
<1>5. ASSUME NEW o \in Orders, Place(t, o)
      PROVE  CardsKept
  <2>1. order' = [order EXCEPT ![o].status = "pending"]
    BY <1>5 DEF Place
  <2> QED
    BY <1>0, <2>1, StatusMoves DEF CardsKept, Elsewhere
<1>6. ASSUME NEW o \in Orders, Finish(t, o) \/ Withdraw(t, o)
      PROVE  CardsKept
  BY <1>0, <1>6, FinishMoves, WithdrawMoves DEF Finish, Withdraw, CardsKept, Elsewhere
<1>7. ASSUME NEW o \in Orders, NEW verdict \in {"accepted", "rejected"}, Decide(t, o, verdict)
      PROVE  CardsKept
  <2>1. order' = [order EXCEPT ![o].status = verdict]
    BY <1>7 DEF Decide
  <2> QED
    BY <1>0, <2>1, StatusMoves DEF CardsKept, Elsewhere
<1>8. ASSUME NEW m \in Msgs, Close(t, m)
      PROVE  CardsKept
  <2>1. msg[m].of \in Orders /\ order' = [order EXCEPT ![msg[m].of].chat = FALSE]
    BY <1>8, CloseLeads DEF Close
  <2> QED
    BY <1>0, <2>1, ChatMoves DEF CardsKept, Elsewhere
<1>9. ASSUME NEW S \in SUBSET Orders, Purge(t, S)
      PROVE  CardsKept
  <2>1. order' = [o \in Orders |-> IF o \in S THEN [order[o] EXCEPT !.status = "deleted", !.chat = FALSE, !.cards = NoCards] ELSE order[o]]
    BY <1>9 DEF Purge
  <2>2. \A a \in Admins : NoCards[a] = NoMsg
    BY DEF NoCards
  <2> QED
    BY <1>0, <2>1, <2>2, PurgeMoves DEF CardsKept
<1> QED
  BY <1>1, <1>3, <1>4, <1>5, <1>6, <1>7, <1>8, <1>9

\* the reminders and the reads
LEMMA ReadRefs ==
  ASSUME TypeInv, RefInv, NEW t \in Tasks, TypeInv',
         NotifyGet(t) \/ GetOrder(t) \/ RemindGet(t) \/ RemindSend(t) \/ Mark(t) \/ Remind(t) \/ TaskFails(t) \/ DecideOpen(t)
  PROVE  RefInv'
<1>0. \A m \in Msgs : msg'[m].of = msg[m].of
  BY DEF NotifyGet, GetOrder, RemindGet, RemindSend, Mark, Remind, TaskFails, DecideOpen, Missed
<1>1. CardsKept
  BY CardsKeptBy DEF NotifyGet, GetOrder, RemindGet, RemindSend, Remind, TaskFails
<1>2. CASE NotifyGet(t)
  <2>1. Moved(t) /\ Current(t) \in Orders /\ task[t].pc = "n_get"
    BY <1>2, NotifyGetLands, AtStep
  <2>2. CASE Ends(t)
    BY <1>0, <1>1, <2>1, <2>2, EndsRefs DEF CardsKept
  <2>3. CASE /\ task'[t].pc = "n_send" /\ SameHand(t) /\ SameMail(t)
             /\ DOMAIN task'[t].rows = {Current(t)} /\ task'[t].rows[Current(t)] = order[Current(t)]
    <3>1. Taken(t) /\ Empty(t)
      BY <2>1, <2>3 DEF Taken, Reserved, SameMail, Empty, Closing
    <3> QED
      BY <1>0, <1>1, <2>1, <2>3, <3>1, QuietRefs DEF CardsKept
  <2> QED
    BY <1>2, <2>2, <2>3, NotifyGetLands
<1>3. CASE GetOrder(t)
  <2>1. Moved(t) /\ Current(t) \in Orders /\ task[t].pc = "g_get"
    BY <1>3, GetOrderLands, AtStep
  <2>2. CASE Ends(t)
    BY <1>0, <1>1, <2>1, <2>2, EndsRefs DEF CardsKept
  <2>3. CASE /\ task'[t].pc = "g_edit" /\ SameHand(t) /\ SameMail(t)
             /\ DOMAIN task'[t].rows = {Current(t)} /\ task'[t].rows[Current(t)] = order[Current(t)]
    <3>1. Taken(t) /\ Empty(t)
      BY <2>3, SilentTakes DEF Silent, Showing, Empty, Closing
    <3> QED
      BY <1>0, <1>1, <2>1, <2>3, <3>1, QuietRefs DEF CardsKept
  <2> QED
    BY <1>3, <2>2, <2>3, GetOrderLands
<1>4. ASSUME task[t].pc \in Reminding, NextReminder(t), lastMsg' = lastMsg
      PROVE  RefInv'
  <2>1. Moved(t) /\ (Ends(t) \/ (task'[t].pc = "r_get" /\ SameRows(t)))
    BY <1>4, NextReminderMoves
  <2>2. CASE Ends(t)
    BY <1>0, <1>1, <2>1, <2>2, EndsRefs DEF CardsKept
  <2>3. CASE task'[t].pc = "r_get" /\ SameRows(t)
    <3>1. Taken(t) /\ Empty(t)
      BY <2>3, SilentTakes DEF Silent, Showing, Empty, Closing
    <3> QED
      BY <1>0, <1>1, <2>1, <2>3, <3>1, QuietRefs DEF CardsKept
  <2> QED
    BY <2>1, <2>2, <2>3
<1>5. ASSUME NEW l \in {"r_send", "r_mark"}, Moved(t), Goes(t, l)
      PROVE  RefInv'
  <2>1. Taken(t) /\ Empty(t) /\ SameRows(t)
    BY <1>5, SilentTakes DEF Silent, Showing, Empty, Closing, Goes
  <2> QED
    BY <1>0, <1>1, <1>5, <2>1, QuietRefs DEF CardsKept
<1>6. CASE RemindGet(t)
  <2>1. lastMsg' = lastMsg /\ task[t].pc \in Reminding
    BY <1>6, RemindGetLands DEF RemindGet, Reminding
  <2> QED
    BY <1>4, <1>5, <1>6, <2>1, RemindGetLands
<1>7. CASE RemindSend(t)
  BY <1>5, <1>7, RemindSendLands
<1>8. CASE Mark(t)
  <2>1. lastMsg' = lastMsg /\ task[t].pc \in Reminding
    BY <1>8, MarkLands DEF Mark, Reminding
  <2> QED
    BY <1>4, <1>8, <2>1, MarkLands
<1>9. CASE Remind(t)
  <2>1. Rest(t) /\ task'[t].pc = "r_get" /\ task'[t].rows = <<>> /\ lastMsg <= lastMsg'
    BY <1>9, RemindLands
  <2>2. Taken(t) /\ Empty(t)
    BY <2>1, SilentTakes DEF Silent, Showing, Empty, Closing
  <2>3. Given(t) /\ HandRefs(t)'
    BY <1>0, <2>2, SameGiven, EmptyRefs
  <2>4. OrderRefs' /\ RowRefs(t)'
    BY <1>1, <2>1, <2>3, OrderRefsKept, RowRefsKept DEF CardsKept
  <2> QED
    BY <2>1, <2>2, <2>3, <2>4, RefsKept
<1>10. CASE TaskFails(t)
  <2>1. lastMsg' = lastMsg
    BY <1>10 DEF TaskFails
  <2>2. CASE Ends(t)
    BY <1>0, <1>1, <1>10, <2>2, EndsRefs, FailsLands DEF CardsKept
  <2>3. CASE task[t].pc = "r_get" /\ NextReminder(t)
    BY <1>4, <2>1, <2>3 DEF Reminding
  <2> QED
    BY <1>10, <2>2, <2>3, FailsLands
<1>11. CASE DecideOpen(t)
  <2>1. Moved(t) /\ task'[t].pc = "g_get" /\ SameRows(t)
    BY <1>11, DecideOpenLands
  <2>2. Taken(t) /\ Empty(t)
    BY <2>1, SilentTakes DEF Silent, Showing, Empty, Closing
  <2> QED
    BY <1>0, <1>1, <2>1, <2>2, QuietRefs DEF CardsKept
<1> QED
  BY <1>2, <1>3, <1>6, <1>7, <1>8, <1>9, <1>10, <1>11

\* the handlers that begin
LEMMA TapRefs ==
  ASSUME TypeInv, RefInv, NEW t \in Tasks, TypeInv', Tap(t)
  PROVE  RefInv'
<1>0. lastMsg \in Nat /\ NumAdmins \in Nat /\ \A m \in Msgs : m \in Nat
  BY Constants DEF TypeInv, CountTypes
<1>1. ASSUME NEW o \in Orders, Place(t, o)
      PROVE  RefInv'
  <2>1. /\ Moved(t) /\ task'[t].pc = "n_get" /\ task'[t].base = lastMsg /\ task'[t].rows = <<>> /\ CardsKept
        /\ \A m \in Msgs : msg'[m].of = msg[m].of
    BY <1>1, PlaceLands, CardsKeptBy DEF Place
  <2>2. Taken(t) /\ Empty(t)
    BY <2>1 DEF Taken, Reserved, Empty, Closing
  <2> QED
    BY <2>1, <2>2, QuietRefs DEF CardsKept
<1>2. ASSUME Talk(t)
      PROVE  RefInv'
  <2>1. /\ Moved(t) /\ task'[t].pc = "t_send" /\ task'[t].base = lastMsg /\ task'[t].rows = <<>> /\ CardsKept
        /\ \A m \in Msgs : msg'[m].of = msg[m].of
    BY <1>2, TalkLands, CardsKeptBy DEF Talk
  <2>2. Taken(t) /\ Empty(t)
    BY <2>1 DEF Taken, Reserved, Empty, Closing
  <2> QED
    BY <2>1, <2>2, QuietRefs DEF CardsKept
<1>3. ASSUME Moved(t), task'[t].pc \in {"d_open", "g_get"}, task'[t].rows = <<>>, UNCHANGED msg, CardsKept
      PROVE  RefInv'
  <2>1. Taken(t) /\ Empty(t)
    BY <1>3, SilentTakes DEF Silent, Showing, Empty, Closing
  <2> QED
    BY <1>3, <2>1, QuietRefs DEF CardsKept
<1>4. ASSUME NEW o \in Orders, NEW verdict \in {"accepted", "rejected"}, Decide(t, o, verdict)
      PROVE  RefInv'
  <2>1. UNCHANGED msg /\ CardsKept
    BY <1>4, CardsKeptBy DEF Decide
  <2>2. Moved(t) /\ task'[t].pc \in {"d_open", "g_get"} /\ task'[t].rows = <<>>
    BY <1>4, TapLands DEF Decide
  <2> QED
    BY <1>3, <2>1, <2>2
<1>5. ASSUME NEW o \in Orders, Finish(t, o) \/ Withdraw(t, o)
      PROVE  RefInv'
  <2>1. UNCHANGED msg /\ CardsKept
    BY <1>5, CardsKeptBy DEF Finish, Withdraw
  <2>2. Moved(t) /\ task'[t].pc \in {"d_open", "g_get"} /\ task'[t].rows = <<>>
    BY <1>5, TapLands DEF Finish, Withdraw
  <2> QED
    BY <1>3, <2>1, <2>2
<1>6. ASSUME NEW m \in Msgs, Close(t, m)
      PROVE  RefInv'
  <2>1. /\ Moved(t) /\ task'[t].pc = "k_get" /\ task'[t].list = {msg[m].of} /\ task'[t].base = m
        /\ task'[t].rows = <<>> /\ CardsKept /\ UNCHANGED msg
    BY <1>6, CloseLeads, CardsKeptBy DEF Close
  <2>2. Taken(t) /\ Given(t) /\ Rest(t) /\ lastMsg <= lastMsg'
    BY <2>1, SilentTakes, SameGiven DEF Silent, Showing, Moved
  <2>3. HandRefs(t)'
    BY <2>1 DEF HandRefs, At, Of, Closing
  <2>4. OrderRefs' /\ RowRefs(t)'
    BY <2>1, <2>2, OrderRefsKept, RowRefsKept DEF CardsKept
  <2> QED
    BY <2>2, <2>3, <2>4, RefsKept
<1>7. ASSUME NEW a \in Admins, NEW S \in SUBSET Orders, Show(t, a, S)
      PROVE  RefInv'
  <2>1. /\ Moved(t) /\ task'[t].pc = "s_send" /\ task'[t].list = S /\ task'[t].base = lastMsg
        /\ DOMAIN task'[t].rows = S /\ \A o \in S : task'[t].rows[o] = order[o]
    BY <1>7, ShowLands
  <2>2. CardsKept /\ UNCHANGED msg
    BY <1>7, CardsKeptBy DEF Show
  <2>3. Taken(t) /\ Empty(t)
    BY <2>1 DEF Taken, Reserved, Empty, Closing
  <2> QED
    BY <2>1, <2>2, <2>3, QuietRefs DEF CardsKept
<1>8. ASSUME NEW S \in SUBSET Orders, Purge(t, S)
      PROVE  RefInv'
  <2>1. Moved(t) /\ CardsKept /\ UNCHANGED msg /\ ToDelete(S) \subseteq Msgs
    BY <1>8, PurgeLands, CardsKeptBy DEF Purge
  <2>2. CASE Ends(t)
    BY <2>1, <2>2, EndsRefs DEF CardsKept
  <2>3. CASE /\ task'[t].pc = "c_delete" /\ task'[t].kind = "clean" /\ task'[t].list = S
             /\ task'[t].refs = ToDelete(S) /\ task'[t].rows = <<>>
    <3>1. Taken(t) /\ Given(t) /\ Rest(t) /\ lastMsg <= lastMsg'
      BY <2>1, <2>3, SilentTakes, SameGiven DEF Silent, Showing, Moved
    <3>2. OrderRefs' /\ RowRefs(t)'
      BY <2>1, <2>3, <3>1, OrderRefsKept, RowRefsKept DEF CardsKept
    <3>3. \A m \in ToDelete(S) : Of(m) \in S
      <4>1. ASSUME NEW o \in S, NEW m \in LinkedTo(o) PROVE Of(m) = o
        BY DEF LinkedTo, Of
      <4>2. ASSUME NEW o \in S, NEW m \in CardsAmong(order[o], Admins) PROVE Of(m) = o
        <5>1. PICK a \in Admins : m = order[o].cards[a] /\ m # NoMsg
          BY <4>2 DEF CardsAmong
        <5> QED
          BY <5>1 DEF RefInv, OrderRefs
      <4> QED
        BY <4>1, <4>2 DEF ToDelete
    <3>4. HandRefs(t)'
      BY <2>1, <2>3, <3>3 DEF HandRefs, At, Of, Closing
    <3> QED
      BY <3>1, <3>2, <3>4, RefsKept
  <2> QED
    BY <1>8, <2>2, <2>3, PurgeLands
<1> QED
  BY <1>1, <1>2, <1>4, <1>5, <1>6, <1>7, <1>8 DEF Tap, ShowPending, ShowInProgress

\* Sending and saving the cards of a new order keeps the references right.
LEMMA NotifyRefs ==
  ASSUME TypeInv, RefInv, NEW t \in Tasks, TypeInv', NotifySend(t) \/ NotifySave(t)
  PROVE  RefInv'
<1>1. CASE NotifySend(t)
  <2>1. PICK S \in SUBSET Admins :
          /\ Moved(t) /\ task[t].pc = "n_send" /\ task[t].list = {Current(t)}
          /\ Post(S, task[t].base, Current(t), Markup(RowOf(t)))
          /\ \/ S = {} /\ Ends(t)
             \/ /\ S # {} /\ task'[t].pc = "n_save" /\ SameHand(t) /\ SameRows(t)
                /\ task'[t].base = task[t].base
                /\ task'[t].sent = [a \in Admins |-> IF a \in S THEN task[t].base + a ELSE NoMsg]
    BY <1>1, NotifySendLands
  <2>2. Current(t) \in Orders /\ task[t].base \in Nat /\ CardsKept /\ MsgTypes
    <3>1. Current(t) \in Orders
      BY <2>1, AtStep
    <3>2. task[t].base \in Nat /\ MsgTypes
      BY RecordTyped, Constants DEF TypeInv, TableTypes
    <3>3. CardsKept
      BY <1>1, CardsKeptBy DEF NotifySend
    <3> QED
      BY <3>1, <3>2, <3>3
  <2>3. /\ \A m \in Msgs : m - task[t].base \in S => msg'[m].of = Current(t)
        /\ \A m \in Msgs : m - task[t].base \notin S => msg'[m] = msg[m]
    BY <2>1, <2>2, PostMoves, MarkupTyped
  <2>4. task'[t].pc \in {"idle", "n_save"}
    BY <2>1, FreeTyped DEF Ends
  <2>5. Taken(t) /\ Reserved(t)' = {}
    BY <2>4, SilentTakes DEF Silent, Showing
  <2>6. Given(t)
    <3>1. ASSUME NEW m \in Msgs, m - task[t].base \in S PROVE m \in Reserved(t)
      <4>1. m - task[t].base \in Admins /\ m \in Nat
        BY <3>1, Constants
      <4>2. task[t].base < m /\ m <= task[t].base + NumAdmins
        BY <2>2, <4>1, Constants
      <4> QED
        BY <2>1, <4>2 DEF Reserved
    <3> QED
      BY <2>3, <2>5, <3>1 DEF Given, Of
  <2>7. OrderRefs'
    BY <2>2, <2>6, OrderRefsKept DEF CardsKept
  <2>8. RowRefs(t)'
    <3>1. task'[t].rows = <<>> \/ SameRows(t)
      BY <2>1 DEF Ends, Free
    <3> QED
      BY <2>6, <3>1, RowRefsKept
  <2>9. HandRefs(t)'
    <3>1. CASE Ends(t)
      BY <3>1, FreeTyped, EmptyRefs DEF Ends, Empty, Closing
    <3>2. CASE /\ task'[t].pc = "n_save" /\ SameHand(t)
               /\ task'[t].sent = [a \in Admins |-> IF a \in S THEN task[t].base + a ELSE NoMsg]
      <4>1. ASSUME NEW a \in Admins, task'[t].sent[a] # NoMsg
            PROVE  msg'[task'[t].sent[a]].of \in task'[t].list
        <5>1. a \in S /\ task'[t].sent[a] = task[t].base + a
          BY <3>2, <4>1
        <5>2. PICK m \in Msgs : m = task[t].base + a
          <6>1. task'[t].sent \in CardTables
            BY DEF TypeInv, TaskTypes, TaskRecords
          <6> QED
            BY <4>1, <5>1, <6>1 DEF CardTables
        <5>3. m - task[t].base = a
          BY <2>2, <5>2, Constants
        <5> QED
          BY <2>1, <2>3, <3>2, <5>1, <5>2, <5>3 DEF SameHand
      <4> QED
        BY <3>2, <4>1 DEF HandRefs, At, Of, Closing
    <3> QED
      BY <2>1, <3>1, <3>2
  <2> QED
    BY <2>1, <2>5, <2>6, <2>7, <2>8, <2>9, RefsKept DEF Moved
<1>2. CASE NotifySave(t)
  <2>1. Moved(t) /\ Ends(t) /\ task[t].pc = "n_save" /\ task[t].list = {Current(t)} /\ UNCHANGED msg
    BY <1>2, NotifySaveLands DEF NotifySave
  <2>2. task'[t].pc = "idle" /\ task'[t].rows = <<>>
    BY <2>1, FreeTyped DEF Ends, Free
  <2>3. Taken(t) /\ Given(t) /\ HandRefs(t)'
    BY <2>1, <2>2, SilentTakes, SameGiven, EmptyRefs DEF Silent, Showing, Empty, Closing
  <2>4. RowRefs(t)'
    BY <2>2, <2>3, RowRefsKept
  <2>5. OrderRefs'
    <3>1. PICK o \in Orders : o = Current(t)
      BY <2>1, AtStep
    <3>2. task[t].sent \in CardTables /\ SetAdminMsgs(o, task[t].sent) /\ OrderTypes
      BY <1>2, <3>1, RecordTyped DEF NotifySave, TypeInv, TableTypes
    <3>3. Elsewhere(o) /\ (order'[o].cards = task[t].sent \/ order'[o].cards = order[o].cards)
      BY <3>2, CardsMove
    <3>4. \A a \in Admins : task[t].sent[a] # NoMsg => Of(task[t].sent[a]) = o
      BY <2>1, <3>1 DEF RefInv, HandRefs, At
    <3> QED
      BY <2>1, <3>3, <3>4 DEF RefInv, OrderRefs, Elsewhere, Of
  <2> QED
    BY <2>1, <2>3, <2>4, <2>5, RefsKept DEF Moved
<1> QED
  BY <1>1, <1>2

\* the steps that edit, link or delete what was sent before
LEMMA EditRefs ==
  ASSUME TypeInv, RefInv, NEW t \in Tasks, TypeInv',
         EditCards(t) \/ DecideLink(t) \/ CloseEdit(t) \/ TalkLink(t) \/ DeleteMessages(t)
  PROVE  RefInv'
<1>0. MsgTypes
  BY DEF TypeInv, TableTypes
<1>1. CardsKept
  BY CardsKeptBy DEF EditCards, DecideLink, CloseEdit, TalkLink, DeleteMessages
<1>2. \A m \in Msgs : msg'[m].of = msg[m].of
  <2>1. CASE UNCHANGED msg
    BY <2>1
  <2>2. ASSUME NEW S, NEW b \in Buttons, Relabel(S, b) \/ Hide(S)
        PROVE  \A m \in Msgs : msg'[m].of = msg[m].of
    BY <1>0, <2>2, RelabelMoves, HideMoves
  <2>3. "ended" \in Buttons
    BY DEF Buttons
  <2> QED
    BY <2>1, <2>2, <2>3, MarkupTyped DEF EditCards, DecideLink, CloseEdit, TalkLink, DeleteMessages, Missed
<1>3. CASE Goes(t, "d_link") /\ Moved(t)
  <2>1. Taken(t) /\ Empty(t) /\ SameRows(t)
    BY <1>3, SilentTakes DEF Goes, Silent, Showing, Empty, Closing
  <2> QED
    BY <1>1, <1>2, <1>3, <2>1, QuietRefs DEF CardsKept
<1>4. CASE Ends(t) /\ Moved(t)
  BY <1>1, <1>2, <1>4, EndsRefs DEF CardsKept
<1> QED
  BY <1>3, <1>4, EditCardsLands, DecideLinkLands, CloseEditLands, TalkLinkLands, DeleteMessagesLands

\* The read of the order whose chat was closed keeps the references right: the tapped message is
\* of the order read.
LEMMA CloseGetRefs ==
  ASSUME TypeInv, RefInv, NEW t \in Tasks, TypeInv', CloseGet(t)
  PROVE  RefInv'
<1>1. /\ Moved(t) /\ task[t].pc = "k_get" /\ task[t].list = {Current(t)}
      /\ task'[t].pc = "k_edit" /\ SameHand(t) /\ SameMail(t)
      /\ DOMAIN task'[t].rows = {Current(t)} /\ task'[t].rows[Current(t)] = order[Current(t)]
      /\ UNCHANGED <<msg, order>>
  BY CloseGetLands DEF CloseGet
<1>2. Current(t) \in Orders /\ CardsKept
  BY <1>1, AtStep, CardsKeptBy
<1>3. Taken(t) /\ Given(t) /\ Rest(t) /\ lastMsg <= lastMsg'
  BY <1>1, SilentTakes, SameGiven DEF Silent, Showing, Moved
<1>4. OrderRefs' /\ RowRefs(t)'
  BY <1>1, <1>2, <1>3, OrderRefsKept, RowRefsKept DEF CardsKept
<1>5. HandRefs(t)'
  <2>1. Of(task[t].base) \in task[t].list
    BY <1>1 DEF RefInv, HandRefs, Closing
  <2> QED
    BY <1>1, <2>1 DEF HandRefs, At, Of, Closing, SameHand, SameMail
<1> QED
  BY <1>3, <1>4, <1>5, RefsKept

\* Sending a chat line keeps the references right: its lines are messages of the order.
LEMMA TalkSendRefs ==
  ASSUME TypeInv, RefInv, NEW t \in Tasks, TypeInv', TalkSend(t)
  PROVE  RefInv'
<1>1. PICK S \in SUBSET Admins :
        /\ Moved(t) /\ task[t].pc = "t_send" /\ task[t].list = {Current(t)}
        /\ task'[t].pc = "t_link" /\ SameHand(t) /\ SameRows(t)
        /\ Post(S, task[t].base, Current(t), "chat")
        /\ task'[t].refs = {task[t].base + a : a \in S} /\ task'[t].refs \subseteq Msgs
  BY TalkSendLands
<1>2. Current(t) \in Orders /\ task[t].base \in Nat /\ CardsKept /\ MsgTypes
  <2>1. Current(t) \in Orders
    BY <1>1, AtStep
  <2>2. task[t].base \in Nat /\ MsgTypes
    BY RecordTyped, Constants DEF TypeInv, TableTypes
  <2>3. CardsKept
    BY CardsKeptBy DEF TalkSend
  <2> QED
    BY <2>1, <2>2, <2>3
<1>3. /\ \A m \in Msgs : m - task[t].base \in S => msg'[m].of = Current(t)
      /\ \A m \in Msgs : m - task[t].base \notin S => msg'[m] = msg[m]
  <2>1. "chat" \in Buttons /\ "chat" # "hidden"
    BY DEF Buttons
  <2> QED
    BY <1>1, <1>2, <2>1, PostMoves
<1>4. Taken(t) /\ Reserved(t)' = {}
  BY <1>1, SilentTakes DEF Silent, Showing
<1>5. Given(t)
  <2>1. ASSUME NEW m \in Msgs, m - task[t].base \in S PROVE m \in Reserved(t)
    <3>1. m - task[t].base \in Admins /\ m \in Nat
      BY <2>1, Constants
    <3>2. task[t].base < m /\ m <= task[t].base + NumAdmins
      BY <1>2, <3>1, Constants
    <3> QED
      BY <1>1, <3>2 DEF Reserved
  <2> QED
    BY <1>3, <1>4, <2>1 DEF Given, Of
<1>6. OrderRefs' /\ RowRefs(t)'
  BY <1>1, <1>2, <1>5, OrderRefsKept, RowRefsKept DEF CardsKept
<1>7. HandRefs(t)'
  <2>1. ASSUME NEW m \in task'[t].refs PROVE msg'[m].of \in task'[t].list
    <3>1. PICK a \in S : m = task[t].base + a
      BY <1>1, <2>1
    <3>2. m \in Msgs /\ m - task[t].base = a
      BY <1>1, <1>2, <2>1, <3>1, Constants
    <3> QED
      BY <1>1, <1>3, <3>1, <3>2 DEF SameHand
  <2> QED
    BY <1>1, <2>1 DEF HandRefs, At, Of, Closing
<1> QED
  BY <1>1, <1>4, <1>5, <1>6, <1>7, RefsKept DEF Moved

\* The loop of the listing keeps the references right when it goes to its next order.
LEMMA ShowNextRefs ==
  ASSUME TypeInv, RefInv, NEW t \in Tasks, TypeInv', task[t].pc \in Showing, NextShown(t), lastMsg' = lastMsg,
         \A m \in Msgs : msg'[m].of = msg[m].of, CardsKept
  PROVE  RefInv'
<1>1. Moved(t)
  BY NextShownMoves
<1>2. CASE Ends(t)
  BY <1>1, <1>2, EndsRefs DEF CardsKept
<1>3. CASE /\ task'[t].pc = "s_send" /\ task'[t].base = task[t].base + 1 /\ SameRows(t)
           /\ Cardinality(task'[t].list) = Cardinality(task[t].list) - 1
  <2>1. task[t].list \in SUBSET Orders /\ task[t].list # {}
    BY RecordTyped DEF TypeInv, Shape, Showing
  <2>2. task[t].base \in Nat /\ Cardinality(task[t].list) \in Nat
    <3>1. Cardinality(task[t].list) \in Nat \ {0}
      BY <2>1, ListCounted
    <3>2. task[t].base \in Nat
      BY RecordTyped, Constants DEF TypeInv
    <3> QED
      BY <3>1, <3>2
  <2>3. \A m \in Msgs : m \in Nat
    BY Constants
  <2>4. Taken(t)
    BY <1>3, <2>2, <2>3 DEF Taken, Reserved, Showing
  <2>5. Empty(t)
    BY <1>3 DEF Empty, Closing
  <2> QED
    BY <1>1, <1>3, <2>4, <2>5, QuietRefs DEF CardsKept
<1> QED
  BY <1>2, <1>3, NextShownMoves

\* Every step of the listing keeps the references right.
LEMMA ShowRefs ==
  ASSUME TypeInv, RefInv, NEW t \in Tasks, TypeInv', ShowSend(t) \/ ShowSave(t) \/ ShowLink(t) \/ ShowDelete(t)
  PROVE  RefInv'
<1>0. /\ task[t].pc \in Showing /\ task[t].pc # "idle" /\ lastMsg' = lastMsg /\ MsgTypes
  BY ShowSendLands, ShowSaveLands, ShowLinkLands, ShowDeleteLands DEF Showing, ShowSend, ShowSave, ShowLink, ShowDelete, TypeInv, TableTypes
<1>1. task[t].base \in Nat /\ Cardinality(task[t].list) \in Nat \ {0}
  <2>1. task[t].list \in SUBSET Orders /\ task[t].list # {}
    BY <1>0, RecordTyped DEF TypeInv, Shape, Showing
  <2>2. Cardinality(task[t].list) \in Nat \ {0}
    BY <2>1, ListCounted
  <2>3. task[t].base \in Nat
    BY RecordTyped, Constants DEF TypeInv
  <2> QED
    BY <2>2, <2>3
<1>2. PICK o \in Orders : o = Current(t)
  BY <1>0, AtStep
<1>3. PICK n \in Msgs : n = NewCard(t)
  BY <1>0, NewCardTyped
<1>4. n = task[t].base + 1 /\ n \in Nat
  BY <1>1, <1>3 DEF NewCard
<1>5. CASE PostCard(t) /\ Goes(t, "s_save") /\ ShowSend(t)
  <2>1. /\ msg'[n].of = o /\ \A m \in Msgs \ {n} : msg'[m] = msg[m]
        /\ task[t].pc = "s_send"
    BY <1>2, <1>3, <1>5, PostCardMoves, ShowSendLands
  <2>2. task'[t].pc = "s_save" /\ task'[t].base = task[t].base /\ task'[t].list = task[t].list /\ SameRows(t)
    BY <1>5 DEF Goes, SameHand, SameMail
  <2>3. \A m \in Msgs : m \in Nat
    BY Constants
  <2>4. Taken(t)
    BY <1>1, <2>1, <2>2, <2>3 DEF Taken, Reserved
  <2>5. n \in Reserved(t) /\ n \notin Reserved(t)'
    BY <1>1, <1>4, <2>1, <2>2 DEF Reserved
  <2>6. Given(t)
    BY <2>1, <2>5 DEF Given, Of
  <2>7. OrderRefs' /\ RowRefs(t)'
    <3>1. CardsKept
      BY <1>5, CardsKeptBy DEF ShowSend
    <3> QED
      BY <2>2, <2>6, <3>1, OrderRefsKept, RowRefsKept DEF CardsKept
  <2>8. HandRefs(t)'
    <3>1. Current(t)' = o /\ NewCard(t)' = n
      BY <1>2, <1>3, <2>2 DEF Current, NewCard
    <3> QED
      BY <2>1, <2>2, <3>1 DEF HandRefs, At, Of, Closing
  <2> QED
    BY <1>5, <2>4, <2>6, <2>7, <2>8, RefsKept, ShowSendLands DEF Moved
<1>6. ASSUME NEW l \in {"s_link", "s_delete"}, task[t].pc \in {"s_save", "s_link"}, Goes(t, l), Moved(t), UNCHANGED msg, OrderRefs'
      PROVE  RefInv'
  <2>1. task'[t].pc = l /\ task'[t].base = task[t].base /\ task'[t].list = task[t].list /\ SameRows(t)
    BY <1>6 DEF Goes, SameHand, SameMail
  <2>2. Taken(t) /\ Given(t) /\ Rest(t) /\ lastMsg <= lastMsg'
    BY <1>6, <2>1, SameGiven DEF Taken, Reserved, Moved
  <2>3. HandRefs(t)'
    <3>1. Current(t)' = o /\ NewCard(t)' = n /\ Of(n) = o
      BY <1>2, <1>3, <1>6, <2>1 DEF Current, NewCard, RefInv, HandRefs
    <3> QED
      BY <1>6, <2>1, <3>1 DEF HandRefs, At, Of, Closing
  <2>4. RowRefs(t)'
    BY <2>1, <2>2, RowRefsKept
  <2> QED
    BY <1>6, <2>2, <2>3, <2>4, RefsKept
<1>7. CASE ShowSave(t)
  <2>1. Moved(t) /\ task[t].pc = "s_save" /\ Goes(t, IF RowOf(t).chat THEN "s_link" ELSE "s_delete") /\ UNCHANGED msg
    BY <1>7, ShowSaveLands DEF ShowSave
  <2>2. Of(n) = o /\ o \in DOMAIN task[t].rows /\ task[t].rows[o] = RowOf(t)
    <3>1. o \in DOMAIN task[t].rows
      BY <1>0, <1>2, AtStep DEF Knowing
    <3> QED
      BY <1>2, <1>3, <2>1, <3>1 DEF RefInv, HandRefs, RowOf
  <2>3. OrderRefs'
    <3> DEFINE cards == [RowOf(t).cards EXCEPT ![task[t].admin] = NewCard(t)]
    <3>1. SetAdminMsgs(o, cards) /\ OrderTypes
      BY <1>2, <1>7 DEF ShowSave, TypeInv, TableTypes
    <3>2. cards \in CardTables /\ \A a \in Admins : cards[a] = IF a = task[t].admin THEN n ELSE RowOf(t).cards[a]
      BY <1>0, <1>3, SavedTyped
    <3> HIDE DEF cards
    <3>3. \A a \in Admins : cards[a] # NoMsg => Of(cards[a]) = o
      BY <2>2, <3>2 DEF RefInv, RowRefs
    <3>4. Elsewhere(o) /\ (order'[o].cards = cards \/ order'[o].cards = order[o].cards)
      BY <3>1, <3>2, CardsMove
    <3> QED
      BY <2>1, <3>3, <3>4 DEF RefInv, OrderRefs, Elsewhere, Of
  <2>4. CASE RowOf(t).chat
    BY <1>6, <2>1, <2>3, <2>4
  <2>5. CASE ~RowOf(t).chat
    BY <1>6, <2>1, <2>3, <2>5
  <2> QED
    BY <2>4, <2>5
<1>8. CASE ShowLink(t)
  <2>1. Moved(t) /\ task[t].pc = "s_link" /\ Goes(t, "s_delete") /\ UNCHANGED <<msg, order>>
    BY <1>8, ShowLinkLands DEF ShowLink
  <2>2. OrderRefs'
    BY <2>1 DEF RefInv, OrderRefs, Of
  <2> QED
    BY <1>6, <2>1, <2>2
<1>9. CASE ShowSend(t) /\ Missed(msg) /\ NextShown(t)
  <2>1. CardsKept /\ \A m \in Msgs : msg'[m].of = msg[m].of
    BY <1>9, CardsKeptBy DEF ShowSend, Missed
  <2> QED
    BY <1>0, <1>9, <2>1, ShowNextRefs
<1>10. CASE ShowDelete(t)
  <2>1. CardsKept /\ NextShown(t)
    BY <1>10, CardsKeptBy DEF ShowDelete
  <2>2. \A m \in Msgs : msg'[m].of = msg[m].of
    BY <1>0, <1>10, HideMoves DEF ShowDelete, Missed
  <2> QED
    BY <1>0, <2>1, <2>2, ShowNextRefs
<1> QED
  BY <1>5, <1>7, <1>8, <1>9, <1>10, ShowSendLands


\* When no task is left, the references are right if those of the table are.
LEMMA NoRefs ==
  ASSUME FreshInv', OrderRefs', \A t \in Tasks : task'[t] = Free
  PROVE  RefInv'
<1>1. \A t \in Tasks : task'[t].pc = "idle" /\ task'[t].rows = <<>>
  BY DEF Free
<1>2. ASSUME NEW t \in Tasks PROVE RowRefs(t)' /\ HandRefs(t)'
  <2>1. DOMAIN task'[t].rows = {}
    BY <1>1
  <2> QED
    BY <1>1, <2>1 DEF RowRefs, HandRefs, At, Closing
<1> QED
  BY <1>2 DEF RefInv

\* Every step keeps the references right.
LEMMA RefKept == TypeInv /\ RefInv /\ [Next]_vars => RefInv'
<1> SUFFICES ASSUME TypeInv, RefInv, [Next]_vars PROVE RefInv'
  OBVIOUS
<1>0. TypeInv'
  BY NextTyped
<1>1. CASE UNCHANGED vars
  <2>1. UNCHANGED <<order, msg, task, lastMsg>>
    BY <1>1 DEF vars
  <2> QED
    BY <2>1 DEF RefInv, FreshInv, OrderRefs, RowRefs, HandRefs, Reserved, Of, At, Current, NewCard
<1>2. CASE Crash
  <2>1. UNCHANGED <<order, msg, lastMsg>> /\ \A t \in Tasks : task'[t] = Free
    BY <1>2 DEF Crash
  <2>2. \A t \in Tasks : Reserved(t)' = {}
    BY <2>1, FreeTyped DEF Reserved
  <2>3. FreshInv' /\ OrderRefs'
    BY <2>1, <2>2 DEF RefInv, FreshInv, OrderRefs, Of
  <2> QED
    BY <2>1, <2>3, NoRefs
<1>3. ASSUME NEW t \in Tasks, CardStep(t) \/ RemindStep(t) \/ Tap(t) \/ Remind(t) \/ TaskFails(t)
      PROVE  RefInv'
  <2>1. CASE Tap(t)
    BY <1>0, <2>1, TapRefs
  <2>2. CASE CardStep(t)
    BY <1>0, <2>2, ReadRefs, NotifyRefs, EditRefs, CloseGetRefs, TalkSendRefs, ShowRefs DEF CardStep
  <2> QED
    BY <1>0, <1>3, <2>1, <2>2, ReadRefs DEF RemindStep
<1> QED
  BY <1>1, <1>2, <1>3 DEF Next

\* The references are right when nothing was sent.
LEMMA InitRefs == Init => RefInv
<1> SUFFICES ASSUME Init PROVE RefInv
  OBVIOUS
<1>1. \A t \in Tasks : task[t] = Free /\ task[t].pc = "idle" /\ DOMAIN task[t].rows = {}
  <2>1. Free.rows = <<>>
    BY DEF Free
  <2> QED
    BY <2>1, FreeTyped DEF Init
<1>2. \A m \in Msgs : Of(m) = NoOrder
  BY DEF Init, Of
<1>3. \A t \in Tasks : Reserved(t) = {}
  BY <1>1 DEF Reserved
<1>4. \A o \in Orders, a \in Admins : order[o].cards[a] = NoMsg
  BY DEF Init, NoCards
<1>5. FreshInv /\ OrderRefs
  BY <1>2, <1>3, <1>4 DEF FreshInv, OrderRefs
<1>6. \A t \in Tasks : RowRefs(t) /\ HandRefs(t)
  BY <1>1 DEF RowRefs, HandRefs, At, Closing
<1> QED
  BY <1>5, <1>6 DEF RefInv

\* An id an order knows (admin_msg_ids), an id a handler read before its
\* await and will write, edit or delete, is a message of that very order,
\* through crashes, failed calls and two tasks at one order: no handler edits,
\* hides or links another order's message (RefInv).
THEOREM RefsCorrect == Spec => []RefInv
<1>1. Init => TypeInv /\ RefInv
  BY InitTyped, InitRefs
<1>2. TypeInv /\ RefInv /\ [Next]_vars => (TypeInv /\ RefInv)'
  BY NextTyped, RefKept
<1> QED
  BY <1>1, <1>2, PTL DEF Spec


-----------------------------------------------------------------------------
(* What leaves an order as it is *)

\* the row, but for the count of its reminders
SameRow(o) ==
  /\ order'[o].status = order[o].status
  /\ order'[o].over = order[o].over
  /\ order'[o].chat = order[o].chat
  /\ order'[o].cards = order[o].cards

SameWork(u, o) ==
  /\ task'[u].kind = task[u].kind /\ Stage(u, o)' = Stage(u, o) /\ task'[u].rows[o] = task[u].rows[o]
  /\ task'[u].admin = task[u].admin /\ task'[u].sent = task[u].sent /\ task'[u].refs = task[u].refs
  /\ Stage(u, o) # "s_send" => NewCard(u)' = NewCard(u)
  /\ \A l \in {"d_open", "t_link"} : task'[u].pc = l <=> task[u].pc = l

SameCards(o) ==
  \A a \in Admins, m \in Msgs :
    /\ IsCard(o, a, m)' <=> IsCard(o, a, m)
    /\ IsCard(o, a, m) => msg'[m].buttons = msg[m].buttons

\* the same state has the same buttons
LEMMA MarkupSame ==
  ASSUME NEW r, NEW s, r.status = s.status, r.over = s.over
  PROVE  Markup(r) = Markup(s)
BY DEF Markup

\* a stage of the work on an order is kept with the row and the cards
LEMMA PhaseKept ==
  ASSUME NEW o \in Orders, NEW u \in Tasks, SameRow(o), SameWork(u, o), SameCards(o),
         HasNone(o) => HasNone(o)' \/ order[o].status # "pending", Phase(u, o)
  PROVE  Phase(u, o)'
<1>1. Markup(order'[o]) = Markup(order[o])
  BY MarkupSame DEF SameRow
<1>2. /\ Lettered(o) => Lettered(o)'
      /\ Cards(o) => Cards(o)'
      /\ Stored(o)' = Stored(o) /\ InProgress(o)' = InProgress(o)
  BY <1>1 DEF Lettered, Cards, OneEach, SameRow, SameCards, Stored, InProgress
<1>3. /\ Sent(u, o) => Sent(u, o)'
      /\ SameState(u, o) => SameState(u, o)'
      /\ Same(u, o) => Same(u, o)'
  BY DEF Sent, OneEach, SameState, Same, SameRow, SameCards, SameWork
<1>4. Stage(u, o) # "s_send" /\ Twin(u, o) => Twin(u, o)'
  BY DEF Twin, SameCards, SameWork
<1> QED
  BY <1>2, <1>3, <1>4 DEF Phase, Fit, SameRow, SameWork, Placing


\* a step that has nothing to do with the order
LEMMA AsideKept ==
  ASSUME NEW o \in Orders, SameRow(o), Work(o)' = Work(o), \A u \in Work(o) : SameWork(u, o),
         \A m \in Msgs : Of(m) = o \/ Of(m)' = o => msg'[m] = msg[m],
         \A m \in Msgs : Of(m) = o => (m \in relay' <=> m \in relay),
         OrderInv(o)
  PROVE  OrderInv(o)'
<1>1. CardTasks(o)' = CardTasks(o) /\ Work(o) \subseteq Tasks /\ CardTasks(o) \subseteq Work(o)
  BY DEF CardTasks, Work, SameWork
<1>2. Alone(o)'
  BY <1>1 DEF OrderInv, Alone, SameRow, SameWork
<1>3. \A m \in Msgs : /\ Of(m)' = o <=> Of(m) = o
                      /\ Of(m) = o => msg'[m] = msg[m]
  BY DEF Of
<1>4. SameCards(o) /\ (HasNone(o) => HasNone(o)') /\ \A m \in Msgs : Seen(o, m)' <=> Seen(o, m)
  BY <1>3 DEF SameCards, IsCard, HasNone, Seen, Visible, Of
<1>5. Stored(o)' = Stored(o) /\ InProgress(o)' = InProgress(o) /\ \A m \in Msgs : Known(o, m)' <=> Known(o, m)
  BY DEF Stored, InProgress, Known, SameRow
<1>6. PhaseInv(o)'
  <2>1. ASSUME NEW u \in CardTasks(o)' PROVE Phase(u, o)'
    <3>1. u \in Tasks /\ u \in CardTasks(o) /\ SameWork(u, o)
      BY <1>1, <2>1
    <3>2. Phase(u, o)
      BY <3>1 DEF OrderInv, PhaseInv
    <3> QED
      BY <1>4, <3>1, <3>2, PhaseKept
  <2>2. Markup(order'[o]) = Markup(order[o])
    BY MarkupSame DEF SameRow
  <2>3. Fit(o) => Fit(o)'
    BY <1>4, <2>2 DEF Fit, Cards, OneEach, Lettered, SameCards, SameRow
  <2> QED
    BY <1>1, <1>4, <1>5, <2>1, <2>3 DEF OrderInv, PhaseInv, SameRow
<1>7. \A u \in CardTasks(o) : /\ At(u, "d_open")' <=> At(u, "d_open")
                              /\ \A m \in Msgs : Carries(u, o, m)' <=> Carries(u, o, m)
                              /\ \A m \in Msgs : Loose(u, o, m)' <=> Loose(u, o, m)
  <2>1. ASSUME NEW u \in CardTasks(o) PROVE SameWork(u, o)
    BY <1>1
  <2>2. ASSUME NEW u \in CardTasks(o), NEW m \in Msgs
        PROVE  (Carries(u, o, m)' <=> Carries(u, o, m)) /\ (Loose(u, o, m)' <=> Loose(u, o, m))
    BY <1>5, <2>1 DEF Carries, Loose, SameWork
  <2>3. ASSUME NEW u \in CardTasks(o) PROVE At(u, "d_open")' <=> At(u, "d_open")
    BY <2>1 DEF At, SameWork
  <2> QED
    BY <2>2, <2>3
<1>8. TalkInv(o)'
  BY <1>1, <1>5, <1>7 DEF OrderInv, TalkInv, SameRow, SameWork
<1>9. \A m \in Msgs : Awaited(o, m)' <=> Awaited(o, m)
  <2>1. ASSUME NEW u \in Work(o) PROVE (At(u, "t_link")' <=> At(u, "t_link")) /\ task'[u].refs = task[u].refs
    BY DEF At, SameWork
  <2> QED
    BY <2>1 DEF Awaited
<1>10. LinkInv(o)'
  <2>1. ASSUME NEW m \in Msgs, Of(m)' = o
        PROVE  /\ Seen(o, m)' /\ Stored(o)' => \/ m \in relay' \/ Known(o, m)' \/ Awaited(o, m)'
                                               \/ \E u \in CardTasks(o)' : Carries(u, o, m)'
               /\ Seen(o, m)' /\ order'[o].chat => \/ m \in relay' \/ Awaited(o, m)'
                                                   \/ \E u \in CardTasks(o)' : Loose(u, o, m)'
               /\ order'[o].status = "deleted" =>
                    m \notin relay' /\ (Visible(m)' => \E u \in CardTasks(o)' : m \in task'[u].refs)
    <3>1. Of(m) = o /\ (m \in relay' <=> m \in relay) /\ (Visible(m)' <=> Visible(m))
      BY <1>3, <2>1 DEF Visible
    <3>2. \A u \in CardTasks(o) : task'[u].refs = task[u].refs
      BY <1>1 DEF SameWork
    <3> QED
      BY <1>1, <1>4, <1>5, <1>7, <1>9, <3>1, <3>2 DEF OrderInv, LinkInv, SameRow
  <2> QED
    BY <2>1 DEF LinkInv, Seen
<1> QED
  BY <1>2, <1>6, <1>8, <1>10 DEF OrderInv


-----------------------------------------------------------------------------
(* The step of a task that works on the order *)

\* what the other tasks have of the order
LEMMA RestWork ==
  ASSUME NEW o \in Orders, NEW t \in Tasks, Rest(t)
  PROVE  /\ \A u \in Tasks \ {t} : /\ u \in Work(o)' <=> u \in Work(o)
                                   /\ u \in CardTasks(o)' <=> u \in CardTasks(o)
                                   /\ SameWork(u, o) /\ task'[u] = task[u]
         /\ Work(o) \subseteq Tasks /\ Work(o)' \subseteq Tasks
         /\ CardTasks(o) \subseteq Work(o) /\ CardTasks(o)' \subseteq Work(o)'
BY DEF Rest, Work, CardTasks, SameWork, Stage, Current, NewCard

\* A task that is not at an order, before and after its step, leaves the work on that order as it
\* is.
LEMMA Outside ==
  ASSUME NEW o \in Orders, NEW t \in Tasks, Rest(t), t \notin Work(o), t \notin Work(o)'
  PROVE  Work(o)' = Work(o) /\ \A u \in Work(o) : SameWork(u, o)
<1>1. \A u \in Work(o) : u \in Tasks \ {t}
  BY RestWork
<1>2. \A u \in Work(o)' : u \in Tasks \ {t}
  BY RestWork
<1> QED
  BY <1>1, <1>2, RestWork

\* the links of the order when no other task works on its cards
BeforeLinks(t, o) ==
  \A m \in Msgs : Of(m) = o =>
    /\ Visible(m) /\ Stored(o) => \/ m \in relay \/ Known(o, m) \/ Awaited(o, m)
                                  \/ t \in Work(o) /\ Carries(t, o, m)
    /\ Visible(m) /\ order[o].chat => m \in relay \/ Awaited(o, m) \/ (t \in Work(o) /\ Loose(t, o, m))
    /\ order[o].status = "deleted" => m \notin relay /\ (Visible(m) => t \in Work(o) /\ m \in task[t].refs)

AfterLinks(t, o) ==
  \A m \in Msgs : Of(m)' = o =>
    /\ Visible(m)' /\ Stored(o)' => \/ m \in relay' \/ Known(o, m)' \/ Awaited(o, m)
                                    \/ t \in Work(o)' /\ Carries(t, o, m)'
    /\ Visible(m)' /\ order'[o].chat => m \in relay' \/ Awaited(o, m) \/ (t \in Work(o)' /\ Loose(t, o, m)')
    /\ order'[o].status = "deleted" => m \notin relay' /\ (Visible(m)' => t \in Work(o)' /\ m \in task'[t].refs)

\* While no other handler is at the order's cards, every message of the order is known to the row,
\* linked, or in the hands of this task.
LEMMA LinksBefore ==
  ASSUME NEW o \in Orders, NEW t \in Tasks, OrderInv(o), CardTasks(o) \subseteq {t}
  PROVE  BeforeLinks(t, o)
<1>1. \A u \in CardTasks(o) : u = t /\ t \in Work(o)
  BY DEF CardTasks
<1> QED
  BY <1>1 DEF OrderInv, LinkInv, BeforeLinks, Seen

\* the only task at the cards moves, begins or ends
LEMMA OwnKept ==
  ASSUME NEW o \in Orders, NEW t \in Tasks, Rest(t), OrderInv(o), CardTasks(o) \subseteq {t},
         task[t].kind # "talk", task'[t].kind # "talk", ~At(t, "t_link"),
         t \in Work(o)' => Phase(t, o)',
         t \notin Work(o)' /\ Stored(o)' => Fit(o)',
         order'[o].status # "none",
         t \in Work(o)' /\ task'[t].kind = "clean" => Work(o) \subseteq {t},
         order'[o].chat => InProgress(o)',
         order'[o].status = "pending" => ~order'[o].over,
         order'[o].status \in {"pending", "deleted"} \/ (t \in Work(o)' /\ At(t, "d_open")') =>
           \A u \in Work(o) : u = t \/ task[u].kind # "talk",
         AfterLinks(t, o)
  PROVE  OrderInv(o)'
<1>1. /\ \A u \in CardTasks(o)' : u = t /\ t \in Work(o)'
      /\ t \in Work(o)' => t \in CardTasks(o)'
  BY RestWork DEF CardTasks
<1>2. \A u \in Work(o)' : u = t \/ (u \in Work(o) /\ u # t /\ task'[u] = task[u] /\ task[u].kind = "talk")
  <2>1. \A u \in Work(o) : u # t => task[u].kind = "talk"
    BY DEF CardTasks
  <2> QED
    BY <2>1, RestWork
<1>3. Alone(o)'
  BY <1>1, <1>2 DEF Alone
<1>4. PhaseInv(o)'
  BY <1>1 DEF PhaseInv
<1>5. TalkInv(o)'
  BY <1>1, <1>2 DEF TalkInv
<1>6. \A m \in Msgs : Awaited(o, m) => Awaited(o, m)'
  BY RestWork DEF Awaited, At
<1>7. LinkInv(o)'
  BY <1>1, <1>6 DEF LinkInv, AfterLinks, Seen
<1> QED
  BY <1>3, <1>4, <1>5, <1>7 DEF OrderInv


\* a message of the customer is relayed: the cards stay as they are
LEMMA TalkKept ==
  ASSUME NEW o \in Orders, NEW t \in Tasks, Rest(t), OrderInv(o), SameRow(o), SameCards(o),
         t \notin CardTasks(o), t \notin CardTasks(o)',
         order[o].status \notin {"none", "pending", "deleted"},
         \A u \in CardTasks(o) : ~At(u, "d_open") /\ task[u].kind # "clean",
         \A m \in Msgs : Seen(o, m)' =>
           \/ Awaited(o, m)'
           \/ Seen(o, m) /\ (m \in relay => m \in relay') /\ (Awaited(o, m) => m \in relay')
  PROVE  OrderInv(o)'
<1>1. CardTasks(o)' = CardTasks(o) /\ \A u \in CardTasks(o) : SameWork(u, o) /\ u \in Tasks /\ task'[u] = task[u]
  <2>1. \A u \in CardTasks(o) : u \in Tasks \ {t}
    BY RestWork
  <2>2. \A u \in CardTasks(o)' : u \in Tasks \ {t}
    BY RestWork
  <2> QED
    BY <2>1, <2>2, RestWork
<1>2. \A u \in Work(o)' : task'[u].kind # "clean"
  <2>1. ASSUME NEW u \in Work(o)' PROVE task'[u].kind # "clean"
    <3>1. CASE u \in CardTasks(o)'
      BY <1>1, <3>1
    <3>2. CASE u \notin CardTasks(o)'
      BY <3>2 DEF CardTasks
    <3> QED
      BY <3>1, <3>2
  <2> QED
    BY <2>1
<1>3. Alone(o)'
  BY <1>1, <1>2 DEF OrderInv, Alone, SameRow
<1>4. PhaseInv(o)'
  <2>1. ASSUME NEW u \in CardTasks(o) PROVE Phase(u, o)'
    BY <1>1, <2>1, PhaseKept DEF OrderInv, PhaseInv
  <2>2. Markup(order'[o]) = Markup(order[o])
    BY MarkupSame DEF SameRow
  <2>3. Fit(o) => Fit(o)'
    BY <2>2 DEF Fit, Cards, OneEach, Lettered, SameCards, SameRow
  <2> QED
    BY <1>1, <2>1, <2>3 DEF OrderInv, PhaseInv, SameRow, Stored
<1>5. TalkInv(o)'
  BY <1>1 DEF OrderInv, TalkInv, SameRow, At, InProgress
<1>6. LinkInv(o)'
  <2>1. \A m \in Msgs : Known(o, m)' <=> Known(o, m)
    BY DEF Known, SameRow
  <2>2. \A u \in CardTasks(o), m \in Msgs : Carries(u, o, m)' <=> Carries(u, o, m)
    <3>1. ASSUME NEW u \in CardTasks(o), NEW m \in Msgs PROVE Carries(u, o, m)' <=> Carries(u, o, m)
      BY <1>1 DEF Carries, SameWork
    <3> QED
      BY <3>1
  <2>3. \A u \in CardTasks(o), m \in Msgs : Loose(u, o, m)' <=> Loose(u, o, m)
    <3>1. ASSUME NEW u \in CardTasks(o), NEW m \in Msgs PROVE Loose(u, o, m)' <=> Loose(u, o, m)
      BY <1>1, <2>1 DEF Loose, SameWork
    <3> QED
      BY <3>1
  <2>4. Stored(o)' = Stored(o)
    BY DEF Stored, SameRow
  <2>5. ASSUME NEW m \in Msgs, Seen(o, m)'
        PROVE  /\ Stored(o)' => \/ m \in relay' \/ Known(o, m)' \/ Awaited(o, m)'
                                \/ \E u \in CardTasks(o)' : Carries(u, o, m)'
               /\ order'[o].chat => \/ m \in relay' \/ Awaited(o, m)'
                                    \/ \E u \in CardTasks(o)' : Loose(u, o, m)'
    <3>1. CASE Awaited(o, m)'
      BY <3>1
    <3>2. CASE Seen(o, m) /\ (m \in relay => m \in relay') /\ (Awaited(o, m) => m \in relay')
      BY <1>1, <2>1, <2>2, <2>3, <2>4, <3>2 DEF OrderInv, LinkInv, SameRow
    <3> QED
      BY <2>5, <3>1, <3>2
  <2>6. order'[o].status # "deleted"
    BY DEF SameRow
  <2> QED
    BY <2>5, <2>6 DEF LinkInv
<1> QED
  BY <1>3, <1>4, <1>5, <1>6 DEF OrderInv


\* whose a task is that works on one order, or on none
LEMMA OneOrder ==
  ASSUME NEW o \in Orders, NEW t \in Tasks, NEW q, task[t].list = {q}, task[t].kind \notin {"remind", "show"}
  PROVE  /\ t \in Work(o) <=> o = q
         /\ t \in CardTasks(o) <=> o = q /\ task[t].kind # "talk"
         /\ Stage(t, o) = task[t].pc
BY DEF Work, CardTasks, Stage

\* A handler of a single order is at work on that order and no other.
LEMMA OneOrderAfter ==
  ASSUME NEW o \in Orders, NEW t \in Tasks, NEW q, task'[t].list = {q}, task'[t].kind \notin {"remind", "show"}
  PROVE  /\ t \in Work(o)' <=> o = q
         /\ t \in CardTasks(o)' <=> o = q /\ task'[t].kind # "talk"
         /\ Stage(t, o)' = task'[t].pc
BY DEF Work, CardTasks, Stage

\* A task that starts, ends or reminds is at no order's cards.
LEMMA NoOrderNow ==
  ASSUME NEW o \in Orders, NEW t \in Tasks
  PROVE  /\ task[t] = Free => t \notin Work(o) /\ t \notin CardTasks(o) /\ task[t].kind = "none" /\ ~At(t, "t_link")
         /\ task[t].kind = "remind" => t \notin Work(o)
         /\ Ends(t) => t \notin Work(o)' /\ t \notin CardTasks(o)' /\ task'[t].kind = "none"
         /\ task'[t].kind = "remind" => t \notin Work(o)'
BY DEF Work, CardTasks, Ends, Free, At

\* a step that writes nothing of the order
Spares(o) ==
  /\ SameRow(o)
  /\ \A m \in Msgs : Of(m) = o \/ Of(m)' = o => msg'[m] = msg[m]
  /\ \A m \in Msgs : Of(m) = o => (m \in relay' <=> m \in relay)

\* An order keeps its invariant under a step of a task that is not at it and spares its row and
\* its messages.
LEMMA SparedKept ==
  ASSUME NEW o \in Orders, NEW t \in Tasks, Rest(t), t \notin Work(o), t \notin Work(o)', Spares(o), OrderInv(o)
  PROVE  OrderInv(o)'
<1>1. Work(o)' = Work(o) /\ \A u \in Work(o) : SameWork(u, o)
  BY Outside
<1> QED
  BY <1>1, AsideKept DEF Spares

\* A step that leaves the order's row, the messages and the links alone spares the order.
LEMMA ElsewhereSpares ==
  ASSUME NEW o \in Orders, order'[o] = order[o], UNCHANGED <<msg, relay>>
  PROVE  Spares(o)
BY DEF Spares, SameRow

\* reminders touch no card
LEMMA RemindClear ==
  ASSUME TypeInv, NEW o \in Orders, NEW t \in Tasks, OrderInv(o),
         RemindGet(t) \/ RemindSend(t) \/ Mark(t) \/ Remind(t)
  PROVE  OrderInv(o)'
<1>1. Rest(t) /\ t \notin Work(o) /\ t \notin Work(o)'
  <2>1. CASE Remind(t)
    BY <2>1, RemindLands, NoOrderNow
  <2>2. CASE RemindGet(t) \/ RemindSend(t) \/ Mark(t)
    <3>1. Moved(t) /\ task[t].kind = "remind" /\ task[t].pc \in Reminding /\ lastMsg' = lastMsg
      BY <2>2, RemindGetLands, RemindSendLands, MarkLands DEF Reminding, RemindGet, RemindSend, Mark
    <3>2. Goes(t, "r_send") \/ Goes(t, "r_mark") \/ NextReminder(t)
      BY <2>2, RemindGetLands, RemindSendLands, MarkLands
    <3>3. Ends(t) \/ task'[t].kind = "remind"
      BY <3>1, <3>2, NextReminderMoves DEF Goes, SameHand
    <3> QED
      BY <3>1, <3>3, NoOrderNow DEF Moved
  <2> QED
    BY <2>1, <2>2
<1>2. Spares(o)
  <2>1. UNCHANGED <<msg, relay>>
    BY DEF RemindGet, RemindSend, Mark, Remind
  <2>2. CASE UNCHANGED order
    BY <2>1, <2>2, ElsewhereSpares
  <2>3. CASE Mark(t) /\ order' = [order EXCEPT ![Current(t)].count = @ + 1]
    <3>1. Current(t) \in Orders /\ Current(t) \in task[t].list /\ task[t].kind = "remind"
      BY <2>3, AtStep, MarkLands DEF Mark, At
    <3>2. order[Current(t)].count < RemindMax /\ OrderTypes
      BY <3>1 DEF TypeInv, Due, TableTypes
    <3> QED
      BY <2>1, <2>3, <3>1, <3>2, CountMoves DEF Spares, SameRow, Elsewhere
  <2> QED
    BY <2>2, <2>3 DEF RemindGet, RemindSend, Mark, Remind, Missed
<1> QED
  BY <1>1, <1>2, SparedKept

\* the only task at the cards goes on, and writes nothing
LEMMA StillKept ==
  ASSUME NEW o \in Orders, NEW t \in Tasks, Rest(t), OrderInv(o), t \in CardTasks(o), t \in CardTasks(o)',
         order'[o] = order[o], UNCHANGED <<msg, relay>>, Phase(t, o)', task'[t].kind = task[t].kind,
         task'[t].refs = task[t].refs, ~At(t, "t_link"), ~At(t, "d_open")',
         \A m \in Msgs : Carries(t, o, m) => Carries(t, o, m)',
         \A m \in Msgs : Loose(t, o, m) => Loose(t, o, m)'
  PROVE  OrderInv(o)'
<1>1. CardTasks(o) \subseteq {t} /\ task[t].kind # "talk" /\ t \in Work(o) /\ t \in Work(o)'
  BY DEF OrderInv, Alone, CardTasks
<1>2. BeforeLinks(t, o)
  BY <1>1, LinksBefore
<1>3. AfterLinks(t, o)
  BY <1>1, <1>2 DEF BeforeLinks, AfterLinks, Of, Visible, Known, Stored
<1>4. order'[o].status # "none"
  BY <1>1 DEF OrderInv, Alone
<1>5. task'[t].kind = "clean" => Work(o) \subseteq {t}
  BY <1>1 DEF OrderInv, Alone
<1> QED
  BY <1>1, <1>3, <1>4, <1>5, OwnKept DEF OrderInv, TalkInv, InProgress


\* a handler reads the order
LEMMA ReadClear ==
  ASSUME TypeInv, NEW o \in Orders, NEW t \in Tasks, OrderInv(o), NotifyGet(t) \/ GetOrder(t) \/ CloseGet(t)
  PROVE  OrderInv(o)'
<1>0. /\ Moved(t) /\ Rest(t) /\ task[t].list = {Current(t)} /\ UNCHANGED <<order, msg, relay>>
      /\ task[t].kind \notin {"remind", "show", "talk"} /\ task[t].pc \in {"n_get", "g_get", "k_get"}
  BY NotifyGetLands, GetOrderLands, CloseGetLands DEF NotifyGet, GetOrder, CloseGet, Moved
<1>1. CASE o # Current(t)
  <2>1. t \notin Work(o)
    BY <1>0, <1>1, OneOrder
  <2>2. Ends(t) \/ SameHand(t)
    BY NotifyGetLands, GetOrderLands, CloseGetLands
  <2>3. t \notin Work(o)'
    BY <1>0, <1>1, <2>2, NoOrderNow, OneOrderAfter DEF SameHand
  <2> QED
    BY <1>0, <2>1, <2>3, SparedKept, ElsewhereSpares
<1>2. CASE o = Current(t)
  <2>1. t \in CardTasks(o) /\ Stage(t, o) = task[t].pc
    BY <1>0, <1>2, OneOrder
  <2>2. Phase(t, o)
    BY <2>1 DEF OrderInv, PhaseInv
  <2>3. /\ task'[t].pc = IF task[t].pc = "n_get" THEN "n_send" ELSE IF task[t].pc = "g_get" THEN "g_edit" ELSE "k_edit"
        /\ SameHand(t) /\ SameMail(t) /\ task'[t].rows[o] = order[o]
    <3>1. CASE NotifyGet(t)
      <4>1. Stored(o) /\ task[t].pc = "n_get"
        BY <1>2, <2>1, <2>2, <3>1, NotifyGetLands DEF Phase, Placing, Stored
      <4> QED
        BY <1>2, <3>1, <4>1, NotifyGetLands
    <3>2. CASE GetOrder(t)
      <4>1. Stored(o) /\ Cards(o) /\ task[t].pc = "g_get"
        BY <2>1, <2>2, <3>2, GetOrderLands DEF Phase
      <4>2. 1 \in Admins
        BY Constants DEF Admins
      <4>3. order[o].cards[1] # NoMsg /\ NoCards[1] = NoMsg
        BY <4>1, <4>2, Constants DEF Cards, OneEach, NoCards
      <4> QED
        BY <1>2, <3>2, <4>1, <4>3, GetOrderLands
    <3>3. CASE CloseGet(t)
      BY <1>2, <3>3, CloseGetLands
    <3> QED
      BY <3>1, <3>2, <3>3
  <2>4. t \in CardTasks(o)' /\ Stage(t, o)' = task'[t].pc /\ task'[t].kind = task[t].kind /\ task'[t].refs = task[t].refs
    BY <1>0, <1>2, <2>3, OneOrderAfter DEF SameHand, SameMail
  <2>5. Phase(t, o)'
    <3>1. Same(t, o)' /\ SameState(t, o)'
      BY <1>0, <2>3 DEF Same, SameState
    <3>2. /\ HasNone(o)' = HasNone(o) /\ Stored(o)' = Stored(o) /\ InProgress(o)' = InProgress(o)
          /\ Cards(o)' = Cards(o) /\ Lettered(o)' = Lettered(o)
      BY <1>0 DEF HasNone, Stored, InProgress, Cards, OneEach, Lettered, IsCard, Of
    <3> QED
      BY <1>0, <2>1, <2>2, <2>3, <2>4, <3>1, <3>2 DEF Phase, Placing, Fit
  <2>6. ~At(t, "t_link") /\ ~At(t, "d_open")'
    BY <1>0, <2>3 DEF At
  <2>7. ASSUME NEW m \in Msgs
        PROVE  (Carries(t, o, m) => Carries(t, o, m)') /\ (Loose(t, o, m) => Loose(t, o, m)')
    BY <1>0, <2>1, <2>4 DEF Carries, Loose, Known
  <2> QED
    BY <1>0, <2>1, <2>4, <2>5, <2>6, <2>7, StillKept
<1> QED
  BY <1>1, <1>2


\* who begins at an order where no tasks meet finds nobody at its cards
LEMMA MeetsNobody ==
  ASSUME TypeInv, NEW k, NEW S \in SUBSET Orders, NEW o \in S, Meet(k, S), o \notin mixed'
  PROVE  /\ k \notin {"talk", "clean", "remind"} => CardTasks(o) = {}
         /\ k = "clean" => Work(o) = {}
         /\ k = "talk" => \A u \in Work(o) : task[u].kind # "clean"
<1>1. \A u \in Work(o) : Apart(k, task[u].kind) /\ task[u].kind # "remind"
  BY MeetMoves DEF Work, Busy
<1>2. CardTasks(o) \subseteq Work(o) /\ \A u \in CardTasks(o) : task[u].kind # "talk"
  BY DEF CardTasks
<1> QED
  BY <1>1, <1>2 DEF Apart

\* A handler that starts at an order where no other is at the cards keeps the order's invariant,
\* when the stage it starts in agrees with the row.
LEMMA BeginKept ==
  ASSUME TypeInv, NEW o \in Orders, NEW t \in Tasks, Rest(t), OrderInv(o), task[t] = Free, CardTasks(o) = {},
         t \in Work(o)', task'[t].kind \notin {"talk", "clean"}, UNCHANGED <<msg, relay>>,
         order'[o].cards = order[o].cards, Stored(o), Stored(o)',
         order'[o].chat => order[o].chat /\ InProgress(o)',
         order'[o].status = "pending" => order[o].status = "pending" /\ order'[o].over = order[o].over,
         At(t, "d_open")' => order[o].status = "pending",
         Phase(t, o)'
  PROVE  OrderInv(o)'
<1>1. ~At(t, "t_link") /\ task[t].kind = "none" /\ t \notin Work(o)
  BY NoOrderNow
<1>2. BeforeLinks(t, o)
  BY LinksBefore
<1>3. AfterLinks(t, o)
  BY <1>1, <1>2 DEF BeforeLinks, AfterLinks, Of, Visible, Known, Stored
<1>4. \A u \in Work(o) : order[o].status = "pending" => task[u].kind # "talk"
  BY DEF OrderInv, TalkInv
<1>5. order'[o].status \notin {"none", "deleted"}
  BY DEF Stored
<1> QED
  BY <1>1, <1>3, <1>4, <1>5, OwnKept DEF OrderInv, TalkInv


\* the handler of a button begins
LEMMA TapKept ==
  ASSUME TypeInv, NEW o \in Orders, NEW t \in Tasks, OrderInv(o), o \notin mixed', UNCHANGED <<msg, relay, lastMsg>>,
         NEW k \in {"decide", "finish", "withdraw"}, NEW l \in {"d_open", "g_get"}, l = "d_open" => k = "decide",
         Begin(t, k, o, l), Stored(o), order'[o].cards = order[o].cards, ~order'[o].chat,
         order'[o].status \in {"accepted", "rejected"},
         l = "d_open" => order[o].status = "pending" /\ InProgress(o)'
  PROVE  OrderInv(o)'
<1>1. /\ Rest(t) /\ task[t] = Free /\ task'[t].pc = l /\ task'[t].kind = k /\ task'[t].list = {o} /\ Meet(k, {o})
  BY TapLands DEF Moved
<1>2. CardTasks(o) = {} /\ t \in Work(o)' /\ Stage(t, o)' = l
  BY <1>1, MeetsNobody, OneOrderAfter
<1>3. Fit(o) /\ Stored(o)'
  BY <1>2 DEF OrderInv, PhaseInv, Stored
<1>4. Cards(o)'
  BY <1>3 DEF Fit, Cards, OneEach, IsCard, Of
<1>5. Phase(t, o)'
  BY <1>1, <1>2, <1>3, <1>4 DEF Phase, Placing
<1> QED
  BY <1>1, <1>2, <1>3, <1>5, BeginKept DEF At

\* it has begun at another order
LEMMA TapAside ==
  ASSUME TypeInv, NEW o \in Orders, NEW t \in Tasks, NEW q \in Orders \ {o}, OrderInv(o), Rest(t), task[t] = Free,
         task'[t].list = {q}, Elsewhere(q), UNCHANGED <<msg, relay>>
  PROVE  OrderInv(o)'
<1>1. t \notin Work(o) /\ t \notin Work(o)'
  BY NoOrderNow DEF Work
<1>2. order'[o] = order[o]
  BY DEF Elsewhere
<1> QED
  BY <1>1, <1>2, SparedKept, ElsewhereSpares

\* a verdict, an outcome or a withdrawal
LEMMA TapClear ==
  ASSUME TypeInv, NEW o \in Orders, NEW t \in Tasks, NEW q \in Orders, OrderInv(o), o \notin mixed',
         \/ Finish(t, q) \/ Withdraw(t, q)
         \/ \E verdict \in {"accepted", "rejected"} : Decide(t, q, verdict)
  PROVE  OrderInv(o)'
<1>0. OrderTypes
  BY DEF TypeInv, TableTypes
<1>1. CASE Finish(t, q)
  <2>1. Begin(t, "finish", q, "g_get") /\ UNCHANGED <<msg, relay, lastMsg>> /\ InProgress(q)
    BY <1>1 DEF Finish
  <2>2. Elsewhere(q) /\ order'[q].cards = order[q].cards /\ ~order'[q].chat /\ order'[q].status = order[q].status
    BY <1>0, <1>1, FinishMoves DEF Finish
  <2>3. CASE q = o
    BY <2>1, <2>2, <2>3, TapKept DEF InProgress, Stored
  <2>4. CASE q # o
    BY <2>1, <2>2, <2>4, TapLands, TapAside DEF Moved
  <2> QED
    BY <2>3, <2>4
<1>2. CASE Withdraw(t, q)
  <2>1. Begin(t, "withdraw", q, "g_get") /\ UNCHANGED <<msg, relay, lastMsg>> /\ order[q].status = "pending"
    BY <1>2 DEF Withdraw
  <2>2. Elsewhere(q) /\ order'[q].cards = order[q].cards /\ ~order'[q].chat /\ order'[q].status = "rejected"
    BY <1>0, <1>2, WithdrawMoves DEF Withdraw
  <2>3. CASE q = o
    BY <2>1, <2>2, <2>3, TapKept DEF Stored
  <2>4. CASE q # o
    BY <2>1, <2>2, <2>4, TapLands, TapAside DEF Moved
  <2> QED
    BY <2>3, <2>4
<1>3. ASSUME NEW verdict \in {"accepted", "rejected"}, Decide(t, q, verdict)
      PROVE  OrderInv(o)'
  <2>1. PICK l \in {"d_open", "g_get"} : Begin(t, "decide", q, l) /\ (l = "d_open" => verdict = "accepted")
    BY <1>3 DEF Decide
  <2>2. UNCHANGED <<msg, relay, lastMsg>> /\ order[q].status = "pending"
    BY <1>3 DEF Decide
  <2>3. Elsewhere(q) /\ order'[q].cards = order[q].cards /\ order'[q].chat = order[q].chat /\ order'[q].status = verdict
        /\ order'[q].over = order[q].over
    BY <1>0, <1>3, StatusMoves DEF Decide
  <2>4. CASE q = o
    <3>1. ~order[o].chat /\ ~order[o].over
      BY <2>2, <2>4 DEF OrderInv, TalkInv, InProgress
    <3> QED
      BY <2>1, <2>2, <2>3, <2>4, <3>1, TapKept DEF Stored, InProgress
  <2>5. CASE q # o
    <3>1. Rest(t) /\ task[t] = Free /\ task'[t].list = {q}
      BY <2>1, <2>2, TapLands DEF Moved
    <3> QED
      BY <2>2, <2>3, <2>5, <3>1, TapAside
  <2> QED
    BY <2>4, <2>5
<1> QED
  BY <1>1, <1>2, <1>3


\* the end of the chat
LEMMA CloseClear ==
  ASSUME TypeInv, NEW o \in Orders, NEW t \in Tasks, NEW m \in Msgs, OrderInv(o), o \notin mixed', Close(t, m)
  PROVE  OrderInv(o)'
<1> DEFINE q == msg[m].of
<1>1. /\ q \in Orders /\ Rest(t) /\ task[t] = Free /\ Meet("close", {q})
      /\ task'[t].pc = "k_get" /\ task'[t].kind = "close" /\ task'[t].list = {q}
  BY CloseLeads DEF Moved
<1>2. UNCHANGED <<msg, relay>> /\ order[q].chat /\ order' = [order EXCEPT ![q].chat = FALSE]
  BY DEF Close
<1>3. OrderTypes
  BY DEF TypeInv, TableTypes
<1> HIDE DEF q
<1>4. /\ Elsewhere(q) /\ order'[q].cards = order[q].cards /\ ~order'[q].chat
      /\ order'[q].status = order[q].status /\ order'[q].over = order[q].over
  BY <1>1, <1>2, <1>3, ChatMoves
<1>5. CASE q # o
  BY <1>1, <1>2, <1>4, <1>5, TapAside
<1>6. CASE q = o
  <2>1. CardTasks(o) = {} /\ t \in Work(o)' /\ Stage(t, o)' = "k_get"
    BY <1>1, <1>6, MeetsNobody, OneOrderAfter
  <2>2. InProgress(o) /\ Stored(o)
    BY <1>2, <1>6 DEF OrderInv, TalkInv, InProgress, Stored
  <2>3. Fit(o)
    BY <2>1, <2>2 DEF OrderInv, PhaseInv
  <2>4. Markup(order'[o]) = Markup(order[o]) /\ order'[o].cards = order[o].cards
    BY <1>4, <1>6, MarkupSame
  <2>5. Cards(o)' /\ Lettered(o)'
    BY <1>2, <2>3, <2>4 DEF Fit, Cards, OneEach, Lettered, IsCard, Of
  <2>6. InProgress(o)' /\ Stored(o)' /\ ~order'[o].chat /\ order'[o].status # "pending"
    BY <1>4, <1>6, <2>2 DEF InProgress, Stored
  <2>7. Phase(t, o)'
    BY <1>1, <2>1, <2>5, <2>6 DEF Phase, Placing, Fit
  <2>8. ~At(t, "d_open")'
    BY <1>1 DEF At
  <2> QED
    BY <1>1, <1>2, <2>1, <2>2, <2>4, <2>6, <2>7, <2>8, BeginKept
<1> QED
  BY <1>5, <1>6

\* a list of orders is to be shown
LEMMA ListClear ==
  ASSUME TypeInv, NEW o \in Orders, NEW t \in Tasks, NEW a \in Admins, NEW S \in SUBSET Orders,
         OrderInv(o), o \notin mixed', Show(t, a, S), \A q \in S : order[q].status = "pending" \/ InProgress(q)
  PROVE  OrderInv(o)'
<1>1. /\ Rest(t) /\ task[t] = Free /\ Meet("show", S)
      /\ task'[t].pc = "s_send" /\ task'[t].kind = "show" /\ task'[t].list = S
      /\ \A q \in S : task'[t].rows[q] = order[q]
  BY ShowLands DEF Moved
<1>2. UNCHANGED <<order, msg, relay>>
  BY DEF Show
<1>3. CASE o \notin S
  <2>1. t \notin Work(o) /\ t \notin Work(o)'
    BY <1>1, <1>3, NoOrderNow DEF Work
  <2> QED
    BY <1>1, <1>2, <2>1, SparedKept, ElsewhereSpares
<1>4. CASE o \in S
  <2>1. CardTasks(o) = {}
    BY <1>1, <1>4, MeetsNobody
  <2>2. t \in Work(o)' /\ Stage(t, o)' = "s_send"
    BY <1>1, <1>4 DEF Work, Stage
  <2>3. Stored(o) /\ Fit(o)
    BY <1>4, <2>1 DEF OrderInv, PhaseInv, Stored, InProgress
  <2>4. Stored(o)' /\ Fit(o)' /\ InProgress(o)' = InProgress(o)
    BY <1>2, <2>3 DEF Stored, Fit, Cards, OneEach, Lettered, IsCard, Of, InProgress
  <2>5. Same(t, o)'
    BY <1>1, <1>2, <1>4 DEF Same, SameState
  <2>6. Phase(t, o)'
    BY <1>1, <2>2, <2>4, <2>5 DEF Phase, Placing
  <2>7. ~At(t, "d_open")' /\ (order[o].chat => InProgress(o))
    BY <1>1 DEF At, OrderInv, TalkInv
  <2> QED
    BY <1>1, <1>2, <2>1, <2>2, <2>3, <2>4, <2>6, <2>7, BeginKept
<1> QED
  BY <1>3, <1>4

\* a new order
LEMMA PlaceClear ==
  ASSUME TypeInv, NEW o \in Orders, NEW t \in Tasks, NEW q \in Orders, OrderInv(o), Place(t, q)
  PROVE  OrderInv(o)'
<1>1. /\ Rest(t) /\ task[t] = Free /\ task'[t].pc = "n_get" /\ task'[t].kind = "place" /\ task'[t].list = {q}
  BY PlaceLands DEF Moved
<1>2. UNCHANGED <<msg, relay>> /\ order[q].status = "none" /\ order' = [order EXCEPT ![q].status = "pending"]
  BY DEF Place
<1>3. /\ Elsewhere(q) /\ order'[q].cards = order[q].cards /\ order'[q].chat = order[q].chat
      /\ order'[q].status = "pending" /\ order'[q].over = order[q].over
  BY <1>2, StatusMoves DEF TypeInv, TableTypes
<1>4. CASE q # o
  BY <1>1, <1>2, <1>3, <1>4, TapAside
<1>5. CASE q = o
  <2>1. Work(o) = {} /\ CardTasks(o) = {}
    BY <1>2, <1>5 DEF OrderInv, Alone, CardTasks
  <2>2. HasNone(o) /\ order[o].cards = NoCards /\ ~order[o].chat /\ ~order[o].over
    BY <1>2, <1>5, <2>1 DEF OrderInv, PhaseInv, TalkInv, InProgress
  <2>3. t \in Work(o)' /\ Stage(t, o)' = "n_get"
    BY <1>1, <1>5, OneOrderAfter
  <2>4. Phase(t, o)'
    BY <1>1, <1>2, <1>3, <1>5, <2>2, <2>3 DEF Phase, Placing, HasNone, Of
  <2>5. AfterLinks(t, o)
    BY <1>2, <2>2 DEF AfterLinks, HasNone, Of
  <2>6. task[t].kind = "none" /\ ~At(t, "t_link")
    BY <1>1, NoOrderNow
  <2> QED
    BY <1>1, <1>3, <1>5, <2>1, <2>2, <2>3, <2>4, <2>5, <2>6, OwnKept
<1> QED
  BY <1>4, <1>5


-----------------------------------------------------------------------------
(* The cards of a new order, and the lines of the chat *)

\* the ids that were reserved for the admins are nobody's
LEMMA PostFresh ==
  ASSUME TypeInv, RefInv, NEW t \in Tasks, task[t].pc \in {"n_send", "t_send"}
  PROVE  /\ task[t].base \in Nat
         /\ \A a \in Admins : task[t].base + a \in Msgs /\ (task[t].base + a) - task[t].base = a
         /\ \A m \in Msgs : m - task[t].base \in Admins =>
              Of(m) = NoOrder /\ task[t].base + (m - task[t].base) = m
         /\ \A m \in Msgs, a \in Admins : m - task[t].base = a <=> m = task[t].base + a
<1>1. task[t].base \in Nat /\ task[t].base + NumAdmins <= lastMsg
  BY RecordTyped, Constants DEF TypeInv, Held
<1>2. lastMsg \in Nat /\ lastMsg <= MaxMsgs
  BY Constants DEF TypeInv, CountTypes
<1>3. \A a \in Admins : task[t].base + a \in Msgs /\ (task[t].base + a) - task[t].base = a
  BY <1>1, <1>2, Constants
<1>4. ASSUME NEW m \in Msgs, m - task[t].base \in Admins
      PROVE  Of(m) = NoOrder /\ task[t].base + (m - task[t].base) = m
  <2>1. m \in Nat /\ task[t].base < m /\ m <= task[t].base + NumAdmins
    <3> DEFINE a == m - task[t].base
    <3>1. m \in Nat /\ a \in Nat /\ 1 <= a /\ a <= NumAdmins /\ m = task[t].base + a
      BY <1>1, <1>4, Constants
    <3> QED
      BY <1>1, <3>1, Constants
  <2>2. m \in Reserved(t)
    BY <2>1 DEF Reserved
  <2> QED
    BY <1>1, <2>1, <2>2 DEF RefInv, FreshInv
<1>5. \A m \in Msgs, a \in Admins : m - task[t].base = a <=> m = task[t].base + a
  BY <1>1, Constants
<1> QED
  BY <1>1, <1>3, <1>4, <1>5

\* The messages sent for one order spare every other order, since their ids were reserved for
\* them.
LEMMA PostSpares ==
  ASSUME TypeInv, RefInv, NEW o \in Orders, NEW t \in Tasks, task[t].pc \in {"n_send", "t_send"},
         NEW S \in SUBSET Admins, NEW q \in Orders \ {o}, NEW b \in Buttons \ {"hidden"},
         Post(S, task[t].base, q, b), UNCHANGED <<order, relay>>
  PROVE  Spares(o)
<1>1. /\ \A m \in Msgs : m - task[t].base \in S => msg'[m].of = q
      /\ \A m \in Msgs : m - task[t].base \notin S => msg'[m] = msg[m]
  BY PostFresh, PostMoves DEF TypeInv, TableTypes
<1>2. \A m \in Msgs : m - task[t].base \in S => Of(m) = NoOrder
  BY PostFresh
<1> QED
  BY <1>1, <1>2, Constants DEF Spares, SameRow, Of

\* who has ended has left the order
LEMMA EndsAside ==
  ASSUME TypeInv, NEW o \in Orders, NEW t \in Tasks, NEW q \in Orders \ {o}, OrderInv(o), Rest(t), Spares(o),
         task[t].list = {q}, Ends(t) \/ SameHand(t) \/ task'[t].list = {q}
  PROVE  OrderInv(o)'
<1>1. t \notin Work(o) /\ t \notin Work(o)'
  BY NoOrderNow DEF Work, SameHand
<1> QED
  BY <1>1, SparedKept

\* Sending the cards of a new order keeps every order consistent.
LEMMA NotifySendClear ==
  ASSUME TypeInv, RefInv, NEW o \in Orders, NEW t \in Tasks, OrderInv(o), NotifySend(t), faults' = 0
  PROVE  OrderInv(o)'
<1>1. /\ Rest(t) /\ task[t].pc = "n_send" /\ task[t].kind = "place" /\ task[t].list = {Current(t)}
      /\ Post(Admins, task[t].base, Current(t), Markup(RowOf(t)))
      /\ task'[t].pc = "n_save" /\ SameHand(t) /\ SameRows(t)
      /\ task'[t].sent = [a \in Admins |-> task[t].base + a]
  <2>1. PICK S \in SUBSET Admins :
          /\ Reached(S, Admins) /\ Post(S, task[t].base, Current(t), Markup(RowOf(t)))
          /\ \/ S = {} /\ Ends(t)
             \/ /\ S # {} /\ task'[t].pc = "n_save" /\ SameHand(t) /\ SameRows(t)
                /\ task'[t].base = task[t].base
                /\ task'[t].sent = [a \in Admins |-> IF a \in S THEN task[t].base + a ELSE NoMsg]
    BY NotifySendLands
  <2>2. S = Admins
    BY <2>1, ReachedCounts
  <2>3. Admins # {}
    BY Constants DEF Admins
  <2>4. task'[t].sent = [a \in Admins |-> task[t].base + a]
    BY <2>1, <2>2, <2>3
  <2> QED
    BY <2>1, <2>2, <2>3, <2>4, NotifySendLands DEF Moved
<1>2. UNCHANGED <<order, relay>> /\ Current(t) \in Orders
  BY <1>1, AtStep DEF NotifySend
<1>3. /\ \A m \in Msgs : m - task[t].base \in Admins =>
           msg'[m].of = Current(t) /\ msg'[m].admin = m - task[t].base /\ msg'[m].buttons = Markup(RowOf(t))
      /\ \A m \in Msgs : m - task[t].base \notin Admins => msg'[m] = msg[m]
  BY <1>1, <1>2, PostFresh, PostMoves, MarkupTyped DEF TypeInv, TableTypes
<1>4. CASE o # Current(t)
  <2>1. Spares(o)
    BY <1>1, <1>2, <1>4, PostSpares, MarkupTyped
  <2> QED
    BY <1>1, <1>2, <1>4, <2>1, EndsAside
<1>5. CASE o = Current(t)
  <2>1. t \in CardTasks(o) /\ t \in Work(o) /\ Stage(t, o) = "n_send"
    BY <1>1, <1>5, OneOrder
  <2>2. CardTasks(o) \subseteq {t} /\ Phase(t, o)
    BY <2>1 DEF OrderInv, Alone, PhaseInv
  <2>3. t \in Work(o)' /\ Stage(t, o)' = "n_save" /\ task'[t].kind = "place"
    BY <1>1, <1>5, OneOrderAfter DEF SameHand
  <2>4. HasNone(o) /\ order[o].status = "pending" /\ order[o].cards = NoCards /\ ~order[o].chat /\ ~order[o].over
    BY <2>1, <2>2 DEF Phase, Placing, OrderInv, TalkInv, InProgress
  <2>5. Markup(RowOf(t)) = Markup(order[o])
    BY <1>5, <2>1, <2>2, MarkupSame DEF Phase, SameState, RowOf
  <2>6. /\ \A a \in Admins, m \in Msgs : IsCard(o, a, m)' <=> m = task[t].base + a
        /\ \A m \in Msgs : Of(m)' = o => /\ m - task[t].base \in Admins
                                         /\ msg'[m].buttons = Markup(order[o])
    <3>1. \A m \in Msgs : Of(m)' = o <=> m - task[t].base \in Admins
      BY <1>3, <1>5, <2>4 DEF HasNone, Of
    <3>2. Markup(order[o]) \in CardButtons
      BY MarkupTyped
    <3>3. \A m \in Msgs : m - task[t].base \in Admins => msg'[m].buttons = Markup(order[o]) /\ msg'[m].admin = m - task[t].base
      BY <1>3, <2>5
    <3>4. ASSUME NEW a \in Admins, NEW m \in Msgs PROVE IsCard(o, a, m)' <=> m - task[t].base = a
      BY <3>1, <3>2, <3>3 DEF IsCard
    <3>5. \A m \in Msgs, a \in Admins : m - task[t].base = a <=> m = task[t].base + a
      BY <1>1, PostFresh
    <3> QED
      BY <3>1, <3>3, <3>4, <3>5
  <2>7. Sent(t, o)' /\ Lettered(o)'
    BY <1>1, <1>2, <2>6, PostFresh DEF Sent, OneEach, Lettered, IsCard
  <2>8. Phase(t, o)'
    BY <1>2, <2>3, <2>4, <2>7 DEF Phase, Placing
  <2>9. AfterLinks(t, o)
    <3>1. ASSUME NEW m \in Msgs, Of(m)' = o
          PROVE  \E a \in Admins : task'[t].sent[a] = m
      BY <1>1, <2>6, <3>1, PostFresh
    <3> QED
      BY <1>2, <2>3, <2>4, <3>1 DEF AfterLinks, Carries
  <2>10. ~At(t, "t_link") /\ ~At(t, "d_open")'
    BY <1>1 DEF At
  <2>11. \A u \in Work(o) : u = t \/ task[u].kind # "talk"
    BY <2>4 DEF OrderInv, TalkInv
  <2> QED
    BY <1>1, <1>2, <2>2, <2>3, <2>4, <2>8, <2>9, <2>10, <2>11, OwnKept
<1> QED
  BY <1>4, <1>5


\* Saving the card ids of a new order keeps every order consistent.
LEMMA NotifySaveClear ==
  ASSUME TypeInv, NEW o \in Orders, NEW t \in Tasks, OrderInv(o), NotifySave(t)
  PROVE  OrderInv(o)'
<1>1. /\ Rest(t) /\ Ends(t) /\ task[t].pc = "n_save" /\ task[t].kind = "place" /\ task[t].list = {Current(t)}
      /\ Current(t) \in Orders /\ UNCHANGED <<msg, relay>> /\ task[t].sent \in CardTables
  BY NotifySaveLands, AtStep, RecordTyped DEF NotifySave, Moved, TypeInv
<1>2. /\ Elsewhere(Current(t))
      /\ order'[Current(t)].status = order[Current(t)].status /\ order'[Current(t)].over = order[Current(t)].over
      /\ order'[Current(t)].chat = order[Current(t)].chat
      /\ order'[Current(t)].cards = IF Stored(Current(t)) THEN task[t].sent ELSE order[Current(t)].cards
  BY <1>1, CardsMove DEF NotifySave, TypeInv, TableTypes
<1>3. CASE o # Current(t)
  <2>1. order'[o] = order[o]
    BY <1>2, <1>3 DEF Elsewhere
  <2> QED
    BY <1>1, <1>3, <2>1, ElsewhereSpares, EndsAside
<1>4. CASE o = Current(t)
  <2>1. t \in CardTasks(o) /\ t \in Work(o) /\ Stage(t, o) = "n_save" /\ t \notin Work(o)' /\ task'[t].kind = "none"
    BY <1>1, <1>4, OneOrder, NoOrderNow
  <2>2. CardTasks(o) \subseteq {t} /\ Phase(t, o)
    BY <2>1 DEF OrderInv, Alone, PhaseInv
  <2>3. /\ order[o].status = "pending" /\ order[o].cards = NoCards /\ Sent(t, o) /\ Lettered(o) /\ Stored(o)
        /\ ~order[o].chat /\ ~order[o].over
    BY <2>1, <2>2 DEF Phase, Placing, Stored, OrderInv, TalkInv, InProgress
  <2>4. order'[o].cards = task[t].sent /\ Markup(order'[o]) = Markup(order[o])
    BY <1>2, <1>4, <2>3, MarkupSame
  <2>5. Fit(o)'
    BY <1>1, <2>3, <2>4 DEF Fit, Cards, Sent, OneEach, Lettered, IsCard, Of
  <2>6. BeforeLinks(t, o)
    BY <2>2, LinksBefore
  <2>7. AfterLinks(t, o)
    <3>1. \A m \in Msgs : ~Known(o, m)
      BY <2>3, Constants DEF Known, NoCards
    <3>2. \A m \in Msgs : Carries(t, o, m) => Known(o, m)'
      BY <2>1, <2>4 DEF Carries, Known
    <3> QED
      BY <1>1, <1>2, <1>4, <2>3, <2>6, <3>1, <3>2 DEF BeforeLinks, AfterLinks, Of, Visible
  <2>8. ~At(t, "t_link") /\ task[t].kind # "talk"
    BY <1>1 DEF At
  <2>9. \A u \in Work(o) : task[u].kind # "talk"
    BY <2>3 DEF OrderInv, TalkInv
  <2> QED
    BY <1>1, <1>2, <1>4, <2>1, <2>2, <2>3, <2>5, <2>7, <2>8, <2>9, OwnKept
<1> QED
  BY <1>3, <1>4

-----------------------------------------------------------------------------
(* The cards are edited and linked *)

\* The opening of the chat after an acceptance keeps every order consistent.
LEMMA DecideOpenClear ==
  ASSUME TypeInv, NEW o \in Orders, NEW t \in Tasks, OrderInv(o), DecideOpen(t)
  PROVE  OrderInv(o)'
<1>1. /\ Rest(t) /\ task[t].pc = "d_open" /\ task[t].kind = "decide" /\ task[t].list = {Current(t)}
      /\ task'[t].pc = "g_get" /\ task'[t].kind = "accept" /\ task'[t].list = {Current(t)}
      /\ Current(t) \in Orders /\ UNCHANGED <<msg, relay>>
  BY DecideOpenLands, AtStep DEF DecideOpen, Moved
<1>2. CASE o # Current(t)
  <2>1. order'[o] = order[o]
    <3>1. CASE order' = [order EXCEPT ![Current(t)].chat = TRUE]
      BY <1>1, <1>2, <3>1, ChatMoves DEF Elsewhere, TypeInv, TableTypes
    <3> QED
      BY <3>1 DEF DecideOpen
  <2> QED
    BY <1>1, <1>2, <2>1, ElsewhereSpares, EndsAside
<1>3. CASE o = Current(t)
  <2>1. t \in CardTasks(o) /\ t \in Work(o) /\ Stage(t, o) = "d_open" /\ t \in Work(o)' /\ Stage(t, o)' = "g_get"
    BY <1>1, <1>3, OneOrder, OneOrderAfter
  <2>2. CardTasks(o) \subseteq {t} /\ Phase(t, o)
    BY <2>1 DEF OrderInv, Alone, PhaseInv
  <2>3. InProgress(o) /\ Stored(o) /\ Cards(o)
    BY <2>1, <2>2 DEF Phase
  <2>4. /\ order'[o].status = order[o].status /\ order'[o].over = order[o].over /\ order'[o].chat
        /\ order'[o].cards = order[o].cards
    <3>1. order' = [order EXCEPT ![o].chat = TRUE]
      BY <1>3, <2>3 DEF DecideOpen
    <3> QED
      BY <3>1, ChatMoves DEF TypeInv, TableTypes
  <2>5. InProgress(o)' /\ Stored(o)' /\ Cards(o)'
    BY <1>1, <2>3, <2>4 DEF InProgress, Stored, Cards, OneEach, IsCard, Of
  <2>6. Phase(t, o)'
    BY <1>1, <2>1, <2>5 DEF Phase, Placing
  <2>7. BeforeLinks(t, o)
    BY <2>2, LinksBefore
  <2>8. AfterLinks(t, o)
    <3>1. \A m \in Msgs : ~Carries(t, o, m)
      BY <2>1 DEF Carries
    <3>2. \A m \in Msgs : Known(o, m) => Known(o, m)' /\ Loose(t, o, m)'
      BY <1>1, <2>4 DEF Known, Loose
    <3> QED
      BY <1>1, <2>1, <2>3, <2>4, <2>7, <3>1, <3>2 DEF BeforeLinks, AfterLinks, Of, Visible, Stored
  <2>9. ~At(t, "t_link") /\ ~At(t, "d_open")' /\ order'[o].status = "accepted"
    BY <1>1, <2>3, <2>4 DEF At, InProgress
  <2> QED
    BY <1>1, <2>1, <2>2, <2>5, <2>6, <2>8, <2>9, OwnKept
<1> QED
  BY <1>2, <1>3

\* the cards a handler has read are of its order
LEMMA RowCards ==
  ASSUME TypeInv, RefInv, NEW t \in Tasks, task[t].pc \in Knowing
  PROVE  \A m \in CardsAmong(RowOf(t), Admins) : m \in Msgs /\ Of(m) = Current(t)
<1>1. Current(t) \in DOMAIN task[t].rows /\ RowOf(t) \in Row
  BY AtStep DEF Knowing, Showing
<1>2. CardsAmong(RowOf(t), Admins) \subseteq Msgs
  BY <1>1, CardsAmongTyped
<1>3. \A a \in Admins : RowOf(t).cards[a] # NoMsg => Of(RowOf(t).cards[a]) = Current(t)
  BY <1>1 DEF RefInv, RowRefs, RowOf
<1> QED
  BY <1>2, <1>3 DEF CardsAmong


\* Editing the cards keeps every order consistent: the cards are lettered after the row as it
\* still is.
LEMMA EditCardsClear ==
  ASSUME TypeInv, RefInv, NEW o \in Orders, NEW t \in Tasks, OrderInv(o), EditCards(t), faults' = 0
  PROVE  OrderInv(o)'
<1>1. /\ Rest(t) /\ task[t].pc = "g_edit" /\ task[t].list = {Current(t)}
      /\ task[t].kind \in {"decide", "accept", "finish", "withdraw"} /\ Current(t) \in Orders
      /\ \/ Ends(t) /\ task[t].kind # "accept"
         \/ Goes(t, "d_link") /\ task[t].kind = "accept"
      /\ UNCHANGED <<order, relay>>
  <2>1. UNCHANGED <<order, relay>>
    BY DEF EditCards
  <2> QED
    BY <2>1, EditCardsLands, AtStep DEF Moved
<1>2. Relabel(CardsAmong(RowOf(t), Admins), Markup(RowOf(t)))
  <2>1. PICK S \in SUBSET Admins : Reached(S, Admins) /\ Relabel(CardsAmong(RowOf(t), S), Markup(RowOf(t)))
    BY DEF EditCards
  <2> QED
    BY <2>1, ReachedCounts
<1>3. /\ \A m \in Msgs : msg'[m].of = msg[m].of /\ msg'[m].admin = msg[m].admin
      /\ \A m \in Msgs : m \in CardsAmong(RowOf(t), Admins) /\ Visible(m) => msg'[m].buttons = Markup(RowOf(t))
      /\ \A m \in Msgs : m \notin CardsAmong(RowOf(t), Admins) \/ ~Visible(m) => msg'[m] = msg[m]
  BY <1>2, RelabelMoves, MarkupTyped DEF TypeInv, TableTypes
<1>4. \A m \in CardsAmong(RowOf(t), Admins) : m \in Msgs /\ Of(m) = Current(t)
  BY <1>1, RowCards DEF Knowing
<1>5. CASE o # Current(t)
  <2>1. Spares(o)
    BY <1>1, <1>3, <1>4, <1>5 DEF Spares, SameRow, Of
  <2> QED
    BY <1>1, <1>5, <2>1, EndsAside DEF Goes
<1>6. CASE o = Current(t)
  <2>1. t \in CardTasks(o) /\ t \in Work(o) /\ Stage(t, o) = "g_edit"
    BY <1>1, <1>6, OneOrder
  <2>2. CardTasks(o) \subseteq {t} /\ Phase(t, o)
    BY <2>1 DEF OrderInv, Alone, PhaseInv
  <2>3. Stored(o) /\ Cards(o) /\ Same(t, o) /\ (task[t].kind = "accept" => InProgress(o))
    BY <2>1, <2>2 DEF Phase
  <2>4. Markup(RowOf(t)) = Markup(order[o]) /\ Markup(order[o]) \in CardButtons /\ Markup(order[o]) # "hidden"
    BY <1>6, <2>3, MarkupSame, MarkupTyped DEF Same, SameState, RowOf
  <2>5. \A m \in Msgs : m \in CardsAmong(RowOf(t), Admins) <=> Known(o, m)
    BY <1>6, <2>3, Constants DEF CardsAmong, Known, Same, RowOf
  <2>6. \A a \in Admins, m \in Msgs : IsCard(o, a, m) => Known(o, m) /\ Visible(m)
    BY <2>3 DEF Cards, OneEach, Known, IsCard, Visible, CardButtons
  <2>7. \A m \in Msgs : /\ Of(m)' = Of(m) /\ msg'[m].admin = msg[m].admin
                        /\ Visible(m)' <=> Visible(m)
                        /\ Known(o, m) /\ Visible(m) => msg'[m].buttons = Markup(order[o])
                        /\ ~Known(o, m) \/ ~Visible(m) => msg'[m] = msg[m]
    BY <1>3, <2>4, <2>5 DEF Of, Visible
  <2>8. \A a \in Admins, m \in Msgs : /\ IsCard(o, a, m)' <=> IsCard(o, a, m)
                                      /\ IsCard(o, a, m)' => msg'[m].buttons = Markup(order[o])
    <3>1. \A m \in Msgs : Known(o, m) => \E a \in Admins : IsCard(o, a, m)
      BY <2>3 DEF Known, Cards, OneEach
    <3>2. ASSUME NEW a \in Admins, NEW m \in Msgs
          PROVE  /\ IsCard(o, a, m)' <=> IsCard(o, a, m)
                 /\ IsCard(o, a, m)' => msg'[m].buttons = Markup(order[o])
      <4>1. CASE Known(o, m)
        <5>1. msg[m].buttons \in CardButtons /\ Visible(m)
          BY <2>6, <3>1, <4>1 DEF IsCard
        <5> QED
          BY <2>4, <2>7, <4>1, <5>1 DEF IsCard, Of
      <4>2. CASE ~Known(o, m)
        BY <2>6, <2>7, <4>2 DEF IsCard, Of
      <4> QED
        BY <4>1, <4>2
    <3> QED
      BY <3>2
  <2>9. Cards(o)' /\ Lettered(o)' /\ Fit(o)' /\ Stored(o)' /\ InProgress(o)' = InProgress(o)
    BY <1>1, <2>3, <2>8 DEF Cards, OneEach, Lettered, Fit, Stored, InProgress
  <2>10. t \in Work(o)' => /\ Goes(t, "d_link") /\ task[t].kind = "accept" /\ task'[t].kind = "accept"
                           /\ Stage(t, o)' = "d_link"
    BY <1>1, <1>6, NoOrderNow, OneOrderAfter DEF Goes, SameHand
  <2>11. Goes(t, "d_link") => t \in Work(o)'
    BY <1>1, <1>6, OneOrderAfter DEF Goes, SameHand
  <2>12. t \in Work(o)' => Phase(t, o)'
    <3> SUFFICES ASSUME t \in Work(o)' PROVE Phase(t, o)'
      OBVIOUS
    <3>1. Same(t, o)'
      BY <1>1, <2>3, <2>10 DEF Same, SameState, Goes, SameRows
    <3> QED
      BY <2>3, <2>9, <2>10, <3>1 DEF Phase, Placing
  <2>13. BeforeLinks(t, o)
    BY <2>2, LinksBefore
  <2>14. AfterLinks(t, o)
    <3>1. \A m \in Msgs : /\ ~Carries(t, o, m) /\ (Known(o, m)' <=> Known(o, m))
                          /\ Loose(t, o, m) => t \in Work(o)' /\ Loose(t, o, m)'
      BY <1>1, <2>1, <2>10, <2>11 DEF Carries, Known, Loose, Goes, SameHand
    <3> QED
      BY <1>1, <2>3, <2>7, <2>13, <3>1 DEF BeforeLinks, AfterLinks, Stored
  <2>15. task[t].kind # "talk" /\ task'[t].kind \notin {"talk", "clean"} /\ ~At(t, "t_link")
         /\ (t \in Work(o)' => ~At(t, "d_open")')
    BY <1>1, <2>10, NoOrderNow DEF At, Goes, SameHand
  <2>16. /\ order[o].chat => InProgress(o)
         /\ order[o].status = "pending" => ~order[o].over /\ \A u \in Work(o) : task[u].kind # "talk"
         /\ order[o].status \notin {"none", "deleted"}
    BY <2>3 DEF OrderInv, TalkInv, Stored
  <2> QED
    BY <1>1, <2>2, <2>9, <2>12, <2>14, <2>15, <2>16, OwnKept
<1> QED
  BY <1>5, <1>6


\* Linking the cards of an accepted order keeps every order consistent.
LEMMA DecideLinkClear ==
  ASSUME TypeInv, RefInv, NEW o \in Orders, NEW t \in Tasks, OrderInv(o), DecideLink(t), faults' = 0
  PROVE  OrderInv(o)'
<1>1. /\ Rest(t) /\ Ends(t) /\ task[t].pc = "d_link" /\ task[t].kind = "accept" /\ task[t].list = {Current(t)}
      /\ Current(t) \in Orders /\ UNCHANGED <<order, msg>>
  <2>1. UNCHANGED <<order, msg>>
    BY DEF DecideLink
  <2> QED
    BY <2>1, DecideLinkLands, AtStep DEF Moved
<1>2. relay' = relay \cup CardsAmong(RowOf(t), Admins)
  <2>1. PICK S \in SUBSET Admins : Reached(S, Admins) /\ Link(CardsAmong(RowOf(t), S))
    BY DEF DecideLink
  <2> QED
    BY <2>1, ReachedCounts DEF Link
<1>3. \A m \in CardsAmong(RowOf(t), Admins) : m \in Msgs /\ Of(m) = Current(t)
  BY <1>1, RowCards DEF Knowing
<1>4. CASE o # Current(t)
  <2>1. Spares(o)
    BY <1>1, <1>2, <1>3, <1>4 DEF Spares, SameRow
  <2> QED
    BY <1>1, <1>4, <2>1, EndsAside
<1>5. CASE o = Current(t)
  <2>1. t \in CardTasks(o) /\ t \in Work(o) /\ Stage(t, o) = "d_link" /\ t \notin Work(o)' /\ task'[t].kind = "none"
    BY <1>1, <1>5, OneOrder, NoOrderNow
  <2>2. CardTasks(o) \subseteq {t} /\ Phase(t, o)
    BY <2>1 DEF OrderInv, Alone, PhaseInv
  <2>3. InProgress(o) /\ Fit(o) /\ Same(t, o)
    BY <2>1, <2>2 DEF Phase
  <2>4. \A m \in Msgs : Known(o, m) => m \in relay'
    BY <1>2, <1>5, <2>3, Constants DEF CardsAmong, Known, Same, RowOf
  <2>5. Fit(o)' /\ InProgress(o)'
    BY <1>1, <2>3 DEF Fit, Cards, OneEach, Lettered, IsCard, Of, InProgress
  <2>6. BeforeLinks(t, o)
    BY <2>2, LinksBefore
  <2>7. AfterLinks(t, o)
    <3>1. \A m \in Msgs : /\ ~Carries(t, o, m) /\ (Known(o, m)' <=> Known(o, m))
                          /\ Loose(t, o, m) => m \in relay'
                          /\ m \in relay => m \in relay'
      BY <1>1, <1>2, <2>1, <2>4 DEF Carries, Known, Loose
    <3>2. order[o].status = "accepted"
      BY <2>3 DEF InProgress
    <3> QED
      BY <1>1, <2>6, <3>1, <3>2 DEF BeforeLinks, AfterLinks, Of, Visible, Stored
  <2>8. ~At(t, "t_link") /\ order'[o].status = "accepted"
    BY <1>1, <2>5 DEF At, InProgress
  <2> QED
    BY <1>1, <2>1, <2>2, <2>5, <2>7, <2>8, OwnKept
<1> QED
  BY <1>4, <1>5

\* The edit of a tapped message keeps every order consistent.
LEMMA CloseEditClear ==
  ASSUME TypeInv, RefInv, NEW o \in Orders, NEW t \in Tasks, OrderInv(o), CloseEdit(t), faults' = 0
  PROVE  OrderInv(o)'
<1>1. /\ Rest(t) /\ Ends(t) /\ task[t].pc = "k_edit" /\ task[t].kind = "close" /\ task[t].list = {Current(t)}
      /\ Current(t) \in Orders /\ task[t].base \in Msgs /\ UNCHANGED <<order, relay>>
  <2>1. UNCHANGED <<order, relay>>
    BY DEF CloseEdit
  <2> QED
    BY <2>1, CloseEditLands, AtStep DEF Moved
<1>0. PICK n \in Msgs : n = task[t].base
  BY <1>1
<1> DEFINE isCard == RowOf(t).status # "deleted" /\ RowOf(t).cards[msg[n].admin] = n
<1>2. Relabel({n}, IF isCard THEN Markup(RowOf(t)) ELSE "ended")
  <2>1. ~Fault
    BY FaultCounts
  <2> QED
    BY <1>0, <2>1 DEF CloseEdit, Missed, RowOf
<1>3. PICK b \in Buttons : b = IF isCard THEN Markup(RowOf(t)) ELSE "ended"
  BY MarkupTyped DEF Buttons
<1>4. /\ \A m \in Msgs : msg'[m].of = msg[m].of /\ msg'[m].admin = msg[m].admin
      /\ Visible(n) => msg'[n].buttons = b
      /\ \A m \in Msgs : m # n \/ ~Visible(m) => msg'[m] = msg[m]
  BY <1>1, <1>2, <1>3, RelabelMoves DEF TypeInv, TableTypes
<1>5. Of(n) = Current(t)
  BY <1>0, <1>1 DEF RefInv, HandRefs, Closing
<1> HIDE DEF isCard
<1>6. CASE o # Current(t)
  <2>1. Spares(o)
    BY <1>1, <1>4, <1>5, <1>6 DEF Spares, SameRow, Of
  <2> QED
    BY <1>1, <1>6, <2>1, EndsAside
<1>7. CASE o = Current(t)
  <2>1. t \in CardTasks(o) /\ t \in Work(o) /\ Stage(t, o) = "k_edit" /\ t \notin Work(o)' /\ task'[t].kind = "none"
    BY <1>1, <1>7, OneOrder, NoOrderNow
  <2>2. CardTasks(o) \subseteq {t} /\ Phase(t, o)
    BY <2>1 DEF OrderInv, Alone, PhaseInv
  <2>3. InProgress(o) /\ Cards(o) /\ Lettered(o) /\ Same(t, o)
    BY <2>1, <2>2 DEF Phase, Fit
  <2>4. Markup(RowOf(t)) = Markup(order[o]) /\ Markup(order[o]) \in CardButtons
    BY <1>7, <2>3, MarkupSame, MarkupTyped DEF Same, SameState, RowOf
  <2>5. \A a \in Admins : IsCard(o, a, n) => isCard
    <3>1. RowOf(t).status # "deleted" /\ RowOf(t).cards = order[o].cards
      BY <1>7, <2>3 DEF Same, SameState, RowOf, InProgress
    <3> QED
      BY <2>3, <3>1 DEF Cards, OneEach, IsCard, isCard
  <2>6. \A a \in Admins : isCard /\ msg[n].admin = a => IsCard(o, a, n)
    BY <1>7, <2>3 DEF Cards, OneEach, Same, RowOf, isCard
  <2>7. "ended" \notin CardButtons /\ "hidden" \notin CardButtons
    BY DEF CardButtons
  <2>8. \A a \in Admins, m \in Msgs : /\ IsCard(o, a, m)' <=> IsCard(o, a, m)
                                      /\ IsCard(o, a, m)' => msg'[m].buttons = Markup(order[o])
    <3>1. ASSUME NEW a \in Admins, IsCard(o, a, n) \/ IsCard(o, a, n)'
          PROVE  IsCard(o, a, n) /\ IsCard(o, a, n)' /\ msg'[n].buttons = Markup(order[o])
      <4>1. Visible(n) /\ isCard /\ msg[n].admin = a /\ msg'[n].of = msg[n].of /\ msg'[n].admin = msg[n].admin
        <5>1. CASE IsCard(o, a, n)
          BY <1>1, <1>4, <2>5, <2>7, <5>1 DEF IsCard, Visible
        <5>2. CASE IsCard(o, a, n)'
          <6>1. msg'[n].of = msg[n].of /\ msg'[n].admin = msg[n].admin
            BY <1>4
          <6>2. Visible(n)
            BY <1>1, <1>4, <2>7, <5>2 DEF IsCard, Visible
          <6>3. isCard
            BY <1>3, <1>4, <2>7, <5>2, <6>2 DEF IsCard
          <6> QED
            BY <5>2, <6>1, <6>2, <6>3 DEF IsCard
        <5> QED
          BY <3>1, <5>1, <5>2
      <4>2. IsCard(o, a, n) /\ msg'[n].buttons = Markup(order[o])
        BY <1>3, <1>4, <2>4, <2>6, <4>1
      <4> QED
        BY <2>4, <4>1, <4>2 DEF IsCard, Of
    <3>2. ASSUME NEW a \in Admins, NEW m \in Msgs, m # n
          PROVE  /\ IsCard(o, a, m)' <=> IsCard(o, a, m)
                 /\ IsCard(o, a, m)' => msg'[m].buttons = Markup(order[o])
      BY <1>4, <2>3, <3>2 DEF IsCard, Of, Lettered
    <3> QED
      BY <3>1, <3>2
  <2>9. Fit(o)' /\ InProgress(o)'
    BY <1>1, <2>3, <2>8 DEF Fit, Cards, OneEach, Lettered, InProgress
  <2>10. \A m \in Msgs : Of(m)' = Of(m) /\ (Visible(m)' => Visible(m))
    BY <1>4 DEF Of, Visible
  <2>11. BeforeLinks(t, o)
    BY <2>2, LinksBefore
  <2>12. AfterLinks(t, o)
    <3>1. \A m \in Msgs : ~Carries(t, o, m) /\ ~Loose(t, o, m) /\ (Known(o, m)' <=> Known(o, m))
      BY <1>1, <2>1 DEF Carries, Known, Loose
    <3>2. order[o].status = "accepted"
      BY <2>3 DEF InProgress
    <3> QED
      BY <1>1, <2>10, <2>11, <3>1, <3>2 DEF BeforeLinks, AfterLinks, Stored
  <2>13. ~At(t, "t_link") /\ order'[o].status = "accepted"
    BY <1>1, <2>9 DEF At, InProgress
  <2> QED
    BY <1>1, <2>1, <2>2, <2>9, <2>12, <2>13, OwnKept
<1> QED
  BY <1>6, <1>7


-----------------------------------------------------------------------------
(* A list of orders is shown *)

\* the orders of the list that are not shown yet, or were shown before
LEMMA ShowAside ==
  ASSUME TypeInv, NEW o \in Orders, NEW t \in Tasks, task[t].pc \in Showing, o # Current(t), Rest(t),
         OrderInv(o), Spares(o),
         \/ task'[t].pc \in Showing /\ SameHand(t) /\ SameRows(t) /\ SameMail(t)
         \/ NextShown(t)
  PROVE  OrderInv(o)'
<1>0. task[t].kind = "show" /\ Stage(t, o) = "s_send"
  BY KindOf DEF TypeInv, Stage
<1>1. CASE o \notin task[t].list
  <2>1. o \notin task'[t].list
    <3>1. CASE NextShown(t)
      BY <1>1, <3>1, ShownLands
    <3> QED
      BY <1>1, <3>1 DEF SameHand
  <2>2. t \notin Work(o) /\ t \notin Work(o)'
    BY <1>1, <2>1 DEF Work
  <2> QED
    BY <2>2, SparedKept
<1>2. CASE o \in task[t].list
  <2>1. /\ task'[t].pc \in Showing /\ task'[t].kind = "show" /\ o \in task'[t].list
        /\ Stage(t, o)' = "s_send" /\ SameRows(t) /\ task'[t].admin = task[t].admin
        /\ task'[t].sent = task[t].sent /\ task'[t].refs = task[t].refs
    <3>1. CASE task'[t].pc \in Showing /\ SameHand(t) /\ SameRows(t) /\ SameMail(t)
      <4>1. Current(t)' = Current(t)
        BY <3>1 DEF Current, SameHand
      <4> QED
        BY <1>0, <1>2, <3>1, <4>1 DEF Stage, SameHand, SameMail
    <3>2. CASE NextShown(t)
      <4>1. task[t].list # {Current(t)} /\ Cardinality(task[t].list) # 1
        <5>1. task[t].list \in SUBSET Orders /\ task[t].list # {}
          BY <1>2, RecordTyped DEF TypeInv
        <5>2. Cardinality(task[t].list) = 1 => task[t].list = {Least(task[t].list)}
          BY <5>1, ListCounted
        <5>3. task[t].list # {Least(task[t].list)}
          BY <1>2 DEF Current
        <5> QED
          BY <5>2, <5>3 DEF Current
      <4>2. task' = [task EXCEPT ![t] = [task[t] EXCEPT !.pc = "s_send", !.list = @ \ {Current(t)}, !.base = @ + 1]]
        BY <3>2, <4>1 DEF NextShown, Become
      <4>3. task[t] \in TaskRecords /\ task'[t] = [task[t] EXCEPT !.pc = "s_send", !.list = @ \ {Current(t)}, !.base = @ + 1]
        BY <4>2 DEF TypeInv, TaskTypes
      <4>4. /\ task'[t].pc = "s_send" /\ task'[t].kind = task[t].kind /\ task'[t].list = task[t].list \ {Current(t)}
            /\ task'[t].rows = task[t].rows /\ task'[t].admin = task[t].admin
            /\ task'[t].sent = task[t].sent /\ task'[t].refs = task[t].refs
        BY <4>3 DEF TaskRecords
      <4> QED
        BY <1>0, <1>2, <4>4 DEF Stage, SameRows, Showing
    <3> QED
      BY <3>1, <3>2
  <2>2. t \in Work(o) /\ t \in Work(o)' /\ SameWork(t, o)
    BY <1>0, <1>2, <2>1 DEF Work, SameWork, SameRows, Showing
  <2>3. Work(o)' = Work(o) /\ \A u \in Work(o) : SameWork(u, o)
    <3>1. \A u \in Work(o) : u # t => SameWork(u, o) /\ u \in Work(o)'
      BY RestWork
    <3>2. \A u \in Work(o)' : u # t => u \in Work(o)
      BY RestWork
    <3> QED
      BY <2>2, <3>1, <3>2
  <2> QED
    BY <2>3, AsideKept DEF Spares
<1> QED
  BY <1>1, <1>2

\* whose turn it is
LEMMA ShowsNow ==
  ASSUME TypeInv, RefInv, NEW o \in Orders, NEW t \in Tasks, task[t].pc \in Showing, o = Current(t), OrderInv(o)
  PROVE  /\ t \in CardTasks(o) /\ t \in Work(o) /\ CardTasks(o) \subseteq {t} /\ Stage(t, o) = task[t].pc
         /\ Phase(t, o) /\ NewCard(t) \in Msgs /\ task[t].admin \in Admins /\ task[t].kind = "show"
         /\ RowOf(t) = task[t].rows[o] /\ o \in task[t].list /\ BeforeLinks(t, o)
         /\ ~At(t, "t_link") /\ ~At(t, "d_open") /\ Stored(o)
         /\ task[t].pc = "s_send" => Of(NewCard(t)) = NoOrder
<1>1. task[t].kind = "show" /\ o \in task[t].list /\ task[t].admin \in Admins /\ NewCard(t) \in Msgs
  BY AtStep, KindOf, NewCardTyped DEF TypeInv, Showing
<1>2. t \in CardTasks(o) /\ t \in Work(o) /\ Stage(t, o) = task[t].pc
  BY <1>1 DEF CardTasks, Work, Stage
<1>3. CardTasks(o) \subseteq {t} /\ Phase(t, o)
  BY <1>2 DEF OrderInv, Alone, PhaseInv
<1>4. Stored(o)
  BY <1>2, <1>3 DEF Phase, Showing
<1>5. task[t].pc = "s_send" => Of(NewCard(t)) = NoOrder
  <2>1. task[t].list \in SUBSET Orders /\ task[t].list # {}
    BY <1>1, RecordTyped DEF TypeInv
  <2>2. Cardinality(task[t].list) \in Nat \ {0}
    BY <2>1, ListCounted
  <2>3. task[t].base \in Nat
    BY RecordTyped, Constants DEF TypeInv
  <2>4. task[t].pc = "s_send" => NewCard(t) \in Reserved(t)
    BY <1>1, <2>2, <2>3 DEF Reserved, NewCard
  <2> QED
    BY <2>4 DEF RefInv, FreshInv
<1> QED
  BY <1>1, <1>2, <1>3, <1>4, <1>5, LinksBefore DEF RowOf, At, Showing


\* The listing that goes from one place of its loop to the next stays with its order and its new
\* card.
LEMMA ShowGoes ==
  ASSUME NEW o \in Orders, NEW t \in Tasks, task[t].kind = "show", o = Current(t), o \in task[t].list,
         NEW l \in Showing, Goes(t, l)
  PROVE  /\ t \in Work(o)' /\ Stage(t, o)' = l /\ NewCard(t)' = NewCard(t)
         /\ task'[t].rows[o] = task[t].rows[o] /\ task'[t].admin = task[t].admin /\ task'[t].kind = "show"
         /\ ~At(t, "d_open")'
<1>1. Current(t)' = Current(t)
  BY DEF Current, Goes, SameHand
<1> QED
  BY <1>1 DEF Goes, SameHand, SameRows, SameMail, Work, Stage, NewCard, At, Showing

\* the order stays in its state while it is shown
LEMMA ShownKept ==
  ASSUME TypeInv, RefInv, NEW o \in Orders, NEW t \in Tasks, task[t].pc \in Showing, o = Current(t), OrderInv(o),
         Rest(t), task'[t].kind \in {"show", "none"},
         order'[o].status = order[o].status, order'[o].over = order[o].over, order'[o].chat = order[o].chat,
         t \in Work(o)' => Phase(t, o)' /\ ~At(t, "d_open")',
         t \notin Work(o)' => Fit(o)',
         AfterLinks(t, o)
  PROVE  OrderInv(o)'
<1>1. CardTasks(o) \subseteq {t} /\ ~At(t, "t_link") /\ Stored(o) /\ task[t].kind = "show"
  BY ShowsNow
<1>2. /\ order[o].chat => InProgress(o)
      /\ order[o].status = "pending" => ~order[o].over /\ \A u \in Work(o) : task[u].kind # "talk"
  BY DEF OrderInv, TalkInv
<1>3. order[o].status \notin {"none", "deleted"} /\ InProgress(o)' = InProgress(o)
  BY <1>1 DEF Stored, InProgress
<1> QED
  BY <1>1, <1>2, <1>3, OwnKept

\* Sending a card of the listing keeps every order consistent.
LEMMA ShowSendClear ==
  ASSUME TypeInv, RefInv, NEW o \in Orders, NEW t \in Tasks, OrderInv(o), ShowSend(t), faults' = 0
  PROVE  OrderInv(o)'
<1>1. /\ Rest(t) /\ task[t].pc = "s_send" /\ task[t].kind = "show" /\ PostCard(t) /\ Goes(t, "s_save")
      /\ UNCHANGED <<order, relay>>
  <2>1. ~Missed(msg)
    BY FaultCounts DEF Missed
  <2> QED
    BY <2>1, ShowSendLands DEF ShowSend, Moved
<1>0. PICK n \in Msgs : n = NewCard(t)
  BY <1>1, NewCardTyped DEF Showing
<1>2. /\ msg'[n].of = Current(t) /\ msg'[n].admin = task[t].admin /\ msg'[n].buttons = Markup(RowOf(t))
      /\ \A m \in Msgs \ {n} : msg'[m] = msg[m]
  BY <1>0, <1>1, PostCardMoves
<1>3. Current(t) \in Orders /\ task[t].pc \in Showing
  BY <1>1, AtStep DEF Showing
<1>4. CASE o # Current(t)
  <2>1. Of(n) = NoOrder
    <3>1. task[t].list \in SUBSET Orders /\ task[t].list # {} /\ task[t].base \in Nat
      BY <1>1, AtStep, RecordTyped, Constants DEF TypeInv
    <3>2. Cardinality(task[t].list) \in Nat \ {0}
      BY <3>1, ListCounted
    <3>3. n \in Reserved(t)
      BY <1>0, <1>1, <3>1, <3>2 DEF Reserved, NewCard
    <3> QED
      BY <3>3 DEF RefInv, FreshInv
  <2>2. Spares(o)
    BY <1>1, <1>2, <1>4, <2>1, Constants DEF Spares, SameRow, Of
  <2>3. task'[t].pc \in Showing /\ SameHand(t) /\ SameRows(t) /\ SameMail(t)
    BY <1>1 DEF Goes, Showing
  <2> QED
    BY <1>1, <1>3, <1>4, <2>2, <2>3, ShowAside
<1>5. CASE o = Current(t)
  <2>1. /\ t \in Work(o) /\ Stage(t, o) = "s_send" /\ Phase(t, o) /\ task[t].admin \in Admins
        /\ RowOf(t) = task[t].rows[o] /\ o \in task[t].list /\ BeforeLinks(t, o) /\ Stored(o) /\ Of(n) = NoOrder
    BY <1>0, <1>1, <1>3, <1>5, ShowsNow
  <2>2. Same(t, o) /\ Cards(o) /\ Lettered(o) /\ SameState(t, o)
    BY <2>1 DEF Phase, Fit, Same
  <2>3. /\ t \in Work(o)' /\ Stage(t, o)' = "s_save" /\ NewCard(t)' = n /\ task'[t].rows[o] = task[t].rows[o]
        /\ task'[t].admin = task[t].admin /\ task'[t].kind = "show" /\ ~At(t, "d_open")'
    <3>1. "s_save" \in Showing
      BY DEF Showing
    <3> QED
      BY <1>0, <1>1, <1>5, <2>1, <3>1, ShowGoes
  <2>4. Markup(RowOf(t)) = Markup(order[o]) /\ Markup(order[o]) \in CardButtons
    BY <2>1, <2>2, MarkupSame, MarkupTyped DEF SameState
  <2>5. ASSUME NEW a \in Admins, NEW m \in Msgs
        PROVE  /\ IsCard(o, a, m)' <=> (IsCard(o, a, m) \/ (a = task[t].admin /\ m = n))
               /\ IsCard(o, a, m)' => msg'[m].buttons = Markup(order[o])
    <3>1. CASE m = n
      <4>1. ~IsCard(o, a, n)
        BY <2>1, Constants DEF IsCard
      <4>2. IsCard(o, a, n)' <=> a = task[t].admin
        BY <1>2, <1>5, <2>4 DEF IsCard, Of
      <4> QED
        BY <1>2, <2>4, <3>1, <4>1, <4>2
    <3>2. CASE m # n
      <4>1. msg'[m] = msg[m]
        BY <1>2, <3>2
      <4> QED
        BY <2>2, <3>2, <4>1 DEF IsCard, Of, Lettered
    <3> QED
      BY <3>1, <3>2
  <2>6. Twin(t, o)'
    <3>1. ASSUME NEW a \in Admins
          PROVE  /\ task'[t].rows[o].cards[a] \in Msgs /\ task'[t].rows[o].cards[a] # n
                 /\ \A m \in Msgs : IsCard(o, a, m)' <=> \/ m = task'[t].rows[o].cards[a]
                                                         \/ a = task'[t].admin /\ m = n
      <4>1. task'[t].rows[o].cards[a] = order[o].cards[a]
        BY <2>2, <2>3 DEF Same
      <4>2. order[o].cards[a] \in Msgs /\ \A m \in Msgs : IsCard(o, a, m) <=> m = order[o].cards[a]
        BY <2>2 DEF Cards, OneEach
      <4>3. order[o].cards[a] # n
        BY <2>1, <4>2, Constants DEF IsCard
      <4> QED
        BY <2>3, <2>5, <4>1, <4>2, <4>3
    <3> QED
      BY <2>3, <3>1 DEF Twin
  <2>7. Lettered(o)' /\ Stored(o)' /\ Same(t, o)' /\ SameState(t, o)'
    BY <1>1, <2>1, <2>2, <2>3, <2>5 DEF Lettered, Stored, Same, SameState
  <2>8. Phase(t, o)'
    BY <2>3, <2>6, <2>7 DEF Phase, Placing
  <2>9. AfterLinks(t, o)
    <3>1. Carries(t, o, n)' /\ Loose(t, o, n)'
      BY <2>3 DEF Carries, Loose
    <3>2. ASSUME NEW m \in Msgs PROVE ~Carries(t, o, m) /\ ~Loose(t, o, m) /\ (Known(o, m)' <=> Known(o, m))
      BY <1>1, <2>1 DEF Carries, Loose, Known
    <3>3. \A m \in Msgs : m # n => Of(m)' = Of(m) /\ Visible(m)' = Visible(m)
      BY <1>2 DEF Of, Visible
    <3>4. order[o].status # "deleted" /\ order' = order
      BY <1>1, <2>1 DEF Stored
    <3>5. ASSUME NEW m \in Msgs, m # n, Of(m)' = o
          PROVE  /\ Visible(m)' /\ Stored(o)' => m \in relay' \/ Known(o, m)' \/ Awaited(o, m)
                 /\ Visible(m)' /\ order'[o].chat => m \in relay' \/ Awaited(o, m)
      BY <1>1, <2>1, <3>2, <3>3, <3>4, <3>5 DEF BeforeLinks
    <3> QED
      BY <2>3, <3>1, <3>4, <3>5 DEF AfterLinks
  <2> QED
    BY <1>1, <1>3, <1>5, <2>3, <2>8, <2>9, ShownKept
<1> QED
  BY <1>4, <1>5


\* Saving the id of the new card keeps every order consistent: the card it replaces is in the
\* loop's hands.
LEMMA ShowSaveClear ==
  ASSUME TypeInv, RefInv, NEW o \in Orders, NEW t \in Tasks, OrderInv(o), ShowSave(t)
  PROVE  OrderInv(o)'
<1>0. PICK l \in {"s_link", "s_delete"} : l = IF RowOf(t).chat THEN "s_link" ELSE "s_delete"
  OBVIOUS
<1>1. /\ Rest(t) /\ task[t].pc = "s_save" /\ task[t].kind = "show" /\ Goes(t, l) /\ l \in Showing
      /\ UNCHANGED <<msg, relay>>
  BY <1>0, ShowSaveLands DEF ShowSave, Moved, Showing
<1>2. Current(t) \in Orders /\ task[t].pc \in Showing
  BY <1>1, AtStep DEF Showing
<1>3. /\ Elsewhere(Current(t))
      /\ order'[Current(t)].status = order[Current(t)].status /\ order'[Current(t)].over = order[Current(t)].over
      /\ order'[Current(t)].chat = order[Current(t)].chat
      /\ Stored(Current(t)) => \A a \in Admins :
           order'[Current(t)].cards[a] = IF a = task[t].admin THEN NewCard(t) ELSE RowOf(t).cards[a]
  <2>1. PICK cards \in CardTables :
          /\ cards = [RowOf(t).cards EXCEPT ![task[t].admin] = NewCard(t)]
          /\ \A a \in Admins : cards[a] = IF a = task[t].admin THEN NewCard(t) ELSE RowOf(t).cards[a]
    BY <1>2, SavedTyped
  <2>2. SetAdminMsgs(Current(t), cards)
    BY <2>1 DEF ShowSave
  <2>3. OrderTypes
    BY DEF TypeInv, TableTypes
  <2>4. /\ Elsewhere(Current(t))
        /\ order'[Current(t)].status = order[Current(t)].status /\ order'[Current(t)].over = order[Current(t)].over
        /\ order'[Current(t)].chat = order[Current(t)].chat
        /\ Stored(Current(t)) => order'[Current(t)].cards = cards
    BY <1>2, <2>2, <2>3, CardsMove
  <2> QED
    BY <2>1, <2>4
<1>4. CASE o # Current(t)
  <2>1. Spares(o)
    BY <1>1, <1>3, <1>4, ElsewhereSpares DEF Elsewhere
  <2>2. task'[t].pc \in Showing /\ SameHand(t) /\ SameRows(t) /\ SameMail(t)
    BY <1>1 DEF Goes
  <2> QED
    BY <1>1, <1>2, <1>4, <2>1, <2>2, ShowAside
<1>5. CASE o = Current(t)
  <2>1. /\ t \in Work(o) /\ Stage(t, o) = "s_save" /\ Phase(t, o) /\ task[t].admin \in Admins
        /\ RowOf(t) = task[t].rows[o] /\ o \in task[t].list /\ BeforeLinks(t, o) /\ Stored(o)
    BY <1>1, <1>2, <1>5, ShowsNow
  <2>2. Same(t, o) /\ SameState(t, o) /\ Twin(t, o) /\ Lettered(o)
    BY <2>1 DEF Phase
  <2>3. /\ t \in Work(o)' /\ Stage(t, o)' = l /\ NewCard(t)' = NewCard(t) /\ task'[t].rows[o] = task[t].rows[o]
        /\ task'[t].admin = task[t].admin /\ task'[t].kind = "show" /\ ~At(t, "d_open")'
    BY <1>1, <1>5, <2>1, ShowGoes
  <2>4. \A a \in Admins :
          order'[o].cards[a] = IF a = task[t].admin THEN NewCard(t) ELSE task[t].rows[o].cards[a]
    BY <1>3, <1>5, <2>1
  <2>5. Markup(order'[o]) = Markup(order[o])
    BY <1>3, <1>5, MarkupSame
  <2>6. Twin(t, o)' /\ Lettered(o)' /\ Stored(o)' /\ SameState(t, o)'
    <3>1. \A a \in Admins, m \in Msgs : IsCard(o, a, m)' <=> IsCard(o, a, m)
      BY <1>1 DEF IsCard, Of
    <3> QED
      BY <1>1, <1>3, <1>5, <2>1, <2>2, <2>3, <2>5, <3>1 DEF Twin, Lettered, Stored, SameState
  <2>7. Phase(t, o)'
    BY <2>3, <2>4, <2>6 DEF Phase, Placing
  <2>8. AfterLinks(t, o)
    <3>1. ASSUME NEW m \in Msgs
          PROVE  /\ ~Loose(t, o, m) \/ m = NewCard(t)
                 /\ Carries(t, o, m) => m = NewCard(t)
      BY <1>1, <2>1 DEF Carries, Loose
    <3>2. ASSUME NEW m \in Msgs, Known(o, m) PROVE Known(o, m)' \/ Carries(t, o, m)'
      <4>1. PICK a \in Admins : task[t].rows[o].cards[a] = m
        BY <2>2, <3>2 DEF Known, Same
      <4>2. CASE a = task[t].admin
        BY <2>3, <4>1, <4>2 DEF Carries
      <4>3. CASE a # task[t].admin
        BY <2>4, <4>1, <4>3 DEF Known
      <4> QED
        BY <4>2, <4>3
    <3>3. \A m \in Msgs : m = NewCard(t) => Known(o, m)'
      BY <2>1, <2>4 DEF Known
    <3>4. order'[o].chat => \A m \in Msgs : m = NewCard(t) => Loose(t, o, m)'
      <4>1. order'[o].chat => l = "s_link"
        BY <1>0, <1>3, <1>5, <2>1, <2>2 DEF SameState
      <4> QED
        BY <2>3, <4>1 DEF Loose
    <3>5. \A m \in Msgs : Of(m)' = Of(m) /\ Visible(m)' = Visible(m) /\ (m \in relay' <=> m \in relay)
      BY <1>1 DEF Of, Visible
    <3>6. order'[o].status # "deleted" /\ order'[o].chat = order[o].chat
      BY <1>3, <1>5, <2>1 DEF Stored
    <3> QED
      BY <2>1, <2>3, <3>1, <3>2, <3>3, <3>4, <3>5, <3>6 DEF BeforeLinks, AfterLinks
  <2> QED
    BY <1>1, <1>2, <1>3, <1>5, <2>3, <2>7, <2>8, ShownKept
<1> QED
  BY <1>4, <1>5

\* Linking the new card keeps every order consistent.
LEMMA ShowLinkClear ==
  ASSUME TypeInv, RefInv, NEW o \in Orders, NEW t \in Tasks, OrderInv(o), ShowLink(t)
  PROVE  OrderInv(o)'
<1>1. /\ Rest(t) /\ task[t].pc = "s_link" /\ task[t].kind = "show" /\ Goes(t, "s_delete") /\ "s_delete" \in Showing
      /\ UNCHANGED <<order, msg>> /\ relay' = relay \cup {NewCard(t)}
  BY ShowLinkLands DEF ShowLink, Link, Moved, Showing
<1>2. Current(t) \in Orders /\ task[t].pc \in Showing /\ Of(NewCard(t)) = Current(t)
  BY <1>1, AtStep DEF Showing, RefInv, HandRefs
<1>3. CASE o # Current(t)
  <2>1. Spares(o)
    BY <1>1, <1>2, <1>3 DEF Spares, SameRow
  <2>2. task'[t].pc \in Showing /\ SameHand(t) /\ SameRows(t) /\ SameMail(t)
    BY <1>1 DEF Goes
  <2> QED
    BY <1>1, <1>2, <1>3, <2>1, <2>2, ShowAside
<1>4. CASE o = Current(t)
  <2>1. /\ t \in Work(o) /\ Stage(t, o) = "s_link" /\ Phase(t, o) /\ o \in task[t].list
        /\ BeforeLinks(t, o) /\ Stored(o)
    BY <1>1, <1>2, <1>4, ShowsNow
  <2>2. /\ SameState(t, o) /\ Twin(t, o) /\ Lettered(o)
        /\ \A a \in Admins :
             order[o].cards[a] = IF a = task[t].admin THEN NewCard(t) ELSE task[t].rows[o].cards[a]
    BY <2>1 DEF Phase
  <2>3. /\ t \in Work(o)' /\ Stage(t, o)' = "s_delete" /\ NewCard(t)' = NewCard(t)
        /\ task'[t].rows[o] = task[t].rows[o]
        /\ task'[t].admin = task[t].admin /\ task'[t].kind = "show" /\ ~At(t, "d_open")'
    BY <1>1, <1>4, <2>1, ShowGoes
  <2>4. Twin(t, o)' /\ Lettered(o)' /\ Stored(o)' /\ SameState(t, o)'
    <3>1. \A a \in Admins, m \in Msgs : IsCard(o, a, m)' <=> IsCard(o, a, m)
      BY <1>1 DEF IsCard, Of
    <3> QED
      BY <1>1, <2>1, <2>2, <2>3, <3>1 DEF Twin, Lettered, Stored, SameState
  <2>5. Phase(t, o)'
    BY <1>1, <2>2, <2>3, <2>4 DEF Phase, Placing
  <2>6. AfterLinks(t, o)
    <3>1. ASSUME NEW m \in Msgs
          PROVE  /\ Loose(t, o, m) => m \in relay'
                 /\ Carries(t, o, m) => Carries(t, o, m)'
                 /\ Known(o, m)' <=> Known(o, m)
      BY <1>1, <2>1, <2>3 DEF Carries, Loose, Known
    <3>2. \A m \in Msgs : Of(m)' = Of(m) /\ Visible(m)' = Visible(m) /\ (m \in relay => m \in relay')
      BY <1>1 DEF Of, Visible
    <3>3. order' = order /\ order[o].status # "deleted"
      BY <1>1, <2>1 DEF Stored
    <3> QED
      BY <2>1, <2>3, <3>1, <3>2, <3>3 DEF BeforeLinks, AfterLinks
  <2> QED
    BY <1>1, <1>2, <1>4, <2>3, <2>5, <2>6, ShownKept
<1> QED
  BY <1>3, <1>4

\* Deleting the replaced card keeps every order consistent, and leaves each admin with one card.
LEMMA ShowDeleteClear ==
  ASSUME TypeInv, RefInv, NEW o \in Orders, NEW t \in Tasks, OrderInv(o), ShowDelete(t), faults' = 0
  PROVE  OrderInv(o)'
<1>1. /\ Rest(t) /\ task[t].pc = "s_delete" /\ task[t].kind = "show" /\ NextShown(t) /\ task[t].pc \in Showing
      /\ UNCHANGED <<order, relay>>
  BY ShowDeleteLands DEF ShowDelete, Moved, Showing
<1>2. /\ Current(t) \in Orders /\ Current(t) \in DOMAIN task[t].rows /\ task[t].admin \in Admins
  BY <1>1, AtStep DEF Showing, Knowing
<1>3. \/ OldCard(t) = NoMsg /\ UNCHANGED msg
      \/ OldCard(t) # NoMsg /\ Hide({OldCard(t)})
  <2>1. ~Missed(msg)
    BY FaultCounts DEF Missed
  <2> QED
    BY <2>1 DEF ShowDelete
<1>4. /\ \A m \in Msgs : msg'[m].of = msg[m].of /\ msg'[m].admin = msg[m].admin
      /\ \A m \in Msgs : m = OldCard(t) => msg'[m].buttons = "hidden"
      /\ \A m \in Msgs : m # OldCard(t) => msg'[m] = msg[m]
  <2>1. CASE OldCard(t) = NoMsg /\ UNCHANGED msg
    BY <2>1, Constants
  <2>2. CASE Hide({OldCard(t)})
    BY <2>2, HideMoves DEF TypeInv, TableTypes
  <2> QED
    BY <1>3, <2>1, <2>2
<1>5. CASE o # Current(t)
  <2>1. OldCard(t) # NoMsg => Of(OldCard(t)) = Current(t)
    BY <1>2 DEF RefInv, RowRefs, OldCard, RowOf
  <2>2. Spares(o)
    BY <1>1, <1>4, <1>5, <2>1, Constants DEF Spares, SameRow, Of
  <2> QED
    BY <1>1, <1>5, <2>2, ShowAside
<1>6. CASE o = Current(t)
  <2>1. /\ t \in Work(o) /\ Stage(t, o) = "s_delete" /\ Phase(t, o) /\ NewCard(t) \in Msgs
        /\ RowOf(t) = task[t].rows[o] /\ BeforeLinks(t, o) /\ Stored(o)
    BY <1>1, <1>6, ShowsNow
  <2>2. /\ Twin(t, o) /\ Lettered(o)
        /\ \A a \in Admins :
             order[o].cards[a] = IF a = task[t].admin THEN NewCard(t) ELSE task[t].rows[o].cards[a]
    BY <2>1 DEF Phase
  <2>3. t \notin Work(o)' /\ task'[t].kind \in {"show", "none"}
    <3>1. task'[t].list = task[t].list \ {o}
      BY <1>1, <1>6, ShownLands
    <3>2. task'[t].kind = "show" \/ task'[t] = Free
      BY <1>1, ShownLands
    <3> QED
      BY <3>1, <3>2 DEF Work, Free
  <2>4. PICK old \in Msgs : old = OldCard(t)
    BY <1>2, <2>1, <2>2 DEF Twin, OldCard
  <2>5. old = task[t].rows[o].cards[task[t].admin] /\ old # NewCard(t) /\ ~Visible(old)' /\ "hidden" \notin CardButtons
    BY <1>2, <1>4, <2>1, <2>2, <2>4 DEF Twin, OldCard, Visible, CardButtons
  <2>6. ASSUME NEW a \in Admins, NEW m \in Msgs
        PROVE  IsCard(o, a, m)' <=> IsCard(o, a, m) /\ m # old
    <3>1. CASE m = old
      BY <1>4, <2>4, <2>5, <3>1 DEF IsCard
    <3>2. CASE m # old
      BY <1>4, <2>4, <3>2 DEF IsCard, Of
    <3> QED
      BY <3>1, <3>2
  <2>7. ASSUME NEW a \in Admins
        PROVE  order[o].cards[a] \in Msgs /\ \A m \in Msgs : IsCard(o, a, m)' <=> m = order[o].cards[a]
    <3>1. \A m \in Msgs : IsCard(o, a, m) <=> \/ m = task[t].rows[o].cards[a]
                                              \/ a = task[t].admin /\ m = NewCard(t)
      BY <2>2 DEF Twin
    <3>2. CASE a = task[t].admin
      BY <2>1, <2>2, <2>5, <2>6, <3>1, <3>2
    <3>3. CASE a # task[t].admin
      <4>1. ~IsCard(o, a, old)
        <5>1. IsCard(o, task[t].admin, old)
          BY <1>2, <2>2, <2>5 DEF Twin
        <5> QED
          BY <3>3, <5>1 DEF IsCard
      <4>2. task[t].rows[o].cards[a] \in Msgs /\ order[o].cards[a] = task[t].rows[o].cards[a]
        BY <2>2, <3>3 DEF Twin
      <4> QED
        BY <2>6, <3>1, <3>3, <4>1, <4>2
    <3> QED
      BY <3>2, <3>3
  <2>8. Fit(o)'
    <3>1. Cards(o)'
      BY <1>1, <2>7 DEF Cards, OneEach
    <3>2. \A a \in Admins, m \in Msgs : IsCard(o, a, m)' => msg'[m].buttons = Markup(order[o])
      BY <1>4, <2>2, <2>4, <2>6 DEF Lettered
    <3> QED
      BY <1>1, <3>1, <3>2 DEF Fit, Lettered
  <2>9. AfterLinks(t, o)
    <3>1. ASSUME NEW m \in Msgs
          PROVE  ~Loose(t, o, m) /\ (Carries(t, o, m) => m = old) /\ (Known(o, m)' <=> Known(o, m))
      BY <1>1, <2>1, <2>5 DEF Carries, Loose, Known
    <3>2. \A m \in Msgs : Of(m)' = Of(m) /\ (Visible(m)' => Visible(m) /\ m # old)
      BY <1>4, <2>4, <2>5 DEF Of, Visible
    <3>3. order' = order /\ relay' = relay /\ order[o].status # "deleted"
      BY <1>1, <2>1 DEF Stored
    <3> QED
      BY <2>1, <2>3, <3>1, <3>2, <3>3 DEF BeforeLinks, AfterLinks, Stored
  <2> QED
    BY <1>1, <1>6, <2>3, <2>8, <2>9, ShownKept
<1> QED
  BY <1>5, <1>6


-----------------------------------------------------------------------------
(* A message of the customer *)

\* A chat line that starts keeps every order consistent.
LEMMA TalkClear ==
  ASSUME TypeInv, NEW o \in Orders, NEW t \in Tasks, OrderInv(o), o \notin mixed', Talk(t)
  PROVE  OrderInv(o)'
<1>1. UNCHANGED <<order, relay, msg>>
  BY DEF Talk
<1>2. PICK q \in Orders :
        /\ order[q].chat /\ Meet("talk", {q}) /\ Rest(t) /\ task[t] = Free
        /\ task'[t].pc = "t_send" /\ task'[t].kind = "talk" /\ task'[t].list = {q}
  BY TalkLands DEF Moved
<1>3. CASE q # o
  <2>1. Elsewhere(q)
    BY <1>1 DEF Elsewhere
  <2> QED
    BY <1>1, <1>2, <1>3, <2>1, TapAside
<1>4. CASE q = o
  <2>1. t \notin CardTasks(o) /\ t \notin CardTasks(o)' /\ t \notin Work(o)
    BY <1>2, NoOrderNow DEF CardTasks
  <2>2. \A u \in CardTasks(o) : task[u].kind # "clean"
    BY <1>2, <1>4, MeetsNobody DEF CardTasks
  <2>3. order[o].status = "accepted"
    BY <1>2, <1>4 DEF OrderInv, TalkInv, InProgress
  <2>4. ASSUME NEW u \in CardTasks(o), At(u, "d_open") PROVE FALSE
    <3>1. u \in Tasks /\ task[u].pc = "d_open" /\ task[u].kind = "decide"
      BY <2>4, KindOf DEF CardTasks, Work, At, TypeInv
    <3>2. Stage(u, o) = "d_open" /\ Phase(u, o)
      BY <3>1 DEF Stage, OrderInv, PhaseInv
    <3> QED
      BY <1>2, <1>4, <3>2 DEF Phase
  <2>5. SameRow(o) /\ SameCards(o)
    BY <1>1 DEF SameRow, SameCards, IsCard, Of
  <2>6. ASSUME NEW m \in Msgs, Seen(o, m)'
        PROVE  \/ Awaited(o, m)'
               \/ Seen(o, m) /\ (m \in relay => m \in relay') /\ (Awaited(o, m) => m \in relay')
    <3>1. Awaited(o, m) => Awaited(o, m)'
      BY <1>2, <2>1, RestWork DEF Awaited, At
    <3> QED
      BY <1>1, <2>6, <3>1 DEF Seen, Of, Visible
  <2> QED
    BY <1>2, <2>1, <2>2, <2>3, <2>4, <2>5, <2>6, TalkKept
<1> QED
  BY <1>3, <1>4

\* the order a message of the customer belongs to
LEMMA TalksNow ==
  ASSUME NEW o \in Orders, NEW t \in Work(o), task[t].kind = "talk", OrderInv(o)
  PROVE  /\ order[o].status \notin {"none", "pending", "deleted"}
         /\ \A u \in CardTasks(o) : ~At(u, "d_open") /\ task[u].kind # "clean"
<1>1. \A u \in CardTasks(o) : u \in Work(o) /\ u # t
  BY DEF CardTasks
<1> QED
  BY <1>1 DEF OrderInv, TalkInv, Alone

\* Sending a chat line keeps every order consistent: until it is linked, its messages are awaited.
LEMMA TalkSendClear ==
  ASSUME TypeInv, RefInv, NEW o \in Orders, NEW t \in Tasks, OrderInv(o), TalkSend(t), faults' = 0
  PROVE  OrderInv(o)'
<1>1. /\ Rest(t) /\ task[t].pc = "t_send" /\ task[t].kind = "talk" /\ task[t].list = {Current(t)}
      /\ task'[t].pc = "t_link" /\ SameHand(t)
      /\ Post(Admins, task[t].base, Current(t), "chat")
      /\ task'[t].refs = {task[t].base + a : a \in Admins}
  <2>1. PICK S \in SUBSET Admins :
          /\ Reached(S, Admins) /\ Post(S, task[t].base, Current(t), "chat")
          /\ task'[t].refs = {task[t].base + a : a \in S}
    BY TalkSendLands
  <2>2. S = Admins
    BY <2>1, ReachedCounts
  <2> QED
    BY <2>1, <2>2, TalkSendLands DEF Moved
<1>2. UNCHANGED <<order, relay>> /\ Current(t) \in Orders /\ "chat" \in Buttons \ {"hidden"} /\ "chat" \notin CardButtons
  BY <1>1, AtStep DEF TalkSend, Buttons, CardButtons
<1>3. /\ \A m \in Msgs : m - task[t].base \in Admins => msg'[m].of = Current(t) /\ msg'[m].buttons = "chat"
      /\ \A m \in Msgs : m - task[t].base \notin Admins => msg'[m] = msg[m]
      /\ \A m \in Msgs : m - task[t].base \in Admins => Of(m) = NoOrder /\ m \in task'[t].refs
  <2>1. \A m \in Msgs : m - task[t].base \in Admins => Of(m) = NoOrder /\ task[t].base + (m - task[t].base) = m
    BY <1>1, PostFresh
  <2>2. \A m \in Msgs : m - task[t].base \in Admins => m \in task'[t].refs
    BY <1>1, <2>1
  <2> QED
    BY <1>1, <1>2, <2>1, <2>2, PostFresh, PostMoves DEF TypeInv, TableTypes
<1>4. CASE o # Current(t)
  <2>1. Spares(o)
    BY <1>1, <1>2, <1>4, PostSpares
  <2> QED
    BY <1>1, <1>2, <1>4, <2>1, EndsAside
<1>5. CASE o = Current(t)
  <2>1. t \in Work(o) /\ t \notin CardTasks(o) /\ t \notin CardTasks(o)' /\ t \in Work(o)'
    BY <1>1, <1>5, OneOrder, OneOrderAfter DEF SameHand
  <2>2. /\ order[o].status \notin {"none", "pending", "deleted"}
        /\ \A u \in CardTasks(o) : ~At(u, "d_open") /\ task[u].kind # "clean"
    BY <1>1, <2>1, TalksNow
  <2>3. ASSUME NEW a \in Admins, NEW m \in Msgs
        PROVE  /\ IsCard(o, a, m)' <=> IsCard(o, a, m)
               /\ IsCard(o, a, m) => msg'[m].buttons = msg[m].buttons
    <3>1. CASE m - task[t].base \in Admins
      <4>1. ~IsCard(o, a, m)
        BY <1>3, <3>1, Constants DEF IsCard
      <4>2. ~IsCard(o, a, m)'
        BY <1>2, <1>3, <3>1 DEF IsCard
      <4> QED
        BY <4>1, <4>2
    <3>2. CASE m - task[t].base \notin Admins
      BY <1>3, <3>2 DEF IsCard, Of
    <3> QED
      BY <3>1, <3>2
  <2>4. SameRow(o) /\ SameCards(o)
    BY <1>2, <2>3 DEF SameRow, SameCards
  <2>5. ASSUME NEW m \in Msgs, Seen(o, m)'
        PROVE  \/ Awaited(o, m)'
               \/ Seen(o, m) /\ (m \in relay => m \in relay') /\ (Awaited(o, m) => m \in relay')
    <3>1. CASE m - task[t].base \in Admins
      BY <1>1, <1>3, <2>1, <3>1 DEF Awaited, At
    <3>2. CASE m - task[t].base \notin Admins
      <4>1. Awaited(o, m) => Awaited(o, m)'
        BY <1>1, <2>1, RestWork DEF Awaited, At
      <4>2. Seen(o, m)
        BY <1>3, <2>5, <3>2 DEF Seen, Of, Visible
      <4> QED
        BY <1>2, <4>1, <4>2
    <3> QED
      BY <3>1, <3>2
  <2> QED
    BY <1>1, <2>1, <2>2, <2>4, <2>5, TalkKept
<1> QED
  BY <1>4, <1>5

\* Linking the sent lines keeps every order consistent: they lead to the chat from then on.
LEMMA TalkLinkClear ==
  ASSUME TypeInv, RefInv, NEW o \in Orders, NEW t \in Tasks, OrderInv(o), TalkLink(t), faults' = 0
  PROVE  OrderInv(o)'
<1>1. /\ Rest(t) /\ Ends(t) /\ task[t].pc = "t_link" /\ task[t].kind = "talk" /\ task[t].list = {Current(t)}
      /\ Current(t) \in Orders /\ UNCHANGED <<order, msg>> /\ relay' = relay \cup task[t].refs
  <2>1. UNCHANGED <<order, msg>>
    BY DEF TalkLink
  <2>2. PICK S \in SUBSET task[t].refs : Reached(S, task[t].refs) /\ Link(S)
    BY DEF TalkLink
  <2>3. relay' = relay \cup task[t].refs
    BY <2>2, ReachedCounts DEF Link
  <2> QED
    BY <2>1, <2>3, TalkLinkLands, AtStep DEF Moved
<1>2. \A m \in task[t].refs : m \in Msgs /\ Of(m) = Current(t)
  <2>1. \A m \in task[t].refs : Of(m) \in task[t].list
    BY <1>1 DEF RefInv, HandRefs
  <2> QED
    BY <1>1, <2>1, RecordTyped DEF TypeInv
<1>3. CASE o # Current(t)
  <2>1. Spares(o)
    BY <1>1, <1>2, <1>3 DEF Spares, SameRow
  <2> QED
    BY <1>1, <1>3, <2>1, EndsAside
<1>4. CASE o = Current(t)
  <2>1. t \in Work(o) /\ t \notin CardTasks(o) /\ t \notin CardTasks(o)' /\ t \notin Work(o)'
    BY <1>1, <1>4, OneOrder, NoOrderNow
  <2>2. /\ order[o].status \notin {"none", "pending", "deleted"}
        /\ \A u \in CardTasks(o) : ~At(u, "d_open") /\ task[u].kind # "clean"
    BY <1>1, <2>1, TalksNow
  <2>3. SameRow(o) /\ SameCards(o)
    BY <1>1 DEF SameRow, SameCards, IsCard, Of
  <2>4. ASSUME NEW m \in Msgs, Seen(o, m)'
        PROVE  \/ Awaited(o, m)'
               \/ Seen(o, m) /\ (m \in relay => m \in relay') /\ (Awaited(o, m) => m \in relay')
    <3>1. ASSUME Awaited(o, m) PROVE Awaited(o, m)' \/ m \in relay'
      <4>1. PICK u \in Work(o) : At(u, "t_link") /\ m \in task[u].refs
        BY <3>1 DEF Awaited
      <4>2. CASE u = t
        BY <1>1, <4>1, <4>2
      <4>3. CASE u # t
        BY <1>1, <4>1, <4>3, RestWork DEF Awaited, At
      <4> QED
        BY <4>2, <4>3
    <3> QED
      BY <1>1, <2>4, <3>1 DEF Seen, Of, Visible
  <2> QED
    BY <1>1, <2>1, <2>2, <2>3, <2>4, TalkKept
<1> QED
  BY <1>3, <1>4


-----------------------------------------------------------------------------
(* The clean-up *)

\* The purge of orders nobody works at keeps every order consistent: the messages left are in its
\* hands.
LEMMA PurgeClear ==
  ASSUME TypeInv, NEW o \in Orders, NEW t \in Tasks, NEW S \in SUBSET Orders, OrderInv(o), o \notin mixed', Purge(t, S)
  PROVE  OrderInv(o)'
<1>1. /\ Rest(t) /\ task[t] = Free /\ Meet("clean", S)
      /\ \/ ToDelete(S) = {} /\ Ends(t)
         \/ /\ task'[t].pc = "c_delete" /\ task'[t].kind = "clean" /\ task'[t].list = S
            /\ task'[t].refs = ToDelete(S)
  BY PurgeLands DEF Moved
<1>2. /\ \A q \in S : Finished(q)
      /\ relay' = relay \ UNION {LinkedTo(q) : q \in S}
      /\ UNCHANGED msg
  BY DEF Purge
<1>3. /\ \A q \in S : order'[q].status = "deleted" /\ ~order'[q].chat
      /\ \A q \in Orders \ S : order'[q] = order[q]
  <2>1. order' = [q \in Orders |-> IF q \in S THEN [order[q] EXCEPT !.status = "deleted", !.chat = FALSE, !.cards = NoCards] ELSE order[q]]
    BY DEF Purge
  <2> QED
    BY <2>1, PurgeMoves DEF TypeInv, TableTypes
<1>4. t \notin Work(o) /\ t \notin CardTasks(o) /\ task[t].kind = "none" /\ ~At(t, "t_link")
  BY <1>1, NoOrderNow
<1>5. CASE o \notin S
  <2>1. t \notin Work(o)'
    BY <1>1, <1>5, NoOrderNow DEF Work
  <2>2. \A q \in S : \A m \in LinkedTo(q) : Of(m) # o
    BY <1>5 DEF LinkedTo, Of
  <2>3. Spares(o)
    BY <1>2, <1>3, <1>5, <2>2 DEF Spares, SameRow
  <2> QED
    BY <1>1, <1>4, <2>1, <2>3, SparedKept
<1>6. CASE o \in S
  <2>1. Work(o) = {} /\ CardTasks(o) = {}
    BY <1>1, <1>6, MeetsNobody DEF CardTasks
  <2>2. Stored(o)
    BY <1>2, <1>6 DEF Finished, Stored
  <2>3. BeforeLinks(t, o)
    BY <2>1, LinksBefore
  <2>4. ASSUME NEW m \in Msgs, Of(m) = o
        PROVE  m \notin relay' /\ (Visible(m) => m \in ToDelete(S))
    <3>1. m \in relay => m \in LinkedTo(o)
      BY <2>4 DEF LinkedTo, Of
    <3>2. m \in relay => m \notin relay' /\ m \in ToDelete(S)
      BY <1>2, <1>6, <3>1 DEF ToDelete
    <3>3. Known(o, m) => m \in ToDelete(S)
      <4>1. Known(o, m) => m \in CardsAmong(order[o], Admins)
        BY Constants DEF Known, CardsAmong
      <4> QED
        BY <1>6, <4>1 DEF ToDelete
    <3>4. Visible(m) => m \in relay \/ Known(o, m)
      BY <2>1, <2>2, <2>3, <2>4 DEF BeforeLinks, Awaited
    <3> QED
      BY <1>2, <3>2, <3>3, <3>4
  <2>5. ToDelete(S) # {} => t \in Work(o)' /\ Stage(t, o)' = "c_delete"
    BY <1>1, <1>6 DEF Work, Stage
  <2>6. AfterLinks(t, o)
    <3>1. \A m \in Msgs : Of(m)' = Of(m) /\ Visible(m)' = Visible(m)
      BY <1>2 DEF Of, Visible
    <3>2. ~Stored(o)' /\ ~order'[o].chat
      BY <1>3, <1>6 DEF Stored
    <3> QED
      BY <1>1, <2>4, <2>5, <3>1, <3>2 DEF AfterLinks
  <2>7. t \in Work(o)' => Phase(t, o)' /\ task'[t].kind = "clean" /\ ~At(t, "d_open")'
    <3> SUFFICES ASSUME t \in Work(o)' PROVE Phase(t, o)' /\ task'[t].kind = "clean" /\ ~At(t, "d_open")'
      OBVIOUS
    <3>1. task'[t].kind = "clean" /\ task'[t].pc = "c_delete" /\ Stage(t, o)' = "c_delete"
      BY <1>1, NoOrderNow DEF Stage
    <3> QED
      BY <1>3, <1>6, <3>1 DEF Phase, Placing, At
  <2>8. task'[t].kind # "talk"
    BY <1>1, NoOrderNow
  <2> QED
    BY <1>1, <1>3, <1>4, <1>6, <2>1, <2>6, <2>7, <2>8, OwnKept DEF Stored
<1> QED
  BY <1>5, <1>6

\* The deletion of the purged orders' messages leaves none of them visible.
LEMMA DeleteMessagesClear ==
  ASSUME TypeInv, RefInv, NEW o \in Orders, NEW t \in Tasks, OrderInv(o), DeleteMessages(t), faults' = 0
  PROVE  OrderInv(o)'
<1>1. /\ Rest(t) /\ Ends(t) /\ task[t].pc = "c_delete" /\ task[t].kind = "clean" /\ UNCHANGED <<order, relay>>
      /\ task[t].refs \subseteq Msgs
  <2>1. UNCHANGED <<order, relay>>
    BY DEF DeleteMessages
  <2> QED
    BY <2>1, DeleteMessagesLands, RecordTyped DEF Moved, TypeInv
<1>2. Hide(task[t].refs)
  <2>1. PICK S \in SUBSET task[t].refs : Reached(S, task[t].refs) /\ Hide(S)
    BY DEF DeleteMessages
  <2> QED
    BY <2>1, ReachedCounts
<1>3. /\ \A m \in Msgs : msg'[m].of = msg[m].of
      /\ \A m \in Msgs : m \in task[t].refs => msg'[m].buttons = "hidden"
      /\ \A m \in Msgs : m \notin task[t].refs => msg'[m] = msg[m]
  BY <1>2, HideMoves DEF TypeInv, TableTypes
<1>4. t \notin Work(o)' /\ task'[t].kind = "none" /\ ~At(t, "t_link")
  BY <1>1, NoOrderNow DEF At
<1>5. CASE o \notin task[t].list
  <2>1. \A m \in task[t].refs : Of(m) # o
    BY <1>1, <1>5 DEF RefInv, HandRefs
  <2>2. Spares(o)
    BY <1>1, <1>3, <2>1 DEF Spares, SameRow, Of
  <2>3. t \notin Work(o)
    BY <1>5 DEF Work
  <2> QED
    BY <1>1, <1>4, <2>2, <2>3, SparedKept
<1>6. CASE o \in task[t].list
  <2>1. t \in CardTasks(o) /\ t \in Work(o) /\ Stage(t, o) = "c_delete"
    BY <1>1, <1>6 DEF CardTasks, Work, Stage
  <2>2. CardTasks(o) \subseteq {t} /\ Phase(t, o)
    BY <2>1 DEF OrderInv, Alone, PhaseInv
  <2>3. order[o].status = "deleted" /\ ~order[o].chat
    BY <2>1, <2>2 DEF Phase, OrderInv, TalkInv, InProgress
  <2>4. BeforeLinks(t, o)
    BY <2>2, LinksBefore
  <2>5. AfterLinks(t, o)
    <3>1. \A m \in Msgs : Of(m)' = Of(m) /\ (Visible(m)' => Visible(m) /\ m \notin task[t].refs)
      BY <1>3 DEF Of, Visible
    <3> QED
      BY <1>1, <2>3, <2>4, <3>1 DEF BeforeLinks, AfterLinks, Stored
  <2>6. \A u \in Work(o) : task[u].kind # "talk"
    BY <2>3 DEF OrderInv, TalkInv
  <2> QED
    BY <1>1, <1>4, <2>2, <2>3, <2>5, <2>6, OwnKept DEF Stored
<1> QED
  BY <1>5, <1>6


-----------------------------------------------------------------------------
(* Orders nothing disturbed stay consistent *)

\* what was disturbed stays so
LEMMA FaultsGrow ==
  ASSUME TypeInv, NEW t \in Tasks, CardStep(t) \/ RemindStep(t) \/ Tap(t) \/ Remind(t) \/ TaskFails(t),
         faults' = 0
  PROVE  faults = 0 /\ ~TaskFails(t)
<1>1. faults \in Nat
  BY Constants DEF TypeInv, CountTypes
<1>2. CASE UNCHANGED faults
  <2>1. ~TaskFails(t)
    BY <1>1, <1>2 DEF TaskFails, Fault
  <2> QED
    BY <1>2, <2>1
<1>3. CASE Fault
  BY <1>3, FaultCounts
<1>4. ASSUME NEW S, NEW all, Reached(S, all)
      PROVE  UNCHANGED faults \/ Fault
  BY <1>4 DEF Reached
<1>5. UNCHANGED faults \/ Fault
  <2>1. CASE NotifySend(t) \/ EditCards(t) \/ DecideLink(t) \/ TalkSend(t) \/ TalkLink(t) \/ DeleteMessages(t)
    BY <1>4, <2>1 DEF NotifySend, EditCards, DecideLink, TalkSend, TalkLink, DeleteMessages
  <2>2. CASE NotifyGet(t) \/ NotifySave(t) \/ DecideOpen(t) \/ GetOrder(t) \/ CloseGet(t) \/ CloseEdit(t)
    BY <2>2 DEF NotifyGet, NotifySave, DecideOpen, GetOrder, CloseGet, CloseEdit, Missed
  <2>3. CASE ShowSend(t) \/ ShowSave(t) \/ ShowLink(t) \/ ShowDelete(t)
    BY <2>3 DEF ShowSend, ShowSave, ShowLink, ShowDelete, Missed
  <2>4. CASE RemindStep(t) \/ Remind(t) \/ TaskFails(t)
    BY <2>4 DEF RemindStep, RemindGet, RemindSend, Mark, Remind, TaskFails, Missed
  <2>5. CASE Tap(t)
    BY <2>5 DEF Tap, Place, Finish, Withdraw, Decide, Close, ShowPending, ShowInProgress, Show, Talk, Purge
  <2>6. CASE CardStep(t)
    BY <2>1, <2>2, <2>3, <2>6 DEF CardStep
  <2> QED
    BY <2>4, <2>5, <2>6
<1> QED
  BY <1>2, <1>3, <1>5

\* An order where different handlers have met stays marked.
LEMMA MixedGrows ==
  ASSUME TypeInv, NEW t \in Tasks, CardStep(t) \/ RemindStep(t) \/ Tap(t) \/ Remind(t) \/ TaskFails(t)
  PROVE  mixed \subseteq mixed'
<1>1. CASE UNCHANGED mixed
  BY <1>1
<1>2. ASSUME NEW k, NEW S, Meet(k, S) PROVE mixed \subseteq mixed'
  BY <1>2 DEF Meet
<1>3. CASE CardStep(t)
  <2>1. UNCHANGED mixed
    BY <1>3 DEF CardStep, NotifyGet, NotifySend, NotifySave, DecideOpen, GetOrder, CloseGet, CloseEdit, EditCards,
                DecideLink, ShowSend, ShowSave, ShowLink, ShowDelete, TalkSend, TalkLink, DeleteMessages
  <2> QED
    BY <1>1, <2>1
<1>4. CASE RemindStep(t) \/ Remind(t) \/ TaskFails(t)
  <2>1. UNCHANGED mixed
    BY <1>4 DEF RemindStep, RemindGet, RemindSend, Mark, Remind, TaskFails
  <2> QED
    BY <1>1, <2>1
<1>5. CASE Tap(t)
  <2>1. ASSUME NEW o \in Orders, Finish(t, o) \/ Withdraw(t, o) \/ \E v \in {"accepted", "rejected"} : Decide(t, o, v)
        PROVE  mixed \subseteq mixed'
    <3>1. ASSUME NEW k, NEW l, Begin(t, k, o, l) PROVE mixed \subseteq mixed'
      BY <1>2, <3>1 DEF Begin
    <3> QED
      BY <2>1, <3>1 DEF Finish, Withdraw, Decide
  <2>2. ASSUME NEW o \in Orders, Place(t, o) PROVE mixed \subseteq mixed'
    BY <2>2 DEF Place
  <2>3. ASSUME NEW m \in Msgs, Close(t, m) PROVE mixed \subseteq mixed'
    BY <1>2, <2>3 DEF Close
  <2>4. ASSUME NEW a \in Admins, ShowPending(t, a) \/ ShowInProgress(t, a) PROVE mixed \subseteq mixed'
    BY <1>2, <2>4 DEF ShowPending, ShowInProgress, Show
  <2>5. CASE Talk(t)
    BY <1>2, <2>5 DEF Talk
  <2>6. ASSUME NEW S \in SUBSET Orders, Purge(t, S) PROVE mixed \subseteq mixed'
    BY <1>2, <2>6 DEF Purge
  <2> QED
    BY <1>5, <2>1, <2>2, <2>3, <2>4, <2>5, <2>6 DEF Tap
<1> QED
  BY <1>3, <1>4, <1>5

\* Every step of a task keeps an order consistent, as long as nothing fails and only handlers of
\* one sort meet at the order.
LEMMA StepClear ==
  ASSUME TypeInv, RefInv, NEW t \in Tasks, CardStep(t) \/ RemindStep(t) \/ Tap(t) \/ Remind(t) \/ TaskFails(t),
         NEW o \in Orders, OrderInv(o), faults' = 0, o \notin mixed'
  PROVE  OrderInv(o)'
<1>1. ~TaskFails(t)
  BY FaultsGrow
<1>2. CASE CardStep(t)
  <2>1. CASE NotifyGet(t) \/ NotifySend(t) \/ NotifySave(t)
    BY <2>1, ReadClear, NotifySendClear, NotifySaveClear
  <2>2. CASE DecideOpen(t) \/ GetOrder(t) \/ EditCards(t) \/ DecideLink(t)
    BY <2>2, DecideOpenClear, ReadClear, EditCardsClear, DecideLinkClear
  <2>3. CASE CloseGet(t) \/ CloseEdit(t)
    BY <2>3, ReadClear, CloseEditClear
  <2>4. CASE ShowSend(t) \/ ShowSave(t) \/ ShowLink(t) \/ ShowDelete(t)
    BY <2>4, ShowSendClear, ShowSaveClear, ShowLinkClear, ShowDeleteClear
  <2>5. CASE TalkSend(t) \/ TalkLink(t) \/ DeleteMessages(t)
    BY <2>5, TalkSendClear, TalkLinkClear, DeleteMessagesClear
  <2> QED
    BY <1>2, <2>1, <2>2, <2>3, <2>4, <2>5 DEF CardStep
<1>3. CASE RemindStep(t) \/ Remind(t)
  BY <1>3, RemindClear DEF RemindStep
<1>4. CASE Tap(t)
  <2>1. ASSUME NEW q \in Orders, Place(t, q) PROVE OrderInv(o)'
    BY <2>1, PlaceClear
  <2>2. ASSUME NEW q \in Orders,
               \/ Finish(t, q) \/ Withdraw(t, q)
               \/ \E verdict \in {"accepted", "rejected"} : Decide(t, q, verdict)
        PROVE  OrderInv(o)'
    BY <2>2, TapClear
  <2>3. ASSUME NEW m \in Msgs, Close(t, m) PROVE OrderInv(o)'
    BY <2>3, CloseClear
  <2>4. ASSUME NEW a \in Admins, NEW S \in SUBSET Orders, Show(t, a, S),
               \A q \in S : order[q].status = "pending" \/ InProgress(q)
        PROVE  OrderInv(o)'
    BY <2>4, ListClear
  <2>5. ASSUME NEW a \in Admins, ShowPending(t, a) \/ ShowInProgress(t, a) PROVE OrderInv(o)'
    <3>1. CASE ShowPending(t, a)
      <4>1. \A q \in {q \in Orders : order[q].status = "pending"} : order[q].status = "pending" \/ InProgress(q)
        OBVIOUS
      <4> QED
        BY <2>4, <3>1, <4>1 DEF ShowPending
    <3>2. CASE ShowInProgress(t, a)
      <4>1. \A q \in {q \in Orders : InProgress(q)} : order[q].status = "pending" \/ InProgress(q)
        OBVIOUS
      <4> QED
        BY <2>4, <3>2, <4>1 DEF ShowInProgress
    <3> QED
      BY <2>5, <3>1, <3>2
  <2>6. CASE Talk(t)
    BY <2>6, TalkClear
  <2>7. ASSUME NEW S \in SUBSET Orders, Purge(t, S) PROVE OrderInv(o)'
    BY <2>7, PurgeClear
  <2> QED
    BY <1>4, <2>1, <2>2, <2>3, <2>5, <2>6, <2>7 DEF Tap
<1> QED
  BY <1>1, <1>2, <1>3, <1>4


\* Every step keeps it so that an order is consistent unless something failed or different
\* handlers met at it.
LEMMA ClearKept == TypeInv /\ RefInv /\ ClearInv /\ [Next]_vars => ClearInv'
<1> SUFFICES ASSUME TypeInv, RefInv, ClearInv, [Next]_vars, NEW o \in Orders, faults' = 0, o \notin mixed'
             PROVE  OrderInv(o)'
  BY DEF ClearInv, Clear
<1>1. CASE UNCHANGED vars
  <2>1. UNCHANGED <<order, relay, msg, task, mixed, faults>>
    BY <1>1 DEF vars
  <2>2. OrderInv(o)
    BY <2>1 DEF ClearInv, Clear
  <2>3. Work(o)' = Work(o)
    BY <2>1 DEF Work
  <2>4. SameRow(o) /\ \A u \in Work(o) : SameWork(u, o)
    BY <2>1 DEF SameRow, SameWork, Stage, Current, NewCard
  <2> QED
    BY <2>1, <2>2, <2>3, <2>4, AsideKept
<1>2. CASE Crash
  BY <1>2, FaultCounts DEF Crash
<1>3. ASSUME NEW t \in Tasks, CardStep(t) \/ RemindStep(t) \/ Tap(t) \/ Remind(t) \/ TaskFails(t)
      PROVE  OrderInv(o)'
  <2>1. faults = 0 /\ o \notin mixed
    BY <1>3, FaultsGrow, MixedGrows
  <2>2. OrderInv(o)
    BY <2>1 DEF ClearInv, Clear
  <2> QED
    BY <1>3, <2>2, StepClear
<1> QED
  BY <1>1, <1>2, <1>3 DEF Next

\* Every order is consistent when none is stored.
LEMMA InitClear == Init => ClearInv
<1> SUFFICES ASSUME Init, NEW o \in Orders PROVE OrderInv(o)
  BY DEF ClearInv
<1>1. Work(o) = {} /\ CardTasks(o) = {}
  BY FreeTyped DEF Init, Work, CardTasks
<1>2. order[o].status = "none" /\ ~order[o].chat /\ ~order[o].over /\ order[o].cards = NoCards
  BY DEF Init
<1>3. \A m \in Msgs : Of(m) = NoOrder
  BY DEF Init, Of
<1>4. HasNone(o)
  BY <1>3, Constants DEF HasNone
<1>5. ~Stored(o)
  BY <1>2 DEF Stored
<1>6. Alone(o)
  BY <1>1 DEF Alone
<1>7. PhaseInv(o)
  BY <1>1, <1>2, <1>4, <1>5 DEF PhaseInv
<1>8. TalkInv(o)
  BY <1>1, <1>2 DEF TalkInv
<1>9. LinkInv(o)
  BY <1>2, <1>4, <1>5 DEF LinkInv, HasNone, Seen
<1> QED
  BY <1>6, <1>7, <1>8, <1>9 DEF OrderInv

\* Until a call fails or two tasks work on an order at once, every stage of
\* every handler finds the row, the cards and the links as the stages before
\* it left them, between any two of its awaits (ClearInv).
THEOREM ClearCorrect == Spec => []ClearInv
<1>1. Init => TypeInv /\ RefInv /\ ClearInv
  BY InitTyped, InitRefs, InitClear
<1>2. TypeInv /\ RefInv /\ ClearInv /\ [Next]_vars => (TypeInv /\ RefInv /\ ClearInv)'
  BY NextTyped, RefKept, ClearKept
<1> QED
  BY <1>1, <1>2, PTL DEF Spec

\* nobody works on the cards of an order that is undisturbed
LEMMA UndisturbedClear ==
  ASSUME ClearInv, NEW o \in Orders, Undisturbed(o)
  PROVE  OrderInv(o) /\ CardTasks(o) = {}
<1>1. Clear(o)
  BY DEF Undisturbed, Clear
<1>2. CardTasks(o) = {}
  BY DEF Undisturbed, Busy, CardTasks, Work
<1> QED
  BY <1>1, <1>2 DEF ClearInv

\* In a consistent order nobody works at, each admin has one card, and its buttons are those of
\* the row.
LEMMA CardIsCurrentHolds == ClearInv => CardIsCurrent
<1> SUFFICES ASSUME ClearInv, NEW o \in Orders, NEW a \in Admins, Undisturbed(o), Stored(o)
             PROVE  CardsWith(o, a) = {order[o].cards[a]} /\ msg[order[o].cards[a]].buttons = Markup(order[o])
  BY DEF CardIsCurrent
<1>1. Fit(o)
  BY UndisturbedClear DEF OrderInv, PhaseInv
<1>2. order[o].cards[a] \in Msgs /\ \A m \in Msgs : IsCard(o, a, m) <=> m = order[o].cards[a]
  BY <1>1 DEF Fit, Cards, OneEach
<1>3. \A m \in Msgs : IsCard(o, a, m) => msg[m].buttons = Markup(order[o])
  BY <1>1 DEF Fit, Lettered
<1>4. \A m \in Msgs : m \in CardsWith(o, a) <=> IsCard(o, a, m)
  BY DEF CardsWith, IsCard, Of
<1>5. CardsWith(o, a) \subseteq Msgs
  BY DEF CardsWith
<1> QED
  BY <1>2, <1>3, <1>4, <1>5

\* Every admin has one card of an order, the one admin_msg_ids names, with
\* the buttons of the order's state, through verdicts, outcomes, ended chats
\* and cards that were sent anew (README.md:53-57).
THEOREM CardsCorrect == Spec => []CardIsCurrent
BY ClearCorrect, CardIsCurrentHolds, PTL

\* In a consistent order with an open chat that nobody works at, every message an admin can reply
\* to leads to the chat.
LEMMA EveryReplyHolds == ClearInv => EveryReplyFindsTheChat
<1> SUFFICES ASSUME ClearInv, NEW o \in Orders, Undisturbed(o), order[o].chat, Busy(o) = {},
                    NEW m \in Msgs, msg[m].of = o, Visible(m)
             PROVE  m \in relay
  BY DEF EveryReplyFindsTheChat
<1>1. OrderInv(o) /\ CardTasks(o) = {}
  BY UndisturbedClear
<1>2. Work(o) = {}
  BY DEF Busy, Work
<1>3. Seen(o, m)
  BY DEF Seen, Of
<1> QED
  BY <1>1, <1>2, <1>3 DEF OrderInv, LinkInv, Awaited

\* A reply to any message of an order's chat (client.py:1678), also to a card
\* that was sent anew and to what was relayed since, has its row in chat_relay.
THEOREM RepliesCorrect == Spec => []EveryReplyFindsTheChat
BY ClearCorrect, EveryReplyHolds, PTL

\* Of a consistent order that was purged and that nobody works at, no message is visible or
\* linked.
LEMMA NothingLeftHolds == ClearInv => NothingIsLeftBehind
<1> SUFFICES ASSUME ClearInv, NEW o \in Orders, Undisturbed(o), order[o].status = "deleted",
                    NEW m \in Msgs, msg[m].of = o
             PROVE  ~Visible(m) /\ m \notin relay
  BY DEF NothingIsLeftBehind
<1>1. OrderInv(o) /\ CardTasks(o) = {}
  BY UndisturbedClear
<1> QED
  BY <1>1 DEF OrderInv, LinkInv, Of

\* A clean-up leaves no card, no relayed message and no row of chat_relay of
\* the orders it deletes (README.md:58): all their messages were known.
THEOREM CleanCorrect == Spec => []NothingIsLeftBehind
BY ClearCorrect, NothingLeftHolds, PTL
=============================================================================

---------------------------- MODULE PublishProofs ----------------------------
(***************************************************************************)
(* What holds of Publish for every number of products, chats, tasks and    *)
(* publications: the types, that a message is sent or edited with the ID   *)
(* line where the code can build one, that posts match the row when nobody *)
(* works on a product, that a chat has one post of it, and that a dropped  *)
(* product has none.                                                       *)
(***************************************************************************)
EXTENDS Publish, TLAPS, FiniteSetTheorems, WellFoundedInduction

-----------------------------------------------------------------------------
(* Types *)

PubLabels == {"l_wait", "l_id", "s_send", "s_log", "s_mark"}

DeleteLabels == {"d_list", "d_del", "d_dead"}

ShowLabels == {"x_id", "x_list", "x_edit", "x_dead"}

EditLabels == {"e_write", "e_answer", "p_wait", "p_ai", "p_write", "f_read"}

Labels == PubLabels \cup DeleteLabels \cup ShowLabels \cup EditLabels
          \cup {"idle", "t_set", "w_probe", "w_drop"}

Kinds == Publications \cup {"none", "toggle", "edit", "sweep"}

\* values without a bound on the number of edits
AnyTexts == [Fields -> Nat]

AnyCaptions == [text : AnyTexts, tag : Lines]

AnyLooks == [cap : AnyCaptions, sold : BOOLEAN]

TaskRecords ==
  [pc : Labels, kind : Kinds, job : Products \cup {NoProduct}, base : AnyTexts, cap : AnyCaptions,
   sold : BOOLEAN, pub : Nat, chat : Nat, sent : SUBSET Msgs, todo : SUBSET Msgs, batch : SUBSET Products]

\* who is where, and for what
Shape(r) ==
  /\ r.pc = "idle" => r.kind = "none"
  /\ r.pc \in PubLabels => r.kind \in Publications
  /\ r.pc \in DeleteLabels => r.kind \in Publications \cup {"sweep"}
  /\ r.pc \in ShowLabels => r.kind \in {"toggle", "edit"}
  /\ r.pc = "t_set" => r.kind = "toggle"
  /\ r.pc \in EditLabels => r.kind = "edit"
  /\ r.pc \in {"w_probe", "w_drop"} => r.kind = "sweep"
  /\ r.job = NoProduct <=> r.pc \in {"idle", "w_probe"}

\* what a task has in hand where it needs it
Filled(r) ==
  /\ r.pc \in {"l_id", "s_send", "s_log"} => r.chat \in Chats
  /\ r.pc = "l_id" => r.chat = 1
  /\ r.kind \in Publications /\ r.pc # "l_wait" => r.pub \in 1 .. MaxPubs
  /\ r.pc \in {"l_wait", "l_id"} \/ r.kind = "sweep" => r.sent = {}
  /\ r.pc \in {"d_del", "d_dead", "x_edit", "x_dead"} => r.todo # {}
  /\ r.pc = "w_probe" => r.batch # {}
  /\ r.pc \in {"s_send", "s_log", "x_list", "x_edit", "x_dead"} => r.cap.tag # "missing"
  /\ r.pc \in {"l_id", "x_id"} => r.cap.tag = "missing"

RowTypes ==
  /\ status \in [Products -> {"active", "sold", "removed"}]
  /\ data \in [Products -> AnyTexts]
  /\ caption \in [Products -> AnyCaptions]

PostTypes ==
  /\ live \subseteq Msgs
  /\ product \in [Msgs -> Products \cup {NoProduct}]
  /\ view \in [Msgs -> AnyLooks \cup {Hidden}]

TaskTypes == task \in [Tasks -> TaskRecords] /\ \A t \in Tasks : Shape(task[t]) /\ Filled(task[t])

CountTypes == lastPub \in Nat /\ edits \in Nat /\ faults \in Nat

TypeInv == RowTypes /\ PostTypes /\ TaskTypes /\ CountTypes

-----------------------------------------------------------------------------
(* Invariants of the tasks and their messages, whatever happens *)

\* tasks of different kinds on a product are marked as they meet
OneKind(p) ==
  \A t, u \in WorkOn(p) : t = u \/ {task[t].kind, task[u].kind} \subseteq Publications
                          \/ {task[t].kind, task[u].kind} = {"edit"}

KindInv == \A p \in Products \ mixed : OneKind(p)

\* what the caption in the hands of a task says of the stored one: no write takes an ID line away,
\* and an edit has stored one
LineOf(t) ==
  /\ task[t].kind \in {"none", "sweep"} => task[t].cap.tag = "shown"
  /\ task[t].kind = "edit" /\ task[t].pc # "e_write" => caption[task[t].job].tag = "shown"
  /\ task[t].kind = "edit" /\ task[t].pc \in ShowLabels => task[t].cap.tag = "shown"
  /\ task[t].job # NoProduct /\ task[t].cap.tag = "missing" => caption[task[t].job].tag # "stuck"

\* a caption that cannot be built anew stays as it was read
StuckInv ==
  \A p \in Products \ mixed : \A t \in WorkOn(p) :
    task[t].kind # "edit" /\ task[t].cap.tag = "stuck" => caption[p].tag = "stuck"

LineInv == (\A t \in Tasks : LineOf(t)) /\ StuckInv

Waiting == {u \in Tasks : At(u, "l_wait")}

\* the messages of the publications there can be are Msgs
BoundInv == lastPub + Cardinality(Waiting) <= MaxPubs

\* one publication at a time, and one polish of a product
LockInv ==
  /\ \A t, u \in Publishing : t = u
  /\ \A t \in Publishing : task[t].pub \in 1 .. lastPub

PolishInv == \A p \in Products : \A t, u \in Polishing(p) : t = u

\* the n-th publication has still to send to chat c
Unsent(n, c) ==
  \/ n > lastPub
  \/ \E t \in Publishing :
       /\ n = task[t].pub
       /\ \/ task[t].pc \in {"l_id", "s_send"} /\ c >= task[t].chat
          \/ task[t].pc = "s_log" /\ c > task[t].chat

\* what a task holds are messages of its product, and what it will send is new
MsgInv ==
  /\ \A t \in Tasks : At(t, "s_log") => product[Msg(t)] = task[t].job
  /\ \A t \in Tasks : \A m \in task[t].todo \cup task[t].sent : product[m] = task[t].job /\ product[m] # NoProduct
  /\ \A n \in 1 .. MaxPubs, c \in Chats :
       Unsent(n, c) => product[MsgOf(n, c)] = NoProduct /\ MsgOf(n, c) \notin live

-----------------------------------------------------------------------------
(* A product that only tasks of one kind worked on, without a fault *)

\* an edit is stored and its polish has not begun
Ahead(p) == \E t \in WorkOn(p) : task[t].pc \in {"e_answer", "p_wait"}

Matches(m, p) == view[m].cap.text = data[p] /\ (view[m].sold <=> status[p] = "sold")

\* what a task has read is what is stored
Knows(t, p) ==
  /\ task[t].kind \in Publications =>
       /\ status[p] = "active" /\ task[t].base = data[p]
       /\ task[t].pc \in PubLabels => task[t].cap.text = data[p]
  /\ task[t].pc = "t_set" => task[t].base = data[p] /\ task[t].cap.text = data[p]
  /\ task[t].pc \in {"p_ai", "p_write"} /\ ~Ahead(p) => task[t].base = data[p]
  /\ task[t].pc \in ShowLabels /\ ~Ahead(p) =>
       task[t].base = data[p] /\ task[t].cap.text = data[p] /\ (task[t].sold <=> status[p] = "sold")

CaptionInv(p) ==
  ~Ahead(p) /\ (\A t \in WorkOn(p) : task[t].pc \notin {"p_ai", "p_write"}) => caption[p].text = data[p]

\* without a second edit beside it, the edit has what is stored, and so has the caption
SoloInv(p) ==
  p \notin met =>
    /\ caption[p].text = data[p]
    /\ \A t, u \in WorkOn(p) : task[t].kind = "edit" /\ task[u].kind = "edit" => t = u
    /\ \A t \in WorkOn(p) : At(t, "e_write") => task[t].base = data[p]

\* a message that is neither sent and logged, nor deleted and marked dead
Half(m, p) ==
  \E t \in WorkOn(p) : \/ At(t, "s_log") /\ m = Msg(t)
                       \/ At(t, "d_dead") /\ m = Least(task[t].todo)

\* who shows a product anew goes through its posts
ShowInv(p) ==
  /\ \A t \in WorkOn(p) :
       /\ task[t].pc # "x_dead"
       /\ task[t].pc = "s_log" => Matches(Msg(t), p)
       /\ task[t].pc = "x_edit" =>
            /\ task[t].todo \subseteq LiveOf(p)
            /\ ~Ahead(p) => \A m \in LiveOf(p) \ task[t].todo : Matches(m, p)
  /\ status[p] # "removed" /\ ~Ahead(p)
     /\ (\A t \in WorkOn(p) : task[t].pc \notin {"p_ai", "p_write", "f_read"} \cup ShowLabels)
       => \A m \in LiveOf(p) : Half(m, p) \/ Matches(m, p)

\* the posts of the n-th publication
PostsOf(n) == {MsgOf(n, c) : c \in Chats}

SeenInv(p) ==
  /\ \A m \in Msgs : product[m] = p /\ ~Half(m, p) => (view[m] # Hidden <=> m \in live)
  /\ \A t \in WorkOn(p) : At(t, "s_log") => Msg(t) \notin live /\ view[Msg(t)] # Hidden
  /\ \A t \in WorkOn(p) : At(t, "d_dead") => view[Least(task[t].todo)] = Hidden

\* a publication keeps what it has sent, and deletes the rest
SentInv(p) ==
  \A t \in WorkOn(p) :
    /\ task[t].kind \in Publications => task[t].sent \subseteq live
    /\ task[t].pc \in {"s_send", "s_log"} => task[t].sent = {MsgOf(task[t].pub, c) : c \in 1 .. task[t].chat - 1}
    /\ task[t].kind \in Publications /\ task[t].pc \in {"s_mark"} \cup DeleteLabels =>
         task[t].sent = PostsOf(task[t].pub)
    /\ task[t].pc \in {"d_del", "d_dead"} =>
         LiveOf(p) = task[t].todo \cup task[t].sent /\ task[t].todo \cap task[t].sent = {}

\* a chat has one post
QuietInv(p) ==
  /\ p \in dropped => LiveOf(p) = {} /\ \A t \in WorkOn(p) : task[t].pc # "s_log"
  /\ DeletePrevious /\ p \notin dropped
     /\ (\A t \in WorkOn(p) : task[t].pc \notin {"s_send", "s_log", "s_mark"} \cup DeleteLabels)
       => (\A m \in Msgs : product[m] # p) \/ \E n \in 1 .. MaxPubs : LiveOf(p) = PostsOf(n)

TextInv(p) == OneKind(p) /\ (\A t \in WorkOn(p) : Knows(t, p)) /\ CaptionInv(p)

ProductInv(p) == TextInv(p) /\ ShowInv(p) /\ SeenInv(p) /\ SentInv(p) /\ QuietInv(p)

ProductsInv == faults = 0 => \A p \in Products \ mixed : ProductInv(p) /\ SoloInv(p)

\* a sweep deletes all the live posts of its product, and none comes while it is dropped
SweepInv(p) ==
  /\ \A t \in WorkOn(p) : task[t].kind = "sweep" /\ task[t].pc \in {"d_del", "d_dead"} => LiveOf(p) \subseteq task[t].todo
  /\ p \in dropped => LiveOf(p) = {} /\ \A t \in WorkOn(p) : task[t].pc # "s_log"

SweepsInv == \A p \in Products \ mixed : SweepInv(p)

\* everything that holds in every state
TasksInv == KindInv /\ LineInv /\ BoundInv /\ LockInv /\ PolishInv /\ MsgInv

-----------------------------------------------------------------------------
(* Numbers of messages *)

Smaller == {pair \in Nat \X Nat : pair[1] < pair[2]}

\* a set of numbers has a least one
LEMMA LeastNumber ==
  ASSUME NEW S \in SUBSET Nat, S # {}
  PROVE  \E n \in S : \A m \in S : n <= m
<1>1. IsWellFoundedOn(Smaller, Nat)
  <2>1. Smaller = OpToRel(<, Nat)
    BY DEF OpToRel, Smaller
  <2> QED
    BY <2>1, NatLessThanWellFounded
<1>2. PICK n \in S : \A m \in S : ~(<<m, n>> \in Smaller)
  BY <1>1, WFMin
<1>3. \A m \in S : n \in Nat /\ m \in Nat /\ ~(m < n)
  BY <1>2 DEF Smaller
<1>4. \A m \in S : n <= m
  BY <1>3
<1> QED
  BY <1>4

\* a set of messages has a least one
LEMMA LeastOf ==
  ASSUME NEW S \in SUBSET Msgs, S # {}
  PROVE  Least(S) \in S
<1>1. S \in SUBSET Nat
  BY DEF Msgs
<1>2. \E m \in S : \A k \in S : m <= k
  BY <1>1, LeastNumber
<1> QED
  BY <1>2 DEF Least

\* so has a set of products
LEMMA LeastProduct ==
  ASSUME NEW S \in SUBSET Products, S # {}
  PROVE  Least(S) \in S
<1>1. S \in SUBSET Nat
  BY DEF Products
<1>2. \E m \in S : \A k \in S : m <= k
  BY <1>1, LeastNumber
<1> QED
  BY <1>2 DEF Least

\* the messages of a publication are messages, and no two are the same
LEMMA MsgOfTyped ==
  ASSUME NEW n \in 1 .. MaxPubs, NEW c \in Chats
  PROVE  MsgOf(n, c) \in Msgs
<1>1. n \in Nat /\ n >= 1 /\ n <= MaxPubs /\ c \in Nat /\ c >= 1 /\ c <= NumChats /\ MaxPubs \in Nat /\ NumChats \in Nat
  BY PublishAssumption DEF Chats
<1>2. (n - 1) * NumChats >= 0 /\ (n - 1) * NumChats \in Nat
  BY <1>1
<1>3. (MaxPubs - n) * NumChats >= 0
  BY <1>1
<1>4. MaxPubs * NumChats = (MaxPubs - n) * NumChats + (n - 1) * NumChats + NumChats
  BY <1>1
<1>5. MsgOf(n, c) \in Nat /\ MsgOf(n, c) >= 1 /\ MsgOf(n, c) <= MaxPubs * NumChats
  BY <1>1, <1>2, <1>3, <1>4 DEF MsgOf
<1> QED
  BY <1>1, <1>5 DEF Msgs

\* The messages of an earlier publication are not those of a later one.
LEMMA MsgOfBefore ==
  ASSUME NEW n \in Nat, NEW k \in Nat, n < k, n >= 1, NEW c \in Chats, NEW d \in Chats
  PROVE  MsgOf(n, c) # MsgOf(k, d)
<1>1. c \in Nat /\ c >= 1 /\ c <= NumChats /\ d \in Nat /\ d >= 1 /\ NumChats \in Nat
  BY PublishAssumption DEF Chats
<1>2. (k - 1) * NumChats = (n - 1) * NumChats + NumChats + (k - 1 - n) * NumChats
  BY <1>1
<1>3. (k - 1 - n) * NumChats >= 0
  BY <1>1
<1>4. (n - 1) * NumChats \in Int /\ (k - 1) * NumChats \in Int
  BY <1>1
<1> QED
  BY <1>1, <1>2, <1>3, <1>4 DEF MsgOf

\* A message tells which publication sent it and to which chat.
LEMMA MsgOfInjective ==
  ASSUME NEW n \in 1 .. MaxPubs, NEW k \in 1 .. MaxPubs, NEW c \in Chats, NEW d \in Chats,
         MsgOf(n, c) = MsgOf(k, d)
  PROVE  n = k /\ c = d
<1>1. n \in Nat /\ k \in Nat /\ n >= 1 /\ k >= 1 /\ c \in Nat /\ d \in Nat /\ NumChats \in Nat
  BY PublishAssumption DEF Chats
<1>2. ~(n < k) /\ ~(k < n)
  BY <1>1, MsgOfBefore
<1>3. n = k
  BY <1>1, <1>2
<1>4. (n - 1) * NumChats \in Int
  BY <1>1
<1> QED
  BY <1>1, <1>3, <1>4 DEF MsgOf

\* the message of an initial post names its product
LEMMA MsgOfProduct ==
  ASSUME NEW p \in Products, NEW c \in Chats
  PROVE  (MsgOf(p, c) - 1) \div NumChats + 1 = p
<1>1. p \in Nat /\ p >= 1 /\ c \in Nat /\ c >= 1 /\ c <= NumChats /\ NumChats \in Nat /\ NumChats > 0
  BY PublishAssumption DEF Chats, Products
<1> DEFINE x == MsgOf(p, c) - 1
           q == x \div NumChats
<1>2. x = (p - 1) * NumChats + (c - 1) /\ (p - 1) * NumChats \in Nat
  BY <1>1 DEF MsgOf
<1>3. x \in Nat
  BY <1>1, <1>2
<1> HIDE DEF x
<1>4. q \in Int /\ q * NumChats <= x /\ x < q * NumChats + NumChats
  BY <1>1, <1>3
<1> HIDE DEF q
<1>5. ASSUME q < p - 1 PROVE FALSE
  <2>1. (p - 1) * NumChats = q * NumChats + NumChats + (p - 1 - q - 1) * NumChats
    BY <1>1, <1>4
  <2>2. (p - 1 - q - 1) * NumChats >= 0
    BY <1>1, <1>4, <1>5
  <2>3. q * NumChats \in Int
    BY <1>1, <1>4
  <2> QED
    BY <1>1, <1>2, <1>4, <2>1, <2>2, <2>3
<1>6. ASSUME q > p - 1 PROVE FALSE
  <2>1. q * NumChats = (p - 1) * NumChats + NumChats + (q - (p - 1) - 1) * NumChats
    BY <1>1, <1>4
  <2>2. (q - (p - 1) - 1) * NumChats >= 0
    BY <1>1, <1>4, <1>6
  <2> QED
    BY <1>1, <1>2, <1>4, <2>1, <2>2
<1>7. q = p - 1
  BY <1>1, <1>4, <1>5, <1>6
<1>8. q + 1 = p
  BY <1>1, <1>7
<1> QED
  BY <1>8 DEF q, x

-----------------------------------------------------------------------------
(* Where the steps take a task *)

\* the others stay where they are
Rest(t) == \A u \in Tasks \ {t} : task'[u] = task[u]

SameJob(t) == task'[t].kind = task[t].kind /\ task'[t].job = task[t].job

SameText(t) == task'[t].base = task[t].base /\ task'[t].cap = task[t].cap /\ task'[t].sold = task[t].sold

SameSent(t) == task'[t].pub = task[t].pub /\ task'[t].chat = task[t].chat /\ task'[t].sent = task[t].sent

SameTodo(t) == task'[t].todo = task[t].todo

\* The empty text, the empty caption and the record of a task that does nothing are well typed.
LEMMA BlankTyped ==
  /\ Blank \in AnyTexts /\ \A tag \in Lines : [text |-> Blank, tag |-> tag] \in AnyCaptions
  /\ Free \in TaskRecords /\ Shape(Free) /\ Filled(Free)
<1>1. Blank \in AnyTexts /\ \A tag \in Lines : [text |-> Blank, tag |-> tag] \in AnyCaptions
  BY DEF Blank, AnyTexts, AnyCaptions
<1>2. Free \in TaskRecords
  <2>1. [text |-> Blank, tag |-> "shown"] \in AnyCaptions
    BY <1>1 DEF Lines
  <2> QED
    BY <1>1, <2>1 DEF Free, TaskRecords, Labels, Kinds
<1>3. Shape(Free) /\ Filled(Free)
  BY DEF Free, Shape, Filled, PubLabels, DeleteLabels, ShowLabels, EditLabels, Publications
<1> QED
  BY <1>1, <1>2, <1>3

\* A task that takes a record leaves the other tasks alone, and keeps the types when the record is
\* well typed and holds what its place needs.
LEMMA BecomeLands ==
  ASSUME TypeInv, NEW t \in Tasks, NEW r, Become(t, r)
  PROVE  /\ Rest(t) /\ task'[t] = r
         /\ r \in TaskRecords /\ Shape(r) /\ Filled(r) => TaskTypes'
BY DEF TypeInv, TaskTypes, Become, Rest

\* A task that returns leaves the other tasks alone and keeps the types.
LEMMA DoneLands ==
  ASSUME TypeInv, NEW t \in Tasks, Done(t)
  PROVE  Rest(t) /\ task'[t] = Free /\ TaskTypes'
BY BecomeLands, BlankTyped DEF Done

\* from where to where a task goes without a change of its locals
Ways == {<<"s_send", "s_log">>, <<"s_mark", "d_list">>, <<"d_del", "d_dead">>, <<"x_edit", "x_dead">>,
         <<"e_write", "e_answer">>, <<"e_answer", "p_wait">>, <<"p_ai", "p_write">>, <<"p_ai", "f_read">>,
         <<"p_write", "f_read">>, <<"w_drop", "d_list">>}

\* A task that moves along one of the code's ways keeps what it has read and leaves the other
\* tasks alone.
LEMMA GotoLands ==
  ASSUME TypeInv, NEW t \in Tasks, NEW l, <<task[t].pc, l>> \in Ways, Goto(t, l)
  PROVE  /\ Rest(t) /\ task'[t].pc = l
         /\ SameJob(t) /\ SameText(t) /\ SameSent(t) /\ SameTodo(t)
         /\ TaskTypes'
<1> DEFINE r == [task[t] EXCEPT !.pc = l]
<1>0. task[t] \in TaskRecords /\ Shape(task[t]) /\ Filled(task[t])
  BY DEF TypeInv, TaskTypes
<1>1. Become(t, r)
  BY DEF Goto, Become, TypeInv, TaskTypes
<1>2. l \in Labels
  BY DEF Ways, Labels, PubLabels, DeleteLabels, ShowLabels, EditLabels
<1>3. /\ r \in TaskRecords /\ r.pc = l /\ r.kind = task[t].kind /\ r.job = task[t].job
      /\ r.base = task[t].base /\ r.cap = task[t].cap /\ r.sold = task[t].sold
      /\ r.pub = task[t].pub /\ r.chat = task[t].chat /\ r.sent = task[t].sent /\ r.todo = task[t].todo
      /\ r.batch = task[t].batch
  BY <1>0, <1>2 DEF TaskRecords
<1> HIDE DEF r
<1>4. Shape(r)
  BY <1>0, <1>3 DEF Shape, Ways, PubLabels, DeleteLabels, ShowLabels, EditLabels
<1>5. Filled(r)
  BY <1>0, <1>3 DEF Filled, Ways
<1> QED
  BY <1>1, <1>3, <1>4, <1>5, BecomeLands DEF SameJob, SameText, SameSent, SameTodo

Starts == {<<"post", "l_wait">>, <<"now", "l_wait">>, <<"auto", "l_wait">>, <<"toggle", "t_set">>, <<"edit", "e_write">>}

\* A handler starts with the product's text and caption as they are stored, nothing sent and
\* nothing left to do.
LEMMA BeginLands ==
  ASSUME TypeInv, NEW t \in Tasks, NEW k, NEW p \in Products, NEW l, <<k, l>> \in Starts, Begin(t, k, p, l)
  PROVE  /\ Rest(t) /\ task[t] = Free
         /\ task'[t].pc = l /\ task'[t].kind = k /\ task'[t].job = p
         /\ task'[t].base = data[p] /\ task'[t].cap = caption[p]
         /\ task'[t].sent = {} /\ task'[t].todo = {}
         /\ TaskTypes'
<1> DEFINE r == [Free EXCEPT !.pc = l, !.kind = k, !.job = p, !.base = data[p], !.cap = caption[p]]
<1>1. Become(t, r) /\ task[t] = Free
  BY DEF Begin
<1>2. l \in Labels /\ k \in Kinds /\ data[p] \in AnyTexts /\ caption[p] \in AnyCaptions
  BY DEF Starts, Labels, PubLabels, EditLabels, Kinds, Publications, TypeInv, RowTypes
<1>3. /\ r \in TaskRecords /\ r.pc = l /\ r.kind = k /\ r.job = p /\ r.base = data[p] /\ r.cap = caption[p]
      /\ r.sent = {} /\ r.todo = {}
  BY <1>2, BlankTyped DEF TaskRecords, Free
<1>4. p # NoProduct
  BY DEF Products, NoProduct
<1> HIDE DEF r
<1>5. Shape(r)
  BY <1>3, <1>4 DEF Shape, Starts, PubLabels, DeleteLabels, ShowLabels, EditLabels, Publications
<1>6. Filled(r)
  BY <1>3 DEF Filled, Starts, Publications
<1> QED
  BY <1>1, <1>3, <1>5, <1>6, BecomeLands

\* A publication that enters the lock takes the next publication number and has sent nothing yet.
LEMMA LockLands ==
  ASSUME TypeInv, NEW t \in Tasks, EnterLock(t), lastPub + 1 \in 1 .. MaxPubs
  PROVE  /\ Rest(t) /\ task'[t].pc = (IF task[t].cap.tag = "missing" THEN "l_id" ELSE "s_send")
         /\ SameJob(t) /\ SameText(t) /\ SameTodo(t)
         /\ task'[t].pub = lastPub + 1 /\ task'[t].chat = 1 /\ task'[t].sent = {} /\ task[t].kind \in Publications
         /\ TaskTypes'
<1> DEFINE l == IF task[t].cap.tag = "missing" THEN "l_id" ELSE "s_send"
           r == [task[t] EXCEPT !.pc = l, !.pub = lastPub + 1, !.chat = 1]
<1>0. /\ task[t] \in TaskRecords /\ Shape(task[t]) /\ Filled(task[t]) /\ task[t].pc = "l_wait"
      /\ 1 \in Chats /\ lastPub + 1 \in Nat
  BY PublishAssumption DEF TypeInv, TaskTypes, EnterLock, At, CountTypes, Chats
<1>1. Become(t, r)
  BY DEF EnterLock
<1>2. /\ r \in TaskRecords /\ r.pc = l /\ r.kind = task[t].kind /\ r.job = task[t].job
      /\ r.base = task[t].base /\ r.cap = task[t].cap /\ r.sold = task[t].sold
      /\ r.pub = lastPub + 1 /\ r.chat = 1 /\ r.sent = task[t].sent /\ r.todo = task[t].todo
  BY <1>0 DEF TaskRecords, Labels, PubLabels
<1> HIDE DEF r
<1>3. task[t].kind \in Publications /\ task[t].sent = {} /\ task[t].job # NoProduct
  BY <1>0 DEF Shape, Filled, PubLabels
<1>4. Shape(r)
  BY <1>2, <1>3 DEF Shape, PubLabels, DeleteLabels, ShowLabels, EditLabels
<1>5. Filled(r)
  <2>1. r.kind # "sweep" /\ r.pub \in 1 .. MaxPubs /\ (r.pc = "s_send" <=> r.cap.tag # "missing")
        /\ r.pc \in {"s_send", "l_id"}
    BY <1>2, <1>3 DEF Publications
  <2> QED
    BY <1>0, <1>2, <1>3, <2>1 DEF Filled
<1> QED
  BY <1>1, <1>2, <1>3, <1>4, <1>5, BecomeLands DEF SameJob, SameText, SameTodo

\* the caption of a product gets its ID line
LEMMA IdLands ==
  ASSUME TypeInv, NEW t \in Tasks, NEW l, <<task[t].pc, l>> \in {<<"l_id", "s_send">>, <<"x_id", "x_list">>},
         EnsureId(t, l)
  PROVE  /\ Rest(t) /\ task'[t].pc = l /\ task'[t].base = task[t].base /\ task'[t].sold = task[t].sold
         /\ task'[t].cap = Rebuilt(t) /\ Rebuilt(t) \in AnyCaptions
         /\ SameJob(t) /\ SameSent(t) /\ SameTodo(t)
         /\ TaskTypes'
<1> DEFINE r == [task[t] EXCEPT !.pc = l, !.cap = Rebuilt(t)]
<1>0. task[t] \in TaskRecords /\ Shape(task[t]) /\ Filled(task[t])
  BY DEF TypeInv, TaskTypes
<1>1. Become(t, r)
  BY DEF EnsureId
<1>2. Rebuilt(t) \in AnyCaptions /\ Rebuilt(t).tag = "shown"
  BY <1>0 DEF Rebuilt, AnyCaptions, TaskRecords, Lines
<1>3. /\ r \in TaskRecords /\ r.pc = l /\ r.kind = task[t].kind /\ r.job = task[t].job
      /\ r.base = task[t].base /\ r.cap = Rebuilt(t) /\ r.sold = task[t].sold
      /\ r.pub = task[t].pub /\ r.chat = task[t].chat /\ r.sent = task[t].sent /\ r.todo = task[t].todo
  BY <1>0, <1>2 DEF TaskRecords, Labels, PubLabels, ShowLabels
<1> HIDE DEF r
<1>4. Shape(r)
  BY <1>0, <1>3 DEF Shape, PubLabels, DeleteLabels, ShowLabels, EditLabels
<1>5. Filled(r)
  BY <1>0, <1>2, <1>3 DEF Filled
<1> QED
  BY <1>1, <1>2, <1>3, <1>4, <1>5, BecomeLands DEF SameJob, SameSent, SameTodo

\* the next target, or the end of the sending
LEMMA TargetLands ==
  ASSUME TypeInv, NEW t \in Tasks, task[t].pc \in {"s_send", "s_log"}, NEW ok \in SUBSET Msgs, NextTarget(t, ok)
  PROVE  /\ Rest(t) /\ TaskTypes'
         /\ \/ ok = {} /\ task[t].chat = NumChats /\ task'[t] = Free
            \/ /\ SameJob(t) /\ SameText(t) /\ SameTodo(t) /\ task'[t].pub = task[t].pub /\ task'[t].sent = ok
               /\ \/ task[t].chat < NumChats /\ task'[t].pc = "s_send" /\ task'[t].chat = task[t].chat + 1
                  \/ task[t].chat = NumChats /\ task'[t].pc = "s_mark" /\ task'[t].chat = task[t].chat
<1>0. /\ task[t] \in TaskRecords /\ Shape(task[t]) /\ Filled(task[t])
      /\ task[t].chat \in Nat /\ task[t].chat >= 1 /\ task[t].chat <= NumChats /\ NumChats \in Nat
  BY PublishAssumption DEF TypeInv, TaskTypes, Filled, Chats
<1>1. CASE task[t].chat < NumChats
  <2> DEFINE q == [task[t] EXCEPT !.sent = ok]
             r == [q EXCEPT !.pc = "s_send", !.chat = @ + 1]
  <2>1. Become(t, r)
    BY <1>1 DEF NextTarget
  <2>0. /\ q \in TaskRecords /\ q.kind = task[t].kind /\ q.job = task[t].job
        /\ q.base = task[t].base /\ q.cap = task[t].cap /\ q.sold = task[t].sold
        /\ q.pub = task[t].pub /\ q.chat = task[t].chat /\ q.sent = ok /\ q.todo = task[t].todo
    BY <1>0 DEF TaskRecords
  <2> HIDE DEF q
  <2>6. "s_send" \in Labels /\ q.chat + 1 \in Nat
    BY <1>0, <2>0 DEF Labels, PubLabels
  <2>7. r \in TaskRecords
    BY <2>0, <2>6 DEF TaskRecords
  <2>2. /\ r \in TaskRecords /\ r.pc = "s_send" /\ r.kind = task[t].kind /\ r.job = task[t].job
        /\ r.base = task[t].base /\ r.cap = task[t].cap /\ r.sold = task[t].sold
        /\ r.pub = task[t].pub /\ r.chat = task[t].chat + 1 /\ r.sent = ok /\ r.todo = task[t].todo
    BY <2>0, <2>7 DEF TaskRecords
  <2> HIDE DEF r
  <2>3. task[t].chat + 1 \in Chats
    BY <1>0, <1>1 DEF Chats
  <2>4. Shape(r)
    BY <1>0, <2>2 DEF Shape, PubLabels, DeleteLabels, ShowLabels, EditLabels
  <2>5. Filled(r)
    BY <1>0, <2>2, <2>3 DEF Filled, Shape, PubLabels, Publications
  <2> QED
    BY <1>1, <2>1, <2>2, <2>4, <2>5, BecomeLands DEF SameJob, SameText, SameTodo
<1>2. CASE task[t].chat = NumChats /\ ok = {}
  BY <1>0, <1>2, BecomeLands, BlankTyped DEF NextTarget
<1>3. CASE task[t].chat = NumChats /\ ok # {}
  <2> DEFINE r == [[task[t] EXCEPT !.sent = ok] EXCEPT !.pc = "s_mark"]
  <2>1. Become(t, r)
    BY <1>0, <1>3 DEF NextTarget
  <2>2. /\ r \in TaskRecords /\ r.pc = "s_mark" /\ r.kind = task[t].kind /\ r.job = task[t].job
        /\ r.base = task[t].base /\ r.cap = task[t].cap /\ r.sold = task[t].sold
        /\ r.pub = task[t].pub /\ r.chat = task[t].chat /\ r.sent = ok /\ r.todo = task[t].todo
    BY <1>0 DEF TaskRecords, Labels, PubLabels
  <2> HIDE DEF r
  <2>4. Shape(r)
    BY <1>0, <2>2 DEF Shape, PubLabels, DeleteLabels, ShowLabels, EditLabels
  <2>5. Filled(r)
    BY <1>0, <2>2 DEF Filled, Shape, PubLabels, Publications
  <2> QED
    BY <1>3, <2>1, <2>2, <2>4, <2>5, BecomeLands DEF SameJob, SameText, SameTodo
<1> QED
  BY <1>0, <1>1, <1>2, <1>3

\* after the last post of a product: the next product of the sweep, or the end
LEMMA AfterLands ==
  ASSUME TypeInv, NEW t \in Tasks, AfterDeleting(t)
  PROVE  /\ Rest(t) /\ TaskTypes'
         /\ \/ task'[t] = Free
            \/ task'[t].pc = "w_probe" /\ task'[t].kind = "sweep" /\ task'[t].job = NoProduct
               /\ task'[t].sent = {} /\ task'[t].todo = {} /\ task'[t].cap = Free.cap
<1>1. CASE task[t].batch = {}
  BY <1>1, BecomeLands, BlankTyped DEF AfterDeleting
<1>2. CASE task[t].batch # {}
  <2> DEFINE r == [Free EXCEPT !.pc = "w_probe", !.kind = "sweep", !.batch = task[t].batch]
  <2>0. task[t].batch \in SUBSET Products
    BY DEF TypeInv, TaskTypes, TaskRecords
  <2>1. Become(t, r)
    BY <1>2 DEF AfterDeleting
  <2>2. /\ r \in TaskRecords /\ r.pc = "w_probe" /\ r.kind = "sweep" /\ r.job = NoProduct
        /\ r.sent = {} /\ r.todo = {} /\ r.batch = task[t].batch /\ r.cap = Free.cap
    BY <2>0, BlankTyped DEF TaskRecords, Free, Labels, Kinds
  <2> HIDE DEF r
  <2>3. Shape(r) /\ Filled(r)
    BY <1>2, <2>2 DEF Shape, Filled, PubLabels, DeleteLabels, ShowLabels, EditLabels, Publications
  <2> QED
    BY <2>1, <2>2, <2>3, BecomeLands
<1> QED
  BY <1>1, <1>2

\* the next post to delete
LEMMA DeleteLands ==
  ASSUME TypeInv, NEW t \in Tasks, task[t].pc \in DeleteLabels, NEW rest \in SUBSET Msgs, DeleteNext(t, rest)
  PROVE  /\ Rest(t) /\ TaskTypes'
         /\ \/ rest = {} /\ AfterDeleting(t)
            \/ /\ rest # {} /\ task'[t].pc = "d_del" /\ task'[t].todo = rest
               /\ SameJob(t) /\ SameText(t) /\ SameSent(t) /\ dropped' = dropped
<1>1. CASE rest = {}
  BY <1>1, AfterLands DEF DeleteNext
<1>2. CASE rest # {}
  <2> DEFINE r == [task[t] EXCEPT !.pc = "d_del", !.todo = rest]
  <2>0. task[t] \in TaskRecords /\ Shape(task[t]) /\ Filled(task[t])
    BY DEF TypeInv, TaskTypes
  <2>1. Become(t, r) /\ dropped' = dropped
    BY <1>2 DEF DeleteNext
  <2>2. /\ r \in TaskRecords /\ r.pc = "d_del" /\ r.kind = task[t].kind /\ r.job = task[t].job
        /\ r.base = task[t].base /\ r.cap = task[t].cap /\ r.sold = task[t].sold
        /\ r.pub = task[t].pub /\ r.chat = task[t].chat /\ r.sent = task[t].sent /\ r.todo = rest
    BY <2>0 DEF TaskRecords, Labels, DeleteLabels
  <2> HIDE DEF r
  <2>3. Shape(r)
    BY <2>0, <2>2 DEF Shape, PubLabels, DeleteLabels, ShowLabels, EditLabels
  <2>4. Filled(r)
    BY <1>2, <2>0, <2>2 DEF Filled, DeleteLabels
  <2> QED
    BY <1>2, <2>1, <2>2, <2>3, <2>4, BecomeLands DEF SameJob, SameText, SameSent
<1> QED
  BY <1>1, <1>2

\* the next post to edit
LEMMA EditLands ==
  ASSUME TypeInv, NEW t \in Tasks, task[t].pc \in ShowLabels \ {"x_id"}, NEW rest \in SUBSET Msgs, EditNext(t, rest)
  PROVE  /\ Rest(t) /\ TaskTypes'
         /\ \/ rest = {} /\ task'[t] = Free
            \/ /\ rest # {} /\ task'[t].pc = "x_edit" /\ task'[t].todo = rest
               /\ SameJob(t) /\ SameText(t) /\ SameSent(t)
<1>1. CASE rest = {}
  BY <1>1, BecomeLands, BlankTyped DEF EditNext
<1>2. CASE rest # {}
  <2> DEFINE r == [task[t] EXCEPT !.pc = "x_edit", !.todo = rest]
  <2>0. task[t] \in TaskRecords /\ Shape(task[t]) /\ Filled(task[t])
    BY DEF TypeInv, TaskTypes
  <2>1. Become(t, r)
    BY <1>2 DEF EditNext
  <2>2. /\ r \in TaskRecords /\ r.pc = "x_edit" /\ r.kind = task[t].kind /\ r.job = task[t].job
        /\ r.base = task[t].base /\ r.cap = task[t].cap /\ r.sold = task[t].sold
        /\ r.pub = task[t].pub /\ r.chat = task[t].chat /\ r.sent = task[t].sent /\ r.todo = rest
    BY <2>0 DEF TaskRecords, Labels, ShowLabels
  <2> HIDE DEF r
  <2>3. Shape(r)
    BY <2>0, <2>2 DEF Shape, PubLabels, DeleteLabels, ShowLabels, EditLabels
  <2>4. Filled(r)
    BY <1>2, <2>0, <2>2 DEF Filled, ShowLabels
  <2> QED
    BY <1>2, <2>1, <2>2, <2>3, <2>4, BecomeLands DEF SameJob, SameText, SameSent
<1> QED
  BY <1>1, <1>2

\* a task goes on to show a caption, the one it has or one it has just read
LEMMA ShowLands ==
  ASSUME TypeInv, NEW t \in Tasks, task[t].pc \in {"t_set", "f_read"},
         NEW q \in TaskRecords, q.kind = task[t].kind, q.job = task[t].job, q.pub = task[t].pub,
         q.chat = task[t].chat, q.sent = task[t].sent, q.todo = task[t].todo, Become(t, ToShow(q))
  PROVE  /\ Rest(t) /\ TaskTypes'
         /\ task'[t].pc = (IF q.cap.tag = "missing" THEN "x_id" ELSE "x_list")
         /\ task'[t].base = q.base /\ task'[t].cap = q.cap /\ task'[t].sold = q.sold
         /\ SameJob(t) /\ SameSent(t) /\ SameTodo(t)
<1> DEFINE l == IF q.cap.tag = "missing" THEN "x_id" ELSE "x_list"
           r == [q EXCEPT !.pc = l]
<1>0. task[t] \in TaskRecords /\ Shape(task[t]) /\ Filled(task[t])
  BY DEF TypeInv, TaskTypes
<1>2. l \in Labels
  BY DEF Labels, ShowLabels
<1>3. Become(t, r)
  BY DEF ToShow
<1>4. /\ r \in TaskRecords /\ r.pc = l /\ r.kind = task[t].kind /\ r.job = task[t].job
      /\ r.base = q.base /\ r.cap = q.cap /\ r.sold = q.sold
      /\ r.pub = task[t].pub /\ r.chat = task[t].chat /\ r.sent = task[t].sent /\ r.todo = task[t].todo
  BY <1>2 DEF TaskRecords
<1>5. r.pc \in {"x_list", "x_id"} /\ (r.pc = "x_list" <=> r.cap.tag # "missing")
  BY <1>4
<1> HIDE DEF r
<1>6. Shape(r)
  BY <1>0, <1>4, <1>5 DEF Shape, PubLabels, DeleteLabels, ShowLabels, EditLabels
<1>7. Filled(r)
  <2>1. r.kind \notin Publications /\ r.kind # "sweep"
    BY <1>0, <1>4 DEF Shape, EditLabels, Publications
  <2> QED
    BY <1>4, <1>5, <2>1 DEF Filled
<1> QED
  BY <1>3, <1>4, <1>6, <1>7, BecomeLands DEF SameJob, SameSent, SameTodo

\* The toggle of the sold mark writes the status, and carries the new mark on to the posts.
LEMMA SoldLands ==
  ASSUME TypeInv, NEW t \in Tasks, SetSold(t)
  PROVE  \E sold \in BOOLEAN :
           /\ status' = [status EXCEPT ![task[t].job] = IF sold THEN "sold" ELSE "active"]
           /\ Rest(t) /\ TaskTypes' /\ task[t].pc = "t_set" /\ task'[t].pc \in {"x_list", "x_id"}
           /\ task'[t].base = task[t].base /\ task'[t].cap = task[t].cap /\ task'[t].sold = sold
           /\ SameJob(t) /\ SameSent(t) /\ SameTodo(t)
<1>0. task[t] \in TaskRecords /\ task[t].pc = "t_set"
  BY DEF TypeInv, TaskTypes, SetSold, At
<1>1. PICK sold \in BOOLEAN :
        /\ status' = [status EXCEPT ![task[t].job] = IF sold THEN "sold" ELSE "active"]
        /\ Become(t, ToShow([task[t] EXCEPT !.sold = sold]))
  BY DEF SetSold
<1> DEFINE q == [task[t] EXCEPT !.sold = sold]
<1>3. /\ q \in TaskRecords /\ q.kind = task[t].kind /\ q.job = task[t].job
      /\ q.base = task[t].base /\ q.cap = task[t].cap /\ q.sold = sold
      /\ q.pub = task[t].pub /\ q.chat = task[t].chat /\ q.sent = task[t].sent /\ q.todo = task[t].todo
  BY <1>0 DEF TaskRecords
<1>4. Become(t, ToShow(q))
  BY <1>1
<1> HIDE DEF q
<1>5. /\ Rest(t) /\ TaskTypes'
      /\ task'[t].pc = (IF task[t].cap.tag = "missing" THEN "x_id" ELSE "x_list")
      /\ task'[t].base = task[t].base /\ task'[t].cap = task[t].cap /\ task'[t].sold = sold
      /\ SameJob(t) /\ SameSent(t) /\ SameTodo(t)
  BY <1>0, <1>3, <1>4, ShowLands
<1> QED
  BY <1>0, <1>1, <1>5

\* The read before the posts are shown anew ends the task when the product is removed, and
\* otherwise takes the text, the caption and the sold mark as they are stored.
LEMMA RefreshLands ==
  ASSUME TypeInv, NEW t \in Tasks, Refresh(t)
  PROVE  /\ Rest(t) /\ TaskTypes' /\ task[t].pc = "f_read"
         /\ \/ status[task[t].job] = "removed" /\ task'[t] = Free
            \/ /\ status[task[t].job] # "removed" /\ task'[t].pc \in {"x_list", "x_id"}
               /\ task'[t].base = data[task[t].job] /\ task'[t].cap = caption[task[t].job]
               /\ (task'[t].sold <=> status[task[t].job] = "sold")
               /\ SameJob(t) /\ SameSent(t) /\ SameTodo(t)
<1> DEFINE p == task[t].job
           sold == status[p] = "sold"
           q == [task[t] EXCEPT !.base = data[p], !.cap = caption[p], !.sold = sold]
<1>0. task[t] \in TaskRecords /\ task[t].pc = "f_read" /\ Shape(task[t])
  BY DEF TypeInv, TaskTypes, Refresh, At
<1>1. p \in Products
  BY <1>0 DEF Shape, TaskRecords
<1>2. CASE status[p] = "removed"
  BY <1>0, <1>2, BecomeLands, BlankTyped DEF Refresh
<1>3. CASE status[p] # "removed"
  <2>1. Become(t, ToShow(q))
    BY <1>3 DEF Refresh
  <2>2. data[p] \in AnyTexts /\ caption[p] \in AnyCaptions /\ sold \in BOOLEAN
    BY <1>1 DEF TypeInv, RowTypes
  <2>3. /\ q \in TaskRecords /\ q.kind = task[t].kind /\ q.job = task[t].job
        /\ q.base = data[p] /\ q.cap = caption[p] /\ q.sold = sold
        /\ q.pub = task[t].pub /\ q.chat = task[t].chat /\ q.sent = task[t].sent /\ q.todo = task[t].todo
    BY <1>0, <2>2 DEF TaskRecords
  <2> HIDE DEF q, sold
  <2>4. /\ Rest(t) /\ TaskTypes'
        /\ task'[t].pc = (IF caption[p].tag = "missing" THEN "x_id" ELSE "x_list")
        /\ task'[t].base = data[p] /\ task'[t].cap = caption[p] /\ task'[t].sold = sold
        /\ SameJob(t) /\ SameSent(t) /\ SameTodo(t)
    BY <1>0, <2>1, <2>3, ShowLands
  <2> QED
    BY <1>0, <1>3, <2>4 DEF sold
<1> QED
  BY <1>2, <1>3

\* A polish that enters the product's lock takes the text as it is stored.
LEMMA PolishLands ==
  ASSUME TypeInv, NEW t \in Tasks, EnterPolish(t)
  PROVE  /\ Rest(t) /\ TaskTypes' /\ task[t].pc = "p_wait" /\ task'[t].pc = "p_ai"
         /\ task'[t].base = data[task[t].job] /\ task'[t].cap = task[t].cap
         /\ SameJob(t) /\ SameSent(t) /\ SameTodo(t)
<1> DEFINE r == [task[t] EXCEPT !.pc = "p_ai", !.base = data[task[t].job]]
<1>0. task[t] \in TaskRecords /\ task[t].pc = "p_wait" /\ Shape(task[t]) /\ Filled(task[t])
  BY DEF TypeInv, TaskTypes, EnterPolish, At
<1>1. task[t].job \in Products /\ data[task[t].job] \in AnyTexts
  BY <1>0 DEF Shape, TaskRecords, TypeInv, RowTypes
<1>2. Become(t, r)
  BY DEF EnterPolish
<1>3. /\ r \in TaskRecords /\ r.pc = "p_ai" /\ r.kind = task[t].kind /\ r.job = task[t].job
      /\ r.base = data[task[t].job] /\ r.cap = task[t].cap
      /\ r.pub = task[t].pub /\ r.chat = task[t].chat /\ r.sent = task[t].sent /\ r.todo = task[t].todo
  BY <1>0, <1>1 DEF TaskRecords, Labels, EditLabels
<1> HIDE DEF r
<1>4. Shape(r)
  BY <1>0, <1>3 DEF Shape, PubLabels, DeleteLabels, ShowLabels, EditLabels
<1>5. Filled(r)
  BY <1>0, <1>3 DEF Filled, Shape, EditLabels, Publications
<1> QED
  BY <1>0, <1>2, <1>3, <1>4, <1>5, BecomeLands DEF SameJob, SameSent, SameTodo

\* the sweep begins, and goes on to the next product
LEMMA SweepLands ==
  ASSUME TypeInv, NEW t \in Tasks
  PROVE  /\ StartSweep(t) => /\ Rest(t) /\ TaskTypes' /\ task[t] = Free /\ task'[t].pc = "w_probe"
                             /\ task'[t].kind = "sweep" /\ task'[t].job = NoProduct
                             /\ task'[t].sent = {} /\ task'[t].todo = {} /\ task'[t].cap = Free.cap
         /\ At(t, "w_probe") /\ NextProduct(t) =>
              /\ Rest(t) /\ TaskTypes'
              /\ \/ task'[t] = Free
                 \/ task'[t].pc = "w_probe" /\ SameJob(t) /\ SameText(t) /\ SameSent(t) /\ SameTodo(t)
<1>1. ASSUME StartSweep(t)
      PROVE  /\ Rest(t) /\ TaskTypes' /\ task[t] = Free /\ task'[t].pc = "w_probe"
             /\ task'[t].kind = "sweep" /\ task'[t].job = NoProduct
             /\ task'[t].sent = {} /\ task'[t].todo = {} /\ task'[t].cap = Free.cap
  <2> DEFINE due == {p \in Products : status[p] # "removed"}
             r == [Free EXCEPT !.pc = "w_probe", !.kind = "sweep", !.batch = due]
  <2>1. Become(t, r) /\ task[t] = Free /\ due \in SUBSET Products /\ due # {}
    BY <1>1 DEF StartSweep, SweepOver
  <2> HIDE DEF due
  <2>2. /\ r \in TaskRecords /\ r.pc = "w_probe" /\ r.kind = "sweep" /\ r.job = NoProduct
        /\ r.sent = {} /\ r.todo = {} /\ r.batch = due /\ r.cap = Free.cap
    BY <2>1, BlankTyped DEF TaskRecords, Free, Labels, Kinds
  <2> HIDE DEF r
  <2>3. Shape(r) /\ Filled(r)
    BY <2>1, <2>2 DEF Shape, Filled, PubLabels, DeleteLabels, ShowLabels, EditLabels, Publications
  <2> QED
    BY <2>1, <2>2, <2>3, BecomeLands
<1>2. ASSUME At(t, "w_probe"), NextProduct(t)
      PROVE  /\ Rest(t) /\ TaskTypes'
             /\ \/ task'[t] = Free
                \/ task'[t].pc = "w_probe" /\ SameJob(t) /\ SameText(t) /\ SameSent(t) /\ SameTodo(t)
  <2> DEFINE rest == task[t].batch \ {Least(task[t].batch)}
             r == [task[t] EXCEPT !.batch = rest]
  <2>0. task[t] \in TaskRecords /\ Shape(task[t]) /\ Filled(task[t]) /\ rest \in SUBSET Products
    BY DEF TypeInv, TaskTypes, TaskRecords
  <2> HIDE DEF rest
  <2>1. CASE rest = {}
    BY <1>2, <2>1, BecomeLands, BlankTyped DEF NextProduct, rest
  <2>2. CASE rest # {}
    <3>1. Become(t, r)
      BY <1>2, <2>2 DEF NextProduct, rest
    <3>2. /\ r \in TaskRecords /\ r.pc = task[t].pc /\ r.kind = task[t].kind /\ r.job = task[t].job
          /\ r.base = task[t].base /\ r.cap = task[t].cap /\ r.sold = task[t].sold
          /\ r.pub = task[t].pub /\ r.chat = task[t].chat /\ r.sent = task[t].sent /\ r.todo = task[t].todo
          /\ r.batch = rest
      BY <2>0 DEF TaskRecords
    <3> HIDE DEF r
    <3>3. Shape(r) /\ Filled(r)
      BY <2>0, <2>2, <3>2 DEF Shape, Filled
    <3> QED
      BY <1>2, <3>1, <3>2, <3>3, BecomeLands DEF SameJob, SameText, SameSent, SameTodo, At
  <2> QED
    BY <2>1, <2>2
<1> QED
  BY <1>1, <1>2

\* the source post of a product is gone
LEMMA ProbeLands ==
  ASSUME TypeInv, NEW t \in Tasks, Probe(t), Least(task[t].batch) \in gone
  PROVE  LET p == Least(task[t].batch) IN
         /\ p \in Products /\ Rest(t) /\ TaskTypes' /\ task[t].pc = "w_probe" /\ task[t].job = NoProduct
         /\ task'[t].pc = "w_drop" /\ task'[t].kind = "sweep" /\ task'[t].job = p
         /\ SameText(t) /\ SameSent(t) /\ SameTodo(t)
<1> DEFINE p == Least(task[t].batch)
           r == [task[t] EXCEPT !.pc = "w_drop", !.job = p, !.batch = @ \ {p}]
<1>0. task[t] \in TaskRecords /\ task[t].pc = "w_probe" /\ Shape(task[t]) /\ Filled(task[t])
  BY DEF TypeInv, TaskTypes, Probe, At
<1>1. p \in Products /\ task[t].job = NoProduct /\ task[t].kind = "sweep"
  BY <1>0, LeastProduct DEF Shape, Filled, TaskRecords
<1> HIDE DEF p
<1>2. Become(t, r)
  BY DEF Probe, p
<1>3. /\ r \in TaskRecords /\ r.pc = "w_drop" /\ r.kind = task[t].kind /\ r.job = p
      /\ r.base = task[t].base /\ r.cap = task[t].cap /\ r.sold = task[t].sold
      /\ r.pub = task[t].pub /\ r.chat = task[t].chat /\ r.sent = task[t].sent /\ r.todo = task[t].todo
  BY <1>0, <1>1 DEF TaskRecords, Labels
<1> HIDE DEF r
<1>4. p # NoProduct
  BY <1>1 DEF Products, NoProduct
<1>5. Shape(r) /\ Filled(r)
  BY <1>0, <1>1, <1>3, <1>4 DEF Shape, Filled, PubLabels, DeleteLabels, ShowLabels, EditLabels, Publications
<1> QED
  BY <1>0, <1>1, <1>2, <1>3, <1>5, BecomeLands DEF SameText, SameSent, SameTodo, p
-----------------------------------------------------------------------------
(* Steps that neither begin nor send a publication nor begin a polish *)

BeforePolish == {"e_write", "e_answer", "p_wait"}

Quiet(t) ==
  /\ Rest(t) /\ TaskTypes'
  /\ task'[t].pc \notin {"l_wait", "l_id", "s_send", "s_log", "e_write"}
  /\ task'[t].kind \in Publications => SameJob(t) /\ task[t].pc # "l_wait" /\ task'[t].pub = task[t].pub
  /\ task'[t].kind = "edit" => SameJob(t) /\ (task'[t].pc \notin BeforePolish => task[t].pc \notin BeforePolish)
  /\ \/ task'[t].todo = {} /\ task'[t].sent = {}
     \/ task'[t].sent = task[t].sent
        /\ \/ task'[t].todo \subseteq task[t].todo /\ (SameJob(t) \/ task[t].job = NoProduct)
           \/ task'[t].todo \subseteq LiveOf(task[t].job) /\ SameJob(t) /\ task[t].job # NoProduct

QuietStep(t) ==
  \/ StartSweep(t) \/ MarkPosted(t) \/ DeleteStep(t) \/ ShowStep(t)
  \/ SetSold(t) \/ StoreEdit(t) \/ Answer(t) \/ Polished(t) \/ StorePolish(t) \/ Refresh(t)
  \/ Probe(t) \/ Drop(t)
  \/ DeleteFails(t) \/ EditPostFails(t) \/ PolishFails(t) \/ ProbeFails(t) \/ TaskFails(t)

\* a task that ends
LEMMA FreeIsQuiet ==
  ASSUME TypeInv, NEW t \in Tasks, Rest(t), task'[t] = Free, TaskTypes'
  PROVE  Quiet(t)
BY DEF Quiet, Free, Publications

\* a task that goes on with the same message or the same caption
LEMMA GotoIsQuiet ==
  ASSUME TypeInv, NEW t \in Tasks, NEW l, <<task[t].pc, l>> \in Ways \ {<<"s_send", "s_log">>}, Goto(t, l)
  PROVE  Quiet(t)
<1>1. /\ Rest(t) /\ task'[t].pc = l /\ SameJob(t) /\ SameText(t) /\ SameSent(t) /\ SameTodo(t) /\ TaskTypes'
  BY GotoLands
<1>2. /\ l \notin {"l_wait", "l_id", "s_send", "s_log", "e_write"} /\ task[t].pc # "l_wait"
      /\ l \notin BeforePolish => task[t].pc \notin BeforePolish
  BY DEF Ways, BeforePolish
<1> QED
  BY <1>1, <1>2 DEF Quiet, SameJob, SameSent, SameTodo

\* the deletion of old posts
LEMMA DeletingIsQuiet ==
  ASSUME TypeInv, NEW t \in Tasks, task[t].pc \in DeleteLabels, NEW rest \in SUBSET Msgs, DeleteNext(t, rest),
         rest \subseteq task[t].todo \/ rest \subseteq LiveOf(task[t].job)
  PROVE  Quiet(t)
<1>1. /\ Rest(t) /\ TaskTypes'
      /\ \/ rest = {} /\ AfterDeleting(t)
         \/ /\ rest # {} /\ task'[t].pc = "d_del" /\ task'[t].todo = rest
            /\ SameJob(t) /\ SameText(t) /\ SameSent(t) /\ dropped' = dropped
  BY DeleteLands
<1>2. CASE rest = {} /\ AfterDeleting(t)
  <2>1. \/ task'[t] = Free
        \/ task'[t].pc = "w_probe" /\ task'[t].kind = "sweep" /\ task'[t].sent = {} /\ task'[t].todo = {}
    BY <1>2, AfterLands
  <2> QED
    BY <1>1, <2>1, FreeIsQuiet DEF Quiet, Publications
<1>3. CASE /\ rest # {} /\ task'[t].pc = "d_del" /\ task'[t].todo = rest
           /\ SameJob(t) /\ SameText(t) /\ SameSent(t)
  <2>1. task[t].pc # "l_wait" /\ task[t].kind # "edit" /\ task[t].job # NoProduct
    BY DEF TypeInv, TaskTypes, Shape, DeleteLabels, Publications
  <2> QED
    BY <1>1, <1>3, <2>1 DEF Quiet, SameJob, SameSent
<1> QED
  BY <1>1, <1>2, <1>3

\* the edits of posts
LEMMA ShowingIsQuiet ==
  ASSUME TypeInv, NEW t \in Tasks, task[t].pc \in ShowLabels \ {"x_id"}, NEW rest \in SUBSET Msgs, EditNext(t, rest),
         rest \subseteq task[t].todo \/ rest \subseteq LiveOf(task[t].job)
  PROVE  Quiet(t)
<1>1. /\ Rest(t) /\ TaskTypes'
      /\ \/ rest = {} /\ task'[t] = Free
         \/ /\ rest # {} /\ task'[t].pc = "x_edit" /\ task'[t].todo = rest
            /\ SameJob(t) /\ SameText(t) /\ SameSent(t)
  BY EditLands
<1>2. task[t].pc \notin BeforePolish /\ task[t].pc # "l_wait" /\ task[t].job # NoProduct
  BY DEF TypeInv, TaskTypes, Shape, ShowLabels, BeforePolish
<1> QED
  BY <1>1, <1>2, FreeIsQuiet DEF Quiet, SameJob, SameSent

\* a task that will show what it has read
LEMMA ShownIsQuiet ==
  ASSUME TypeInv, NEW t \in Tasks, task[t].pc \in {"t_set", "f_read", "x_id"},
         Rest(t), TaskTypes', task'[t].pc \in {"x_list", "x_id"}, SameJob(t), SameSent(t), SameTodo(t)
  PROVE  Quiet(t)
BY DEF Quiet, SameJob, SameSent, SameTodo, BeforePolish

\* The steps outside the sending of a publication make no message live and take no publication
\* number.
LEMMA QuietMoves ==
  ASSUME TypeInv, NEW t \in Tasks, QuietStep(t)
  PROVE  Quiet(t) /\ product' = product /\ live' \subseteq live /\ lastPub' = lastPub
<1>0. /\ task[t] \in TaskRecords /\ Shape(task[t]) /\ Filled(task[t]) /\ live \subseteq Msgs
      /\ task[t].todo \in SUBSET Msgs /\ LiveOf(task[t].job) \in SUBSET Msgs
      /\ Others(t) \in SUBSET Msgs /\ Others(t) \subseteq task[t].todo
  BY DEF TypeInv, TaskTypes, PostTypes, TaskRecords, LiveOf, Others
<1>1. ASSUME MarkPosted(t) \/ Delete(t) \/ DeleteFails(t) \/ EditMissing(t) \/ StoreEdit(t) \/ Answer(t)
             \/ Polished(t) \/ PolishFails(t) \/ StorePolish(t) \/ Drop(t) \/ TaskFails(t)
      PROVE  Quiet(t)
  <2>1. \/ Done(t)
        \/ task[t].pc = "s_mark" /\ Goto(t, "d_list")
        \/ task[t].pc = "d_del" /\ Goto(t, "d_dead")
        \/ task[t].pc = "x_edit" /\ Goto(t, "x_dead")
        \/ task[t].pc = "e_write" /\ Goto(t, "e_answer")
        \/ task[t].pc = "e_answer" /\ Goto(t, "p_wait")
        \/ task[t].pc = "p_ai" /\ Goto(t, "p_write")
        \/ task[t].pc = "p_ai" /\ Goto(t, "f_read")
        \/ task[t].pc = "p_write" /\ Goto(t, "f_read")
        \/ task[t].pc = "w_drop" /\ Goto(t, "d_list")
    BY <1>1 DEF MarkPosted, Delete, DeleteFails, EditMissing, StoreEdit, Answer, Polished, PolishFails,
                StorePolish, Drop, TaskFails, Unless, At
  <2>2. CASE Done(t)
    BY <2>2, DoneLands, FreeIsQuiet
  <2>3. CASE \E l : <<task[t].pc, l>> \in Ways \ {<<"s_send", "s_log">>} /\ Goto(t, l)
    BY <2>3, GotoIsQuiet
  <2> QED
    BY <2>1, <2>2, <2>3 DEF Ways
<1>2. ASSUME ListOld(t) \/ MarkDead(t)
      PROVE  Quiet(t)
  <2> DEFINE fresh == LiveOf(task[t].job) \ task[t].sent
  <2>1. ListOld(t) => Quiet(t)
    <3>1. ListOld(t) => DeleteNext(t, fresh) /\ task[t].pc \in DeleteLabels
      BY DEF ListOld, At, DeleteLabels
    <3>2. fresh \in SUBSET Msgs /\ fresh \subseteq LiveOf(task[t].job)
      BY <1>0
    <3> QED
      BY <3>1, <3>2, DeletingIsQuiet
  <2>2. MarkDead(t) => Quiet(t)
    <3>1. MarkDead(t) => DeleteNext(t, Others(t)) /\ task[t].pc \in DeleteLabels
      BY DEF MarkDead, At, DeleteLabels, Others
    <3> QED
      BY <1>0, <3>1, DeletingIsQuiet
  <2> QED
    BY <1>2, <2>1, <2>2
<1>3. ASSUME ListLive(t) \/ EditPost(t) \/ Bury(t) \/ EditPostFails(t)
      PROVE  Quiet(t)
  <2>1. task[t].pc \in ShowLabels \ {"x_id"}
    BY <1>3 DEF ListLive, EditPost, Bury, EditPostFails, At, ShowLabels
  <2>2. EditNext(t, LiveOf(task[t].job)) \/ EditNext(t, Others(t))
    BY <1>3 DEF ListLive, EditPost, Bury, EditPostFails
  <2> QED
    BY <1>0, <2>1, <2>2, ShowingIsQuiet
<1>4. ASSUME ShowId(t) \/ SetSold(t) \/ Refresh(t)
      PROVE  Quiet(t)
  <2>1. ShowId(t) => Quiet(t)
    <3>1. ASSUME ShowId(t)
          PROVE  task[t].pc = "x_id" /\ EnsureId(t, "x_list")
      BY <3>1 DEF ShowId, At
    <3>2. ShowId(t) => Rest(t) /\ TaskTypes' /\ task'[t].pc = "x_list" /\ SameJob(t) /\ SameSent(t) /\ SameTodo(t)
      BY <3>1, IdLands
    <3> QED
      BY <3>1, <3>2, ShownIsQuiet
  <2>2. SetSold(t) => Quiet(t)
    BY SoldLands, ShownIsQuiet
  <2>3. Refresh(t) => Quiet(t)
    BY RefreshLands, ShownIsQuiet, FreeIsQuiet
  <2> QED
    BY <1>4, <2>1, <2>2, <2>3
<1>5. ASSUME StartSweep(t) \/ Probe(t) \/ ProbeFails(t)
      PROVE  Quiet(t)
  <2>1. StartSweep(t) => Quiet(t)
    BY SweepLands DEF Quiet, Publications
  <2>2. ASSUME At(t, "w_probe"), NextProduct(t)
        PROVE  Quiet(t)
    <3>1. /\ Rest(t) /\ TaskTypes'
          /\ \/ task'[t] = Free
             \/ task'[t].pc = "w_probe" /\ SameJob(t) /\ SameText(t) /\ SameSent(t) /\ SameTodo(t)
      BY <2>2, SweepLands
    <3>2. task[t].kind = "sweep"
      BY <1>0, <2>2 DEF Shape, At
    <3> QED
      BY <3>1, <3>2, FreeIsQuiet DEF Quiet, SameJob, SameSent, SameTodo, Publications
  <2>3. ASSUME Probe(t), Least(task[t].batch) \in gone
        PROVE  Quiet(t)
    BY <2>3, ProbeLands DEF Quiet, SameSent, SameTodo, Publications
  <2>4. Probe(t) /\ Least(task[t].batch) \notin gone => At(t, "w_probe") /\ NextProduct(t)
    BY DEF Probe
  <2>5. ProbeFails(t) => At(t, "w_probe") /\ (NextProduct(t) \/ Done(t))
    BY DEF ProbeFails
  <2>6. Done(t) => Quiet(t)
    BY DoneLands, FreeIsQuiet
  <2> QED
    BY <1>5, <2>1, <2>2, <2>3, <2>4, <2>5, <2>6
<1>6. product' = product /\ live' \subseteq live /\ lastPub' = lastPub
  <2>1. ASSUME DeleteStep(t) \/ ShowStep(t)
        PROVE  product' = product /\ live' \subseteq live /\ lastPub' = lastPub
    BY <2>1 DEF DeleteStep, ShowStep, ListOld, Delete, MarkDead, ShowId, ListLive, EditPost, EditMissing, Bury,
                posts, ghosts
  <2>2. ASSUME \/ StartSweep(t) \/ MarkPosted(t) \/ SetSold(t) \/ StoreEdit(t) \/ Answer(t) \/ Polished(t)
               \/ StorePolish(t) \/ Refresh(t) \/ Probe(t) \/ Drop(t)
        PROVE  product' = product /\ live' \subseteq live /\ lastPub' = lastPub
    BY <2>2 DEF StartSweep, SweepOver, MarkPosted, SetSold, StoreEdit, Answer, Polished, StorePolish, Refresh,
                Probe, Drop, posts, ghosts
  <2>3. ASSUME DeleteFails(t) \/ EditPostFails(t) \/ PolishFails(t) \/ ProbeFails(t) \/ TaskFails(t)
        PROVE  product' = product /\ live' \subseteq live /\ lastPub' = lastPub
    BY <2>3 DEF DeleteFails, EditPostFails, PolishFails, ProbeFails, TaskFails, posts, ghosts
  <2> QED
    BY <2>1, <2>2, <2>3 DEF QuietStep
<1> QED
  BY <1>1, <1>2, <1>3, <1>4, <1>5, <1>6 DEF QuietStep, DeleteStep, ShowStep
-----------------------------------------------------------------------------
(* The other steps of a task *)

SendingStep(t) == PublishId(t) \/ Send(t) \/ Log(t) \/ SendFails(t)

\* from one message of a publication to the next
Sending(t) ==
  /\ Rest(t) /\ TaskTypes' /\ task[t].kind \in Publications /\ task[t].pc \in {"l_id", "s_send", "s_log"}
  /\ \/ task'[t] = Free
     \/ /\ SameJob(t) /\ SameTodo(t) /\ task'[t].pub = task[t].pub
        /\ \/ task'[t].sent = task[t].sent
           \/ task[t].pc = "s_log" /\ task'[t].sent = task[t].sent \cup {Msg(t)}
        /\ \/ task[t].pc = "l_id" /\ task'[t].pc = "s_send" /\ task'[t].chat = task[t].chat
           \/ task[t].pc = "s_send" /\ task'[t].pc = "s_log" /\ task'[t].chat = task[t].chat
           \/ /\ task[t].pc \in {"s_send", "s_log"}
              /\ task'[t].pc = "s_mark" \/ (task'[t].pc = "s_send" /\ task'[t].chat = task[t].chat + 1)

\* the next message is one
LEMMA MsgTyped ==
  ASSUME TypeInv, NEW t \in Tasks, task[t].pc \in {"l_id", "s_send", "s_log"}
  PROVE  /\ task[t].pub \in 1 .. MaxPubs /\ task[t].chat \in Chats /\ Msg(t) \in Msgs
         /\ task[t].kind \in Publications /\ task[t].job \in Products
<1>1. /\ task[t].pub \in 1 .. MaxPubs /\ task[t].chat \in Chats
      /\ task[t].kind \in Publications /\ task[t].job \in Products
  BY DEF TypeInv, TaskTypes, TaskRecords, Shape, Filled, PubLabels
<1> QED
  BY <1>1, MsgOfTyped DEF Msg

\* The steps that send a publication go from chat to chat in order and add to what was sent only
\* the message of the chat they are at.
LEMMA SendingMoves ==
  ASSUME TypeInv, NEW t \in Tasks, SendingStep(t)
  PROVE  Sending(t)
<1>1. CASE PublishId(t)
  <2>1. task[t].pc = "l_id" /\ EnsureId(t, "s_send")
    BY <1>1 DEF PublishId, At
  <2>2. Rest(t) /\ task'[t].pc = "s_send" /\ SameJob(t) /\ SameSent(t) /\ SameTodo(t) /\ TaskTypes'
    BY <2>1, IdLands
  <2> QED
    BY <2>1, <2>2, MsgTyped DEF Sending, SameSent
<1>2. CASE Send(t)
  <2>1. task[t].pc = "s_send" /\ Goto(t, "s_log") /\ <<"s_send", "s_log">> \in Ways
    BY <1>2 DEF Send, At, Ways
  <2>2. Rest(t) /\ task'[t].pc = "s_log" /\ SameJob(t) /\ SameSent(t) /\ SameTodo(t) /\ TaskTypes'
    BY <2>1, GotoLands
  <2> QED
    BY <2>1, <2>2, MsgTyped DEF Sending, SameSent
<1>3. ASSUME Log(t) \/ SendFails(t)
      PROVE  Sending(t)
  <2>1. PICK ok \in {task[t].sent, task[t].sent \cup {Msg(t)}} :
          NextTarget(t, ok) /\ (ok = task[t].sent \/ task[t].pc = "s_log")
    BY <1>3 DEF Log, SendFails, At
  <2>2. task[t].pc \in {"s_send", "s_log"}
    BY <1>3 DEF Log, SendFails, At
  <2>3. ok \in SUBSET Msgs
    BY <2>1, <2>2, MsgTyped DEF TypeInv, TaskTypes, TaskRecords
  <2>4. /\ Rest(t) /\ TaskTypes'
        /\ \/ task'[t] = Free
           \/ /\ SameJob(t) /\ SameTodo(t) /\ task'[t].pub = task[t].pub /\ task'[t].sent = ok
              /\ task'[t].pc = "s_mark" \/ (task'[t].pc = "s_send" /\ task'[t].chat = task[t].chat + 1)
    BY <2>1, <2>2, <2>3, TargetLands
  <2> QED
    BY <2>1, <2>2, <2>4, MsgTyped DEF Sending
<1> QED
  BY <1>1, <1>2, <1>3 DEF SendingStep

\* A handler that starts is counted among those that meet on its product, starts where its kind
\* starts, and writes nothing.
LEMMA StartMoves ==
  ASSUME TypeInv, NEW t \in Tasks, NEW p \in Products, Start(t, p)
  PROVE  /\ Rest(t) /\ TaskTypes' /\ task[t] = Free
         /\ task'[t].job = p /\ task'[t].base = data[p] /\ task'[t].cap = caption[p]
         /\ task'[t].sent = {} /\ task'[t].todo = {}
         /\ Meet(task'[t].kind, p)
         /\ \/ task'[t].kind \in Publications /\ task'[t].pc = "l_wait" /\ status[p] = "active"
               /\ lastPub + Cardinality(Waiting) < MaxPubs
            \/ task'[t].kind = "toggle" /\ task'[t].pc = "t_set"
            \/ task'[t].kind = "edit" /\ task'[t].pc = "e_write"
         /\ UNCHANGED <<rows, posts, gone, lastPub, edits, dropped, faults>>
<1>1. \/ \E k \in Publications : StartPublication(t, k, p)
      \/ Toggle(t, p) \/ Edit(t, p)
  BY DEF Start, PostThis, PostNow, AutoPost, Publications
<1>2. PICK k \in Publications \cup {"toggle", "edit"}, l \in {"l_wait", "t_set", "e_write"} :
        /\ <<k, l>> \in Starts /\ Begin(t, k, p, l)
        /\ k \in Publications => status[p] = "active" /\ lastPub + Cardinality(Waiting) < MaxPubs
        /\ UNCHANGED <<rows, posts, gone, lastPub, edits, dropped, faults>>
  BY <1>1 DEF StartPublication, Toggle, Edit, Starts, Publications, Waiting
<1>3. /\ Rest(t) /\ task[t] = Free /\ TaskTypes'
      /\ task'[t].pc = l /\ task'[t].kind = k /\ task'[t].job = p
      /\ task'[t].base = data[p] /\ task'[t].cap = caption[p]
      /\ task'[t].sent = {} /\ task'[t].todo = {}
  BY <1>2, BeginLands
<1>4. Meet(k, p)
  BY <1>2 DEF Begin
<1>5. Meet(task'[t].kind, p)
  BY <1>3, <1>4
<1> QED
  BY <1>2, <1>3, <1>5 DEF Starts, Publications

\* who waits for the lock is counted
LEMMA LockMoves ==
  ASSUME TypeInv, BoundInv, NEW t \in Tasks, Lock(t)
  PROVE  /\ Rest(t) /\ TaskTypes' /\ task[t].pc = "l_wait" /\ Publishing = {}
         /\ task'[t].pc = (IF task[t].cap.tag = "missing" THEN "l_id" ELSE "s_send")
         /\ SameJob(t) /\ SameText(t) /\ SameTodo(t) /\ task[t].kind \in Publications
         /\ task'[t].pub = lastPub + 1 /\ task'[t].chat = 1 /\ task'[t].sent = {}
         /\ lastPub' = lastPub + 1 /\ lastPub + 1 \in 1 .. MaxPubs
         /\ UNCHANGED <<rows, posts, gone, edits, ops, mixed, met, dropped, faults>>
<1>1. /\ EnterLock(t) /\ Publishing = {} /\ t \in Waiting /\ task[t].pc = "l_wait"
      /\ lastPub' = lastPub + 1
      /\ UNCHANGED <<rows, posts, gone, edits, ops, mixed, met, dropped, faults>>
  BY DEF Lock, EnterLock, Waiting, At
<1>2. IsFiniteSet(Waiting)
  BY FS_Subset, PublishAssumption DEF Waiting
<1>3. Cardinality(Waiting) \in Nat /\ Cardinality(Waiting) # 0
  BY <1>1, <1>2, FS_CardinalityType, FS_EmptySet
<1>4. lastPub + 1 \in 1 .. MaxPubs
  BY <1>3, PublishAssumption DEF BoundInv, TypeInv, CountTypes
<1> QED
  BY <1>1, <1>4, LockLands

-----------------------------------------------------------------------------
(* Type correctness *)

\* no new waiter: the bound holds on
LEMMA BoundKept ==
  ASSUME TypeInv, BoundInv, TaskTypes', lastPub' = lastPub, Waiting' \subseteq Waiting
  PROVE  BoundInv'
<1>1. IsFiniteSet(Waiting)
  BY FS_Subset, PublishAssumption DEF Waiting
<1>2. Cardinality(Waiting') <= Cardinality(Waiting) /\ Cardinality(Waiting) \in Nat /\ Cardinality(Waiting') \in Nat
  BY <1>1, FS_Subset, FS_CardinalityType
<1> QED
  BY <1>2, PublishAssumption DEF BoundInv, TypeInv, CountTypes

TaskStep(t) ==
  \/ QuietStep(t) \/ SendingStep(t) \/ Lock(t) \/ StartPolish(t)
  \/ \E p \in Products : Start(t, p)

WorldStep ==
  \/ \E p \in Products : Remove(p) \/ SourceDeleted(p)
  \/ \E m \in Msgs : PostDeleted(m)

\* A step of the system is a step of a task, a step of the world (a source removed, a post deleted
\* by hand) or a crash.
LEMMA Steps ==
  ASSUME Next
  PROVE  (\E t \in Tasks : TaskStep(t)) \/ WorldStep \/ Crash
BY DEF Next, TaskStep, WorldStep, QuietStep, SendingStep, Step, PublishStep, EditStep, Failure

\* A crash ends every task and leaves the stored rows and the posts as they are.
LEMMA CrashMoves ==
  ASSUME TypeInv, Crash
  PROVE  TaskTypes' /\ (\A t \in Tasks : task'[t] = Free) /\ UNCHANGED <<rows, posts, gone, ghosts>>
BY BlankTyped DEF Crash, TaskTypes

\* A step of the world moves no task and makes no message live.
LEMMA WorldMoves ==
  ASSUME WorldStep
  PROVE  task' = task /\ product' = product /\ live' = live /\ lastPub' = lastPub
BY DEF WorldStep, Remove, SourceDeleted, PostDeleted, posts, ghosts

\* the tasks and the bound, after every step
LEMMA TasksTyped ==
  ASSUME TypeInv, BoundInv, [Next]_vars
  PROVE  TaskTypes' /\ BoundInv'
<1>1. ASSUME NEW t \in Tasks, QuietStep(t)
      PROVE  TaskTypes' /\ BoundInv'
  <2>1. Quiet(t) /\ lastPub' = lastPub
    BY <1>1, QuietMoves
  <2>2. Waiting' \subseteq Waiting
    BY <2>1 DEF Quiet, Rest, Waiting, At
  <2> QED
    BY <2>1, <2>2, BoundKept DEF Quiet
<1>2. ASSUME NEW t \in Tasks, SendingStep(t)
      PROVE  TaskTypes' /\ BoundInv'
  <2>1. Sending(t) /\ lastPub' = lastPub
    BY <1>2, SendingMoves DEF SendingStep, PublishId, Send, Log, SendFails, ghosts
  <2>2. Waiting' \subseteq Waiting
    BY <2>1 DEF Sending, Rest, Waiting, At, Free
  <2> QED
    BY <2>1, <2>2, BoundKept DEF Sending
<1>3. ASSUME NEW t \in Tasks, StartPolish(t)
      PROVE  TaskTypes' /\ BoundInv'
  <2>1. EnterPolish(t) /\ lastPub' = lastPub
    BY <1>3 DEF StartPolish, EnterPolish, ghosts
  <2>2. Rest(t) /\ TaskTypes' /\ task'[t].pc = "p_ai"
    BY <2>1, PolishLands
  <2>3. Waiting' \subseteq Waiting
    BY <2>2 DEF Rest, Waiting, At
  <2> QED
    BY <2>1, <2>2, <2>3, BoundKept
<1>4. ASSUME NEW t \in Tasks, Lock(t)
      PROVE  TaskTypes' /\ BoundInv'
  <2>1. /\ Rest(t) /\ TaskTypes' /\ task[t].pc = "l_wait" /\ lastPub' = lastPub + 1
        /\ task'[t].pc = (IF task[t].cap.tag = "missing" THEN "l_id" ELSE "s_send")
    BY <1>4, LockMoves
  <2>2. t \in Waiting /\ Waiting' = Waiting \ {t}
    BY <2>1 DEF Rest, Waiting, At
  <2>3. IsFiniteSet(Waiting)
    BY FS_Subset, PublishAssumption DEF Waiting
  <2>4. Cardinality(Waiting') = Cardinality(Waiting) - 1 /\ Cardinality(Waiting) \in Nat
    BY <2>2, <2>3, FS_RemoveElement, FS_CardinalityType
  <2> QED
    BY <2>1, <2>4, PublishAssumption DEF BoundInv, TypeInv, CountTypes
<1>5. ASSUME NEW t \in Tasks, NEW p \in Products, Start(t, p)
      PROVE  TaskTypes' /\ BoundInv'
  <2>1. /\ Rest(t) /\ TaskTypes' /\ lastPub' = lastPub /\ task[t] = Free
        /\ task'[t].pc # "l_wait" \/ lastPub + Cardinality(Waiting) < MaxPubs
    BY <1>5, StartMoves
  <2>2. IsFiniteSet(Waiting)
    BY FS_Subset, PublishAssumption DEF Waiting
  <2>3. CASE task'[t].pc # "l_wait"
    <3>1. Waiting' \subseteq Waiting
      BY <2>1, <2>3 DEF Rest, Waiting, At
    <3> QED
      BY <2>1, <3>1, BoundKept
  <2>4. CASE task'[t].pc = "l_wait" /\ lastPub + Cardinality(Waiting) < MaxPubs
    <3>1. t \notin Waiting /\ Waiting' = Waiting \cup {t}
      BY <2>1, <2>4 DEF Rest, Waiting, At, Free
    <3>2. Cardinality(Waiting') = Cardinality(Waiting) + 1 /\ Cardinality(Waiting) \in Nat
      BY <2>2, <3>1, FS_AddElement, FS_CardinalityType
    <3> QED
      BY <2>1, <2>4, <3>2, PublishAssumption DEF BoundInv, TypeInv, CountTypes
  <2> QED
    BY <2>1, <2>3, <2>4
<1>6. ASSUME WorldStep \/ UNCHANGED vars
      PROVE  TaskTypes' /\ BoundInv'
  <2>1. task' = task /\ lastPub' = lastPub
    BY <1>6, WorldMoves DEF vars, ghosts
  <2> QED
    BY <2>1 DEF TypeInv, TaskTypes, BoundInv, Waiting, At
<1>7. ASSUME Crash
      PROVE  TaskTypes' /\ BoundInv'
  <2>1. TaskTypes' /\ (\A t \in Tasks : task'[t] = Free) /\ lastPub' = lastPub
    BY <1>7, CrashMoves DEF ghosts
  <2>2. Waiting' \subseteq Waiting
    BY <2>1 DEF Waiting, At, Free
  <2> QED
    BY <2>1, <2>2, BoundKept
<1> QED
  BY <1>1, <1>2, <1>3, <1>4, <1>5, <1>6, <1>7, Steps DEF TaskStep

\* one caption, one message changes
LEMMA RowWritten ==
  ASSUME RowTypes, NEW p \in Products, NEW x, caption' = [caption EXCEPT ![p] = x], x \in AnyCaptions,
         status' = status, data' = data
  PROVE  RowTypes'
BY DEF RowTypes

\* A write to the sight of one message keeps the type of what the chats show.
LEMMA ViewWritten ==
  ASSUME PostTypes, NEW m \in Msgs, NEW x, view' = [view EXCEPT ![m] = x], x \in AnyLooks \cup {Hidden}
  PROVE  view' \in [Msgs -> AnyLooks \cup {Hidden}]
BY DEF PostTypes

\* What a task has read is well typed, its product is a product, and a task that deletes or edits
\* posts has one left to take.
LEMMA InHand ==
  ASSUME TypeInv, NEW t \in Tasks
  PROVE  /\ task[t].base \in AnyTexts /\ task[t].cap \in AnyCaptions /\ task[t].sold \in BOOLEAN
         /\ Rebuilt(t) \in AnyCaptions
         /\ task[t].pc \notin {"idle", "w_probe"} => task[t].job \in Products
         /\ task[t].pc \in {"d_del", "d_dead", "x_edit", "x_dead"} =>
              Least(task[t].todo) \in task[t].todo /\ Least(task[t].todo) \in Msgs
<1>0. task[t] \in TaskRecords /\ Shape(task[t]) /\ Filled(task[t])
  BY DEF TypeInv, TaskTypes
<1>1. task[t].base \in AnyTexts /\ task[t].cap \in AnyCaptions /\ task[t].sold \in BOOLEAN
      /\ task[t].job \in Products \cup {NoProduct} /\ task[t].todo \in SUBSET Msgs
  BY <1>0 DEF TaskRecords
<1>2. Rebuilt(t) \in AnyCaptions
  BY <1>1 DEF Rebuilt, AnyCaptions, Lines
<1>3. task[t].pc \notin {"idle", "w_probe"} => task[t].job \in Products
  BY <1>0, <1>1 DEF Shape
<1>4. task[t].pc \in {"d_del", "d_dead", "x_edit", "x_dead"} => task[t].todo # {}
  BY <1>0 DEF Filled
<1> QED
  BY <1>1, <1>2, <1>3, <1>4, LeastOf

\* Every step keeps the types of the rows, of the posts and of the counters.
LEMMA DataTyped ==
  ASSUME TypeInv, BoundInv, [Next]_vars
  PROVE  RowTypes' /\ PostTypes' /\ CountTypes'
<1>0. RowTypes /\ PostTypes /\ CountTypes
  BY DEF TypeInv
<1>1. ASSUME UNCHANGED <<rows, posts, lastPub, edits>>, faults' \in Nat
      PROVE  RowTypes' /\ PostTypes' /\ CountTypes'
  BY <1>0, <1>1 DEF RowTypes, PostTypes, CountTypes, rows, posts
<1>2. ASSUME Fault PROVE faults' \in Nat
  BY <1>0, <1>2 DEF Fault, CountTypes
<1>3. ASSUME NEW t \in Tasks, NEW p \in Products, Start(t, p)
      PROVE  RowTypes' /\ PostTypes' /\ CountTypes'
  BY <1>0, <1>1, <1>3, StartMoves DEF CountTypes
<1>4. ASSUME NEW t \in Tasks, Lock(t)
      PROVE  RowTypes' /\ PostTypes' /\ CountTypes'
  BY <1>0, <1>4, LockMoves DEF RowTypes, PostTypes, CountTypes, rows, posts
<1>5. ASSUME NEW t \in Tasks, PublishId(t) \/ ShowId(t) \/ StorePolish(t)
      PROVE  RowTypes' /\ PostTypes' /\ CountTypes'
  <2>1. caption' = [caption EXCEPT ![task[t].job] = Rebuilt(t)] /\ task[t].pc \notin {"idle", "w_probe"}
        /\ UNCHANGED <<status, data, posts, gone, ghosts, faults>>
    BY <1>5 DEF PublishId, ShowId, StorePolish, EnsureId, At
  <2>2. Rebuilt(t) \in AnyCaptions /\ task[t].job \in Products
    BY <2>1, InHand
  <2> QED
    BY <1>0, <2>1, <2>2, RowWritten DEF PostTypes, CountTypes, posts, ghosts
<1>6. ASSUME NEW t \in Tasks, Send(t) \/ SendFails(t)
      PROVE  RowTypes' /\ PostTypes' /\ CountTypes'
  <2>1. /\ Appear(t) \/ UNCHANGED posts
        /\ task[t].pc = "s_send" /\ UNCHANGED <<rows, gone, lastPub, edits>> /\ faults' \in Nat
    BY <1>0, <1>2, <1>6 DEF Send, SendFails, At, ghosts, CountTypes
  <2>2. CASE UNCHANGED posts
    BY <1>1, <2>1, <2>2
  <2>3. CASE Appear(t)
    <3>1. Msg(t) \in Msgs /\ task[t].job \in Products /\ task[t].cap \in AnyCaptions
      BY <2>1, MsgTyped, InHand
    <3>2. [cap |-> task[t].cap, sold |-> FALSE] \in AnyLooks
      BY <3>1 DEF AnyLooks
    <3>3. view' \in [Msgs -> AnyLooks \cup {Hidden}]
      BY <1>0, <2>3, <3>1, <3>2, ViewWritten DEF Appear
    <3> QED
      BY <1>0, <2>1, <2>3, <3>1, <3>3 DEF Appear, RowTypes, PostTypes, CountTypes, rows
  <2> QED
    BY <2>1, <2>2, <2>3
<1>7. ASSUME NEW t \in Tasks, Log(t) \/ MarkDead(t) \/ Bury(t)
      PROVE  RowTypes' /\ PostTypes' /\ CountTypes'
  <2>1. Log(t) => Msg(t) \in Msgs
    BY MsgTyped DEF Log, At
  <2>2. live' \subseteq Msgs /\ UNCHANGED <<rows, product, view, lastPub, edits, faults>>
    BY <1>0, <1>7, <2>1 DEF PostTypes, Log, MarkDead, Bury, ghosts
  <2> QED
    BY <1>0, <2>2 DEF RowTypes, PostTypes, CountTypes, rows
<1>8. ASSUME NEW t \in Tasks, Delete(t)
      PROVE  RowTypes' /\ PostTypes' /\ CountTypes'
  <2>1. Least(task[t].todo) \in Msgs /\ view' = [view EXCEPT ![Least(task[t].todo)] = Hidden]
        /\ UNCHANGED <<rows, live, product, lastPub, edits, faults>>
    BY <1>8, InHand DEF Delete, At, ghosts
  <2> QED
    BY <1>0, <2>1, ViewWritten DEF RowTypes, PostTypes, CountTypes, rows
<1>9. ASSUME NEW t \in Tasks, EditPost(t)
      PROVE  RowTypes' /\ PostTypes' /\ CountTypes'
  <2>1. /\ Least(task[t].todo) \in Msgs
        /\ view' = [view EXCEPT ![Least(task[t].todo)] = [cap |-> task[t].cap, sold |-> task[t].sold]]
        /\ UNCHANGED <<rows, live, product, lastPub, edits, faults>>
    BY <1>9, InHand DEF EditPost, At, ghosts
  <2>2. [cap |-> task[t].cap, sold |-> task[t].sold] \in AnyLooks
    BY InHand DEF AnyLooks
  <2> QED
    BY <1>0, <2>1, <2>2, ViewWritten DEF RowTypes, PostTypes, CountTypes, rows
<1>10. ASSUME NEW t \in Tasks, SetSold(t) \/ Drop(t)
      PROVE  RowTypes' /\ PostTypes' /\ CountTypes'
  <2>1. PICK s \in {"active", "sold", "removed"} : status' = [status EXCEPT ![task[t].job] = s]
    BY <1>10 DEF SetSold, Drop
  <2>2. UNCHANGED <<data, caption, posts, lastPub, edits, faults>>
    BY <1>10 DEF SetSold, Drop, ghosts
  <2> QED
    BY <1>0, <2>1, <2>2 DEF RowTypes, PostTypes, CountTypes, posts
<1>11. ASSUME NEW t \in Tasks, StoreEdit(t)
      PROVE  RowTypes' /\ PostTypes' /\ CountTypes'
  <2> DEFINE p == task[t].job
  <2>1. PICK f \in Fields :
          /\ data' = [data EXCEPT ![p][f] = edits + 1]
          /\ caption' = [caption EXCEPT ![p] = [text |-> [task[t].base EXCEPT ![f] = edits + 1], tag |-> "shown"]]
    BY <1>11 DEF StoreEdit
  <2>2. task[t].base \in AnyTexts /\ p \in Products /\ edits + 1 \in Nat
    BY <1>0, <1>11, InHand DEF StoreEdit, At, CountTypes
  <2>3. data' \in [Products -> AnyTexts]
    BY <1>0, <2>1, <2>2 DEF RowTypes, AnyTexts
  <2>4. [task[t].base EXCEPT ![f] = edits + 1] \in AnyTexts
    BY <2>2 DEF AnyTexts
  <2>5. [text |-> [task[t].base EXCEPT ![f] = edits + 1], tag |-> "shown"] \in AnyCaptions
    BY <2>4 DEF AnyCaptions, Lines
  <2>6. caption' \in [Products -> AnyCaptions]
    BY <1>0, <2>1, <2>5 DEF RowTypes
  <2>7. UNCHANGED <<status, posts, lastPub, faults>> /\ edits' = edits + 1
    BY <1>11 DEF StoreEdit
  <2> QED
    BY <1>0, <2>2, <2>3, <2>6, <2>7 DEF RowTypes, PostTypes, CountTypes, posts
<1>12. ASSUME NEW t \in Tasks,
             \/ StartSweep(t) \/ MarkPosted(t) \/ ListOld(t) \/ ListLive(t) \/ EditMissing(t) \/ Answer(t)
             \/ Polished(t) \/ PolishFails(t) \/ Refresh(t) \/ Probe(t) \/ StartPolish(t)
       PROVE RowTypes' /\ PostTypes' /\ CountTypes'
  <2>1. UNCHANGED <<rows, posts, lastPub, edits, faults>>
    BY <1>12 DEF StartSweep, SweepOver, MarkPosted, ListOld, ListLive, EditMissing, Answer, Polished, PolishFails,
                 Refresh, Probe, StartPolish, EnterPolish, ghosts
  <2> QED
    BY <1>0, <1>1, <2>1 DEF CountTypes
<1>13. ASSUME NEW t \in Tasks, DeleteFails(t) \/ EditPostFails(t) \/ ProbeFails(t) \/ TaskFails(t)
       PROVE RowTypes' /\ PostTypes' /\ CountTypes'
  <2>1. Fault /\ UNCHANGED <<rows, posts, lastPub, edits>>
    BY <1>13 DEF DeleteFails, EditPostFails, ProbeFails, TaskFails, ghosts
  <2> QED
    BY <1>1, <1>2, <2>1
<1>14. ASSUME WorldStep
       PROVE RowTypes' /\ PostTypes' /\ CountTypes'
  <2>1. CASE \E p \in Products : Remove(p)
    <3>1. PICK p \in Products : Remove(p)
      BY <2>1
    <3> QED
      BY <1>0, <3>1 DEF Remove, RowTypes, PostTypes, CountTypes, posts
  <2>2. CASE \E p \in Products : SourceDeleted(p)
    BY <1>0, <1>1, <2>2 DEF SourceDeleted, ghosts, CountTypes
  <2>3. CASE \E m \in Msgs : PostDeleted(m)
    <3>1. PICK m \in Msgs : PostDeleted(m)
      BY <2>3
    <3>2. view' = [view EXCEPT ![m] = Hidden] /\ UNCHANGED <<rows, live, product, lastPub, edits>> /\ faults' \in Nat
      BY <1>2, <3>1 DEF PostDeleted, ghosts
    <3> QED
      BY <1>0, <3>2, ViewWritten DEF RowTypes, PostTypes, CountTypes, rows
  <2> QED
    BY <1>14, <2>1, <2>2, <2>3 DEF WorldStep
<1>15. ASSUME Crash \/ UNCHANGED vars
       PROVE RowTypes' /\ PostTypes' /\ CountTypes'
  <2>1. UNCHANGED <<rows, posts, lastPub, edits>> /\ faults' \in Nat
    BY <1>0, <1>2, <1>15 DEF Crash, vars, ghosts, CountTypes
  <2> QED
    BY <1>1, <2>1
<1>16. ASSUME NEW t \in Tasks, TaskStep(t)
       PROVE RowTypes' /\ PostTypes' /\ CountTypes'
  BY <1>3, <1>4, <1>5, <1>6, <1>7, <1>8, <1>9, <1>10, <1>11, <1>12, <1>13, <1>16
     DEF TaskStep, QuietStep, SendingStep, DeleteStep, ShowStep
<1> QED
  BY <1>14, <1>15, <1>16, Steps

\* the messages the initial posts are
LEMMA InitialPosts ==
  ASSUME Init
  PROVE  /\ live \subseteq Msgs
         /\ \A m \in live : product[m] \in Products
         /\ \A m \in live : \E p \in Products, c \in Chats : m = MsgOf(p, c) /\ product[m] = p
<1>1. Products \subseteq 1 .. MaxPubs
  BY PublishAssumption DEF Products
<1>2. \A p \in Products, c \in Chats : MsgOf(p, c) \in Msgs
  BY <1>1, MsgOfTyped
<1>3. live = {} \/ live = {MsgOf(p, c) : p \in Products, c \in Chats}
  BY DEF Init, Fresh, Posted
<1>4. \A m \in live : \E p \in Products, c \in Chats : m = MsgOf(p, c)
  BY <1>3
<1>5. live \subseteq Msgs
  BY <1>2, <1>4
<1>6. \A m \in live : product[m] = (m - 1) \div NumChats + 1
  BY <1>5 DEF Init
<1>7. \A m \in live : \E p \in Products, c \in Chats : m = MsgOf(p, c) /\ product[m] = p
  BY <1>4, <1>6, MsgOfProduct
<1> QED
  BY <1>5, <1>7

\* The initial state is well typed and within the bound on publications.
LEMMA InitTyped ==
  ASSUME Init
  PROVE  TypeInv /\ BoundInv
<1>1. TaskTypes
  BY BlankTyped DEF Init, TaskTypes
<1>2. RowTypes
  <2>1. caption \in [Products -> AnyCaptions]
    <3>1. PICK stored \in [Products -> Lines] : caption = [p \in Products |-> [text |-> Blank, tag |-> stored[p]]]
      BY DEF Init
    <3>2. \A p \in Products : [text |-> Blank, tag |-> stored[p]] \in AnyCaptions
      BY BlankTyped
    <3> QED
      BY <3>1, <3>2
  <2> QED
    BY <2>1, BlankTyped DEF Init, RowTypes
<1>3. PostTypes
  <2>1. live \subseteq Msgs /\ \A m \in live : product[m] \in Products
    BY InitialPosts
  <2>2. product \in [Msgs -> Products \cup {NoProduct}]
    <3> DEFINE x(m) == IF m \in live THEN (m - 1) \div NumChats + 1 ELSE NoProduct
    <3>1. product = [m \in Msgs |-> x(m)]
      BY DEF Init
    <3>2. \A m \in Msgs : product[m] = x(m)
      BY <3>1
    <3>3. \A m \in Msgs : x(m) \in Products \cup {NoProduct}
      BY <2>1, <3>2
    <3> HIDE DEF x
    <3> QED
      BY <3>1, <3>3
  <2>3. view \in [Msgs -> AnyLooks \cup {Hidden}]
    <3>1. PICK line \in [Products -> Lines] :
            view = [m \in Msgs |->
                      IF m \in live THEN [cap |-> [text |-> Blank, tag |-> line[product[m]]], sold |-> FALSE]
                      ELSE Hidden]
      BY DEF Init
    <3> DEFINE x(m) == IF m \in live THEN [cap |-> [text |-> Blank, tag |-> line[product[m]]], sold |-> FALSE]
                       ELSE Hidden
    <3>2. \A p \in Products : [cap |-> [text |-> Blank, tag |-> line[p]], sold |-> FALSE] \in AnyLooks
      BY BlankTyped DEF AnyLooks
    <3>3. \A m \in Msgs : x(m) \in AnyLooks \cup {Hidden}
      BY <2>1, <3>2
    <3>4. view = [m \in Msgs |-> x(m)]
      BY <3>1
    <3> HIDE DEF x
    <3> QED
      BY <3>3, <3>4
  <2> QED
    BY <2>1, <2>2, <2>3 DEF PostTypes
<1>4. CountTypes /\ lastPub <= MaxPubs
  BY PublishAssumption DEF Init, Fresh, Posted, CountTypes
<1>5. BoundInv
  <2>1. Waiting = {}
    BY DEF Init, Waiting, At, Free
  <2> QED
    BY <1>4, <2>1, FS_EmptySet DEF BoundInv, CountTypes
<1> QED
  BY <1>1, <1>2, <1>3, <1>4, <1>5 DEF TypeInv

\* Every step keeps the types and the bound on publications.
LEMMA NextTyped == TypeInv /\ BoundInv /\ [Next]_vars => (TypeInv /\ BoundInv)'
BY TasksTyped, DataTyped DEF TypeInv

\* Every reachable state is well typed, and the publications that have begun
\* or wait for the lock never exceed the messages there are.
THEOREM TypeInvCorrect == Spec => [](TypeInv /\ BoundInv)
<1>1. Init => TypeInv /\ BoundInv
  BY InitTyped
<1> QED
  BY <1>1, NextTyped, PTL DEF Spec

-----------------------------------------------------------------------------
(* The ID line, the locks and the messages *)

\* a product that was disturbed stays marked, and no fault is forgotten
LEMMA MarksKept ==
  ASSUME TypeInv, [Next]_vars
  PROVE  mixed \subseteq mixed' /\ met \subseteq met' /\ (faults' = 0 => faults = 0)
<1>0. faults \in Nat
  BY DEF TypeInv, CountTypes
<1>1. \A k, p : Meet(k, p) => mixed \subseteq mixed' /\ met \subseteq met'
  BY DEF Meet
<1>2. ASSUME NEW t \in Tasks, Step(t)
      PROVE  mixed \subseteq mixed' /\ met \subseteq met' /\ faults' = faults
  <2>1. CASE PublishStep(t)
    BY <2>1 DEF PublishStep, Lock, EnterLock, PublishId, Send, Log, MarkPosted, ghosts
  <2>2. CASE DeleteStep(t)
    BY <2>2 DEF DeleteStep, ListOld, Delete, MarkDead, ghosts
  <2>3. CASE ShowStep(t)
    BY <2>3 DEF ShowStep, ShowId, ListLive, EditPost, EditMissing, Bury, ghosts
  <2>4. CASE EditStep(t)
    BY <2>4 DEF EditStep, SetSold, StoreEdit, Answer, StartPolish, EnterPolish, Polished, StorePolish, Refresh, ghosts
  <2>5. CASE Probe(t) \/ Drop(t)
    BY <1>1, <2>5 DEF Probe, Drop, ghosts
  <2> QED
    BY <1>2, <2>1, <2>2, <2>3, <2>4, <2>5 DEF Step
<1>3. ASSUME NEW t \in Tasks, StartSweep(t) \/ Failure(t)
      PROVE  mixed \subseteq mixed' /\ met \subseteq met' /\ (faults' = 0 => faults = 0)
  BY <1>0, <1>3 DEF StartSweep, SweepOver, Failure, SendFails, DeleteFails, EditPostFails, PolishFails, ProbeFails,
                    TaskFails, Fault, ghosts
<1>4. ASSUME NEW t \in Tasks, NEW p \in Products, Start(t, p)
      PROVE  mixed \subseteq mixed' /\ met \subseteq met' /\ faults' = faults
  <2>1. Meet(task'[t].kind, p) /\ faults' = faults
    BY <1>4, StartMoves
  <2> QED
    BY <1>1, <2>1
<1>5. ASSUME WorldStep \/ Crash \/ UNCHANGED vars
      PROVE  mixed \subseteq mixed' /\ met \subseteq met' /\ (faults' = 0 => faults = 0)
  BY <1>0, <1>1, <1>5 DEF WorldStep, Remove, SourceDeleted, PostDeleted, Crash, Fault, vars, ghosts
<1> QED
  BY <1>2, <1>3, <1>4, <1>5 DEF Next, WorldStep

\* a task changes the caption of its own product only, and only to one with the ID line
LEMMA CaptionMoves ==
  ASSUME TypeInv, NEW t \in Tasks, TaskStep(t)
  PROVE  /\ \A p \in Products : caption'[p] = caption[p] \/ (p = task[t].job /\ caption'[p].tag = "shown")
         /\ task[t].pc \notin {"l_id", "x_id", "e_write", "p_write"} => caption' = caption
         /\ StoreEdit(t) => caption'[task[t].job].tag = "shown"
<1>0. RowTypes
  BY DEF TypeInv
<1>1. ASSUME PublishId(t) \/ ShowId(t) \/ StorePolish(t)
      PROVE  /\ \A p \in Products : caption'[p] = caption[p] \/ (p = task[t].job /\ caption'[p].tag = "shown")
             /\ task[t].pc \in {"l_id", "x_id", "p_write"}
  BY <1>0, <1>1 DEF PublishId, ShowId, StorePolish, EnsureId, At, RowTypes, Rebuilt
<1>2. ASSUME StoreEdit(t)
      PROVE  /\ \A p \in Products : caption'[p] = caption[p] \/ (p = task[t].job /\ caption'[p].tag = "shown")
             /\ task[t].pc = "e_write" /\ caption'[task[t].job].tag = "shown"
  <2>1. PICK x : caption' = [caption EXCEPT ![task[t].job] = [text |-> x, tag |-> "shown"]]
    BY <1>2 DEF StoreEdit
  <2>2. task[t].pc = "e_write" /\ task[t].job \in Products
    BY <1>2, InHand DEF StoreEdit, At
  <2> QED
    BY <1>0, <2>1, <2>2 DEF RowTypes
<1>3. ASSUME NEW p \in Products, Start(t, p)
      PROVE  caption' = caption /\ task[t].pc = "idle"
  BY <1>3, StartMoves DEF rows, Free
<1>4. ASSUME \/ Lock(t) \/ Send(t) \/ Log(t) \/ MarkPosted(t) \/ DeleteStep(t)
             \/ ListLive(t) \/ EditPost(t) \/ EditMissing(t) \/ Bury(t)
      PROVE  caption' = caption
  BY <1>4 DEF Lock, EnterLock, Send, Log, MarkPosted, DeleteStep, ListOld, Delete, MarkDead, ListLive, EditPost,
              EditMissing, Bury, rows
<1>5. ASSUME \/ SetSold(t) \/ Answer(t) \/ StartPolish(t) \/ Polished(t) \/ PolishFails(t) \/ Refresh(t)
             \/ StartSweep(t) \/ Probe(t) \/ Drop(t)
             \/ SendFails(t) \/ DeleteFails(t) \/ EditPostFails(t) \/ ProbeFails(t) \/ TaskFails(t)
      PROVE  caption' = caption
  BY <1>5 DEF SetSold, Answer, StartPolish, EnterPolish, Polished, PolishFails, Refresh, StartSweep, SweepOver,
              Probe, Drop, SendFails, DeleteFails, EditPostFails, ProbeFails, TaskFails, rows
<1> QED
  BY <1>1, <1>2, <1>3, <1>4, <1>5 DEF TaskStep, QuietStep, SendingStep, ShowStep

\* A task goes on with the caption it has, or reads the stored one, or has one with the ID line.
LEMMA CapMoves ==
  ASSUME TypeInv, BoundInv, NEW t \in Tasks, LineOf(t), TaskStep(t)
  PROVE  \/ task'[t].cap.tag = "shown"
         \/ task'[t].cap = task[t].cap /\ SameJob(t)
         \/ /\ task'[t].cap = caption[task'[t].job] /\ task'[t].job \in Products /\ caption' = caption
            /\ task'[t].kind \notin {"none", "sweep"}
<1> DEFINE Carried == \/ task'[t].cap.tag = "shown"
                      \/ task'[t].cap = task[t].cap /\ SameJob(t)
                      \/ /\ task'[t].cap = caption[task'[t].job] /\ task'[t].job \in Products /\ caption' = caption
                         /\ task'[t].kind \notin {"none", "sweep"}
<1>0. /\ task \in [Tasks -> TaskRecords] /\ task[t] \in TaskRecords /\ Shape(task[t]) /\ Free.cap.tag = "shown"
      /\ LiveOf(task[t].job) \ task[t].sent \in SUBSET Msgs /\ LiveOf(task[t].job) \in SUBSET Msgs
      /\ Others(t) \in SUBSET Msgs
  BY DEF TypeInv, TaskTypes, Free, LiveOf, PostTypes, Others, TaskRecords
<1>1. ASSUME Done(t) \/ \E l : Goto(t, l) \/ EnsureId(t, l)
      PROVE  Carried
  <2>1. Done(t) => Carried
    BY <1>0 DEF Done, Become
  <2>2. ASSUME NEW l, Goto(t, l)
        PROVE  Carried
    BY <1>0, <2>2 DEF Goto, SameJob, TaskRecords
  <2>3. ASSUME NEW l, EnsureId(t, l)
        PROVE  Carried
    BY <1>0, <2>3 DEF EnsureId, Become, Rebuilt, TaskRecords
  <2> QED
    BY <1>1, <2>1, <2>2, <2>3
<1>2. ASSUME \/ MarkPosted(t) \/ Delete(t) \/ EditMissing(t) \/ StoreEdit(t) \/ Answer(t) \/ Polished(t)
             \/ StorePolish(t) \/ Drop(t) \/ DeleteFails(t) \/ PolishFails(t) \/ TaskFails(t)
             \/ ShowId(t) \/ PublishId(t) \/ Send(t)
      PROVE  Carried
  <2>1. Done(t) \/ \E l : Goto(t, l) \/ EnsureId(t, l)
    BY <1>2 DEF MarkPosted, Delete, EditMissing, StoreEdit, Answer, Polished, StorePolish, Drop, DeleteFails,
                PolishFails, TaskFails, ShowId, PublishId, Send, Unless
  <2> QED
    BY <1>1, <2>1
<1>3. ASSUME ListLive(t) \/ EditPost(t) \/ Bury(t) \/ EditPostFails(t)
      PROVE  Carried
  <2>1. task[t].pc \in ShowLabels \ {"x_id"}
    BY <1>3 DEF ListLive, EditPost, Bury, EditPostFails, At, ShowLabels
  <2>2. EditNext(t, LiveOf(task[t].job)) \/ EditNext(t, Others(t))
    BY <1>3 DEF ListLive, EditPost, Bury, EditPostFails
  <2> QED
    BY <1>0, <2>1, <2>2, EditLands DEF SameText
<1>4. ASSUME NEW rest \in SUBSET Msgs, DeleteNext(t, rest), task[t].pc \in DeleteLabels
      PROVE  Carried
  BY <1>0, <1>4, DeleteLands, AfterLands DEF SameText
<1>5. ListOld(t) \/ MarkDead(t) => Carried
  BY <1>0, <1>4 DEF ListOld, MarkDead, At, DeleteLabels, Others
<1>6. SetSold(t) => Carried
  BY SoldLands
<1>7. Refresh(t) => Carried
  <2>1. Refresh(t) => caption' = caption /\ task[t].job \in Products /\ task[t].kind = "edit"
    BY <1>0, InHand DEF Refresh, At, rows, Shape, EditLabels
  <2> QED
    BY <1>0, <2>1, RefreshLands DEF SameJob
<1>8. Lock(t) \/ StartPolish(t) => Carried
  BY LockMoves, PolishLands DEF StartPolish, SameText
<1>9. Log(t) \/ SendFails(t) => Carried
  <2>1. ASSUME Log(t) \/ SendFails(t)
        PROVE  Carried
    <3>1. PICK ok \in {task[t].sent, task[t].sent \cup {Msg(t)}} :
            NextTarget(t, ok) /\ (ok = task[t].sent \/ task[t].pc = "s_log")
      BY <2>1 DEF Log, SendFails, At
    <3>2. task[t].pc \in {"s_send", "s_log"}
      BY <2>1 DEF Log, SendFails, At
    <3>3. ok \in SUBSET Msgs
      BY <3>1, <3>2, MsgTyped DEF TypeInv, TaskTypes, TaskRecords
    <3> QED
      BY <1>0, <3>1, <3>2, <3>3, TargetLands DEF SameText
  <2> QED
    BY <2>1
<1>10. ASSUME StartSweep(t) \/ Probe(t) \/ ProbeFails(t)
       PROVE  Carried
  <2>1. StartSweep(t) => Carried
    BY <1>0, SweepLands
  <2>2. At(t, "w_probe") /\ NextProduct(t) => Carried
    BY <1>0, SweepLands DEF SameText
  <2>3. Probe(t) /\ Least(task[t].batch) \in gone => Carried
    BY <1>0, ProbeLands DEF SameText, LineOf, Shape
  <2>4. Probe(t) /\ Least(task[t].batch) \notin gone => At(t, "w_probe") /\ NextProduct(t)
    BY DEF Probe
  <2>5. ProbeFails(t) => At(t, "w_probe") /\ (NextProduct(t) \/ Done(t))
    BY DEF ProbeFails
  <2> QED
    BY <1>1, <1>10, <2>1, <2>2, <2>3, <2>4, <2>5
<1>11. \A p \in Products : Start(t, p) => Carried
  BY StartMoves DEF rows, Publications
<1> QED
  BY <1>2, <1>3, <1>5, <1>6, <1>7, <1>8, <1>9, <1>10, <1>11
     DEF TaskStep, QuietStep, SendingStep, DeleteStep, ShowStep

\* a step moves one task
LEMMA OneMoves ==
  ASSUME TypeInv, BoundInv, NEW t \in Tasks, TaskStep(t)
  PROVE  Rest(t)
<1>1. QuietStep(t) => Rest(t)
  BY QuietMoves DEF Quiet
<1>2. SendingStep(t) => Rest(t)
  BY SendingMoves DEF Sending
<1>3. Lock(t) => Rest(t)
  BY LockMoves
<1>4. StartPolish(t) => Rest(t)
  BY PolishLands DEF StartPolish
<1>5. \A p \in Products : Start(t, p) => Rest(t)
  BY StartMoves
<1> QED
  BY <1>1, <1>2, <1>3, <1>4, <1>5 DEF TaskStep

\* a task keeps its product, or has none any more
LEMMA KeepsProduct ==
  ASSUME TypeInv, BoundInv, NEW t \in Tasks, TaskStep(t), ~Probe(t), \A p \in Products : ~Start(t, p)
  PROVE  SameJob(t) \/ task'[t].job = NoProduct
<1>0. /\ task \in [Tasks -> TaskRecords] /\ task[t] \in TaskRecords /\ Free.job = NoProduct
      /\ LiveOf(task[t].job) \ task[t].sent \in SUBSET Msgs /\ LiveOf(task[t].job) \in SUBSET Msgs
      /\ Others(t) \in SUBSET Msgs
  BY DEF TypeInv, TaskTypes, Free, LiveOf, PostTypes, Others, TaskRecords
<1>1. ASSUME \/ Done(t) \/ \E l : Goto(t, l) \/ EnsureId(t, l)
      PROVE  SameJob(t) \/ task'[t].job = NoProduct
  BY <1>0, <1>1 DEF Done, Become, Goto, EnsureId, SameJob, TaskRecords
<1>2. ASSUME \/ MarkPosted(t) \/ Delete(t) \/ EditMissing(t) \/ StoreEdit(t) \/ Answer(t) \/ Polished(t)
             \/ StorePolish(t) \/ Drop(t) \/ DeleteFails(t) \/ PolishFails(t) \/ TaskFails(t)
             \/ ShowId(t) \/ PublishId(t) \/ Send(t)
      PROVE  SameJob(t) \/ task'[t].job = NoProduct
  BY <1>1, <1>2 DEF MarkPosted, Delete, EditMissing, StoreEdit, Answer, Polished, StorePolish, Drop, DeleteFails,
                    PolishFails, TaskFails, ShowId, PublishId, Send, Unless
<1>3. ASSUME NEW rest \in SUBSET Msgs, EditNext(t, rest)
      PROVE  SameJob(t) \/ task'[t].job = NoProduct
  BY <1>0, <1>3 DEF EditNext, Become, SameJob, TaskRecords
<1>4. ASSUME ListLive(t) \/ EditPost(t) \/ Bury(t) \/ EditPostFails(t)
      PROVE  SameJob(t) \/ task'[t].job = NoProduct
  BY <1>0, <1>3, <1>4 DEF ListLive, EditPost, Bury, EditPostFails
<1>5. ASSUME NEW rest \in SUBSET Msgs, DeleteNext(t, rest), task[t].pc \in DeleteLabels
      PROVE  SameJob(t) \/ task'[t].job = NoProduct
  BY <1>0, <1>5, DeleteLands, AfterLands
<1>6. ListOld(t) => SameJob(t) \/ task'[t].job = NoProduct
  BY <1>0, <1>5 DEF ListOld, At, DeleteLabels
<1>7. MarkDead(t) => SameJob(t) \/ task'[t].job = NoProduct
  BY <1>0, <1>5 DEF MarkDead, At, DeleteLabels, Others
<1>8. SetSold(t) \/ Refresh(t) => SameJob(t) \/ task'[t].job = NoProduct
  BY <1>0, SoldLands, RefreshLands
<1>9. StartSweep(t) \/ ProbeFails(t) => SameJob(t) \/ task'[t].job = NoProduct
  BY <1>0, <1>1, SweepLands DEF ProbeFails
<1>10. Lock(t) \/ StartPolish(t) => SameJob(t) \/ task'[t].job = NoProduct
  BY LockMoves, PolishLands DEF StartPolish
<1>11. Log(t) \/ SendFails(t) => SameJob(t) \/ task'[t].job = NoProduct
  BY <1>0, SendingMoves DEF SendingStep, Sending
<1> QED
  BY <1>2, <1>4, <1>6, <1>7, <1>8, <1>9, <1>10, <1>11
     DEF TaskStep, QuietStep, SendingStep, DeleteStep, ShowStep

\* an edit goes on with its product, its value stored when it leaves the first step
LEMMA EditMoves ==
  ASSUME TypeInv, BoundInv, NEW t \in Tasks, TaskStep(t), task'[t].kind = "edit", task'[t].pc # "e_write"
  PROVE  /\ SameJob(t) /\ task[t].job \in Products
         /\ task[t].pc # "e_write" \/ StoreEdit(t)
         /\ task'[t].pc \in ShowLabels =>
              task[t].pc \in ShowLabels \/ (task[t].pc = "f_read" /\ task'[t].cap = caption[task[t].job])
<1>0. Shape(task[t]) /\ task[t] \in TaskRecords
  BY DEF TypeInv, TaskTypes
<1>1. ~SendingStep(t) /\ ~Lock(t) /\ \A p \in Products : ~Start(t, p)
  <2>1. SendingStep(t) => task'[t].kind # "edit"
    BY SendingMoves DEF Sending, SameJob, Free, Publications
  <2>2. Lock(t) => task'[t].kind # "edit"
    BY LockMoves DEF SameJob, Publications
  <2> QED
    BY <2>1, <2>2, StartMoves DEF Publications
<1>2. SameJob(t) /\ task[t].kind = "edit" /\ task[t].job \in Products
  <2>1. QuietStep(t) => SameJob(t)
    BY QuietMoves DEF Quiet
  <2>2. StartPolish(t) => SameJob(t)
    BY PolishLands DEF StartPolish
  <2>3. SameJob(t)
    BY <1>1, <2>1, <2>2 DEF TaskStep
  <2> QED
    BY <1>0, <2>3 DEF SameJob, Shape, TaskRecords
<1>3. task[t].pc \notin {"t_set", "w_probe", "w_drop", "idle"} /\ task[t].pc \notin DeleteLabels \cup PubLabels
  BY <1>0, <1>2 DEF Shape, Publications
<1>4. /\ task[t] # Free /\ task'[t] # Free
      /\ ~(DeleteStep(t) \/ SetSold(t) \/ Probe(t) \/ Drop(t) \/ StartSweep(t) \/ MarkPosted(t))
      /\ ~(DeleteFails(t) \/ ProbeFails(t) \/ TaskFails(t))
  <2>1. task[t] # Free /\ task'[t] # Free
    BY <1>2 DEF Free, SameJob
  <2>2. ~TaskFails(t)
    BY <2>1, DoneLands DEF TaskFails
  <2> QED
    BY <1>3, <2>1, <2>2 DEF DeleteStep, ListOld, Delete, MarkDead, SetSold, Probe, Drop, StartSweep, SweepOver,
                            MarkPosted, DeleteFails, ProbeFails, At, DeleteLabels, PubLabels
<1>5. \/ ShowStep(t) \/ EditPostFails(t) \/ StoreEdit(t) \/ Answer(t) \/ StartPolish(t) \/ Polished(t)
      \/ PolishFails(t) \/ StorePolish(t) \/ Refresh(t)
  BY <1>1, <1>4 DEF TaskStep, QuietStep
<1>6. CASE ShowStep(t) \/ EditPostFails(t)
  BY <1>2, <1>6 DEF ShowStep, ShowId, ListLive, EditPost, EditMissing, Bury, EditPostFails, At, ShowLabels
<1>7. CASE StoreEdit(t) \/ Answer(t) \/ Polished(t) \/ PolishFails(t) \/ StorePolish(t)
  <2>1. /\ StoreEdit(t) \/ task[t].pc # "e_write"
        /\ \/ Done(t)
           \/ \E l \in {"e_answer", "p_wait", "p_write", "f_read"} : <<task[t].pc, l>> \in Ways /\ Goto(t, l)
    BY <1>7 DEF StoreEdit, Answer, Polished, PolishFails, StorePolish, Unless, At, Ways
  <2>2. task'[t].pc \in {"e_answer", "p_wait", "p_write", "f_read"}
    BY <1>4, <2>1, DoneLands, GotoLands
  <2> QED
    BY <1>2, <2>1, <2>2 DEF ShowLabels
<1>8. CASE StartPolish(t)
  BY <1>2, <1>8, PolishLands DEF StartPolish, ShowLabels
<1>9. CASE Refresh(t)
  BY <1>2, <1>4, <1>9, RefreshLands
<1> QED
  BY <1>5, <1>6, <1>7, <1>8, <1>9

\* a step of a task keeps what the captions in the tasks' hands say of the stored ones
LEMMA LineMoves ==
  ASSUME TypeInv, BoundInv, TaskTypes', \A u \in Tasks : LineOf(u), NEW t \in Tasks, TaskStep(t)
  PROVE  \A u \in Tasks : LineOf(u)'
<1>0. \A u \in Tasks : /\ task[u] \in TaskRecords /\ Shape(task[u]) /\ task'[u] \in TaskRecords /\ Shape(task'[u])
                       /\ task[u].kind = "edit" => task[u].job \in Products
                       /\ task[u].job # NoProduct => task[u].job \in Products
                       /\ task'[u].kind = "edit" => task'[u].job \in Products
  BY DEF TypeInv, TaskTypes, Shape, TaskRecords
<1>1. Rest(t) /\ \A p \in Products : caption'[p] = caption[p] \/ caption'[p].tag = "shown"
  BY OneMoves, CaptionMoves
<1>2. ASSUME NEW u \in Tasks \ {t}
      PROVE  LineOf(u)'
  BY <1>0, <1>1, <1>2 DEF LineOf, Rest
<1>3. LineOf(t)'
  <2>1. \/ task'[t].cap.tag = "shown"
        \/ task'[t].cap = task[t].cap /\ SameJob(t)
        \/ /\ task'[t].cap = caption[task'[t].job] /\ task'[t].job \in Products /\ caption' = caption
            /\ task'[t].kind \notin {"none", "sweep"}
    BY CapMoves
  <2>2. task'[t].kind \in {"none", "sweep"} => task'[t].cap.tag = "shown"
    BY <2>1 DEF LineOf, SameJob
  <2>3. task'[t].kind = "edit" /\ task'[t].pc # "e_write" => caption'[task'[t].job].tag = "shown"
    <3>1. task'[t].kind = "edit" /\ task'[t].pc # "e_write" =>
            SameJob(t) /\ task[t].job \in Products /\ (task[t].pc # "e_write" \/ StoreEdit(t))
      BY EditMoves
    <3> QED
      BY <1>1, <3>1, CaptionMoves DEF LineOf, SameJob
  <2>4. task'[t].kind = "edit" /\ task'[t].pc \in ShowLabels => task'[t].cap.tag = "shown"
    <3> SUFFICES ASSUME task'[t].kind = "edit", task'[t].pc \in ShowLabels
                 PROVE  task'[t].cap.tag = "shown"
      OBVIOUS
    <3>1. task'[t].pc # "e_write"
      BY DEF ShowLabels
    <3>2. /\ SameJob(t) /\ task[t].job \in Products
          /\ task[t].pc \in ShowLabels \/ (task[t].pc = "f_read" /\ task'[t].cap = caption[task[t].job])
      BY <3>1, EditMoves
    <3> QED
      BY <2>1, <3>2 DEF LineOf, SameJob, ShowLabels
  <2>5. task'[t].job # NoProduct /\ task'[t].cap.tag = "missing" => caption'[task'[t].job].tag # "stuck"
    BY <1>0, <1>1, <2>1 DEF LineOf, SameJob
  <2> QED
    BY <2>2, <2>3, <2>4, <2>5 DEF LineOf
<1> QED
  BY <1>2, <1>3

\* Every step keeps it so that no write takes an ID line away from a caption somebody has read, and
\* that a caption nobody can build anew stays as it is while tasks of one kind are at it.
LEMMA LineKept == TypeInv /\ BoundInv /\ KindInv /\ LineInv /\ [Next]_vars => LineInv'
<1> SUFFICES ASSUME TypeInv, BoundInv, KindInv, LineInv, [Next]_vars
             PROVE  LineInv'
  OBVIOUS
<1>0. TaskTypes' /\ mixed \subseteq mixed' /\ \A u \in Tasks : LineOf(u)
  BY TasksTyped, MarksKept DEF LineInv
<1>1. ASSUME NEW t \in Tasks, TaskStep(t)
      PROVE  LineInv'
  <2>1. \A u \in Tasks : LineOf(u)'
    BY <1>0, <1>1, LineMoves
  <2>2. ASSUME NEW p \in Products \ mixed', NEW u \in WorkOn(p)', task'[u].kind # "edit", task'[u].cap.tag = "stuck"
        PROVE  caption'[p].tag = "stuck"
    <3>1. /\ Rest(t) /\ OneKind(p) /\ u \in Tasks /\ task'[u].job = p /\ p # NoProduct
          /\ \A v \in WorkOn(p) : task[v].kind # "edit" /\ task[v].cap.tag = "stuck" => caption[p].tag = "stuck"
      BY <1>0, <1>1, <2>2, OneMoves DEF KindInv, LineInv, StuckInv, WorkOn, Products, NoProduct
    <3>2. CASE /\ task'[u].cap = caption[p] /\ caption' = caption
      BY <2>2, <3>2
    <3>3. CASE u \in WorkOn(p) /\ task[u].kind # "edit" /\ task[u].cap.tag = "stuck"
      <4>1. caption[p].tag = "stuck"
        BY <3>1, <3>3
      <4>2. ASSUME caption'[p] # caption[p]
            PROVE  FALSE
        <5>1. task[t].job = p /\ task[t].pc \in {"l_id", "x_id", "e_write", "p_write"}
          BY <1>1, <4>2, CaptionMoves
        <5>2. task[t].pc \in {"l_id", "x_id"} => task[t].cap.tag = "missing"
          BY DEF TypeInv, TaskTypes, Filled
        <5>3. task[t].pc \notin {"l_id", "x_id"}
          BY <1>0, <3>1, <4>1, <5>1, <5>2 DEF LineOf
        <5>4. t \in WorkOn(p) /\ task[t].kind = "edit"
          BY <5>1, <5>3 DEF WorkOn, TypeInv, TaskTypes, Shape, EditLabels
        <5> QED
          BY <3>1, <3>3, <5>4 DEF OneKind, Publications
      <4> QED
        BY <4>1, <4>2
    <3>4. CASE u # t
      <4>1. task'[u] = task[u] /\ u \in WorkOn(p)
        BY <3>1, <3>4 DEF Rest, WorkOn
      <4> QED
        BY <2>2, <3>3, <4>1
    <3>5. CASE u = t
      <4>1. \/ task'[t].cap = task[t].cap /\ SameJob(t)
            \/ task'[t].cap = caption[task'[t].job] /\ caption' = caption
        BY <1>0, <1>1, <2>2, <3>5, CapMoves
      <4> QED
        BY <2>2, <3>1, <3>2, <3>3, <3>5, <4>1 DEF SameJob, WorkOn
    <3> QED
      BY <3>4, <3>5
  <2> QED
    BY <2>1, <2>2 DEF LineInv, StuckInv
<1>2. ASSUME WorldStep \/ Crash \/ UNCHANGED vars
      PROVE  LineInv'
  <2>1. caption' = caption /\ (task' = task \/ \A t \in Tasks : task'[t] = Free)
    BY <1>2, CrashMoves, WorldMoves DEF WorldStep, Remove, SourceDeleted, PostDeleted, rows, vars
  <2>2. CASE task' = task
    BY <1>0, <2>1, <2>2 DEF LineInv, LineOf, StuckInv, WorkOn
  <2>3. CASE \A t \in Tasks : task'[t] = Free
    BY <2>3 DEF LineInv, LineOf, StuckInv, WorkOn, Free
  <2> QED
    BY <2>1, <2>2, <2>3
<1> QED
  BY <1>1, <1>2, Steps

\* Every step keeps it so that only publications, or only edits, are at work on a product together
\* that is not marked.
LEMMA KindKept == TypeInv /\ BoundInv /\ KindInv /\ [Next]_vars => KindInv'
<1> SUFFICES ASSUME TypeInv, BoundInv, KindInv, [Next]_vars, NEW p \in Products, p \notin mixed'
             PROVE  OneKind(p)'
  BY DEF KindInv
<1>0. OneKind(p) /\ p # NoProduct
  BY MarksKept DEF KindInv, Products, NoProduct
<1>1. ASSUME NEW t \in Tasks, TaskStep(t)
      PROVE  OneKind(p)'
  <2>1. Rest(t)
    BY <1>1, OneMoves
  <2>2. CASE SameJob(t) \/ task'[t].job # p
    BY <1>0, <2>1, <2>2 DEF OneKind, WorkOn, Rest, SameJob
  <2>3. ASSUME Meet(task'[t].kind, p)
        PROVE  OneKind(p)'
    <3> DEFINE k == task'[t].kind
    <3>1. \A u \in WorkOn(p) : {task[u].kind, k} \subseteq Publications \/ {task[u].kind, k} = {"edit"}
      BY <2>3 DEF Meet
    <3>2. \A u \in WorkOn(p) : (task[u].kind \in Publications /\ k \in Publications) \/ (task[u].kind = "edit" /\ k = "edit")
      BY <3>1
    <3> HIDE DEF k
    <3>3. \A u \in WorkOn(p)' : u = t \/ (u \in WorkOn(p) /\ task'[u] = task[u])
      BY <2>1 DEF WorkOn, Rest
    <3>4. \A u \in WorkOn(p)' : u = t \/ {task'[u].kind, k} \subseteq Publications \/ {task'[u].kind, k} = {"edit"}
      BY <3>2, <3>3
    <3>5. task'[t].kind = k
      BY DEF k
    <3> QED
      BY <1>0, <3>3, <3>4, <3>5 DEF OneKind
  <2>4. CASE \E q \in Products : Start(t, q)
    <3>1. PICK q \in Products : Start(t, q)
      BY <2>4
    <3>2. Meet(task'[t].kind, q) /\ task'[t].job = q
      BY <3>1, StartMoves
    <3>3. CASE q = p
      BY <2>3, <3>2, <3>3
    <3> QED
      BY <2>2, <3>2, <3>3
  <2>5. CASE Probe(t)
    <3>1. CASE Least(task[t].batch) \in gone
      <4>1. task'[t].job = Least(task[t].batch) /\ task'[t].kind = "sweep" /\ Meet("sweep", Least(task[t].batch))
        BY <2>5, <3>1, ProbeLands DEF Probe
      <4>2. CASE Least(task[t].batch) = p
        BY <2>3, <4>1, <4>2
      <4> QED
        BY <2>2, <4>1, <4>2
    <3>2. CASE Least(task[t].batch) \notin gone
      <4>1. At(t, "w_probe") /\ NextProduct(t)
        BY <2>5, <3>2 DEF Probe
      <4>2. task'[t] = Free \/ SameJob(t)
        BY <4>1, SweepLands
      <4> QED
        BY <1>0, <2>2, <4>2 DEF Free
    <3> QED
      BY <3>1, <3>2
  <2> QED
    BY <1>0, <1>1, <2>2, <2>4, <2>5, KeepsProduct
<1>2. ASSUME WorldStep \/ Crash \/ UNCHANGED vars
      PROVE  OneKind(p)'
  <2>1. task' = task \/ \A t \in Tasks : task'[t] = Free
    BY <1>2, CrashMoves, WorldMoves DEF vars
  <2> QED
    BY <1>0, <2>1 DEF OneKind, WorkOn, Free
<1> QED
  BY <1>1, <1>2, Steps

\* Every step keeps it so that one publication at a time is in the publishing lock, with a number
\* already taken.
LEMMA LockKept == TypeInv /\ BoundInv /\ LockInv /\ [Next]_vars => LockInv'
<1> SUFFICES ASSUME TypeInv, BoundInv, LockInv, [Next]_vars
             PROVE  LockInv'
  OBVIOUS
<1>0. lastPub \in Nat
  BY DEF TypeInv, CountTypes
<1>1. ASSUME Publishing' \subseteq Publishing, \A t \in Publishing' : task'[t].pub = task[t].pub, lastPub' = lastPub
      PROVE  LockInv'
  BY <1>1 DEF LockInv
<1>2. ASSUME NEW t \in Tasks, QuietStep(t)
      PROVE  LockInv'
  <2>1. Quiet(t) /\ lastPub' = lastPub
    BY <1>2, QuietMoves
  <2> QED
    BY <1>1, <2>1 DEF Quiet, Rest, Publishing, At, SameJob
<1>3. ASSUME NEW t \in Tasks, SendingStep(t)
      PROVE  LockInv'
  <2>1. Sending(t) /\ lastPub' = lastPub
    BY <1>3, SendingMoves DEF SendingStep, PublishId, Send, Log, SendFails, ghosts
  <2> QED
    BY <1>1, <2>1 DEF Sending, Rest, Publishing, At, SameJob, Free, Publications
<1>4. ASSUME NEW t \in Tasks, StartPolish(t)
      PROVE  LockInv'
  <2>1. EnterPolish(t) /\ lastPub' = lastPub
    BY <1>4 DEF StartPolish, EnterPolish, ghosts
  <2>2. Rest(t) /\ task[t].pc = "p_wait" /\ SameJob(t) /\ SameSent(t)
    BY <2>1, PolishLands
  <2> QED
    BY <1>1, <2>1, <2>2 DEF Rest, Publishing, At, SameJob, SameSent
<1>5. ASSUME NEW t \in Tasks, Lock(t)
      PROVE  LockInv'
  <2>1. Rest(t) /\ Publishing = {} /\ task'[t].pub = lastPub + 1 /\ lastPub' = lastPub + 1
    BY <1>5, LockMoves
  <2>2. Publishing' \subseteq {t}
    BY <2>1 DEF Rest, Publishing, At
  <2> QED
    BY <1>0, <2>1, <2>2 DEF LockInv
<1>6. ASSUME NEW t \in Tasks, NEW p \in Products, Start(t, p)
      PROVE  LockInv'
  <2>1. /\ Rest(t) /\ lastPub' = lastPub
        /\ task'[t].pc = "l_wait" \/ task'[t].kind \notin Publications
    BY <1>6, StartMoves DEF Publications
  <2> QED
    BY <1>1, <2>1 DEF Rest, Publishing, At
<1>7. ASSUME WorldStep \/ UNCHANGED vars
      PROVE  LockInv'
  <2>1. task' = task /\ lastPub' = lastPub
    BY <1>7, WorldMoves DEF vars, ghosts
  <2> QED
    BY <1>1, <2>1 DEF Publishing, At
<1>8. ASSUME Crash
      PROVE  LockInv'
  <2>1. (\A t \in Tasks : task'[t] = Free) /\ lastPub' = lastPub
    BY <1>8, CrashMoves DEF ghosts
  <2> QED
    BY <1>1, <2>1 DEF Publishing, Free, Publications
<1> QED
  BY <1>2, <1>3, <1>4, <1>5, <1>6, <1>7, <1>8, Steps DEF TaskStep

\* Every step keeps it so that one polish at a time works on a product.
LEMMA PolishKept == TypeInv /\ BoundInv /\ PolishInv /\ [Next]_vars => PolishInv'
<1> SUFFICES ASSUME TypeInv, BoundInv, PolishInv, [Next]_vars
             PROVE  PolishInv'
  OBVIOUS
<1>1. ASSUME \A p \in Products : Polishing(p)' \subseteq Polishing(p)
      PROVE  PolishInv'
  BY <1>1 DEF PolishInv
<1>2. ASSUME NEW t \in Tasks, QuietStep(t)
      PROVE  PolishInv'
  <2>1. Quiet(t)
    BY <1>2, QuietMoves
  <2> QED
    BY <1>1, <2>1 DEF Quiet, Rest, Polishing, WorkOn, SameJob, BeforePolish
<1>3. ASSUME NEW t \in Tasks, SendingStep(t)
      PROVE  PolishInv'
  <2>1. Sending(t)
    BY <1>3, SendingMoves
  <2> QED
    BY <1>1, <2>1 DEF Sending, Rest, Polishing, WorkOn, SameJob, Free, Publications
<1>4. ASSUME NEW t \in Tasks, StartPolish(t)
      PROVE  PolishInv'
  <2>1. Polishing(task[t].job) = {} /\ EnterPolish(t)
    BY <1>4 DEF StartPolish
  <2>2. Rest(t) /\ SameJob(t)
    BY <2>1, PolishLands
  <2>3. \A p \in Products : Polishing(p)' \subseteq (IF p = task[t].job THEN {t} ELSE Polishing(p))
    BY <2>1, <2>2 DEF Rest, Polishing, WorkOn, SameJob
  <2> QED
    BY <2>3 DEF PolishInv
<1>5. ASSUME NEW t \in Tasks, Lock(t)
      PROVE  PolishInv'
  <2>1. Rest(t) /\ SameJob(t) /\ task[t].kind \in Publications
    BY <1>5, LockMoves
  <2> QED
    BY <1>1, <2>1 DEF Rest, Polishing, WorkOn, SameJob, Publications
<1>6. ASSUME NEW t \in Tasks, NEW p \in Products, Start(t, p)
      PROVE  PolishInv'
  <2>1. Rest(t) /\ (task'[t].kind \in Publications \cup {"toggle"} \/ task'[t].pc = "e_write")
    BY <1>6, StartMoves
  <2> QED
    BY <1>1, <2>1 DEF Rest, Polishing, WorkOn, Publications
<1>7. ASSUME WorldStep \/ UNCHANGED vars
      PROVE  PolishInv'
  <2>1. task' = task
    BY <1>7, WorldMoves DEF vars
  <2> QED
    BY <1>1, <2>1 DEF Polishing, WorkOn
<1>8. ASSUME Crash
      PROVE  PolishInv'
  <2>1. \A t \in Tasks : task'[t] = Free
    BY <1>8, CrashMoves
  <2> QED
    BY <1>1, <2>1 DEF Polishing, WorkOn, Free
<1> QED
  BY <1>2, <1>3, <1>4, <1>5, <1>6, <1>7, <1>8, Steps DEF TaskStep

\* what a sending step does to the messages
LEMMA SendingPosts ==
  ASSUME NEW t \in Tasks, SendingStep(t)
  PROVE  /\ lastPub' = lastPub
         /\ \/ product' = product
            \/ task[t].pc = "s_send" /\ product' = [product EXCEPT ![Msg(t)] = task[t].job]
         /\ \/ live' = live
            \/ task[t].pc = "s_log" /\ live' = live \cup {Msg(t)}
         /\ Send(t) => product' = [product EXCEPT ![Msg(t)] = task[t].job]
BY DEF SendingStep, PublishId, Send, Log, SendFails, Appear, At, posts, ghosts

\* Every step keeps it so that tasks hold messages of their own product, and that what a
\* publication has still to send was never sent.
LEMMA MsgKept == TypeInv /\ BoundInv /\ LockInv /\ MsgInv /\ [Next]_vars => MsgInv'
<1> SUFFICES ASSUME TypeInv, BoundInv, LockInv, MsgInv, [Next]_vars
             PROVE  MsgInv'
  OBVIOUS
<1>0. /\ lastPub \in Nat /\ product \in [Msgs -> Products \cup {NoProduct}]
      /\ \A t \in Tasks : Shape(task[t]) /\ task[t].todo \in SUBSET Msgs /\ task[t].sent \in SUBSET Msgs
      /\ NoProduct \notin Products
  BY DEF TypeInv, CountTypes, PostTypes, TaskTypes, TaskRecords, Products, NoProduct
<1>1. ASSUME NEW t \in Tasks, Rest(t), task'[t].pc # "s_log", product' = product, live' \subseteq live,
             \A n \in 1 .. MaxPubs, c \in Chats : Unsent(n, c)' => Unsent(n, c),
             \A m \in task'[t].todo \cup task'[t].sent : product[m] = task'[t].job /\ product[m] # NoProduct
      PROVE  MsgInv'
  BY <1>1 DEF MsgInv, Rest, Msg, At
<1>2. ASSUME NEW t \in Tasks, QuietStep(t)
      PROVE  MsgInv'
  <2>1. Quiet(t) /\ product' = product /\ live' \subseteq live /\ lastPub' = lastPub
    BY <1>2, QuietMoves
  <2>2. \A n \in 1 .. MaxPubs, c \in Chats : Unsent(n, c)' => Unsent(n, c)
    BY <2>1 DEF Unsent, Publishing, At, Quiet, Rest
  <2>3. \A m \in task[t].todo \cup task[t].sent : product[m] = task[t].job /\ product[m] # NoProduct
    BY DEF MsgInv
  <2>6. \A m \in task'[t].todo \cup task'[t].sent : product[m] = task'[t].job /\ product[m] # NoProduct
    <3>1. CASE task'[t].todo = {} /\ task'[t].sent = {}
      BY <3>1
    <3>2. CASE task'[t].sent = task[t].sent /\ task'[t].todo \subseteq task[t].todo
               /\ (SameJob(t) \/ task[t].job = NoProduct)
      BY <2>3, <3>2 DEF SameJob
    <3>3. CASE task'[t].sent = task[t].sent /\ task'[t].todo \subseteq LiveOf(task[t].job) /\ SameJob(t)
               /\ task[t].job # NoProduct
      BY <2>3, <3>3 DEF SameJob, LiveOf
    <3> QED
      BY <2>1, <3>1, <3>2, <3>3 DEF Quiet
  <2> QED
    BY <1>1, <2>1, <2>2, <2>6 DEF Quiet
<1>3. ASSUME NEW t \in Tasks, SendingStep(t)
      PROVE  MsgInv'
  <2>1. Sending(t)
    BY <1>3, SendingMoves
  <2>2. /\ task[t].pub \in 1 .. MaxPubs /\ task[t].chat \in Chats /\ Msg(t) \in Msgs
        /\ task[t].job \in Products /\ t \in Publishing
    BY <2>1, MsgTyped DEF Sending, Publishing, At
  <2>3. \A u \in Publishing : u = t
    BY <2>2 DEF LockInv
  <2>4. task[t].pub \in 1 .. lastPub
    BY <2>2 DEF LockInv
  <2>5. task[t].pc = "s_send" => product[Msg(t)] = NoProduct
    <3>1. task[t].pc = "s_send" => Unsent(task[t].pub, task[t].chat)
      BY <2>2 DEF Unsent, Chats
    <3> QED
      BY <2>2, <3>1 DEF MsgInv, Msg
  <2>6. \A m \in Msgs : product'[m] = product[m] \/ (m = Msg(t) /\ product[m] = NoProduct /\ product'[m] = task[t].job)
    BY <1>0, <1>3, <2>5, SendingPosts
  <2>7. \A u \in Tasks \ {t} : task[u].pc # "s_log" /\ u \notin Publishing
    BY <1>0, <2>3 DEF Shape, Publishing, PubLabels, At
  <2>8. ASSUME NEW u \in Tasks, At(u, "s_log")'
        PROVE  (product[Msg(u)] = task[u].job)'
    <3>1. u = t
      BY <2>1, <2>7, <2>8 DEF Sending, Rest, At
    <3>2. /\ task[t].pc = "s_send" /\ task'[t].chat = task[t].chat /\ task'[t].pub = task[t].pub /\ SameJob(t)
      BY <2>1, <2>8, <3>1 DEF Sending, Free, At
    <3>3. Msg(t)' = Msg(t)
      BY <3>2 DEF Msg
    <3>4. Send(t)
      <4>1. PublishId(t) => task'[t].pc = "s_send"
        BY IdLands DEF PublishId, At
      <4>2. Log(t) => task[t].pc = "s_log"
        BY DEF Log, At
      <4>3. SendFails(t) => task'[t].pc # "s_log"
        <5>1. SendFails(t) => NextTarget(t, task[t].sent) /\ task[t].sent \in SUBSET Msgs /\ task[t].pc = "s_send"
          BY <1>0 DEF SendFails, At
        <5> QED
          BY <5>1, TargetLands DEF Free
      <4> QED
        BY <1>3, <2>8, <3>1, <3>2, <4>1, <4>2, <4>3 DEF SendingStep, At
    <3>5. product' = [product EXCEPT ![Msg(t)] = task[t].job]
      BY <1>3, <3>4, SendingPosts
    <3> QED
      BY <1>0, <2>2, <3>1, <3>2, <3>3, <3>5 DEF SameJob
  <2>9. ASSUME NEW u \in Tasks, NEW m \in task'[u].todo \cup task'[u].sent
        PROVE  product'[m] = task'[u].job /\ product'[m] # NoProduct
    <3>1. CASE u # t
      <4>1. task'[u] = task[u] /\ m \in Msgs /\ product[m] = task[u].job /\ product[m] # NoProduct
        BY <1>0, <2>1, <2>9, <3>1 DEF Sending, Rest, MsgInv
      <4> QED
        BY <2>6, <4>1
    <3>2. CASE u = t /\ task'[t] = Free
      BY <2>9, <3>2 DEF Free
    <3>3. CASE u = t /\ task'[t] # Free
      <4>1. SameJob(t) /\ (m \in task[t].todo \cup task[t].sent \/ (task[t].pc = "s_log" /\ m = Msg(t)))
        BY <2>1, <2>9, <3>3 DEF Sending, SameTodo
      <4>2. m \in Msgs /\ product[m] = task[t].job /\ product[m] # NoProduct
        BY <1>0, <2>2, <4>1 DEF MsgInv, At
      <4> QED
        BY <2>6, <3>3, <4>1, <4>2 DEF SameJob
    <3> QED
      BY <3>1, <3>2, <3>3
  <2>10. ASSUME NEW n \in 1 .. MaxPubs, NEW c \in Chats, Unsent(n, c)'
         PROVE  Unsent(n, c) /\ (MsgOf(n, c) # Msg(t) \/ task[t].pc = "l_id")
    <3>1. lastPub' = lastPub
      BY <1>3, SendingPosts
    <3>2. CASE n > lastPub
      <4>1. n # task[t].pub
        BY <1>0, <2>4, <3>2
      <4> QED
        BY <2>2, <3>2, <4>1, MsgOfInjective DEF Unsent, Msg
    <3>3. CASE ~(n > lastPub)
      <4>1. PICK u \in Publishing' :
              /\ n = task'[u].pub
              /\ \/ task'[u].pc \in {"l_id", "s_send"} /\ c >= task'[u].chat
                 \/ task'[u].pc = "s_log" /\ c > task'[u].chat
        BY <2>10, <3>1, <3>3 DEF Unsent
      <4>2. u = t
        BY <2>1, <2>7, <4>1 DEF Publishing, Sending, Rest, At
      <4>3. task'[t] # Free
        BY <4>1, <4>2 DEF Free
      <4>4. task'[t].pub = task[t].pub
            /\ \/ task[t].pc = "l_id" /\ task'[t].pc = "s_send" /\ task'[t].chat = task[t].chat
               \/ task[t].pc = "s_send" /\ task'[t].pc = "s_log" /\ task'[t].chat = task[t].chat
               \/ /\ task[t].pc \in {"s_send", "s_log"}
                  /\ task'[t].pc = "s_mark" \/ (task'[t].pc = "s_send" /\ task'[t].chat = task[t].chat + 1)
        BY <2>1, <4>3 DEF Sending
      <4>5. c \in Nat /\ task[t].chat \in Nat
        BY <2>2 DEF Chats
      <4>6. \/ task[t].pc \in {"l_id", "s_send"} /\ c >= task[t].chat
            \/ task[t].pc = "s_log" /\ c > task[t].chat
        BY <4>1, <4>2, <4>4, <4>5
      <4>7. task[t].pc = "l_id" \/ c # task[t].chat
        BY <4>1, <4>2, <4>4, <4>5
      <4>8. Unsent(n, c)
        BY <2>2, <4>1, <4>2, <4>4, <4>6 DEF Unsent
      <4>9. CASE c # task[t].chat
        BY <2>2, <4>8, <4>9, MsgOfInjective DEF Msg
      <4> QED
        BY <4>7, <4>8, <4>9
    <3> QED
      BY <3>2, <3>3
  <2>11. ASSUME NEW n \in 1 .. MaxPubs, NEW c \in Chats, Unsent(n, c)'
         PROVE  product'[MsgOf(n, c)] = NoProduct /\ MsgOf(n, c) \notin live'
    <3>1. product[MsgOf(n, c)] = NoProduct /\ MsgOf(n, c) \notin live /\ MsgOf(n, c) \in Msgs
      BY <2>10, <2>11, MsgOfTyped DEF MsgInv
    <3> QED
      BY <1>3, <2>6, <2>10, <2>11, <3>1, SendingPosts
  <2> QED
    BY <2>8, <2>9, <2>11 DEF MsgInv
<1>4. ASSUME NEW t \in Tasks, StartPolish(t)
      PROVE  MsgInv'
  <2>1. EnterPolish(t) /\ product' = product /\ live' = live /\ lastPub' = lastPub
    BY <1>4 DEF StartPolish, EnterPolish, posts, ghosts
  <2>2. /\ Rest(t) /\ task[t].pc = "p_wait" /\ task'[t].pc = "p_ai"
        /\ SameJob(t) /\ SameSent(t) /\ SameTodo(t)
    BY <2>1, PolishLands
  <2>3. \A n \in 1 .. MaxPubs, c \in Chats : Unsent(n, c)' => Unsent(n, c)
    BY <2>1, <2>2 DEF Unsent, Publishing, At, Rest
  <2>4. \A m \in task'[t].todo \cup task'[t].sent : product[m] = task'[t].job /\ product[m] # NoProduct
    BY <2>2 DEF MsgInv, SameJob, SameSent, SameTodo
  <2> QED
    BY <1>1, <2>1, <2>2, <2>3, <2>4
<1>5. ASSUME NEW t \in Tasks, Lock(t)
      PROVE  MsgInv'
  <2>1. /\ Rest(t) /\ Publishing = {} /\ task'[t].pub = lastPub + 1 /\ lastPub' = lastPub + 1
        /\ task'[t].pc \in {"s_send", "l_id"} /\ SameJob(t) /\ SameTodo(t) /\ task'[t].sent = {}
        /\ product' = product /\ live' = live
    BY <1>5, LockMoves DEF posts
  <2>2. \A n \in 1 .. MaxPubs, c \in Chats : Unsent(n, c)' => Unsent(n, c)
    <3>1. Publishing' \subseteq {t}
      BY <2>1 DEF Rest, Publishing, At
    <3> QED
      BY <1>0, <2>1, <3>1 DEF Unsent
  <2>3. \A m \in task'[t].todo \cup task'[t].sent : product[m] = task'[t].job /\ product[m] # NoProduct
    BY <2>1 DEF MsgInv, SameJob, SameTodo
  <2> QED
    BY <1>1, <2>1, <2>2, <2>3
<1>6. ASSUME NEW t \in Tasks, NEW p \in Products, Start(t, p)
      PROVE  MsgInv'
  <2>1. /\ Rest(t) /\ task'[t].sent = {} /\ task'[t].todo = {}
        /\ task'[t].pc \in {"l_wait", "t_set", "e_write"}
        /\ product' = product /\ live' = live /\ lastPub' = lastPub
    BY <1>6, StartMoves DEF posts
  <2>2. \A n \in 1 .. MaxPubs, c \in Chats : Unsent(n, c)' => Unsent(n, c)
    BY <2>1 DEF Unsent, Publishing, At, Rest
  <2> QED
    BY <1>1, <2>1, <2>2
<1>7. ASSUME WorldStep \/ UNCHANGED vars
      PROVE  MsgInv'
  <2>1. task' = task /\ product' = product /\ live' = live /\ lastPub' = lastPub
    BY <1>7, WorldMoves DEF vars, posts, ghosts
  <2> QED
    BY <2>1 DEF MsgInv, Msg, At, Unsent, Publishing
<1>8. ASSUME Crash
      PROVE  MsgInv'
  <2>1. (\A t \in Tasks : task'[t] = Free) /\ product' = product /\ live' = live /\ lastPub' = lastPub
    BY <1>8, CrashMoves DEF posts, ghosts
  <2>2. \A n \in 1 .. MaxPubs, c \in Chats : Unsent(n, c)' => Unsent(n, c)
    BY <2>1 DEF Unsent, Publishing, Free, Publications
  <2> QED
    BY <2>1, <2>2 DEF MsgInv, At, Free
<1> QED
  BY <1>2, <1>3, <1>4, <1>5, <1>6, <1>7, <1>8, Steps DEF TaskStep

\* The invariants of the tasks hold when nothing was published and no task runs.
LEMMA InitTasks ==
  ASSUME Init
  PROVE  TasksInv
<1>1. \A t \in Tasks : task[t] = Free
  BY DEF Init
<1>2. live \subseteq Msgs /\ \A m \in live : \E p \in Products, c \in Chats : m = MsgOf(p, c) /\ product[m] = p
  BY InitialPosts
<1>3. TypeInv /\ BoundInv
  BY InitTyped
<1>4. KindInv /\ LineInv
  <2>1. \A p \in Products : WorkOn(p) = {}
    BY <1>1 DEF WorkOn, Free, Products, NoProduct
  <2>2. \A t \in Tasks : LineOf(t)
    BY <1>1 DEF LineOf, Free
  <2> QED
    BY <2>1, <2>2 DEF KindInv, OneKind, LineInv, StuckInv
<1>5. Publishing = {} /\ LockInv /\ PolishInv
  BY <1>1 DEF Free, Publishing, Publications, LockInv, PolishInv, Polishing, WorkOn, Products, NoProduct
<1>6. ASSUME NEW n \in 1 .. MaxPubs, NEW c \in Chats, Unsent(n, c)
      PROVE  product[MsgOf(n, c)] = NoProduct /\ MsgOf(n, c) \notin live
  <2>1. n > lastPub
    BY <1>5, <1>6 DEF Unsent
  <2>2. ASSUME MsgOf(n, c) \in live
        PROVE  FALSE
    <3>1. PICK p \in Products, d \in Chats : MsgOf(n, c) = MsgOf(p, d)
      BY <1>2, <2>2
    <3>2. p \in 1 .. MaxPubs /\ p \in 1 .. NumProducts
      BY PublishAssumption DEF Products
    <3>3. n = p
      BY <3>1, <3>2, MsgOfInjective
    <3>4. lastPub = NumProducts
      BY <2>2 DEF Init, Fresh, Posted
    <3> QED
      BY <2>1, <3>2, <3>3, <3>4, PublishAssumption
  <2>3. MsgOf(n, c) \in Msgs
    BY MsgOfTyped
  <2> QED
    BY <2>2, <2>3 DEF Init
<1>7. MsgInv
  BY <1>1, <1>6 DEF MsgInv, At, Free
<1> QED
  BY <1>3, <1>4, <1>5, <1>7 DEF TasksInv

\* what holds of the tasks and the messages, whatever fails
LEMMA TasksKept == TypeInv /\ TasksInv /\ [Next]_vars => (TypeInv /\ TasksInv)'
BY NextTyped, KindKept, LineKept, LockKept, PolishKept, MsgKept DEF TasksInv

\* In every reachable state, with faults and any mix of tasks, what tasks hold of a
\* caption agrees with the stored one, the two locks exclude, and every task holds
\* messages of its own product.
LEMMA TasksInvCorrect == Spec => [](TypeInv /\ TasksInv)
<1>1. Init => TypeInv /\ TasksInv
  BY InitTyped, InitTasks
<1> QED
  BY <1>1, TasksKept, PTL DEF Spec

\* a message that is written shows what a publication or an edit has in hand
LEMMA ViewMoves ==
  ASSUME TypeInv, TasksInv, [Next]_vars, NEW m \in Msgs, view'[m] \notin {view[m], Hidden}
  PROVE  \E t \in Tasks :
           /\ task[t].pc \in {"s_send", "x_edit"} /\ view'[m].cap = task[t].cap /\ product'[m] = task[t].job
           /\ UNCHANGED <<caption, mixed>>
<1>0. /\ view \in [Msgs -> AnyLooks \cup {Hidden}] /\ product \in [Msgs -> Products \cup {NoProduct}]
  BY DEF TypeInv, PostTypes
<1>1. ASSUME NEW t \in Tasks, Send(t) \/ SendFails(t)
      PROVE  /\ task[t].pc = "s_send" /\ view'[m].cap = task[t].cap /\ product'[m] = task[t].job
             /\ UNCHANGED <<caption, mixed>>
  <2>1. task[t].pc = "s_send" /\ (Appear(t) \/ UNCHANGED posts) /\ UNCHANGED <<caption, mixed>>
    BY <1>1 DEF Send, SendFails, At, rows, ghosts
  <2>2. /\ view' = [view EXCEPT ![Msg(t)] = [cap |-> task[t].cap, sold |-> FALSE]]
        /\ product' = [product EXCEPT ![Msg(t)] = task[t].job]
    BY <2>1 DEF Appear, posts
  <2> QED
    BY <1>0, <2>1, <2>2
<1>2. ASSUME NEW t \in Tasks, EditPost(t)
      PROVE  /\ task[t].pc = "x_edit" /\ view'[m].cap = task[t].cap /\ product'[m] = task[t].job
             /\ UNCHANGED <<caption, mixed>>
  <2>1. /\ task[t].pc = "x_edit" /\ product' = product /\ UNCHANGED <<caption, mixed>>
        /\ view' = [view EXCEPT ![Least(task[t].todo)] = [cap |-> task[t].cap, sold |-> task[t].sold]]
    BY <1>2 DEF EditPost, At, rows, ghosts
  <2>2. m = Least(task[t].todo) /\ view'[m] = [cap |-> task[t].cap, sold |-> task[t].sold]
    BY <1>0, <2>1
  <2>3. product[m] = task[t].job
    BY <2>1, <2>2, InHand DEF TasksInv, MsgInv
  <2> QED
    BY <2>1, <2>2, <2>3
<1>3. ASSUME NEW t \in Tasks, Delete(t)
      PROVE  FALSE
  BY <1>0, <1>3 DEF Delete
<1>4. ASSUME NEW t \in Tasks, NEW p \in Products, Start(t, p)
      PROVE  view' = view
  BY <1>4, StartMoves DEF posts
<1>5. ASSUME NEW t \in Tasks,
             \/ Lock(t) \/ PublishId(t) \/ Log(t) \/ MarkPosted(t) \/ ListOld(t) \/ MarkDead(t)
             \/ ShowId(t) \/ ListLive(t) \/ EditMissing(t) \/ Bury(t)
      PROVE  view' = view
  BY <1>5 DEF Lock, EnterLock, PublishId, Log, MarkPosted, ListOld, MarkDead, ShowId, ListLive, EditMissing, Bury, posts
<1>6. ASSUME NEW t \in Tasks,
             \/ SetSold(t) \/ StoreEdit(t) \/ Answer(t) \/ StartPolish(t) \/ Polished(t) \/ StorePolish(t)
             \/ Refresh(t) \/ StartSweep(t) \/ Probe(t) \/ Drop(t)
      PROVE  view' = view
  BY <1>6 DEF SetSold, StoreEdit, Answer, StartPolish, EnterPolish, Polished, StorePolish, Refresh, StartSweep,
              SweepOver, Probe, Drop, posts
<1>7. ASSUME NEW t \in Tasks, DeleteFails(t) \/ EditPostFails(t) \/ PolishFails(t) \/ ProbeFails(t) \/ TaskFails(t)
      PROVE  view' = view
  BY <1>7 DEF DeleteFails, EditPostFails, PolishFails, ProbeFails, TaskFails, posts
<1>8. ~WorldStep
  BY <1>0 DEF WorldStep, Remove, SourceDeleted, PostDeleted, posts
<1>9. ASSUME Crash \/ UNCHANGED vars PROVE view' = view
  BY <1>9 DEF Crash, vars, posts
<1>10. PICK t \in Tasks : TaskStep(t)
  BY <1>8, <1>9, Steps
<1>11. Send(t) \/ SendFails(t) \/ EditPost(t)
  BY <1>3, <1>4, <1>5, <1>6, <1>7, <1>10 DEF TaskStep, QuietStep, SendingStep, DeleteStep, ShowStep
<1> QED
  BY <1>1, <1>2, <1>11

\* README.md:44, a message that is sent or edited shows the ID line, whatever
\* was stored before and whatever fails: a caption without it is completed
\* first.  Only without a stored sales pitch it cannot be (post_id.py:28), and
\* then the product's own caption has none either, unless it was edited while
\* another task had the old caption in hand.
THEOREM IdCorrect == Spec => ShownWithItsId
<1>1. TypeInv /\ TasksInv /\ [Next]_vars =>
        [\A m \in Msgs : view'[m] \notin {view[m], Hidden} /\ view'[m].cap.tag # "shown" =>
           /\ view'[m].cap.tag = "stuck"
           /\ product'[m] \in mixed' \/ caption'[product'[m]].tag = "stuck"]_vars
  <2> SUFFICES ASSUME TypeInv, TasksInv, [Next]_vars, NEW m \in Msgs, view'[m] \notin {view[m], Hidden},
                      view'[m].cap.tag # "shown"
               PROVE  /\ view'[m].cap.tag = "stuck"
                      /\ product'[m] \in mixed' \/ caption'[product'[m]].tag = "stuck"
    OBVIOUS
  <2>1. PICK t \in Tasks :
           /\ task[t].pc \in {"s_send", "x_edit"} /\ view'[m].cap = task[t].cap /\ product'[m] = task[t].job
           /\ UNCHANGED <<caption, mixed>>
    BY ViewMoves
  <2>2. /\ task[t].cap \in AnyCaptions /\ task[t].cap.tag # "missing" /\ task[t].job \in Products /\ t \in WorkOn(task[t].job)
        /\ task[t].pc = "x_edit" => task[t].pc \in ShowLabels
        /\ task[t].pc = "s_send" => task[t].kind \in Publications
    BY <2>1, InHand DEF TypeInv, TaskTypes, Filled, Shape, PubLabels, ShowLabels, WorkOn
  <2>3. task[t].cap.tag = "stuck"
    BY <2>1, <2>2 DEF AnyCaptions, Lines
  <2>4. task[t].kind # "edit"
    BY <2>1, <2>2, <2>3 DEF TasksInv, LineInv, LineOf, Publications
  <2>5. task[t].job \in mixed \/ caption[task[t].job].tag = "stuck"
    BY <2>2, <2>3, <2>4 DEF TasksInv, LineInv, StuckInv
  <2> QED
    BY <2>1, <2>3, <2>5
<1> QED
  BY <1>1, TasksInvCorrect, PTL DEF Spec, ShownWithItsId

-----------------------------------------------------------------------------
(* What a product nobody worked on looks like after a step of another one *)

\* nothing of p changes
Aside(p) ==
  /\ \A u \in Tasks : (task'[u].job = p <=> task[u].job = p) /\ (task[u].job = p => task'[u] = task[u])
  /\ status'[p] = status[p] /\ data'[p] = data[p] /\ caption'[p] = caption[p]
  /\ \A m \in Msgs : product'[m] = p <=> product[m] = p
  /\ \A m \in Msgs : product[m] = p => view'[m] = view[m] /\ (m \in live' <=> m \in live)
  /\ p \in dropped' <=> p \in dropped

\* What is known of a product survives a step that touches neither the product, nor its posts, nor
\* the tasks that work on it.
LEMMA AsideKeeps ==
  ASSUME TypeInv, TasksInv, TypeInv', NEW p \in Products, ProductInv(p), Aside(p)
  PROVE  ProductInv(p)'
<1>1. /\ WorkOn(p)' = WorkOn(p) /\ LiveOf(p)' = LiveOf(p)
      /\ \A u \in WorkOn(p) : task'[u] = task[u]
  BY DEF Aside, WorkOn, LiveOf, TypeInv, PostTypes
<1>2. \A u \in WorkOn(p) : Msg(u)' = Msg(u) /\ (At(u, "s_log") => product[Msg(u)] = p /\ Msg(u) \in Msgs)
  BY <1>1, MsgTyped DEF Msg, TasksInv, MsgInv, WorkOn, At
<1>3. \A m \in Msgs : product[m] = p => Matches(m, p)' = Matches(m, p)
  BY DEF Aside, Matches
<1>4. Ahead(p)' = Ahead(p)
  BY <1>1 DEF Ahead
<1>5. \A m \in Msgs : Half(m, p)' = Half(m, p)
  BY <1>1, <1>2 DEF Half, At
<1>6. TextInv(p)'
  <2>1. OneKind(p)'
    BY <1>1 DEF ProductInv, TextInv, OneKind
  <2>2. \A u \in WorkOn(p)' : Knows(u, p)'
    <3>1. \A u \in WorkOn(p) : Knows(u, p)
      BY DEF ProductInv, TextInv
    <3> QED
      BY <1>1, <1>4, <3>1 DEF Knows, Aside
  <2>3. CaptionInv(p)'
    BY <1>1, <1>4 DEF ProductInv, TextInv, CaptionInv, Aside
  <2> QED
    BY <2>1, <2>2, <2>3 DEF TextInv
<1>7. LiveOf(p) \subseteq Msgs /\ \A m \in LiveOf(p) : product[m] = p
  BY DEF LiveOf, TypeInv, PostTypes
<1>8. ShowInv(p)'
  BY <1>1, <1>2, <1>3, <1>4, <1>5, <1>7 DEF ProductInv, ShowInv, Aside, At
<1>9. SeenInv(p)'
  <2>1. \A u \in WorkOn(p) : At(u, "d_dead") => product[Least(task[u].todo)] = p /\ Least(task[u].todo) \in Msgs
    BY InHand DEF WorkOn, At, TasksInv, MsgInv
  <2> QED
    BY <1>1, <1>2, <1>5, <2>1 DEF ProductInv, SeenInv, Aside, At
<1>10. SentInv(p)'
  <2>1. \A u \in WorkOn(p) : \A m \in task[u].sent : m \in Msgs /\ product[m] = p
    BY DEF WorkOn, TasksInv, MsgInv, TypeInv, TaskTypes, TaskRecords
  <2>2. \A u \in WorkOn(p) : task[u].sent \subseteq live => task'[u].sent \subseteq live'
    BY <1>1, <2>1 DEF Aside
  <2> QED
    BY <1>1, <2>2 DEF ProductInv, SentInv, PostsOf
<1>11. QuietInv(p)'
  BY <1>1 DEF ProductInv, QuietInv, PostsOf, Aside
<1> QED
  BY <1>6, <1>8, <1>9, <1>10, <1>11 DEF ProductInv

\* a task changes the row and the posts of no product but its own
Confined(t) ==
  /\ \A q \in Products \ {task[t].job} :
       /\ status'[q] = status[q] /\ data'[q] = data[q] /\ caption'[q] = caption[q]
       /\ q \in dropped' <=> q \in dropped
  /\ \A m \in Msgs : product'[m] = product[m] \/ (product[m] = NoProduct /\ product'[m] = task[t].job)
  /\ \A m \in Msgs : product[m] \notin {NoProduct, task[t].job} => view'[m] = view[m] /\ (m \in live' <=> m \in live)

\* A step of a task that does not fail touches its own product only: no other row, and no post of
\* another product.
LEMMA ConfinedMoves ==
  ASSUME TypeInv, TasksInv, NEW t \in Tasks, TaskStep(t), faults' = 0
  PROVE  Confined(t)
<1>0. RowTypes /\ PostTypes /\ faults \in Nat
  BY DEF TypeInv, CountTypes
<1>1. ASSUME UNCHANGED <<rows, posts, dropped>>
      PROVE  Confined(t)
  BY <1>1 DEF Confined, rows, posts
<1>2. ASSUME Fault PROVE FALSE
  BY <1>0, <1>2 DEF Fault
<1>3. ASSUME NEW p \in Products, Start(t, p)
      PROVE  Confined(t)
  BY <1>1, <1>3, StartMoves
<1>4. ASSUME PublishId(t) \/ ShowId(t) \/ StorePolish(t)
      PROVE  Confined(t)
  <2>1. caption' = [caption EXCEPT ![task[t].job] = Rebuilt(t)] /\ UNCHANGED <<status, data, posts, dropped>>
    BY <1>4 DEF PublishId, ShowId, StorePolish, EnsureId, ghosts
  <2> QED
    BY <1>0, <2>1 DEF Confined, RowTypes, posts
<1>5. ASSUME Send(t)
      PROVE  Confined(t)
  <2>1. /\ task[t].pc = "s_send" /\ product' = [product EXCEPT ![Msg(t)] = task[t].job]
        /\ view' = [view EXCEPT ![Msg(t)] = [cap |-> task[t].cap, sold |-> FALSE]]
        /\ live' = live /\ dropped' = dropped \ {task[t].job} /\ UNCHANGED rows
    BY <1>5 DEF Send, Appear, At
  <2>2. Unsent(task[t].pub, task[t].chat) /\ task[t].pub \in 1 .. MaxPubs /\ task[t].chat \in Chats /\ Msg(t) \in Msgs
    BY <2>1, MsgTyped DEF Unsent, Publishing, At, Chats
  <2>3. product[Msg(t)] = NoProduct
    BY <2>2 DEF TasksInv, MsgInv, Msg
  <2> QED
    BY <1>0, <2>1, <2>2, <2>3 DEF Confined, PostTypes, rows
<1>6. ASSUME Log(t)
      PROVE  Confined(t)
  <2>1. /\ At(t, "s_log") /\ live' = live \cup {Msg(t)} /\ UNCHANGED <<rows, product, view, dropped>>
    BY <1>6 DEF Log, ghosts
  <2>2. product[Msg(t)] = task[t].job
    BY <2>1 DEF TasksInv, MsgInv
  <2> QED
    BY <2>1, <2>2 DEF Confined, rows
<1>7. ASSUME ListOld(t) \/ MarkDead(t) \/ Bury(t)
      PROVE  Confined(t)
  <2>1. dropped' = dropped \/ dropped' = dropped \cup {task[t].job}
    BY <1>7 DEF ListOld, MarkDead, Bury, DeleteNext, AfterDeleting, ghosts
  <2>2. /\ UNCHANGED <<rows, product, view>>
        /\ \/ live' = live
           \/ task[t].pc \in {"d_dead", "x_dead"} /\ live' = live \ {Least(task[t].todo)}
    BY <1>7 DEF ListOld, MarkDead, Bury, posts, At
  <2>3. task[t].pc \in {"d_dead", "x_dead"} => product[Least(task[t].todo)] = task[t].job
    BY InHand DEF TasksInv, MsgInv
  <2> QED
    BY <2>1, <2>2, <2>3 DEF Confined, rows
<1>8. ASSUME Delete(t) \/ EditPost(t)
      PROVE  Confined(t)
  <2>1. /\ \E x : view' = [view EXCEPT ![Least(task[t].todo)] = x]
        /\ task[t].pc \in {"d_del", "x_edit"} /\ UNCHANGED <<rows, product, live, dropped>>
    BY <1>8 DEF Delete, EditPost, At, ghosts
  <2>2. product[Least(task[t].todo)] = task[t].job
    BY <2>1, InHand DEF TasksInv, MsgInv
  <2> QED
    BY <1>0, <2>1, <2>2 DEF Confined, rows, PostTypes
<1>9. ASSUME SetSold(t) \/ Drop(t)
      PROVE  Confined(t)
  <2>1. \E x : status' = [status EXCEPT ![task[t].job] = x]
    BY <1>9 DEF SetSold, Drop
  <2>2. UNCHANGED <<data, caption, posts, dropped>>
    BY <1>9 DEF SetSold, Drop, ghosts
  <2> QED
    BY <1>0, <2>1, <2>2 DEF Confined, RowTypes, posts
<1>10. ASSUME StoreEdit(t)
       PROVE  Confined(t)
  <2>1. /\ \E x : data' = [data EXCEPT ![task[t].job] = x]
        /\ \E x : caption' = [caption EXCEPT ![task[t].job] = x]
        /\ UNCHANGED <<status, posts, dropped>>
    BY <1>10 DEF StoreEdit
  <2> QED
    BY <1>0, <2>1 DEF Confined, RowTypes, posts
<1>11. ASSUME \/ Lock(t) \/ MarkPosted(t) \/ ListLive(t) \/ EditMissing(t) \/ Answer(t) \/ StartPolish(t)
              \/ Polished(t) \/ PolishFails(t) \/ Refresh(t) \/ StartSweep(t) \/ Probe(t)
       PROVE  Confined(t)
  <2>1. UNCHANGED <<rows, posts, dropped>>
    BY <1>11 DEF Lock, EnterLock, MarkPosted, ListLive, EditMissing, Answer, StartPolish, EnterPolish, Polished,
                 PolishFails, Refresh, StartSweep, SweepOver, Probe, ghosts
  <2> QED
    BY <1>1, <2>1
<1>12. ~(SendFails(t) \/ DeleteFails(t) \/ EditPostFails(t) \/ ProbeFails(t) \/ TaskFails(t))
  BY <1>2 DEF SendFails, DeleteFails, EditPostFails, ProbeFails, TaskFails
<1> QED
  BY <1>3, <1>4, <1>5, <1>6, <1>7, <1>8, <1>9, <1>10, <1>11, <1>12
     DEF TaskStep, QuietStep, SendingStep, DeleteStep, ShowStep

\* What is known of a product survives a step of a task that works on another product.
LEMMA AsideMoves ==
  ASSUME TypeInv, TasksInv, TypeInv', NEW t \in Tasks, TaskStep(t), faults' = 0, NEW p \in Products,
         task[t].job # p, task'[t].job # p, ProductInv(p)
  PROVE  ProductInv(p)'
<1>1. Confined(t) /\ Rest(t)
  BY ConfinedMoves, OneMoves DEF TasksInv
<1>2. p # NoProduct
  BY DEF Products, NoProduct
<1>3. Aside(p)
  BY <1>1, <1>2 DEF Confined, Rest, Aside
<1> QED
  BY <1>3, AsideKeeps

-----------------------------------------------------------------------------
(* Its own tasks: what they have read and what is stored *)

\* who else works on the product of a task, and how far they are
LEMMA Company ==
  ASSUME TypeInv, TasksInv, NEW p \in Products, OneKind(p), NEW t \in WorkOn(p)
  PROVE  /\ task[t].kind \in Publications => \A u \in WorkOn(p) : task[u].kind \in Publications
         /\ task[t].kind \in Publications /\ task[t].pc # "l_wait" =>
              \A u \in WorkOn(p) \ {t} : task[u].pc = "l_wait"
         /\ task[t].kind = "edit" => \A u \in WorkOn(p) : task[u].kind = "edit"
         /\ task[t].kind = "edit" /\ task[t].pc \notin BeforePolish =>
              \A u \in WorkOn(p) \ {t} : task[u].pc \in BeforePolish
         /\ task[t].kind \in {"toggle", "sweep"} => WorkOn(p) = {t}
         /\ t \in Tasks /\ task[t].job = p /\ Shape(task[t]) /\ task[t].kind # "none"
<1>1. t \in Tasks /\ task[t].job = p /\ p # NoProduct
  BY DEF WorkOn, Products, NoProduct
<1>2. \A u \in Tasks : Shape(task[u]) /\ task[u].kind \in Kinds /\ task[u].pc \in Labels
  BY DEF TypeInv, TaskTypes, TaskRecords
<1>3. task[t].kind # "none"
  BY <1>1, <1>2 DEF Shape, Labels, Publications
<1>4. \A u \in WorkOn(p) : t = u \/ (task[t].kind \in Publications /\ task[u].kind \in Publications)
                          \/ (task[t].kind = "edit" /\ task[u].kind = "edit")
  BY DEF OneKind
<1>5. task[t].kind \in Publications => task[t].kind \notin {"edit", "toggle", "sweep"}
  BY DEF Publications
<1>6. ASSUME task[t].kind \in Publications, task[t].pc # "l_wait", NEW u \in WorkOn(p) \ {t}
      PROVE  task[u].pc = "l_wait"
  <2>1. task[u].kind \in Publications /\ u \in Tasks
    BY <1>4, <1>5, <1>6 DEF WorkOn
  <2> QED
    BY <1>1, <1>6, <2>1 DEF TasksInv, LockInv, Publishing, At
<1>7. ASSUME task[t].kind = "edit", task[t].pc \notin BeforePolish, NEW u \in WorkOn(p) \ {t}
      PROVE  task[u].pc \in BeforePolish
  <2>1. task[u].kind = "edit" /\ u \in Tasks
    BY <1>4, <1>5, <1>7 DEF WorkOn
  <2>2. t \in Polishing(p)
    BY <1>7 DEF Polishing, BeforePolish
  <2> QED
    BY <1>7, <2>1, <2>2 DEF TasksInv, PolishInv, Polishing, BeforePolish
<1> QED
  BY <1>1, <1>2, <1>3, <1>4, <1>5, <1>6, <1>7

\* a step on the way, with the texts and the product as they were
LEMMA TextKept ==
  ASSUME TypeInv, NEW p \in Products, TextInv(p), NEW t \in WorkOn(p), Rest(t),
         status'[p] = status[p], data'[p] = data[p], caption'[p] = caption[p],
         \/ task'[t].job # p /\ task[t].pc \notin {"e_answer", "p_wait", "p_ai", "p_write"}
         \/ /\ SameJob(t) /\ SameText(t)
            /\ task'[t].pc \in PubLabels => task[t].pc \in PubLabels
            /\ task'[t].pc # "t_set"
            /\ task'[t].pc \in {"p_ai", "p_write"} <=> task[t].pc \in {"p_ai", "p_write"}
            /\ task'[t].pc \in ShowLabels => task[t].pc \in ShowLabels
            /\ task'[t].pc \in {"e_answer", "p_wait"} <=> task[t].pc \in {"e_answer", "p_wait"}
  PROVE  TextInv(p)'
<1>1. /\ WorkOn(p)' \subseteq WorkOn(p) /\ t \in Tasks /\ task[t].job = p
      /\ \A u \in WorkOn(p) \ {t} : u \in WorkOn(p)' /\ task'[u] = task[u]
      /\ t \in WorkOn(p)' =>
           /\ SameJob(t) /\ SameText(t)
           /\ task'[t].pc \in {"e_answer", "p_wait"} <=> task[t].pc \in {"e_answer", "p_wait"}
      /\ t \notin WorkOn(p)' => task[t].pc \notin {"e_answer", "p_wait", "p_ai", "p_write"}
  BY DEF WorkOn, Rest, SameJob
<1>2. Ahead(p)' <=> Ahead(p)
  BY <1>1 DEF Ahead
<1>3. OneKind(p)'
  BY <1>1 DEF TextInv, OneKind, SameJob
<1>4. ASSUME NEW u \in WorkOn(p)'
      PROVE  Knows(u, p)'
  <2>1. Knows(u, p)
    BY <1>1, <1>4 DEF TextInv
  <2>2. CASE u # t
    BY <1>1, <1>2, <1>4, <2>1, <2>2 DEF Knows
  <2>3. CASE u = t
    BY <1>1, <1>2, <1>4, <2>1, <2>3 DEF Knows, SameJob, SameText, WorkOn
  <2> QED
    BY <2>2, <2>3
<1>5. CaptionInv(p)'
  <2>1. (\A u \in WorkOn(p)' : task'[u].pc \notin {"p_ai", "p_write"}) =>
          \A u \in WorkOn(p) : task[u].pc \notin {"p_ai", "p_write"}
    BY <1>1 DEF WorkOn
  <2> QED
    BY <1>2, <2>1 DEF TextInv, CaptionInv
<1> QED
  BY <1>3, <1>4, <1>5 DEF TextInv

\* the publications of a product know its row
LEMMA PublicationKnows ==
  ASSUME TypeInv, TasksInv, NEW p \in Products, TextInv(p),
         \A u \in WorkOn(p) : task[u].kind \in Publications
  PROVE  ~Ahead(p) /\ caption[p].text = data[p] /\ \A u \in WorkOn(p) : task[u].pc \notin EditLabels \cup ShowLabels
<1>1. \A u \in WorkOn(p) : Shape(task[u]) /\ task[u].kind \notin {"edit", "toggle"}
  BY DEF TypeInv, TaskTypes, WorkOn, Publications
<1>2. \A u \in WorkOn(p) : task[u].pc \notin EditLabels \cup ShowLabels
  BY <1>1 DEF Shape
<1>3. ~Ahead(p)
  BY <1>2 DEF Ahead, EditLabels
<1> QED
  BY <1>2, <1>3 DEF TextInv, CaptionInv, EditLabels

\* A handler that starts on a product knows the product's text as it is stored.
LEMMA TextOfStart ==
  ASSUME TypeInv, TasksInv, NEW p \in Products, TextInv(p), NEW t \in Tasks, Start(t, p), p \notin mixed'
  PROVE  TextInv(p)'
<1>1. /\ Rest(t) /\ task[t] = Free
      /\ task'[t].job = p /\ task'[t].base = data[p] /\ task'[t].cap = caption[p]
      /\ Meet(task'[t].kind, p)
      /\ \/ task'[t].kind \in Publications /\ task'[t].pc = "l_wait" /\ status[p] = "active"
         \/ task'[t].kind = "toggle" /\ task'[t].pc = "t_set"
         \/ task'[t].kind = "edit" /\ task'[t].pc = "e_write"
      /\ UNCHANGED <<rows, posts, gone, lastPub, edits, dropped, faults>>
  BY StartMoves
<1>2. \A u \in WorkOn(p) : {task[u].kind, task'[t].kind} \subseteq Publications \/ {task[u].kind, task'[t].kind} = {"edit"}
  BY <1>1 DEF Meet
<1>3. /\ WorkOn(p)' = WorkOn(p) \cup {t} /\ t \notin WorkOn(p)
      /\ \A u \in WorkOn(p) : task'[u] = task[u]
  BY <1>1 DEF WorkOn, Rest, Free, Products, NoProduct
<1>4. status' = status /\ data' = data /\ caption' = caption
  BY <1>1 DEF rows
<1>5. Ahead(p)' <=> Ahead(p)
  <2>1. task'[t].pc \notin {"e_answer", "p_wait"}
    BY <1>1
  <2> QED
    BY <1>3, <2>1 DEF Ahead
<1>6. OneKind(p)'
  <2>1. Next
    BY DEF Next
  <2> QED
    BY <2>1, KindKept DEF TasksInv, KindInv
<1>7. ASSUME NEW u \in WorkOn(p)
      PROVE  Knows(u, p)'
  <2>1. Knows(u, p)
    BY DEF TextInv
  <2> QED
    BY <1>3, <1>4, <1>5, <2>1 DEF Knows
<1>8. Knows(t, p)'
  <2>1. CASE task'[t].kind \in Publications
    <3>1. \A u \in WorkOn(p) : task[u].kind \in Publications
      BY <1>2, <2>1 DEF Publications
    <3>2. caption[p].text = data[p]
      BY <3>1, PublicationKnows
    <3> QED
      BY <1>1, <1>4, <2>1, <3>2 DEF Knows, Publications, ShowLabels
  <2>2. CASE task'[t].kind = "toggle"
    <3>1. WorkOn(p) = {}
      BY <1>2, <2>2 DEF Publications
    <3>2. caption[p].text = data[p]
      BY <3>1 DEF TextInv, CaptionInv, Ahead
    <3> QED
      BY <1>1, <1>4, <2>2, <3>2 DEF Knows, Publications, ShowLabels
  <2>3. CASE task'[t].kind = "edit"
    BY <1>1, <2>3 DEF Knows, Publications, ShowLabels
  <2> QED
    BY <1>1, <2>1, <2>2, <2>3
<1>9. CaptionInv(p)'
  BY <1>1, <1>3, <1>4, <1>5 DEF TextInv, CaptionInv
<1> QED
  BY <1>3, <1>6, <1>7, <1>8, <1>9 DEF TextInv

\* the caption is built anew from what the task has read
LEMMA TextOfCaption ==
  ASSUME TypeInv, TasksInv, NEW p \in Products, TextInv(p), NEW t \in WorkOn(p),
         PublishId(t) \/ ShowId(t) \/ StorePolish(t)
  PROVE  TextInv(p)'
<1>1. t \in Tasks /\ task[t].job = p /\ Shape(task[t]) /\ task[t].base \in AnyTexts
  BY InHand DEF WorkOn, TypeInv, TaskTypes
<1>2. /\ caption' = [caption EXCEPT ![p] = Rebuilt(t)] /\ status' = status /\ data' = data
      /\ task[t].pc \in {"l_id", "x_id", "p_write"}
  BY <1>1 DEF PublishId, ShowId, StorePolish, EnsureId, At
<1>3. caption'[p].text = task[t].base
  BY <1>2 DEF Rebuilt, TypeInv, RowTypes
<1>4. /\ Rest(t) /\ SameJob(t) /\ task'[t].base = task[t].base /\ task'[t].sold = task[t].sold
      /\ \/ task[t].pc = "l_id" /\ task'[t].pc = "s_send" /\ task'[t].cap = Rebuilt(t)
         \/ task[t].pc = "x_id" /\ task'[t].pc = "x_list" /\ task'[t].cap = Rebuilt(t)
         \/ task[t].pc = "p_write" /\ task'[t].pc = "f_read"
  <2>1. CASE PublishId(t)
    BY <1>1, <2>1, IdLands DEF PublishId, At
  <2>2. CASE ShowId(t)
    BY <1>1, <2>2, IdLands DEF ShowId, At
  <2>3. CASE StorePolish(t)
    BY <1>1, <2>3, GotoLands DEF StorePolish, At, Ways, SameText
  <2> QED
    BY <2>1, <2>2, <2>3
<1>5. /\ WorkOn(p)' = WorkOn(p)
      /\ \A u \in WorkOn(p) \ {t} : task'[u] = task[u]
  BY <1>1, <1>4 DEF WorkOn, Rest, SameJob
<1>6. Ahead(p)' <=> Ahead(p)
  BY <1>4, <1>5 DEF Ahead
<1>7. Knows(t, p)
  BY DEF TextInv
<1>8. ~Ahead(p) => task[t].base = data[p]
  BY <1>1, <1>2, <1>7 DEF Knows, Shape, PubLabels, ShowLabels
<1>9. Rebuilt(t).text = task[t].base
  BY DEF Rebuilt
<1>10. OneKind(p)'
  BY <1>4, <1>5 DEF TextInv, OneKind, SameJob
<1>11. ASSUME NEW u \in WorkOn(p) \ {t}
       PROVE  Knows(u, p)'
  <2>1. Knows(u, p)
    BY DEF TextInv
  <2> QED
    BY <1>2, <1>5, <1>6, <2>1 DEF Knows
<1>12. Knows(t, p)'
  <2>1. CASE task[t].pc = "l_id"
    BY <1>1, <1>2, <1>4, <1>7, <1>9, <2>1 DEF Knows, SameJob, Shape, PubLabels, ShowLabels
  <2>2. CASE task[t].pc = "x_id"
    <3>1. task[t].kind \notin Publications
      BY <1>1, <2>2 DEF Shape, ShowLabels, Publications
    <3> QED
      BY <1>2, <1>4, <1>6, <1>7, <1>8, <1>9, <2>2, <3>1 DEF Knows, SameJob, ShowLabels
  <2>3. CASE task[t].pc = "p_write"
    <3>1. task[t].kind \notin Publications
      BY <1>1, <2>3 DEF Shape, EditLabels, Publications
    <3> QED
      BY <1>4, <2>3, <3>1 DEF Knows, SameJob, ShowLabels
  <2> QED
    BY <1>2, <2>1, <2>2, <2>3
<1>13. CaptionInv(p)'
  BY <1>2, <1>3, <1>6, <1>8 DEF CaptionInv
<1> QED
  BY <1>5, <1>10, <1>11, <1>12, <1>13 DEF TextInv

\* The store of an edited text, and the polish that follows it, leave every task on the product
\* with what is stored.
LEMMA TextOfEdit ==
  ASSUME TypeInv, TasksInv, NEW p \in Products, TextInv(p), NEW t \in WorkOn(p),
         StoreEdit(t) \/ StartPolish(t)
  PROVE  TextInv(p)'
<1>1. /\ t \in Tasks /\ task[t].job = p /\ Shape(task[t]) /\ OneKind(p)
      /\ task[t].pc \in {"e_write", "p_wait"}
  BY DEF WorkOn, TypeInv, TaskTypes, TextInv, StoreEdit, StartPolish, EnterPolish, At
<1>2. task[t].kind = "edit" /\ \A u \in WorkOn(p) : task[u].kind = "edit"
  <2>1. task[t].kind = "edit"
    BY <1>1 DEF Shape, EditLabels
  <2> QED
    BY <1>1, <2>1, Company
<1>3. /\ Rest(t) /\ SameJob(t) /\ status' = status
      /\ \/ StoreEdit(t) /\ task'[t].pc = "e_answer"
         \/ StartPolish(t) /\ task'[t].pc = "p_ai" /\ task'[t].base = data[p] /\ data' = data
  <2>1. CASE StoreEdit(t)
    <3>1. task[t].pc = "e_write" /\ Goto(t, "e_answer") /\ status' = status
      BY <2>1 DEF StoreEdit, At
    <3>2. Rest(t) /\ SameJob(t) /\ task'[t].pc = "e_answer"
      BY <1>1, <3>1, GotoLands DEF Ways
    <3> QED
      BY <2>1, <3>1, <3>2
  <2>2. CASE StartPolish(t)
    BY <1>1, <2>2, PolishLands DEF StartPolish, EnterPolish, rows
  <2> QED
    BY <2>1, <2>2
<1>4. /\ WorkOn(p)' = WorkOn(p)
      /\ \A u \in WorkOn(p) \ {t} : task'[u] = task[u]
      /\ \A u \in WorkOn(p) : task'[u].kind = "edit" /\ task'[u].pc # "t_set"
  <2>1. WorkOn(p)' = WorkOn(p) /\ \A u \in WorkOn(p) \ {t} : task'[u] = task[u]
    BY <1>1, <1>3 DEF WorkOn, Rest, SameJob
  <2>2. \A u \in WorkOn(p) : task[u].pc # "t_set"
    BY <1>2 DEF WorkOn, TypeInv, TaskTypes, Shape
  <2> QED
    BY <1>2, <1>3, <2>1, <2>2 DEF SameJob
<1>5. OneKind(p)'
  BY <1>4 DEF OneKind
<1>6. CASE StoreEdit(t)
  <2>1. Ahead(p)'
    BY <1>3, <1>4, <1>6 DEF Ahead, StartPolish, EnterPolish, StoreEdit, At
  <2> QED
    BY <1>4, <1>5, <2>1 DEF TextInv, Knows, CaptionInv, Publications
<1>7. CASE StartPolish(t)
  <2>1. task'[t].pc = "p_ai" /\ task'[t].base = data[p] /\ data' = data
    BY <1>3, <1>7 DEF StartPolish, EnterPolish, StoreEdit, At
  <2>2. \A u \in WorkOn(p) \ {t} : task'[u].pc \in BeforePolish
    BY <1>1, <1>2, <1>4, <1>7 DEF StartPolish, Polishing, BeforePolish
  <2>3. ~CaptionInv(p)' => FALSE
    BY <1>4, <2>1 DEF CaptionInv
  <2>4. \A u \in WorkOn(p) : Knows(u, p)'
    BY <1>4, <2>1, <2>2 DEF Knows, Publications, BeforePolish, ShowLabels
  <2> QED
    BY <1>4, <1>5, <2>3, <2>4 DEF TextInv
<1> QED
  BY <1>6, <1>7

\* The read before the posts are shown anew brings the task back in agreement with the row.
LEMMA TextOfRefresh ==
  ASSUME TypeInv, TasksInv, NEW p \in Products, TextInv(p), NEW t \in WorkOn(p), Refresh(t)
  PROVE  TextInv(p)'
<1>1. /\ t \in Tasks /\ task[t].job = p /\ Shape(task[t]) /\ OneKind(p) /\ p # NoProduct
      /\ task[t].pc = "f_read"
  BY DEF WorkOn, TypeInv, TaskTypes, TextInv, Refresh, At, Products, NoProduct
<1>2. status' = status /\ data' = data /\ caption' = caption
  BY DEF Refresh, rows
<1>3. /\ Rest(t)
      /\ \/ task'[t] = Free
         \/ /\ task'[t].pc \in {"x_list", "x_id"}
            /\ task'[t].base = data[p] /\ task'[t].cap = caption[p]
            /\ (task'[t].sold <=> status[p] = "sold")
            /\ SameJob(t)
  BY <1>1, RefreshLands
<1>4. CASE task'[t] = Free
  <2>1. task'[t].job # p
    BY <1>1, <1>4 DEF Free
  <2> QED
    BY <1>1, <1>2, <1>3, <2>1, TextKept
<1>5. CASE /\ task'[t].pc \in {"x_list", "x_id"}
           /\ task'[t].base = data[p] /\ task'[t].cap = caption[p]
           /\ (task'[t].sold <=> status[p] = "sold")
           /\ SameJob(t)
  <2>1. /\ WorkOn(p)' = WorkOn(p)
        /\ \A u \in WorkOn(p) \ {t} : task'[u] = task[u]
    BY <1>1, <1>3, <1>5 DEF WorkOn, Rest, SameJob
  <2>2. task[t].kind = "edit"
    BY <1>1 DEF Shape, EditLabels
  <2>3. \A u \in WorkOn(p) \ {t} : task[u].pc \in BeforePolish
    BY <1>1, <2>2, Company DEF BeforePolish
  <2>4. Ahead(p)' <=> Ahead(p)
    BY <1>1, <1>5, <2>1 DEF Ahead
  <2>5. ~Ahead(p) => caption[p].text = data[p]
    BY <1>1, <2>3 DEF TextInv, CaptionInv, BeforePolish
  <2>6. OneKind(p)'
    BY <1>5, <2>1 DEF TextInv, OneKind, SameJob
  <2>7. ASSUME NEW u \in WorkOn(p) \ {t}
        PROVE  Knows(u, p)'
    <3>1. Knows(u, p)
      BY DEF TextInv
    <3> QED
      BY <1>2, <2>1, <2>4, <3>1 DEF Knows
  <2>8. Knows(t, p)'
    BY <1>2, <1>5, <2>2, <2>4, <2>5 DEF Knows, SameJob, Publications
  <2>9. CaptionInv(p)'
    BY <1>2, <2>4, <2>5 DEF CaptionInv
  <2> QED
    BY <2>1, <2>6, <2>7, <2>8, <2>9 DEF TextInv
<1> QED
  BY <1>3, <1>4, <1>5

\* alone with the product: the switch, the sweep, the removal
LEMMA TextOfStatus ==
  ASSUME TypeInv, TasksInv, NEW p \in Products, TextInv(p), NEW t \in WorkOn(p), SetSold(t) \/ Drop(t)
  PROVE  TextInv(p)'
<1>1. /\ t \in Tasks /\ task[t].job = p /\ Shape(task[t]) /\ OneKind(p) /\ Knows(t, p)
      /\ task[t].pc \in {"t_set", "w_drop"}
  BY DEF WorkOn, TypeInv, TaskTypes, TextInv, SetSold, Drop, At
<1>2. task[t].kind \in {"toggle", "sweep"} /\ task[t].kind \notin Publications
  BY <1>1 DEF Shape, Publications
<1>3. WorkOn(p) = {t}
  BY <1>1, <1>2, Company
<1>4. data' = data /\ caption' = caption /\ caption[p].text = data[p]
  <2>1. ~Ahead(p)
    BY <1>1, <1>3 DEF Ahead
  <2> QED
    BY <1>1, <1>3, <2>1 DEF SetSold, Drop, TextInv, CaptionInv
<1>5. /\ Rest(t) /\ SameJob(t)
      /\ \/ task'[t].pc = "d_list"
         \/ /\ task'[t].pc \in {"x_list", "x_id"} /\ task[t].pc = "t_set"
            /\ task'[t].base = task[t].base /\ task'[t].cap = task[t].cap
            /\ task'[t].sold <=> status'[p] = "sold"
  <2>1. CASE SetSold(t)
    <3>1. PICK sold \in BOOLEAN :
           /\ status' = [status EXCEPT ![task[t].job] = IF sold THEN "sold" ELSE "active"]
           /\ Rest(t) /\ task[t].pc = "t_set" /\ task'[t].pc \in {"x_list", "x_id"}
           /\ task'[t].base = task[t].base /\ task'[t].cap = task[t].cap /\ task'[t].sold = sold
           /\ SameJob(t)
      BY <1>1, <2>1, SoldLands
    <3>2. status'[p] = (IF sold THEN "sold" ELSE "active")
      BY <1>1, <3>1 DEF TypeInv, RowTypes
    <3> QED
      BY <3>1, <3>2
  <2>2. CASE Drop(t)
    BY <1>1, <2>2, GotoLands DEF Drop, At, Ways
  <2> QED
    BY <2>1, <2>2
<1>6. WorkOn(p)' = {t}
  BY <1>1, <1>3, <1>5 DEF WorkOn, Rest, SameJob
<1>7. Knows(t, p)'
  BY <1>1, <1>2, <1>4, <1>5 DEF Knows, SameJob, ShowLabels
<1> QED
  BY <1>4, <1>6, <1>7 DEF TextInv, OneKind, CaptionInv

\* A sweep that starts on a product nobody works on carries no text, so the texts agree.
LEMMA TextOfNewcomer ==
  ASSUME TypeInv, TasksInv, NEW p \in Products, TextInv(p), WorkOn(p) = {}, data' = data, caption' = caption,
         \A u \in WorkOn(p)' : task'[u].pc = "w_drop" /\ task'[u].kind = "sweep",
         \A u, v \in WorkOn(p)' : u = v
  PROVE  TextInv(p)'
<1>1. caption[p].text = data[p]
  BY DEF TextInv, CaptionInv, Ahead
<1> QED
  BY <1>1 DEF TextInv, OneKind, Knows, CaptionInv, Publications, ShowLabels

-----------------------------------------------------------------------------
(* Its own tasks: what its posts show *)

\* who is about to show the product anew
ShowSoon == {"p_ai", "p_write", "f_read"} \cup ShowLabels

\* a step that leaves the posts and the row as they are
LEMMA ShowKept ==
  ASSUME TypeInv, NEW p \in Products, ShowInv(p), NEW t \in WorkOn(p), Rest(t), UNCHANGED posts,
         status'[p] = status[p], data'[p] = data[p], task[t].pc \notin {"s_log", "d_dead"},
         task'[t].pc \notin {"s_log", "x_dead"} /\ (task'[t].pc = "x_edit" => task'[t].todo = LiveOf(p)),
         Ahead(p)' \/ ~Ahead(p) \/ (\A u \in WorkOn(p) \ {t} : task[u].pc # "x_edit"),
         \/ status[p] = "removed" \/ Ahead(p)' \/ LiveOf(p) = {}
         \/ task'[t].job = p /\ task'[t].pc \in ShowSoon
         \/ ~Ahead(p) /\ task[t].pc \notin ShowSoon
  PROVE  ShowInv(p)'
<1>1. /\ t \in Tasks /\ task[t].job = p /\ LiveOf(p)' = LiveOf(p)
      /\ \A u \in WorkOn(p) \ {t} : u \in WorkOn(p)' /\ task'[u] = task[u] /\ Msg(u)' = Msg(u)
      /\ \A u \in WorkOn(p)' \ {t} : u \in WorkOn(p)
  BY DEF WorkOn, Rest, LiveOf, posts, Msg
<1>2. \A m : Matches(m, p)' <=> Matches(m, p)
  BY DEF Matches, posts
<1>3. \A m : Half(m, p) => Half(m, p)'
  BY <1>1 DEF Half, At
<1>4. \A u \in WorkOn(p)' :
        /\ task'[u].pc # "x_dead"
        /\ task'[u].pc = "s_log" => Matches(Msg(u), p)'
        /\ task'[u].pc = "x_edit" =>
             /\ task'[u].todo \subseteq LiveOf(p)
             /\ ~Ahead(p)' => \A m \in LiveOf(p) \ task'[u].todo : Matches(m, p)'
  <2>1. ASSUME NEW u \in WorkOn(p)' \ {t}
        PROVE  /\ task'[u].pc # "x_dead"
               /\ task'[u].pc = "s_log" => Matches(Msg(u), p)'
               /\ task'[u].pc = "x_edit" =>
                    /\ task'[u].todo \subseteq LiveOf(p)
                    /\ ~Ahead(p)' => \A m \in LiveOf(p) \ task'[u].todo : Matches(m, p)'
    <3>1. /\ task[u].pc # "x_dead"
          /\ task[u].pc = "s_log" => Matches(Msg(u), p)
          /\ task[u].pc = "x_edit" =>
               /\ task[u].todo \subseteq LiveOf(p)
               /\ ~Ahead(p) => \A m \in LiveOf(p) \ task[u].todo : Matches(m, p)
      BY <1>1, <2>1 DEF ShowInv
    <3>2. task[u].pc = "x_edit" /\ ~Ahead(p)' => ~Ahead(p)
      BY <1>1, <2>1
    <3> QED
      BY <1>1, <1>2, <2>1, <3>1, <3>2
  <2>2. /\ task'[t].pc # "x_dead" /\ task'[t].pc # "s_log"
        /\ task'[t].pc = "x_edit" => task'[t].todo = LiveOf(p)
    OBVIOUS
  <2> QED
    BY <2>1, <2>2
<1>5. ASSUME status'[p] # "removed", ~Ahead(p)',
             \A u \in WorkOn(p)' : task'[u].pc \notin {"p_ai", "p_write", "f_read"} \cup ShowLabels,
             NEW m \in LiveOf(p)
      PROVE  Half(m, p)' \/ Matches(m, p)'
  <2>1. t \in WorkOn(p)' <=> task'[t].job = p
    BY <1>1 DEF WorkOn
  <2>2. ~Ahead(p) /\ task[t].pc \notin ShowSoon
    BY <1>5, <2>1 DEF ShowSoon
  <2>3. \A u \in WorkOn(p) : task[u].pc \notin {"p_ai", "p_write", "f_read"} \cup ShowLabels
    BY <1>1, <1>5, <2>2 DEF ShowSoon
  <2>4. Half(m, p) \/ Matches(m, p)
    BY <1>5, <2>2, <2>3 DEF ShowInv
  <2> QED
    BY <1>2, <1>3, <2>4
<1> QED
  BY <1>1, <1>4, <1>5 DEF ShowInv

\* the publication and the polish, between their calls to Telegram
LEMMA ShowOfQuiet ==
  ASSUME TypeInv, TasksInv, NEW p \in Products, TextInv(p), ShowInv(p), NEW t \in WorkOn(p),
         Lock(t) \/ PublishId(t) \/ MarkPosted(t) \/ ListOld(t) \/ Answer(t)
  PROVE  ShowInv(p)'
<1>1. /\ t \in Tasks /\ task[t].job = p /\ Shape(task[t]) /\ p # NoProduct /\ OneKind(p)
      /\ LiveOf(task[t].job) \ task[t].sent \in SUBSET Msgs
  BY DEF WorkOn, TypeInv, TaskTypes, TextInv, Products, NoProduct, LiveOf, PostTypes
<1>2. /\ UNCHANGED posts /\ status' = status /\ data' = data
      /\ task[t].pc \in {"l_wait", "l_id", "s_mark", "d_list", "e_answer"}
  BY DEF Lock, EnterLock, PublishId, MarkPosted, ListOld, Answer, At, rows
<1>3. /\ Rest(t) /\ task'[t].pc \notin {"s_log", "x_dead", "x_edit"}
      /\ task[t].pc = "e_answer" => SameJob(t) /\ task'[t].pc = "p_wait"
  <2>1. CASE Lock(t)
    BY <1>1, <2>1, LockMoves DEF TasksInv
  <2>2. CASE PublishId(t)
    BY <1>1, <2>2, IdLands DEF PublishId, At
  <2>3. CASE MarkPosted(t)
    BY <1>1, <2>3, DoneLands, GotoLands DEF MarkPosted, At, Free, Ways
  <2>4. CASE ListOld(t)
    BY <1>1, <2>4, DeleteLands, AfterLands DEF ListOld, At, Free, DeleteLabels
  <2>5. CASE Answer(t)
    BY <1>1, <2>5, GotoLands DEF Answer, At, Ways
  <2> QED
    BY <2>1, <2>2, <2>3, <2>4, <2>5
<1>4. task[t].pc \notin ShowSoon
  BY <1>2 DEF ShowSoon, ShowLabels
<1>5. Ahead(p)' \/ ~Ahead(p)
  <2>1. CASE task[t].pc = "e_answer"
    BY <1>1, <1>3, <2>1 DEF Ahead, WorkOn, SameJob
  <2>2. CASE task[t].pc # "e_answer"
    <3>1. task[t].kind \in Publications \/ task[t].kind = "sweep"
      BY <1>1, <1>2, <2>2 DEF Shape, PubLabels, DeleteLabels, EditLabels
    <3>2. \A u \in WorkOn(p) : task[u].kind # "edit"
      BY <1>1, <3>1, Company DEF Publications
    <3>3. \A u \in WorkOn(p) : task[u].pc \notin EditLabels
      BY <3>2 DEF WorkOn, TypeInv, TaskTypes, Shape
    <3> QED
      BY <3>3 DEF Ahead, EditLabels
  <2> QED
    BY <2>1, <2>2
<1> QED
  BY <1>1, <1>2, <1>3, <1>4, <1>5, ShowKept

\* The steps of a polish change no post, and leave the posts either in agreement with the row or
\* to the task that is about to show them anew.
LEMMA ShowOfPolish ==
  ASSUME TypeInv, TasksInv, NEW p \in Products, TextInv(p), ShowInv(p), NEW t \in WorkOn(p),
         StartPolish(t) \/ Polished(t) \/ PolishFails(t) \/ StorePolish(t) \/ Refresh(t)
  PROVE  ShowInv(p)'
<1>1. /\ t \in Tasks /\ task[t].job = p /\ Shape(task[t]) /\ p # NoProduct /\ OneKind(p) /\ Knows(t, p)
  BY DEF WorkOn, TypeInv, TaskTypes, TextInv, Products, NoProduct
<1>2. /\ UNCHANGED posts /\ status' = status /\ data' = data
      /\ task[t].pc \in {"p_wait", "p_ai", "p_write", "f_read"}
      /\ task[t].pc = "p_wait" => StartPolish(t)
  BY DEF StartPolish, EnterPolish, Polished, PolishFails, StorePolish, Refresh, At, rows
<1>3. task[t].kind = "edit" /\ \A u \in WorkOn(p) : task[u].kind = "edit"
  <2>1. task[t].kind = "edit"
    BY <1>1, <1>2 DEF Shape, EditLabels
  <2> QED
    BY <1>1, <2>1, Company
<1>4. \A u \in WorkOn(p) \ {t} : task[u].pc \in BeforePolish
  <2>1. CASE task[t].pc = "p_wait"
    BY <1>1, <1>2, <1>3, <2>1 DEF StartPolish, Polishing, BeforePolish
  <2>2. CASE task[t].pc # "p_wait"
    BY <1>1, <1>2, <1>3, <2>2, Company DEF BeforePolish
  <2> QED
    BY <2>1, <2>2
<1>5. \A u \in WorkOn(p) \ {t} : task[u].pc # "x_edit"
  BY <1>4 DEF BeforePolish
<1>6. /\ Rest(t) /\ task'[t].pc \notin {"s_log", "x_dead", "x_edit"}
      /\ \/ status[p] = "removed" \/ Ahead(p)'
         \/ task'[t].job = p /\ task'[t].pc \in ShowSoon
  <2>1. CASE StartPolish(t)
    BY <1>1, <2>1, PolishLands DEF StartPolish, ShowSoon, SameJob
  <2>2. CASE Polished(t) \/ PolishFails(t)
    <3>1. CASE data[p] = task[t].base
      <4>1. (Goto(t, "p_write") \/ Goto(t, "f_read")) /\ task[t].pc = "p_ai"
        BY <1>1, <2>2, <3>1 DEF Polished, PolishFails, Unless, At
      <4>2. Rest(t) /\ task'[t].pc \in {"p_write", "f_read"} /\ SameJob(t)
        BY <1>1, <4>1, GotoLands DEF Ways
      <4> QED
        BY <1>1, <4>2 DEF ShowSoon, SameJob
    <3>2. CASE data[p] # task[t].base
      <4>1. Done(t) /\ task[t].pc = "p_ai"
        BY <1>1, <2>2, <3>2 DEF Polished, PolishFails, Unless, At
      <4>2. Ahead(p)
        BY <1>1, <3>2, <4>1 DEF Knows
      <4>3. Rest(t) /\ task'[t] = Free
        BY <1>1, <4>1, DoneLands
      <4>4. PICK u \in WorkOn(p) : task[u].pc \in {"e_answer", "p_wait"}
        BY <4>2 DEF Ahead
      <4>5. u # t /\ u \in WorkOn(p)' /\ task'[u] = task[u]
        BY <4>1, <4>3, <4>4 DEF WorkOn, Rest
      <4>6. Ahead(p)'
        BY <4>4, <4>5 DEF Ahead
      <4> QED
        BY <4>3, <4>6 DEF Free
    <3> QED
      BY <3>1, <3>2
  <2>3. CASE StorePolish(t)
    <3>1. Goto(t, "f_read") /\ task[t].pc = "p_write"
      BY <2>3 DEF StorePolish, At
    <3>2. Rest(t) /\ task'[t].pc = "f_read" /\ SameJob(t)
      BY <1>1, <3>1, GotoLands DEF Ways
    <3> QED
      BY <1>1, <3>2 DEF ShowSoon, SameJob
  <2>4. CASE Refresh(t)
    BY <1>1, <2>4, RefreshLands DEF ShowSoon, ShowLabels, SameJob, Free
  <2> QED
    BY <2>1, <2>2, <2>3, <2>4
<1> QED
  BY <1>1, <1>2, <1>5, <1>6, ShowKept

\* The list of live posts a task is about to edit holds every post that can differ from the row.
LEMMA ShowOfListing ==
  ASSUME TypeInv, TasksInv, NEW p \in Products, TextInv(p), ShowInv(p), NEW t \in WorkOn(p),
         ShowId(t) \/ ListLive(t)
  PROVE  ShowInv(p)'
<1>1. /\ t \in Tasks /\ task[t].job = p /\ Shape(task[t]) /\ p # NoProduct /\ OneKind(p)
      /\ LiveOf(p) \in SUBSET Msgs
  BY DEF WorkOn, TypeInv, TaskTypes, TextInv, Products, NoProduct, LiveOf, PostTypes
<1>2. /\ UNCHANGED posts /\ status' = status /\ data' = data
      /\ task[t].pc \in {"x_id", "x_list"}
  BY DEF ShowId, ListLive, At, rows
<1>3. \A u \in WorkOn(p) \ {t} : task[u].pc # "x_edit"
  <2>1. task[t].kind \in {"toggle", "edit"}
    BY <1>1, <1>2 DEF Shape, ShowLabels
  <2> QED
    BY <1>1, <1>2, <2>1, Company DEF BeforePolish
<1>4. /\ Rest(t) /\ task'[t].pc \notin {"s_log", "x_dead"}
      /\ task'[t].pc = "x_edit" => task'[t].todo = LiveOf(p)
      /\ LiveOf(p) = {} \/ (task'[t].job = p /\ task'[t].pc \in ShowSoon)
  <2>1. CASE ShowId(t)
    BY <1>1, <2>1, IdLands DEF ShowId, At, SameJob, ShowSoon, ShowLabels
  <2>2. CASE ListLive(t)
    <3>1. EditNext(t, LiveOf(p)) /\ task[t].pc \in ShowLabels \ {"x_id"}
      BY <1>1, <2>2 DEF ListLive, At, ShowLabels
    <3> QED
      BY <1>1, <3>1, EditLands DEF SameJob, ShowSoon, ShowLabels, Free
  <2> QED
    BY <2>1, <2>2
<1> QED
  BY <1>1, <1>2, <1>3, <1>4, ShowKept

\* the row changes: what follows shows it, or nothing has to
LEMMA ShowOfRow ==
  ASSUME TypeInv, TasksInv, NEW p \in Products, TextInv(p), ShowInv(p), NEW t \in WorkOn(p),
         SetSold(t) \/ StoreEdit(t) \/ Drop(t)
  PROVE  ShowInv(p)'
<1>1. /\ t \in Tasks /\ task[t].job = p /\ Shape(task[t]) /\ p # NoProduct /\ OneKind(p)
  BY DEF WorkOn, TypeInv, TaskTypes, TextInv, Products, NoProduct
<1>2. UNCHANGED posts /\ task[t].pc \in {"t_set", "e_write", "w_drop"}
  BY DEF SetSold, StoreEdit, Drop, At
<1>3. LiveOf(p)' = LiveOf(p)
  BY <1>2 DEF LiveOf, posts
<1>4. CASE SetSold(t)
  <2>1. WorkOn(p) = {t}
    BY <1>1, <1>4, Company DEF SetSold, At, Shape
  <2>2. Rest(t) /\ task'[t].pc \in {"x_list", "x_id"} /\ SameJob(t)
    BY <1>1, <1>4, SoldLands
  <2>3. WorkOn(p)' = {t}
    BY <1>1, <2>1, <2>2 DEF WorkOn, Rest, SameJob
  <2> QED
    BY <2>2, <2>3 DEF ShowInv, ShowLabels
<1>5. CASE Drop(t)
  <2>1. WorkOn(p) = {t}
    BY <1>1, <1>5, Company DEF Drop, At, Shape
  <2>2. Goto(t, "d_list") /\ task[t].pc = "w_drop" /\ status' = [status EXCEPT ![p] = "removed"]
    BY <1>1, <1>5 DEF Drop, At
  <2>3. Rest(t) /\ task'[t].pc = "d_list" /\ SameJob(t)
    BY <1>1, <2>2, GotoLands DEF Ways
  <2>4. WorkOn(p)' = {t} /\ status'[p] = "removed"
    BY <1>1, <2>1, <2>2, <2>3 DEF WorkOn, Rest, SameJob, TypeInv, RowTypes
  <2> QED
    BY <2>3, <2>4 DEF ShowInv
<1>6. CASE StoreEdit(t)
  <2>1. Goto(t, "e_answer") /\ task[t].pc = "e_write"
    BY <1>6 DEF StoreEdit, At
  <2>2. Rest(t) /\ task'[t].pc = "e_answer" /\ SameJob(t)
    BY <1>1, <2>1, GotoLands DEF Ways
  <2>3. \A u \in WorkOn(p) : task[u].kind = "edit"
    BY <1>1, <2>1, Company DEF Shape, EditLabels
  <2>4. \A u \in WorkOn(p) : task[u].pc # "s_log"
    BY <2>3 DEF WorkOn, TypeInv, TaskTypes, Shape, PubLabels, Publications
  <2>5. WorkOn(p)' = WorkOn(p) /\ \A u \in WorkOn(p) \ {t} : task'[u] = task[u]
    BY <1>1, <2>2 DEF WorkOn, Rest, SameJob
  <2>6. Ahead(p)'
    BY <2>2, <2>5 DEF Ahead
  <2>7. \A u \in WorkOn(p)' : /\ task'[u].pc \notin {"x_dead", "s_log"}
                              /\ task'[u].pc = "x_edit" => task'[u].todo \subseteq LiveOf(p)'
    BY <1>3, <2>2, <2>4, <2>5 DEF ShowInv
  <2> QED
    BY <2>6, <2>7 DEF ShowInv
<1> QED
  BY <1>4, <1>5, <1>6

\* a newcomer: a handler that has read the product, or the sweep
LEMMA ShowOfNewcomer ==
  ASSUME TypeInv, NEW p \in Products, ShowInv(p), NEW t \in Tasks, t \notin WorkOn(p), Rest(t),
         UNCHANGED <<rows, posts>>, task'[t].pc \in {"l_wait", "t_set", "e_write", "w_drop"}
  PROVE  ShowInv(p)'
<1>1. /\ LiveOf(p)' = LiveOf(p)
      /\ \A u \in WorkOn(p) : u \in WorkOn(p)' /\ task'[u] = task[u] /\ Msg(u)' = Msg(u)
      /\ \A u \in WorkOn(p)' \ {t} : u \in WorkOn(p)
  BY DEF WorkOn, Rest, LiveOf, posts, Msg
<1>2. \A m : Matches(m, p)' <=> Matches(m, p)
  BY DEF Matches, posts, rows
<1>3. \A m : Half(m, p) => Half(m, p)'
  BY <1>1 DEF Half, At
<1>4. Ahead(p)' <=> Ahead(p)
  BY <1>1 DEF Ahead
<1>5. \A u \in WorkOn(p)' :
        /\ task'[u].pc # "x_dead"
        /\ task'[u].pc = "s_log" => Matches(Msg(u), p)'
        /\ task'[u].pc = "x_edit" =>
             /\ task'[u].todo \subseteq LiveOf(p)
             /\ ~Ahead(p)' => \A m \in LiveOf(p) \ task'[u].todo : Matches(m, p)'
  <2>1. ASSUME NEW u \in WorkOn(p)' \ {t}
        PROVE  /\ task'[u].pc # "x_dead"
               /\ task'[u].pc = "s_log" => Matches(Msg(u), p)'
               /\ task'[u].pc = "x_edit" =>
                    /\ task'[u].todo \subseteq LiveOf(p)
                    /\ ~Ahead(p)' => \A m \in LiveOf(p) \ task'[u].todo : Matches(m, p)'
    <3>1. /\ task[u].pc # "x_dead"
          /\ task[u].pc = "s_log" => Matches(Msg(u), p)
          /\ task[u].pc = "x_edit" =>
               /\ task[u].todo \subseteq LiveOf(p)
               /\ ~Ahead(p) => \A m \in LiveOf(p) \ task[u].todo : Matches(m, p)
      BY <1>1, <2>1 DEF ShowInv
    <3> QED
      BY <1>1, <1>2, <1>4, <2>1, <3>1
  <2> QED
    BY <2>1
<1>6. ASSUME status'[p] # "removed", ~Ahead(p)',
             \A u \in WorkOn(p)' : task'[u].pc \notin {"p_ai", "p_write", "f_read"} \cup ShowLabels,
             NEW m \in LiveOf(p)
      PROVE  Half(m, p)' \/ Matches(m, p)'
  <2>1. \A u \in WorkOn(p) : task[u].pc \notin {"p_ai", "p_write", "f_read"} \cup ShowLabels
    BY <1>1, <1>6
  <2>2. Half(m, p) \/ Matches(m, p)
    BY <1>4, <1>6, <2>1 DEF ShowInv, rows
  <2> QED
    BY <1>2, <1>3, <2>2
<1> QED
  BY <1>1, <1>5, <1>6 DEF ShowInv

-----------------------------------------------------------------------------
(* A task that sends or deletes is alone with the posts of its product *)

PosterLabels == {"l_id", "s_send", "s_log", "s_mark"} \cup DeleteLabels

\* When a publication or a sweep is at work on the posts of a product, the only others on it are
\* publications that wait for the lock, and the row is the one the publication has read.
LEMMA Poster ==
  ASSUME TypeInv, TasksInv, NEW p \in Products, TextInv(p), NEW t \in WorkOn(p),
         task[t].pc \in PosterLabels \/ Lock(t)
  PROVE  /\ \A u \in WorkOn(p) \ {t} : task[u].pc = "l_wait" /\ task[u].kind \in Publications
         /\ ~Ahead(p) /\ \A u \in WorkOn(p) : task[u].pc \notin {"p_ai", "p_write", "f_read"} \cup ShowLabels
         /\ \A m : Half(m, p) <=> (task[t].pc = "s_log" /\ m = Msg(t)) \/ (task[t].pc = "d_dead" /\ m = Least(task[t].todo))
         /\ t \in Tasks /\ task[t].job = p /\ p # NoProduct
         /\ task[t].kind \in Publications \cup {"sweep"}
         /\ task[t].kind \in Publications => status[p] = "active" /\ task[t].base = data[p]
         /\ task[t].pc \in PubLabels => task[t].kind \in Publications /\ task[t].cap.text = data[p]
<1>1. /\ t \in Tasks /\ task[t].job = p /\ p # NoProduct /\ Shape(task[t]) /\ OneKind(p) /\ Knows(t, p)
  BY DEF WorkOn, TypeInv, TaskTypes, TextInv, Products, NoProduct
<1>2. task[t].pc \in PubLabels \cup DeleteLabels
  BY LockMoves DEF PosterLabels, PubLabels, TasksInv, Lock, EnterLock, At
<1>3. task[t].kind \in Publications \cup {"sweep"} /\ (task[t].pc \in PubLabels => task[t].kind \in Publications)
  BY <1>1, <1>2 DEF Shape
<1>4. \A u \in WorkOn(p) \ {t} : task[u].pc = "l_wait" /\ task[u].kind \in Publications
  <2>1. CASE task[t].pc \in PosterLabels
    BY <1>1, <1>3, <2>1, Company DEF PosterLabels, DeleteLabels
  <2>2. CASE Lock(t)
    <3>1. Publishing = {} /\ task[t].pc = "l_wait"
      BY <2>2 DEF Lock, EnterLock, At
    <3>2. \A u \in WorkOn(p) : u \in Tasks /\ task[u].kind \in Publications
      BY <1>1, <1>3, <3>1, Company DEF PubLabels, WorkOn
    <3> QED
      BY <3>1, <3>2 DEF Publishing, At
  <2> QED
    BY <2>1, <2>2
<1>5. \A u \in WorkOn(p) : task[u].pc \in PubLabels \cup DeleteLabels
  BY <1>2, <1>4 DEF PubLabels
<1>6. \A u \in WorkOn(p) : task[u].pc \notin {"p_ai", "p_write", "f_read", "e_answer", "p_wait"} \cup ShowLabels
  BY <1>5 DEF PubLabels, DeleteLabels, ShowLabels
<1>7. ~Ahead(p)
  BY <1>6 DEF Ahead
<1>8. \A m : Half(m, p) <=> (task[t].pc = "s_log" /\ m = Msg(t)) \/ (task[t].pc = "d_dead" /\ m = Least(task[t].todo))
  BY <1>4 DEF Half, At
<1>9. /\ task[t].kind \in Publications => status[p] = "active" /\ task[t].base = data[p]
      /\ task[t].pc \in PubLabels => task[t].cap.text = data[p]
  BY <1>1, <1>3 DEF Knows
<1> QED
  BY <1>1, <1>3, <1>4, <1>6, <1>7, <1>8, <1>9

\* ... also after its step
LEMMA PosterAfter ==
  ASSUME TypeInv, TasksInv, NEW p \in Products, TextInv(p), NEW t \in WorkOn(p),
         task[t].pc \in PosterLabels \/ Lock(t), Rest(t),
         task'[t].job # p \/ task'[t].pc \in PosterLabels
  PROVE  /\ \A u \in WorkOn(p)' \ {t} :
              task'[u] = task[u] /\ task'[u].pc = "l_wait" /\ task'[u].kind \in Publications /\ task'[u].sent = {}
         /\ t \in WorkOn(p)' <=> task'[t].job = p
         /\ \A u \in WorkOn(p)' : task'[u].pc \notin {"x_edit", "x_dead"}
         /\ \A m : Half(m, p)' <=>
              t \in WorkOn(p)' /\ ((task'[t].pc = "s_log" /\ m = Msg(t)') \/ (task'[t].pc = "d_dead" /\ m = Least(task'[t].todo)))
<1>1. /\ \A u \in WorkOn(p) \ {t} : task[u].pc = "l_wait" /\ task[u].kind \in Publications
      /\ t \in Tasks /\ task[t].job = p
  BY Poster
<1>2. /\ \A u \in WorkOn(p)' \ {t} : u \in WorkOn(p) \ {t} /\ task'[u] = task[u]
      /\ t \in WorkOn(p)' <=> task'[t].job = p
  BY <1>1 DEF WorkOn, Rest
<1>3. \A u \in WorkOn(p) \ {t} : task[u].sent = {}
  BY <1>1 DEF WorkOn, TypeInv, TaskTypes, Filled
<1>4. t \in WorkOn(p)' => task'[t].pc \notin {"x_edit", "x_dead"}
  BY <1>2 DEF PosterLabels, DeleteLabels
<1>5. \A u \in WorkOn(p)' : task'[u].pc \notin {"x_edit", "x_dead"}
  BY <1>1, <1>2, <1>4
<1>6. \A m : Half(m, p)' <=>
              t \in WorkOn(p)' /\ ((task'[t].pc = "s_log" /\ m = Msg(t)') \/ (task'[t].pc = "d_dead" /\ m = Least(task'[t].todo)))
  BY <1>1, <1>2 DEF Half, At
<1> QED
  BY <1>1, <1>2, <1>3, <1>5, <1>6

\* what has to be shown of its step
LEMMA PosterKept ==
  ASSUME TypeInv, TasksInv, NEW p \in Products, TextInv(p), NEW t \in WorkOn(p),
         task[t].pc \in PosterLabels \/ Lock(t), Rest(t),
         task'[t].job # p \/ task'[t].pc \in PosterLabels,
         status'[p] # "removed" =>
           \A m \in LiveOf(p)' : Matches(m, p)' \/ (task'[t].job = p /\ task'[t].pc = "d_dead" /\ m = Least(task'[t].todo)),
         task'[t].job = p /\ task'[t].pc = "s_log" =>
           Matches(Msg(t), p)' /\ Msg(t)' \notin live' /\ view'[Msg(t)'] # Hidden,
         task'[t].job = p /\ task'[t].pc = "d_dead" => view'[Least(task'[t].todo)] = Hidden,
         \A m \in Msgs : product'[m] = p =>
           \/ view'[m] # Hidden <=> m \in live'
           \/ task'[t].job = p /\ task'[t].pc = "s_log" /\ m = Msg(t)'
           \/ task'[t].job = p /\ task'[t].pc = "d_dead" /\ m = Least(task'[t].todo)
  PROVE  ShowInv(p)' /\ SeenInv(p)'
<1>1. /\ \A u \in WorkOn(p)' \ {t} :
            task'[u] = task[u] /\ task'[u].pc = "l_wait" /\ task'[u].kind \in Publications /\ task'[u].sent = {}
      /\ t \in WorkOn(p)' <=> task'[t].job = p
      /\ \A u \in WorkOn(p)' : task'[u].pc \notin {"x_edit", "x_dead"}
      /\ \A m : Half(m, p)' <=>
            t \in WorkOn(p)' /\ ((task'[t].pc = "s_log" /\ m = Msg(t)') \/ (task'[t].pc = "d_dead" /\ m = Least(task'[t].todo)))
  BY PosterAfter
<1>2. \A u \in WorkOn(p)' : task'[u].pc = "s_log" => u = t
  BY <1>1
<1>3. \A u \in WorkOn(p)' :
        /\ task'[u].pc \notin {"x_dead", "x_edit"}
        /\ task'[u].pc = "s_log" => Matches(Msg(u), p)'
  BY <1>1, <1>2
<1>4. status'[p] # "removed" => \A m \in LiveOf(p)' : Half(m, p)' \/ Matches(m, p)'
  BY <1>1
<1>5. ShowInv(p)'
  BY <1>3, <1>4 DEF ShowInv
<1>6. \A m \in Msgs : product'[m] = p /\ ~Half(m, p)' => (view'[m] # Hidden <=> m \in live')
  BY <1>1
<1>7. \A u \in WorkOn(p)' : At(u, "s_log")' => (Msg(u) \notin live /\ view[Msg(u)] # Hidden)'
  BY <1>1, <1>2 DEF At
<1>8. \A u \in WorkOn(p)' : At(u, "d_dead")' => (view[Least(task[u].todo)] = Hidden)'
  BY <1>1 DEF At
<1>9. SeenInv(p)'
  BY <1>6, <1>7, <1>8 DEF SeenInv
<1> QED
  BY <1>5, <1>9

\* A step of the task at work on the posts keeps it so that the task knows what it has sent,
\* provided its own record does.
LEMMA PosterSentKept ==
  ASSUME TypeInv, TasksInv, NEW p \in Products, TextInv(p), NEW t \in WorkOn(p),
         task[t].pc \in PosterLabels \/ Lock(t), Rest(t),
         task'[t].job # p \/ task'[t].pc \in PosterLabels,
         task'[t].job = p =>
           /\ task'[t].kind \in Publications => task'[t].sent \subseteq live'
           /\ task'[t].pc \in {"s_send", "s_log"} =>
                task'[t].sent = {MsgOf(task'[t].pub, c) : c \in 1 .. task'[t].chat - 1}
           /\ task'[t].kind \in Publications /\ task'[t].pc \in {"s_mark"} \cup DeleteLabels =>
                task'[t].sent = {MsgOf(task'[t].pub, c) : c \in Chats}
           /\ task'[t].pc \in {"d_del", "d_dead"} =>
                LiveOf(p)' = task'[t].todo \cup task'[t].sent /\ task'[t].todo \cap task'[t].sent = {}
  PROVE  SentInv(p)'
<1>1. /\ \A u \in WorkOn(p)' \ {t} :
            task'[u] = task[u] /\ task'[u].pc = "l_wait" /\ task'[u].kind \in Publications /\ task'[u].sent = {}
      /\ t \in WorkOn(p)' <=> task'[t].job = p
  BY PosterAfter
<1>2. ASSUME NEW u \in WorkOn(p)', u # t
      PROVE  /\ task'[u].kind \in Publications => task'[u].sent \subseteq live'
             /\ task'[u].pc \notin {"s_send", "s_log", "s_mark"} \cup DeleteLabels
  BY <1>1, <1>2 DEF DeleteLabels
<1> QED
  BY <1>1, <1>2 DEF SentInv, PostsOf, DeleteLabels

\* A step of the task at work on the posts keeps one post per chat, provided that the task ends
\* so.
LEMMA PosterQuietKept ==
  ASSUME TypeInv, TasksInv, NEW p \in Products, TextInv(p), NEW t \in WorkOn(p),
         task[t].pc \in PosterLabels \/ Lock(t), Rest(t),
         task'[t].job # p \/ task'[t].pc \in PosterLabels,
         p \in dropped' => LiveOf(p)' = {} /\ (task'[t].job # p \/ task'[t].pc # "s_log"),
         DeletePrevious /\ p \notin dropped' /\ (task'[t].job # p \/ task'[t].pc = "l_id") =>
           (\A m \in Msgs : product'[m] # p) \/ \E n \in 1 .. MaxPubs : LiveOf(p)' = PostsOf(n)
  PROVE  QuietInv(p)'
<1>1. /\ \A u \in WorkOn(p)' \ {t} :
            task'[u] = task[u] /\ task'[u].pc = "l_wait" /\ task'[u].kind \in Publications /\ task'[u].sent = {}
      /\ t \in WorkOn(p)' <=> task'[t].job = p
  BY PosterAfter
<1>2. p \in dropped' => \A u \in WorkOn(p)' : task'[u].pc # "s_log"
  BY <1>1
<1>3. (\A u \in WorkOn(p)' : task'[u].pc \notin {"s_send", "s_log", "s_mark"} \cup DeleteLabels) =>
        task'[t].job # p \/ task'[t].pc = "l_id"
  BY <1>1 DEF PosterLabels
<1> QED
  BY <1>2, <1>3 DEF QuietInv, PostsOf

\* everything about the posts of p
PostInv(p) == ShowInv(p) /\ SeenInv(p) /\ SentInv(p) /\ QuietInv(p)

\* before it sends, a publication changes nothing but its own locals
LEMMA PostsOfLock ==
  ASSUME TypeInv, TasksInv, NEW p \in Products, TextInv(p), PostInv(p), NEW t \in WorkOn(p),
         Lock(t) \/ PublishId(t)
  PROVE  PostInv(p)'
<1>1. task[t].pc \in PosterLabels \/ Lock(t)
  BY DEF PublishId, At, PosterLabels
<1>2. /\ t \in Tasks /\ task[t].job = p /\ p # NoProduct /\ ~Ahead(p)
      /\ \A u \in WorkOn(p) \ {t} : task[u].pc = "l_wait"
      /\ \A u \in WorkOn(p) : task[u].pc \notin {"p_ai", "p_write", "f_read"} \cup ShowLabels
      /\ \A m : Half(m, p) <=> (task[t].pc = "s_log" /\ m = Msg(t)) \/ (task[t].pc = "d_dead" /\ m = Least(task[t].todo))
  BY <1>1, Poster
<1>3. /\ Rest(t) /\ SameJob(t) /\ task'[t].pc \in {"s_send", "l_id"} /\ task[t].pc \in {"l_wait", "l_id"}
      /\ task'[t].chat = 1 /\ task'[t].sent = {}
      /\ UNCHANGED <<status, data, posts, dropped>>
  <2>1. CASE Lock(t)
    BY <1>2, <2>1, LockMoves DEF TasksInv, rows
  <2>2. CASE PublishId(t)
    <3>1. EnsureId(t, "s_send") /\ task[t].pc = "l_id" /\ UNCHANGED <<status, data, posts, dropped>>
      BY <2>2 DEF PublishId, At, ghosts
    <3>2. task[t].chat = 1 /\ task[t].sent = {}
      BY <1>2, <3>1 DEF TypeInv, TaskTypes, Filled
    <3> QED
      BY <1>2, <3>1, <3>2, IdLands DEF SameSent
  <2> QED
    BY <2>1, <2>2
<1>4. task'[t].job = p /\ task'[t].pc \in PosterLabels /\ task'[t].pc \notin {"s_log", "d_dead", "d_del", "s_mark"} \cup DeleteLabels
  BY <1>2, <1>3 DEF SameJob, PosterLabels, DeleteLabels
<1>5. LiveOf(p)' = LiveOf(p) /\ (\A m : Matches(m, p)' <=> Matches(m, p))
  BY <1>3 DEF LiveOf, Matches, posts
<1>6. \A m : ~Half(m, p)
  BY <1>2, <1>3
<1>7. status[p] # "removed" => \A m \in LiveOf(p) : Matches(m, p)
  BY <1>2, <1>6 DEF PostInv, ShowInv
<1>8. \A m \in Msgs : product[m] = p => (view[m] # Hidden <=> m \in live)
  BY <1>6 DEF PostInv, SeenInv
<1>9. ShowInv(p)' /\ SeenInv(p)'
  BY <1>1, <1>3, <1>4, <1>5, <1>7, <1>8, PosterKept DEF posts
<1>10. SentInv(p)'
  <2>1. {MsgOf(task'[t].pub, c) : c \in 1 .. task'[t].chat - 1} = {}
    BY <1>3
  <2> QED
    BY <1>1, <1>3, <1>4, <2>1, PosterSentKept
<1>11. QuietInv(p)'
  <2>1. p \in dropped => LiveOf(p) = {}
    BY DEF PostInv, QuietInv
  <2>2. DeletePrevious /\ p \notin dropped =>
          (\A m \in Msgs : product[m] # p) \/ \E n \in 1 .. MaxPubs : LiveOf(p) = PostsOf(n)
    <3>1. \A u \in WorkOn(p) : task[u].pc \notin {"s_send", "s_log", "s_mark"} \cup DeleteLabels
      BY <1>2, <1>3 DEF DeleteLabels
    <3> QED
      BY <3>1 DEF PostInv, QuietInv
  <2> QED
    BY <1>1, <1>3, <1>4, <1>5, <2>1, <2>2, PosterQuietKept DEF posts
<1> QED
  BY <1>9, <1>10, <1>11 DEF PostInv

\* The send of a publication to a chat, answered by Telegram, keeps what is known of the product's
\* posts.
LEMMA PostsOfSend ==
  ASSUME TypeInv, TasksInv, NEW p \in Products, TextInv(p), PostInv(p), NEW t \in WorkOn(p), Send(t)
  PROVE  PostInv(p)'
<1>1. task[t].pc \in PosterLabels /\ task[t].pc = "s_send"
  BY DEF Send, At, PosterLabels
<1>2. /\ t \in Tasks /\ task[t].job = p /\ p # NoProduct /\ ~Ahead(p)
      /\ \A u \in WorkOn(p) : task[u].pc \notin {"p_ai", "p_write", "f_read"} \cup ShowLabels
      /\ \A m : Half(m, p) <=> (task[t].pc = "s_log" /\ m = Msg(t)) \/ (task[t].pc = "d_dead" /\ m = Least(task[t].todo))
      /\ status[p] = "active" /\ task[t].cap.text = data[p] /\ task[t].kind \in Publications
  BY <1>1, Poster DEF PubLabels
<1>3. /\ Rest(t) /\ SameJob(t) /\ SameSent(t) /\ task'[t].pc = "s_log" /\ Msg(t)' = Msg(t)
  <2>1. Goto(t, "s_log") /\ <<"s_send", "s_log">> \in Ways
    BY DEF Send, Ways
  <2>2. Rest(t) /\ SameJob(t) /\ SameSent(t) /\ task'[t].pc = "s_log"
    BY <1>1, <1>2, <2>1, GotoLands
  <2> QED
    BY <2>2 DEF Msg, SameSent
<1>4. /\ product' = [product EXCEPT ![Msg(t)] = p]
      /\ view' = [view EXCEPT ![Msg(t)] = [cap |-> task[t].cap, sold |-> FALSE]]
      /\ live' = live /\ dropped' = dropped \ {p} /\ UNCHANGED rows
  BY <1>2 DEF Send, Appear
<1>5. Msg(t) \in Msgs /\ Msg(t) \notin live
  <2>1. Unsent(task[t].pub, task[t].chat) /\ task[t].pub \in 1 .. MaxPubs /\ task[t].chat \in Chats /\ Msg(t) \in Msgs
    BY <1>1, <1>2, MsgTyped DEF Unsent, Publishing, At, Chats
  <2> QED
    BY <2>1 DEF TasksInv, MsgInv, Msg
<1>6. product \in [Msgs -> Products \cup {NoProduct}] /\ view \in [Msgs -> AnyLooks \cup {Hidden}] /\ live \subseteq Msgs
  BY DEF TypeInv, PostTypes
<1>7. LiveOf(p)' = LiveOf(p) /\ Msg(t) \notin LiveOf(p)
  BY <1>4, <1>5, <1>6 DEF LiveOf
<1>8. Matches(Msg(t), p)'
  <2>1. view'[Msg(t)] = [cap |-> task[t].cap, sold |-> FALSE]
    BY <1>4, <1>5, <1>6
  <2> QED
    BY <1>2, <1>3, <1>4, <2>1 DEF Matches, rows
<1>9. view'[Msg(t)] # Hidden
  <2>1. view'[Msg(t)] = [cap |-> task[t].cap, sold |-> FALSE]
    BY <1>4, <1>5, <1>6
  <2>2. [cap |-> task[t].cap, sold |-> FALSE] \in [cap : [text : [Fields -> Nat], tag : Lines], sold : BOOLEAN]
    BY <1>2, InHand DEF AnyCaptions, AnyTexts
  <2> QED
    BY <2>1, <2>2, HiddenAssumption
<1>10. \A m : ~Half(m, p)
  BY <1>1, <1>2
<1>11. \A m \in LiveOf(p) : Matches(m, p)'
  <2>1. \A m \in LiveOf(p) : Matches(m, p) /\ m # Msg(t) /\ m \in Msgs
    BY <1>2, <1>6, <1>7, <1>10 DEF PostInv, ShowInv, LiveOf
  <2>2. \A m \in LiveOf(p) : view'[m] = view[m]
    BY <1>4, <1>6, <2>1
  <2> QED
    BY <1>4, <2>1, <2>2 DEF Matches, rows
<1>12. \A m \in Msgs : product'[m] = p => (view'[m] # Hidden <=> m \in live') \/ m = Msg(t)'
  BY <1>3, <1>4, <1>5, <1>6, <1>10 DEF PostInv, SeenInv
<1>13. task'[t].job = p /\ task'[t].pc \in PosterLabels /\ p \notin dropped'
  BY <1>2, <1>3, <1>4 DEF SameJob, PosterLabels
<1>14. ShowInv(p)' /\ SeenInv(p)'
  BY <1>1, <1>3, <1>4, <1>5, <1>7, <1>8, <1>9, <1>11, <1>12, <1>13, PosterKept
<1>15. SentInv(p)'
  <2>1. task[t].sent \subseteq live /\ task[t].sent = {MsgOf(task[t].pub, c) : c \in 1 .. task[t].chat - 1}
    BY <1>1, <1>2 DEF PostInv, SentInv
  <2>2. task'[t].sent \subseteq live' /\ task'[t].sent = {MsgOf(task'[t].pub, c) : c \in 1 .. task'[t].chat - 1}
    BY <1>3, <1>4, <2>1 DEF SameSent
  <2> QED
    BY <1>1, <1>3, <1>13, <2>2, PosterSentKept DEF DeleteLabels
<1>16. QuietInv(p)'
  BY <1>1, <1>3, <1>13, PosterQuietKept
<1> QED
  BY <1>14, <1>15, <1>16 DEF PostInv

\* The log of a sent post, which makes it live, keeps what is known of the product's posts.
LEMMA PostsOfLog ==
  ASSUME TypeInv, TasksInv, NEW p \in Products, TextInv(p), PostInv(p), NEW t \in WorkOn(p), Log(t)
  PROVE  PostInv(p)'
<1>1. task[t].pc \in PosterLabels /\ task[t].pc = "s_log"
  BY DEF Log, At, PosterLabels
<1>2. /\ t \in Tasks /\ task[t].job = p /\ p # NoProduct /\ ~Ahead(p)
      /\ \A u \in WorkOn(p) : task[u].pc \notin {"p_ai", "p_write", "f_read"} \cup ShowLabels
      /\ \A m : Half(m, p) <=> (task[t].pc = "s_log" /\ m = Msg(t)) \/ (task[t].pc = "d_dead" /\ m = Least(task[t].todo))
      /\ task[t].kind \in Publications
  BY <1>1, Poster DEF PubLabels
<1>3. Msg(t) \in Msgs /\ task[t].chat \in Chats /\ product[Msg(t)] = p
  BY <1>1, <1>2, MsgTyped DEF TasksInv, MsgInv, At
<1> DEFINE ok == task[t].sent \cup {Msg(t)}
<1>4. live' = live \cup {Msg(t)} /\ UNCHANGED <<rows, product, view, dropped>> /\ NextTarget(t, ok)
  BY DEF Log, ghosts
<1>5. ok \in SUBSET Msgs /\ ok # {}
  BY <1>2, <1>3 DEF TypeInv, TaskTypes, TaskRecords
<1>6. /\ Rest(t) /\ SameJob(t) /\ task'[t].pub = task[t].pub /\ task'[t].sent = ok
      /\ \/ task'[t].pc = "s_send" /\ task'[t].chat = task[t].chat + 1
         \/ task'[t].pc = "s_mark" /\ task[t].chat = NumChats
  BY <1>1, <1>2, <1>4, <1>5, TargetLands
<1>7. task'[t].job = p /\ task'[t].pc \in PosterLabels /\ task'[t].pc \notin {"s_log", "d_dead", "d_del", "l_id", "d_list"}
  BY <1>2, <1>6 DEF SameJob, PosterLabels
<1>8. LiveOf(p)' = LiveOf(p) \cup {Msg(t)}
  BY <1>3, <1>4 DEF LiveOf
<1>9. Msg(t) \notin live /\ view[Msg(t)] # Hidden /\ Matches(Msg(t), p)
  BY <1>1 DEF PostInv, SeenInv, ShowInv, At
<1>10. status[p] # "removed" => \A m \in LiveOf(p) : Matches(m, p)
  BY <1>1, <1>2, <1>9 DEF PostInv, ShowInv, LiveOf
<1>11. \A m : Matches(m, p)' <=> Matches(m, p)
  BY <1>4 DEF Matches, rows
<1>12. \A m \in Msgs : product[m] = p => (view[m] # Hidden <=> m \in live')
  BY <1>1, <1>2, <1>4, <1>9 DEF PostInv, SeenInv
<1>13. ShowInv(p)' /\ SeenInv(p)'
  BY <1>1, <1>4, <1>6, <1>7, <1>8, <1>9, <1>10, <1>11, <1>12, PosterKept DEF rows
<1>14. SentInv(p)'
  <2>1. task[t].sent \subseteq live /\ task[t].sent = {MsgOf(task[t].pub, c) : c \in 1 .. task[t].chat - 1}
    BY <1>1, <1>2 DEF PostInv, SentInv
  <2>2. 1 .. task[t].chat = (1 .. task[t].chat - 1) \cup {task[t].chat}
    BY <1>3 DEF Chats
  <2>3. ok = {MsgOf(task[t].pub, c) : c \in 1 .. task[t].chat}
    BY <2>1, <2>2 DEF Msg
  <2>4. ok \subseteq live'
    BY <1>4, <2>1
  <2>5. task'[t].pc = "s_send" => task'[t].sent = {MsgOf(task'[t].pub, c) : c \in 1 .. task'[t].chat - 1}
    <3>1. task'[t].pc = "s_send" => task'[t].chat - 1 = task[t].chat
      BY <1>3, <1>6 DEF Chats
    <3> QED
      BY <1>6, <2>3, <3>1
  <2>6. task'[t].pc = "s_mark" => task'[t].sent = {MsgOf(task'[t].pub, c) : c \in Chats}
    BY <1>6, <2>3 DEF Chats
  <2> QED
    BY <1>1, <1>6, <1>7, <2>4, <2>5, <2>6, PosterSentKept DEF DeleteLabels
<1>15. QuietInv(p)'
  <2>1. p \notin dropped
    BY <1>1 DEF PostInv, QuietInv
  <2> QED
    BY <1>1, <1>4, <1>6, <1>7, <2>1, PosterQuietKept
<1> QED
  BY <1>13, <1>14, <1>15 DEF PostInv

\* what a publication keeps
LEMMA Keeps ==
  ASSUME TypeInv, TasksInv, NEW p \in Products, TextInv(p), PostInv(p), NEW t \in WorkOn(p),
         task[t].pc \in {"s_mark"} \cup DeleteLabels
  PROVE  /\ task[t].sent \subseteq LiveOf(p) /\ task[t].sent \in SUBSET Msgs /\ task[t].pub \in Nat
         /\ task[t].kind \in Publications =>
              /\ task[t].pub \in 1 .. MaxPubs
              /\ task[t].sent = {MsgOf(task[t].pub, c) : c \in Chats} /\ task[t].sent = PostsOf(task[t].pub)
         /\ task[t].kind = "sweep" => task[t].sent = {}
<1>1. /\ t \in Tasks /\ task[t].job = p /\ task[t].kind \in Publications \cup {"sweep"}
  BY Poster DEF PosterLabels
<1>2. task[t].kind = "sweep" => task[t].sent = {}
  BY <1>1 DEF TypeInv, TaskTypes, Filled
<1>3. task[t].kind \in Publications => task[t].pub \in 1 .. MaxPubs
  BY <1>1 DEF TypeInv, TaskTypes, Filled, DeleteLabels
<1>4. task[t].kind \in Publications => task[t].sent \subseteq live /\ task[t].sent = PostsOf(task[t].pub)
  BY <1>1 DEF PostInv, SentInv
<1>5. task[t].sent \in SUBSET Msgs /\ (\A m \in task[t].sent : product[m] = p) /\ task[t].pub \in Nat
  BY <1>1 DEF TasksInv, MsgInv, TypeInv, TaskTypes, TaskRecords
<1> QED
  BY <1>1, <1>2, <1>3, <1>4, <1>5 DEF LiveOf, PostsOf

\* the publication ends, or takes down what it replaces
LEMMA PostsOfMark ==
  ASSUME TypeInv, TasksInv, NEW p \in Products, TextInv(p), PostInv(p), NEW t \in WorkOn(p), MarkPosted(t)
  PROVE  PostInv(p)'
<1>1. task[t].pc \in PosterLabels /\ task[t].pc = "s_mark"
  BY DEF MarkPosted, At, PosterLabels
<1>2. /\ t \in Tasks /\ task[t].job = p /\ p # NoProduct /\ ~Ahead(p)
      /\ \A u \in WorkOn(p) : task[u].pc \notin {"p_ai", "p_write", "f_read"} \cup ShowLabels
      /\ \A m : Half(m, p) <=> (task[t].pc = "s_log" /\ m = Msg(t)) \/ (task[t].pc = "d_dead" /\ m = Least(task[t].todo))
      /\ task[t].kind \in Publications
  BY <1>1, Poster DEF PubLabels
<1>3. UNCHANGED <<rows, posts, dropped>>
  BY DEF MarkPosted, ghosts
<1>4. /\ Rest(t)
      /\ \/ task'[t] = Free /\ ~DeletePrevious
         \/ task'[t].pc = "d_list" /\ SameJob(t) /\ SameSent(t)
  BY <1>1, <1>2, DoneLands, GotoLands DEF MarkPosted, Ways
<1>5. /\ task'[t].job # p \/ task'[t].pc \in PosterLabels
      /\ task'[t].job = p => task'[t].pc = "d_list" /\ SameJob(t) /\ SameSent(t)
      /\ task'[t].job # p => ~DeletePrevious
  BY <1>2, <1>4 DEF Free, SameJob, PosterLabels, DeleteLabels
<1>6. LiveOf(p)' = LiveOf(p) /\ (\A m : Matches(m, p)' <=> Matches(m, p)) /\ (\A m : ~Half(m, p))
  BY <1>1, <1>2, <1>3 DEF LiveOf, Matches, posts, rows
<1>7. status[p] # "removed" => \A m \in LiveOf(p) : Matches(m, p)
  BY <1>2, <1>6 DEF PostInv, ShowInv
<1>8. \A m \in Msgs : product[m] = p => (view[m] # Hidden <=> m \in live)
  BY <1>6 DEF PostInv, SeenInv
<1>9. ShowInv(p)' /\ SeenInv(p)'
  BY <1>1, <1>3, <1>4, <1>5, <1>6, <1>7, <1>8, PosterKept DEF posts, rows
<1>10. SentInv(p)'
  <2>1. task[t].sent \subseteq live /\ task[t].sent = {MsgOf(task[t].pub, c) : c \in Chats}
    BY <1>1, <1>2, Keeps DEF LiveOf
  <2>2. task'[t].job = p => task'[t].sent \subseteq live' /\ task'[t].sent = {MsgOf(task'[t].pub, c) : c \in Chats}
    BY <1>3, <1>5, <2>1 DEF SameSent, posts
  <2> QED
    BY <1>1, <1>4, <1>5, <2>2, PosterSentKept
<1>11. QuietInv(p)'
  <2>1. p \in dropped => LiveOf(p) = {}
    BY DEF PostInv, QuietInv
  <2> QED
    BY <1>1, <1>3, <1>4, <1>5, <1>6, <2>1, PosterQuietKept
<1> QED
  BY <1>9, <1>10, <1>11 DEF PostInv

\* a task goes on to the next message to delete, or has deleted all but its own
LEMMA PostsOfRest ==
  ASSUME TypeInv, TasksInv, NEW p \in Products, TextInv(p), PostInv(p), NEW t \in WorkOn(p),
         task[t].pc \in DeleteLabels, NEW rest, DeleteNext(t, rest),
         rest = LiveOf(p)' \ task[t].sent, task[t].sent \subseteq LiveOf(p)',
         UNCHANGED <<rows, product>>, live' \subseteq live,
         status[p] # "removed" => \A m \in LiveOf(p)' : Matches(m, p)',
         \A m \in Msgs : product'[m] = p => (view'[m] # Hidden <=> m \in live')
  PROVE  PostInv(p)'
<1>1. task[t].pc \in PosterLabels
  BY DEF PosterLabels
<1>2. /\ t \in Tasks /\ task[t].job = p /\ p # NoProduct /\ task[t].kind \in Publications \cup {"sweep"}
  BY <1>1, Poster
<1>3. /\ task[t].sent \in SUBSET Msgs
      /\ task[t].kind \in Publications =>
           /\ task[t].pub \in 1 .. MaxPubs
           /\ task[t].sent = {MsgOf(task[t].pub, c) : c \in Chats} /\ task[t].sent = PostsOf(task[t].pub)
      /\ task[t].kind = "sweep" => task[t].sent = {}
  BY Keeps
<1>4. rest \in SUBSET Msgs /\ LiveOf(p)' \subseteq LiveOf(p) /\ LiveOf(p)' \subseteq live'
  BY DEF LiveOf, TypeInv, PostTypes
<1>5. /\ Rest(t)
      /\ \/ rest = {} /\ AfterDeleting(t)
         \/ /\ rest # {} /\ task'[t].pc = "d_del" /\ task'[t].todo = rest
            /\ SameJob(t) /\ SameSent(t) /\ dropped' = dropped
  BY <1>2, <1>4, DeleteLands
<1>6. /\ task'[t].job # p \/ task'[t].pc \in PosterLabels
      /\ task'[t].job = p =>
           /\ rest # {} /\ task'[t].pc = "d_del" /\ task'[t].todo = rest
           /\ SameJob(t) /\ SameSent(t) /\ dropped' = dropped
      /\ task'[t].job # p => rest = {} /\ AfterDeleting(t)
  <2>1. CASE rest = {} /\ AfterDeleting(t)
    <3>1. task'[t].job = NoProduct
      BY <1>2, <2>1, AfterLands DEF Free
    <3> QED
      BY <1>2, <2>1, <3>1
  <2>2. CASE /\ rest # {} /\ task'[t].pc = "d_del" /\ task'[t].todo = rest
             /\ SameJob(t) /\ SameSent(t) /\ dropped' = dropped
    BY <1>2, <2>2 DEF SameJob, PosterLabels, DeleteLabels
  <2> QED
    BY <1>5, <2>1, <2>2
<1>7. ShowInv(p)' /\ SeenInv(p)'
  <2>1. status' = status /\ (task'[t].job = p => task'[t].pc # "s_log")
    BY <1>6 DEF rows
  <2> QED
    BY <1>1, <1>5, <1>6, <2>1, PosterKept
<1>8. SentInv(p)'
  <2>1. task[t].sent \subseteq live'
    BY <1>4
  <2>2. task'[t].job = p =>
          /\ task'[t].sent \subseteq live'
          /\ task'[t].kind \in Publications => task'[t].sent = {MsgOf(task'[t].pub, c) : c \in Chats}
          /\ LiveOf(p)' = task'[t].todo \cup task'[t].sent /\ task'[t].todo \cap task'[t].sent = {}
    BY <1>3, <1>6, <2>1 DEF SameJob, SameSent
  <2> QED
    BY <1>1, <1>5, <1>6, <2>2, PosterSentKept
<1>9. QuietInv(p)'
  <2>1. p \in dropped => LiveOf(p)' = {}
    BY <1>4 DEF PostInv, QuietInv
  <2>2. rest = {} => LiveOf(p)' = task[t].sent
    OBVIOUS
  <2>3. CASE task'[t].job = p
    BY <1>1, <1>5, <1>6, <2>1, <2>3, PosterQuietKept
  <2>4. CASE task'[t].job # p /\ task[t].kind = "sweep"
    <3>1. LiveOf(p)' = {} /\ p \in dropped'
      BY <1>2, <1>3, <1>6, <2>2, <2>4 DEF AfterDeleting
    <3> QED
      BY <1>1, <1>5, <2>4, <3>1, PosterQuietKept
  <2>5. CASE task'[t].job # p /\ task[t].kind \in Publications
    <3>1. dropped' = dropped /\ LiveOf(p)' = PostsOf(task[t].pub) /\ task[t].pub \in 1 .. MaxPubs
      BY <1>3, <1>6, <2>2, <2>5 DEF AfterDeleting, Publications
    <3> QED
      BY <1>1, <1>5, <2>1, <2>5, <3>1, PosterQuietKept
  <2> QED
    BY <1>2, <2>3, <2>4, <2>5
<1> QED
  BY <1>7, <1>8, <1>9 DEF PostInv

\* the messages to delete are listed
LEMMA PostsOfList ==
  ASSUME TypeInv, TasksInv, NEW p \in Products, TextInv(p), PostInv(p), NEW t \in WorkOn(p), ListOld(t)
  PROVE  PostInv(p)'
<1>1. task[t].pc \in PosterLabels /\ task[t].pc = "d_list" /\ task[t].pc \in DeleteLabels
  BY DEF ListOld, At, PosterLabels, DeleteLabels
<1>2. /\ t \in Tasks /\ task[t].job = p /\ ~Ahead(p)
      /\ \A u \in WorkOn(p) : task[u].pc \notin {"p_ai", "p_write", "f_read"} \cup ShowLabels
      /\ \A m : Half(m, p) <=> (task[t].pc = "s_log" /\ m = Msg(t)) \/ (task[t].pc = "d_dead" /\ m = Least(task[t].todo))
  BY <1>1, Poster
<1>3. DeleteNext(t, LiveOf(p) \ task[t].sent) /\ UNCHANGED <<rows, live, product, view>>
  BY <1>2 DEF ListOld, posts
<1>4. LiveOf(p)' = LiveOf(p) /\ (\A m : Matches(m, p)' <=> Matches(m, p)) /\ (\A m : ~Half(m, p))
  BY <1>1, <1>2, <1>3 DEF LiveOf, Matches, rows
<1>5. status[p] # "removed" => \A m \in LiveOf(p)' : Matches(m, p)'
  BY <1>2, <1>4 DEF PostInv, ShowInv
<1>6. \A m \in Msgs : product'[m] = p => (view'[m] # Hidden <=> m \in live')
  BY <1>3, <1>4 DEF PostInv, SeenInv
<1>7. task[t].sent \subseteq LiveOf(p)'
  BY <1>1, <1>4, Keeps
<1> QED
  BY <1>1, <1>3, <1>4, <1>5, <1>6, <1>7, PostsOfRest

\* a message is deleted, but not yet marked dead
LEMMA PostsOfDelete ==
  ASSUME TypeInv, TasksInv, NEW p \in Products, TextInv(p), PostInv(p), NEW t \in WorkOn(p), Delete(t)
  PROVE  PostInv(p)'
<1> DEFINE l == Least(task[t].todo)
<1>1. task[t].pc \in PosterLabels /\ task[t].pc = "d_del" /\ task[t].pc \in DeleteLabels
  BY DEF Delete, At, PosterLabels, DeleteLabels
<1>2. /\ t \in Tasks /\ task[t].job = p /\ ~Ahead(p)
      /\ \A u \in WorkOn(p) : task[u].pc \notin {"p_ai", "p_write", "f_read"} \cup ShowLabels
      /\ \A m : Half(m, p) <=> (task[t].pc = "s_log" /\ m = Msg(t)) \/ (task[t].pc = "d_dead" /\ m = l)
  BY <1>1, Poster
<1>3. view' = [view EXCEPT ![l] = Hidden] /\ UNCHANGED <<rows, live, product, dropped>>
  BY DEF Delete, ghosts
<1>4. /\ Rest(t) /\ SameJob(t) /\ SameSent(t) /\ SameTodo(t) /\ task'[t].pc = "d_dead"
  <2>1. Goto(t, "d_dead") /\ <<"d_del", "d_dead">> \in Ways
    BY DEF Delete, Ways
  <2> QED
    BY <1>1, <1>2, <2>1, GotoLands
<1>5. task'[t].job = p /\ task'[t].pc \in PosterLabels /\ Least(task'[t].todo) = l
  BY <1>2, <1>4 DEF SameJob, SameTodo, PosterLabels, DeleteLabels
<1>6. LiveOf(p)' = LiveOf(p) /\ \A m : ~Half(m, p)
  BY <1>1, <1>2, <1>3 DEF LiveOf
<1> HIDE DEF l
<1>7. view \in [Msgs -> AnyLooks \cup {Hidden}] /\ live \subseteq Msgs
  BY DEF TypeInv, PostTypes
<1>8. \A m \in Msgs : m = l \/ view'[m] = view[m]
  BY <1>3, <1>7
<1>9. status'[p] # "removed" => \A m \in LiveOf(p)' : Matches(m, p)' \/ m = l
  <2>1. status[p] # "removed" => \A m \in LiveOf(p) : Matches(m, p)
    BY <1>2, <1>6 DEF PostInv, ShowInv
  <2>2. \A m \in LiveOf(p) : m = l \/ (Matches(m, p)' <=> Matches(m, p))
    BY <1>3, <1>7, <1>8 DEF Matches, rows, LiveOf
  <2> QED
    BY <1>3, <1>6, <2>1, <2>2 DEF rows
<1>10. \A m \in Msgs : product'[m] = p => (view'[m] # Hidden <=> m \in live') \/ m = l
  BY <1>3, <1>6, <1>8 DEF PostInv, SeenInv
<1>11. ShowInv(p)' /\ SeenInv(p)'
  <2>1. view'[l] = Hidden
    BY <1>3, <1>7, <1>1, <1>2, InHand DEF l
  <2> QED
    BY <1>1, <1>4, <1>5, <1>9, <1>10, <2>1, PosterKept
<1>12. SentInv(p)'
  <2>1. /\ task[t].kind \in Publications =>
             task[t].sent \subseteq live /\ task[t].sent = {MsgOf(task[t].pub, c) : c \in Chats}
        /\ LiveOf(p) = task[t].todo \cup task[t].sent /\ task[t].todo \cap task[t].sent = {}
    BY <1>1 DEF PostInv, SentInv, PostsOf
  <2>2. /\ task'[t].kind \in Publications =>
             task'[t].sent \subseteq live' /\ task'[t].sent = {MsgOf(task'[t].pub, c) : c \in Chats}
        /\ LiveOf(p)' = task'[t].todo \cup task'[t].sent /\ task'[t].todo \cap task'[t].sent = {}
    BY <1>3, <1>4, <1>6, <2>1 DEF SameJob, SameSent, SameTodo
  <2> QED
    BY <1>1, <1>4, <1>5, <2>2, PosterSentKept
<1>13. QuietInv(p)'
  <2>1. p \in dropped => LiveOf(p) = {}
    BY DEF PostInv, QuietInv
  <2> QED
    BY <1>1, <1>3, <1>4, <1>5, <1>6, <2>1, PosterQuietKept
<1> QED
  BY <1>11, <1>12, <1>13 DEF PostInv

\* the message is marked dead
LEMMA PostsOfDead ==
  ASSUME TypeInv, TasksInv, NEW p \in Products, TextInv(p), PostInv(p), NEW t \in WorkOn(p), MarkDead(t)
  PROVE  PostInv(p)'
<1> DEFINE l == Least(task[t].todo)
<1>1. task[t].pc \in PosterLabels /\ task[t].pc = "d_dead" /\ task[t].pc \in DeleteLabels
  BY DEF MarkDead, At, PosterLabels, DeleteLabels
<1>2. /\ t \in Tasks /\ task[t].job = p /\ ~Ahead(p)
      /\ \A u \in WorkOn(p) : task[u].pc \notin {"p_ai", "p_write", "f_read"} \cup ShowLabels
      /\ \A m : Half(m, p) <=> (task[t].pc = "s_log" /\ m = Msg(t)) \/ (task[t].pc = "d_dead" /\ m = l)
  BY <1>1, Poster
<1>3. live' = live \ {l} /\ DeleteNext(t, task[t].todo \ {l}) /\ UNCHANGED <<rows, product, view>>
  BY DEF MarkDead
<1>4. l \in task[t].todo /\ task[t].todo \in SUBSET Msgs
  BY <1>1, <1>2, InHand DEF TypeInv, TaskTypes, TaskRecords
<1> HIDE DEF l
<1>5. LiveOf(p) = task[t].todo \cup task[t].sent /\ task[t].todo \cap task[t].sent = {}
  BY <1>1 DEF PostInv, SentInv
<1>6. LiveOf(p)' = LiveOf(p) \ {l}
  BY <1>3 DEF LiveOf
<1>7. task[t].todo \ {l} = LiveOf(p)' \ task[t].sent /\ task[t].sent \subseteq LiveOf(p)'
  BY <1>4, <1>5, <1>6
<1>8. \A m : Half(m, p) <=> m = l
  BY <1>1, <1>2
<1>9. \A m : Matches(m, p)' <=> Matches(m, p)
  BY <1>3 DEF Matches, rows
<1>10. status[p] # "removed" => \A m \in LiveOf(p)' : Matches(m, p)'
  BY <1>2, <1>6, <1>8, <1>9 DEF PostInv, ShowInv
<1>11. \A m \in Msgs : product'[m] = p => (view'[m] # Hidden <=> m \in live')
  BY <1>1, <1>3, <1>8 DEF PostInv, SeenInv, At, l
<1> QED
  BY <1>1, <1>3, <1>7, <1>10, <1>11, PostsOfRest

-----------------------------------------------------------------------------
(* The other tasks and the posts of their product *)

\* the labels at which a task sends or deletes
PostLabels == {"s_send", "s_log", "s_mark"} \cup DeleteLabels

\* a task that neither sends nor deletes, and changes no post
LEMMA PostsStay ==
  ASSUME TypeInv, NEW p \in Products, SeenInv(p), SentInv(p), QuietInv(p), NEW t \in Tasks, Rest(t),
         UNCHANGED <<posts, dropped>>,
         task[t].job # p \/ task[t].pc \notin PostLabels,
         task'[t].job # p \/ (task'[t].pc \notin PostLabels /\ (task'[t].kind \in Publications => task'[t].sent = {}))
  PROVE  SeenInv(p)' /\ SentInv(p)' /\ QuietInv(p)'
<1>1. /\ \A u \in WorkOn(p) \ {t} : u \in WorkOn(p)' /\ task'[u] = task[u] /\ Msg(u)' = Msg(u)
      /\ \A u \in WorkOn(p)' \ {t} : u \in WorkOn(p)
      /\ t \in WorkOn(p)' <=> task'[t].job = p
      /\ t \in WorkOn(p) <=> task[t].job = p
      /\ LiveOf(p)' = LiveOf(p)
  BY DEF WorkOn, Rest, LiveOf, posts, Msg
<1>2. \A m : Half(m, p)' <=> Half(m, p)
  BY <1>1 DEF Half, At, PostLabels, DeleteLabels
<1>3. SeenInv(p)'
  <2>1. \A u \in WorkOn(p)' : task'[u].pc \in {"s_log", "d_dead"} => u # t
    BY <1>1 DEF PostLabels, DeleteLabels
  <2> QED
    BY <1>1, <1>2, <2>1 DEF SeenInv, posts, At
<1>4. SentInv(p)'
  <2>1. ASSUME NEW u \in WorkOn(p)', u # t
        PROVE  /\ task'[u].kind \in Publications => task'[u].sent \subseteq live
               /\ task'[u].pc \in {"s_send", "s_log"} =>
                    task'[u].sent = {MsgOf(task'[u].pub, c) : c \in 1 .. task'[u].chat - 1}
               /\ task'[u].kind \in Publications /\ task'[u].pc \in {"s_mark"} \cup DeleteLabels =>
                    task'[u].sent = {MsgOf(task'[u].pub, c) : c \in Chats}
               /\ task'[u].pc \in {"d_del", "d_dead"} =>
                    LiveOf(p)' = task'[u].todo \cup task'[u].sent /\ task'[u].todo \cap task'[u].sent = {}
    BY <1>1, <2>1 DEF SentInv, PostsOf
  <2>2. ASSUME t \in WorkOn(p)'
        PROVE  /\ task'[t].kind \in Publications => task'[t].sent \subseteq live
               /\ task'[t].pc \notin {"s_send", "s_log", "s_mark", "d_del", "d_dead"} \cup DeleteLabels
    BY <1>1, <2>2 DEF PostLabels, DeleteLabels
  <2> QED
    BY <2>1, <2>2 DEF SentInv, PostsOf, posts
<1>5. QuietInv(p)'
  <2>1. (\A u \in WorkOn(p)' : task'[u].pc \notin PostLabels) <=> (\A u \in WorkOn(p) : task[u].pc \notin PostLabels)
    BY <1>1
  <2>2. \A u \in WorkOn(p)' : task'[u].pc = "s_log" => u \in WorkOn(p) /\ task[u].pc = "s_log"
    BY <1>1 DEF PostLabels
  <2> QED
    BY <1>1, <2>1, <2>2 DEF QuietInv, PostsOf, PostLabels, posts
<1> QED
  BY <1>3, <1>4, <1>5

\* a dropped product has its posts listed next
LEMMA PostsOfDrop ==
  ASSUME TypeInv, TasksInv, NEW p \in Products, TextInv(p), PostInv(p), NEW t \in WorkOn(p), Drop(t)
  PROVE  PostInv(p)'
<1>1. /\ t \in Tasks /\ task[t].job = p /\ task[t].pc = "w_drop" /\ Goto(t, "d_list") /\ Shape(task[t])
      /\ UNCHANGED <<posts, dropped>> /\ OneKind(p)
  BY DEF WorkOn, Drop, At, ghosts, TypeInv, TaskTypes, TextInv
<1>2. Rest(t) /\ SameJob(t) /\ SameSent(t) /\ task'[t].pc = "d_list"
  BY <1>1, GotoLands DEF Ways
<1>3. task[t].kind = "sweep" /\ WorkOn(p) = {t}
  <2>1. task[t].kind = "sweep"
    BY <1>1 DEF Shape
  <2> QED
    BY <1>1, <2>1, Company
<1>4. WorkOn(p)' = {t} /\ LiveOf(p)' = LiveOf(p) /\ task'[t].kind = "sweep"
  BY <1>1, <1>2, <1>3 DEF WorkOn, Rest, SameJob, LiveOf, posts
<1>5. \A m : ~Half(m, p) /\ ~Half(m, p)'
  BY <1>1, <1>2, <1>3, <1>4 DEF Half, At
<1>6. SeenInv(p)'
  BY <1>1, <1>2, <1>4, <1>5 DEF PostInv, SeenInv, posts, At
<1>7. SentInv(p)'
  BY <1>2, <1>4 DEF SentInv, Publications
<1>8. QuietInv(p)'
  BY <1>1, <1>2, <1>4 DEF PostInv, QuietInv, DeleteLabels
<1>9. ShowInv(p)'
  BY ShowOfRow DEF PostInv
<1> QED
  BY <1>6, <1>7, <1>8, <1>9 DEF PostInv

\* who edits posts is alone with them: the others have not begun to polish
LEMMA Editor ==
  ASSUME TypeInv, TasksInv, NEW p \in Products, TextInv(p), NEW t \in WorkOn(p), task[t].pc \in ShowLabels
  PROVE  /\ t \in Tasks /\ task[t].job = p /\ p # NoProduct /\ task[t].kind \in {"toggle", "edit"}
         /\ \A u \in WorkOn(p) \ {t} : task[u].kind = "edit" /\ task[u].pc \in BeforePolish
         /\ \A m : ~Half(m, p)
<1>1. t \in Tasks /\ task[t].job = p /\ p # NoProduct /\ Shape(task[t]) /\ OneKind(p)
  BY DEF WorkOn, TypeInv, TaskTypes, TextInv, Products, NoProduct
<1>2. task[t].kind \in {"toggle", "edit"} /\ task[t].pc \notin BeforePolish
  BY <1>1 DEF Shape, ShowLabels, BeforePolish
<1>3. \A u \in WorkOn(p) \ {t} : task[u].kind = "edit" /\ task[u].pc \in BeforePolish
  BY <1>1, <1>2, Company
<1>4. \A u \in WorkOn(p) : task[u].pc \notin {"s_log", "d_dead"}
  BY <1>3 DEF BeforePolish, ShowLabels
<1>5. \A m : ~Half(m, p)
  BY <1>4 DEF Half, At
<1> QED
  BY <1>1, <1>2, <1>3, <1>5

\* a post shows the product anew
LEMMA PostsOfEdit ==
  ASSUME TypeInv, TasksInv, NEW p \in Products, TextInv(p), PostInv(p), NEW t \in WorkOn(p), EditPost(t)
  PROVE  PostInv(p)'
<1>0. task[t].pc = "x_edit" /\ t \in Tasks
  BY DEF EditPost, At, WorkOn
<1>l. PICK l \in Msgs : l = Least(task[t].todo)
  BY <1>0, InHand
<1>1. /\ task[t].pc = "x_edit" /\ task[t].pc \in ShowLabels /\ EditNext(t, Others(t)) /\ view[l] # Hidden
      /\ view' = [view EXCEPT ![l] = [cap |-> task[t].cap, sold |-> task[t].sold]]
      /\ UNCHANGED <<rows, live, product, dropped>>
  BY <1>l DEF EditPost, At, ShowLabels, ghosts
<1>2. /\ t \in Tasks /\ task[t].job = p /\ p # NoProduct /\ task[t].kind \in {"toggle", "edit"}
      /\ \A u \in WorkOn(p) \ {t} : task[u].kind = "edit" /\ task[u].pc \in BeforePolish
      /\ \A m : ~Half(m, p)
  BY <1>1, Editor
<1>3. /\ l \in task[t].todo /\ l \in Msgs /\ task[t].cap \in AnyCaptions /\ task[t].sold \in BOOLEAN
      /\ task[t].todo \in SUBSET Msgs /\ Others(t) = task[t].todo \ {l} /\ Others(t) \in SUBSET Msgs
  BY <1>1, <1>2, <1>l, InHand DEF TypeInv, TaskTypes, TaskRecords, Others
<1>4. /\ Rest(t)
      /\ \/ Others(t) = {} /\ task'[t] = Free
         \/ Others(t) # {} /\ task'[t].pc = "x_edit" /\ task'[t].todo = Others(t) /\ SameJob(t)
  BY <1>1, <1>2, <1>3, EditLands
<1>5. /\ WorkOn(p)' \subseteq WorkOn(p)
      /\ \A u \in WorkOn(p) \ {t} : u \in WorkOn(p)' /\ task'[u] = task[u]
      /\ t \in WorkOn(p)' => Others(t) # {} /\ task'[t].pc = "x_edit" /\ task'[t].todo = Others(t) /\ SameJob(t)
      /\ t \notin WorkOn(p)' => Others(t) = {}
      /\ LiveOf(p)' = LiveOf(p)
  BY <1>1, <1>2, <1>4 DEF WorkOn, Rest, SameJob, Free, LiveOf
<1>6. \A u \in WorkOn(p)' : /\ task'[u].pc \in {"x_edit"} \cup BeforePolish
                            /\ task'[u].kind \in {"toggle", "edit"}
                            /\ task'[u].pc = "x_edit" => u = t
  BY <1>2, <1>5 DEF SameJob, BeforePolish
<1>7. Ahead(p)' <=> Ahead(p)
  BY <1>1, <1>5 DEF Ahead
<1>8. /\ \A m \in Msgs : m # l => view'[m] = view[m]
      /\ view'[l] = [cap |-> task[t].cap, sold |-> task[t].sold]
  BY <1>1, <1>3 DEF TypeInv, PostTypes
<1>9. \A m \in Msgs : view'[m] # Hidden <=> view[m] # Hidden
  <2>1. [cap |-> task[t].cap, sold |-> task[t].sold] \in [cap : [text : [Fields -> Nat], tag : Lines], sold : BOOLEAN]
    BY <1>3 DEF AnyCaptions, AnyTexts
  <2>2. view'[l] # Hidden
    BY <1>8, <2>1, HiddenAssumption
  <2> QED
    BY <1>1, <1>8, <2>2
<1>10. task[t].todo \subseteq LiveOf(p) /\ LiveOf(p) \subseteq Msgs
  BY <1>1, <1>2 DEF PostInv, ShowInv, LiveOf, TypeInv, PostTypes
<1>11. ~Ahead(p) => \A m \in LiveOf(p) \ Others(t) : Matches(m, p)'
  <2>1. ASSUME ~Ahead(p)
        PROVE  Matches(l, p)'
    <3>1. Knows(t, p)
      BY DEF TextInv
    <3>2. task[t].cap.text = data[p] /\ (task[t].sold <=> status[p] = "sold")
      BY <1>1, <2>1, <3>1 DEF Knows
    <3>3. view'[l].cap.text = task[t].cap.text /\ view'[l].sold = task[t].sold
      BY <1>8
    <3>4. data' = data /\ status' = status
      BY <1>1 DEF rows
    <3> QED
      BY <3>2, <3>3, <3>4 DEF Matches
  <2>2. ASSUME ~Ahead(p), NEW m \in LiveOf(p) \ task[t].todo
        PROVE  Matches(m, p)'
    <3>1. Matches(m, p)
      BY <1>1, <2>2 DEF PostInv, ShowInv
    <3>2. view'[m] = view[m]
      BY <1>3, <1>8, <1>10, <2>2
    <3> QED
      BY <1>1, <3>1, <3>2 DEF Matches, rows
  <2>3. \A m \in LiveOf(p) \ Others(t) : m = l \/ m \in LiveOf(p) \ task[t].todo
    BY <1>3
  <2> QED
    BY <2>1, <2>2, <2>3
<1>12. ShowInv(p)'
  <2>1. ASSUME NEW u \in WorkOn(p)'
        PROVE  /\ task'[u].pc \notin {"x_dead", "s_log"}
               /\ task'[u].pc = "x_edit" =>
                    /\ task'[u].todo \subseteq LiveOf(p)'
                    /\ ~Ahead(p)' => \A m \in LiveOf(p)' \ task'[u].todo : Matches(m, p)'
    <3>1. CASE u = t
      BY <1>3, <1>5, <1>7, <1>10, <1>11, <2>1, <3>1
    <3>2. CASE u # t
      BY <1>6, <2>1, <3>2 DEF BeforePolish
    <3> QED
      BY <3>1, <3>2
  <2>2. ASSUME ~Ahead(p)', \A u \in WorkOn(p)' : task'[u].pc \notin {"p_ai", "p_write", "f_read"} \cup ShowLabels
        PROVE  \A m \in LiveOf(p)' : Matches(m, p)'
    <3>1. t \notin WorkOn(p)'
      BY <1>5, <2>2 DEF ShowLabels
    <3> QED
      BY <1>5, <1>7, <1>11, <2>2, <3>1
  <2> QED
    BY <2>1, <2>2 DEF ShowInv
<1>13. SeenInv(p)'
  <2>1. \A m \in Msgs : product'[m] = p => (view'[m] # Hidden <=> m \in live')
    BY <1>1, <1>2, <1>9 DEF PostInv, SeenInv
  <2>2. \A u \in WorkOn(p)' : ~At(u, "s_log")' /\ ~At(u, "d_dead")'
    BY <1>6 DEF At, BeforePolish
  <2> QED
    BY <2>1, <2>2 DEF SeenInv
<1>14. SentInv(p)'
  <2>1. \A u \in WorkOn(p)' : task'[u].kind \notin Publications
                              /\ task'[u].pc \notin {"s_send", "s_log", "d_del", "d_dead"}
    BY <1>6 DEF BeforePolish, Publications
  <2> QED
    BY <2>1 DEF SentInv
<1>15. QuietInv(p)'
  <2>1. \A u \in WorkOn(p)' : task'[u].pc # "s_log"
    BY <1>6 DEF BeforePolish
  <2>2. \A u \in WorkOn(p) : task[u].pc \notin {"s_send", "s_log", "s_mark"} \cup DeleteLabels
    BY <1>1, <1>2 DEF BeforePolish, DeleteLabels
  <2>3. /\ p \in dropped => LiveOf(p) = {}
        /\ DeletePrevious /\ p \notin dropped =>
             (\A m \in Msgs : product[m] # p) \/ \E n \in 1 .. MaxPubs : LiveOf(p) = PostsOf(n)
    BY <2>2 DEF PostInv, QuietInv
  <2> QED
    BY <1>1, <1>5, <2>1, <2>3 DEF QuietInv, PostsOf
<1> QED
  BY <1>12, <1>13, <1>14, <1>15 DEF PostInv

\* the posts a task edits are there
LEMMA NothingMissing ==
  ASSUME TypeInv, TasksInv, NEW p \in Products, TextInv(p), PostInv(p), NEW t \in WorkOn(p)
  PROVE  ~EditMissing(t) /\ ~Bury(t)
<1>1. ~Bury(t)
  BY DEF Bury, At, PostInv, ShowInv
<1>2. ASSUME EditMissing(t)
      PROVE  FALSE
  <2> DEFINE l == Least(task[t].todo)
  <2>1. task[t].pc = "x_edit" /\ task[t].pc \in ShowLabels /\ view[l] = Hidden
    BY <1>2 DEF EditMissing, At, ShowLabels
  <2>2. t \in Tasks /\ \A m : ~Half(m, p)
    BY <2>1, Editor
  <2>3. l \in task[t].todo /\ l \in Msgs
    BY <2>1, <2>2, InHand
  <2>4. l \in LiveOf(p)
    BY <2>1, <2>3 DEF PostInv, ShowInv
  <2>5. product[l] = p /\ l \in live
    BY <2>4 DEF LiveOf
  <2> QED
    BY <2>1, <2>2, <2>3, <2>5 DEF PostInv, SeenInv
<1> QED
  BY <1>1, <1>2

-----------------------------------------------------------------------------
(* Every step of a task, and the product it works on *)

\* nothing of the text changes, or the polish is dropped for a newer edit
LEMMA TextOfSteps ==
  ASSUME TypeInv, TasksInv, NEW p \in Products, TextInv(p), NEW t \in WorkOn(p),
         \/ Lock(t) \/ Send(t) \/ Log(t) \/ MarkPosted(t) \/ ListOld(t) \/ Delete(t) \/ MarkDead(t)
         \/ ListLive(t) \/ EditPost(t) \/ Answer(t) \/ Polished(t) \/ PolishFails(t),
         p \notin mixed', SoloInv(p)
  PROVE  TextInv(p)'
<1>0. /\ t \in Tasks /\ task[t].job = p /\ p # NoProduct /\ Free.job = NoProduct
      /\ LiveOf(p) \ task[t].sent \in SUBSET Msgs /\ LiveOf(p) \in SUBSET Msgs
      /\ Others(t) \in SUBSET Msgs /\ BoundInv
  BY DEF WorkOn, Products, NoProduct, Free, LiveOf, TypeInv, PostTypes, TaskTypes, TaskRecords, Others, TasksInv
<1>1. status' = status /\ data' = data /\ caption' = caption
  BY DEF Lock, EnterLock, Send, Log, MarkPosted, ListOld, Delete, MarkDead, ListLive, EditPost, Answer, Polished,
         PolishFails, rows
<1>2. ASSUME Rest(t), task'[t].job # p, task[t].pc \notin {"e_answer", "p_wait", "p_ai", "p_write"}
      PROVE  TextInv(p)'
  BY <1>1, <1>2, TextKept
<1>3. ASSUME NEW from \in Labels, NEW to \in Labels, task[t].pc = from, task'[t].pc = to,
             Rest(t), SameJob(t), SameText(t),
             <<from, to>> \in {<<"l_wait", "l_id">>, <<"l_wait", "s_send">>, <<"s_send", "s_log">>, <<"s_log", "s_send">>,
                <<"s_log", "s_mark">>, <<"s_mark", "d_list">>, <<"d_list", "d_del">>, <<"d_del", "d_dead">>,
                <<"d_dead", "d_del">>, <<"x_list", "x_edit">>, <<"x_edit", "x_edit">>, <<"e_answer", "p_wait">>,
                <<"p_ai", "p_write">>}
      PROVE  TextInv(p)'
  <2>1. /\ to \in PubLabels => from \in PubLabels
        /\ to # "t_set"
        /\ to \in {"p_ai", "p_write"} <=> from \in {"p_ai", "p_write"}
        /\ to \in ShowLabels => from \in ShowLabels
        /\ to \in {"e_answer", "p_wait"} <=> from \in {"e_answer", "p_wait"}
    BY <1>3 DEF PubLabels, ShowLabels
  <2> QED
    BY <1>1, <1>3, <2>1, TextKept
<1>4. Labels = {"idle", "l_wait", "l_id", "s_send", "s_log", "s_mark", "d_list", "d_del", "d_dead",
                "x_id", "x_list", "x_edit", "x_dead", "t_set", "e_write", "e_answer", "p_wait",
                "p_ai", "p_write", "f_read", "w_probe", "w_drop"}
  BY DEF Labels, PubLabels, DeleteLabels, ShowLabels, EditLabels
<1>5. CASE Lock(t)
  BY <1>0, <1>3, <1>4, <1>5, LockMoves
<1>6. CASE Send(t)
  BY <1>0, <1>3, <1>4, <1>6, GotoLands DEF Send, At, Ways
<1>7. CASE Log(t)
  <2>1. /\ task[t].pc = "s_log" /\ NextTarget(t, task[t].sent \cup {Msg(t)})
        /\ task[t].sent \cup {Msg(t)} \in SUBSET Msgs
    BY <1>0, <1>7, MsgTyped DEF Log, At, TypeInv, TaskTypes, TaskRecords
  <2>2. /\ Rest(t) /\ SameJob(t) /\ SameText(t) /\ task'[t].pc \in {"s_send", "s_mark"}
    BY <1>0, <2>1, TargetLands
  <2> QED
    BY <1>3, <1>4, <2>1, <2>2
<1>8. CASE MarkPosted(t)
  BY <1>0, <1>2, <1>3, <1>4, <1>8, DoneLands, GotoLands DEF MarkPosted, At, Ways
<1>9. ASSUME NEW rest \in SUBSET Msgs, DeleteNext(t, rest), task[t].pc \in {"d_list", "d_dead"}
      PROVE  TextInv(p)'
  <2>1. task[t].pc \in DeleteLabels
    BY <1>9 DEF DeleteLabels
  <2>2. CASE rest = {}
    BY <1>0, <1>2, <1>9, <2>1, <2>2, DeleteLands, AfterLands
  <2>3. CASE rest # {}
    BY <1>0, <1>3, <1>4, <1>9, <2>1, <2>3, DeleteLands
  <2> QED
    BY <2>2, <2>3
<1>10. CASE ListOld(t)
  BY <1>0, <1>9, <1>10 DEF ListOld, At
<1>11. CASE MarkDead(t)
  BY <1>0, <1>9, <1>11 DEF MarkDead, At, Others
<1>12. CASE Delete(t)
  BY <1>0, <1>3, <1>4, <1>12, GotoLands DEF Delete, At, Ways
<1>13. ASSUME NEW rest \in SUBSET Msgs, EditNext(t, rest), task[t].pc \in {"x_list", "x_edit"}
       PROVE  TextInv(p)'
  <2>1. task[t].pc \in ShowLabels \ {"x_id"}
    BY <1>13 DEF ShowLabels
  <2>2. CASE rest = {}
    BY <1>0, <1>2, <1>13, <2>1, <2>2, EditLands
  <2>3. CASE rest # {}
    BY <1>0, <1>3, <1>4, <1>13, <2>1, <2>3, EditLands
  <2> QED
    BY <2>2, <2>3
<1>14. CASE ListLive(t) \/ EditPost(t)
  BY <1>0, <1>13, <1>14 DEF ListLive, EditPost, At
<1>15. CASE Answer(t)
  BY <1>0, <1>3, <1>4, <1>15, GotoLands DEF Answer, At, Ways
<1>16. CASE Polished(t) /\ data[p] = task[t].base
  BY <1>0, <1>3, <1>4, <1>16, GotoLands DEF Polished, Unless, At, Ways
<1>17. CASE (Polished(t) \/ PolishFails(t)) /\ data[p] # task[t].base
  <2>1. Done(t) /\ task[t].pc = "p_ai"
    BY <1>0, <1>17 DEF Polished, PolishFails, Unless, At
  <2>2. Knows(t, p)
    BY DEF TextInv
  <2>3. Ahead(p)
    BY <1>17, <2>1, <2>2 DEF Knows
  <2>4. Rest(t) /\ task'[t].job # p
    BY <1>0, <2>1, DoneLands
  <2>5. WorkOn(p)' = WorkOn(p) \ {t} /\ \A u \in WorkOn(p)' : task'[u] = task[u]
    BY <1>0, <2>4 DEF WorkOn, Rest
  <2>6. Ahead(p)'
    BY <2>1, <2>3, <2>5 DEF Ahead
  <2>7. \A u \in WorkOn(p)' : Knows(u, p)'
    <3>1. \A u \in WorkOn(p)' : Knows(u, p)
      BY <2>5 DEF TextInv
    <3> QED
      BY <1>1, <2>3, <2>5, <2>6, <3>1 DEF Knows
  <2> QED
    BY <2>5, <2>6, <2>7 DEF TextInv, OneKind, CaptionInv
<1>18. CASE PolishFails(t) /\ data[p] = task[t].base
  <2>1. Goto(t, "f_read") /\ task[t].pc = "p_ai" /\ p \notin met
    BY <1>0, <1>18 DEF PolishFails, Unless, At
  <2>2. Rest(t) /\ SameJob(t) /\ SameText(t) /\ task'[t].pc = "f_read"
    BY <1>0, <2>1, GotoLands DEF Ways
  <2>3. WorkOn(p)' = WorkOn(p) /\ \A u \in WorkOn(p) \ {t} : task'[u] = task[u]
    BY <1>0, <2>2 DEF WorkOn, Rest, SameJob
  <2>4. Ahead(p)' <=> Ahead(p)
    BY <2>1, <2>2, <2>3 DEF Ahead
  <2>5. caption'[p].text = data'[p]
    BY <1>1, <2>1 DEF SoloInv
  <2>6. ASSUME NEW u \in WorkOn(p)
        PROVE  Knows(u, p)'
    <3>1. Knows(u, p)
      BY DEF TextInv
    <3>2. CASE u # t
      BY <1>1, <2>3, <2>4, <3>1, <3>2 DEF Knows
    <3>3. CASE u = t
      <4>1. task[t].kind \notin Publications
        BY <1>0, <2>1 DEF TypeInv, TaskTypes, Shape, EditLabels, Publications
      <4> QED
        BY <2>2, <3>3, <4>1 DEF Knows, SameJob, ShowLabels
    <3> QED
      BY <3>2, <3>3
  <2>7. OneKind(p)'
    BY <2>2, <2>3 DEF TextInv, OneKind, SameJob
  <2> QED
    BY <2>3, <2>5, <2>6, <2>7 DEF TextInv, CaptionInv
<1> QED
  BY <1>5, <1>6, <1>7, <1>8, <1>10, <1>11, <1>12, <1>14, <1>15, <1>16, <1>17, <1>18

\* a task that shows or edits leaves alone what others send and delete
LEMMA PostsOfSteps ==
  ASSUME TypeInv, TasksInv, TypeInv', NEW p \in Products, TextInv(p), PostInv(p), NEW t \in WorkOn(p),
         \/ ShowId(t) \/ ListLive(t) \/ SetSold(t) \/ StoreEdit(t) \/ Answer(t) \/ StartPolish(t) \/ Polished(t)
         \/ PolishFails(t) \/ StorePolish(t) \/ Refresh(t)
  PROVE  PostInv(p)'
<1>1. t \in Tasks /\ task[t].job = p /\ p # NoProduct /\ Shape(task[t]) /\ Shape(task[t])' /\ BoundInv
  BY DEF WorkOn, Products, NoProduct, TypeInv, TaskTypes, TasksInv
<1>2. /\ UNCHANGED <<posts, dropped>>
      /\ task[t].pc \in ShowLabels \cup EditLabels \cup {"t_set"}
  BY DEF ShowId, ListLive, SetSold, StoreEdit, Answer, StartPolish, EnterPolish, Polished, PolishFails, StorePolish,
         Refresh, At, ghosts, ShowLabels, EditLabels
<1>3. task[t].kind \in {"toggle", "edit"} /\ task[t].pc \notin PostLabels /\ task[t] # Free
  BY <1>1, <1>2 DEF Shape, ShowLabels, EditLabels, PostLabels, DeleteLabels, Free
<1>4. TaskStep(t) /\ ~Probe(t) /\ \A q \in Products : ~Start(t, q)
  <2>1. TaskStep(t)
    BY DEF TaskStep, QuietStep, ShowStep
  <2>2. ~Probe(t)
    BY <1>2 DEF Probe, At, ShowLabels, EditLabels
  <2> QED
    BY <1>1, <1>3, <2>1, <2>2, StartMoves
<1>5. SameJob(t) \/ task'[t].job = NoProduct
  BY <1>1, <1>4, KeepsProduct
<1>6. task'[t].job # p \/ (task'[t].pc \notin PostLabels /\ task'[t].kind \notin Publications)
  <2>1. task'[t].kind \in {"toggle", "edit"} => task'[t].pc \notin PostLabels /\ task'[t].kind \notin Publications
    BY <1>1 DEF Shape, PostLabels, DeleteLabels, PubLabels, Publications
  <2> QED
    BY <1>1, <1>3, <1>5, <2>1 DEF SameJob
<1>7. Rest(t)
  BY <1>1, <1>4, OneMoves
<1>8. SeenInv(p)' /\ SentInv(p)' /\ QuietInv(p)'
  BY <1>1, <1>2, <1>3, <1>6, <1>7, PostsStay DEF PostInv
<1>9. ShowInv(p)'
  BY ShowOfListing, ShowOfRow, ShowOfQuiet, ShowOfPolish DEF PostInv
<1> QED
  BY <1>8, <1>9 DEF PostInv

\* every step of a task that works on p
LEMMA OwnMoves ==
  ASSUME TypeInv, TasksInv, TypeInv', NEW p \in Products, ProductInv(p), NEW t \in WorkOn(p), TaskStep(t), faults' = 0,
         p \notin mixed', SoloInv(p)
  PROVE  ProductInv(p)'
<1>1. TextInv(p) /\ PostInv(p) /\ t \in Tasks /\ task[t].job = p /\ p # NoProduct /\ faults \in Nat
  BY DEF ProductInv, PostInv, WorkOn, Products, NoProduct, TypeInv, CountTypes
<1>2. ~(SendFails(t) \/ DeleteFails(t) \/ EditPostFails(t) \/ ProbeFails(t) \/ TaskFails(t))
  BY <1>1 DEF SendFails, DeleteFails, EditPostFails, ProbeFails, TaskFails, Fault
<1>3. task[t] # Free /\ task[t].pc # "w_probe" /\ ~StartSweep(t) /\ ~Probe(t) /\ \A q \in Products : ~Start(t, q)
  <2>1. task[t] # Free /\ task[t].pc # "w_probe"
    BY <1>1 DEF Free, TypeInv, TaskTypes, Shape
  <2> QED
    BY <1>1, <2>1, StartMoves DEF StartSweep, SweepOver, Probe, At
<1>4. ~EditMissing(t) /\ ~Bury(t)
  BY <1>1, NothingMissing
<1>5. \/ Lock(t) \/ PublishId(t) \/ Send(t) \/ Log(t) \/ MarkPosted(t) \/ ListOld(t) \/ Delete(t) \/ MarkDead(t)
      \/ ShowId(t) \/ ListLive(t) \/ EditPost(t) \/ SetSold(t) \/ StoreEdit(t) \/ Answer(t) \/ StartPolish(t)
      \/ Polished(t) \/ PolishFails(t) \/ StorePolish(t) \/ Refresh(t) \/ Drop(t)
  BY <1>2, <1>3, <1>4 DEF TaskStep, QuietStep, SendingStep, DeleteStep, ShowStep
<1>6. TextInv(p)'
  <2>1. CASE \/ Lock(t) \/ Send(t) \/ Log(t) \/ MarkPosted(t) \/ ListOld(t) \/ Delete(t) \/ MarkDead(t)
             \/ ListLive(t) \/ EditPost(t) \/ Answer(t) \/ Polished(t) \/ PolishFails(t)
    BY <1>1, <2>1, TextOfSteps
  <2>2. CASE PublishId(t) \/ ShowId(t) \/ StorePolish(t)
    BY <1>1, <2>2, TextOfCaption
  <2>3. CASE StoreEdit(t) \/ StartPolish(t)
    BY <1>1, <2>3, TextOfEdit
  <2>4. CASE Refresh(t)
    BY <1>1, <2>4, TextOfRefresh
  <2>5. CASE SetSold(t) \/ Drop(t)
    BY <1>1, <2>5, TextOfStatus
  <2> QED
    BY <1>5, <2>1, <2>2, <2>3, <2>4, <2>5
<1>7. PostInv(p)'
  <2>1. CASE \/ ShowId(t) \/ ListLive(t) \/ SetSold(t) \/ StoreEdit(t) \/ Answer(t) \/ StartPolish(t) \/ Polished(t)
             \/ PolishFails(t) \/ StorePolish(t) \/ Refresh(t)
    BY <1>1, <2>1, PostsOfSteps
  <2>2. CASE Lock(t) \/ PublishId(t)
    BY <1>1, <2>2, PostsOfLock
  <2>3. CASE Send(t)
    BY <1>1, <2>3, PostsOfSend
  <2>4. CASE Log(t)
    BY <1>1, <2>4, PostsOfLog
  <2>5. CASE MarkPosted(t)
    BY <1>1, <2>5, PostsOfMark
  <2>6. CASE ListOld(t)
    BY <1>1, <2>6, PostsOfList
  <2>7. CASE Delete(t)
    BY <1>1, <2>7, PostsOfDelete
  <2>8. CASE MarkDead(t)
    BY <1>1, <2>8, PostsOfDead
  <2>9. CASE EditPost(t)
    BY <1>1, <2>9, PostsOfEdit
  <2>10. CASE Drop(t)
    BY <1>1, <2>10, PostsOfDrop
  <2> QED
    BY <1>5, <2>1, <2>2, <2>3, <2>4, <2>5, <2>6, <2>7, <2>8, <2>9, <2>10
<1> QED
  BY <1>6, <1>7 DEF ProductInv, PostInv

\* a task that begins to work on p
LEMMA NewMoves ==
  ASSUME TypeInv, TasksInv, TypeInv', NEW p \in Products, ProductInv(p), NEW t \in Tasks, t \notin WorkOn(p),
         task'[t].job = p, TaskStep(t), p \notin mixed'
  PROVE  ProductInv(p)'
<1>1. TextInv(p) /\ PostInv(p) /\ p # NoProduct /\ BoundInv /\ task[t].job # p
  BY DEF ProductInv, PostInv, WorkOn, Products, NoProduct, TasksInv
<1>2. Probe(t) \/ \E q \in Products : Start(t, q)
  <2>1. SameJob(t) => task'[t].job # p
    BY <1>1 DEF SameJob
  <2> QED
    BY <1>1, <2>1, KeepsProduct
<1>3. CASE \E q \in Products : Start(t, q)
  <2>1. Start(t, p)
    BY <1>3, StartMoves
  <2>2. /\ Rest(t) /\ task'[t].sent = {} /\ task'[t].pc \in {"l_wait", "t_set", "e_write"}
        /\ UNCHANGED <<rows, posts, dropped>>
    BY <2>1, StartMoves
  <2>3. TextInv(p)'
    BY <1>1, <2>1, TextOfStart
  <2>4. ShowInv(p)'
    BY <1>1, <2>2, ShowOfNewcomer DEF PostInv
  <2>5. SeenInv(p)' /\ SentInv(p)' /\ QuietInv(p)'
    <3>1. task'[t].pc \notin PostLabels
      BY <2>2 DEF PostLabels, DeleteLabels
    <3> QED
      BY <1>1, <2>2, <3>1, PostsStay DEF PostInv
  <2> QED
    BY <2>3, <2>4, <2>5 DEF ProductInv
<1>4. CASE Probe(t)
  <2>1. Least(task[t].batch) \in gone
    <3>1. ASSUME Least(task[t].batch) \notin gone
          PROVE  FALSE
      <4>1. At(t, "w_probe") /\ NextProduct(t)
        BY <1>4, <3>1 DEF Probe
      <4>2. task'[t] = Free \/ SameJob(t)
        BY <4>1, SweepLands
      <4> QED
        BY <1>1, <4>2 DEF Free, SameJob
    <3> QED
      BY <3>1
  <2>2. /\ Rest(t) /\ task'[t].pc = "w_drop" /\ task'[t].kind = "sweep" /\ Least(task[t].batch) = p
    BY <1>4, <2>1, ProbeLands
  <2>3. Meet("sweep", p) /\ UNCHANGED <<rows, posts, dropped>>
    BY <1>4, <2>1, <2>2 DEF Probe
  <2>4. WorkOn(p) = {}
    <3>1. \A u \in WorkOn(p) : FALSE
      BY <2>3 DEF Meet, Publications
    <3> QED
      BY <3>1
  <2>5. WorkOn(p)' = {t}
    BY <2>2, <2>4 DEF WorkOn, Rest
  <2>6. TextInv(p)'
    BY <1>1, <2>2, <2>3, <2>4, <2>5, TextOfNewcomer DEF rows
  <2>7. ShowInv(p)'
    BY <1>1, <2>2, <2>3, ShowOfNewcomer DEF PostInv
  <2>8. SeenInv(p)' /\ SentInv(p)' /\ QuietInv(p)'
    <3>1. task'[t].pc \notin PostLabels /\ task'[t].kind \notin Publications
      BY <2>2 DEF PostLabels, DeleteLabels, Publications
    <3> QED
      BY <1>1, <2>2, <2>3, <3>1, PostsStay DEF PostInv
  <2> QED
    BY <2>6, <2>7, <2>8 DEF ProductInv
<1> QED
  BY <1>2, <1>3, <1>4

-----------------------------------------------------------------------------
(* A product no two edits met on *)

\* what an edit stores in the row, and who else stores a caption
LEMMA RowMoves ==
  ASSUME TypeInv, NEW t \in Tasks, TaskStep(t), faults' = 0
  PROVE  \/ data' = data /\ caption' = caption
         \/ data' = data /\ (PublishId(t) \/ ShowId(t) \/ StorePolish(t))
         \/ StoreEdit(t)
<1>1. \A p \in Products : Start(t, p) => data' = data /\ caption' = caption
  BY StartMoves DEF rows
<1>2. ASSUME \/ Lock(t) \/ Send(t) \/ Log(t) \/ MarkPosted(t) \/ DeleteStep(t)
             \/ ListLive(t) \/ EditPost(t) \/ EditMissing(t) \/ Bury(t)
      PROVE  data' = data /\ caption' = caption
  BY <1>2 DEF Lock, EnterLock, Send, Log, MarkPosted, DeleteStep, ListOld, Delete, MarkDead, ListLive, EditPost,
              EditMissing, Bury, rows
<1>3. ASSUME \/ SetSold(t) \/ Answer(t) \/ StartPolish(t) \/ Polished(t) \/ PolishFails(t) \/ Refresh(t)
             \/ StartSweep(t) \/ Probe(t) \/ Drop(t)
             \/ SendFails(t) \/ DeleteFails(t) \/ EditPostFails(t) \/ ProbeFails(t) \/ TaskFails(t)
      PROVE  data' = data /\ caption' = caption
  BY <1>3 DEF SetSold, Answer, StartPolish, EnterPolish, Polished, PolishFails, Refresh, StartSweep, SweepOver,
              Probe, Drop, SendFails, DeleteFails, EditPostFails, ProbeFails, TaskFails, rows
<1>4. PublishId(t) \/ ShowId(t) \/ StorePolish(t) => data' = data
  BY DEF PublishId, ShowId, StorePolish
<1> QED
  BY <1>1, <1>2, <1>3, <1>4 DEF TaskStep, QuietStep, SendingStep, ShowStep

\* an edit begins with a handler that starts
LEMMA EditBegins ==
  ASSUME TypeInv, BoundInv, NEW t \in Tasks, TaskStep(t), task'[t].pc = "e_write"
  PROVE  \E q \in Products : Start(t, q)
<1>1. ~QuietStep(t)
  BY QuietMoves DEF Quiet
<1>2. ~SendingStep(t)
  BY SendingMoves DEF Sending, Free
<1>3. ~Lock(t)
  BY LockMoves
<1>4. ~StartPolish(t)
  BY PolishLands DEF StartPolish
<1> QED
  BY <1>1, <1>2, <1>3, <1>4 DEF TaskStep

\* A product no two edits met on keeps the caption that its stored fields make: whoever builds a
\* caption has read the fields as they are stored.
LEMMA SoloMoves ==
  ASSUME TypeInv, TasksInv, NEW p \in Products, TextInv(p), SoloInv(p), NEW t \in Tasks, TaskStep(t),
         p \notin mixed', met \subseteq met', faults' = 0
  PROVE  SoloInv(p)'
<1> SUFFICES ASSUME p \notin met'
             PROVE  /\ caption'[p].text = data'[p]
                    /\ \A u, v \in WorkOn(p)' : task'[u].kind = "edit" /\ task'[v].kind = "edit" => u = v
                    /\ \A u \in WorkOn(p)' : At(u, "e_write")' => task'[u].base = data'[p]
  BY DEF SoloInv
<1>1. /\ caption[p].text = data[p] /\ Rest(t) /\ p # NoProduct
      /\ \A u, v \in WorkOn(p) : task[u].kind = "edit" /\ task[v].kind = "edit" => u = v
      /\ \A u \in WorkOn(p) : task[u].pc = "e_write" => task[u].base = data[p]
      /\ \A u \in Tasks : Shape(task[u])
  BY OneMoves DEF SoloInv, TasksInv, At, Products, NoProduct, TypeInv, TaskTypes
<1>2. caption'[p].text = data'[p] /\ (data'[p] # data[p] => StoreEdit(t) /\ task[t].job = p)
  <2>1. CASE data' = data /\ caption' = caption
    BY <1>1, <2>1
  <2>2. CASE data' = data /\ (PublishId(t) \/ ShowId(t) \/ StorePolish(t))
    <3>1. caption' = [caption EXCEPT ![task[t].job] = Rebuilt(t)] /\ task[t].pc \in {"l_id", "x_id", "p_write"}
      BY <2>2 DEF PublishId, ShowId, StorePolish, EnsureId, At
    <3>2. CASE task[t].job # p
      BY <1>1, <2>2, <3>1, <3>2 DEF TypeInv, RowTypes
    <3>3. CASE task[t].job = p
      <4>1. t \in WorkOn(p) /\ Knows(t, p)
        BY <3>3 DEF WorkOn, TextInv
      <4>2. CASE task[t].pc = "l_id"
        BY <1>1, <2>2, <3>1, <3>3, <4>1, <4>2 DEF Knows, Shape, PubLabels, Rebuilt, TypeInv, RowTypes
      <4>3. CASE task[t].pc \in {"x_id", "p_write"}
        <5>1. task[t].kind \in {"toggle", "edit"}
          BY <1>1, <4>3 DEF Shape, ShowLabels, EditLabels
        <5>2. ~Ahead(p)
          <6>1. ASSUME NEW u \in WorkOn(p), task[u].pc \in {"e_answer", "p_wait"}
                PROVE  FALSE
            <7>1. task[u].kind = "edit" /\ u # t
              BY <1>1, <4>3, <6>1 DEF Shape, EditLabels, WorkOn
            <7>2. task[t].kind = "edit"
              BY <4>1, <5>1, <6>1, <7>1 DEF TextInv, OneKind, Publications
            <7> QED
              BY <1>1, <4>1, <6>1, <7>1, <7>2
          <6> QED
            BY <6>1 DEF Ahead
        <5>3. task[t].base = data[p]
          BY <4>1, <4>3, <5>2 DEF Knows, ShowLabels
        <5> QED
          BY <2>2, <3>1, <3>3, <5>3 DEF Rebuilt, TypeInv, RowTypes
      <4> QED
        BY <3>1, <4>2, <4>3
    <3> QED
      BY <3>2, <3>3
  <2>3. CASE StoreEdit(t)
    <3>1. PICK f \in Fields :
           /\ data' = [data EXCEPT ![task[t].job][f] = edits + 1]
           /\ caption' = [caption EXCEPT ![task[t].job] =
                            [text |-> [task[t].base EXCEPT ![f] = edits + 1], tag |-> "shown"]]
           /\ task[t].pc = "e_write"
      BY <2>3 DEF StoreEdit, At
    <3>2. CASE task[t].job # p
      BY <1>1, <3>1, <3>2 DEF TypeInv, RowTypes
    <3>3. CASE task[t].job = p
      <4>1. task[t].base = data[p]
        BY <1>1, <3>1, <3>3 DEF WorkOn
      <4>2. data'[p] = [data[p] EXCEPT ![f] = edits + 1]
        BY <3>1, <3>3 DEF TypeInv, RowTypes
      <4>3. caption'[p].text = [task[t].base EXCEPT ![f] = edits + 1]
        BY <3>1, <3>3 DEF TypeInv, RowTypes
      <4> QED
        BY <2>3, <3>3, <4>1, <4>2, <4>3
    <3> QED
      BY <3>2, <3>3
  <2> QED
    BY <2>1, <2>2, <2>3, RowMoves
<1>3. \/ task'[t].job # p
      \/ SameJob(t) /\ task[t].job = p /\ task'[t].pc # "e_write"
      \/ Start(t, p) /\ task'[t].base = data[p] /\ data' = data
         /\ (task'[t].kind = "edit" => \A u \in WorkOn(p) : task[u].kind # "edit")
      \/ task'[t].kind = "sweep" /\ task'[t].pc = "w_drop"
  <2>1. CASE \E q \in Products : Start(t, q)
    <3>1. PICK q \in Products : Start(t, q)
      BY <2>1
    <3>2. task'[t].job = q /\ Meet(task'[t].kind, q) /\ task'[t].base = data[q] /\ data' = data
      BY <3>1, StartMoves DEF rows
    <3>3. q = p /\ task'[t].kind = "edit" => \A u \in WorkOn(p) : task[u].kind # "edit"
      BY <3>2 DEF Meet
    <3> QED
      BY <3>1, <3>2, <3>3
  <2>2. CASE Probe(t)
    <3>1. CASE Least(task[t].batch) \in gone
      BY <2>2, <3>1, ProbeLands
    <3>2. CASE Least(task[t].batch) \notin gone
      <4>1. At(t, "w_probe") /\ NextProduct(t)
        BY <2>2, <3>2 DEF Probe
      <4>2. task[t].job # p
        BY <1>1, <4>1 DEF At, Shape
      <4> QED
        BY <1>1, <4>1, <4>2, SweepLands DEF Free, SameJob
    <3> QED
      BY <3>1, <3>2
  <2>3. CASE ~Probe(t) /\ \A q \in Products : ~Start(t, q)
    <3>1. SameJob(t) \/ task'[t].job = NoProduct
      BY <2>3, KeepsProduct DEF TasksInv
    <3>2. task'[t].pc # "e_write"
      BY <2>3, EditBegins DEF TasksInv
    <3> QED
      BY <1>1, <3>1, <3>2 DEF SameJob
  <2> QED
    BY <2>1, <2>2, <2>3
<1>4. \A u \in WorkOn(p)' : u = t \/ (u \in WorkOn(p) /\ task'[u] = task[u])
  BY <1>1 DEF WorkOn, Rest
<1>5. ASSUME t \in WorkOn(p)', task'[t].kind = "edit"
      PROVE  (SameJob(t) /\ t \in WorkOn(p)) \/ \A u \in WorkOn(p) : task[u].kind # "edit"
  <2>1. task'[t].job = p
    BY <1>5 DEF WorkOn
  <2>2. task[t].job = p => t \in WorkOn(p)
    BY DEF WorkOn
  <2> QED
    BY <1>3, <1>5, <2>1, <2>2
<1>6. ASSUME NEW u \in WorkOn(p)', NEW v \in WorkOn(p)', task'[u].kind = "edit", task'[v].kind = "edit"
      PROVE  u = v
  BY <1>1, <1>4, <1>5, <1>6 DEF SameJob
<1>7. ASSUME NEW u \in WorkOn(p)', task'[u].pc = "e_write"
      PROVE  task'[u].base = data'[p]
  <2>1. CASE u = t
    BY <1>3, <1>7, <2>1 DEF WorkOn
  <2>2. CASE u # t
    <3>1. u \in WorkOn(p) /\ task'[u] = task[u] /\ task[u].base = data[p] /\ task[u].kind = "edit"
      BY <1>1, <1>4, <1>7, <2>2 DEF Shape, EditLabels, WorkOn
    <3>2. ~(StoreEdit(t) /\ task[t].job = p)
      BY <1>1, <2>2, <3>1 DEF StoreEdit, At, Shape, EditLabels, WorkOn
    <3> QED
      BY <1>2, <3>1, <3>2
  <2> QED
    BY <2>1, <2>2
<1> QED
  BY <1>2, <1>6, <1>7 DEF At

-----------------------------------------------------------------------------
(* All products *)

\* only an admin or somebody outside acts
LEMMA WorldKeeps ==
  ASSUME TypeInv, TasksInv, TypeInv', NEW p \in Products, ProductInv(p), WorldStep \/ UNCHANGED vars,
         p \notin mixed', faults' = 0
  PROVE  ProductInv(p)'
<1>1. ASSUME NEW q \in Products, Remove(q), q # p
      PROVE  Aside(p)
  BY <1>1 DEF Remove, Aside, TypeInv, RowTypes, posts
<1>2. ASSUME Remove(p)
      PROVE  ProductInv(p)'
  <2>1. /\ WorkOn(p) = {} /\ task' = task /\ UNCHANGED <<data, caption, posts, dropped>>
        /\ status' = [status EXCEPT ![p] = "removed"]
    <3>1. ASSUME NEW u \in WorkOn(p)
          PROVE  FALSE
      <4>1. {task[u].kind, "remove"} \subseteq Publications \/ {task[u].kind, "remove"} = {"edit"}
        BY <1>2 DEF Remove, Meet
      <4> QED
        BY <4>1 DEF Publications
    <3> QED
      BY <1>2, <3>1 DEF Remove
  <2>2. WorkOn(p)' = {} /\ LiveOf(p)' = LiveOf(p) /\ status'[p] = "removed"
    BY <2>1 DEF WorkOn, LiveOf, posts, TypeInv, RowTypes
  <2>3. \A m : ~Half(m, p) /\ ~Half(m, p)'
    BY <2>1, <2>2 DEF Half
  <2>4. TextInv(p)'
    BY <2>1, <2>2 DEF ProductInv, TextInv, OneKind, CaptionInv, Ahead
  <2>5. ShowInv(p)'
    BY <2>2 DEF ShowInv
  <2>6. SeenInv(p)' /\ SentInv(p)' /\ QuietInv(p)'
    BY <2>1, <2>2, <2>3 DEF ProductInv, SeenInv, SentInv, QuietInv, PostsOf, posts
  <2> QED
    BY <2>4, <2>5, <2>6 DEF ProductInv
<1>3. ASSUME NEW q \in Products, SourceDeleted(q)
      PROVE  Aside(p)
  BY <1>3 DEF SourceDeleted, Aside, rows, posts, ghosts
<1>4. ASSUME NEW m \in Msgs, PostDeleted(m)
      PROVE  FALSE
  BY <1>4 DEF PostDeleted, Fault, TypeInv, CountTypes
<1>5. UNCHANGED vars => Aside(p)
  BY DEF vars, Aside, rows, posts, ghosts
<1> QED
  BY <1>1, <1>2, <1>3, <1>4, <1>5, AsideKeeps DEF WorldStep

\* the products nobody disturbed keep their invariant
LEMMA ProductsKept == TypeInv /\ TasksInv /\ ProductsInv /\ [Next]_vars => ProductsInv'
<1> SUFFICES ASSUME TypeInv, TasksInv, ProductsInv, [Next]_vars, faults' = 0, NEW p \in Products, p \notin mixed'
             PROVE  ProductInv(p)' /\ SoloInv(p)'
  BY DEF ProductsInv
<1>1. TypeInv'
  BY NextTyped DEF TasksInv
<1>2. ProductInv(p) /\ SoloInv(p) /\ TextInv(p) /\ met \subseteq met'
  BY MarksKept DEF ProductsInv, ProductInv
<1>3. ASSUME NEW t \in Tasks, TaskStep(t)
      PROVE  ProductInv(p)' /\ SoloInv(p)'
  <2>1. ASSUME t \in WorkOn(p)
        PROVE  ProductInv(p)'
    BY <1>1, <1>2, <1>3, <2>1, OwnMoves
  <2>2. ASSUME t \notin WorkOn(p) /\ task'[t].job = p
        PROVE  ProductInv(p)'
    BY <1>1, <1>2, <1>3, <2>2, NewMoves
  <2>3. ASSUME t \notin WorkOn(p) /\ task'[t].job # p
        PROVE  ProductInv(p)'
    BY <1>1, <1>2, <1>3, <2>3, AsideMoves DEF WorkOn
  <2> QED
    BY <1>2, <1>3, <2>1, <2>2, <2>3, SoloMoves
<1>4. ~Crash
  BY DEF Crash, Fault, TypeInv, CountTypes
<1>5. ASSUME WorldStep \/ UNCHANGED vars
      PROVE  ProductInv(p)' /\ SoloInv(p)'
  <2>1. task' = task /\ data' = data /\ caption' = caption
    BY <1>5 DEF WorldStep, Remove, SourceDeleted, PostDeleted, rows, vars
  <2>2. SoloInv(p)'
    BY <1>2, <2>1 DEF SoloInv, WorkOn, At
  <2> QED
    BY <1>1, <1>2, <1>5, <2>2, WorldKeeps
<1> QED
  BY <1>3, <1>4, <1>5, Steps

\* at the start nobody works, and the posts show what is stored
LEMMA InitProducts ==
  ASSUME Init, NEW p \in Products
  PROVE  ProductInv(p) /\ SoloInv(p)
<1>1. /\ \A t \in Tasks : task[t] = Free
      /\ status[p] = "active" /\ data[p] = Blank /\ caption[p].text = Blank
      /\ dropped = {}
  BY DEF Init, Fresh, Posted
<1>2. TypeInv /\ live \subseteq Msgs /\ \A m \in live : \E q \in Products, c \in Chats : m = MsgOf(q, c) /\ product[m] = q
  BY InitialPosts, InitTyped
<1>3. WorkOn(p) = {}
  BY <1>1 DEF WorkOn, Free, Products, NoProduct
<1>4. \A m : ~Half(m, p)
  BY <1>3 DEF Half
<1>5. ASSUME NEW m \in live
      PROVE  view[m] # Hidden /\ view[m].cap.text = Blank /\ ~view[m].sold
  <2>1. PICK l \in Lines : view[m] = [cap |-> [text |-> Blank, tag |-> l], sold |-> FALSE]
    <3>1. m \in Msgs /\ product[m] \in Products
      BY <1>2
    <3> QED
      BY <3>1 DEF Init
  <2>2. Blank \in [Fields -> Nat]
    BY DEF Blank
  <2>3. view[m] \in [cap : [text : [Fields -> Nat], tag : Lines], sold : BOOLEAN]
    BY <2>1, <2>2
  <2>4. view[m] # Hidden
    BY <2>3, HiddenAssumption
  <2>5. view[m].cap.text = Blank /\ ~view[m].sold
    BY <2>1
  <2> QED
    BY <2>4, <2>5
<1>7. \A m \in Msgs : product[m] = p => (view[m] # Hidden <=> m \in live)
  BY <1>5 DEF Init
<1>8. ASSUME NEW m \in LiveOf(p)
      PROVE  Matches(m, p)
  BY <1>1, <1>5 DEF Matches, LiveOf
<1>9. (\A m \in Msgs : product[m] # p) \/ \E n \in 1 .. MaxPubs : LiveOf(p) = PostsOf(n)
  <2>1. CASE Fresh
    <3>1. \A m \in Msgs : product[m] = NoProduct
      BY <2>1 DEF Init, Fresh
    <3> QED
      BY <3>1 DEF Products, NoProduct
  <2>2. CASE Posted
    <3>1. p \in 1 .. MaxPubs
      BY PublishAssumption DEF Products
    <3>2. \A m \in PostsOf(p) : m \in live /\ m \in Msgs /\ product[m] = p
      BY <1>2, <2>2, MsgOfProduct DEF Posted, PostsOf, Init
    <3>3. \A m \in LiveOf(p) : m \in PostsOf(p)
      BY <1>2 DEF LiveOf, PostsOf
    <3>4. LiveOf(p) = PostsOf(p)
      BY <3>2, <3>3 DEF LiveOf
    <3> QED
      BY <3>1, <3>4
  <2> QED
    BY <2>1, <2>2 DEF Init
<1>10. TextInv(p)
  BY <1>1, <1>3 DEF TextInv, OneKind, CaptionInv
<1>11. ShowInv(p)
  BY <1>3, <1>8 DEF ShowInv
<1>12. SeenInv(p) /\ SentInv(p)
  BY <1>3, <1>4, <1>7 DEF SeenInv, SentInv
<1>13. QuietInv(p)
  BY <1>1, <1>9 DEF QuietInv
<1>14. SoloInv(p)
  BY <1>1, <1>3 DEF SoloInv
<1> QED
  BY <1>10, <1>11, <1>12, <1>13, <1>14 DEF ProductInv

\* While nothing failed, what tasks have read, sent and kept, what posts show and
\* what is logged fit together for every product that no two tasks of different
\* kinds met on.
THEOREM ProductsCorrect == Spec => [](TypeInv /\ TasksInv /\ ProductsInv)
<1>1. Init => TypeInv /\ TasksInv /\ ProductsInv
  BY InitTyped, InitTasks, InitProducts DEF ProductsInv
<1>2. TypeInv /\ TasksInv /\ ProductsInv /\ [Next]_vars => (TypeInv /\ TasksInv /\ ProductsInv)'
  BY TasksKept, ProductsKept
<1> QED
  BY <1>1, <1>2, PTL DEF Spec

\* nobody works on the product, and nothing is half done
LEMMA AtRest ==
  ASSUME ProductsInv, NEW p \in Products, Undisturbed(p)
  PROVE  ProductInv(p) /\ ~Ahead(p) /\ WorkOn(p) = {} /\ \A m : ~Half(m, p)
BY DEF Undisturbed, ProductsInv, Ahead, Half

\* README.md:45, posts are edited to match the database: whoever edits a row
\* goes through its posts afterwards (poster.refresh_live_posts), and an edit
\* that finds a newer one leaves them to it.
THEOREM RowCorrect == Spec => []PostsMatchTheRow
<1>1. ProductsInv => PostsMatchTheRow
  <2> SUFFICES ASSUME ProductsInv, NEW p \in Products, Undisturbed(p), status[p] # "removed", NEW m \in LiveOf(p)
               PROVE  view[m].cap.text = data[p] /\ (view[m].sold <=> status[p] = "sold")
    BY DEF PostsMatchTheRow
  <2>1. ShowInv(p) /\ ~Ahead(p) /\ WorkOn(p) = {} /\ ~Half(m, p)
    BY AtRest DEF ProductInv
  <2> QED
    BY <2>1 DEF ShowInv, Matches
<1> QED
  BY <1>1, ProductsCorrect, PTL

\* products are dropped
LEMMA DroppedTyped == Spec => [](dropped \subseteq Products)
<1>1. Init => dropped \subseteq Products
  BY DEF Init
<1>2. TypeInv /\ dropped \subseteq Products /\ [Next]_vars => (dropped \subseteq Products)'
  <2> SUFFICES ASSUME TypeInv, dropped \subseteq Products, [Next]_vars
               PROVE  dropped' \subseteq Products
    OBVIOUS
  <2>1. ASSUME NEW t \in Tasks, task[t].pc \in {"d_list", "d_dead"}, NEW rest, DeleteNext(t, rest)
        PROVE  dropped' \subseteq Products
    <3>1. task[t].job \in Products
      BY <2>1, InHand
    <3> QED
      BY <2>1, <3>1 DEF DeleteNext, AfterDeleting
  <2>2. ASSUME NEW t \in Tasks, Step(t)
        PROVE  dropped' \subseteq Products
    <3>1. CASE PublishStep(t)
      BY <3>1 DEF PublishStep, Lock, EnterLock, PublishId, Send, Log, MarkPosted, ghosts
    <3>2. CASE DeleteStep(t)
      BY <2>1, <3>2 DEF DeleteStep, ListOld, Delete, MarkDead, At, ghosts
    <3>3. CASE ShowStep(t)
      BY <3>3 DEF ShowStep, ShowId, ListLive, EditPost, EditMissing, Bury, ghosts
    <3>4. CASE EditStep(t)
      BY <3>4 DEF EditStep, SetSold, StoreEdit, Answer, StartPolish, EnterPolish, Polished, StorePolish, Refresh, ghosts
    <3>5. CASE Probe(t) \/ Drop(t)
      BY <3>5 DEF Probe, Drop, ghosts
    <3> QED
      BY <2>2, <3>1, <3>2, <3>3, <3>4, <3>5 DEF Step
  <2>3. ASSUME NEW t \in Tasks, StartSweep(t) \/ Failure(t)
        PROVE  dropped' = dropped
    BY <2>3 DEF StartSweep, SweepOver, Failure, SendFails, DeleteFails, EditPostFails, PolishFails, ProbeFails,
                TaskFails, ghosts
  <2>4. ASSUME NEW t \in Tasks, NEW p \in Products, Start(t, p)
        PROVE  dropped' = dropped
    BY <2>4, StartMoves
  <2>5. WorldStep \/ Crash \/ UNCHANGED vars => dropped' = dropped
    BY DEF WorldStep, Remove, SourceDeleted, PostDeleted, Crash, vars, ghosts
  <2> QED
    BY <2>2, <2>3, <2>4, <2>5 DEF Next, WorldStep
<1> QED
  BY <1>1, <1>2, TypeInvCorrect, PTL DEF Spec

\* what the steps of a task do to the live posts, and who drops a product
LEMMA LiveMoves ==
  ASSUME TypeInv, TasksInv, NEW t \in Tasks, TaskStep(t), NEW p \in Products
  PROVE  /\ \/ LiveOf(p)' \subseteq LiveOf(p)
            \/ Log(t) /\ task[t].job = p
         /\ MarkDead(t) => LiveOf(p)' \subseteq LiveOf(p) \ {Least(task[t].todo)}
         /\ \/ dropped' = dropped
            \/ Send(t) /\ dropped' = dropped \ {task[t].job}
            \/ ListOld(t) \/ MarkDead(t)
<1>0. PostTypes /\ p # NoProduct
  BY DEF TypeInv, Products, NoProduct
<1>1. ASSUME product' = product, live' \subseteq live
      PROVE  LiveOf(p)' \subseteq LiveOf(p)
  BY <1>1 DEF LiveOf
<1>2. ASSUME QuietStep(t)
      PROVE  LiveOf(p)' \subseteq LiveOf(p)
  BY <1>1, <1>2, QuietMoves
<1>3. ASSUME Send(t) \/ SendFails(t)
      PROVE  LiveOf(p)' \subseteq LiveOf(p)
  <2>1. /\ task[t].pc = "s_send" /\ live' = live
        /\ product' = product \/ product' = [product EXCEPT ![Msg(t)] = task[t].job]
    BY <1>3 DEF Send, SendFails, Appear, At, posts
  <2>2. Unsent(task[t].pub, task[t].chat) /\ task[t].pub \in 1 .. MaxPubs /\ task[t].chat \in Chats /\ Msg(t) \in Msgs
    BY <2>1, MsgTyped DEF Unsent, Publishing, At, Chats
  <2>3. Msg(t) \notin live
    BY <2>2 DEF TasksInv, MsgInv, Msg
  <2> QED
    BY <1>0, <2>1, <2>3 DEF LiveOf, PostTypes
<1>4. ASSUME Log(t), task[t].job # p
      PROVE  LiveOf(p)' \subseteq LiveOf(p)
  <2>1. At(t, "s_log") /\ live' = live \cup {Msg(t)} /\ product' = product
    BY <1>4 DEF Log
  <2>2. product[Msg(t)] # p
    BY <1>4, <2>1 DEF TasksInv, MsgInv
  <2> QED
    BY <2>1, <2>2 DEF LiveOf
<1>5. ASSUME PublishId(t) \/ Lock(t) \/ StartPolish(t) \/ \E q \in Products : Start(t, q)
      PROVE  LiveOf(p)' \subseteq LiveOf(p) /\ dropped' = dropped
  <2>1. UNCHANGED <<posts, dropped>>
    BY <1>5, StartMoves DEF PublishId, Lock, EnterLock, StartPolish, EnterPolish, ghosts
  <2> QED
    BY <1>1, <2>1 DEF posts
<1>6. ASSUME MarkDead(t)
      PROVE  LiveOf(p)' \subseteq LiveOf(p) \ {Least(task[t].todo)}
  BY <1>6 DEF MarkDead, LiveOf
<1>7. QuietStep(t) => dropped' = dropped \/ ListOld(t) \/ MarkDead(t)
  BY DEF QuietStep, StartSweep, SweepOver, MarkPosted, DeleteStep, Delete, ShowStep, ShowId, ListLive, EditPost,
         EditMissing, Bury, SetSold, StoreEdit, Answer, Polished, StorePolish, Refresh, Probe, Drop, DeleteFails,
         EditPostFails, PolishFails, ProbeFails, TaskFails, ghosts
<1>8. Log(t) \/ SendFails(t) => dropped' = dropped
  BY DEF Log, SendFails, ghosts
<1>9. Send(t) => dropped' = dropped \ {task[t].job}
  BY DEF Send
<1> QED
  BY <1>2, <1>3, <1>4, <1>5, <1>6, <1>7, <1>8, <1>9 DEF TaskStep, SendingStep

\* a message is on its way to the log when it has just been sent
LEMMA LogFollows ==
  ASSUME TypeInv, BoundInv, NEW t \in Tasks, TaskStep(t), task'[t].pc = "s_log"
  PROVE  Send(t) /\ SameJob(t)
<1>1. ~QuietStep(t)
  BY QuietMoves DEF Quiet
<1>2. ~Lock(t)
  BY LockMoves
<1>3. ~StartPolish(t) /\ \A q \in Products : ~Start(t, q)
  BY PolishLands, StartMoves DEF StartPolish, Publications
<1>4. SendingStep(t) /\ Sending(t)
  BY <1>1, <1>2, <1>3, SendingMoves DEF TaskStep
<1>5. task[t].pc = "s_send" /\ SameJob(t)
  BY <1>4 DEF Sending, Free
<1>6. ~SendFails(t)
  <2>1. SendFails(t) => task[t].sent \in SUBSET Msgs /\ NextTarget(t, task[t].sent)
    BY DEF SendFails, TypeInv, TaskTypes, TaskRecords
  <2> QED
    BY <1>5, <2>1, TargetLands DEF Free
<1> QED
  BY <1>4, <1>5, <1>6 DEF SendingStep, PublishId, Log, At

\* the steps of a sweep that has found a product to drop
LEMMA SweepSteps ==
  ASSUME TypeInv, BoundInv, NEW t \in Tasks, TaskStep(t), task[t].kind = "sweep", task[t].job # NoProduct
  PROVE  Drop(t) \/ ListOld(t) \/ Delete(t) \/ MarkDead(t) \/ DeleteFails(t) \/ TaskFails(t)
<1>1. /\ Shape(task[t]) /\ task[t] # Free
      /\ task[t].pc \notin ShowLabels \cup EditLabels \cup PubLabels \cup {"t_set", "w_probe", "idle"}
  <2>1. Shape(task[t])
    BY DEF TypeInv, TaskTypes
  <2> QED
    BY <2>1 DEF Shape, Publications, Free
<1>2. ~(ShowStep(t) \/ EditPostFails(t) \/ SetSold(t) \/ StoreEdit(t) \/ Answer(t) \/ StartPolish(t))
  BY <1>1 DEF ShowStep, ShowId, ListLive, EditPost, EditMissing, Bury, EditPostFails, SetSold, StoreEdit, Answer,
              StartPolish, EnterPolish, At, ShowLabels, EditLabels
<1>3. ~(Polished(t) \/ PolishFails(t) \/ StorePolish(t) \/ Refresh(t) \/ Probe(t) \/ ProbeFails(t) \/ StartSweep(t))
  BY <1>1 DEF Polished, PolishFails, StorePolish, Refresh, Probe, ProbeFails, StartSweep, SweepOver, At, EditLabels
<1>4. ~(MarkPosted(t) \/ Lock(t) \/ SendingStep(t))
  BY <1>1 DEF MarkPosted, Lock, EnterLock, SendingStep, PublishId, Send, Log, SendFails, At, PubLabels
<1>5. \A q \in Products : ~Start(t, q)
  BY <1>1, StartMoves
<1> QED
  BY <1>2, <1>3, <1>4, <1>5 DEF TaskStep, QuietStep, DeleteStep

\* What a sweep still has to delete is all there is, and what it has dropped has no live post, after
\* a step of any task.
LEMMA SweepMoves ==
  ASSUME TypeInv, TasksInv, NEW p \in Products, OneKind(p), SweepInv(p), NEW t \in Tasks, TaskStep(t)
  PROVE  SweepInv(p)'
<1>0. /\ Rest(t) /\ BoundInv /\ p # NoProduct
      /\ \A u \in Tasks : Shape(task[u]) /\ Filled(task[u]) /\ task[u].todo \subseteq Msgs
      /\ LiveOf(p) \ {} \in SUBSET Msgs /\ Others(t) \in SUBSET Msgs
  BY OneMoves DEF TasksInv, Products, NoProduct, TypeInv, TaskTypes, TaskRecords, LiveOf, PostTypes, Others
<1>1. /\ LiveOf(p)' \subseteq LiveOf(p) \/ (Log(t) /\ task[t].job = p)
      /\ MarkDead(t) => LiveOf(p)' \subseteq LiveOf(p) \ {Least(task[t].todo)}
      /\ \/ dropped' = dropped
         \/ Send(t) /\ dropped' = dropped \ {task[t].job}
         \/ ListOld(t) \/ MarkDead(t)
  BY LiveMoves
<1>2. \A u \in WorkOn(p)' : u = t \/ (u \in WorkOn(p) /\ task'[u] = task[u])
  BY <1>0 DEF WorkOn, Rest
<1>3. ASSUME task[t].kind = "sweep", task[t].job = p
      PROVE  /\ task'[t].pc # "s_log" /\ (task'[t].pc \in {"d_del", "d_dead"} => LiveOf(p)' \subseteq task'[t].todo)
             /\ p \in dropped' => p \in dropped \/ LiveOf(p)' = {}
             /\ task'[t].job = p \/ task'[t].job = NoProduct
  <2>0. /\ task[t].sent = {} /\ DeleteLabels = {"d_list", "d_del", "d_dead"}
        /\ \/ Drop(t) \/ ListOld(t) \/ Delete(t) \/ MarkDead(t) \/ DeleteFails(t) \/ TaskFails(t)
    BY <1>0, <1>3, SweepSteps DEF Filled, DeleteLabels
  <2>1. CASE Drop(t)
    <3>1. task[t].pc = "w_drop" /\ Goto(t, "d_list") /\ dropped' = dropped
      BY <2>1 DEF Drop, At, ghosts
    <3> QED
      BY <1>3, <3>1, GotoLands DEF Ways, SameJob
  <2>2. CASE ListOld(t)
    <3>1. task[t].pc = "d_list" /\ DeleteNext(t, LiveOf(p)) /\ LiveOf(p)' = LiveOf(p) /\ LiveOf(p) \in SUBSET Msgs
      BY <1>0, <1>3, <2>0, <2>2 DEF ListOld, At, LiveOf, posts
    <3> QED
      BY <1>3, <2>0, <3>1, DeleteLands, AfterLands DEF Free, SameJob
  <2>3. CASE Delete(t) \/ DeleteFails(t)
    <3>1. task[t].pc = "d_del" /\ Goto(t, "d_dead") /\ dropped' = dropped /\ LiveOf(p)' = LiveOf(p)
      BY <2>3 DEF Delete, DeleteFails, At, ghosts, LiveOf, posts
    <3>2. LiveOf(p) \subseteq task[t].todo
      BY <1>3, <3>1 DEF SweepInv, WorkOn
    <3> QED
      BY <1>3, <3>1, <3>2, GotoLands DEF Ways, SameJob, SameTodo
  <2>4. CASE MarkDead(t)
    <3>1. task[t].pc = "d_dead" /\ DeleteNext(t, Others(t)) /\ LiveOf(p)' \subseteq LiveOf(p) \ {Least(task[t].todo)}
      BY <1>1, <2>4 DEF MarkDead, At, Others
    <3>2. LiveOf(p) \subseteq task[t].todo
      BY <1>3, <3>1 DEF SweepInv, WorkOn
    <3>3. LiveOf(p)' \subseteq Others(t)
      BY <3>1, <3>2 DEF Others
    <3> QED
      BY <1>0, <1>3, <2>0, <3>1, <3>3, DeleteLands, AfterLands DEF Free, SameJob
  <2>5. CASE TaskFails(t)
    <3>1. task'[t] = Free /\ dropped' = dropped
      BY <2>5, DoneLands DEF TaskFails, ghosts
    <3> QED
      BY <3>1 DEF Free
  <2> QED
    BY <2>0, <2>1, <2>2, <2>3, <2>4, <2>5
<1>4. ASSUME NEW u \in WorkOn(p)', task'[u].kind = "sweep", task'[u].pc \in {"d_del", "d_dead"}
      PROVE  LiveOf(p)' \subseteq task'[u].todo
  <2>1. CASE u # t
    <3>1. u \in WorkOn(p) /\ task[u].kind = "sweep" /\ task'[u] = task[u] /\ LiveOf(p) \subseteq task[u].todo
      BY <1>2, <1>4, <2>1 DEF SweepInv
    <3>2. ~(Log(t) /\ task[t].job = p)
      <4>1. ASSUME Log(t), task[t].job = p
            PROVE  FALSE
        <5>1. t \in WorkOn(p) /\ task[t].kind \in Publications
          BY <1>0, <4>1 DEF WorkOn, Log, At, Shape, PubLabels
        <5> QED
          BY <2>1, <3>1, <5>1 DEF OneKind, Publications
      <4> QED
        BY <4>1
    <3> QED
      BY <1>1, <3>1, <3>2
  <2>2. CASE u = t
    <3>1. SameJob(t) /\ task[t].job = p
      <4>1. task'[t].pc \notin {"l_wait", "t_set", "e_write", "w_drop", "w_probe"} /\ task'[t].job = p
        BY <1>4, <2>2 DEF WorkOn
      <4>2. \A q \in Products : ~Start(t, q)
        BY <4>1, StartMoves
      <4>3. ~Probe(t)
        <5>1. CASE Least(task[t].batch) \in gone
          BY <4>1, <5>1, ProbeLands
        <5>2. CASE Least(task[t].batch) \notin gone
          <6>1. Probe(t) => At(t, "w_probe") /\ NextProduct(t)
            BY <5>2 DEF Probe
          <6>2. Probe(t) => task[t].job = NoProduct
            BY <1>0, <6>1 DEF At, Shape
          <6> QED
            BY <1>0, <4>1, <6>1, <6>2, SweepLands DEF Free, SameJob
        <5> QED
          BY <5>1, <5>2
      <4>4. SameJob(t) \/ task'[t].job = NoProduct
        BY <1>0, <4>2, <4>3, KeepsProduct
      <4> QED
        BY <1>0, <4>1, <4>4 DEF SameJob
    <3> QED
      BY <1>3, <1>4, <2>2, <3>1 DEF SameJob
  <2> QED
    BY <2>1, <2>2
<1>5. ASSUME p \in dropped'
      PROVE  LiveOf(p)' = {} /\ \A u \in WorkOn(p)' : task'[u].pc # "s_log"
  <2>1. CASE p \in dropped
    <3>1. LiveOf(p) = {} /\ \A u \in WorkOn(p) : task[u].pc # "s_log"
      BY <2>1 DEF SweepInv
    <3>2. ~(Log(t) /\ task[t].job = p)
      BY <3>1 DEF Log, At, WorkOn
    <3>3. task'[t].pc = "s_log" => task'[t].job # p
      BY <1>0, <1>1, <1>5, LogFollows DEF SameJob, Send, ListOld, MarkDead, At
    <3> QED
      BY <1>1, <1>2, <3>1, <3>2, <3>3 DEF WorkOn
  <2>2. CASE p \notin dropped
    <3>1. ListOld(t) \/ MarkDead(t)
      BY <1>1, <1>5, <2>2
    <3>2. task[t].kind = "sweep" /\ task[t].job = p
      BY <1>5, <2>2, <3>1 DEF ListOld, MarkDead, DeleteNext, AfterDeleting
    <3>3. WorkOn(p) = {t}
      BY <3>2 DEF OneKind, WorkOn, Publications
    <3> QED
      BY <1>2, <1>3, <1>5, <2>2, <3>2, <3>3
  <2> QED
    BY <2>1, <2>2
<1> QED
  BY <1>4, <1>5 DEF SweepInv

\* Whatever fails: all live posts of a product are on the list of the sweep that takes it down, and
\* none comes back while the product is dropped.
THEOREM SweepsCorrect == Spec => []SweepsInv
<1>1. Init => SweepsInv
  BY DEF Init, SweepsInv, SweepInv, WorkOn, Free, Products, NoProduct
<1>2. TypeInv /\ TasksInv /\ SweepsInv /\ [Next]_vars => SweepsInv'
  <2> SUFFICES ASSUME TypeInv, TasksInv, SweepsInv, [Next]_vars, NEW p \in Products, p \notin mixed'
               PROVE  SweepInv(p)'
    BY DEF SweepsInv
  <2>1. OneKind(p) /\ SweepInv(p) /\ p # NoProduct
    BY MarksKept DEF SweepsInv, TasksInv, KindInv, Products, NoProduct
  <2>2. ASSUME NEW t \in Tasks, TaskStep(t)
        PROVE  SweepInv(p)'
    BY <2>1, <2>2, SweepMoves
  <2>3. ASSUME WorldStep \/ Crash \/ UNCHANGED vars
        PROVE  SweepInv(p)'
    <3>1. UNCHANGED <<live, product, dropped>> /\ (task' = task \/ \A t \in Tasks : task'[t] = Free)
      BY <2>3, CrashMoves, WorldMoves DEF WorldStep, Remove, SourceDeleted, PostDeleted, posts, ghosts, vars
    <3> QED
      BY <2>1, <3>1 DEF SweepInv, WorkOn, LiveOf, Free
  <2> QED
    BY <2>2, <2>3, Steps
<1> QED
  BY <1>1, <1>2, TasksInvCorrect, PTL DEF Spec

\* source_sweep.py: the sweep takes down every post of a product it drops, also
\* when a deletion is refused, and nothing but a new publication puts one back;
\* without a failed call no chat shows one.
THEOREM DroppedCorrect == Spec => []DroppedIsTakenDown
<1>1. TypeInv /\ ProductsInv /\ SweepsInv /\ dropped \subseteq Products => DroppedIsTakenDown
  <2> SUFFICES ASSUME TypeInv, ProductsInv, SweepsInv, NEW p \in Products, p \in dropped, p \notin mixed, WorkOn(p) = {}
               PROVE  /\ LiveOf(p) = {}
                      /\ faults = 0 => \A m \in Msgs : product[m] = p => view[m] = Hidden
    BY DEF DroppedIsTakenDown
  <2>1. LiveOf(p) = {}
    BY DEF SweepsInv, SweepInv
  <2>2. ASSUME faults = 0, NEW m \in Msgs, product[m] = p
        PROVE  view[m] = Hidden
    <3>1. SeenInv(p) /\ ~Half(m, p)
      BY <2>2, AtRest DEF Undisturbed, ProductInv
    <3>2. m \notin live
      BY <2>1, <2>2 DEF LiveOf
    <3> QED
      BY <2>2, <3>1, <3>2 DEF SeenInv
  <2> QED
    BY <2>1, <2>2
<1> QED
  BY <1>1, ProductsCorrect, SweepsCorrect, DroppedTyped, PTL

\* poster.publish_product with repost_policy "delete_previous": the last
\* publication deletes every earlier post and keeps its own, one in each chat.
THEOREM OnePostCorrect == Spec => []OnePostPerChat
<1>1. TypeInv /\ ProductsInv => OnePostPerChat
  <2> SUFFICES ASSUME TypeInv, ProductsInv, DeletePrevious, NEW p \in Products, Undisturbed(p), p \notin dropped,
                      \E m \in Msgs : product[m] = p, NEW c \in Chats
               PROVE  LET there == {MsgOf(n, c) : n \in 1 .. MaxPubs}
                          seen == {m \in there : product[m] = p /\ view[m] # Hidden}
                      IN  Cardinality(seen) = 1 /\ seen = there \cap LiveOf(p)
    BY DEF OnePostPerChat
  <2> DEFINE there == {MsgOf(n, c) : n \in 1 .. MaxPubs}
             seen == {m \in there : product[m] = p /\ view[m] # Hidden}
  <2>1. SeenInv(p) /\ QuietInv(p) /\ WorkOn(p) = {} /\ \A m : ~Half(m, p)
    BY AtRest DEF ProductInv
  <2>2. PICK n \in 1 .. MaxPubs : LiveOf(p) = PostsOf(n)
    BY <2>1 DEF QuietInv
  <2>3. \A m \in there : m \in Msgs
    BY MsgOfTyped
  <2>4. \A m \in there : product[m] = p => (view[m] # Hidden <=> m \in live)
    BY <2>1, <2>3 DEF SeenInv
  <2>5. seen = there \cap LiveOf(p)
    BY <2>4 DEF LiveOf
  <2>6. \A k \in 1 .. MaxPubs, d \in Chats : MsgOf(k, c) = MsgOf(n, d) => k = n /\ c = d
    BY MsgOfInjective
  <2>7. there \cap PostsOf(n) = {MsgOf(n, c)}
    BY <2>6 DEF PostsOf
  <2>8. Cardinality(seen) = 1
    BY <2>2, <2>5, <2>7, FS_Singleton
  <2> QED
    BY <2>5, <2>8
<1> QED
  BY <1>1, ProductsCorrect, PTL
=============================================================================

------------------------- MODULE ChatRegistryProofs -------------------------
(***************************************************************************)
(* What holds of ChatRegistry for all chats, every number of tasks, moves  *)
(* and faults and every length of the countdown: the types, that the cache *)
(* is the table whenever nobody has the lock, and that a chat which is in  *)
(* nobody's hands is registered, counted down or left.                     *)
(***************************************************************************)
EXTENDS ChatRegistry, TLAPS, SequenceTheorems

-----------------------------------------------------------------------------
(* Types *)

Labels == {"idle", "m_remove", "m_list", "track", "reload", "a_check", "a_add", "d_remove",
           "w_list", "w_next", "w_tell", "w_clear"}

TaskRecords ==
  [pc : Labels, chat : Chats \cup {None}, role : Roles \cup {"none"}, id : Nat,
   next : {"track", "none"}, due : SUBSET Chats, known : SUBSET Chats]

\* who works on one chat has one, and who registers it knows as what
Shape(r) ==
  /\ r.pc \notin {"idle", "w_list", "w_next"} => r.chat \in Chats
  /\ r.pc \in {"a_check", "a_add"} => r.role \in Roles

\* rows without a bound on the ids
TableRows == [id : Nat, chat : Chats, role : Roles]

Updates == [chat : Chats, in : BOOLEAN]

TableTypes ==
  /\ chats \subseteq TableRows
  /\ pending \in [Chats -> Countdown \cup {None}]
  /\ lastId \in Nat

WorldTypes == member \subseteq Chats /\ updates \in Seq(Updates) /\ faults \in Nat

TaskTypes == task \in [Tasks -> TaskRecords] /\ \A t \in Tasks : Shape(task[t])

TypeInv == TableTypes /\ WorldTypes /\ TaskTypes

\* The record of a task that does nothing is well typed and names no chat.
LEMMA FreeTyped == Free \in TaskRecords /\ Shape(Free) /\ Free.pc = "idle" /\ Free.chat = None /\ Free.due = {}
BY DEF Free, TaskRecords, Shape, Labels

\* what the handlers begin with
LEMMA BeginTyped ==
  /\ \A c \in Chats : [Free EXCEPT !.pc = "m_remove", !.chat = c] \in TaskRecords
  /\ \A c \in Chats : [Free EXCEPT !.pc = "m_list", !.chat = c] \in TaskRecords
  /\ \A c \in Chats, role \in Roles :
       [Free EXCEPT !.pc = "a_check", !.chat = c, !.role = role] \in TaskRecords
  /\ \A c \in Chats, n \in Nat : [Free EXCEPT !.pc = "d_remove", !.chat = c, !.id = n] \in TaskRecords
  /\ \A D \in SUBSET Chats : [Free EXCEPT !.pc = "w_list", !.due = D] \in TaskRecords
BY FreeTyped DEF TaskRecords, Labels

\* where a step leaves the tasks
LEMMA BecomeMoves ==
  ASSUME TaskTypes, NEW t \in Tasks, NEW r, Become(t, r)
  PROVE  task'[t] = r /\ \A u \in Tasks \ {t} : task'[u] = task[u]
BY DEF Become, TaskTypes

\* A task that takes a well-typed record keeps the types of the tasks.
LEMMA BecomeTyped ==
  ASSUME TaskTypes, NEW t \in Tasks, NEW r \in TaskRecords, Shape(r), Become(t, r)
  PROVE  TaskTypes'
BY DEF TaskTypes, Become

\* A task that returns keeps the types of the tasks.
LEMMA DoneTyped ==
  ASSUME TaskTypes, NEW t \in Tasks, Done(t)
  PROVE  TaskTypes'
BY BecomeTyped, FreeTyped DEF Done

\* Goto changes the place of its own task and none of the locals it carries.
LEMMA GotoMoves ==
  ASSUME TaskTypes, NEW t \in Tasks, NEW l, Goto(t, l)
  PROVE  /\ task'[t].pc = l /\ task'[t].chat = task[t].chat /\ task'[t].next = task[t].next
         /\ task'[t].due = task[t].due /\ task'[t].id = task[t].id /\ task'[t].known = task[t].known
         /\ task'[t].role = task[t].role
         /\ \A u \in Tasks \ {t} : task'[u] = task[u]
BY DEF Goto, TaskTypes, TaskRecords

\* A task that moves on to a known place keeps the types, when it carries the role the place
\* needs.
LEMMA GotoTyped ==
  ASSUME TaskTypes, NEW t \in Tasks, NEW l \in Labels, Goto(t, l), task[t].chat \in Chats,
         l \in {"a_check", "a_add"} => task[t].role \in Roles
  PROVE  TaskTypes'
<1> DEFINE r == [task[t] EXCEPT !.pc = l]
<1>1. task[t] \in TaskRecords
  BY DEF TaskTypes
<1>2. r \in TaskRecords /\ Shape(r)
  BY <1>1 DEF TaskRecords, Shape
<1>3. Become(t, r)
  BY DEF Goto, Become, TaskTypes
<1> HIDE DEF r
<1> QED
  BY <1>2, <1>3, BecomeTyped

\* The queue of membership updates stays a sequence of updates when its head is taken or an update
\* is added.
LEMMA UpdatesTyped ==
  ASSUME WorldTypes
  PROVE  /\ updates # <<>> => Head(updates) \in Updates /\ Tail(updates) \in Seq(Updates)
         /\ \A c \in Chats, b \in BOOLEAN : Append(updates, [chat |-> c, in |-> b]) \in Seq(Updates)
<1>1. updates # <<>> => Head(updates) \in Updates /\ Tail(updates) \in Seq(Updates)
  BY HeadTailProperties DEF WorldTypes
<1>2. \A c \in Chats, b \in BOOLEAN : [chat |-> c, in |-> b] \in Updates
  BY DEF Updates
<1> QED
  BY <1>1, <1>2, AppendProperties DEF WorldTypes

\* The arrival of a membership update at its handler keeps the types.
LEMMA HandleTyped ==
  ASSUME TypeInv, NEW t \in Tasks, Handle(t)
  PROVE  TypeInv'
<1> USE DEF TypeInv
<1>0. updates # <<>> /\ Head(updates).chat \in Chats /\ Tail(updates) \in Seq(Updates)
  BY UpdatesTyped DEF Handle, HandleLeft, HandleJoined, Updates
<1>1. TableTypes' /\ WorldTypes'
  BY <1>0 DEF Handle, HandleLeft, HandleJoined, TableTypes, WorldTypes, tables, bounds
<1>2. ASSUME NEW l \in {"m_remove", "m_list"},
             Become(t, [Free EXCEPT !.pc = l, !.chat = Head(updates).chat])
      PROVE  TaskTypes'
  <2> DEFINE r == [Free EXCEPT !.pc = l, !.chat = Head(updates).chat]
  <2>1. r \in TaskRecords /\ r.pc = l /\ r.chat \in Chats
    BY <1>0, FreeTyped DEF TaskRecords, Labels
  <2>2. Shape(r)
    BY <2>1 DEF Shape
  <2> HIDE DEF r
  <2> QED
    BY <1>2, <2>1, <2>2, BecomeTyped DEF r
<1> QED
  BY <1>1, <1>2 DEF Handle, HandleLeft, HandleJoined

\* The steps of on_my_chat_member, from the lookup of the chat to the last write, keep the types.
LEMMA ChangeTyped ==
  ASSUME TypeInv, NEW t \in Tasks, ChangeStep(t)
  PROVE  TypeInv'
<1> USE DEF TypeInv
<1>0. task[t] \in TaskRecords /\ Shape(task[t])
  BY DEF TaskTypes
<1>1. task[t].chat \in Chats
  BY <1>0 DEF ChangeStep, ListChats, RemoveFor, Reload, Track, Check, CheckFails, AddChat, AddClashes,
              RemoveChat, At, Shape
<1>2. WorldTypes'
  BY DEF ChangeStep, ListChats, RemoveFor, Reload, Track, Check, CheckFails, AddChat, AddClashes,
         RemoveChat, world, bounds, WorldTypes
<1>3. TableTypes'
  <2>1. CASE AddChat(t)
    <3>1. [id |-> lastId + 1, chat |-> task[t].chat, role |-> task[t].role] \in TableRows
      BY <1>0, <1>1, <2>1 DEF AddChat, At, Shape, TableRows, TableTypes
    <3>2. chats' \subseteq TableRows /\ lastId' \in Nat
      BY <2>1, <3>1 DEF AddChat, TableTypes
    <3>3. pending' \in [Chats -> Countdown \cup {None}]
      BY <2>1 DEF AddChat, TableTypes
    <3> QED
      BY <3>2, <3>3 DEF TableTypes
  <2>2. CASE Track(t)
    <3>1. Grace \in Countdown
      BY ChatRegistryAssumption DEF Countdown
    <3>2. pending' \in [Chats -> Countdown \cup {None}]
      BY <2>2, <3>1 DEF Track, TableTypes
    <3> QED
      BY <2>2, <3>2 DEF Track, TableTypes
  <2>3. CASE RemoveFor(t) \/ RemoveChat(t)
    BY <2>3 DEF RemoveFor, RemoveChat, TableTypes
  <2>4. CASE ListChats(t) \/ Reload(t) \/ Check(t) \/ CheckFails(t) \/ AddClashes(t)
    BY <2>4 DEF ListChats, Reload, Check, CheckFails, AddClashes, TableTypes, tables
  <2> QED
    BY <2>1, <2>2, <2>3, <2>4 DEF ChangeStep
<1>4. TaskTypes'
  <2>1. CASE Done(t)
    BY <2>1, DoneTyped
  <2>2. ASSUME NEW l \in Labels, Goto(t, l), l \notin {"a_check"}, l = "a_add" => At(t, "a_check")
        PROVE  TaskTypes'
    BY <1>0, <1>1, <2>2, GotoTyped DEF At, Shape
  <2>3. ASSUME Become(t, [task[t] EXCEPT !.pc = "track", !.next = "none"]) PROVE TaskTypes'
    <3> DEFINE r == [task[t] EXCEPT !.pc = "track", !.next = "none"]
    <3>1. r \in TaskRecords /\ r.pc = "track" /\ r.chat \in Chats
      BY <1>0, <1>1 DEF TaskRecords, Labels
    <3> HIDE DEF r
    <3> QED
      BY <2>3, <3>1, BecomeTyped DEF r, Shape
  <2>4. ASSUME Become(t, [task[t] EXCEPT !.pc = "reload", !.next = "track"]) PROVE TaskTypes'
    <3> DEFINE r == [task[t] EXCEPT !.pc = "reload", !.next = "track"]
    <3>1. r \in TaskRecords /\ r.pc = "reload" /\ r.chat \in Chats
      BY <1>0, <1>1 DEF TaskRecords, Labels
    <3> HIDE DEF r
    <3> QED
      BY <2>4, <3>1, BecomeTyped DEF r, Shape
  <2> QED
    BY <2>1, <2>2, <2>3, <2>4
       DEF ChangeStep, ListChats, RemoveFor, Reload, Track, Check, CheckFails, AddChat, AddClashes,
           RemoveChat, Labels
<1> QED
  BY <1>2, <1>3, <1>4

\* the sweep keeps the record of its task well formed
LEMMA SweepTasksTyped ==
  ASSUME TypeInv, NEW t \in Tasks
  PROVE  /\ Become(t, [task[t] EXCEPT !.pc = "w_next", !.known = Registered]) => TaskTypes'
         /\ NextChat(t) => TaskTypes'
         /\ \A c \in Chats, l \in Labels : l \notin {"a_check", "a_add"} /\ Take(t, c, l) => TaskTypes'
         /\ \A c \in Chats : At(t, "w_next") /\ Become(t, [task[t] EXCEPT !.due = @ \ {c}]) => TaskTypes'
<1> USE DEF TypeInv
<1>0. task[t] \in TaskRecords
  BY DEF TaskTypes
<1>1. ASSUME Become(t, [task[t] EXCEPT !.pc = "w_next", !.known = Registered]) PROVE TaskTypes'
  <2> DEFINE r == [task[t] EXCEPT !.pc = "w_next", !.known = Registered]
  <2>1. Registered \subseteq Chats
    BY DEF Registered, TableTypes, TableRows
  <2>2. r \in TaskRecords /\ r.pc = "w_next"
    BY <1>0, <2>1 DEF TaskRecords, Labels
  <2> HIDE DEF r
  <2> QED
    BY <1>1, <2>2, BecomeTyped DEF r, Shape
<1>2. ASSUME NextChat(t) PROVE TaskTypes'
  <2> DEFINE r == [task[t] EXCEPT !.chat = None, !.pc = "w_next"]
  <2>1. r \in TaskRecords /\ r.pc = "w_next"
    BY <1>0 DEF TaskRecords, Labels
  <2>2. Become(t, r) \/ Become(t, Free)
    BY <1>2 DEF NextChat
  <2> HIDE DEF r
  <2> QED
    BY <2>1, <2>2, FreeTyped, BecomeTyped DEF Shape
<1>3. ASSUME NEW c \in Chats, NEW l \in Labels, l \notin {"a_check", "a_add"}, Take(t, c, l) PROVE TaskTypes'
  <2> DEFINE r == [task[t] EXCEPT !.pc = l, !.chat = c, !.due = @ \ {c}]
  <2>1. r \in TaskRecords /\ r.pc = l /\ r.chat = c
    BY <1>0 DEF TaskRecords
  <2> HIDE DEF r
  <2> QED
    BY <1>3, <2>1, BecomeTyped DEF r, Take, Shape
<1>4. ASSUME NEW c \in Chats, At(t, "w_next"), Become(t, [task[t] EXCEPT !.due = @ \ {c}]) PROVE TaskTypes'
  <2> DEFINE r == [task[t] EXCEPT !.due = @ \ {c}]
  <2>1. r \in TaskRecords /\ r.pc = "w_next"
    BY <1>0, <1>4 DEF TaskRecords, At
  <2> HIDE DEF r
  <2> QED
    BY <1>4, <2>1, BecomeTyped DEF r, Shape
<1> QED
  BY <1>1, <1>2, <1>3, <1>4

\* the steps of the sweep keep the types
LEMMA SweepTyped ==
  ASSUME TypeInv, NEW t \in Tasks, SweepStep(t)
  PROVE  TypeInv'
<1> USE DEF TypeInv
<1>1. TaskTypes'
  <2>1. CASE TellHeadAdmin(t)
    <3>1. task[t].chat \in Chats
      BY <2>1 DEF TellHeadAdmin, At, TaskTypes, Shape
    <3> QED
      BY <2>1, <3>1, GotoTyped DEF TellHeadAdmin, Labels
  <2>2. CASE SweepList(t) \/ Clear(t)
    BY <2>2, SweepTasksTyped DEF SweepList, Clear
  <2>3. ASSUME NEW c \in Chats, SkipRegistered(t, c) \/ Leave(t, c) \/ AlreadyOut(t, c) PROVE TaskTypes'
    BY <2>3, SweepTasksTyped DEF SkipRegistered, Leave, AlreadyOut, Labels
  <2> QED
    BY <2>1, <2>2, <2>3 DEF SweepStep
<1>2. TableTypes'
  BY DEF SweepStep, SweepList, TellHeadAdmin, Clear, SkipRegistered, Leave, AlreadyOut, TableTypes, tables
<1>3. WorldTypes'
  <2>1. ASSUME NEW c \in Chats, Leave(t, c) PROVE WorldTypes'
    BY <2>1, UpdatesTyped DEF Leave, WorldTypes, bounds
  <2>2. CASE UNCHANGED <<world, bounds>>
    BY <2>2 DEF world, bounds, WorldTypes
  <2> QED
    BY <2>1, <2>2 DEF SweepStep, SweepList, TellHeadAdmin, Clear, SkipRegistered, AlreadyOut
<1> QED
  BY <1>1, <1>2, <1>3

\* and so do the starts of the tasks and what goes wrong
LEMMA StartTyped ==
  ASSUME TypeInv, NEW t \in Tasks,
         \/ StartSweep(t) \/ TaskFails(t)
         \/ \E c \in Chats : LeaveFails(t, c) \/ \E role \in Roles : StartRegister(t, c, role)
         \/ \E r \in chats : StartDelete(t, r)
  PROVE  TypeInv'
<1> USE DEF TypeInv
<1>1. CASE StartSweep(t)
  <2> DEFINE r == [Free EXCEPT !.pc = "w_list", !.due = Due]
  <2>1. r \in TaskRecords /\ r.pc = "w_list"
    BY BeginTyped DEF Due, Free
  <2>2. Shape(r)
    BY <2>1 DEF Shape
  <2> HIDE DEF r
  <2>3. TaskTypes'
    BY <1>1, <2>1, <2>2, BecomeTyped DEF StartSweep, r
  <2> QED
    BY <1>1, <2>3 DEF StartSweep, TableTypes, WorldTypes, tables, world, bounds
<1>2. CASE TaskFails(t)
  <2>1. TaskTypes'
    BY <1>2, DoneTyped DEF TaskFails
  <2>2. faults' \in Nat
    BY <1>2 DEF TaskFails, Fault, WorldTypes
  <2> QED
    BY <1>2, <2>1, <2>2 DEF TaskFails, TableTypes, WorldTypes, tables, world
<1>3. ASSUME NEW c \in Chats, LeaveFails(t, c) PROVE TypeInv'
  <2>1. TaskTypes'
    BY <1>3, DoneTyped, FreeTyped, BecomeTyped, SweepTasksTyped DEF LeaveFails
  <2> QED
    BY <1>3, <2>1 DEF LeaveFails, TableTypes, WorldTypes, tables, world
<1>4. ASSUME NEW c \in Chats, NEW role \in Roles, StartRegister(t, c, role) PROVE TypeInv'
  <2> DEFINE r == [Free EXCEPT !.pc = "a_check", !.chat = c, !.role = role]
  <2>1. r \in TaskRecords /\ r.chat = c /\ r.role = role
    BY BeginTyped DEF Free
  <2>2. Shape(r)
    BY <2>1 DEF Shape
  <2> HIDE DEF r
  <2>3. TaskTypes'
    BY <1>4, <2>1, <2>2, BecomeTyped DEF StartRegister, r
  <2> QED
    BY <1>4, <2>3 DEF StartRegister, TableTypes, WorldTypes, tables, world
<1>5. ASSUME NEW row \in chats, StartDelete(t, row) PROVE TypeInv'
  <2> DEFINE r == [Free EXCEPT !.pc = "d_remove", !.chat = row.chat, !.id = row.id]
  <2>0. row.chat \in Chats /\ row.id \in Nat
    BY DEF TableTypes, TableRows
  <2>1. r \in TaskRecords /\ r.pc = "d_remove" /\ r.chat \in Chats
    BY <2>0, BeginTyped DEF Free
  <2>2. Shape(r)
    BY <2>1 DEF Shape
  <2> HIDE DEF r
  <2>3. TaskTypes'
    BY <1>5, <2>1, <2>2, BecomeTyped DEF StartDelete, r
  <2> QED
    BY <1>5, <2>3 DEF StartDelete, TableTypes, WorldTypes, tables, world
<1> QED
  BY <1>1, <1>2, <1>3, <1>4, <1>5

\* as does what happens around the bot
LEMMA AroundTyped ==
  ASSUME TypeInv, (\E c \in Chats : Join(c) \/ Kick(c)) \/ Tick \/ Crash
  PROVE  TypeInv'
<1> USE DEF TypeInv
<1>1. ASSUME NEW c \in Chats, Join(c) \/ Kick(c) PROVE TypeInv'
  BY <1>1, UpdatesTyped DEF Join, Kick, TableTypes, WorldTypes, TaskTypes, tables
<1>2. CASE Tick
  <2>1. \A c \in Chats : pending[c] \notin {None, 0} => pending[c] - 1 \in Countdown
    BY ChatRegistryAssumption DEF TableTypes, Countdown
  <2>2. pending' \in [Chats -> Countdown \cup {None}]
    BY <1>2, <2>1 DEF Tick, TableTypes
  <2> QED
    BY <1>2, <2>2 DEF Tick, TableTypes, WorldTypes, TaskTypes, world, bounds
<1>3. CASE Crash
  <2>1. TaskTypes'
    BY <1>3, FreeTyped DEF Crash, TaskTypes
  <2>2. faults' \in Nat
    BY <1>3 DEF Crash, Fault, WorldTypes
  <2> QED
    BY <1>3, <2>1, <2>2 DEF Crash, TableTypes, WorldTypes, tables, world
<1> QED
  BY <1>1, <1>2, <1>3

\* every step keeps the types
LEMMA StepTyped == TypeInv /\ [Next]_vars => TypeInv'
<1> SUFFICES ASSUME TypeInv, [Next]_vars PROVE TypeInv'
  OBVIOUS
<1>1. CASE UNCHANGED vars
  BY <1>1 DEF vars, tables, world, bounds, TypeInv, TableTypes, WorldTypes, TaskTypes
<1>2. CASE Next
  BY <1>2, HandleTyped, ChangeTyped, SweepTyped, StartTyped, AroundTyped DEF Next
<1> QED
  BY <1>1, <1>2

\* the rows, the countdowns, the updates and the tasks have their types
THEOREM TypeInvCorrect == Spec => []TypeInv
<1>1. Init => TypeInv
  BY FreeTyped DEF Init, TypeInv, TableTypes, WorldTypes, TaskTypes
<1> QED
  BY <1>1, StepTyped, PTL DEF Spec

-----------------------------------------------------------------------------
(* The cache                                                               *)
(*                                                                         *)
(* Between the change of the table and its reload the task that made it    *)
(* keeps the lock, so the cache can differ from the table only while the   *)
(* first task of the queue is at its reload.                               *)

CacheInv ==
  faults = 0 =>
    /\ queue \in Seq(Tasks)
    /\ cache = chats \/ (queue # <<>> /\ task[Head(queue)].pc = "reload")

\* who joins the queue does not change its head
LEMMA QueueGrows ==
  ASSUME queue \in Seq(Tasks), NEW t \in Tasks
  PROVE  /\ Append(queue, t) \in Seq(Tasks) /\ Append(queue, t) # <<>>
         /\ queue # <<>> => Head(Append(queue, t)) = Head(queue) /\ Head(queue) \in Tasks
                            /\ Tail(queue) \in Seq(Tasks)
BY AppendProperties, HeadTailProperties

\* a task that is not at a reload, and that leaves the tables alone or has the
\* lock, leaves a cache that was right right
LEMMA CacheWaits ==
  ASSUME TypeInv, CacheInv, NEW t \in Tasks, task[t].pc # "reload", faults' = 0 => faults = 0,
         chats' = chats, cache' = cache,
         queue' \in {queue, Append(queue, t)} \/ (Holds(t) /\ queue' = Tail(queue)),
         \A u \in Tasks \ {t} : task'[u] = task[u]
  PROVE  CacheInv'
<1> SUFFICES ASSUME faults' = 0
             PROVE  /\ queue' \in Seq(Tasks)
                    /\ cache = chats \/ (queue' # <<>> /\ task'[Head(queue')].pc = "reload")
  BY DEF CacheInv
<1>1. /\ queue \in Seq(Tasks)
      /\ cache = chats \/ (queue # <<>> /\ task[Head(queue)].pc = "reload")
  BY DEF CacheInv
<1>2. CASE Holds(t) /\ queue' = Tail(queue)
  BY <1>1, <1>2, QueueGrows DEF Holds
<1>3. CASE queue' \in {queue, Append(queue, t)}
  <2>1. queue' \in Seq(Tasks) /\ (queue # <<>> => queue' # <<>> /\ Head(queue') = Head(queue))
    BY <1>1, <1>3, QueueGrows
  <2>2. queue # <<>> /\ task[Head(queue)].pc = "reload" => Head(queue) \in Tasks \ {t}
    BY <1>1, QueueGrows
  <2> QED
    BY <1>1, <2>1, <2>2
<1> QED
  BY <1>2, <1>3

\* a task that has the lock leaves the table as it found it, or goes on to the
\* reload without giving the lock back
LEMMA CacheHeld ==
  ASSUME TypeInv, CacheInv, NEW t \in Tasks, ChangeStep(t) \/ SweepStep(t)
  PROVE  CacheInv'
<1>1. task \in [Tasks -> TaskRecords]
  BY DEF TypeInv, TaskTypes
<1>2. CASE Reload(t)
  <2>1. queue \in Seq(Tasks) => Append(Tail(queue), t) \in Seq(Tasks) /\ Tail(queue) \in Seq(Tasks)
    BY <1>2, QueueGrows, AppendProperties DEF Reload, Holds
  <2>2. cache' = chats' /\ faults' = faults /\ queue' \in {Append(Tail(queue), t), Tail(queue)}
    BY <1>2 DEF Reload, Release, tables, bounds
  <2> QED
    BY <2>1, <2>2 DEF CacheInv
<1>3. CASE RemoveFor(t)
  <2>1. \A u \in Tasks \ {t} : task'[u] = task[u]
    BY <1>1, <1>3 DEF RemoveFor, Done, Become, Goto
  <2>2. CASE \E r \in chats : r.chat = task[t].chat
    <3>1. Goto(t, "reload") /\ queue' = queue
      BY <1>3, <2>2 DEF RemoveFor
    <3>2. task'[t].pc = "reload"
      BY <3>1, GotoMoves DEF TypeInv
    <3> QED
      BY <1>3, <3>1, <3>2 DEF RemoveFor, CacheInv, Holds, bounds
  <2>3. CASE ~\E r \in chats : r.chat = task[t].chat
    <3>1. chats' = chats /\ cache' = cache /\ Release
      BY <1>3, <2>3 DEF RemoveFor
    <3> QED
      BY <1>3, <2>1, <3>1, CacheWaits DEF RemoveFor, Release, At, bounds
  <2> QED
    BY <2>2, <2>3
<1>4. CASE AddChat(t)
  <2>1. task'[t].pc = "reload" /\ queue' = queue
    BY <1>4, GotoMoves DEF AddChat, TypeInv
  <2> QED
    BY <1>4, <2>1 DEF AddChat, CacheInv, Holds, bounds
<1>5. CASE RemoveChat(t)
  <2>1. \A u \in Tasks \ {t} : task'[u] = task[u]
    BY <1>1, <1>5 DEF RemoveChat, Done, Become
  <2>2. CASE \E r \in chats : r.id = task[t].id
    <3>1. Become(t, [task[t] EXCEPT !.pc = "reload", !.next = "track"]) /\ queue' = queue
      BY <1>5, <2>2 DEF RemoveChat
    <3>2. task'[t].pc = "reload"
      BY <1>1, <3>1 DEF Become, TaskRecords
    <3> QED
      BY <1>5, <3>1, <3>2 DEF RemoveChat, CacheInv, Holds, bounds
  <2>3. CASE ~\E r \in chats : r.id = task[t].id
    <3>1. chats' = chats /\ cache' = cache /\ Release
      BY <1>5, <2>3 DEF RemoveChat
    <3> QED
      BY <1>5, <2>1, <3>1, CacheWaits DEF RemoveChat, Release, At, bounds
  <2> QED
    BY <2>2, <2>3
<1>6. CASE ListChats(t) \/ Track(t) \/ Check(t) \/ CheckFails(t) \/ AddClashes(t)
  <2>1. \A u \in Tasks \ {t} : task'[u] = task[u]
    BY <1>1, <1>6 DEF ListChats, Track, Check, CheckFails, AddClashes, Done, Become, Goto
  <2> QED
    BY <1>6, <2>1, CacheWaits DEF ListChats, Track, Check, CheckFails, AddClashes, At, Release, bounds, tables
<1>7. CASE SweepList(t) \/ TellHeadAdmin(t) \/ Clear(t)
  <2>1. \A u \in Tasks \ {t} : task'[u] = task[u]
    BY <1>1, <1>7 DEF SweepList, TellHeadAdmin, Clear, NextChat, Become, Goto
  <2> QED
    BY <1>7, <2>1, CacheWaits DEF SweepList, TellHeadAdmin, Clear, At, Release, bounds, tables
<1>8. ASSUME NEW c \in Chats, SkipRegistered(t, c) \/ Leave(t, c) \/ AlreadyOut(t, c) PROVE CacheInv'
  <2>1. \A u \in Tasks \ {t} : task'[u] = task[u]
    BY <1>1, <1>8 DEF SkipRegistered, Leave, AlreadyOut, Take, Become
  <2> QED
    BY <1>8, <2>1, CacheWaits DEF SkipRegistered, Leave, AlreadyOut, At, bounds, tables
<1> QED
  BY <1>2, <1>3, <1>4, <1>5, <1>6, <1>7, <1>8 DEF ChangeStep, SweepStep

\* every step keeps the cache right
LEMMA StepCached == TypeInv /\ CacheInv /\ [Next]_vars => CacheInv'
<1> SUFFICES ASSUME TypeInv, CacheInv, [Next]_vars PROVE CacheInv'
  OBVIOUS
<1>1. task \in [Tasks -> TaskRecords] /\ faults \in Nat
  BY DEF TypeInv, TaskTypes, WorldTypes
<1>2. CASE UNCHANGED vars
  BY <1>2 DEF vars, tables, bounds, CacheInv
<1>3. ASSUME NEW t \in Tasks, task[t] = Free, queue' \in {queue, Append(queue, t)}, chats' = chats,
             cache' = cache, faults' = faults, \E r : Become(t, r)
      PROVE  CacheInv'
  <2>1. task[t].pc # "reload"
    BY <1>3 DEF Free
  <2>2. \A u \in Tasks \ {t} : task'[u] = task[u]
    BY <1>1, <1>3 DEF Become
  <2> QED
    BY <1>3, <2>1, <2>2, CacheWaits
<1>4. ASSUME NEW t \in Tasks, Handle(t) \/ StartSweep(t) PROVE CacheInv'
  BY <1>3, <1>4 DEF Handle, HandleLeft, HandleJoined, StartSweep, tables, bounds
<1>5. ASSUME NEW t \in Tasks, NEW c \in Chats, NEW role \in Roles, StartRegister(t, c, role) PROVE CacheInv'
  BY <1>3, <1>5 DEF StartRegister, tables
<1>6. ASSUME NEW t \in Tasks, NEW r \in chats, StartDelete(t, r) PROVE CacheInv'
  BY <1>3, <1>6 DEF StartDelete, tables
<1>7. ASSUME NEW t \in Tasks, NEW c \in Chats, LeaveFails(t, c) PROVE CacheInv'
  <2>1. \A u \in Tasks \ {t} : task'[u] = task[u]
    BY <1>1, <1>7 DEF LeaveFails, Done, Become
  <2> QED
    BY <1>7, <2>1, CacheWaits DEF LeaveFails, At, tables
<1>8. CASE (\E t \in Tasks : TaskFails(t)) \/ Crash
  <2>1. Fault
    BY <1>8 DEF TaskFails, Crash
  <2>2. faults' # 0
    BY <1>1, <2>1 DEF Fault
  <2> QED
    BY <2>2 DEF CacheInv
<1>9. CASE (\E c \in Chats : Join(c) \/ Kick(c)) \/ Tick
  BY <1>9 DEF Join, Kick, Tick, CacheInv, tables, bounds
<1> QED
  BY <1>2, <1>4, <1>5, <1>6, <1>7, <1>8, <1>9, CacheHeld DEF Next

\* what the poster and the source filter look at is the table whenever no
\* change is under way (_reload under _lock), unless a call failed
THEOREM CacheCorrect == Spec => []CacheIsTheTable
<1>1. Init => CacheInv
  BY DEF Init, CacheInv
<1>2. CacheInv => CacheIsTheTable
  BY DEF CacheInv, CacheIsTheTable
<1> QED
  BY <1>1, <1>2, StepCached, TypeInvCorrect, PTL DEF Spec

-----------------------------------------------------------------------------
(* Chats nobody registered                                                 *)

\* rows have ids of their own, and who deletes a row works on its chat
IdsInv ==
  /\ \A r \in chats : r.id <= lastId
  /\ \A r, q \in chats : r.id = q.id => r = q
  /\ \A t \in Tasks : At(t, "d_remove") =>
       /\ task[t].id <= lastId
       /\ \A r \in chats : r.id = task[t].id => r.chat = task[t].chat

\* one task at most works on the chat
Alone(c) == \A t, u \in Tasks : c \in WorksOn(t) /\ c \in WorksOn(u) => t = u

IsIn(i, c) == updates[i].chat = c /\ updates[i].in

IsOut(i, c) == updates[i].chat = c /\ ~updates[i].in

\* an update that says the bot is in the chat has still to be handled
ComesIn(c) == \E i \in DOMAIN updates : IsIn(i, c)

\* no update takes the chat away for good
Recent(c) == \A i \in DOMAIN updates : IsOut(i, c) => \E j \in DOMAIN updates : i < j /\ IsIn(j, c)

WillTrack(t, c) ==
  /\ task[t].chat = c
  /\ task[t].pc \in {"m_list", "track"} \/ (task[t].pc = "reload" /\ task[t].next = "track")

\* the chat is known, counted down, or will be
Covered(c) == c \in Registered \/ pending[c] # None \/ ComesIn(c) \/ \E t \in Tasks : WillTrack(t, c)

\* who takes the chat off the tables has a reason to
Excused(t, c) ==
  task[t].chat = c =>
    /\ task[t].pc = "m_remove" => ComesIn(c)
    /\ task[t].pc \in {"w_tell", "w_clear"} => c \in Registered \/ ComesIn(c)

\* what the sweep took for registered still is
Knows(t, c) ==
  task[t].pc \in {"w_next", "w_tell", "w_clear"} /\ c \in task[t].due /\ c \in task[t].known => c \in Registered

ChatInv(c) ==
  /\ Alone(c)
  /\ c \in member => Recent(c) /\ Covered(c) /\ \A t \in Tasks : Excused(t, c)
  /\ \A t \in Tasks : Knows(t, c)

ForeignInv == IdsInv /\ \A c \in Chats \ disturbed : ChatInv(c)

\* what the end and the head of the updates mean for a chat
LEMMA UpdateSent ==
  ASSUME TypeInv, NEW c \in Chats, NEW d \in Chats, NEW b \in BOOLEAN,
         updates' = Append(updates, [chat |-> d, in |-> b])
  PROVE  /\ ComesIn(c) => ComesIn(c)'
         /\ d # c /\ Recent(c) => Recent(c)'
         /\ d = c /\ b => ComesIn(c)' /\ Recent(c)'
<1>0. PICK n : n = Len(updates) + 1
  OBVIOUS
<1>1. updates \in Seq(Updates)
  BY DEF TypeInv, WorldTypes
<1>2. /\ n \in Nat /\ DOMAIN updates = 1 .. Len(updates) /\ DOMAIN updates' = 1 .. n
      /\ \A i \in DOMAIN updates : updates'[i] = updates[i] /\ i \in DOMAIN updates' /\ i < n /\ i \in Nat
      /\ n \in DOMAIN updates' /\ updates'[n] = [chat |-> d, in |-> b]
      /\ \A i \in DOMAIN updates' : i = n \/ i \in DOMAIN updates
  BY <1>0, <1>1 DEF Updates
<1>3. ComesIn(c) => ComesIn(c)'
  BY <1>2 DEF ComesIn, IsIn
<1>4. ASSUME d # c, Recent(c) PROVE Recent(c)'
  BY <1>2, <1>4 DEF Recent, IsIn, IsOut
<1>5. ASSUME d = c, b PROVE ComesIn(c)' /\ Recent(c)'
  <2>1. IsIn(n, c)' /\ ~IsOut(n, c)'
    BY <1>2, <1>5 DEF IsIn, IsOut
  <2> QED
    BY <1>2, <2>1 DEF ComesIn, Recent
<1> QED
  BY <1>3, <1>4, <1>5

\* Taking the head off the update queue leaves the newest update of every other chat in the queue;
\* when the head said "out", a chat whose newest update says "in" still has that update to come.
LEMMA UpdateHandled ==
  ASSUME TypeInv, NEW c \in Chats, updates # <<>>, updates' = Tail(updates)
  PROVE  /\ Recent(c) => Recent(c)'
         /\ ComesIn(c) => ComesIn(c)' \/ (Head(updates).chat = c /\ Head(updates).in)
         /\ Recent(c) /\ Head(updates).chat = c /\ ~Head(updates).in => ComesIn(c)'
<1>1. updates \in Seq(Updates)
  BY DEF TypeInv, WorldTypes
<1>2. /\ DOMAIN updates = 1 .. Len(updates) /\ DOMAIN updates' = 1 .. (Len(updates) - 1)
      /\ Len(updates) \in Nat /\ Len(updates) > 0 /\ Head(updates) = updates[1]
      /\ \A i \in DOMAIN updates' : updates'[i] = updates[i + 1]
  BY <1>1, HeadTailProperties, LenProperties
<1>3. \A j \in DOMAIN updates : j > 1 => j - 1 \in DOMAIN updates' /\ (IsIn(j, c) => IsIn(j - 1, c)')
  BY <1>2 DEF IsIn
<1>4. ASSUME Recent(c) PROVE Recent(c)'
  <2> SUFFICES ASSUME NEW i \in DOMAIN updates', IsOut(i, c)'
               PROVE  \E j \in DOMAIN updates' : i < j /\ IsIn(j, c)'
    BY DEF Recent
  <2>1. i + 1 \in DOMAIN updates /\ IsOut(i + 1, c) /\ i \in Nat /\ i > 0
    BY <1>2 DEF IsOut
  <2>2. PICK j \in DOMAIN updates : i + 1 < j /\ IsIn(j, c)
    BY <1>4, <2>1 DEF Recent
  <2>3. j \in Nat /\ j > 1 /\ i < j - 1
    BY <1>2, <2>1, <2>2
  <2> QED
    BY <1>3, <2>2, <2>3
<1>5. ASSUME ComesIn(c), ~(Head(updates).chat = c /\ Head(updates).in) PROVE ComesIn(c)'
  <2>1. PICK j \in DOMAIN updates : IsIn(j, c)
    BY <1>5 DEF ComesIn
  <2>2. j > 1
    BY <1>2, <1>5, <2>1 DEF IsIn
  <2> QED
    BY <1>3, <2>1, <2>2 DEF ComesIn
<1>6. ASSUME Recent(c), Head(updates).chat = c, ~Head(updates).in PROVE ComesIn(c)'
  <2>1. 1 \in DOMAIN updates /\ IsOut(1, c)
    BY <1>2, <1>6 DEF IsOut
  <2>2. PICK j \in DOMAIN updates : 1 < j /\ IsIn(j, c)
    BY <1>6, <2>1 DEF Recent
  <2> QED
    BY <1>2, <1>3, <2>2 DEF ComesIn
<1> QED
  BY <1>4, <1>5, <1>6

\* a step of one task that leaves the others alone
Others(t) == \A u \in Tasks \ {t} : task'[u] = task[u]

Mine(t, c) == \A u \in Tasks \ {t} : c \notin WorksOn(u)

\* What is known of a chat survives a step of one task, provided that the step lets go of the chat
\* only in the ways listed: the others keep working on what they worked on, so only the stepping
\* task has to be looked at.
LEMMA StepFrame ==
  ASSUME TypeInv, NEW c \in Chats, ChatInv(c), NEW t \in Tasks, Others(t),
         c \in WorksOn(t)' => c \in WorksOn(t) \/ Mine(t, c),
         \/ (c \in Registered => c \in Registered') /\ (ComesIn(c) => ComesIn(c)')
         \/ Mine(t, c),
         c \in member' => c \in member /\ Recent(c)' /\ Covered(c)' /\ Excused(t, c)',
         Knows(t, c)'
  PROVE  ChatInv(c)'
<1>1. \A u \in Tasks \ {t} : WorksOn(u)' = WorksOn(u)
  BY DEF Others, WorksOn
<1>2. Alone(c)'
  <2> SUFFICES ASSUME NEW u \in Tasks, NEW v \in Tasks, c \in WorksOn(u)', c \in WorksOn(v)', u # v
               PROVE  FALSE
    BY DEF Alone
  <2> QED
    BY <1>1 DEF ChatInv, Alone, Mine
<1>3. ASSUME NEW u \in Tasks \ {t} PROVE Knows(u, c)' /\ (c \in member' => Excused(u, c)')
  <2>1. task'[u] = task[u] /\ Knows(u, c) /\ (c \in member => Excused(u, c))
    BY DEF Others, ChatInv
  <2>2. CASE (c \in Registered => c \in Registered') /\ (ComesIn(c) => ComesIn(c)')
    BY <2>1, <2>2 DEF Knows, Excused
  <2>3. CASE Mine(t, c)
    BY <2>1, <2>3 DEF Mine, WorksOn, Knows, Excused
  <2> QED
    BY <2>2, <2>3
<1> QED
  BY <1>2, <1>3 DEF ChatInv

\* a step that changes nothing for the chat
LEMMA StepAside ==
  ASSUME TypeInv, NEW c \in Chats, ChatInv(c), NEW t \in Tasks, Others(t),
         c \in WorksOn(t)' => c \in WorksOn(t) \/ Mine(t, c),
         c \in Registered => c \in Registered',
         ComesIn(c) => ComesIn(c)',
         c \in member' => c \in member /\ Excused(t, c)',
         Recent(c) => Recent(c)',
         pending[c] # None => pending'[c] # None,
         WillTrack(t, c) => WillTrack(t, c)',
         Knows(t, c)'
  PROVE  ChatInv(c)'
<1>1. Covered(c) => Covered(c)'
  <2>1. ASSUME NEW u \in Tasks, WillTrack(u, c) PROVE WillTrack(u, c)'
    BY <2>1 DEF Others, WillTrack
  <2> QED
    BY <2>1 DEF Covered
<1> QED
  BY <1>1, StepFrame DEF ChatInv

\* where the steps take a task
LEMMA BecomeLands ==
  ASSUME TypeInv, NEW t \in Tasks, NEW r, Become(t, r)
  PROVE  Others(t) /\ task'[t] = r
BY DEF TypeInv, TaskTypes, Become, Others

\* where the tasks begin
LEMMA BeginLands ==
  ASSUME TypeInv, NEW t \in Tasks
  PROVE  /\ HandleLeft(t) => /\ Others(t) /\ task'[t].pc = "m_remove"
                             /\ task'[t].chat = Head(updates).chat /\ task'[t].due = {}
         /\ HandleJoined(t) => /\ Others(t) /\ task'[t].pc = "m_list"
                               /\ task'[t].chat = Head(updates).chat /\ task'[t].due = {}
         /\ StartSweep(t) => Others(t) /\ task'[t].pc = "w_list" /\ task'[t].chat = None /\ task'[t].due = Due
         /\ \A c, role : StartRegister(t, c, role) =>
              Others(t) /\ task'[t].pc = "a_check" /\ task'[t].chat = c /\ task'[t].due = {}
         /\ \A r : StartDelete(t, r) =>
              /\ Others(t) /\ task'[t].pc = "d_remove" /\ task'[t].chat = r.chat /\ task'[t].due = {}
              /\ task'[t].id = r.id
<1>1. HandleLeft(t) => /\ Others(t) /\ task'[t].pc = "m_remove"
                       /\ task'[t].chat = Head(updates).chat /\ task'[t].due = {}
  <2>1. HandleLeft(t) => Others(t) /\ task'[t] = [Free EXCEPT !.pc = "m_remove", !.chat = Head(updates).chat]
    BY BecomeLands DEF HandleLeft
  <2> QED
    BY <2>1 DEF Free
<1>2. HandleJoined(t) => /\ Others(t) /\ task'[t].pc = "m_list"
                         /\ task'[t].chat = Head(updates).chat /\ task'[t].due = {}
  <2>1. HandleJoined(t) => Others(t) /\ task'[t] = [Free EXCEPT !.pc = "m_list", !.chat = Head(updates).chat]
    BY BecomeLands DEF HandleJoined
  <2> QED
    BY <2>1 DEF Free
<1>3. StartSweep(t) => Others(t) /\ task'[t].pc = "w_list" /\ task'[t].chat = None /\ task'[t].due = Due
  <2>1. StartSweep(t) => Others(t) /\ task'[t] = [Free EXCEPT !.pc = "w_list", !.due = Due]
    BY BecomeLands DEF StartSweep
  <2> QED
    BY <2>1 DEF Free
<1>4. ASSUME NEW c, NEW role, StartRegister(t, c, role)
      PROVE  Others(t) /\ task'[t].pc = "a_check" /\ task'[t].chat = c /\ task'[t].due = {}
  <2>1. Others(t) /\ task'[t] = [Free EXCEPT !.pc = "a_check", !.chat = c, !.role = role]
    BY <1>4, BecomeLands DEF StartRegister
  <2> QED
    BY <2>1 DEF Free
<1>5. ASSUME NEW r, StartDelete(t, r)
      PROVE  /\ Others(t) /\ task'[t].pc = "d_remove" /\ task'[t].chat = r.chat /\ task'[t].due = {}
             /\ task'[t].id = r.id
  <2>1. Others(t) /\ task'[t] = [Free EXCEPT !.pc = "d_remove", !.chat = r.chat, !.id = r.id]
    BY <1>5, BecomeLands DEF StartDelete
  <2> QED
    BY <2>1 DEF Free
<1> QED
  BY <1>1, <1>2, <1>3, <1>4, <1>5

\* where they go on to
LEMMA TaskLands ==
  ASSUME TypeInv, NEW t \in Tasks
  PROVE  /\ Done(t) => Others(t) /\ task'[t] = Free
         /\ \A l : Goto(t, l) => /\ Others(t) /\ task'[t].pc = l /\ task'[t].chat = task[t].chat
                                 /\ task'[t].next = task[t].next /\ task'[t].due = task[t].due
                                 /\ task'[t].id = task[t].id /\ task'[t].known = task[t].known
         /\ Reload(t) =>
              /\ Others(t)
              /\ \/ task[t].next # "track" /\ task'[t] = Free
                 \/ task'[t].pc = "track" /\ task'[t].chat = task[t].chat /\ task'[t].due = task[t].due
         /\ RemoveChat(t) =>
              /\ Others(t)
              /\ \/ (\A r \in chats : r.id # task[t].id) /\ chats' = chats /\ task'[t] = Free
                 \/ /\ task'[t].pc = "reload" /\ task'[t].next = "track"
                    /\ task'[t].chat = task[t].chat /\ task'[t].due = task[t].due
         /\ SweepList(t) =>
              /\ Others(t) /\ task'[t].pc = "w_next" /\ task'[t].known = Registered
              /\ task'[t].chat = task[t].chat /\ task'[t].due = task[t].due
         /\ \A c : LeaveFails(t, c) =>
              /\ Others(t)
              /\ \/ task'[t] = Free
                 \/ /\ task'[t].pc = "w_next" /\ task'[t].known = task[t].known
                    /\ task'[t].chat = task[t].chat /\ task'[t].due = task[t].due \ {c}
         /\ \A c, l : Take(t, c, l) =>
              /\ Others(t) /\ task'[t].pc = l /\ task'[t].chat = c
              /\ task'[t].due = task[t].due \ {c} /\ task'[t].known = task[t].known
         /\ NextChat(t) =>
              /\ Others(t)
              /\ \/ task'[t] = Free
                 \/ /\ task'[t].pc = "w_next" /\ task'[t].chat = None
                    /\ task'[t].due = task[t].due /\ task'[t].known = task[t].known
<1>0. task[t] \in TaskRecords
  BY DEF TypeInv, TaskTypes
<1>1. Done(t) => Others(t) /\ task'[t] = Free
  BY BecomeLands DEF Done
<1>2. ASSUME NEW l, Goto(t, l)
      PROVE  /\ Others(t) /\ task'[t].pc = l /\ task'[t].chat = task[t].chat
             /\ task'[t].next = task[t].next /\ task'[t].due = task[t].due
             /\ task'[t].id = task[t].id /\ task'[t].known = task[t].known
  <2>1. Others(t)
    BY <1>2 DEF Goto, Others, TypeInv, TaskTypes
  <2> QED
    BY <1>2, <2>1, GotoMoves DEF TypeInv
<1>3. ASSUME Reload(t)
      PROVE  /\ Others(t)
             /\ \/ task[t].next # "track" /\ task'[t] = Free
                \/ task'[t].pc = "track" /\ task'[t].chat = task[t].chat /\ task'[t].due = task[t].due
  <2>1. CASE task[t].next = "track"
    <3>1. Others(t) /\ task'[t] = [task[t] EXCEPT !.pc = "track", !.next = "none"]
      BY <1>3, <2>1, BecomeLands DEF Reload
    <3> QED
      BY <1>0, <3>1 DEF TaskRecords
  <2>2. CASE task[t].next # "track"
    BY <1>1, <1>3, <2>2 DEF Reload
  <2> QED
    BY <2>1, <2>2
<1>4. ASSUME RemoveChat(t)
      PROVE  /\ Others(t)
             /\ \/ (\A r \in chats : r.id # task[t].id) /\ chats' = chats /\ task'[t] = Free
                \/ /\ task'[t].pc = "reload" /\ task'[t].next = "track"
                   /\ task'[t].chat = task[t].chat /\ task'[t].due = task[t].due
  <2>1. CASE {r \in chats : r.id = task[t].id} # {}
    <3>1. Others(t) /\ task'[t] = [task[t] EXCEPT !.pc = "reload", !.next = "track"]
      BY <1>4, <2>1, BecomeLands DEF RemoveChat
    <3> QED
      BY <1>0, <3>1 DEF TaskRecords
  <2>2. CASE {r \in chats : r.id = task[t].id} = {}
    BY <1>1, <1>4, <2>2 DEF RemoveChat
  <2> QED
    BY <2>1, <2>2
<1>5. /\ SweepList(t) =>
           /\ Others(t) /\ task'[t].pc = "w_next" /\ task'[t].known = Registered
           /\ task'[t].chat = task[t].chat /\ task'[t].due = task[t].due
      /\ \A c : LeaveFails(t, c) =>
           /\ Others(t)
           /\ \/ task'[t] = Free
              \/ /\ task'[t].pc = "w_next" /\ task'[t].known = task[t].known
                 /\ task'[t].chat = task[t].chat /\ task'[t].due = task[t].due \ {c}
  <2>1. ASSUME SweepList(t)
        PROVE  /\ Others(t) /\ task'[t].pc = "w_next" /\ task'[t].known = Registered
               /\ task'[t].chat = task[t].chat /\ task'[t].due = task[t].due
    <3>1. Others(t) /\ task'[t] = [task[t] EXCEPT !.pc = "w_next", !.known = Registered]
      BY <2>1, BecomeLands DEF SweepList
    <3> QED
      BY <1>0, <3>1 DEF TaskRecords
  <2>2. ASSUME NEW c, LeaveFails(t, c)
        PROVE  /\ Others(t)
               /\ \/ task'[t] = Free
                  \/ /\ task'[t].pc = "w_next" /\ task'[t].known = task[t].known
                     /\ task'[t].chat = task[t].chat /\ task'[t].due = task[t].due \ {c}
    <3>1. \/ Become(t, Free)
          \/ Become(t, [task[t] EXCEPT !.due = @ \ {c}])
      BY <2>2 DEF LeaveFails, Done
    <3>2. /\ Others(t)
          /\ task'[t] = Free \/ task'[t] = [task[t] EXCEPT !.due = @ \ {c}]
      BY <3>1, BecomeLands
    <3> QED
      BY <1>0, <2>2, <3>2 DEF TaskRecords, LeaveFails, At
  <2> QED
    BY <2>1, <2>2
<1>6. ASSUME NEW c, NEW l, Take(t, c, l)
      PROVE  /\ Others(t) /\ task'[t].pc = l /\ task'[t].chat = c
             /\ task'[t].due = task[t].due \ {c} /\ task'[t].known = task[t].known
  <2>1. Others(t) /\ task'[t] = [task[t] EXCEPT !.pc = l, !.chat = c, !.due = @ \ {c}]
    BY <1>6, BecomeLands DEF Take
  <2> QED
    BY <1>0, <2>1 DEF TaskRecords
<1>7. ASSUME NextChat(t)
      PROVE  /\ Others(t)
             /\ \/ task'[t] = Free
                \/ /\ task'[t].pc = "w_next" /\ task'[t].chat = None
                   /\ task'[t].due = task[t].due /\ task'[t].known = task[t].known
  <2>1. CASE task[t].due = {}
    BY <1>7, <2>1, BecomeLands DEF NextChat
  <2>2. CASE task[t].due # {}
    <3>1. Others(t) /\ task'[t] = [task[t] EXCEPT !.chat = None, !.pc = "w_next"]
      BY <1>7, <2>2, BecomeLands DEF NextChat
    <3> QED
      BY <1>0, <3>1 DEF TaskRecords
  <2> QED
    BY <2>1, <2>2
<1> QED
  BY <1>1, <1>2, <1>3, <1>4, <1>5, <1>6, <1>7

\* the only step of a task that ends at the removal of a row begins it
LEMMA IdsKept ==
  ASSUME TypeInv, IdsInv, NEW t \in Tasks, Others(t), task'[t].pc # "d_remove",
         chats' \subseteq chats, lastId' = lastId
  PROVE  IdsInv'
BY DEF IdsInv, Others, At

\* Every step keeps the ids of the registered chats unique, and a removal in progress holding the
\* id of the chat it was asked for.
LEMMA StepIds == TypeInv /\ IdsInv /\ [Next]_vars => IdsInv'
<1> SUFFICES ASSUME TypeInv, IdsInv, [Next]_vars PROVE IdsInv'
  OBVIOUS
<1>1. CASE UNCHANGED vars
  BY <1>1 DEF vars, tables, IdsInv, At
<1>2. CASE (\E c \in Chats : Join(c) \/ Kick(c)) \/ Tick
  BY <1>2 DEF Join, Kick, Tick, tables, IdsInv, At
<1>3. CASE Crash
  BY <1>3 DEF Crash, tables, IdsInv, At, Free
<1>4. ASSUME NEW t \in Tasks, Handle(t) \/ StartSweep(t) \/ TaskFails(t) PROVE IdsInv'
  <2>1. Others(t) /\ task'[t].pc # "d_remove"
    BY <1>4, TaskLands, BeginLands DEF Handle, TaskFails, Free
  <2> QED
    BY <1>4, <2>1, IdsKept DEF Handle, HandleLeft, HandleJoined, StartSweep, TaskFails, tables
<1>5. ASSUME NEW t \in Tasks, NEW c \in Chats, NEW role \in Roles, StartRegister(t, c, role) PROVE IdsInv'
  <2>1. Others(t) /\ task'[t].pc # "d_remove"
    BY <1>5, BeginLands
  <2> QED
    BY <1>5, <2>1, IdsKept DEF StartRegister, tables
<1>6. ASSUME NEW t \in Tasks, NEW c \in Chats, LeaveFails(t, c) PROVE IdsInv'
  <2>0. task[t] \in TaskRecords /\ At(t, "w_next")
    BY <1>6 DEF TypeInv, TaskTypes, LeaveFails
  <2>1. Others(t) /\ task'[t].pc # "d_remove"
    BY <1>6, <2>0, TaskLands DEF Free
  <2> QED
    BY <1>6, <2>1, IdsKept DEF LeaveFails, tables
<1>7. ASSUME NEW t \in Tasks, NEW r \in chats, StartDelete(t, r) PROVE IdsInv'
  <2>1. Others(t) /\ task'[t].id = r.id /\ task'[t].chat = r.chat
    BY <1>7, BeginLands
  <2>2. chats' = chats /\ lastId' = lastId
    BY <1>7 DEF StartDelete, tables
  <2> QED
    BY <2>1, <2>2 DEF IdsInv, Others, At
<1>8. ASSUME NEW t \in Tasks, AddChat(t) PROVE IdsInv'
  <2>1. Others(t) /\ task'[t].pc = "reload"
    BY <1>8, TaskLands DEF AddChat
  <2>2. CASE chats' = chats /\ lastId' = lastId
    BY <2>1, <2>2, IdsKept
  <2>3. CASE /\ chats' = chats \cup {[id |-> lastId + 1, chat |-> task[t].chat, role |-> task[t].role]}
             /\ lastId' = lastId + 1
    <3> DEFINE n == [id |-> lastId + 1, chat |-> task[t].chat, role |-> task[t].role]
    <3>1. /\ lastId \in Nat /\ \A r \in chats : r.id \in Nat
          /\ \A u \in Tasks : task[u].id \in Nat
      BY DEF TypeInv, TableTypes, TableRows, TaskTypes, TaskRecords
    <3>2. n.id = lastId + 1 /\ chats' = chats \cup {n}
      BY <2>3
    <3> HIDE DEF n
    <3>3. \A r \in chats' : r.id <= lastId'
      BY <2>3, <3>1, <3>2 DEF IdsInv
    <3>4. \A r, q \in chats' : r.id = q.id => r = q
      BY <2>3, <3>1, <3>2 DEF IdsInv
    <3>5. ASSUME NEW u \in Tasks, At(u, "d_remove")'
          PROVE  /\ task'[u].id <= lastId'
                 /\ \A r \in chats' : r.id = task'[u].id => r.chat = task'[u].chat
      <4>1. task'[u] = task[u] /\ At(u, "d_remove")
        BY <2>1, <3>5 DEF Others, At
      <4>2. task[u].id <= lastId /\ task[u].id \in Nat
        BY <3>1, <4>1 DEF IdsInv
      <4> QED
        BY <2>3, <3>1, <3>2, <4>1, <4>2 DEF IdsInv
    <3> QED
      BY <3>3, <3>4, <3>5 DEF IdsInv
  <2> QED
    BY <1>8, <2>2, <2>3 DEF AddChat
<1>9. ASSUME NEW t \in Tasks, ChangeStep(t), ~AddChat(t) PROVE IdsInv'
  <2>0. task[t] \in TaskRecords
    BY DEF TypeInv, TaskTypes
  <2>1. Others(t) /\ task'[t].pc # "d_remove"
    BY <1>9, <2>0, TaskLands
       DEF ChangeStep, ListChats, RemoveFor, Track, Check, CheckFails, AddClashes, Free
  <2> QED
    BY <1>9, <2>1, IdsKept
       DEF ChangeStep, ListChats, RemoveFor, Reload, Track, Check, CheckFails, AddClashes, RemoveChat, tables
<1>10. ASSUME NEW t \in Tasks, SweepStep(t) PROVE IdsInv'
  <2>1. ASSUME NEW c \in Chats, SkipRegistered(t, c) \/ Leave(t, c) \/ AlreadyOut(t, c)
        PROVE  Others(t) /\ task'[t].pc # "d_remove"
    BY <2>1, TaskLands DEF SkipRegistered, Leave, AlreadyOut
  <2>2. ASSUME SweepList(t) \/ TellHeadAdmin(t) \/ Clear(t)
        PROVE  Others(t) /\ task'[t].pc # "d_remove"
    BY <2>2, TaskLands DEF TellHeadAdmin, Clear, Free
  <2>3. Others(t) /\ task'[t].pc # "d_remove"
    BY <1>10, <2>1, <2>2 DEF SweepStep
  <2> QED
    BY <1>10, <2>3, IdsKept
       DEF SweepStep, SweepList, TellHeadAdmin, Clear, SkipRegistered, Leave, AlreadyOut, tables
<1> QED
  BY <1>1, <1>2, <1>3, <1>4, <1>5, <1>6, <1>7, <1>8, <1>9, <1>10 DEF Next

\* None is no chat, and a task that ends or has not begun works on nothing
LEMMA FreeWorks ==
  ASSUME NEW c \in Chats, NEW t \in Tasks
  PROVE  /\ c # None
         /\ task[t] = Free => c \notin WorksOn(t) /\ ~WillTrack(t, c)
         /\ task'[t] = Free => c \notin WorksOn(t)' /\ ~WillTrack(t, c)' /\ Excused(t, c)' /\ Knows(t, c)'
BY ChatRegistryAssumption DEF Free, WorksOn, WillTrack, Excused, Knows

\* the membership handler takes the next update for the chat it is about
LEMMA HandleKeeps ==
  ASSUME TypeInv, NEW t \in Tasks, Handle(t), NEW c \in Chats \ disturbed', ChatInv(c)
  PROVE  ChatInv(c)'
<1> DEFINE d == Head(updates).chat
<1>1. task[t] = Free /\ updates # <<>> /\ updates' = Tail(updates) /\ Meet(t, {d})
      /\ chats' = chats /\ pending' = pending /\ member' = member
  BY DEF Handle, HandleLeft, HandleJoined, tables
<1>2. Others(t) /\ task'[t].chat = d /\ task'[t].due = {}
      /\ task'[t].pc = IF Head(updates).in THEN "m_list" ELSE "m_remove"
  BY BeginLands DEF Handle, HandleLeft, HandleJoined
<1>3. c = d => Mine(t, c)
  BY <1>1 DEF Meet, Mine
<1>4. c \in WorksOn(t)' => c \in WorksOn(t) \/ Mine(t, c)
  BY <1>2, <1>3, FreeWorks DEF WorksOn
<1>5. Knows(t, c)' /\ ~WillTrack(t, c)
  BY <1>1, <1>2, FreeWorks DEF Knows
<1>6. Recent(c) => Recent(c)'
  BY <1>1, UpdateHandled
<1>7. CASE c # d
  <2>1. (ComesIn(c) => ComesIn(c)') /\ Excused(t, c)'
    BY <1>1, <1>2, <1>7, UpdateHandled DEF Excused
  <2>2. c \in Registered => c \in Registered'
    BY <1>1 DEF Registered
  <2> HIDE DEF d
  <2> QED
    BY <1>1, <1>2, <1>4, <1>5, <1>6, <2>1, <2>2, StepAside
<1>8. CASE c = d
  <2>1. ASSUME c \in member PROVE Covered(c)' /\ Excused(t, c)'
    <3>1. CASE Head(updates).in
      BY <1>2, <1>8, <3>1 DEF Covered, WillTrack, Excused
    <3>2. CASE ~Head(updates).in
      <4>1. ComesIn(c)'
        BY <1>1, <1>8, <2>1, <3>2, UpdateHandled DEF ChatInv
      <4> QED
        BY <1>2, <3>2, <4>1 DEF Covered, Excused
    <3> QED
      BY <3>1, <3>2
  <2> QED
    BY <1>1, <1>2, <1>3, <1>4, <1>5, <1>6, <1>8, <2>1, StepFrame DEF ChatInv
<1> QED
  BY <1>7, <1>8

\* a task that begins with a chat of its own choice
LEMMA BeginKeeps ==
  ASSUME TypeInv, NEW t \in Tasks, NEW c \in Chats \ disturbed', ChatInv(c),
         \/ StartSweep(t)
         \/ \E d \in Chats, role \in Roles : StartRegister(t, d, role)
         \/ \E r \in chats : StartDelete(t, r)
  PROVE  ChatInv(c)'
<1>1. task[t] = Free /\ UNCHANGED <<tables, world>>
  BY DEF StartSweep, StartRegister, StartDelete
<1>2. Others(t) /\ task'[t].pc \in {"w_list", "a_check", "d_remove"}
  BY BeginLands
<1>3. c \in WorksOn(t)' => Mine(t, c)
  <2>1. CASE StartSweep(t)
    BY <2>1, BeginLands, FreeWorks DEF StartSweep, Meet, Mine, WorksOn
  <2>2. ASSUME NEW d \in Chats, NEW role \in Roles, StartRegister(t, d, role) PROVE c \in WorksOn(t)' => Mine(t, c)
    BY <2>2, BeginLands DEF StartRegister, Meet, Mine, WorksOn
  <2>3. ASSUME NEW r \in chats, StartDelete(t, r) PROVE c \in WorksOn(t)' => Mine(t, c)
    BY <2>3, BeginLands DEF StartDelete, Meet, Mine, WorksOn
  <2> QED
    BY <2>1, <2>2, <2>3
<1>4. Knows(t, c)' /\ ~WillTrack(t, c) /\ Excused(t, c)'
  BY <1>1, <1>2, FreeWorks DEF Knows, Excused
<1>5. /\ c \in Registered => c \in Registered'
      /\ c \in member' => c \in member
      /\ pending[c] # None => pending'[c] # None
  BY <1>1 DEF Registered, tables, world
<1>6. (ComesIn(c) => ComesIn(c)') /\ (Recent(c) => Recent(c)')
  BY <1>1 DEF world, ComesIn, Recent, IsIn, IsOut
<1> QED
  BY <1>2, <1>3, <1>4, <1>5, <1>6, StepAside

\* the steps of a change of the table that take no row away
LEMMA ChangeKeeps ==
  ASSUME TypeInv, NEW t \in Tasks, NEW c \in Chats \ disturbed', ChatInv(c),
         \/ ListChats(t) \/ Reload(t) \/ Track(t) \/ Check(t) \/ CheckFails(t) \/ AddChat(t) \/ AddClashes(t)
  PROVE  ChatInv(c)'
<1>0. pending \in [Chats -> Countdown \cup {None}] /\ Grace # None
  BY ChatRegistryAssumption DEF TypeInv, TableTypes
<1>1. /\ Others(t)
      /\ \/ task'[t] = Free
         \/ /\ task'[t].chat = task[t].chat /\ task'[t].due = task[t].due
            /\ task'[t].pc \in {"track", "a_add", "reload"}
  BY TaskLands DEF ListChats, Track, Check, CheckFails, AddChat, AddClashes
<1>2. (c \in WorksOn(t)' => c \in WorksOn(t)) /\ Knows(t, c)' /\ Excused(t, c)'
  BY <1>1, FreeWorks DEF WorksOn, Knows, Excused
<1>3. /\ c \in Registered => c \in Registered'
      /\ member' = member /\ updates' = updates
  BY DEF ListChats, Reload, Track, Check, CheckFails, AddChat, AddClashes, Registered, tables, world
<1>4. (ComesIn(c) => ComesIn(c)') /\ (Recent(c) => Recent(c)')
  BY <1>3 DEF ComesIn, Recent, IsIn, IsOut
<1>5. CASE task[t].chat # c
  <2>1. ~WillTrack(t, c)
    BY <1>5 DEF WillTrack
  <2>2. pending'[c] = pending[c]
    BY <1>0, <1>5 DEF ListChats, Reload, Track, Check, CheckFails, AddChat, AddClashes, tables
  <2> QED
    BY <1>1, <1>2, <1>3, <1>4, <2>1, <2>2, StepAside
<1>6. CASE task[t].chat = c
  <2>1. CASE ListChats(t)
    <3>1. CASE c \in Registered
      BY <1>1, <1>2, <1>3, <1>4, <3>1, StepFrame DEF ChatInv, Covered
    <3>2. CASE c \notin Registered
      <4>1. Goto(t, "track") /\ pending' = pending
        BY <1>6, <2>1, <3>2 DEF ListChats, tables
      <4>2. WillTrack(t, c)'
        BY <1>6, <4>1, TaskLands DEF WillTrack
      <4> QED
        BY <1>1, <1>2, <1>3, <1>4, <4>1, <4>2, StepAside
    <3> QED
      BY <3>1, <3>2
  <2>2. CASE Reload(t)
    <3>1. WillTrack(t, c) => WillTrack(t, c)'
      BY <2>2, TaskLands DEF WillTrack, Reload, At
    <3>2. pending' = pending
      BY <2>2 DEF Reload, tables
    <3> QED
      BY <1>1, <1>2, <1>3, <1>4, <3>1, <3>2, StepAside
  <2>3. CASE Track(t)
    <3>1. c \in Registered' \/ pending'[c] # None
      BY <1>0, <1>3, <1>6, <2>3 DEF Track
    <3> QED
      BY <1>1, <1>2, <1>3, <1>4, <3>1, StepFrame DEF ChatInv, Covered
  <2>4. CASE Check(t) \/ CheckFails(t) \/ AddClashes(t)
    <3>1. ~WillTrack(t, c) /\ pending' = pending
      BY <2>4 DEF Check, CheckFails, AddClashes, At, WillTrack, tables
    <3> QED
      BY <1>1, <1>2, <1>3, <1>4, <3>1, StepAside
  <2>5. CASE AddChat(t)
    <3>1. c \in Registered'
      BY <1>3, <1>6, <2>5 DEF AddChat, Registered
    <3> QED
      BY <1>1, <1>2, <1>3, <1>4, <3>1, StepFrame DEF ChatInv, Covered
  <2> QED
    BY <2>1, <2>2, <2>3, <2>4, <2>5
<1> QED
  BY <1>5, <1>6

\* who takes a chat off the list has it to itself, and the bot is out of the
\* chat, or an update says it is back, or the countdown follows
LEMMA RemoveKeeps ==
  ASSUME TypeInv, IdsInv, NEW t \in Tasks, NEW c \in Chats \ disturbed', ChatInv(c),
         RemoveFor(t) \/ RemoveChat(t)
  PROVE  ChatInv(c)'
<1>0. pending \in [Chats -> Countdown \cup {None}]
  BY DEF TypeInv, TableTypes
<1>1. /\ Others(t)
      /\ \/ task'[t] = Free
         \/ task'[t].chat = task[t].chat /\ task'[t].due = task[t].due /\ task'[t].pc = "reload"
  BY TaskLands DEF RemoveFor
<1>2. (c \in WorksOn(t)' => c \in WorksOn(t)) /\ Knows(t, c)' /\ Excused(t, c)'
  BY <1>1, FreeWorks DEF WorksOn, Knows, Excused
<1>3. member' = member /\ updates' = updates
  BY DEF RemoveFor, RemoveChat, world
<1>4. (ComesIn(c) => ComesIn(c)') /\ (Recent(c) => Recent(c)')
  BY <1>3 DEF ComesIn, Recent, IsIn, IsOut
<1>5. ~WillTrack(t, c)
  BY DEF RemoveFor, RemoveChat, At, WillTrack
<1>6. CASE task[t].chat # c
  <2>1. c \in Registered => c \in Registered'
    BY <1>6 DEF RemoveFor, RemoveChat, Registered, IdsInv
  <2>2. pending'[c] = pending[c]
    BY <1>0, <1>6 DEF RemoveFor, RemoveChat
  <2> QED
    BY <1>1, <1>2, <1>3, <1>4, <1>5, <2>1, <2>2, StepAside
<1>7. CASE task[t].chat = c
  <2>1. Mine(t, c)
    BY <1>7 DEF ChatInv, Alone, Mine, WorksOn
  <2>2. CASE RemoveFor(t)
    <3>1. c \in member => Covered(c)'
      BY <1>4, <1>7, <2>2 DEF ChatInv, Excused, RemoveFor, At, Covered
    <3> QED
      BY <1>1, <1>2, <1>3, <1>4, <2>1, <3>1, StepFrame DEF ChatInv
  <2>3. CASE RemoveChat(t)
    <3>0. pending' = pending
      BY <2>3 DEF RemoveChat
    <3>1. CASE chats' = chats
      <4>1. c \in Registered => c \in Registered'
        BY <3>1 DEF Registered
      <4> QED
        BY <1>1, <1>2, <1>3, <1>4, <1>5, <3>0, <4>1, StepAside
    <3>2. CASE chats' # chats
      <4>1. WillTrack(t, c)'
        BY <1>7, <2>3, <3>2, TaskLands DEF WillTrack
      <4> QED
        BY <1>1, <1>2, <1>3, <1>4, <2>1, <4>1, StepFrame DEF ChatInv, Covered
    <3> QED
      BY <3>1, <3>2
  <2> QED
    BY <2>2, <2>3
<1> QED
  BY <1>6, <1>7

\* what the sweep does to the chats it does not look at
LEMMA SweepPasses ==
  ASSUME TypeInv, NEW t \in Tasks, NEW c \in Chats \ disturbed', ChatInv(c), Others(t),
         Sweeping(t), chats' = chats, member' \subseteq member,
         pending[c] # None => pending'[c] # None,
         (ComesIn(c) => ComesIn(c)') /\ (Recent(c) => Recent(c)'),
         c \in WorksOn(t)' => c \in WorksOn(t),
         c \in member' => Excused(t, c)', Knows(t, c)'
  PROVE  ChatInv(c)'
<1>1. ~WillTrack(t, c)
  BY DEF Sweeping, WillTrack
<1>2. c \in Registered => c \in Registered'
  BY DEF Registered
<1> QED
  BY <1>1, <1>2, StepAside

\* The sweep that leaves foreign chats, and a call to leave one that fails, keep what is known of
\* every chat that is not disturbed.
LEMMA SweepKeeps ==
  ASSUME TypeInv, NEW t \in Tasks, NEW c \in Chats \ disturbed', ChatInv(c),
         SweepStep(t) \/ \E d \in Chats : LeaveFails(t, d)
  PROVE  ChatInv(c)'
<1>0. pending \in [Chats -> Countdown \cup {None}] /\ Knows(t, c) /\ (c \in member => Excused(t, c))
  BY DEF TypeInv, TableTypes, ChatInv
<1>1. chats' = chats /\ Sweeping(t)
  BY DEF SweepStep, SweepList, TellHeadAdmin, Clear, SkipRegistered, Leave, AlreadyOut, LeaveFails, tables, At,
         Sweeping
<1>2. c \in Registered <=> c \in Registered'
  BY <1>1 DEF Registered
<1>3. CASE UNCHANGED world
  <2>0. updates' = updates /\ member' = member
    BY <1>3 DEF world
  <2>1. (ComesIn(c) => ComesIn(c)') /\ (Recent(c) => Recent(c)')
    BY <2>0 DEF ComesIn, Recent, IsIn, IsOut
  <2>2. CASE SweepList(t)
    <3>1. Others(t) /\ (c \in WorksOn(t)' => c \in WorksOn(t)) /\ Excused(t, c)' /\ Knows(t, c)'
      BY <1>2, <2>2, TaskLands DEF WorksOn, Excused, Knows
    <3> QED
      BY <1>1, <2>0, <2>1, <2>2, <3>1, SweepPasses DEF SweepList, tables
  <2>3. CASE TellHeadAdmin(t)
    <3>1. /\ Others(t) /\ (c \in WorksOn(t)' => c \in WorksOn(t)) /\ Knows(t, c)'
          /\ task'[t].pc = "w_clear" /\ task'[t].chat = task[t].chat /\ At(t, "w_tell")
      BY <1>0, <1>2, <2>3, TaskLands DEF TellHeadAdmin, WorksOn, Knows, At
    <3>2. c \in member => Excused(t, c)'
      BY <1>0, <1>2, <2>1, <3>1 DEF Excused, At
    <3> QED
      BY <1>1, <2>0, <2>1, <2>3, <3>1, <3>2, SweepPasses DEF TellHeadAdmin, tables
  <2>4. CASE Clear(t)
    <3>1. /\ Others(t)
          /\ \/ task'[t] = Free
             \/ /\ task'[t].pc = "w_next" /\ task'[t].chat = None
                /\ task'[t].due = task[t].due /\ task'[t].known = task[t].known
      BY <2>4, TaskLands DEF Clear
    <3>2. c # None /\ At(t, "w_clear")
      BY <2>4, FreeWorks DEF Clear
    <3>3. (c \in WorksOn(t)' => c \in WorksOn(t)) /\ Excused(t, c)' /\ Knows(t, c)'
      BY <1>0, <1>2, <3>1, <3>2, FreeWorks DEF WorksOn, Excused, Knows, At
    <3>4. CASE task[t].chat # c
      <4>1. pending'[c] = pending[c]
        BY <1>0, <2>4, <3>4 DEF Clear
      <4> QED
        BY <1>1, <2>0, <2>1, <3>1, <3>3, <4>1, SweepPasses
    <3>5. CASE task[t].chat = c
      <4>1. c \in member => Covered(c)'
        BY <1>0, <1>2, <2>1, <3>2, <3>5 DEF Excused, At, Covered
      <4> QED
        BY <1>2, <2>0, <2>1, <3>1, <3>3, <4>1, StepFrame DEF ChatInv
    <3> QED
      BY <3>4, <3>5
  <2>5. ASSUME NEW d \in Chats, SkipRegistered(t, d) \/ AlreadyOut(t, d) PROVE ChatInv(c)'
    <3>1. /\ Others(t) /\ task'[t].pc = "w_clear" /\ task'[t].chat = d
          /\ task'[t].due = task[t].due \ {d} /\ task'[t].known = task[t].known
          /\ At(t, "w_next") /\ d \in task[t].due /\ (d \in task[t].known \/ d \notin member)
          /\ pending' = pending
      BY <2>5, TaskLands DEF SkipRegistered, AlreadyOut, tables
    <3>2. (c \in WorksOn(t)' => c \in WorksOn(t)) /\ Knows(t, c)'
      BY <1>0, <1>2, <3>1 DEF WorksOn, Knows, At
    <3>3. c \in member => Excused(t, c)'
      BY <1>0, <1>2, <3>1 DEF Excused, Knows, At
    <3> QED
      BY <1>1, <2>0, <2>1, <3>1, <3>2, <3>3, SweepPasses
  <2>6. ASSUME NEW d \in Chats, LeaveFails(t, d) PROVE ChatInv(c)'
    <3>1. /\ Others(t) /\ At(t, "w_next") /\ pending' = pending
          /\ \/ task'[t] = Free
             \/ /\ task'[t].pc = "w_next" /\ task'[t].known = task[t].known
                /\ task'[t].chat = task[t].chat /\ task'[t].due = task[t].due \ {d}
      BY <2>6, TaskLands DEF LeaveFails, tables
    <3>2. (c \in WorksOn(t)' => c \in WorksOn(t)) /\ Excused(t, c)' /\ Knows(t, c)'
      BY <1>0, <1>2, <3>1, FreeWorks DEF WorksOn, Excused, Knows, At
    <3> QED
      BY <1>1, <2>0, <2>1, <3>1, <3>2, SweepPasses
  <2>7. ASSUME NEW d \in Chats, Leave(t, d) PROVE ChatInv(c)'
    <3>1. d \in member /\ member' = member \ {d}
      BY <2>7 DEF Leave
    <3> QED
      BY <2>0, <3>1
  <2> QED
    BY <2>2, <2>3, <2>4, <2>5, <2>6, <2>7 DEF SweepStep
<1>4. ASSUME NEW d \in Chats, Leave(t, d) PROVE ChatInv(c)'
  <2>1. /\ Others(t) /\ task'[t].pc = "w_tell" /\ task'[t].chat = d
        /\ task'[t].due = task[t].due \ {d} /\ task'[t].known = task[t].known
        /\ At(t, "w_next") /\ d \in task[t].due
        /\ pending' = pending /\ member' = member \ {d}
        /\ updates' = Append(updates, [chat |-> d, in |-> FALSE])
    BY <1>4, TaskLands DEF Leave, tables
  <2>2. (c \in WorksOn(t)' => c \in WorksOn(t)) /\ Knows(t, c)'
    BY <1>0, <1>2, <2>1 DEF WorksOn, Knows, At
  <2>3. (ComesIn(c) => ComesIn(c)') /\ (c # d /\ Recent(c) => Recent(c)')
    BY <2>1, UpdateSent
  <2>4. CASE c # d
    <3>1. Excused(t, c)'
      BY <2>1, <2>4 DEF Excused
    <3> QED
      BY <1>1, <2>1, <2>2, <2>3, <2>4, <3>1, SweepPasses
  <2>5. CASE c = d
    BY <1>2, <2>1, <2>2, <2>3, <2>5, StepFrame
  <2> QED
    BY <2>4, <2>5
<1> QED
  BY <1>3, <1>4
     DEF SweepStep, SweepList, TellHeadAdmin, Clear, SkipRegistered, AlreadyOut, LeaveFails, world

\* a task that fails takes its chat along, unless it sweeps
LEMMA FailKeeps ==
  ASSUME TypeInv, NEW t \in Tasks, NEW c \in Chats \ disturbed', ChatInv(c), TaskFails(t)
  PROVE  ChatInv(c)'
<1>1. Others(t) /\ task'[t] = Free /\ UNCHANGED <<tables, world>>
  BY TaskLands DEF TaskFails
<1>2. ~WillTrack(t, c)
  BY FreeWorks DEF TaskFails, Dropped, Sweeping, WillTrack
<1>3. /\ c \in Registered => c \in Registered'
      /\ c \in member' => c \in member
      /\ pending[c] # None => pending'[c] # None
  BY <1>1 DEF Registered, tables, world
<1>4. (ComesIn(c) => ComesIn(c)') /\ (Recent(c) => Recent(c)')
  BY <1>1 DEF world, ComesIn, Recent, IsIn, IsOut
<1> QED
  BY <1>1, <1>2, <1>3, <1>4, FreeWorks, StepAside

\* nobody works on anything after a restart
LEMMA CrashKeeps ==
  ASSUME TypeInv, NEW c \in Chats \ disturbed', ChatInv(c), Crash
  PROVE  ChatInv(c)'
<1>1. (\A t \in Tasks : task'[t] = Free) /\ UNCHANGED <<tables, world>>
  BY DEF Crash
<1>2. \A t \in Tasks : c \notin WorksOn(t)' /\ Excused(t, c)' /\ Knows(t, c)'
  BY <1>1, FreeWorks
<1>3. \A t \in Tasks : ~WillTrack(t, c)
  BY FreeWorks DEF Crash, Dropped, Sweeping, WillTrack
<1>4. (Covered(c) => Covered(c)') /\ (Recent(c) => Recent(c)') /\ member' = member
  BY <1>1, <1>3 DEF tables, world, Covered, Registered, ComesIn, Recent, IsIn, IsOut
<1> QED
  BY <1>2, <1>4 DEF ChatInv, Alone

\* somebody moves the bot: the update about it comes last
LEMMA MoveKeeps ==
  ASSUME TypeInv, NEW c \in Chats, ChatInv(c), NEW d \in Chats, Join(d) \/ Kick(d)
  PROVE  ChatInv(c)'
<1>1. UNCHANGED <<tables, task>>
  BY DEF Join, Kick
<1>2. \A t \in Tasks : WorksOn(t)' = WorksOn(t) /\ (WillTrack(t, c) => WillTrack(t, c)') /\ Knows(t, c)'
  BY <1>1 DEF WorksOn, WillTrack, Knows, ChatInv, tables, Registered
<1>3. Alone(c)'
  BY <1>2 DEF ChatInv, Alone
<1>4. PICK b \in BOOLEAN : /\ updates' = Append(updates, [chat |-> d, in |-> b])
                           /\ b => member' = member \cup {d}
                           /\ ~b => member' = member \ {d}
  BY DEF Join, Kick
<1>5. /\ ComesIn(c) => ComesIn(c)'
      /\ d # c /\ Recent(c) => Recent(c)'
      /\ d = c /\ b => ComesIn(c)' /\ Recent(c)'
  BY <1>4, UpdateSent
<1>6. ASSUME c \in member' PROVE Recent(c)' /\ Covered(c)' /\ \A t \in Tasks : Excused(t, c)'
  <2>1. CASE d = c
    BY <1>4, <1>5, <1>6, <2>1 DEF Covered, Excused
  <2>2. CASE d # c
    <3>1. c \in member
      BY <1>4, <1>6, <2>2
    <3>2. Covered(c)'
      BY <1>1, <1>2, <1>5, <3>1 DEF ChatInv, Covered, tables, Registered
    <3> QED
      BY <1>1, <1>5, <2>2, <3>1, <3>2 DEF ChatInv, Excused, tables, Registered
  <2> QED
    BY <2>1, <2>2
<1> QED
  BY <1>2, <1>3, <1>6 DEF ChatInv

\* a countdown that runs out is not over
LEMMA TickKeeps ==
  ASSUME TypeInv, NEW c \in Chats, ChatInv(c), Tick
  PROVE  ChatInv(c)'
<1>1. UNCHANGED <<chats, task, world>>
  BY DEF Tick
<1>2. pending[c] # None => pending'[c] # None
  <2>1. pending[c] \in Countdown \cup {None} /\ (pending[c] \in Countdown \ {0} => pending[c] - 1 \in Countdown)
    BY ChatRegistryAssumption DEF TypeInv, TableTypes, Countdown
  <2> QED
    BY <2>1, ChatRegistryAssumption DEF Tick, Countdown
<1> QED
  BY <1>1, <1>2
     DEF ChatInv, Alone, WorksOn, Recent, Covered, Excused, Knows, Registered, ComesIn, IsIn, IsOut, WillTrack,
         At, world

\* no step ever takes a chat out of the disturbed ones
LEMMA StepDisturbs == Next => disturbed \subseteq disturbed'
<1>1. ASSUME NEW t \in Tasks, Handle(t) \/ StartSweep(t) PROVE disturbed \subseteq disturbed'
  BY <1>1 DEF Handle, HandleLeft, HandleJoined, StartSweep, Meet
<1>2. ASSUME NEW t \in Tasks, ChangeStep(t) PROVE disturbed \subseteq disturbed'
  BY <1>2 DEF ChangeStep, ListChats, RemoveFor, Reload, Track, Check, CheckFails, AddChat, AddClashes, RemoveChat
<1>3. ASSUME NEW t \in Tasks, SweepStep(t) PROVE disturbed \subseteq disturbed'
  BY <1>3 DEF SweepStep, SweepList, TellHeadAdmin, Clear, SkipRegistered, Leave, AlreadyOut
<1>4. ASSUME NEW t \in Tasks, TaskFails(t) PROVE disturbed \subseteq disturbed'
  BY <1>4 DEF TaskFails
<1>5. ASSUME NEW t \in Tasks, NEW c \in Chats, LeaveFails(t, c) PROVE disturbed \subseteq disturbed'
  BY <1>5 DEF LeaveFails
<1>6. ASSUME NEW t \in Tasks, NEW c \in Chats, NEW role \in Roles, StartRegister(t, c, role)
      PROVE  disturbed \subseteq disturbed'
  BY <1>6 DEF StartRegister, Meet
<1>7. ASSUME NEW t \in Tasks, NEW r \in chats, StartDelete(t, r) PROVE disturbed \subseteq disturbed'
  BY <1>7 DEF StartDelete, Meet
<1>8. ASSUME (\E c \in Chats : Join(c) \/ Kick(c)) \/ Tick \/ Crash PROVE disturbed \subseteq disturbed'
  BY <1>8 DEF Join, Kick, Tick, Crash
<1> QED
  BY <1>1, <1>2, <1>3, <1>4, <1>5, <1>6, <1>7, <1>8 DEF Next

\* every step keeps the invariant of every chat
LEMMA StepForeign == TypeInv /\ ForeignInv /\ [Next]_vars => ForeignInv'
<1> SUFFICES ASSUME TypeInv, ForeignInv, [Next]_vars PROVE ForeignInv'
  OBVIOUS
<1>1. IdsInv'
  BY StepIds DEF ForeignInv
<1>2. CASE UNCHANGED vars
  <2>1. UNCHANGED <<chats, pending, member, updates, task, disturbed>>
    BY <1>2 DEF vars, tables, world
  <2> QED
    BY <1>1, <2>1
       DEF ForeignInv, ChatInv, Alone, WorksOn, Recent, Covered, Excused, Knows, Registered, ComesIn, IsIn,
           IsOut, WillTrack, At
<1>3. CASE Next
  <2>1. ASSUME NEW c \in Chats \ disturbed' PROVE ChatInv(c)'
    <3>1. ChatInv(c) /\ IdsInv
      BY <1>3, StepDisturbs DEF ForeignInv
    <3>2. ASSUME NEW t \in Tasks, ChangeStep(t) PROVE ChatInv(c)'
      BY <3>1, <3>2, ChangeKeeps, RemoveKeeps DEF ChangeStep
    <3> QED
      BY <1>3, <3>1, <3>2, HandleKeeps, BeginKeeps, SweepKeeps, FailKeeps, CrashKeeps, MoveKeeps, TickKeeps
         DEF Next
  <2> QED
    BY <1>1, <2>1 DEF ForeignInv
<1> QED
  BY <1>2, <1>3

\* a chat that is in nobody's hands and has no countdown is registered, or the
\* bot is not in it, unless two tasks worked on it at once or its handler failed
THEOREM ForeignCorrect == Spec => []ForeignIsTracked
<1>1. Init => ForeignInv
  BY FreeTyped, FreeWorks
     DEF Init, ForeignInv, IdsInv, At, ChatInv, Alone, WorksOn, Knows
<1>2. TypeInv /\ ForeignInv => ForeignIsTracked
  <2> SUFFICES ASSUME TypeInv, ForeignInv, updates = <<>>,
                      NEW c \in Chats, c \notin disturbed, \A t \in Tasks : c \notin WorksOn(t), c \in member
               PROVE  c \in Registered \/ pending[c] # None
    BY DEF ForeignIsTracked
  <2>1. Covered(c)
    BY DEF ForeignInv, ChatInv
  <2>2. ~ComesIn(c) /\ \A t \in Tasks : ~WillTrack(t, c)
    BY DEF ComesIn, WillTrack, WorksOn
  <2> QED
    BY <2>1, <2>2 DEF Covered
<1> QED
  BY <1>1, <1>2, StepForeign, TypeInvCorrect, PTL DEF Spec
=============================================================================

---------------------------- MODULE ChatRegistry ----------------------------
(***************************************************************************)
(* The channels and groups the bot works in: the registered chats and      *)
(* their RAM copy (db/chats.py), the countdown of chats nobody registered  *)
(* and the sweep that leaves them (chat_guard.py), the check of the bot's  *)
(* rights (chat_access.py), and the head admin's page with the handler of  *)
(* the bot's own membership (handlers/admin_chats.py).                     *)
(*                                                                         *)
(* Every handler and the sweep runs as a task; one action is one           *)
(* transaction or one Telegram call.  _lock serves its waiters in turn,    *)
(* so it is the queue of the tasks that asked for it.                      *)
(***************************************************************************)
EXTENDS Integers, Sequences, FiniteSets

CONSTANTS
  Chats,
  Groups,     \* the chats that are not channels
  Tasks,      \* handlers and jobs running at the same time
  Grace,      \* foreign_chat_grace_hours, in ticks
  MaxMoves,   \* bound: times somebody adds, promotes or removes the bot
  MaxOps,     \* bound: chats registered or removed from the list
  MaxRefused, \* bound: leave_chat calls that fail
  MaxFaults,  \* bound: failed database calls and restarts
  None

ASSUME ChatRegistryAssumption ==
  /\ Groups \subseteq Chats
  /\ None \notin Chats \cup (0 .. Grace)
  /\ Grace \in Nat /\ MaxMoves \in Nat /\ MaxOps \in Nat /\ MaxRefused \in Nat /\ MaxFaults \in Nat

Roles == {"source", "target"}

Ids == 1 .. MaxOps

\* the rows of the chats table
Rows == [id : Ids, chat : Chats, role : Roles]

Countdown == 0 .. Grace

VARIABLES
  chats,     \* the chats table
  pending,   \* the pending_chats table: ticks up to expires_at, or None
  cache,     \* _cache and _source_ids
  queue,     \* the tasks that hold _lock or wait for it, in order
  member,    \* the chats the bot is in
  updates,   \* my_chat_member updates that are not handled yet
  task,      \* the running handlers and the sweep, with their locals
  \* bookkeeping of the model
  lastId, moves, ops, refused, faults,
  disturbed  \* chats that two tasks worked on at once, or whose handler failed

tables == <<chats, pending>>
world == <<member, updates>>
bounds == <<moves, ops, refused, faults>>
vars == <<tables, cache, queue, world, task, lastId, bounds, disturbed>>

-----------------------------------------------------------------------------
(* Tasks *)

Free == [pc |-> "idle", chat |-> None, role |-> "none",
         id |-> 0,     \* the row to remove
         next |-> "none",   \* what follows the reload
         due |-> {},   \* the chats the sweep has still to look at
         known |-> {}] \* the registered chats it has seen

At(t, label) == task[t].pc = label

Become(t, r) == task' = [task EXCEPT ![t] = r]

Goto(t, label) == task' = [task EXCEPT ![t].pc = label]

Done(t) == Become(t, Free)

Registered == {r.chat : r \in chats}

Holds(t) == queue # <<>> /\ Head(queue) = t

Release == queue' = Tail(queue)

\* the chats a task has begun to look at
WorksOn(t) == {task[t].chat} \cup task[t].due

\* a task begins to work on the chats S
Meet(t, S) == disturbed' = disturbed \cup {c \in S : \E u \in Tasks \ {t} : c \in WorksOn(u)}

Init ==
  /\ chats = {} /\ cache = {}
  /\ pending = [c \in Chats |-> None]
  /\ queue = <<>>
  /\ member = {} /\ updates = <<>>
  /\ task = [t \in Tasks |-> Free]
  /\ lastId = 0
  /\ moves = 0 /\ ops = 0 /\ refused = 0 /\ faults = 0
  /\ disturbed = {}

-----------------------------------------------------------------------------
(* on_bot_membership: the handlers start in the order of the updates *)

HandleLeft(t) ==
  /\ task[t] = Free
  /\ updates # <<>> /\ ~Head(updates).in
  /\ updates' = Tail(updates)
  /\ queue' = Append(queue, t)
  /\ Meet(t, {Head(updates).chat})
  /\ Become(t, [Free EXCEPT !.pc = "m_remove", !.chat = Head(updates).chat])
  /\ UNCHANGED <<tables, cache, member, lastId, bounds>>

HandleJoined(t) ==
  /\ task[t] = Free
  /\ updates # <<>> /\ Head(updates).in
  /\ updates' = Tail(updates)
  /\ Meet(t, {Head(updates).chat})
  /\ Become(t, [Free EXCEPT !.pc = "m_list", !.chat = Head(updates).chat])
  /\ UNCHANGED <<tables, cache, queue, member, lastId, bounds>>

\* list_chats: a registered chat needs no countdown
ListChats(t) ==
  /\ At(t, "m_list")
  /\ IF task[t].chat \in Registered
       THEN Done(t) /\ UNCHANGED queue
       ELSE Goto(t, "track") /\ queue' = Append(queue, t)
  /\ UNCHANGED <<tables, cache, world, lastId, bounds, disturbed>>

\* broken: a chat without a countdown needs no reload
RemoveForQuietly(t) ==
  LET gone == {r \in chats : r.chat = task[t].chat} IN
    /\ At(t, "m_remove") /\ Holds(t)
    /\ chats' = chats \ gone
    /\ pending' = [pending EXCEPT ![task[t].chat] = None]
    /\ Done(t) /\ Release
    /\ UNCHANGED <<cache, world, lastId, bounds, disturbed>>

\* remove_chats_for
RemoveFor(t) ==
  LET gone == {r \in chats : r.chat = task[t].chat} IN
    /\ At(t, "m_remove") /\ Holds(t)
    /\ chats' = chats \ gone
    /\ pending' = [pending EXCEPT ![task[t].chat] = None]
    /\ IF gone = {} THEN Done(t) /\ Release ELSE Goto(t, "reload") /\ UNCHANGED queue
    /\ UNCHANGED <<cache, world, lastId, bounds, disturbed>>

\* broken: a chat that is taken off the list gets no countdown
ReloadOnly(t) ==
  /\ At(t, "reload") /\ Holds(t)
  /\ cache' = chats
  /\ Done(t) /\ Release
  /\ UNCHANGED <<tables, world, lastId, bounds, disturbed>>

\* _reload, the end of every change of the table
Reload(t) ==
  /\ At(t, "reload") /\ Holds(t)
  /\ cache' = chats
  /\ IF task[t].next = "track"
       THEN Become(t, [task[t] EXCEPT !.pc = "track", !.next = "none"]) /\ queue' = Append(Tail(queue), t)
       ELSE Done(t) /\ Release
  /\ UNCHANGED <<tables, world, lastId, bounds, disturbed>>

\* track_pending: nothing for a registered chat, and an old deadline stays
Track(t) ==
  /\ At(t, "track") /\ Holds(t)
  /\ pending' = [pending EXCEPT ![task[t].chat] =
                   IF task[t].chat \notin Registered /\ @ = None THEN Grace ELSE @]
  /\ Release
  /\ Done(t)
  /\ UNCHANGED <<chats, cache, world, lastId, bounds, disturbed>>

-----------------------------------------------------------------------------
(* The head admin's page *)

\* on_pick, on_chat_input, up to check_bot_access
StartRegister(t, c, role) ==
  /\ task[t] = Free
  /\ ops < MaxOps
  /\ ops' = ops + 1
  /\ Meet(t, {c})
  /\ Become(t, [Free EXCEPT !.pc = "a_check", !.chat = c, !.role = role])
  /\ UNCHANGED <<tables, cache, queue, world, lastId, moves, refused, faults>>

\* the bot is in the chat, a source is a channel, and its rights suffice
Check(t) ==
  /\ At(t, "a_check")
  /\ task[t].chat \in member
  /\ task[t].role = "source" => task[t].chat \notin Groups
  /\ Goto(t, "a_add")
  /\ queue' = Append(queue, t)
  /\ UNCHANGED <<tables, cache, world, lastId, bounds, disturbed>>

CheckFails(t) ==
  /\ At(t, "a_check")
  /\ Done(t)
  /\ UNCHANGED <<tables, cache, queue, world, lastId, bounds, disturbed>>

Clash(c, role) == \E r \in chats : r.chat = c /\ r.role # role

\* add_chat: a new row, or fresh details of the old one
AddChat(t) ==
  LET c == task[t].chat
      role == task[t].role
  IN  /\ At(t, "a_add") /\ Holds(t)
      /\ ~Clash(c, role)
      /\ IF c \in Registered
           THEN UNCHANGED <<chats, lastId>>
           ELSE /\ chats' = chats \cup {[id |-> lastId + 1, chat |-> c, role |-> role]}
                /\ lastId' = lastId + 1
      /\ pending' = [pending EXCEPT ![c] = None]
      /\ Goto(t, "reload")
      /\ UNCHANGED <<cache, queue, world, bounds, disturbed>>

AddClashes(t) ==
  /\ At(t, "a_add") /\ Holds(t)
  /\ Clash(task[t].chat, task[t].role)
  /\ Release
  /\ Done(t)
  /\ UNCHANGED <<tables, cache, world, lastId, bounds, disturbed>>

\* on_delete, for a row that was there when the page was drawn
StartDelete(t, r) ==
  /\ task[t] = Free
  /\ ops < MaxOps
  /\ ops' = ops + 1
  /\ Meet(t, {r.chat})
  /\ queue' = Append(queue, t)
  /\ Become(t, [Free EXCEPT !.pc = "d_remove", !.chat = r.chat, !.id = r.id])
  /\ UNCHANGED <<tables, cache, world, lastId, moves, refused, faults>>

\* remove_chat, and the countdown begins unless the row was gone
RemoveChat(t) ==
  LET gone == {r \in chats : r.id = task[t].id} IN
    /\ At(t, "d_remove") /\ Holds(t)
    /\ chats' = chats \ gone
    /\ IF gone = {}
         THEN Done(t) /\ Release
         ELSE Become(t, [task[t] EXCEPT !.pc = "reload", !.next = "track"]) /\ UNCHANGED queue
    /\ UNCHANGED <<pending, cache, world, lastId, bounds, disturbed>>

-----------------------------------------------------------------------------
(* chat_guard.sweep_pending_chats *)

Sweeping(t) == task[t].pc \in {"w_list", "w_next", "w_tell", "w_clear"}

Due == {c \in Chats : pending[c] = 0}

\* broken: the job does not run again after an error
StartSweepUntilError(t) ==
  /\ task[t] = Free
  /\ ~\E u \in Tasks : Sweeping(u)
  /\ Due # {} /\ refused = 0
  /\ Meet(t, Due)
  /\ Become(t, [Free EXCEPT !.pc = "w_list", !.due = Due])
  /\ UNCHANGED <<tables, cache, queue, world, lastId, bounds>>

\* due_pending_chats
StartSweep(t) ==
  /\ task[t] = Free
  /\ ~\E u \in Tasks : Sweeping(u)
  /\ Due # {}
  /\ Meet(t, Due)
  /\ Become(t, [Free EXCEPT !.pc = "w_list", !.due = Due])
  /\ UNCHANGED <<tables, cache, queue, world, lastId, bounds>>

\* list_chats
SweepList(t) ==
  /\ At(t, "w_list")
  /\ Become(t, [task[t] EXCEPT !.pc = "w_next", !.known = Registered])
  /\ UNCHANGED <<tables, cache, queue, world, lastId, bounds, disturbed>>

\* the chat has been dealt with: on to the next one
NextChat(t) ==
  Become(t, IF task[t].due = {} THEN Free ELSE [task[t] EXCEPT !.chat = None, !.pc = "w_next"])

Take(t, c, label) == Become(t, [task[t] EXCEPT !.pc = label, !.chat = c, !.due = @ \ {c}])

SkipRegistered(t, c) ==
  /\ At(t, "w_next") /\ c \in task[t].due
  /\ c \in task[t].known
  /\ Take(t, c, "w_clear")
  /\ queue' = Append(queue, t)
  /\ UNCHANGED <<tables, cache, world, lastId, bounds, disturbed>>

Leave(t, c) ==
  /\ At(t, "w_next") /\ c \in task[t].due
  /\ c \notin task[t].known
  /\ c \in member
  /\ member' = member \ {c}
  /\ updates' = Append(updates, [chat |-> c, in |-> FALSE])
  /\ Take(t, c, "w_tell")
  /\ UNCHANGED <<tables, cache, queue, lastId, bounds, disturbed>>

\* TelegramBadRequest, TelegramForbiddenError
AlreadyOut(t, c) ==
  /\ At(t, "w_next") /\ c \in task[t].due
  /\ c \notin task[t].known
  /\ c \notin member
  /\ Take(t, c, "w_clear")
  /\ queue' = Append(queue, t)
  /\ UNCHANGED <<tables, cache, world, lastId, bounds, disturbed>>

\* any other error leaves the chat to the next sweep, a flood wait all of them
LeaveFails(t, c) ==
  /\ At(t, "w_next") /\ c \in task[t].due
  /\ c \notin task[t].known
  /\ refused < MaxRefused
  /\ refused' = refused + 1
  /\ \/ Done(t)
     \/ Become(t, IF task[t].due = {c} THEN Free ELSE [task[t] EXCEPT !.due = @ \ {c}])
  /\ UNCHANGED <<tables, cache, queue, world, lastId, moves, ops, faults, disturbed>>

TellHeadAdmin(t) ==
  /\ At(t, "w_tell")
  /\ Goto(t, "w_clear")
  /\ queue' = Append(queue, t)
  /\ UNCHANGED <<tables, cache, world, lastId, bounds, disturbed>>

\* clear_pending
Clear(t) ==
  /\ At(t, "w_clear") /\ Holds(t)
  /\ pending' = [pending EXCEPT ![task[t].chat] = None]
  /\ Release
  /\ NextChat(t)
  /\ UNCHANGED <<chats, cache, world, lastId, bounds, disturbed>>

-----------------------------------------------------------------------------
(* Surroundings *)

\* somebody adds the bot, or changes its rights
Join(c) ==
  /\ moves < MaxMoves
  /\ moves' = moves + 1
  /\ member' = member \cup {c}
  /\ updates' = Append(updates, [chat |-> c, in |-> TRUE])
  /\ UNCHANGED <<tables, cache, queue, task, lastId, ops, refused, faults, disturbed>>

Kick(c) ==
  /\ c \in member
  /\ moves < MaxMoves
  /\ moves' = moves + 1
  /\ member' = member \ {c}
  /\ updates' = Append(updates, [chat |-> c, in |-> FALSE])
  /\ UNCHANGED <<tables, cache, queue, task, lastId, ops, refused, faults, disturbed>>

Tick ==
  /\ \E c \in Chats : pending[c] \notin {None, 0}
  /\ pending' = [c \in Chats |-> IF pending[c] \in {None, 0} THEN pending[c] ELSE pending[c] - 1]
  /\ UNCHANGED <<chats, cache, queue, world, task, lastId, bounds, disturbed>>

\* the chat whose change is lost with the task: a sweep comes again
Dropped(t) == IF Sweeping(t) THEN {} ELSE {task[t].chat} \ {None}

Fault == faults < MaxFaults /\ faults' = faults + 1

\* a database call raises: the task ends and leaves the queue
TaskFails(t) ==
  /\ task[t] # Free
  /\ Fault
  /\ queue' = SelectSeq(queue, LAMBDA u : u # t)
  /\ disturbed' = disturbed \cup Dropped(t)
  /\ Done(t)
  /\ UNCHANGED <<tables, cache, world, lastId, moves, ops, refused>>

\* load_chats fills the cache at the start
Crash ==
  /\ Fault
  /\ task' = [t \in Tasks |-> Free]
  /\ queue' = <<>>
  /\ cache' = chats
  /\ disturbed' = disturbed \cup UNION {Dropped(t) : t \in Tasks}
  /\ UNCHANGED <<tables, world, lastId, moves, ops, refused>>

-----------------------------------------------------------------------------

Handle(t) == HandleLeft(t) \/ HandleJoined(t)

ChangeStep(t) == ListChats(t) \/ RemoveFor(t) \/ Reload(t) \/ Track(t) \/ Check(t) \/ CheckFails(t)
                 \/ AddChat(t) \/ AddClashes(t) \/ RemoveChat(t)

SweepStep(t) ==
  \/ SweepList(t) \/ TellHeadAdmin(t) \/ Clear(t)
  \/ \E c \in Chats : SkipRegistered(t, c) \/ Leave(t, c) \/ AlreadyOut(t, c)

Next ==
  \/ \E t \in Tasks :
       \/ Handle(t) \/ ChangeStep(t) \/ StartSweep(t) \/ SweepStep(t) \/ TaskFails(t)
       \/ \E c \in Chats : LeaveFails(t, c) \/ \E role \in Roles : StartRegister(t, c, role)
       \/ \E r \in chats : StartDelete(t, r)
  \/ \E c \in Chats : Join(c) \/ Kick(c)
  \/ Tick \/ Crash

Spec == Init /\ [][Next]_vars

\* awaited calls return, updates are delivered, deadlines pass, and the
\* scheduler sweeps every ten minutes
FairSpec ==
  /\ Spec
  /\ \A t \in Tasks : WF_vars(ChangeStep(t) \/ SweepStep(t))
  /\ WF_vars(\E t \in Tasks : Handle(t))
  /\ WF_vars(\E t \in Tasks : StartSweep(t))
  /\ WF_vars(Tick)

-----------------------------------------------------------------------------
(* Properties *)

TaskOK(r) ==
  /\ r.pc \in {"idle", "m_remove", "m_list", "track", "reload", "a_check", "a_add", "d_remove",
               "w_list", "w_next", "w_tell", "w_clear"}
  /\ r.chat \in Chats \cup {None} /\ r.role \in Roles \cup {"none"}
  /\ r.id \in Ids \cup {0} /\ r.next \in {"track", "none"}
  /\ r.due \subseteq Chats /\ r.known \subseteq Chats

TypeOK ==
  /\ chats \subseteq Rows /\ cache \subseteq Rows
  /\ pending \in [Chats -> Countdown \cup {None}]
  /\ queue \in Seq(Tasks) /\ member \subseteq Chats
  /\ \A i \in DOMAIN updates : updates[i].chat \in Chats /\ updates[i].in \in BOOLEAN
  /\ \A t \in Tasks : TaskOK(task[t])
  /\ lastId \in 0 .. MaxOps
  /\ moves \in 0 .. MaxMoves /\ ops \in 0 .. MaxOps /\ refused \in 0 .. MaxRefused
  /\ faults \in 0 .. MaxFaults /\ disturbed \subseteq Chats

(* What the poster and the source filter look at is the table whenever no  *)
(* change is under way (db/chats.py:91), in whichever order the changes    *)
(* were made, unless a call failed between the change and its reload.      *)
CacheIsTheTable == queue = <<>> /\ faults = 0 => cache = chats

(* A chat that is in nobody's hands and has no countdown is registered, or *)
(* the bot is not in it (README.md:26), unless two tasks worked on it at   *)
(* once or its handler failed (both do break it, see README.md).           *)
ForeignIsTracked ==
  updates = <<>> =>
    \A c \in Chats : c \notin disturbed /\ (\A t \in Tasks : c \notin WorksOn(t)) =>
      (c \in member => c \in Registered \/ pending[c] # None)

(* A chat with a countdown is registered or left in the end, also when     *)
(* leaving it or the sweep failed, or the bot was restarted                *)
(* (chat_guard.py:47), unless two tasks worked on it at once or its        *)
(* handler failed.                                                         *)
ForeignIsLeft ==
  \A c \in Chats : pending[c] # None ~> c \in Registered \cup disturbed \/ c \notin member

(* chat_guard.py:59, "registered meanwhile: never leave a registered chat" *)
NeverLeavesRegistered == [][\A t \in Tasks, c \in Chats : Leave(t, c) => c \notin Registered]_vars
=============================================================================

------------------------------- MODULE Publish -------------------------------
(***************************************************************************)
(* Finished products and their posts in the target chats: publishing       *)
(* (poster.py), the sold mark, the admin's edits and the AI polish that    *)
(* follows them (handlers/admin_products.py, repolish.py), the ID line     *)
(* (post_id.py) and the sweep that drops products whose source post is     *)
(* gone (source_sweep.py).                                                 *)
(*                                                                         *)
(* One action is one database transaction or one Telegram call, with all   *)
(* the task does up to its next await.  A caption is abstracted to the     *)
(* values of the fields it was built from and to whether it has the ID     *)
(* line.  Which product the scheduler picks belongs to Autopost, which     *)
(* chats are targets to ChatRegistry.                                      *)
(***************************************************************************)
EXTENDS Naturals, FiniteSets

CONSTANTS
  NumProducts,     \* products with ai_status "done"
  NumChats,        \* target_chats(): without one publish_product raises NoTargetError
  Fields,          \* what an admin can edit
  Legacy,          \* products whose caption was stored before there was an ID line
  DeletePrevious,  \* repost_policy is "delete_previous"
  Tasks,           \* handlers and jobs running at the same time
  MaxPubs,         \* bound: publications
  MaxOps,          \* bound: publications, edits and taps on sold, available or remove
  MaxFaults,       \* bound: failed or lost calls, deleted posts and crashes
  Hidden           \* what a message shows that is not there

ASSUME PublishAssumption ==
  /\ NumProducts \in Nat /\ NumChats \in Nat \ {0}
  /\ NumProducts <= MaxPubs
  /\ Legacy \subseteq 1 .. NumProducts
  /\ DeletePrevious \in BOOLEAN
  /\ MaxPubs \in Nat /\ MaxOps \in Nat /\ MaxFaults \in Nat
  /\ IsFiniteSet(Tasks)

Products == 1 .. NumProducts

NoProduct == 0

Chats == 1 .. NumChats

\* the n-th publication sends one message to each chat
Msgs == 1 .. MaxPubs * NumChats

MsgOf(n, c) == (n - 1) * NumChats + c

\* values of the fields: 0 is the AI's, the n-th edit stores n
Texts == [Fields -> 0 .. MaxOps]

Blank == [f \in Fields |-> 0]

\* the ID line of a caption: it is there, it is missing, or it is missing and
\* there is no stored sales pitch to build the caption anew with
Lines == {"shown", "missing", "stuck"}

Captions == [text : Texts, tag : Lines]

\* what a post shows: a caption, and the sold banner instead of the buy button
Looks == [cap : Captions, sold : BOOLEAN]

ASSUME HiddenAssumption == Hidden \notin [cap : [text : [Fields -> Nat], tag : Lines], sold : BOOLEAN]

VARIABLES
  \* the products table
  status,   \* status
  data,     \* the editable columns
  caption,  \* caption_html
  \* the post_log table
  live,     \* the logged messages with is_live
  \* the target chats
  product,  \* the product a message is about
  view,     \* what a message shows, Hidden when it is not there
  gone,     \* products whose source post was deleted
  task,     \* the running handlers and jobs, with their locals
  \* bookkeeping of the model
  lastPub, edits, ops,
  mixed,    \* products that tasks of different kinds, or a failed polish, met on
  met,      \* products that two edits met on
  dropped,  \* products the sweep has taken down and nobody posted since
  faults

rows == <<status, data, caption>>
posts == <<live, product, view>>
ghosts == <<lastPub, edits, ops, mixed, met, dropped>>
vars == <<rows, posts, gone, task, ghosts, faults>>

-----------------------------------------------------------------------------
(* Tasks *)

Free == [pc |-> "idle", kind |-> "none", job |-> NoProduct,
         base |-> Blank,                           \* the fields as they were read
         cap |-> [text |-> Blank, tag |-> "shown"],  \* the caption to write or to show
         sold |-> FALSE,                           \* whether to show the banner
         pub |-> 0, chat |-> 0, sent |-> {},       \* publication, next target, messages sent
         todo |-> {},                              \* messages to edit or delete
         batch |-> {}]                             \* products the sweep has still to look at

At(t, label) == task[t].pc = label

Become(t, r) == task' = [task EXCEPT ![t] = r]

Goto(t, label) == task' = [task EXCEPT ![t].pc = label]

Done(t) == Become(t, Free)

WorkOn(p) == {t \in Tasks : task[t].job = p}

LiveOf(p) == {m \in live : product[m] = p}

Least(S) == CHOOSE x \in S : \A y \in S : x <= y

\* nothing was published yet, or every product once, in every chat
Fresh == lastPub = 0 /\ live = {}

Posted == lastPub = NumProducts /\ live = {MsgOf(p, c) : p \in Products, c \in Chats}

\* the start-up backfill has added the line to some captions, and it edits no post
Init ==
  /\ Fresh \/ Posted
  /\ status = [p \in Products |-> "active"]
  /\ data = [p \in Products |-> Blank]
  /\ product = [m \in Msgs |-> IF m \in live THEN (m - 1) \div NumChats + 1 ELSE NoProduct]
  /\ \E line, stored \in [Products -> Lines] :
       /\ \A p \in Products : stored[p] \in {line[p], "shown"} /\ (p \notin Legacy => line[p] = "shown")
       /\ caption = [p \in Products |-> [text |-> Blank, tag |-> stored[p]]]
       /\ view = [m \in Msgs |->
                    IF m \in live THEN [cap |-> [text |-> Blank, tag |-> line[product[m]]], sold |-> FALSE]
                    ELSE Hidden]
  /\ gone = {}
  /\ task = [t \in Tasks |-> Free]
  /\ edits = 0 /\ ops = 0
  /\ mixed = {} /\ met = {} /\ dropped = {}
  /\ faults = 0

Publications == {"post", "now", "auto"}

\* a task of kind k begins to work on p: two publications, or two edits, may meet
Meet(k, p) ==
  /\ mixed' = IF \A u \in WorkOn(p) : {task[u].kind, k} \subseteq Publications \/ {task[u].kind, k} = {"edit"}
                THEN mixed ELSE mixed \cup {p}
  /\ met' = IF \E u \in WorkOn(p) : {task[u].kind, k} = {"edit"} THEN met \cup {p} ELSE met

\* ... with p as it has just read it
Begin(t, k, p, label) ==
  /\ task[t] = Free
  /\ ops < MaxOps
  /\ ops' = ops + 1
  /\ Meet(k, p)
  /\ Become(t, [Free EXCEPT !.pc = label, !.kind = k, !.job = p, !.base = data[p], !.cap = caption[p]])

Fault == faults < MaxFaults /\ faults' = faults + 1

-----------------------------------------------------------------------------
(* post_id.ensure_caption_id: a caption without its ID line is built anew  *)
(* from the fields the caller has read; a caption that has it, or that     *)
(* cannot be built without a sales pitch, is returned as it is             *)

Rebuilt(t) == [text |-> task[t].base, tag |-> "shown"]

\* broken: the caption is stored, but the old one is used
EnsureIdUnused(t, label) ==
  /\ caption' = [caption EXCEPT ![task[t].job] = Rebuilt(t)]
  /\ Goto(t, label)

EnsureId(t, label) ==
  /\ caption' = [caption EXCEPT ![task[t].job] = Rebuilt(t)]
  /\ Become(t, [task[t] EXCEPT !.pc = label, !.cap = Rebuilt(t)])

-----------------------------------------------------------------------------
(* poster.publish_product and its callers *)

StartPublication(t, k, p) ==
  /\ status[p] = "active"
  /\ \A u \in Tasks : task[u].kind # k
  /\ lastPub + Cardinality({u \in Tasks : At(u, "l_wait")}) < MaxPubs
  /\ Begin(t, k, p, "l_wait")
  /\ UNCHANGED <<rows, posts, gone, lastPub, edits, dropped, faults>>

\* admin_products.on_post, one at a time under _PUBLISH_LOCK
PostThis(t, p) == StartPublication(t, "post", p)

\* scheduler.post_next, called by admin._run_post, one at a time under
\* _POST_LOCK, and as the scheduler's job, of which one instance runs at a time
PostNow(t, p) == StartPublication(t, "now", p)

AutoPost(t, p) == StartPublication(t, "auto", p)

\* the tasks inside "async with _publish_lock"
Publishing == {t \in Tasks : task[t].kind \in Publications /\ ~At(t, "l_wait")}

EnterLock(t) ==
  /\ At(t, "l_wait")
  /\ lastPub' = lastPub + 1
  /\ Become(t, [task[t] EXCEPT !.pc = IF task[t].cap.tag = "missing" THEN "l_id" ELSE "s_send",
                               !.pub = lastPub + 1, !.chat = 1])
  /\ UNCHANGED <<rows, posts, gone, edits, ops, mixed, met, dropped, faults>>

\* broken: no lock
LockTwice(t) == EnterLock(t)

\* the lock serves its waiters in turn; here any of them may be next
Lock(t) == Publishing = {} /\ EnterLock(t)

PublishId(t) ==
  /\ At(t, "l_id")
  /\ EnsureId(t, "s_send")
  /\ UNCHANGED <<status, data, posts, gone, ghosts, faults>>

Msg(t) == MsgOf(task[t].pub, task[t].chat)

\* the message is there, with the buy button
Appear(t) ==
  /\ product' = [product EXCEPT ![Msg(t)] = task[t].job]
  /\ view' = [view EXCEPT ![Msg(t)] = [cap |-> task[t].cap, sold |-> FALSE]]
  /\ UNCHANGED live

Send(t) ==
  /\ At(t, "s_send")
  /\ Appear(t)
  /\ Goto(t, "s_log")
  /\ dropped' = dropped \ {task[t].job}
  /\ UNCHANGED <<rows, gone, lastPub, edits, ops, mixed, met, faults>>

\* the next target, or what follows the last one; PublishError when nothing was sent
NextTarget(t, ok) ==
  LET r == [task[t] EXCEPT !.sent = ok] IN
    Become(t, IF task[t].chat < NumChats THEN [r EXCEPT !.pc = "s_send", !.chat = @ + 1]
              ELSE IF ok = {} THEN Free
              ELSE [r EXCEPT !.pc = "s_mark"])

\* add_post_log
Log(t) ==
  /\ At(t, "s_log")
  /\ live' = live \cup {Msg(t)}
  /\ NextTarget(t, task[t].sent \cup {Msg(t)})
  /\ UNCHANGED <<rows, product, view, gone, ghosts, faults>>

\* a target that fails does not stop the others; it may have got the message all the same
SendFails(t) ==
  /\ At(t, "s_send")
  /\ Fault
  /\ Appear(t) \/ UNCHANGED posts
  /\ NextTarget(t, task[t].sent)
  /\ UNCHANGED <<rows, gone, ghosts>>

\* mark_posted, get_settings
MarkPosted(t) ==
  /\ At(t, "s_mark")
  /\ IF DeletePrevious THEN Goto(t, "d_list") ELSE Done(t)
  /\ UNCHANGED <<rows, posts, gone, ghosts, faults>>

-----------------------------------------------------------------------------
(* Taking posts down: what a publication replaces, all of a dropped product *)

\* the next product of the sweep, or the end of the task
AfterDeleting(t) ==
  /\ Become(t, IF task[t].batch = {} THEN Free
               ELSE [Free EXCEPT !.pc = "w_probe", !.kind = "sweep", !.batch = task[t].batch])
  /\ dropped' = IF task[t].kind = "sweep" THEN dropped \cup {task[t].job} ELSE dropped

DeleteNext(t, rest) ==
  IF rest = {} THEN AfterDeleting(t)
  ELSE /\ Become(t, [task[t] EXCEPT !.pc = "d_del", !.todo = rest])
       /\ UNCHANGED dropped

\* live_posts, without the messages just sent
ListOld(t) ==
  /\ At(t, "d_list")
  /\ DeleteNext(t, LiveOf(task[t].job) \ task[t].sent)
  /\ UNCHANGED <<rows, posts, gone, lastPub, edits, ops, mixed, met, faults>>

Delete(t) ==
  /\ At(t, "d_del")
  /\ view' = [view EXCEPT ![Least(task[t].todo)] = Hidden]
  /\ Goto(t, "d_dead")
  /\ UNCHANGED <<rows, live, product, gone, ghosts, faults>>

\* broken: a post that could not be deleted stays in the list of live posts
DeleteFailsEarly(t) ==
  /\ At(t, "d_del")
  /\ Fault
  /\ DeleteNext(t, task[t].todo \ {Least(task[t].todo)})
  /\ UNCHANGED <<rows, posts, gone, lastPub, edits, ops, mixed, met>>

\* a failed deletion is only logged
DeleteFails(t) ==
  /\ At(t, "d_del")
  /\ Fault
  /\ Goto(t, "d_dead")
  /\ UNCHANGED <<rows, posts, gone, ghosts>>

\* mark_post_dead, whether the deletion succeeded or not
MarkDead(t) ==
  /\ At(t, "d_dead")
  /\ live' = live \ {Least(task[t].todo)}
  /\ DeleteNext(t, task[t].todo \ {Least(task[t].todo)})
  /\ UNCHANGED <<rows, product, view, gone, lastPub, edits, ops, mixed, met, faults>>

-----------------------------------------------------------------------------
(* poster._edit_live_posts *)

\* from here on a task has ensure_caption_id and the loop over live_posts before it
ToShow(r) == [r EXCEPT !.pc = IF r.cap.tag = "missing" THEN "x_id" ELSE "x_list"]

ShowId(t) ==
  /\ At(t, "x_id")
  /\ EnsureId(t, "x_list")
  /\ UNCHANGED <<status, data, posts, gone, ghosts, faults>>

EditNext(t, rest) ==
  Become(t, IF rest = {} THEN Free ELSE [task[t] EXCEPT !.pc = "x_edit", !.todo = rest])

Others(t) == task[t].todo \ {Least(task[t].todo)}

ListLive(t) ==
  /\ At(t, "x_list")
  /\ EditNext(t, LiveOf(task[t].job))
  /\ UNCHANGED <<rows, posts, gone, ghosts, faults>>

EditPost(t) ==
  LET m == Least(task[t].todo) IN
    /\ At(t, "x_edit")
    /\ view[m] # Hidden
    /\ view' = [view EXCEPT ![m] = [cap |-> task[t].cap, sold |-> task[t].sold]]
    /\ EditNext(t, Others(t))
    /\ UNCHANGED <<rows, live, product, gone, ghosts, faults>>

\* "message to edit not found"
EditMissing(t) ==
  /\ At(t, "x_edit")
  /\ view[Least(task[t].todo)] = Hidden
  /\ Goto(t, "x_dead")
  /\ UNCHANGED <<rows, posts, gone, ghosts, faults>>

Bury(t) ==
  /\ At(t, "x_dead")
  /\ live' = live \ {Least(task[t].todo)}
  /\ EditNext(t, Others(t))
  /\ UNCHANGED <<rows, product, view, gone, ghosts, faults>>

EditPostFails(t) ==
  /\ At(t, "x_edit")
  /\ Fault
  /\ EditNext(t, Others(t))
  /\ UNCHANGED <<rows, posts, gone, ghosts>>

-----------------------------------------------------------------------------
(* poster.mark_sold, poster.mark_available, admin_products.on_remove_confirmed *)

\* the tap, get_product (on_live_update does the same with the state it reads)
Toggle(t, p) ==
  /\ Begin(t, "toggle", p, "t_set")
  /\ UNCHANGED <<rows, posts, gone, lastPub, edits, dropped, faults>>

SetSold(t) ==
  /\ At(t, "t_set")
  /\ \E sold \in BOOLEAN :
       /\ status' = [status EXCEPT ![task[t].job] = IF sold THEN "sold" ELSE "active"]
       /\ Become(t, ToShow([task[t] EXCEPT !.sold = sold]))
  /\ UNCHANGED <<data, caption, posts, gone, ghosts, faults>>

\* the posts stay, as the question before it says
Remove(p) ==
  /\ ops < MaxOps
  /\ ops' = ops + 1
  /\ status' = [status EXCEPT ![p] = "removed"]
  /\ Meet("remove", p)
  /\ UNCHANGED <<data, caption, posts, gone, task, lastPub, edits, dropped, faults>>

-----------------------------------------------------------------------------
(* admin_products.on_edit_value and repolish.repolish_after_edit *)

\* get_product
Edit(t, p) ==
  /\ Begin(t, "edit", p, "e_write")
  /\ UNCHANGED <<rows, posts, gone, lastPub, edits, dropped, faults>>

\* update_fields: the column, and the caption built from the fields as they were read
StoreEdit(t) ==
  LET p == task[t].job IN
    /\ At(t, "e_write")
    /\ edits' = edits + 1
    /\ \E f \in Fields :
         /\ data' = [data EXCEPT ![p][f] = edits + 1]
         /\ caption' = [caption EXCEPT ![p] = [text |-> [task[t].base EXCEPT ![f] = edits + 1], tag |-> "shown"]]
    /\ Goto(t, "e_answer")
    /\ UNCHANGED <<status, posts, gone, lastPub, ops, mixed, met, dropped, faults>>

\* the answer to the admin; then the polish runs in the background
Answer(t) ==
  /\ At(t, "e_answer")
  /\ Goto(t, "p_wait")
  /\ UNCHANGED <<rows, posts, gone, ghosts, faults>>

\* the task inside "async with lock"
Polishing(p) == {t \in WorkOn(p) : task[t].kind = "edit"
                                   /\ task[t].pc \notin {"e_write", "e_answer", "p_wait"}}

EnterPolish(t) ==
  /\ At(t, "p_wait")
  /\ Become(t, [task[t] EXCEPT !.pc = "p_ai", !.base = data[task[t].job]])
  /\ UNCHANGED <<rows, posts, gone, ghosts, faults>>

\* broken: no lock
StartPolishUnlocked(t) == EnterPolish(t)

\* the lock of the product, get_product
StartPolish(t) == Polishing(task[t].job) = {} /\ EnterPolish(t)

\* the product is read again: dropped if a newer edit arrived
Unless(t, label) == IF data[task[t].job] # task[t].base THEN Done(t) ELSE Goto(t, label)

Polished(t) ==
  /\ At(t, "p_ai")
  /\ Unless(t, "p_write")
  /\ UNCHANGED <<rows, posts, gone, ghosts, faults>>

\* blocked, unavailable or invalid: the caption of the edit stays
PolishFails(t) ==
  LET p == task[t].job IN
    /\ At(t, "p_ai")
    /\ Unless(t, "f_read")
    /\ mixed' = IF p \in met /\ data[p] = task[t].base THEN mixed \cup {p} ELSE mixed
    /\ UNCHANGED <<rows, posts, gone, lastPub, edits, ops, met, dropped, faults>>

StorePolish(t) ==
  /\ At(t, "p_write")
  /\ caption' = [caption EXCEPT ![task[t].job] = Rebuilt(t)]
  /\ Goto(t, "f_read")
  /\ UNCHANGED <<status, data, posts, gone, ghosts, faults>>

\* refresh_live_posts: get_product
Refresh(t) ==
  LET p == task[t].job IN
    /\ At(t, "f_read")
    /\ Become(t, IF status[p] = "removed" THEN Free
                 ELSE ToShow([task[t] EXCEPT !.base = data[p], !.cap = caption[p], !.sold = status[p] = "sold"]))
    /\ UNCHANGED <<rows, posts, gone, ghosts, faults>>

-----------------------------------------------------------------------------
(* source_sweep.py *)

SweepOver(t, due) ==
  /\ task[t] = Free
  /\ \A u \in Tasks : task[u].kind # "sweep"
  /\ due \cap gone # {}
  /\ Become(t, [Free EXCEPT !.pc = "w_probe", !.kind = "sweep", !.batch = due])
  /\ UNCHANGED <<rows, posts, gone, ghosts, faults>>

\* list_sources_to_check; a sweep that will find nothing is left to stuttering
StartSweep(t) == SweepOver(t, {p \in Products : status[p] # "removed"})

NextProduct(t) ==
  LET rest == task[t].batch \ {Least(task[t].batch)} IN
    Become(t, IF rest = {} THEN Free ELSE [task[t] EXCEPT !.batch = rest])

\* the source post is there, or it is not
Probe(t) ==
  LET p == Least(task[t].batch) IN
    /\ At(t, "w_probe")
    /\ IF p \in gone
         THEN /\ Become(t, [task[t] EXCEPT !.pc = "w_drop", !.job = p, !.batch = @ \ {p}])
              /\ Meet("sweep", p)
         ELSE NextProduct(t) /\ UNCHANGED <<mixed, met>>
    /\ UNCHANGED <<rows, posts, gone, lastPub, edits, ops, dropped, faults>>

\* any other error leaves the product to the next sweep; a flood wait all of them
ProbeFails(t) ==
  /\ At(t, "w_probe")
  /\ Fault
  /\ NextProduct(t) \/ Done(t)
  /\ UNCHANGED <<rows, posts, gone, ghosts>>

\* set_status
Drop(t) ==
  /\ At(t, "w_drop")
  /\ status' = [status EXCEPT ![task[t].job] = "removed"]
  /\ Goto(t, "d_list")
  /\ UNCHANGED <<data, caption, posts, gone, ghosts, faults>>

-----------------------------------------------------------------------------
(* Surroundings *)

SourceDeleted(p) ==
  /\ p \notin gone
  /\ gone' = gone \cup {p}
  /\ UNCHANGED <<rows, posts, task, ghosts, faults>>

\* somebody deletes a post in the target chat
PostDeleted(m) ==
  /\ view[m] # Hidden
  /\ Fault
  /\ view' = [view EXCEPT ![m] = Hidden]
  /\ UNCHANGED <<rows, live, product, gone, task, ghosts>>

\* a database call raises, or the answer to the admin does: the task ends
TaskFails(t) ==
  /\ task[t] # Free
  /\ Fault
  /\ Done(t)
  /\ UNCHANGED <<rows, posts, gone, ghosts>>

Crash ==
  /\ Fault
  /\ task' = [t \in Tasks |-> Free]
  /\ UNCHANGED <<rows, posts, gone, ghosts>>

-----------------------------------------------------------------------------

Start(t, p) == PostThis(t, p) \/ PostNow(t, p) \/ AutoPost(t, p) \/ Toggle(t, p) \/ Edit(t, p)

PublishStep(t) == Lock(t) \/ PublishId(t) \/ Send(t) \/ Log(t) \/ MarkPosted(t)

DeleteStep(t) == ListOld(t) \/ Delete(t) \/ MarkDead(t)

ShowStep(t) == ShowId(t) \/ ListLive(t) \/ EditPost(t) \/ EditMissing(t) \/ Bury(t)

EditStep(t) == SetSold(t) \/ StoreEdit(t) \/ Answer(t) \/ StartPolish(t) \/ Polished(t)
               \/ StorePolish(t) \/ Refresh(t)

Step(t) == PublishStep(t) \/ DeleteStep(t) \/ ShowStep(t) \/ EditStep(t) \/ Probe(t) \/ Drop(t)

Failure(t) == SendFails(t) \/ DeleteFails(t) \/ EditPostFails(t) \/ PolishFails(t) \/ ProbeFails(t)
              \/ TaskFails(t)

Next ==
  \/ \E t \in Tasks : StartSweep(t) \/ Step(t) \/ Failure(t) \/ \E p \in Products : Start(t, p)
  \/ \E p \in Products : Remove(p) \/ SourceDeleted(p)
  \/ \E m \in Msgs : PostDeleted(m)
  \/ Crash

Spec == Init /\ [][Next]_vars

-----------------------------------------------------------------------------
(* Properties *)

TaskOK(r) ==
  /\ r.pc \in {"idle", "l_wait", "l_id", "s_send", "s_log", "s_mark", "d_list", "d_del", "d_dead",
               "x_id", "x_list", "x_edit", "x_dead", "t_set", "e_write", "e_answer", "p_wait",
               "p_ai", "p_write", "f_read", "w_probe", "w_drop"}
  /\ r.kind \in Publications \cup {"none", "toggle", "edit", "sweep"}
  /\ r.job \in Products \cup {NoProduct}
  /\ r.base \in Texts /\ r.cap \in Captions /\ r.sold \in BOOLEAN
  /\ r.pub \in 0 .. MaxPubs /\ r.chat \in 0 .. NumChats
  /\ r.sent \in SUBSET Msgs /\ r.todo \in SUBSET Msgs /\ r.batch \in SUBSET Products

TypeOK ==
  /\ status \in [Products -> {"active", "sold", "removed"}]
  /\ data \in [Products -> Texts]
  /\ caption \in [Products -> Captions]
  /\ live \in SUBSET Msgs
  /\ product \in [Msgs -> Products \cup {NoProduct}]
  /\ \A m \in Msgs : view[m] = Hidden \/ view[m] \in Looks
  /\ gone \in SUBSET Products
  /\ \A t \in Tasks : TaskOK(task[t])
  /\ lastPub \in 0 .. MaxPubs /\ edits \in 0 .. MaxOps /\ ops \in 0 .. MaxOps
  /\ mixed \in SUBSET Products /\ met \in SUBSET Products /\ dropped \in SUBSET Products
  /\ faults \in 0 .. MaxFaults

Undisturbed(p) == faults = 0 /\ p \notin mixed /\ WorkOn(p) = {}

(* README.md:44, the ID line is added "right before they are posted or     *)
(* edited": whatever was stored before, every message that is sent or      *)
(* edited from now on shows it, and none that has it loses it.  Without a  *)
(* sales pitch the code cannot add it (post_id.py:28); such a product      *)
(* shows it like its caption, unless it was edited while another task had  *)
(* the old caption in hand.  A post nobody edits stays as it is.           *)
ShownWithItsId ==
  [][\A m \in Msgs : view'[m] \notin {view[m], Hidden} /\ view'[m].cap.tag # "shown" =>
       /\ view'[m].cap.tag = "stuck"
       /\ product'[m] \in mixed' \/ caption'[product'[m]].tag = "stuck"]_vars

(* README.md:45, "the live channel posts are edited to match the           *)
(* database": when nobody works on a product any more, its posts show the  *)
(* values that are stored and the sold banner exactly when it is sold.     *)
(* This holds when the AI fails too, and when two admins edit at once, but *)
(* not for both together, nor for a product that tasks of different kinds  *)
(* worked on or after a lost or failed call (see README.md).               *)
PostsMatchTheRow ==
  \A p \in Products : Undisturbed(p) /\ status[p] # "removed" =>
    \A m \in LiveOf(p) : view[m].cap.text = data[p] /\ (view[m].sold <=> status[p] = "sold")

(* With "delete_previous" every chat has exactly one post of a product     *)
(* that was published, however many callers published it at once: they     *)
(* neither leave two posts nor take down each other's.  Claimed while no   *)
(* call failed and no task of another kind met them.                       *)
OnePostPerChat ==
  DeletePrevious =>
    \A p \in Products : Undisturbed(p) /\ p \notin dropped /\ (\E m \in Msgs : product[m] = p) =>
      \A c \in Chats :
        LET there == {MsgOf(n, c) : n \in 1 .. MaxPubs}
            seen == {m \in there : product[m] = p /\ view[m] # Hidden}
        IN  Cardinality(seen) = 1 /\ seen = there \cap LiveOf(p)

(* A product the sweep has dropped has no live post left until somebody    *)
(* publishes it again, also when Telegram refused a deletion and when it   *)
(* is put back on sale; while no call failed, no chat shows one.  A        *)
(* product that somebody worked on meanwhile is left out.                  *)
DroppedIsTakenDown ==
  \A p \in dropped \ mixed : WorkOn(p) = {} =>
    /\ LiveOf(p) = {}
    /\ faults = 0 => \A m \in Msgs : product[m] = p => view[m] = Hidden
=============================================================================

------------------------------ MODULE Autopost ------------------------------
(***************************************************************************)
(* The settings row with its RAM cache (db/settings.py), the head admin's  *)
(* panel that changes it (handlers/admin.py), the scheduler's interval and *)
(* its choice of the next product (scheduler.py), and the new / mid / old  *)
(* ranking (db/products.py).                                               *)
(*                                                                         *)
(* Every handler and job runs as a task; one action is one database        *)
(* transaction with all the task does up to its next await.  What          *)
(* happens inside publish_product is the subject of Publish: here it logs  *)
(* a post and then marks the product.                                      *)
(***************************************************************************)
EXTENDS Integers, Sequences, FiniteSets

CONSTANTS
  NumProducts,  \* products with ai_status "done", numbered by created_at
  Tasks,        \* handlers and jobs running at the same time
  Day,          \* hours of a day
  MultiMin, MultiMax,  \* weight of a category: 1 and 5
  KeepStep, MaxKeep,   \* step and maximum of the keep counts: 5 and 100000
  MaxInterval,  \* 1440
  NoRepeat,     \* no_repeat_last_n
  Gap,          \* min_repost_gap_hours
  Changed,      \* the settings the admin changes
  Defaults,     \* the settings row at the first start
  Pinned,       \* products that are locked at the start
  MaxOps,       \* bound: taps, prompts and other things the admins do
  MaxFaults,    \* bound: failed calls and restarts
  NoSettings, NoTask

Weights == {"new_multi", "mid_multi", "old_multi"}

Keeps == {"new_keep", "mid_keep"}

Times == {"night_start", "night_end"}

Toggles == {"autopost_enabled", "repost_policy"}

Names == Weights \cup Keeps \cup Times \cup Toggles \cup {"interval_mins"}

\* what the settings table takes: a row may be older than the limits of update_settings, or written
\* by hand (times of day are only ever written by update_settings)
Storable(name) ==
  CASE name \in Weights \cup Keeps -> Nat
    [] name \in Times -> 0 .. Day - 1
    [] name \in Toggles -> 0 .. 1
    [] name = "interval_mins" -> Nat \ {0}

\* what update_settings accepts
Allowed(name) ==
  CASE name \in Weights -> MultiMin .. MultiMax
    [] name \in Keeps -> 0 .. MaxKeep
    [] name \in Times -> 0 .. Day - 1
    [] name \in Toggles -> 0 .. 1
    [] name = "interval_mins" -> 1 .. MaxInterval

ASSUME AutopostAssumption ==
  /\ NumProducts \in Nat /\ Day \in Nat \ {0}
  /\ MultiMin \in Nat \ {0} /\ MultiMax \in Nat
  /\ KeepStep \in Nat /\ MaxKeep \in Nat /\ MaxInterval \in Nat
  /\ NoRepeat \in Nat /\ Gap \in Nat
  /\ Changed \subseteq Names
  /\ Defaults \in [Names -> Nat] /\ \A n \in Names : Defaults[n] \in Storable(n)
  /\ NoTask \notin Tasks
  /\ Pinned \subseteq 1 .. NumProducts
  /\ MaxOps \in Nat /\ MaxFaults \in Nat

Hours == 0 .. Day - 1

Products == 1 .. NumProducts

Categories == {"new", "mid", "old"}

WeightOf == [new |-> "new_multi", mid |-> "mid_multi", old |-> "old_multi"]

VARIABLES
  settings,  \* the settings row
  cache,     \* _cache
  holder,    \* the task inside "async with _lock"
  every,     \* the interval of the scheduler's autopost job
  prompt,    \* the head admin's AdminInput state
  \* the products table
  active,    \* status = "active"
  category, locked,
  age,       \* hours since last_posted_at, up to Gap
  recent,    \* the products of the post_log table, latest first
  task,      \* the running handlers and jobs, with their locals
  \* bookkeeping of the model
  ops, faults,
  failed   \* whether a task failed since the last start

store == <<settings, cache, holder>>
goods == <<active, category, locked>>
past == <<age, recent>>
bounds == <<ops, faults, failed>>
vars == <<store, every, prompt, goods, past, task, bounds>>

-----------------------------------------------------------------------------
(* Tasks *)

NoChoice == 0

Free == [pc |-> "idle", kind |-> "none",
         name |-> "none", value |-> 0,  \* the setting to store, or the sign of the step
         got |-> NoSettings,            \* what get_settings returned
         pid |-> NoChoice, cat |-> "none",
         cands |-> {},                  \* list_postable: product, category, whether its gap is over
         lock |-> FALSE]

At(t, label) == task[t].pc = label

Kind(t, k) == task[t].kind = k

Become(t, r) == task' = [task EXCEPT ![t] = r]

Goto(t, label) == task' = [task EXCEPT ![t].pc = label]

Done(t) == Become(t, Free)

Running(k) == \E t \in Tasks : task[t].kind = k

Op == ops < MaxOps /\ ops' = ops + 1 /\ UNCHANGED <<faults, failed>>

Fault == faults < MaxFaults /\ faults' = faults + 1 /\ UNCHANGED ops

Begin(t, r) == task[t] = Free /\ Become(t, r)

Job(k) == [Free EXCEPT !.pc = "get", !.kind = k]

Init ==
  /\ settings = Defaults
  /\ cache = Defaults
  /\ holder = NoTask
  /\ every = Defaults["interval_mins"]
  /\ prompt = "none"
  /\ active = Products
  /\ category = [p \in Products |-> "new"]
  /\ locked = [p \in Products |-> p \in Pinned]
  /\ age = [p \in Products |-> Gap]
  /\ recent = <<>>
  /\ task = [t \in Tasks |-> Free]
  /\ ops = 0 /\ faults = 0 /\ failed = FALSE

-----------------------------------------------------------------------------
(* get_settings: the cached row at once, or the row itself under _lock.    *)
(* A task that waited for the lock finds the cache filled.                 *)

GetLock(t) ==
  /\ At(t, "get")
  /\ cache = NoSettings
  /\ holder = NoTask
  /\ holder' = t
  /\ Goto(t, "read")
  /\ UNCHANGED <<settings, cache, every, prompt, goods, past, bounds>>

Cached(t) ==
  /\ At(t, "get")
  /\ cache # NoSettings
  /\ UNCHANGED store

Obtain(t) ==
  \/ Cached(t)
  \/ /\ At(t, "read")
     /\ cache' = settings
     /\ holder' = NoTask
     /\ UNCHANGED settings

\* the copy the caller gets
Obtained(t) == IF At(t, "get") THEN cache ELSE settings

\* the part of the copy the caller goes on to use
Of(s, names) == [n \in names |-> s[n]]

-----------------------------------------------------------------------------
(* update_settings *)

Valid(name, value) == value \in Allowed(name)

\* a task with a valid change waits for the lock; k says whether it was typed
Update(k, name, value) == [Free EXCEPT !.pc = "u_lock", !.kind = k, !.name = name, !.value = value]

\* broken: the cache is left as it was while the row changes
UpdateLockKeepsCache(t) ==
  /\ At(t, "u_lock")
  /\ holder = NoTask
  /\ holder' = t
  /\ Goto(t, "u_write")
  /\ UNCHANGED <<settings, cache, every, prompt, goods, past, bounds>>

UpdateLock(t) ==
  /\ At(t, "u_lock")
  /\ holder = NoTask
  /\ holder' = t
  /\ cache' = NoSettings
  /\ Goto(t, "u_write")
  /\ UNCHANGED <<settings, every, prompt, goods, past, bounds>>

UpdateWrite(t) ==
  /\ At(t, "u_write")
  /\ settings' = [settings EXCEPT ![task[t].name] = task[t].value]
  /\ Goto(t, "u_read")
  /\ UNCHANGED <<cache, holder, every, prompt, goods, past, bounds>>

\* a typed value ends the prompt; a new interval goes to the scheduler.  The
\* panel is then shown from get_settings, which changes nothing
UpdateRead(t) ==
  /\ At(t, "u_read")
  /\ cache' = settings
  /\ holder' = NoTask
  /\ prompt' = IF Kind(t, "typed") THEN "none" ELSE prompt
  /\ Become(t, IF task[t].name = "interval_mins" THEN Job("apply") ELSE Free)
  /\ UNCHANGED <<settings, every, goods, past, bounds>>

\* apply_interval: reschedule_job with the stored interval
Apply(t) ==
  /\ Kind(t, "apply")
  /\ Obtain(t)
  /\ every' = Obtained(t)["interval_mins"]
  /\ Done(t)
  /\ UNCHANGED <<prompt, goods, past, bounds>>

-----------------------------------------------------------------------------
(* The head admin's panel, handlers/admin.py *)

Clamp(n) == IF n < MultiMin THEN MultiMin ELSE IF n > MultiMax THEN MultiMax ELSE n

\* what a tap on plus, on minus or on a toggle makes of the value it has read
Tapped(name, value, sign) ==
  CASE name \in Weights -> Clamp(value + sign)
    [] name \in Keeps -> value + sign * KeepStep
    [] name \in Toggles -> 1 - value

\* on_adjust and on_toggle, up to their get_settings
StartTap(t, name, sign) ==
  /\ name \in Changed \cap (Weights \cup Keeps \cup Toggles)
  /\ Op
  /\ Begin(t, [Job("tap") EXCEPT !.name = name, !.value = sign])
  /\ UNCHANGED <<store, every, prompt, goods, past>>

\* a weight at its limit and a value that is not valid are only answered
Tap(t) ==
  LET name == task[t].name
      old == Obtained(t)[name]
      new == Tapped(name, old, task[t].value)
  IN  /\ Kind(t, "tap")
      /\ Obtain(t)
      /\ Become(t, IF new # old /\ Valid(name, new) THEN Update("update", name, new) ELSE Free)
      /\ UNCHANGED <<every, prompt, goods, past, bounds>>

\* on_interval_preset
Preset(t, v) ==
  /\ "interval_mins" \in Changed
  /\ Valid("interval_mins", v)
  /\ Op
  /\ Begin(t, Update("update", "interval_mins", v))
  /\ UNCHANGED <<store, every, prompt, goods, past>>

\* on_prompt; what is typed next is meant for this setting
Prompt(name) ==
  /\ name \in Changed \cap (Times \cup {"interval_mins"})
  /\ prompt # name
  /\ Op
  /\ prompt' = name
  /\ UNCHANGED <<store, every, goods, past, task>>

\* on_cancel, cmd_cancel, cmd_admin, on_root, on_settings
Cancel ==
  /\ prompt # "none"
  /\ prompt' = "none"
  /\ UNCHANGED <<store, every, goods, past, task, bounds>>

\* on_interval_input, on_night_input; a value that is not valid is asked for again
Type(t, v) ==
  /\ prompt # "none"
  /\ Valid(prompt, v)
  /\ Begin(t, Update("typed", prompt, v))
  /\ UNCHANGED <<store, every, prompt, goods, past, bounds>>

-----------------------------------------------------------------------------
(* scheduler.post_next and its callers *)

\* broken: the window never crosses midnight
IsNightSameDay(s, h) == s["night_start"] <= h /\ h < s["night_end"]

\* utils.is_night; the window may cross midnight
IsNight(s, h) ==
  IF s["night_start"] <= s["night_end"]
    THEN s["night_start"] <= h /\ h < s["night_end"]
    ELSE h >= s["night_start"] \/ h < s["night_end"]

\* the scheduler's job, one instance at a time
StartAuto(t) ==
  /\ ~Running("auto")
  /\ Begin(t, Job("auto"))
  /\ UNCHANGED <<store, every, prompt, goods, past, bounds>>

\* on_post_now; at night it asks for a confirmation
StartPostNow(t) ==
  /\ Op
  /\ Begin(t, Job("ask"))
  /\ UNCHANGED <<store, every, prompt, goods, past>>

\* on_post_now_confirmed; _run_post, one at a time under _POST_LOCK
StartConfirmed(t) ==
  /\ ~Running("now")
  /\ Op
  /\ Begin(t, Job("now"))
  /\ UNCHANGED <<store, every, prompt, goods, past>>

Ask(t) ==
  /\ Kind(t, "ask")
  /\ Obtain(t)
  /\ \E h \in Hours :
       Become(t, IF IsNight(Obtained(t), h) \/ Running("now") THEN Free ELSE Job("now"))
  /\ UNCHANGED <<every, prompt, goods, past, bounds>>

MayPost(k, s, h) == k = "now" \/ (s["autopost_enabled"] = 1 /\ ~IsNight(s, h))

\* post_next up to list_postable, at any hour h
PostCheck(t, h) ==
  /\ Kind(t, "auto") \/ Kind(t, "now")
  /\ Obtain(t)
  /\ Become(t, IF MayPost(task[t].kind, Obtained(t), h)
                 THEN [task[t] EXCEPT !.pc = "p_list", !.got = Of(Obtained(t), Weights)] ELSE Free)
  /\ UNCHANGED <<every, prompt, goods, past, bounds>>

\* list_postable, and the gap of each candidate
ListPostable(t) ==
  LET found == {[id |-> p, cat |-> category[p], rested |-> age[p] = Gap] : p \in active} IN
    /\ At(t, "p_list")
    /\ Become(t, IF found = {} THEN Free ELSE [task[t] EXCEPT !.pc = "p_choose", !.cands = found])
    /\ UNCHANGED <<store, every, prompt, goods, past, bounds>>

\* recent_posted_product_ids
RecentIds == {recent[i] : i \in {j \in DOMAIN recent : j <= NoRepeat}}

\* broken: no way out when nothing is eligible
PoolStrict(cands) == {c \in cands : c.id \notin RecentIds /\ c.rested}

\* _eligible_for_repost, and all candidates when that leaves none
Pool(cands) ==
  LET filtered == {c \in cands : c.id \notin RecentIds /\ c.rested} IN
    IF filtered = {} THEN cands ELSE filtered

Population(t) == {c \in Pool(task[t].cands) : task[t].got[WeightOf[c.cat]] > 0}

Choose(t) ==
  /\ At(t, "p_choose")
  /\ IF Population(t) = {}
       THEN Done(t)
       ELSE \E c \in Population(t) :
              Become(t, [Free EXCEPT !.pc = "p_log", !.kind = task[t].kind, !.pid = c.id])
  /\ UNCHANGED <<store, every, prompt, goods, past, bounds>>

\* publish_product: _publish_lock, the send and add_post_log ...
LogPost(t) ==
  /\ At(t, "p_log")
  /\ \A u \in Tasks : ~At(u, "p_mark")
  /\ recent' = <<task[t].pid>> \o SelectSeq(recent, LAMBDA p : p # task[t].pid)
  /\ Goto(t, "p_mark")
  /\ UNCHANGED <<store, every, prompt, goods, age, bounds>>

\* ... and mark_posted
MarkPosted(t) ==
  /\ At(t, "p_mark")
  /\ age' = [age EXCEPT ![task[t].pid] = 0]
  /\ Done(t)
  /\ UNCHANGED <<store, every, prompt, goods, recent, bounds>>

-----------------------------------------------------------------------------
(* Categories *)

\* run_downgrade: the nightly job, of which one instance runs at a time ...
StartDowngrade(t) ==
  /\ ~Running("rank")
  /\ Begin(t, Job("rank"))
  /\ UNCHANGED <<store, every, prompt, goods, past, bounds>>

\* ... and worker._process_one after it has stored a result
StartDowngradeByWorker(t) ==
  /\ Op
  /\ Begin(t, Job("rank"))
  /\ UNCHANGED <<store, every, prompt, goods, past>>

Downgrade(t) ==
  /\ Kind(t, "rank")
  /\ Obtain(t)
  /\ Become(t, [task[t] EXCEPT !.pc = "r_write", !.got = Of(Obtained(t), Keeps)])
  /\ UNCHANGED <<every, prompt, goods, past, bounds>>

\* the ids of recompute_categories: active and not locked, newest first
Ranked == SelectSeq([i \in Products |-> NumProducts + 1 - i], LAMBDA p : p \in active /\ ~locked[p])

\* broken: the middle bucket starts where the first one does
BucketOverlaps(i, s) ==
  IF i <= s["new_keep"] THEN "new" ELSE IF i <= s["mid_keep"] THEN "mid" ELSE "old"

Bucket(i, s) ==
  IF i <= s["new_keep"] THEN "new" ELSE IF i <= s["new_keep"] + s["mid_keep"] THEN "mid" ELSE "old"

Recompute(t) ==
  /\ At(t, "r_write")
  /\ category' = [p \in Products |->
       IF \E i \in DOMAIN Ranked : Ranked[i] = p
         THEN Bucket(CHOOSE i \in DOMAIN Ranked : Ranked[i] = p, task[t].got)
         ELSE category[p]]
  /\ Done(t)
  /\ UNCHANGED <<store, every, prompt, active, locked, past, bounds>>

\* on_category, after it has looked the product up
StartCategory(t, p, c) ==
  /\ Op
  /\ Begin(t, [Free EXCEPT !.pc = "c_write", !.kind = "cat", !.pid = p, !.cat = c, !.lock = TRUE])
  /\ UNCHANGED <<store, every, prompt, goods, past>>

\* on_unlock writes the category back that it has read
StartUnlock(t, p) ==
  /\ Op
  /\ Begin(t, [Free EXCEPT !.pc = "c_write", !.kind = "cat", !.pid = p, !.cat = category[p]])
  /\ UNCHANGED <<store, every, prompt, goods, past>>

SetCategory(t) ==
  /\ At(t, "c_write")
  /\ category' = [category EXCEPT ![task[t].pid] = task[t].cat]
  /\ locked' = [locked EXCEPT ![task[t].pid] = task[t].lock]
  /\ Done(t)
  /\ UNCHANGED <<store, every, prompt, active, past, bounds>>

\* set_status, by whoever sells, restores or removes the product
SetStatus(p) ==
  /\ Op
  /\ active' = IF p \in active THEN active \ {p} ELSE active \cup {p}
  /\ UNCHANGED <<store, every, prompt, category, locked, past, task>>

-----------------------------------------------------------------------------
(* Surroundings *)

Tick ==
  /\ age' = [p \in Products |-> IF age[p] < Gap THEN age[p] + 1 ELSE Gap]
  /\ UNCHANGED <<store, every, prompt, goods, recent, task, bounds>>

\* a database call raises, or publish_product does: the task ends, and
\* "async with" lets the lock go
TaskFails(t) ==
  /\ task[t] # Free
  /\ Fault
  /\ failed' = TRUE
  /\ holder' = IF holder = t THEN NoTask ELSE holder
  /\ Done(t)
  /\ UNCHANGED <<settings, cache, every, prompt, goods, past>>

\* broken: the job starts with its placeholder interval
CrashPlaceholder ==
  /\ Fault
  /\ failed' = FALSE
  /\ task' = [t \in Tasks |-> Free]
  /\ holder' = NoTask
  /\ prompt' = "none"
  /\ cache' = settings
  /\ every' = MaxInterval
  /\ UNCHANGED <<settings, goods, past>>

\* the start reads the settings for apply_interval; MemoryStorage is empty
Crash ==
  /\ Fault
  /\ failed' = FALSE
  /\ task' = [t \in Tasks |-> Free]
  /\ holder' = NoTask
  /\ prompt' = "none"
  /\ cache' = settings
  /\ every' = settings["interval_mins"]
  /\ UNCHANGED <<settings, goods, past>>

-----------------------------------------------------------------------------

SettingsStep(t) == GetLock(t) \/ UpdateLock(t) \/ UpdateWrite(t) \/ UpdateRead(t) \/ Apply(t) \/ Tap(t)

PostStep(t) == Ask(t) \/ (\E h \in Hours : PostCheck(t, h)) \/ ListPostable(t) \/ Choose(t) \/ LogPost(t)
               \/ MarkPosted(t)

RankStep(t) == Downgrade(t) \/ Recompute(t) \/ SetCategory(t)

Step(t) == SettingsStep(t) \/ PostStep(t) \/ RankStep(t)

Start(t) ==
  \/ \E n \in Names : \E sign \in {1, -1} : StartTap(t, n, sign)
  \/ \E v \in 0 .. MaxInterval + 1 : Preset(t, v) \/ Type(t, v)
  \/ StartPostNow(t) \/ StartConfirmed(t) \/ StartDowngradeByWorker(t)
  \/ \E p \in Products : StartUnlock(t, p) \/ \E c \in Categories : StartCategory(t, p, c)

Jobs(t) == StartAuto(t) \/ StartDowngrade(t)

Next ==
  \/ \E t \in Tasks : Jobs(t) \/ Start(t) \/ Step(t) \/ TaskFails(t)
  \/ \E n \in Names : Prompt(n)
  \/ \E p \in Products : SetStatus(p)
  \/ Cancel \/ Tick \/ Crash

Spec == Init /\ [][Next]_vars

\* awaited calls return, asyncio.Lock serves its waiters in turn, and the
\* scheduler runs its jobs again and again
FairSpec ==
  /\ Spec
  /\ \A t \in Tasks : SF_vars(Step(t))
  /\ WF_vars(\E t \in Tasks : StartAuto(t))
  /\ WF_vars(\E t \in Tasks : StartDowngrade(t))

-----------------------------------------------------------------------------
(* Properties *)

IsRow(s) == DOMAIN s = Names /\ \A n \in Names : s[n] \in Storable(n)

TaskOK(r) ==
  /\ r.pc \in {"idle", "get", "read", "u_lock", "u_write", "u_read", "p_list", "p_choose", "p_log",
               "p_mark", "r_write", "c_write"}
  /\ r.kind \in {"none", "tap", "update", "typed", "apply", "auto", "ask", "now", "rank", "cat"}
  /\ r.name \in Names \cup {"none"} /\ r.value \in -1 .. MaxInterval + MaxKeep + MultiMax + Day
  /\ r.got = NoSettings \/ \A n \in DOMAIN r.got : r.got[n] \in Storable(n)
  /\ r.pid \in Products \cup {NoChoice} /\ r.cat \in Categories \cup {"none"} /\ r.lock \in BOOLEAN
  /\ \A c \in r.cands : c.id \in Products /\ c.cat \in Categories /\ c.rested \in BOOLEAN

TypeOK ==
  /\ IsRow(settings)
  /\ holder \in Tasks \cup {NoTask}
  /\ every \in Nat \ {0}
  /\ prompt \in {"none", "interval_mins"} \cup Times
  /\ active \subseteq Products
  /\ category \in [Products -> Categories] /\ locked \in [Products -> BOOLEAN]
  /\ age \in [Products -> 0 .. Gap]
  /\ recent \in Seq(Products) /\ Len(recent) <= NumProducts
  /\ \A t \in Tasks : TaskOK(task[t])
  /\ ops \in 0 .. MaxOps /\ faults \in 0 .. MaxFaults /\ failed \in BOOLEAN

(* The RAM cache is empty or it is the row (db/settings.py:94-118),        *)
(* whichever tasks read and write at the same time and whichever of their  *)
(* calls failed in between: get_settings looks at it without the lock.     *)
CacheIsTheRow == cache = NoSettings \/ cache = settings

(* When no change of the interval is under way the scheduler's interval is *)
(* the stored one (admin.py:296, scheduler.py:225), also when two changes  *)
(* meet, unless a call failed since the start.                             *)
ScheduleFollowsSettings ==
  ~failed /\ (\A t \in Tasks : task[t].kind # "apply" /\ task[t].name # "interval_mins")
    => every = settings["interval_mins"]

(* The scheduler's own run goes on only when, at that moment, autopost is  *)
(* on in the database and the hour is not one of those counted from        *)
(* night_start up to night_end (scheduler.py:56-62, utils.py:36).          *)
AutopostIsAllowed ==
  [][\A t \in Tasks, h \in Hours : PostCheck(t, h) /\ task[t].kind = "auto" /\ task'[t] # Free =>
       /\ settings["autopost_enabled"] = 1
       /\ (h - settings["night_start"]) % Day
            >= (settings["night_end"] - settings["night_start"]) % Day]_vars

(* The shop does not fall silent: while autopost is on, there is no night, *)
(* something is on sale and nothing on sale is in a category of weight 0,  *)
(* a post is published again and again, however few products there are     *)
(* (scheduler.py:72).  The table takes the weight 0, and then it may be    *)
(* silent with products of other categories on sale: one of weight 0 that  *)
(* is not resting keeps _eligible_for_repost from being set aside          *)
(* (scheduler.py:72-82).                                                   *)
ShopKeepsPosting ==
  [](<>[](/\ settings["autopost_enabled"] = 1 /\ settings["night_start"] = settings["night_end"]
          /\ active # {} /\ \A p \in active : settings[WeightOf[category[p]]] > 0)
     => []<>(\E t \in Tasks : At(t, "p_mark")))

\* how many products of the ranking are newer
Newer(p) == Cardinality({q \in active : q > p /\ ~locked[q]})

RankOf(p) ==
  CASE Newer(p) < settings["new_keep"] -> "new"
    [] Newer(p) \in settings["new_keep"] .. settings["new_keep"] + settings["mid_keep"] - 1 -> "mid"
    [] OTHER -> "old"

(* In the end the products are ranked by the keep counts that are stored   *)
(* (README.md:42): recomputations that read older settings, or meet an     *)
(* unlock that writes an old category back, do not have the last word.     *)
EventuallyRanked == <>[](\A p \in active : ~locked[p] => category[p] = RankOf(p))
=============================================================================

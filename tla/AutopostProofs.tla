--------------------------- MODULE AutopostProofs ---------------------------
(***************************************************************************)
(* What holds of the settings in Autopost for every number of products,    *)
(* tasks, taps and faults and every row the table takes: the cache is the  *)
(* row, the scheduler follows it, and the scheduler's own posts are        *)
(* allowed by it.  The types here leave out post_log, on which none of     *)
(* this depends.                                                           *)
(***************************************************************************)
EXTENDS Autopost, TLAPS

-----------------------------------------------------------------------------
(* Types *)

\* the rows the settings table takes
SettingsRows == {s \in [Names -> Int] : \A n \in Names : s[n] \in Storable(n)}

Labels == {"idle", "get", "read", "u_lock", "u_write", "u_read", "p_list", "p_choose", "p_log",
           "p_mark", "r_write", "c_write"}

Kinds == {"none", "tap", "update", "typed", "apply", "auto", "ask", "now", "rank", "cat"}

Copies == {NoSettings} \cup [Weights -> Int] \cup [Keeps -> Int]

Candidates == [id : Products, cat : Categories, rested : BOOLEAN]

TaskRecords ==
  [pc : Labels, kind : Kinds, name : Names \cup {"none"}, value : Int, got : Copies,
   pid : Products \cup {NoChoice}, cat : Categories \cup {"none"}, cands : SUBSET Candidates,
   lock : BOOLEAN]

\* which kind of task is where, and which of them has a setting to store
Shape(r) ==
  /\ r.pc \in {"u_lock", "u_write", "u_read"} =>
       r.kind \in {"update", "typed"} /\ r.name \in Names /\ r.value \in Allowed(r.name)
  /\ r.kind = "tap" => r.name \in Weights \cup Keeps \cup Toggles
  /\ r.kind \in {"tap", "apply"} => r.pc \in {"get", "read"}
  /\ r.name = "interval_mins" => r.pc \in {"u_lock", "u_write", "u_read"}
  /\ r.pc = "c_write" => r.cat \in Categories

StoreTypes ==
  /\ settings \in SettingsRows
  /\ cache \in SettingsRows \cup {NoSettings}
  /\ holder \in Tasks \cup {NoTask}
  /\ every \in Nat \ {0}
  /\ prompt \in {"none", "interval_mins"} \cup Times

GoodsTypes ==
  /\ active \subseteq Products
  /\ category \in [Products -> Categories]

TaskTypes == task \in [Tasks -> TaskRecords] /\ \A t \in Tasks : Shape(task[t])

TypeInv == StoreTypes /\ GoodsTypes /\ TaskTypes

\* The values a setting may take are integers, update_settings accepts none the table refuses, and
\* the names of the kinds of settings do not overlap where the code tells them apart.
LEMMA AllowedValues ==
  /\ \A n \in Names : Allowed(n) \subseteq Storable(n) /\ Storable(n) \subseteq Int
  /\ Storable("interval_mins") = Nat \ {0} /\ "interval_mins" \in Names
  /\ "interval_mins" \notin Weights \cup Keeps \cup Toggles
  /\ Times \subseteq Names /\ Weights \subseteq Names /\ Keeps \subseteq Names
BY AutopostAssumption DEF Allowed, Storable, Names, Weights, Keeps, Times, Toggles

\* The record of a task that does nothing is well typed.
LEMMA FreeTyped == Free \in TaskRecords /\ Shape(Free)
BY DEF Free, TaskRecords, Shape, Labels, Kinds, Copies, NoChoice, Names, Weights, Keeps, Times, Toggles

\* The record a scheduler job starts with is well typed.
LEMMA JobTyped ==
  ASSUME NEW k \in Kinds, k # "tap"
  PROVE  Job(k) \in TaskRecords /\ Shape(Job(k))
<1>1. Job(k) \in TaskRecords
  BY FreeTyped DEF Job, TaskRecords, Labels
<1>2. Job(k).pc = "get" /\ Job(k).kind = k /\ Job(k).name = "none"
  BY DEF Job, Free
<1>3. Shape(Job(k))
  BY <1>2 DEF Shape
<1> QED
  BY <1>1, <1>3

\* The record of an update of a setting is well typed when the new value is valid for that
\* setting.
LEMMA UpdateTyped ==
  ASSUME NEW k \in {"update", "typed"}, NEW n \in Names, NEW v, Valid(n, v)
  PROVE  Update(k, n, v) \in TaskRecords /\ Shape(Update(k, n, v))
<1>1. v \in Int
  BY AllowedValues DEF Valid
<1> QED
  BY <1>1 DEF Valid, Update, Free, TaskRecords, Shape, Labels, Kinds, Copies, NoChoice

\* what the copy that get_settings returns can be
LEMMA ObtainTyped ==
  ASSUME StoreTypes, NEW t, Obtain(t), UNCHANGED <<every, prompt>>
  PROVE  StoreTypes' /\ Obtained(t) \in SettingsRows
BY DEF StoreTypes, Obtain, Obtained, Cached, store, At

\* a task becomes another record, the others stay
LEMMA BecomeTyped ==
  ASSUME TaskTypes, NEW t \in Tasks, NEW r \in TaskRecords, Shape(r), Become(t, r)
  PROVE  TaskTypes'
BY DEF TaskTypes, Become

\* A task that returns keeps the types of the tasks.
LEMMA DoneTyped ==
  ASSUME TaskTypes, NEW t \in Tasks, Done(t)
  PROVE  TaskTypes'
BY BecomeTyped, FreeTyped DEF Done

\* A task that moves on keeps the types, when it neither enters nor leaves the part of set_setting
\* where the lock is held.
LEMMA GotoTyped ==
  ASSUME TaskTypes, NEW t \in Tasks, NEW l \in Labels, Goto(t, l),
         l \in {"u_write", "u_read"} <=> task[t].pc \in {"u_lock", "u_write", "u_read"},
         l \notin {"u_lock", "c_write"}, task[t].kind \in {"tap", "apply"} => l \in {"get", "read"}
  PROVE  TaskTypes'
<1> DEFINE r == [task[t] EXCEPT !.pc = l]
<1>1. task[t] \in TaskRecords /\ Shape(task[t])
  BY DEF TaskTypes
<1>2. r \in TaskRecords /\ Shape(r)
  BY <1>1 DEF TaskRecords, Shape
<1>3. Become(t, r)
  BY DEF Goto, Become, TaskTypes
<1> HIDE DEF r
<1> QED
  BY <1>2, <1>3, BecomeTyped

\* Every step on the settings (set_setting, the cached get, the taps in the settings menu, the
\* rescheduling) keeps the types.
LEMMA SettingsStepTyped ==
  ASSUME TypeInv, NEW t \in Tasks, SettingsStep(t)
  PROVE  TypeInv'
<1> USE DEF TypeInv
<1>0. task[t] \in TaskRecords /\ Shape(task[t])
  BY DEF TaskTypes
<1>1. CASE GetLock(t)
  <2>1. StoreTypes' /\ GoodsTypes'
    BY <1>1 DEF GetLock, StoreTypes, GoodsTypes, goods
  <2>2. TaskTypes'
    BY <1>0, <1>1, GotoTyped DEF GetLock, At, Labels, Shape
  <2> QED
    BY <2>1, <2>2
<1>2. CASE UpdateLock(t)
  <2>1. StoreTypes' /\ GoodsTypes'
    BY <1>2 DEF UpdateLock, StoreTypes, GoodsTypes, goods
  <2>2. TaskTypes'
    BY <1>0, <1>2, GotoTyped DEF UpdateLock, At, Labels, Shape
  <2> QED
    BY <2>1, <2>2
<1>3. CASE UpdateWrite(t)
  <2>1. task[t].name \in Names /\ task[t].value \in Allowed(task[t].name) /\ task[t].value \in Int
    BY <1>0, <1>3, AllowedValues DEF UpdateWrite, At, Shape
  <2>2. settings' \in SettingsRows
    BY <1>3, <2>1, AllowedValues DEF UpdateWrite, StoreTypes, SettingsRows
  <2>3. StoreTypes' /\ GoodsTypes'
    BY <1>3, <2>2 DEF UpdateWrite, StoreTypes, GoodsTypes, goods
  <2>4. TaskTypes'
    BY <1>0, <1>3, GotoTyped DEF UpdateWrite, At, Labels, Shape
  <2> QED
    BY <2>3, <2>4
<1>4. CASE UpdateRead(t)
  <2>1. StoreTypes' /\ GoodsTypes'
    BY <1>4 DEF UpdateRead, StoreTypes, GoodsTypes, goods
  <2>2. TaskTypes'
    BY <1>4, BecomeTyped, FreeTyped, JobTyped DEF UpdateRead, Kinds
  <2> QED
    BY <2>1, <2>2
<1>5. CASE Apply(t)
  <2>1. Obtained(t) \in SettingsRows /\ settings' \in SettingsRows
        /\ cache' \in SettingsRows \cup {NoSettings} /\ holder' \in Tasks \cup {NoTask}
    BY <1>5 DEF Apply, StoreTypes, Obtain, Obtained, Cached, store, At
  <2>2. every' \in Nat \ {0}
    BY <1>5, <2>1, AllowedValues DEF Apply, SettingsRows
  <2>3. StoreTypes' /\ GoodsTypes'
    BY <1>5, <2>1, <2>2 DEF Apply, StoreTypes, GoodsTypes, goods
  <2> QED
    BY <1>5, <2>3, DoneTyped DEF Apply
<1>6. CASE Tap(t)
  <2> DEFINE new == Tapped(task[t].name, Obtained(t)[task[t].name], task[t].value)
  <2>1. StoreTypes' /\ GoodsTypes'
    BY <1>6, ObtainTyped DEF Tap, GoodsTypes, goods
  <2>2. task[t].name \in Names
    BY <1>0, <1>6 DEF Tap, Kind, Shape, Names
  <2>3. Become(t, Free) \/ (Valid(task[t].name, new) /\ Become(t, Update("update", task[t].name, new)))
    BY <1>6 DEF Tap
  <2> HIDE DEF new
  <2>4. TaskTypes'
    BY <2>2, <2>3, BecomeTyped, FreeTyped, UpdateTyped
  <2> QED
    BY <2>1, <2>4
<1> QED
  BY <1>1, <1>2, <1>3, <1>4, <1>5, <1>6 DEF SettingsStep

\* Every step of an autopost round (reading the settings, choosing the product, posting, logging)
\* keeps the types.
LEMMA PostStepTyped ==
  ASSUME TypeInv, NEW t \in Tasks, PostStep(t)
  PROVE  TypeInv'
<1> USE DEF TypeInv
<1>0. task[t] \in TaskRecords /\ Shape(task[t])
  BY DEF TaskTypes
<1>1. CASE Ask(t)
  <2>1. StoreTypes' /\ GoodsTypes'
    BY <1>1, ObtainTyped DEF Ask, GoodsTypes, goods
  <2>2. Become(t, Free) \/ Become(t, Job("now"))
    BY <1>1 DEF Ask
  <2> QED
    BY <2>1, <2>2, BecomeTyped, FreeTyped, JobTyped DEF Kinds
<1>2. ASSUME NEW h \in Hours, PostCheck(t, h) PROVE TypeInv'
  <2> DEFINE r == [task[t] EXCEPT !.pc = "p_list", !.got = Of(Obtained(t), Weights)]
  <2>1. StoreTypes' /\ GoodsTypes' /\ Obtained(t) \in SettingsRows
    BY <1>2, ObtainTyped DEF PostCheck, GoodsTypes, goods
  <2>2. Of(Obtained(t), Weights) \in [Weights -> Int]
    BY <2>1, AllowedValues DEF Of, SettingsRows
  <2>3. r \in TaskRecords
    BY <1>0, <2>2 DEF TaskRecords, Labels, Copies
  <2>4. r.pc = "p_list" /\ r.kind \in {"auto", "now"} /\ r.name # "interval_mins"
    BY <1>0, <1>2 DEF PostCheck, Kind, Obtain, Cached, At, TaskRecords, Shape
  <2>5. Shape(r)
    BY <2>4 DEF Shape
  <2>6. Become(t, Free) \/ Become(t, r)
    BY <1>2 DEF PostCheck
  <2> HIDE DEF r
  <2> QED
    BY <2>1, <2>3, <2>5, <2>6, BecomeTyped, FreeTyped
<1>3. CASE ListPostable(t)
  <2> DEFINE found == {[id |-> p, cat |-> category[p], rested |-> age[p] = Gap] : p \in active}
             r == [task[t] EXCEPT !.pc = "p_choose", !.cands = found]
  <2>1. StoreTypes' /\ GoodsTypes'
    BY <1>3 DEF ListPostable, StoreTypes, GoodsTypes, goods, store
  <2>2. found \in SUBSET Candidates
    <3>1. \A p \in active : p \in Products /\ category[p] \in Categories /\ (age[p] = Gap) \in BOOLEAN
      BY DEF GoodsTypes
    <3>2. \A p \in active : [id |-> p, cat |-> category[p], rested |-> age[p] = Gap] \in Candidates
      BY <3>1, Zenon DEF Candidates
    <3> QED
      BY <3>2
  <2>3. Become(t, Free) \/ Become(t, r)
    BY <1>3 DEF ListPostable
  <2> HIDE DEF found
  <2>4. r \in TaskRecords /\ r.pc = "p_choose" /\ r.kind = task[t].kind /\ r.name = task[t].name
    BY <1>0, <2>2 DEF TaskRecords, Labels
  <2>5. Shape(r)
    BY <1>0, <1>3, <2>4 DEF ListPostable, At, Shape
  <2> HIDE DEF r
  <2> QED
    BY <2>1, <2>3, <2>4, <2>5, BecomeTyped, FreeTyped
<1>4. CASE Choose(t)
  <2>1. StoreTypes' /\ GoodsTypes'
    BY <1>4 DEF Choose, StoreTypes, GoodsTypes, goods, store
  <2>2. Population(t) \subseteq Candidates
    BY <1>0 DEF Population, Pool, TaskRecords
  <2>3. ASSUME NEW c \in Population(t),
               Become(t, [Free EXCEPT !.pc = "p_log", !.kind = task[t].kind, !.pid = c.id])
        PROVE  TaskTypes'
    <3> DEFINE r == [Free EXCEPT !.pc = "p_log", !.kind = task[t].kind, !.pid = c.id]
    <3>1. c.id \in Products /\ task[t].kind \in Kinds
      BY <1>0, <2>2 DEF Candidates, TaskRecords
    <3>2. r \in TaskRecords /\ r.pc = "p_log" /\ r.kind = task[t].kind /\ r.name = "none"
      BY <3>1, FreeTyped DEF TaskRecords, Labels, Free
    <3>3. Shape(r)
      BY <1>0, <1>4, <3>2 DEF Choose, At, Shape
    <3> HIDE DEF r
    <3> QED
      BY <2>3, <3>2, <3>3, BecomeTyped DEF r
  <2> QED
    BY <1>4, <2>1, <2>3, DoneTyped DEF Choose
<1>5. CASE LogPost(t)
  <2>1. StoreTypes' /\ GoodsTypes'
    BY <1>5 DEF LogPost, StoreTypes, GoodsTypes, goods, store
  <2>2. TaskTypes'
    BY <1>0, <1>5, GotoTyped DEF LogPost, At, Labels, Shape
  <2> QED
    BY <2>1, <2>2
<1>6. CASE MarkPosted(t)
  <2>1. StoreTypes' /\ GoodsTypes'
    BY <1>6 DEF MarkPosted, StoreTypes, GoodsTypes, goods, store
  <2> QED
    BY <1>6, <2>1, DoneTyped DEF MarkPosted
<1> QED
  BY <1>1, <1>2, <1>3, <1>4, <1>5, <1>6 DEF PostStep

\* Every step of the category ranking keeps the types.
LEMMA RankStepTyped ==
  ASSUME TypeInv, NEW t \in Tasks, RankStep(t)
  PROVE  TypeInv'
<1> USE DEF TypeInv
<1>0. task[t] \in TaskRecords /\ Shape(task[t])
  BY DEF TaskTypes
<1>1. CASE Downgrade(t)
  <2> DEFINE r == [task[t] EXCEPT !.pc = "r_write", !.got = Of(Obtained(t), Keeps)]
  <2>1. StoreTypes' /\ GoodsTypes' /\ Obtained(t) \in SettingsRows
    BY <1>1, ObtainTyped DEF Downgrade, GoodsTypes, goods
  <2>2. Of(Obtained(t), Keeps) \in [Keeps -> Int]
    BY <2>1, AllowedValues DEF Of, SettingsRows
  <2>3. r \in TaskRecords
    BY <1>0, <2>2 DEF TaskRecords, Labels, Copies
  <2>4. r.pc = "r_write" /\ r.kind = "rank" /\ r.name # "interval_mins"
    BY <1>0, <1>1 DEF Downgrade, Kind, Obtain, Cached, At, TaskRecords, Shape
  <2>5. Shape(r)
    BY <2>4 DEF Shape
  <2>6. Become(t, r)
    BY <1>1 DEF Downgrade
  <2> HIDE DEF r
  <2> QED
    BY <2>1, <2>3, <2>5, <2>6, BecomeTyped
<1>2. CASE Recompute(t)
  <2>1. \A i, s : Bucket(i, s) \in Categories
    BY DEF Bucket, Categories
  <2>2. category' \in [Products -> Categories]
    BY <1>2, <2>1 DEF Recompute, GoodsTypes
  <2>3. StoreTypes' /\ GoodsTypes'
    BY <1>2, <2>2 DEF Recompute, StoreTypes, GoodsTypes, store
  <2> QED
    BY <1>2, <2>3, DoneTyped DEF Recompute
<1>3. CASE SetCategory(t)
  <2>1. task[t].cat \in Categories
    BY <1>0, <1>3 DEF SetCategory, At, Shape
  <2>2. StoreTypes' /\ GoodsTypes'
    BY <1>3, <2>1 DEF SetCategory, StoreTypes, GoodsTypes, store
  <2> QED
    BY <1>3, <2>2, DoneTyped DEF SetCategory
<1> QED
  BY <1>1, <1>2, <1>3 DEF RankStep

\* An update that arrives and a job that comes due keep the types.
LEMMA StartTyped ==
  ASSUME TypeInv, NEW t \in Tasks, Start(t) \/ Jobs(t)
  PROVE  TypeInv'
<1> USE DEF TypeInv
<1>1. ASSUME UNCHANGED <<store, every, prompt, goods>> PROVE StoreTypes' /\ GoodsTypes'
  BY <1>1 DEF StoreTypes, GoodsTypes, store, goods
<1>2. ASSUME NEW n \in Names, NEW sign \in {1, -1}, StartTap(t, n, sign) PROVE TypeInv'
  <2> DEFINE r == [Job("tap") EXCEPT !.name = n, !.value = sign]
  <2>1. Job("tap") \in TaskRecords /\ Job("tap").pc = "get" /\ Job("tap").kind = "tap"
    BY FreeTyped DEF Job, TaskRecords, Labels, Kinds
  <2>2. r \in TaskRecords /\ r.pc = "get" /\ r.kind = "tap" /\ r.name = n
    <3>1. sign \in Int
      OBVIOUS
    <3> QED
      BY <2>1, <3>1 DEF TaskRecords
  <2>3. Shape(r)
    BY <1>2, <2>2, AllowedValues DEF StartTap, Shape
  <2>4. Become(t, r)
    BY <1>2 DEF StartTap, Begin
  <2> HIDE DEF r
  <2> QED
    BY <1>1, <1>2, <2>2, <2>3, <2>4, BecomeTyped DEF StartTap
<1>3. ASSUME NEW v \in 0 .. MaxInterval + 1, Preset(t, v) PROVE TypeInv'
  BY <1>1, <1>3, UpdateTyped, BecomeTyped, AllowedValues DEF Preset, Begin
<1>4. ASSUME NEW v \in 0 .. MaxInterval + 1, Type(t, v) PROVE TypeInv'
  <2>1. prompt \in Names
    BY <1>4, AllowedValues DEF Type, StoreTypes
  <2> QED
    BY <1>1, <1>4, <2>1, UpdateTyped, BecomeTyped DEF Type, Begin
<1>5. CASE StartPostNow(t) \/ StartConfirmed(t) \/ StartDowngradeByWorker(t) \/ Jobs(t)
  BY <1>1, <1>5, JobTyped, BecomeTyped
     DEF StartPostNow, StartConfirmed, StartDowngradeByWorker, Jobs, StartAuto, StartDowngrade,
         Begin, Kinds
<1>6. ASSUME NEW p \in Products, NEW c \in Categories, NEW l \in BOOLEAN,
             Begin(t, [Free EXCEPT !.pc = "c_write", !.kind = "cat", !.pid = p, !.cat = c, !.lock = l])
      PROVE  TaskTypes'
  <2> DEFINE r == [Free EXCEPT !.pc = "c_write", !.kind = "cat", !.pid = p, !.cat = c, !.lock = l]
  <2>1. r \in TaskRecords
    BY FreeTyped DEF TaskRecords, Labels, Kinds
  <2>2. r.pc = "c_write" /\ r.kind = "cat" /\ r.name = "none" /\ r.cat = c
    BY DEF Free
  <2>3. Shape(r)
    BY <2>2 DEF Shape
  <2>4. Become(t, r)
    BY <1>6 DEF Begin
  <2> HIDE DEF r
  <2> QED
    BY <2>1, <2>3, <2>4, BecomeTyped
<1>7. ASSUME NEW p \in Products, NEW c \in Categories, StartCategory(t, p, c) PROVE TypeInv'
  BY <1>1, <1>6, <1>7 DEF StartCategory
<1>8. ASSUME NEW p \in Products, StartUnlock(t, p) PROVE TypeInv'
  <2> DEFINE r == [Free EXCEPT !.pc = "c_write", !.kind = "cat", !.pid = p, !.cat = category[p]]
  <2>1. category[p] \in Categories
    BY DEF GoodsTypes
  <2>2. r \in TaskRecords
    BY <2>1, FreeTyped DEF TaskRecords, Labels, Kinds
  <2>3. r.pc = "c_write" /\ r.kind = "cat" /\ r.name = "none" /\ r.cat = category[p]
    BY DEF Free
  <2>4. Shape(r)
    BY <2>1, <2>3 DEF Shape
  <2>5. Become(t, r)
    BY <1>8 DEF StartUnlock, Begin
  <2> HIDE DEF r
  <2> QED
    BY <1>1, <1>8, <2>2, <2>4, <2>5, BecomeTyped DEF StartUnlock
<1> QED
  BY <1>2, <1>3, <1>4, <1>5, <1>7, <1>8 DEF Start

\* Every step keeps the types of the state and the shape of the tasks' records.
LEMMA TypeInvStep == TypeInv /\ [Next]_vars => TypeInv'
<1> SUFFICES ASSUME TypeInv, [Next]_vars PROVE TypeInv'
  OBVIOUS
<1>1. ASSUME NEW t \in Tasks, TaskFails(t) PROVE TypeInv'
  BY <1>1, DoneTyped DEF TaskFails, TypeInv, StoreTypes, GoodsTypes, goods
<1>2. ASSUME NEW n \in Names, Prompt(n) PROVE TypeInv'
  <2>1. prompt' \in {"interval_mins"} \cup Times
    BY <1>2 DEF Prompt
  <2> QED
    BY <1>2, <2>1 DEF Prompt, TypeInv, StoreTypes, GoodsTypes, TaskTypes, store, goods
<1>3. ASSUME NEW p \in Products, SetStatus(p) PROVE TypeInv'
  BY <1>3 DEF SetStatus, TypeInv, StoreTypes, GoodsTypes, TaskTypes, store
<1>4. CASE Cancel \/ Tick \/ UNCHANGED vars
  BY <1>4 DEF Cancel, Tick, vars, TypeInv, StoreTypes, GoodsTypes, TaskTypes, store, goods
<1>5. CASE Crash
  <2>1. every' \in Nat \ {0}
    BY <1>5, AllowedValues DEF Crash, TypeInv, StoreTypes, SettingsRows
  <2>2. TaskTypes'
    BY <1>5, FreeTyped DEF Crash, TaskTypes
  <2> QED
    BY <1>5, <2>1, <2>2 DEF Crash, TypeInv, StoreTypes, GoodsTypes, goods
<1> QED
  BY <1>1, <1>2, <1>3, <1>4, <1>5, SettingsStepTyped, PostStepTyped, RankStepTyped, StartTyped
     DEF Next, Step

\* The initial state is well typed.
LEMMA TypeInvInit == Init => TypeInv
<1> SUFFICES ASSUME Init PROVE TypeInv
  OBVIOUS
<1>1. settings \in SettingsRows
  BY AutopostAssumption DEF Init, SettingsRows
<1>2. every \in Nat \ {0}
  BY <1>1, AllowedValues DEF Init, SettingsRows
<1>3. TaskTypes
  BY FreeTyped DEF Init, TaskTypes
<1> QED
  BY <1>1, <1>2, <1>3 DEF Init, TypeInv, StoreTypes, GoodsTypes, Categories

(* Every variable the settings depend on keeps its type: the row is one    *)
(* the settings table takes, whoever is about to write a setting has a     *)
(* value update_settings accepts (Shape), and every task is one the code   *)
(* can be in.                                                              *)
THEOREM TypeInvCorrect == Spec => []TypeInv
BY TypeInvInit, TypeInvStep, PTL DEF Spec

-----------------------------------------------------------------------------
(* The cache *)

(* Whoever is past "async with _lock" holds it and has found the cache     *)
(* empty, or emptied it: so the row changes only while nobody can read a   *)
(* copy of it, and only the task that holds the lock fills the cache.      *)
CacheInv ==
  /\ cache \in {NoSettings, settings}
  /\ \A t \in Tasks : task[t].pc \in {"read", "u_write", "u_read"} =>
       holder = t /\ cache = NoSettings

\* where the tasks are after a step of t
LEMMA BecomeMoves ==
  ASSUME TypeInv, NEW t \in Tasks, NEW r, Become(t, r)
  PROVE  task'[t] = r /\ \A u \in Tasks \ {t} : task'[u] = task[u]
BY DEF Become, TypeInv, TaskTypes

\* Goto changes the place of its own task and nothing else of any task.
LEMMA GotoMoves ==
  ASSUME TypeInv, NEW t \in Tasks, NEW l, Goto(t, l)
  PROVE  /\ task'[t].pc = l /\ task'[t].kind = task[t].kind /\ task'[t].name = task[t].name
         /\ \A u \in Tasks \ {t} : task'[u] = task[u]
BY DEF Goto, TypeInv, TaskTypes, TaskRecords

\* the labels outside the lock
Outside == Labels \ {"read", "u_write", "u_read"}

\* a step of t alone that takes it outside the lock
Lands(t) == task'[t].pc \in Outside /\ \A u \in Tasks \ {t} : task'[u] = task[u]

\* No record a task starts with, and no move outside set_setting, stands where the settings row
\* and its cached copy are read or written one after the other.
LEMMA RecordLands ==
  /\ Free.pc \in Outside
  /\ \A k : Job(k).pc \in Outside
  /\ \A n, v : [Job("tap") EXCEPT !.name = n, !.value = v].pc \in Outside
  /\ \A k, n, v : Update(k, n, v).pc \in Outside
  /\ \A k, p : [Free EXCEPT !.pc = "p_log", !.kind = k, !.pid = p].pc \in Outside
  /\ \A p, c, l :
       [Free EXCEPT !.pc = "c_write", !.kind = "cat", !.pid = p, !.cat = c, !.lock = l].pc \in Outside
  /\ \A p, c : [Free EXCEPT !.pc = "c_write", !.kind = "cat", !.pid = p, !.cat = c].pc \in Outside
  /\ \A r \in TaskRecords : \A g : [r EXCEPT !.pc = "p_list", !.got = g].pc \in Outside
  /\ \A r \in TaskRecords : \A g : [r EXCEPT !.pc = "r_write", !.got = g].pc \in Outside
  /\ \A r \in TaskRecords : \A c : [r EXCEPT !.pc = "p_choose", !.cands = c].pc \in Outside
BY DEF Job, Update, Free, TaskRecords, Outside, Labels

\* A task that takes a record from outside the settings section lands outside it.
LEMMA BecomeLands ==
  ASSUME TypeInv, NEW t \in Tasks, NEW r, r.pc \in Outside, Become(t, r)
  PROVE  Lands(t)
BY BecomeMoves DEF Lands

\* a step that leaves the store alone and takes no task into the lock
LEMMA CacheInvQuiet ==
  ASSUME CacheInv, UNCHANGED store,
         \A u \in Tasks : task'[u] = task[u] \/ task'[u].pc \in Outside
  PROVE  CacheInv'
BY DEF CacheInv, Outside, store

\* the holder of the lock fills the cache and lets the lock go
LEMMA CacheInvFilled ==
  ASSUME CacheInv, NEW t \in Tasks, task[t].pc \in {"read", "u_read"}, task'[t].pc \in Outside,
         \A u \in Tasks \ {t} : task'[u] = task[u], cache' = settings, settings' = settings
  PROVE  CacheInv'
BY DEF CacheInv, Outside

\* get_settings does either
LEMMA CacheInvObtain ==
  ASSUME CacheInv, NEW t \in Tasks, Obtain(t), task'[t].pc \in Outside,
         \A u \in Tasks \ {t} : task'[u] = task[u]
  PROVE  CacheInv'
BY CacheInvQuiet, CacheInvFilled DEF Obtain, Cached, At

\* The steps on the settings keep the cached copy in agreement with the row.
LEMMA CacheInvSettings ==
  ASSUME TypeInv, CacheInv, NEW t \in Tasks, SettingsStep(t)
  PROVE  CacheInv'
<1> USE DEF Outside, Labels
<1>1. CASE GetLock(t) \/ UpdateLock(t)
  <2>1. /\ holder = NoTask /\ holder' = t /\ cache' = NoSettings /\ settings' = settings
        /\ \A u \in Tasks \ {t} : task'[u] = task[u]
    BY <1>1, GotoMoves DEF GetLock, UpdateLock
  <2> QED
    BY <2>1, AutopostAssumption DEF CacheInv
<1>2. CASE UpdateWrite(t)
  <2>1. \A u \in Tasks \ {t} : task'[u] = task[u]
    BY <1>2, GotoMoves DEF UpdateWrite
  <2> QED
    BY <1>2, <2>1 DEF UpdateWrite, At, CacheInv
<1>3. CASE UpdateRead(t)
  <2>1. task'[t].pc \in Outside /\ \A u \in Tasks \ {t} : task'[u] = task[u]
    BY <1>3, BecomeLands, RecordLands DEF UpdateRead, Lands
  <2> QED
    BY <1>3, <2>1, CacheInvFilled DEF UpdateRead, At
<1>4. CASE Apply(t)
  <2>1. task'[t].pc \in Outside /\ \A u \in Tasks \ {t} : task'[u] = task[u]
    BY <1>4, BecomeLands, RecordLands DEF Apply, Done, Lands
  <2> QED
    BY <1>4, <2>1, CacheInvObtain DEF Apply
<1>5. CASE Tap(t)
  <2>1. task'[t].pc \in Outside /\ \A u \in Tasks \ {t} : task'[u] = task[u]
    BY <1>5, BecomeLands, RecordLands DEF Tap, Lands
  <2> QED
    BY <1>5, <2>1, CacheInvObtain DEF Tap
<1> QED
  BY <1>1, <1>2, <1>3, <1>4, <1>5 DEF SettingsStep

\* none of the other steps takes a task into the lock
LEMMA OthersLand ==
  ASSUME TypeInv, NEW t \in Tasks, PostStep(t) \/ RankStep(t) \/ Start(t) \/ Jobs(t)
  PROVE  Lands(t)
<1> USE BecomeLands, RecordLands
<1>0. task[t] \in TaskRecords
  BY DEF TypeInv, TaskTypes
<1>1. CASE Ask(t)
  BY <1>1 DEF Ask
<1>2. ASSUME NEW h \in Hours, PostCheck(t, h) PROVE Lands(t)
  BY <1>0, <1>2 DEF PostCheck
<1>3. CASE ListPostable(t)
  BY <1>0, <1>3 DEF ListPostable
<1>4. CASE Choose(t)
  <2>1. ASSUME NEW c, Become(t, [Free EXCEPT !.pc = "p_log", !.kind = task[t].kind, !.pid = c.id])
        PROVE  Lands(t)
    BY <2>1
  <2> QED
    BY <1>4, <2>1 DEF Choose, Done
<1>5. CASE LogPost(t)
  BY <1>5, GotoMoves DEF LogPost, Lands, Outside, Labels
<1>6. CASE MarkPosted(t) \/ Recompute(t) \/ SetCategory(t)
  BY <1>6 DEF MarkPosted, Recompute, SetCategory, Done
<1>7. CASE Downgrade(t)
  BY <1>0, <1>7 DEF Downgrade
<1>8. CASE Jobs(t) \/ StartPostNow(t) \/ StartConfirmed(t) \/ StartDowngradeByWorker(t)
  BY <1>8 DEF Jobs, StartAuto, StartDowngrade, StartPostNow, StartConfirmed, StartDowngradeByWorker, Begin
<1>9. ASSUME NEW n, NEW sign, StartTap(t, n, sign) PROVE Lands(t)
  BY <1>9 DEF StartTap, Begin
<1>10. ASSUME NEW v, Preset(t, v) \/ Type(t, v) PROVE Lands(t)
  BY <1>10 DEF Preset, Type, Begin
<1>11. ASSUME NEW p, StartUnlock(t, p) PROVE Lands(t)
  BY <1>11 DEF StartUnlock, Begin
<1>12. ASSUME NEW p, NEW c, StartCategory(t, p, c) PROVE Lands(t)
  BY <1>12 DEF StartCategory, Begin
<1> QED
  BY <1>1, <1>2, <1>3, <1>4, <1>5, <1>6, <1>7, <1>8, <1>9, <1>10, <1>11, <1>12
     DEF PostStep, RankStep, Start

\* The steps that only read settings (posting, ranking) and the tasks that start cannot disturb
\* the cached copy.
LEMMA CacheInvOthers ==
  ASSUME TypeInv, CacheInv, NEW t \in Tasks, PostStep(t) \/ RankStep(t) \/ Start(t) \/ Jobs(t)
  PROVE  CacheInv'
<1>1. task'[t].pc \in Outside /\ \A u \in Tasks \ {t} : task'[u] = task[u]
  BY OthersLand DEF Lands
<1>2. UNCHANGED store \/ Obtain(t)
  BY DEF PostStep, RankStep, Start, Jobs, Ask, PostCheck, ListPostable, Choose, LogPost, MarkPosted,
         Downgrade, Recompute, SetCategory, StartTap, Preset, Type, StartPostNow, StartConfirmed,
         StartDowngradeByWorker, StartUnlock, StartCategory, StartAuto, StartDowngrade
<1> QED
  BY <1>1, <1>2, CacheInvQuiet, CacheInvObtain

\* Every step keeps the cached copy in agreement with the row, a running update excepted.
LEMMA CacheInvStep == TypeInv /\ CacheInv /\ [Next]_vars => CacheInv'
<1> SUFFICES ASSUME TypeInv, CacheInv, [Next]_vars PROVE CacheInv'
  OBVIOUS
<1>1. ASSUME NEW t \in Tasks, TaskFails(t) PROVE CacheInv'
  <2>1. task'[t].pc = "idle" /\ \A u \in Tasks \ {t} : task'[u] = task[u]
    BY <1>1, BecomeMoves DEF TaskFails, Done, Free
  <2> QED
    BY <1>1, <2>1 DEF TaskFails, CacheInv
<1>2. CASE Crash
  BY <1>2 DEF Crash, CacheInv, Free
<1>3. CASE \/ \E n \in Names : Prompt(n)
           \/ \E p \in Products : SetStatus(p)
           \/ Cancel \/ Tick \/ UNCHANGED vars
  BY <1>3, CacheInvQuiet DEF Prompt, SetStatus, Cancel, Tick, vars
<1> QED
  BY <1>1, <1>2, <1>3, CacheInvSettings, CacheInvOthers DEF Next, Step

\* The empty cache agrees with the rows the bot starts with.
LEMMA CacheInvInit == Init => CacheInv
BY DEF Init, CacheInv, Free

\* In every reachable state the cached settings agree with the rows, a running update excepted.
THEOREM CacheInvCorrect == Spec => []CacheInv
BY CacheInvInit, CacheInvStep, TypeInvCorrect, PTL DEF Spec

(* get_settings never returns anything but the row or nothing, whichever   *)
(* tasks change it at the same time and whichever of their calls fail.     *)
THEOREM CacheCorrect == Spec => []CacheIsTheRow
<1>1. CacheInv => CacheIsTheRow
  BY DEF CacheInv, CacheIsTheRow
<1> QED
  BY <1>1, CacheInvCorrect, PTL

-----------------------------------------------------------------------------
(* The scheduler *)

\* the copy a task works with is the row as it is at that moment
LEMMA ObtainedIsTheRow ==
  ASSUME TypeInv, CacheInv, NEW t \in Tasks, Obtain(t)
  PROVE  Obtained(t) = settings /\ settings' = settings
BY DEF Obtain, Obtained, Cached, At, CacheInv, store

\* a task with a change of the interval that the scheduler does not know yet
Pending(t) == task[t].kind = "apply" \/ task[t].name = "interval_mins"

\* such a task is about to store the interval, to read the row again, or to apply it
LEMMA ScheduleStep ==
  ASSUME TypeInv, CacheInv, ScheduleFollowsSettings, [Next]_vars
  PROVE  ScheduleFollowsSettings'
<1> USE DEF ScheduleFollowsSettings
<1>0. \A t \in Tasks : task[t] \in TaskRecords /\ Shape(task[t])
  BY DEF TypeInv, TaskTypes
<1>1. ASSUME NEW t \in Tasks, ~Pending(t), every' = every, failed' = failed,
             settings'["interval_mins"] = settings["interval_mins"],
             \A u \in Tasks \ {t} : task'[u] = task[u]
      PROVE  ScheduleFollowsSettings'
  BY <1>1 DEF Pending
<1>2. ASSUME NEW t \in Tasks, Pending(t)' PROVE ScheduleFollowsSettings'
  BY <1>2 DEF Pending
<1>3. ASSUME NEW t \in Tasks, PostStep(t) \/ RankStep(t) \/ Start(t) \/ Jobs(t)
      PROVE  ScheduleFollowsSettings'
  <2>1. \A u \in Tasks \ {t} : task'[u] = task[u]
    BY <1>3, OthersLand DEF Lands
  <2>2. every' = every /\ failed' = failed
    BY <1>3
       DEF PostStep, RankStep, Start, Jobs, Ask, PostCheck, ListPostable, Choose, LogPost, MarkPosted,
           Downgrade, Recompute, SetCategory, StartTap, Preset, Type, StartPostNow, StartConfirmed,
           StartDowngradeByWorker, StartUnlock, StartCategory, StartAuto, StartDowngrade, Op, bounds
  <2>3. settings' = settings
    BY <1>3, ObtainedIsTheRow
       DEF PostStep, RankStep, Start, Jobs, Ask, PostCheck, ListPostable, Choose, LogPost, MarkPosted,
           Downgrade, Recompute, SetCategory, StartTap, Preset, Type, StartPostNow, StartConfirmed,
           StartDowngradeByWorker, StartUnlock, StartCategory, StartAuto, StartDowngrade, store
  <2>4. ~Pending(t)
    <3>1. \/ task[t].kind \in {"ask", "auto", "now", "rank"} /\ Obtain(t)
          \/ task[t].pc \in {"p_list", "p_choose", "p_log", "p_mark", "r_write", "c_write"}
          \/ task[t] = Free
      BY <1>3
         DEF PostStep, RankStep, Start, Jobs, Ask, PostCheck, ListPostable, Choose, LogPost, MarkPosted,
             Downgrade, Recompute, SetCategory, StartTap, Preset, Type, StartPostNow, StartConfirmed,
             StartDowngradeByWorker, StartUnlock, StartCategory, StartAuto, StartDowngrade, Begin,
             Kind, At
    <3>2. Obtain(t) => task[t].pc \in {"get", "read"}
      BY DEF Obtain, Cached, At
    <3> QED
      BY <1>0, <3>1, <3>2 DEF Pending, Shape, Free
  <2> QED
    BY <1>1, <2>1, <2>2, <2>3, <2>4
<1>4. ASSUME NEW t \in Tasks, GetLock(t) \/ UpdateLock(t) PROVE ScheduleFollowsSettings'
  BY <1>4, GotoMoves DEF GetLock, UpdateLock, bounds
<1>5. ASSUME NEW t \in Tasks, UpdateWrite(t) PROVE ScheduleFollowsSettings'
  <2>1. CASE task[t].name = "interval_mins"
    BY <1>2, <1>5, <2>1, GotoMoves DEF UpdateWrite, Pending
  <2>2. CASE task[t].name # "interval_mins"
    <3>1. task[t].kind # "apply"
      BY <1>0, <1>5 DEF UpdateWrite, At, Shape
    <3>2. settings'["interval_mins"] = settings["interval_mins"]
      BY <1>5, <2>2, AllowedValues DEF UpdateWrite, TypeInv, StoreTypes, SettingsRows
    <3> QED
      BY <1>1, <1>5, <2>2, <3>1, <3>2, GotoMoves DEF UpdateWrite, Pending, bounds
  <2> QED
    BY <2>1, <2>2
<1>6. ASSUME NEW t \in Tasks, UpdateRead(t) PROVE ScheduleFollowsSettings'
  <2>1. CASE task[t].name = "interval_mins"
    <3>1. Job("apply").kind = "apply"
      BY DEF Job, Free
    <3> QED
      BY <1>2, <1>6, <2>1, <3>1, BecomeMoves DEF UpdateRead, Pending
  <2>2. CASE task[t].name # "interval_mins"
    <3>1. task[t].kind # "apply"
      BY <1>0, <1>6 DEF UpdateRead, At, Shape
    <3> QED
      BY <1>1, <1>6, <2>2, <3>1, BecomeMoves DEF UpdateRead, Pending, bounds
  <2> QED
    BY <2>1, <2>2
<1>7. ASSUME NEW t \in Tasks, Apply(t) PROVE ScheduleFollowsSettings'
  BY <1>7, ObtainedIsTheRow DEF Apply
<1>8. ASSUME NEW t \in Tasks, Tap(t) PROVE ScheduleFollowsSettings'
  <2>1. ~Pending(t)
    <3>1. task[t].pc \in {"get", "read"} /\ task[t].kind = "tap"
      BY <1>8 DEF Tap, Kind, Obtain, Cached, At
    <3> QED
      BY <1>0, <3>1 DEF Shape, Pending
  <2>2. \A u \in Tasks \ {t} : task'[u] = task[u]
    BY <1>8, BecomeMoves DEF Tap
  <2> QED
    BY <1>1, <1>8, <2>1, <2>2, ObtainedIsTheRow DEF Tap, bounds
<1>9. CASE Crash \/ \E t \in Tasks : TaskFails(t)
  BY <1>9 DEF Crash, TaskFails
<1>10. CASE \/ \E n \in Names : Prompt(n)
            \/ \E p \in Products : SetStatus(p)
            \/ Cancel \/ Tick \/ UNCHANGED vars
  <2>1. task' = task /\ settings' = settings /\ every' = every /\ failed' = failed
    BY <1>10 DEF Prompt, SetStatus, Cancel, Tick, vars, store, bounds, Op
  <2> QED
    BY <2>1
<1> QED
  BY <1>3, <1>4, <1>5, <1>6, <1>7, <1>8, <1>9, <1>10 DEF Next, Step, SettingsStep

(* While no change of the interval is under way the scheduler runs at the  *)
(* stored interval: whoever stored it last is still to tell the scheduler, *)
(* and whoever tells it reads the row again.                               *)
THEOREM ScheduleCorrect == Spec => []ScheduleFollowsSettings
<1>1. Init => ScheduleFollowsSettings
  BY DEF Init, ScheduleFollowsSettings
<1> QED
  BY <1>1, ScheduleStep, TypeInvCorrect, CacheInvCorrect, PTL DEF Spec

-----------------------------------------------------------------------------
(* Autopost *)

\* the remainder of a difference of two hours
LEMMA HourDifference ==
  ASSUME NEW a \in Hours, NEW b \in Hours
  PROVE  (a - b) % Day = IF a >= b THEN a - b ELSE a - b + Day
BY AutopostAssumption DEF Hours

(* The run of the scheduler goes on only when autopost is on in the row at *)
(* that moment, and the hour is not one of the night.                      *)
THEOREM AutopostCorrect == Spec => AutopostIsAllowed
<1>1. ASSUME TypeInv, CacheInv, NEW t \in Tasks, NEW h \in Hours, PostCheck(t, h),
             task[t].kind = "auto", task'[t] # Free
      PROVE  /\ settings["autopost_enabled"] = 1
             /\ (h - settings["night_start"]) % Day
                  >= (settings["night_end"] - settings["night_start"]) % Day
  <2> DEFINE start == settings["night_start"]
             end == settings["night_end"]
  <2>1. MayPost("auto", settings, h)
    BY <1>1, BecomeMoves, ObtainedIsTheRow DEF PostCheck
  <2>2. start \in Hours /\ end \in Hours
    BY <1>1 DEF TypeInv, StoreTypes, SettingsRows, Storable, Names, Weights, Keeps, Times, Toggles, Hours
  <2>3. ~(IF start <= end THEN start <= h /\ h < end ELSE h >= start \/ h < end)
    BY <2>1 DEF MayPost, IsNight
  <2> HIDE DEF start, end
  <2>4. /\ (h - start) % Day = IF h >= start THEN h - start ELSE h - start + Day
        /\ (end - start) % Day = IF end >= start THEN end - start ELSE end - start + Day
    BY <2>2, HourDifference
  <2>5. (h - start) % Day >= (end - start) % Day
    BY <2>2, <2>3, <2>4, AutopostAssumption DEF Hours
  <2> QED
    BY <2>1, <2>5 DEF MayPost, start, end
<1>2. TypeInv /\ CacheInv /\ [Next]_vars =>
        [\A t \in Tasks, h \in Hours : PostCheck(t, h) /\ task[t].kind = "auto" /\ task'[t] # Free =>
           /\ settings["autopost_enabled"] = 1
           /\ (h - settings["night_start"]) % Day
                >= (settings["night_end"] - settings["night_start"]) % Day]_vars
  BY <1>1
<1> QED
  BY <1>2, TypeInvCorrect, CacheInvCorrect, PTL DEF Spec, AutopostIsAllowed
=============================================================================

------------------------------ MODULE AiRouter ------------------------------
(***************************************************************************)
(* The cascade of AI providers (ai/router.py) with the saved state of the  *)
(* keys (db/keystate.py).  A call of generate_json walks the list of       *)
(* (key, model) pairs in order of priority, and what a pair answers        *)
(* decides about the pair, the key and the rest of the walk.               *)
(*                                                                         *)
(* Calls of several workers run at the same time and share the state in    *)
(* RAM.  They give way only while a provider answers and while they sleep  *)
(* between two passes, so one action handles an answer and goes on to the  *)
(* next attempt.  The saving of a change is a task of its own.             *)
(***************************************************************************)
EXTENDS Integers

CONSTANTS
  Entries,    \* the attempt list of init_router, in order of priority
  Calls,      \* callers of generate_json running at the same time
  Photo,      \* the callers that rewrite a post with its photo
  Cool,       \* _PAIR_COOLDOWN_SEC, in ticks
  Short,      \* key_exhausted_minutes, in ticks
  Midnight,   \* the time to the daily reset, in ticks
  MaxRetries, \* _MAX_INVALID_RETRIES
  MaxRounds,  \* the number of _BACKOFFS
  MaxBlocked, \* _MAX_BLOCKED
  MaxCalls,   \* bound: calls that are started
  MaxTrouble, \* bound: answers that tell against a pair or a key
  MaxWorld    \* bound: ticks, failed database calls and restarts together

Index == DOMAIN Entries

Keys == {Entries[i].key : i \in Index}

Pair(i) == <<Entries[i].key, Entries[i].model>>

Pairs == {Pair(i) : i \in Index}

Kinds == {"text", "media"}

Kind(c) == IF c \in Photo THEN "media" ELSE "text"

ASSUME AiRouterAssumption ==
  /\ Photo \subseteq Calls
  /\ Index \subseteq Nat \ {0}
  /\ \A i, j \in Index : i <= j => Entries[i].group <= Entries[j].group
  /\ \A i \in Index : Entries[i].fallback \in BOOLEAN /\ Entries[i].vision \in BOOLEAN
  /\ \A i \in Index : ~Entries[i].vision => Entries[i].fallback
  /\ Cool \in Nat /\ Short \in Nat /\ Midnight \in Nat /\ Short <= Midnight
  /\ MaxRetries \in Nat /\ MaxRounds \in Nat /\ MaxBlocked \in Nat
  /\ MaxCalls \in Nat /\ MaxTrouble \in Nat /\ MaxWorld \in 0 .. Midnight

VARIABLES
  ram,     \* _state, _bad_pairs, _cooldowns and _sticky; times are the ticks left
  db,      \* api_key_state and bad_pairs
  writes,  \* the saving tasks that have not run
  run,     \* the running calls: _Run with the locals of _run_stage and _try_entry
  \* bookkeeping of the model
  calls, trouble, ticks, faults

bounds == <<calls, trouble, ticks, faults>>
vars == <<ram, db, writes, run, bounds>>

-----------------------------------------------------------------------------
(* Candidates *)

\* _is_available
Available(s, i, ign) ==
  /\ Entries[i].key \notin s.invalid
  /\ Pair(i) \notin s.bad
  /\ ign \/ (s.exhausted[Entries[i].key] = 0 /\ s.cooling[Pair(i)] = 0)

\* _usable, and _vision_skipped in the second stage
Fits(r, i) ==
  IF r.stage = 2 THEN Entries[i].fallback /\ ~Entries[i].vision
                 ELSE r.kind = "media" => Entries[i].vision

Candidates(s, r, ign) == {i \in Index : Fits(r, i) /\ Available(s, i, ign)}

\* the first of a list, in order of priority
Least(list) == CHOOSE i \in list : \A j \in list : i <= j

\* broken: the last success comes first, whatever its group
ApplyStickyAnywhere(s, r, list) ==
  LET last == s.sticky[r.kind] IN IF r.stage = 1 /\ last \in list THEN last ELSE Least(list)

\* _apply_sticky: the last success comes first within the best group
ApplySticky(s, r, list) ==
  LET last == s.sticky[r.kind]
      top == Least(list)
  IN  IF r.stage = 1 /\ last \in list /\ Entries[last].group = Entries[top].group THEN last ELSE top

-----------------------------------------------------------------------------
(* The walk.  Each operator gives the call as it stands at its next await. *)

Idle == [pc |-> "idle", kind |-> "text", stage |-> 1, todo |-> {}, entry |-> 0, ign |-> FALSE,
         round |-> 0, transient |-> FALSE, blocked |-> 0, failed |-> FALSE,
         retries |-> 0,        \* invalid_fails
         light |-> FALSE]      \* the lighter request is used

Ended(outcome) == [Idle EXCEPT !.pc = outcome]

\* the end of generate_json without a text
NoText(r) == Ended(IF r.blocked > 0 /\ ~r.failed THEN "blocked" ELSE "failed")

\* the pass goes on with entry i of its list, and has the rest still to do
Attempt(r, i, rest) ==
  [r EXCEPT !.pc = "calling", !.entry = i, !.todo = rest, !.retries = 0, !.light = FALSE]

\* broken: a stage without a free pair has nothing to try
NewPassStrict(s, r) == [r EXCEPT !.transient = FALSE, !.todo = Candidates(s, r, FALSE)]

\* the head of the loop of _run_stage: with no pair to spare, all of them once
NewPass(s, r) ==
  LET ign == r.round = 0 /\ Candidates(s, r, FALSE) = {}
  IN  [r EXCEPT !.ign = ign, !.transient = FALSE, !.todo = Candidates(s, r, ign)]

FirstAttempt(s, r) ==
  LET first == ApplySticky(s, r, r.todo) IN Attempt(r, first, r.todo \ {first})

\* a media request falls back on the providers that see no images
StageEnds(s, r) ==
  LET r2 == NewPass(s, [r EXCEPT !.stage = 2, !.round = 0]) IN
    IF r.kind = "media" /\ r.stage = 1 /\ r2.todo # {} THEN FirstAttempt(s, r2) ELSE NoText(r)

BeginPass(s, r) ==
  LET r1 == NewPass(s, r) IN IF r1.todo = {} THEN StageEnds(s, r) ELSE FirstAttempt(s, r1)

EndOfPass(s, r) ==
  IF r.ign \/ ~r.transient \/ r.round >= MaxRounds
    THEN StageEnds(s, r)
    ELSE [r EXCEPT !.pc = "sleeping", !.todo = {}, !.entry = 0]

\* broken: the list of the pass is not looked over again
MoveOnBlindly(s, r) ==
  IF r.blocked >= MaxBlocked THEN Ended("blocked")
  ELSE IF r.todo # {} THEN Attempt(r, Least(r.todo), r.todo \ {Least(r.todo)})
  ELSE EndOfPass(s, r)

\* the rest of the pass after an attempt that gave no text: what cannot be
\* tried any more is passed over
MoveOn(s, r) ==
  LET open == {i \in r.todo : Available(s, i, r.ign)}
      next == Least(open)
  IN  IF r.blocked >= MaxBlocked THEN Ended("blocked")
      ELSE IF open # {} THEN Attempt(r, next, {i \in r.todo : i > next})
      ELSE EndOfPass(s, r)

-----------------------------------------------------------------------------
(* What an answer changes *)

SaveBad(pair) == [what |-> "bad", of |-> pair, until |-> 0]
SaveInvalid(k) == [what |-> "invalid", of |-> k, until |-> 0]
SaveExhausted(k, until) == [what |-> "exhausted", of |-> k, until |-> until]

KeyOf(c) == Entries[run[c].entry].key
PairOf(c) == Pair(run[c].entry)

\* every model of the key is cooling or unsupported
AllCooling(s, k) == \A p \in Pairs : p[1] = k => p \in s.bad \/ s.cooling[p] > 0

\* broken: a shorter exhaustion replaces a longer one
ExhaustAnyway(s, k, until) == [s EXCEPT !.exhausted[k] = until]

\* _set_exhausted
Exhaust(s, k, until) == [s EXCEPT !.exhausted[k] = IF @ >= until THEN @ ELSE until]

Saving(s, k) ==
  IF s.exhausted[k] = ram.exhausted[k] THEN writes ELSE writes \cup {SaveExhausted(k, s.exhausted[k])}

Calling(c) == run[c].pc = "calling"

Trouble == trouble < MaxTrouble /\ trouble' = trouble + 1

Failed(c) == [run[c] EXCEPT !.failed = TRUE]

\* the next look at the clock finds the budget spent
Late(c, r) == r.blocked < MaxBlocked /\ run' = [run EXCEPT ![c] = NoText(r)]

\* the call goes on from the state s of the router
GoOn(c, s, r) == run' = [run EXCEPT ![c] = MoveOn(s, r)] \/ Late(c, r)

-----------------------------------------------------------------------------

Init ==
  /\ ram = [invalid |-> {}, bad |-> {}, exhausted |-> [k \in Keys |-> 0],
            cooling |-> [p \in Pairs |-> 0], sticky |-> [k \in Kinds |-> 0]]
  /\ db = [invalid |-> {}, bad |-> {}, exhausted |-> [k \in Keys |-> 0]]
  /\ writes = {}
  /\ run = [c \in Calls |-> Idle]
  /\ calls = 0 /\ trouble = 0 /\ ticks = 0 /\ faults = 0

Running(c) == run[c].pc \in {"calling", "sleeping"}

\* generate_json
Start(c) ==
  /\ ~Running(c)
  /\ calls < MaxCalls
  /\ calls' = calls + 1
  /\ run' = [run EXCEPT ![c] = BeginPass(ram, [Idle EXCEPT !.kind = Kind(c)])]
  /\ UNCHANGED <<ram, db, writes, trouble, ticks, faults>>

\* good JSON: _on_success, and the pair is the first next time
Success(c) ==
  LET k == KeyOf(c) IN
    /\ Calling(c)
    /\ ram' = [ram EXCEPT !.cooling[PairOf(c)] = 0, !.exhausted[k] = 0,
                          !.sticky = IF run[c].stage = 1 THEN [@ EXCEPT ![run[c].kind] = run[c].entry] ELSE @]
    /\ writes' = Saving(ram', k)
    /\ run' = [run EXCEPT ![c] = Ended("text")]
    /\ UNCHANGED <<db, bounds>>

\* an answer that is no JSON: again on the same pair
BadJson(c) ==
  /\ Calling(c)
  /\ IF run[c].retries >= MaxRetries
       THEN GoOn(c, ram, Failed(c))
       ELSE run' = [run EXCEPT ![c].retries = @ + 1] \/ Late(c, run[c])
  /\ UNCHANGED <<ram, db, writes, bounds>>

\* _on_quota
QuotaHit(c) ==
  LET k == KeyOf(c)
      cold == [ram EXCEPT !.cooling[PairOf(c)] = Cool]
  IN  /\ Calling(c)
      /\ Trouble
      /\ ram' = IF AllCooling(cold, k) THEN Exhaust(cold, k, Short) ELSE cold
      /\ writes' = Saving(ram', k)
      /\ GoOn(c, ram', Failed(c))
      /\ UNCHANGED <<db, calls, ticks, faults>>

DailyQuotaHit(c) ==
  LET k == KeyOf(c) IN
    /\ Calling(c)
    /\ Trouble
    /\ ram' = Exhaust([ram EXCEPT !.cooling[PairOf(c)] = Cool], k, Midnight - ticks)
    /\ writes' = Saving(ram', k)
    /\ GoOn(c, ram', Failed(c))
    /\ UNCHANGED <<db, calls, ticks, faults>>

\* _on_bad_pair
NotSupported(c) ==
  /\ Calling(c)
  /\ Trouble
  /\ ram' = [ram EXCEPT !.bad = @ \cup {PairOf(c)}]
  /\ writes' = IF PairOf(c) \in ram.bad THEN writes ELSE writes \cup {SaveBad(PairOf(c))}
  /\ GoOn(c, ram', Failed(c))
  /\ UNCHANGED <<db, calls, ticks, faults>>

\* broken: the key is disabled in RAM only
KeyRejectedInRam(c) ==
  LET k == KeyOf(c) IN
    /\ Calling(c)
    /\ Trouble
    /\ ram' = [ram EXCEPT !.invalid = @ \cup {k}]
    /\ GoOn(c, ram', Failed(c))
    /\ UNCHANGED <<db, writes, calls, ticks, faults>>

\* _on_invalid_key
KeyRejected(c) ==
  LET k == KeyOf(c) IN
    /\ Calling(c)
    /\ Trouble
    /\ ram' = [ram EXCEPT !.invalid = @ \cup {k}]
    /\ writes' = IF k \in ram.invalid THEN writes ELSE writes \cup {SaveInvalid(k)}
    /\ GoOn(c, ram', Failed(c))
    /\ UNCHANGED <<db, calls, ticks, faults>>

\* only the media requests of the copywriter have a lighter version
TooLarge(c) ==
  /\ Calling(c)
  /\ IF run[c].kind = "text" \/ run[c].light
       THEN GoOn(c, ram, Failed(c))
       ELSE run' = [run EXCEPT ![c].light = TRUE] \/ Late(c, run[c])
  /\ UNCHANGED <<ram, db, writes, bounds>>

Blocked(c) ==
  /\ Calling(c)
  /\ GoOn(c, ram, [run[c] EXCEPT !.blocked = @ + 1])
  /\ UNCHANGED <<ram, db, writes, bounds>>

\* a server error or a timeout; any other error only counts as a failure
AttemptFails(c) ==
  /\ Calling(c)
  /\ GoOn(c, ram, Failed(c)) \/ GoOn(c, ram, [Failed(c) EXCEPT !.transient = TRUE])
  /\ UNCHANGED <<ram, db, writes, bounds>>

\* broken: the rounds are not counted
WakeAgain(c) ==
  /\ run[c].pc = "sleeping"
  /\ run' = [run EXCEPT ![c] = BeginPass(ram, @)]
  /\ UNCHANGED <<ram, db, writes, bounds>>

\* the sleep between two passes, unless the budget does not allow it
Wake(c) ==
  /\ run[c].pc = "sleeping"
  /\ run' = [run EXCEPT ![c] = BeginPass(ram, [run[c] EXCEPT !.round = @ + 1])] \/ Late(c, run[c])
  /\ UNCHANGED <<ram, db, writes, bounds>>

-----------------------------------------------------------------------------
(* Saving, time and restarts *)

Save(w) ==
  /\ w \in writes
  /\ writes' = writes \ {w}
  /\ db' = CASE w.what = "bad" -> [db EXCEPT !.bad = @ \cup {w.of}]
             [] w.what = "invalid" -> [db EXCEPT !.invalid = @ \cup {w.of}]
             [] w.what = "exhausted" -> [db EXCEPT !.exhausted[w.of] = w.until]
  /\ UNCHANGED <<ram, run, bounds>>

Fault == ticks + faults < MaxWorld /\ faults' = faults + 1

SaveFails(w) ==
  /\ w \in writes
  /\ Fault
  /\ writes' = writes \ {w}
  /\ UNCHANGED <<ram, db, run, calls, trouble, ticks>>

Less(n) == IF n = 0 THEN 0 ELSE n - 1

Tick ==
  /\ ticks + faults < MaxWorld
  /\ ticks' = ticks + 1
  /\ ram' = [ram EXCEPT !.exhausted = [k \in Keys |-> Less(ram.exhausted[k])],
                        !.cooling = [p \in Pairs |-> Less(ram.cooling[p])]]
  /\ db' = [db EXCEPT !.exhausted = [k \in Keys |-> Less(db.exhausted[k])]]
  /\ writes' = {[w EXCEPT !.until = Less(@)] : w \in writes}
  /\ UNCHANGED <<run, calls, trouble, faults>>

\* init_router: the key states are loaded, then the bad pairs; when a call fails, it and what
\* comes after it start with a clean slate
Restart ==
  /\ Fault
  /\ \E keys, pairs \in BOOLEAN :
       /\ pairs => keys
       /\ ram' = [ram EXCEPT !.invalid = IF keys THEN db.invalid ELSE {},
                             !.exhausted = IF keys THEN db.exhausted ELSE [k \in Keys |-> 0],
                             !.bad = IF pairs THEN db.bad ELSE {},
                             !.cooling = [p \in Pairs |-> 0], !.sticky = [k \in Kinds |-> 0]]
  /\ writes' = {}
  /\ run' = [c \in Calls |-> Idle]
  /\ UNCHANGED <<db, calls, trouble, ticks>>

-----------------------------------------------------------------------------

Answer(c) ==
  \/ Success(c) \/ BadJson(c) \/ QuotaHit(c) \/ DailyQuotaHit(c) \/ NotSupported(c) \/ KeyRejected(c)
  \/ TooLarge(c) \/ Blocked(c) \/ AttemptFails(c)

Next ==
  \/ \E c \in Calls :
       Start(c) \/ Answer(c) \/ Wake(c)
  \/ \E w \in writes : Save(w) \/ SaveFails(w)
  \/ Tick \/ Restart

Spec == Init /\ [][Next]_vars

\* a running call can always go on, so this is its weak fairness: every
\* attempt has a timeout and sleeps end; and the saving tasks run
FairSpec ==
  /\ Spec
  /\ \A c \in Calls : []<>~Running(c) \/ []<><<run'[c] # run[c]>>_vars
  /\ WF_vars(\E w \in writes : Save(w))

-----------------------------------------------------------------------------
(* Properties *)

RunOK(r) ==
  /\ r.pc \in {"idle", "calling", "sleeping", "text", "blocked", "failed"}
  /\ r.kind \in Kinds /\ r.stage \in {1, 2}
  /\ r.entry \in Index \cup {0} /\ (r.pc = "calling" => r.entry # 0)
  /\ r.todo \subseteq Index \ {r.entry}
  /\ {r.ign, r.transient, r.failed, r.light} \subseteq BOOLEAN
  /\ r.round \in 0 .. MaxRounds /\ r.blocked \in 0 .. MaxBlocked /\ r.retries \in 0 .. MaxRetries

TypeOK ==
  /\ ram.invalid \subseteq Keys /\ ram.bad \subseteq Pairs
  /\ ram.exhausted \in [Keys -> 0 .. Midnight] /\ ram.cooling \in [Pairs -> 0 .. Cool]
  /\ ram.sticky \in [Kinds -> Index \cup {0}]
  /\ db.invalid \subseteq Keys /\ db.bad \subseteq Pairs /\ db.exhausted \in [Keys -> 0 .. Midnight]
  /\ \A w \in writes : w.what \in {"bad", "invalid", "exhausted"} /\ w.until \in 0 .. Midnight
  /\ \A c \in Calls : RunOK(run[c])
  /\ calls \in 0 .. MaxCalls /\ trouble \in 0 .. MaxTrouble /\ ticks + faults <= MaxWorld

\* an attempt on a pair that is not a retry begins in this step
Begins(c) ==
  /\ run'[c] # run[c] /\ run'[c].pc = "calling"
  /\ run'[c].retries = 0 /\ ~run'[c].light

(* No call begins an attempt on a pair another call has found unsupported, *)
(* rejected, exhausted or rate limited since its list was made             *)
(* (router.py:376), unless everything is exhausted.                        *)
AttemptIsAllowed ==
  [][\A c \in Calls : Begins(c) => Available(ram', run'[c].entry, run'[c].ign)]_vars

(* The last success is no reason to leave a better group of keys alone     *)
(* (router.py:321), whichever call had it: what a pass tries first is of   *)
(* the best group that has something to try.                               *)
BestGroupFirst ==
  [][\A c \in Calls :
       Begins(c) /\ ~Calling(c) /\ run'[c].stage = 1 =>
         \A i \in Index : Fits(run'[c], i) /\ Available(ram', i, run'[c].ign) =>
           Entries[run'[c].entry].group <= Entries[i].group]_vars

(* A call fails without an attempt only if every pair is unsupported or    *)
(* its key rejected, or the budget is spent: exhausted keys are tried      *)
(* again, and the photo is left out for a provider that sees no images     *)
(* (router.py:217, 358).                                                   *)
TriesBeforeFailing ==
  [][\A c \in Calls :
       calls' # calls /\ run[c].pc # "failed" /\ run'[c].pc = "failed" =>
         \A i \in Index : ~Available(ram', i, TRUE)]_vars

(* A key exhausted for the day stays so when a later answer to another     *)
(* call is a mere rate limit (router.py:498): only time, a success of the  *)
(* key and a restart end an exhaustion early.                              *)
ExhaustionHolds ==
  [][\A k \in Keys :
       ram'.exhausted[k] < ram.exhausted[k] =>
         \/ ticks' # ticks \/ faults' # faults
         \/ \E c \in Calls : Calling(c) /\ KeyOf(c) = k /\ run'[c].pc = "text"]_vars

(* What a provider rejected for good is still known after a restart        *)
(* (router.py:521, 530): it is saved in the end, unless the saving failed. *)
RejectedIsSaved ==
  []<>((ram.invalid \subseteq db.invalid /\ ram.bad \subseteq db.bad) \/ faults > 0)

(* Every call ends, whatever the providers answer (router.py:387, 479).    *)
EveryCallEnds == \A c \in Calls : []<>~Running(c)
=============================================================================

--------------------------- MODULE AiRouterProofs ---------------------------
(***************************************************************************)
(* What holds of AiRouter for every list of providers, any number of calls *)
(* at the same time, and any number of answers, failures and restarts: the *)
(* types, and what the attempts of a pass may be (AttemptIsAllowed,        *)
(* BestGroupFirst, TriesBeforeFailing) and an exhausted key stays          *)
(* (ExhaustionHolds).                                                      *)
(***************************************************************************)
EXTENDS AiRouter, TLAPS, WellFoundedInduction

-----------------------------------------------------------------------------
(* Types *)

Outcomes == {"idle", "text", "blocked", "failed"}

\* _Run, between two steps or inside one
Runs ==
  [pc : Outcomes \cup {"calling", "sleeping"}, kind : Kinds, stage : {1, 2}, todo : SUBSET Index,
   entry : Index \cup {0}, ign : BOOLEAN, round : 0 .. MaxRounds, transient : BOOLEAN,
   blocked : Nat, failed : BOOLEAN, retries : 0 .. MaxRetries, light : BOOLEAN]

\* a call at an await
Stands(r) ==
  /\ r \in Runs
  /\ r.entry \notin r.todo
  /\ r.pc = "calling" => r.entry \in Index
  /\ r.pc = "sleeping" => r.round < MaxRounds
  /\ r.blocked <= MaxBlocked

RamTypes ==
  [invalid : SUBSET Keys, bad : SUBSET Pairs, exhausted : [Keys -> 0 .. Midnight],
   cooling : [Pairs -> 0 .. Cool], sticky : [Kinds -> Index \cup {0}]]

DbTypes == [invalid : SUBSET Keys, bad : SUBSET Pairs, exhausted : [Keys -> 0 .. Midnight]]

WriteTypes ==
  [what : {"bad"}, of : Pairs, until : 0 .. Midnight]
    \cup [what : {"invalid", "exhausted"}, of : Keys, until : 0 .. Midnight]

\* the types, and that every call stands at an await
TypeInv ==
  /\ ram \in RamTypes /\ db \in DbTypes /\ writes \subseteq WriteTypes
  /\ run \in [Calls -> Runs]
  /\ \A c \in Calls : Stands(run[c])
  /\ calls \in 0 .. MaxCalls /\ trouble \in 0 .. MaxTrouble
  /\ ticks \in Nat /\ faults \in Nat /\ ticks + faults <= MaxWorld

-----------------------------------------------------------------------------
(* The first of a list *)

Smaller == {pair \in Nat \X Nat : pair[1] < pair[2]}

\* a set of numbers has a least one
LEMMA LeastNumber ==
  ASSUME NEW S \in SUBSET Nat, S # {}
  PROVE  \E n \in S : \A m \in S : n <= m
<1>1. IsWellFoundedOn(Smaller, Nat)
  <2>1. Smaller = OpToRel(<, Nat)
    BY DEF OpToRel, Smaller
  <2> QED
    BY <2>1, NatLessThanWellFounded
<1>2. PICK n \in S : \A m \in S : ~(<<m, n>> \in Smaller)
  BY <1>1, WFMin
<1>3. \A m \in S : n \in Nat /\ m \in Nat /\ ~(m < n)
  BY <1>2 DEF Smaller
<1> QED
  BY <1>3

\* the first entry of a list that is not empty is one of the list, before all others
LEMMA LeastIsFirst ==
  ASSUME NEW list \in SUBSET Index, list # {}
  PROVE  Least(list) \in list /\ \A i \in list : Least(list) <= i
BY LeastNumber, AiRouterAssumption DEF Least

\* the pass begins with an entry of its list, and of the best group when it is the first stage's
LEMMA StickyIsListed ==
  ASSUME NEW s, NEW r, NEW list \in SUBSET Index, list # {}
  PROVE  /\ ApplySticky(s, r, list) \in list
         /\ \A i \in list : Entries[ApplySticky(s, r, list)].group <= Entries[i].group
<1>1. Least(list) \in Index /\ Least(list) \in list /\ \A i \in list : Least(list) <= i
  BY LeastIsFirst
<1>2. \A i \in list : Entries[Least(list)].group <= Entries[i].group
  BY <1>1, AiRouterAssumption
<1> QED
  BY <1>1, <1>2 DEF ApplySticky

-----------------------------------------------------------------------------
(* The walk *)

\* what a call tries may be tried, given the state s of the router
Allowed(s, r) == r.pc = "calling" => Available(s, r.entry, r.ign)

\* in the first stage nothing that may be tried is of a better group
Best(s, r) ==
  r.pc = "calling" /\ r.stage = 1 =>
    \A i \in Index :
      Fits(r, i) /\ Available(s, i, r.ign) => Entries[r.entry].group <= Entries[i].group

\* the bounds are numbers
LEMMA Bounds ==
  /\ MaxRetries \in Nat /\ MaxRounds \in Nat /\ MaxBlocked \in Nat
  /\ 0 \in 0 .. MaxRetries /\ 0 \in 0 .. MaxRounds
  /\ \A i \in Index : i \in Nat /\ i # 0
BY AiRouterAssumption

\* a call that has ended stands
LEMMA EndedStands ==
  ASSUME NEW o \in Outcomes
  PROVE  Stands(Ended(o)) /\ Ended(o).pc = o
<1>1. Idle \in Runs /\ Idle.todo = {} /\ Idle.blocked = 0
  BY Bounds DEF Idle, Runs, Outcomes, Kinds
<1> HIDE DEF Idle
<1> DEFINE r == Ended(o)
<1>2. r \in Runs /\ r.pc = o /\ r.todo = {} /\ r.blocked = 0
  BY <1>1 DEF Ended, Runs
<1> QED
  BY <1>2, Bounds DEF Stands, Outcomes

\* so does one without a text
LEMMA NoTextStands ==
  ASSUME NEW r
  PROVE  Stands(NoText(r)) /\ NoText(r).pc \in {"blocked", "failed"}
BY EndedStands DEF NoText, Outcomes

\* an attempt on entry i of a list that does not have i any more
LEMMA AttemptStands ==
  ASSUME NEW r \in Runs, NEW i \in Index, NEW rest \in SUBSET Index, i \notin rest,
         r.blocked <= MaxBlocked
  PROVE  /\ Stands(Attempt(r, i, rest))
         /\ Attempt(r, i, rest).pc = "calling" /\ Attempt(r, i, rest).entry = i
         /\ Attempt(r, i, rest).ign = r.ign /\ Attempt(r, i, rest).stage = r.stage
         /\ Attempt(r, i, rest).kind = r.kind
<1> DEFINE r2 == Attempt(r, i, rest)
<1>1. r2 \in Runs
  BY Bounds DEF Attempt, Runs
<1>2. /\ r2.pc = "calling" /\ r2.entry = i /\ r2.todo = rest /\ r2.ign = r.ign
      /\ r2.stage = r.stage /\ r2.kind = r.kind /\ r2.blocked = r.blocked
  BY DEF Attempt, Runs
<1> QED
  BY <1>1, <1>2 DEF Stands

\* a new list: all that may be tried, and if that is nothing the exhausted ones in the first round
LEMMA NewPassListed ==
  ASSUME NEW s, NEW r \in Runs
  PROVE  /\ NewPass(s, r) \in Runs
         /\ NewPass(s, r).todo = Candidates(s, r, NewPass(s, r).ign)
         /\ NewPass(s, r).stage = r.stage /\ NewPass(s, r).kind = r.kind
         /\ NewPass(s, r).blocked = r.blocked
         /\ r.round = 0 /\ NewPass(s, r).todo = {} => Candidates(s, r, TRUE) = {}
BY DEF NewPass, Candidates, Runs

\* the first attempt of a list made by a new pass
LEMMA FirstAttemptFacts ==
  ASSUME NEW s, NEW r \in Runs, r.blocked <= MaxBlocked, NewPass(s, r).todo # {}
  PROVE  LET r2 == FirstAttempt(s, NewPass(s, r)) IN
           Stands(r2) /\ r2.pc = "calling" /\ Allowed(s, r2) /\ Best(s, r2) /\ r2.stage = r.stage
<1> DEFINE r1 == NewPass(s, r)
           i == ApplySticky(s, r1, r1.todo)
<1>1. /\ r1 \in Runs /\ r1.todo = Candidates(s, r, r1.ign) /\ r1.stage = r.stage
      /\ r1.kind = r.kind /\ r1.blocked = r.blocked
  BY NewPassListed
<1>2. r1.todo \in SUBSET Index /\ r1.todo # {}
  BY <1>1 DEF Runs
<1>3. i \in r1.todo /\ \A j \in r1.todo : Entries[i].group <= Entries[j].group
  BY <1>2, StickyIsListed
<1>4. \A j \in Index : Fits(r, j) /\ Available(s, j, r1.ign) => j \in r1.todo
  BY <1>1 DEF Candidates
<1>5. Available(s, i, r1.ign)
  BY <1>1, <1>3 DEF Candidates
<1> DEFINE r2 == Attempt(r1, i, r1.todo \ {i})
<1>6. /\ Stands(r2) /\ r2.pc = "calling" /\ r2.entry = i /\ r2.ign = r1.ign
      /\ r2.stage = r.stage /\ r2.kind = r.kind
  BY <1>1, <1>2, <1>3, AttemptStands
<1>7. FirstAttempt(s, r1) = r2
  BY DEF FirstAttempt
<1>8. \A j : Fits(r2, j) = Fits(r, j)
  BY <1>6 DEF Fits
<1> QED
  BY <1>3, <1>4, <1>5, <1>6, <1>7, <1>8 DEF Allowed, Best

\* The end of a stage goes on with the second stage, where a text request and a second stage have
\* none.
LEMMA StageEndsFacts ==
  ASSUME NEW s, NEW r \in Runs, r.blocked <= MaxBlocked
  PROVE  LET r2 == StageEnds(s, r) IN
           /\ Stands(r2) /\ Allowed(s, r2) /\ Best(s, r2)
           /\ r2.pc \in {"calling", "blocked", "failed"}
           /\ r2.pc # "calling" /\ r.kind = "media" /\ r.stage = 1 =>
                Candidates(s, [r EXCEPT !.stage = 2, !.round = 0], TRUE) = {}
<1> DEFINE rs == [r EXCEPT !.stage = 2, !.round = 0]
<1>1. rs \in Runs /\ rs.round = 0 /\ rs.blocked = r.blocked
  BY Bounds DEF Runs
<1>2. NewPass(s, rs).todo = {} => Candidates(s, rs, TRUE) = {}
  BY <1>1, NewPassListed
<1>3. CASE r.kind = "media" /\ r.stage = 1 /\ NewPass(s, rs).todo # {}
  <2>1. StageEnds(s, r) = FirstAttempt(s, NewPass(s, rs))
    BY <1>3 DEF StageEnds
  <2> HIDE DEF rs
  <2> QED
    BY <1>1, <1>3, <2>1, FirstAttemptFacts
<1>4. CASE ~(r.kind = "media" /\ r.stage = 1 /\ NewPass(s, rs).todo # {})
  <2>1. StageEnds(s, r) = NoText(r)
    BY <1>4 DEF StageEnds
  <2> HIDE DEF rs
  <2>2. Allowed(s, NoText(r)) /\ Best(s, NoText(r))
    BY NoTextStands DEF Allowed, Best
  <2> QED
    BY <1>2, <1>4, <2>1, <2>2, NoTextStands DEF rs
<1> QED
  BY <1>3, <1>4

\* a pass begins with an attempt, or ends the stage with nothing to try
LEMMA BeginPassFacts ==
  ASSUME NEW s, NEW r \in Runs, r.blocked <= MaxBlocked
  PROVE  LET r2 == BeginPass(s, r) IN
           /\ Stands(r2) /\ Allowed(s, r2) /\ Best(s, r2)
           /\ r2.pc \in {"calling", "blocked", "failed"}
           /\ r2.pc # "calling" /\ r.round = 0 => Candidates(s, r, TRUE) = {}
           /\ r2.pc # "calling" /\ r.kind = "media" /\ r.stage = 1 =>
                Candidates(s, [r EXCEPT !.stage = 2, !.round = 0], TRUE) = {}
<1>1. CASE NewPass(s, r).todo = {}
  BY <1>1, NewPassListed, StageEndsFacts DEF BeginPass
<1>2. CASE NewPass(s, r).todo # {}
  BY <1>2, FirstAttemptFacts DEF BeginPass
<1> QED
  BY <1>1, <1>2

\* the rest of a pass attempts what may be tried, sleeps, or ends the stage
LEMMA MoveOnFacts ==
  ASSUME NEW s, NEW r \in Runs, r.entry \notin r.todo, r.blocked <= MaxBlocked + 1
  PROVE  LET r2 == MoveOn(s, r) IN Stands(r2) /\ Allowed(s, r2)
<1> DEFINE open == {i \in r.todo : Available(s, i, r.ign)}
           next == Least(open)
<1>0. r.blocked \in Nat /\ MaxBlocked \in Nat
  BY Bounds DEF Runs
<1>1. CASE r.blocked >= MaxBlocked
  <2>1. MoveOn(s, r) = Ended("blocked")
    BY <1>1 DEF MoveOn
  <2> QED
    BY <2>1, EndedStands DEF Outcomes, Allowed
<1>2. CASE r.blocked < MaxBlocked /\ open # {}
  <2>1. MoveOn(s, r) = Attempt(r, next, {i \in r.todo : i > next})
    BY <1>0, <1>2 DEF MoveOn
  <2>2. next \in open /\ open \in SUBSET Index
    BY <1>2, LeastIsFirst DEF Runs
  <2>3. next \in Index /\ Available(s, next, r.ign) /\ {i \in r.todo : i > next} \in SUBSET Index
    BY <2>2 DEF Runs
  <2> HIDE DEF next
  <2>4. next \notin {i \in r.todo : i > next}
    BY <2>3, Bounds
  <2>5. r.blocked <= MaxBlocked
    BY <1>0, <1>2
  <2> QED
    BY <2>1, <2>3, <2>4, <2>5, AttemptStands DEF Allowed
<1>3. CASE r.blocked < MaxBlocked /\ open = {}
  <2>0. ~(r.blocked >= MaxBlocked) /\ ~(open # {})
    BY <1>0, <1>3
  <2>1. MoveOn(s, r) = EndOfPass(s, r)
    BY <2>0 DEF MoveOn
  <2>2. r.blocked <= MaxBlocked
    BY <1>0, <1>3
  <2>3. CASE r.ign \/ ~r.transient \/ r.round >= MaxRounds
    BY <2>1, <2>2, <2>3, StageEndsFacts DEF EndOfPass
  <2>4. CASE ~(r.ign \/ ~r.transient \/ r.round >= MaxRounds)
    <3> DEFINE r2 == MoveOn(s, r)
    <3>1. r2 = [r EXCEPT !.pc = "sleeping", !.todo = {}, !.entry = 0]
      BY <2>1, <2>4 DEF EndOfPass
    <3> HIDE DEF r2
    <3>2. r2 \in Runs
      BY <3>1 DEF Runs
    <3>3. r2.pc = "sleeping" /\ r2.todo = {} /\ r2.round = r.round /\ r2.blocked = r.blocked
      BY <3>1 DEF Runs
    <3>4. r.round < MaxRounds
      BY <2>4, Bounds DEF Runs
    <3> USE DEF r2
    <3> QED
      BY <2>2, <3>2, <3>3, <3>4 DEF Stands, Allowed
  <2> QED
    BY <2>3, <2>4
<1> QED
  BY <1>0, <1>1, <1>2, <1>3

-----------------------------------------------------------------------------
(* Type correctness *)

RunTyped == run \in [Calls -> Runs] /\ \A c \in Calls : Stands(run[c])

\* a step of one call leaves the others as they are
LEMMA OneCallMoves ==
  ASSUME RunTyped, NEW c \in Calls, NEW r, Stands(r), run' = [run EXCEPT ![c] = r]
  PROVE  RunTyped' /\ run'[c] = r /\ \A d \in Calls : d # c => run'[d] = run[d]
BY DEF RunTyped, Stands

\* the key and the pair a call has its answer from
LEMMA AnswerIsListed ==
  ASSUME RunTyped, NEW c \in Calls, Calling(c)
  PROVE  KeyOf(c) \in Keys /\ PairOf(c) \in Pairs
BY DEF RunTyped, Stands, Calling, KeyOf, PairOf, Keys, Pairs

\* the call as it is once a failure is noted still is between its list and its entry
LEMMA FailedTyped ==
  ASSUME RunTyped, NEW c \in Calls
  PROVE  LET r == Failed(c) IN
           /\ r \in Runs /\ r.entry \notin r.todo /\ r.blocked <= MaxBlocked + 1
           /\ [r EXCEPT !.transient = TRUE] \in Runs
           /\ [r EXCEPT !.transient = TRUE].entry \notin [r EXCEPT !.transient = TRUE].todo
           /\ [r EXCEPT !.transient = TRUE].blocked <= MaxBlocked + 1
<1> DEFINE q == run[c]
<1>1. q \in Runs /\ q.entry \notin q.todo /\ q.blocked <= MaxBlocked + 1
  BY Bounds DEF RunTyped, Stands, Runs
<1> QED
  BY <1>1 DEF Failed, Runs

\* a call goes on, or gives up
LEMMA GoOnFacts ==
  ASSUME RunTyped, NEW c \in Calls, NEW s, NEW r \in Runs, r.entry \notin r.todo,
         r.blocked <= MaxBlocked + 1, GoOn(c, s, r)
  PROVE  /\ RunTyped' /\ Allowed(s, run'[c])
         /\ \A d \in Calls : d # c => run'[d] = run[d]
<1>1. CASE run' = [run EXCEPT ![c] = MoveOn(s, r)]
  BY <1>1, MoveOnFacts, OneCallMoves
<1>2. CASE Late(c, r)
  <2>1. run' = [run EXCEPT ![c] = NoText(r)]
    BY <1>2 DEF Late
  <2> QED
    BY <2>1, NoTextStands, OneCallMoves DEF Allowed
<1> QED
  BY <1>1, <1>2 DEF GoOn

\* a call that only tries its pair again, or gives up
LEMMA RetryFacts ==
  ASSUME RunTyped, NEW c \in Calls, Calling(c), NEW r, Stands(r),
         run' = [run EXCEPT ![c] = r] \/ Late(c, run[c]),
         r.retries > 0 \/ r.light
  PROVE  /\ RunTyped' /\ ~Begins(c)
         /\ \A d \in Calls : d # c => run'[d] = run[d]
<1>1. CASE run' = [run EXCEPT ![c] = r]
  <2>1. r.retries # 0 \/ r.light
    OBVIOUS
  <2> QED
    BY <1>1, <2>1, OneCallMoves DEF Begins
<1>2. CASE Late(c, run[c])
  <2>1. run' = [run EXCEPT ![c] = NoText(run[c])]
    BY <1>2 DEF Late
  <2> QED
    BY <2>1, NoTextStands, OneCallMoves DEF Begins
<1> QED
  BY <1>1, <1>2

\* a key or a pair exhausted for a time within the day
LEMMA ExhaustTyped ==
  ASSUME NEW s \in RamTypes, NEW k \in Keys, NEW until \in 0 .. Midnight
  PROVE  /\ Exhaust(s, k, until) \in RamTypes
         /\ \A j \in Keys : Exhaust(s, k, until).exhausted[j] >= s.exhausted[j]
BY AiRouterAssumption DEF Exhaust, RamTypes

\* the saving of a key's state is one of the writes
LEMMA SavingTyped ==
  ASSUME writes \subseteq WriteTypes, NEW s \in RamTypes, NEW k \in Keys
  PROVE  Saving(s, k) \subseteq WriteTypes
<1>1. s.exhausted[k] \in 0 .. Midnight
  BY DEF RamTypes
<1>2. SaveExhausted(k, s.exhausted[k]) \in WriteTypes
  BY <1>1 DEF SaveExhausted, WriteTypes
<1> QED
  BY <1>2 DEF Saving

\* What an answer does: it keeps the types, moves its own call only, goes on with what may be
\* tried, and ends the exhaustion of its own key only, and only with a text.
Answered(c) ==
  /\ RunTyped' /\ ram' \in RamTypes /\ writes' \subseteq WriteTypes /\ trouble' \in 0 .. MaxTrouble
  /\ UNCHANGED <<db, calls, ticks, faults>>
  /\ \A d \in Calls : d # c => run'[d] = run[d]
  /\ Begins(c) => Available(ram', run'[c].entry, run'[c].ign)
  /\ \A k \in Keys :
       ram'.exhausted[k] < ram.exhausted[k] => KeyOf(c) = k /\ run'[c].pc = "text"

\* an answer after which the call goes on, given what it does to the router
LEMMA GoOnAnswered ==
  ASSUME TypeInv, NEW c \in Calls, NEW r \in Runs, r.entry \notin r.todo,
         r.blocked <= MaxBlocked + 1, GoOn(c, ram', r),
         ram' \in RamTypes, \A k \in Keys : ram'.exhausted[k] >= ram.exhausted[k],
         writes' \subseteq WriteTypes, Trouble \/ trouble' = trouble,
         UNCHANGED <<db, calls, ticks, faults>>
  PROVE  Answered(c)
<1>1. RunTyped
  BY DEF TypeInv, RunTyped
<1>2. /\ RunTyped' /\ Allowed(ram', run'[c])
      /\ \A d \in Calls : d # c => run'[d] = run[d]
  BY <1>1, GoOnFacts
<1>3. Begins(c) => Available(ram', run'[c].entry, run'[c].ign)
  BY <1>2 DEF Begins, Allowed
<1>4. trouble' \in 0 .. MaxTrouble
  BY AiRouterAssumption DEF Trouble, TypeInv
<1>5. \A k \in Keys : ~(ram'.exhausted[k] < ram.exhausted[k])
  BY AiRouterAssumption DEF TypeInv, RamTypes
<1> QED
  BY <1>2, <1>3, <1>4, <1>5 DEF Answered

\* an answer after which the call tries its pair again
LEMMA RetryAnswered ==
  ASSUME TypeInv, NEW c \in Calls, Calling(c), NEW r, Stands(r),
         run' = [run EXCEPT ![c] = r] \/ Late(c, run[c]),
         r.retries > 0 \/ r.light, UNCHANGED <<ram, db, writes, bounds>>
  PROVE  Answered(c)
<1>1. RunTyped
  BY DEF TypeInv, RunTyped
<1>2. \A k \in Keys : ~(ram'.exhausted[k] < ram.exhausted[k])
  BY AiRouterAssumption DEF TypeInv, RamTypes
<1> QED
  BY <1>1, <1>2, RetryFacts DEF Answered, TypeInv, bounds

\* every answer does no more
LEMMA AnswerFacts ==
  ASSUME TypeInv, NEW c \in Calls, Answer(c)
  PROVE  Answered(c)
<1> DEFINE k == KeyOf(c)
           f == Failed(c)
           cold == [ram EXCEPT !.cooling[PairOf(c)] = Cool]
<1>0. RunTyped /\ ram \in RamTypes /\ writes \subseteq WriteTypes
  BY DEF TypeInv, RunTyped
<1>1. k \in Keys /\ PairOf(c) \in Pairs /\ Calling(c)
  BY <1>0, AnswerIsListed
     DEF Answer, Success, BadJson, QuotaHit, DailyQuotaHit, NotSupported, KeyRejected, TooLarge,
         Blocked, AttemptFails
<1>2. /\ f \in Runs /\ f.entry \notin f.todo /\ f.blocked <= MaxBlocked + 1
      /\ [f EXCEPT !.transient = TRUE] \in Runs
      /\ [f EXCEPT !.transient = TRUE].entry \notin [f EXCEPT !.transient = TRUE].todo
      /\ [f EXCEPT !.transient = TRUE].blocked <= MaxBlocked + 1
  BY <1>0, FailedTyped
<1>3. cold \in RamTypes /\ cold.exhausted = ram.exhausted
  BY <1>0, <1>1, AiRouterAssumption DEF RamTypes
<1>4. \A j \in Keys : ram.exhausted[j] \in 0 .. Midnight /\ ram.exhausted[j] >= ram.exhausted[j]
  BY <1>0, AiRouterAssumption DEF RamTypes
<1>5. run[c] \in Runs /\ run[c].entry \in Index /\ run[c].entry \notin run[c].todo
      /\ run[c].blocked <= MaxBlocked
  BY <1>0, <1>1 DEF RunTyped, Stands, Calling
<1>a. ASSUME Success(c) PROVE Answered(c)
  <2> DEFINE last == IF run[c].stage = 1 THEN [ram.sticky EXCEPT ![run[c].kind] = run[c].entry]
                                         ELSE ram.sticky
  <2>1. ram' = [ram EXCEPT !.cooling[PairOf(c)] = 0, !.exhausted[k] = 0, !.sticky = last]
    BY <1>a DEF Success
  <2>b. last \in [Kinds -> Index \cup {0}]
    BY <1>0, <1>5 DEF RamTypes, Runs
  <2>c. 0 \in 0 .. Midnight /\ 0 \in 0 .. Cool
    BY AiRouterAssumption
  <2> HIDE DEF k, last
  <2>2. ram' \in RamTypes
    BY <1>0, <1>1, <2>1, <2>b, <2>c DEF RamTypes
  <2>3. \A j \in Keys : j # k => ram'.exhausted[j] = ram.exhausted[j]
    BY <1>0, <1>1, <2>1 DEF RamTypes
  <2>4. writes' \subseteq WriteTypes
    BY <1>a, <1>0, <1>1, <2>2, SavingTyped DEF Success, k
  <2>5. run' = [run EXCEPT ![c] = Ended("text")]
    BY <1>a DEF Success
  <2>6. RunTyped' /\ run'[c].pc = "text" /\ \A d \in Calls : d # c => run'[d] = run[d]
    BY <1>0, <2>5, EndedStands, OneCallMoves DEF Outcomes
  <2>7. \A j \in Keys : ram'.exhausted[j] < ram.exhausted[j] => k = j
    BY <1>4, <2>3, AiRouterAssumption
  <2> QED
    BY <1>a, <2>2, <2>4, <2>6, <2>7 DEF Answered, Begins, Success, bounds, TypeInv, k
<1>b. ASSUME BadJson(c) PROVE Answered(c)
  <2>1. UNCHANGED <<ram, db, writes, bounds>>
    BY <1>b DEF BadJson
  <2>2. CASE run[c].retries >= MaxRetries
    <3>1. GoOn(c, ram', f)
      BY <1>b, <2>1, <2>2 DEF BadJson
    <3> QED
      BY <1>0, <1>2, <1>4, <2>1, <3>1, GoOnAnswered DEF bounds
  <2>3. CASE ~(run[c].retries >= MaxRetries)
    <3> DEFINE r == [run[c] EXCEPT !.retries = @ + 1]
    <3>1. run' = [run EXCEPT ![c] = r] \/ Late(c, run[c])
      BY <1>b, <2>3 DEF BadJson
    <3>2. r \in Runs /\ r.retries > 0
      BY <1>5, <2>3, Bounds DEF Runs
    <3>3. r.pc = run[c].pc /\ r.entry = run[c].entry /\ r.todo = run[c].todo
          /\ r.blocked = run[c].blocked
      BY <1>5 DEF Runs
    <3>4. Stands(r)
      BY <1>1, <1>5, <3>2, <3>3 DEF Stands, Calling
    <3> QED
      BY <1>1, <2>1, <3>1, <3>2, <3>4, RetryAnswered
  <2> QED
    BY <2>2, <2>3
<1>c. ASSUME QuotaHit(c) PROVE Answered(c)
  <2>1. ram' = IF AllCooling(cold, k) THEN Exhaust(cold, k, Short) ELSE cold
    BY <1>c DEF QuotaHit
  <2>2. Short \in 0 .. Midnight
    BY AiRouterAssumption
  <2>3. ram' \in RamTypes /\ \A j \in Keys : ram'.exhausted[j] >= ram.exhausted[j]
    <3> HIDE DEF cold, k
    <3> QED
      BY <1>1, <1>3, <1>4, <2>1, <2>2, ExhaustTyped
  <2>4. writes' \subseteq WriteTypes
    BY <1>c, <1>0, <1>1, <2>3, SavingTyped DEF QuotaHit
  <2> QED
    BY <1>c, <1>2, <2>3, <2>4, GoOnAnswered DEF QuotaHit
<1>d. ASSUME DailyQuotaHit(c) PROVE Answered(c)
  <2>1. ram' = Exhaust(cold, k, Midnight - ticks)
    BY <1>d DEF DailyQuotaHit
  <2>2. Midnight - ticks \in 0 .. Midnight
    BY AiRouterAssumption DEF TypeInv
  <2>3. ram' \in RamTypes /\ \A j \in Keys : ram'.exhausted[j] >= ram.exhausted[j]
    <3> HIDE DEF cold, k
    <3> QED
      BY <1>1, <1>3, <1>4, <2>1, <2>2, ExhaustTyped
  <2>4. writes' \subseteq WriteTypes
    BY <1>d, <1>0, <1>1, <2>3, SavingTyped DEF DailyQuotaHit
  <2> QED
    BY <1>d, <1>2, <2>3, <2>4, GoOnAnswered DEF DailyQuotaHit
<1>e. ASSUME NotSupported(c) PROVE Answered(c)
  <2>1. ram' \in RamTypes /\ ram'.exhausted = ram.exhausted
    BY <1>e, <1>0, <1>1 DEF NotSupported, RamTypes
  <2>2. writes' \subseteq WriteTypes
    BY <1>e, <1>0, <1>1, AiRouterAssumption DEF NotSupported, SaveBad, WriteTypes
  <2> QED
    BY <1>e, <1>2, <1>4, <2>1, <2>2, GoOnAnswered DEF NotSupported
<1>f. ASSUME KeyRejected(c) PROVE Answered(c)
  <2>1. ram' \in RamTypes /\ ram'.exhausted = ram.exhausted
    BY <1>f, <1>0, <1>1 DEF KeyRejected, RamTypes
  <2>2. writes' \subseteq WriteTypes
    BY <1>f, <1>0, <1>1, AiRouterAssumption DEF KeyRejected, SaveInvalid, WriteTypes
  <2> QED
    BY <1>f, <1>2, <1>4, <2>1, <2>2, GoOnAnswered DEF KeyRejected
<1>g. ASSUME TooLarge(c) PROVE Answered(c)
  <2>1. UNCHANGED <<ram, db, writes, bounds>>
    BY <1>g DEF TooLarge
  <2>2. CASE run[c].kind = "text" \/ run[c].light
    <3>1. GoOn(c, ram', f)
      BY <1>g, <2>1, <2>2 DEF TooLarge
    <3> QED
      BY <1>0, <1>2, <1>4, <2>1, <3>1, GoOnAnswered DEF bounds
  <2>3. CASE ~(run[c].kind = "text" \/ run[c].light)
    <3> DEFINE r == [run[c] EXCEPT !.light = TRUE]
    <3>1. run' = [run EXCEPT ![c] = r] \/ Late(c, run[c])
      BY <1>g, <2>3 DEF TooLarge
    <3>2. r \in Runs /\ r.light
      BY <1>5 DEF Runs
    <3>3. r.pc = run[c].pc /\ r.entry = run[c].entry /\ r.todo = run[c].todo
          /\ r.blocked = run[c].blocked
      BY <1>5 DEF Runs
    <3>4. Stands(r)
      BY <1>1, <1>5, <3>2, <3>3 DEF Stands, Calling
    <3> QED
      BY <1>1, <2>1, <3>1, <3>2, <3>4, RetryAnswered
  <2> QED
    BY <2>2, <2>3
<1>h. ASSUME Blocked(c) PROVE Answered(c)
  <2> DEFINE r == [run[c] EXCEPT !.blocked = @ + 1]
  <2>1. r \in Runs /\ r.entry \notin r.todo /\ r.blocked <= MaxBlocked + 1
    BY <1>5, Bounds DEF Runs
  <2>2. GoOn(c, ram', r) /\ UNCHANGED <<ram, db, writes, bounds>>
    BY <1>h DEF Blocked
  <2> QED
    BY <1>0, <1>4, <2>1, <2>2, GoOnAnswered DEF bounds
<1>i. ASSUME AttemptFails(c) PROVE Answered(c)
  <2>1. UNCHANGED <<ram, db, writes, bounds>>
    BY <1>i DEF AttemptFails
  <2>2. GoOn(c, ram', f) \/ GoOn(c, ram', [f EXCEPT !.transient = TRUE])
    BY <1>i, <2>1 DEF AttemptFails
  <2> HIDE DEF f
  <2> QED
    BY <1>0, <1>2, <1>4, <2>1, <2>2, GoOnAnswered DEF bounds
<1> QED
  BY <1>a, <1>b, <1>c, <1>d, <1>e, <1>f, <1>g, <1>h, <1>i DEF Answer

\* the call that generate_json begins with, and one that wakes up
LEMMA BeginsTyped ==
  ASSUME RunTyped, NEW c \in Calls
  PROVE  /\ LET r == [Idle EXCEPT !.kind = Kind(c)] IN
              /\ r \in Runs /\ r.blocked <= MaxBlocked /\ r.round = 0 /\ r.stage = 1
              /\ r.kind = Kind(c)
         /\ run[c].pc = "sleeping" =>
              LET r == [run[c] EXCEPT !.round = @ + 1] IN
                r \in Runs /\ r.blocked <= MaxBlocked
<1>1. /\ Idle \in Runs /\ Idle.blocked = 0 /\ Idle.round = 0 /\ Idle.stage = 1
  BY Bounds DEF Idle, Runs, Outcomes, Kinds
<1>2. Kind(c) \in Kinds
  BY DEF Kind, Kinds
<1>3. run[c] \in Runs /\ run[c].blocked <= MaxBlocked
      /\ (run[c].pc = "sleeping" => run[c].round < MaxRounds)
  BY DEF RunTyped, Stands
<1> HIDE DEF Idle
<1>4. LET r == [Idle EXCEPT !.kind = Kind(c)] IN
        /\ r \in Runs /\ r.blocked <= MaxBlocked /\ r.round = 0 /\ r.stage = 1
        /\ r.kind = Kind(c)
  BY <1>1, <1>2, Bounds DEF Runs
<1>5. ASSUME run[c].pc = "sleeping"
      PROVE  LET r == [run[c] EXCEPT !.round = @ + 1] IN r \in Runs /\ r.blocked <= MaxBlocked
  BY <1>3, <1>5, Bounds DEF Runs
<1> QED
  BY <1>4, <1>5

\* A call begins a pass, when it starts and when it wakes up.
Passes(c) ==
  /\ RunTyped' /\ UNCHANGED <<ram, db, writes, trouble, ticks, faults>>
  /\ calls' \in 0 .. MaxCalls
  /\ \A d \in Calls : d # c => run'[d] = run[d]
  /\ Allowed(ram', run'[c]) /\ Best(ram', run'[c])

\* what it begins with
LEMMA PassFacts ==
  ASSUME TypeInv, NEW c \in Calls, Start(c) \/ Wake(c)
  PROVE  Passes(c)
<1>0. RunTyped
  BY DEF TypeInv, RunTyped
<1>1. CASE Start(c)
  <2> DEFINE r == [Idle EXCEPT !.kind = Kind(c)]
  <2>1. r \in Runs /\ r.blocked <= MaxBlocked
    BY <1>0, BeginsTyped
  <2>2. run' = [run EXCEPT ![c] = BeginPass(ram, r)]
    BY <1>1 DEF Start
  <2> HIDE DEF r
  <2>3. /\ Stands(BeginPass(ram, r)) /\ Allowed(ram, BeginPass(ram, r))
        /\ Best(ram, BeginPass(ram, r))
    BY <2>1, BeginPassFacts
  <2>4. UNCHANGED <<ram, db, writes, trouble, ticks, faults>>
    BY <1>1 DEF Start
  <2>5. calls' \in 0 .. MaxCalls
    BY <1>1, AiRouterAssumption DEF Start, TypeInv
  <2> DEFINE r2 == BeginPass(ram, r)
  <2> HIDE DEF r2
  <2>6. /\ RunTyped' /\ run'[c] = r2
        /\ \A d \in Calls : d # c => run'[d] = run[d]
    BY <1>0, <2>2, <2>3, OneCallMoves DEF r2
  <2>7. Allowed(ram', run'[c]) /\ Best(ram', run'[c])
    BY <2>3, <2>4, <2>6 DEF r2
  <2> QED
    BY <2>4, <2>5, <2>6, <2>7 DEF Passes
<1>2. CASE Wake(c)
  <2>1. UNCHANGED <<ram, db, writes, trouble, ticks, faults>> /\ calls' \in 0 .. MaxCalls
    BY <1>2 DEF Wake, bounds, TypeInv
  <2> DEFINE r == [run[c] EXCEPT !.round = @ + 1]
  <2>2. r \in Runs /\ r.blocked <= MaxBlocked
    BY <1>0, <1>2, BeginsTyped DEF Wake
  <2>3. CASE run' = [run EXCEPT ![c] = BeginPass(ram, r)]
    <3> HIDE DEF r
    <3>1. /\ Stands(BeginPass(ram, r)) /\ Allowed(ram, BeginPass(ram, r))
          /\ Best(ram, BeginPass(ram, r))
      BY <2>2, BeginPassFacts
    <3> QED
      BY <1>0, <2>1, <2>3, <3>1, OneCallMoves DEF Passes
  <2>4. CASE Late(c, run[c])
    <3>1. run' = [run EXCEPT ![c] = NoText(run[c])]
      BY <2>4 DEF Late
    <3> QED
      BY <1>0, <2>1, <3>1, NoTextStands, OneCallMoves DEF Passes, Allowed, Best
  <2> QED
    BY <1>2, <2>3, <2>4 DEF Wake
<1> QED
  BY <1>1, <1>2

\* what a restart leaves, whichever of the tables could be read
LEMMA RestartFacts ==
  ASSUME Restart
  PROVE  /\ ticks + faults < MaxWorld /\ faults' = faults + 1
         /\ run' = [c \in Calls |-> Idle] /\ writes' = {}
         /\ db' = db /\ calls' = calls /\ trouble' = trouble /\ ticks' = ticks
BY DEF Restart, Fault

\* saving, time and restarts keep the types
LEMMA RestTyped ==
  ASSUME TypeInv, (\E w \in writes : Save(w) \/ SaveFails(w)) \/ Tick \/ Restart
  PROVE  TypeInv'
<1>0. /\ ram \in RamTypes /\ db \in DbTypes /\ writes \subseteq WriteTypes /\ RunTyped
      /\ calls \in 0 .. MaxCalls /\ trouble \in 0 .. MaxTrouble
      /\ ticks \in Nat /\ faults \in Nat /\ ticks + faults <= MaxWorld
  BY DEF TypeInv, RunTyped
<1>1. ASSUME NEW w \in writes, Save(w) PROVE TypeInv'
  <2>1. w \in WriteTypes
    BY <1>0
  <2>2. CASE w.what = "bad"
    <3>1. w.of \in Pairs /\ db' = [db EXCEPT !.bad = @ \cup {w.of}]
      BY <1>1, <2>1, <2>2 DEF Save, WriteTypes
    <3>2. db' \in DbTypes
      BY <1>0, <3>1 DEF DbTypes
    <3> QED
      BY <1>0, <1>1, <3>2 DEF Save, TypeInv, RunTyped, bounds, Stands
  <2>3. CASE w.what = "invalid"
    <3>1. w.of \in Keys /\ db' = [db EXCEPT !.invalid = @ \cup {w.of}]
      BY <1>1, <2>1, <2>3 DEF Save, WriteTypes
    <3>2. db' \in DbTypes
      BY <1>0, <3>1 DEF DbTypes
    <3> QED
      BY <1>0, <1>1, <3>2 DEF Save, TypeInv, RunTyped, bounds, Stands
  <2>4. CASE w.what = "exhausted"
    <3>1. w.of \in Keys /\ w.until \in 0 .. Midnight
          /\ db' = [db EXCEPT !.exhausted[w.of] = w.until]
      BY <1>1, <2>1, <2>4 DEF Save, WriteTypes
    <3>2. db' \in DbTypes
      BY <1>0, <3>1 DEF DbTypes
    <3> QED
      BY <1>0, <1>1, <3>2 DEF Save, TypeInv, RunTyped, bounds, Stands
  <2> QED
    BY <2>1, <2>2, <2>3, <2>4 DEF WriteTypes
<1>2. ASSUME NEW w \in writes, SaveFails(w) PROVE TypeInv'
  BY <1>0, <1>2, AiRouterAssumption DEF SaveFails, Fault, TypeInv, RunTyped, Stands
<1>3. ASSUME Tick PROVE TypeInv'
  <2>1. \A n \in 0 .. Midnight : Less(n) \in 0 .. Midnight
    BY AiRouterAssumption DEF Less
  <2>2. \A n \in 0 .. Cool : Less(n) \in 0 .. Cool
    BY AiRouterAssumption DEF Less
  <2>3. ram' \in RamTypes
    <3> DEFINE ex == [k \in Keys |-> Less(ram.exhausted[k])]
               co == [p \in Pairs |-> Less(ram.cooling[p])]
    <3>1. ex \in [Keys -> 0 .. Midnight] /\ co \in [Pairs -> 0 .. Cool]
      BY <1>0, <2>1, <2>2 DEF RamTypes
    <3>2. ram' = [ram EXCEPT !.exhausted = ex, !.cooling = co]
      BY <1>3 DEF Tick
    <3> HIDE DEF ex, co
    <3> QED
      BY <1>0, <3>1, <3>2 DEF RamTypes
  <2>4. db' \in DbTypes
    BY <1>0, <1>3, <2>1 DEF Tick, DbTypes
  <2>5. \A w \in WriteTypes : [w EXCEPT !.until = Less(@)] \in WriteTypes
    BY <2>1 DEF WriteTypes
  <2>6. writes' \subseteq WriteTypes
    BY <1>0, <1>3, <2>5 DEF Tick
  <2> QED
    BY <1>0, <1>3, <2>3, <2>4, <2>6, AiRouterAssumption DEF Tick, TypeInv, RunTyped, Stands
<1>4. ASSUME Restart PROVE TypeInv'
  <2>1. ram' \in RamTypes
    <3> DEFINE none == [k \in Keys |-> 0]
               cool == [p \in Pairs |-> 0]
               last == [k \in Kinds |-> 0]
    <3>1. /\ none \in [Keys -> 0 .. Midnight] /\ cool \in [Pairs -> 0 .. Cool]
          /\ last \in [Kinds -> Index \cup {0}]
      BY AiRouterAssumption
    <3>2. PICK keys \in BOOLEAN, pairs \in BOOLEAN :
            ram' = [ram EXCEPT !.invalid = IF keys THEN db.invalid ELSE {},
                               !.exhausted = IF keys THEN db.exhausted ELSE none,
                               !.bad = IF pairs THEN db.bad ELSE {},
                               !.cooling = cool, !.sticky = last]
      BY <1>4 DEF Restart
    <3> HIDE DEF none, cool, last
    <3>3. /\ (IF keys THEN db.invalid ELSE {}) \in SUBSET Keys
          /\ (IF keys THEN db.exhausted ELSE none) \in [Keys -> 0 .. Midnight]
          /\ (IF pairs THEN db.bad ELSE {}) \in SUBSET Pairs
      BY <1>0, <3>1 DEF DbTypes
    <3> QED
      BY <1>0, <3>1, <3>2, <3>3 DEF RamTypes
  <2>2. Stands(Idle) /\ Idle \in Runs
    BY Bounds DEF Idle, Stands, Runs, Outcomes, Kinds
  <2> QED
    BY <1>0, <1>4, <2>1, <2>2, RestartFacts, AiRouterAssumption DEF TypeInv
<1> QED
  BY <1>1, <1>2, <1>3, <1>4

\* every step keeps the types
LEMMA TypeStep ==
  ASSUME TypeInv, [Next]_vars
  PROVE  TypeInv'
<1>1. ASSUME NEW c \in Calls, Start(c) \/ Wake(c) PROVE TypeInv'
  BY <1>1, PassFacts DEF Passes, TypeInv, RunTyped
<1>2. ASSUME NEW c \in Calls, Answer(c) PROVE TypeInv'
  BY <1>2, AnswerFacts DEF Answered, TypeInv, RunTyped
<1>3. CASE UNCHANGED vars
  BY <1>3 DEF vars, bounds, TypeInv, Stands
<1> QED
  BY <1>1, <1>2, <1>3, RestTyped DEF Next

(* The state of the router keeps its types, and every call that runs stands *)
(* at an attempt on an entry that its list has no more, or sleeps with a    *)
(* round left, within the bounds on blocked answers.                        *)
THEOREM TypeInvCorrect == Spec => []TypeInv
<1>1. Init => TypeInv
  <2> SUFFICES ASSUME Init PROVE TypeInv
    OBVIOUS
  <2>1. Stands(Idle) /\ Idle \in Runs
    BY Bounds DEF Idle, Stands, Runs, Outcomes, Kinds
  <2>2. ram \in RamTypes /\ db \in DbTypes
    BY AiRouterAssumption DEF Init, RamTypes, DbTypes
  <2> QED
    BY <2>1, <2>2, AiRouterAssumption DEF Init, TypeInv
<1> QED
  BY <1>1, TypeStep, PTL DEF Spec

\* the types the model states
THEOREM TypeCorrect == Spec => []TypeOK
<1>1. TypeInv => TypeOK
  <2> SUFFICES ASSUME TypeInv PROVE TypeOK
    OBVIOUS
  <2>1. \A w \in writes : w.what \in {"bad", "invalid", "exhausted"} /\ w.until \in 0 .. Midnight
    BY DEF TypeInv, WriteTypes
  <2>2. ASSUME NEW c \in Calls PROVE RunOK(run[c])
    <3>1. run[c] \in Runs /\ Stands(run[c])
      BY DEF TypeInv
    <3> QED
      BY <3>1, Bounds DEF RunOK, Runs, Stands, Outcomes
  <2> QED
    BY <2>1, <2>2 DEF TypeOK, TypeInv, RamTypes, DbTypes
<1> QED
  BY <1>1, TypeInvCorrect, PTL

-----------------------------------------------------------------------------
(* Action properties *)

\* a step that is neither an answer nor the beginning of a pass begins no attempt
LEMMA RestBeginsNothing ==
  ASSUME TypeInv, NEW c \in Calls, Begins(c), Next
  PROVE  Answer(c) \/ Start(c) \/ Wake(c)
<1>1. ASSUME NEW d \in Calls, d # c, Start(d) \/ Wake(d) PROVE FALSE
  BY <1>1, PassFacts DEF Passes, Begins
<1>2. ASSUME NEW d \in Calls, d # c, Answer(d) PROVE FALSE
  BY <1>2, AnswerFacts DEF Answered, Begins
<1>3. ~(\E w \in writes : Save(w) \/ SaveFails(w)) /\ ~Tick
  BY DEF Save, SaveFails, Tick, Begins
<1>4. ~Restart
  BY RestartFacts DEF Begins, Idle
<1> QED
  BY <1>1, <1>2, <1>3, <1>4 DEF Next

(* No call begins an attempt on a pair that another call has found         *)
(* unsupported, rejected, exhausted or rate limited since its list was     *)
(* made: the list of a pass is looked over again before each attempt.      *)
THEOREM AttemptsAllowed == Spec => AttemptIsAllowed
<1>1. ASSUME TypeInv, [Next]_vars, NEW c \in Calls, Begins(c)
      PROVE  Available(ram', run'[c].entry, run'[c].ign)
  <2>1. Next
    BY <1>1 DEF vars, Begins
  <2>2. CASE Answer(c)
    BY <1>1, <2>2, AnswerFacts DEF Answered
  <2>3. CASE Start(c) \/ Wake(c)
    BY <1>1, <2>3, PassFacts DEF Passes, Allowed, Begins
  <2> QED
    BY <1>1, <2>1, <2>2, <2>3, RestBeginsNothing
<1>2. TypeInv /\ [Next]_vars =>
        [\A c \in Calls : Begins(c) => Available(ram', run'[c].entry, run'[c].ign)]_vars
  BY <1>1
<1> QED
  BY <1>2, TypeInvCorrect, PTL DEF Spec, AttemptIsAllowed

(* What a pass tries first is of the best group that has something to try, *)
(* whichever pair answered last.                                           *)
THEOREM BestGroupsFirst == Spec => BestGroupFirst
<1>1. ASSUME TypeInv, [Next]_vars, NEW c \in Calls, Begins(c), ~Calling(c), run'[c].stage = 1
      PROVE  \A i \in Index : Fits(run'[c], i) /\ Available(ram', i, run'[c].ign) =>
               Entries[run'[c].entry].group <= Entries[i].group
  <2>1. Next
    BY <1>1 DEF vars, Begins
  <2>2. ~Answer(c)
    BY <1>1 DEF Answer, Success, BadJson, QuotaHit, DailyQuotaHit, NotSupported, KeyRejected,
                TooLarge, Blocked, AttemptFails
  <2>3. Start(c) \/ Wake(c)
    BY <1>1, <2>1, <2>2, RestBeginsNothing
  <2> QED
    BY <1>1, <2>3, PassFacts DEF Passes, Best, Begins
<1>2. TypeInv /\ [Next]_vars =>
        [\A c \in Calls :
           Begins(c) /\ ~Calling(c) /\ run'[c].stage = 1 =>
             \A i \in Index : Fits(run'[c], i) /\ Available(ram', i, run'[c].ign) =>
               Entries[run'[c].entry].group <= Entries[i].group]_vars
  BY <1>1
<1> QED
  BY <1>2, TypeInvCorrect, PTL DEF Spec, BestGroupFirst

(* A call that fails without an attempt has found every pair unsupported   *)
(* or its key rejected: exhausted keys are tried again, and a call with a  *)
(* photo falls back on the providers that see no images.                   *)
THEOREM TriesFirst == Spec => TriesBeforeFailing
<1>1. ASSUME TypeInv, [Next]_vars, NEW c \in Calls, calls' # calls, run[c].pc # "failed",
             run'[c].pc = "failed", NEW i \in Index
      PROVE  ~Available(ram', i, TRUE)
  <2>0. RunTyped
    BY <1>1 DEF TypeInv, RunTyped
  <2>1. PICK d \in Calls : Start(d)
    <3>1. \A d \in Calls : ~Answer(d)
      BY <1>1, AnswerFacts DEF Answered
    <3>2. \A d \in Calls : ~Wake(d)
      BY <1>1 DEF Wake, bounds
    <3> QED
      BY <1>1, <3>1, <3>2, RestartFacts DEF Next, vars, bounds, Save, SaveFails, Tick
  <2>2. d = c
    BY <1>1, <2>1, PassFacts DEF Passes
  <2> DEFINE r == [Idle EXCEPT !.kind = Kind(c)]
             r2 == [r EXCEPT !.stage = 2, !.round = 0]
  <2>3. r \in Runs /\ r.blocked <= MaxBlocked /\ r.round = 0 /\ r.stage = 1 /\ r.kind = Kind(c)
    BY <2>0, BeginsTyped
  <2>4. r2.stage = 2
    BY <2>3 DEF Runs
  <2>5. run'[c] = BeginPass(ram, r) /\ ram' = ram
    BY <2>0, <2>1, <2>2 DEF Start, RunTyped
  <2> HIDE DEF r
  <2>6. /\ Candidates(ram, r, TRUE) = {}
        /\ r.kind = "media" => Candidates(ram, r2, TRUE) = {}
    BY <1>1, <2>3, <2>5, BeginPassFacts
  <2> HIDE DEF r2
  <2>7. CASE r.kind = "media" /\ ~Entries[i].vision
    <3>1. Fits(r2, i)
      BY <2>4, <2>7, AiRouterAssumption DEF Fits
    <3> QED
      BY <2>5, <2>6, <2>7, <3>1 DEF Candidates
  <2>8. CASE r.kind # "media" \/ Entries[i].vision
    <3>1. r.stage # 2
      BY <2>3
    <3>2. Fits(r, i)
      BY <2>8, <3>1 DEF Fits
    <3> QED
      BY <2>5, <2>6, <3>2 DEF Candidates
  <2> QED
    BY <2>7, <2>8
<1>2. TypeInv /\ [Next]_vars =>
        [\A c \in Calls :
           calls' # calls /\ run[c].pc # "failed" /\ run'[c].pc = "failed" =>
             \A i \in Index : ~Available(ram', i, TRUE)]_vars
  BY <1>1
<1> QED
  BY <1>2, TypeInvCorrect, PTL DEF Spec, TriesBeforeFailing

(* Only time, a success of the key itself and a restart end the exhaustion *)
(* of a key early: a rate limit found by another call makes it no shorter. *)
THEOREM ExhaustionStays == Spec => ExhaustionHolds
<1>1. ASSUME TypeInv, [Next]_vars, NEW k \in Keys, ram'.exhausted[k] < ram.exhausted[k],
             ticks' = ticks, faults' = faults
      PROVE  \E c \in Calls : Calling(c) /\ KeyOf(c) = k /\ run'[c].pc = "text"
  <2>1. ram' # ram
    BY <1>1, AiRouterAssumption DEF TypeInv, RamTypes
  <2>2. PICK c \in Calls : Answer(c)
    <3>1. \A d \in Calls : ~Start(d) /\ ~Wake(d)
      BY <2>1 DEF Start, Wake
    <3>2. ~Tick /\ ~Restart
      BY <1>1, RestartFacts DEF Tick, TypeInv
    <3> QED
      BY <1>1, <2>1, <3>1, <3>2 DEF Next, vars, Save, SaveFails
  <2>3. Calling(c)
    BY <2>2 DEF Answer, Success, BadJson, QuotaHit, DailyQuotaHit, NotSupported, KeyRejected,
                TooLarge, Blocked, AttemptFails
  <2> QED
    BY <1>1, <2>2, <2>3, AnswerFacts DEF Answered
<1>2. TypeInv /\ [Next]_vars =>
        [\A k \in Keys :
           ram'.exhausted[k] < ram.exhausted[k] =>
             \/ ticks' # ticks \/ faults' # faults
             \/ \E c \in Calls : Calling(c) /\ KeyOf(c) = k /\ run'[c].pc = "text"]_vars
  BY <1>1
<1> QED
  BY <1>2, TypeInvCorrect, PTL DEF Spec, ExhaustionHolds
=============================================================================

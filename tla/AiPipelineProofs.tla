-------------------------- MODULE AiPipelineProofs --------------------------
(***************************************************************************)
(* What holds of AiPipeline for every number of products, workers,         *)
(* handlers, attempts, edits and faults, and every size of the queue: the  *)
(* types, and two invariants that count who may still write a row.  From   *)
(* them follow how many workers a product can have, how often it is tried, *)
(* and how often an outcome is overturned.                                 *)
(***************************************************************************)
EXTENDS AiPipeline, TLAPS, WellFoundedInduction, SequenceTheorems, FiniteSetTheorems

-----------------------------------------------------------------------------
(* Induction, in a form that speaks of a set and not of a predicate *)

Smaller == {pair \in Nat \X Nat : pair[1] < pair[2]}

\* a set of numbers has a least one
LEMMA LeastNumber ==
  ASSUME NEW S \in SUBSET Nat, S # {}
  PROVE  \E n \in S : \A m \in S : n <= m
<1>1. IsWellFoundedOn(Smaller, Nat)
  <2>1. Smaller = OpToRel(<, Nat)
    BY DEF OpToRel, Smaller
  <2> QED
    BY <2>1, NatLessThanWellFounded
<1>2. PICK n \in S : \A m \in S : ~(<<m, n>> \in Smaller)
  BY <1>1, WFMin
<1>3. \A m \in S : n \in Nat /\ m \in Nat /\ ~(m < n)
  BY <1>2 DEF Smaller
<1>4. \A m \in S : n <= m
  BY <1>3
<1> QED
  BY <1>4

\* a set of numbers that has 0 and every successor has them all
LEMMA AllNumbers ==
  ASSUME NEW S \in SUBSET Nat, 0 \in S, \A n \in S : n + 1 \in S
  PROVE  S = Nat
<1>1. SUFFICES ASSUME S # Nat PROVE FALSE
  OBVIOUS
<1>2. PICK n \in Nat \ S : \A m \in Nat \ S : n <= m
  BY <1>1, LeastNumber
<1>3. n - 1 \in S
  BY <1>2
<1> QED
  BY <1>2, <1>3

-----------------------------------------------------------------------------
(* Types *)

Queues == {q \in Seq(Products) : Len(q) <= QueueMax}

\* A queue stays a sequence of products when a product is put at its end (or left where it
\* stands).
LEMMA EnqueueTyped ==
  ASSUME NEW q \in Queues, NEW p \in Products
  PROVE  Enqueue(q, p) \in Queues
BY AiPipelineAssumption DEF Enqueue, Queues

\* one more id of the batch
Put(ids, p, q) == IF p \in ids THEN Enqueue(q, p) ELSE q

\* what QueueBatch puts into the queue one id after the other
Puts(ids, q, f, n) ==
  /\ f \in [0 .. n -> Queues]
  /\ \A p \in 0 .. n : f[p] = IF p = 0 THEN q ELSE Put(ids, p, f[p - 1])

\* the equation of a recursive definition has a solution up to every id ...
LEMMA PutsExist ==
  ASSUME NEW q \in Queues, NEW ids \in SUBSET Products
  PROVE  \A n \in Nat : \E f : n <= MaxProducts => Puts(ids, q, f, n)
<1> DEFINE S == {n \in Nat : \E f : n <= MaxProducts => Puts(ids, q, f, n)}
<1>1. 0 \in S
  <2>1. Puts(ids, q, [p \in 0 .. 0 |-> q], 0)
    BY DEF Puts
  <2> QED
    BY <2>1
<1>2. ASSUME NEW n \in S PROVE n + 1 \in S
  <2>1. CASE ~(n + 1 <= MaxProducts)
    BY <2>1
  <2>2. CASE n + 1 <= MaxProducts
    <3>1. PICK f : Puts(ids, q, f, n)
      BY <2>2, AiPipelineAssumption
    <3>2. n \in Nat /\ n + 1 \in Products
      BY <2>2 DEF Products
    <3>3. f[n] \in Queues /\ Put(ids, n + 1, f[n]) \in Queues
      BY <3>1, <3>2, EnqueueTyped DEF Puts, Put
    <3> DEFINE g == [p \in 0 .. n + 1 |-> IF p = n + 1 THEN Put(ids, n + 1, f[n]) ELSE f[p]]
    <3>4. g \in [0 .. n + 1 -> Queues]
      BY <3>1, <3>2, <3>3 DEF Puts
    <3>5. \A p \in 0 .. n + 1 : g[p] = IF p = 0 THEN q ELSE Put(ids, p, g[p - 1])
      <4> SUFFICES ASSUME NEW p \in 0 .. n + 1
                   PROVE  g[p] = IF p = 0 THEN q ELSE Put(ids, p, g[p - 1])
        OBVIOUS
      <4>1. CASE p = n + 1
        BY <3>2, <4>1
      <4>2. CASE p # n + 1
        <5>1. p \in 0 .. n
          BY <3>2, <4>2
        <5>2. f[p] = IF p = 0 THEN q ELSE Put(ids, p, f[p - 1])
          BY <3>1, <5>1 DEF Puts
        <5>3. g[p] = f[p] /\ (p # 0 => g[p - 1] = f[p - 1])
          BY <3>2, <5>1
        <5> QED
          BY <5>2, <5>3
      <4> QED
        BY <4>1, <4>2
    <3> HIDE DEF g
    <3>6. Puts(ids, q, g, n + 1)
      BY <3>4, <3>5 DEF Puts
    <3> QED
      BY <3>2, <3>6
  <2> QED
    BY <2>1, <2>2
<1> HIDE DEF S
<1>3. S = Nat
  BY <1>1, <1>2, AllNumbers DEF S
<1> QED
  BY <1>3 DEF S

\* ... so the queue after the batch is a queue
LEMMA QueueBatchTyped ==
  ASSUME TypeOK, QueueBatch
  PROVE  queue' \in Queues
<1> DEFINE Rule(f, p) == IF p = 0 THEN queue ELSE Put(batch, p, f[p - 1])
<1> DEFINE put == CHOOSE f : f = [p \in 0 .. MaxProducts |-> Rule(f, p)]
<1>1. queue' = put[MaxProducts]
  BY DEF QueueBatch, Put
<1>2. queue \in Queues /\ batch \in SUBSET Products
  BY DEF TypeOK, Queues
<1>3. PICK f : Puts(batch, queue, f, MaxProducts)
  <2>1. MaxProducts \in Nat /\ MaxProducts <= MaxProducts
    BY AiPipelineAssumption
  <2>2. \E f : MaxProducts <= MaxProducts => Puts(batch, queue, f, MaxProducts)
    BY <1>2, <2>1, PutsExist
  <2> QED
    BY <2>1, <2>2
<1>4. f = [p \in 0 .. MaxProducts |-> Rule(f, p)]
  BY <1>3 DEF Puts
<1>5. put = [p \in 0 .. MaxProducts |-> Rule(put, p)]
  BY <1>4
<1> HIDE DEF put
<1> DEFINE S == {n \in Nat : n <= MaxProducts => put[n] \in Queues}
<1>6. 0 \in S
  BY <1>2, <1>5, AiPipelineAssumption
<1>7. ASSUME NEW n \in S PROVE n + 1 \in S
  <2>1. CASE n + 1 <= MaxProducts
    <3>1. n \in Nat /\ n + 1 \in Products /\ n + 1 \in 0 .. MaxProducts /\ (n + 1) - 1 = n
      BY <2>1, AiPipelineAssumption DEF Products
    <3>2. put[n] \in Queues
      BY <2>1, <3>1, AiPipelineAssumption
    <3>3. put[n + 1] = Rule(put, n + 1)
      BY <1>5, <3>1
    <3>4. put[n + 1] = Put(batch, n + 1, put[n])
      BY <3>1, <3>3
    <3> QED
      BY <1>2, <3>1, <3>2, <3>4, EnqueueTyped DEF Put
  <2> QED
    BY <2>1
<1> HIDE DEF S
<1>8. S = Nat
  BY <1>6, <1>7, AllNumbers DEF S
<1> QED
  BY <1>1, <1>8, AiPipelineAssumption DEF S

Labels == {"idle", "h_edit", "h_again", "h_queue", "w_claim", "w_ai", "r_queue"}

RowTypes ==
  /\ aiStatus \in [Products -> Settled \cup {"none", "pending", "processing"}]
  /\ attempts \in [Products -> Nat]
  /\ due \in SUBSET Products /\ stuck \in SUBSET Products
  /\ text \in [Products -> Versions] /\ result \in [Products -> Versions]

TaskTypes ==
  /\ pc \in [Procs -> Labels]
  /\ job \in [Procs -> Products \cup {NoProduct}]
  /\ \A t \in Procs : pc[t] \notin {"idle", "r_queue"} => job[t] \in Products
  /\ ver \in [Procs -> Versions]
  /\ tries \in [Procs -> Nat]
  /\ batch \in SUBSET Products

RestTypes ==
  /\ source \in [Products -> Versions]
  /\ queue \in Queues
  /\ putBack \in [Products -> Nat] /\ overturned \in [Products -> Nat]
  /\ taps \in 0 .. MaxTaps /\ faults \in 0 .. MaxFaults

\* TypeOK is the conjunction of the types of the rows, of the tasks and of the rest, before a step
\* and after it.
LEMMA TypeParts ==
  /\ TypeOK <=> RowTypes /\ TaskTypes /\ RestTypes
  /\ TypeOK' <=> RowTypes' /\ TaskTypes' /\ RestTypes'
BY DEF TypeOK, RowTypes, TaskTypes, RestTypes, Labels, Queues

\* a task that goes on, or ends
LEMMA RunTyped ==
  ASSUME TaskTypes, NEW t \in Procs, NEW l \in Labels, NEW p \in Products \cup {NoProduct},
         NEW v \in Versions, NEW n \in Nat, NEW ids \in SUBSET Products,
         Run(t, l, p, v, n, ids), l \notin {"idle", "r_queue"} => p \in Products
  PROVE  TaskTypes'
BY DEF Run, TaskTypes

\* A task that returns keeps the types of the tasks.
LEMMA DoneTyped ==
  ASSUME TaskTypes, NEW t \in Procs, Done(t)
  PROVE  TaskTypes'
<1>1. 0 \in Versions /\ "idle" \in Labels /\ {} \in SUBSET Products /\ 0 \in Nat
  BY AiPipelineAssumption DEF Versions, Labels
<1> QED
  BY <1>1, RunTyped DEF Done

\* what a step leaves alone
LEMMA Untouched ==
  /\ RowTypes /\ UNCHANGED rowVars => RowTypes'
  /\ TaskTypes /\ UNCHANGED taskVars => TaskTypes'
  /\ RestTypes /\ UNCHANGED <<source, queue, ghostVars, faults>> => RestTypes'
BY DEF RowTypes, TaskTypes, RestTypes, rowVars, taskVars, locals, ghostVars

\* reset_for_reprocess, which sends a row back to "pending", keeps the types of the rows.
LEMMA ResetTyped ==
  ASSUME RowTypes, NEW p \in Products, NEW v \in Versions, Reset(p, v), UNCHANGED result
  PROVE  RowTypes'
BY DEF RowTypes, Reset

\* The steps of the admin handlers (saving a product, editing it, tapping "retry") keep the types.
LEMMA HandlerTyped ==
  ASSUME TypeOK, NEW t \in Handlers, HandlerStep(t) \/ Tap(t)
  PROVE  TypeOK'
<1> USE TypeParts DEF Labels
<1>0. /\ t \in Procs /\ 0 \in Versions /\ 1 \in Versions /\ 0 \in Nat
      /\ {} \in SUBSET Products /\ job[t] \in Products \cup {NoProduct}
  BY AiPipelineAssumption DEF Procs, Versions, TaskTypes
<1>1. CASE EditReset(t)
  <2>1. job[t] \in Products /\ ver[t] \in Versions
    BY <1>0, <1>1 DEF EditReset, At, TaskTypes
  <2>2. RestTypes'
    BY <1>1, <2>1 DEF EditReset, Reset, RestTypes
  <2> QED
    BY <1>0, <1>1, <2>1, <2>2, RunTyped, ResetTyped DEF EditReset
<1>2. CASE AgainReset(t)
  <2>1. job[t] \in Products
    BY <1>0, <1>2 DEF AgainReset, At, TaskTypes
  <2>2. text[job[t]] \in Versions
    BY <2>1 DEF RowTypes
  <2>3. RestTypes'
    BY <1>2, <2>1 DEF AgainReset, Reset, RestTypes
  <2> QED
    BY <1>0, <1>2, <2>1, <2>2, <2>3, RunTyped, ResetTyped DEF AgainReset
<1>3. CASE QueueJob(t)
  <2>1. job[t] \in Products
    BY <1>0, <1>3 DEF QueueJob, At, TaskTypes
  <2>2. RestTypes'
    BY <1>3, <2>1, EnqueueTyped DEF QueueJob, RestTypes, ghostVars
  <2> QED
    BY <1>0, <1>3, <2>2, DoneTyped, Untouched DEF QueueJob
<1>4. ASSUME NEW p \in Products, Post(t, p) PROVE TypeOK'
  <2>1. RowTypes'
    BY <1>0, <1>4 DEF Post, RowTypes
  <2>2. RestTypes'
    BY <1>0, <1>4 DEF Post, RestTypes, ghostVars
  <2> QED
    BY <1>0, <1>4, <2>1, <2>2, RunTyped DEF Post
<1>5. ASSUME NEW p \in Products, Edit(t, p) PROVE TypeOK'
  <2>1. source[p] + 1 \in Versions
    BY <1>5, AiPipelineAssumption DEF Edit, Versions
  <2>2. RestTypes'
    BY <1>5, <2>1 DEF Edit, RestTypes, ghostVars
  <2> QED
    BY <1>0, <1>5, <2>1, <2>2, RunTyped, Untouched DEF Edit
<1>6. ASSUME NEW p \in Products, Reprocess(t, p) PROVE TypeOK'
  <2>1. RestTypes'
    BY <1>6, AiPipelineAssumption DEF Reprocess, RestTypes
  <2> QED
    BY <1>0, <1>6, <2>1, RunTyped, Untouched DEF Reprocess
<1> QED
  BY <1>1, <1>2, <1>3, <1>4, <1>5, <1>6 DEF HandlerStep, Tap

\* The steps of the worker loop, from taking a product off the queue to the write of its outcome,
\* keep the types.
LEMMA WorkerTyped ==
  ASSUME TypeOK, NEW t \in Workers, WorkerStep(t)
  PROVE  TypeOK'
<1> USE TypeParts DEF Labels
<1>0. /\ t \in Procs /\ 0 \in Versions /\ 0 \in Nat /\ {} \in SUBSET Products
  BY AiPipelineAssumption DEF Procs, Versions
<1>1. CASE Take(t)
  <2>1. Head(queue) \in Products /\ Tail(queue) \in Queues
    <3>1. queue \in Seq(Products) /\ queue # <<>> /\ Len(queue) <= QueueMax
      BY <1>1 DEF Take, RestTypes, Queues
    <3>2. Head(queue) \in Products /\ Tail(queue) \in Seq(Products) /\ Len(Tail(queue)) = Len(queue) - 1
      BY <3>1, HeadTailProperties
    <3> QED
      BY <3>1, <3>2, AiPipelineAssumption DEF Queues
  <2>2. RestTypes'
    BY <1>1, <2>1 DEF Take, RestTypes, ghostVars
  <2> QED
    BY <1>0, <1>1, <2>1, <2>2, RunTyped, Untouched DEF Take
<1>2. CASE Claim(t)
  <2>1. job[t] \in Products
    BY <1>0, <1>2 DEF Claim, At, TaskTypes
  <2>2. CASE aiStatus[job[t]] = "pending"
    <3>1. text[job[t]] \in Versions /\ attempts[job[t]] + 1 \in Nat
      BY <2>1 DEF RowTypes
    <3>2. RowTypes'
      BY <1>2, <2>1, <2>2, <3>1 DEF Claim, Claimed, RowTypes
    <3>3. RestTypes'
      BY <1>2, <2>1, <2>2 DEF Claim, Claimed, Overturn, RestTypes
    <3> QED
      BY <1>0, <1>2, <2>1, <2>2, <3>1, <3>2, <3>3, RunTyped DEF Claim, Claimed
  <2>3. CASE aiStatus[job[t]] # "pending"
    BY <1>0, <1>2, <2>3, DoneTyped, Untouched DEF Claim, rowVars, ghostVars
  <2> QED
    BY <2>2, <2>3
<1>3. ASSUME NEW status \in Settled \cup {"pending"}, NEW again \in BOOLEAN, Store(t, status, again)
      PROVE  TypeOK'
  <2>1. job[t] \in Products /\ ver[t] \in Versions
    BY <1>0, <1>3 DEF Store, At, TaskTypes
  <2>2. RowTypes'
    BY <1>3, <2>1 DEF Store, RowTypes
  <2>3. TaskTypes'
    BY <1>0, <1>3, DoneTyped DEF Store
  <2>4. RestTypes'
    BY <1>3, <2>1 DEF Store, Overturn, RestTypes
  <2> QED
    BY <2>2, <2>3, <2>4
<1> QED
  BY <1>1, <1>2, <1>3 DEF WorkerStep, Rewritten, Blocked, Broken, AllFailed, Settled

\* The steps of the recovery sweep that puts forgotten products back on the queue keep the types.
LEMMA RecoveryTyped ==
  ASSUME TypeOK, RecoveryStep
  PROVE  TypeOK'
<1> USE TypeParts DEF Labels
<1>0. Recovery \in Procs /\ 0 \in Versions /\ 0 \in Nat
  BY AiPipelineAssumption DEF Procs, Versions
<1>1. CASE ReadRecoverable
  <2> DEFINE back == {p \in stuck : aiStatus[p] = "processing"}
             ids == back \cup {p \in due : aiStatus[p] = "pending"}
  <2>1. back \in SUBSET Products /\ ids \in SUBSET Products
    BY DEF RowTypes
  <2>2. RowTypes'
    BY <1>1, <2>1 DEF ReadRecoverable, RowTypes
  <2>3. RestTypes'
    BY <1>1, <2>1 DEF ReadRecoverable, RestTypes
  <2>4. Run(Recovery, "r_queue", NoProduct, 0, 0, ids)
    BY <1>1 DEF ReadRecoverable
  <2> QED
    BY <1>0, <2>1, <2>2, <2>3, <2>4, RunTyped
<1>2. CASE QueueBatch
  <2>1. queue' \in Queues
    BY <1>2, QueueBatchTyped
  <2>2. RestTypes'
    BY <1>2, <2>1 DEF QueueBatch, RestTypes, ghostVars
  <2>3. RowTypes' /\ TaskTypes'
    BY <1>0, <1>2, DoneTyped, Untouched DEF QueueBatch
  <2> QED
    BY <2>2, <2>3
<1> QED
  BY <1>1, <1>2 DEF RecoveryStep

\* The clock, the slow providers, a task that fails and a crash of the bot keep the types.
LEMMA WorldTyped ==
  ASSUME TypeOK,
         \/ \E p \in Products : BecomeDue(p) \/ Abandoned(p) \/ SlowAi(p)
         \/ \E t \in Procs : TaskFails(t)
         \/ Crash
  PROVE  TypeOK'
<1> USE TypeParts
<1>1. ASSUME NEW p \in Products, BecomeDue(p) \/ Abandoned(p) PROVE TypeOK'
  BY <1>1, Untouched DEF BecomeDue, Abandoned, RowTypes
<1>2. ASSUME NEW p \in Products, SlowAi(p) PROVE TypeOK'
  <2>1. RestTypes'
    BY <1>2, AiPipelineAssumption DEF SlowAi, RestTypes, ghostVars
  <2> QED
    BY <1>2, <2>1, Untouched DEF SlowAi, RowTypes
<1>3. ASSUME NEW t \in Procs, TaskFails(t) PROVE TypeOK'
  <2>1. RestTypes'
    BY <1>3, AiPipelineAssumption DEF TaskFails, RestTypes, ghostVars
  <2> QED
    BY <1>3, <2>1, DoneTyped, Untouched DEF TaskFails
<1>4. CASE Crash
  <2>1. RestTypes'
    BY <1>4, AiPipelineAssumption DEF Crash, RestTypes, ghostVars, Queues
  <2>2. TaskTypes'
    BY <1>4, AiPipelineAssumption DEF Crash, TaskTypes, Labels, Versions
  <2> QED
    BY <1>4, <2>1, <2>2, Untouched DEF Crash
<1> QED
  BY <1>1, <1>2, <1>3, <1>4

(* Every variable keeps its type: the queue never outgrows its limit, and  *)
(* whoever works has a product.                                            *)
THEOREM TypeCorrect == Spec => []TypeOK
<1>1. Init => TypeOK
  <2> SUFFICES ASSUME Init PROVE TypeOK
    OBVIOUS
  <2>1. RowTypes
    BY AiPipelineAssumption DEF Init, RowTypes, Versions
  <2>2. TaskTypes
    BY AiPipelineAssumption DEF Init, TaskTypes, Versions, Labels
  <2>3. RestTypes
    BY AiPipelineAssumption DEF Init, RestTypes, Versions, Queues
  <2> QED
    BY <2>1, <2>2, <2>3, TypeParts
<1>2. TypeOK /\ [Next]_vars => TypeOK'
  <2> SUFFICES ASSUME TypeOK, [Next]_vars PROVE TypeOK'
    OBVIOUS
  <2>1. CASE UNCHANGED vars
    BY <2>1, TypeParts, Untouched DEF vars
  <2> QED
    BY <2>1, HandlerTyped, WorkerTyped, RecoveryTyped, WorldTyped DEF Next
<1> QED
  BY <1>1, <1>2, PTL DEF Spec

-----------------------------------------------------------------------------
(* Claims *)

Bit(b) == IF b THEN 1 ELSE 0

\* the row may be claimed, or it has an outcome
Open(p) == aiStatus[p] = "pending"

Over(p) == aiStatus[p] \in Settled

(* Each product has one token, and one more each time its row was put back *)
(* from outside.  A token is in the row while it is pending or settled,    *)
(* with a worker while it waits for the AI, or was spent on an outcome     *)
(* that another answer overturned.  A claim takes the row's token, an      *)
(* answer gives the worker's to the row, so an outcome is overturned only  *)
(* where there are two.                                                    *)
ClaimInv ==
  \A p \in Products :
    /\ aiStatus[p] = "none" => WorkersOn(p) = {} /\ overturned[p] = 0 /\ attempts[p] = 0
    /\ Cardinality(WorkersOn(p)) + Bit(Open(p)) + Bit(Over(p)) + overturned[p] <= 1 + putBack[p]
    /\ overturned[p] <= putBack[p]

\* the workers whose failure would have the product tried again
RetriersOn(p) == {t \in WorkersOn(p) : tries[t] < MaxAttempts}

\* the attempts from the last one on
Excess(p) == IF attempts[p] < MaxAttempts THEN 0 ELSE attempts[p] - MaxAttempts + 1

(* The same for attempts: a token is in the row while it is pending, with  *)
(* a worker that would retry, or was spent on an attempt from the last one *)
(* on.                                                                     *)
AttemptInv ==
  \A p \in Products :
    Excess(p) + Cardinality(RetriersOn(p)) + Bit(Open(p)) <= 1 + putBack[p]

\* how many workers there are on a product is a number
LEMMA WorkersFinite ==
  ASSUME NEW p
  PROVE  /\ IsFiniteSet(WorkersOn(p)) /\ Cardinality(WorkersOn(p)) \in Nat
         /\ IsFiniteSet(RetriersOn(p)) /\ Cardinality(RetriersOn(p)) \in Nat
<1>1. IsFiniteSet(WorkersOn(p))
  <2>1. WorkersOn(p) \subseteq Workers
    BY DEF WorkersOn
  <2> QED
    BY <2>1, FS_Subset, AiPipelineAssumption
<1>2. IsFiniteSet(RetriersOn(p))
  <2>1. RetriersOn(p) \subseteq WorkersOn(p)
    BY DEF RetriersOn
  <2> QED
    BY <1>1, <2>1, FS_Subset
<1> QED
  BY <1>1, <1>2, FS_CardinalityType

\* fewer workers of either kind on the product, counted
LEMMA FewerWorkers ==
  ASSUME NEW p, WorkersOn(p)' \subseteq WorkersOn(p), RetriersOn(p)' \subseteq RetriersOn(p)
  PROVE  /\ Cardinality(WorkersOn(p)') \in Nat /\ Cardinality(WorkersOn(p)') <= Cardinality(WorkersOn(p))
         /\ Cardinality(RetriersOn(p)') \in Nat /\ Cardinality(RetriersOn(p)') <= Cardinality(RetriersOn(p))
<1>1. /\ IsFiniteSet(WorkersOn(p)') /\ Cardinality(WorkersOn(p)') <= Cardinality(WorkersOn(p))
      /\ IsFiniteSet(RetriersOn(p)') /\ Cardinality(RetriersOn(p)') <= Cardinality(RetriersOn(p))
  BY WorkersFinite, FS_Subset
<1> QED
  BY <1>1, FS_CardinalityType

\* nobody new waits for the AI, and who does is where it was
NoClaim ==
  \A t \in Workers : pc'[t] = "w_ai" => pc[t] = "w_ai" /\ job'[t] = job[t] /\ tries'[t] = tries[t]

\* a task that goes anywhere but to the AI
LEMMA RunNoClaim ==
  ASSUME TaskTypes, NEW t \in Procs, NEW l, l # "w_ai", NEW p, NEW v, NEW n, NEW ids,
         Run(t, l, p, v, n, ids)
  PROVE  NoClaim
BY DEF Run, TaskTypes, NoClaim, Procs

\* A task that has returned claims no product.
LEMMA DoneNoClaim ==
  ASSUME TaskTypes, NEW t \in Procs, Done(t)
  PROVE  NoClaim
BY RunNoClaim DEF Done

\* what the rest of the world does claims nothing either
LEMMA WorldNoClaim ==
  /\ UNCHANGED taskVars => NoClaim
  /\ Crash => NoClaim
BY AiPipelineAssumption DEF NoClaim, taskVars, locals, Crash, Procs

\* without a claim the workers on a product only become fewer
LEMMA NoClaimFewer ==
  ASSUME NoClaim, NEW p
  PROVE  WorkersOn(p)' \subseteq WorkersOn(p) /\ RetriersOn(p)' \subseteq RetriersOn(p)
BY DEF NoClaim, WorkersOn, RetriersOn, WorksOn, At

\* what a step without a claim does to the tokens of one product: nothing, or it puts the row back
\* to pending and adds one
Kept(p) ==
  /\ aiStatus'[p] = aiStatus[p] /\ putBack'[p] = putBack[p] /\ attempts'[p] = attempts[p]

PutBack(p) ==
  /\ aiStatus'[p] = "pending" /\ putBack'[p] = putBack[p] + 1
  /\ attempts'[p] \in {0, attempts[p]}

\* a step without a claim or an answer
LEMMA QuietTokens ==
  ASSUME TypeOK, ClaimInv, AttemptInv, NoClaim, overturned' = overturned,
         \A p \in Products : Kept(p) \/ PutBack(p)
  PROVE  ClaimInv' /\ AttemptInv'
<1> SUFFICES ASSUME NEW p \in Products
             PROVE  /\ (aiStatus[p] = "none" => WorkersOn(p) = {} /\ overturned[p] = 0 /\ attempts[p] = 0)'
                    /\ (Cardinality(WorkersOn(p)) + Bit(Open(p)) + Bit(Over(p)) + overturned[p]
                          <= 1 + putBack[p])'
                    /\ (overturned[p] <= putBack[p])'
                    /\ (Excess(p) + Cardinality(RetriersOn(p)) + Bit(Open(p)) <= 1 + putBack[p])'
  BY DEF ClaimInv, AttemptInv
<1>1. WorkersOn(p)' \subseteq WorkersOn(p) /\ RetriersOn(p)' \subseteq RetriersOn(p)
  BY NoClaimFewer
<1> DEFINE c == Cardinality(WorkersOn(p))
           r == Cardinality(RetriersOn(p))
           a == Cardinality(WorkersOn(p)')
           b == Cardinality(RetriersOn(p)')
<1>2. c \in Nat /\ r \in Nat /\ a \in Nat /\ b \in Nat /\ a <= c /\ b <= r
  BY <1>1, WorkersFinite, FewerWorkers
<1>3. /\ putBack[p] \in Nat /\ overturned[p] \in Nat /\ attempts[p] \in Nat /\ MaxAttempts \in Nat \ {0}
      /\ overturned'[p] = overturned[p]
  BY AiPipelineAssumption, TypeParts DEF RowTypes, RestTypes
<1>4. /\ c + Bit(Open(p)) + Bit(Over(p)) + overturned[p] <= 1 + putBack[p]
      /\ Excess(p) + r + Bit(Open(p)) <= 1 + putBack[p]
      /\ overturned[p] <= putBack[p]
      /\ aiStatus[p] = "none" => WorkersOn(p) = {} /\ overturned[p] = 0 /\ attempts[p] = 0
  BY DEF ClaimInv, AttemptInv
<1> HIDE DEF c, r, a, b
<1>5. CASE Kept(p)
  <2>1. a + Bit(Open(p))' + Bit(Over(p))' + overturned'[p] <= 1 + putBack'[p]
    BY <1>2, <1>3, <1>4, <1>5 DEF Kept, Bit, Open, Over
  <2>2. Excess(p)' + b + Bit(Open(p))' <= 1 + putBack'[p]
    BY <1>2, <1>3, <1>4, <1>5 DEF Kept, Bit, Open, Excess
  <2>3. (aiStatus[p] = "none" => WorkersOn(p) = {} /\ overturned[p] = 0 /\ attempts[p] = 0)'
    BY <1>1, <1>3, <1>4, <1>5 DEF Kept
  <2> QED
    BY <1>3, <1>4, <1>5, <2>1, <2>2, <2>3 DEF a, b, Kept
<1>6. CASE PutBack(p)
  <2>1. a + Bit(Open(p))' + Bit(Over(p))' + overturned'[p] <= 1 + putBack'[p]
    BY <1>2, <1>3, <1>4, <1>6 DEF PutBack, Bit, Open, Over, Settled
  <2>2. Excess(p)' + b + Bit(Open(p))' <= 1 + putBack'[p]
    BY <1>2, <1>3, <1>4, <1>6 DEF PutBack, Bit, Open, Excess
  <2>3. aiStatus'[p] # "none" /\ overturned'[p] <= putBack'[p]
    BY <1>3, <1>4, <1>6 DEF PutBack
  <2> QED
    BY <2>1, <2>2, <2>3 DEF a, b
<1> QED
  BY <1>5, <1>6

\* a row is created: it has the one token of a new product
LEMMA PostTokens ==
  ASSUME TypeOK, ClaimInv, AttemptInv, NEW t \in Procs, NEW q \in Products, Post(t, q)
  PROVE  ClaimInv' /\ AttemptInv'
<1>1. NoClaim
  BY TypeParts, RunNoClaim DEF Post
<1>2. /\ attempts' = attempts /\ putBack' = putBack /\ overturned' = overturned
      /\ aiStatus'[q] = "pending" /\ aiStatus[q] = "none"
      /\ \A p \in Products \ {q} : aiStatus'[p] = aiStatus[p]
  BY TypeParts DEF Post, RowTypes, ghostVars
<1> SUFFICES ASSUME NEW p \in Products
             PROVE  /\ (aiStatus[p] = "none" => WorkersOn(p) = {} /\ overturned[p] = 0 /\ attempts[p] = 0)'
                    /\ (Cardinality(WorkersOn(p)) + Bit(Open(p)) + Bit(Over(p)) + overturned[p]
                          <= 1 + putBack[p])'
                    /\ (overturned[p] <= putBack[p])'
                    /\ (Excess(p) + Cardinality(RetriersOn(p)) + Bit(Open(p)) <= 1 + putBack[p])'
  BY DEF ClaimInv, AttemptInv
<1>3. WorkersOn(p)' \subseteq WorkersOn(p) /\ RetriersOn(p)' \subseteq RetriersOn(p)
  BY <1>1, NoClaimFewer
<1> DEFINE c == Cardinality(WorkersOn(p))
           r == Cardinality(RetriersOn(p))
           a == Cardinality(WorkersOn(p)')
           b == Cardinality(RetriersOn(p)')
<1>4. c \in Nat /\ r \in Nat /\ a \in Nat /\ b \in Nat /\ a <= c /\ b <= r
  BY <1>3, WorkersFinite, FewerWorkers
<1>5. putBack[p] \in Nat /\ overturned[p] \in Nat /\ attempts[p] \in Nat /\ MaxAttempts \in Nat \ {0}
  BY AiPipelineAssumption, TypeParts DEF RowTypes, RestTypes
<1>6. /\ c + Bit(Open(p)) + Bit(Over(p)) + overturned[p] <= 1 + putBack[p]
      /\ Excess(p) + r + Bit(Open(p)) <= 1 + putBack[p]
      /\ overturned[p] <= putBack[p]
      /\ aiStatus[p] = "none" => WorkersOn(p) = {} /\ overturned[p] = 0 /\ attempts[p] = 0
  BY DEF ClaimInv, AttemptInv
<1>7. CASE p = q
  <2>1. c = 0 /\ r = 0
    <3>1. WorkersOn(p) = {} /\ RetriersOn(p) = {}
      BY <1>2, <1>6, <1>7 DEF RetriersOn
    <3> QED
      BY <3>1, FS_EmptySet
  <2>2. overturned[p] = 0 /\ attempts[p] = 0
    BY <1>2, <1>6, <1>7
  <2> HIDE DEF c, r, a, b
  <2>3. a + Bit(Open(p))' + Bit(Over(p))' + overturned'[p] <= 1 + putBack'[p]
    BY <1>2, <1>4, <1>5, <1>7, <2>1, <2>2 DEF Bit, Open, Over, Settled
  <2>4. Excess(p)' + b + Bit(Open(p))' <= 1 + putBack'[p]
    BY <1>2, <1>4, <1>5, <1>7, <2>1, <2>2 DEF Bit, Open, Excess
  <2> QED
    BY <1>2, <1>6, <1>7, <2>3, <2>4 DEF a, b
<1>8. CASE p # q
  <2>1. aiStatus'[p] = aiStatus[p]
    BY <1>2, <1>8
  <2> HIDE DEF c, r, a, b
  <2>2. a + Bit(Open(p))' + Bit(Over(p))' + overturned'[p] <= 1 + putBack'[p]
    BY <1>2, <1>4, <1>5, <1>6, <2>1 DEF Bit, Open, Over
  <2>3. Excess(p)' + b + Bit(Open(p))' <= 1 + putBack'[p]
    BY <1>2, <1>4, <1>5, <1>6, <2>1 DEF Bit, Open, Excess
  <2> QED
    BY <1>2, <1>3, <1>6, <2>1, <2>2, <2>3 DEF a, b
<1> QED
  BY <1>7, <1>8

\* a claim hands the token of the row to the worker
LEMMA ClaimTokens ==
  ASSUME TypeOK, ClaimInv, AttemptInv, NEW t \in Workers, Claim(t)
  PROVE  ClaimInv' /\ AttemptInv'
<1>0. t \in Procs /\ TaskTypes /\ RowTypes /\ RestTypes
  BY TypeParts DEF Procs
<1>1. CASE aiStatus[job[t]] # "pending"
  <2>1. NoClaim
    BY <1>0, <1>1, DoneNoClaim DEF Claim
  <2>2. overturned' = overturned /\ \A p \in Products : Kept(p)
    BY <1>1 DEF Claim, Kept
  <2> QED
    BY <2>1, <2>2, QuietTokens
<1>2. CASE aiStatus[job[t]] = "pending"
  <2> DEFINE q == job[t]
  <2>1. q \in Products
    BY <1>0 DEF Claim, At, TaskTypes
  <2>2. /\ putBack' = putBack /\ overturned' = overturned
        /\ aiStatus'[q] = "processing" /\ attempts'[q] = attempts[q] + 1
        /\ \A p \in Products \ {q} : aiStatus'[p] = aiStatus[p] /\ attempts'[p] = attempts[p]
    <3>1. Claimed(t) /\ putBack' = putBack
      BY <1>2 DEF Claim
    <3>2. overturned' = overturned
      BY <1>0, <1>2, <3>1 DEF Claimed, Overturn, RestTypes, Settled
    <3> QED
      BY <1>0, <2>1, <3>1, <3>2 DEF Claimed, RowTypes
  <2>3. \A u \in Workers :
          /\ pc'[u] = IF u = t THEN "w_ai" ELSE pc[u]
          /\ job'[u] = IF u = t THEN q ELSE job[u]
          /\ tries'[u] = IF u = t THEN attempts[q] + 1 ELSE tries[u]
    BY <1>0, <1>2 DEF Claim, Claimed, Run, TaskTypes, Procs
  <2>4. pc[t] = "w_claim"
    BY DEF Claim, At
  <2> HIDE DEF q
  <2> SUFFICES ASSUME NEW p \in Products
               PROVE  /\ (aiStatus[p] = "none" => WorkersOn(p) = {} /\ overturned[p] = 0 /\ attempts[p] = 0)'
                      /\ (Cardinality(WorkersOn(p)) + Bit(Open(p)) + Bit(Over(p)) + overturned[p]
                            <= 1 + putBack[p])'
                      /\ (overturned[p] <= putBack[p])'
                      /\ (Excess(p) + Cardinality(RetriersOn(p)) + Bit(Open(p)) <= 1 + putBack[p])'
    BY DEF ClaimInv, AttemptInv
  <2> DEFINE c == Cardinality(WorkersOn(p))
             r == Cardinality(RetriersOn(p))
             a == Cardinality(WorkersOn(p)')
             b == Cardinality(RetriersOn(p)')
  <2>5. putBack[p] \in Nat /\ overturned[p] \in Nat /\ attempts[p] \in Nat /\ MaxAttempts \in Nat \ {0}
    BY <1>0, AiPipelineAssumption DEF RowTypes, RestTypes
  <2>6. /\ c + Bit(Open(p)) + Bit(Over(p)) + overturned[p] <= 1 + putBack[p]
        /\ Excess(p) + r + Bit(Open(p)) <= 1 + putBack[p]
        /\ overturned[p] <= putBack[p]
        /\ aiStatus[p] = "none" => WorkersOn(p) = {} /\ overturned[p] = 0 /\ attempts[p] = 0
    BY DEF ClaimInv, AttemptInv
  <2>7. CASE p = q
    <3>1. /\ WorkersOn(p)' = WorkersOn(p) \cup {t} /\ t \notin WorkersOn(p)
          /\ RetriersOn(p)' = IF attempts[q] + 1 < MaxAttempts THEN RetriersOn(p) \cup {t} ELSE RetriersOn(p)
          /\ t \notin RetriersOn(p)
      BY <2>3, <2>4, <2>7 DEF WorkersOn, RetriersOn, WorksOn, At
    <3>2. /\ c \in Nat /\ r \in Nat /\ a = c + 1
          /\ b = IF attempts[q] + 1 < MaxAttempts THEN r + 1 ELSE r
      BY <3>1, WorkersFinite, FS_AddElement
    <3> HIDE DEF c, r, a, b
    <3>3. aiStatus[p] = "pending"
      BY <1>2, <2>7 DEF q
    <3>4. a + Bit(Open(p))' + Bit(Over(p))' + overturned'[p] <= 1 + putBack'[p]
      BY <2>2, <2>5, <2>6, <2>7, <3>2, <3>3 DEF Bit, Open, Over, Settled
    <3>5. Excess(p)' + b + Bit(Open(p))' <= 1 + putBack'[p]
      BY <2>2, <2>5, <2>6, <2>7, <3>2, <3>3 DEF Bit, Open, Excess
    <3> QED
      BY <2>2, <2>6, <2>7, <3>4, <3>5 DEF a, b
  <2>8. CASE p # q
    <3>1. WorkersOn(p)' = WorkersOn(p) /\ RetriersOn(p)' = RetriersOn(p)
      BY <2>3, <2>4, <2>8 DEF WorkersOn, RetriersOn, WorksOn, At
    <3>2. aiStatus'[p] = aiStatus[p] /\ attempts'[p] = attempts[p]
      BY <2>2, <2>8
    <3> QED
      BY <2>2, <2>6, <3>1, <3>2 DEF Bit, Open, Over, Excess
  <2> QED
    BY <2>7, <2>8
<1> QED
  BY <1>1, <1>2

\* an answer hands the worker's token to the row, or spends it on the outcome it overturns
LEMMA StoreTokens ==
  ASSUME TypeOK, ClaimInv, AttemptInv, NEW t \in Workers, NEW status \in Settled \cup {"pending"},
         NEW again \in BOOLEAN, Store(t, status, again),
         status = "pending" => tries[t] < MaxAttempts
  PROVE  ClaimInv' /\ AttemptInv'
<1> DEFINE q == job[t]
<1>0. t \in Procs /\ TaskTypes /\ RowTypes /\ RestTypes
  BY TypeParts DEF Procs
<1>1. q \in Products /\ WorksOn(t, q)
  BY <1>0 DEF Store, At, TaskTypes, WorksOn
<1>2. NoClaim /\ pc'[t] = "idle"
  BY <1>0, DoneNoClaim DEF Store, Done, Run, TaskTypes
<1>3. /\ attempts' = attempts /\ putBack' = putBack
      /\ aiStatus'[q] = status /\ overturned'[q] = IF aiStatus[q] \in Settled \ {status}
                                                     THEN overturned[q] + 1 ELSE overturned[q]
      /\ \A p \in Products \ {q} : aiStatus'[p] = aiStatus[p] /\ overturned'[p] = overturned[p]
  BY <1>0, <1>1 DEF Store, Overturn, RowTypes, RestTypes
<1>4. status # "none"
  BY DEF Settled
<1> HIDE DEF q
<1> SUFFICES ASSUME NEW p \in Products
             PROVE  /\ (aiStatus[p] = "none" => WorkersOn(p) = {} /\ overturned[p] = 0 /\ attempts[p] = 0)'
                    /\ (Cardinality(WorkersOn(p)) + Bit(Open(p)) + Bit(Over(p)) + overturned[p]
                          <= 1 + putBack[p])'
                    /\ (overturned[p] <= putBack[p])'
                    /\ (Excess(p) + Cardinality(RetriersOn(p)) + Bit(Open(p)) <= 1 + putBack[p])'
  BY DEF ClaimInv, AttemptInv
<1>5. WorkersOn(p)' \subseteq WorkersOn(p) /\ RetriersOn(p)' \subseteq RetriersOn(p)
  BY <1>2, NoClaimFewer
<1> DEFINE c == Cardinality(WorkersOn(p))
           r == Cardinality(RetriersOn(p))
           a == Cardinality(WorkersOn(p)')
           b == Cardinality(RetriersOn(p)')
<1>6. c \in Nat /\ r \in Nat /\ a \in Nat /\ b \in Nat /\ a <= c /\ b <= r
  BY <1>5, WorkersFinite, FewerWorkers
<1>7. putBack[p] \in Nat /\ overturned[p] \in Nat /\ attempts[p] \in Nat /\ MaxAttempts \in Nat \ {0}
  BY <1>0, AiPipelineAssumption DEF RowTypes, RestTypes
<1>8. /\ c + Bit(Open(p)) + Bit(Over(p)) + overturned[p] <= 1 + putBack[p]
      /\ Excess(p) + r + Bit(Open(p)) <= 1 + putBack[p]
      /\ overturned[p] <= putBack[p]
      /\ aiStatus[p] = "none" => WorkersOn(p) = {} /\ overturned[p] = 0 /\ attempts[p] = 0
  BY DEF ClaimInv, AttemptInv
<1>9. CASE p = q
  <2>1. t \in WorkersOn(p) /\ (status = "pending" => t \in RetriersOn(p))
    BY <1>1, <1>9 DEF WorkersOn, RetriersOn
  <2>2. WorkersOn(p)' \subseteq WorkersOn(p) \ {t} /\ RetriersOn(p)' \subseteq RetriersOn(p) \ {t}
    BY <1>2, <1>5 DEF WorkersOn, RetriersOn, WorksOn, At
  <2>3. a <= c - 1 /\ (status = "pending" => b <= r - 1)
    <3>1. /\ IsFiniteSet(WorkersOn(p) \ {t}) /\ Cardinality(WorkersOn(p) \ {t}) = c - 1
          /\ IsFiniteSet(RetriersOn(p) \ {t})
          /\ status = "pending" => Cardinality(RetriersOn(p) \ {t}) = r - 1
      BY <2>1, WorkersFinite, FS_RemoveElement
    <3>2. a <= Cardinality(WorkersOn(p) \ {t}) /\ b <= Cardinality(RetriersOn(p) \ {t})
      BY <2>2, <3>1, FS_Subset
    <3> QED
      BY <3>1, <3>2
  <2> HIDE DEF c, r, a, b
  <2>4. a + Bit(Open(p))' + Bit(Over(p))' + overturned'[p] <= 1 + putBack'[p]
    <3>1. Bit(Open(p))' + Bit(Over(p))' = 1
      BY <1>3, <1>9 DEF Bit, Open, Over, Settled
    <3>2. overturned'[p] <= overturned[p] + Bit(Over(p)) /\ overturned'[p] \in Nat
      BY <1>3, <1>7, <1>9 DEF Bit, Over
    <3>3. /\ Bit(Open(p)) \in Nat /\ Bit(Over(p)) \in Nat
          /\ Bit(Open(p))' \in Nat /\ Bit(Over(p))' \in Nat
      BY DEF Bit
    <3> QED
      BY <1>3, <1>6, <1>7, <1>8, <2>3, <3>1, <3>2, <3>3
  <2>5. Excess(p)' + b + Bit(Open(p))' <= 1 + putBack'[p]
    <3>1. Excess(p)' = Excess(p) /\ Excess(p) \in Nat
      BY <1>3, <1>7 DEF Excess
    <3>2. b + Bit(Open(p))' <= r
      BY <1>3, <1>6, <1>9, <2>3 DEF Bit, Open
    <3>3. Bit(Open(p)) \in Nat /\ Bit(Open(p))' \in Nat
      BY DEF Bit
    <3> QED
      BY <1>3, <1>6, <1>7, <1>8, <3>1, <3>2, <3>3
  <2>6. overturned'[p] <= putBack'[p]
    <3>1. CASE Over(p)
      <4>1. c >= 1 /\ Bit(Over(p)) = 1 /\ Bit(Open(p)) \in Nat
        BY <1>6, <2>3, <3>1 DEF Bit
      <4>2. overturned[p] + 1 <= putBack[p]
        BY <1>6, <1>7, <1>8, <4>1
      <4> QED
        BY <1>3, <1>7, <1>9, <4>2
    <3>2. CASE ~Over(p)
      BY <1>3, <1>8, <1>9, <3>2 DEF Over
    <3> QED
      BY <3>1, <3>2
  <2> QED
    BY <1>3, <1>4, <1>9, <2>4, <2>5, <2>6 DEF a, b
<1>10. CASE p # q
  <2>1. aiStatus'[p] = aiStatus[p] /\ overturned'[p] = overturned[p]
    BY <1>3, <1>10
  <2> HIDE DEF c, r, a, b
  <2>2. a + Bit(Open(p))' + Bit(Over(p))' + overturned'[p] <= 1 + putBack'[p]
    BY <1>3, <1>6, <1>7, <1>8, <2>1 DEF Bit, Open, Over
  <2>3. Excess(p)' + b + Bit(Open(p))' <= 1 + putBack'[p]
    BY <1>3, <1>6, <1>7, <1>8, <2>1 DEF Bit, Open, Excess
  <2> QED
    BY <1>3, <1>5, <1>8, <2>1, <2>2, <2>3 DEF a, b
<1> QED
  BY <1>9, <1>10

\* The first states have a token for nobody.
LEMMA TokensInit ==
  ASSUME Init
  PROVE  ClaimInv /\ AttemptInv
<1>1. ASSUME NEW p \in Products
      PROVE  /\ Cardinality(WorkersOn(p)) = 0 /\ Cardinality(RetriersOn(p)) = 0
             /\ WorkersOn(p) = {}
  <2>1. WorkersOn(p) = {} /\ RetriersOn(p) = {}
    BY DEF Init, WorkersOn, RetriersOn, WorksOn, At, Procs
  <2> QED
    BY <2>1, FS_EmptySet
<1> QED
  BY <1>1, AiPipelineAssumption DEF Init, ClaimInv, AttemptInv, Bit, Open, Over, Excess, Settled

\* Every step of the pipeline keeps the count of the tokens.
LEMMA TokensStep ==
  ASSUME TypeOK, ClaimInv, AttemptInv, [Next]_vars
  PROVE  ClaimInv' /\ AttemptInv'
<1>0. /\ TaskTypes /\ RowTypes /\ RestTypes /\ Recovery \in Procs
      /\ Workers \subseteq Procs /\ Handlers \subseteq Procs
  BY TypeParts DEF Procs
<1>1. ASSUME NEW t \in Handlers, HandlerStep(t) PROVE ClaimInv' /\ AttemptInv'
  <2>1. NoClaim
    BY <1>0, <1>1, RunNoClaim, DoneNoClaim DEF HandlerStep, EditReset, AgainReset, QueueJob
  <2>2. job[t] \in Products
    BY <1>0, <1>1 DEF HandlerStep, EditReset, AgainReset, QueueJob, At, TaskTypes
  <2>3. CASE EditReset(t) \/ AgainReset(t)
    <3>1. PICK v : Reset(job[t], v)
      BY <2>3 DEF EditReset, AgainReset
    <3>2. overturned' = overturned
      BY <2>3 DEF EditReset, AgainReset
    <3>3. \A p \in Products : Kept(p) \/ PutBack(p)
      BY <1>0, <2>2, <3>1 DEF Reset, Kept, PutBack, RowTypes, RestTypes
    <3> QED
      BY <2>1, <3>2, <3>3, QuietTokens
  <2>4. CASE QueueJob(t)
    <3>1. overturned' = overturned /\ \A p \in Products : Kept(p)
      BY <2>4 DEF QueueJob, rowVars, ghostVars, Kept
    <3> QED
      BY <2>1, <3>1, QuietTokens
  <2> QED
    BY <1>1, <2>3, <2>4 DEF HandlerStep
<1>2. ASSUME NEW t \in Handlers, Tap(t) PROVE ClaimInv' /\ AttemptInv'
  <2>1. ASSUME NEW p \in Products, Edit(t, p) \/ Reprocess(t, p) PROVE ClaimInv' /\ AttemptInv'
    <3>1. NoClaim
      BY <1>0, <2>1, RunNoClaim DEF Edit, Reprocess
    <3>2. overturned' = overturned /\ \A q \in Products : Kept(q)
      BY <2>1 DEF Edit, Reprocess, rowVars, ghostVars, Kept
    <3> QED
      BY <3>1, <3>2, QuietTokens
  <2> QED
    BY <1>0, <1>2, <2>1, PostTokens DEF Tap
<1>3. ASSUME NEW t \in Workers, WorkerStep(t) PROVE ClaimInv' /\ AttemptInv'
  <2>1. CASE Take(t)
    <3>1. NoClaim
      BY <1>0, <2>1, RunNoClaim DEF Take
    <3>2. overturned' = overturned /\ \A p \in Products : Kept(p)
      BY <2>1 DEF Take, rowVars, ghostVars, Kept
    <3> QED
      BY <3>1, <3>2, QuietTokens
  <2>2. CASE AllFailed(t)
    <3>1. tries[t] >= MaxAttempts \/ tries[t] < MaxAttempts
      BY <1>0, AiPipelineAssumption DEF TaskTypes
    <3> QED
      BY <2>2, <3>1, StoreTokens DEF AllFailed, Settled
  <2>3. CASE Rewritten(t) \/ Blocked(t) \/ Broken(t)
    BY <2>3, StoreTokens DEF Rewritten, Blocked, Broken, Settled
  <2> QED
    BY <1>3, <2>1, <2>2, <2>3, ClaimTokens DEF WorkerStep
<1>4. CASE RecoveryStep
  <2>1. NoClaim
    BY <1>0, <1>4, RunNoClaim, DoneNoClaim DEF RecoveryStep, ReadRecoverable, QueueBatch
  <2>2. overturned' = overturned
    BY <1>4 DEF RecoveryStep, ReadRecoverable, QueueBatch, ghostVars
  <2>3. \A p \in Products : Kept(p) \/ PutBack(p)
    <3>1. CASE ReadRecoverable
      BY <1>0, <3>1 DEF ReadRecoverable, Kept, PutBack, RowTypes, RestTypes
    <3>2. CASE QueueBatch
      BY <3>2 DEF QueueBatch, rowVars, ghostVars, Kept
    <3> QED
      BY <1>4, <3>1, <3>2 DEF RecoveryStep
  <2> QED
    BY <2>1, <2>2, <2>3, QuietTokens
<1>5. ASSUME \/ \E p \in Products : BecomeDue(p) \/ Abandoned(p) \/ SlowAi(p)
             \/ \E t \in Procs : TaskFails(t)
             \/ Crash
             \/ UNCHANGED vars
      PROVE  ClaimInv' /\ AttemptInv'
  <2>1. NoClaim
    BY <1>0, <1>5, WorldNoClaim, DoneNoClaim DEF BecomeDue, Abandoned, SlowAi, TaskFails, vars
  <2>2. overturned' = overturned /\ \A p \in Products : Kept(p)
    BY <1>5 DEF BecomeDue, Abandoned, SlowAi, TaskFails, Crash, vars, rowVars, ghostVars, Kept
  <2> QED
    BY <2>1, <2>2, QuietTokens
<1> QED
  BY <1>1, <1>2, <1>3, <1>4, <1>5 DEF Next

(* In every reachable state the workers on a product, its open or settled  *)
(* row and its overturned outcomes are at most one more than its put-backs *)
(* ...                                                                     *)
THEOREM ClaimsCorrect == Spec => []ClaimInv
BY TypeCorrect, TokensInit, TokensStep, PTL DEF Spec

(* ... and so are its attempts from the last one on, the workers that      *)
(* would retry it, and its pending row.                                    *)
THEOREM RetriesCorrect == Spec => []AttemptInv
BY TypeCorrect, TokensInit, TokensStep, PTL DEF Spec

(* However often recovery queues an id, no two workers ask the AI for one  *)
(* product at once, but for one more each time its row was put back while  *)
(* it may have been worked on.                                             *)
THEOREM OneWorkerCorrect == Spec => []OneWorkerPerPutBack
<1>1. TypeOK /\ ClaimInv => OneWorkerPerPutBack
  <2> SUFFICES ASSUME TypeOK, ClaimInv, NEW p \in Products
               PROVE  Cardinality(WorkersOn(p)) <= 1 + putBack[p]
    BY DEF OneWorkerPerPutBack
  <2>1. /\ Cardinality(WorkersOn(p)) \in Nat /\ overturned[p] \in Nat /\ putBack[p] \in Nat
        /\ Bit(Open(p)) \in Nat /\ Bit(Over(p)) \in Nat
    BY WorkersFinite, TypeParts DEF RestTypes, Bit
  <2> QED
    BY <2>1 DEF ClaimInv
<1> QED
  BY <1>1, TypeCorrect, ClaimsCorrect, PTL

(* No product is tried more than _MAX_ATTEMPTS times, and once more for    *)
(* each time its row was put back.                                         *)
THEOREM AttemptsCorrect == Spec => []AttemptsBounded
<1>1. TypeOK /\ AttemptInv => AttemptsBounded
  <2> SUFFICES ASSUME TypeOK, AttemptInv, NEW p \in Products
               PROVE  attempts[p] <= MaxAttempts + putBack[p]
    BY DEF AttemptsBounded
  <2>1. /\ Cardinality(RetriersOn(p)) \in Nat /\ putBack[p] \in Nat /\ attempts[p] \in Nat
        /\ Bit(Open(p)) \in Nat /\ MaxAttempts \in Nat
    BY WorkersFinite, TypeParts, AiPipelineAssumption DEF RestTypes, RowTypes, Bit
  <2>2. Excess(p) + Cardinality(RetriersOn(p)) + Bit(Open(p)) <= 1 + putBack[p]
    BY DEF AttemptInv
  <2> QED
    BY <2>1, <2>2 DEF Excess
<1> QED
  BY <1>1, TypeCorrect, RetriesCorrect, PTL

(* A late answer overturns an outcome at most once for each time the row   *)
(* was taken from a worker by putting it back; a late id in the queue      *)
(* never does.                                                             *)
THEOREM OutcomesCorrect == Spec => []OutcomesAreFinal
<1>1. ClaimInv => OutcomesAreFinal
  BY DEF ClaimInv, OutcomesAreFinal
<1> QED
  BY <1>1, ClaimsCorrect, PTL
=============================================================================

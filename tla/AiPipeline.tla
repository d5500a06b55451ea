----------------------------- MODULE AiPipeline -----------------------------
(***************************************************************************)
(* How a post of the source channel becomes a product with AI copy:        *)
(* channel_listener.py creates or resets the row and queues its id,        *)
(* worker.py claims it, has it rewritten and stores the result, and the    *)
(* recovery loop queues again what was left behind (db/products.py).       *)
(*                                                                         *)
(* The queue is memory, the rows are the database.  One action is one      *)
(* transaction, or one await on the AI, with all the task does up to its   *)
(* next await; PRODUCT_QUEUE.put_nowait does not wait.                     *)
(***************************************************************************)
EXTENDS Naturals, Sequences, FiniteSets

CONSTANTS
  MaxProducts,  \* bound: products created
  Workers,      \* settings.ai_workers
  Handlers,     \* handlers of posts, edits and taps running at the same time
  Recovery,     \* recovery_loop
  QueueMax,     \* settings.queue_maxsize
  MaxAttempts,  \* _MAX_ATTEMPTS
  MaxEdits,     \* bound: edits of a source post
  MaxTaps,      \* bound: taps on "AI again"
  MaxFaults,    \* bound: failed calls, slow AI calls and crashes
  MayCrash      \* whether crashes are among them

ASSUME AiPipelineAssumption ==
  /\ MaxProducts \in Nat
  /\ IsFiniteSet(Workers)
  /\ QueueMax \in Nat \ {0}
  /\ MaxAttempts \in Nat \ {0}
  /\ MaxEdits \in Nat
  /\ MaxTaps \in Nat
  /\ MaxFaults \in Nat
  /\ MayCrash \in BOOLEAN
  /\ Workers \cap Handlers = {}
  /\ Recovery \notin Workers \cup Handlers

Products == 1 .. MaxProducts

NoProduct == 0

Procs == Workers \cup Handlers \cup {Recovery}

Settled == {"done", "failed", "blocked"}

\* the source text as posted is version 1, every edit makes the next one
Versions == 0 .. MaxEdits + 1

VARIABLES
  \* the products table
  aiStatus,  \* ai_status; "none": there is no row
  attempts,
  due,       \* products whose next_try_at is NULL or has passed
  stuck,     \* processing rows not written to for _STALE_PROCESSING_MINUTES
  text,      \* version of original_text
  result,    \* version of the text the stored copy was made from; 0: no copy
  \* the source channel
  source,    \* version of the post
  \* memory
  queue,     \* PRODUCT_QUEUE
  pc,
  job,       \* the product a task works on
  ver,       \* the version of the text it works with
  tries,     \* attempts as returned by the claim
  batch,     \* the ids recover_pending is about to queue
  \* bookkeeping of the model
  putBack,    \* how often a row was put back to pending from outside, by a reset or as stuck
  overturned, \* how often a worker wrote another status over an outcome
  taps,
  faults

rowVars == <<aiStatus, attempts, due, stuck, text, result>>
locals == <<job, ver, tries, batch>>
taskVars == <<pc, locals>>
ghostVars == <<putBack, overturned, taps>>
vars == <<rowVars, source, queue, taskVars, ghostVars, faults>>

-----------------------------------------------------------------------------

Free(t) == pc[t] = "idle"

At(t, label) == pc[t] = label

Run(t, label, p, v, n, ids) ==
  /\ pc' = [pc EXCEPT ![t] = label]
  /\ job' = [job EXCEPT ![t] = p]
  /\ ver' = [ver EXCEPT ![t] = v]
  /\ tries' = [tries EXCEPT ![t] = n]
  /\ batch' = IF t = Recovery THEN ids ELSE batch

Done(t) == Run(t, "idle", NoProduct, 0, 0, {})

Init ==
  /\ aiStatus = [p \in Products |-> "none"]
  /\ attempts = [p \in Products |-> 0]
  /\ due = Products
  /\ stuck = {}
  /\ text = [p \in Products |-> 0]
  /\ result = [p \in Products |-> 0]
  /\ source = [p \in Products |-> 0]
  /\ queue = <<>>
  /\ pc = [t \in Procs |-> "idle"]
  /\ job = [t \in Procs |-> NoProduct]
  /\ ver = [t \in Procs |-> 0]
  /\ tries = [t \in Procs |-> 0]
  /\ batch = {}
  /\ putBack = [p \in Products |-> 0]
  /\ overturned = [p \in Products |-> 0]
  /\ taps = 0
  /\ faults = 0

\* a worker that has claimed p and is waiting for the AI
WorksOn(t, p) == At(t, "w_ai") /\ job[t] = p

-----------------------------------------------------------------------------
(* worker.enqueue, db.products.reset_for_reprocess *)

\* the queue after put_nowait; what does not fit is only logged
Enqueue(q, p) == IF Len(q) < QueueMax THEN Append(q, p) ELSE q

\* reset_for_reprocess writes by id, whatever the row says
Reset(p, v) ==
  /\ aiStatus' = [aiStatus EXCEPT ![p] = "pending"]
  /\ attempts' = [attempts EXCEPT ![p] = 0]
  /\ due' = due \cup {p}
  /\ stuck' = stuck \ {p}
  /\ text' = [text EXCEPT ![p] = v]
  /\ putBack' = [putBack EXCEPT ![p] = @ + 1]

-----------------------------------------------------------------------------
(* channel_listener.py, admin_products.on_reprocess *)

\* on_channel_post (an album has become one photo by then): create_product_pending
Post(t, p) ==
  /\ Free(t)
  /\ aiStatus[p] = "none"
  /\ \A q \in Products : q < p => aiStatus[q] # "none"
  /\ aiStatus' = [aiStatus EXCEPT ![p] = "pending"]
  /\ text' = [text EXCEPT ![p] = 1]
  /\ source' = [source EXCEPT ![p] = 1]
  /\ Run(t, "h_queue", p, 1, 0, {})
  /\ UNCHANGED <<attempts, due, stuck, result, queue, ghostVars, faults>>

\* on_edited_channel_post: the text is another one than get_by_source returns
Edit(t, p) ==
  /\ Free(t)
  /\ source[p] \in 1 .. MaxEdits
  /\ source' = [source EXCEPT ![p] = @ + 1]
  /\ Run(t, "h_edit", p, source[p] + 1, 0, {})
  /\ UNCHANGED <<rowVars, queue, ghostVars, faults>>

EditReset(t) ==
  /\ At(t, "h_edit")
  /\ Reset(job[t], ver[t])
  /\ Run(t, "h_queue", job[t], ver[t], 0, {})
  /\ UNCHANGED <<result, source, queue, overturned, taps, faults>>

\* on_reprocess: refused while the row that was read is processing
Reprocess(t, p) ==
  /\ Free(t)
  /\ taps < MaxTaps
  /\ aiStatus[p] \notin {"none", "processing"}
  /\ taps' = taps + 1
  /\ Run(t, "h_again", p, 0, 0, {})
  /\ UNCHANGED <<rowVars, source, queue, putBack, overturned, faults>>

AgainReset(t) ==
  /\ At(t, "h_again")
  /\ Reset(job[t], text[job[t]])
  /\ Run(t, "h_queue", job[t], 0, 0, {})
  /\ UNCHANGED <<result, source, queue, overturned, taps, faults>>

QueueJob(t) ==
  /\ At(t, "h_queue")
  /\ queue' = Enqueue(queue, job[t])
  /\ Done(t)
  /\ UNCHANGED <<rowVars, source, ghostVars, faults>>

-----------------------------------------------------------------------------
(* worker_loop and _process_one *)

\* bookkeeping: whether a worker that writes status changes an outcome
Overturn(p, status) ==
  overturned' = [overturned EXCEPT ![p] =
                   IF aiStatus[p] \in Settled \ {status} THEN @ + 1 ELSE @]

Take(t) ==
  /\ Free(t)
  /\ queue # <<>>
  /\ queue' = Tail(queue)
  /\ Run(t, "w_claim", Head(queue), 0, 0, {})
  /\ UNCHANGED <<rowVars, source, ghostVars, faults>>

\* claim_for_ai finds the row pending
Claimed(t) ==
  LET p == job[t] IN
    /\ aiStatus' = [aiStatus EXCEPT ![p] = "processing"]
    /\ attempts' = [attempts EXCEPT ![p] = @ + 1]
    /\ stuck' = stuck \ {p}
    /\ Overturn(p, "processing")
    /\ Run(t, "w_ai", p, text[p], attempts[p] + 1, {})

\* broken: the claim does not look at ai_status
ClaimAnything(t) ==
  /\ At(t, "w_claim")
  /\ Claimed(t)
  /\ UNCHANGED <<due, text, result, source, queue, putBack, taps, faults>>

\* broken: the claim takes whatever is not processing
ClaimFinished(t) ==
  /\ At(t, "w_claim")
  /\ IF aiStatus[job[t]] # "processing"
       THEN Claimed(t)
       ELSE UNCHANGED <<aiStatus, attempts, stuck, overturned>> /\ Done(t)
  /\ UNCHANGED <<due, text, result, source, queue, putBack, taps, faults>>

Claim(t) ==
  /\ At(t, "w_claim")
  /\ IF aiStatus[job[t]] = "pending"
       THEN Claimed(t)
       ELSE UNCHANGED <<aiStatus, attempts, stuck, overturned>> /\ Done(t)
  /\ UNCHANGED <<due, text, result, source, queue, putBack, taps, faults>>

\* set_ai_result and set_ai_status write by id, whatever the row says by now
Store(t, status, again) ==
  LET p == job[t] IN
    /\ At(t, "w_ai")
    /\ aiStatus' = [aiStatus EXCEPT ![p] = status]
    /\ due' = IF again THEN due \ {p} ELSE due \cup {p}
    /\ stuck' = stuck \ {p}
    /\ result' = IF status = "done" THEN [result EXCEPT ![p] = ver[t]] ELSE result
    /\ Overturn(p, status)
    /\ Done(t)
    /\ UNCHANGED <<attempts, text, source, queue, putBack, taps, faults>>

\* the AI answered (run_downgrade, which follows, is the state of Publish)
Rewritten(t) == Store(t, "done", FALSE)

\* BlockedContentError
Blocked(t) == Store(t, "blocked", FALSE)

\* an unexpected error
Broken(t) == Store(t, "failed", FALSE)

\* broken: one attempt too many
AllFailedTooOften(t) ==
  IF tries[t] > MaxAttempts THEN Store(t, "failed", FALSE) ELSE Store(t, "pending", TRUE)

\* AllProvidersFailed
AllFailed(t) ==
  IF tries[t] >= MaxAttempts THEN Store(t, "failed", FALSE) ELSE Store(t, "pending", TRUE)

-----------------------------------------------------------------------------
(* recovery_loop, and the same call at every start *)

\* broken: rows left in processing are not looked for
ReadRecoverableOnlyPending ==
  LET ids == {p \in due : aiStatus[p] = "pending"} IN
    /\ Free(Recovery)
    /\ ids # {}
    /\ Run(Recovery, "r_queue", NoProduct, 0, 0, ids)
    /\ UNCHANGED <<rowVars, source, queue, ghostVars, faults>>

\* recoverable_ids: one transaction resets the stuck rows and reads the due ones
ReadRecoverable ==
  LET back == {p \in stuck : aiStatus[p] = "processing"}
      ids == back \cup {p \in due : aiStatus[p] = "pending"}
  IN
    /\ Free(Recovery)
    /\ ids # {}
    /\ aiStatus' = [p \in Products |-> IF p \in back THEN "pending" ELSE aiStatus[p]]
    /\ due' = due \cup back
    /\ stuck' = stuck \ back
    /\ putBack' = [p \in Products |-> IF p \in back THEN putBack[p] + 1 ELSE putBack[p]]
    /\ Run(Recovery, "r_queue", NoProduct, 0, 0, ids)
    /\ UNCHANGED <<attempts, text, result, source, queue, overturned, taps, faults>>

\* in the order of the ids, without an await in between
QueueBatch ==
  LET put[p \in 0 .. MaxProducts] ==
        IF p = 0 THEN queue
        ELSE IF p \in batch THEN Enqueue(put[p - 1], p) ELSE put[p - 1]
  IN
    /\ At(Recovery, "r_queue")
    /\ queue' = put[MaxProducts]
    /\ Done(Recovery)
    /\ UNCHANGED <<rowVars, source, ghostVars, faults>>

-----------------------------------------------------------------------------
(* Time and failures *)

\* next_try_at has passed
BecomeDue(p) ==
  /\ p \notin due
  /\ due' = due \cup {p}
  /\ UNCHANGED <<aiStatus, attempts, stuck, text, result, source, queue, taskVars, ghostVars, faults>>

\* ten minutes have passed, and nobody works on p any more
Abandoned(p) ==
  /\ aiStatus[p] = "processing" /\ p \notin stuck
  /\ \A t \in Workers : ~WorksOn(t, p)
  /\ stuck' = stuck \cup {p}
  /\ UNCHANGED <<aiStatus, attempts, due, text, result, source, queue, taskVars, ghostVars, faults>>

\* ten minutes have passed, and the AI is still being asked
SlowAi(p) ==
  /\ faults < MaxFaults
  /\ aiStatus[p] = "processing" /\ p \notin stuck
  /\ \E t \in Workers : WorksOn(t, p)
  /\ stuck' = stuck \cup {p}
  /\ faults' = faults + 1
  /\ UNCHANGED <<aiStatus, attempts, due, text, result, source, queue, taskVars, ghostVars>>

\* a database call raises: the handler ends, or the loop goes on with the next item
TaskFails(t) ==
  /\ faults < MaxFaults
  /\ ~Free(t)
  /\ faults' = faults + 1
  /\ Done(t)
  /\ UNCHANGED <<rowVars, source, queue, ghostVars>>

\* the process is killed and started again
Crash ==
  /\ MayCrash
  /\ faults < MaxFaults
  /\ faults' = faults + 1
  /\ queue' = <<>>
  /\ pc' = [t \in Procs |-> "idle"]
  /\ job' = [t \in Procs |-> NoProduct]
  /\ ver' = [t \in Procs |-> 0]
  /\ tries' = [t \in Procs |-> 0]
  /\ batch' = {}
  /\ UNCHANGED <<rowVars, source, ghostVars>>

-----------------------------------------------------------------------------

HandlerStep(t) == EditReset(t) \/ AgainReset(t) \/ QueueJob(t)

Tap(t) == \E p \in Products : Post(t, p) \/ Edit(t, p) \/ Reprocess(t, p)

WorkerStep(t) ==
  Take(t) \/ Claim(t) \/ Rewritten(t) \/ Blocked(t) \/ Broken(t) \/ AllFailed(t)

RecoveryStep == ReadRecoverable \/ QueueBatch

Next ==
  \/ \E t \in Handlers : HandlerStep(t) \/ Tap(t)
  \/ \E t \in Workers : WorkerStep(t)
  \/ RecoveryStep
  \/ \E p \in Products : BecomeDue(p) \/ Abandoned(p) \/ SlowAi(p)
  \/ \E t \in Procs : TaskFails(t)
  \/ Crash

Spec == Init /\ [][Next]_vars

\* awaited calls return, the loops of the workers and of the recovery are
\* restarted for ever (supervisor.py), and time passes
FairSpec ==
  /\ Spec
  /\ \A t \in Handlers : WF_vars(HandlerStep(t))
  /\ \A t \in Workers : WF_vars(WorkerStep(t))
  /\ WF_vars(RecoveryStep)
  /\ \A p \in Products : WF_vars(BecomeDue(p)) /\ WF_vars(Abandoned(p))

-----------------------------------------------------------------------------
(* Properties *)

TypeOK ==
  /\ aiStatus \in [Products -> Settled \cup {"none", "pending", "processing"}]
  /\ attempts \in [Products -> Nat]
  /\ due \in SUBSET Products
  /\ stuck \in SUBSET Products
  /\ text \in [Products -> Versions]
  /\ result \in [Products -> Versions]
  /\ source \in [Products -> Versions]
  /\ queue \in Seq(Products) /\ Len(queue) <= QueueMax
  /\ pc \in [Procs -> {"idle", "h_edit", "h_again", "h_queue", "w_claim", "w_ai", "r_queue"}]
  /\ job \in [Procs -> Products \cup {NoProduct}]
  /\ \A t \in Procs : pc[t] \notin {"idle", "r_queue"} => job[t] \in Products
  /\ ver \in [Procs -> Versions]
  /\ tries \in [Procs -> Nat]
  /\ batch \in SUBSET Products
  /\ putBack \in [Products -> Nat]
  /\ overturned \in [Products -> Nat]
  /\ taps \in 0 .. MaxTaps
  /\ faults \in 0 .. MaxFaults

WorkersOn(p) == {t \in Workers : WorksOn(t, p)}

(* Although one product is often queued several times (recovery queues     *)
(* every due row, also those already waiting), no two workers ask the AI   *)
(* for it at once, but for one more each time its row was put back to      *)
(* pending from outside: by an edit or "AI again" (reset_for_reprocess),   *)
(* or by recoverable_ids, which takes a slow AI call for dead.             *)
OneWorkerPerPutBack == \A p \in Products : Cardinality(WorkersOn(p)) <= 1 + putBack[p]

(* A product that keeps failing is given up after _MAX_ATTEMPTS: no retry  *)
(* of its own, and no second worker on it, adds an attempt.  Only a row    *)
(* put back from outside gets one more, also when that was its last        *)
(* attempt (recoverable_ids leaves ai_attempts as it is), or when a worker *)
(* on its old text fails late.                                             *)
AttemptsBounded == \A p \in Products : attempts[p] <= MaxAttempts + putBack[p]

(* The outcome of a product is final for the workers: a late id in the     *)
(* queue never reopens it.  A late answer does (set_ai_result and          *)
(* set_ai_status look at nothing but the id), but only that of a worker    *)
(* from whom the row was taken by putting it back, and once each time.     *)
OutcomesAreFinal == \A p \in Products : overturned[p] <= putBack[p]

(* Nothing is forgotten: every product that waits for the AI is rewritten, *)
(* blocked or given up in the end, also when its id did not fit into the   *)
(* queue, its worker died, or the process was killed (worker.py:44, "the   *)
(* safety net for a full queue or a crash").                               *)
EverythingSettles ==
  \A p \in Products : (aiStatus[p] \in {"pending", "processing"}) ~> (aiStatus[p] \in Settled)

(* README.md:41, "edits re-run the AI": when nothing is left to do, the    *)
(* copy of a finished product was made from the post as it is now.         *)
EditsReRunTheAi ==
  (\A t \in Procs : Free(t)) /\ queue = <<>> =>
    \A p \in Products : aiStatus[p] = "done" => result[p] = source[p]
=============================================================================

# SavdogarBot: verification project

SavdogarBot (`src/`) is a Telegram shop bot: products arrive from channels, an
AI writes their texts, a scheduler posts them, customers order or ask, and
admins answer. This directory holds TLA+ models of it, TLC runs and TLAPS
proofs about them.

All of the bot is one asyncio process. Every handler invocation and every
background loop is a task of its event loop. Between two awaits a task is
atomic; at every await (a database transaction or a Telegram call) any other
task may run, the awaited call may raise, and the process may be killed. Each
database function runs one transaction (`engine.begin()`). What is kept in
memory (form states in `MemoryStorage`, `_confirming`, the AI queue) is lost in
a restart. The models therefore have one action per transaction or observable
message, with all the handler does up to its next await.

## Inventory

| Component | State | Operations | What is hard | What makes it correct | Module |
|---|---|---|---|---|---|
| Orders (`db/orders.py`, `handlers/client.py`, `handlers/admin_products.py`) | `orders` rows: status, outcome, chat_open; `_confirming`; form states | confirm, accept, reject, finish, withdraw, end chat, clean up | several admins and the customer act on one order; double taps; a handler dies half-way | one verdict, one outcome, true notices once, no duplicate order, an ended chat stays ended | `Orders` |
| Order cards and relay (`client.py`, `admin_products.py`, `db/orders.py`) | admin_msg_ids, chat_relay, buttons on the admins' cards | notify, edit cards, show lists, relay, delete messages | ids are written back after awaits; cards are sent anew while others stay | cards follow the order, every reply finds its chat, the clean-up leaves nothing | `OrderCards` |
| Reminders (`order_reminder.py`) | remind_count, reminded_at | the reminder job | decision during the loop; crash between send and mark; nobody reachable | at most the maximum, and always the maximum | `OrderCards` |
| Order form (`client.py`, `db/customers.py`) | FSM state and data per customer | the questions, saved details, expiry | /cancel or a new form during an await | an order has all its data, from one form | confirming only, in `Orders` |
| Inquiries (`db/inquiries.py`, `inquiry_idle.py`, `inquiry_wait.py`, `client.py`) | one row per customer, history, tracked cards | ask, claim, continue, relay, close, idle sweep, wait sweep | claims race with sweeps and with new rounds | one owner, who has the whole talk; quiet chats are offered | `Inquiries` (without tracked cards) |
| AI pipeline (`worker.py`, `db/products.py`, `channel_listener.py`) | product rows, queue | create, claim, set result, recover, edit | crash while processing, edit while processing, full queue | every product is processed or given up after the last attempt | `AiPipeline` |
| AI router (`ai/router.py`, `db/keystate.py`) | key and model states, sticky choice | generate, answers of a provider, saving | calls share the state and finish out of order | ends, tries what can be tried, never what another call found unusable | `AiRouter` |
| Publishing (`poster.py`, `repolish.py`, `source_sweep.py`, `post_id.py`) | post_log, captions, status | publish, mark sold, edit, polish, refresh, remove, sweep | edited or sold during publication, crash after send | what is sent or edited has its ID, posts show the row, one per chat | `Publish` |
| Autopost and settings (`scheduler.py`, `db/settings.py`, `db/products.py`, `handlers/admin.py`) | settings row and cache, the job's interval, categories | settings page, autopost, post now, ranking | cache and interval change under concurrent changes | cache and interval follow the row, the shop keeps posting, ranks are right | `Autopost` |
| Chat registry (`db/chats.py`, `chat_guard.py`, `chat_access.py`, `handlers/admin_chats.py`) | chats, pending_chats, RAM copies | join, leave, register, remove, sweep | registration during the sweep, updates out of order | the copies follow the tables, foreign chats are left, registered ones are not | `ChatRegistry` |
| Administrators and menus (`db/admins.py`, `handlers/admin_manage.py`, `bot_commands.py`) | admins table and copy, command menus | add, remove | the same admin added and removed at once | a removed admin has no admin menu | not modelled |
| Database engine (`db/engine.py`, `db/schema.py`) | schema version | migrate | a migration that dies | every migration runs once | not modelled |
| Lifecycle (`main.py`, `supervisor.py`) | tasks, backoff | supervise | restart | a loop that died is restarted, with a bounded delay | not modelled |
| Menus, logging, health | | | | no interaction worth a model, or pure I/O | not modelled |

Interactions: the customer's and the admins' handlers share the order and
inquiry rows and the admins' cards; the background loops read and write the
same rows between a handler's awaits; the channel listener feeds the worker's
queue; the worker and the edits ask the router; the scheduler, the admin panel
and the source sweep all publish and edit the same posts under
`poster._publish_lock`.

## Plan

1. `OrderSpec`, `Orders` with `OrdersProofs` (done).
2. `OrderCards` with `OrderCardsProofs` (done).
3. `Inquiries` with `InquiriesProofs` (done). Left: a single-owner specification
   it implements, and `InquiryCards`, which would add the `inquiry_notice` rows.
4. `AiPipeline` with `AiPipelineProofs` (done).
5. `Publish`, `Autopost`, `ChatRegistry` with `PublishProofs`, `AutopostProofs`
   and `ChatRegistryProofs` (done).
6. `AiRouter` with `AiRouterProofs` (done).
7. Left: `OrderForm`, `InquiryCards`, `Migrations`, `Supervisor`.

The project keeps to a dozen runs, so that all of them stay quick to repeat, and
to the properties that tell most: `TypeOK` says in every module what its
variables range over, and `orders_safety` checks it where theorems rest on it.
In every module the operators under a comment "broken:" are mistakes somebody
could make in that code; no specification uses them, each violates a property.

## The order flow

`Orders.tla` keeps the `orders` table as sets and functions over order ids, the
form and `_confirming` per customer, and for every task a program counter and
its locals. A program counter names the next await of a handler:

| pc | handler | next step |
|---|---|---|
| `c_data` … `c_end` | `on_confirm` | form data, product check, duplicate check, `create_order`, `_notify_admins`, `set_admin_msgs`, `finally` |
| `d_open` … `d_cards` | `on_order_decision` | `set_chat_open`, `get_order`, notice, cards |
| `f_get` … `f_tell` | `on_order_finish` | `get_order`, cards, notice |
| `w_tell` … `w_cards` | `on_user_cancel` | answer, `get_order`, cards |
| `k_close`, `k_tell` | `on_chat_close` | `close_chat_if_open`, notice |
| `p_delete` | `on_clean_go` | the DELETE after the SELECT |

The `Start…` actions are the handlers' first transaction when its conditional
UPDATE changes a row; when it changes none the handler only shows an alert,
which is a stuttering step. `told` counts the notices handed to Telegram for
delivery. `status` and `outcome` keep their value after a row is deleted, so
that properties can speak of the order's history; no action reads them without
`stored`. `HandlerFails` ends a handler at any await, `on_confirm` through its
`finally`; `Crash` loses everything in memory.

`OrderSpec.tla` is the promise: place once, one verdict, one outcome, forget
only what is over, and let the customer hear only what happened. `Orders`
implements it with the mapping `Promise` (phase from status and outcome, kept
from the stored rows, heard from `told`).

### Runs

| Run | Bounds | Shows |
|---|---|---|
| `orders_safety` | 1 order, 1 customer, 3 tasks, 1 fault, weak fairness | types, an ended chat stays ended, notices, the inductive invariant, refinement of `OrderSpec`; the customer is told, the confirmation ends |
| `orders_confirm` | 2 orders, 2 tasks | no duplicate order |

One order is enough for the verdict properties because no handler step reads
two orders except the clean-up and the duplicate check; the duplicate check
gets two ids. Three tasks let three handlers meet on one order: a decision, a
finish and an end of chat is the longest chain of handlers that enable each
other. One fault lets any one handler die, or the process crash once, at any
point. `Capacity` starts a confirmation only while an id is left for it, a
bound of the model. `TaskSymmetry`, used by `orders_confirm` only, is sound for
its invariant: tasks are interchangeable and never compared.

Fairness: `FairSpec` has weak fairness on each task's steps, because the event
loop resumes every task whose awaited call has returned and every database and
Telegram call has a time limit. Nothing is assumed of customers, admins, time,
failures or crashes.

Races the model shows and no property forbids:

- `db/orders.py:200` says that "a finished order can never keep relaying
  messages". The code does not keep to it: `set_chat_open` (`db/orders.py:143`)
  has no condition and runs after an await (`client.py:1520`), so an order
  finished in between is left with its chat open. What does hold, and
  `EndedChatStaysEnded` says, is that a chat that was open and was ended, by the
  button or with the order, is not opened again;
- a crash between `decide_order` and the notice is not repaired: the order stays
  accepted with its chat closed, and the customer is not told (`client.py:1517`).
  `AcceptedIsTold` is therefore claimed without failures.

### Proofs

`OrdersProofs` proves for every number of orders, customers, products, tasks
and faults:

- `TypeCorrect`. The clause that a confirming handler has a customer is needed:
  `form[who[t]]` has no type without it.
- `ConfirmCorrect`, the invariant `ConfirmInv`: `_confirming` is exactly the
  set of customers with a running confirmation, there is one per customer, and
  at the INSERT no fresh pending order matches. `NoDuplicateOrder` alone is not
  inductive: between the check and the INSERT only the exclusion keeps the
  result of the check true. `ConfirmStays` covers every step that adds no fresh
  pending order; `ConfirmInvCreate` is the INSERT itself.
- `NoticesCorrect`, the invariant `NoticesAreTrue`: an event (`Event`), once
  happened, stays; a handler that still owes a notice got there by making the
  event happen, so the notice was not sent and nobody else owes it.
  `HandlerStep` is the common argument, `QuietStep` and `TellStep` its two
  simple uses; each conditional UPDATE has a lemma of its own.
  `EachNoticeOnce` follows.
- `EndedChatStaysEndedHolds`, an action property that needs the same invariant:
  a handler about to open a chat has made the verdict itself and is the only one
  that did, so the chat was never open before.

`ConfirmInv` is the conjunction of `ConfirmingIsRunning`, `OneConfirmation` and
`NoDuplicateOrder`; of the three the runs check the last.

`OrdersImplementPromise` is the refinement, `Spec => KeepsPromise`. The
only assumptions are those of `OrdersAssumption` on the constants. The liveness
properties are model-checked only, since they rest on fairness.

## Order cards, live chat and reminders

`OrderCards.tla` has the same `orders` rows again, with `admin_msg_ids`
(`cards`), `remind_count` (`count`) and the `chat_relay` rows (`relay`), and the
messages in the admins' chats with the buttons they show. What the customer is
told stays in `Orders`.

| pc | handler | next step |
|---|---|---|
| `n_get` … `n_save` | `_notify_admins` | `get_order`, a card per admin, `set_admin_msgs` |
| `d_open` | `on_order_decision` | `set_chat_open` |
| `g_get`, `g_edit` | `on_order_decision`, `on_order_finish`, `on_user_cancel` | `get_order`, `_edit_admin_cards` |
| `d_link` | `on_order_decision` | `record_relay_message` for the cards |
| `k_get`, `k_edit` | `on_chat_close` | `get_order`, the buttons of the tapped message |
| `s_send` … `s_delete` | `_send_order_card`, order by order | card, `set_admin_msgs`, relay row, deletion of the old card |
| `t_send`, `t_link` | `on_customer_chat_message` | copies to the admins, relay rows |
| `c_delete` | `on_clean_go` | deletion of the messages |
| `r_get` … `r_mark` | `remind_pending_orders` | second look, message to the admins, `mark_reminded` |

A loop over the admins is one step that reaches some of them: its calls go to
different chats, and no other task acts on what one iteration leaves. Waiting
times are a free choice: any waiting order may be due. Headers, reminders and
notes of a withdrawal are not kept track of by the code, have no buttons and
stay in the chats, so they are no messages here.

| Run | Bounds | Shows |
|---|---|---|
| `order_cards` | 1 order, 2 admins, 5 messages, 2 tasks, at most 1 reminder, 1 fault, weak fairness | one current card per admin, every reply finds the chat, nothing is left after the clean-up; reminders are bounded and happen |

One order is enough for the cards because rows do not read each other; two
admins have a card each, and five messages are a card for both, a list or a
message of the customer, and one more. `MaxMixed` is zero: the run leaves out
behaviours in which two tasks work on the cards of one order at once, since the
code promises nothing for them (below). Reminders may meet any
handler, the customer's messages any but a clean-up.
Fairness: weak on the steps of every task and on the job, which the scheduler
starts every few minutes.

Races outside the run's bound, which the code does not exclude:

- `_notify_admins` saves the card ids after all cards were sent
  (`client.py:516`): a card of an order accepted before is neither edited nor
  linked;
- two admins who list the orders at the same time overwrite each other's newer
  card ids (`admin_products.py:778`);
- a card listed before the chat opens and sent after it does not lead replies to
  the customer (`admin_products.py:779`);
- a decision and a finish may edit the cards in the other order, so that an old
  state stays on them;
- a message of the customer that meets the clean-up leaves messages, and relay
  rows of an order that is no more;
- a crash between a reminder and `mark_reminded` repeats the reminder
  (`order_reminder.py:100`); `RemindersBounded` counts these.

### Proofs

`OrderCardsProofs` proves, for every number of orders, admins, messages, tasks,
reminders and faults:

- `TypeInvCorrect`: the types, which place each kind of handler can be at and
  what it must have read there (`Shape`), that the ids a handler has reserved
  are within `Msgs` (`Held`), and that one reminder job runs. `TypeOK` follows.
- `RemindersCorrect` (`RemindersBounded`) by `RemindInv`: what was heard of an
  order that may still be reminded is at most its count and the faults, and one
  more while the job stands between the message and `mark_reminded`. The bound
  alone is not inductive: it does not say why a message may still be sent.
- `RefsCorrect` (`RefInv`): every message id in a row, in a row a task has read,
  or in a task's hands is a message of that order. It holds without exception,
  in the races listed below too. `FreshInv` keeps the reserved ids apart.
- `ClearCorrect` (`ClearInv`): for an order that nothing failed at and no two
  handlers met at, `Phase` says what holds between any two awaits of the one
  handler that works on it, `LinkInv` where each of its messages is known: in
  `chat_relay`, in `admin_msg_ids`, or in the hands of the handler that is about
  to write it. From it follow `CardIsCurrent`, `EveryReplyFindsTheChat` and
  `NothingIsLeftBehind`; none of them is inductive, since they speak only of
  the moments at which no handler is at work.

The proof of `ClearInv` goes action by action. `AsideKept` and `SparedKept` deal
with the orders an action has nothing to do with; `PhaseKept` and `OwnKept` with
what it leaves of the order it works on. `MaxMixed` is any number here: the
theorems hold of every order that is not in `mixed`, however many others are.

## The inquiry flow

`Inquiries.tla` is the inquiry of one customer; every query names one `user_id`,
so the inquiries of two customers do not meet. `round` counts how often it was
opened. Time is what the code compares with: `age` is how old `updated_at` is
(younger than `INQUIRY_IDLE_HOURS`, older, older than 24 hours) and `ripe` says
that the customer's first message has waited `INQUIRY_WAIT_MIN` minutes. Any
write makes `age` fresh (the column's onupdate hook) except the two `mark_*`
statements. `got` is what an admin's chat holds for good: taps and replies that
were sent before a card was edited arrive later, so an old button can always
still be used; the one that ends the chat is on every card, the unclaimed one too
(`client.py:732`). `Tasks` are handlers, `IdleSweep` and `WaitSweep` the two jobs,
of which the scheduler runs one instance each.

| pc | handler | next step |
|---|---|---|
| `n_send`, `n_cards` | `on_product_ask` | card and relay row per admin, tracked cards |
| `a_cards` | `on_inquiry_claim` | other cards, note to the customer |
| `r_cards` … `r_record` | `_reply_to_inquiry` | cards, `touch_inquiry`, copy and `record_inquiry_history` |
| `h_cards` … `h_replay` | `on_inquiry_continue` | cards, `get_open_inquiry`, the transcript |
| `m_touch` … `m_send` | `_relay_inquiry_message` | `touch_inquiry`, cards, `record_inquiry_history`, copy per target |
| `k_close`, `k_cards` | `on_inquiry_close` | `close_inquiry_if_open`, cards |
| `i_mark` … `i_cards` | `sweep_idle_inquiries` | `mark_idle_notice_sent`, card per admin, tracked cards |
| `w_mark`, `w_send` | `sweep_unanswered_inquiries` | `mark_wait_notice_sent`, note |

The rows of `inquiry_notice` and the edits of cards are left to `InquiryCards`:
they are read only to edit cards and decide nothing in this module. The
administrators are fixed in a behaviour, and there is at least one
(`BOSH_ADMIN_ID` is required). A replay is taken to contain the whole
transcript; the code stops at the last 50 messages.

| Run | Bounds | Shows |
|---|---|---|
| `inquiries_rounds` | 2 admins, 2 handlers, 2 openings, 1 message | one owner at a time, who has the whole talk |
| `inquiries_faults` | 2 admins, 1 handler, 1 opening, 1 message, 1 fault, weak fairness | no announcement for an active chat; a quiet chat is offered, a waiting customer is told |

Two admins are enough to contend for a chat, two handlers and both sweeps to
interleave any two tasks with both jobs, two openings for what an earlier round
leaves behind, and one message because `OwnerHasTheTalk` speaks of one message
at a time and no handler reads two. `MaxMsgs` counts replies too. The system
may come to rest (a closed inquiry nobody opens again), so deadlock is not
checked. `Interchangeable` (of `inquiries_rounds`) is sound for its properties:
neither tasks nor admins are ever compared with a particular one.

Fairness: weak on every handler's steps, and on each sweep, which the scheduler
starts every two minutes and every minute. `QuietChatIsOffered` and
`WaitingCustomerIsTold` are claimed without failures only: after a failed send
nothing is sent again.

Races the model shows and no property forbids:

- a message whose handler read `claimed_by` before a takeover is recorded after
  the replay and copied to the former owner only (`client.py:1806`), although
  `README.md:63` promises the new owner the conversation so far;
- both sweeps set their flag before they send, and no later run sends again when
  the send fails (`inquiry_wait.py:58`, `inquiry_idle.py:48`);
- the waiting note goes out although an admin accepts between
  `mark_wait_notice_sent` and the send (`inquiry_wait.py:58`, 64);
- `try_claim_inquiry` does not look at `updated_at`, so an expired inquiry is
  claimed and becomes live again (`db/inquiries.py:132`);
- `record_inquiry_history` has no condition, so a message that is being handled
  while the customer asks anew enters the new transcript
  (`db/inquiries.py:368`).

### Proofs

`InquiriesProofs` proves, for every set of admins and tasks and every number of
rounds and messages:

- `TypeInvCorrect`: the types together with `LocalsInv`, that a handler which
  goes on with a message or an admin has one. The type of `copied` after a
  delivery needs it. `TypeCorrect` is `TypeOK` alone.
- `OwnershipCorrect` (`OwnershipPasses`), an action property. `RowMove` lists the
  ways a step may change the row, one per conditional UPDATE of
  `db/inquiries.py`; `RowMoves` shows that these are all.
- `OfferCorrect` (`OfferedIsQuiet`) by `OfferInv`: the flag `idle_notice_sent` is
  set exactly when one announcement is out, and only for an owned, quiet chat.
- `OwnerHasTheTalkCorrect` (`OwnerHasTheTalk`) by `TalkInv`: until the first
  takeover, a message whose handler has still to send it goes to every admin or
  to the owner. The property speaks of finished messages only; what makes it
  inductive is what the handlers on their way have read.

`Moves` says what a step of one handler leaves of all the others, so that each
invariant is shown for the stepping handler and kept for the rest.

## The AI pipeline

`AiPipeline.tla` follows a post of the source channel to a product with AI copy.
`text` is the version of the post in the row, `source` the version in the
channel, `result` the version the stored copy was made from. The queue and the
tasks are memory, the rest is the `products` table. `due` and `stuck` are what
`recoverable_ids` compares with the clock: `next_try_at` has passed, and the row
has not been written to for ten minutes.

| pc | task | next step |
|---|---|---|
| `h_edit`, `h_again` | `on_edited_channel_post`, `on_reprocess` | `reset_for_reprocess` |
| `h_queue` | these two and `on_channel_post` | `enqueue` |
| `w_claim`, `w_ai` | `worker_loop` | `claim_for_ai`; the AI's answer and its storing |
| `r_queue` | `recover_pending` | `enqueue` of every id read |

The wait for the AI and the write that follows it are one action: between the
answer and the write the task holds nothing that another task can change. An
album is one post: nobody else reads its buffer, and an edit that arrives before
the row exists is dropped by the handler (`product is None`) and left out here.
The category pass after a result (`run_downgrade`) does not touch what is
modelled. `TaskFails` stands for a database call that raises, in a handler, a
worker (whose product then stays in processing) or the recovery loop. `SlowAi`
is an AI call that outlives the ten minutes after which its row counts as stuck.
`putBack` counts how often a row was put back to pending from outside, by an
edit, by an admin or by the recovery, and `overturned` how often a worker wrote
another status over an outcome. They are what the properties are stated with:
`set_ai_result` and `set_ai_status` look at nothing but the id, so a worker from
whom the row was taken may go on beside the next one, and its late answer may
reopen a finished product or spend an attempt beyond `_MAX_ATTEMPTS`. Each
put-back is good for one such step and no more; no duplicate id in the queue, no
retry and no crash adds any.

| Run | Bounds | Shows |
|---|---|---|
| `pipeline` | 1 product, 2 workers, 2 handlers, queue of 1, 2 attempts, 1 edit, 1 tap, 1 fault, weak fairness | one worker, the attempts allowed and a final outcome, but for one more of each per put-back; every product is rewritten, blocked or given up |
| `pipeline_edits` | 1 product, 2 workers, 1 handler, 1 edit, no fault | violation: an edit that is never rewritten |

One product is enough, since rows do not read each other and only the queue is
shared; a queue of one lets an id be dropped, because the recovery loop and the
handlers queue the same product, though the id dropped is then one already
queued: two products did not fit the run. The edit, the tap and the recovery of
a slow call put a row back up to three times, and the bounds of all three
properties are reached. Two attempts let a product be retried and given
up; `_MAX_ATTEMPTS` is five. The system comes to rest when everything is
settled, so deadlock is not checked.

Fairness: weak on handlers, workers and the recovery loop, whose awaited calls
return and which `supervisor.py` restarts; and on the passing of time
(`BecomeDue`, `Abandoned`). Nothing is assumed of posts, edits, taps or faults.

### Proofs

`AiPipelineProofs` proves, for every number of products, workers and handlers,
every length of the queue and every number of attempts:

- `TypeCorrect` (`TypeOK`): the queue stays within its maximum. The recovery
  puts a whole list on the queue with a fold; `AllNumbers` and `LeastNumber`
  show what it returns by looking at the least number of turns for which it
  would be otherwise.
- `ClaimsCorrect` (`ClaimInv`), an inductive invariant by counting: a product has
  one token, and one more for each put-back. A token is in the row while that is
  pending or settled, with each worker that waits for the AI, and spent in each
  outcome overturned. A claim takes the row's token, an answer gives the
  worker's back, so an outcome is overturned only where two tokens meet. The
  properties alone do not say why a second claim is refused.
- `RetriesCorrect` (`AttemptInv`), the same for attempts: tokens are in a pending
  row, with a worker whose failure would be tried again, and spent in each
  attempt from the last allowed one on.
- `OneWorkerCorrect` and `OutcomesCorrect` (`OneWorkerPerPutBack`,
  `OutcomesAreFinal`) follow from the first, `AttemptsCorrect`
  (`AttemptsBounded`) from the second. Nothing is exempt: faults, crashes,
  resets and recoveries at any moment are in the count. The workers are assumed
  finitely many, since they are counted.

## Publishing

`Publish.tla` follows finished products into the target chats. A caption is the
values of the fields it was built from and a `tag`: the ID line is there
("shown"), missing, or missing in a product without a sales pitch ("stuck"),
which `ensure_caption_id` returns unchanged (`post_id.py:28`). Products whose
`ai_status` is not "done", which it returns unchanged too, are not in the module.
`data` is what the row stores, `caption` the stored `caption_html`, `live` the logged
posts with `is_live`, `view` what a post shows.

| pc | task | next step |
|---|---|---|
| `l_wait`, `l_id` | `publish_product` | `_publish_lock`, `ensure_caption_id` |
| `s_send` … `s_mark` | `publish_product`, target by target | the post, `add_post_log`; `mark_posted` |
| `d_list` … `d_dead` | `publish_product` with `delete_previous`, `_drop_live_posts` | `live_posts`, `delete_message`, `mark_post_dead` |
| `x_id` … `x_dead` | `_edit_live_posts` | `ensure_caption_id`, `live_posts`, an edit per post, `mark_post_dead` |
| `t_set` | `mark_sold`, `mark_available` | `set_status` |
| `e_write`, `e_answer` | `on_edit_value` | `update_fields`, the answer |
| `p_wait` … `p_write` | `repolish_after_edit` | the product's lock, the AI, the new caption |
| `f_read` | `refresh_live_posts` | `get_product` |
| `w_probe`, `w_drop` | `sweep_deleted_source_posts` | the probe of a source post, `set_status` |

| Run | Bounds | Shows |
|---|---|---|
| `publish` | 1 product, 2 chats, 2 fields, `delete_previous`, 2 tasks, 3 publications, 2 operations, 1 fault | posts match the row; one post per chat; dropped products are taken down; what is sent or edited has its ID |

One product is enough: rows do not read each other, and what two products share
(the lock) is also contended by two publications of one. Two chats are needed
for a publication that fails half-way, two fields for edits that overwrite each
other. The behaviours start with a product never posted or posted in every chat,
its caption with the ID line, without it, or without it and a sales pitch; a
posted one may have got the line in the row only, since the start-up backfill
edits no post. Three publications are the one at the start and two more that
meet. The system may come to rest, so deadlock is not checked; there is no
liveness claim and no fairness.

What the properties leave out, because the code promises less there:

- `README.md:44` of the repository says that "every post in the TARGET channel
  shows" its ID, and that old captions get the line "right before they are posted
  or edited".
  `ShownWithItsId` is about what is sent or edited: a post from before the ID line
  that nobody edits stays without it, and without a sales pitch the code posts
  and edits a product without it, as the docstring says. Also, an edit gives such
  a product a caption with the line, and a publication that read the row before
  still sends the old one.
- By `README.md:45` "the plain caption with the admin's data is used instead" of a
  pitch the AI got wrong. `PostsMatchTheRow` covers it: `PolishFails` is no fault.
  But when two edits of one product overlap and the AI fails for the last one,
  the stored caption lacks the value of the other (`admin_products.py:658`).
  `met` has the products two edits met on, and they count as `mixed` once the AI
  fails for one.
- After any fault `PostsMatchTheRow` and `OnePostPerChat` are not claimed: a post
  may have been sent without being logged, or an edit refused.
- `DroppedIsTakenDown` is claimed with faults: no live post is left although
  Telegram refused a deletion. That none is visible needs a run without them.

`mixed` has the products that two tasks of different kinds worked on at once;
for them, and after a failure, posts and row may part for good:

- an edit between the second read of `repolish_after_edit` and its write
  (`repolish.py:93` to 110) is overwritten in the caption, and nothing repairs
  it when the AI fails for the newer edit;
- a product marked sold, or removed, while it is being published is posted with
  the buy button (`poster.py:92` to 115);
- a crash between the send and `add_post_log` (`poster.py:115` to 129) leaves a
  post nobody edits or deletes;
- a deletion Telegram refuses is marked dead all the same (`poster.py:146`), so
  the post stays.

`dropped` has the products the sweep has taken down, until a message of theirs
is sent again; whether the row was active again is not asked, because an admin
may publish a dropped product by hand.

### Proofs

`PublishProofs` proves, for every number of products, chats and publications and
every finite set of tasks:

- `TypeInvCorrect`: the types, what a task at a place must hold, and that the
  publications begun or waiting for the lock need no more messages than there
  are (`BoundInv`, a matter of the model's bound only).
- `TasksInvCorrect`, which holds whatever fails: one publication in the lock, one
  polish of a product, tasks that hold messages of their own product only
  (`MsgInv`), and `LineInv`, what the caption in a task's hands says of the stored
  one. That two publications never have a message in common is
  `MsgOfInjective`.
- `IdCorrect` (`ShownWithItsId`), an action property, from `LineInv`: a caption is
  sent or shown only with the line or where it was read as stuck, and no write
  takes a line away, so the stored one is stuck still unless an edit came between.
- `SweepsCorrect` (`SweepsInv`), with faults too: while the sweep takes a product
  down, every live post of it is on its list, and none is added to a dropped one.
- `ProductsCorrect` (`ProductsInv`): for a product no fault and no second kind of
  work disturbed, what its tasks have read is what is stored unless a newer edit
  is ahead of its polish (`TextInv`); whoever is about to show it anew has in its
  hands every post that differs (`ShowInv`); a post is live exactly when it shows,
  but for the one between send and log or between deletion and mark (`SeenInv`); a
  publication knows what it has sent (`SentInv`); and the live posts are those of
  one publication (`QuietInv`). Each part needs the others: that an edit reaches
  every post rests on the list of live posts, which rests on the log.
- `RowCorrect` and `OnePostCorrect` (`PostsMatchTheRow`, `OnePostPerChat`) read it
  off where nobody is at work, `DroppedCorrect` (`DroppedIsTakenDown`) from it and
  `SweepsInv`.

A step that works on another product is dealt with once (`ConfinedMoves`,
`AsideMoves`). The assumptions on the constants say that there is a chat, that
each product that starts posted has its publication (`NumProducts <= MaxPubs`),
that tasks are finitely many, and that `Hidden` is not the look of a post.

## Autopost, settings and categories

`Autopost.tla` has the settings row, its RAM copy with the lock, the interval of
the scheduler's job, the head admin's prompt, and of the products what the
choice and the ranking read. `age` is the time since the last post, `recent`
the order of the post log. An entry of `task` with `pc = "get"` calls
`get_settings`; `u_lock` … `u_read` is `update_settings`; `p_list` … `p_mark`
is `post_next`; `r_write` is `recompute_categories`; `c_write` is
`set_category`. `Allowed` is what `update_settings` accepts, `Storable` what the
table takes: a row may be older than the limits (`test_multiplier_limits.py:82`
has a weight of 8) and the table takes the weight 0 (`schema.py:136`).

| Run | Bounds | Shows |
|---|---|---|
| `autopost` | 2 products (one pinned), a day of 2 hours, weights 1 to 2 and an old row with 3, 0 and 1, 5 of the settings changed, 2 tasks, 1 operation, 1 fault, fairness | the cache is the row; the interval follows it; autopost keeps to the switch and the night; the shop keeps posting; the ranks come right |

Two hours are enough for a night that crosses midnight (from one to zero), two products for a
repost gap that leaves none and for a boundary between two ranks. The five
settings are one each of the weights, the counts, the interval, the switches and
the hours;
the others take the same path. One operation meets the two jobs, which run at
any time. Which hour it is is a free choice at every check.

Fairness: strong on a task's steps, because `asyncio.Lock` serves its waiters in
turn and the model's lock does not; weak on the scheduler's jobs.

Races the code does not exclude, and no property forbids:

- post now and the job both choose before either has published: the same product
  twice in a row (`scheduler.py:68`);
- two taps on one control read the same value, and one is lost
  (`handlers/admin.py:296`);
- a shop may fall silent with something to post: a product in a category of
  weight 0 that is not resting keeps `_eligible_for_repost` from being set aside,
  and then nothing that has a weight is left (`scheduler.py:72` to 82).
  `ShopKeepsPosting` is claimed when nothing on sale has the weight 0, which the
  panel does not let anybody set;
- `on_unlock` writes back the category it read (`admin_products.py:426`), which
  a ranking may have changed; the next ranking corrects it.

### Proofs

`AutopostProofs` proves, for every number of products and tasks, every length of
the day and every range of the settings:

- `TypeInvCorrect`: the row stays one the table takes, whatever it held at first,
  and a task that writes has a value that was checked (`Allowed`), whichever menu
  or typed text it comes from.
- `CacheInvCorrect` and `CacheCorrect` (`CacheIsTheRow`): the cache is empty or
  the row, and whoever stands between reading and writing holds the lock with
  the cache empty. The second half makes it inductive.
- `ScheduleCorrect` (`ScheduleFollowsSettings`): a task that changed the interval
  keeps the mark of it until it has told the scheduler, and what it tells is the
  row it reads last.
- `AutopostCorrect` (`AutopostIsAllowed`), an action property: the arithmetic of
  hours modulo the day, over midnight or not.

Assumed of the constants is that the row at the start is one the table takes.

## Chat registry

`ChatRegistry.tla` has the `chats` and `pending_chats` tables, the RAM copy, and
the chats the bot is in with the membership updates on their way. Handlers of
updates start in order and then run side by side. `m_remove`, `m_list` and
`track` are `on_bot_membership`; `a_check`, `a_add` registering; `d_remove`
removing; `reload` the `_reload` at the end of a change; `w_list` … `w_clear`
are `sweep_pending_chats`. `queue` is `_lock` with its waiters.

| Run | Bounds | Shows |
|---|---|---|
| `chats` | a channel and a group, 2 tasks, 2 moves, 2 operations, 1 refused leave, 1 fault, weak fairness | the copy is the table; a foreign chat has a deadline and is left |
| `chats_leave` | the same without faults or fairness | violation: a registered chat is left |

A channel and a group are the two kinds the code tells apart, and two chats let
one that cannot be left stand before another. Two moves are joining and being
removed, two operations registering and removing. The system may come to rest,
so deadlock is not checked. Fairness: weak on handlers, on the sweep, which the
scheduler starts every ten minutes, on the delivery of updates and on time.

`disturbed` has the chats that two tasks worked on at once or whose handler
failed. For them the code promises less:

- a chat registered during a sweep may be left (the finding);
- the sweep's `clear_pending` deletes the newer countdown of a chat the bot has
  joined again meanwhile;
- removing and joining again, handled side by side, may leave a chat with
  neither row nor countdown;
- the rights are checked before `add_chat`, so a chat the bot was removed from
  in between is registered;
- a crash between `remove_chat` and `track_pending` (`admin_chats.py:429`)
  leaves a chat that is never left, and so does a failed `on_bot_membership`.

A `_reload` that fails after its change leaves the RAM copy stale until the
next change (`db/chats.py:188`); `CacheIsTheTable` is claimed without failures.

### Proofs

`ChatRegistryProofs` proves, for every set of chats and tasks:

- `TypeInvCorrect`: the types of the tables, the updates on their way and the
  tasks.
- `CacheCorrect` (`CacheIsTheTable`): without failures the RAM copy differs from
  the table only while the task at the head of the lock's queue is about to
  reload it.
- `ForeignCorrect` (`ForeignIsTracked`) by `ForeignInv`: of a chat that was not
  disturbed, one task at most works on it; the newest update on its way says
  what the bot is; and a chat the bot is in is registered, has a countdown, has
  an update coming, or is in the hands of the task that will write one of them.
  The property speaks of the moments when no update is on its way, the invariant
  of all the others. `IdsInv` says that a removal by id removes the chat it
  was asked for.

`None` is taken to be no chat and no countdown.

## AI router

`AiRouter.tla` is `generate_json` for several calls at once. `ram` is the state
they share, `db` what is saved of it, `writes` the saving tasks under way. A
call stops only at the provider's answer (`calling`) and between two passes
(`sleeping`), so an action is an answer with everything up to the next attempt:
`NewPass` is the list of candidates, `MoveOn` the rest of the pass, `StageEnds`
the second stage without the photo. The list is a set, since its order is that
of the priorities: `ApplySticky` says which entry is tried first, and after it
the least one left comes next. Times are ticks left. A restart may fail to read the
key states, or only the unsupported pairs (`router.py:168`).

| Run | Bounds | Shows |
|---|---|---|
| `ai_router` | a Gemini key with two models, a fallback without vision, a text and a photo call, 1 retry, 1 round, 1 block, 2 troubles, 1 tick, failed write or restart | what one call finds binds the others; a better group goes first; a call that can try tries; exhaustions hold; rejections are saved; calls end |

Two models of one key let a key become exhausted model by model; the fallback
adds the second group and the second stage. One retry, one round and one block
(3, 3 and 2 in the code) make each limit reached. Any attempt may get any
answer; the bound on troubles counts those that change shared state. Calls may
all have been made, so deadlock is not checked.

Fairness: a running call goes on, since every attempt has a time limit and
sleeps end (`FairSpec` says this as weak fairness of a step that is always
possible), and the saving tasks run.

Races the model shows and no property forbids: the retries after an answer that
is no JSON go on although another call found the key rejected
(`AttemptIsAllowed` speaks of new attempts); a success ends an exhaustion that
another call has just set (`router.py:561`); and the saving of the two may swap,
so that after a restart the older one counts (`router.py:502`).

### Proofs (`AiRouterProofs`)

The properties speak of one step each, so they need an invariant only for what
the state says of a call that waits. `TypeInv` (`TypeInvCorrect`) is that: a
call that waits for a provider is at an entry that its list has no more, one
that sleeps has a round left, and the blocked answers are within their limit.
`TypeOK` follows (`TypeCorrect`).

The lemmas are about the operators of the walk, for any state of the router and
any call. `BeginPassFacts` says that a pass begins with an entry that may be
tried and is of the best group, or ends because nothing may be tried even with
the exhausted keys; it comes from `NewPassListed` and `StickyIsListed`, and the
first of a list exists since a set of numbers has a least one. `MoveOnFacts` says
that the rest of a pass stays within what may be tried in the state the answer
left. `AnswerFacts` and `PassFacts` carry them to the actions: an answer moves
its own call only and ends the exhaustion of no key but its own.

From these, each by cases on the step:

| Theorem | Property | Why |
|---|---|---|
| `AttemptsAllowed` | `AttemptIsAllowed` | an attempt begins in `BeginPass` or `MoveOn`, which look at the state of that moment |
| `BestGroupsFirst` | `BestGroupFirst` | the entries are sorted by group, and the sticky one is taken only within the first one's |
| `TriesFirst` | `TriesBeforeFailing` | without an attempt both stages were empty with exhausted keys included; who sees no images is a fallback |
| `ExhaustionStays` | `ExhaustionHolds` | `Exhaust` keeps the later end; only `Success` writes an earlier one |

`AiRouterAssumption` has what `init_router` makes sure of: the entries are
sorted by group, and a provider without vision is a fallback. The number of
calls, keys, models, retries and rounds is free.

## Findings

- `pipeline_edits`: `set_ai_result` (`db/products.py:112`) writes by id whatever
  the row says, so the copy of the old text is stored over an edit that came
  while the AI was asked, and the queued id is skipped because the row is done;
  against `README.md:41`.
- `chats_leave`: `sweep_pending_chats` leaves the chats of a list it read before
  its loop (`chat_guard.py:63`), so a chat registered meanwhile is left, against
  `chat_guard.py:59`.

Two more places where the code does less than its documents say have no run of
their own, and are described where they occur: a finished order whose chat is
opened (the order flow, against `db/orders.py:200`), and an edit that is missing
from a caption (publishing, against `README.md:45`).

## Not modelled

- The order form (`client.py`, `db/customers.py`): `Orders` knows a form as
  started or filled in. Its questions, the saved details and the expiry are left.
- Inquiry cards: `inquiry_notice` is written after the cards were sent
  (`client.py:845`), so a card may stay live when an admin accepts during the
  loop, or be sent for a chat that woke up (`client.py:883`). The rows decide
  nothing else.
- Administrators and menus: the list of administrators is constant in every
  module. Adding and removing the same one at once may leave a removed admin
  with the admin menu (`admin_manage.py:221`, 278).
- The database engine and its migrations, which run before anything else; a
  transaction is one atomic step everywhere.
- The process lifecycle (`main.py`, `supervisor.py`): the models assume what it
  provides, that a loop that died is started again.
- Menus, lists, status pages, logging and health: pure input and output. The
  wording of messages, markup, pagination and the cutting of captions are left
  out throughout.

## What is proved and what is only model-checked

Every invariant and every action property that a passing run checks is also a
theorem, and so is the refinement of `OrderSpec`. The inductive invariants were
model-checked on the instances of the runs as well. The theorems speak of
`Spec`, without fairness, for all values of the constants that the named
assumptions allow.

TLC alone checks:

- what rests on fairness: `AcceptedIsTold`, `ConfirmationEnds`,
  `QuietChatIsOffered`, `WaitingCustomerIsTold`, `EverythingSettles`,
  `ShopKeepsPosting`, `EventuallyRanked`, `ForeignIsLeft`, `RejectedIsSaved`,
  `EveryCallEnds`, `PendingIsReminded`. The prover has no rule for `ENABLED`;
- the two violations, which are counterexamples and not theorems.

A statement about all numbers is proved without the induction theorem, whose
operator parameter the provers cannot instantiate: `LeastNumber` gives the
least counterexample of a set, and a set is a term like any other.

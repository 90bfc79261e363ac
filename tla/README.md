# ChatgptREST: the job service in TLA+

ChatgptREST turns questions to web chats (ChatGPT, Gemini) into durable jobs.
A REST API writes jobs into an SQLite table, worker processes claim them under
leases and drive a browser through an MCP driver, and everything a client reads
(status, answer, result.json) comes from that table and a directory of artifact
files.  One question costs real quota at a provider and must not be asked
twice; one answer must not be lost, mixed with another, or announced before it
can be fetched.  That is what this project models, checks and proves.

Paths below are relative to `src/`; line numbers are those of the files there.

## 1. Inventory

### The parts and how they interact

    client --POST/GET/cancel--> API --create_job/request_cancel--> job store (SQLite + artifacts)
    operator --pause/hold-----> API --set_pause_state------------>      ^   ^
    send / wait / all workers --claim, renew, set url, store result----'   |
             `--> executor --> MCP driver --> provider web page             |
                                  `--> send records (SQLite)                |
    backlog_janitor, health_probe (maintenance jobs) --update rows----------'

    advisor (report graph, dispatcher) --enqueue/drain--> effects outbox (SQLite)

Nothing is pushed: the parts meet only in their tables, by polling them.  The
driver is a process of its own, and the outbox belongs to the advisor's.

| Part | State | Operations | What is hard | What makes it correct |
|---|---|---|---|---|
| Job store `chatgptrest/core/job_store.py`, `state_machine.py` | table `jobs`: status, phase, attempts, max_attempts, lease, not_before, cancel_requested_at, conversation, parent, answer digest | create, claim, renew, set conversation, store answer / error / retry / release / canceled, request_cancel | competing and stale holders; budget that is checked and raised in different places; single flight per conversation; transitions without a lease (cancel) | verdicts final and published; live leases exclusive; sends bounded; what is parked for a retry can be claimed |
| Pause and hold `core/pause.py`, `core/chatgpt_web_hold.py` | rows of `meta` | set, clear, elapse; filter in Python (create) and in SQL (claim) | two copies of one rule | a claim never gives out what is held back |
| Artifacts `core/artifacts.py` | `answer.*`, `result.json` per job | staged writes, renames | files are outside the SQLite transaction | the files under a verdict are that verdict's |
| Worker loop `worker/worker.py` | per run: job, token, exec_phase, cancel snapshot / cancel_event, heartbeat, executor | claim, second read, inherit the parent's thread, rescue short circuit, execute, formatting, store | three concurrent tasks in a run, several processes, crashes, stalls, a database that is locked, late cancels | one executor per job; no prompt sent twice; one send per conversation; jobs do not get stuck |
| Job API `api/routes_jobs.py`, `core/ask_guard.py` | none of its own | POST, GET, cancel; dedupe window and in-flight limits of registered clients | repeated POSTs, cancel racing a result, checks made once about jobs that live on | one verdict per job, no duplicate ask |
| Operator API `api/routes_ops.py` | none of its own | pause, read-only views | wake-up of deferred jobs | see pause |
| Maintenance `ops/backlog_janitor.py`, `ops/health_probe.py` | none | finalize stale jobs | rows written without a lease | verdicts stay final |
| Submission idempotency `core/idempotency.py` | table `idempotency` | begin; delete on refusal | repeat after a lost reply, refused first try | one job per key |
| Driver send idempotency `chatgpt_web_mcp/idempotency.py`, the ask tools in `_tools_impl.py` and `providers/gemini/ask.py` | table of send records: status, sent, url, result; one task per key (ChatGPT), the ask lock (Gemini) | begin, update, takeover; ask, resumed wait, replay | driver crash between send and record; reordered updates; decisions on an old reading | one prompt per job, no key stuck |
| Executors `executors/*_web_mcp.py` | none that lasts | send loop, fallback preset, regenerated key | a second key for the same question | no second prompt on evidence of a first |
| Driver locks, rate limits `chatgpt_web_mcp/locks.py`, `runtime/` | lock files, timestamps | acquire, reserve | several processes, one browser | mutual exclusion |
| Send rate limit, retry budget `core/rate_limit.py`, `core/web_retry_budget.py` | counters | reserve, consume | clock | spacing |
| Session scheduler `kernel/cc_sessiond/scheduler.py` | queue, running set, semaphore, lock | submit, start, cancel, finish | cancel awaits under the lock its task needs | bounded running set, no deadlock |
| Effects outbox `kernel/effects_outbox.py`, `workspace/outbox_handlers.py`, `advisor/dispatch.py` | table of effects | enqueue, dispatch, drain, execute, mark, retry | crash in `executing`, two drains, lost marks | an effect is not repeated without cause and not skipped |
| Advisor runs `core/advisor_runs.py` | runs, steps, leases | lease, renew, reclaim, finish | reclaim of a step that has moved on | step results final |
| Task runtime, controller, incidents, routing, executors, knowledge | see `PROJECT.json` | | | |

The core is the first four rows: the store decides every other part's
correctness, and the worker is the part whose concurrency tests hardly reach.
Next to them stands the driver's send record: once two executors work on one
job (a lost lease), nothing else keeps the question from being typed twice.
The hazards with their lines are in `PROJECT.json`.

### Observations made while reading

Besides the four findings (section 5) these follow from the code and shaped
the model:

* An exception in `_lease_heartbeat` (a database locked beyond the busy timeout)
  ends the task and nobody awaits it before the run is over; the executor goes
  on without a lease.  `LeaseLost` cancels the asyncio task, not a driver call
  already running in a thread.  Two executors of one job may then overlap; what
  prevents a second prompt is the driver's idempotency record
  (SendIdempotency).  Modelled as the faults `HeartbeatDies` and `Stall`.
* `request_cancel` on a waiting job uses the token it reads from the row.
* A job in cooldown in its wait phase does not own its conversation, so another
  send may be claimed into it; when the first becomes due, two asks of one
  conversation are in progress, one sending and one waiting.
  `OneSendPerConversation` is therefore about sends.
* The single-flight filter has no lease test.  With conversations known at
  creation an expired lease can always be reclaimed (section 6); with
  inherited ones two of them can block each other (ExpiredPair, section 5).
* A Gemini ask whose thread is unknown is bound to a chat its wait picks from the
  sidebar: one whose title or text fits, in the end the latest
  (`chatgpt_web_mcp/providers/gemini/wait.py:351-402`).  That may be another ask's
  thread.  It sends nothing there, so `OneSendPerConversation` stands; but a worker
  of `--role all` binds an ask in its send phase, and two such asks with expired
  leases exclude each other as in ExpiredPair.
* The duplicate-prompt guard (`chatgpt_web_mcp/_tools_impl.py:7784`) compares the
  question with the last message of the conversation, whoever typed it: an
  earlier job, another client, a person.  The record then says `sent` although
  this job typed nothing, and the answer it waits for is the one to that message.
  The guard is meant so (`docs/handoff_chatgptrest_history.md`); for an ask that
  names its conversation, `sent` therefore says that the question is there, not
  who typed it (`SentMeansPrompt`).
* `health_probe --apply` leaves `result.json` as it was.  `VerdictPublished`
  therefore asks only for *some* result under an error verdict.
* The status machine allows `blocked` and `needs_followup` to go back to
  `queued`; no code takes that transition (`ParkedStaysParked`).
* A repeated POST with a known key is refused if the checks before `create_job`
  refuse it: 409 within the dedupe window, 429 by the in-flight limit, although
  `docs/contract_v1.md:373` promises the same job and the frontend gate is at
  pains to let a known key pass (`api/routes_jobs.py:213`).  The job is there and
  the 409 names it, so no property of the store is about it.
* The in-flight limits count `queued` and `in_progress` jobs, not `cooldown`
  ones: while one ask cools down its client may submit another, and both run
  later.  `docs/dev_log/2026-04-26_chatgpt_web_pro_channel_systemic_rca_v1.md:34`
  calls the limit of one "single-flight per registered wrapper".
* Gemini's thread URLs have no `/c/`, by which `_idempotency_update` knows a
  thread: a landing page recorded when the button was pressed is never replaced
  by the thread in the record (`KeptUrl`); `wait` finds it by the sidebar.
* Gemini's `ask` decides to send before it queues for the ask lock and does not
  read the record again inside; its blank records may be taken over within one
  process.  Two calls can so both type.  `ResendNeedsLostEvidence` counts these
  as `stale`.
* ChatGPT's `ask` does not execute only what begin told it to: an unsent record
  without a result, which begin refuses while it is young, still leads to
  `_get_or_start_job`, and is run if the process has no task for the key.
* An outbox row of type `obsidian_write` (`advisor/report_graph.py:686`) has no
  handler anywhere and stays pending; `execute_pending`, `retry_failed` and
  `include_failed` have no caller outside the tests.  A dispatch whose mark was
  lost or says failed is answered `duplicate` for ever.

## 2. Plan

Modules, most important behaviour first.  Done: 1 to 6.

1. **JobVerdict**: abstract specification of the service for a client.
2. **JobStore**: the store with all its callers left open (any token, any order).
3. **WorkerLoop** EXTENDS JobStore: the processes that call it.
4. **SendRecord**, **SendIdempotency** EXTENDS SendRecord: the driver's record,
   its ask tools and the executors of one job (what WorkerLoop leaves possible
   after a fault), with crashes of the driver and lost updates.
5. **Submission** EXTENDS JobStore: POST with its checks and the key's record.
6. **EffectsOutbox**: the outbox with its three kinds of users.
7. **SendThrottle** (left): `core/rate_limit.py` with the order in which a prompt
   takes its hourly, daily and interval slots (`_run_executor_step`), several
   workers and a clock: in which window prompts are really sent.
8. **AdvisorRuns** (left): `core/advisor_runs.py`: step results final, reclaim of
   a step that has moved on.

The session scheduler (`kernel/cc_sessiond/scheduler.py`) is no longer planned:
its hazards are visible in a dozen lines of one function each, and a model would
repeat them.

Abstract specifications: JobVerdict for the store and again for keys, as what a
client that has nothing but its key learns (`KeyVerdictSpec`); the store for the
workers (`StoreRefined`) and for submissions (`SubmissionIsStore`).

Theorems: section 6.  Every safety property of the passing runs is proved.

## 3. Modules and how they correspond to the code

**JobVerdict** (abstract).  A submission is open and then decided at most once;
an answer exists exactly if the decision is `completed`.

**JobStore**.  `row[j]` is a row of `jobs`, `files[j]` its answer file and
result.json, `pause` and `hold` the rows of `meta`.  One operator per function
of `job_store.py`: `CreateJob`, `ClaimNextJob`, `SetConversationUrl`,
`StoreAnswerResult`, `StoreErrorResult`, `RetryWithinBudget` / `RetryExtended` /
`RetryExhausted` (the three ways through `store_retryable_result`),
`ReleaseForWait`, `StoreCanceledResult`, and `RequestCancel` with one disjunct
per status it finds.  All callers wrap them in `BEGIN IMMEDIATE`, which
serializes writers, so an operation is one step.  What is *not* atomic is
modelled as such: a crash may leave files renamed and the transaction rolled
back (`TornAnswer`, `TornResult`, `TornCancel`), including the code that takes
published files back after a failure.  `BacklogJanitor`, `HealthProbe`,
`SetPause`, `ClearPause` are the other writers of the tables.

Abstractions, each chosen so that no property can tell the difference:

* time is `lease` (none, live, expired) and `due`; `renew_lease` is that a live
  lease stays live, `ExpireLease` that nobody renewed it;
* a token stands for `lease_owner` and `lease_token` together; an answer is
  identified by the token of the holder that stored it, so a mixed-up answer
  is visible;
* the order among claimable jobs (`_build_claim_order_by`) is left open: a claim
  may pick any claimable job;
* conversation ids stand for urls; a base-app url without a thread is no
  conversation;
* kinds are two asks and two other kinds, the ones the filters tell apart;
* `store_conversation_export_result` writes only export columns and is left out,
  as is `reconcile_job_artifacts`: it writes result.json of an ended or parked job
  that has none, and `VerdictPublished` says that there is no such job.

**WorkerLoop**.  `run[w]` is where worker w is in `_run_once`:

    idle -WorkerClaim-> claimed -Load-> loaded -Inherit-> ready -Begin-> exec -FinishExec-> done -Persist-> idle

with `canceling` for a cancel seen in the snapshot or by the watcher,
`ShortCircuit` for the rescue follow-up, `FailEarly` for a kind without
executor or a driver that does not answer.  `beating` is the heartbeat task;
`ObserveCancel` is `_cancel_watch`, which stops the heartbeat too
(worker.py:4376); `LeaseLost` is a failed renewal.  The time the send throttle
takes is time in `exec`, the formatting prompt is part of `done`.  The result an
executor returns, and the post-processing that may turn an answer into a retry
or an error, is the free choice among the disjuncts of `Persist`.  The thread it
reports (`ReportedThread`) is one the provider has just opened and so nobody
else's, or, for a Gemini run without a thread that waits (`Searches`), any of the
account's chats, another ask's included.  `Rescued`
makes the guard of the short circuit explicit.  Faults (`Crash`,
`HeartbeatDies`, `Stall`) are counted by `faults`.

**Submission** EXTENDS JobStore.  `idem` is the idempotency table, `asked` what a
row of `jobs` says of kind, client and prompt, `recent` that it is within its
client's dedupe window.  `Submit` is POST from its checks to the commit:
`Gated` (the hold or a provider's rate limit keeps ChatGPT submissions out,
known keys excepted), `ParentFits`, `Duplicate` and `Crowded` (registered
clients), then begin and `create_job` in one transaction.  A refused submission
is rolled back, record included, and so is no step; a known key changes nothing.
Everything else that happens to jobs (`LifeStep`) is the store's.  The internal
callers of `create_job` pass no check (`Internal`).  `KeyVerdict` and `KeyAnswer`
are what begin replies with for a known key: the verdict and answer of its job.

**SendRecord** has the record of one key as pure operators: `ShouldExecute` and
`Begun` are `_idempotency_begin`, `Updated` is `_idempotency_update`.  The
`error` column and the result are one field, told apart where the code does
(`Blank`); error, blocked and cooldown are `failed`; URLs and answers keep what
the code compares: landing page, thread, whole or partial text.

**SendIdempotency** EXTENDS SendRecord with two executors of one job, the driver
process and the page:

    executor  idle -CallTool-> begun -Replay-> replied -Return-> idle
                               begun -StartTask / QueueForLock-> await -Done-> replied
                               replied -FallBack-> fallback -CallTool-> ... (Alternate key)
    run       queued -OpenPage-> compose -Click-> clicked -RecordSent-> sent -RecordUrl-> waiting -End...-> closing
              resume (the question was sent: wait in its thread) -EndResume-> closing

`prompts` is what the provider saw.  `lost` counts runs that typed and left the
record unsent (a crash, a swallowed update, a timeout between press and update);
`stale` counts prompts typed by a run whose reading of the record showed no
prompt although there was one by then.  Both are ghosts: no action reads them.
`asked` says that somebody else typed the same question into the conversation a
ChatGPT ask names (`SomebodyAsks`, at any time).  With that or with a prompt of
its own the page may end with the question (`QuestionMayShow`), and a run may skip
typing and mark the record (`GuardSkips`).  It need not: the guard can be off, or
the message not be the last one any more.
Assumptions about the page: ChatGPT's shows the prompt only if it took it; for
Gemini a prompt is a press that did not raise, since the code asks no more.
`needs_followup` replies, file uploads and the preflight's own retries are time
in a stage; an executor that times out on Gemini's call reads the record and
sends nothing, and is not a step.  `Age` is the passing of the two thresholds.

**EffectsOutbox**.  `status[e]` is the row of the effect e of one trace, `call[c]`
what thread c has selected and is handling.  `Dispatch` is `AgentDispatcher`,
`DrainTrace` the report graph's `execute_workspace_effects_for_trace`,
`SelectPending` and `ResetFailed` are `execute_pending` and `retry_failed`.  Rows
are read once and handled later (`Pick`, `HandlerReturns` / `HandlerRaises`,
`MarkOutcome`); `MarkRefused` is a mark that cannot be committed, `Restart` the
end of the process.  Ghosts: how often an effect was made, whether its record
was lost or says failed (`unrecorded`), whether two threads had it at once
(`shared`).

**MCJobStore, MCWorkerLoop, MCSubmission, MCSendIdempotency, MCEffectsOutbox**
give the constants values.

**JobStoreProofs, JobVerdictProofs, WorkerLoopProofs, WorkerExecutorProofs,
WorkerConversationProofs, SubmissionProofs, SendIdempotencyProofs,
EffectsOutboxProofs** hold the theorems.

Operators marked `Mutant` are plausible bugs in the operator that follows them;
no specification uses them.

## 4. Runs

| Run | Instance | Checked | Distinct states |
|---|---|---|---|
| StoreCrash | 1 Gemini ask, 3 tokens, 2 attempts, 1 extension, every pause and the hold, crashes between all writes | StoreTypeOK, VerdictPublished, AttemptBudget, RetryClaimable, TerminalFinal, ParkedStaysParked, VerdictSpec, PauseRespected | 32 750 |
| StorePause | 2 ChatGPT asks, one of which may follow up the other, 2 keys, 2 prompts, 1 registered client and internal callers, 2 tokens, a pause and the hold | SubmissionTypeOK, OneJobPerKey, KeyBound, KeyVerdictSpec, NoDuplicateAsk, LeaseShape, LeaseExclusive, PauseRespected | 618 732 |
| SendOnce | 2 executors of one job, either provider, named conversation or not, somebody else asking the same there, 2 keys, 2 requests, 3 calls, 1 fault | SendTypeOK, ResendNeedsLostEvidence, SentMeansPrompt, NeverWedged, EvidenceKept | 3 387 780 |
| Outbox | 4 effects (workspace, dispatched, dispatched and batched, without handler), 2 threads, 2 faults | OutboxTypeOK, DispatchOnce, RepeatHasCause, DoneIsPerformed, DoneKept | 2 638 100 |
| WorkerFaults | 1 ask, 2 workers, 4 tokens, 2 faults, crashes inside operations | WorkerTypeOK, VerdictPublished, PhaseMonotone | 97 222 |
| WorkerFollowUp | a chat and a follow-up, 2 workers, 4 tokens, no fault | OneExecutor, TakeoverHasCause, StoreRefined | 132 660 |
| WorkerShared | 2 Gemini asks with or without a conversation, 2 conversations, 2 send workers and a wait worker, 4 tokens, 1 fault | OneSendPerConversation, ExpiredIsReclaimable | 498 632 |
| WorkerLive | 1 ask, send and wait worker, 3 tokens, 1 fault | LeaseRecovers, CancelSettles | 2 938 |
| CancelVerdict | 1 ask, no fault | CancelReachesVerdict is violated | |
| LateConversation | a chat, two follow-ups | OneSendPerConversation is violated | |
| FollowUpThread | a chat, one follow-up | FollowUpStaysInThread is violated | |
| ExpiredPair | a chat, two follow-ups, 2 faults | ExpiredIsReclaimable is violated | |

**Bounds.**  `MaxAttempts`, `AttemptsCap`, `MaxExtensions` are the code's own
limits, small; with 2, 4 and 1 a job runs out of attempts, is extended, and runs
out again.  Tokens bound the number of claims: `Fresh` wants one that no row and
no file remembers, so a token can be used again when nothing refers to it, and
three are enough for a holder, a stale holder and the author of an answer file.
Two workers suffice for every race in the properties, all of which are about
pairs; three jobs are needed only for two follow-ups of one parent.  WorkerShared
has the roles of the systemd units (`ops/systemd`): two senders, and a waiter that
may bind a job to the thread a sender is typing in, which the instance reaches.
`MaxFaults`, `MayTear`, `MayHold`, `PauseState` switch the environment on where
a run is about it, and off where it would only multiply states.  `CHECK_DEADLOCK
FALSE`: a service with all jobs decided has nothing to do, and neither has a
driver that nobody calls (SendOnce bounds the calls).

SendOnce: three calls are a call, one that overtakes it and one that comes after
both, or two under the primary key and one under the alternate; every way to
lose evidence is one fault or none (a timeout, an unconfirmed click), so one
fault lets each occur and be followed by a retry.  The theorems of section 6 hold
for any number of executors, calls and faults, as they do for the others.
Outbox: two faults are a lost mark and a restart after it; a batch below its
limit and one trace, because rows of different traces and the rest of a batch
never meet; `performed` counts to two.  StorePause: two jobs are a first and its
duplicate or follow-up, and two keys let the second job come under either; of
the in-flight limits (2, and 1 for ChatGPT) the one for ChatGPT refuses.

**Fairness** (`LiveSpec`).  A worker's loop polls for ever with a sleep
(`main_async`), so a claim that stays possible is made (WF of the claim per
worker); a run goes on while its process lives (WF of `RunStep`: every await has
a timeout, and the executor returns or times out); time passes (WF of
`LeaseElapses` and `BecomeDue`).  Clients, operators, maintenance jobs and
faults owe nothing.  A worker that crashed polls again: the supervisor restarts
it.  No strong fairness is assumed.  The liveness runs have one job, so a claim
is not starved by other jobs; with an unbounded stream of jobs the order of
claims would matter, and is not modelled.

## 5. Findings

* **A late cancel gets no verdict** (CancelVerdict).  The cancel flag is looked
  at when a run starts and while its executor is awaited; after that (unless a
  formatting prompt follows) the result is stored over it.  A job that becomes
  `blocked` or `needs_followup` keeps `cancel_requested_at` and is never
  canceled, against `docs/contract_v1.md:686`.  What does hold is `CancelSettles`: the request ends
  the job or finds it parked (a second cancel then ends it).
* **Two sends in one conversation** (LateConversation).  The single-flight
  filter of the claim looks at the column, a follow-up queued early has NULL in
  it and inherits the parent's conversation after its claim, where nothing looks
  again, against `docs/contract_v1.md:186`.
* **Two expired sends that block each other** (ExpiredPair).  Two asks of one
  conversation can be in progress when the conversation was inherited after the
  claim; if both workers die, each row keeps the other from being reclaimed,
  since the filter does not look at the other's lease, and `request_cancel`
  only flags them.  Both stay `in_progress` until an operator's clean-up (the
  janitor or the health probe) ends them, against what
  `tests/test_leases.py:31` expects of an expired lease.
* **A follow-up outside its parent's thread** (FollowUpThread).  If the parent
  has no thread url when the follow-up runs, the follow-up opens a chat of its
  own, against the comment at `chatgptrest/worker/worker.py:4554`.

## 6. Proofs

All theorems are checked by TLAPS for every set of jobs, tokens, conversations
and workers, every kind and role, every limit, and with every crash switch.
The only assumptions are `StoreAssumption`, `WorkerAssumption`,
`SubmissionAssumption`, `SendAssumption` and `OutboxAssumption`, which type the
constants; TLC evaluates them in the runs of their modules.  A theorem that needs more says so
in its statement: `OneExecutorTheorem` is about `MaxFaults = 0`, and the theorems
of WorkerConversationProofs are about behaviours in which nothing is inherited
after a claim and, for one of the two properties, in which only asks that wait
are looked for in the sidebar.

**JobStoreProofs.**  `Invariance`: the inductive invariant `Inv` of the store.
The properties are not inductive alone.  `VerdictPublished` needs `LeaseShape`
(else another row's holder could share the token) and needs every published
state to be entered together with its files, which the fencing gives;
`AttemptBudget` is needed for `RetryClaimable`, because the retry compares with
the budget it has just raised; types are needed throughout.  The proof has one
lemma per operation.  From `Inv` follow `TypeCorrect`, `VerdictIsPublished`,
`SendsAreBounded`, `RetriesAreClaimable`, `LeasesAreShaped` and the action
properties `LeasesAreExclusive` and `PausesAreRespected`; the latter rests on
`PauseFormsAgree`, which says that the SQL text and the Python function are one
rule, and the former on `OnlyClaimsGiveTokens`, which goes through every
operation of the store and shows that none but a claim puts a token into a row.

**JobVerdictProofs.**  `VerdictsAreFinal`, `ParkedIsNotResumed`, and
`Refinement`: initial states map to initial states and every step of the store
maps to `Submit`, `Complete`, `Refuse` or a stutter.

**WorkerLoopProofs.**  `WorkersRefineStore`: with any number of workers, roles
and faults, each step of the system is a step of the store or a stutter.  Hence
`WorkersPublishVerdicts`: all the store's theorems hold of the running system.
`NoSecondSend` (`PhaseMonotone`) is not a theorem of the store, which accepts
phase `send` from the holder of a waiting job's lease.  It needs `PhaseInv`: only
asks wait; a run whose token is the row's, on a job in the wait phase, runs it in
the wait phase (so it can store no other); and no two runs have the same token.
`WorkersKeepStore` lists the rest of what the workers inherit from the store: the
send budget, claimable retries, shape and exclusiveness of leases, the pause,
and that parked jobs stay parked.

**WorkerExecutorProofs.**  `OneExecutorUntilFault`: before the first fault no job
is executed by two workers, which makes `OneExecutorTheorem` a corollary.  That
a lease has one holder is not enough: a cancel request stops the heartbeat of a
run whose executor goes on (worker.py:4376), its lease runs out, and another
worker claims the job while the first still executes it.  It does not execute it
too, because the second read of the row (`Load`) finds the request.  The
invariant `ExecInv` says this in two parts.  `RunInv`: a run on its way to the
executor, or with a heartbeat, holds its lease or its job was decided; and an
executing run without heartbeat has its row's cancel flag set.  `PairInv`: of two
runs of one job one at most counts on the lease, and if one executes, the other
does not and has seen the flag once it has read the row.  The proof compares
rows before and after each operation in two ways: what no step does (`Steady`:
take a row, a verdict or a cancel request back) and what only the holder or
time does (`LeaseKept`).  `TakeoversHaveCause` adds the other direction,
`OwnerInv`: before the first fault each live lease is that of a run, and only a
job that is to be canceled loses its lease to time; so a job in progress changes
hands only after a fault or a cancel request.  TLC found no violation of
`ExecInv` on WorkerFollowUp's instance before it was proved; with a fault it is
false, as it should be, and so the theorems say `faults = 0 =>`.

**WorkerConversationProofs.**  A claim makes sure that the conversation of its
row is free; three things can change the conversation afterwards.  A follow-up
takes over its parent's after its claim, which nobody checks (LateConversation
and ExpiredPair, section 5): all theorems here exclude that by the hypothesis
`[]NoLateInheritance`.  A new thread's url is nobody else's.  And a Gemini run
stores what it found in the sidebar, perhaps another ask's thread.

`OneSendTheorem` needs no more than the first hypothesis.  Its invariant is about
runs, `SendersApart`: of two runs that hold their rows' tokens and have not
returned from their executors, no two asks of one kind in the send phase share
a conversation.  A run that reports a thread has returned, so what it found in
the sidebar does not matter; that two runs hold different tokens is
`PhaseInvariance`.  `ExpiredIsReclaimableTheorem` is about rows, whose runs may be
gone: `FlightInv`, no two asks of one kind are in progress in the send phase in
one conversation.  There a row bound from the sidebar does matter, unless it
waits; hence the second hypothesis, `[]OnlyWaitersSearch`.  With it, a row that
keeps an expired one out is in the wait phase, and the two cannot exclude each
other.  `KnownConversationsTheorem` says where both hypotheses hold: requests with a
parent name their conversation, and either Gemini requests do too or each worker
either sends or waits (then a searching run is a waiter's, and its job waits:
`WaitersWait`).  WorkerShared is an instance of the latter.
TLC also checked the two properties on follow-ups under the first hypothesis (as a
state constraint: 1 868 972 states, parent and follow-up executing in one
conversation among them), and `OneSendPerConversation` with Gemini workers of all
roles (1 184 528 states); there `ExpiredIsReclaimable` is violated, as said in
section 1.

**SubmissionProofs.**  `SubmissionIsStore`: a submission is `CreateJob` or
nothing, so every theorem of the store holds of it.  `OneJobPerKeyTheorem` goes
by one invariant, `SubInv`: the store's, the types, and `AskedRows` (exactly the
rows that exist have an ask).
`KeyRefinement` shows that what a client learns by a key implements JobVerdict:
a submission gives an unused key a job without a verdict and touches no other
key, and a step of a job's life is a step of JobVerdict for the one key that has
the job.  `SubmittedJobsAreKept` lists what submissions inherit from the store.
`NoDuplicateAskTheorem` needs that a job which is in error or canceled never
leaves it, for a job that failed is what lets the same prompt in again: that is
`TerminalFinal`'s argument over all operations of the store.

**SendIdempotencyProofs.**  The invariant `SendInv` is SendTypeOK and four parts.
`RecordKnows`: a record that does not exist says nothing, a sent one has a
prompt under its key behind it, or the question in the conversation it names
(`QuestionMayShow`), and a URL; a completed one has a result.  `RunKnows`: a run works on
a record that exists; one that may still type rests on a reading without a
prompt, one that resumes on a sent record.  `CallKnows`: a call that read sent
read what still holds, and none that did is told to execute.  `PromptsPaid`: the
number of prompts is at most one, if there is a sign of it (a sent record or a
run that typed), plus `lost` plus `stale`.  The last is why
`ResendNeedsLostEvidence` is not inductive: a prompt is paid for in advance by
the sign, and the sign goes over from the run to the record, or to `lost`, when
the run ends.  `EvidenceTheorem` follows from the operators of SendRecord, each
with a lemma of its own.

**EffectsOutboxProofs.**  `Inv` is OutboxTypeOK with `Shape` (what a thread holds
depends on where it is), `Mine` (a row that a thread holds exists, and is done
only if it is `shared`), `Alone` (an effect two threads hold is `shared`, and
none that only its dispatcher runs), `Ledger` (what was made once, with its
record neither lost nor shared, is done or about to be marked done by the
thread that made it) and `Runs` (what a thread reports as returned was made).
`Alone` is what makes `RepeatHasCause` and `DoneKept` go through: while the
effect is not shared, its one holder is the only one to mark it.

**Only model-checked:** `LeaseRecovers` and `CancelSettles`, which are liveness
under fairness and out of the prover's reach, and the violations of section 5.

## 7. Not modelled

Authentication, admission rules and client policies of the API; wording,
parsing and quality checks of answers; browser automation (its outcomes are a
free choice); exports, events, views and dashboards; incidents and issue
tracking; the components planned in section 2.  `repair_truncated_answers`
rewrites a completed answer at an operator's request and is outside the
`TerminalFinal` that is claimed here.  Of the driver's tools only the two ask
tools are modelled; images, research, wait and export use the same record.
There is no liveness for the outbox, because nothing drains it periodically, nor
for the driver, because the executor alone decides whether it calls again.
The fields of a request that no decision of the store reads are left out.

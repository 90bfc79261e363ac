------------------------------ MODULE JobStore ------------------------------
(***************************************************************************)
(* The SQLite job store (core/job_store.py) with the status machine, the   *)
(* pause and hold filters and the artifact files its operations write.     *)
(*                                                                         *)
(* Every operation runs under BEGIN IMMEDIATE in its callers, so one       *)
(* operation is one step.  The module does not know workers: an operation  *)
(* that takes a lease token may be called by anybody with any token, and   *)
(* it is the store that rejects a stale one.  WorkerLoop composes it with  *)
(* the processes that really call it.                                      *)
(*                                                                         *)
(* Time is abstracted by what the code compares with now(): a lease is     *)
(* live or expired, and a job is due or not.                               *)
(***************************************************************************)
EXTENDS Naturals, FiniteSets

CONSTANTS Job,            \* job ids
          Kind,           \* [Job -> AskKind \cup OtherKind]
          Conversation,   \* conversation ids of chat threads
          Host,           \* [Conversation -> {"chatgpt", "gemini"}]
          Token,          \* lease tokens
          MaxAttempts,    \* CHATGPTREST_MAX_ATTEMPTS
          AttemptsCap,    \* CHATGPTREST_RETRYABLE_SEND_ATTEMPTS_CAP
          MaxExtensions,  \* CHATGPTREST_RETRYABLE_SEND_MAX_EXTENSIONS
          Request,        \* what a client may submit, see RequestType
          PauseState,     \* the pauses an operator may set
          MayHold,        \* whether the ChatGPT web hold is ever used
          MayTear,        \* whether a crash may separate files from rows
          NoJob, NoConversation, NoToken

AskKind == {"chatgpt_web.ask", "gemini_web.ask"}
OtherKind == {"repair.check", "dummy.echo"}
Phase == {"send", "wait"}
Terminal == {"completed", "error", "canceled"}
Parked == {"needs_followup", "blocked"}
Retryable == Parked \cup {"cooldown"}
Status == {"absent", "queued", "in_progress"} \cup Retryable \cup Terminal

NoPause == [mode |-> "none", auto |-> FALSE]
PauseType == [mode : {"none", "send", "all"}, auto : BOOLEAN]
RequestType == [parent : Job \cup {NoJob},
                conversation : Conversation \cup {NoConversation},
                allowQueue : BOOLEAN]

ASSUME StoreAssumption ==
  /\ Kind \in [Job -> AskKind \cup OtherKind]
  /\ Host \in [Conversation -> {"chatgpt", "gemini"}]
  /\ MaxAttempts \in Nat \ {0}
  /\ AttemptsCap \in Nat \ {0}
  /\ MaxExtensions \in Nat
  /\ Request \subseteq RequestType
  /\ PauseState \subseteq PauseType \ {NoPause}
  /\ MayHold \in BOOLEAN
  /\ MayTear \in BOOLEAN
  /\ NoJob \notin Job
  /\ NoConversation \notin Conversation
  /\ NoToken \notin Token

VARIABLES row,    \* the jobs table
          files,  \* artifacts/jobs/<job_id>: answer and result.json
          pause,  \* meta.pause_*
          hold    \* meta.chatgpt_web_hold_* is set and not elapsed

storeVars == <<row, files, pause, hold>>

RowType ==
  [status : Status, phase : Phase,
   attempts : Nat, maxAttempts : Nat,
   extensions : Nat,                       \* max_attempts_extended events
   cancelRequested : BOOLEAN,
   token : Token \cup {NoToken},           \* lease_owner and lease_token
   lease : {"none", "live", "expired"},    \* lease_expires_at against now
   due : BOOLEAN,                          \* not_before <= now
   conversation : Conversation \cup {NoConversation},
   parent : Job \cup {NoJob},
   answer : Token \cup {NoToken}]          \* answer_sha256: whose answer

FilesType == [answer : Token \cup {NoToken},
              result : {"none"} \cup Retryable \cup Terminal]

NoRow == [status |-> "absent", phase |-> "send", attempts |-> 0,
          maxAttempts |-> 0, extensions |-> 0, cancelRequested |-> FALSE,
          token |-> NoToken, lease |-> "none", due |-> TRUE,
          conversation |-> NoConversation, parent |-> NoJob,
          answer |-> NoToken]

StoreInit == /\ row = [j \in Job |-> NoRow]
             /\ files = [j \in Job |-> [answer |-> NoToken, result |-> "none"]]
             /\ pause = NoPause
             /\ hold = FALSE

-----------------------------------------------------------------------------
(* Predicates the operations share.                                        *)

Update(j, r) == row' = [row EXCEPT ![j] = r]
WriteResult(j, s) == files' = [files EXCEPT ![j].result = s]

\* Mutant: only the state of the lease is checked, not whose it is.
FencedAnyToken(j, t) == row[j].status = "in_progress" /\ row[j].lease = "live"

\* Mutant: the token is enough, whatever became of the job.
FencedByTokenOnly(j, t) == row[j].token = t /\ row[j].lease = "live"

\* The WHERE clause of every operation that carries a lease token.
Fenced(j, t) == /\ row[j].status = "in_progress"
                /\ row[j].token = t
                /\ row[j].lease = "live"

\* uuid4: a token nobody has seen.
Fresh(t) == \A j \in Job : t \notin {row[j].token, row[j].answer, files[j].answer}

\* can_transition.  Nobody ever asks for the last: see ParkedStaysParked.
CanTransition(src, dst) ==
  \/ src = dst
  \/ src = "queued" /\ dst \in {"in_progress", "canceled"}
  \/ src = "in_progress" /\ dst \in Terminal \cup Retryable
  \/ src \in Retryable /\ dst = "queued"

\* A parent or an earlier ask still owns the conversation (HTTP 409).
ParentBusy(j, p) == /\ Kind[j] \in AskKind
                    /\ Kind[p] = Kind[j]
                    /\ row[p].status \in {"queued", "in_progress"}

ConversationBusy(k, c) ==
  \E i \in Job : /\ Kind[i] = k
                 /\ row[i].conversation = c
                 /\ row[i].status \in {"queued", "in_progress"}

\* _validate_conversation_url_for_kind
HostFits(k, c) == /\ k = "chatgpt_web.ask" => Host[c] = "chatgpt"
                  /\ k = "gemini_web.ask" => Host[c] = "gemini"

\* pause_filter_allows_job: the Python form, asked when a job is created.
PauseFilterAllows(p, k, ph) ==
  \/ p.mode = "none"
  \/ k = "repair.check"
  \/ p.auto /\ k = "gemini_web.ask"
  \/ p.mode # "all" /\ ph = "wait"

\* Mutant: the send-only branch is taken in every mode.
PauseClauseWaitAlways(p, k, ph) ==
  \/ p.mode = "none"
  \/ ph = "wait" \/ k = "repair.check"
  \/ p.auto /\ k = "gemini_web.ask"

\* The SQL form of the same filter, in the WHERE clause of a claim.
PauseClauseAllows(p, k, ph) ==
  \/ p.mode = "none"
  \/ p.mode = "all" /\ k = "repair.check"
  \/ p.mode # "all" /\ (ph = "wait" \/ k = "repair.check")
  \/ p.auto /\ k = "gemini_web.ask"

\* NOT EXISTS (another in_progress ask of this kind in this conversation)
ConversationFree(j) ==
  \A i \in Job \ {j} : ~ /\ Kind[i] = Kind[j]
                         /\ row[i].status = "in_progress"
                         /\ row[i].conversation = row[j].conversation

\* The clock, the hold and the pause let the job go.
Unhindered(j) == /\ row[j].due
                 /\ hold => Kind[j] # "chatgpt_web.ask"
                 /\ PauseClauseAllows(pause, Kind[j], row[j].phase)

\* Mutant: a reclaim needs an unused attempt.
HasAttemptLeft(j) == row[j].phase = "wait" \/ row[j].attempts < row[j].maxAttempts

HasAttempt(j) == \/ row[j].phase = "wait"
                 \/ row[j].status = "in_progress"
                 \/ row[j].attempts < row[j].maxAttempts

\* Mutant: what was checked when the job was created is taken to hold still.
SingleFlightOnce(j) == \/ row[j].status = "queued"
                       \/ row[j].phase = "wait"
                       \/ Kind[j] \notin AskKind
                       \/ row[j].conversation = NoConversation
                       \/ ConversationFree(j)

SingleFlight(j) == \/ row[j].phase = "wait"
                   \/ Kind[j] \notin AskKind
                   \/ row[j].conversation = NoConversation
                   \/ ConversationFree(j)

\* Mutants: any running job may be taken; a job without a lease may not;
\* blocked jobs are resumed like cooling ones.
AvailableLeased(j) == row[j].status \in {"queued", "cooldown", "in_progress"}
AvailableExpired(j) == \/ row[j].status \in {"queued", "cooldown"}
                       \/ row[j].status = "in_progress" /\ row[j].lease = "expired"
AvailableBlocked(j) == \/ row[j].status \in {"queued", "cooldown", "blocked"}
                       \/ row[j].status = "in_progress" /\ row[j].lease # "live"

Available(j) == \/ row[j].status \in {"queued", "cooldown"}
                \/ row[j].status = "in_progress" /\ row[j].lease # "live"

\* _build_claim_where without the worker's own kind and phase filters.
Claimable(j) == /\ Unhindered(j)
                /\ HasAttempt(j)
                /\ SingleFlight(j)
                /\ Available(j)

-----------------------------------------------------------------------------
(* Submission.                                                             *)

\* The conversation the new row gets: its own, or its parent's if known.
Inherited(r) == IF r.conversation = NoConversation /\ r.parent # NoJob
                THEN row[r.parent].conversation
                ELSE r.conversation

\* create_job; a refused submission leaves nothing behind.
CreateJob(j, r) ==
  /\ row[j].status = "absent"
  /\ r.parent # j
  /\ (r.parent # NoJob /\ r.conversation = NoConversation) =>
       /\ row[r.parent].status # "absent"
       /\ ({Kind[j], Kind[r.parent]} \subseteq AskKind) => Kind[r.parent] = Kind[j]
       /\ ~r.allowQueue => ~ParentBusy(j, r.parent)
  /\ Inherited(r) # NoConversation =>
       /\ HostFits(Kind[j], Inherited(r))
       /\ (Kind[j] \in AskKind /\ ~r.allowQueue) =>
            ~ConversationBusy(Kind[j], Inherited(r))
  /\ Update(j, [NoRow EXCEPT
       !.status = "queued", !.maxAttempts = MaxAttempts,
       !.conversation = Inherited(r), !.parent = r.parent,
       !.due = PauseFilterAllows(pause, Kind[j], "send")])
  /\ UNCHANGED <<files, pause, hold>>

-----------------------------------------------------------------------------
(* Leases.                                                                 *)

\* claim_next_job: a reclaim and a wait poll do not consume an attempt.
ClaimNextJob(j, t) ==
  /\ Claimable(j)
  /\ Fresh(t)
  /\ Update(j, [row[j] EXCEPT
       !.status = "in_progress", !.token = t, !.lease = "live",
       !.attempts = IF row[j].phase = "wait" \/ row[j].status = "in_progress"
                    THEN @ ELSE @ + 1])
  /\ UNCHANGED <<files, pause, hold>>

\* Nobody called renew_lease in time.
ExpireLease(j) ==
  /\ row[j].status = "in_progress"
  /\ row[j].lease = "live"
  /\ Update(j, [row[j] EXCEPT !.lease = "expired"])
  /\ UNCHANGED <<files, pause, hold>>

\* set_conversation_url: first thread url, or a Gemini rebind.
SetConversationUrl(j, t, c) ==
  /\ Fenced(j, t)
  /\ \/ row[j].conversation = NoConversation
     \/ /\ row[j].conversation \notin {NoConversation, c}
        /\ Kind[j] = "gemini_web.ask"
        /\ {Host[row[j].conversation], Host[c]} = {"gemini"}
  /\ Update(j, [row[j] EXCEPT !.conversation = c])
  /\ UNCHANGED <<files, pause, hold>>

-----------------------------------------------------------------------------
(* Results.                                                                *)

\* Mutant: the status machine alone.
FinishUnfenced(j, t, dst, r) == /\ CanTransition(row[j].status, dst)
                                /\ Update(j, [r EXCEPT !.status = dst])

\* transition(): the status machine and the lease are checked together.
Finish(j, t, dst, r) == /\ Fenced(j, t)
                        /\ CanTransition(row[j].status, dst)
                        /\ Update(j, [r EXCEPT !.status = dst])

\* store_answer_result: staged files are renamed inside the transaction.
StoreAnswerResult(j, t) ==
  /\ Finish(j, t, "completed", [row[j] EXCEPT !.answer = t])
  /\ files' = [files EXCEPT ![j] = [answer |-> t, result |-> "completed"]]
  /\ UNCHANGED <<pause, hold>>

\* store_error_result, with the two statuses its callers pass.
StoreErrorResult(j, t, s) ==
  /\ s \in {"error", "needs_followup"}
  /\ Finish(j, t, s, row[j])
  /\ WriteResult(j, s)
  /\ UNCHANGED <<pause, hold>>

\* Mutant: off by one.
BudgetOverspent(j, ph) == ph # "wait" /\ row[j].attempts > row[j].maxAttempts

BudgetSpent(j, ph) == ph # "wait" /\ row[j].attempts >= row[j].maxAttempts

\* store_retryable_result, three ways: attempts are left, ...
RetryWithinBudget(j, t, s, ph) ==
  /\ s \in Retryable
  /\ ~BudgetSpent(j, ph)
  /\ Finish(j, t, s, [row[j] EXCEPT !.phase = ph, !.due = FALSE])
  /\ WriteResult(j, s)
  /\ UNCHANGED <<pause, hold>>

\* Mutant: one extension more than the limit.
ExtendableOnceMore(j) == /\ Kind[j] \in AskKind
                         /\ row[j].extensions <= MaxExtensions
                         /\ row[j].maxAttempts < AttemptsCap

\* ... the budget is spent but a web ask may extend it, ...
Extendable(j) == /\ Kind[j] \in AskKind
                 /\ row[j].extensions < MaxExtensions
                 /\ row[j].maxAttempts < AttemptsCap

Larger(m, n) == IF m < n THEN n ELSE m
Smaller(m, n) == IF m < n THEN m ELSE n

RetryExtended(j, t, s, ph) ==
  /\ s \in Retryable
  /\ BudgetSpent(j, ph)
  /\ Extendable(j)
  /\ Finish(j, t, s, [row[j] EXCEPT
       !.phase = ph, !.due = FALSE, !.extensions = @ + 1,
       !.maxAttempts = Smaller(AttemptsCap, Larger(@ + 1, row[j].attempts + 1))])
  /\ WriteResult(j, s)
  /\ UNCHANGED <<pause, hold>>

\* ... or it is spent for good (an extendable ask too, when the error says
\* that the upload surface was closed).
RetryExhausted(j, t, ph) ==
  /\ BudgetSpent(j, ph)
  /\ StoreErrorResult(j, t, "error")

\* Mutant: the token stays on the row.
ReleaseKeepingToken(j, t) ==
  /\ Fenced(j, t)
  /\ Update(j, [row[j] EXCEPT !.phase = "wait", !.due = FALSE, !.lease = "none"])
  /\ UNCHANGED <<files, pause, hold>>

\* release_for_wait: still in_progress, but nobody's.
ReleaseForWait(j, t) ==
  /\ Fenced(j, t)
  /\ Update(j, [row[j] EXCEPT !.phase = "wait", !.due = FALSE,
                              !.token = NoToken, !.lease = "none"])
  /\ UNCHANGED <<files, pause, hold>>

\* store_canceled_result
StoreCanceledResult(j, t) ==
  /\ Finish(j, t, "canceled", [row[j] EXCEPT !.cancelRequested = TRUE])
  /\ WriteResult(j, "canceled")
  /\ UNCHANGED <<pause, hold>>

-----------------------------------------------------------------------------
(* request_cancel, by the status the request finds.                        *)

CanceledRow(r) == [r EXCEPT !.status = "canceled", !.cancelRequested = TRUE]
\* Mutant: every lease column gets the same null.
UnleasedUntyped(r) == [r EXCEPT !.token = NoToken, !.lease = NoToken]

Unleased(r) == [r EXCEPT !.token = NoToken, !.lease = "none"]

CancelQueued(j) == /\ row[j].status = "queued"
                   /\ CanTransition("queued", "canceled")
                   /\ Update(j, CanceledRow(row[j]))
                   /\ WriteResult(j, "canceled")
                   /\ UNCHANGED <<pause, hold>>

\* In the wait phase nothing is in flight: the row's own token cancels it.
CancelWaiting(j) ==
  /\ row[j].status = "in_progress"
  /\ row[j].phase = "wait"
  /\ \/ row[j].lease = "live" /\ StoreCanceledResult(j, row[j].token)
     \/ /\ row[j].lease # "live"
        /\ Update(j, Unleased(CanceledRow(row[j])))
        /\ WriteResult(j, "canceled")
        /\ UNCHANGED <<pause, hold>>

CancelParked(j) == /\ row[j].status \in Retryable
                   /\ Update(j, Unleased(CanceledRow(row[j])))
                   /\ WriteResult(j, "canceled")
                   /\ UNCHANGED <<pause, hold>>

\* In the send phase the worker is asked, nothing else.
FlagCancel(j) == /\ row[j].status = "in_progress"
                 /\ row[j].phase = "send"
                 /\ Update(j, [row[j] EXCEPT !.cancelRequested = TRUE])
                 /\ UNCHANGED <<files, pause, hold>>

RequestCancel(j) == CancelQueued(j) \/ CancelWaiting(j) \/ CancelParked(j) \/ FlagCancel(j)

-----------------------------------------------------------------------------
(* A crash between writing the files and committing the row.               *)

\* store_answer_result stopped after the first or the second rename, or
\* failed later and took back what it had published.
TornAnswer(j, t) ==
  /\ MayTear
  /\ Fenced(j, t)
  /\ files' \in {[files EXCEPT ![j].answer = t],
                 [files EXCEPT ![j] = [answer |-> t, result |-> "completed"]],
                 [files EXCEPT ![j].answer = NoToken],
                 [files EXCEPT ![j] = [answer |-> NoToken, result |-> "none"]]}
  /\ UNCHANGED <<row, pause, hold>>

\* Any other fenced operation stopped after write_result.
TornResult(j, t) == /\ MayTear
                    /\ Fenced(j, t)
                    /\ \E s \in {"error", "canceled"} \cup Retryable : WriteResult(j, s)
                    /\ UNCHANGED <<row, pause, hold>>

\* request_cancel stopped after write_result.
TornCancel(j) == /\ MayTear
                 /\ row[j].status \in {"queued", "in_progress"} \cup Retryable
                 /\ row[j].status = "in_progress" => row[j].phase = "wait"
                 /\ WriteResult(j, "canceled")
                 /\ UNCHANGED <<row, pause, hold>>

-----------------------------------------------------------------------------
(* Maintenance jobs that write rows without a lease.                       *)

\* Mutant: the status is not read again inside the transaction.
JanitorUnchecked(j) == /\ row[j].status # "absent"
                       /\ Update(j, Unleased([row[j] EXCEPT !.status = "error"]))
                       /\ WriteResult(j, "error")
                       /\ UNCHANGED <<pause, hold>>

\* backlog_janitor: the row first, then (if it lives that long) the file.
BacklogJanitor(j) ==
  /\ row[j].status \in Retryable
  /\ Update(j, Unleased([row[j] EXCEPT !.status = "error"]))
  /\ \/ WriteResult(j, "error")
     \/ MayTear /\ UNCHANGED files
  /\ UNCHANGED <<pause, hold>>

\* health_probe --apply.  Its not_before test precedes the transaction and
\* does not guard the update; its loop over waiting jobs never selects one.
HealthProbe(j) == /\ row[j].status \in Retryable
                  /\ Update(j, [row[j] EXCEPT !.status = "error"])
                  /\ UNCHANGED <<files, pause, hold>>

-----------------------------------------------------------------------------
(* Operators and time.                                                     *)

NotBeforeElapses(j) == /\ ~row[j].due
                       /\ Update(j, [row[j] EXCEPT !.due = TRUE])
                       /\ UNCHANGED <<files, pause, hold>>

SetPause(p) == /\ pause' = p
               /\ UNCHANGED <<row, files, hold>>

\* ops_pause_set(mode="none") wakes the queued jobs a pause had deferred;
\* a queued job is deferred for no other reason.
ClearPause == /\ pause' = NoPause
              /\ row' = [j \in Job |-> IF row[j].status = "queued"
                                       THEN [row[j] EXCEPT !.due = TRUE]
                                       ELSE row[j]]
              /\ UNCHANGED <<files, hold>>

PauseElapses == /\ pause # NoPause
                /\ pause' = NoPause
                /\ UNCHANGED <<row, files, hold>>

SetHold == /\ MayHold
           /\ ~hold
           /\ hold' = TRUE
           /\ UNCHANGED <<row, files, pause>>

HoldEnds == /\ hold
            /\ hold' = FALSE
            /\ UNCHANGED <<row, files, pause>>

-----------------------------------------------------------------------------
LeasedOp(j, t) ==
  \/ \E c \in Conversation : SetConversationUrl(j, t, c)
  \/ StoreAnswerResult(j, t)
  \/ \E s \in {"error", "needs_followup"} : StoreErrorResult(j, t, s)
  \/ \E s \in Retryable, ph \in Phase : RetryWithinBudget(j, t, s, ph)
  \/ \E s \in Retryable, ph \in Phase : RetryExtended(j, t, s, ph)
  \/ \E ph \in Phase : RetryExhausted(j, t, ph)
  \/ ReleaseForWait(j, t)
  \/ StoreCanceledResult(j, t)
  \/ TornAnswer(j, t)
  \/ TornResult(j, t)

JobLife(j) == \/ ExpireLease(j)
              \/ RequestCancel(j)
              \/ TornCancel(j)
              \/ BacklogJanitor(j)
              \/ HealthProbe(j)
              \/ NotBeforeElapses(j)

JobStep(j) == (\E r \in Request : CreateJob(j, r)) \/ JobLife(j)

OperatorStep == \/ \E p \in PauseState : SetPause(p)
                \/ ClearPause
                \/ PauseElapses
                \/ SetHold
                \/ HoldEnds

StoreNext == \/ \E j \in Job, t \in Token : ClaimNextJob(j, t) \/ LeasedOp(j, t)
             \/ \E j \in Job : JobStep(j)
             \/ OperatorStep

StoreSpec == StoreInit /\ [][StoreNext]_storeVars

-----------------------------------------------------------------------------
(* Properties.                                                             *)

\* Rows, files and operator state have their types.
StoreTypeOK == /\ row \in [Job -> RowType]
               /\ files \in [Job -> FilesType]
               /\ pause \in PauseType
               /\ hold \in BOOLEAN

\* A client that sees a verdict finds the artifacts of that verdict: for a
\* completed job the answer the row's digest describes, written by the
\* holder of the row's lease, although answers, results and rows are written
\* one after the other, by competing holders, and a crash may hit in between.
VerdictPublished ==
  \A j \in Job :
    /\ row[j].status = "completed" =>
         /\ row[j].answer \in Token
         /\ row[j].answer = row[j].token
         /\ files[j] = [answer |-> row[j].answer, result |-> "completed"]
    /\ row[j].status = "canceled" => files[j].result = "canceled"
    /\ row[j].status \in {"error"} \cup Retryable => files[j].result # "none"

\* Sends are bounded: a job is claimed for sending at most max_attempts
\* times, however the budget was extended, and the extensions are bounded
\* by their limit and by the cap.
AttemptBudget ==
  \A j \in Job :
    /\ row[j].attempts <= row[j].maxAttempts
    /\ row[j].maxAttempts <= MaxAttempts + row[j].extensions
    /\ row[j].extensions <= MaxExtensions
    /\ row[j].maxAttempts <= Larger(AttemptsCap, MaxAttempts)

\* No job is parked for a retry that the claim would refuse: a queued or
\* cooling job in the send phase always has an attempt left.
RetryClaimable ==
  \A j \in Job : (row[j].status \in {"queued", "cooldown"} /\ row[j].phase = "send")
                   => row[j].attempts < row[j].maxAttempts

\* Who may write: an in_progress row without a token is waiting for a wait
\* worker, a leased row has a token, and no two rows share one.
LeaseShape ==
  \A j \in Job :
    /\ row[j].lease = "none" <=> row[j].token = NoToken
    /\ row[j].status = "in_progress" /\ row[j].lease = "none" => row[j].phase = "wait"
    /\ row[j].status \in {"absent", "queued"} => row[j].lease = "none"
    /\ \A i \in Job \ {j} : row[i].token = row[j].token => row[j].token = NoToken

\* A verdict is final: nobody changes the status, the answer or the
\* published files of a completed or canceled job, nor the status of a
\* failed one (state_machine.TERMINAL_STATUSES).
TerminalFinal ==
  [][\A j \in Job : row[j].status \in Terminal =>
       /\ row'[j].status = row[j].status
       /\ row'[j].answer = row[j].answer
       /\ row[j].status # "error" => files'[j] = files[j]]_storeVars

\* A live lease is never handed to somebody else: as long as the job stays in
\* progress the token only goes away when its holder releases it.
LeaseExclusive ==
  [][\A j \in Job :
       /\ row[j].status = "in_progress"
       /\ row[j].lease = "live"
       /\ row'[j].status = "in_progress"
       => row'[j].token \in {row[j].token, NoToken}]_storeVars

\* Blocked and needs_followup jobs are never resumed by the service itself,
\* although the status machine declares the transitions: only a cancel or a
\* maintenance job ends them.
ParkedStaysParked ==
  [][\A j \in Job : row[j].status \in Parked =>
       row'[j].status \in {row[j].status, "canceled", "error"}]_storeVars

\* A claim gives out no job that the pause or the hold should keep back:
\* the SQL filter of the claim agrees with pause_filter_allows_job.
PauseRespected ==
  [][\A j \in Job : row'[j].token \notin {row[j].token, NoToken} =>
       /\ PauseFilterAllows(pause, Kind[j], row[j].phase)
       /\ hold => Kind[j] # "chatgpt_web.ask"]_storeVars

\* What a client sees of a job, as JobVerdict tells it.
Verdict(j) == IF row[j].status \in Terminal \cup {"absent"} THEN row[j].status ELSE "open"
VisibleAnswer(j) == IF row[j].status = "completed" THEN files[j].answer ELSE NoToken

Abstract == INSTANCE JobVerdict WITH
              verdict <- [j \in Job |-> Verdict(j)],
              answer <- [j \in Job |-> VisibleAnswer(j)]

\* The store implements the promise of JobVerdict.
VerdictSpec == Abstract!Spec
=============================================================================

----------------------------- MODULE WorkerLoop -----------------------------
(***************************************************************************)
(* The workers (worker/worker.py: _run_once and its helper tasks) on top   *)
(* of the job store.  A worker claims a job, reads it once more, runs the  *)
(* provider executor while a heartbeat renews the lease and a watcher      *)
(* polls for a cancel request, and stores what the executor returned.      *)
(* None of these steps sees what the others do until it looks, and each    *)
(* may find that the job is no longer this worker's.                       *)
(*                                                                         *)
(* Every step of a worker is a step of the store or leaves it alone, so    *)
(* what JobStore promises to any client holds here; this module adds what  *)
(* depends on who the clients are.                                         *)
(***************************************************************************)
EXTENDS JobStore

CONSTANTS Worker,
          Role,       \* [Worker -> {"send", "wait", "all"}]
          MaxFaults   \* bound: crashes, dead heartbeats and stalls together

ASSUME WorkerAssumption == /\ Role \in [Worker -> {"send", "wait", "all"}]
                           /\ MaxFaults \in Nat

VARIABLES run,     \* what each worker's _run_once is doing
          faults   \* how many faults have happened

workerVars == <<run, faults>>
vars == <<row, files, pause, hold, run, faults>>

RunType ==
  [stage : {"idle",
            "claimed",     \* before the second read of the row
            "loaded",      \* before the look at the parent
            "ready",       \* before the heartbeat starts
            "exec",        \* the executor runs
            "done",        \* its result is not stored yet
            "canceling"},  \* the cancellation is not stored yet
   job : Job \cup {NoJob},
   token : Token \cup {NoToken},
   phase : Phase,          \* exec_phase; "full" counts as "send"
   sawCancel : BOOLEAN,    \* the snapshot, then cancel_event
   beating : BOOLEAN]      \* the heartbeat task runs

Idle == [stage |-> "idle", job |-> NoJob, token |-> NoToken, phase |-> "send",
         sawCancel |-> FALSE, beating |-> FALSE]

Init == /\ StoreInit
        /\ run = [w \in Worker |-> Idle]
        /\ faults = 0

-----------------------------------------------------------------------------
(* Predicates the steps share.                                             *)

SetRun(w, r) == run' = [run EXCEPT ![w] = r]
EndRun(w) == SetRun(w, Idle) /\ UNCHANGED faults

\* This worker's lease is still what the row says.
Held(w) == Fenced(run[w].job, run[w].token)

\* The phase filter of the role.
RoleTakes(w, j) == Role[w] = "all" \/ row[j].phase = Role[w]

\* Mutant: a worker of all roles sends whatever it claims.
ExecPhaseByRole(w, j) == IF Role[w] = "wait" THEN "wait" ELSE "send"

\* exec_phase
ExecPhase(w, j) == IF Kind[j] \in AskKind /\ (Role[w] = "wait" \/
                        (Role[w] = "all" /\ row[j].phase = "wait"))
                   THEN "wait" ELSE "send"

\* A cancel request does not interrupt a prompt that may be on its way.
Interruptible(w) == run[w].phase = "wait" \/ Kind[run[w].job] \notin AskKind

\* Somebody keeps the lease alive, or is between two steps that nothing slow
\* separates (claim to heartbeat, cancellation to its transaction).
Attended(j) ==
  \E w \in Worker : /\ run[w].job = j
                    /\ run[w].token = row[j].token
                    /\ run[w].stage \in {"claimed", "loaded", "ready", "canceling"} \/ run[w].beating

-----------------------------------------------------------------------------
(* One run.                                                                *)

\* Mutant: the run does not take over the token of its claim.
WorkerClaimTokenless(w, j, t) ==
  /\ run[w].stage = "idle"
  /\ RoleTakes(w, j)
  /\ ClaimNextJob(j, t)
  /\ SetRun(w, [Idle EXCEPT !.stage = "claimed", !.job = j, !.phase = ExecPhase(w, j)])
  /\ UNCHANGED faults

WorkerClaim(w, j, t) ==
  /\ run[w].stage = "idle"
  /\ RoleTakes(w, j)
  /\ \A v \in Worker : run[v].token # t
  /\ ClaimNextJob(j, t)
  /\ SetRun(w, [Idle EXCEPT !.stage = "claimed", !.job = j, !.token = t,
                            !.phase = ExecPhase(w, j)])
  /\ UNCHANGED faults

\* No driver, or a kind without an executor.
FailEarly(w) == /\ run[w].stage = "claimed"
                /\ StoreErrorResult(run[w].job, run[w].token, "error")
                /\ EndRun(w)

\* The second read of the row: the only look at a cancel that came before.
Load(w) ==
  /\ run[w].stage = "claimed"
  /\ SetRun(w, [run[w] EXCEPT !.stage = "loaded",
                              !.sawCancel = row[run[w].job].cancelRequested])
  /\ UNCHANGED <<row, files, pause, hold, faults>>

\* What a follow-up that knew no conversation when it was claimed takes from
\* its parent.
LateParent(j) == IF row[j].conversation = NoConversation /\ row[j].parent # NoJob
                 THEN row[row[j].parent].conversation
                 ELSE NoConversation

Inherit(w) ==
  LET c == LateParent(run[w].job) IN
  /\ run[w].stage = "loaded"
  /\ \/ c # NoConversation /\ SetConversationUrl(run[w].job, run[w].token, c)
     \/ c = NoConversation /\ UNCHANGED storeVars
  /\ SetRun(w, [run[w] EXCEPT !.stage = "ready"])
  /\ UNCHANGED faults

\* Mutant: the snapshot is not looked at.
BeginBlind(w) ==
  /\ run[w].stage = "ready"
  /\ SetRun(w, [run[w] EXCEPT !.stage = "exec", !.beating = TRUE, !.sawCancel = FALSE])
  /\ UNCHANGED <<row, files, pause, hold, faults>>

\* A snapshot with a cancel request ends the run; otherwise the heartbeat,
\* the cancel watcher and the executor start.
Begin(w) ==
  /\ run[w].stage = "ready"
  /\ SetRun(w, IF run[w].sawCancel THEN [run[w] EXCEPT !.stage = "canceling"]
               ELSE [run[w] EXCEPT !.stage = "exec", !.beating = TRUE])
  /\ UNCHANGED <<row, files, pause, hold, faults>>

\* A rescue follow-up whose parent completes in the grace window gets the
\* parent's answer and sends nothing.
Rescued(w) ==
  LET j == run[w].job IN
  /\ run[w].stage = "ready"
  /\ ~run[w].sawCancel
  /\ Kind[j] = "chatgpt_web.ask"
  /\ run[w].phase = "send"
  /\ row[j].parent # NoJob
  /\ row[row[j].parent].status = "completed"

ShortCircuit(w) == /\ Rescued(w)
                   /\ StoreAnswerResult(run[w].job, run[w].token)
                   /\ EndRun(w)

\* _cancel_watch sets cancel_event and, with it, the heartbeat's stop_event.
ObserveCancel(w) ==
  /\ run[w].stage \in {"exec", "done"}
  /\ run[w].beating
  /\ row[run[w].job].cancelRequested
  /\ SetRun(w, [run[w] EXCEPT
       !.beating = FALSE, !.sawCancel = (run[w].stage = "exec"),
       !.stage = IF run[w].stage = "exec" /\ Interruptible(w)
                 THEN "canceling" ELSE @])
  /\ UNCHANGED <<row, files, pause, hold, faults>>

\* Mutant: the worker that lost its lease puts the job back into the queue.
LeaseLostRequeues(w) ==
  /\ run[w].stage = "exec"
  /\ run[w].beating
  /\ ~Held(w)
  /\ EndRun(w)
  /\ Update(run[w].job, [row[run[w].job] EXCEPT !.status = "queued"])
  /\ UNCHANGED <<files, pause, hold>>

\* renew_lease returned False: the executor is canceled and the run ends.
LeaseLost(w) ==
  /\ run[w].stage = "exec"
  /\ run[w].beating
  /\ ~Held(w)
  /\ EndRun(w)
  /\ UNCHANGED storeVars

\* The thread a provider opens for a new chat is nobody else's.
NewThread(j) == {c \in Conversation : /\ HostFits(Kind[j], c)
                                      /\ \A i \in Job : row[i].conversation # c}

\* A Gemini run of phase wait or full (gemini_web_mcp.py:2491, 2804) that has no
\* thread looks for it among the chats in the sidebar, by title, by the text of
\* the prompt, or takes the latest.
Searches(w) == /\ Kind[run[w].job] = "gemini_web.ask"
               /\ row[run[w].job].conversation = NoConversation
               /\ Role[w] # "send"

\* What it opens there may be any thread of the account, another job's too.
ReportedThread(w) ==
  IF Searches(w) THEN {c \in Conversation : HostFits(Kind[run[w].job], c)}
  ELSE NewThread(run[w].job)

\* Mutant: the heartbeat ends with the executor, before the result is stored.
FinishExecUnrenewed(w) ==
  /\ run[w].stage = "exec"
  /\ SetRun(w, [run[w] EXCEPT !.stage = IF run[w].sawCancel THEN "canceling" ELSE "done",
                              !.beating = FALSE])
  /\ \/ UNCHANGED row
     \/ /\ Kind[run[w].job] \in AskKind
        /\ \E c \in ReportedThread(w) : SetConversationUrl(run[w].job, run[w].token, c)
  /\ UNCHANGED <<files, pause, hold, faults>>

\* The executor returns, with or without a thread url; a url that cannot be
\* stored is dropped.
FinishExec(w) ==
  /\ run[w].stage = "exec"
  /\ SetRun(w, [run[w] EXCEPT !.stage = IF run[w].sawCancel THEN "canceling" ELSE "done"])
  /\ \/ UNCHANGED row
     \/ /\ Kind[run[w].job] \in AskKind
        /\ \E c \in ReportedThread(w) : SetConversationUrl(run[w].job, run[w].token, c)
  /\ UNCHANGED <<files, pause, hold, faults>>

-----------------------------------------------------------------------------
(* Storing the result, by what the executor returned.                      *)

PersistAnswer(w) == /\ run[w].stage = "done"
                    /\ StoreAnswerResult(run[w].job, run[w].token)
                    /\ EndRun(w)

PersistError(w) == /\ run[w].stage = "done"
                   /\ \E s \in {"error", "needs_followup"} :
                        StoreErrorResult(run[w].job, run[w].token, s)
                   /\ EndRun(w)

\* retry_phase or exec_phase: an ask that may have been sent goes on waiting.
RetryPhase(w) == IF run[w].phase = "wait" THEN {"wait"}
                 ELSE IF Kind[run[w].job] \in AskKind THEN Phase ELSE {"send"}

PersistRetry(w) ==
  LET j == run[w].job  t == run[w].token IN
  /\ run[w].stage = "done"
  /\ \E s \in Retryable, ph \in RetryPhase(w) :
       \/ RetryWithinBudget(j, t, s, ph)
       \/ RetryExtended(j, t, s, ph)
       \/ RetryExhausted(j, t, ph)
  /\ EndRun(w)

\* An ask that is in progress at the provider is left to the wait workers.
PersistRelease(w) == /\ run[w].stage = "done"
                     /\ Kind[run[w].job] \in AskKind
                     /\ ReleaseForWait(run[w].job, run[w].token)
                     /\ EndRun(w)

PersistCanceled(w) == /\ run[w].stage \in {"done", "canceling"}
                      /\ StoreCanceledResult(run[w].job, run[w].token)
                      /\ EndRun(w)

\* LeaseLost, AlreadyFinished or RuntimeError: the store refused the result
\* (or the url) of a run that lost its job, and the run ends.
PersistRefused(w) ==
  /\ \/ run[w].stage \in {"claimed", "done", "canceling"}
     \/ run[w].stage = "loaded" /\ LateParent(run[w].job) # NoConversation
     \/ Rescued(w)
  /\ ~Held(w)
  /\ EndRun(w)
  /\ UNCHANGED storeVars

Persist(w) == \/ PersistAnswer(w)
              \/ PersistError(w)
              \/ PersistRetry(w)
              \/ PersistRelease(w)
              \/ PersistCanceled(w)
              \/ PersistRefused(w)

-----------------------------------------------------------------------------
(* Faults.                                                                 *)

Fault == faults < MaxFaults /\ faults' = faults + 1

\* The process dies, perhaps while it stores its result.
Crash(w) == /\ Fault
            /\ run[w].stage # "idle"
            /\ SetRun(w, Idle)
            /\ \/ UNCHANGED storeVars
               \/ run[w].stage = "done" /\ TornAnswer(run[w].job, run[w].token)
               \/ /\ run[w].stage \in {"done", "canceling"}
                  /\ TornResult(run[w].job, run[w].token)

\* The heartbeat task ends with an exception (the database was locked for
\* too long); nobody awaits it before the run is over.
HeartbeatDies(w) == /\ Fault
                    /\ run[w].beating
                    /\ SetRun(w, [run[w] EXCEPT !.beating = FALSE])
                    /\ UNCHANGED storeVars

\* The process sleeps longer than the lease lasts.
Stall(w) == /\ Fault
            /\ run[w].stage # "idle"
            /\ Held(w)
            /\ ExpireLease(run[w].job)
            /\ UNCHANGED run

FaultStep(w) == Crash(w) \/ HeartbeatDies(w) \/ Stall(w)

-----------------------------------------------------------------------------
\* Without a fault a lease runs out only when nobody renews it.
LeaseElapses(j) == ~Attended(j) /\ ExpireLease(j) /\ UNCHANGED workerVars

Submit(j) == (\E r \in Request : CreateJob(j, r)) /\ UNCHANGED workerVars
Cancel(j) == RequestCancel(j) /\ UNCHANGED workerVars
BecomeDue(j) == NotBeforeElapses(j) /\ UNCHANGED workerVars
Maintain(j) == (BacklogJanitor(j) \/ HealthProbe(j)) /\ UNCHANGED workerVars
TornRequest(j) == TornCancel(j) /\ UNCHANGED workerVars

RunStep(w) == \/ Load(w)
              \/ Inherit(w)
              \/ Begin(w)
              \/ ShortCircuit(w)
              \/ ObserveCancel(w)
              \/ LeaseLost(w)
              \/ FinishExec(w)
              \/ Persist(w)
              \/ FailEarly(w)

Next == \/ \E w \in Worker : \/ \E j \in Job, t \in Token : WorkerClaim(w, j, t)
                             \/ RunStep(w)
                             \/ FaultStep(w)
        \/ \E j \in Job : \/ LeaseElapses(j)
                          \/ Submit(j)
                          \/ Cancel(j)
                          \/ BecomeDue(j)
                          \/ Maintain(j)
                          \/ TornRequest(j)
        \/ OperatorStep /\ UNCHANGED workerVars

Spec == Init /\ [][Next]_vars

\* The worker loops poll for ever, a run goes on while its process lives, and
\* clocks advance.  Clients, operators, maintenance and faults owe nothing.
Fairness ==
  /\ \A w \in Worker :
       /\ WF_vars(RunStep(w))
       /\ WF_vars(\E j \in Job, t \in Token : WorkerClaim(w, j, t))
  /\ \A j \in Job : WF_vars(LeaseElapses(j)) /\ WF_vars(BecomeDue(j))

LiveSpec == Spec /\ Fairness

-----------------------------------------------------------------------------
(* Properties.                                                             *)

\* Runs have their type, and a run that is not idle has a job and a token.
WorkerTypeOK == /\ run \in [Worker -> RunType]
                /\ faults \in 0..MaxFaults
                /\ \A w \in Worker : run[w].stage # "idle" =>
                     run[w].job \in Job /\ run[w].token \in Token

\* Every step of the workers is one the store allows to any client.
StoreRefined == StoreSpec

\* At a provider, with the job's prompt or with the formatting prompt that
\* may follow its answer.
Executing(w) == run[w].stage \in {"exec", "done"}

\* Without faults no job is executed by two workers at a time, although a
\* cancel request stops the heartbeat of a run whose executor goes on.
OneExecutor ==
  \A v, w \in Worker : v # w => ~ /\ Executing(v)
                                  /\ Executing(w)
                                  /\ run[v].job = run[w].job

\* A job in progress changes hands only after a fault, or after the cancel
\* request that stops the heartbeat of a run whose executor goes on: between
\* claim and heartbeat, while the executor works and while its result is
\* stored, nobody takes the lease (_lease_heartbeat, _cancel_watch, renew_lease).
TakeoverHasCause ==
  [][\A j \in Job :
       (/\ row[j].status = "in_progress"
        /\ row[j].token # NoToken
        /\ row'[j].token \notin {row[j].token, NoToken})
       => faults > 0 \/ row[j].cancelRequested]_vars

\* Two workers that both hold their leases never send into one conversation.
OneSendPerConversation ==
  \A v, w \in Worker :
    (/\ v # w
     /\ run[v].stage = "exec" /\ run[v].phase = "send" /\ Held(v)
     /\ run[w].stage = "exec" /\ run[w].phase = "send" /\ Held(w)
     /\ Kind[run[v].job] = Kind[run[w].job]
     /\ Kind[run[v].job] \in AskKind)
    => \/ row[run[v].job].conversation = NoConversation
       \/ row[run[v].job].conversation # row[run[w].job].conversation

\* A job that waits for an answer never goes back to sending its prompt
\* ("wait: no new prompt is sent", docs/contract_v1.md), whoever resumes it.
PhaseMonotone ==
  [][\A j \in Job : row[j].phase = "wait" => row'[j].phase = "wait"]_vars

\* A crashed worker's job can be claimed again ("test_reclaim_expired_in_
\* progress_lease"), at once or when the job that keeps it out moves on.
ExpiredIsReclaimable ==
  \A j \in Job :
    (/\ row[j].status = "in_progress"
     /\ row[j].lease = "expired"
     /\ row[j].due
     /\ pause = NoPause
     /\ ~hold)
    => \/ Claimable(j)
       \/ \E i \in Job \ {j} : /\ row[i].conversation = row[j].conversation
                               /\ row[i].status = "in_progress"
                               /\ row[i].lease = "live" \/ row[i].phase = "wait"

\* "input.parent_job_id=<job_id> will continue in the same thread"
\* (worker.py): a ChatGPT follow-up that named no conversation of its own and
\* its parent end up in one thread.
FollowUpStaysInThread ==
  \A j \in Job :
    (/\ row[j].parent # NoJob
     /\ row[j].conversation # NoConversation
     /\ row[row[j].parent].conversation # NoConversation)
    => row[j].conversation = row[row[j].parent].conversation

HasHolder(j) == \E w \in Worker : run[w].job = j /\ Held(w)

\* A job whose worker went away does not stay in progress without one.
LeaseRecovers ==
  \A j \in Job : (row[j].status = "in_progress" /\ ~HasHolder(j))
                   ~> (row[j].status # "in_progress" \/ HasHolder(j))

\* A cancel request, whenever it comes, ends the job or finds it parked.
CancelSettles ==
  \A j \in Job : row[j].cancelRequested ~> row[j].status \in Terminal \cup Parked

\* "If in_progress, sets cancel_requested_at and the worker should transition
\* to canceled as soon as possible" (docs/contract_v1.md): a cancel request
\* leads to a verdict.
CancelReachesVerdict ==
  \A j \in Job : row[j].cancelRequested ~> row[j].status \in Terminal
=============================================================================

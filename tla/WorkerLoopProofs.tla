-------------------------- MODULE WorkerLoopProofs --------------------------
(***************************************************************************)
(* The worker loop is a client of the store: every step of a worker, a     *)
(* fault included, is a step of StoreNext or leaves the store alone.  So   *)
(* whatever JobStoreProofs and JobVerdictProofs say of the store holds of  *)
(* the running system, for any number of workers, roles and faults.        *)
(*                                                                         *)
(* The prompt is never sent again once the job waits: PhaseMonotone needs  *)
(* to know what a worker that holds its lease believes about the phase.    *)
(***************************************************************************)
EXTENDS WorkerLoop, JobVerdictProofs

LEMMA RunHasItsJob ==
  ASSUME WorkerTypeOK, NEW w \in Worker, run[w].stage # "idle"
  PROVE  run[w].job \in Job /\ run[w].token \in Token
BY DEF WorkerTypeOK

\* A step of a run leaves the store alone or is an operation of its lease.
LEMMA RunsAreClients ==
  ASSUME Inv, WorkerTypeOK, NEW w \in Worker, RunStep(w)
  PROVE  \/ UNCHANGED storeVars
         \/ \E j \in Job, t \in Token : LeasedOp(j, t)
<1> DEFINE j == run[w].job
           t == run[w].token
<1>1. CASE Load(w) \/ Begin(w) \/ ObserveCancel(w) \/ LeaseLost(w) \/ PersistRefused(w)
  BY <1>1 DEF Load, Begin, ObserveCancel, LeaseLost, PersistRefused, storeVars
<1>2. run[w].stage # "idle" => j \in Job /\ t \in Token
  BY RunHasItsJob
<1>3. CASE Inherit(w)
  <2>1. CASE UNCHANGED storeVars
    BY <2>1
  <2>2. CASE LateParent(j) # NoConversation /\ SetConversationUrl(j, t, LateParent(j))
    <3>1. j \in Job /\ t \in Token
      BY <1>2, <1>3 DEF Inherit
    <3>2. row[j] \in RowType /\ (row[j].parent \in Job => row[row[j].parent] \in RowType)
      BY <3>1 DEF Inv, StoreTypeOK
    <3>3. LateParent(j) \in Conversation
      BY <2>2, <3>2 DEF LateParent, RowType
    <3>4. \E c \in Conversation : SetConversationUrl(j, t, c)
      BY <2>2, <3>3
    <3> QED
      BY <3>1, <3>4 DEF LeasedOp
  <2> QED
    BY <1>3, <2>1, <2>2 DEF Inherit
<1>4. CASE FinishExec(w)
  <2>1. CASE UNCHANGED row
    BY <1>4, <2>1 DEF FinishExec, storeVars
  <2>2. CASE \E c \in ReportedThread(w) : SetConversationUrl(j, t, c)
    <3>1. j \in Job /\ t \in Token
      BY <1>2, <1>4 DEF FinishExec
    <3>2. \E c \in Conversation : SetConversationUrl(j, t, c)
      BY <2>2 DEF ReportedThread, NewThread
    <3> QED
      BY <3>1, <3>2 DEF LeasedOp
  <2> QED
    BY <1>4, <2>1, <2>2 DEF FinishExec
<1>5. CASE \/ ShortCircuit(w) \/ FailEarly(w) \/ PersistAnswer(w)
           \/ PersistError(w) \/ PersistRelease(w) \/ PersistCanceled(w)
  <2>1. j \in Job /\ t \in Token
    BY <1>2, <1>5 DEF ShortCircuit, Rescued, FailEarly, PersistAnswer, PersistError,
                      PersistRelease, PersistCanceled
  <2>2. LeasedOp(j, t)
    BY <1>5 DEF ShortCircuit, Rescued, FailEarly, PersistAnswer, PersistError,
                PersistRelease, PersistCanceled, LeasedOp
  <2> QED
    BY <2>1, <2>2
<1>6. CASE PersistRetry(w)
  <2>1. j \in Job /\ t \in Token
    BY <1>2, <1>6 DEF PersistRetry
  <2>2. RetryPhase(w) \subseteq Phase
    BY DEF RetryPhase, Phase
  <2>3. LeasedOp(j, t)
    BY <1>6, <2>2 DEF PersistRetry, LeasedOp
  <2> QED
    BY <2>1, <2>3
<1> QED
  BY <1>1, <1>3, <1>4, <1>5, <1>6 DEF RunStep, Persist

LEMMA WorkersAreClients ==
  ASSUME Inv, WorkerTypeOK, [Next]_vars
  PROVE  [StoreNext]_storeVars
<1>1. CASE UNCHANGED storeVars
  BY <1>1
<1>2. CASE \E j \in Job, t \in Token : ClaimNextJob(j, t)
  BY <1>2 DEF StoreNext
<1>3. CASE \E j \in Job, t \in Token : LeasedOp(j, t)
  BY <1>3 DEF StoreNext
<1>4. CASE \E j \in Job : JobStep(j)
  BY <1>4 DEF StoreNext
<1>5. CASE OperatorStep
  BY <1>5 DEF StoreNext
<1>6. ASSUME NEW w \in Worker, RunStep(w)
      PROVE  [StoreNext]_storeVars
  BY <1>1, <1>3, <1>6, RunsAreClients
<1>7. ASSUME NEW w \in Worker, FaultStep(w)
      PROVE  [StoreNext]_storeVars
  <2>1. run[w].stage # "idle" => run[w].job \in Job /\ run[w].token \in Token
    BY RunHasItsJob
  <2>2. CASE UNCHANGED storeVars
    BY <1>1, <2>2
  <2>3. CASE Crash(w) /\ (TornAnswer(run[w].job, run[w].token) \/ TornResult(run[w].job, run[w].token))
    BY <1>3, <2>1, <2>3 DEF Crash, LeasedOp
  <2>4. CASE Stall(w)
    BY <1>4, <2>1, <2>4 DEF Stall, JobStep, JobLife
  <2> QED
    BY <1>7, <2>2, <2>3, <2>4 DEF FaultStep, Crash, HeartbeatDies
<1>8. CASE \E j \in Job : \/ LeaseElapses(j) \/ Submit(j) \/ Cancel(j)
                          \/ BecomeDue(j) \/ Maintain(j) \/ TornRequest(j)
  BY <1>4, <1>8 DEF LeaseElapses, Submit, Cancel, BecomeDue, Maintain, TornRequest, JobStep, JobLife
<1>9. CASE UNCHANGED vars
  BY <1>1, <1>9 DEF vars, storeVars
<1> QED
  BY <1>2, <1>5, <1>6, <1>7, <1>8, <1>9 DEF Next, WorkerClaim

-----------------------------------------------------------------------------
(* Types.                                                                  *)

\* A run that goes on is well typed if its new record is.
LEMMA OneRun ==
  ASSUME WorkerTypeOK, NEW w \in Worker, NEW r \in RunType, SetRun(w, r),
         r.stage # "idle" => r.job \in Job /\ r.token \in Token,
         faults' \in 0..MaxFaults
  PROVE  WorkerTypeOK'
BY DEF WorkerTypeOK, SetRun

LEMMA EndedRun ==
  ASSUME WorkerTypeOK, NEW w \in Worker, EndRun(w)
  PROVE  WorkerTypeOK'
<1>1. Idle \in RunType /\ Idle.stage = "idle"
  BY DEF Idle, RunType, Phase
<1>2. SetRun(w, Idle) /\ faults' \in 0..MaxFaults
  BY DEF EndRun, WorkerTypeOK
<1> QED
  BY <1>1, <1>2, OneRun

LEMMA WorkerTypeInductive ==
  ASSUME Inv, WorkerTypeOK, [Next]_vars
  PROVE  WorkerTypeOK'
<1> DEFINE Goes(w) == \E r \in RunType : /\ SetRun(w, r)
                                         /\ r.job \in Job /\ r.token \in Token
<1>1. CASE UNCHANGED workerVars
  BY <1>1 DEF workerVars, WorkerTypeOK
<1>2. ASSUME NEW w \in Worker, EndRun(w)
      PROVE  WorkerTypeOK'
  BY <1>2, EndedRun
<1>3. ASSUME NEW w \in Worker, Goes(w), faults' \in 0..MaxFaults
      PROVE  WorkerTypeOK'
  BY <1>3, OneRun
<1>4. ASSUME NEW w \in Worker, NEW j \in Job, NEW t \in Token, WorkerClaim(w, j, t)
      PROVE  WorkerTypeOK'
  <2> DEFINE r == [Idle EXCEPT !.stage = "claimed", !.job = j, !.token = t,
                               !.phase = ExecPhase(w, j)]
  <2>1. ExecPhase(w, j) \in Phase
    BY DEF ExecPhase, Phase
  <2>2. r \in RunType /\ r.job \in Job /\ r.token \in Token
    BY <2>1 DEF Idle, RunType
  <2>3. SetRun(w, r) /\ faults' \in 0..MaxFaults
    BY <1>4 DEF WorkerClaim, WorkerTypeOK
  <2> HIDE DEF r
  <2> QED
    BY <1>3, <2>2, <2>3
<1>5. ASSUME NEW w \in Worker, RunStep(w)
      PROVE  WorkerTypeOK'
  <2> DEFINE q == run[w]
  <2>1. q \in RunType /\ (q.stage # "idle" => q.job \in Job /\ q.token \in Token)
    BY DEF WorkerTypeOK
  <2>2. CASE Load(w)
    <3> DEFINE c == row[q.job].cancelRequested
               r == [q EXCEPT !.stage = "loaded", !.sawCancel = c]
    <3>1. q.job \in Job /\ q.token \in Token
      BY <2>1, <2>2 DEF Load
    <3>2. c \in BOOLEAN
      BY <3>1 DEF Inv, StoreTypeOK, RowType
    <3>3. SetRun(w, r) /\ faults' \in 0..MaxFaults
      BY <2>2 DEF Load, WorkerTypeOK
    <3> HIDE DEF c
    <3>4. r \in RunType /\ r.job \in Job /\ r.token \in Token
      BY <2>1, <3>1, <3>2 DEF RunType
    <3> HIDE DEF r
    <3> QED
      BY <1>3, <3>3, <3>4
  <2>3. CASE Begin(w)
    <3>1. q.job \in Job /\ q.token \in Token
      BY <2>1, <2>3 DEF Begin
    <3> DEFINE r == [q EXCEPT !.stage = "canceling"]
               s == [q EXCEPT !.stage = "exec", !.beating = TRUE]
    <3>2. (SetRun(w, r) \/ SetRun(w, s)) /\ faults' \in 0..MaxFaults
      BY <2>3 DEF Begin, WorkerTypeOK
    <3>3. r \in RunType /\ r.job \in Job /\ r.token \in Token
      BY <2>1, <3>1 DEF RunType
    <3>4. s \in RunType /\ s.job \in Job /\ s.token \in Token
      BY <2>1, <3>1 DEF RunType
    <3> HIDE DEF r, s
    <3> QED
      BY <1>3, <3>2, <3>3, <3>4
  <2>4. CASE ObserveCancel(w)
    <3>1. q.job \in Job /\ q.token \in Token
      BY <2>1, <2>4 DEF ObserveCancel
    <3> DEFINE s == IF q.stage = "exec" /\ Interruptible(w) THEN "canceling" ELSE q.stage
               c == q.stage = "exec"
               r == [q EXCEPT !.beating = FALSE, !.sawCancel = c, !.stage = s]
    <3>2. c \in BOOLEAN /\ s \in {"canceling", "exec", "done"}
      BY <2>4 DEF ObserveCancel
    <3>3. SetRun(w, r) /\ faults' \in 0..MaxFaults
      BY <2>4 DEF ObserveCancel, WorkerTypeOK
    <3> HIDE DEF s, c
    <3>4. r \in RunType /\ r.job \in Job /\ r.token \in Token
      BY <2>1, <3>1, <3>2 DEF RunType
    <3> HIDE DEF r
    <3> QED
      BY <1>3, <3>3, <3>4
  <2>5. CASE FinishExec(w)
    <3>1. q.job \in Job /\ q.token \in Token
      BY <2>1, <2>5 DEF FinishExec
    <3>2. Goes(w) /\ faults' \in 0..MaxFaults
      BY <2>1, <2>5, <3>1 DEF FinishExec, RunType, WorkerTypeOK
    <3> QED
      BY <1>3, <3>2
  <2>6. CASE Inherit(w)
    <3> DEFINE r == [q EXCEPT !.stage = "ready"]
    <3>1. q.job \in Job /\ q.token \in Token
      BY <2>1, <2>6 DEF Inherit
    <3>2. SetRun(w, r) /\ faults' \in 0..MaxFaults
      BY <2>6 DEF Inherit, WorkerTypeOK
    <3>3. r \in RunType /\ r.job \in Job /\ r.token \in Token
      BY <2>1, <3>1 DEF RunType
    <3> HIDE DEF r
    <3> QED
      BY <1>3, <3>2, <3>3
  <2>7. CASE EndRun(w)
    BY <1>2, <2>7
  <2> QED
    BY <1>5, <2>2, <2>3, <2>4, <2>5, <2>6, <2>7
    DEF RunStep, ShortCircuit, LeaseLost, FailEarly, Persist, PersistAnswer, PersistError,
        PersistRetry, PersistRelease, PersistCanceled, PersistRefused
<1>6. ASSUME NEW w \in Worker, FaultStep(w)
      PROVE  WorkerTypeOK'
  <2>1. faults' \in 0..MaxFaults
    BY <1>6, WorkerAssumption DEF FaultStep, Crash, HeartbeatDies, Stall, Fault, WorkerTypeOK
  <2>2. CASE Crash(w)
    <3>1. Idle \in RunType /\ Idle.stage = "idle"
      BY DEF Idle, RunType, Phase
    <3> QED
      BY <2>1, <2>2, <3>1, OneRun DEF Crash
  <2>3. CASE HeartbeatDies(w)
    <3> DEFINE r == [run[w] EXCEPT !.beating = FALSE]
    <3>1. /\ r \in RunType
          /\ r.stage # "idle" => r.job \in Job /\ r.token \in Token
      BY DEF RunType, WorkerTypeOK
    <3>2. SetRun(w, r)
      BY <2>3 DEF HeartbeatDies
    <3> HIDE DEF r
    <3> QED
      BY <2>1, <3>1, <3>2, OneRun
  <2>4. CASE Stall(w)
    BY <2>1, <2>4 DEF Stall, WorkerTypeOK
  <2> QED
    BY <1>6, <2>2, <2>3, <2>4 DEF FaultStep
<1>7. CASE UNCHANGED vars
  BY <1>1, <1>7 DEF vars, workerVars
<1> QED
  BY <1>1, <1>4, <1>5, <1>6, <1>7
  DEF Next, LeaseElapses, Submit, Cancel, BecomeDue, Maintain, TornRequest

LEMMA WorkerInit ==
  ASSUME Init
  PROVE  Inv /\ WorkerTypeOK
<1>1. Inv
  BY InvInit DEF Init
<1>2. Idle \in RunType /\ Idle.stage = "idle"
  BY DEF Idle, RunType, Phase
<1>3. WorkerTypeOK
  BY <1>2, WorkerAssumption DEF Init, WorkerTypeOK
<1> QED
  BY <1>1, <1>3

\* Runs are well typed, and a run that is under way has a job and a token.
THEOREM WorkerInvariance == Spec => [](Inv /\ WorkerTypeOK)
<1>1. Init => Inv /\ WorkerTypeOK
  BY WorkerInit
<1>2. Inv /\ WorkerTypeOK /\ [Next]_vars => (Inv /\ WorkerTypeOK)'
  BY WorkersAreClients, InvInductive, WorkerTypeInductive
<1> QED
  BY <1>1, <1>2, PTL DEF Spec

THEOREM WorkerTypeCorrect == Spec => []WorkerTypeOK
BY WorkerInvariance, PTL

\* The running system, with all its workers and their faults, is an
\* implementation of the store's specification ...
THEOREM WorkersRefineStore == Spec => StoreRefined
<1>1. Init => StoreInit
  BY DEF Init
<1>2. Inv /\ WorkerTypeOK /\ [Next]_vars => [StoreNext]_storeVars
  BY WorkersAreClients
<1> QED
  BY <1>1, <1>2, WorkerInvariance, PTL DEF Spec, StoreRefined, StoreSpec

\* ... and therefore keeps its promises: a verdict that a client sees is
\* published, and it is final.
THEOREM WorkersPublishVerdicts == Spec => []VerdictPublished /\ TerminalFinal /\ VerdictSpec
BY WorkersRefineStore, VerdictIsPublished, VerdictsAreFinal, Refinement, PTL DEF StoreRefined

\* ... and everything else the store guarantees about its jobs and their
\* leases, whatever the workers' runs and crashes are (job_store.py).
THEOREM WorkersKeepStore ==
  Spec => /\ [](AttemptBudget /\ RetryClaimable /\ LeaseShape)
          /\ LeaseExclusive /\ PauseRespected /\ ParkedStaysParked
BY WorkersRefineStore, SendsAreBounded, RetriesAreClaimable, LeasesAreShaped,
   LeasesAreExclusive, PausesAreRespected, ParkedIsNotResumed, PTL DEF StoreRefined

-----------------------------------------------------------------------------
(* The phase.                                                              *)

\* What workers and rows know of each other's phase and token.
PhaseInv ==
  /\ \A j \in Job : row[j].phase = "wait" => row[j].status # "absent" /\ Kind[j] \in AskKind
  /\ \A w \in Worker : (run[w].stage # "idle" /\ run[w].phase = "wait")
                         => Kind[run[w].job] \in AskKind
  /\ \A w \in Worker : (/\ run[w].stage # "idle"
                        /\ row[run[w].job].token = run[w].token
                        /\ row[run[w].job].phase = "wait") => run[w].phase = "wait"
  /\ \A v, w \in Worker : (v # w /\ run[v].stage # "idle") => run[v].token # run[w].token

\* What most operations leave alone on every row.
Keeps(r, s) == /\ s.phase = r.phase
               /\ s.token \in {r.token, NoToken}
               /\ s.status = "absent" => r.status = "absent"
KeepsAll == \A i \in Job : Keeps(row[i], row'[i])

\* What most steps leave alone of every run.
RunKept == \A v \in Worker : \/ run'[v] = Idle
                             \/ /\ run'[v].job = run[v].job
                                /\ run'[v].token = run[v].token
                                /\ run'[v].phase = run[v].phase
                                /\ run'[v].stage # "idle" => run[v].stage # "idle"

LEMMA KeepsOne ==
  ASSUME Inv, NEW j \in Job, NEW r, Update(j, r), Keeps(row[j], r)
  PROVE  KeepsAll
<1>1. row'[j] = r /\ \A i \in Job \ {j} : row'[i] = row[i]
  BY DEF Update, Inv, StoreTypeOK
<1> QED
  BY <1>1 DEF KeepsAll, Keeps

LEMMA FinishKeeps ==
  ASSUME Inv, NEW j \in Job, NEW t, NEW s \in Status \ {"absent"}, NEW r \in RowType,
         Finish(j, t, s, r), r.phase = row[j].phase, r.token = row[j].token
  PROVE  KeepsAll
<1> DEFINE q == [r EXCEPT !.status = s]
<1>1. Update(j, q)
  BY DEF Finish
<1>2. q.status = s /\ q.phase = row[j].phase /\ q.token = row[j].token
  BY DEF RowType
<1> HIDE DEF q
<1> QED
  BY <1>1, <1>2, KeepsOne DEF Keeps

LEMMA LeasedKeeps ==
  ASSUME Inv, NEW j \in Job, NEW t \in Token,
         \/ \E c \in Conversation : SetConversationUrl(j, t, c)
         \/ StoreAnswerResult(j, t)
         \/ \E s \in {"error", "needs_followup"} : StoreErrorResult(j, t, s)
         \/ StoreCanceledResult(j, t)
         \/ TornAnswer(j, t) \/ TornResult(j, t)
  PROVE  KeepsAll
<1>1. row[j] \in RowType
  BY DEF Inv, StoreTypeOK
<1>2. CASE \E c \in Conversation : SetConversationUrl(j, t, c)
  <2>1. PICK c \in Conversation : SetConversationUrl(j, t, c)
    BY <1>2
  <2> DEFINE r == [row[j] EXCEPT !.conversation = c]
  <2>2. Update(j, r)
    BY <2>1 DEF SetConversationUrl
  <2>3. Keeps(row[j], r)
    BY <1>1 DEF Keeps, RowType
  <2> HIDE DEF r
  <2> QED
    BY <2>2, <2>3, KeepsOne
<1>3. CASE StoreAnswerResult(j, t)
  <2> DEFINE r == [row[j] EXCEPT !.answer = t]
  <2>1. r \in RowType /\ r.phase = row[j].phase /\ r.token = row[j].token
    BY <1>1 DEF RowType
  <2>2. Finish(j, t, "completed", r) /\ "completed" \in Status \ {"absent"}
    BY <1>3 DEF StoreAnswerResult, Status, Terminal
  <2> HIDE DEF r
  <2> QED
    BY <2>1, <2>2, FinishKeeps
<1>4. CASE \E s \in {"error", "needs_followup"} : StoreErrorResult(j, t, s)
  BY <1>1, <1>4, FinishKeeps DEF StoreErrorResult, Status, Terminal, Retryable, Parked
<1>5. CASE StoreCanceledResult(j, t)
  <2> DEFINE r == [row[j] EXCEPT !.cancelRequested = TRUE]
  <2>1. r \in RowType /\ r.phase = row[j].phase /\ r.token = row[j].token
    BY <1>1 DEF RowType
  <2>2. Finish(j, t, "canceled", r) /\ "canceled" \in Status \ {"absent"}
    BY <1>5 DEF StoreCanceledResult, Status, Terminal
  <2> HIDE DEF r
  <2> QED
    BY <2>1, <2>2, FinishKeeps
<1>6. CASE TornAnswer(j, t) \/ TornResult(j, t)
  BY <1>6 DEF TornAnswer, TornResult, KeepsAll, Keeps
<1> QED
  BY <1>2, <1>3, <1>4, <1>5, <1>6

LEMMA OthersKeep ==
  ASSUME Inv, NEW j \in Job,
         \/ ExpireLease(j) \/ RequestCancel(j) \/ TornCancel(j)
         \/ BacklogJanitor(j) \/ HealthProbe(j) \/ NotBeforeElapses(j)
  PROVE  KeepsAll
<1>1. row[j] \in RowType
  BY DEF Inv, StoreTypeOK
<1>2. ASSUME NEW r \in {[row[j] EXCEPT !.lease = "expired"],
                        [row[j] EXCEPT !.due = TRUE],
                        [row[j] EXCEPT !.cancelRequested = TRUE],
                        [row[j] EXCEPT !.status = "error"],
                        Unleased([row[j] EXCEPT !.status = "error"])},
             Update(j, r)
      PROVE  KeepsAll
  <2>1. Keeps(row[j], [row[j] EXCEPT !.lease = "expired"])
    BY <1>1 DEF Keeps, RowType
  <2>2. Keeps(row[j], [row[j] EXCEPT !.due = TRUE])
    BY <1>1 DEF Keeps, RowType
  <2>3. Keeps(row[j], [row[j] EXCEPT !.cancelRequested = TRUE])
    BY <1>1 DEF Keeps, RowType
  <2>4. Keeps(row[j], [row[j] EXCEPT !.status = "error"])
    BY <1>1 DEF Keeps, RowType
  <2>5. Keeps(row[j], Unleased([row[j] EXCEPT !.status = "error"]))
    BY <1>1 DEF Keeps, Unleased, RowType
  <2>6. Keeps(row[j], r)
    BY <2>1, <2>2, <2>3, <2>4, <2>5
  <2> QED
    BY <1>2, <2>6, KeepsOne
<1>3. CASE ExpireLease(j) \/ NotBeforeElapses(j) \/ FlagCancel(j) \/ HealthProbe(j)
  BY <1>2, <1>3 DEF ExpireLease, NotBeforeElapses, FlagCancel, HealthProbe
<1>4. CASE BacklogJanitor(j)
  BY <1>2, <1>4 DEF BacklogJanitor
<1>5. CASE TornCancel(j)
  BY <1>5 DEF TornCancel, KeepsAll, Keeps
<1>6. ASSUME Update(j, CanceledRow(row[j])) \/ Update(j, Unleased(CanceledRow(row[j])))
      PROVE  KeepsAll
  <2>1. Keeps(row[j], CanceledRow(row[j])) /\ Keeps(row[j], Unleased(CanceledRow(row[j])))
    BY <1>1 DEF Keeps, CanceledRow, Unleased, RowType
  <2> QED
    BY <1>6, <2>1, KeepsOne
<1>7. CASE StoreCanceledResult(j, row[j].token)
  <2>1. CanceledRow(row[j]) = [[row[j] EXCEPT !.cancelRequested = TRUE] EXCEPT !.status = "canceled"]
    BY <1>1 DEF RowType, CanceledRow
  <2> QED
    BY <1>6, <1>7, <2>1 DEF StoreCanceledResult, Finish
<1> QED
  BY <1>3, <1>4, <1>5, <1>6, <1>7
  DEF RequestCancel, CancelQueued, CancelWaiting, CancelParked

LEMMA OperatorKeeps ==
  ASSUME Inv, OperatorStep
  PROVE  KeepsAll
<1>1. CASE ClearPause
  <2>1. ASSUME NEW i \in Job
        PROVE  Keeps(row[i], row'[i])
    <3>1. row[i] \in RowType
      BY DEF Inv, StoreTypeOK
    <3>2. row'[i] \in {row[i], [row[i] EXCEPT !.due = TRUE]}
      BY <1>1 DEF ClearPause
    <3> QED
      BY <3>1, <3>2 DEF Keeps, RowType
  <2> QED
    BY <2>1 DEF KeepsAll
<1>2. CASE UNCHANGED row
  BY <1>2 DEF KeepsAll, Keeps
<1> QED
  BY <1>1, <1>2 DEF OperatorStep, SetPause, PauseElapses, SetHold, HoldEnds

\* A step that keeps the rows and the runs keeps what they know of each other.
LEMMA KeepsPreserves ==
  ASSUME Inv, WorkerTypeOK, PhaseInv, KeepsAll, RunKept
  PROVE  PhaseInv'
<1>1. Idle.stage = "idle" /\ Idle.token = NoToken
  BY DEF Idle
<1>2. ASSUME NEW j \in Job, row'[j].phase = "wait"
      PROVE  row'[j].status # "absent" /\ Kind[j] \in AskKind
  BY <1>2 DEF PhaseInv, KeepsAll, Keeps
<1>3. ASSUME NEW w \in Worker, run'[w].stage # "idle"
      PROVE  /\ run[w].stage # "idle"
             /\ run'[w].job = run[w].job
             /\ run'[w].phase = run[w].phase
             /\ run'[w].token = run[w].token
             /\ run[w].job \in Job
             /\ run[w].token \in Token
  BY <1>1, <1>3 DEF RunKept, WorkerTypeOK
<1>4. ASSUME NEW w \in Worker, run'[w].stage # "idle", run'[w].phase = "wait"
      PROVE  Kind[run'[w].job] \in AskKind
  BY <1>3, <1>4 DEF PhaseInv
<1>5. ASSUME NEW w \in Worker, run'[w].stage # "idle",
             row'[run'[w].job].token = run'[w].token,
             row'[run'[w].job].phase = "wait"
      PROVE  run'[w].phase = "wait"
  <2>1. run[w].token # NoToken
    BY <1>3, <1>5, StoreAssumption
  <2>2. row[run[w].job].token = run[w].token /\ row[run[w].job].phase = "wait"
    BY <1>3, <1>5, <2>1 DEF KeepsAll, Keeps
  <2> QED
    BY <1>3, <1>5, <2>2 DEF PhaseInv
<1>6. ASSUME NEW v \in Worker, NEW w \in Worker, v # w, run'[v].stage # "idle"
      PROVE  run'[v].token # run'[w].token
  <2>1. run'[w].token \in {run[w].token, NoToken}
    BY <1>1 DEF RunKept
  <2> QED
    BY <1>3, <1>6, <2>1, StoreAssumption DEF PhaseInv
<1> QED
  BY <1>2, <1>4, <1>5, <1>6 DEF PhaseInv

\* A claim: the run takes over the phase of the row, if the kind has one.
LEMMA ClaimKnows ==
  ASSUME Inv, WorkerTypeOK, PhaseInv,
         NEW w \in Worker, NEW j \in Job, NEW t \in Token, WorkerClaim(w, j, t)
  PROVE  PhaseInv' /\ \A i \in Job : row'[i].phase = row[i].phase
<1>1. /\ run'[w].stage = "claimed" /\ run'[w].job = j /\ run'[w].token = t
      /\ run'[w].phase = ExecPhase(w, j)
      /\ \A v \in Worker \ {w} : run'[v] = run[v] /\ run[v].token # t
  BY DEF WorkerClaim, SetRun, WorkerTypeOK, Idle
<1>2. /\ row'[j].phase = row[j].phase /\ row'[j].token = t
      /\ row'[j].status = "in_progress"
      /\ \A i \in Job \ {j} : row'[i] = row[i]
  BY DEF WorkerClaim, ClaimNextJob, Update, Inv, StoreTypeOK, RowType
<1>3. \A i \in Job : row'[i].phase = row[i].phase
  BY <1>2
<1>4. \A i \in Job : row'[i].phase = "wait" => row'[i].status # "absent" /\ Kind[i] \in AskKind
  BY <1>2 DEF PhaseInv
<1>5. ASSUME NEW v \in Worker, run'[v].stage # "idle", run'[v].phase = "wait"
      PROVE  Kind[run'[v].job] \in AskKind
  BY <1>1, <1>5 DEF PhaseInv, ExecPhase
<1>6. ASSUME NEW v \in Worker, run'[v].stage # "idle",
             row'[run'[v].job].token = run'[v].token,
             row'[run'[v].job].phase = "wait"
      PROVE  run'[v].phase = "wait"
  <2>1. CASE v = w
    <3>1. row[j].phase = "wait" /\ Kind[j] \in AskKind
      BY <1>1, <1>3, <1>6, <2>1 DEF PhaseInv
    <3>2. Role[w] \in {"wait", "all"}
      BY <3>1, WorkerAssumption DEF WorkerClaim, RoleTakes
    <3> QED
      BY <1>1, <2>1, <3>1, <3>2 DEF ExecPhase
  <2>2. CASE v # w
    <3>1. run'[v] = run[v] /\ run[v].job \in Job /\ run[v].token # t
      BY <1>1, <1>6, <2>2 DEF WorkerTypeOK
    <3>2. run[v].job # j
      BY <1>2, <1>6, <3>1
    <3> QED
      BY <1>2, <1>6, <3>1, <3>2 DEF PhaseInv
  <2> QED
    BY <2>1, <2>2
<1>7. ASSUME NEW u \in Worker, NEW v \in Worker, u # v, run'[u].stage # "idle"
      PROVE  run'[u].token # run'[v].token
  BY <1>1, <1>7 DEF PhaseInv
<1> QED
  BY <1>3, <1>4, <1>5, <1>6, <1>7 DEF PhaseInv

\* A run that stores its outcome and ends may set the phase: nobody else
\* holds the token of that row.
LEMMA StoredKnows ==
  ASSUME Inv, WorkerTypeOK, PhaseInv,
         NEW w \in Worker, run[w].stage # "idle", EndRun(w),
         row[run[w].job].token = run[w].token,
         NEW r, Update(run[w].job, r),
         r.token \in {run[w].token, NoToken},
         r.status # "absent",
         r.phase = "wait" => Kind[run[w].job] \in AskKind
  PROVE  PhaseInv'
<1> DEFINE j == run[w].job
<1>1. j \in Job /\ run[w].token \in Token
  BY DEF WorkerTypeOK
<1>2. row'[j] = r /\ \A i \in Job \ {j} : row'[i] = row[i]
  BY <1>1 DEF Update, Inv, StoreTypeOK
<1>3. run'[w] = Idle /\ \A v \in Worker \ {w} : run'[v] = run[v]
  BY DEF EndRun, SetRun, WorkerTypeOK
<1>4. Idle.stage = "idle" /\ Idle.token = NoToken
  BY DEF Idle
<1>5. \A i \in Job : row'[i].phase = "wait" => row'[i].status # "absent" /\ Kind[i] \in AskKind
  BY <1>2 DEF PhaseInv
<1>6. ASSUME NEW v \in Worker, run'[v].stage # "idle", run'[v].phase = "wait"
      PROVE  Kind[run'[v].job] \in AskKind
  BY <1>3, <1>4, <1>6 DEF PhaseInv
<1>7. ASSUME NEW v \in Worker, run'[v].stage # "idle",
             row'[run'[v].job].token = run'[v].token,
             row'[run'[v].job].phase = "wait"
      PROVE  run'[v].phase = "wait"
  <2>1. v # w /\ run'[v] = run[v]
    BY <1>3, <1>4, <1>7
  <2>2. run[v].job \in Job /\ run[v].token \in Token /\ run[v].token # run[w].token
    BY <1>7, <2>1 DEF WorkerTypeOK, PhaseInv
  <2>3. run[v].job # j
    BY <1>2, <1>7, <2>1, <2>2, StoreAssumption
  <2> QED
    BY <1>2, <1>7, <2>1, <2>2, <2>3 DEF PhaseInv
<1>8. ASSUME NEW u \in Worker, NEW v \in Worker, u # v, run'[u].stage # "idle"
      PROVE  run'[u].token # run'[v].token
  <2>1. u # w /\ run'[u] = run[u] /\ run[u].token \in Token
    BY <1>3, <1>4, <1>8 DEF WorkerTypeOK
  <2>2. run'[v].token \in {run[v].token, NoToken}
    BY <1>3, <1>4
  <2> QED
    BY <1>8, <2>1, <2>2, StoreAssumption DEF PhaseInv
<1> QED
  BY <1>5, <1>6, <1>7, <1>8 DEF PhaseInv

LEMMA RetryKnows ==
  ASSUME Inv, WorkerTypeOK, PhaseInv, NEW w \in Worker, PersistRetry(w)
  PROVE  /\ PhaseInv'
         /\ \A i \in Job : row[i].phase = "wait" => row'[i].phase = "wait"
<1> DEFINE j == run[w].job
           t == run[w].token
<1>1. PICK s \in Retryable, ph \in RetryPhase(w) :
        RetryWithinBudget(j, t, s, ph) \/ RetryExtended(j, t, s, ph) \/ RetryExhausted(j, t, ph)
  BY DEF PersistRetry
<1>2. run[w].stage # "idle" /\ EndRun(w) /\ j \in Job /\ t \in Token
  BY DEF PersistRetry, WorkerTypeOK
<1>3. row[j] \in RowType /\ run[w].phase \in Phase
  BY <1>2 DEF Inv, StoreTypeOK, WorkerTypeOK, RunType
<1>4. row[j].token = t
  BY <1>1 DEF RetryWithinBudget, RetryExtended, RetryExhausted, StoreErrorResult, Finish, Fenced
<1>5. ph = "wait" => Kind[j] \in AskKind
  BY <1>2 DEF RetryPhase, PhaseInv
<1>6. row[j].phase = "wait" => ph = "wait"
  BY <1>2, <1>4 DEF RetryPhase, PhaseInv
<1>7. ASSUME NEW r, Update(j, r), r.token = t, r.status = s, r.phase = ph
      PROVE  /\ PhaseInv'
             /\ \A i \in Job : row[i].phase = "wait" => row'[i].phase = "wait"
  <2>1. PhaseInv'
    BY <1>2, <1>4, <1>5, <1>7, StoredKnows DEF Retryable, Parked
  <2>2. row'[j] = r /\ \A i \in Job \ {j} : row'[i] = row[i]
    BY <1>2, <1>7 DEF Update, Inv, StoreTypeOK
  <2> QED
    BY <1>6, <1>7, <2>1, <2>2
<1>8. CASE RetryWithinBudget(j, t, s, ph)
  <2> DEFINE r == [[row[j] EXCEPT !.phase = ph, !.due = FALSE] EXCEPT !.status = s]
  <2>1. Update(j, r)
    BY <1>8 DEF RetryWithinBudget, Finish
  <2>2. r.token = t /\ r.status = s /\ r.phase = ph
    BY <1>3, <1>4 DEF RowType
  <2> HIDE DEF r
  <2> QED
    BY <1>7, <2>1, <2>2
<1>9. CASE RetryExtended(j, t, s, ph)
  <2> DEFINE e == row[j].extensions + 1
             m == Smaller(AttemptsCap, Larger(row[j].maxAttempts + 1, row[j].attempts + 1))
             r == [[row[j] EXCEPT !.phase = ph, !.due = FALSE, !.extensions = e,
                                  !.maxAttempts = m] EXCEPT !.status = s]
  <2>1. Update(j, r)
    BY <1>9 DEF RetryExtended, Finish
  <2> HIDE DEF e, m
  <2>2. r.token = t /\ r.status = s /\ r.phase = ph
    BY <1>3, <1>4 DEF RowType
  <2> HIDE DEF r
  <2> QED
    BY <1>7, <2>1, <2>2
<1>10. CASE RetryExhausted(j, t, ph)
  <2>1. KeepsAll
    BY <1>2, <1>10, LeasedKeeps DEF RetryExhausted
  <2>2. RunKept
    BY <1>2 DEF RunKept, EndRun, SetRun, WorkerTypeOK
  <2> QED
    BY <2>1, <2>2, KeepsPreserves DEF KeepsAll, Keeps
<1> QED
  BY <1>1, <1>8, <1>9, <1>10

LEMMA ReleaseKnows ==
  ASSUME Inv, WorkerTypeOK, PhaseInv, NEW w \in Worker, PersistRelease(w)
  PROVE  /\ PhaseInv'
         /\ \A i \in Job : row[i].phase = "wait" => row'[i].phase = "wait"
<1> DEFINE j == run[w].job
           r == [row[j] EXCEPT !.phase = "wait", !.due = FALSE, !.token = NoToken, !.lease = "none"]
<1>1. /\ run[w].stage # "idle" /\ EndRun(w) /\ j \in Job
      /\ Kind[j] \in AskKind
      /\ Update(j, r)
      /\ row[j].token = run[w].token
      /\ row[j].status = "in_progress"
  BY DEF PersistRelease, ReleaseForWait, Fenced, WorkerTypeOK
<1>2. r.token = NoToken /\ r.status = row[j].status /\ r.phase = "wait"
  BY <1>1 DEF Inv, StoreTypeOK, RowType
<1>3. row'[j] = r /\ \A i \in Job \ {j} : row'[i] = row[i]
  BY <1>1 DEF Update, Inv, StoreTypeOK
<1> HIDE DEF r
<1>4. PhaseInv'
  BY <1>1, <1>2, StoredKnows
<1> QED
  BY <1>2, <1>3, <1>4

LEMMA SubmitKnows ==
  ASSUME Inv, WorkerTypeOK, PhaseInv, NEW j \in Job, Submit(j)
  PROVE  /\ PhaseInv'
         /\ \A i \in Job : row[i].phase = "wait" => row'[i].phase = "wait"
<1>1. row[j].status = "absent" /\ row[j] \in RowType
  BY DEF Submit, CreateJob, Inv, StoreTypeOK
<1>2. row[j].phase = "send"
  BY <1>1 DEF PhaseInv, RowType, Phase
<1>3. /\ row'[j].phase = "send" /\ row'[j].token = NoToken /\ row'[j].status = "queued"
      /\ \A i \in Job \ {j} : row'[i] = row[i]
  BY DEF Submit, CreateJob, Update, Inv, StoreTypeOK, NoRow
<1>4. KeepsAll
  BY <1>2, <1>3 DEF KeepsAll, Keeps
<1>5. RunKept
  BY DEF Submit, workerVars, RunKept
<1> QED
  BY <1>4, <1>5, KeepsPreserves DEF KeepsAll, Keeps

LEMMA RunStepKeeps ==
  ASSUME Inv, WorkerTypeOK, NEW w \in Worker, RunStep(w),
         ~PersistRetry(w), ~PersistRelease(w)
  PROVE  KeepsAll /\ RunKept
<1> DEFINE j == run[w].job
           t == run[w].token
<1>1. run \in [Worker -> RunType]
  BY DEF WorkerTypeOK
<1>2. UNCHANGED row => KeepsAll
  BY DEF KeepsAll, Keeps
<1>3. EndRun(w) => RunKept
  BY <1>1 DEF EndRun, SetRun, RunKept
<1>4. run[w].stage # "idle" => j \in Job /\ t \in Token
  BY DEF WorkerTypeOK
<1>5. CASE Load(w)
  BY <1>1, <1>2, <1>5 DEF Load, SetRun, RunKept, RunType
<1>6. CASE Begin(w)
  BY <1>1, <1>2, <1>6 DEF Begin, SetRun, RunKept, RunType
<1>7. CASE ObserveCancel(w)
  <2>1. RunKept
    BY <1>1, <1>7 DEF ObserveCancel, SetRun, RunKept, RunType
  <2> QED
    BY <1>2, <1>7, <2>1 DEF ObserveCancel
<1>8. CASE LeaseLost(w) \/ PersistRefused(w)
  BY <1>2, <1>3, <1>8 DEF LeaseLost, PersistRefused, storeVars
<1>9. CASE Inherit(w)
  <2>1. RunKept
    BY <1>1, <1>9 DEF Inherit, SetRun, RunKept, RunType
  <2>2. CASE UNCHANGED storeVars
    BY <1>2, <2>1, <2>2 DEF storeVars
  <2>3. CASE LateParent(j) # NoConversation /\ SetConversationUrl(j, t, LateParent(j))
    <3>1. j \in Job /\ t \in Token
      BY <1>4, <1>9 DEF Inherit
    <3>2. row[j] \in RowType /\ (row[j].parent \in Job => row[row[j].parent] \in RowType)
      BY <3>1 DEF Inv, StoreTypeOK
    <3>3. LateParent(j) \in Conversation
      BY <2>3, <3>2 DEF LateParent, RowType
    <3>4. KeepsAll
      BY <2>3, <3>1, <3>3, LeasedKeeps
    <3> QED
      BY <2>1, <3>4
  <2> QED
    BY <1>9, <2>2, <2>3 DEF Inherit
<1>10. CASE FinishExec(w)
  <2>1. j \in Job /\ t \in Token
    BY <1>4, <1>10 DEF FinishExec
  <2>2. UNCHANGED row \/ \E c \in Conversation : SetConversationUrl(j, t, c)
    BY <1>10 DEF FinishExec, ReportedThread, NewThread
  <2>3. KeepsAll
    BY <1>2, <2>1, <2>2, LeasedKeeps
  <2>4. RunKept
    BY <1>1, <1>10 DEF FinishExec, SetRun, RunKept, RunType
  <2> QED
    BY <2>3, <2>4
<1>11. CASE \/ ShortCircuit(w) \/ FailEarly(w) \/ PersistAnswer(w)
            \/ PersistError(w) \/ PersistCanceled(w)
  <2>1. run[w].stage # "idle" /\ EndRun(w)
    BY <1>11 DEF ShortCircuit, Rescued, FailEarly, PersistAnswer, PersistError, PersistCanceled
  <2>2. \/ StoreAnswerResult(j, t)
        \/ \E s \in {"error", "needs_followup"} : StoreErrorResult(j, t, s)
        \/ StoreCanceledResult(j, t)
    BY <1>11 DEF ShortCircuit, Rescued, FailEarly, PersistAnswer, PersistError, PersistCanceled
  <2> QED
    BY <1>3, <1>4, <2>1, <2>2, LeasedKeeps
<1> QED
  BY <1>5, <1>6, <1>7, <1>8, <1>9, <1>10, <1>11 DEF RunStep, Persist

LEMMA FaultKeeps ==
  ASSUME Inv, WorkerTypeOK, NEW w \in Worker, FaultStep(w)
  PROVE  KeepsAll /\ RunKept
<1>1. run \in [Worker -> RunType]
  BY DEF WorkerTypeOK
<1>2. run[w].stage # "idle" => run[w].job \in Job /\ run[w].token \in Token
  BY DEF WorkerTypeOK
<1>3. UNCHANGED row => KeepsAll
  BY DEF KeepsAll, Keeps
<1>4. CASE Crash(w)
  BY <1>1, <1>3, <1>4 DEF Crash, TornAnswer, TornResult, storeVars, SetRun, RunKept
<1>5. CASE HeartbeatDies(w)
  BY <1>1, <1>3, <1>5 DEF HeartbeatDies, storeVars, SetRun, RunKept, RunType
<1>6. CASE Stall(w)
  BY <1>2, <1>6, OthersKeep DEF Stall, RunKept
<1> QED
  BY <1>4, <1>5, <1>6 DEF FaultStep

LEMMA PhaseStep ==
  ASSUME Inv, WorkerTypeOK, PhaseInv, [Next]_vars
  PROVE  /\ PhaseInv'
         /\ \A i \in Job : row[i].phase = "wait" => row'[i].phase = "wait"
<1>1. ASSUME KeepsAll, RunKept
      PROVE  /\ PhaseInv'
             /\ \A i \in Job : row[i].phase = "wait" => row'[i].phase = "wait"
  BY <1>1, KeepsPreserves DEF KeepsAll, Keeps
<1>2. UNCHANGED workerVars => RunKept
  BY DEF workerVars, RunKept
<1>3. CASE UNCHANGED vars
  <2>1. KeepsAll /\ RunKept
    BY <1>3 DEF vars, KeepsAll, Keeps, RunKept
  <2> QED
    BY <1>1, <2>1
<1>4. CASE \E w \in Worker, j \in Job, t \in Token : WorkerClaim(w, j, t)
  BY <1>4, ClaimKnows
<1>5. CASE \E w \in Worker : RunStep(w)
  BY <1>1, <1>5, RunStepKeeps, RetryKnows, ReleaseKnows
<1>6. CASE \E w \in Worker : FaultStep(w)
  BY <1>1, <1>6, FaultKeeps
<1>7. CASE \E j \in Job : Submit(j)
  BY <1>7, SubmitKnows
<1>8. CASE \E j \in Job : \/ LeaseElapses(j) \/ Cancel(j) \/ BecomeDue(j)
                          \/ Maintain(j) \/ TornRequest(j)
  <2>1. KeepsAll /\ RunKept
    BY <1>2, <1>8, OthersKeep DEF LeaseElapses, Cancel, BecomeDue, Maintain, TornRequest
  <2> QED
    BY <1>1, <2>1
<1>9. CASE OperatorStep /\ UNCHANGED workerVars
  BY <1>1, <1>2, <1>9, OperatorKeeps
<1> QED
  BY <1>3, <1>4, <1>5, <1>6, <1>7, <1>8, <1>9 DEF Next

\* What rows and runs know of each other holds in every state.
THEOREM PhaseInvariance == Spec => []PhaseInv
<1>1. Init => PhaseInv
  <2>1. Idle.stage = "idle" /\ NoRow.phase = "send"
    BY DEF Idle, NoRow
  <2> QED
    BY <2>1 DEF Init, StoreInit, PhaseInv
<1>2. Inv /\ WorkerTypeOK /\ PhaseInv /\ [Next]_vars => PhaseInv'
  BY PhaseStep
<1> QED
  BY <1>1, <1>2, WorkerInvariance, PTL DEF Spec

\* "wait: no new prompt is sent": whoever resumes a waiting job, after
\* whatever fault, does not put it back into the send phase.
THEOREM NoSecondSend == Spec => PhaseMonotone
<1>1. Inv /\ WorkerTypeOK /\ PhaseInv /\ [Next]_vars
        => [\A j \in Job : row[j].phase = "wait" => row'[j].phase = "wait"]_vars
  BY PhaseStep
<1> QED
  BY <1>1, PhaseInvariance, WorkerInvariance, PTL DEF Spec, PhaseMonotone
=============================================================================

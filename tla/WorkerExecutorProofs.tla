------------------------ MODULE WorkerExecutorProofs ------------------------
(***************************************************************************)
(* As long as no fault has happened, no job is executed by two workers.    *)
(*                                                                         *)
(* The lease alone does not give this: a cancel request stops the          *)
(* heartbeat of a run whose executor goes on, its lease runs out, and      *)
(* another worker claims the job.  What keeps that worker from executing   *)
(* it is the second read of the row (Load), which finds the same cancel    *)
(* request.  The invariant therefore relates the lease, the heartbeat, the *)
(* cancel flag and what the other run has seen of it.                      *)
(***************************************************************************)
EXTENDS WorkerLoopProofs

\* A run that counts on its lease: it is on the way to its executor, or its
\* heartbeat renews the lease.
Leasing(v) == \/ run[v].stage \in {"claimed", "loaded", "ready"}
              \/ Executing(v) /\ run[v].beating

\* A run's job exists; it holds the lease it counts on, unless the job was
\* decided meanwhile; and only a cancel request stops the heartbeat.
RunInv(v) ==
  run[v].stage # "idle" =>
    /\ row[run[v].job].status # "absent"
    /\ Leasing(v) => row[run[v].job].status \in Terminal \/ Held(v)
    /\ (Executing(v) /\ ~run[v].beating) => row[run[v].job].cancelRequested

\* Two runs of one job: one of them counts on the lease, and when one
\* executes the other does not and, having read the row, knows of the cancel.
PairInv(v, w) ==
  run[v].job = run[w].job =>
    /\ ~(Leasing(v) /\ Leasing(w))
    /\ Executing(v) => /\ ~Executing(w)
                       /\ run[w].stage \in {"loaded", "ready"} => run[w].sawCancel

ExecInv == /\ \A v \in Worker : RunInv(v)
           /\ \A v, w \in Worker : v # w => PairInv(v, w)

\* What no step does to a row.
Steady(r, s) ==
  r.status # "absent" =>
    /\ s.status # "absent"
    /\ r.status \in Terminal => s.status \in Terminal
    /\ r.cancelRequested => s.cancelRequested

\* What only the holder of the lease, or time, does to a row.
LeaseKept(r, s) ==
  (r.status = "in_progress" /\ r.lease = "live") =>
    \/ s.status \in Terminal
    \/ s.status = "in_progress" /\ s.lease = "live" /\ s.token = r.token

SteadyAll == \A i \in Job : Steady(row[i], row'[i])
LeaseKeptAll == \A i \in Job : LeaseKept(row[i], row'[i])

-----------------------------------------------------------------------------
(* What the operations of the store do to the rows.                        *)

LEMMA UpdatedRow ==
  ASSUME Inv, NEW j \in Job, NEW r, Update(j, r)
  PROVE  row'[j] = r /\ \A i \in Job \ {j} : row'[i] = row[i]
BY DEF Update, Inv, StoreTypeOK

LEMMA SteadyOne ==
  ASSUME Inv, NEW j \in Job, NEW r, Update(j, r), Steady(row[j], r)
  PROVE  SteadyAll
BY UpdatedRow DEF SteadyAll, Steady

LEMMA KeptOne ==
  ASSUME Inv, NEW j \in Job, NEW r, Update(j, r), LeaseKept(row[j], r)
  PROVE  LeaseKeptAll
BY UpdatedRow DEF LeaseKeptAll, LeaseKept

LEMMA RowsAlone ==
  ASSUME UNCHANGED row
  PROVE  SteadyAll /\ LeaseKeptAll
BY DEF SteadyAll, Steady, LeaseKeptAll, LeaseKept

\* An operation of the holder touches its own row only.
LEMMA FinishSteady ==
  ASSUME Inv, NEW j \in Job, NEW t, NEW s \in Status \ {"absent"}, NEW r \in RowType,
         Finish(j, t, s, r), row[j].cancelRequested => r.cancelRequested
  PROVE  /\ SteadyAll
         /\ row[j].token = t
         /\ \A i \in Job \ {j} : row'[i] = row[i]
<1> DEFINE q == [r EXCEPT !.status = s]
<1>1. Update(j, q) /\ row[j].status = "in_progress" /\ row[j].token = t
  BY DEF Finish, Fenced
<1>2. q.status = s /\ q.cancelRequested = r.cancelRequested
  BY DEF RowType
<1> HIDE DEF q
<1>3. Steady(row[j], q)
  BY <1>1, <1>2 DEF Steady, Terminal
<1> QED
  BY <1>1, <1>3, SteadyOne, UpdatedRow

LEMMA StoreSteady ==
  ASSUME Inv, NEW j \in Job, NEW t \in Token,
         \/ StoreAnswerResult(j, t)
         \/ \E s \in {"error", "needs_followup"} : StoreErrorResult(j, t, s)
         \/ StoreCanceledResult(j, t)
         \/ ReleaseForWait(j, t)
  PROVE  /\ SteadyAll
         /\ row[j].token = t
         /\ \A i \in Job \ {j} : row'[i] = row[i]
<1>1. row[j] \in RowType
  BY DEF Inv, StoreTypeOK
<1>2. CASE StoreAnswerResult(j, t)
  <2> DEFINE r == [row[j] EXCEPT !.answer = t]
  <2>1. r \in RowType /\ r.cancelRequested = row[j].cancelRequested
    BY <1>1 DEF RowType
  <2>2. Finish(j, t, "completed", r) /\ "completed" \in Status \ {"absent"}
    BY <1>2 DEF StoreAnswerResult, Status, Terminal
  <2> HIDE DEF r
  <2> QED
    BY <2>1, <2>2, FinishSteady
<1>3. CASE \E s \in {"error", "needs_followup"} : StoreErrorResult(j, t, s)
  BY <1>1, <1>3, FinishSteady DEF StoreErrorResult, Status, Terminal, Retryable, Parked
<1>4. CASE StoreCanceledResult(j, t)
  <2> DEFINE r == [row[j] EXCEPT !.cancelRequested = TRUE]
  <2>1. r \in RowType /\ r.cancelRequested = TRUE
    BY <1>1 DEF RowType
  <2>2. Finish(j, t, "canceled", r) /\ "canceled" \in Status \ {"absent"}
    BY <1>4 DEF StoreCanceledResult, Status, Terminal
  <2> HIDE DEF r
  <2> QED
    BY <2>1, <2>2, FinishSteady
<1>5. CASE ReleaseForWait(j, t)
  <2> DEFINE r == [row[j] EXCEPT !.phase = "wait", !.due = FALSE,
                                 !.token = NoToken, !.lease = "none"]
  <2>1. Update(j, r) /\ row[j].token = t
    BY <1>5 DEF ReleaseForWait, Fenced
  <2>2. Steady(row[j], r)
    BY <1>1 DEF Steady, RowType
  <2> HIDE DEF r
  <2> QED
    BY <2>1, <2>2, SteadyOne, UpdatedRow
<1> QED
  BY <1>2, <1>3, <1>4, <1>5

LEMMA RetrySteady ==
  ASSUME Inv, NEW j \in Job, NEW t \in Token, NEW s \in Retryable, NEW ph \in Phase,
         RetryWithinBudget(j, t, s, ph) \/ RetryExtended(j, t, s, ph) \/ RetryExhausted(j, t, ph)
  PROVE  /\ SteadyAll
         /\ row[j].token = t
         /\ \A i \in Job \ {j} : row'[i] = row[i]
<1>1. row[j] \in RowType /\ s \in Status \ {"absent"}
  BY DEF Inv, StoreTypeOK, Status, Retryable, Parked
<1>2. CASE RetryWithinBudget(j, t, s, ph)
  <2> DEFINE r == [row[j] EXCEPT !.phase = ph, !.due = FALSE]
  <2>1. Finish(j, t, s, r)
    BY <1>2 DEF RetryWithinBudget
  <2>2. r \in RowType /\ r.cancelRequested = row[j].cancelRequested
    BY <1>1 DEF RowType
  <2> HIDE DEF r
  <2> QED
    BY <1>1, <2>1, <2>2, FinishSteady
<1>3. CASE RetryExtended(j, t, s, ph)
  <2> DEFINE e == row[j].extensions + 1
             m == Smaller(AttemptsCap, Larger(row[j].maxAttempts + 1, row[j].attempts + 1))
             r == [row[j] EXCEPT !.phase = ph, !.due = FALSE, !.extensions = e,
                                 !.maxAttempts = m]
  <2>1. Finish(j, t, s, r)
    BY <1>3 DEF RetryExtended
  <2>2. e \in Nat /\ m \in Nat
    BY <1>1, StoreAssumption DEF RowType, Smaller, Larger
  <2> HIDE DEF e, m
  <2>3. r \in RowType /\ r.cancelRequested = row[j].cancelRequested
    BY <1>1, <2>2 DEF RowType
  <2> HIDE DEF r
  <2> QED
    BY <1>1, <2>1, <2>3, FinishSteady
<1>4. CASE RetryExhausted(j, t, ph)
  BY <1>4, StoreSteady DEF RetryExhausted
<1> QED
  BY <1>2, <1>3, <1>4

\* Naming a thread, and what others than the holder do.
LEMMA SetConversationCalm ==
  ASSUME Inv, NEW j \in Job, NEW t, NEW c, SetConversationUrl(j, t, c)
  PROVE  SteadyAll /\ LeaseKeptAll
<1> DEFINE r == [row[j] EXCEPT !.conversation = c]
<1>1. row[j] \in RowType /\ Update(j, r)
  BY DEF SetConversationUrl, Inv, StoreTypeOK
<1>2. Steady(row[j], r) /\ LeaseKept(row[j], r)
  BY <1>1 DEF Steady, LeaseKept, RowType
<1> HIDE DEF r
<1> QED
  BY <1>1, <1>2, SteadyOne, KeptOne

LEMMA ClaimCalm ==
  ASSUME Inv, NEW j \in Job, NEW t, ClaimNextJob(j, t)
  PROVE  SteadyAll /\ LeaseKeptAll
<1> DEFINE a == IF row[j].phase = "wait" \/ row[j].status = "in_progress"
                THEN row[j].attempts ELSE row[j].attempts + 1
           r == [row[j] EXCEPT !.status = "in_progress", !.token = t,
                               !.lease = "live", !.attempts = a]
<1>1. row[j] \in RowType /\ Update(j, r) /\ Available(j)
  BY DEF ClaimNextJob, Claimable, Inv, StoreTypeOK
<1> HIDE DEF a
<1>2. r.status = "in_progress" /\ r.cancelRequested = row[j].cancelRequested
  BY <1>1 DEF RowType
<1>3. Steady(row[j], r) /\ LeaseKept(row[j], r)
  BY <1>1, <1>2 DEF Steady, LeaseKept, Available, Terminal
<1> HIDE DEF r
<1> QED
  BY <1>1, <1>3, SteadyOne, KeptOne

LEMMA SubmitCalm ==
  ASSUME Inv, NEW j \in Job, Submit(j)
  PROVE  SteadyAll /\ LeaseKeptAll
<1>1. PICK r : Update(j, r) /\ row[j].status = "absent"
  BY DEF Submit, CreateJob
<1>2. Steady(row[j], r) /\ LeaseKept(row[j], r)
  BY <1>1 DEF Steady, LeaseKept
<1> QED
  BY <1>1, <1>2, SteadyOne, KeptOne

LEMMA ExpireSteady ==
  ASSUME Inv, NEW j \in Job, ExpireLease(j)
  PROVE  SteadyAll /\ \A i \in Job \ {j} : row'[i] = row[i]
<1> DEFINE r == [row[j] EXCEPT !.lease = "expired"]
<1>1. row[j] \in RowType /\ Update(j, r)
  BY DEF ExpireLease, Inv, StoreTypeOK
<1>2. Steady(row[j], r)
  BY <1>1 DEF Steady, RowType
<1> HIDE DEF r
<1> QED
  BY <1>1, <1>2, SteadyOne, UpdatedRow

LEMMA CancelCalm ==
  ASSUME Inv, NEW j \in Job, RequestCancel(j)
  PROVE  SteadyAll /\ LeaseKeptAll
<1>1. row[j] \in RowType
  BY DEF Inv, StoreTypeOK
<1>2. ASSUME Update(j, CanceledRow(row[j])) \/ Update(j, Unleased(CanceledRow(row[j])))
      PROVE  SteadyAll /\ LeaseKeptAll
  <2>1. /\ CanceledRow(row[j]).status = "canceled"
        /\ CanceledRow(row[j]).cancelRequested = TRUE
        /\ Unleased(CanceledRow(row[j])).status = "canceled"
        /\ Unleased(CanceledRow(row[j])).cancelRequested = TRUE
    BY <1>1 DEF CanceledRow, Unleased, RowType
  <2>2. \A r \in {CanceledRow(row[j]), Unleased(CanceledRow(row[j]))} :
          Steady(row[j], r) /\ LeaseKept(row[j], r)
    BY <2>1 DEF Steady, LeaseKept, Terminal
  <2> QED
    BY <1>2, <2>2, SteadyOne, KeptOne
<1>3. CASE FlagCancel(j)
  <2> DEFINE r == [row[j] EXCEPT !.cancelRequested = TRUE]
  <2>1. Update(j, r)
    BY <1>3 DEF FlagCancel
  <2>2. Steady(row[j], r) /\ LeaseKept(row[j], r)
    BY <1>1 DEF Steady, LeaseKept, RowType
  <2> HIDE DEF r
  <2> QED
    BY <2>1, <2>2, SteadyOne, KeptOne
<1>4. CASE StoreCanceledResult(j, row[j].token)
  <2>1. CanceledRow(row[j]) = [[row[j] EXCEPT !.cancelRequested = TRUE] EXCEPT !.status = "canceled"]
    BY <1>1 DEF RowType, CanceledRow
  <2> QED
    BY <1>2, <1>4, <2>1 DEF StoreCanceledResult, Finish
<1> QED
  BY <1>2, <1>3, <1>4 DEF RequestCancel, CancelQueued, CancelWaiting, CancelParked

LEMMA UpkeepCalm ==
  ASSUME Inv, NEW j \in Job,
         BacklogJanitor(j) \/ HealthProbe(j) \/ NotBeforeElapses(j) \/ TornCancel(j)
  PROVE  SteadyAll /\ LeaseKeptAll
<1>1. row[j] \in RowType
  BY DEF Inv, StoreTypeOK
<1> DEFINE e == [row[j] EXCEPT !.status = "error"]
           d == [row[j] EXCEPT !.due = TRUE]
<1>2. /\ e.status = "error" /\ e.cancelRequested = row[j].cancelRequested
      /\ Unleased(e).status = "error" /\ Unleased(e).cancelRequested = row[j].cancelRequested
  BY <1>1 DEF RowType, Unleased
<1>3. Steady(row[j], d) /\ LeaseKept(row[j], d)
  BY <1>1 DEF Steady, LeaseKept, RowType
<1>4. CASE BacklogJanitor(j) \/ HealthProbe(j)
  <2>1. Update(j, e) \/ Update(j, Unleased(e))
    BY <1>4 DEF BacklogJanitor, HealthProbe
  <2> HIDE DEF e
  <2>2. \A r \in {e, Unleased(e)} : Steady(row[j], r) /\ LeaseKept(row[j], r)
    BY <1>2 DEF Steady, LeaseKept, Terminal
  <2> QED
    BY <2>1, <2>2, SteadyOne, KeptOne
<1>5. CASE NotBeforeElapses(j)
  <2>1. Update(j, d)
    BY <1>5 DEF NotBeforeElapses
  <2> HIDE DEF d
  <2> QED
    BY <1>3, <2>1, SteadyOne, KeptOne
<1>6. CASE TornCancel(j)
  BY <1>6, RowsAlone DEF TornCancel
<1> QED
  BY <1>4, <1>5, <1>6

LEMMA OperatorCalm ==
  ASSUME Inv, OperatorStep
  PROVE  SteadyAll /\ LeaseKeptAll
<1>1. CASE ClearPause
  <2>1. ASSUME NEW i \in Job
        PROVE  Steady(row[i], row'[i]) /\ LeaseKept(row[i], row'[i])
    <3>1. row[i] \in RowType
      BY DEF Inv, StoreTypeOK
    <3>2. row'[i] \in {row[i], [row[i] EXCEPT !.due = TRUE]}
      BY <1>1 DEF ClearPause
    <3> QED
      BY <3>1, <3>2 DEF Steady, LeaseKept, RowType
  <2> QED
    BY <2>1 DEF SteadyAll, LeaseKeptAll
<1>2. CASE UNCHANGED row
  BY <1>2, RowsAlone
<1> QED
  BY <1>1, <1>2 DEF OperatorStep, SetPause, PauseElapses, SetHold, HoldEnds

-----------------------------------------------------------------------------
(* What a step means for the runs.                                         *)

\* A run that a step leaves alone, if nobody took its lease away.
LEMMA OtherRun ==
  ASSUME WorkerTypeOK, SteadyAll, NEW v \in Worker, RunInv(v), run'[v] = run[v],
         (Leasing(v) /\ Held(v)) => LeaseKept(row[run[v].job], row'[run[v].job])
  PROVE  RunInv(v)'
<1> DEFINE j == run[v].job
<1>1. SUFFICES ASSUME run[v].stage # "idle"
               PROVE  /\ row'[j].status # "absent"
                      /\ Leasing(v) => row'[j].status \in Terminal \/ Held(v)'
                      /\ (Executing(v) /\ ~run[v].beating) => row'[j].cancelRequested
  BY DEF RunInv, Leasing, Executing
<1>2. j \in Job /\ Steady(row[j], row'[j])
  BY <1>1 DEF WorkerTypeOK, SteadyAll
<1>3. ASSUME Leasing(v)
      PROVE  row'[j].status \in Terminal \/ Held(v)'
  <2>1. CASE row[j].status \in Terminal
    BY <1>1, <1>2, <2>1 DEF Steady, RunInv
  <2>2. CASE Held(v)
    BY <1>3, <2>2 DEF LeaseKept, Held, Fenced
  <2> QED
    BY <1>1, <1>3, <2>1, <2>2 DEF RunInv
<1> QED
  BY <1>1, <1>2, <1>3 DEF Steady, RunInv

\* A step of one run, once it is clear that its own predicates hold again.
LEMMA OneRunStep ==
  ASSUME WorkerTypeOK, ExecInv, NEW w \in Worker,
         \A v \in Worker \ {w} : RunInv(v)' /\ run'[v] = run[v],
         RunInv(w)',
         \A v \in Worker \ {w} : PairInv(v, w)' /\ PairInv(w, v)'
  PROVE  ExecInv'
<1>1. \A u, v \in Worker \ {w} : u # v => PairInv(u, v)'
  BY DEF ExecInv, PairInv, Leasing, Executing
<1> QED
  BY <1>1 DEF ExecInv

\* The run of w ends and stores what it has to: no other run held its lease.
LEMMA EndExec ==
  ASSUME WorkerTypeOK, PhaseInv, ExecInv, SteadyAll, NEW w \in Worker, EndRun(w),
         \/ LeaseKeptAll
         \/ /\ row[run[w].job].token = run[w].token
            /\ \A i \in Job \ {run[w].job} : row'[i] = row[i]
  PROVE  ExecInv'
<1>1. run'[w] = Idle /\ \A v \in Worker \ {w} : run'[v] = run[v]
  BY DEF EndRun, SetRun, WorkerTypeOK
<1>2. Idle.stage = "idle" /\ Idle.beating = FALSE
  BY DEF Idle
<1>3. ASSUME NEW v \in Worker \ {w}
      PROVE  RunInv(v)'
  <2>1. CASE run[v].stage = "idle"
    BY <1>1, <2>1 DEF RunInv
  <2>2. CASE run[v].stage # "idle"
    <3>1. run[v].job \in Job /\ run[v].token # run[w].token
      BY <2>2 DEF WorkerTypeOK, PhaseInv
    <3>2. Held(v) => LeaseKept(row[run[v].job], row'[run[v].job])
      BY <3>1 DEF Held, Fenced, LeaseKeptAll, LeaseKept
    <3> QED
      BY <1>1, <3>2, OtherRun DEF ExecInv
  <2> QED
    BY <2>1, <2>2
<1>4. RunInv(w)'
  BY <1>1, <1>2 DEF RunInv
<1>5. \A v \in Worker \ {w} : PairInv(v, w)' /\ PairInv(w, v)'
  BY <1>1, <1>2 DEF PairInv, Leasing, Executing
<1> QED
  BY <1>1, <1>3, <1>4, <1>5, OneRunStep

\* The runs go on as they are: a lease that somebody attends to is kept.
LEMMA RunsAlone ==
  ASSUME WorkerTypeOK, ExecInv, SteadyAll, UNCHANGED run,
         \A i \in Job : LeaseKept(row[i], row'[i]) \/ ~Attended(i)
  PROVE  ExecInv'
<1>1. ASSUME NEW v \in Worker
      PROVE  RunInv(v)'
  <2>1. CASE run[v].stage = "idle"
    BY <2>1 DEF RunInv
  <2>2. CASE run[v].stage # "idle"
    <3>1. run[v].job \in Job
      BY <2>2 DEF WorkerTypeOK
    <3>2. (Leasing(v) /\ Held(v)) => Attended(run[v].job)
      BY DEF Leasing, Held, Fenced, Attended
    <3> QED
      BY <3>1, <3>2, OtherRun DEF ExecInv
  <2> QED
    BY <2>1, <2>2
<1>2. \A u, v \in Worker : u # v => PairInv(u, v)'
  BY DEF ExecInv, PairInv, Leasing, Executing
<1> QED
  BY <1>1, <1>2 DEF ExecInv

\* The run of w goes on without claiming more than before.
LEMMA GoesOn ==
  ASSUME WorkerTypeOK, ExecInv, SteadyAll, LeaseKeptAll,
         NEW w \in Worker, run[w].stage # "idle",
         \A v \in Worker \ {w} : run'[v] = run[v],
         run'[w].job = run[w].job, run'[w].token = run[w].token,
         Leasing(w)' => Leasing(w),
         Executing(w)' => Executing(w),
         (Executing(w)' /\ ~run'[w].beating) => row'[run[w].job].cancelRequested,
         run'[w].stage \in {"loaded", "ready"} =>
           run[w].stage \in {"loaded", "ready"} /\ run'[w].sawCancel = run[w].sawCancel
  PROVE  ExecInv'
<1> DEFINE j == run[w].job
<1>1. j \in Job /\ Steady(row[j], row'[j]) /\ LeaseKept(row[j], row'[j])
  BY DEF WorkerTypeOK, SteadyAll, LeaseKeptAll
<1>2. RunInv(w)'
  <2>1. RunInv(w)
    BY DEF ExecInv
  <2>2. Leasing(w)' => row'[j].status \in Terminal \/ Held(w)'
    BY <1>1, <2>1 DEF RunInv, Steady, LeaseKept, Held, Fenced
  <2> QED
    BY <1>1, <2>1, <2>2 DEF RunInv, Steady
<1>3. ASSUME NEW v \in Worker \ {w}
      PROVE  RunInv(v)'
  <2>1. CASE run[v].stage = "idle"
    BY <2>1 DEF RunInv
  <2>2. CASE run[v].stage # "idle"
    BY <2>2, OtherRun DEF ExecInv, LeaseKeptAll, WorkerTypeOK
  <2> QED
    BY <2>1, <2>2
<1>4. ASSUME NEW v \in Worker \ {w}
      PROVE  PairInv(v, w)' /\ PairInv(w, v)'
  <2>1. (Leasing(v)' <=> Leasing(v)) /\ (Executing(v)' <=> Executing(v))
    BY DEF Leasing, Executing
  <2>2. PairInv(v, w) /\ PairInv(w, v)
    BY DEF ExecInv
  <2> QED
    BY <2>1, <2>2 DEF PairInv
<1> QED
  BY <1>2, <1>3, <1>4, OneRunStep

-----------------------------------------------------------------------------
(* The steps.                                                              *)

\* Nobody counts on the lease of a job that can be claimed.
LEMMA ClaimExec ==
  ASSUME Inv, WorkerTypeOK, PhaseInv, ExecInv,
         NEW w \in Worker, NEW j \in Job, NEW t \in Token, WorkerClaim(w, j, t)
  PROVE  ExecInv'
<1>1. /\ run'[w].stage = "claimed" /\ run'[w].job = j /\ run'[w].token = t
      /\ \A v \in Worker \ {w} : run'[v] = run[v]
  BY DEF WorkerClaim, SetRun, WorkerTypeOK, Idle
<1>2. /\ row'[j].status = "in_progress" /\ row'[j].token = t /\ row'[j].lease = "live"
      /\ Available(j)
  BY DEF WorkerClaim, ClaimNextJob, Claimable, Update, Inv, StoreTypeOK, RowType
<1>3. SteadyAll /\ LeaseKeptAll
  BY ClaimCalm DEF WorkerClaim
<1>4. RunInv(w)'
  BY <1>1, <1>2 DEF RunInv, Held, Fenced, Executing
<1>5. ASSUME NEW v \in Worker \ {w}
      PROVE  RunInv(v)' /\ PairInv(v, w)' /\ PairInv(w, v)'
  <2>1. CASE run[v].stage = "idle"
    BY <1>1, <2>1 DEF RunInv, PairInv, Leasing, Executing
  <2>2. CASE run[v].stage # "idle"
    <3>1. RunInv(v) /\ run[v].job \in Job
      BY <2>2 DEF ExecInv, WorkerTypeOK
    <3>2. RunInv(v)'
      BY <1>1, <1>3, <3>1, OtherRun DEF LeaseKeptAll
    <3>3. run[v].job = j => ~Leasing(v)
      BY <1>2, <2>2, <3>1 DEF RunInv, Held, Fenced, Available, Terminal
    <3> QED
      BY <1>1, <3>2, <3>3 DEF PairInv, Leasing, Executing
  <2> QED
    BY <2>1, <2>2
<1> QED
  BY <1>1, <1>4, <1>5, OneRunStep

\* The second read of the row sees the cancel request that stopped the
\* heartbeat of a run whose executor goes on.
LEMMA LoadExec ==
  ASSUME Inv, WorkerTypeOK, ExecInv, NEW w \in Worker, Load(w)
  PROVE  ExecInv'
<1> DEFINE j == run[w].job
<1>1. /\ run[w].stage = "claimed" /\ run'[w].stage = "loaded"
      /\ run'[w].job = j /\ run'[w].token = run[w].token
      /\ run'[w].sawCancel = row[j].cancelRequested
      /\ \A v \in Worker \ {w} : run'[v] = run[v]
      /\ UNCHANGED row
  BY DEF Load, SetRun, WorkerTypeOK, RunType
<1>2. SteadyAll /\ LeaseKeptAll
  BY <1>1, RowsAlone
<1>3. RunInv(w)'
  BY <1>1 DEF ExecInv, RunInv, Leasing, Executing, Held, Fenced
<1>4. ASSUME NEW v \in Worker \ {w}
      PROVE  RunInv(v)' /\ PairInv(v, w)' /\ PairInv(w, v)'
  <2>1. RunInv(v) /\ PairInv(v, w) /\ PairInv(w, v)
    BY DEF ExecInv
  <2>2. RunInv(v)'
    BY <1>1, <2>1 DEF RunInv, Leasing, Executing, Held, Fenced
  <2>3. (run[v].job = j /\ Executing(v)) => row[j].cancelRequested
    BY <1>1, <2>1 DEF PairInv, RunInv, Leasing, Executing
  <2> QED
    BY <1>1, <2>1, <2>2, <2>3 DEF PairInv, Leasing, Executing
<1> QED
  BY <1>1, <1>3, <1>4, OneRunStep

LEMMA InheritExec ==
  ASSUME Inv, WorkerTypeOK, ExecInv, NEW w \in Worker, Inherit(w)
  PROVE  ExecInv'
<1>1. /\ run[w].stage = "loaded" /\ run'[w].stage = "ready"
      /\ run'[w].job = run[w].job /\ run'[w].token = run[w].token
      /\ run'[w].sawCancel = run[w].sawCancel
      /\ \A v \in Worker \ {w} : run'[v] = run[v]
  BY DEF Inherit, SetRun, WorkerTypeOK, RunType
<1>2. run[w].job \in Job
  BY <1>1 DEF WorkerTypeOK
<1>3. SteadyAll /\ LeaseKeptAll
  BY <1>2, SetConversationCalm, RowsAlone DEF Inherit, storeVars
<1> QED
  BY <1>1, <1>3, GoesOn DEF Leasing, Executing

\* A run begins to execute only if it saw no cancel request.
LEMMA BeginExec ==
  ASSUME Inv, WorkerTypeOK, ExecInv, NEW w \in Worker, Begin(w)
  PROVE  ExecInv'
<1>1. /\ run[w].stage = "ready"
      /\ run'[w].job = run[w].job /\ run'[w].token = run[w].token
      /\ \A v \in Worker \ {w} : run'[v] = run[v]
      /\ UNCHANGED row
  BY DEF Begin, SetRun, WorkerTypeOK, RunType
<1>2. SteadyAll /\ LeaseKeptAll
  BY <1>1, RowsAlone
<1>3. CASE run[w].sawCancel
  <2>1. run'[w].stage = "canceling"
    BY <1>3 DEF Begin, SetRun, WorkerTypeOK, RunType
  <2> QED
    BY <1>1, <1>2, <2>1, GoesOn DEF Leasing, Executing
<1>4. CASE ~run[w].sawCancel
  <2>1. run'[w].stage = "exec" /\ run'[w].beating
    BY <1>4 DEF Begin, SetRun, WorkerTypeOK, RunType
  <2>2. RunInv(w)'
    BY <1>1, <2>1 DEF ExecInv, RunInv, Leasing, Executing, Held, Fenced
  <2>3. ASSUME NEW v \in Worker \ {w}
        PROVE  RunInv(v)' /\ PairInv(v, w)' /\ PairInv(w, v)'
    <3>1. RunInv(v) /\ PairInv(v, w) /\ PairInv(w, v)
      BY DEF ExecInv
    <3>2. RunInv(v)'
      BY <1>1, <3>1 DEF RunInv, Leasing, Executing, Held, Fenced
    <3>3. run[v].job = run[w].job => ~Leasing(v) /\ ~Executing(v)
      BY <1>1, <1>4, <3>1 DEF PairInv, Leasing
    <3> QED
      BY <1>1, <2>1, <3>2, <3>3 DEF PairInv, Leasing, Executing
  <2> QED
    BY <1>1, <2>2, <2>3, OneRunStep
<1> QED
  BY <1>3, <1>4

LEMMA ObserveExec ==
  ASSUME Inv, WorkerTypeOK, ExecInv, NEW w \in Worker, ObserveCancel(w)
  PROVE  ExecInv'
<1>1. /\ Executing(w) /\ run[w].beating /\ row[run[w].job].cancelRequested
      /\ run'[w].stage \in {run[w].stage, "canceling"} /\ ~run'[w].beating
      /\ run'[w].job = run[w].job /\ run'[w].token = run[w].token
      /\ \A v \in Worker \ {w} : run'[v] = run[v]
      /\ UNCHANGED row
  BY DEF ObserveCancel, SetRun, WorkerTypeOK, RunType, Executing
<1>2. SteadyAll /\ LeaseKeptAll
  BY <1>1, RowsAlone
<1> QED
  BY <1>1, <1>2, GoesOn DEF Leasing, Executing

LEMMA FinishExecExec ==
  ASSUME Inv, WorkerTypeOK, ExecInv, NEW w \in Worker, FinishExec(w)
  PROVE  ExecInv'
<1>1. /\ run[w].stage = "exec"
      /\ run'[w].stage \in {"done", "canceling"} /\ run'[w].beating = run[w].beating
      /\ run'[w].job = run[w].job /\ run'[w].token = run[w].token
      /\ \A v \in Worker \ {w} : run'[v] = run[v]
  BY DEF FinishExec, SetRun, WorkerTypeOK, RunType
<1>2. run[w].job \in Job
  BY <1>1 DEF WorkerTypeOK
<1>3. SteadyAll /\ LeaseKeptAll
  BY <1>2, SetConversationCalm, RowsAlone DEF FinishExec
<1>4. (Executing(w)' /\ ~run'[w].beating) => row'[run[w].job].cancelRequested
  BY <1>1, <1>2, <1>3 DEF ExecInv, RunInv, Executing, SteadyAll, Steady
<1> QED
  BY <1>1, <1>3, <1>4, GoesOn DEF Leasing, Executing

LEMMA PersistExec ==
  ASSUME Inv, WorkerTypeOK, PhaseInv, ExecInv, NEW w \in Worker,
         \/ ShortCircuit(w) \/ FailEarly(w) \/ PersistAnswer(w) \/ PersistError(w)
         \/ PersistRetry(w) \/ PersistRelease(w) \/ PersistCanceled(w)
  PROVE  ExecInv'
<1> DEFINE j == run[w].job
           t == run[w].token
<1>1. run[w].stage # "idle" /\ EndRun(w)
  BY DEF ShortCircuit, Rescued, FailEarly, PersistAnswer, PersistError, PersistRetry,
         PersistRelease, PersistCanceled
<1>2. j \in Job /\ t \in Token
  BY <1>1 DEF WorkerTypeOK
<1>3. CASE PersistRetry(w)
  <2>1. RetryPhase(w) \subseteq Phase
    BY DEF RetryPhase, Phase
  <2>2. \E s \in Retryable, ph \in Phase :
          RetryWithinBudget(j, t, s, ph) \/ RetryExtended(j, t, s, ph) \/ RetryExhausted(j, t, ph)
    BY <1>3, <2>1 DEF PersistRetry
  <2> QED
    BY <1>1, <1>2, <2>2, RetrySteady, EndExec
<1>4. CASE ~PersistRetry(w)
  <2>1. \/ StoreAnswerResult(j, t)
        \/ \E s \in {"error", "needs_followup"} : StoreErrorResult(j, t, s)
        \/ StoreCanceledResult(j, t)
        \/ ReleaseForWait(j, t)
    BY <1>4 DEF ShortCircuit, FailEarly, PersistAnswer, PersistError, PersistRelease,
                PersistCanceled
  <2> QED
    BY <1>1, <1>2, <2>1, StoreSteady, EndExec
<1> QED
  BY <1>3, <1>4

LEMMA ExecStep ==
  ASSUME Inv, WorkerTypeOK, PhaseInv, ExecInv, [Next]_vars, faults' = faults
  PROVE  ExecInv'
<1>1. ASSUME UNCHANGED row, UNCHANGED run
      PROVE  ExecInv'
  BY <1>1, RowsAlone, RunsAlone DEF LeaseKeptAll
<1>2. ASSUME SteadyAll, LeaseKeptAll, UNCHANGED run
      PROVE  ExecInv'
  BY <1>2, RunsAlone DEF LeaseKeptAll
<1>3. ASSUME NEW w \in Worker, RunStep(w)
      PROVE  ExecInv'
  <2>1. CASE LeaseLost(w) \/ PersistRefused(w)
    <3>1. EndRun(w) /\ SteadyAll /\ LeaseKeptAll
      BY <2>1, RowsAlone DEF LeaseLost, PersistRefused, storeVars
    <3> QED
      BY <3>1, EndExec
  <2> QED
    BY <1>3, <2>1, LoadExec, InheritExec, BeginExec, ObserveExec, FinishExecExec, PersistExec
    DEF RunStep, Persist
<1>4. ASSUME NEW w \in Worker, FaultStep(w)
      PROVE  FALSE
  <2>1. faults \in Nat /\ faults' = faults + 1
    BY <1>4, WorkerAssumption DEF WorkerTypeOK, FaultStep, Crash, HeartbeatDies, Stall, Fault
  <2> QED
    BY <2>1
<1>5. ASSUME NEW j \in Job, LeaseElapses(j)
      PROVE  ExecInv'
  <2>1. SteadyAll /\ UNCHANGED run /\ ~Attended(j) /\ \A i \in Job \ {j} : row'[i] = row[i]
    BY <1>5, ExpireSteady DEF LeaseElapses, workerVars
  <2>2. \A i \in Job : LeaseKept(row[i], row'[i]) \/ ~Attended(i)
    BY <2>1 DEF LeaseKept
  <2> QED
    BY <2>1, <2>2, RunsAlone
<1>6. ASSUME NEW j \in Job,
             Submit(j) \/ Cancel(j) \/ BecomeDue(j) \/ Maintain(j) \/ TornRequest(j)
      PROVE  ExecInv'
  <2>1. SteadyAll /\ LeaseKeptAll
    BY <1>6, SubmitCalm, CancelCalm, UpkeepCalm DEF Cancel, BecomeDue, Maintain, TornRequest
  <2>2. UNCHANGED run
    BY <1>6 DEF Submit, Cancel, BecomeDue, Maintain, TornRequest, workerVars
  <2> QED
    BY <1>2, <2>1, <2>2
<1>7. CASE OperatorStep /\ UNCHANGED workerVars
  BY <1>2, <1>7, OperatorCalm DEF workerVars
<1>8. CASE UNCHANGED vars
  BY <1>1, <1>8 DEF vars
<1> QED
  BY <1>3, <1>4, <1>5, <1>6, <1>7, <1>8, ClaimExec DEF Next

\* Faults are counted one at a time and are never taken back.
LEMMA FaultsCounted ==
  ASSUME WorkerTypeOK, [Next]_vars
  PROVE  faults \in Nat /\ faults' \in {faults, faults + 1}
<1>1. faults \in Nat
  BY WorkerAssumption DEF WorkerTypeOK
<1>2. ASSUME NEW w \in Worker, RunStep(w)
      PROVE  faults' = faults
  BY <1>2 DEF RunStep, Load, Inherit, Begin, ShortCircuit, ObserveCancel, LeaseLost, FinishExec,
              FailEarly, Persist, PersistAnswer, PersistError, PersistRetry, PersistRelease,
              PersistCanceled, PersistRefused, EndRun
<1>3. ASSUME NEW w \in Worker, FaultStep(w)
      PROVE  faults' = faults + 1
  BY <1>3 DEF FaultStep, Crash, HeartbeatDies, Stall, Fault
<1>4. ASSUME NEW j \in Job, \/ LeaseElapses(j) \/ Submit(j) \/ Cancel(j)
                            \/ BecomeDue(j) \/ Maintain(j) \/ TornRequest(j)
      PROVE  faults' = faults
  BY <1>4 DEF LeaseElapses, Submit, Cancel, BecomeDue, Maintain, TornRequest, workerVars
<1> QED
  BY <1>1, <1>2, <1>3, <1>4 DEF Next, WorkerClaim, workerVars, vars

-----------------------------------------------------------------------------
\* The invariant holds until the first crash, dead heartbeat or stall.
THEOREM ExecInvariance == Spec => [](faults = 0 => ExecInv)
<1>1. Init => (faults = 0 => ExecInv)
  <2>1. Idle.stage = "idle" /\ Idle.beating = FALSE
    BY DEF Idle
  <2> QED
    BY <2>1 DEF Init, ExecInv, RunInv, PairInv, Leasing, Executing
<1>2. Inv /\ WorkerTypeOK /\ PhaseInv /\ (faults = 0 => ExecInv) /\ [Next]_vars
        => (faults = 0 => ExecInv)'
  <2> SUFFICES ASSUME Inv, WorkerTypeOK, PhaseInv, faults = 0 => ExecInv, [Next]_vars,
                      faults' = 0
               PROVE  ExecInv'
    OBVIOUS
  <2>1. faults \in Nat /\ faults' \in {faults, faults + 1}
    BY FaultsCounted
  <2>2. faults = 0 /\ faults' = faults
    BY <2>1
  <2> QED
    BY <2>2, ExecStep
<1> QED
  BY <1>1, <1>2, WorkerInvariance, PhaseInvariance, PTL DEF Spec

\* Until a process dies, a heartbeat fails or a stall outlives a lease, no
\* two workers execute the same job, whatever clients and operators do and
\* whenever a cancel request stops a heartbeat.
THEOREM OneExecutorUntilFault == Spec => [](faults = 0 => OneExecutor)
<1>1. WorkerTypeOK /\ ExecInv => OneExecutor
  BY DEF ExecInv, PairInv, OneExecutor
<1> QED
  BY <1>1, ExecInvariance, WorkerInvariance, PTL

\* In particular, when no fault ever happens.
THEOREM OneExecutorTheorem ==
  ASSUME MaxFaults = 0
  PROVE  Spec => []OneExecutor
<1>1. WorkerTypeOK => faults = 0
  BY DEF WorkerTypeOK
<1> QED
  BY <1>1, OneExecutorUntilFault, WorkerInvariance, PTL

-----------------------------------------------------------------------------
(* Who may take a lease over.                                              *)

Owns(w, j) == run[w].stage # "idle" /\ run[w].job = j /\ run[w].token = row[j].token

\* Without a fault a live lease is some run's, and only the lease of a job
\* that is to be canceled has run out.
OwnerInv ==
  \A j \in Job : row[j].status = "in_progress" =>
    /\ row[j].lease = "live" => \E w \in Worker : Owns(w, j)
    /\ row[j].lease = "expired" => row[j].cancelRequested

\* Nothing happened to a lease, and the run that owns it goes on.
LEMMA OwnerStands ==
  ASSUME Inv, OwnerInv, SteadyAll, LeasesStand, NEW j \in Job,
         \A w \in Worker : (Owns(w, j) /\ Held(w)) =>
           \/ /\ run'[w].stage # "idle" /\ run'[w].job = run[w].job
              /\ run'[w].token = run[w].token
           \/ ~(row'[j].status = "in_progress" /\ row'[j].lease = "live"),
         row'[j].status = "in_progress", row'[j].lease \in {"live", "expired"},
         row'[j].token # NoToken
  PROVE  /\ row'[j].lease = "live" => \E w \in Worker : Owns(w, j)'
         /\ row'[j].lease = "expired" => row'[j].cancelRequested
<1>1. /\ row[j].status = "in_progress" /\ row'[j].lease = row[j].lease
      /\ row'[j].token = row[j].token
  BY DEF LeasesStand, LeaseStands
<1>2. row[j].cancelRequested => row'[j].cancelRequested
  BY <1>1 DEF SteadyAll, Steady
<1>3. ASSUME row'[j].lease = "live"
      PROVE  \E w \in Worker : Owns(w, j)'
  <2>1. PICK w \in Worker : Owns(w, j)
    BY <1>1, <1>3 DEF OwnerInv
  <2>2. Held(w)
    BY <1>1, <1>3, <2>1 DEF Owns, Held, Fenced
  <2> QED
    BY <1>1, <1>3, <2>1, <2>2 DEF Owns
<1> QED
  BY <1>1, <1>2, <1>3 DEF OwnerInv

\* An operation that ends a run gives the lease back.
LEMMA EndGivesBack ==
  ASSUME Inv, NEW j \in Job, NEW t \in Token,
         \/ StoreAnswerResult(j, t)
         \/ \E s \in {"error", "needs_followup"} : StoreErrorResult(j, t, s)
         \/ StoreCanceledResult(j, t)
         \/ ReleaseForWait(j, t)
         \/ \E s \in Retryable, ph \in Phase :
              RetryWithinBudget(j, t, s, ph) \/ RetryExtended(j, t, s, ph)
         \/ \E ph \in Phase : RetryExhausted(j, t, ph)
  PROVE  ~(row'[j].status = "in_progress" /\ row'[j].lease = "live")
<1>1. ASSUME NEW s \in Terminal \cup Retryable, NEW r \in RowType, Finish(j, t, s, r)
      PROVE  row'[j].status # "in_progress"
  <2> DEFINE q == [r EXCEPT !.status = s]
  <2>1. Update(j, q)
    BY <1>1 DEF Finish
  <2>2. q.status = s /\ s # "in_progress"
    BY DEF RowType, Terminal, Retryable, Parked
  <2> HIDE DEF q
  <2> QED
    BY <2>1, <2>2, UpdatedRow
<1>2. row[j] \in RowType
  BY DEF Inv, StoreTypeOK
<1>3. CASE StoreAnswerResult(j, t)
  <2>1. [row[j] EXCEPT !.answer = t] \in RowType
    BY <1>2 DEF RowType
  <2> QED
    BY <1>1, <1>3, <2>1 DEF StoreAnswerResult, Terminal
<1>4. CASE \/ \E s \in {"error", "needs_followup"} : StoreErrorResult(j, t, s)
           \/ \E ph \in Phase : RetryExhausted(j, t, ph)
  <2>1. PICK s \in {"error", "needs_followup"} : StoreErrorResult(j, t, s)
    BY <1>4 DEF RetryExhausted
  <2>2. Finish(j, t, s, row[j]) /\ s \in Terminal \cup Retryable
    BY <2>1 DEF StoreErrorResult, Terminal, Retryable, Parked
  <2> QED
    BY <1>1, <1>2, <2>2
<1>5. CASE StoreCanceledResult(j, t)
  <2>1. [row[j] EXCEPT !.cancelRequested = TRUE] \in RowType
    BY <1>2 DEF RowType
  <2> QED
    BY <1>1, <1>5, <2>1 DEF StoreCanceledResult, Terminal
<1>6. CASE ReleaseForWait(j, t)
  <2> DEFINE r == [row[j] EXCEPT !.phase = "wait", !.due = FALSE,
                                 !.token = NoToken, !.lease = "none"]
  <2>1. Update(j, r) /\ r.lease = "none"
    BY <1>2, <1>6 DEF ReleaseForWait, RowType
  <2> HIDE DEF r
  <2> QED
    BY <2>1, UpdatedRow
<1>7. ASSUME NEW s \in Retryable, NEW ph \in Phase, RetryWithinBudget(j, t, s, ph)
      PROVE  row'[j].status # "in_progress"
  <2>1. [row[j] EXCEPT !.phase = ph, !.due = FALSE] \in RowType
    BY <1>2 DEF RowType
  <2> QED
    BY <1>1, <1>7, <2>1 DEF RetryWithinBudget
<1>8. ASSUME NEW s \in Retryable, NEW ph \in Phase, RetryExtended(j, t, s, ph)
      PROVE  row'[j].status # "in_progress"
  <2> DEFINE e == row[j].extensions + 1
             m == Smaller(AttemptsCap, Larger(row[j].maxAttempts + 1, row[j].attempts + 1))
             r == [row[j] EXCEPT !.phase = ph, !.due = FALSE, !.extensions = e,
                                 !.maxAttempts = m]
  <2>1. e \in Nat /\ m \in Nat
    BY <1>2, StoreAssumption DEF RowType, Smaller, Larger
  <2>2. Finish(j, t, s, r)
    BY <1>8 DEF RetryExtended
  <2> HIDE DEF e, m
  <2>3. r \in RowType
    BY <1>2, <2>1 DEF RowType
  <2> HIDE DEF r
  <2> QED
    BY <1>1, <2>2, <2>3
<1> QED
  BY <1>3, <1>4, <1>5, <1>6, <1>7, <1>8

\* A run goes on with its job and its token, or it stores its result, or it
\* had lost its lease.
LEMMA RunGivesBack ==
  ASSUME Inv, WorkerTypeOK, NEW w \in Worker, RunStep(w), NEW v \in Worker,
         run[v].stage # "idle", Held(v)
  PROVE  \/ /\ run'[v].stage # "idle" /\ run'[v].job = run[v].job
            /\ run'[v].token = run[v].token
         \/ ~(row'[run[v].job].status = "in_progress" /\ row'[run[v].job].lease = "live")
<1>1. \A u \in Worker \ {w} : run'[u] = run[u]
  BY DEF RunStep, Load, Inherit, Begin, ShortCircuit, ObserveCancel, LeaseLost, FinishExec,
         FailEarly, Persist, PersistAnswer, PersistError, PersistRetry, PersistRelease,
         PersistCanceled, PersistRefused, EndRun, SetRun, WorkerTypeOK
<1>2. SUFFICES ASSUME v = w
               PROVE  \/ /\ run'[w].stage # "idle" /\ run'[w].job = run[w].job
                         /\ run'[w].token = run[w].token
                      \/ ~ /\ row'[run[w].job].status = "in_progress"
                           /\ row'[run[w].job].lease = "live"
  BY <1>1
<1>3. CASE Load(w) \/ Inherit(w) \/ Begin(w) \/ ObserveCancel(w) \/ FinishExec(w)
  <2>1. CASE Load(w)
    BY <2>1 DEF Load, SetRun, WorkerTypeOK, RunType
  <2>2. CASE Inherit(w)
    BY <2>2 DEF Inherit, SetRun, WorkerTypeOK, RunType
  <2>3. CASE Begin(w)
    BY <2>3 DEF Begin, SetRun, WorkerTypeOK, RunType
  <2>4. CASE ObserveCancel(w)
    BY <2>4 DEF ObserveCancel, SetRun, WorkerTypeOK, RunType
  <2>5. CASE FinishExec(w)
    BY <2>5 DEF FinishExec, SetRun, WorkerTypeOK, RunType
  <2> QED
    BY <1>3, <2>1, <2>2, <2>3, <2>4, <2>5
<1>4. CASE LeaseLost(w) \/ PersistRefused(w)
  BY <1>2, <1>4 DEF LeaseLost, PersistRefused
<1>5. run[w].job \in Job /\ run[w].token \in Token
  BY <1>2 DEF WorkerTypeOK
<1>6. CASE \/ ShortCircuit(w) \/ FailEarly(w) \/ PersistAnswer(w)
           \/ PersistError(w) \/ PersistRelease(w) \/ PersistCanceled(w)
  BY <1>5, <1>6, EndGivesBack DEF ShortCircuit, FailEarly, PersistAnswer, PersistError,
     PersistRelease, PersistCanceled
<1>7. CASE PersistRetry(w)
  <2>1. RetryPhase(w) \subseteq Phase
    BY DEF RetryPhase, Phase
  <2> DEFINE j == run[w].job
             t == run[w].token
  <2>2. PICK s \in Retryable, ph \in Phase :
          RetryWithinBudget(j, t, s, ph) \/ RetryExtended(j, t, s, ph) \/ RetryExhausted(j, t, ph)
    BY <1>7, <2>1 DEF PersistRetry
  <2> QED
    BY <1>5, <2>2, EndGivesBack
<1> QED
  BY <1>3, <1>4, <1>6, <1>7 DEF RunStep, Persist

\* The steps of a run leave the rows steady.
LEMMA RunSteady ==
  ASSUME Inv, WorkerTypeOK, NEW w \in Worker, RunStep(w)
  PROVE  SteadyAll /\ LeasesStand
<1>1. CASE UNCHANGED row
  BY <1>1, RowsAlone, StandAlone
<1>2. ASSUME NEW j \in Job, NEW t \in Token, LeasedOp(j, t)
      PROVE  SteadyAll /\ LeasesStand
  <2>1. LeasesStand
    BY <1>2, LeasedStands
  <2>2. CASE \E c \in Conversation : SetConversationUrl(j, t, c)
    BY <2>1, <2>2, SetConversationCalm
  <2>3. CASE TornAnswer(j, t) \/ TornResult(j, t)
    BY <2>1, <2>3, RowsAlone DEF TornAnswer, TornResult
  <2>4. CASE \E ph \in Phase : RetryExhausted(j, t, ph)
    BY <2>1, <2>4, StoreSteady DEF RetryExhausted
  <2> QED
    BY <1>2, <2>1, <2>2, <2>3, <2>4, StoreSteady, RetrySteady DEF LeasedOp
<1> QED
  BY <1>1, <1>2, RunsAreClients DEF storeVars

LEMMA OwnerStep ==
  ASSUME Inv, WorkerTypeOK, ExecInv, OwnerInv, [Next]_vars, faults' = faults
  PROVE  OwnerInv'
<1>1. Inv'
  BY WorkersAreClients, InvInductive
<1> SUFFICES ASSUME NEW j \in Job, row'[j].status = "in_progress"
             PROVE  /\ row'[j].lease = "live" => \E w \in Worker : Owns(w, j)'
                    /\ row'[j].lease = "expired" => row'[j].cancelRequested
  BY DEF OwnerInv
<1>2. row'[j].lease \in {"live", "expired"} => row'[j].token # NoToken
  BY <1>1 DEF Inv, RowInv
<1>3. ASSUME SteadyAll, LeasesStand, UNCHANGED run
      PROVE  /\ row'[j].lease = "live" => \E w \in Worker : Owns(w, j)'
             /\ row'[j].lease = "expired" => row'[j].cancelRequested
  <2>1. \A w \in Worker : Owns(w, j) =>
          /\ run'[w].stage # "idle" /\ run'[w].job = run[w].job
          /\ run'[w].token = run[w].token
    BY <1>3 DEF Owns
  <2> QED
    BY <1>2, <1>3, <2>1, OwnerStands
<1>4. ASSUME NEW w \in Worker, NEW i \in Job, NEW t \in Token, WorkerClaim(w, i, t)
      PROVE  /\ row'[j].lease = "live" => \E v \in Worker : Owns(v, j)'
             /\ row'[j].lease = "expired" => row'[j].cancelRequested
  <2>1. /\ run[w].stage = "idle"
        /\ run'[w].stage = "claimed" /\ run'[w].job = i /\ run'[w].token = t
        /\ \A v \in Worker \ {w} : run'[v] = run[v]
    BY <1>4 DEF WorkerClaim, SetRun, WorkerTypeOK, Idle
  <2>2. /\ row'[i].token = t /\ row'[i].lease = "live"
        /\ \A m \in Job \ {i} : row'[m] = row[m]
    BY <1>4 DEF WorkerClaim, ClaimNextJob, Update, Inv, StoreTypeOK, RowType
  <2>3. CASE i = j
    BY <2>1, <2>2, <2>3 DEF Owns
  <2>4. CASE i # j
    <3>1. row'[j] = row[j]
      BY <2>2, <2>4
    <3>2. \A v \in Worker : Owns(v, j) => Owns(v, j)'
      BY <2>1, <3>1 DEF Owns
    <3> QED
      BY <3>1, <3>2 DEF OwnerInv
  <2> QED
    BY <2>3, <2>4
<1>5. ASSUME NEW w \in Worker, RunStep(w)
      PROVE  /\ row'[j].lease = "live" => \E v \in Worker : Owns(v, j)'
             /\ row'[j].lease = "expired" => row'[j].cancelRequested
  <2>1. \A v \in Worker : (Owns(v, j) /\ Held(v)) =>
          \/ /\ run'[v].stage # "idle" /\ run'[v].job = run[v].job
             /\ run'[v].token = run[v].token
          \/ ~(row'[j].status = "in_progress" /\ row'[j].lease = "live")
    BY <1>5, RunGivesBack DEF Owns
  <2> QED
    BY <1>2, <1>5, <2>1, RunSteady, OwnerStands
<1>6. ASSUME NEW w \in Worker, FaultStep(w)
      PROVE  FALSE
  <2>1. faults \in Nat /\ faults' = faults + 1
    BY <1>6, WorkerAssumption DEF WorkerTypeOK, FaultStep, Crash, HeartbeatDies, Stall, Fault
  <2> QED
    BY <2>1
<1>7. ASSUME NEW i \in Job, LeaseElapses(i)
      PROVE  /\ row'[j].lease = "live" => \E v \in Worker : Owns(v, j)'
             /\ row'[j].lease = "expired" => row'[j].cancelRequested
  <2>1. ~Attended(i) /\ ExpireLease(i) /\ UNCHANGED run
    BY <1>7 DEF LeaseElapses, workerVars
  <2>2. /\ row[i].status = "in_progress" /\ row[i].lease = "live"
        /\ row'[i].lease = "expired" /\ row'[i].cancelRequested = row[i].cancelRequested
        /\ \A m \in Job \ {i} : row'[m] = row[m]
    BY <2>1 DEF ExpireLease, Update, Inv, StoreTypeOK, RowType
  <2>3. row[i].cancelRequested
    <3>1. PICK w \in Worker : Owns(w, i)
      BY <2>2 DEF OwnerInv
    <3>2. Executing(w) /\ ~run[w].beating
      BY <2>1, <3>1 DEF Owns, Attended, Executing, WorkerTypeOK, RunType
    <3> QED
      BY <3>1, <3>2 DEF Owns, ExecInv, RunInv
  <2>4. CASE i = j
    BY <2>2, <2>3, <2>4
  <2>5. CASE i # j
    <3>1. row'[j] = row[j]
      BY <2>2, <2>5
    <3> QED
      BY <2>1, <3>1 DEF OwnerInv, Owns
  <2> QED
    BY <2>4, <2>5
<1>8. ASSUME NEW i \in Job,
             Submit(i) \/ Cancel(i) \/ BecomeDue(i) \/ Maintain(i) \/ TornRequest(i)
      PROVE  /\ row'[j].lease = "live" => \E v \in Worker : Owns(v, j)'
             /\ row'[j].lease = "expired" => row'[j].cancelRequested
  <2>1. SteadyAll
    BY <1>8, SubmitCalm, CancelCalm, UpkeepCalm DEF Cancel, BecomeDue, Maintain, TornRequest
  <2>2. LeasesStand
    BY <1>8, LifeStands DEF Submit, Cancel, BecomeDue, Maintain, TornRequest
  <2>3. UNCHANGED run
    BY <1>8 DEF Submit, Cancel, BecomeDue, Maintain, TornRequest, workerVars
  <2> QED
    BY <1>3, <2>1, <2>2, <2>3
<1>9. CASE OperatorStep /\ UNCHANGED workerVars
  BY <1>3, <1>9, OperatorCalm, OperatorStands DEF workerVars
<1>10. CASE UNCHANGED vars
  BY <1>3, <1>10, RowsAlone, StandAlone DEF vars
<1> QED
  BY <1>4, <1>5, <1>6, <1>7, <1>8, <1>9, <1>10 DEF Next

\* The invariant holds until the first fault.
THEOREM OwnerInvariance == Spec => [](faults = 0 => OwnerInv)
<1>1. Init => (faults = 0 => OwnerInv)
  BY DEF Init, StoreInit, NoRow, OwnerInv
<1>2. Inv /\ WorkerTypeOK /\ (faults = 0 => ExecInv) /\ (faults = 0 => OwnerInv) /\ [Next]_vars
        => (faults = 0 => OwnerInv)'
  <2> SUFFICES ASSUME Inv, WorkerTypeOK, faults = 0 => ExecInv, faults = 0 => OwnerInv,
                      [Next]_vars, faults' = 0
               PROVE  OwnerInv'
    OBVIOUS
  <2>1. faults \in Nat /\ faults' \in {faults, faults + 1}
    BY FaultsCounted
  <2>2. faults = 0 /\ faults' = faults
    BY <2>1
  <2> QED
    BY <2>2, OwnerStep
<1> QED
  BY <1>1, <1>2, WorkerInvariance, ExecInvariance, PTL DEF Spec

\* For any number of workers and jobs: a job in progress changes hands only
\* after a fault or a cancel request, so heartbeats cover every moment between
\* a claim and the stored result (_lease_heartbeat, claim_next_job).
THEOREM TakeoversHaveCause == Spec => TakeoverHasCause
<1> DEFINE HasCause(j) ==
      (/\ row[j].status = "in_progress"
       /\ row[j].token # NoToken
       /\ row'[j].token \notin {row[j].token, NoToken})
      => faults > 0 \/ row[j].cancelRequested
<1>1. ASSUME Inv, WorkerTypeOK, faults = 0 => OwnerInv, [Next]_vars, NEW j \in Job
      PROVE  HasCause(j)
  <2> SUFFICES ASSUME row[j].status = "in_progress", row[j].token # NoToken,
                      row'[j].token \notin {row[j].token, NoToken}, ~(faults > 0)
               PROVE  row[j].cancelRequested
    OBVIOUS
  <2>1. faults = 0
    BY FaultsCounted, <1>1
  <2>2. \E t \in Token : ClaimNextJob(j, t)
    BY <1>1, WorkersAreClients, OnlyClaimsGiveTokens
  <2>3. row[j].lease # "live"
    BY <2>2 DEF ClaimNextJob, Claimable, Available
  <2>4. row[j].lease = "expired"
    BY <1>1, <2>3 DEF Inv, RowInv, StoreTypeOK, RowType
  <2> QED
    BY <1>1, <2>1, <2>4 DEF OwnerInv
<1>2. Inv /\ WorkerTypeOK /\ (faults = 0 => OwnerInv) /\ [Next]_vars
        => [\A j \in Job : HasCause(j)]_vars
  BY <1>1
<1> QED
  BY <1>2, WorkerInvariance, OwnerInvariance, PTL DEF Spec, TakeoverHasCause
=============================================================================

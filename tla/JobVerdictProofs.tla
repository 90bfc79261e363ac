-------------------------- MODULE JobVerdictProofs --------------------------
(***************************************************************************)
(* The store keeps the promise of JobVerdict, for every value of the       *)
(* constants: verdicts are final, parked jobs are not resumed, and every   *)
(* step of the store is a step of the promise or a stutter.                *)
(*                                                                         *)
(* The argument goes through one lemma, Moves: a step leaves all jobs      *)
(* quiet, or it moves one job in one of four ways and no other job.        *)
(***************************************************************************)
EXTENDS JobStoreProofs

Open(r) == r.status \in Status \ (Terminal \cup {"absent"})

\* Nothing a client can see of this job changes.
Quiet(j) == /\ row'[j].status = row[j].status
            /\ row'[j].answer = row[j].answer
            /\ files'[j] = files[j]

Submitted(j) == /\ row[j].status = "absent"
                /\ row'[j].status = "queued"

Progressed(j) == /\ Open(row[j])
                 /\ Open(row'[j])
                 /\ row[j].status \in Parked => row'[j].status = row[j].status

Completed(j) == /\ row[j].status = "in_progress"
                /\ row'[j].status = "completed"
                /\ files'[j].answer \in Token

Refused(j) == /\ Open(row[j])
              /\ row'[j].status \in {"error", "canceled"}

Moved(j) == Submitted(j) \/ Progressed(j) \/ Completed(j) \/ Refused(j)

\* What a step may do: it moves one job, or none.
Alone(j) == Moved(j) /\ \A i \in Job \ {j} : Quiet(i)

-----------------------------------------------------------------------------
\* An operation that rewrites one row, and perhaps that job's files.
LEMMA RewriteIsAlone ==
  ASSUME Inv, NEW j \in Job, NEW r, Update(j, r),
         \E f : files' = [files EXCEPT ![j] = f],
         \/ Open(row[j]) /\ r.status \in {"error", "canceled"}
         \/ Open(row[j]) /\ Open(r) /\ (row[j].status \in Parked => r.status = row[j].status)
  PROVE  Alone(j)
<1>1. row \in [Job -> RowType] /\ files \in [Job -> FilesType]
  BY DEF Inv, StoreTypeOK
<1>2. row'[j] = r /\ \A i \in Job \ {j} : row'[i] = row[i]
  BY <1>1 DEF Update
<1>3. \A i \in Job \ {j} : files'[i] = files[i]
  BY <1>1
<1> QED
  BY <1>2, <1>3 DEF Alone, Moved, Progressed, Refused, Quiet

\* transition() with a status other than completed.
LEMMA FinishIsAlone ==
  ASSUME Inv, NEW j \in Job, NEW t, NEW s \in Status \ {"absent", "completed"},
         NEW r \in RowType, Finish(j, t, s, r), WriteResult(j, s)
  PROVE  Alone(j)
<1> DEFINE q == [r EXCEPT !.status = s]
<1>1. Update(j, q) /\ row[j].status = "in_progress"
  BY DEF Finish, Fenced
<1>2. q.status = s
  BY DEF RowType
<1>3. \E f : files' = [files EXCEPT ![j] = f]
  BY DEF WriteResult, Inv, StoreTypeOK
<1>4. Open(row[j]) /\ row[j].status \notin Parked
  BY <1>1 DEF Open, Status, Retryable, Parked, Terminal
<1>5. s \in {"error", "canceled"} \/ Open(q)
  BY <1>2 DEF Open, Terminal
<1> HIDE DEF q
<1> QED
  BY <1>1, <1>2, <1>3, <1>4, <1>5, RewriteIsAlone

LEMMA LeasedMoves ==
  ASSUME Inv, NEW j \in Job, NEW t \in Token, LeasedOp(j, t)
  PROVE  Alone(j)
<1>1. row \in [Job -> RowType] /\ row[j] \in RowType /\ files \in [Job -> FilesType]
  BY DEF Inv, StoreTypeOK
<1>2. Terminal \subseteq Status /\ Retryable \subseteq Status \ (Terminal \cup {"absent"})
  BY DEF Status, Terminal, Retryable, Parked
<1>3. files' = files => \E f : files' = [files EXCEPT ![j] = f]
  BY <1>1
<1>4. CASE \E c \in Conversation : SetConversationUrl(j, t, c)
  <2>1. PICK c \in Conversation : SetConversationUrl(j, t, c)
    BY <1>4
  <2> DEFINE r == [row[j] EXCEPT !.conversation = c]
  <2>2. Update(j, r) /\ files' = files /\ row[j].status = "in_progress"
    BY <2>1 DEF SetConversationUrl, Fenced
  <2>3. r.status = row[j].status
    BY <1>1 DEF RowType
  <2>4. Open(row[j]) /\ Open(r)
    BY <2>2, <2>3 DEF Open, Status, Retryable, Parked, Terminal
  <2> HIDE DEF r
  <2> QED
    BY <1>3, <2>2, <2>3, <2>4, RewriteIsAlone
<1>5. CASE StoreAnswerResult(j, t)
  <2> DEFINE q == [[row[j] EXCEPT !.answer = t] EXCEPT !.status = "completed"]
  <2>1. Update(j, q) /\ row[j].status = "in_progress"
    BY <1>5 DEF StoreAnswerResult, Finish, Fenced
  <2>2. q.status = "completed"
    BY <1>1 DEF RowType
  <2> HIDE DEF q
  <2>3. files'[j].answer = t /\ \A i \in Job \ {j} : files'[i] = files[i]
    BY <1>1, <1>5 DEF StoreAnswerResult
  <2> QED
    BY <1>1, <2>1, <2>2, <2>3 DEF Update, Alone, Moved, Completed, Quiet
<1>6. CASE \/ \E s \in {"error", "needs_followup"} : StoreErrorResult(j, t, s)
           \/ \E ph \in Phase : RetryExhausted(j, t, ph)
  <2>1. PICK s \in {"error", "needs_followup"} : StoreErrorResult(j, t, s)
    BY <1>6 DEF RetryExhausted
  <2>2. s \in Status \ {"absent", "completed"}
    BY DEF Status, Terminal, Retryable, Parked
  <2> QED
    BY <1>1, <2>1, <2>2, FinishIsAlone DEF StoreErrorResult
<1>7. CASE \E s \in Retryable, ph \in Phase : RetryWithinBudget(j, t, s, ph)
  <2>1. PICK s \in Retryable, ph \in Phase : RetryWithinBudget(j, t, s, ph)
    BY <1>7
  <2> DEFINE r == [row[j] EXCEPT !.phase = ph, !.due = FALSE]
  <2>2. r \in RowType
    BY <1>1 DEF RowType
  <2>3. Finish(j, t, s, r) /\ WriteResult(j, s)
    BY <2>1 DEF RetryWithinBudget
  <2>4. s \in Status \ {"absent", "completed"}
    BY DEF Status, Terminal, Retryable, Parked
  <2> HIDE DEF r
  <2> QED
    BY <2>2, <2>3, <2>4, FinishIsAlone
<1>8. CASE \E s \in Retryable, ph \in Phase : RetryExtended(j, t, s, ph)
  <2>1. PICK s \in Retryable, ph \in Phase : RetryExtended(j, t, s, ph)
    BY <1>8
  <2> DEFINE e == row[j].extensions + 1
             m == Smaller(AttemptsCap, Larger(row[j].maxAttempts + 1, row[j].attempts + 1))
             r == [row[j] EXCEPT !.phase = ph, !.due = FALSE, !.extensions = e,
                                 !.maxAttempts = m]
  <2>2. e \in Nat /\ m \in Nat
    BY <1>1, StoreAssumption DEF RowType, Smaller, Larger
  <2>3. Finish(j, t, s, r) /\ WriteResult(j, s)
    BY <2>1 DEF RetryExtended
  <2> HIDE DEF e, m
  <2>4. r \in RowType
    BY <1>1, <2>2 DEF RowType
  <2>5. s \in Status \ {"absent", "completed"}
    BY DEF Status, Terminal, Retryable, Parked
  <2> HIDE DEF r
  <2> QED
    BY <2>3, <2>4, <2>5, FinishIsAlone
<1>9. CASE ReleaseForWait(j, t)
  <2> DEFINE r == [row[j] EXCEPT !.phase = "wait", !.due = FALSE,
                                 !.token = NoToken, !.lease = "none"]
  <2>1. Update(j, r) /\ files' = files /\ row[j].status = "in_progress"
    BY <1>9 DEF ReleaseForWait, Fenced
  <2>2. r.status = row[j].status
    BY <1>1 DEF RowType
  <2>3. Open(row[j]) /\ Open(r)
    BY <2>1, <2>2 DEF Open, Status, Retryable, Parked, Terminal
  <2> HIDE DEF r
  <2> QED
    BY <1>3, <2>1, <2>2, <2>3, RewriteIsAlone
<1>10. CASE StoreCanceledResult(j, t)
  <2> DEFINE r == [row[j] EXCEPT !.cancelRequested = TRUE]
  <2>1. r \in RowType
    BY <1>1 DEF RowType
  <2>2. Finish(j, t, "canceled", r) /\ WriteResult(j, "canceled")
    BY <1>10 DEF StoreCanceledResult
  <2>3. "canceled" \in Status \ {"absent", "completed"}
    BY DEF Status, Terminal
  <2> HIDE DEF r
  <2> QED
    BY <2>1, <2>2, <2>3, FinishIsAlone
<1>11. CASE TornAnswer(j, t) \/ TornResult(j, t)
  <2>1. row' = row /\ row[j].status = "in_progress"
    BY <1>11 DEF TornAnswer, TornResult, Fenced
  <2>2. \E f : files' = [files EXCEPT ![j] = f]
    BY <1>1, <1>11 DEF TornAnswer, TornResult, WriteResult
  <2>3. Open(row[j]) /\ Update(j, row[j])
    BY <1>1, <2>1 DEF Update, Open, Status, Retryable, Parked, Terminal
  <2> QED
    BY <2>2, <2>3, RewriteIsAlone
<1> QED
  BY <1>4, <1>5, <1>6, <1>7, <1>8, <1>9, <1>10, <1>11 DEF LeasedOp

LEMMA CancelMoves ==
  ASSUME Inv, NEW j \in Job, RequestCancel(j)
  PROVE  Alone(j)
<1>1. row \in [Job -> RowType] /\ row[j] \in RowType /\ files \in [Job -> FilesType]
  BY DEF Inv, StoreTypeOK
<1>2. Open(row[j])
  BY DEF RequestCancel, CancelQueued, CancelWaiting, CancelParked, FlagCancel,
         Open, Status, Retryable, Parked, Terminal
<1>3. ASSUME NEW r \in {CanceledRow(row[j]), Unleased(CanceledRow(row[j]))},
             Update(j, r), WriteResult(j, "canceled")
      PROVE  Alone(j)
  <2>1. CanceledRow(row[j]).status = "canceled"
    BY <1>1 DEF CanceledRow, RowType
  <2>2. Unleased(CanceledRow(row[j])).status = "canceled"
    BY <1>1 DEF CanceledRow, Unleased, RowType
  <2>3. \E f : files' = [files EXCEPT ![j] = f]
    BY <1>1, <1>3 DEF WriteResult
  <2> QED
    BY <1>2, <1>3, <2>1, <2>2, <2>3, RewriteIsAlone
<1>4. CASE StoreCanceledResult(j, row[j].token)
  <2> DEFINE r == [row[j] EXCEPT !.cancelRequested = TRUE]
  <2>1. r \in RowType
    BY <1>1 DEF RowType
  <2>2. Finish(j, row[j].token, "canceled", r) /\ WriteResult(j, "canceled")
    BY <1>4 DEF StoreCanceledResult
  <2>3. "canceled" \in Status \ {"absent", "completed"}
    BY DEF Status, Terminal
  <2> HIDE DEF r
  <2> QED
    BY <2>1, <2>2, <2>3, FinishIsAlone
<1>5. CASE FlagCancel(j)
  <2> DEFINE r == [row[j] EXCEPT !.cancelRequested = TRUE]
  <2>1. Update(j, r) /\ files' = [files EXCEPT ![j] = files[j]]
    BY <1>1, <1>5 DEF FlagCancel
  <2>2. r.status = row[j].status
    BY <1>1 DEF RowType
  <2>3. Open(r)
    BY <1>2, <2>2 DEF Open
  <2> HIDE DEF r
  <2> QED
    BY <1>2, <2>1, <2>2, <2>3, RewriteIsAlone
<1> QED
  BY <1>3, <1>4, <1>5 DEF RequestCancel, CancelQueued, CancelWaiting, CancelParked

LEMMA MaintenanceMoves ==
  ASSUME Inv, NEW j \in Job, BacklogJanitor(j) \/ HealthProbe(j)
  PROVE  Alone(j)
<1> DEFINE q == [row[j] EXCEPT !.status = "error"]
<1>1. row[j] \in RowType /\ files \in [Job -> FilesType]
  BY DEF Inv, StoreTypeOK
<1>2. q.status = "error" /\ Unleased(q).status = "error"
  BY <1>1 DEF Unleased, RowType
<1>3. Open(row[j])
  BY DEF BacklogJanitor, HealthProbe, Open, Status, Retryable, Parked, Terminal
<1>4. Update(j, q) \/ Update(j, Unleased(q))
  BY DEF BacklogJanitor, HealthProbe
<1>5. \E f : files' = [files EXCEPT ![j] = f]
  BY <1>1 DEF BacklogJanitor, HealthProbe, WriteResult
<1> HIDE DEF q
<1> QED
  BY <1>2, <1>3, <1>4, <1>5, RewriteIsAlone

\* A claim, a submission, an expiry: the row alone is rewritten, and stays open.
LEMMA OtherMoves ==
  ASSUME Inv, NEW j \in Job,
         \/ \E t \in Token : ClaimNextJob(j, t)
         \/ \E r \in Request : CreateJob(j, r)
         \/ ExpireLease(j)
  PROVE  Alone(j)
<1>1. row \in [Job -> RowType] /\ row[j] \in RowType /\ files \in [Job -> FilesType]
  BY DEF Inv, StoreTypeOK
<1>2. files' = files /\ \A i \in Job \ {j} : row'[i] = row[i]
  BY <1>1 DEF ClaimNextJob, CreateJob, ExpireLease, Update
<1>3. CASE \E t \in Token : ClaimNextJob(j, t)
  <2>1. row[j].status \in {"queued", "cooldown", "in_progress"}
    BY <1>3 DEF ClaimNextJob, Claimable, Available
  <2>2. row'[j].status = "in_progress"
    BY <1>1, <1>3 DEF ClaimNextJob, Update, RowType
  <2> QED
    BY <1>2, <2>1, <2>2 DEF Alone, Moved, Progressed, Quiet, Open, Status,
                            Retryable, Parked, Terminal
<1>4. CASE \E r \in Request : CreateJob(j, r)
  <2>1. row[j].status = "absent" /\ row'[j].status = "queued"
    BY <1>1, <1>4 DEF CreateJob, Update, NoRow
  <2> QED
    BY <1>2, <2>1 DEF Alone, Moved, Submitted, Quiet
<1>5. CASE ExpireLease(j)
  <2>1. row[j].status = "in_progress" /\ row'[j].status = "in_progress"
    BY <1>1, <1>5 DEF ExpireLease, Update, RowType
  <2> QED
    BY <1>2, <2>1 DEF Alone, Moved, Progressed, Quiet, Open, Status,
                      Retryable, Parked, Terminal
<1> QED
  BY <1>3, <1>4, <1>5

\* Every step moves one job, or none.
LEMMA Moves ==
  ASSUME Inv, [StoreNext]_storeVars
  PROVE  (\A i \in Job : Quiet(i)) \/ \E j \in Job : Alone(j)
<1>1. row \in [Job -> RowType] /\ files \in [Job -> FilesType]
  BY DEF Inv, StoreTypeOK
<1>2. CASE UNCHANGED <<row, files>>
  BY <1>2 DEF Quiet
<1>3. CASE \E j \in Job, t \in Token : ClaimNextJob(j, t) \/ LeasedOp(j, t)
  BY <1>3, LeasedMoves, OtherMoves
<1>4. ASSUME NEW j \in Job, JobStep(j)
      PROVE  (\A i \in Job : Quiet(i)) \/ Alone(j)
  <2>1. CASE TornCancel(j)
    <3>1. Open(row[j]) /\ Update(j, row[j])
      BY <1>1, <2>1 DEF TornCancel, Update, Open, Status, Retryable, Parked, Terminal
    <3>2. \E f : files' = [files EXCEPT ![j] = f]
      BY <1>1, <2>1 DEF TornCancel, WriteResult
    <3> QED
      BY <3>1, <3>2, RewriteIsAlone
  <2>2. CASE NotBeforeElapses(j)
    BY <1>1, <2>2 DEF NotBeforeElapses, Update, Quiet, RowType
  <2> QED
    BY <1>4, <2>1, <2>2, OtherMoves, CancelMoves, MaintenanceMoves DEF JobStep, JobLife
<1>5. CASE OperatorStep
  <2>1. CASE ClearPause
    BY <1>1, <2>1 DEF ClearPause, Quiet, RowType
  <2> QED
    BY <1>2, <1>5, <2>1 DEF OperatorStep, SetPause, PauseElapses, SetHold, HoldEnds
<1> QED
  BY <1>2, <1>3, <1>4, <1>5 DEF StoreNext, storeVars

-----------------------------------------------------------------------------
\* No step, of a stale worker, a cancel, the janitor or the health probe,
\* changes a verdict or what was published under it.
THEOREM VerdictsAreFinal == StoreSpec => TerminalFinal
<1> DEFINE Final(j) ==
      row[j].status \in Terminal =>
        /\ row'[j].status = row[j].status
        /\ row'[j].answer = row[j].answer
        /\ row[j].status # "error" => files'[j] = files[j]
<1>1. ASSUME Inv, [StoreNext]_storeVars, NEW j \in Job
      PROVE  Final(j)
  <2>1. row[j].status \in Terminal => ~Moved(j)
    BY DEF Moved, Submitted, Progressed, Completed, Refused, Open, Terminal
  <2>2. row[j].status \in Terminal => Quiet(j)
    BY <1>1, <2>1, Moves DEF Alone
  <2> QED
    BY <2>2 DEF Quiet
<1>2. Inv /\ [StoreNext]_storeVars => [\A j \in Job : Final(j)]_storeVars
  BY <1>1
<1> QED
  BY <1>2, Invariance, PTL DEF StoreSpec, TerminalFinal

\* Nothing resumes a blocked job or one that needs a follow-up.
THEOREM ParkedIsNotResumed == StoreSpec => ParkedStaysParked
<1> DEFINE Stays(j) ==
      row[j].status \in Parked => row'[j].status \in {row[j].status, "canceled", "error"}
<1>1. ASSUME Inv, [StoreNext]_storeVars, NEW j \in Job
      PROVE  Stays(j)
  <2>1. Quiet(j) => Stays(j)
    BY DEF Quiet
  <2>2. Moved(j) => Stays(j)
    BY DEF Moved, Submitted, Progressed, Completed, Refused, Parked
  <2> QED
    BY <1>1, <2>1, <2>2, Moves DEF Alone
<1>2. Inv /\ [StoreNext]_storeVars => [\A j \in Job : Stays(j)]_storeVars
  BY <1>1
<1> QED
  BY <1>2, Invariance, PTL DEF StoreSpec, ParkedStaysParked

-----------------------------------------------------------------------------
\* A quiet job looks the same to a client.
LEMMA QuietIsUnseen ==
  ASSUME NEW j \in Job, Quiet(j)
  PROVE  Verdict(j)' = Verdict(j) /\ VisibleAnswer(j)' = VisibleAnswer(j)
BY DEF Quiet, Verdict, VisibleAnswer

\* What a client sees of the job that moves.
LEMMA MovedIsSeen ==
  ASSUME NEW j \in Job, Moved(j)
  PROVE  \/ /\ Verdict(j) = "absent" /\ Verdict(j)' = "open"
            /\ VisibleAnswer(j)' = VisibleAnswer(j)
         \/ /\ Verdict(j) = Verdict(j)'
            /\ VisibleAnswer(j)' = VisibleAnswer(j)
         \/ /\ Verdict(j) = "open" /\ Verdict(j)' = "completed"
            /\ VisibleAnswer(j)' \in Token
         \/ /\ Verdict(j) = "open" /\ Verdict(j)' \in {"error", "canceled"}
            /\ VisibleAnswer(j)' = VisibleAnswer(j)
<1>1. CASE Submitted(j)
  BY <1>1 DEF Submitted, Verdict, VisibleAnswer, Terminal
<1>2. CASE Progressed(j)
  BY <1>2 DEF Progressed, Open, Verdict, VisibleAnswer, Terminal
<1>3. CASE Completed(j)
  BY <1>3 DEF Completed, Verdict, VisibleAnswer, Terminal
<1>4. CASE Refused(j)
  BY <1>4 DEF Refused, Open, Verdict, VisibleAnswer, Terminal
<1> QED
  BY <1>1, <1>2, <1>3, <1>4 DEF Moved

\* The store implements JobVerdict.
THEOREM Refinement == StoreSpec => VerdictSpec
<1> DEFINE verdict == [j \in Job |-> Verdict(j)]
           answer == [j \in Job |-> VisibleAnswer(j)]
<1>1. StoreInit => Abstract!Init
  BY DEF StoreInit, Abstract!Init, Verdict, VisibleAnswer, NoRow, Terminal
<1>2. ASSUME Inv, [StoreNext]_storeVars
      PROVE  [Abstract!Next]_(Abstract!vars)
  <2>1. CASE \A i \in Job : Quiet(i)
    <3>1. verdict' = verdict /\ answer' = answer
      BY <2>1, QuietIsUnseen
    <3> QED
      BY <3>1 DEF Abstract!vars
  <2>2. ASSUME NEW j \in Job, Alone(j)
        PROVE  [Abstract!Next]_(Abstract!vars)
    <3>1. \A i \in Job \ {j} : Verdict(i)' = Verdict(i) /\ VisibleAnswer(i)' = VisibleAnswer(i)
      BY <2>2, QuietIsUnseen DEF Alone
    <3>2. /\ verdict' = [verdict EXCEPT ![j] = Verdict(j)']
          /\ answer' = [answer EXCEPT ![j] = VisibleAnswer(j)']
      BY <3>1
    <3>3. verdict[j] = Verdict(j) /\ answer[j] = VisibleAnswer(j)
      OBVIOUS
    <3>4. VisibleAnswer(j)' = VisibleAnswer(j) => answer' = answer
      BY <3>2, <3>3
    <3>5. Verdict(j)' = Verdict(j) => verdict' = verdict
      BY <3>2, <3>3
    <3> HIDE DEF verdict, answer
    <3>6. Moved(j)
      BY <2>2 DEF Alone
    <3>7. Abstract!Submit(j) \/ Abstract!Complete(j) \/ Abstract!Refuse(j) \/ UNCHANGED Abstract!vars
      BY <3>2, <3>3, <3>4, <3>5, <3>6, MovedIsSeen
      DEF Abstract!Submit, Abstract!Complete, Abstract!Refuse, Abstract!Final,
          Abstract!vars, verdict, answer
    <3> QED
      BY <3>7 DEF Abstract!Next
  <2> QED
    BY <1>2, <2>1, <2>2, Moves
<1>3. Inv /\ [StoreNext]_storeVars => [Abstract!Next]_(Abstract!vars)
  BY <1>2
<1> QED
  BY <1>1, <1>3, Invariance, PTL DEF StoreSpec, VerdictSpec, Abstract!Spec
=============================================================================

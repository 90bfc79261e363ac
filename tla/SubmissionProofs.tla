-------------------------- MODULE SubmissionProofs --------------------------
(***************************************************************************)
(* What Submission guarantees for every set of jobs, keys, clients and     *)
(* prompts, and for every limit.                                           *)
(*                                                                         *)
(* Every step of it is a step of the job store (SubmissionIsStore), so the *)
(* store's theorems hold here too.  What is added rests on two facts about *)
(* the life of jobs: only a submission makes a row (LifeKeepsRows), and a  *)
(* job that failed or was canceled stays so (FailedStays).                 *)
(***************************************************************************)
EXTENDS Submission, JobVerdictProofs

Failed(j) == row[j].status \in {"error", "canceled"}

\* The columns a submission writes belong to the rows there are.
AskedRows == \A j \in Job : asked[j] = NoAsk <=> row[j].status = "absent"

SubInv == /\ Inv
          /\ SubmissionTypeOK
          /\ AskedRows
          /\ OneJobPerKey
          /\ NoDuplicateAsk

-----------------------------------------------------------------------------
(* Steps of the store.                                                     *)

LEMMA SubmitCreates ==
  ASSUME NEW k \in IdemKey, NEW j \in Job, NEW a \in Ask, Submit(k, j, a)
  PROVE  StoreNext
<1>1. a.request \in Request
  BY DEF Ask
<1>2. CreateJob(j, a.request)
  BY DEF Submit
<1> QED
  BY <1>1, <1>2 DEF StoreNext, JobStep

LEMMA LifeIsStore == LifeStep => StoreNext
BY DEF LifeStep, StoreNext, JobStep

LEMMA StepIsStore == [SubmissionNext]_submissionVars => [StoreNext]_storeVars
<1>1. (\E k \in IdemKey, j \in Job, a \in Ask : Submit(k, j, a)) => StoreNext
  BY SubmitCreates
<1>2. (\E j \in Job : WindowElapses(j)) => UNCHANGED storeVars
  BY DEF WindowElapses
<1>3. UNCHANGED submissionVars => UNCHANGED storeVars
  BY DEF submissionVars, storeVars
<1> QED
  BY <1>1, <1>2, <1>3, LifeIsStore DEF SubmissionNext

\* Submissions through the route and from inside, refused ones included, are
\* no more than creations of the job store (routes_jobs.py, ask_guard.py):
\* what is proved of the store is true of the jobs they make.
THEOREM SubmissionIsStore == SubmissionSpec => StoreSpec
<1>1. SubmissionInit => StoreInit
  BY DEF SubmissionInit
<1> QED
  BY <1>1, StepIsStore, PTL DEF SubmissionSpec, StoreSpec

-----------------------------------------------------------------------------
(* The life of jobs.                                                       *)

\* A row that is not there stays away unless it is submitted, and none goes.
LEMMA LifeKeepsRows ==
  ASSUME Inv, LifeStep, NEW i \in Job
  PROVE  row'[i].status = "absent" <=> row[i].status = "absent"
<1>1. (\A m \in Job : Quiet(m)) \/ \E j \in Job : Alone(j)
  BY LifeIsStore, Moves
<1>2. row[i].status = "absent" => row'[i].status = "absent"
  <2> SUFFICES ASSUME row[i].status = "absent" PROVE row'[i].status = "absent"
    OBVIOUS
  <2>0. row \in [Job -> RowType]
    BY DEF Inv, StoreTypeOK
  <2>1. ASSUME NEW j \in Job, row[j].status # "absent", Alone(j)
        PROVE  row'[i].status = "absent"
    BY <2>1 DEF Alone, Quiet
  <2>2. ASSUME NEW j \in Job, NEW t \in Token, ClaimNextJob(j, t) \/ LeasedOp(j, t)
        PROVE  row'[i].status = "absent"
    <3>1. CASE ClaimNextJob(j, t)
      <4>1. row[j].status # "absent"
        BY <3>1 DEF ClaimNextJob, Claimable, Available
      <4> QED
        BY <2>1, <3>1, <4>1, OtherMoves
    <3>2. CASE LeasedOp(j, t)
      <4>1. row[j].status = "in_progress"
        BY <3>2 DEF LeasedOp, SetConversationUrl, StoreAnswerResult, StoreErrorResult,
             RetryWithinBudget, RetryExtended, RetryExhausted, ReleaseForWait,
             StoreCanceledResult, TornAnswer, TornResult, Finish, Fenced
      <4> QED
        BY <2>1, <3>2, <4>1, LeasedMoves
    <3> QED
      BY <2>2, <3>1, <3>2
  <2>3. ASSUME NEW j \in Job, JobLife(j)
        PROVE  row'[i].status = "absent"
    <3>1. CASE ExpireLease(j)
      BY <2>1, <3>1, OtherMoves DEF ExpireLease
    <3>2. CASE RequestCancel(j)
      <4>1. row[j].status # "absent"
        BY <3>2 DEF RequestCancel, CancelQueued, CancelWaiting, CancelParked, FlagCancel,
             Retryable, Parked
      <4> QED
        BY <2>1, <3>2, <4>1, CancelMoves
    <3>3. CASE BacklogJanitor(j) \/ HealthProbe(j)
      <4>1. row[j].status # "absent"
        BY <3>3 DEF BacklogJanitor, HealthProbe, Retryable, Parked
      <4> QED
        BY <2>1, <3>3, <4>1, MaintenanceMoves
    <3>4. CASE TornCancel(j)
      BY <3>4 DEF TornCancel
    <3>5. CASE NotBeforeElapses(j)
      BY <2>0, <3>5 DEF NotBeforeElapses, Update, RowType
    <3> QED
      BY <2>3, <3>1, <3>2, <3>3, <3>4, <3>5 DEF JobLife
  <2>4. CASE OperatorStep
    <3>1. CASE ClearPause
      BY <2>0, <3>1 DEF ClearPause, RowType
    <3> QED
      BY <2>4, <3>1 DEF OperatorStep, SetPause, PauseElapses, SetHold, HoldEnds
  <2> QED
    BY <2>2, <2>3, <2>4 DEF LifeStep
<1>3. row[i].status # "absent" => row'[i].status # "absent"
  <2>1. Moved(i) => row'[i].status # "absent"
    BY DEF Moved, Submitted, Progressed, Completed, Refused, Open
  <2> QED
    BY <1>1, <2>1 DEF Alone, Quiet
<1> QED
  BY <1>2, <1>3

\* Nothing comes back from error or canceled.
LEMMA FailedStays ==
  ASSUME Inv, [StoreNext]_storeVars, NEW j \in Job, Failed(j)
  PROVE  Failed(j)'
<1>1. ~Moved(j)
  BY DEF Failed, Moved, Submitted, Progressed, Completed, Refused, Open, Terminal
<1>2. Quiet(j)
  BY <1>1, Moves DEF Alone
<1> QED
  BY <1>2 DEF Quiet, Failed

-----------------------------------------------------------------------------
(* The invariant, action by action.                                        *)

LEMMA SubInit == SubmissionInit => SubInv
<1> SUFFICES ASSUME SubmissionInit PROVE SubInv
  OBVIOUS
<1>1. Inv
  BY InvInit DEF SubmissionInit
<1>2. SubmissionTypeOK
  BY <1>1 DEF SubmissionInit, SubmissionTypeOK, Inv
<1>3. \A j \in Job : row[j].status = "absent"
  BY DEF SubmissionInit, StoreInit, NoRow
<1>4. AskedRows /\ OneJobPerKey /\ NoDuplicateAsk
  BY <1>3 DEF SubmissionInit, AskedRows, OneJobPerKey, NoDuplicateAsk
<1> QED
  BY <1>1, <1>2, <1>4 DEF SubInv

LEMMA SubmitKeeps ==
  ASSUME SubInv, NEW k \in IdemKey, NEW j \in Job, NEW a \in Ask, Submit(k, j, a)
  PROVE  SubInv'
<1>1. Inv'
  BY SubmitCreates, InvInductive DEF SubInv
<1>2. row \in [Job -> RowType]
  BY DEF SubInv, Inv, StoreTypeOK
<1>3. /\ row[j].status = "absent"
      /\ row'[j].status = "queued"
      /\ \A i \in Job \ {j} : row'[i] = row[i]
  BY <1>2 DEF Submit, CreateJob, Update, NoRow
<1>4. /\ idem' = [idem EXCEPT ![k] = [job |-> j, ask |-> a]]
      /\ asked' = [asked EXCEPT ![j] = a]
      /\ recent' = [recent EXCEPT ![j] = a.client # Internal]
      /\ idem[k] = NoRecord
      /\ a.kind = Kind[j]
      /\ Accepts(k, a)
  BY DEF Submit, Stamp
<1>5. [job |-> j, ask |-> a] \in RecordType \ {NoRecord} /\ a # NoAsk
  BY SubmissionAssumption DEF RecordType
<1>6. /\ idem \in [IdemKey -> RecordType \cup {NoRecord}]
      /\ asked \in [Job -> Ask \cup {NoAsk}]
      /\ recent \in [Job -> BOOLEAN]
  BY DEF SubInv, SubmissionTypeOK
<1>7. SubmissionTypeOK'
  <2>1. StoreTypeOK'
    BY <1>1 DEF Inv
  <2>2. idem' \in [IdemKey -> RecordType \cup {NoRecord}]
    BY <1>4, <1>5, <1>6
  <2>3. asked' \in [Job -> Ask \cup {NoAsk}]
    BY <1>4, <1>6
  <2>4. recent' \in [Job -> BOOLEAN]
    BY <1>4, <1>6
  <2> QED
    BY <2>1, <2>2, <2>3, <2>4 DEF SubmissionTypeOK
<1>8. /\ asked'[j] = a
      /\ \A i \in Job \ {j} : asked'[i] = asked[i] /\ recent'[i] = recent[i]
      /\ recent'[j] = (a.client # Internal)
  BY <1>4, <1>6
<1>9. /\ idem'[k] = [job |-> j, ask |-> a]
      /\ \A m \in IdemKey \ {k} : idem'[m] = idem[m]
  BY <1>4, <1>6
<1>10. AskedRows'
  BY <1>3, <1>5, <1>8 DEF SubInv, AskedRows
<1>11. \A m \in IdemKey : idem[m] # NoRecord =>
         /\ idem[m].job \in Job \ {j}
         /\ row[idem[m].job].status # "absent"
         /\ asked[idem[m].job] = idem[m].ask
         /\ \A i \in IdemKey \ {m} : idem[i] # NoRecord => idem[i].job # idem[m].job
  BY <1>3, <1>6 DEF SubInv, OneJobPerKey, RecordType
<1>12. OneJobPerKey'
  <2>1. ASSUME NEW m \in IdemKey, idem'[m] # NoRecord
        PROVE  /\ row'[idem'[m].job].status # "absent"
               /\ asked'[idem'[m].job] = idem'[m].ask
               /\ \A i \in IdemKey \ {m} : idem'[i] # NoRecord => idem'[i].job # idem'[m].job
    <3>1. CASE m = k
      BY <1>3, <1>8, <1>9, <1>11, <3>1
    <3>2. CASE m # k
      <4>1. idem'[m] = idem[m] /\ idem[m] # NoRecord
        BY <1>9, <2>1, <3>2
      <4>2. idem[m].job \in Job \ {j}
        BY <1>11, <4>1
      <4>3. /\ row'[idem[m].job].status # "absent"
            /\ asked'[idem[m].job] = idem[m].ask
        BY <1>3, <1>8, <1>11, <4>1, <4>2
      <4>4. ASSUME NEW i \in IdemKey \ {m}, idem'[i] # NoRecord
            PROVE  idem'[i].job # idem[m].job
        BY <1>9, <1>11, <4>1, <4>2, <4>4
      <4> QED
        BY <4>1, <4>3, <4>4
    <3> QED
      BY <3>1, <3>2
  <2>2. ASSUME NEW i \in Job, row'[i].status # "absent"
        PROVE  \E m \in IdemKey : idem'[m] # NoRecord /\ idem'[m].job = i
    <3>1. CASE i = j
      BY <1>5, <1>9, <3>1
    <3>2. CASE i # j
      <4>1. PICK m \in IdemKey : idem[m] # NoRecord /\ idem[m].job = i
        BY <1>3, <2>2, <3>2 DEF SubInv, OneJobPerKey
      <4> QED
        BY <1>4, <1>9, <4>1
    <3> QED
      BY <3>1, <3>2
  <2> QED
    BY <2>1, <2>2 DEF OneJobPerKey
<1>13. ASSUME NEW i \in Job \ {j}, Kind[i] = Kind[j], Kind[j] \in AskKind,
              asked[i] # NoAsk, asked[i].client = a.client, a.client # Internal,
              asked[i].prompt = a.prompt, recent[i]
       PROVE  row'[i].status \in {"error", "canceled"}
  <2>1. ~Duplicate(a)
    BY <1>4, <1>13 DEF Accepts
  <2>2. i \in AsksOf(a.client)
    BY <1>13 DEF AsksOf
  <2> QED
    BY <1>3, <1>4, <1>13, <2>1, <2>2 DEF Duplicate
<1>14. NoDuplicateAsk'
  <2> SUFFICES ASSUME NEW i \in Job, NEW m \in Job, i # m,
                      Kind[i] = Kind[m], Kind[m] \in AskKind,
                      asked'[i] # NoAsk, asked'[m] # NoAsk,
                      asked'[i].client = asked'[m].client, asked'[m].client # Internal,
                      asked'[i].prompt = asked'[m].prompt,
                      recent'[i], recent'[m]
               PROVE  \/ row'[i].status \in {"error", "canceled"}
                      \/ row'[m].status \in {"error", "canceled"}
    BY DEF NoDuplicateAsk
  <2>1. CASE i = j
    BY <1>8, <1>13, <2>1
  <2>2. CASE m = j
    BY <1>8, <1>13, <2>2
  <2>3. CASE i # j /\ m # j
    BY <1>3, <1>8, <2>3 DEF SubInv, NoDuplicateAsk
  <2> QED
    BY <2>1, <2>2, <2>3
<1> QED
  BY <1>1, <1>7, <1>10, <1>12, <1>14 DEF SubInv

LEMMA LifeKeeps ==
  ASSUME SubInv, LifeStep
  PROVE  SubInv'
<1>1. Inv /\ Inv'
  BY LifeIsStore, InvInductive DEF SubInv
<1>2. UNCHANGED <<idem, asked, recent>>
  BY DEF LifeStep
<1>3. \A i \in Job : row'[i].status = "absent" <=> row[i].status = "absent"
  BY <1>1, LifeKeepsRows
<1>4. SubmissionTypeOK'
  BY <1>1, <1>2 DEF SubInv, SubmissionTypeOK, Inv
<1>5. AskedRows'
  BY <1>2, <1>3 DEF SubInv, AskedRows
<1>6. \A m \in IdemKey : idem[m] # NoRecord => idem[m].job \in Job
  BY DEF SubInv, SubmissionTypeOK, RecordType
<1>7. OneJobPerKey'
  BY <1>2, <1>3, <1>6 DEF SubInv, OneJobPerKey
<1>8. \A i \in Job : row[i].status \in {"error", "canceled"} => row'[i].status \in {"error", "canceled"}
  BY <1>1, LifeIsStore, FailedStays DEF Failed
<1>9. NoDuplicateAsk'
  BY <1>2, <1>8 DEF SubInv, NoDuplicateAsk
<1> QED
  BY <1>1, <1>4, <1>5, <1>7, <1>9 DEF SubInv

LEMMA WindowKeeps ==
  ASSUME SubInv, NEW j \in Job, WindowElapses(j)
  PROVE  SubInv'
<1>1. UNCHANGED <<row, files, pause, hold, idem, asked>>
  BY DEF WindowElapses, storeVars
<1>2. recent' \in [Job -> BOOLEAN] /\ \A i \in Job : recent'[i] => recent[i]
  BY DEF WindowElapses, SubInv, SubmissionTypeOK
<1>3. Inv'
  BY <1>1, InvInductive DEF SubInv, storeVars
<1>4. SubmissionTypeOK'
  BY <1>1, <1>2, <1>3 DEF SubInv, SubmissionTypeOK, Inv
<1>5. AskedRows' /\ OneJobPerKey'
  BY <1>1 DEF SubInv, AskedRows, OneJobPerKey
<1>6. NoDuplicateAsk'
  BY <1>1, <1>2 DEF SubInv, NoDuplicateAsk
<1> QED
  BY <1>3, <1>4, <1>5, <1>6 DEF SubInv

LEMMA SubNext == SubInv /\ [SubmissionNext]_submissionVars => SubInv'
<1> SUFFICES ASSUME SubInv, [SubmissionNext]_submissionVars PROVE SubInv'
  OBVIOUS
<1>1. CASE UNCHANGED submissionVars
  <2>1. UNCHANGED storeVars /\ UNCHANGED <<row, files, pause, hold, idem, asked, recent>>
    BY <1>1 DEF submissionVars, storeVars
  <2>2. Inv'
    BY <2>1, InvInductive DEF SubInv
  <2> QED
    BY <2>1, <2>2 DEF SubInv, SubmissionTypeOK, Inv, AskedRows, OneJobPerKey, NoDuplicateAsk
<1> QED
  BY <1>1, SubmitKeeps, LifeKeeps, WindowKeeps DEF SubmissionNext

LEMMA SubInvHolds == SubmissionSpec => []SubInv
<1> QED
  BY SubInit, SubNext, PTL DEF SubmissionSpec

-----------------------------------------------------------------------------
(* Theorems.                                                               *)

\* The tables keep their types (job_store.py, idempotency.py).
THEOREM SubmissionTypeTheorem == SubmissionSpec => []SubmissionTypeOK
<1>1. SubInv => SubmissionTypeOK
  BY DEF SubInv
<1> QED
  BY <1>1, SubInvHolds, PTL

\* However many requests come, with known and unknown keys, keys and jobs
\* are one to one (begin, create_job).
THEOREM OneJobPerKeyTheorem == SubmissionSpec => []OneJobPerKey
<1>1. SubInv => OneJobPerKey
  BY DEF SubInv
<1> QED
  BY <1>1, SubInvHolds, PTL

\* The window of a registered client holds no second ask of one prompt
\* (enforce_low_level_ask_runtime_controls).
THEOREM NoDuplicateAskTheorem == SubmissionSpec => []NoDuplicateAsk
<1>1. SubInv => NoDuplicateAsk
  BY DEF SubInv
<1> QED
  BY <1>1, SubInvHolds, PTL

\* A key is bound once (idempotency.begin).
THEOREM KeyBoundTheorem == SubmissionSpec => KeyBound
<1>1. SubInv /\ [SubmissionNext]_submissionVars =>
        [\A k \in IdemKey : idem[k] # NoRecord => idem'[k] = idem[k]]_submissionVars
  <2> SUFFICES ASSUME SubInv, SubmissionNext, NEW k \in IdemKey, idem[k] # NoRecord
               PROVE  idem'[k] = idem[k]
    OBVIOUS
  <2>1. ASSUME NEW m \in IdemKey, NEW j \in Job, NEW a \in Ask, Submit(m, j, a)
        PROVE  idem'[k] = idem[k]
    BY <2>1 DEF Submit, Stamp, SubInv, SubmissionTypeOK
  <2> QED
    BY <2>1 DEF SubmissionNext, WindowElapses, LifeStep
<1> QED
  BY <1>1, SubInvHolds, PTL DEF SubmissionSpec, KeyBound

-----------------------------------------------------------------------------
(* The promise to the sender of a key.                                     *)

\* A key whose record and job the step leaves alone looks the same.
LEMMA KeyUnseen ==
  ASSUME NEW k \in IdemKey, idem'[k] = idem[k],
         idem[k] # NoRecord => idem[k].job \in Job /\ Quiet(idem[k].job)
  PROVE  KeyVerdict(k)' = KeyVerdict(k) /\ KeyAnswer(k)' = KeyAnswer(k)
<1>1. CASE idem[k] = NoRecord
  BY <1>1 DEF KeyVerdict, KeyAnswer
<1>2. CASE idem[k] # NoRecord
  BY <1>2, QuietIsUnseen DEF KeyVerdict, KeyAnswer, Verdict, VisibleAnswer, Quiet
<1> QED
  BY <1>1, <1>2

\* What the sender of the one key that a step touches may learn by it.
KeyMoves(k) ==
  \/ /\ KeyVerdict(k) = "absent" /\ KeyVerdict(k)' = "open"
     /\ KeyAnswer(k)' = KeyAnswer(k)
  \/ /\ KeyVerdict(k)' = KeyVerdict(k)
     /\ KeyAnswer(k)' = KeyAnswer(k)
  \/ /\ KeyVerdict(k) = "open" /\ KeyVerdict(k)' = "completed"
     /\ KeyAnswer(k)' \in Token
  \/ /\ KeyVerdict(k) = "open" /\ KeyVerdict(k)' \in {"error", "canceled"}
     /\ KeyAnswer(k)' = KeyAnswer(k)

KeyRests(k) == KeyVerdict(k)' = KeyVerdict(k) /\ KeyAnswer(k)' = KeyAnswer(k)

\* A submission shows one key its new job.
LEMMA SubmitMovesKey ==
  ASSUME SubInv, NEW k \in IdemKey, NEW j \in Job, NEW a \in Ask, Submit(k, j, a)
  PROVE  KeyMoves(k) /\ \A m \in IdemKey \ {k} : KeyRests(m)
<1>1. idem[k] = NoRecord /\ row[j].status = "absent"
  BY DEF Submit, CreateJob
<1>2. idem' = [idem EXCEPT ![k] = [job |-> j, ask |-> a]]
  BY DEF Submit, Stamp
<1>3. /\ idem \in [IdemKey -> RecordType \cup {NoRecord}]
      /\ row \in [Job -> RowType]
  BY DEF SubInv, SubmissionTypeOK, StoreTypeOK
<1>4. [job |-> j, ask |-> a] # NoRecord
  BY SubmissionAssumption DEF RecordType
<1>5. row'[j].status = "queued"
  BY <1>3 DEF Submit, CreateJob, Update, NoRow
<1>6. \A i \in Job \ {j} : Quiet(i)
  BY OtherMoves DEF Submit, SubInv, Alone, Ask
<1>7. idem'[k] = [job |-> j, ask |-> a]
  BY <1>2, <1>3
<1>8. KeyMoves(k)
  BY <1>1, <1>4, <1>5, <1>7 DEF KeyMoves, KeyVerdict, KeyAnswer, Verdict, VisibleAnswer, Terminal
<1>9. ASSUME NEW m \in IdemKey \ {k}
      PROVE  KeyRests(m)
  <2>1. idem'[m] = idem[m]
    BY <1>2, <1>3
  <2>2. idem[m] # NoRecord => idem[m].job \in Job \ {j}
    BY <1>1, <1>3 DEF SubInv, OneJobPerKey, RecordType
  <2> QED
    BY <1>6, <2>1, <2>2, KeyUnseen DEF KeyRests
<1> QED
  BY <1>8, <1>9

\* A step in the life of a job shows something to the one key that leads to
\* it, and to no other.
LEMMA LifeMovesKey ==
  ASSUME SubInv, LifeStep
  PROVE  \/ \A m \in IdemKey : KeyRests(m)
         \/ \E k \in IdemKey : KeyMoves(k) /\ \A m \in IdemKey \ {k} : KeyRests(m)
<1>1. Inv /\ UNCHANGED idem
  BY DEF LifeStep, SubInv
<1>2. \A m \in IdemKey : idem[m] # NoRecord => idem[m].job \in Job
  BY DEF SubInv, SubmissionTypeOK, RecordType
<1>3. CASE \A i \in Job : Quiet(i)
  <2>1. \A m \in IdemKey : KeyRests(m)
    BY <1>1, <1>2, <1>3, KeyUnseen DEF KeyRests
  <2> QED
    BY <2>1
<1>4. ASSUME NEW j \in Job, Alone(j)
      PROVE  \E k \in IdemKey : KeyMoves(k) /\ \A m \in IdemKey \ {k} : KeyRests(m)
  <2>1. Moved(j) /\ \A i \in Job \ {j} : Quiet(i)
    BY <1>4 DEF Alone
  <2>2. row'[j].status = "absent" <=> row[j].status = "absent"
    BY <1>1, LifeKeepsRows
  <2>3. row[j].status # "absent"
    BY <2>1, <2>2 DEF Moved, Submitted, Progressed, Completed, Refused, Open
  <2>4. PICK k \in IdemKey : idem[k] # NoRecord /\ idem[k].job = j
    BY <2>3 DEF SubInv, OneJobPerKey
  <2>5. idem'[k] = idem[k]
    BY <1>1
  <2>6. /\ KeyVerdict(k) = Verdict(j) /\ KeyVerdict(k)' = Verdict(j)'
        /\ KeyAnswer(k) = VisibleAnswer(j) /\ KeyAnswer(k)' = VisibleAnswer(j)'
    BY <2>4, <2>5 DEF KeyVerdict, KeyAnswer, Verdict, VisibleAnswer
  <2>7. KeyMoves(k)
    BY <2>1, <2>6, MovedIsSeen DEF KeyMoves
  <2>8. ASSUME NEW m \in IdemKey \ {k}
        PROVE  KeyRests(m)
    <3>1. idem[m] # NoRecord => idem[m].job \in Job \ {j}
      BY <1>2, <2>4 DEF SubInv, OneJobPerKey
    <3> QED
      BY <1>1, <2>1, <3>1, KeyUnseen DEF KeyRests
  <2> QED
    BY <2>7, <2>8
<1> QED
  BY <1>1, <1>3, <1>4, LifeIsStore, Moves

\* A move of one key is a step of the promise.
LEMMA KeyStep ==
  ASSUME NEW k \in IdemKey, KeyMoves(k), \A m \in IdemKey \ {k} : KeyRests(m)
  PROVE  [ByKey!Next]_(ByKey!vars)
<1> DEFINE verdict == [m \in IdemKey |-> KeyVerdict(m)]
           answer == [m \in IdemKey |-> KeyAnswer(m)]
<1>1. /\ verdict' = [verdict EXCEPT ![k] = KeyVerdict(k)']
      /\ answer' = [answer EXCEPT ![k] = KeyAnswer(k)']
  BY DEF KeyRests
<1>2. verdict[k] = KeyVerdict(k) /\ answer[k] = KeyAnswer(k)
  OBVIOUS
<1>3. KeyAnswer(k)' = KeyAnswer(k) => answer' = answer
  BY <1>1, <1>2
<1>4. KeyVerdict(k)' = KeyVerdict(k) => verdict' = verdict
  BY <1>1, <1>2
<1> HIDE DEF verdict, answer
<1>5. ByKey!Submit(k) \/ ByKey!Complete(k) \/ ByKey!Refuse(k) \/ UNCHANGED ByKey!vars
  BY <1>1, <1>2, <1>3, <1>4
  DEF KeyMoves, ByKey!Submit, ByKey!Complete, ByKey!Refuse, ByKey!Final, ByKey!vars,
      verdict, answer
<1> QED
  BY <1>5 DEF ByKey!Next

\* Submissions keep the promise of JobVerdict for every key: what a client
\* learns by a key it sent, once or many times, is one outcome that stays
\* (begin, create_job, and everything that happens to jobs afterwards).
THEOREM KeyRefinement == SubmissionSpec => KeyVerdictSpec
<1>1. SubmissionInit => ByKey!Init
  BY DEF SubmissionInit, ByKey!Init, KeyVerdict, KeyAnswer
<1>2. ASSUME SubInv, [SubmissionNext]_submissionVars
      PROVE  [ByKey!Next]_(ByKey!vars)
  <2>1. CASE \A m \in IdemKey : KeyRests(m)
    BY <2>1 DEF KeyRests, ByKey!vars
  <2>2. ASSUME NEW k \in IdemKey, NEW j \in Job, NEW a \in Ask, Submit(k, j, a)
        PROVE  [ByKey!Next]_(ByKey!vars)
    BY <1>2, <2>2, SubmitMovesKey, KeyStep
  <2>3. CASE LifeStep
    BY <1>2, <2>1, <2>3, LifeMovesKey, KeyStep
  <2>4. CASE UNCHANGED <<row, files, idem>>
    <3>1. \A m \in IdemKey : KeyRests(m)
      BY <2>4 DEF KeyRests, KeyVerdict, KeyAnswer, Verdict, VisibleAnswer
    <3> QED
      BY <2>1, <3>1
  <2>5. (\E j \in Job : WindowElapses(j)) \/ UNCHANGED submissionVars => UNCHANGED <<row, files, idem>>
    BY DEF WindowElapses, submissionVars, storeVars
  <2> QED
    BY <1>2, <2>2, <2>3, <2>4, <2>5 DEF SubmissionNext
<1>3. SubInv /\ [SubmissionNext]_submissionVars => [ByKey!Next]_(ByKey!vars)
  BY <1>2
<1> QED
  BY <1>1, <1>3, SubInvHolds, PTL DEF SubmissionSpec, KeyVerdictSpec, ByKey!Spec

\* Every submitted job keeps what the store guarantees: verdicts match the
\* files, sends are within the budget, and leases are given under the pause
\* and the hold and taken over only when they expired (job_store.py).
THEOREM SubmittedJobsAreKept ==
  SubmissionSpec => /\ [](VerdictPublished /\ AttemptBudget /\ RetryClaimable /\ LeaseShape)
                    /\ LeaseExclusive /\ PauseRespected
                    /\ TerminalFinal /\ ParkedStaysParked
BY SubmissionIsStore, VerdictIsPublished, SendsAreBounded, RetriesAreClaimable, LeasesAreShaped,
   LeasesAreExclusive, PausesAreRespected, VerdictsAreFinal, ParkedIsNotResumed, PTL
=============================================================================

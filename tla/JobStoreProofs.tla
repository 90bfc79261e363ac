--------------------------- MODULE JobStoreProofs ---------------------------
(***************************************************************************)
(* What JobStore guarantees for every value of its constants.              *)
(*                                                                         *)
(* Each operation rewrites at most one row and that row's files, so the    *)
(* inductive invariant is a predicate of one row and its files, plus the   *)
(* one relation between rows: no token is on two of them.  Lemma OneRow    *)
(* says that an operation preserves it all when the new row and files      *)
(* satisfy the predicate and the new token, if there is one, is fresh; the *)
(* lemmas after it check that operation by operation.                      *)
(***************************************************************************)
EXTENDS JobStore, TLAPS

\* What holds of a row and its files between two operations.
RowInv(r, f) ==
  /\ r.status = "completed" => /\ r.answer \in Token
                               /\ r.answer = r.token
                               /\ f = [answer |-> r.answer, result |-> "completed"]
  /\ r.status = "canceled" => f.result = "canceled"
  /\ r.status \in {"error"} \cup Retryable => f.result # "none"
  /\ r.attempts <= r.maxAttempts
  /\ r.maxAttempts <= MaxAttempts + r.extensions
  /\ r.extensions <= MaxExtensions
  /\ r.maxAttempts <= Larger(AttemptsCap, MaxAttempts)
  /\ (r.status \in {"queued", "cooldown"} /\ r.phase = "send") => r.attempts < r.maxAttempts
  /\ r.lease = "none" <=> r.token = NoToken
  /\ (r.status = "in_progress" /\ r.lease = "none") => r.phase = "wait"
  /\ r.status \in {"absent", "queued"} => r.lease = "none"

Unshared == \A i, j \in Job : (i # j /\ row[i].token = row[j].token) => row[j].token = NoToken

Inv == /\ StoreTypeOK
       /\ \A j \in Job : RowInv(row[j], files[j])
       /\ Unshared

\* The two forms of the pause filter are one: what is deferred at creation
\* is what the claim would refuse (pause.py, job_store._build_claim_where).
THEOREM PauseFormsAgree ==
  ASSUME NEW p \in PauseType, NEW k \in AskKind \cup OtherKind, NEW ph \in Phase
  PROVE  PauseFilterAllows(p, k, ph) <=> PauseClauseAllows(p, k, ph)
BY DEF PauseFilterAllows, PauseClauseAllows, PauseType

-----------------------------------------------------------------------------
LEMMA OneRow ==
  ASSUME Inv, NEW j \in Job, NEW r \in RowType, NEW f \in FilesType,
         row' = [row EXCEPT ![j] = r],
         files' = [files EXCEPT ![j] = f],
         UNCHANGED <<pause, hold>>,
         RowInv(r, f),
         r.token \in {row[j].token, NoToken} \/ Fresh(r.token)
  PROVE  Inv'
<1>1. StoreTypeOK'
  BY DEF Inv, StoreTypeOK
<1>2. \A i \in Job : RowInv(row'[i], files'[i])
  BY DEF Inv, StoreTypeOK
<1>3. Unshared'
  BY DEF Inv, StoreTypeOK, Unshared, Fresh
<1> QED
  BY <1>1, <1>2, <1>3 DEF Inv, RowInv

\* The same for an operation that leaves the files alone.
LEMMA OneRowOnly ==
  ASSUME Inv, NEW j \in Job, NEW r \in RowType,
         Update(j, r),
         UNCHANGED <<files, pause, hold>>,
         RowInv(r, files[j]),
         r.token \in {row[j].token, NoToken} \/ Fresh(r.token)
  PROVE  Inv'
<1>1. files[j] \in FilesType /\ files' = [files EXCEPT ![j] = files[j]]
  BY DEF Inv, StoreTypeOK
<1> QED
  BY <1>1, OneRow DEF Update

\* ... and for one that writes result.json.
LEMMA OneRowAndResult ==
  ASSUME Inv, NEW j \in Job, NEW r \in RowType, NEW s \in Retryable \cup Terminal,
         Update(j, r),
         WriteResult(j, s),
         UNCHANGED <<pause, hold>>,
         RowInv(r, [files[j] EXCEPT !.result = s]),
         r.token \in {row[j].token, NoToken}
  PROVE  Inv'
<1> DEFINE f == [files[j] EXCEPT !.result = s]
<1>1. f \in FilesType
  BY DEF Inv, StoreTypeOK, FilesType
<1>2. files' = [files EXCEPT ![j] = f]
  BY DEF WriteResult, Inv, StoreTypeOK
<1> QED
  BY <1>1, <1>2, OneRow DEF Update

LEMMA CreatePreserves ==
  ASSUME Inv, NEW j \in Job, NEW r \in Request, CreateJob(j, r)
  PROVE  Inv'
<1> DEFINE n == [NoRow EXCEPT
       !.status = "queued", !.maxAttempts = MaxAttempts,
       !.conversation = Inherited(r), !.parent = r.parent,
       !.due = PauseFilterAllows(pause, Kind[j], "send")]
<1>1. r \in RequestType
  BY StoreAssumption
<1>2. Inherited(r) \in Conversation \cup {NoConversation}
  BY <1>1 DEF Inherited, RequestType, Inv, StoreTypeOK, RowType
<1>3. PauseFilterAllows(pause, Kind[j], "send") \in BOOLEAN
  BY DEF PauseFilterAllows
<1>4. n \in RowType
  BY <1>1, <1>2, <1>3, StoreAssumption DEF NoRow, RowType, RequestType, Status, Phase
<1>5. RowInv(n, files[j])
  BY StoreAssumption DEF RowInv, NoRow, Larger, Retryable, Parked, Terminal
<1>6. n.token = NoToken
  BY DEF NoRow
<1>7. Update(j, n) /\ UNCHANGED <<files, pause, hold>>
  BY DEF CreateJob
<1> HIDE DEF n
<1> QED
  BY <1>4, <1>5, <1>6, <1>7, OneRowOnly

LEMMA ClaimPreserves ==
  ASSUME Inv, NEW j \in Job, NEW t \in Token, ClaimNextJob(j, t)
  PROVE  Inv'
<1> DEFINE a == IF row[j].phase = "wait" \/ row[j].status = "in_progress"
                THEN row[j].attempts ELSE row[j].attempts + 1
           r == [row[j] EXCEPT !.status = "in_progress", !.token = t,
                               !.lease = "live", !.attempts = a]
<1>1. row[j] \in RowType /\ RowInv(row[j], files[j])
  BY DEF Inv, StoreTypeOK
<1>2. a \in Nat /\ a <= row[j].maxAttempts
  BY <1>1 DEF ClaimNextJob, Claimable, HasAttempt, RowInv, RowType
<1>3. Update(j, r) /\ UNCHANGED <<files, pause, hold>> /\ Fresh(t)
  BY DEF ClaimNextJob
<1> HIDE DEF a
<1>4. r \in RowType
  BY <1>1, <1>2 DEF RowType, Status
<1>5. RowInv(r, files[j])
  BY <1>1, <1>2, StoreAssumption DEF RowInv, RowType, Retryable, Parked
<1>6. r.token = t
  BY <1>1 DEF RowType
<1> HIDE DEF r
<1> QED
  BY <1>3, <1>4, <1>5, <1>6, OneRowOnly

LEMMA ExpirePreserves ==
  ASSUME Inv, NEW j \in Job, ExpireLease(j)
  PROVE  Inv'
<1> DEFINE r == [row[j] EXCEPT !.lease = "expired"]
<1>1. row[j] \in RowType /\ RowInv(row[j], files[j])
  BY DEF Inv, StoreTypeOK
<1>2. Update(j, r) /\ UNCHANGED <<files, pause, hold>>
  BY DEF ExpireLease
<1>3. r \in RowType /\ r.token = row[j].token
  BY <1>1 DEF RowType
<1>4. RowInv(r, files[j])
  BY <1>1 DEF RowInv, RowType, ExpireLease
<1> HIDE DEF r
<1> QED
  BY <1>2, <1>3, <1>4, OneRowOnly

LEMMA SetConversationPreserves ==
  ASSUME Inv, NEW j \in Job, NEW t \in Token, NEW c \in Conversation,
         SetConversationUrl(j, t, c)
  PROVE  Inv'
<1> DEFINE r == [row[j] EXCEPT !.conversation = c]
<1>1. row[j] \in RowType /\ RowInv(row[j], files[j])
  BY DEF Inv, StoreTypeOK
<1>2. Update(j, r) /\ UNCHANGED <<files, pause, hold>>
  BY DEF SetConversationUrl
<1>3. r \in RowType /\ r.token = row[j].token
  BY <1>1 DEF RowType
<1>4. RowInv(r, files[j])
  BY <1>1 DEF RowInv, RowType
<1> HIDE DEF r
<1> QED
  BY <1>2, <1>3, <1>4, OneRowOnly

LEMMA AnswerPreserves ==
  ASSUME Inv, NEW j \in Job, NEW t \in Token, StoreAnswerResult(j, t)
  PROVE  Inv'
<1> DEFINE r == [[row[j] EXCEPT !.answer = t] EXCEPT !.status = "completed"]
           f == [answer |-> t, result |-> "completed"]
<1>1. row[j] \in RowType /\ RowInv(row[j], files[j])
  BY DEF Inv, StoreTypeOK
<1>2. row' = [row EXCEPT ![j] = r] /\ files' = [files EXCEPT ![j] = f]
  BY DEF StoreAnswerResult, Finish, Update
<1>3. UNCHANGED <<pause, hold>> /\ row[j].token = t /\ row[j].lease = "live"
  BY DEF StoreAnswerResult, Finish, Fenced
<1>4. r \in RowType /\ f \in FilesType /\ r.token = row[j].token
  BY <1>1 DEF RowType, FilesType, Status, Terminal
<1>5. RowInv(r, f)
  BY <1>1, <1>3 DEF RowInv, RowType, Retryable, Parked
<1> HIDE DEF r, f
<1> QED
  BY <1>2, <1>3, <1>4, <1>5, OneRow

\* The rows a job may end or park with when there is no answer: as it was,
\* or marked as canceled, with its lease or without.
Ended(q, s) == {[q EXCEPT !.status = s], CanceledRow(q),
                Unleased([q EXCEPT !.status = s]), Unleased(CanceledRow(q))}

LEMMA EndedType ==
  ASSUME NEW q \in RowType, NEW s \in {"error", "canceled", "needs_followup"},
         NEW r \in Ended(q, s)
  PROVE  /\ r \in RowType
         /\ r.token \in {q.token, NoToken}
         /\ r.attempts = q.attempts
         /\ r.maxAttempts = q.maxAttempts
         /\ r.extensions = q.extensions
         /\ (q.lease = "none" <=> q.token = NoToken) => (r.lease = "none" <=> r.token = NoToken)
<1>1. CASE r = [q EXCEPT !.status = s]
  BY <1>1 DEF RowType, Status, Terminal, Retryable, Parked
<1>2. CASE r = CanceledRow(q)
  BY <1>2 DEF RowType, CanceledRow, Status, Terminal
<1>3. CASE r = Unleased([q EXCEPT !.status = s])
  BY <1>3 DEF RowType, Unleased, Status, Terminal, Retryable, Parked
<1>4. CASE r = Unleased(CanceledRow(q))
  BY <1>4 DEF RowType, Unleased, CanceledRow, Status, Terminal
<1> QED
  BY <1>1, <1>2, <1>3, <1>4 DEF Ended

\* Such a row is in order when result.json tells the same outcome.
LEMMA EndedRow ==
  ASSUME Inv, NEW j \in Job, NEW s \in {"error", "canceled", "needs_followup"},
         NEW r \in Ended(row[j], s), r.status = s,
         NEW f \in FilesType,
         \/ f.result = s
         \/ s = "error" /\ f.result # "none"
  PROVE  RowInv(r, f)
<1>1. row[j] \in RowType /\ RowInv(row[j], files[j])
  BY DEF Inv, StoreTypeOK
<1>2. /\ r \in RowType
      /\ r.attempts = row[j].attempts
      /\ r.maxAttempts = row[j].maxAttempts
      /\ r.extensions = row[j].extensions
      /\ r.lease = "none" <=> r.token = NoToken
  BY <1>1, EndedType DEF RowInv
<1> QED
  BY <1>1, <1>2 DEF RowInv

\* Hence the operations that end a job this way and write result.json.
LEMMA EndPreserves ==
  ASSUME Inv, NEW j \in Job, NEW s \in {"error", "canceled", "needs_followup"},
         NEW r \in Ended(row[j], s), r.status = s,
         Update(j, r), WriteResult(j, s), UNCHANGED <<pause, hold>>
  PROVE  Inv'
<1> DEFINE f == [files[j] EXCEPT !.result = s]
<1>1. row[j] \in RowType
  BY DEF Inv, StoreTypeOK
<1>2. f \in FilesType /\ f.result = s
  BY DEF Inv, StoreTypeOK, FilesType, Terminal, Retryable, Parked
<1>3. r \in RowType /\ r.token \in {row[j].token, NoToken}
  BY <1>1, EndedType
<1>4. RowInv(r, f)
  BY <1>2, EndedRow
<1>5. s \in Retryable \cup Terminal
  BY DEF Terminal, Retryable, Parked
<1> QED
  BY <1>3, <1>4, <1>5, OneRowAndResult

LEMMA ErrorPreserves ==
  ASSUME Inv, NEW j \in Job, NEW t \in Token,
         NEW s \in {"error", "needs_followup"}, StoreErrorResult(j, t, s)
  PROVE  Inv'
<1>1. row[j] \in RowType
  BY DEF Inv, StoreTypeOK
<1>2. [row[j] EXCEPT !.status = s].status = s
  BY <1>1 DEF RowType
<1>3. Update(j, [row[j] EXCEPT !.status = s]) /\ WriteResult(j, s) /\ UNCHANGED <<pause, hold>>
  BY DEF StoreErrorResult, Finish
<1> QED
  BY <1>2, <1>3, EndPreserves DEF Ended

LEMMA CanceledPreserves ==
  ASSUME Inv, NEW j \in Job, NEW t, StoreCanceledResult(j, t)
  PROVE  Inv'
<1>1. row[j] \in RowType
  BY DEF Inv, StoreTypeOK
<1>2. CanceledRow(row[j]).status = "canceled"
  BY <1>1 DEF RowType, CanceledRow
<1>3. CanceledRow(row[j]) = [[row[j] EXCEPT !.cancelRequested = TRUE] EXCEPT !.status = "canceled"]
  BY <1>1 DEF RowType, CanceledRow
<1>4. Update(j, CanceledRow(row[j])) /\ WriteResult(j, "canceled") /\ UNCHANGED <<pause, hold>>
  BY <1>3 DEF StoreCanceledResult, Finish
<1> QED
  BY <1>2, <1>4, EndPreserves DEF Ended

LEMMA RetryPreserves ==
  ASSUME Inv, NEW j \in Job, NEW t \in Token, NEW s \in Retryable, NEW ph \in Phase,
         RetryWithinBudget(j, t, s, ph)
  PROVE  Inv'
<1> DEFINE r == [[row[j] EXCEPT !.phase = ph, !.due = FALSE] EXCEPT !.status = s]
           f == [files[j] EXCEPT !.result = s]
<1>1. row[j] \in RowType /\ RowInv(row[j], files[j])
  BY DEF Inv, StoreTypeOK
<1>2. Update(j, r) /\ WriteResult(j, s) /\ UNCHANGED <<pause, hold>>
  BY DEF RetryWithinBudget, Finish
<1>3. ph = "send" => row[j].attempts < row[j].maxAttempts
  BY <1>1 DEF RetryWithinBudget, BudgetSpent, RowType
<1>4. r \in RowType /\ r.token = row[j].token
  BY <1>1 DEF RowType, Status
<1>5. f.result = s
  BY DEF Inv, StoreTypeOK, FilesType
<1>6. RowInv(r, f)
  BY <1>1, <1>3, <1>5 DEF RowInv, RowType, Retryable, Parked
<1> HIDE DEF r
<1> QED
  BY <1>2, <1>4, <1>6, OneRowAndResult

\* One more attempt is exactly what an extension adds.
LEMMA ExtensionAddsOne ==
  ASSUME Inv, NEW j \in Job, NEW ph \in Phase, BudgetSpent(j, ph), Extendable(j)
  PROVE  /\ row[j].attempts = row[j].maxAttempts
         /\ Smaller(AttemptsCap, Larger(row[j].maxAttempts + 1, row[j].attempts + 1))
              = row[j].maxAttempts + 1
<1>1. row[j] \in RowType /\ RowInv(row[j], files[j])
  BY DEF Inv, StoreTypeOK
<1>2. row[j].attempts = row[j].maxAttempts
  BY <1>1 DEF BudgetSpent, RowInv, RowType
<1>3. row[j].maxAttempts + 1 <= AttemptsCap
  BY <1>1, StoreAssumption DEF Extendable, RowType
<1> QED
  BY <1>1, <1>2, <1>3, StoreAssumption DEF Smaller, Larger, RowType

LEMMA ExtensionPreserves ==
  ASSUME Inv, NEW j \in Job, NEW t \in Token, NEW s \in Retryable, NEW ph \in Phase,
         RetryExtended(j, t, s, ph)
  PROVE  Inv'
<1> DEFINE m == Smaller(AttemptsCap, Larger(row[j].maxAttempts + 1, row[j].attempts + 1))
           e == row[j].extensions + 1
           r == [[row[j] EXCEPT !.phase = ph, !.due = FALSE, !.extensions = e,
                                !.maxAttempts = m] EXCEPT !.status = s]
           f == [files[j] EXCEPT !.result = s]
<1>1. row[j] \in RowType /\ RowInv(row[j], files[j])
  BY DEF Inv, StoreTypeOK
<1>2. Update(j, r) /\ WriteResult(j, s) /\ UNCHANGED <<pause, hold>>
  BY DEF RetryExtended, Finish
<1>3. row[j].attempts = row[j].maxAttempts /\ m = row[j].maxAttempts + 1
  BY ExtensionAddsOne DEF RetryExtended
<1>4. row[j].extensions < MaxExtensions /\ row[j].maxAttempts < AttemptsCap
  BY DEF RetryExtended, Extendable
<1>5. m \in Nat /\ e \in Nat
  BY <1>1, <1>3 DEF RowType
<1>6. /\ row[j].attempts < m
      /\ m <= MaxAttempts + e
      /\ e <= MaxExtensions
      /\ m <= Larger(AttemptsCap, MaxAttempts)
  BY <1>1, <1>3, <1>4, StoreAssumption DEF RowInv, RowType, Larger
<1> HIDE DEF m, e
<1>7. r \in RowType /\ r.token = row[j].token
  BY <1>1, <1>5 DEF RowType, Status
<1>8. r.attempts = row[j].attempts /\ r.maxAttempts = m /\ r.extensions = e
  BY <1>1 DEF RowType
<1>9. f.result = s
  BY DEF Inv, StoreTypeOK, FilesType
<1>10. r.status = s /\ r.lease = row[j].lease
  BY <1>1 DEF RowType
<1>11. row[j].attempts <= m
  BY <1>1, <1>5, <1>6 DEF RowType
<1>12. RowInv(r, f)
  BY <1>1, <1>6, <1>7, <1>8, <1>9, <1>10, <1>11 DEF RowInv, Retryable, Parked
<1> HIDE DEF r
<1> QED
  BY <1>2, <1>7, <1>12, OneRowAndResult

LEMMA ReleasePreserves ==
  ASSUME Inv, NEW j \in Job, NEW t \in Token, ReleaseForWait(j, t)
  PROVE  Inv'
<1> DEFINE r == [row[j] EXCEPT !.phase = "wait", !.due = FALSE,
                               !.token = NoToken, !.lease = "none"]
<1>1. row[j] \in RowType /\ RowInv(row[j], files[j]) /\ row[j].status = "in_progress"
  BY DEF Inv, StoreTypeOK, ReleaseForWait, Fenced
<1>2. Update(j, r) /\ UNCHANGED <<files, pause, hold>>
  BY DEF ReleaseForWait
<1>3. r \in RowType /\ r.token = NoToken
  BY <1>1 DEF RowType, Phase
<1>4. RowInv(r, files[j])
  BY <1>1 DEF RowInv, RowType, Retryable, Parked
<1> HIDE DEF r
<1> QED
  BY <1>2, <1>3, <1>4, OneRowOnly

LEMMA CancelPreserves ==
  ASSUME Inv, NEW j \in Job, RequestCancel(j)
  PROVE  Inv'
<1>1. row[j] \in RowType /\ RowInv(row[j], files[j])
  BY DEF Inv, StoreTypeOK
<1>2. /\ CanceledRow(row[j]).status = "canceled"
      /\ Unleased(CanceledRow(row[j])).status = "canceled"
  BY <1>1 DEF RowType, CanceledRow, Unleased
<1>3. CASE CancelQueued(j)
  BY <1>2, <1>3, EndPreserves DEF CancelQueued, Ended
<1>4. CASE CancelWaiting(j)
  <2>1. CASE StoreCanceledResult(j, row[j].token)
    BY <2>1, CanceledPreserves
  <2>2. CASE /\ Update(j, Unleased(CanceledRow(row[j])))
             /\ WriteResult(j, "canceled")
             /\ UNCHANGED <<pause, hold>>
    BY <1>2, <2>2, EndPreserves DEF Ended
  <2> QED
    BY <1>4, <2>1, <2>2 DEF CancelWaiting
<1>5. CASE CancelParked(j)
  BY <1>2, <1>5, EndPreserves DEF CancelParked, Ended
<1>6. CASE FlagCancel(j)
  <2> DEFINE r == [row[j] EXCEPT !.cancelRequested = TRUE]
  <2>1. Update(j, r) /\ UNCHANGED <<files, pause, hold>>
    BY <1>6 DEF FlagCancel
  <2>2. r \in RowType /\ r.token = row[j].token
    BY <1>1 DEF RowType
  <2>3. RowInv(r, files[j])
    BY <1>1 DEF RowInv, RowType
  <2> HIDE DEF r
  <2> QED
    BY <2>1, <2>2, <2>3, OneRowOnly
<1> QED
  BY <1>3, <1>4, <1>5, <1>6 DEF RequestCancel

LEMMA MaintenancePreserves ==
  ASSUME Inv, NEW j \in Job, BacklogJanitor(j) \/ HealthProbe(j)
  PROVE  Inv'
<1> DEFINE q == [row[j] EXCEPT !.status = "error"]
<1>1. /\ row[j] \in RowType
      /\ files[j] \in FilesType
      /\ row[j].status \in Retryable
      /\ RowInv(row[j], files[j])
  BY DEF Inv, StoreTypeOK, BacklogJanitor, HealthProbe
<1>2. files[j].result # "none"
  BY <1>1 DEF RowInv
<1>3. q.status = "error" /\ Unleased(q).status = "error"
  BY <1>1 DEF RowType, Unleased
<1>4. {q, Unleased(q)} \subseteq Ended(row[j], "error")
  BY DEF Ended
<1>5. \A r \in {q, Unleased(q)} : /\ r \in RowType
                                  /\ r.token \in {row[j].token, NoToken}
                                  /\ RowInv(r, files[j])
  <2> SUFFICES ASSUME NEW r \in {q, Unleased(q)}
               PROVE  r \in RowType /\ r.token \in {row[j].token, NoToken} /\ RowInv(r, files[j])
    OBVIOUS
  <2>1. r \in Ended(row[j], "error") /\ r.status = "error"
    BY <1>3, <1>4
  <2> HIDE DEF q
  <2>2. r \in RowType /\ r.token \in {row[j].token, NoToken}
    BY <1>1, <2>1, EndedType
  <2>3. RowInv(r, files[j])
    BY <1>1, <1>2, <2>1, EndedRow
  <2> QED
    BY <2>2, <2>3
<1>6. CASE Update(j, Unleased(q)) /\ WriteResult(j, "error") /\ UNCHANGED <<pause, hold>>
  <2> HIDE DEF q
  <2> QED
    BY <1>3, <1>4, <1>6, EndPreserves
<1>7. CASE /\ Update(j, q) \/ Update(j, Unleased(q))
           /\ UNCHANGED <<files, pause, hold>>
  <2> HIDE DEF q
  <2> QED
    BY <1>5, <1>7, OneRowOnly
<1> QED
  BY <1>6, <1>7 DEF BacklogJanitor, HealthProbe

LEMMA DuePreserves ==
  ASSUME Inv, NEW j \in Job, NotBeforeElapses(j)
  PROVE  Inv'
<1> DEFINE r == [row[j] EXCEPT !.due = TRUE]
<1>1. row[j] \in RowType /\ RowInv(row[j], files[j])
  BY DEF Inv, StoreTypeOK
<1>2. Update(j, r) /\ UNCHANGED <<files, pause, hold>>
  BY DEF NotBeforeElapses
<1>3. r \in RowType /\ r.token = row[j].token
  BY <1>1 DEF RowType
<1>4. RowInv(r, files[j])
  BY <1>1 DEF RowInv, RowType
<1> HIDE DEF r
<1> QED
  BY <1>2, <1>3, <1>4, OneRowOnly

\* Pauses, holds and torn writes leave the rows alone.
LEMMA TearPreserves ==
  ASSUME Inv, NEW j \in Job,
         TornCancel(j) \/ \E t \in Token : TornAnswer(j, t) \/ TornResult(j, t)
  PROVE  Inv'
<1>1. /\ UNCHANGED <<row, pause, hold>>
      /\ row[j].status \in {"queued", "in_progress"} \cup Retryable
  BY DEF TornCancel, TornAnswer, TornResult, Fenced
<1>2. row[j] \in RowType /\ files[j] \in FilesType /\ RowInv(row[j], files[j])
  BY DEF Inv, StoreTypeOK
<1>3. CASE \E t \in Token : TornAnswer(j, t)
  <2>1. row[j].status = "in_progress"
    BY <1>3 DEF TornAnswer, Fenced
  <2>2. PICK f \in FilesType : files' = [files EXCEPT ![j] = f]
    BY <1>2, <1>3 DEF TornAnswer, FilesType, Terminal, Inv, StoreTypeOK
  <2>3. RowInv(row[j], f)
    BY <1>2, <2>1 DEF RowInv, Retryable, Parked
  <2>4. row' = [row EXCEPT ![j] = row[j]]
    BY <1>1 DEF Inv, StoreTypeOK
  <2> QED
    BY <1>1, <1>2, <2>2, <2>3, <2>4, OneRow
<1>4. CASE TornCancel(j) \/ \E t \in Token : TornResult(j, t)
  <2>1. PICK s \in Retryable \cup Terminal : WriteResult(j, s)
    BY <1>4 DEF TornCancel, TornResult, Terminal
  <2>2. Update(j, row[j])
    BY <1>1 DEF Update, Inv, StoreTypeOK
  <2>3. [files[j] EXCEPT !.result = s].result # "none"
    BY <1>2, <2>1 DEF FilesType, Retryable, Parked, Terminal
  <2>4. RowInv(row[j], [files[j] EXCEPT !.result = s])
    BY <1>1, <1>2, <2>3 DEF RowInv, Retryable, Parked
  <2> QED
    BY <1>1, <1>2, <2>1, <2>2, <2>4, OneRowAndResult
<1> QED
  BY <1>3, <1>4

LEMMA OperatorPreserves ==
  ASSUME Inv, OperatorStep
  PROVE  Inv'
<1>1. CASE ClearPause
  <2>1. pause' \in PauseType /\ UNCHANGED <<files, hold>>
    BY <1>1 DEF ClearPause, NoPause, PauseType
  <2>2. ASSUME NEW j \in Job
        PROVE  /\ row'[j] \in RowType
               /\ row'[j].token = row[j].token
               /\ RowInv(row'[j], files[j])
    <3>1. row[j] \in RowType /\ RowInv(row[j], files[j])
      BY DEF Inv, StoreTypeOK
    <3>2. row'[j] \in {row[j], [row[j] EXCEPT !.due = TRUE]}
      BY <1>1 DEF ClearPause
    <3> QED
      BY <3>1, <3>2 DEF RowType, RowInv
  <2>3. row' \in [Job -> RowType]
    BY <1>1, <2>2 DEF ClearPause
  <2> QED
    BY <2>1, <2>2, <2>3 DEF Inv, StoreTypeOK, Unshared
<1>2. CASE UNCHANGED <<row, files>> /\ pause' \in PauseType /\ hold' \in BOOLEAN
  BY <1>2 DEF Inv, StoreTypeOK, Unshared
<1>3. PauseState \subseteq PauseType /\ NoPause \in PauseType
  BY StoreAssumption DEF NoPause, PauseType
<1> QED
  BY <1>1, <1>2, <1>3
  DEF OperatorStep, SetPause, PauseElapses, SetHold, HoldEnds, Inv, StoreTypeOK

LEMMA InvInductive ==
  ASSUME Inv, [StoreNext]_storeVars
  PROVE  Inv'
<1>1. CASE UNCHANGED storeVars
  BY <1>1 DEF storeVars, Inv, StoreTypeOK, Unshared
<1>2. CASE \E j \in Job, t \in Token : ClaimNextJob(j, t)
  BY <1>2, ClaimPreserves
<1>3. ASSUME NEW j \in Job, NEW t \in Token, LeasedOp(j, t)
      PROVE  Inv'
  <2>1. CASE \E c \in Conversation : SetConversationUrl(j, t, c)
    BY <2>1, SetConversationPreserves
  <2>2. CASE StoreAnswerResult(j, t)
    BY <2>2, AnswerPreserves
  <2>3. CASE \E s \in {"error", "needs_followup"} : StoreErrorResult(j, t, s)
    BY <2>3, ErrorPreserves
  <2>4. CASE \E s \in Retryable, ph \in Phase : RetryWithinBudget(j, t, s, ph)
    BY <2>4, RetryPreserves
  <2>5. CASE \E s \in Retryable, ph \in Phase : RetryExtended(j, t, s, ph)
    BY <2>5, ExtensionPreserves
  <2>6. CASE \E ph \in Phase : RetryExhausted(j, t, ph)
    BY <2>6, ErrorPreserves DEF RetryExhausted
  <2>7. CASE ReleaseForWait(j, t)
    BY <2>7, ReleasePreserves
  <2>8. CASE StoreCanceledResult(j, t)
    BY <2>8, CanceledPreserves
  <2>9. CASE TornAnswer(j, t) \/ TornResult(j, t)
    BY <2>9, TearPreserves
  <2> QED
    BY <1>3, <2>1, <2>2, <2>3, <2>4, <2>5, <2>6, <2>7, <2>8, <2>9 DEF LeasedOp
<1>4. ASSUME NEW j \in Job, JobStep(j)
      PROVE  Inv'
  BY <1>4, CreatePreserves, ExpirePreserves, CancelPreserves, TearPreserves,
     MaintenancePreserves, DuePreserves DEF JobStep, JobLife
<1>5. CASE OperatorStep
  BY <1>5, OperatorPreserves
<1> QED
  BY <1>1, <1>2, <1>3, <1>4, <1>5 DEF StoreNext

LEMMA InvInit ==
  ASSUME StoreInit
  PROVE  Inv
<1>1. NoRow \in RowType
  BY DEF NoRow, RowType, Status, Phase
<1>2. StoreTypeOK
  BY <1>1 DEF StoreInit, StoreTypeOK, FilesType, PauseType, NoPause
<1>3. RowInv(NoRow, [answer |-> NoToken, result |-> "none"])
  BY StoreAssumption DEF RowInv, NoRow, Retryable, Parked, Larger
<1>4. Unshared
  BY DEF StoreInit, Unshared, NoRow
<1> QED
  BY <1>2, <1>3, <1>4 DEF Inv, StoreInit

\* The inductive invariant holds in every state of the store.
THEOREM Invariance == StoreSpec => []Inv
<1>1. StoreInit => Inv
  BY InvInit
<1>2. Inv /\ [StoreNext]_storeVars => Inv'
  BY InvInductive
<1> QED
  BY <1>1, <1>2, PTL DEF StoreSpec

\* Whatever is called, in whatever order and with whatever tokens, rows and
\* files keep their types.
THEOREM TypeCorrect == StoreSpec => []StoreTypeOK
<1>1. Inv => StoreTypeOK
  BY DEF Inv
<1> QED
  BY <1>1, Invariance, PTL

\* A visible verdict has its artifacts, for any number of jobs and of lease
\* holders and wherever a crash separates files from rows.
THEOREM VerdictIsPublished == StoreSpec => []VerdictPublished
<1>1. Inv => VerdictPublished
  BY DEF Inv, RowInv, VerdictPublished
<1> QED
  BY <1>1, Invariance, PTL

\* The sends of a job are bounded by the configured budget, its cap and the
\* limit of extensions, for all their values.
THEOREM SendsAreBounded == StoreSpec => []AttemptBudget
<1>1. Inv => AttemptBudget
  BY DEF Inv, RowInv, AttemptBudget
<1> QED
  BY <1>1, Invariance, PTL

\* store_retryable_result never parks a job that a claim would refuse for
\* its attempts.
THEOREM RetriesAreClaimable == StoreSpec => []RetryClaimable
<1>1. Inv => RetryClaimable
  BY DEF Inv, RowInv, RetryClaimable
<1> QED
  BY <1>1, Invariance, PTL

\* A row has a token exactly as long as it has a lease, and no two rows share
\* a token: a stale worker can never pass the fence of another job.
THEOREM LeasesAreShaped == StoreSpec => []LeaseShape
<1>1. Inv => LeaseShape
  BY DEF Inv, RowInv, Unshared, LeaseShape
<1> QED
  BY <1>1, Invariance, PTL

-----------------------------------------------------------------------------
(* What a step may do.                                                     *)

\* The token stays or goes; and a job is in progress under a lease only if it
\* was before, under the same.
LeaseStands(r, s) ==
  /\ s.token \in {r.token, NoToken}
  /\ (s.status = "in_progress" /\ s.token # NoToken)
       => r.status = "in_progress" /\ s.lease = r.lease

LeasesStand == \A j \in Job : LeaseStands(row[j], row'[j])

LEMMA StandAlone ==
  ASSUME UNCHANGED row
  PROVE  LeasesStand
BY DEF LeasesStand, LeaseStands

LEMMA StandsOne ==
  ASSUME Inv, NEW j \in Job, NEW r, Update(j, r), LeaseStands(row[j], r)
  PROVE  LeasesStand
BY DEF Update, LeasesStand, LeaseStands, Inv, StoreTypeOK

LEMMA FinishStands ==
  ASSUME Inv, NEW j \in Job, NEW t, NEW s \in Terminal \cup Retryable, NEW r \in RowType,
         Finish(j, t, s, r), r.token = row[j].token
  PROVE  LeasesStand
<1> DEFINE q == [r EXCEPT !.status = s]
<1>1. Update(j, q)
  BY DEF Finish
<1>2. q.token = row[j].token /\ q.status = s /\ s # "in_progress"
  BY DEF RowType, Terminal, Retryable, Parked
<1>3. LeaseStands(row[j], q)
  BY <1>2 DEF LeaseStands
<1> HIDE DEF q
<1> QED
  BY <1>1, <1>3, StandsOne

\* What the holder of a lease does.
LEMMA LeasedStands ==
  ASSUME Inv, NEW i \in Job, NEW t \in Token, LeasedOp(i, t)
  PROVE  LeasesStand
<1>1. row[i] \in RowType
  BY DEF Inv, StoreTypeOK
<1>2. CASE TornAnswer(i, t) \/ TornResult(i, t)
  BY <1>2, StandAlone DEF TornAnswer, TornResult
<1>3. CASE \E c \in Conversation : SetConversationUrl(i, t, c)
  BY <1>1, <1>3, StandsOne DEF SetConversationUrl, RowType, LeaseStands
<1>4. CASE StoreAnswerResult(i, t)
  <2> DEFINE r == [row[i] EXCEPT !.answer = t]
  <2>1. r \in RowType /\ r.token = row[i].token
    BY <1>1 DEF RowType
  <2>2. Finish(i, t, "completed", r)
    BY <1>4 DEF StoreAnswerResult
  <2> HIDE DEF r
  <2> QED
    BY <2>1, <2>2, FinishStands DEF Terminal
<1>5. CASE StoreCanceledResult(i, t)
  BY <1>1, <1>5, FinishStands DEF StoreCanceledResult, RowType, Terminal
<1>6. CASE ReleaseForWait(i, t)
  BY <1>1, <1>6, StandsOne DEF ReleaseForWait, RowType, LeaseStands
<1>7. CASE \/ \E s \in {"error", "needs_followup"} : StoreErrorResult(i, t, s)
           \/ \E ph \in Phase : RetryExhausted(i, t, ph)
  BY <1>1, <1>7, FinishStands DEF StoreErrorResult, RetryExhausted, Terminal, Retryable, Parked
<1>8. CASE \E s \in Retryable, ph \in Phase : RetryWithinBudget(i, t, s, ph)
  <2>1. PICK s \in Retryable, ph \in Phase : RetryWithinBudget(i, t, s, ph)
    BY <1>8
  <2> DEFINE r == [row[i] EXCEPT !.phase = ph, !.due = FALSE]
  <2>2. r \in RowType /\ r.token = row[i].token
    BY <1>1 DEF RowType
  <2>3. Finish(i, t, s, r)
    BY <2>1 DEF RetryWithinBudget
  <2> QED
    BY <2>2, <2>3, FinishStands
<1>9. CASE \E s \in Retryable, ph \in Phase : RetryExtended(i, t, s, ph)
  <2>1. PICK s \in Retryable, ph \in Phase : RetryExtended(i, t, s, ph)
    BY <1>9
  <2> DEFINE e == row[i].extensions + 1
             m == Smaller(AttemptsCap, Larger(row[i].maxAttempts + 1, row[i].attempts + 1))
             r == [row[i] EXCEPT !.phase = ph, !.due = FALSE, !.extensions = e,
                                 !.maxAttempts = m]
  <2>2. e \in Nat /\ m \in Nat
    BY <1>1, StoreAssumption DEF RowType, Smaller, Larger
  <2>3. Finish(i, t, s, r)
    BY <2>1 DEF RetryExtended
  <2> HIDE DEF e, m
  <2>4. r \in RowType /\ r.token = row[i].token
    BY <1>1, <2>2 DEF RowType
  <2> QED
    BY <2>3, <2>4, FinishStands
<1> QED
  BY <1>2, <1>3, <1>4, <1>5, <1>6, <1>7, <1>8, <1>9 DEF LeasedOp

\* What others and time do.
LEMMA LifeStands ==
  ASSUME Inv, NEW i \in Job,
         \/ \E r \in Request : CreateJob(i, r)
         \/ RequestCancel(i) \/ TornCancel(i) \/ BacklogJanitor(i) \/ HealthProbe(i)
         \/ NotBeforeElapses(i)
  PROVE  LeasesStand
<1>1. row[i] \in RowType
  BY DEF Inv, StoreTypeOK
<1>2. CASE \E r \in Request : CreateJob(i, r)
  BY <1>2, StandsOne DEF CreateJob, NoRow, LeaseStands
<1>3. CASE NotBeforeElapses(i)
  BY <1>1, <1>3, StandsOne DEF NotBeforeElapses, RowType, LeaseStands
<1>4. CASE TornCancel(i)
  BY <1>4, StandAlone DEF TornCancel
<1>5. CASE RequestCancel(i)
  <2>1. LeaseStands(row[i], CanceledRow(row[i]))
    BY <1>1 DEF CanceledRow, RowType, LeaseStands
  <2>2. LeaseStands(row[i], Unleased(CanceledRow(row[i])))
    BY <1>1 DEF Unleased, CanceledRow, RowType, LeaseStands
  <2>3. CASE CancelQueued(i)
    BY <2>1, <2>3, StandsOne DEF CancelQueued
  <2>4. CASE StoreCanceledResult(i, row[i].token)
    <3> DEFINE r == [row[i] EXCEPT !.cancelRequested = TRUE]
    <3>1. r \in RowType /\ r.token = row[i].token
      BY <1>1 DEF RowType
    <3>2. Finish(i, row[i].token, "canceled", r)
      BY <2>4 DEF StoreCanceledResult
    <3> HIDE DEF r
    <3> QED
      BY <3>1, <3>2, FinishStands DEF Terminal
  <2>5. CASE Update(i, Unleased(CanceledRow(row[i])))
    BY <2>2, <2>5, StandsOne
  <2>6. CASE FlagCancel(i)
    BY <1>1, <2>6, StandsOne DEF FlagCancel, RowType, LeaseStands
  <2> QED
    BY <1>5, <2>3, <2>4, <2>5, <2>6 DEF RequestCancel, CancelWaiting, CancelParked
<1>6. CASE BacklogJanitor(i) \/ HealthProbe(i)
  <2> DEFINE e == [row[i] EXCEPT !.status = "error"]
  <2>1. LeaseStands(row[i], e) /\ LeaseStands(row[i], Unleased(e))
    BY <1>1 DEF Unleased, RowType, LeaseStands
  <2>2. Update(i, e) \/ Update(i, Unleased(e))
    BY <1>6 DEF BacklogJanitor, HealthProbe
  <2> HIDE DEF e
  <2> QED
    BY <2>1, <2>2, StandsOne
<1> QED
  BY <1>2, <1>3, <1>4, <1>5, <1>6

LEMMA OperatorStands ==
  ASSUME Inv, OperatorStep
  PROVE  LeasesStand
<1>1. CASE ClearPause
  BY <1>1 DEF ClearPause, RowType, LeasesStand, LeaseStands, Inv, StoreTypeOK
<1> QED
  BY <1>1, StandAlone DEF OperatorStep, SetPause, PauseElapses, SetHold, HoldEnds

\* Only a claim puts a new token on a row.
LEMMA OnlyClaimsGiveTokens ==
  ASSUME Inv, [StoreNext]_storeVars, NEW j \in Job,
         row'[j].token \notin {row[j].token, NoToken}
  PROVE  \E t \in Token : ClaimNextJob(j, t)
<1>1. ~LeasesStand
  BY DEF LeasesStand, LeaseStands
<1>2. ASSUME NEW i \in Job, ExpireLease(i)
      PROVE  row'[j].token = row[j].token
  BY <1>2 DEF ExpireLease, Update, Inv, StoreTypeOK, RowType
<1>3. ASSUME NEW i \in Job, NEW t \in Token, ClaimNextJob(i, t)
      PROVE  i = j
  BY <1>3 DEF ClaimNextJob, Update, Inv, StoreTypeOK
<1> QED
  BY <1>1, <1>2, <1>3, StandAlone, LeasedStands, LifeStands, OperatorStands
  DEF StoreNext, JobStep, JobLife, storeVars

\* The pause and the hold are obeyed by every claim of every worker.
THEOREM PausesAreRespected == StoreSpec => PauseRespected
<1> DEFINE Respected(j) ==
      row'[j].token \notin {row[j].token, NoToken} =>
        /\ PauseFilterAllows(pause, Kind[j], row[j].phase)
        /\ hold => Kind[j] # "chatgpt_web.ask"
<1>1. ASSUME Inv, [StoreNext]_storeVars, NEW j \in Job
      PROVE  Respected(j)
  <2> SUFFICES ASSUME row'[j].token \notin {row[j].token, NoToken}
               PROVE  /\ PauseFilterAllows(pause, Kind[j], row[j].phase)
                      /\ hold => Kind[j] # "chatgpt_web.ask"
    OBVIOUS
  <2>1. Unhindered(j)
    BY <1>1, OnlyClaimsGiveTokens DEF ClaimNextJob, Claimable
  <2>2. pause \in PauseType /\ Kind[j] \in AskKind \cup OtherKind /\ row[j].phase \in Phase
    BY <1>1, StoreAssumption DEF Inv, StoreTypeOK, RowType
  <2> QED
    BY <2>1, <2>2, PauseFormsAgree DEF Unhindered
<1>2. Inv /\ [StoreNext]_storeVars => [\A j \in Job : Respected(j)]_storeVars
  BY <1>1
<1> QED
  BY <1>2, Invariance, PTL DEF StoreSpec, PauseRespected

\* A live lease is never given to a second worker.
THEOREM LeasesAreExclusive == StoreSpec => LeaseExclusive
<1> DEFINE Exclusive(j) ==
      (/\ row[j].status = "in_progress"
       /\ row[j].lease = "live"
       /\ row'[j].status = "in_progress") => row'[j].token \in {row[j].token, NoToken}
<1>1. ASSUME Inv, [StoreNext]_storeVars, NEW j \in Job
      PROVE  Exclusive(j)
  <2>1. (\E t \in Token : ClaimNextJob(j, t)) =>
          ~(row[j].status = "in_progress" /\ row[j].lease = "live")
    BY DEF ClaimNextJob, Claimable, Available
  <2> QED
    BY <1>1, <2>1, OnlyClaimsGiveTokens
<1>2. Inv /\ [StoreNext]_storeVars => [\A j \in Job : Exclusive(j)]_storeVars
  BY <1>1
<1> QED
  BY <1>2, Invariance, PTL DEF StoreSpec, LeaseExclusive
=============================================================================

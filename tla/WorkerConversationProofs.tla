---------------------- MODULE WorkerConversationProofs ----------------------
(***************************************************************************)
(* One prompt at a time in a conversation, and no expired lease that       *)
(* nobody can take over, with any number of crashes.                       *)
(*                                                                         *)
(* The claim checks that the conversation of an ask is free, so what has   *)
(* to be shown is what a conversation that becomes shared afterwards can   *)
(* do.  A run changes the conversation of its row in three ways.  It takes *)
(* over its parent's before it sends: that breaks both properties (the     *)
(* runs LateConversation and ExpiredPair) and is ruled out by a            *)
(* hypothesis.  It stores the thread the provider opened, which is nobody  *)
(* else's.  Or, a Gemini run, it stores the thread it found in the         *)
(* sidebar, which may be another ask's: it sends nothing afterwards, so    *)
(* one prompt at a time survives (SendersApart), but a row in the send     *)
(* phase may be claimed again, so the second property needs that only a    *)
(* job that already waits for its answer is bound in this way.             *)
(***************************************************************************)
EXTENDS WorkerLoopProofs

\* A run that read its row finds nothing to take over from the parent: the
\* job has a conversation, or no parent, or the parent has none either.
NoLateInheritance ==
  \A w \in Worker : run[w].stage = "loaded" => LateParent(run[w].job) = NoConversation

\* Only for an ask that waits for its answer does a run look in the sidebar.
OnlyWaitersSearch ==
  \A w \in Worker : run[w].stage = "exec" /\ Searches(w) => row[run[w].job].phase = "wait"

\* A request that names a parent also names the conversation.
ConversationsKnown == \A r \in Request : r.parent = NoJob \/ r.conversation # NoConversation

\* Requests for Gemini asks name theirs.
GeminiNamed == \A r \in Request, j \in Job :
                 Kind[j] = "gemini_web.ask" => r.conversation # NoConversation

\* Sending and waiting are left to different workers.
RolesApart == \A w \in Worker : Role[w] # "all"

\* The job's prompt may be on its way.
Sending(r) == r.status = "in_progress" /\ r.phase = "send"

\* No two asks of a kind are sending into one conversation.
Apart(i, j) ==
  (/\ Kind[i] = Kind[j] /\ Kind[j] \in AskKind
   /\ Sending(row[i]) /\ Sending(row[j])
   /\ row[j].conversation # NoConversation)
  => row[i].conversation # row[j].conversation

FlightInv == \A i, j \in Job : i # j => Apart(i, j)

\* The stages before the executor returns, and the runs in one of them that
\* their row still belongs to.
OnTheWay(r) == r.stage \in {"claimed", "loaded", "ready", "exec"}
Sender(w) == /\ OnTheWay(run[w])
             /\ Sending(row[run[w].job])
             /\ row[run[w].job].token = run[w].token

\* No two of them share a conversation.
SendersApart ==
  \A v, w \in Worker :
    (/\ v # w /\ Sender(v) /\ Sender(w)
     /\ Kind[run[v].job] = Kind[run[w].job] /\ Kind[run[v].job] \in AskKind
     /\ row[run[v].job].conversation # NoConversation)
    => row[run[v].job].conversation # row[run[w].job].conversation

\* A job with a parent has a conversation.
ParentsKnown == \A j \in Job : row[j].parent = NoJob \/ row[j].conversation # NoConversation

\* A Gemini job has one, and so has one that a run is about to execute.
GeminiKnown ==
  /\ \A j \in Job : Kind[j] = "gemini_web.ask" =>
                      row[j].status = "absent" \/ row[j].conversation # NoConversation
  /\ \A w \in Worker : OnTheWay(run[w]) /\ Kind[run[w].job] = "gemini_web.ask" =>
                         row[run[w].job].conversation # NoConversation

\* A worker of the wait role has a job that waits.
WaitersWait ==
  \A w \in Worker : OnTheWay(run[w]) /\ Role[w] = "wait" => row[run[w].job].phase = "wait"

\* What an operation does that neither claims a job nor binds its thread.
Calm(r, s) ==
  /\ s.parent = r.parent
  /\ s.conversation = r.conversation
  /\ Sending(s) => Sending(r) /\ s.token = r.token
  /\ r.status = "absent" => s.status = "absent"

CalmAll == \A i \in Job : Calm(row[i], row'[i])

\* A job that has a conversation, its own or a new one, keeps having one.
BindingsStay ==
  \A i \in Job : /\ row'[i].parent = row[i].parent
                 /\ row[i].conversation # NoConversation => row'[i].conversation # NoConversation
                 /\ row[i].status = "absent" => row'[i].status = "absent"

\* What every step but a claim does to the runs.
RunsGoOn ==
  \A w \in Worker : OnTheWay(run'[w]) => /\ OnTheWay(run[w])
                                         /\ run'[w].job = run[w].job
                                         /\ run'[w].token = run[w].token

-----------------------------------------------------------------------------
LEMMA CalmFlight ==
  ASSUME FlightInv, CalmAll
  PROVE  FlightInv' /\ BindingsStay
<1>1. ASSUME NEW j \in Job
      PROVE  /\ row'[j].parent = row[j].parent
             /\ row'[j].conversation = row[j].conversation
             /\ Sending(row'[j]) => Sending(row[j])
             /\ row[j].status = "absent" => row'[j].status = "absent"
  BY DEF CalmAll, Calm
<1>2. BindingsStay
  BY <1>1 DEF BindingsStay
<1>3. ASSUME NEW i \in Job, NEW j \in Job, i # j
      PROVE  Apart(i, j)'
  <2>1. Apart(i, j)
    BY <1>3 DEF FlightInv
  <2> QED
    BY <1>1, <2>1 DEF Apart
<1> QED
  BY <1>2, <1>3 DEF FlightInv

LEMMA CalmSenders ==
  ASSUME WorkerTypeOK, SendersApart, CalmAll, RunsGoOn
  PROVE  SendersApart'
<1>1. ASSUME NEW w \in Worker, Sender(w)'
      PROVE  /\ Sender(w) /\ run'[w].job = run[w].job
             /\ row'[run[w].job].conversation = row[run[w].job].conversation
  <2>1. OnTheWay(run[w]) /\ run'[w].job = run[w].job /\ run'[w].token = run[w].token
    BY <1>1 DEF Sender, RunsGoOn
  <2>2. run[w].job \in Job
    BY <2>1 DEF OnTheWay, WorkerTypeOK
  <2>3. Calm(row[run[w].job], row'[run[w].job])
    BY <2>2 DEF CalmAll
  <2> QED
    BY <1>1, <2>1, <2>3 DEF Sender, Calm
<1> QED
  BY <1>1 DEF SendersApart

LEMMA RowOf ==
  ASSUME Inv, NEW j \in Job, NEW r, Update(j, r)
  PROVE  row'[j] = r /\ \A i \in Job \ {j} : row'[i] = row[i]
BY DEF Update, Inv, StoreTypeOK

LEMMA CalmOne ==
  ASSUME Inv, NEW j \in Job, NEW r, Update(j, r), Calm(row[j], r)
  PROVE  CalmAll
BY RowOf DEF CalmAll, Calm

LEMMA CalmRows ==
  ASSUME UNCHANGED row
  PROVE  CalmAll
BY DEF CalmAll, Calm

LEMMA FinishCalm ==
  ASSUME Inv, NEW j \in Job, NEW t, NEW s \in Terminal \cup Retryable, NEW r \in RowType,
         Finish(j, t, s, r),
         r.parent = row[j].parent, r.conversation = row[j].conversation
  PROVE  CalmAll
<1> DEFINE q == [r EXCEPT !.status = s]
<1>1. Update(j, q)
  BY DEF Finish
<1>2. /\ q.status = s /\ q.parent = r.parent /\ q.conversation = r.conversation
      /\ row[j].status = "in_progress"
  BY DEF RowType, Finish, Fenced
<1>3. Calm(row[j], q)
  BY <1>2 DEF Calm, Sending, Terminal, Retryable, Parked
<1> HIDE DEF q
<1> QED
  BY <1>1, <1>3, CalmOne

LEMMA StoreCalm ==
  ASSUME Inv, NEW j \in Job, NEW t \in Token,
         \/ StoreAnswerResult(j, t)
         \/ \E s \in {"error", "needs_followup"} : StoreErrorResult(j, t, s)
         \/ StoreCanceledResult(j, t)
         \/ ReleaseForWait(j, t)
  PROVE  CalmAll
<1>1. row[j] \in RowType
  BY DEF Inv, StoreTypeOK
<1>2. CASE StoreAnswerResult(j, t)
  <2> DEFINE r == [row[j] EXCEPT !.answer = t]
  <2>1. r \in RowType /\ r.parent = row[j].parent /\ r.conversation = row[j].conversation
    BY <1>1 DEF RowType
  <2>2. Finish(j, t, "completed", r) /\ "completed" \in Terminal
    BY <1>2 DEF StoreAnswerResult, Terminal
  <2> HIDE DEF r
  <2> QED
    BY <2>1, <2>2, FinishCalm
<1>3. CASE \E s \in {"error", "needs_followup"} : StoreErrorResult(j, t, s)
  BY <1>1, <1>3, FinishCalm DEF StoreErrorResult, Terminal, Retryable, Parked
<1>4. CASE StoreCanceledResult(j, t)
  <2> DEFINE r == [row[j] EXCEPT !.cancelRequested = TRUE]
  <2>1. r \in RowType /\ r.parent = row[j].parent /\ r.conversation = row[j].conversation
    BY <1>1 DEF RowType
  <2>2. Finish(j, t, "canceled", r) /\ "canceled" \in Terminal
    BY <1>4 DEF StoreCanceledResult, Terminal
  <2> HIDE DEF r
  <2> QED
    BY <2>1, <2>2, FinishCalm
<1>5. CASE ReleaseForWait(j, t)
  <2> DEFINE r == [row[j] EXCEPT !.phase = "wait", !.due = FALSE,
                                 !.token = NoToken, !.lease = "none"]
  <2>1. Update(j, r)
    BY <1>5 DEF ReleaseForWait
  <2>2. Calm(row[j], r)
    BY <1>1 DEF Calm, Sending, RowType
  <2> HIDE DEF r
  <2> QED
    BY <2>1, <2>2, CalmOne
<1> QED
  BY <1>2, <1>3, <1>4, <1>5

LEMMA RetryCalm ==
  ASSUME Inv, NEW j \in Job, NEW t \in Token, NEW s \in Retryable, NEW ph \in Phase,
         RetryWithinBudget(j, t, s, ph) \/ RetryExtended(j, t, s, ph) \/ RetryExhausted(j, t, ph)
  PROVE  CalmAll
<1>1. row[j] \in RowType
  BY DEF Inv, StoreTypeOK
<1>2. CASE RetryWithinBudget(j, t, s, ph)
  <2> DEFINE r == [row[j] EXCEPT !.phase = ph, !.due = FALSE]
  <2>1. Finish(j, t, s, r)
    BY <1>2 DEF RetryWithinBudget
  <2>2. r \in RowType /\ r.parent = row[j].parent /\ r.conversation = row[j].conversation
    BY <1>1 DEF RowType
  <2> HIDE DEF r
  <2> QED
    BY <2>1, <2>2, FinishCalm
<1>3. CASE RetryExtended(j, t, s, ph)
  <2> DEFINE e == row[j].extensions + 1
             m == Smaller(AttemptsCap, Larger(row[j].maxAttempts + 1, row[j].attempts + 1))
             r == [row[j] EXCEPT !.phase = ph, !.due = FALSE, !.extensions = e,
                                 !.maxAttempts = m]
  <2>1. Finish(j, t, s, r)
    BY <1>3 DEF RetryExtended
  <2>2. e \in Nat /\ m \in Nat
    BY <1>1, StoreAssumption DEF RowType, Smaller, Larger
  <2> HIDE DEF e, m
  <2>3. r \in RowType /\ r.parent = row[j].parent /\ r.conversation = row[j].conversation
    BY <1>1, <2>2 DEF RowType
  <2> HIDE DEF r
  <2> QED
    BY <2>1, <2>3, FinishCalm
<1>4. CASE RetryExhausted(j, t, ph)
  BY <1>4, StoreCalm DEF RetryExhausted
<1> QED
  BY <1>2, <1>3, <1>4

LEMMA OthersCalm ==
  ASSUME Inv, NEW j \in Job,
         \/ ExpireLease(j) \/ RequestCancel(j) \/ TornCancel(j)
         \/ BacklogJanitor(j) \/ HealthProbe(j) \/ NotBeforeElapses(j)
  PROVE  CalmAll
<1>1. row[j] \in RowType
  BY DEF Inv, StoreTypeOK
<1> DEFINE e == [row[j] EXCEPT !.status = "error"]
           c == CanceledRow(row[j])
<1>2. ASSUME NEW r \in {[row[j] EXCEPT !.lease = "expired"], [row[j] EXCEPT !.due = TRUE],
                        [row[j] EXCEPT !.cancelRequested = TRUE]},
             Update(j, r)
      PROVE  CalmAll
  <2>1. Calm(row[j], r)
    BY <1>1 DEF Calm, Sending, RowType
  <2> QED
    BY <1>2, <2>1, CalmOne
<1>3. ASSUME NEW r \in {e, Unleased(e), c, Unleased(c)}, Update(j, r),
             row[j].status # "absent"
      PROVE  CalmAll
  <2>1. Calm(row[j], e) /\ Calm(row[j], Unleased(e))
    BY <1>1, <1>3 DEF Calm, Sending, Unleased, RowType
  <2>2. Calm(row[j], c) /\ Calm(row[j], Unleased(c))
    BY <1>1, <1>3 DEF Calm, Sending, CanceledRow, Unleased, RowType
  <2> HIDE DEF e, c
  <2> QED
    BY <1>3, <2>1, <2>2, CalmOne
<1>4. CASE ExpireLease(j) \/ NotBeforeElapses(j) \/ FlagCancel(j)
  BY <1>2, <1>4 DEF ExpireLease, NotBeforeElapses, FlagCancel
<1>5. CASE HealthProbe(j) \/ BacklogJanitor(j)
  BY <1>3, <1>5 DEF HealthProbe, BacklogJanitor, Retryable, Parked
<1>6. CASE TornCancel(j)
  BY <1>6, CalmRows DEF TornCancel
<1>7. CASE CancelQueued(j) \/ CancelParked(j)
  BY <1>3, <1>7 DEF CancelQueued, CancelParked, Retryable, Parked
<1>8. CASE CancelWaiting(j)
  <2>1. c = [[row[j] EXCEPT !.cancelRequested = TRUE] EXCEPT !.status = "canceled"]
    BY <1>1 DEF RowType, CanceledRow
  <2> HIDE DEF e
  <2> QED
    BY <1>3, <1>8, <2>1 DEF CancelWaiting, StoreCanceledResult, Finish
<1> QED
  BY <1>4, <1>5, <1>6, <1>7, <1>8 DEF RequestCancel

LEMMA OperatorCalm ==
  ASSUME Inv, OperatorStep
  PROVE  CalmAll
<1>1. CASE ClearPause
  <2>1. ASSUME NEW i \in Job
        PROVE  Calm(row[i], row'[i])
    <3>1. row[i] \in RowType
      BY DEF Inv, StoreTypeOK
    <3>2. row'[i] \in {row[i], [row[i] EXCEPT !.due = TRUE]}
      BY <1>1 DEF ClearPause
    <3> QED
      BY <3>1, <3>2 DEF Calm, Sending, RowType
  <2> QED
    BY <2>1 DEF CalmAll
<1>2. CASE UNCHANGED row
  BY <1>2, CalmRows
<1> QED
  BY <1>1, <1>2 DEF OperatorStep, SetPause, PauseElapses, SetHold, HoldEnds

-----------------------------------------------------------------------------
(* The steps that are not calm.                                            *)

\* A new row is queued.
LEMMA SubmitFlight ==
  ASSUME Inv, WorkerTypeOK, NEW j \in Job, Submit(j)
  PROVE  /\ FlightInv => FlightInv'
         /\ SendersApart => SendersApart'
<1>1. row'[j].status = "queued" /\ \A i \in Job \ {j} : row'[i] = row[i]
  BY DEF Submit, CreateJob, Update, NoRow, Inv, StoreTypeOK
<1>2. run' = run
  BY DEF Submit, workerVars
<1>3. FlightInv => FlightInv'
  BY <1>1 DEF FlightInv, Apart, Sending
<1>4. ASSUME NEW w \in Worker, Sender(w)'
      PROVE  Sender(w) /\ row'[run[w].job] = row[run[w].job]
  <2>1. run[w].job \in Job /\ run[w].job # j
    BY <1>1, <1>2, <1>4 DEF Sender, OnTheWay, Sending, WorkerTypeOK
  <2> QED
    BY <1>1, <1>2, <1>4, <2>1 DEF Sender
<1>5. SendersApart => SendersApart'
  BY <1>2, <1>4 DEF SendersApart
<1> QED
  BY <1>3, <1>5

\* The claim looks for another ask in flight in the conversation.
LEMMA ClaimRows ==
  ASSUME Inv, NEW j \in Job, NEW t \in Token, ClaimNextJob(j, t)
  PROVE  /\ row'[j].parent = row[j].parent /\ row'[j].conversation = row[j].conversation
         /\ row'[j].phase = row[j].phase /\ row'[j].token = t
         /\ row[j].status # "absent" /\ SingleFlight(j)
         /\ \A i \in Job \ {j} : row'[i] = row[i]
         /\ BindingsStay
<1>1. /\ row'[j].parent = row[j].parent /\ row'[j].conversation = row[j].conversation
      /\ row'[j].phase = row[j].phase /\ row'[j].token = t
      /\ \A i \in Job \ {j} : row'[i] = row[i]
  BY DEF ClaimNextJob, Update, Inv, StoreTypeOK, RowType
<1>2. row[j].status # "absent" /\ SingleFlight(j)
  BY DEF ClaimNextJob, Claimable, Available
<1> QED
  BY <1>1, <1>2 DEF BindingsStay

LEMMA ClaimFlight ==
  ASSUME Inv, FlightInv, NEW j \in Job, NEW t \in Token, ClaimNextJob(j, t)
  PROVE  FlightInv'
<1>1. /\ row'[j].conversation = row[j].conversation /\ row'[j].phase = row[j].phase
      /\ \A i \in Job \ {j} : row'[i] = row[i]
      /\ SingleFlight(j) /\ row[j] \in RowType
  BY ClaimRows DEF Inv, StoreTypeOK
<1>2. \A i \in Job \ {j} : Apart(i, j)' /\ Apart(j, i)'
  BY <1>1 DEF Apart, Sending, SingleFlight, ConversationFree
<1> QED
  BY <1>1, <1>2 DEF FlightInv, Apart

\* Its token is new: nobody else's run becomes a sender of the row.
LEMMA ClaimSenders ==
  ASSUME Inv, WorkerTypeOK, SendersApart,
         NEW u \in Worker, NEW j \in Job, NEW t \in Token, WorkerClaim(u, j, t)
  PROVE  SendersApart'
<1>1. /\ row'[j].conversation = row[j].conversation /\ row'[j].phase = row[j].phase
      /\ row'[j].token = t /\ SingleFlight(j)
      /\ \A i \in Job \ {j} : row'[i] = row[i]
  BY ClaimRows DEF WorkerClaim
<1>2. /\ run'[u].job = j /\ \A w \in Worker : w # u => run'[w] = run[w]
      /\ \A w \in Worker : run[w].token # t
  BY DEF WorkerClaim, SetRun, Idle, WorkerTypeOK
<1>3. ASSUME NEW w \in Worker, w # u, Sender(w)'
      PROVE  /\ Sender(w) /\ run'[w] = run[w] /\ run[w].job \in Job \ {j}
             /\ row'[run[w].job] = row[run[w].job]
  <2>1. run'[w] = run[w] /\ run[w].job \in Job
    BY <1>2, <1>3 DEF Sender, OnTheWay, WorkerTypeOK
  <2>2. run[w].job # j
    BY <1>1, <1>2, <1>3, <2>1 DEF Sender
  <2> QED
    BY <1>1, <1>3, <2>1, <2>2 DEF Sender
<1>4. ASSUME NEW w \in Worker, w # u, Sender(w)', Sender(u)',
             Kind[run'[w].job] = Kind[j], Kind[j] \in AskKind,
             row[j].conversation # NoConversation
      PROVE  row'[run'[w].job].conversation # row'[j].conversation
  <2>1. ConversationFree(j)
    BY <1>1, <1>2, <1>4 DEF Sender, Sending, SingleFlight
  <2>2. row[run[w].job].status = "in_progress" /\ Kind[run[w].job] = Kind[j]
    BY <1>3, <1>4 DEF Sender, Sending
  <2>3. row[run[w].job].conversation # row[j].conversation
    BY <1>3, <1>4, <2>1, <2>2 DEF ConversationFree
  <2> QED
    BY <1>1, <1>3, <1>4, <2>3
<1> QED
  <2> SUFFICES ASSUME NEW v \in Worker, NEW w \in Worker, v # w, Sender(v)', Sender(w)',
                      Kind[run'[v].job] = Kind[run'[w].job], Kind[run'[v].job] \in AskKind,
                      row'[run'[v].job].conversation # NoConversation,
                      row'[run'[v].job].conversation = row'[run'[w].job].conversation
               PROVE  FALSE
    BY DEF SendersApart
  <2>1. CASE v # u /\ w # u
    BY <1>3, <2>1 DEF SendersApart
  <2>2. CASE v = u
    BY <1>1, <1>2, <1>4, <2>2
  <2>3. CASE w = u
    BY <1>1, <1>2, <1>4, <2>3
  <2> QED
    BY <2>1, <2>2, <2>3

LEMMA BindRows ==
  ASSUME Inv, NEW j \in Job, NEW t, NEW c \in Conversation, SetConversationUrl(j, t, c)
  PROVE  /\ row'[j].conversation = c /\ c # NoConversation
         /\ row[j].token = t /\ row'[j].token = t /\ row'[j].phase = row[j].phase
         /\ \A i \in Job \ {j} : row'[i] = row[i]
         /\ BindingsStay
<1>1. /\ row'[j].conversation = c /\ row'[j].parent = row[j].parent
      /\ row'[j].phase = row[j].phase
      /\ row[j].status = "in_progress" /\ row[j].token = t /\ row'[j].token = t
      /\ \A i \in Job \ {j} : row'[i] = row[i]
  BY DEF SetConversationUrl, Fenced, Update, Inv, StoreTypeOK, RowType
<1>2. c # NoConversation
  BY StoreAssumption
<1> QED
  BY <1>1, <1>2 DEF BindingsStay

LEMMA FinishBinds ==
  ASSUME WorkerTypeOK, NEW w \in Worker, FinishExec(w)
  PROVE  /\ RunsGoOn /\ ~OnTheWay(run'[w])
         /\ \A v \in Worker : v # w => run'[v] = run[v]
         /\ run[w].stage = "exec" /\ run[w].job \in Job
         /\ \/ UNCHANGED row
            \/ \E c \in ReportedThread(w) :
                 c \in Conversation /\ SetConversationUrl(run[w].job, run[w].token, c)
<1>1. /\ run'[w].stage \in {"canceling", "done"}
      /\ \A v \in Worker : v # w => run'[v] = run[v]
      /\ run[w].stage = "exec" /\ run[w].job \in Job
  BY DEF FinishExec, SetRun, WorkerTypeOK, RunType
<1>2. RunsGoOn /\ ~OnTheWay(run'[w])
  BY <1>1 DEF RunsGoOn, OnTheWay
<1>3. \/ UNCHANGED row
      \/ \E c \in ReportedThread(w) : SetConversationUrl(run[w].job, run[w].token, c)
  BY DEF FinishExec
<1>4. \A c \in ReportedThread(w) : c \in Conversation
  BY DEF ReportedThread, NewThread
<1> QED
  BY <1>1, <1>2, <1>3, <1>4

\* A thread the provider opened is nobody else's, and a job that waits sends
\* nothing into the one it found.
LEMMA FinishFlight ==
  ASSUME Inv, WorkerTypeOK, FlightInv, OnlyWaitersSearch, NEW w \in Worker, FinishExec(w)
  PROVE  FlightInv'
<1> DEFINE j == run[w].job
<1>1. j \in Job /\ run[w].stage = "exec"
  BY FinishBinds
<1>2. CASE UNCHANGED row
  BY <1>2 DEF FlightInv, Apart
<1>3. ASSUME NEW c \in ReportedThread(w), c \in Conversation,
             SetConversationUrl(j, run[w].token, c)
      PROVE  FlightInv'
  <2>1. /\ row'[j].conversation = c /\ row'[j].phase = row[j].phase
        /\ \A i \in Job \ {j} : row'[i] = row[i]
    BY <1>1, <1>3, BindRows
  <2>2. CASE Searches(w)
    <3>1. ~Sending(row'[j])
      BY <1>1, <2>1, <2>2 DEF OnlyWaitersSearch, Sending
    <3> QED
      BY <1>1, <2>1, <3>1 DEF FlightInv, Apart
  <2>3. CASE ~Searches(w)
    <3>1. \A i \in Job : row[i].conversation # c
      BY <1>3, <2>3 DEF ReportedThread, NewThread
    <3> QED
      BY <1>1, <2>1, <3>1 DEF FlightInv, Apart
  <2> QED
    BY <2>2, <2>3
<1> QED
  BY <1>2, <1>3, FinishBinds

\* Whatever thread it found, it sends nothing more, and only its own row changed.
LEMMA FinishSenders ==
  ASSUME Inv, WorkerTypeOK, PhaseInv, SendersApart, NEW w \in Worker, FinishExec(w)
  PROVE  SendersApart'
<1> DEFINE j == run[w].job
<1>1. /\ ~OnTheWay(run'[w]) /\ \A v \in Worker : v # w => run'[v] = run[v]
      /\ run[w].stage = "exec" /\ j \in Job
  BY FinishBinds
<1>2. ASSUME NEW v \in Worker, Sender(v)'
      PROVE  Sender(v) /\ run'[v] = run[v] /\ row'[run[v].job] = row[run[v].job]
  <2>1. v # w /\ run'[v] = run[v] /\ run[v].job \in Job
    BY <1>1, <1>2 DEF Sender, OnTheWay, WorkerTypeOK
  <2>2. row'[run[v].job] = row[run[v].job]
    <3>1. CASE UNCHANGED row
      BY <3>1
    <3>2. ASSUME NEW c \in Conversation, SetConversationUrl(j, run[w].token, c)
          PROVE  row'[run[v].job] = row[run[v].job]
      <4>1. row'[j].token = run[w].token /\ \A i \in Job \ {j} : row'[i] = row[i]
        BY <1>1, <3>2, BindRows
      <4>2. run[v].token # run[w].token
        BY <1>1, <2>1 DEF PhaseInv
      <4>3. row'[run[v].job].token = run[v].token
        BY <1>2, <2>1 DEF Sender
      <4> QED
        BY <2>1, <4>1, <4>2, <4>3
    <3> QED
      BY <3>1, <3>2, FinishBinds
  <2> QED
    BY <1>2, <2>1, <2>2 DEF Sender
<1> QED
  BY <1>2 DEF SendersApart

-----------------------------------------------------------------------------
(* All others are.                                                         *)

LEMMA RunEnds ==
  ASSUME WorkerTypeOK, NEW w \in Worker, EndRun(w)
  PROVE  RunsGoOn
BY DEF EndRun, SetRun, Idle, RunsGoOn, OnTheWay, WorkerTypeOK

LEMMA RunStepCalm ==
  ASSUME Inv, WorkerTypeOK, NoLateInheritance, NEW w \in Worker, RunStep(w), ~FinishExec(w)
  PROVE  CalmAll /\ RunsGoOn
<1> DEFINE j == run[w].job
           t == run[w].token
<1>1. run[w].stage # "idle" => j \in Job /\ t \in Token
  BY DEF WorkerTypeOK
<1>2. CASE Load(w) \/ Begin(w) \/ ObserveCancel(w)
  <2>1. CalmAll
    BY <1>2, CalmRows DEF Load, Begin, ObserveCancel
  <2>2. /\ \A v \in Worker : v # w => run'[v] = run[v]
        /\ run'[w].job = run[w].job /\ run'[w].token = run[w].token
        /\ OnTheWay(run'[w]) => OnTheWay(run[w])
    <3>1. run \in [Worker -> RunType] /\ run[w] \in RunType
      BY DEF WorkerTypeOK
    <3>2. CASE Load(w)
      BY <3>1, <3>2 DEF Load, SetRun, OnTheWay, RunType
    <3>3. CASE Begin(w)
      BY <3>1, <3>3 DEF Begin, SetRun, OnTheWay, RunType
    <3>4. CASE ObserveCancel(w)
      <4>1. OnTheWay(run'[w]) => run[w].stage = "exec"
        BY <3>1, <3>4 DEF ObserveCancel, SetRun, OnTheWay, RunType
      <4> QED
        BY <3>1, <3>4, <4>1 DEF ObserveCancel, SetRun, OnTheWay, RunType
    <3> QED
      BY <1>2, <3>2, <3>3, <3>4
  <2>3. RunsGoOn
    BY <2>2 DEF RunsGoOn
  <2> QED
    BY <2>1, <2>3
<1>3. CASE Inherit(w)
  <2>1. LateParent(j) = NoConversation
    BY <1>3 DEF Inherit, NoLateInheritance
  <2>2. CalmAll
    BY <1>3, <2>1, CalmRows DEF Inherit, storeVars
  <2>3. RunsGoOn
    BY <1>3 DEF Inherit, SetRun, RunsGoOn, OnTheWay, WorkerTypeOK, RunType
  <2> QED
    BY <2>2, <2>3
<1>4. CASE LeaseLost(w) \/ PersistRefused(w)
  BY <1>4, CalmRows, RunEnds DEF LeaseLost, PersistRefused, storeVars
<1>5. CASE PersistRetry(w)
  <2>1. j \in Job /\ t \in Token
    BY <1>1, <1>5 DEF PersistRetry
  <2>2. RetryPhase(w) \subseteq Phase
    BY DEF RetryPhase, Phase
  <2> QED
    BY <1>5, <2>1, <2>2, RetryCalm, RunEnds DEF PersistRetry
<1>6. CASE \/ ShortCircuit(w) \/ FailEarly(w) \/ PersistAnswer(w)
           \/ PersistError(w) \/ PersistRelease(w) \/ PersistCanceled(w)
  <2>1. j \in Job /\ t \in Token
    BY <1>1, <1>6 DEF ShortCircuit, Rescued, FailEarly, PersistAnswer, PersistError,
                      PersistRelease, PersistCanceled
  <2>2. \/ StoreAnswerResult(j, t)
        \/ \E s \in {"error", "needs_followup"} : StoreErrorResult(j, t, s)
        \/ StoreCanceledResult(j, t)
        \/ ReleaseForWait(j, t)
    BY <1>6 DEF ShortCircuit, FailEarly, PersistAnswer, PersistError, PersistRelease,
                PersistCanceled
  <2>3. EndRun(w)
    BY <1>6 DEF ShortCircuit, FailEarly, PersistAnswer, PersistError, PersistRelease,
                PersistCanceled
  <2> QED
    BY <2>1, <2>2, <2>3, StoreCalm, RunEnds
<1> QED
  BY <1>2, <1>3, <1>4, <1>5, <1>6 DEF RunStep, Persist

LEMMA FaultCalm ==
  ASSUME Inv, WorkerTypeOK, NEW w \in Worker, FaultStep(w)
  PROVE  CalmAll /\ RunsGoOn
<1>1. RunsGoOn
  BY DEF FaultStep, Crash, HeartbeatDies, Stall, SetRun, Idle, RunsGoOn, OnTheWay,
         WorkerTypeOK, RunType
<1>2. CASE UNCHANGED row
  BY <1>1, <1>2, CalmRows
<1>3. CASE Stall(w)
  <2>1. run[w].job \in Job
    BY <1>3 DEF Stall, WorkerTypeOK
  <2> QED
    BY <1>1, <1>3, <2>1, OthersCalm DEF Stall
<1> QED
  BY <1>2, <1>3 DEF FaultStep, Crash, HeartbeatDies, TornAnswer, TornResult, storeVars

LEMMA CalmStep ==
  ASSUME Inv, WorkerTypeOK, NoLateInheritance, [Next]_vars
  PROVE  \/ CalmAll /\ RunsGoOn
         \/ \E w \in Worker : FinishExec(w)
         \/ \E w \in Worker, j \in Job, t \in Token : WorkerClaim(w, j, t)
         \/ \E j \in Job : Submit(j)
<1>1. run' = run => RunsGoOn
  BY DEF RunsGoOn
<1>2. ASSUME NEW j \in Job, \/ LeaseElapses(j) \/ Cancel(j) \/ BecomeDue(j)
                            \/ Maintain(j) \/ TornRequest(j)
      PROVE  CalmAll /\ RunsGoOn
  <2>1. run' = run
    BY <1>2 DEF LeaseElapses, Cancel, BecomeDue, Maintain, TornRequest, workerVars
  <2>2. CalmAll
    BY <1>2, OthersCalm DEF LeaseElapses, Cancel, BecomeDue, Maintain, TornRequest
  <2> QED
    BY <1>1, <2>1, <2>2
<1>3. CASE OperatorStep /\ UNCHANGED workerVars
  BY <1>1, <1>3, OperatorCalm DEF workerVars
<1>4. CASE UNCHANGED vars
  BY <1>1, <1>4, CalmRows DEF vars
<1> QED
  BY <1>2, <1>3, <1>4, RunStepCalm, FaultCalm DEF Next

\* What a step leaves of the bindings and the runs.
LEMMA StepBinds ==
  ASSUME Inv, WorkerTypeOK, NoLateInheritance, [Next]_vars
  PROVE  \/ BindingsStay /\ RunsGoOn
         \/ BindingsStay /\ \E w \in Worker, j \in Job, t \in Token : WorkerClaim(w, j, t)
         \/ \E j \in Job : Submit(j)
<1>1. CalmAll => BindingsStay
  BY DEF CalmAll, Calm, BindingsStay
<1>2. ASSUME NEW w \in Worker, FinishExec(w)
      PROVE  BindingsStay /\ RunsGoOn
  <2>1. UNCHANGED row => BindingsStay
    BY DEF BindingsStay
  <2> QED
    BY <1>2, <2>1, FinishBinds, BindRows
<1> QED
  BY <1>1, <1>2, CalmStep, ClaimRows DEF WorkerClaim

LEMMA SubmitBinds ==
  ASSUME Inv, NEW j \in Job, Submit(j)
  PROVE  \E r \in Request :
           /\ row'[j].parent = r.parent
           /\ r.conversation # NoConversation => row'[j].conversation # NoConversation
           /\ \A i \in Job \ {j} : row'[i] = row[i]
<1>1. PICK r \in Request : CreateJob(j, r)
  BY DEF Submit
<1>2. /\ row'[j].parent = r.parent /\ row'[j].conversation = Inherited(r)
      /\ \A i \in Job \ {j} : row'[i] = row[i]
  BY <1>1 DEF CreateJob, Update, NoRow, Inv, StoreTypeOK
<1> QED
  BY <1>2 DEF Inherited

LEMMA FlightStep ==
  ASSUME Inv, WorkerTypeOK, FlightInv, NoLateInheritance, OnlyWaitersSearch,
         [Next]_vars
  PROVE  FlightInv'
BY CalmStep, CalmFlight, FinishFlight, ClaimFlight, SubmitFlight DEF WorkerClaim

LEMMA SendersStep ==
  ASSUME Inv, WorkerTypeOK, PhaseInv, SendersApart, NoLateInheritance, [Next]_vars
  PROVE  SendersApart'
BY CalmStep, CalmSenders, FinishSenders, ClaimSenders, SubmitFlight

\* What the requests tell of conversations stays known.
LEMMA ParentsStep ==
  ASSUME Inv, WorkerTypeOK, ParentsKnown, NoLateInheritance, [Next]_vars, ConversationsKnown
  PROVE  ParentsKnown'
<1>1. CASE BindingsStay
  BY <1>1 DEF ParentsKnown, BindingsStay
<1>2. ASSUME NEW j \in Job, Submit(j)
      PROVE  ParentsKnown'
  BY <1>2, SubmitBinds DEF ParentsKnown, ConversationsKnown
<1> QED
  BY <1>1, <1>2, StepBinds

LEMMA GeminiStep ==
  ASSUME Inv, WorkerTypeOK, GeminiKnown, NoLateInheritance, [Next]_vars, GeminiNamed
  PROVE  GeminiKnown'
<1>1. \A w \in Worker : OnTheWay(run[w]) => run[w].job \in Job
  BY DEF OnTheWay, WorkerTypeOK
<1>2. CASE BindingsStay /\ RunsGoOn
  <2>1. \A w \in Worker : OnTheWay(run'[w]) /\ Kind[run'[w].job] = "gemini_web.ask" =>
                            row'[run'[w].job].conversation # NoConversation
    BY <1>1, <1>2 DEF GeminiKnown, BindingsStay, RunsGoOn
  <2> QED
    BY <1>2, <2>1 DEF GeminiKnown, BindingsStay
<1>3. ASSUME NEW u \in Worker, NEW j \in Job, NEW t \in Token, WorkerClaim(u, j, t)
      PROVE  GeminiKnown'
  <2>1. BindingsStay /\ row[j].status # "absent"
    BY <1>3, ClaimRows DEF WorkerClaim
  <2>2. run'[u].job = j /\ \A w \in Worker : w # u => run'[w] = run[w]
    BY <1>3 DEF WorkerClaim, SetRun, Idle, WorkerTypeOK
  <2>3. \A w \in Worker : OnTheWay(run'[w]) /\ Kind[run'[w].job] = "gemini_web.ask" =>
                            row'[run'[w].job].conversation # NoConversation
    BY <1>1, <2>1, <2>2 DEF GeminiKnown, BindingsStay
  <2> QED
    BY <2>1, <2>3 DEF GeminiKnown, BindingsStay
<1>4. ASSUME NEW j \in Job, Submit(j)
      PROVE  GeminiKnown'
  <2>1. run' = run
    BY <1>4 DEF Submit, workerVars
  <2> QED
    BY <1>1, <1>4, <2>1, SubmitBinds DEF GeminiKnown, GeminiNamed
<1> QED
  BY <1>2, <1>3, <1>4, StepBinds

\* The wait role claims what waits, and what waits goes on waiting.
LEMMA WaitersStep ==
  ASSUME Inv, WorkerTypeOK, PhaseInv, WaitersWait, NoLateInheritance, [Next]_vars
  PROVE  WaitersWait'
<1>1. \A j \in Job : row[j].phase = "wait" => row'[j].phase = "wait"
  BY PhaseStep
<1>2. \A w \in Worker : OnTheWay(run[w]) => run[w].job \in Job
  BY DEF OnTheWay, WorkerTypeOK
<1>3. CASE RunsGoOn
  BY <1>1, <1>2, <1>3 DEF WaitersWait, RunsGoOn
<1>4. ASSUME NEW u \in Worker, NEW j \in Job, NEW t \in Token, WorkerClaim(u, j, t)
      PROVE  WaitersWait'
  <2>1. run'[u].job = j /\ \A w \in Worker : w # u => run'[w] = run[w]
    BY <1>4 DEF WorkerClaim, SetRun, Idle, WorkerTypeOK
  <2>2. Role[u] = "wait" => row[j].phase = "wait"
    BY <1>4 DEF WorkerClaim, RoleTakes
  <2> QED
    BY <1>1, <1>2, <2>1, <2>2 DEF WaitersWait
<1>5. ASSUME NEW j \in Job, Submit(j)
      PROVE  RunsGoOn
  BY <1>5 DEF Submit, workerVars, RunsGoOn
<1> QED
  BY <1>3, <1>4, <1>5, StepBinds

-----------------------------------------------------------------------------
\* The claim's check stays true where only a job that waits is bound to a thread
\* of the sidebar: at most one prompt of a kind is on its way into a conversation.
THEOREM FlightInvariance ==
  Spec /\ []NoLateInheritance /\ []OnlyWaitersSearch => []FlightInv
<1>1. Init => FlightInv
  BY DEF Init, StoreInit, NoRow, FlightInv, Apart, Sending
<1>2. Inv /\ WorkerTypeOK /\ FlightInv /\ NoLateInheritance
        /\ OnlyWaitersSearch /\ [Next]_vars => FlightInv'
  BY FlightStep
<1> QED
  BY <1>1, <1>2, WorkerInvariance, PTL DEF Spec

LEMMA SendersInvariance == Spec /\ []NoLateInheritance => []SendersApart
<1>1. Init => SendersApart
  BY DEF Init, Idle, SendersApart, Sender, OnTheWay
<1>2. Inv /\ WorkerTypeOK /\ PhaseInv /\ SendersApart /\ NoLateInheritance /\ [Next]_vars
        => SendersApart'
  BY SendersStep
<1> QED
  BY <1>1, <1>2, PhaseInvariance, WorkerInvariance, PTL DEF Spec

\* Two workers that hold their leases do not send into one conversation,
\* whatever crashed before, and whatever thread a Gemini run was rebound to or
\* found in the sidebar.
THEOREM OneSendTheorem == Spec /\ []NoLateInheritance => []OneSendPerConversation
<1>1. WorkerTypeOK /\ Inv /\ PhaseInv /\ SendersApart => OneSendPerConversation
  <2> SUFFICES ASSUME WorkerTypeOK, Inv, PhaseInv, SendersApart,
                      NEW v \in Worker, NEW w \in Worker, v # w,
                      run[v].stage = "exec", run[v].phase = "send", Held(v),
                      run[w].stage = "exec", run[w].phase = "send", Held(w),
                      Kind[run[v].job] = Kind[run[w].job],
                      Kind[run[v].job] \in AskKind,
                      row[run[v].job].conversation # NoConversation
               PROVE  row[run[v].job].conversation # row[run[w].job].conversation
    BY DEF OneSendPerConversation
  <2>1. run[v].job \in Job /\ run[w].job \in Job
    BY DEF WorkerTypeOK
  <2>2. row[run[v].job].phase \in Phase /\ row[run[w].job].phase \in Phase
    BY <2>1 DEF Inv, StoreTypeOK, RowType
  <2>3. Sender(v) /\ Sender(w)
    BY <2>2 DEF PhaseInv, Held, Fenced, Sender, OnTheWay, Sending, Phase
  <2> QED
    BY <2>3 DEF SendersApart
<1> QED
  BY <1>1, SendersInvariance, PhaseInvariance, WorkerInvariance, PTL

\* A job whose lease ran out can be claimed again, or the job that keeps it
\* out of their conversation waits for its answer.  A Gemini run that looks for
\* the thread of an ask still in the send phase is excluded: two such asks would
\* exclude each other.
THEOREM ExpiredIsReclaimableTheorem ==
  Spec /\ []NoLateInheritance /\ []OnlyWaitersSearch => []ExpiredIsReclaimable
<1>1. Inv /\ FlightInv => ExpiredIsReclaimable
  <2> SUFFICES ASSUME Inv, FlightInv, NEW j \in Job,
                      row[j].status = "in_progress", row[j].lease = "expired", row[j].due,
                      pause = NoPause, ~hold, ~Claimable(j)
               PROVE  \E i \in Job \ {j} : /\ row[i].conversation = row[j].conversation
                                           /\ row[i].status = "in_progress"
                                           /\ row[i].lease = "live" \/ row[i].phase = "wait"
    BY DEF ExpiredIsReclaimable
  <2>1. Unhindered(j) /\ HasAttempt(j) /\ Available(j)
    BY DEF Unhindered, PauseClauseAllows, NoPause, HasAttempt, Available
  <2>2. /\ row[j].phase # "wait" /\ Kind[j] \in AskKind
        /\ row[j].conversation # NoConversation /\ ~ConversationFree(j)
    BY <2>1 DEF Claimable, SingleFlight
  <2>3. PICK i \in Job \ {j} : /\ Kind[i] = Kind[j]
                               /\ row[i].status = "in_progress"
                               /\ row[i].conversation = row[j].conversation
    BY <2>2 DEF ConversationFree
  <2>4. row[i].phase \in Phase /\ row[j].phase \in Phase
    BY DEF Inv, StoreTypeOK, RowType
  <2>5. row[i].phase = "wait"
    BY <2>2, <2>3, <2>4 DEF FlightInv, Apart, Sending, Phase
  <2> QED
    BY <2>3, <2>5
<1> QED
  BY <1>1, FlightInvariance, WorkerInvariance, PTL

\* Where follow-ups name their conversation, nothing is taken over after a
\* claim.  Where Gemini asks name theirs too, or each worker either sends or
\* waits, only a job that waits is looked for, and both properties hold.
THEOREM KnownConversationsTheorem ==
  ASSUME ConversationsKnown, GeminiNamed \/ RolesApart
  PROVE  Spec => [](OneSendPerConversation /\ ExpiredIsReclaimable)
<1>1. Spec => []NoLateInheritance
  <2>1. Init => ParentsKnown
    BY DEF Init, StoreInit, NoRow, ParentsKnown
  <2>2. WorkerTypeOK /\ ParentsKnown => NoLateInheritance
    BY DEF WorkerTypeOK, ParentsKnown, NoLateInheritance, LateParent
  <2>3. Inv /\ WorkerTypeOK /\ ParentsKnown /\ [Next]_vars => ParentsKnown'
    BY <2>2, ParentsStep
  <2> QED
    BY <2>1, <2>2, <2>3, WorkerInvariance, PTL DEF Spec
<1>2. ASSUME GeminiNamed
      PROVE  Spec => []OnlyWaitersSearch
  <2>1. Init => GeminiKnown
    BY DEF Init, StoreInit, NoRow, Idle, GeminiKnown, OnTheWay
  <2>2. GeminiKnown => OnlyWaitersSearch
    BY DEF GeminiKnown, OnlyWaitersSearch, Searches, OnTheWay
  <2>3. Inv /\ WorkerTypeOK /\ GeminiKnown /\ NoLateInheritance /\ [Next]_vars => GeminiKnown'
    BY <1>2, GeminiStep
  <2> QED
    BY <1>1, <2>1, <2>2, <2>3, WorkerInvariance, PTL DEF Spec
<1>3. ASSUME RolesApart
      PROVE  Spec => []OnlyWaitersSearch
  <2>1. Init => WaitersWait
    BY DEF Init, Idle, WaitersWait, OnTheWay
  <2>2. WaitersWait => OnlyWaitersSearch
    BY <1>3, WorkerAssumption DEF RolesApart, WaitersWait, OnlyWaitersSearch, Searches, OnTheWay
  <2>3. Inv /\ WorkerTypeOK /\ PhaseInv /\ WaitersWait /\ NoLateInheritance /\ [Next]_vars
          => WaitersWait'
    BY WaitersStep
  <2> QED
    BY <1>1, <2>1, <2>2, <2>3, PhaseInvariance, WorkerInvariance, PTL DEF Spec
<1>4. Spec => []OnlyWaitersSearch
  BY <1>2, <1>3
<1> QED
  BY <1>1, <1>4, OneSendTheorem, ExpiredIsReclaimableTheorem, PTL
=============================================================================

----------------------------- MODULE Submission -----------------------------
(***************************************************************************)
(* How a job gets into the store: POST /v1/jobs (api/routes_jobs.py), the  *)
(* controls of registered low-level clients (core/ask_guard.py), and the   *)
(* idempotency record that create_job writes with the row                  *)
(* (core/idempotency.py).  A submission is one BEGIN IMMEDIATE             *)
(* transaction; one that is refused is rolled back, so only its success is *)
(* a step.  What makes it hard is that the checks count and compare jobs   *)
(* that go on living: they cool down, are claimed again, end.              *)
(*                                                                         *)
(* The reply to a known key (its job, or a collision) changes nothing.     *)
(***************************************************************************)
EXTENDS JobStore

CONSTANTS IdemKey,       \* Idempotency-Key headers
          Client,        \* registered low-level clients
          Internal,      \* consult, advisor, controller: create_job itself
          Prompt,        \* prompt fingerprints
          MaxInFlight,   \* max_in_flight_jobs of every client
          MaxChatgpt,    \* max_in_flight_by_kind["chatgpt_web.ask"]
          NoRecord, NoAsk

\* What is hashed: kind, input and params, the client among them (ask_guard).
Ask == [kind : AskKind \cup OtherKind, request : Request, prompt : Prompt,
        client : Client \cup {Internal}]

RecordType == [job : Job, ask : Ask]

ASSUME SubmissionAssumption ==
  /\ Internal \notin Client
  /\ MaxInFlight \in Nat \ {0} /\ MaxChatgpt \in Nat \ {0}
  /\ NoRecord \notin RecordType
  /\ NoAsk \notin Ask

VARIABLES idem,    \* the idempotency table
          asked,   \* the jobs table: kind, client_json, params_json
          recent   \* created_at is within the dedupe window of its client

submissionVars == <<row, files, pause, hold, idem, asked, recent>>

SubmissionInit == /\ StoreInit
                  /\ idem = [k \in IdemKey |-> NoRecord]
                  /\ asked = [j \in Job |-> NoAsk]
                  /\ recent = [j \in Job |-> FALSE]

-----------------------------------------------------------------------------
(* The checks of the route, before create_job looks for the key.           *)

Running(j) == row[j].status \in {"queued", "in_progress"}
AsksOf(c) == {j \in Job : asked[j] # NoAsk /\ asked[j].client = c /\ Kind[j] \in AskKind}

\* _enforce_chatgpt_frontend_submit_not_blocked: a known key passes.  A rate
\* limit of the provider's frontend refuses like the hold, at any time.
Gated(k, a) == a.kind = "chatgpt_web.ask" /\ hold /\ idem[k] = NoRecord

\* _prevalidate_web_ask_create_job_semantics
ParentFits(a) ==
  a.request.parent # NoJob /\ a.request.conversation = NoConversation =>
    /\ row[a.request.parent].status # "absent"
    /\ Kind[a.request.parent] \in AskKind => Kind[a.request.parent] = a.kind
    /\ ~ /\ Kind[a.request.parent] = a.kind /\ ~a.request.allowQueue
         /\ Running(a.request.parent)

\* Mutant: only a job that is under way counts.
DuplicateUnderWay(a) ==
  \E j \in AsksOf(a.client) : /\ Kind[j] = a.kind /\ asked[j].prompt = a.prompt
                              /\ recent[j] /\ Running(j)

\* The client asked this within the window, and it neither failed nor was
\* canceled.
Duplicate(a) ==
  \E j \in AsksOf(a.client) : /\ Kind[j] = a.kind /\ asked[j].prompt = a.prompt
                              /\ recent[j]
                              /\ row[j].status \notin {"error", "canceled"}

Crowded(a) ==
  LET running == {j \in AsksOf(a.client) : Running(j)}
  IN \/ Cardinality(running) >= MaxInFlight
     \/ /\ a.kind = "chatgpt_web.ask"
        /\ Cardinality({j \in running : Kind[j] = a.kind}) >= MaxChatgpt

\* The request gets as far as create_job.
Accepts(k, a) ==
  a.client # Internal =>
    /\ ~Gated(k, a)
    /\ a.kind \in AskKind => ParentFits(a) /\ ~Duplicate(a) /\ ~Crowded(a)

-----------------------------------------------------------------------------
(* create_job with its record.                                             *)

Stamp(k, j, a) == /\ idem' = [idem EXCEPT ![k] = [job |-> j, ask |-> a]]
                  /\ asked' = [asked EXCEPT ![j] = a]
                  /\ recent' = [recent EXCEPT ![j] = a.client # Internal]

\* Mutants: the record replaces an older one; the record of a refused request
\* stays; only the request is hashed.
SubmitReplacing(k, j, a) ==
  /\ Accepts(k, a) /\ a.kind = Kind[j]
  /\ CreateJob(j, a.request)
  /\ Stamp(k, j, a)

SubmitLeavingRecord(k, j, a) ==
  /\ Accepts(k, a) /\ a.kind = Kind[j] /\ idem[k] = NoRecord
  /\ \/ CreateJob(j, a.request) /\ Stamp(k, j, a)
     \/ /\ row[j].status = "absent" /\ a.request.parent # NoJob
        /\ idem' = [idem EXCEPT ![k] = [job |-> j, ask |-> a]]
        /\ UNCHANGED <<storeVars, asked, recent>>

SubmitHashingLess(k, j, a) ==
  /\ Accepts(k, a) /\ a.kind = Kind[j] /\ idem[k] = NoRecord
  /\ CreateJob(j, a.request)
  /\ idem' = [idem EXCEPT ![k] = [job |-> j, ask |-> a.request]]
  /\ asked' = [asked EXCEPT ![j] = a]
  /\ recent' = [recent EXCEPT ![j] = a.client # Internal]

\* begin inserts the record, create_job the row; when it refuses, the record
\* is deleted again.
Submit(k, j, a) ==
  /\ Accepts(k, a) /\ a.kind = Kind[j] /\ idem[k] = NoRecord
  /\ CreateJob(j, a.request)
  /\ Stamp(k, j, a)

WindowElapses(j) == /\ recent[j]
                    /\ recent' = [recent EXCEPT ![j] = FALSE]
                    /\ UNCHANGED <<storeVars, idem, asked>>

\* Everything else that happens to jobs.
LifeStep == /\ \/ \E j \in Job, t \in Token : ClaimNextJob(j, t) \/ LeasedOp(j, t)
               \/ \E j \in Job : JobLife(j)
               \/ OperatorStep
            /\ UNCHANGED <<idem, asked, recent>>

SubmissionNext == \/ \E k \in IdemKey, j \in Job, a \in Ask : Submit(k, j, a)
                  \/ \E j \in Job : WindowElapses(j)
                  \/ LifeStep

SubmissionSpec == SubmissionInit /\ [][SubmissionNext]_submissionVars

-----------------------------------------------------------------------------
(* Properties.                                                             *)

\* Records, asks and ages have their types.
SubmissionTypeOK == /\ StoreTypeOK
                    /\ idem \in [IdemKey -> RecordType \cup {NoRecord}]
                    /\ asked \in [Job -> Ask \cup {NoAsk}]
                    /\ recent \in [Job -> BOOLEAN]

\* One job per key and one key per job: a record leads to a row of its own
\* that was made from the request it hashes, and no row lacks its record,
\* however many submissions were refused in between (begin, create_job).
OneJobPerKey ==
  /\ \A k \in IdemKey : idem[k] # NoRecord =>
       /\ row[idem[k].job].status # "absent"
       /\ asked[idem[k].job] = idem[k].ask
       /\ \A i \in IdemKey \ {k} : idem[i] # NoRecord => idem[i].job # idem[k].job
  /\ \A j \in Job : row[j].status # "absent" =>
       \E k \in IdemKey : idem[k] # NoRecord /\ idem[k].job = j

\* What a key stands for never changes, whatever becomes of the job.
KeyBound == [][\A k \in IdemKey : idem[k] # NoRecord => idem'[k] = idem[k]]_submissionVars

\* Within the window a client has no two asks of one prompt that neither
\* failed nor were canceled: that the check looks once is enough, because no
\* job comes back from error or canceled (the dedupe window of ask_guard).
NoDuplicateAsk ==
  \A i, j \in Job : /\ i # j /\ Kind[i] = Kind[j] /\ Kind[j] \in AskKind
                    /\ asked[i] # NoAsk /\ asked[j] # NoAsk
                    /\ asked[i].client = asked[j].client /\ asked[j].client # Internal
                    /\ asked[i].prompt = asked[j].prompt
                    /\ recent[i] /\ recent[j]
                    => \/ row[i].status \in {"error", "canceled"}
                       \/ row[j].status \in {"error", "canceled"}

\* What the sender of a key learns by it.
KeyVerdict(k) == IF idem[k] = NoRecord THEN "absent" ELSE Verdict(idem[k].job)
KeyAnswer(k) == IF idem[k] = NoRecord THEN NoToken ELSE VisibleAnswer(idem[k].job)

ByKey == INSTANCE JobVerdict WITH
           Job <- IdemKey,
           verdict <- [k \in IdemKey |-> KeyVerdict(k)],
           answer <- [k \in IdemKey |-> KeyAnswer(k)]

\* A client that lost the reply to its request has nothing but the key.  The
\* promise of JobVerdict holds for keys too: what was asked under a key is
\* decided at most once, and its answer is there from then on (begin with a
\* known key replies with its job; create_job, GET /v1/jobs).
KeyVerdictSpec == ByKey!Spec
=============================================================================

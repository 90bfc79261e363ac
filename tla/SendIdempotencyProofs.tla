------------------------ MODULE SendIdempotencyProofs ------------------------
(***************************************************************************)
(* The driver's record keeps its promises for any number of executors,     *)
(* calls, requests and faults.  The properties alone are not inductive:    *)
(* they rest on what a call in flight and a run in progress know of the    *)
(* record they started from (SendInv).                                     *)
(***************************************************************************)
EXTENDS SendIdempotency, TLAPS

-----------------------------------------------------------------------------
(* What the two record operations give.                                    *)

LEMMA BegunType ==
  ASSUME NEW r \in RecordType, NEW tool, NEW p \in Payload
  PROVE  Begun(r, tool, p) \in RecordType
<1>1. NewRecord(p) \in RecordType
  BY DEF NewRecord, RecordType, Status, Result, NoResult, Answer, NoUrl
<1>2. [r EXCEPT !.status = "in_progress", !.age = 0, !.mine = TRUE] \in RecordType
  BY DEF RecordType, Status
<1> QED
  BY <1>1, <1>2 DEF Begun

LEMMA UpdatedType ==
  ASSUME NEW r \in RecordType, NEW tool, NEW status \in Status \cup {"keep"}, NEW sent,
         NEW url \in Int, NEW result \in Result
  PROVE  Updated(r, tool, status, sent, url, result) \in RecordType
<1>1. r.result \in Result /\ r.result.answer \in Answer
  BY DEF RecordType, Result
<1>2. [result EXCEPT !.answer = IF @ > r.result.answer THEN @ ELSE r.result.answer] \in Result
  BY <1>1 DEF Result
<1> QED
  BY <1>1, <1>2 DEF Updated, KeptUrl, KeptResult, RecordType

\* Nothing that is known is given up by an update, and what is new was given.
Kept(r, u, status, sent, url, result) ==
  /\ r.sent => u.sent
  /\ u.sent => r.sent \/ sent = "yes"
  /\ r.status = "completed" => u.status = "completed"
  /\ r.status # "absent" => u.status # "absent"
  /\ u.status = "completed" => r.status = "completed" \/ status = "completed"
  /\ r.result # NoResult \/ result # NoResult => u.result # NoResult
  /\ IsThread(r.url) => u.url = r.url
  /\ r.url # NoUrl \/ url # NoUrl => u.url # NoUrl
  /\ u.result.answer >= r.result.answer
  /\ u.hash = r.hash

LEMMA UpdatedKeeps ==
  ASSUME NEW r \in RecordType, NEW tool, NEW status \in Status \cup {"keep"}, NEW sent,
         NEW url \in Int, NEW result \in Result
  PROVE  Kept(r, Updated(r, tool, status, sent, url, result), status, sent, url, result)
<1> DEFINE longer == [result EXCEPT !.answer = IF @ > r.result.answer THEN @
                                              ELSE r.result.answer]
           u == Updated(r, tool, status, sent, url, result)
<1>1. r.result.answer \in Answer /\ result.answer \in Answer
  BY DEF RecordType, Result
<1>2. /\ longer = [status |-> result.status, clicked |-> result.clicked,
                   answer |-> longer.answer]
      /\ longer.answer = IF result.answer > r.result.answer THEN result.answer
                         ELSE r.result.answer
  BY <1>1 DEF Result
<1>3. result # NoResult => longer # NoResult
  BY <1>1, <1>2 DEF NoResult, Result, Answer
<1>4. u.result = IF result = NoResult THEN r.result ELSE longer
  BY DEF Updated, KeptResult, RecordType
<1>5. u.result.answer >= r.result.answer
  BY <1>1, <1>2, <1>4 DEF Answer
<1>6. r.result # NoResult \/ result # NoResult => u.result # NoResult
  BY <1>3, <1>4
<1>7. /\ u.sent = (r.sent \/ sent = "yes")
      /\ u.status = IF status = "keep" \/ r.status = "completed" THEN r.status ELSE status
      /\ u.url = KeptUrl(r.url, url, tool)
      /\ u.hash = r.hash
  BY DEF Updated, RecordType
<1>8. IsThread(r.url) => r.url # NoUrl
  BY DEF IsThread, NoUrl, NamedThread
<1>9. IsThread(url) => url # NoUrl
  BY DEF IsThread, NoUrl, NamedThread
<1> QED
  BY <1>5, <1>6, <1>7, <1>8, <1>9 DEF Kept, KeptUrl, RecordType, Status

-----------------------------------------------------------------------------
(* The invariant.                                                          *)

\* A record that does not exist says nothing, a sent one has a URL and an
\* owner of the prompt, a completed one a result.
RecordKnows(k) ==
  /\ record[k].status = "absent" =>
       ~record[k].sent /\ record[k].url = NoUrl /\ record[k].result = NoResult
  /\ record[k].sent => record[k].url # NoUrl
  /\ record[k].status = "completed" => record[k].result # NoResult
  /\ record[k].sent => \/ \E i \in DOMAIN prompts : prompts[i] = k
                       \/ QuestionMayShow

\* A run works on a record that exists; one that may still type rests on a
\* reading that showed no prompt, one that resumes on a sent record, and one
\* that will report a prompt has typed it or found it.
RunKnows(s) ==
  /\ runner[s].stage # "idle" => record[runner[s].key].status # "absent"
  /\ runner[s].stage \in {"idle", "closing", "raised"} => ~Typed(s)
  /\ runner[s].stage \in {"queued", "compose", "clicked"} => runner[s].informed
  /\ runner[s].stage = "resume" => record[runner[s].key].sent
  /\ runner[s].stage \in {"sent", "waiting"} => Typed(s) \/ QuestionMayShow
  /\ runner[s].stage = "clicked" /\ ~Chatgpt => Typed(s)
  /\ Typed(s) => \E i \in DOMAIN prompts : prompts[i] = runner[s].key

\* A call that has read the record: sent stays sent, and only an unsent record
\* is given out for execution.
CallKnows(c) ==
  /\ call[c].pc \in {"idle", "fallback"} => call[c].informed
  /\ call[c].pc \in {"begun", "await", "raised"} => record[call[c].key].status # "absent"
  /\ call[c].pc = "begun" =>
       /\ call[c].sent => record[call[c].key].sent
       /\ ~call[c].sent => call[c].informed
       /\ call[c].execute => ~call[c].sent
  /\ ~Chatgpt /\ call[c].pc # "await" => runner[c].stage = "idle"

PromptsPaid == Len(prompts) <= (IF Outstanding THEN 1 ELSE 0) + lost + stale

SendInv == /\ SendTypeOK
           /\ \A k \in Key : RecordKnows(k)
           /\ \A s \in Slot : RunKnows(s)
           /\ \A c \in Caller : CallKnows(c)
           /\ PromptsPaid

-----------------------------------------------------------------------------
(* What a step leaves alone.                                               *)

RecordsGrow == \A k \in Key : /\ record[k].sent => record'[k].sent
                              /\ record[k].status # "absent" => record'[k].status # "absent"

\* Nothing is taken back from the conversation, whoever typed it.
PageGrows == /\ prompts' = prompts \/ \E k \in Key : prompts' = Append(prompts, k)
             /\ asked' = asked \/ asked' = TRUE

LEMMA PromptsStay ==
  ASSUME prompts \in Seq(Key), asked \in BOOLEAN, job' = job, PageGrows
  PROVE  /\ prompts' \in Seq(Key) /\ asked' \in BOOLEAN
         /\ QuestionMayShow => QuestionMayShow'
         /\ \A k \in Key : (\E i \in DOMAIN prompts : prompts[i] = k)
                             => \E i \in DOMAIN prompts' : prompts'[i] = k
<1>1. ASSUME NEW k \in Key, prompts' = Append(prompts, k)
      PROVE  /\ prompts' \in Seq(Key) /\ prompts' # << >>
             /\ \A i \in DOMAIN prompts : i \in DOMAIN prompts' /\ prompts'[i] = prompts[i]
  BY <1>1
<1>2. /\ prompts' \in Seq(Key) /\ (prompts # << >> => prompts' # << >>)
      /\ \A k \in Key : (\E i \in DOMAIN prompts : prompts[i] = k)
                          => \E i \in DOMAIN prompts' : prompts'[i] = k
  BY <1>1 DEF PageGrows
<1>3. asked' \in BOOLEAN /\ (asked => asked')
  <2>1. asked' = asked \/ asked' = TRUE
    BY DEF PageGrows
  <2> QED
    BY <2>1, Zenon
<1>4. QuestionMayShow => QuestionMayShow'
  BY <1>2, <1>3 DEF QuestionMayShow, Chatgpt
<1> QED
  BY <1>2, <1>3, <1>4

LEMMA RunFrame ==
  ASSUME SendInv, NEW s \in Slot, runner'[s] = runner[s], job' = job,
         RecordsGrow, PageGrows
  PROVE  RunKnows(s)'
<1>1. runner[s].key \in Key
  BY DEF SendInv, SendTypeOK, RunnerType
<1>2. RunKnows(s) /\ prompts \in Seq(Key) /\ asked \in BOOLEAN
  BY DEF SendInv, SendTypeOK
<1> QED
  BY <1>1, <1>2, PromptsStay DEF RunKnows, Typed, Chatgpt, RecordsGrow

LEMMA CallFrame ==
  ASSUME SendInv, NEW c \in Caller, call'[c] = call[c], job' = job, RecordsGrow,
         runner'[c].stage = runner[c].stage \/ runner'[c].stage = "idle"
  PROVE  CallKnows(c)'
<1>1. call[c].key \in Key /\ CallKnows(c)
  BY DEF SendInv, SendTypeOK, CallType
<1> QED
  BY <1>1 DEF CallKnows, Chatgpt, RecordsGrow

LEMMA PaidFrame ==
  ASSUME SendInv, prompts' = prompts, stale' = stale, lost' \in {lost, lost + 1},
         Outstanding /\ lost' = lost => Outstanding'
  PROVE  PromptsPaid'
<1>1. Len(prompts) \in Nat /\ lost \in Nat /\ stale \in Nat
  BY DEF SendInv, SendTypeOK
<1> QED
  BY <1>1 DEF SendInv, PromptsPaid

\* A step that touches no record.
LEMMA RecordFrame ==
  ASSUME SendInv, record' = record, job' = job, PageGrows
  PROVE  RecordsGrow /\ \A k \in Key : RecordKnows(k)'
<1>1. prompts \in Seq(Key) /\ asked \in BOOLEAN /\ \A k \in Key : RecordKnows(k)
  BY DEF SendInv, SendTypeOK
<1> QED
  BY <1>1, PromptsStay DEF RecordKnows, RecordsGrow

\* An update of a record that exists: what it reports must be true.
LEMMA StoreStep ==
  ASSUME SendInv, NEW n \in Key, record[n].status # "absent",
         NEW status \in Status \cup {"keep"}, NEW sent, NEW url \in Int, NEW result \in Result,
         Store(n, status, sent, url, result), UNCHANGED <<job, asked, prompts>>,
         sent = "yes" => url # NoUrl \/ record[n].sent,
         sent = "yes" => \/ \E i \in DOMAIN prompts : prompts[i] = n
                         \/ QuestionMayShow
                         \/ record[n].sent,
         status = "completed" => result # NoResult
  PROVE  /\ RecordsGrow
         /\ record' \in [Key -> RecordType] /\ faults' \in Nat
         /\ \A k \in Key : RecordKnows(k)'
<1> DEFINE u == Updated(record[n], job.tool, status, sent, url, result)
<1>1. record[n] \in RecordType /\ faults \in Nat /\ prompts \in Seq(Key)
      /\ record \in [Key -> RecordType]
  BY DEF SendInv, SendTypeOK
<1>2. \A k \in Key : RecordKnows(k)
  BY DEF SendInv
<1>3. CASE record' = record /\ faults' = faults + 1
  BY <1>1, <1>3, RecordFrame DEF PageGrows
<1>4. CASE record' = [record EXCEPT ![n] = u] /\ faults' = faults
  <2>1. u \in RecordType
    BY <1>1, UpdatedType
  <2>2. Kept(record[n], u, status, sent, url, result)
    BY <1>1, UpdatedKeeps
  <2> HIDE DEF u
  <2>3. record'[n] = u /\ \A k \in Key : k # n => record'[k] = record[k]
    BY <1>1, <1>4
  <2>4. RecordsGrow
    BY <2>2, <2>3 DEF RecordsGrow, Kept
  <2>5. \A k \in Key : k = n => RecordKnows(k)'
    <3>1. RecordKnows(n)
      BY <1>2
    <3>2. u.status # "absent"
      BY <2>2 DEF Kept
    <3>3. u.sent => u.url # NoUrl
      BY <2>2, <3>1 DEF Kept, RecordKnows
    <3>4. u.status = "completed" => u.result # NoResult
      BY <2>2, <3>1 DEF Kept, RecordKnows
    <3>5. u.sent => (\E i \in DOMAIN prompts : prompts[i] = n) \/ QuestionMayShow
      BY <2>2, <3>1 DEF Kept, RecordKnows
    <3> QED
      BY <2>3, <3>2, <3>3, <3>4, <3>5 DEF RecordKnows, QuestionMayShow, Chatgpt
  <2>6. \A k \in Key : k # n => RecordKnows(k)'
    BY <1>2, <2>3 DEF RecordKnows, QuestionMayShow, Chatgpt
  <2>7. record' \in [Key -> RecordType]
    BY <1>1, <1>4, <2>1
  <2> QED
    BY <1>1, <1>4, <2>4, <2>5, <2>6, <2>7
<1>5. \/ record' = [record EXCEPT ![n] = u] /\ faults' = faults
      \/ record' = record /\ faults' = faults + 1
  BY DEF Store
<1> QED
  <2>1. CASE record' = record /\ faults' = faults + 1
    BY <1>1, <1>3, <2>1
  <2> QED
    BY <1>4, <1>5, <2>1

\* The same on behalf of a run, which has typed what it reports.
LEMMA RunStores ==
  ASSUME SendInv, NEW s \in Slot, runner[s].stage # "idle",
         NEW status \in Status \cup {"keep"}, NEW sent, NEW url \in Int, NEW result \in Result,
         Store(runner[s].key, status, sent, url, result), UNCHANGED <<job, asked, prompts>>,
         sent = "yes" => url # NoUrl \/ record[runner[s].key].sent,
         sent = "yes" => \/ Typed(s) \/ QuestionMayShow
                         \/ record[runner[s].key].sent,
         status = "completed" => result # NoResult
  PROVE  /\ RecordsGrow
         /\ record' \in [Key -> RecordType] /\ faults' \in Nat
         /\ \A k \in Key : RecordKnows(k)'
<1> DEFINE n == runner[s].key
<1>1. n \in Key
  BY DEF SendInv, SendTypeOK, RunnerType
<1>2. record[n].status # "absent" /\ (Typed(s) => \E i \in DOMAIN prompts : prompts[i] = n)
  BY DEF SendInv, RunKnows
<1>3. Store(n, status, sent, url, result) /\ (sent = "yes" => url # NoUrl \/ record[n].sent)
  OBVIOUS
<1>4. sent = "yes" => \/ \E i \in DOMAIN prompts : prompts[i] = n
                      \/ QuestionMayShow
                      \/ record[n].sent
  BY <1>2
<1> HIDE DEF n
<1> QED
  BY <1>1, <1>2, <1>3, <1>4, StoreStep

\* One run changed, the calls did not.
LEMMA OneRun ==
  ASSUME SendInv, NEW s \in Slot, NEW r \in RunnerType, SetRunner(s, r),
         call' = call, job' = job, calls' = calls,
         runner[s].stage # "idle", r.stage # "idle",
         record' \in [Key -> RecordType], RecordsGrow, PageGrows,
         \A k \in Key : RecordKnows(k)',
         lost' \in Nat, stale' \in Nat, faults' \in Nat,
         RunKnows(s)', PromptsPaid'
  PROVE  SendInv'
<1>1. /\ runner' \in [Slot -> RunnerType]
      /\ runner'[s] = r /\ \A t \in Slot : t # s => runner'[t] = runner[t]
  BY DEF SendInv, SendTypeOK, SetRunner
<1>2. \A t \in Slot : RunKnows(t)'
  BY <1>1, RunFrame
<1>3. \A c \in Caller : CallKnows(c)'
  <2> TAKE c \in Caller
  <2>1. CASE c # s
    BY <1>1, <2>1, CallFrame DEF Slot
  <2>2. CASE c = s
    <3>1. CallKnows(c) /\ call[c].key \in Key
      BY DEF SendInv, SendTypeOK, CallType
    <3> QED
      BY <1>1, <2>2, <3>1 DEF CallKnows, Chatgpt, RecordsGrow
  <2> QED
    BY <2>1, <2>2
<1>4. SendTypeOK'
  BY <1>1, PromptsStay DEF SendInv, SendTypeOK
<1> QED
  BY <1>2, <1>3, <1>4 DEF SendInv

LEMMA PageUrls ==
  ASSUME SendInv, NEW s \in Slot, NEW u \in PageUrl(s)
  PROVE  u \in Int /\ u # NoUrl
<1>1. runner[s].thread \in Nat
  BY DEF SendInv, SendTypeOK, RunnerType
<1> QED
  BY <1>1 DEF PageUrl, NoUrl, LandingPage, NamedThread

\* A step of a run that keeps what it typed keeps a prompt outstanding.
LEMMA StillOutstanding ==
  ASSUME SendInv, NEW s \in Slot, NEW r, SetRunner(s, r), r.thread = runner[s].thread,
         RecordsGrow, Outstanding
  PROVE  Outstanding'
<1>1. runner'[s] = r /\ \A t \in Slot : t # s => runner'[t] = runner[t]
  BY DEF SendInv, SendTypeOK, SetRunner
<1> QED
  BY <1>1 DEF Outstanding, Recorded, Typed, RecordsGrow

-----------------------------------------------------------------------------
(* The steps of a run.                                                     *)

LEMMA OpenPagePreserves ==
  ASSUME SendInv, NEW s \in Slot, OpenPage(s)
  PROVE  SendInv'
<1> DEFINE r == [runner[s] EXCEPT !.stage = "compose"]
<1>1. /\ SetRunner(s, r) /\ runner[s].stage = "queued"
      /\ UNCHANGED <<job, asked, record, call, prompts, lost, stale, calls, faults>>
  BY DEF OpenPage
<1>2. runner[s] \in RunnerType /\ RunKnows(s)
  BY DEF SendInv, SendTypeOK
<1>3. r \in RunnerType /\ r.stage = "compose" /\ r.key = runner[s].key
      /\ r.thread = runner[s].thread /\ r.informed = runner[s].informed
  BY <1>2 DEF RunnerType
<1> HIDE DEF r
<1>4. runner'[s] = r
  BY <1>1 DEF SendInv, SendTypeOK, SetRunner
<1>5. RecordsGrow /\ PageGrows /\ \A k \in Key : RecordKnows(k)'
  BY <1>1, RecordFrame DEF PageGrows
<1>6. RunKnows(s)'
  BY <1>1, <1>2, <1>3, <1>4 DEF RunKnows, Typed, Chatgpt
<1>7. PromptsPaid'
  BY <1>1, <1>3, <1>5, StillOutstanding, PaidFrame
<1>8. record' \in [Key -> RecordType] /\ lost' \in Nat /\ stale' \in Nat /\ faults' \in Nat
  BY <1>1 DEF SendInv, SendTypeOK
<1> QED
  BY <1>1, <1>3, <1>5, <1>6, <1>7, <1>8, OneRun

LEMMA GuardSkipsPreserves ==
  ASSUME SendInv, NEW s \in Slot, GuardSkips(s)
  PROVE  SendInv'
<1> DEFINE r == [runner[s] EXCEPT !.stage = "sent"]
<1>1. /\ SetRunner(s, r) /\ runner[s].stage = "compose"
      /\ QuestionMayShow
      /\ Store(runner[s].key, "keep", "yes", NamedThread, NoResult)
      /\ UNCHANGED <<job, asked, call, prompts, lost, stale, calls>>
  BY DEF GuardSkips
<1>2. runner[s] \in RunnerType /\ RunKnows(s)
  BY DEF SendInv, SendTypeOK
<1>3. r \in RunnerType /\ r.stage = "sent" /\ r.key = runner[s].key
      /\ r.thread = runner[s].thread
  BY <1>2 DEF RunnerType
<1> HIDE DEF r
<1>4. runner'[s] = r
  BY <1>1 DEF SendInv, SendTypeOK, SetRunner
<1>5. NoResult \in Result /\ NamedThread \in Int /\ NamedThread # NoUrl
  BY DEF NoResult, Result, Answer, NamedThread, NoUrl
<1>6. /\ RecordsGrow /\ record' \in [Key -> RecordType] /\ faults' \in Nat
      /\ \A k \in Key : RecordKnows(k)'
  <2>1. /\ runner[s].stage # "idle" /\ UNCHANGED <<job, asked, prompts>>
        /\ "keep" \in Status \cup {"keep"} /\ "keep" # "completed"
    BY <1>1
  <2> QED
    BY <1>1, <1>5, <2>1, RunStores
<1>7. RunKnows(s)'
  BY <1>1, <1>2, <1>3, <1>4, <1>6 DEF RunKnows, Typed, Chatgpt, RecordsGrow, RunnerType,
     QuestionMayShow
<1>8. PromptsPaid'
  BY <1>1, <1>3, <1>6, StillOutstanding, PaidFrame
<1>9. lost' \in Nat /\ stale' \in Nat /\ PageGrows
  BY <1>1 DEF SendInv, SendTypeOK, PageGrows
<1> QED
  BY <1>1, <1>3, <1>6, <1>7, <1>8, <1>9, OneRun

LEMMA ClickPreserves ==
  ASSUME SendInv, NEW s \in Slot, Click(s)
  PROVE  SendInv'
<1> DEFINE r == [runner[s] EXCEPT !.stage = "clicked", !.clicked = TRUE,
                                  !.thread = Len(prompts) + 1]
<1>1. /\ SetRunner(s, r) /\ runner[s].stage \in {"compose", "clicked"}
      /\ prompts' = Append(prompts, runner[s].key)
      /\ stale' = IF Outstanding /\ runner[s].informed THEN stale + 1 ELSE stale
      /\ UNCHANGED <<job, asked, record, call, lost, calls, faults>>
  BY DEF Click
<1>2. runner[s] \in RunnerType /\ RunKnows(s) /\ prompts \in Seq(Key) /\ PromptsPaid
      /\ lost \in Nat /\ stale \in Nat
  BY DEF SendInv, SendTypeOK
<1>3. runner[s].key \in Key /\ Len(prompts) \in Nat
  BY <1>2 DEF RunnerType
<1>4. r \in RunnerType /\ r.stage = "clicked" /\ r.key = runner[s].key
      /\ r.thread = Len(prompts) + 1 /\ r.informed = runner[s].informed
  <2>1. r = [runner[s] EXCEPT !.stage = "clicked", !.clicked = TRUE, !.thread = r.thread]
        /\ r.thread = Len(prompts) + 1 /\ r.thread \in Nat
    BY <1>2, <1>3 DEF RunnerType
  <2> HIDE DEF r
  <2> QED
    BY <1>2, <2>1 DEF RunnerType
<1> HIDE DEF r
<1>5. runner'[s] = r
  BY <1>1 DEF SendInv, SendTypeOK, SetRunner
<1>6. PageGrows
  BY <1>1, <1>3 DEF PageGrows
<1>7. RecordsGrow /\ \A k \in Key : RecordKnows(k)'
  BY <1>1, <1>6, RecordFrame
<1>8. Len(prompts') = Len(prompts) + 1 /\ Len(prompts') \in DOMAIN prompts'
      /\ prompts'[Len(prompts')] = runner[s].key
  BY <1>1, <1>2, <1>3
<1>9. RunKnows(s)'
  BY <1>1, <1>2, <1>3, <1>4, <1>5, <1>8 DEF RunKnows, Typed, Chatgpt
<1>10. PromptsPaid'
  <2>1. Outstanding'
    BY <1>3, <1>4, <1>5 DEF Outstanding, Typed
  <2>2. runner[s].informed
    BY <1>1, <1>2 DEF RunKnows
  <2> QED
    BY <1>1, <1>2, <1>3, <1>8, <2>1, <2>2 DEF PromptsPaid
<1>11. record' \in [Key -> RecordType] /\ lost' \in Nat /\ stale' \in Nat /\ faults' \in Nat
  BY <1>1 DEF SendInv, SendTypeOK
<1> QED
  BY <1>1, <1>4, <1>6, <1>7, <1>9, <1>10, <1>11, OneRun

LEMMA ClickMissesPreserves ==
  ASSUME SendInv, NEW s \in Slot, ClickMisses(s)
  PROVE  SendInv'
<1> DEFINE r == [runner[s] EXCEPT !.stage = "clicked", !.clicked = TRUE]
<1>1. /\ SetRunner(s, r) /\ runner[s].stage = "compose" /\ Chatgpt
      /\ UNCHANGED <<job, asked, record, call, prompts, lost, stale, calls, faults>>
  BY DEF ClickMisses
<1>2. runner[s] \in RunnerType /\ RunKnows(s)
  BY DEF SendInv, SendTypeOK
<1>3. r \in RunnerType /\ r.stage = "clicked" /\ r.key = runner[s].key
      /\ r.thread = runner[s].thread /\ r.informed = runner[s].informed
  BY <1>2 DEF RunnerType
<1> HIDE DEF r
<1>4. runner'[s] = r
  BY <1>1 DEF SendInv, SendTypeOK, SetRunner
<1>5. RecordsGrow /\ PageGrows /\ \A k \in Key : RecordKnows(k)'
  BY <1>1, RecordFrame DEF PageGrows
<1>6. RunKnows(s)'
  BY <1>1, <1>2, <1>3, <1>4 DEF RunKnows, Typed, Chatgpt
<1>7. PromptsPaid'
  BY <1>1, <1>3, <1>5, StillOutstanding, PaidFrame
<1>8. record' \in [Key -> RecordType] /\ lost' \in Nat /\ stale' \in Nat /\ faults' \in Nat
  BY <1>1 DEF SendInv, SendTypeOK
<1> QED
  BY <1>1, <1>3, <1>5, <1>6, <1>7, <1>8, OneRun

LEMMA RecordSentPreserves ==
  ASSUME SendInv, NEW s \in Slot, RecordSent(s)
  PROVE  SendInv'
<1> DEFINE r == [runner[s] EXCEPT !.stage = IF Chatgpt THEN "sent" ELSE "waiting"]
<1>1. PICK u \in PageUrl(s) : Store(runner[s].key, "keep", "yes", u, NoResult)
  BY DEF RecordSent
<1>2. /\ SetRunner(s, r) /\ runner[s].stage = "clicked" /\ Typed(s)
      /\ UNCHANGED <<job, asked, call, prompts, lost, stale, calls>>
  BY DEF RecordSent
<1>3. runner[s] \in RunnerType /\ RunKnows(s)
  BY DEF SendInv, SendTypeOK
<1>4. r \in RunnerType /\ r.stage \in {"sent", "waiting"} /\ r.key = runner[s].key
      /\ r.thread = runner[s].thread
  BY <1>3 DEF RunnerType
<1> HIDE DEF r
<1>5. runner'[s] = r
  BY <1>2 DEF SendInv, SendTypeOK, SetRunner
<1>6. /\ RecordsGrow /\ record' \in [Key -> RecordType] /\ faults' \in Nat
      /\ \A k \in Key : RecordKnows(k)'
  <2>1. u \in Int /\ u # NoUrl /\ NoResult \in Result
    BY PageUrls DEF NoResult, Result, Answer
  <2>2. /\ runner[s].stage # "idle" /\ UNCHANGED <<job, asked, prompts>>
        /\ "keep" \in Status \cup {"keep"} /\ "keep" # "completed"
    BY <1>2
  <2> QED
    BY <1>1, <1>2, <2>1, <2>2, RunStores
<1>7. RunKnows(s)'
  BY <1>2, <1>3, <1>4, <1>5, <1>6 DEF RunKnows, Typed, Chatgpt, RecordsGrow, RunnerType
<1>8. PromptsPaid'
  BY <1>2, <1>4, <1>6, StillOutstanding, PaidFrame
<1>9. lost' \in Nat /\ stale' \in Nat /\ PageGrows /\ r.stage # "idle"
  BY <1>2, <1>4 DEF SendInv, SendTypeOK, PageGrows
<1> QED
  BY <1>2, <1>4, <1>6, <1>7, <1>8, <1>9, OneRun

LEMMA RecordUrlPreserves ==
  ASSUME SendInv, NEW s \in Slot, RecordUrl(s)
  PROVE  SendInv'
<1> DEFINE r == [runner[s] EXCEPT !.stage = "waiting"]
<1>1. PICK u \in PageUrl(s) : Store(runner[s].key, "keep", "keep", u, NoResult)
  BY DEF RecordUrl
<1>2. /\ SetRunner(s, r) /\ runner[s].stage = "sent"
      /\ UNCHANGED <<job, asked, call, prompts, lost, stale, calls>>
  BY DEF RecordUrl
<1>3. runner[s] \in RunnerType /\ RunKnows(s)
  BY DEF SendInv, SendTypeOK
<1>4. r \in RunnerType /\ r.stage = "waiting" /\ r.key = runner[s].key
      /\ r.thread = runner[s].thread
  BY <1>3 DEF RunnerType
<1> HIDE DEF r
<1>5. runner'[s] = r
  BY <1>2 DEF SendInv, SendTypeOK, SetRunner
<1>6. /\ RecordsGrow /\ record' \in [Key -> RecordType] /\ faults' \in Nat
      /\ \A k \in Key : RecordKnows(k)'
  <2>1. u \in Int /\ NoResult \in Result
    BY PageUrls DEF NoResult, Result, Answer
  <2>2. /\ runner[s].stage # "idle" /\ UNCHANGED <<job, asked, prompts>>
        /\ "keep" \in Status \cup {"keep"} /\ "keep" # "completed" /\ "keep" # "yes"
    BY <1>2
  <2> QED
    BY <1>1, <2>1, <2>2, RunStores
<1>7. RunKnows(s)'
  BY <1>2, <1>3, <1>4, <1>5, <1>6 DEF RunKnows, Typed, Chatgpt, RecordsGrow, RunnerType,
     QuestionMayShow
<1>8. PromptsPaid'
  BY <1>2, <1>4, <1>6, StillOutstanding, PaidFrame
<1>9. lost' \in Nat /\ stale' \in Nat /\ PageGrows
  BY <1>2 DEF SendInv, SendTypeOK, PageGrows
<1> QED
  BY <1>2, <1>4, <1>6, <1>7, <1>8, <1>9, OneRun

\* The end of a run: a prompt that was typed is either in the record now, or
\* counted as lost.
LEMMA EndsPreserves ==
  ASSUME SendInv, NEW s \in Slot, runner[s].stage # "idle",
         NEW status \in Status \cup {"keep"}, NEW sent, NEW url \in Int, NEW result \in Result,
         Ends(s, status, sent, url, result),
         sent = "yes" => url # NoUrl \/ record[runner[s].key].sent,
         sent = "yes" => \/ Typed(s) \/ QuestionMayShow
                         \/ record[runner[s].key].sent,
         result = NoResult \/ result.status # "none",
         status = "completed" => result # NoResult
  PROVE  SendInv'
<1> DEFINE f == [result EXCEPT !.clicked = runner[s].clicked]
           given == IF result = NoResult THEN result ELSE f
           reply == [status |-> IF status = "keep" THEN "failed" ELSE status,
                     clicked |-> runner[s].clicked, thread |-> IsThread(url)]
           r == [NoRun EXCEPT !.stage = "closing", !.key = runner[s].key, !.reply = reply]
<1>1. /\ Store(runner[s].key, status, sent, url, given)
      /\ lost' = IF Typed(s) /\ ~record'[runner[s].key].sent THEN lost + 1 ELSE lost
      /\ SetRunner(s, r)
      /\ UNCHANGED <<job, asked, call, prompts, stale, calls>>
  BY DEF Ends
<1>2. runner[s] \in RunnerType /\ RunKnows(s) /\ runner[s].key \in Key
  BY DEF SendInv, SendTypeOK, RunnerType
<1>3. reply \in Reply
  <2>1. IsThread(url) \in BOOLEAN
    BY DEF IsThread
  <2>2. (IF status = "keep" THEN "failed" ELSE status) \in Status
    BY DEF Status
  <2> QED
    BY <1>2, <2>1, <2>2 DEF Reply, RunnerType
<1> HIDE DEF reply
<1>4. r \in RunnerType /\ r.stage = "closing" /\ r.key = runner[s].key /\ r.thread = 0
  BY <1>2, <1>3 DEF RunnerType, NoRun
<1>5. f \in Result /\ f.status = result.status
  BY <1>2 DEF Result, RunnerType
<1>6. given \in Result /\ (status = "completed" => given # NoResult)
  BY <1>5 DEF NoResult
<1> HIDE DEF r, f, given
<1>7. runner'[s] = r /\ \A t \in Slot : t # s => runner'[t] = runner[t]
  BY <1>1 DEF SendInv, SendTypeOK, SetRunner
<1>8. /\ RecordsGrow /\ record' \in [Key -> RecordType] /\ faults' \in Nat
      /\ \A i \in Key : RecordKnows(i)'
  <2>1. UNCHANGED <<job, asked, prompts>>
    BY <1>1
  <2>2. given \in Result
    BY <1>6
  <2>3. status = "completed" => given # NoResult
    BY <1>6
  <2>4. Store(runner[s].key, status, sent, url, given)
    BY <1>1
  <2> QED
    BY <2>1, <2>2, <2>3, <2>4, RunStores
<1>9. RunKnows(s)'
  <2>1. record'[r.key].status # "absent"
    BY <1>2, <1>4, <1>8 DEF RunKnows, RecordsGrow
  <2> QED
    BY <1>4, <1>7, <2>1 DEF RunKnows, Typed
<1>10. PromptsPaid'
  <2>1. Outstanding /\ lost' = lost => Outstanding'
    <3>1. lost \in Nat
      BY DEF SendInv, SendTypeOK
    <3>2. ASSUME Typed(s), lost' = lost
          PROVE  Outstanding'
      <4>1. \A i \in Key : i = runner[s].key => record'[i].sent
        BY <1>1, <3>1, <3>2
      <4>2. \E i \in Key : record'[i].sent
        BY <1>2, <4>1
      <4> QED
        BY <4>2 DEF Outstanding, Recorded
    <3>3. ASSUME ~Typed(s), Outstanding
          PROVE  Outstanding'
      <4>1. CASE Recorded
        <5>1. \E i \in Key : record'[i].sent
          BY <1>8, <4>1 DEF Recorded, RecordsGrow
        <5> QED
          BY <5>1 DEF Outstanding, Recorded
      <4>2. CASE \E t \in Slot : Typed(t)
        <5>1. PICK t \in Slot : Typed(t)
          BY <4>2
        <5>2. t # s
          BY <3>3, <5>1
        <5>3. Typed(t)'
          BY <1>7, <5>1, <5>2 DEF Typed
        <5> QED
          BY <5>3 DEF Outstanding
      <4> QED
        BY <3>3, <4>1, <4>2 DEF Outstanding
    <3> QED
      BY <3>2, <3>3
  <2>2. lost' \in {lost, lost + 1}
    BY <1>1
  <2> QED
    BY <1>1, <2>1, <2>2, PaidFrame
<1>11. lost' \in Nat /\ stale' \in Nat /\ PageGrows
  BY <1>1 DEF SendInv, SendTypeOK, PageGrows
<1> QED
  BY <1>1, <1>4, <1>8, <1>9, <1>10, <1>11, OneRun

LEMMA Texts ==
  /\ \A status \in Status, answer \in Answer :
        Text(status, answer) \in Result /\ Text(status, answer).status = status
  /\ NoResult \in Result
BY DEF Text, Result, NoResult, Answer, Status

LEMMA EndUnsentPreserves ==
  ASSUME SendInv, NEW s \in Slot, EndUnsent(s)
  PROVE  SendInv'
<1>1. PICK u \in PageUrl(s) \cup {NoUrl}, r \in {NoResult, Text("failed", 0)} :
        Ends(s, "failed", "no", u, r)
  BY DEF EndUnsent
<1>2. /\ runner[s].stage # "idle" /\ u \in Int /\ "failed" \in Status
      /\ 0 \in Answer /\ "failed" # "completed" /\ "no" # "yes" /\ "failed" # "none"
  BY PageUrls DEF EndUnsent, Status, Answer, NoUrl
<1>3. r \in Result /\ (r = NoResult \/ r.status # "none")
  BY <1>2, Texts
<1> QED
  BY <1>1, <1>2, <1>3, EndsPreserves

\* A run past its click has a prompt to report.
LEMMA EndSentPreserves ==
  ASSUME SendInv, NEW s \in Slot, EndSent(s)
  PROVE  SendInv'
<1>1. PICK u \in PageUrl(s), r \in {Text("in_progress", 1), Text("failed", 0)} :
        Ends(s, r.status, "yes", u, r)
  BY DEF EndSent
<1>2. /\ runner[s].stage # "idle" /\ u \in Int /\ u # NoUrl
      /\ Typed(s) \/ QuestionMayShow
  BY PageUrls DEF EndSent, SendInv, RunKnows
<1>3. /\ r \in Result /\ r.status \in {"in_progress", "failed"}
      /\ r.status \in Status \cup {"keep"} /\ r.status # "none" /\ r.status # "completed"
  <2>1. 0 \in Answer /\ 1 \in Answer /\ "failed" \in Status /\ "in_progress" \in Status
    BY DEF Answer, Status
  <2> QED
    BY <2>1, Texts
<1> QED
  BY <1>1, <1>2, <1>3, EndsPreserves

LEMMA EndForgetPreserves ==
  ASSUME SendInv, NEW s \in Slot, EndForget(s)
  PROVE  SendInv'
<1>1. PICK u \in PageUrl(s) : Ends(s, "in_progress", "yes", u, Text("in_progress", 1))
  BY DEF EndForget
<1>2. /\ runner[s].stage # "idle" /\ u \in Int /\ u # NoUrl
      /\ Typed(s) \/ QuestionMayShow
  BY PageUrls DEF EndForget, SendInv, RunKnows
<1>3. /\ Text("in_progress", 1) \in Result /\ Text("in_progress", 1).status # "none"
      /\ "in_progress" \in Status \cup {"keep"} /\ "in_progress" # "completed"
  BY Texts DEF Answer, Status
<1> QED
  BY <1>1, <1>2, <1>3, EndsPreserves

LEMMA EndAnswerPreserves ==
  ASSUME SendInv, NEW s \in Slot, EndAnswer(s)
  PROVE  SendInv'
<1>1. PICK u \in PageUrl(s), r \in {Text("completed", 2), Text("in_progress", 1)} :
        Ends(s, r.status, "keep", u, r)
  BY DEF EndAnswer
<1>2. runner[s].stage # "idle" /\ u \in Int /\ "keep" # "yes"
  BY PageUrls DEF EndAnswer
<1>3. r \in Result /\ r.status \in {"completed", "in_progress"}
  <2>1. 1 \in Answer /\ 2 \in Answer /\ "completed" \in Status /\ "in_progress" \in Status
    BY DEF Answer, Status
  <2> QED
    BY <2>1, Texts
<1>4. r.status \in Status \cup {"keep"} /\ r.status # "none" /\ r # NoResult
  BY <1>3 DEF Status, NoResult
<1> QED
  BY <1>1, <1>2, <1>3, <1>4, EndsPreserves

\* A resumed wait belongs to a record that is sent already.
LEMMA EndResumePreserves ==
  ASSUME SendInv, NEW s \in Slot, EndResume(s)
  PROVE  SendInv'
<1>1. /\ runner[s].stage # "idle" /\ record[runner[s].key].sent
      /\ NoUrl \in Int
  BY DEF EndResume, SendInv, RunKnows, NoUrl
<1>2. ASSUME NEW r \in {Text("completed", 2), Text("in_progress", 1), Text("failed", 0)},
             Ends(s, r.status, "yes", NoUrl, r)
      PROVE  SendInv'
  <2>1. /\ 0 \in Answer /\ 1 \in Answer /\ 2 \in Answer
        /\ "completed" \in Status /\ "failed" \in Status /\ "in_progress" \in Status
    BY DEF Answer, Status
  <2>2. r \in Result /\ r.status \in Status
    BY <2>1, Texts
  <2>3. r.status # "none" /\ r # NoResult /\ r.status \in Status \cup {"keep"}
    BY <2>2 DEF Status, NoResult
  <2> QED
    BY <1>1, <1>2, <2>2, <2>3, EndsPreserves
<1> QED
  BY <1>2 DEF EndResume

-----------------------------------------------------------------------------
(* The steps of a call.                                                    *)

\* Taking a record over changes it only where nothing was sent.
LEMMA BegunKeeps ==
  ASSUME NEW r \in RecordType, NEW tool, NEW p \in Payload,
         r.status = "absent" => ~r.sent
  PROVE  /\ Begun(r, tool, p).sent = r.sent
         /\ Begun(r, tool, p).status # "absent"
         /\ r.sent => Begun(r, tool, p) = r
         /\ Begun(r, tool, p).status = "completed" => Begun(r, tool, p) = r
         /\ ShouldExecute(r, tool, p) => ~r.sent
<1>1. ShouldExecute(r, tool, p) => ~r.sent
  BY DEF ShouldExecute, FailedUnsent, Reclaimable
<1>2. ~ShouldExecute(r, tool, p) => r.status # "absent"
  BY DEF ShouldExecute
<1>3. /\ NewRecord(p).sent = FALSE /\ NewRecord(p).status = "in_progress"
  BY DEF NewRecord
<1>4. LET b == [r EXCEPT !.status = "in_progress", !.age = 0, !.mine = TRUE]
      IN b.sent = r.sent /\ b.status = "in_progress"
  BY DEF RecordType
<1> QED
  BY <1>1, <1>2, <1>3, <1>4 DEF Begun, RecordType

\* One call changed, the runs did not.
LEMMA OneCall ==
  ASSUME SendInv, NEW c \in Caller, NEW v \in CallType, SetCall(c, v),
         UNCHANGED <<job, asked, runner, prompts, lost, stale>>,
         record' \in [Key -> RecordType], RecordsGrow,
         \A k \in Key : RecordKnows(k)',
         calls' \in Nat, faults' \in Nat, CallKnows(c)'
  PROVE  SendInv'
<1>1. call' \in [Caller -> CallType] /\ \A d \in Caller : d # c => call'[d] = call[d]
  BY DEF SendInv, SendTypeOK, SetCall
<1>2. \A d \in Caller : CallKnows(d)'
  BY <1>1, CallFrame
<1>3. \A s \in Slot : RunKnows(s)'
  BY RunFrame DEF PageGrows
<1>4. PromptsPaid'
  <2>1. Outstanding => Outstanding'
    BY DEF Outstanding, Recorded, Typed, RecordsGrow
  <2> QED
    BY <2>1, PaidFrame
<1>5. SendTypeOK'
  BY <1>1 DEF SendInv, SendTypeOK
<1> QED
  BY <1>2, <1>3, <1>4, <1>5 DEF SendInv

LEMMA CallToolPreserves ==
  ASSUME SendInv, NEW c \in Caller, CallTool(c)
  PROVE  SendInv'
<1> DEFINE k == call[c].key
           r == record[call[c].key]
<1>1. PICK p \in Payload :
        /\ record' = [record EXCEPT ![k] = Begun(r, job.tool, p)]
        /\ SetCall(c, [call[c] EXCEPT
              !.pc = "begun", !.execute = ShouldExecute(r, job.tool, p),
              !.sent = r.sent,
              !.url = Begun(r, job.tool, p).url, !.cached = r.result,
              !.informed = @ /\ ~r.sent])
  BY DEF CallTool
<1> DEFINE b == Begun(r, job.tool, p)
           v == [call[c] EXCEPT !.pc = "begun", !.execute = ShouldExecute(r, job.tool, p),
                                !.sent = r.sent, !.url = b.url, !.cached = r.result,
                                !.informed = @ /\ ~r.sent]
<1>2. /\ call[c].pc \in {"idle", "fallback"} /\ calls' = calls + 1
      /\ UNCHANGED <<job, asked, runner, prompts, lost, stale, faults>>
  BY DEF CallTool
<1>3. /\ call[c] \in CallType /\ CallKnows(c) /\ k \in Key /\ r \in RecordType
      /\ \A i \in Key : RecordKnows(i)
      /\ calls \in Nat /\ faults \in Nat /\ record \in [Key -> RecordType]
  BY DEF SendInv, SendTypeOK, CallType
<1>4. r.status = "absent" => ~r.sent
  BY <1>3 DEF RecordKnows
<1>5. /\ b \in RecordType /\ b.sent = r.sent /\ b.status # "absent"
      /\ r.sent => b = r
      /\ b.status = "completed" => b = r
      /\ ShouldExecute(r, job.tool, p) => ~r.sent
  BY <1>3, <1>4, BegunType, BegunKeeps
<1>6. ShouldExecute(r, job.tool, p) \in BOOLEAN
  BY DEF ShouldExecute, FailedUnsent
<1> HIDE DEF b
<1>7. v \in CallType /\ v.pc = "begun" /\ v.key = k /\ v.sent = r.sent
      /\ v.execute = ShouldExecute(r, job.tool, p) /\ v.informed = (call[c].informed /\ ~r.sent)
  BY <1>3, <1>5, <1>6 DEF CallType, RecordType
<1> HIDE DEF v
<1>8. SetCall(c, v) /\ call'[c] = v
  BY <1>1 DEF v, b, SetCall, SendInv, SendTypeOK
<1>9. record' = [record EXCEPT ![k] = b]
  BY <1>1 DEF b
<1>10. /\ record' \in [Key -> RecordType] /\ RecordsGrow
       /\ \A i \in Key : i = k => record'[i] = b
       /\ \A i \in Key : i # k => record'[i] = record[i]
  BY <1>3, <1>5, <1>9 DEF RecordsGrow
<1>11. \A i \in Key : RecordKnows(i)'
  <2>1. \A i \in Key : i # k => RecordKnows(i)'
    BY <1>2, <1>3, <1>10 DEF RecordKnows, QuestionMayShow, Chatgpt
  <2>2. \A i \in Key : i = k => RecordKnows(i)'
    <3>1. RecordKnows(k)
      BY <1>3
    <3>2. /\ b.sent => b.url # NoUrl
          /\ b.status = "completed" => b.result # NoResult
          /\ b.sent => \/ \E i \in DOMAIN prompts : prompts[i] = k
                       \/ QuestionMayShow
      BY <1>5, <3>1 DEF RecordKnows
    <3> QED
      BY <1>2, <1>5, <1>10, <3>2 DEF RecordKnows, QuestionMayShow, Chatgpt
  <2> QED
    BY <2>1, <2>2
<1>12. CallKnows(c)'
  <2>1. call[c].informed /\ (~Chatgpt => runner[c].stage = "idle")
    BY <1>2, <1>3 DEF CallKnows
  <2>2. \A i \in Key : i = call'[c].key => record'[i] = b
    BY <1>7, <1>8, <1>10
  <2>3. record'[call'[c].key] = b
    BY <1>3, <1>7, <1>8, <2>2
  <2> QED
    BY <1>2, <1>5, <1>7, <1>8, <2>1, <2>3 DEF CallKnows, Chatgpt
<1>13. calls' \in Nat /\ faults' \in Nat /\ UNCHANGED <<job, asked, runner, prompts, lost, stale>>
  BY <1>2, <1>3
<1> QED
  BY <1>7, <1>8, <1>10, <1>11, <1>12, <1>13, OneCall

LEMMA NoCallType == NoCall \in CallType /\ Failure \in Reply
BY DEF NoCall, CallType, Failure, Reply, Status, NoResult, Result, Answer, NoUrl, Key

\* A call that reads nothing and starts nothing.
LEMMA QuietCall ==
  ASSUME SendInv, NEW c \in Caller, NEW v \in CallType, SetCall(c, v),
         UNCHANGED <<job, asked, record, runner, prompts, lost, stale, calls, faults>>,
         v.pc \in {"idle", "replied", "fallback"}, v.informed,
         ~Chatgpt => call[c].pc # "await"
  PROVE  SendInv'
<1>1. call'[c] = v /\ CallKnows(c)
  BY DEF SendInv, SendTypeOK, SetCall
<1>2. CallKnows(c)'
  BY <1>1 DEF CallKnows, Chatgpt
<1>3. RecordsGrow /\ \A k \in Key : RecordKnows(k)'
  BY RecordFrame DEF PageGrows
<1>4. record' \in [Key -> RecordType] /\ calls' \in Nat /\ faults' \in Nat
  BY DEF SendInv, SendTypeOK
<1> QED
  BY <1>2, <1>3, <1>4, OneCall

\* The result that is written back was read in the record, and so was sent.
LEMMA WriteBackKnows ==
  ASSUME SendInv, NEW c \in Caller, call[c].pc = "begun", WriteBack(c)
  PROVE  \E status \in Status, sent \in {"yes", "no"} :
           /\ Store(call[c].key, status, sent, call[c].url, call[c].cached)
           /\ sent = "yes" => record[call[c].key].sent
           /\ call[c].key \in Key /\ record[call[c].key].status # "absent"
           /\ call[c].url \in Int /\ call[c].cached \in Result
           /\ call[c].cached # NoResult
<1> DEFINE r == call[c].cached
           status == IF r.status = "none" THEN "completed" ELSE r.status
           sent == IF call[c].sent THEN "yes" ELSE "no"
<1>1. call[c] \in CallType /\ CallKnows(c)
  BY DEF SendInv, SendTypeOK
<1>2. /\ call[c].key \in Key /\ call[c].url \in Int /\ r \in Result
      /\ record[call[c].key].status # "absent"
  BY <1>1 DEF CallType, CallKnows
<1>3. r # NoResult /\ status \in Status
  BY <1>2 DEF WriteBack, NoResult, Result, Status
<1>4. sent = "yes" => record[call[c].key].sent
  BY <1>1 DEF CallKnows
<1>5. Store(call[c].key, status, sent, call[c].url, r) /\ sent \in {"yes", "no"}
  BY DEF WriteBack
<1> HIDE DEF status, sent
<1> QED
  BY <1>2, <1>3, <1>4, <1>5

LEMMA ReplayPreserves ==
  ASSUME SendInv, NEW c \in Caller, Replay(c)
  PROVE  SendInv'
<1> DEFINE r == call[c].cached
           reply == [status |-> IF r.status = "none" THEN "in_progress" ELSE r.status,
                     clicked |-> r.clicked, thread |-> IsThread(call[c].url)]
           v == [NoCall EXCEPT !.pc = "replied", !.key = call[c].key, !.reply = reply]
<1>1. call[c] \in CallType /\ r \in Result /\ CallKnows(c)
  BY DEF SendInv, SendTypeOK, CallType
<1>2. IsThread(call[c].url) \in BOOLEAN
  BY DEF IsThread
<1>3. reply \in Reply
  BY <1>1, <1>2 DEF Reply, Result, Status
<1> HIDE DEF reply
<1>4. v \in CallType /\ v.pc = "replied" /\ v.informed
  BY <1>1, <1>3, NoCallType DEF CallType, NoCall
<1> HIDE DEF v
<1>5. SetCall(c, v) /\ call[c].pc = "begun"
      /\ UNCHANGED <<job, asked, runner, prompts, lost, stale, calls>>
  BY DEF Replay, ReplyWith, v, reply
<1> HIDE DEF r
<1>6. CASE UNCHANGED <<record, faults>>
  <2>1. UNCHANGED <<job, asked, record, runner, prompts, lost, stale, calls, faults>>
    BY <1>5, <1>6
  <2> QED
    BY <1>4, <1>5, <2>1, QuietCall
<1>7. CASE WriteBack(c)
  <2>1. /\ RecordsGrow
        /\ record' \in [Key -> RecordType] /\ faults' \in Nat
        /\ \A k \in Key : RecordKnows(k)'
    <3>1. PICK status \in Status, sent \in {"yes", "no"} :
            /\ Store(call[c].key, status, sent, call[c].url, r)
            /\ sent = "yes" => record[call[c].key].sent
            /\ call[c].key \in Key /\ record[call[c].key].status # "absent"
            /\ call[c].url \in Int /\ r \in Result /\ r # NoResult
      BY <1>5, <1>7, WriteBackKnows DEF r
    <3>2. status \in Status \cup {"keep"} /\ UNCHANGED <<job, asked, prompts>>
      BY <1>5
    <3> QED
      BY <3>1, <3>2, StoreStep
  <2>2. call'[c] = v /\ calls' \in Nat
    BY <1>5 DEF SendInv, SendTypeOK, SetCall
  <2>3. CallKnows(c)'
    BY <1>1, <1>4, <1>5, <2>2 DEF CallKnows, Chatgpt
  <2> QED
    BY <1>4, <1>5, <2>1, <2>2, <2>3, OneCall
<1> QED
  BY <1>6, <1>7 DEF Replay

\* The error mark of a call whose task raised says nothing of the prompt.
LEMMA MarkRaisedPreserves ==
  ASSUME SendInv, NEW c \in Caller, MarkRaised(c)
  PROVE  SendInv'
<1> DEFINE v == [call[c] EXCEPT !.pc = "replied"]
<1>1. /\ SetCall(c, v) /\ call[c].pc = "raised"
      /\ Store(call[c].key, "failed", "keep", NoUrl, NoResult)
      /\ UNCHANGED <<job, asked, runner, prompts, lost, stale, calls>>
  BY DEF MarkRaised
<1>2. call[c] \in CallType /\ call[c].key \in Key /\ CallKnows(c)
  BY DEF SendInv, SendTypeOK, CallType
<1>3. v \in CallType /\ v.pc = "replied"
  BY <1>2 DEF CallType
<1> HIDE DEF v
<1>4. /\ RecordsGrow
      /\ record' \in [Key -> RecordType] /\ faults' \in Nat
      /\ \A k \in Key : RecordKnows(k)'
  <2>1. /\ "failed" \in Status \cup {"keep"} /\ "failed" # "completed" /\ "keep" # "yes"
        /\ NoResult \in Result /\ NoUrl \in Int
    BY Texts DEF Status, NoUrl
  <2>2. record[call[c].key].status # "absent" /\ UNCHANGED <<job, asked, prompts>>
    BY <1>1, <1>2 DEF CallKnows
  <2> QED
    BY <1>1, <1>2, <2>1, <2>2, StoreStep
<1>5. call'[c] = v /\ calls' \in Nat
  BY <1>1 DEF SendInv, SendTypeOK, SetCall
<1>6. CallKnows(c)'
  BY <1>1, <1>2, <1>3, <1>5 DEF CallKnows, Chatgpt
<1> QED
  BY <1>1, <1>3, <1>4, <1>5, <1>6, OneCall

LEMMA DisconnectPreserves ==
  ASSUME SendInv, NEW c \in Caller, Disconnect(c)
  PROVE  SendInv'
<1>1. SetCall(c, NoCall) /\ Chatgpt
      /\ UNCHANGED <<job, asked, record, runner, prompts, lost, stale, calls, faults>>
  BY DEF Disconnect
<1>2. NoCall.pc = "idle" /\ NoCall.informed
  BY DEF NoCall
<1> QED
  BY <1>1, <1>2, NoCallType, QuietCall

LEMMA ReturnPreserves ==
  ASSUME SendInv, NEW c \in Caller, Return(c)
  PROVE  SendInv'
<1>1. SetCall(c, NoCall) /\ call[c].pc = "replied"
      /\ UNCHANGED <<job, asked, record, runner, prompts, lost, stale, calls, faults>>
  BY DEF Return
<1>2. NoCall.pc = "idle" /\ NoCall.informed
  BY DEF NoCall
<1> QED
  BY <1>1, <1>2, NoCallType, QuietCall

\* The executor falls back only on a reading that shows no prompt.
LEMMA FallBackPreserves ==
  ASSUME SendInv, NEW c \in Caller, FallBack(c)
  PROVE  SendInv'
<1>1. PICK readable \in BOOLEAN :
        /\ MayFallBack(c, readable)
        /\ SetCall(c, [NoCall EXCEPT !.pc = "fallback", !.key = Alternate,
                        !.informed = ~Chatgpt \/ ~readable \/ ~record[Primary].sent])
  BY DEF FallBack
<1> DEFINE informed == ~Chatgpt \/ ~readable \/ ~record[Primary].sent
           v == [NoCall EXCEPT !.pc = "fallback", !.key = Alternate, !.informed = informed]
<1>2. informed \in BOOLEAN /\ informed
  BY <1>1 DEF MayFallBack
<1> HIDE DEF informed
<1>3. v \in CallType /\ v.pc = "fallback" /\ v.informed
  BY <1>2, NoCallType DEF CallType, Key
<1> HIDE DEF v
<1>4. SetCall(c, v) /\ call[c].pc = "replied"
      /\ UNCHANGED <<job, asked, record, runner, prompts, lost, stale, calls, faults>>
  BY <1>1 DEF FallBack, v, informed
<1> QED
  BY <1>3, <1>4, QuietCall

\* A call that starts a run.
LEMMA StartRun ==
  ASSUME SendInv, NEW c \in Caller, NEW v \in CallType, v.pc = "await", SetCall(c, v),
         record[v.key].status # "absent",
         NEW s \in Slot, NEW r \in RunnerType, SetRunner(s, r),
         runner[s].stage = "idle", r.thread = 0, s = c \/ Chatgpt,
         r.stage \in {"queued", "resume"}, record[r.key].status # "absent",
         r.stage = "queued" => r.informed, r.stage = "resume" => record[r.key].sent,
         UNCHANGED <<job, asked, record, prompts, lost, stale, calls, faults>>
  PROVE  SendInv'
<1>1. /\ call' \in [Caller -> CallType] /\ call'[c] = v
      /\ \A d \in Caller : d # c => call'[d] = call[d]
  BY DEF SendInv, SendTypeOK, SetCall
<1>2. /\ runner' \in [Slot -> RunnerType] /\ runner'[s] = r
      /\ \A t \in Slot : t # s => runner'[t] = runner[t]
  BY DEF SendInv, SendTypeOK, SetRunner
<1>3. RecordsGrow /\ PageGrows /\ \A k \in Key : RecordKnows(k)'
  BY RecordFrame DEF PageGrows
<1>4. \A t \in Slot : RunKnows(t)'
  <2>1. RunKnows(s)'
    BY <1>2 DEF RunKnows, Typed
  <2> QED
    BY <1>2, <1>3, <2>1, RunFrame
<1>5. \A d \in Caller : CallKnows(d)'
  <2> TAKE d \in Caller
  <2>1. CASE d = c
    BY <1>1, <2>1 DEF CallKnows
  <2>2. CASE d # c
    <3>1. CallKnows(d)
      BY DEF SendInv
    <3>2. ~Chatgpt => runner'[d] = runner[d]
      BY <1>2, <2>2 DEF Slot
    <3> QED
      BY <1>1, <2>2, <3>1, <3>2 DEF CallKnows, Chatgpt
  <2> QED
    BY <2>1, <2>2
<1>6. PromptsPaid'
  <2>1. runner[s].thread = r.thread
    BY DEF SendInv, RunKnows, Typed
  <2> QED
    BY <1>3, <2>1, StillOutstanding, PaidFrame
<1>7. SendTypeOK'
  BY <1>1, <1>2 DEF SendInv, SendTypeOK
<1> QED
  BY <1>3, <1>4, <1>5, <1>6, <1>7 DEF SendInv

LEMMA AwaitType ==
  ASSUME NEW k \in Key
  PROVE  LET v == [NoCall EXCEPT !.pc = "await", !.key = k]
         IN v \in CallType /\ v.pc = "await" /\ v.key = k
BY NoCallType DEF CallType, NoCall

NewRun(k, stage, informed) ==
  [NoRun EXCEPT !.stage = stage, !.key = k, !.informed = informed]

LEMMA NewRunType ==
  ASSUME NEW k \in Key, NEW stage \in {"queued", "resume"}, NEW informed \in BOOLEAN
  PROVE  /\ NewRun(k, stage, informed) \in RunnerType
         /\ NewRun(k, stage, informed).stage = stage /\ NewRun(k, stage, informed).key = k
         /\ NewRun(k, stage, informed).thread = 0
         /\ NewRun(k, stage, informed).informed = informed
BY NoCallType DEF RunnerType, NoRun, NewRun

LEMMA NoRunType == NoRun \in RunnerType /\ NoRun.stage = "idle" /\ NoRun.thread = 0
BY NoCallType DEF RunnerType, NoRun, Key

LEMMA StartTaskPreserves ==
  ASSUME SendInv, NEW c \in Caller, StartTask(c)
  PROVE  SendInv'
<1> DEFINE v == [NoCall EXCEPT !.pc = "await", !.key = call[c].key]
           stage == IF Resumes(c) THEN "resume" ELSE "queued"
           r == NewRun(call[c].key, stage, call[c].informed)
<1>1. /\ SetCall(c, v) /\ Chatgpt /\ call[c].pc = "begun"
      /\ call[c].sent => Resumes(c)
      /\ runner' = runner \/ (runner[call[c].key].stage = "idle" /\ SetRunner(call[c].key, r))
      /\ UNCHANGED <<job, asked, record, prompts, lost, stale, calls, faults>>
  BY DEF StartTask, Undecided, GetOrStart, NewRun
<1>2. call[c] \in CallType /\ call[c].key \in Key /\ CallKnows(c)
  BY DEF SendInv, SendTypeOK, CallType
<1>3. v \in CallType /\ v.pc = "await" /\ v.key = call[c].key
  BY <1>2, AwaitType
<1>4. /\ stage \in {"queued", "resume"} /\ call[c].informed \in BOOLEAN
      /\ stage = "queued" => call[c].informed
      /\ stage = "resume" => record[call[c].key].sent
      /\ record[call[c].key].status # "absent"
  BY <1>1, <1>2 DEF CallKnows, CallType, Resumes
<1> HIDE DEF stage
<1>5. /\ r \in RunnerType /\ r.stage = stage /\ r.key = call[c].key /\ r.thread = 0
      /\ r.informed = call[c].informed
  BY <1>2, <1>4, NewRunType
<1> HIDE DEF v, r
<1>6. CASE runner' = runner
  <2>1. RecordsGrow /\ \A k \in Key : RecordKnows(k)'
    BY <1>1, RecordFrame DEF PageGrows
  <2>2. record' \in [Key -> RecordType] /\ calls' \in Nat /\ faults' \in Nat /\ call'[c] = v
    BY <1>1 DEF SendInv, SendTypeOK, SetCall
  <2>3. CallKnows(c)'
    BY <1>1, <1>3, <1>4, <2>2 DEF CallKnows, Chatgpt
  <2> QED
    BY <1>1, <1>3, <1>6, <2>1, <2>2, <2>3, OneCall
<1>7. CASE runner[call[c].key].stage = "idle" /\ SetRunner(call[c].key, r)
  <2>1. call[c].key \in Slot
    BY <1>2 DEF Slot
  <2> QED
    BY <1>1, <1>3, <1>4, <1>5, <1>7, <2>1, StartRun
<1> QED
  BY <1>1, <1>6, <1>7

LEMMA QueueForLockPreserves ==
  ASSUME SendInv, NEW c \in Caller, QueueForLock(c)
  PROVE  SendInv'
<1> DEFINE v == [NoCall EXCEPT !.pc = "await", !.key = call[c].key]
           r == NewRun(call[c].key, "queued", call[c].informed)
<1>1. /\ SetCall(c, v) /\ SetRunner(c, r) /\ ~Chatgpt
      /\ call[c].pc = "begun" /\ call[c].execute
      /\ UNCHANGED <<job, asked, record, prompts, lost, stale, calls, faults>>
  BY DEF QueueForLock, NewRun
<1>2. call[c] \in CallType /\ call[c].key \in Key /\ CallKnows(c) /\ c \in Slot
  BY DEF SendInv, SendTypeOK, CallType, Slot
<1>3. v \in CallType /\ v.pc = "await" /\ v.key = call[c].key
  BY <1>2, AwaitType
<1>4. /\ call[c].informed \in BOOLEAN /\ call[c].informed
      /\ record[call[c].key].status # "absent" /\ runner[c].stage = "idle"
  BY <1>1, <1>2 DEF CallKnows, CallType
<1>5. /\ r \in RunnerType /\ r.stage = "queued" /\ r.key = call[c].key /\ r.thread = 0
      /\ r.informed = call[c].informed
  BY <1>2, <1>4, NewRunType
<1> HIDE DEF v, r
<1> QED
  BY <1>1, <1>2, <1>3, <1>4, <1>5, StartRun

LEMMA ResumeRaisesPreserves ==
  ASSUME SendInv, NEW s \in Slot, ResumeRaises(s)
  PROVE  SendInv'
<1> DEFINE r == [NoRun EXCEPT !.stage = "raised", !.key = runner[s].key]
<1>1. /\ SetRunner(s, r) /\ runner[s].stage = "resume"
      /\ UNCHANGED <<job, asked, record, call, prompts, lost, stale, calls, faults>>
  BY DEF ResumeRaises
<1>2. runner[s] \in RunnerType /\ runner[s].key \in Key /\ RunKnows(s)
  BY DEF SendInv, SendTypeOK, RunnerType
<1>3. r \in RunnerType /\ r.stage = "raised" /\ r.key = runner[s].key /\ r.thread = 0
  BY <1>2, NoRunType DEF RunnerType, NoRun
<1> HIDE DEF r
<1>4. runner'[s] = r /\ \A t \in Slot : t # s => runner'[t] = runner[t]
  BY <1>1 DEF SendInv, SendTypeOK, SetRunner
<1>5. RecordsGrow /\ PageGrows /\ \A k \in Key : RecordKnows(k)'
  BY <1>1, RecordFrame DEF PageGrows
<1>6. RunKnows(s)'
  BY <1>1, <1>2, <1>3, <1>4 DEF RunKnows, Typed
<1>7. PromptsPaid'
  <2>1. Outstanding => Outstanding'
    <3>1. record[runner[s].key].sent
      BY <1>1, <1>2 DEF RunKnows
    <3>2. Recorded'
      BY <1>1, <1>2, <3>1 DEF Recorded
    <3> QED
      BY <3>2 DEF Outstanding
  <2> QED
    BY <1>1, <2>1, PaidFrame
<1>8. record' \in [Key -> RecordType] /\ lost' \in Nat /\ stale' \in Nat /\ faults' \in Nat
  BY <1>1 DEF SendInv, SendTypeOK
<1> QED
  BY <1>1, <1>3, <1>5, <1>6, <1>7, <1>8, OneRun

LEMMA DonePreserves ==
  ASSUME SendInv, NEW s \in Slot, Done(s)
  PROVE  SendInv'
<1> DEFINE answered == IF runner[s].stage = "raised" THEN "raised" ELSE "replied"
<1>1. /\ SetRunner(s, NoRun) /\ runner[s].stage \in {"closing", "raised"}
      /\ call' = [c \in Caller |->
                    IF call[c].pc = "await" /\ SlotOf(c) = s
                    THEN [call[c] EXCEPT !.pc = answered, !.reply = runner[s].reply]
                    ELSE call[c]]
      /\ UNCHANGED <<job, asked, record, prompts, lost, stale, calls, faults>>
  BY DEF Done
<1>2. /\ runner' \in [Slot -> RunnerType] /\ runner'[s] = NoRun
      /\ \A t \in Slot : t # s => runner'[t] = runner[t]
  BY <1>1, NoRunType DEF SendInv, SendTypeOK, SetRunner
<1>3. RecordsGrow /\ PageGrows /\ \A k \in Key : RecordKnows(k)'
  BY <1>1, RecordFrame DEF PageGrows
<1>4. \A t \in Slot : RunKnows(t)'
  <2>1. RunKnows(s)'
    BY <1>2, NoRunType DEF RunKnows, Typed
  <2> QED
    BY <1>1, <1>2, <1>3, <2>1, RunFrame
<1>5. \A c \in Caller : call'[c] \in CallType /\ CallKnows(c)'
  <2> TAKE c \in Caller
  <2>1. call[c] \in CallType /\ CallKnows(c) /\ runner[s].reply \in Reply
    BY DEF SendInv, SendTypeOK, RunnerType
  <2>2. CASE call[c].pc = "await" /\ SlotOf(c) = s
    <3>1. call'[c] = [call[c] EXCEPT !.pc = answered, !.reply = runner[s].reply]
      BY <1>1, <2>2
    <3>2. /\ call'[c] \in CallType /\ call'[c].pc \in {"raised", "replied"}
          /\ call'[c].key = call[c].key
      BY <2>1, <3>1 DEF CallType
    <3>4. record'[call'[c].key].status # "absent"
      BY <1>1, <2>1, <2>2, <3>2 DEF CallKnows
    <3>3. ~Chatgpt => runner'[c].stage = "idle"
      BY <1>2, <2>2, NoRunType DEF SlotOf
    <3> QED
      BY <1>1, <3>2, <3>3, <3>4 DEF CallKnows, Chatgpt
  <2>3. CASE ~(call[c].pc = "await" /\ SlotOf(c) = s)
    <3>1. call'[c] = call[c]
      BY <1>1, <2>3
    <3>2. runner'[c].stage = runner[c].stage \/ runner'[c].stage = "idle"
      BY <1>2, NoRunType DEF Slot
    <3> QED
      BY <1>1, <1>3, <2>1, <3>1, <3>2, CallFrame
  <2> QED
    BY <2>2, <2>3
<1>6. PromptsPaid'
  <2>1. runner[s].thread = NoRun.thread
    BY <1>1, NoRunType DEF SendInv, RunKnows, Typed
  <2> QED
    BY <1>1, <1>3, <2>1, StillOutstanding, PaidFrame
<1>7. SendTypeOK'
  <2>1. call' \in [Caller -> CallType]
    BY <1>1, <1>5
  <2> QED
    BY <1>1, <1>2, <2>1 DEF SendInv, SendTypeOK
<1> QED
  BY <1>3, <1>4, <1>5, <1>6, <1>7 DEF SendInv

-----------------------------------------------------------------------------
(* Other users of the conversation, time and faults.                       *)

\* Somebody else's question adds to what the page may show.
LEMMA SomebodyAsksPreserves ==
  ASSUME SendInv, SomebodyAsks
  PROVE  SendInv'
<1>1. /\ asked' = TRUE
      /\ UNCHANGED <<job, record, runner, call, prompts, lost, stale, calls, faults>>
  BY DEF SomebodyAsks
<1>2. RecordsGrow /\ PageGrows /\ \A k \in Key : RecordKnows(k)'
  BY <1>1, RecordFrame DEF PageGrows
<1>3. (\A s \in Slot : RunKnows(s)') /\ (\A c \in Caller : CallKnows(c)')
  BY <1>1, <1>2, RunFrame, CallFrame
<1>4. PromptsPaid'
  <2>1. Outstanding => Outstanding'
    BY <1>1 DEF Outstanding, Recorded, Typed
  <2> QED
    BY <1>1, <2>1, PaidFrame
<1>5. SendTypeOK'
  BY <1>1 DEF SendInv, SendTypeOK
<1> QED
  BY <1>2, <1>3, <1>4, <1>5 DEF SendInv

LEMMA AgePreserves ==
  ASSUME SendInv, NEW n \in Key, Age(n)
  PROVE  SendInv'
<1> DEFINE b == [record[n] EXCEPT !.age = @ + 1]
<1>1. /\ record' = [record EXCEPT ![n] = b] /\ record[n].age < 2
      /\ UNCHANGED <<job, asked, runner, call, prompts, lost, stale, calls, faults>>
  BY DEF Age, SendInv, SendTypeOK
<1>2. record[n] \in RecordType /\ record \in [Key -> RecordType]
  BY DEF SendInv, SendTypeOK
<1>3. /\ b \in RecordType /\ b.status = record[n].status /\ b.sent = record[n].sent
      /\ b.url = record[n].url /\ b.result = record[n].result
  <2>1. record[n].age + 1 \in {0, 1, 2}
    BY <1>1, <1>2 DEF RecordType
  <2> QED
    BY <1>2, <2>1 DEF RecordType
<1> HIDE DEF b
<1>4. \A k \in Key : /\ record'[k].status = record[k].status
                     /\ record'[k].sent = record[k].sent
                     /\ record'[k].url = record[k].url
                     /\ record'[k].result = record[k].result
  BY <1>1, <1>2, <1>3
<1>5. RecordsGrow /\ PageGrows /\ \A k \in Key : RecordKnows(k)'
  BY <1>1, <1>4 DEF RecordsGrow, PageGrows, RecordKnows, SendInv, QuestionMayShow, Chatgpt
<1>6. (\A s \in Slot : RunKnows(s)') /\ (\A c \in Caller : CallKnows(c)')
  BY <1>1, <1>5, RunFrame, CallFrame
<1>7. PromptsPaid'
  <2>1. Outstanding => Outstanding'
    BY <1>1, <1>5 DEF Outstanding, Recorded, Typed, RecordsGrow
  <2> QED
    BY <1>1, <2>1, PaidFrame
<1>8. SendTypeOK'
  BY <1>1, <1>2, <1>3 DEF SendInv, SendTypeOK
<1> QED
  BY <1>5, <1>6, <1>7, <1>8 DEF SendInv

\* A death forgets the runs; the prompt of one that left no record is lost.
LEMMA RestartPreserves ==
  ASSUME SendInv, Restart
  PROVE  SendInv'
<1>1. /\ faults' = faults + 1
      /\ lost' = IF \E s \in Slot : Typed(s) /\ ~record[runner[s].key].sent
                 THEN lost + 1 ELSE lost
      /\ record' = [k \in Key |-> [record[k] EXCEPT !.mine = FALSE]]
      /\ runner' = [s \in Slot |-> NoRun]
      /\ call' = [c \in Caller |-> IF call[c].pc \in {"begun", "await", "raised"} THEN NoCall
                                   ELSE call[c]]
      /\ UNCHANGED <<job, asked, prompts, stale, calls>>
  BY DEF Restart
<1>2. /\ record \in [Key -> RecordType] /\ runner \in [Slot -> RunnerType]
      /\ call \in [Caller -> CallType]
  BY DEF SendInv, SendTypeOK
<1>3. \A k \in Key : /\ record'[k] \in RecordType
                     /\ record'[k].status = record[k].status
                     /\ record'[k].sent = record[k].sent
                     /\ record'[k].url = record[k].url
                     /\ record'[k].result = record[k].result
  BY <1>1, <1>2 DEF RecordType
<1>4. RecordsGrow /\ \A k \in Key : RecordKnows(k)'
  BY <1>1, <1>3 DEF RecordsGrow, RecordKnows, SendInv, QuestionMayShow, Chatgpt
<1>5. \A s \in Slot : RunKnows(s)'
  BY <1>1, NoRunType DEF RunKnows, Typed
<1>6. \A c \in Caller : call'[c] \in CallType /\ CallKnows(c)'
  <2> TAKE c \in Caller
  <2>1. runner'[c].stage = "idle"
    BY <1>1, NoRunType DEF Slot
  <2>2. CASE call[c].pc \in {"begun", "await", "raised"}
    <3>1. call'[c] = NoCall /\ NoCall.pc = "idle" /\ NoCall.informed
      BY <1>1, <2>2 DEF NoCall
    <3> QED
      BY <2>1, <3>1, NoCallType DEF CallKnows
  <2>3. CASE call[c].pc \notin {"begun", "await", "raised"}
    <3>1. call'[c] = call[c] /\ CallKnows(c)
      BY <1>1, <2>3 DEF SendInv
    <3> QED
      BY <1>2, <2>1, <2>3, <3>1 DEF CallKnows
  <2> QED
    BY <2>2, <2>3
<1>7. PromptsPaid'
  <2>1. ASSUME Outstanding, lost' = lost
        PROVE  Outstanding'
    <3>1. Recorded
      <4>1. CASE \E s \in Slot : Typed(s)
        <5>1. PICK s \in Slot : Typed(s)
          BY <4>1
        <5>2. lost \in Nat /\ runner[s].key \in Key
          BY <1>2 DEF SendInv, SendTypeOK, RunnerType
        <5>3. record[runner[s].key].sent
          BY <1>1, <2>1, <5>1, <5>2
        <5> QED
          BY <5>2, <5>3 DEF Recorded
      <4> QED
        BY <2>1, <4>1 DEF Outstanding
    <3> QED
      BY <1>3, <3>1 DEF Outstanding, Recorded
  <2> QED
    BY <1>1, <2>1, PaidFrame
<1>8. SendTypeOK'
  <2>1. record' \in [Key -> RecordType]
    BY <1>1, <1>3
  <2>2. call' \in [Caller -> CallType]
    BY <1>1, <1>6
  <2>3. runner' \in [Slot -> RunnerType]
    BY <1>1, NoRunType
  <2>4. faults' \in Nat /\ lost' \in Nat
    BY <1>1 DEF SendInv, SendTypeOK
  <2> QED
    BY <1>1, <2>1, <2>2, <2>3, <2>4 DEF SendInv, SendTypeOK
<1> QED
  BY <1>4, <1>5, <1>6, <1>7, <1>8 DEF SendInv

-----------------------------------------------------------------------------
(* The invariant holds.                                                    *)

LEMMA SendInvInit == Init => SendInv
<1> SUFFICES ASSUME Init PROVE SendInv
  OBVIOUS
<1>1. PICK p \in Payload : record = [k \in Key |-> [NewRecord(p) EXCEPT !.status = "absent"]]
  BY DEF Init
<1>2. \A k \in Key : /\ record[k] \in RecordType /\ record[k].status = "absent"
                     /\ record[k].sent = FALSE
                     /\ record[k].url = NoUrl /\ record[k].result = NoResult
  <2> DEFINE w == NewRecord(p)
  <2>1. w \in RecordType /\ w.sent = FALSE /\ w.url = NoUrl /\ w.result = NoResult
    BY Texts DEF NewRecord, RecordType, Status, NoUrl
  <2>2. record = [k \in Key |-> [w EXCEPT !.status = "absent"]]
    BY <1>1
  <2> HIDE DEF w
  <2> QED
    BY <2>1, <2>2 DEF RecordType
<1>3. record \in [Key -> RecordType]
  BY <1>1, <1>2
<1>4. /\ runner = [s \in Slot |-> NoRun] /\ call = [c \in Caller |-> NoCall]
      /\ prompts = << >> /\ lost = 0 /\ stale = 0 /\ calls = 0 /\ faults = 0
      /\ job \in [tool : {"chatgpt", "gemini"}, named : BOOLEAN] /\ asked = FALSE
  BY DEF Init
<1>5. SendTypeOK
  <2>1. asked \in BOOLEAN
    BY <1>4
  <2> QED
    BY <1>3, <1>4, <2>1, NoCallType, NoRunType DEF SendTypeOK
<1>6. \A k \in Key : RecordKnows(k)
  BY <1>2 DEF RecordKnows
<1>7. \A s \in Slot : RunKnows(s)
  BY <1>4, NoRunType DEF RunKnows, Typed
<1>8. \A c \in Caller : CallKnows(c)
  <2>1. NoCall.pc = "idle" /\ NoCall.informed
    BY DEF NoCall
  <2> QED
    BY <1>4, <2>1, NoRunType DEF CallKnows, Slot
<1>9. PromptsPaid
  BY <1>4 DEF PromptsPaid
<1> QED
  BY <1>5, <1>6, <1>7, <1>8, <1>9 DEF SendInv

LEMMA SendInvStep == SendInv /\ [Next]_vars => SendInv'
<1> SUFFICES ASSUME SendInv, [Next]_vars PROVE SendInv'
  OBVIOUS
<1>1. CASE UNCHANGED vars
  <2>1. SendInv' = SendInv
    BY <1>1 DEF vars, SendInv, SendTypeOK, RecordKnows, RunKnows, CallKnows, PromptsPaid,
                Outstanding, Recorded, Typed, Chatgpt, QuestionMayShow
  <2> QED
    BY <2>1
<1>2. ASSUME NEW c \in Caller, \/ CallTool(c) \/ Replay(c) \/ StartTask(c)
                               \/ QueueForLock(c) \/ MarkRaised(c) \/ Disconnect(c)
                               \/ Return(c) \/ FallBack(c)
      PROVE  SendInv'
  BY <1>2, CallToolPreserves, ReplayPreserves, StartTaskPreserves, QueueForLockPreserves,
     MarkRaisedPreserves, DisconnectPreserves, ReturnPreserves, FallBackPreserves
<1>3. ASSUME NEW s \in Slot, \/ OpenPage(s) \/ GuardSkips(s) \/ Click(s) \/ ClickMisses(s)
                             \/ RecordSent(s) \/ RecordUrl(s) \/ EndUnsent(s) \/ EndSent(s)
                             \/ EndForget(s) \/ EndAnswer(s) \/ EndResume(s)
                             \/ ResumeRaises(s) \/ Done(s)
      PROVE  SendInv'
  BY <1>3, OpenPagePreserves, GuardSkipsPreserves, ClickPreserves, ClickMissesPreserves,
     RecordSentPreserves, RecordUrlPreserves, EndUnsentPreserves, EndSentPreserves,
     EndForgetPreserves, EndAnswerPreserves, EndResumePreserves,
     ResumeRaisesPreserves, DonePreserves
<1>4. ASSUME NEW k \in Key, Age(k)
      PROVE  SendInv'
  BY <1>4, AgePreserves
<1> QED
  BY <1>1, <1>2, <1>3, <1>4, SomebodyAsksPreserves, RestartPreserves DEF Next

LEMMA SendInvHolds == Spec => []SendInv
BY SendInvInit, SendInvStep, PTL DEF Spec

\* Types of records, runs and calls, for any executors, requests and bounds.
THEOREM SendTypeTheorem == Spec => []SendTypeOK
<1>1. SendInv => SendTypeOK
  BY DEF SendInv
<1> QED
  BY <1>1, SendInvHolds, PTL

\* A question is typed again only after a run that typed and left no record, or
\* on a reading that a prompt overtook (begin, ask, the executor's fallback).
THEOREM ResendTheorem == Spec => []ResendNeedsLostEvidence
<1>1. SendInv => ResendNeedsLostEvidence
  <2> SUFFICES ASSUME SendInv PROVE ResendNeedsLostEvidence
    OBVIOUS
  <2>1. Len(prompts) \in Nat /\ lost \in Nat /\ stale \in Nat
    BY DEF SendInv, SendTypeOK
  <2> QED
    BY <2>1 DEF SendInv, PromptsPaid, ResendNeedsLostEvidence
<1> QED
  BY <1>1, SendInvHolds, PTL

\* A record says sent only of a question that was typed: under its key, or, in
\* the conversation a ChatGPT ask names, by whomever (_idempotency_update on
\* behalf of a run, the duplicate-prompt guard).
THEOREM SentMeansPromptTheorem == Spec => []SentMeansPrompt
<1>1. SendInv => SentMeansPrompt
  BY DEF SendInv, SentMeansPrompt, RecordKnows, QuestionMayShow
<1> QED
  BY <1>1, SendInvHolds, PTL

\* No key is ever left that later calls can neither run, nor resume, nor get
\* an answer for (the takeover of blank records in _idempotency_begin).
THEOREM NeverWedgedTheorem == Spec => []NeverWedged
<1>1. SendInv => NeverWedged
  <2> SUFFICES ASSUME SendInv, NEW k \in Key, NextCall(k) = "wedged"
               PROVE  FALSE
    BY DEF NeverWedged
  <2> DEFINE r == [record[k] EXCEPT !.age = 2]
  <2>1. record[k] \in RecordType /\ RecordKnows(k)
    BY DEF SendInv, SendTypeOK
  <2>2. /\ r \in RecordType /\ r.age = 2 /\ r.hash = record[k].hash
        /\ r.status = record[k].status /\ r.sent = record[k].sent
        /\ r.url = record[k].url /\ r.result = record[k].result
        /\ r.mine = record[k].mine
    BY <2>1 DEF RecordType
  <2>3. NextCall(k) = IF ShouldExecute(r, job.tool, r.hash) THEN "execute"
                      ELSE IF r.result # NoResult THEN "replay"
                      ELSE IF ~r.sent THEN IF Chatgpt THEN "execute" ELSE "wedged"
                      ELSE IF r.url # NoUrl THEN "resume" ELSE "wedged"
    BY DEF NextCall
  <2> HIDE DEF r
  <2>4. ~ShouldExecute(r, job.tool, r.hash) /\ r.result = NoResult
    BY <2>3
  <2>5. ~r.sent => ~Chatgpt
    BY <2>3
  <2>6. r.sent => r.url = NoUrl
    BY <2>3
  <2>7. ~r.sent
    BY <2>1, <2>2, <2>6 DEF RecordKnows
  <2>8. job.tool = "gemini"
    BY <2>5, <2>7 DEF Chatgpt, SendInv, SendTypeOK
  <2>9. r.status = "in_progress"
    <3>1. r.status # "completed"
      BY <2>1, <2>2, <2>4 DEF RecordKnows
    <3>2. r.status # "absent" /\ r.status # "failed"
      BY <2>4, <2>7 DEF ShouldExecute, FailedUnsent
    <3> QED
      BY <2>2, <3>1, <3>2 DEF RecordType, Status
  <2>10. Reclaimable(r, job.tool)
    BY <2>2, <2>7, <2>8, <2>9 DEF Reclaimable
  <2> QED
    BY <2>4, <2>10 DEF ShouldExecute
<1> QED
  BY <1>1, SendInvHolds, PTL

-----------------------------------------------------------------------------
(* Evidence is never given up.                                             *)

Evidence(k) ==
  /\ record[k].sent => record'[k].sent
  /\ record[k].status = "completed" => record'[k].status = "completed"
  /\ record[k].sent \/ record'[k].hash = record[k].hash =>
       /\ IsThread(record[k].url) => record'[k].url = record[k].url
       /\ record'[k].result.answer >= record[k].result.answer

LEMMA NoUpdateEvidence ==
  ASSUME SendInv, NEW k \in Key, record'[k] = record[k]
  PROVE  Evidence(k)
<1>1. record[k].result.answer \in Answer
  BY DEF SendInv, SendTypeOK, RecordType, Result
<1> QED
  BY <1>1 DEF Evidence, Answer

LEMMA StoreEvidence ==
  ASSUME SendInv, NEW n \in Key,
         NEW status \in Status \cup {"keep"}, NEW sent, NEW url \in Int, NEW result \in Result,
         Store(n, status, sent, url, result), NEW k \in Key
  PROVE  Evidence(k)
<1> DEFINE u == Updated(record[n], job.tool, status, sent, url, result)
<1>1. record[n] \in RecordType /\ record \in [Key -> RecordType]
  BY DEF SendInv, SendTypeOK
<1>2. Kept(record[n], u, status, sent, url, result)
  BY <1>1, UpdatedKeeps
<1> HIDE DEF u
<1>3. record' = record \/ record' = [record EXCEPT ![n] = u]
  BY DEF Store, u
<1>4. CASE record'[k] = record[k]
  BY <1>4, NoUpdateEvidence
<1>5. CASE k = n /\ record'[k] = u
  BY <1>2, <1>5 DEF Evidence, Kept
<1> QED
  BY <1>1, <1>3, <1>4, <1>5

LEMMA EndsEvidence ==
  ASSUME SendInv, NEW s \in Slot,
         NEW status \in Status \cup {"keep"}, NEW sent, NEW url \in Int, NEW result \in Result,
         Ends(s, status, sent, url, result), NEW k \in Key
  PROVE  Evidence(k)
<1> DEFINE f == [result EXCEPT !.clicked = runner[s].clicked]
           given == IF result = NoResult THEN result ELSE f
<1>1. runner[s].clicked \in BOOLEAN /\ runner[s].key \in Key
  BY DEF SendInv, SendTypeOK, RunnerType
<1>2. given \in Result
  BY <1>1 DEF Result
<1>3. Store(runner[s].key, status, sent, url, given)
  BY DEF Ends
<1> HIDE DEF given
<1> QED
  BY <1>1, <1>2, <1>3, StoreEvidence

LEMMA RunEvidence ==
  ASSUME SendInv, NEW s \in Slot, NEW k \in Key,
         \/ GuardSkips(s) \/ RecordSent(s) \/ RecordUrl(s) \/ EndUnsent(s)
         \/ EndSent(s) \/ EndForget(s) \/ EndAnswer(s) \/ EndResume(s)
  PROVE  Evidence(k)
<1>1. /\ NoResult \in Result /\ NamedThread \in Int /\ NoUrl \in Int
      /\ "keep" \in Status \cup {"keep"} /\ \A u \in PageUrl(s) : u \in Int
      /\ \A status \in Status : status \in Status \cup {"keep"}
      /\ "failed" \in Status /\ "in_progress" \in Status /\ "completed" \in Status
      /\ 0 \in Answer /\ 1 \in Answer /\ 2 \in Answer
      /\ runner[s].key \in Key
  BY Texts, PageUrls DEF NamedThread, NoUrl, Status, Answer, SendInv, SendTypeOK, RunnerType
<1>2. CASE GuardSkips(s)
  BY <1>1, <1>2, StoreEvidence DEF GuardSkips
<1>3. CASE RecordSent(s)
  BY <1>1, <1>3, StoreEvidence DEF RecordSent
<1>4. CASE RecordUrl(s)
  BY <1>1, <1>4, StoreEvidence DEF RecordUrl
<1>5. CASE EndUnsent(s)
  <2>1. PICK u \in PageUrl(s) \cup {NoUrl}, r \in {NoResult, Text("failed", 0)} :
          Ends(s, "failed", "no", u, r)
    BY <1>5 DEF EndUnsent
  <2>2. r \in Result
    BY <1>1, Texts
  <2> QED
    BY <1>1, <2>1, <2>2, EndsEvidence
<1>6. CASE EndSent(s)
  <2>1. PICK u \in PageUrl(s), r \in {Text("in_progress", 1), Text("failed", 0)} :
          Ends(s, r.status, "yes", u, r)
    BY <1>6 DEF EndSent
  <2>2. r \in Result /\ r.status \in Status
    BY <1>1, Texts
  <2> QED
    BY <1>1, <2>1, <2>2, EndsEvidence
<1>7. CASE EndForget(s)
  BY <1>1, <1>7, Texts, EndsEvidence DEF EndForget
<1>8. CASE EndAnswer(s)
  <2>1. PICK u \in PageUrl(s), r \in {Text("completed", 2), Text("in_progress", 1)} :
          Ends(s, r.status, "keep", u, r)
    BY <1>8 DEF EndAnswer
  <2>2. r \in Result /\ r.status \in Status
    BY <1>1, Texts
  <2> QED
    BY <1>1, <2>1, <2>2, EndsEvidence
<1>9. CASE EndResume(s)
  <2>1. ASSUME NEW r \in {Text("completed", 2), Text("in_progress", 1), Text("failed", 0)},
               Ends(s, r.status, "yes", NoUrl, r)
        PROVE  Evidence(k)
    <3>1. r \in Result /\ r.status \in Status
      BY <1>1, Texts
    <3> QED
      BY <1>1, <2>1, <3>1, EndsEvidence
  <2> QED
    BY <1>9, <2>1 DEF EndResume
<1> QED
  BY <1>2, <1>3, <1>4, <1>5, <1>6, <1>7, <1>8, <1>9

LEMMA CallEvidence ==
  ASSUME SendInv, NEW c \in Caller, Replay(c) \/ MarkRaised(c), NEW k \in Key
  PROVE  Evidence(k)
<1>1. CASE record' = record
  BY <1>1, NoUpdateEvidence
<1>2. CASE Replay(c) /\ WriteBack(c)
  <2>1. PICK status \in Status, sent \in {"yes", "no"} :
          /\ Store(call[c].key, status, sent, call[c].url, call[c].cached)
          /\ call[c].key \in Key /\ call[c].url \in Int /\ call[c].cached \in Result
    BY <1>2, WriteBackKnows DEF Replay
  <2>2. status \in Status \cup {"keep"}
    OBVIOUS
  <2> QED
    BY <2>1, <2>2, StoreEvidence
<1>3. CASE MarkRaised(c)
  <2>1. /\ call[c].key \in Key /\ Store(call[c].key, "failed", "keep", NoUrl, NoResult)
        /\ NoResult \in Result /\ NoUrl \in Int /\ "failed" \in Status \cup {"keep"}
    BY <1>3, Texts DEF MarkRaised, SendInv, SendTypeOK, CallType, NoUrl, Status
  <2> QED
    BY <2>1, StoreEvidence
<1> QED
  BY <1>1, <1>2, <1>3 DEF Replay

\* begin starts a record afresh only where nothing was sent.
LEMMA BegunEvidence ==
  ASSUME SendInv, NEW c \in Caller, CallTool(c), NEW k \in Key
  PROVE  Evidence(k)
<1>1. PICK p \in Payload : record' = [record EXCEPT ![call[c].key] =
                                        Begun(record[call[c].key], job.tool, p)]
  BY DEF CallTool
<1>2. CASE record'[k] = record[k]
  BY <1>2, NoUpdateEvidence
<1>3. CASE k = call[c].key /\ ShouldExecute(record[k], job.tool, p)
  <2> DEFINE r == record[k]
             b == Begun(r, job.tool, p)
  <2>1. r \in RecordType /\ RecordKnows(k) /\ record \in [Key -> RecordType]
    BY DEF SendInv, SendTypeOK
  <2>2. record'[k] = b
    BY <1>1, <1>3, <2>1
  <2>3. ~r.sent /\ r.status # "completed"
    BY <1>3, <2>1 DEF RecordKnows, ShouldExecute, FailedUnsent, Reclaimable
  <2>4. CASE r.status = "absent"
    <3>1. ~IsThread(r.url) /\ r.result = NoResult
      BY <2>1, <2>4 DEF RecordKnows, IsThread, NoUrl, NamedThread
    <3>2. b.result = NoResult
      BY <1>3, <2>4 DEF Begun, NewRecord
    <3> QED
      BY <2>2, <2>3, <3>1, <3>2 DEF Evidence, NoResult
  <2>5. CASE r.hash # p
    <3>1. b.hash # r.hash
      BY <1>3, <2>5 DEF Begun, NewRecord
    <3> QED
      BY <2>2, <2>3, <3>1 DEF Evidence
  <2>6. CASE r.status # "absent" /\ r.hash = p
    <3>1. b = [r EXCEPT !.status = "in_progress", !.age = 0, !.mine = TRUE]
      BY <1>3, <2>6 DEF Begun
    <3>2. b.url = r.url /\ b.result = r.result /\ r.result.answer \in Answer
      BY <2>1, <3>1 DEF RecordType, Result
    <3> QED
      BY <2>2, <2>3, <3>2 DEF Evidence, Answer
  <2> QED
    BY <2>4, <2>5, <2>6
<1>4. record[call[c].key] = Begun(record[call[c].key], job.tool, p)
        \/ ShouldExecute(record[call[c].key], job.tool, p)
  BY DEF Begun
<1> QED
  BY <1>1, <1>2, <1>3, <1>4 DEF SendInv, SendTypeOK

LEMMA StepEvidence ==
  ASSUME SendInv, [Next]_vars, NEW k \in Key
  PROVE  Evidence(k)
<1>1. CASE record' = record
  BY <1>1, NoUpdateEvidence
<1>2. CASE UNCHANGED vars
  BY <1>1, <1>2 DEF vars
<1>3. ASSUME NEW c \in Caller, \/ CallTool(c) \/ Replay(c) \/ StartTask(c)
                               \/ QueueForLock(c) \/ MarkRaised(c) \/ Disconnect(c)
                               \/ Return(c) \/ FallBack(c)
      PROVE  Evidence(k)
  BY <1>1, <1>3, BegunEvidence, CallEvidence
     DEF StartTask, QueueForLock, Disconnect, Return, FallBack
<1>4. ASSUME NEW s \in Slot, \/ OpenPage(s) \/ GuardSkips(s) \/ Click(s) \/ ClickMisses(s)
                             \/ RecordSent(s) \/ RecordUrl(s) \/ EndUnsent(s) \/ EndSent(s)
                             \/ EndForget(s) \/ EndAnswer(s) \/ EndResume(s)
                             \/ ResumeRaises(s) \/ Done(s)
      PROVE  Evidence(k)
  BY <1>1, <1>4, RunEvidence DEF OpenPage, Click, ClickMisses, ResumeRaises, Done
<1>5. ASSUME NEW n \in Key, Age(n) \/ Restart
      PROVE  Evidence(k)
  <2>1. record[k] \in RecordType /\ record[k].result.answer \in Answer
    BY DEF SendInv, SendTypeOK, RecordType, Result
  <2>2. /\ record'[k].status = record[k].status /\ record'[k].sent = record[k].sent
        /\ record'[k].url = record[k].url /\ record'[k].result = record[k].result
    <3>1. CASE Age(n)
      <4>1. record' = [record EXCEPT ![n].age = @ + 1] /\ record \in [Key -> RecordType]
        BY <3>1 DEF Age, SendInv, SendTypeOK
      <4>2. record'[k] = [record[k] EXCEPT !.age = @ + 1] \/ record'[k] = record[k]
        BY <4>1
      <4> QED
        BY <2>1, <4>2 DEF RecordType
    <3>2. CASE Restart
      BY <2>1, <3>2 DEF Restart, RecordType
    <3> QED
      BY <1>5, <3>1, <3>2
  <2> QED
    BY <2>1, <2>2 DEF Evidence, Answer
<1>6. CASE SomebodyAsks
  BY <1>1, <1>6 DEF SomebodyAsks
<1> QED
  BY <1>2, <1>3, <1>4, <1>5, <1>6 DEF Next

\* No step takes back that a prompt was sent, its thread, that it completed, or
\* part of its answer (_idempotency_update, _idempotency_begin).
THEOREM EvidenceTheorem == Spec => EvidenceKept
<1>1. SendInv /\ [Next]_vars =>
        [\A k \in Key :
           /\ record[k].sent => record'[k].sent
           /\ record[k].status = "completed" => record'[k].status = "completed"
           /\ record[k].sent \/ record'[k].hash = record[k].hash =>
                /\ IsThread(record[k].url) => record'[k].url = record[k].url
                /\ record'[k].result.answer >= record[k].result.answer]_vars
  BY StepEvidence DEF Evidence
<1> QED
  BY <1>1, SendInvHolds, PTL DEF Spec, EvidenceKept

=============================================================================

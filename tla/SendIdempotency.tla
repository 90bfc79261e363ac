--------------------------- MODULE SendIdempotency ---------------------------
(***************************************************************************)
(* How a prompt is typed at most once.  Executors call the browser         *)
(* driver's ask tool with an idempotency key of their job; the driver      *)
(* answers from the record of that key (SendRecord), joins or starts the   *)
(* background task of the key (ChatGPT: _tools_impl.py) or queues for the  *)
(* ask lock (Gemini: providers/gemini/ask.py), and the run of the prompt   *)
(* writes what it did back to the record.  Nothing ties the record to the  *)
(* page: a run may die, fail or go unconfirmed between the click and the   *)
(* update, and what a call read in the record is old when it acts on it.   *)
(*                                                                         *)
(* The keys are those of one job: the primary key, and the one used when   *)
(* the executor falls back to another preset (ChatGPT) or retries after a  *)
(* transient driver error (Gemini).  All ask the same question.            *)
(***************************************************************************)
EXTENDS SendRecord, Sequences

CONSTANTS Caller,       \* executors that work on the job, one after a lost lease
          Primary, Alternate,
          MaxCalls,     \* bound: tool calls
          MaxFaults     \* bound: deaths of the driver process and failed updates together

Key == {Primary, Alternate}
Slot == Key \cup Caller   \* who owns a run: the key (ChatGPT), the call (Gemini)

ASSUME SendAssumption == /\ Primary # Alternate
                         /\ Key \cap Caller = {}
                         /\ MaxCalls \in Nat /\ MaxFaults \in Nat

VARIABLES job,      \* the provider, and whether the ask names a conversation
          asked,    \* somebody else typed the same question there
          record,   \* the idempotency table
          runner,   \* the runs in the driver process
          call,     \* the calls of the executors
          prompts,  \* what was typed: the keys, in order
          lost,     \* ghost: runs that typed and left the record unsent
          stale,    \* ghost: prompts typed on an outdated reading of the record
          calls, faults

vars == <<job, asked, record, runner, call, prompts, lost, stale, calls, faults>>

Reply == [status : Status, clicked : BOOLEAN, thread : BOOLEAN]
Failure == [status |-> "failed", clicked |-> FALSE, thread |-> FALSE]

RunnerType ==
  [stage : {"idle",
            "queued",    \* preflight, page slot, ask lock
            "compose",   \* the page is open, nothing is sent
            "clicked",   \* the send button was pressed
            "sent",      \* sent_prompt; the thread URL is awaited
            "waiting",   \* for the answer
            "resume",    \* waiting in a thread, nothing to send
            "closing",   \* the record is written, the task still closes its page
            "raised"},   \* the resumed wait raised
   key : Key,
   thread : Nat,         \* the prompt it typed, 0 if none
   clicked : BOOLEAN,    \* debug_timeline shows a click
   informed : BOOLEAN,   \* ghost: the reading it rests on showed no sent prompt
   reply : Reply]

NoRun == [stage |-> "idle", key |-> Primary, thread |-> 0, clicked |-> FALSE,
          informed |-> FALSE, reply |-> Failure]

CallType ==
  [pc : {"idle", "begun", "await", "raised", "replied", "fallback"},
   key : Key,
   execute : BOOLEAN,    \* should_execute
   sent : BOOLEAN,       \* what begin read: sent, conversation_url, result
   url : Int,
   cached : Result,
   informed : BOOLEAN,   \* ghost, as above
   reply : Reply]

NoCall == [pc |-> "idle", key |-> Primary, execute |-> FALSE, sent |-> FALSE,
           url |-> NoUrl, cached |-> NoResult, informed |-> TRUE, reply |-> Failure]

Init == /\ job \in [tool : {"chatgpt", "gemini"}, named : BOOLEAN]
        /\ asked = FALSE
        /\ \E p \in Payload :
             record = [k \in Key |-> [NewRecord(p) EXCEPT !.status = "absent"]]
        /\ runner = [s \in Slot |-> NoRun]
        /\ call = [c \in Caller |-> NoCall]
        /\ prompts = << >>
        /\ lost = 0 /\ stale = 0 /\ calls = 0 /\ faults = 0

-----------------------------------------------------------------------------
Chatgpt == job.tool = "chatgpt"
SlotOf(c) == IF Chatgpt THEN call[c].key ELSE c

\* A page may show its own thread, or not yet.
PageUrl(s) == IF job.named THEN {NamedThread}
              ELSE {LandingPage} \cup ({runner[s].thread} \ {NoUrl})

\* asyncio.Lock of the Gemini driver.
HoldsAskLock(s) == runner[s].stage \notin {"idle", "queued"}

Typed(s) == runner[s].thread # 0
Recorded == \E k \in Key : record[k].sent
Outstanding == Recorded \/ \E s \in Slot : Typed(s)

\* An update of the record; every caller ignores that it failed.
Store(k, status, sent, url, result) ==
  \/ /\ record' = [record EXCEPT ![k] = Updated(@, job.tool, status, sent, url, result)]
     /\ UNCHANGED faults
  \/ /\ faults < MaxFaults /\ faults' = faults + 1
     /\ UNCHANGED record

SetCall(c, value) == call' = [call EXCEPT ![c] = value]
SetRunner(s, value) == runner' = [runner EXCEPT ![s] = value]

-----------------------------------------------------------------------------
(* The tool call up to its decision.                                       *)

\* _idempotency_begin on behalf of a call; a collision raises and leaves
\* everything alone.
CallTool(c) ==
  /\ call[c].pc \in {"idle", "fallback"} /\ calls < MaxCalls
  /\ \E p \in Payload :
       LET k == call[c].key
           r == record[k]
       IN /\ ~Collides(r, p)
          /\ record' = [record EXCEPT ![k] = Begun(r, job.tool, p)]
          /\ SetCall(c, [call[c] EXCEPT
                !.pc = "begun", !.execute = ShouldExecute(r, job.tool, p),
                !.sent = r.sent,
                !.url = Begun(r, job.tool, p).url, !.cached = r.result,
                !.informed = @ /\ ~r.sent])
  /\ calls' = calls + 1
  /\ UNCHANGED <<job, asked, runner, prompts, lost, stale, faults>>

\* The URL a resumed wait goes to.
ResumeUrl(c) == IF call[c].url # NoUrl THEN call[c].url
                ELSE IF job.named THEN NamedThread ELSE NoUrl

Resumes(c) == call[c].sent /\ ResumeUrl(c) # NoUrl

ReplyWith(c, reply) == SetCall(c, [NoCall EXCEPT !.pc = "replied", !.key = call[c].key,
                                                 !.reply = reply])

\* ChatGPT: an answer too long to be returned is saved to a file, and the result
\* that points at it goes back into the record, with sent as begin read it.
WriteBack(c) ==
  LET r == call[c].cached
  IN /\ Chatgpt /\ r.answer # 0
     /\ Store(call[c].key, IF r.status = "none" THEN "completed" ELSE r.status,
              IF call[c].sent THEN "yes" ELSE "no", call[c].url, r)

\* An answer from the record: the stored result, or (Gemini) its status.
Replay(c) ==
  /\ call[c].pc = "begun" /\ ~call[c].execute
  /\ call[c].cached # NoResult \/ ~Chatgpt
  /\ WriteBack(c) \/ UNCHANGED <<record, faults>>
  /\ LET r == call[c].cached
     IN ReplyWith(c, [status |-> IF r.status = "none" THEN "in_progress" ELSE r.status,
                      clicked |-> r.clicked, thread |-> IsThread(call[c].url)])
  /\ UNCHANGED <<job, asked, runner, prompts, lost, stale, calls>>

Undecided(c) == /\ Chatgpt
                /\ call[c].pc = "begun" /\ (call[c].execute \/ call[c].cached = NoResult)

\* _get_or_start_job: one task per key and process.  (A sent record without a
\* URL, for which the code refuses to start one, is never read: NeverWedged.)
GetOrStart(c) ==
  IF runner[call[c].key].stage # "idle" THEN UNCHANGED runner
  ELSE SetRunner(call[c].key,
         [NoRun EXCEPT !.stage = IF Resumes(c) THEN "resume" ELSE "queued",
                       !.key = call[c].key, !.informed = call[c].informed])

StartTask(c) ==
  /\ Undecided(c) /\ (call[c].sent => Resumes(c))
  /\ GetOrStart(c)
  /\ SetCall(c, [NoCall EXCEPT !.pc = "await", !.key = call[c].key])
  /\ UNCHANGED <<job, asked, record, prompts, lost, stale, calls, faults>>

\* Mutant: the run is filed under the caller, not under the key.
QueueUnderCaller(c) ==
  /\ ~Chatgpt /\ call[c].pc = "begun" /\ call[c].execute
  /\ SetRunner(c, [NoRun EXCEPT !.stage = "queued", !.key = c,
                                !.informed = call[c].informed])
  /\ SetCall(c, [NoCall EXCEPT !.pc = "await", !.key = call[c].key])
  /\ UNCHANGED <<job, asked, record, prompts, lost, stale, calls, faults>>

\* Gemini: the call runs the prompt itself once it has the ask lock; the
\* record is not read again inside.
QueueForLock(c) ==
  /\ ~Chatgpt /\ call[c].pc = "begun" /\ call[c].execute
  /\ SetRunner(c, [NoRun EXCEPT !.stage = "queued", !.key = call[c].key,
                                !.informed = call[c].informed])
  /\ SetCall(c, [NoCall EXCEPT !.pc = "await", !.key = call[c].key])
  /\ UNCHANGED <<job, asked, record, prompts, lost, stale, calls, faults>>

-----------------------------------------------------------------------------
(* The run of a prompt.                                                    *)

OpenPage(s) ==
  /\ runner[s].stage = "queued"
  /\ Chatgpt \/ ~\E t \in Slot : HoldsAskLock(t)
  /\ SetRunner(s, [runner[s] EXCEPT !.stage = "compose"])
  /\ UNCHANGED <<job, asked, record, call, prompts, lost, stale, calls, faults>>

\* The last message the user typed in the conversation the ask names may be the
\* question: the job's own, another job's or a human's.  (It is the last only as
\* long as nobody types something else, and the guard may be off or the message
\* unreadable: that it shows is never forced upon a run.)
QuestionMayShow == Chatgpt /\ job.named /\ (prompts # << >> \/ asked)

\* The page ends with this question, whoever typed it: nothing is typed and the
\* record is marked (CHATGPT_DUPLICATE_PROMPT_GUARD).
GuardSkips(s) ==
  /\ QuestionMayShow /\ runner[s].stage = "compose"
  /\ Store(runner[s].key, "keep", "yes", NamedThread, NoResult)
  /\ SetRunner(s, [runner[s] EXCEPT !.stage = "sent"])
  /\ UNCHANGED <<job, asked, call, prompts, lost, stale, calls>>

\* The prompt reaches the provider, at once or with the second click that
\* follows an unconfirmed one.
Click(s) ==
  /\ runner[s].stage \in {"compose", "clicked"} /\ ~Typed(s)
  /\ prompts' = Append(prompts, runner[s].key)
  /\ SetRunner(s, [runner[s] EXCEPT !.stage = "clicked", !.clicked = TRUE,
                                    !.thread = Len(prompts) + 1])
  /\ stale' = IF Outstanding /\ runner[s].informed THEN stale + 1 ELSE stale
  /\ UNCHANGED <<job, asked, record, call, lost, calls, faults>>

\* It does not, and ChatGPT's page does not confirm it.  Gemini's is not asked:
\* there a prompt is a press of the button that did not raise.
ClickMisses(s) ==
  /\ Chatgpt /\ runner[s].stage = "compose"
  /\ SetRunner(s, [runner[s] EXCEPT !.stage = "clicked", !.clicked = TRUE])
  /\ UNCHANGED <<job, asked, record, call, prompts, lost, stale, calls, faults>>

\* Mutant: the record says sent before the click.
RecordSentFirst(s) ==
  /\ runner[s].stage = "compose"
  /\ \E u \in PageUrl(s) : Store(runner[s].key, "keep", "yes", u, NoResult)
  /\ SetRunner(s, [runner[s] EXCEPT !.stage = "sent"])
  /\ UNCHANGED <<job, asked, call, prompts, lost, stale, calls>>

\* The prompt shows on the page (ChatGPT) or the button was pressed (Gemini):
\* the evidence is written.  A failing update is ignored.
RecordSent(s) ==
  /\ runner[s].stage = "clicked" /\ Typed(s)
  /\ \E u \in PageUrl(s) : Store(runner[s].key, "keep", "yes", u, NoResult)
  /\ SetRunner(s, [runner[s] EXCEPT !.stage = IF Chatgpt THEN "sent" ELSE "waiting"])
  /\ UNCHANGED <<job, asked, call, prompts, lost, stale, calls>>

\* The wait for the thread URL is over.
RecordUrl(s) ==
  /\ runner[s].stage = "sent"
  /\ \E u \in PageUrl(s) : Store(runner[s].key, "keep", "keep", u, NoResult)
  /\ SetRunner(s, [runner[s] EXCEPT !.stage = "waiting"])
  /\ UNCHANGED <<job, asked, call, prompts, lost, stale, calls>>

\* The run ends: its last update, and the reply its callers will get.
Ends(s, status, sent, url, result) ==
  LET k == runner[s].key
      r == [result EXCEPT !.clicked = runner[s].clicked]
  IN /\ Store(k, status, sent, url, IF result = NoResult THEN result ELSE r)
     /\ lost' = IF Typed(s) /\ ~record'[k].sent THEN lost + 1 ELSE lost
     /\ SetRunner(s, [NoRun EXCEPT !.stage = "closing", !.key = k,
                       !.reply = [status |-> IF status = "keep" THEN "failed" ELSE status,
                                  clicked |-> runner[s].clicked, thread |-> IsThread(url)]])
     /\ UNCHANGED <<job, asked, call, prompts, stale, calls>>

Text(status, answer) == [status |-> status, answer |-> answer, clicked |-> FALSE]

\* Preflight, an exception before sent_prompt is set (a click that was never
\* confirmed included), the tab limit, Gemini's overall timeout: the record is
\* told that nothing was sent.  What the handler itself raises reaches ChatGPT's
\* task, which stores no result.
EndUnsent(s) ==
  /\ \/ runner[s].stage = "queued" /\ Chatgpt
     \/ runner[s].stage \in {"compose", "clicked", "sent", "waiting"}
  /\ \E u \in PageUrl(s) \cup {NoUrl}, r \in {NoResult, Text("failed", 0)} :
       (r = NoResult => Chatgpt) /\ Ends(s, "failed", "no", u, r)

\* An exception after it: resumable, or blocked by the rate-limit modal.
EndSent(s) ==
  /\ runner[s].stage \in {"sent", "waiting"} \/ (runner[s].stage = "clicked" /\ ~Chatgpt)
  /\ \E u \in PageUrl(s), r \in {Text("in_progress", 1), Text("failed", 0)} :
       Ends(s, r.status, "yes", u, r)

\* Fire and forget: the send phase ends with whatever text is there.
EndForget(s) ==
  /\ Chatgpt /\ runner[s].stage = "waiting"
  /\ \E u \in PageUrl(s) : Ends(s, "in_progress", "yes", u, Text("in_progress", 1))

\* The answer, or what is there of it when the wait for it times out; sent is
\* not among the fields written.
EndAnswer(s) ==
  /\ runner[s].stage = "waiting"
  /\ \E u \in PageUrl(s), r \in {Text("completed", 2), Text("in_progress", 1)} :
       Ends(s, r.status, "keep", u, r)

\* The resumed wait ends with what it found.
EndResume(s) ==
  /\ runner[s].stage = "resume"
  /\ \E r \in {Text("completed", 2), Text("in_progress", 1), Text("failed", 0)} :
       Ends(s, r.status, "yes", NoUrl, r)

\* It raises: unlike the send's, its task leaves that to those who await it.
ResumeRaises(s) ==
  /\ runner[s].stage = "resume"
  /\ SetRunner(s, [NoRun EXCEPT !.stage = "raised", !.key = runner[s].key])
  /\ UNCHANGED <<job, asked, record, call, prompts, lost, stale, calls, faults>>

\* The task is done: everybody who awaits it gets its reply, or its exception.
Done(s) ==
  /\ runner[s].stage \in {"closing", "raised"}
  /\ SetRunner(s, NoRun)
  /\ call' = [c \in Caller |->
                IF call[c].pc = "await" /\ SlotOf(c) = s
                THEN [call[c] EXCEPT
                        !.pc = IF runner[s].stage = "raised" THEN "raised" ELSE "replied",
                        !.reply = runner[s].reply]
                ELSE call[c]]
  /\ UNCHANGED <<job, asked, record, prompts, lost, stale, calls, faults>>

\* Each marks the record, whatever has become of it in between.
MarkRaised(c) ==
  /\ call[c].pc = "raised"
  /\ Store(call[c].key, "failed", "keep", NoUrl, NoResult)
  /\ SetCall(c, [call[c] EXCEPT !.pc = "replied"])
  /\ UNCHANGED <<job, asked, runner, prompts, lost, stale, calls>>

-----------------------------------------------------------------------------
(* The executor.                                                           *)

\* A transport error ends the call, not the task.
Disconnect(c) ==
  /\ Chatgpt /\ call[c].pc = "await"
  /\ SetCall(c, NoCall)
  /\ UNCHANGED <<job, asked, record, runner, prompts, lost, stale, calls, faults>>

Return(c) ==
  /\ call[c].pc = "replied"
  /\ SetCall(c, NoCall)
  /\ UNCHANGED <<job, asked, record, runner, prompts, lost, stale, calls, faults>>

\* Nothing was sent under the primary key, as far as the reply and (ChatGPT)
\* the record tell; a record that cannot be read does not count as evidence.
MayFallBack(c, readable) ==
  \/ ~Chatgpt
  \/ /\ ~call[c].reply.clicked
     /\ job.named \/ ~call[c].reply.thread
     /\ readable => /\ ~record[Primary].sent
                    /\ job.named \/ ~IsThread(record[Primary].url)

\* Another preset (ChatGPT), or the same prompt under a regenerated key after a
\* transient driver error (Gemini).
FallBack(c) ==
  /\ call[c].pc = "replied" /\ call[c].key = Primary /\ call[c].reply.status = "failed"
  /\ \E readable \in BOOLEAN :
       /\ MayFallBack(c, readable)
       /\ SetCall(c, [NoCall EXCEPT !.pc = "fallback", !.key = Alternate,
                        !.informed = ~Chatgpt \/ ~readable \/ ~record[Primary].sent])
  /\ UNCHANGED <<job, asked, record, runner, prompts, lost, stale, calls, faults>>

-----------------------------------------------------------------------------
(* Other users of the conversation, time and faults.                       *)

\* An earlier job, another one or a human asks the same in the conversation the
\* ask names.  Only ChatGPT's guard looks, and once the job itself typed the
\* question it makes no difference.
SomebodyAsks ==
  /\ Chatgpt /\ job.named /\ ~asked /\ prompts = << >>
  /\ asked' = TRUE
  /\ UNCHANGED <<job, record, runner, call, prompts, lost, stale, calls, faults>>

\* Only the age of an unsent record in progress is ever looked at.
Age(k) ==
  /\ record[k].status = "in_progress" /\ ~record[k].sent /\ record[k].age < 2
  /\ record' = [record EXCEPT ![k].age = @ + 1]
  /\ UNCHANGED <<job, asked, runner, call, prompts, lost, stale, calls, faults>>

\* The driver process dies; the pages keep what was typed.
Restart ==
  /\ faults < MaxFaults
  /\ faults' = faults + 1
  /\ lost' = IF \E s \in Slot : Typed(s) /\ ~record[runner[s].key].sent
             THEN lost + 1 ELSE lost
  /\ record' = [k \in Key |-> [record[k] EXCEPT !.mine = FALSE]]
  /\ runner' = [s \in Slot |-> NoRun]
  /\ call' = [c \in Caller |-> IF call[c].pc \in {"begun", "await", "raised"} THEN NoCall
                               ELSE call[c]]
  /\ UNCHANGED <<job, asked, prompts, stale, calls>>

Next ==
  \/ \E c \in Caller : \/ CallTool(c) \/ Replay(c) \/ StartTask(c)
                       \/ QueueForLock(c) \/ MarkRaised(c) \/ Disconnect(c)
                       \/ Return(c) \/ FallBack(c)
  \/ \E s \in Slot : \/ OpenPage(s) \/ GuardSkips(s) \/ Click(s) \/ ClickMisses(s)
                     \/ RecordSent(s) \/ RecordUrl(s) \/ EndUnsent(s) \/ EndSent(s)
                     \/ EndForget(s) \/ EndAnswer(s) \/ EndResume(s) \/ ResumeRaises(s)
                     \/ Done(s)
  \/ \E k \in Key : Age(k)
  \/ SomebodyAsks
  \/ Restart

Spec == Init /\ [][Next]_vars

-----------------------------------------------------------------------------
(* Properties.                                                             *)

\* Types of the record, the runs, the calls and the ghosts.
SendTypeOK ==
  /\ job \in [tool : {"chatgpt", "gemini"}, named : BOOLEAN] /\ asked \in BOOLEAN
  /\ record \in [Key -> RecordType]
  /\ runner \in [Slot -> RunnerType]
  /\ call \in [Caller -> CallType]
  /\ prompts \in Seq(Key)
  /\ lost \in Nat /\ stale \in Nat /\ calls \in Nat /\ faults \in Nat

\* The question is typed once.  Every further prompt of the job, whichever
\* key, call or process types it, is paid for by a run that typed and left no
\* trace in the record, or by a decision taken on a reading that showed no
\* prompt and was overtaken by one; a call that was told of a prompt never
\* leads to another (begin, ask, the fallback of the executor).
ResendNeedsLostEvidence == Len(prompts) <= 1 + lost + stale

\* sent is never recorded ahead of the fact.  What it says is that the question
\* was typed under the key; for a ChatGPT ask that names its conversation, only
\* that it was typed there, under another key of the job or by somebody else
\* (duplicate-prompt guard): the job itself may have typed nothing.
SentMeansPrompt ==
  \A k \in Key : record[k].sent =>
     \/ \E i \in DOMAIN prompts : prompts[i] = k
     \/ Chatgpt /\ job.named /\ (asked \/ prompts # << >>)

\* Updates arrive in any order, late ones of a run that was given up
\* included; none takes back that the prompt was sent, the thread it is in,
\* that it completed, or part of the answer (_idempotency_update), and begin
\* starts afresh only for another request and where nothing was sent.
EvidenceKept ==
  [][\A k \in Key :
       /\ record[k].sent => record'[k].sent
       /\ record[k].status = "completed" => record'[k].status = "completed"
       /\ record[k].sent \/ record'[k].hash = record[k].hash =>
            /\ IsThread(record[k].url) => record'[k].url = record[k].url
            /\ record'[k].result.answer >= record[k].result.answer]_vars

\* What the next call with this record's request comes to, once the record is
\* as old as it can get.
NextCall(k) ==
  LET r == [record[k] EXCEPT !.age = 2]
  IN IF ShouldExecute(r, job.tool, r.hash) THEN "execute"
     ELSE IF r.result # NoResult THEN "replay"
     ELSE IF ~r.sent THEN IF Chatgpt THEN "execute" ELSE "wedged"
     ELSE IF r.url # NoUrl THEN "resume" ELSE "wedged"

\* No death of the driver, failed update or lost click leaves a key that
\* later calls can neither run, nor resume, nor get an answer for: the blank
\* record is taken over after its grace, and a sent one always has a URL.
NeverWedged == \A k \in Key : NextCall(k) # "wedged"

=============================================================================

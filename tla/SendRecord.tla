----------------------------- MODULE SendRecord -----------------------------
(***************************************************************************)
(* The driver's idempotency record of one (tool, key) pair                 *)
(* (chatgpt_web_mcp/idempotency.py): what a call that arrives is told, and *)
(* what the run of a prompt writes back.  Both are one SQLite transaction  *)
(* under a file lock, hence pure operators on the record here.             *)
(*                                                                         *)
(* A URL is NoUrl, the provider's landing page, the thread the caller      *)
(* named, or the thread that the i-th prompt opened, written i.  An answer *)
(* is nothing (0), a partial text (1) or the whole text (2); a stored      *)
(* result that only points at the saved text counts as that text.          *)
(***************************************************************************)
EXTENDS Integers

CONSTANT Payload   \* request hashes

NoUrl == 0
LandingPage == -1
NamedThread == -2
IsThread(u) == u = NamedThread \/ u > 0

Answer == {0, 1, 2}
Status == {"in_progress", "failed", "completed"}   \* failed: error, blocked, cooldown

NoResult == [status |-> "none", answer |-> 0, clicked |-> FALSE]
Result == [status : Status \cup {"none"}, answer : Answer, clicked : BOOLEAN]

RecordType == [status : Status \cup {"absent"},
               hash : Payload,
               sent : BOOLEAN,
               url : Int,
               result : Result,
               age : {0, 1, 2},  \* 1: the grace of a blank record, 2: 600 s
               mine : BOOLEAN]  \* written by the driver process that runs now

-----------------------------------------------------------------------------
(* _idempotency_begin                                                      *)

\* Mutant: a failed attempt is retried whether or not it sent.
FailedAtAll(r) == r.status = "failed"

\* Nothing was sent, and the attempt is over.
FailedUnsent(r) == r.status = "failed" /\ ~r.sent

\* No send-side signal at all.
Blank(r) == r.url = NoUrl /\ r.result = NoResult

\* Mutant: a blank record is only taken over from a dead process.
ReclaimableByOthers(r, tool) ==
  /\ r.status = "in_progress" /\ ~r.sent
  /\ IF Blank(r) THEN r.age >= 1 /\ ~r.mine ELSE r.age = 2

\* The attempt that holds the record is given up: a blank record after its
\* grace (Gemini: also within one process), one with partial state after 600 s.
Reclaimable(r, tool) ==
  /\ r.status = "in_progress" /\ ~r.sent
  /\ IF Blank(r) THEN r.age >= 1 /\ (~r.mine \/ tool = "gemini") ELSE r.age = 2

\* The same key with another request, while the first may have been sent.
Collides(r, p) == r.status # "absent" /\ r.hash # p /\ ~r.sent /\ ~FailedUnsent(r)

\* should_execute
ShouldExecute(r, tool, p) ==
  \/ r.status = "absent"
  \/ FailedUnsent(r)
  \/ r.hash = p /\ Reclaimable(r, tool)

NewRecord(p) == [status |-> "in_progress", hash |-> p, sent |-> FALSE, url |-> NoUrl,
                 result |-> NoResult, age |-> 0, mine |-> TRUE]

\* The record as begin leaves it; a retry of the same request keeps what the
\* failed attempt stored.
Begun(r, tool, p) ==
  IF ~ShouldExecute(r, tool, p) THEN r
  ELSE IF r.status = "absent" \/ r.hash # p THEN NewRecord(p)
  ELSE [r EXCEPT !.status = "in_progress", !.age = 0, !.mine = TRUE]

-----------------------------------------------------------------------------
(* _idempotency_update.  "keep" and NoUrl and NoResult: not given.         *)

\* Only ChatGPT's thread URLs are told from other URLs ("/c/"): they replace a
\* landing page, while for Gemini the first URL stays.
KeptUrl(old, url, tool) ==
  IF old = NoUrl \/ (tool = "chatgpt" /\ ~IsThread(old) /\ IsThread(url)) THEN url
  ELSE old

KeptResult(old, result) ==
  IF result = NoResult THEN old
  ELSE [result EXCEPT !.answer = IF @ > old.answer THEN @ ELSE old.answer]

\* Mutant: sent is stored as given.
UpdatedSentLast(r, tool, status, sent, url, result) ==
  [r EXCEPT !.sent = IF sent = "keep" THEN @ ELSE sent = "yes",
            !.status = IF status = "keep" \/ @ = "completed" THEN @ ELSE status,
            !.url = KeptUrl(@, url, tool),
            !.result = KeptResult(@, result),
            !.age = 0]

\* sent, completed, a thread URL and the longer answer are never given up.
Updated(r, tool, status, sent, url, result) ==
  [r EXCEPT !.sent = @ \/ sent = "yes",
            !.status = IF status = "keep" \/ @ = "completed" THEN @ ELSE status,
            !.url = KeptUrl(@, url, tool),
            !.result = KeptResult(@, result),
            !.age = 0]
=============================================================================

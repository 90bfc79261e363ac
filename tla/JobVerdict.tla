----------------------------- MODULE JobVerdict -----------------------------
(***************************************************************************)
(* What the job service promises a client about one submission: a job that *)
(* was accepted is decided at most once, as completed, error or canceled,  *)
(* and an answer can be fetched exactly when the decision is "completed".  *)
(* Whoever decides (a worker, a cancel request, the backlog janitor), and  *)
(* however many leases, retries and crashes lie in between, is not seen    *)
(* here: JobStore implements this module.                                  *)
(***************************************************************************)
CONSTANTS Job,      \* job ids
          Token,    \* identities of the answers that may be published
          NoToken   \* no answer

VARIABLES verdict,  \* what GET /v1/jobs/{id} tells about the outcome
          answer    \* the answer a client can download

vars == <<verdict, answer>>

Final == {"completed", "error", "canceled"}

Init == /\ verdict = [j \in Job |-> "absent"]
        /\ answer = [j \in Job |-> NoToken]

Submit(j) == /\ verdict[j] = "absent"
             /\ verdict' = [verdict EXCEPT ![j] = "open"]
             /\ UNCHANGED answer

Complete(j) == /\ verdict[j] = "open"
               /\ verdict' = [verdict EXCEPT ![j] = "completed"]
               /\ \E a \in Token : answer' = [answer EXCEPT ![j] = a]

Refuse(j) == /\ verdict[j] = "open"
             /\ \E v \in Final \ {"completed"} : verdict' = [verdict EXCEPT ![j] = v]
             /\ UNCHANGED answer

Next == \E j \in Job : Submit(j) \/ Complete(j) \/ Refuse(j)

Spec == Init /\ [][Next]_vars
=============================================================================

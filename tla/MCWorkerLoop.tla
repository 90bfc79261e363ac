---------------------------- MODULE MCWorkerLoop ----------------------------
(* Small instances of the worker loop.                                     *)
EXTENDS WorkerLoop, TLC

CONSTANTS j1, j2, j3, w1, w2, w3

AllChatgpt == [j \in Job |-> "chatgpt_web.ask"]
AllGemini == [j \in Job |-> "gemini_web.ask"]
ChatgptHost == [c \in Conversation |-> "chatgpt"]
GeminiHost == [c \in Conversation |-> "gemini"]

SendAndWait == (w1 :> "send") @@ (w2 :> "wait")
AllRoles == [w \in Worker |-> "all"]

\* Two processes of the send service and one of the wait service (ops/systemd).
SendersAndWait == [w \in Worker |-> IF w = w3 THEN "wait" ELSE "send"]

NewChat == {[parent |-> NoJob, conversation |-> NoConversation, allowQueue |-> FALSE]}

\* New chats, and asks that name their conversation.
ThreadOrNone == [parent : {NoJob}, conversation : Conversation \cup {NoConversation},
                 allowQueue : BOOLEAN]

\* A new chat, and follow-ups to j1 that may be queued before its
\* conversation is known.
QueuedFollowUps == [parent : {j1, NoJob}, conversation : {NoConversation},
                    allowQueue : {TRUE}]

\* The same without allow_queue.
FollowUps == [parent : {j1, NoJob}, conversation : {NoConversation},
              allowQueue : {FALSE}]

TokenSymmetry == Permutations(Token)
SharedSymmetry == Permutations(Token) \cup Permutations(Conversation)
                  \cup Permutations(Job) \cup Permutations(Worker \ {w3})
=============================================================================

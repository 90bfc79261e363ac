---------------------------- MODULE MCSubmission ----------------------------
(* Small instances of the submission of jobs.                              *)
EXTENDS Submission, TLC

CONSTANTS j1, j2

AllChatgpt == [j \in Job |-> "chatgpt_web.ask"]
ChatgptHost == [c \in Conversation |-> "chatgpt"]

\* Fresh chats, and follow-ups of the first job.
NewOrFollowUp == [parent : {NoJob, j1}, conversation : {NoConversation}, allowQueue : {FALSE}]

\* The pause of everything, set by an operator.
PauseOfAll == {[mode |-> "all", auto |-> FALSE]}

Symmetry == Permutations(Token) \cup Permutations(IdemKey) \cup Permutations(Prompt)
=============================================================================

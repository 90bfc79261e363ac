----------------------------- MODULE MCJobStore -----------------------------
(* Small instances of the job store; one operator per value a .cfg picks.  *)
EXTENDS JobStore, TLC

CONSTANTS j1, j2

AllGemini == [j \in Job |-> "gemini_web.ask"]
GeminiHost == [c \in Conversation |-> "gemini"]

\* Pauses of sends and of everything, set by an operator or by the code.
EveryPause == [mode : {"send", "all"}, auto : BOOLEAN]

\* A fresh chat.
NewChat == {[parent |-> NoJob, conversation |-> NoConversation, allowQueue |-> FALSE]}

TokenSymmetry == Permutations(Token)
=============================================================================

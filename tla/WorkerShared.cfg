\* Two Gemini asks with or without a thread, two send workers and a wait worker,
\* one fault.
SPECIFICATION Spec
CONSTANTS
  j1 = j1
  j2 = j2
  j3 = j3
  w1 = w1
  w2 = w2
  w3 = w3
  Job = {j1, j2}
  Kind <- AllGemini
  Conversation = {c1, c2}
  Host <- GeminiHost
  Token = {t1, t2, t3, t4}
  MaxAttempts = 1
  AttemptsCap = 2
  MaxExtensions = 0
  Request <- ThreadOrNone
  PauseState = {}
  MayHold = FALSE
  MayTear = FALSE
  NoJob = NoJob
  NoConversation = NoConversation
  NoToken = NoToken
  Worker = {w1, w2, w3}
  Role <- SendersAndWait
  MaxFaults = 1
SYMMETRY SharedSymmetry
INVARIANTS
  OneSendPerConversation
  ExpiredIsReclaimable
CHECK_DEADLOCK FALSE

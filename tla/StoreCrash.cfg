\* One Gemini ask under every pause and the hold, and every crash between files and rows.
SPECIFICATION StoreSpec
CONSTANTS
  j1 = j1
  j2 = j2
  Job = {j1}
  Kind <- AllGemini
  Conversation = {c1}
  Host <- GeminiHost
  Token = {t1, t2, t3}
  MaxAttempts = 2
  AttemptsCap = 4
  MaxExtensions = 1
  Request <- NewChat
  PauseState <- EveryPause
  MayHold = TRUE
  MayTear = TRUE
  NoJob = NoJob
  NoConversation = NoConversation
  NoToken = NoToken
SYMMETRY TokenSymmetry
INVARIANTS
  StoreTypeOK
  VerdictPublished
  AttemptBudget
  RetryClaimable
PROPERTIES
  TerminalFinal
  ParkedStaysParked
  VerdictSpec
  PauseRespected
CHECK_DEADLOCK FALSE

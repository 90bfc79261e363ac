\* Liveness: one ask, a send and a wait worker, one fault.
SPECIFICATION LiveSpec
CONSTANTS
  j1 = j1
  j2 = j2
  j3 = j3
  w1 = w1
  w2 = w2
  w3 = w3
  Job = {j1}
  Kind <- AllChatgpt
  Conversation = {c1}
  Host <- ChatgptHost
  Token = {t1, t2, t3}
  MaxAttempts = 1
  AttemptsCap = 2
  MaxExtensions = 1
  Request <- NewChat
  PauseState = {}
  MayHold = FALSE
  MayTear = FALSE
  NoJob = NoJob
  NoConversation = NoConversation
  NoToken = NoToken
  Worker = {w1, w2}
  Role <- SendAndWait
  MaxFaults = 1
PROPERTIES
  LeaseRecovers
  CancelSettles
CHECK_DEADLOCK FALSE

\* A follow-up that learns its conversation after the claim.
SPECIFICATION Spec
CONSTANTS
  j1 = j1
  j2 = j2
  j3 = j3
  w1 = w1
  w2 = w2
  w3 = w3
  Job = {j1, j2, j3}
  Kind <- AllChatgpt
  Conversation = {c1}
  Host <- ChatgptHost
  Token = {t1, t2, t3, t4}
  MaxAttempts = 1
  AttemptsCap = 2
  MaxExtensions = 0
  Request <- QueuedFollowUps
  PauseState = {}
  MayHold = FALSE
  MayTear = FALSE
  NoJob = NoJob
  NoConversation = NoConversation
  NoToken = NoToken
  Worker = {w1, w2}
  Role <- AllRoles
  MaxFaults = 0
SYMMETRY TokenSymmetry
INVARIANT
  OneSendPerConversation
CHECK_DEADLOCK FALSE

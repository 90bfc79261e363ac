\* One ask, two workers that take every phase, two faults, every crash point.
SPECIFICATION Spec
CONSTANTS
  j1 = j1
  j2 = j2
  j3 = j3
  w1 = w1
  w2 = w2
  w3 = w3
  Job = {j1}
  Kind <- AllChatgpt
  Conversation = {c1}
  Host <- ChatgptHost
  Token = {t1, t2, t3, t4}
  MaxAttempts = 1
  AttemptsCap = 2
  MaxExtensions = 1
  Request <- NewChat
  PauseState = {}
  MayHold = FALSE
  MayTear = TRUE
  NoJob = NoJob
  NoConversation = NoConversation
  NoToken = NoToken
  Worker = {w1, w2}
  Role <- AllRoles
  MaxFaults = 2
SYMMETRY TokenSymmetry
INVARIANTS
  WorkerTypeOK
  VerdictPublished
PROPERTIES
  PhaseMonotone
CHECK_DEADLOCK FALSE

\* Two chatgpt asks under a pause and the hold, posted under two keys by a
\* registered client or made from inside.
SPECIFICATION SubmissionSpec
CONSTANTS
  j1 = j1
  j2 = j2
  Job = {j1, j2}
  Kind <- AllChatgpt
  Conversation = {}
  Host <- ChatgptHost
  Token = {t1, t2}
  MaxAttempts = 1
  AttemptsCap = 1
  MaxExtensions = 0
  Request <- NewOrFollowUp
  PauseState <- PauseOfAll
  MayHold = TRUE
  MayTear = FALSE
  NoJob = NoJob
  NoConversation = NoConversation
  NoToken = NoToken
  IdemKey = {k1, k2}
  Client = {wrapper}
  Internal = Internal
  Prompt = {p, q}
  MaxInFlight = 2
  MaxChatgpt = 1
  NoRecord = NoRecord
  NoAsk = NoAsk
SYMMETRY Symmetry
INVARIANTS
  SubmissionTypeOK
  OneJobPerKey
  NoDuplicateAsk
  LeaseShape
PROPERTIES
  KeyBound
  KeyVerdictSpec
  LeaseExclusive
  PauseRespected
CHECK_DEADLOCK FALSE

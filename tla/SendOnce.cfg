\* Two executors of one job, three tool calls, one fault.
SPECIFICATION Spec
CONSTANTS
  a = a
  b = b
  p = p
  q = q
  Caller = {a, b}
  Primary = primary
  Alternate = alternate
  Payload = {p, q}
  MaxCalls = 3
  MaxFaults = 1
SYMMETRY Symmetry
INVARIANTS
  SendTypeOK
  
  SentMeansPrompt
  NeverWedged
PROPERTIES
  EvidenceKept
CHECK_DEADLOCK FALSE

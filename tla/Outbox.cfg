\* A report delivery, a dispatch, a dispatch that execute_pending may also
\* run, and an effect that has no handler.
SPECIFICATION Spec
CONSTANTS
  report = report
  agent = agent
  scheduled = scheduled
  obsidian = obsidian
  Effect = {report, agent, scheduled, obsidian}
  Workspace = {report}
  Dispatched = {agent, scheduled}
  Batched = {report, scheduled}
  Caller = {c1, c2}
  MaxFaults = 2
  NoEffect = NoEffect
SYMMETRY Symmetry
INVARIANTS
  OutboxTypeOK
  DispatchOnce
  RepeatHasCause
  DoneIsPerformed
PROPERTIES
  DoneKept

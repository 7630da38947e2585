SPECIFICATION Spec
CONSTANTS
  None = None
  MaxChars = 4
  Limits <- FewEvents
INVARIANTS
  KillIsHarmless
  UnprocessedIsScheduled
  TypedIsQueued
CHECK_DEADLOCK FALSE

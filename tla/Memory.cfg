SPECIFICATION MemorySpec
CONSTANTS
  a = a
  b = b
  me = me
  None = None
  Sessions = {a, b}
  Subjects = {me}
  SubjectOf <- TheSubject
  Window = 2
  Drafts <- TheDrafts
  Answers <- TheAnswers
  InitialLong <- TheLong
  MaxItems = 1
  MaxChars = 3
  Horizon = 2
  MaxTurns = 3
  MaxFaults = 1
SYMMETRY Symmetry
INVARIANTS HeartbeatSeesPending KeptUnlessRaced
PROPERTIES LongTermKept
CHECK_DEADLOCK FALSE

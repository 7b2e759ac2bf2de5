\* The system may stop: the index has caught up, or nothing asks for more.
CHECK_DEADLOCK FALSE
SPECIFICATION Spec
CONSTANTS
  Keyed = Keyed
  MCEvents = 3
  a = a
  b = b
  NoModel = NoModel
  None = None
  Reruns = {r1}
  Texts <- MCTexts
  Contents <- MCContents
  MaxChunks = 2
  Models = {m1, m2}
  Slots <- MCSlots
  MaxAttempts <- MCMaxAttempts
  MaxHits = 1
  BatchSize = 1
  MaxEdits = 2
  MaxNames = 1
  MaxFaults = 2
  MaxSwitches = 1
  MaxPresses = 1
CONSTRAINT MCFewEvents
SYMMETRY MCSymmetry
INVARIANT SearchTypeOK
INVARIANT VectorsFit
INVARIANT CaughtUp
INVARIANT StaleIsOffered
INVARIANT NothingLeft

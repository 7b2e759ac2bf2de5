\* The system may stop: the index has caught up, or nothing asks for more.
CHECK_DEADLOCK FALSE
SPECIFICATION Spec
CONSTANTS
  Keyed = Keyed
  MCEvents = 3
  a = a
  b = b
  NoModel = NoModel
  None = None
  Reruns = {r1}
  Texts <- MCTexts
  Contents <- MCContents
  MaxChunks = 2
  Models = {m1}
  Slots <- MCSlots
  MaxAttempts <- MCMaxAttempts
  MaxHits = 0
  BatchSize = 1
  MaxEdits = 0
  MaxNames = 1
  MaxFaults = 0
  MaxSwitches = 0
  MaxPresses = 0
CONSTRAINT MCFewEvents
SYMMETRY MCSymmetry
INVARIANT NamesCaughtUp

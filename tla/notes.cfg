\* The system may stop: everything asked for has been done.
CHECK_DEADLOCK FALSE
SPECIFICATION Spec
CONSTANTS
  Gens = {g1, g2}
  First = g1
  Previews = {}
  Saves = {s1, s2}
  Batches = {b1}
  Purge = purge
  Scenes <- MCNote
  NoGen = NoGen
  NoBatch = NoBatch
  MaxChunks = 1
  Mishaps = 1
  Readers = {}
  CapPolls = 0
  Glitches = 0
  Slots <- MCSlots
  MaxAttempts <- MCMaxAttempts
  PurgeAttempts = 1
  MaxHits = 0
SYMMETRY MCSymmetry
INVARIANT NotesTypeOK
INVARIANT CommitIsWhole
INVARIANT ToldOnce
INVARIANT GeneratingHasWriter
PROPERTY HistoryIsALog

\* The system may stop: everything asked for has been done.
CHECK_DEADLOCK FALSE
SPECIFICATION FairSpec
CONSTANTS
  Gens = {g1, g2}
  First = g1
  Previews = {g2}
  Saves = {}
  Batches = {}
  Purge = purge
  Scenes <- MCPages
  NoGen = NoGen
  NoBatch = NoBatch
  MaxChunks = 2
  Mishaps = 1
  Readers = {r1}
  CapPolls = 1
  Glitches = 1
  Slots <- MCSlots
  MaxAttempts <- MCMaxAttempts
  PurgeAttempts = 1
  MaxHits = 0
INVARIANT ShownIsWritten
PROPERTY NoteSettles
PROPERTY RemovalCompletes
PROPERTY PageSettles

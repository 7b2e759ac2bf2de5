\* The system may stop: nothing has to be corrected.
CHECK_DEADLOCK FALSE
SPECIFICATION Spec
CONSTANTS
  Segments = {l1}
  Speakers = {sA, sB}
  Names = {n1}
  Gone = Gone
  Tabs = {t1, t2}
  Workers = {w1, w2}
  Slots = {j1, j2}
  MaxAttempts <- MCMaxAttempts
  MaxHits = 0
  Menus <- MCMenus
  Retries = 1
  Interval = 2
  MaxRequests = 3
  MaxFaults = 2
CONSTRAINT MCTabsOrFaults
SYMMETRY MCSymmetry
INVARIANT EditingTypeOK
INVARIANT HistoryIsLive
INVARIANT HistoryReplays
INVARIANT SnapshotsKept
INVARIANT PastIsFixed
PROPERTY ConflictMeansUnsaved
PROPERTY NoBlindLines

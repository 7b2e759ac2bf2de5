\* The system may stop: every transcript ends ready, failed or gone.
CHECK_DEADLOCK FALSE
SPECIFICATION Spec
CONSTANTS
  PollSlots = {p1, p2}
  Uploads = {u1}
  Callers = {c1}
  OwnerCalls = {"retry", "remove"}
  AudioDelivery = "upload"
  Originals <- MCUsables
  Rendition <- MCUsable
  TranscodeRegistered = TRUE
  DeleteRemote = TRUE
  Sweeps = FALSE
  Slots <- MCSlots
  MaxAttempts <- MCMaxAttempts
  MCAttempts = 1
  MaxHits = 2
  MaxRemote = 2
  MaxCrashes = 0
  MaxFaults = 1
  MaxLimits = 0
  MaxExpiries = 0
  MaxCalls = 1
SYMMETRY MCSymmetry
INVARIANT FailureToldOnce

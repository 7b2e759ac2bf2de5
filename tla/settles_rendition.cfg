\* The system may stop: every transcript ends ready, failed or gone.
CHECK_DEADLOCK FALSE
SPECIFICATION FairSpec
CONSTANTS
  PollSlots = {p1, p2}
  Uploads = {u1}
  Callers = {c1}
  OwnerCalls = {}
  AudioDelivery = "upload"
  Originals <- MCUsables
  Rendition <- MCUsable
  TranscodeRegistered = TRUE
  DeleteRemote = TRUE
  Sweeps = FALSE
  Slots <- MCSlots
  MaxAttempts <- MCMaxAttempts
  MCAttempts = 2
  MaxHits = 2
  MaxRemote = 2
  MaxCrashes = 0
  MaxFaults = 0
  MaxLimits = 1
  MaxExpiries = 1
  MaxCalls = 0
INVARIANT NotStranded
PROPERTY Settles
PROPERTY JobsDrain

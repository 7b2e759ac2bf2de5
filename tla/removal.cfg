\* The system may stop: every transcript ends ready, failed or gone.
CHECK_DEADLOCK FALSE
SPECIFICATION FairSpec
CONSTANTS
  PollSlots = {p1, p2}
  Uploads = {u1, u2}
  Callers = {c1}
  OwnerCalls = {"remove", "cancel"}
  AudioDelivery = "presigned_url"
  Originals <- MCFiles
  Rendition <- MCUsable
  TranscodeRegistered = FALSE
  DeleteRemote = TRUE
  Sweeps = FALSE
  Slots <- MCSlots
  MaxAttempts <- MCMaxAttempts
  MCAttempts = 2
  MaxHits = 2
  MaxRemote = 2
  MaxCrashes = 0
  MaxFaults = 0
  MaxLimits = 0
  MaxExpiries = 1
  MaxCalls = 1
PROPERTY Settles
PROPERTY DeletionCompletes

\* The system may stop: every transcript ends ready, failed or gone.
CHECK_DEADLOCK FALSE
SPECIFICATION Spec
CONSTANTS
  PollSlots = {p1, p2}
  Uploads = {u1, u2}
  Callers = {c1}
  OwnerCalls = {}
  AudioDelivery = "presigned_url"
  Originals <- MCUsables
  Rendition <- MCUsable
  TranscodeRegistered = FALSE
  DeleteRemote = TRUE
  Sweeps = TRUE
  Slots <- MCSlots
  MaxAttempts <- MCMaxAttempts
  MCAttempts = 2
  MaxHits = 1
  MaxRemote = 3
  MaxCrashes = 1
  MaxFaults = 2
  MaxLimits = 2
  MaxExpiries = 1
  MaxCalls = 0
CONSTRAINT MCFaultsOrCrash
SYMMETRY MCSymmetry
INVARIANT TypeOK
INVARIANT OnePollChain
INVARIANT ToldReadyOnce
PROPERTY ReadyIsFinal
INVARIANT PaidOnce

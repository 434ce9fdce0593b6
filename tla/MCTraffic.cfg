SPECIFICATION TrafficSpec
CONSTANTS
  Capacity = 6
  Cost = 2
  Rate = 1
  SeqSpan = 32
  Interval = 2
  Frames = {1, 2}
  QueueCapacity = 2
  PendingCapacity = 2
  MaxHeld = 2
  MaxSent = 5
  MaxIntents = 2
  MaxTicks = 2
  MaxTime = 8
  GateSpan = 8
  GateArriving = {0, 1, 2, 5, 7}
  GateTime = 9
  Peers = {1, 2}
  Lobbies = {1}
  StreamIds = {1, 2}
  FrameSpan = 4
  FrameArriving = {0, 3}
  Sizes = {1, 2}
  TalkerTimeout = 2
  Window = 2
  MaxFrames = 2
  MaxBytes = 3
  MaxTalkers = 1
  RelayTime = 2
  CaptureCapacity = 2
  OutboundCapacity = 1
  RecoveryDelay = 1
  MaxCaptured = 4
  MaxRuns = 2
  VoiceTime = 2
  InboundCapacity = 2
  JitterCapacity = 3
  TargetFrames = 2
  StartDelay = 2
  MaxLoss = 1
  VoiceSpan = 16
  FirstSequence = 14
  MaxSpoken = 5
  MaxMutes = 2
  HeardTime = 6
  WorldSlots = {1, 2}
  Values = {1, 2}
  PacketRecords = 1
  KeyframeAge = 2
  MaxSends = 5
INVARIANTS
  PointersAreRight
  OneLife
  RateBounded
  HonestInputsAdmitted
  ActedOnce
  ShownIsSent
  TalkersBounded
  StreamsAreWhole
  PlayedOnce
  KeyframesRepair

  
CHECK_DEADLOCK FALSE

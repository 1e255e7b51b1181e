CONSTANTS
  Endpoint <- Both
  Caller = "alice"
  Scenarios <- SetupScenarios
  RandomNumbers <- All
  TermType <- SameTermType
  CallMode <- AudioCall
  Cap <- Codecs
  MediaOf <- Media
  CapPrefs <- OwnOrder
  CanTx <- AllCodecs
  CanRx <- AllCodecs
  JointTx <- PeerOrder
  NumMod = 4
  TCSSeqMod = 256
  ChanNoBase = 1001
  ChanNoMax = 1100
  MaxRetries = 1
  MaxConnectAttempts = 1
SPECIFICATION FairSpec
INVARIANTS TypeOK RolesDiffer OLCFindsReceiverReady MediaFlowsBothWays OneChannelPerMedia
PROPERTIES NegotiationSpec Settles

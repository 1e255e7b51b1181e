CONSTANTS
  Endpoint <- Both
  Caller = "alice"
  Scenarios <- ClearScenarios
  RandomNumbers <- Zero
  TermType <- BobIsGateway
  CallMode <- AudioCall
  Cap <- Codecs
  MediaOf <- Media
  CapPrefs <- OneEach
  CanTx <- OneCodec
  CanRx <- OneCodec
  JointTx <- OneEach
  NumMod = 2
  TCSSeqMod = 256
  ChanNoBase = 1001
  ChanNoMax = 1100
  MaxRetries = 1
  MaxConnectAttempts = 1
SPECIFICATION FairSpec
INVARIANTS ForwardedByPeer
PROPERTIES ClearedAtBothEnds CallStateAdvances NegotiationSpec

CONSTANTS
  Endpoint <- Both
  Caller = "alice"
  Scenarios <- FastScenarios
  RandomNumbers <- Zero
  TermType <- BobIsGateway
  CallMode <- AudioCall
  Cap <- Codecs
  MediaOf <- Media
  CapPrefs <- BobSecond
  CanTx <- SecondCodecs
  CanRx <- SecondCodecs
  JointTx <- JointSecond
  NumMod = 2
  TCSSeqMod = 256
  ChanNoBase = 1001
  ChanNoMax = 1100
  MaxRetries = 1
  MaxConnectAttempts = 1
SPECIFICATION Spec
INVARIANTS AlternativesClosed

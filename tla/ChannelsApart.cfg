CONSTANTS
  Endpoint <- One
  Local = "alice"
  TermType <- Terminal
  CallMode <- VideoCall
  Cap <- Codecs
  MediaOf <- Media
  CapPrefs <- BothInOrder
  CanTx <- SendsBoth
  CanRx <- ReceivesAudio
  JointTx <- BothInOrder
  NumMod = 2
  TCSSeqMod = 256
  ChanNoBase = 1001
  ChanNoMax = 1004
  MaxRetries = 1
  MaxConnectAttempts = 1
  MaxInFlight = 4
  PeerTermType = 50
  MaxPauses = 2
  PeerChan <- OtherNumbers
SPECIFICATION FairSpec
INVARIANTS TypeOK ReceivesWhatPeerSends TransmitsWhatPeerReceives TransmitsOnlyAccepted OneChannelPerCap
PROPERTIES Resumes
CHECK_DEADLOCK FALSE

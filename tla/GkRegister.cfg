CONSTANTS
  Call <- NoCall
  CallReference <- NoCallRef
  Outgoing <- NoCall
  GkMode = "RasDiscoverGatekeeper"
  SeqNumbers = 2
  MaxRetries = 1
  GkAnswers <- EveryRegistrationAnswer
  MayLose <- Registering
  MayBeLate <- Registering
  SendOk <- AnySend
  MaxUpsets = 2
SPECIFICATION FairSpec
INVARIANTS NeverIdles
PROPERTIES Registers
CHECK_DEADLOCK FALSE

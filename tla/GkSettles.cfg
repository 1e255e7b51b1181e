CONSTANTS
  Call <- OneCallIn
  CallReference <- OneRef
  Outgoing <- NoCall
  GkMode = "RasUseSpecificGatekeeper"
  SeqNumbers = 9
  MaxRetries = 2
  GkAnswers <- MayRejectCalls
  MayLose <- Nothing
  MayBeLate <- Nothing
  SendOk <- AnySend
  MaxUpsets = 0
SPECIFICATION FairSpec
PROPERTIES AskedIsSettled AdmissionSpec
CHECK_DEADLOCK FALSE

CONSTANTS
  Call <- NoCall
  CallReference <- NoCallRef
  Outgoing <- NoCall
  GkMode = "RasUseSpecificGatekeeper"
  SeqNumbers = 2
  MaxRetries = 2
  GkAnswers <- KeepAlive
  MayLose <- Registering
  MayBeLate <- Nothing
  SendOk <- Works
  MaxUpsets = 0
SPECIFICATION Spec
PROPERTIES GivesUpAfterRetries
CHECK_DEADLOCK FALSE

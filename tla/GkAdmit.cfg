CONSTANTS
  Call <- TwoCalls
  CallReference <- OwnRef
  Outgoing <- OneCallOut
  GkMode = "RasUseSpecificGatekeeper"
  SeqNumbers = 9
  MaxRetries = 1
  GkAnswers <- ConfirmsAll
  MayLose <- Nothing
  MayBeLate <- Nothing
  SendOk <- AnySend
  MaxUpsets = 0
SPECIFICATION Spec
INVARIANTS TypeOK AdmittedWasGranted OnlyLiveCalls TimerPerPending
PROPERTIES AdmissionSpec
CHECK_DEADLOCK FALSE

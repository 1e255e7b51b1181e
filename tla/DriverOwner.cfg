CONSTANTS
  Call <- OneEachWay
  Outgoing <- OneOut
  MayBeBusy <- Nobody
  MayHappen <- Anything
SPECIFICATION Spec
INVARIANTS OwnerChecked
CHECK_DEADLOCK FALSE

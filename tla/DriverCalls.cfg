CONSTANTS
  Call <- OneEachWay
  Outgoing <- OneOut
  MayBeBusy <- OneIn
  MayHappen <- DigitsComeIn
SPECIFICATION FairSpec
INVARIANTS TypeOK   
 
CHECK_DEADLOCK FALSE

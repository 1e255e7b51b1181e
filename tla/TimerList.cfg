CONSTANTS
  TimerId = {t1, t2, t3}
  Delta <- FewDeltas
  ClockReading <- Readings
  MicroSec = 2
SPECIFICATION Spec
INVARIANTS TypeOK Sorted FiredIsListed WakesAtFirstExpiry
PROPERTIES NoneLeftExpired
SYMMETRY Symmetry

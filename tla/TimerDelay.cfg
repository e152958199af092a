\* Every pair of delays of the two programs, at the boundaries.
SPECIFICATION Spec
CONSTANT Delays <- BoundaryDelays
INVARIANTS
  ShortPeriodExact
  PeriodNear
  TimevalExact

\* A comment of the code, refuted: past 4294 ms the period is not the delay.
SPECIFICATION Spec
CONSTANT Delays <- BoundaryDelays
INVARIANT PeriodIsDelay

\* Both programs with five iterations.
SPECIFICATION Spec
CONSTANT MAX_COUNT_LOOP = 5
INVARIANTS
  NeverAhead
  RacyBounds
  AtomicTotal

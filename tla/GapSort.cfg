\* Both sorts on every array of nine elements out of three values.
SPECIFICATION FairSpec
CONSTANTS
  N = 9
  Values = {1, 2, 3}
  FirstGaps = {1, 4}
INVARIANTS
  GapSorted
  Sorted
  Rearranged
PROPERTY Ends

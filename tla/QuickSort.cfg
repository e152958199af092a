\* Every array of five elements out of five values, with two calls per element.
SPECIFICATION FairSpec
CONSTANTS
  N = 5
  Values = {1, 2, 3, 4, 5}
  STACK = 10
INVARIANTS
  ScansInRange
  Separated
  Rearranged
  FitsDistinct
PROPERTY Ends

\* Every program gets to its end: there is no other deadlock.
SPECIFICATION Spec
CONSTANTS
  Inputs <- MCInputs
  SLOTS = 4
  CSLOTS = 5
  W = 5
  TreeInputs <- MCTreeInputs
INVARIANTS
  SortsAgree
  FieldsAgree
  CountsAgree
  TreeRebuilt

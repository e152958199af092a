SPECIFICATION FairSpec
CONSTANTS
  Inputs <- MCInputs
  YY_BUF_SIZE = 3
  YY_READ_BUF_SIZE = 2
  Faults = {"malloc", "EINTR", "EIO"}
INVARIANTS
  InBuffer
  BufferIsInput
  Prompt
PROPERTY LongestMatch

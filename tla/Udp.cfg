\* Three frames, three of which reach the receiver, in any order and number.
SPECIFICATION Spec
CONSTANTS
  Deployments <- MCDeployments
  HELLO <- MCHello
  Strange <- MCStrange
  MAXBUF = 6
  Garbage <- MCGarbage
  Behind <- MCBehind
  FRAMES = 3
  COPIES = 3
  Faults = {"bind", "getaddrinfo", "sendto", "recv"}
INVARIANTS
  FilterExact
  TailIsOld
\* A server waits for datagrams that nobody sends.
CHECK_DEADLOCK FALSE

\* Every call may fail, links change meanwhile, the socket holds two datagrams.
SPECIFICATION FairSpec
CONSTANTS
  LINKS = 2
  CHANGES = 3
  STALE = 1
  RCVBUF = 2
  Faults = {"event_base_new", "pthread_create", "malloc", "bind", "sendmsg",
            "dump", "msg_buf", "event_new", "truncation"}
INVARIANTS
  Conserved
  DoneIsFinal
PROPERTIES
  AllReported
  DumpRegisters
\* A refused dump leaves main in recvmsg, for ever if nothing else is sent.
CHECK_DEADLOCK FALSE

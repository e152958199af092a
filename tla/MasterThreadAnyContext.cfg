\* SIGTIMER on either thread, every library call of main may fail.
SPECIFICATION Spec
CONSTANTS
  t1 = t1
  t2 = t2
  Timers = {t1, t2}
  NULL = NULL
  MAX_THREAD_TIMER_EVENTS = 3
  SignalContexts = {"main_sig", "master_sig"}
  Faults = {"pthread_create", "malloc", "sigaction", "timer_create"}
SYMMETRY TimerSymmetry
INVARIANTS
  TypeOK
  ExactlyOnce
  EventBit
  NoLostWakeup
  OnlySelfDeadlock
PROPERTY ChannelSafe
\* A handler that interrupts the master inside a critical section stops both.
CHECK_DEADLOCK FALSE

\* Two timers, SIGTIMER on main, creations that may fail: every accepted event
\* is dispatched, and nothing but the start-up kills the process.
SPECIFICATION FairSpec
CONSTANTS
  t1 = t1
  t2 = t2
  Timers = {t1, t2}
  NULL = NULL
  MAX_THREAD_TIMER_EVENTS = 3
  SignalContexts = {"main_sig"}
  Faults = {"pthread_create", "malloc", "timer_create"}
INVARIANTS
  DeathIsStartup
  NoDeadlock
PROPERTIES
  ChannelLive
  HandlerReturns

\* A comment of the code, refuted: once woken, the idle master never waits again.
SPECIFICATION FairSpec
CONSTANTS
  an_timer_test = an_timer_test
  Timers = {an_timer_test}
  NULL = NULL
  MAX_THREAD_TIMER_EVENTS = 3
  SignalContexts = {"main_sig"}
  Faults = {}
PROPERTY IdleMasterWaits

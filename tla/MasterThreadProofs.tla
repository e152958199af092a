-------------------------- MODULE MasterThreadProofs --------------------------
(***************************************************************************)
(* Theorems about MasterThread, for every set of timers, every capacity of *)
(* the event array, every choice of the contexts SIGTIMER is delivered on  *)
(* and every set of library calls that may fail.                           *)
(***************************************************************************)
EXTENDS MasterThread, SequenceTheorems, TLAPS

(* The labels between the lock and the unlock of each mutex. *)
InThreadMutex == {"w_check", "w_sleep", "w_unlock", "g_read", "g_unlock",
                  "n_signal", "n_unlock"}
InArrayMutex  == {"a_test", "a_yes", "a_no", "p_take", "p_unlock",
                  "h_put", "h_full", "h_unlock"}

(* A mutex is held by the context that is between its lock and its unlock. *)
LockOwners ==
  \A c \in Contexts :
    /\ thread_mutex = c <=> pc[c] \in InThreadMutex
    /\ timer_events_mutex = c <=> pc[c] \in InArrayMutex

(* The master is not born before it is created, nothing expires before     *)
(* main has tried to install the handler, and only the contexts the kernel *)
(* delivers on ever leave "idle".                                          *)
Startup ==
  /\ pc["main"] = "create" => pc["master"] = "unborn"
  /\ armed # {} \/ sigq # << >> => pc["main"] \in {"timers", "join"}
  /\ pc["main"] \in {"timers", "join"} => installed \/ "sigaction" \in Faults
  /\ \A h \in Handlers \ SignalContexts : pc[h] = "idle"

IInv ==
  /\ TypeOK
  /\ LockOwners
  /\ Startup
  /\ DeathIsStartup
  /\ ExactlyOnce
  /\ EventBit
  /\ NoLostWakeup

-------------------------------------------------------------------------------
(* The initial states satisfy the inductive invariant. *)
LEMMA InitIInv == Init => IInv
<1> SUFFICES ASSUME Init PROVE IInv
  OBVIOUS
<1> USE DEF Init
<1>1. TypeOK
  <2>1. /\ pc \in [Contexts -> MainLabels \cup HandlerLabels \cup MasterLabels]
        /\ pc["main"] = "create" /\ pc["master"] = "unborn"
        /\ \A h \in Handlers : pc[h] = "idle"
    BY DEF Contexts, Tasks, Handlers, MainLabels, HandlerLabels, MasterLabels
  <2>2. /\ sigq \in Seq(Timers) /\ timer_events \in Seq(Timers \cup {NULL})
        /\ accepted \in Seq(Timers) /\ handled \in Seq(Timers)
        /\ curr_timer_event_index <= MAX_THREAD_TIMER_EVENTS
    BY MaxAssumption DEF curr_timer_event_index
  <2> QED
    BY <2>1, <2>2 DEF TypeOK, ControlOK, SetupOK, QueueOK, MainLabels, HandlerLabels, MasterLabels
<1>2. LockOwners
  BY DEF LockOwners, InThreadMutex, InArrayMutex, Contexts, Tasks, Handlers, Unlocked
<1>3. Startup
  BY DEF Startup, Contexts, Tasks, Handlers
<1>4. DeathIsStartup
  BY DEF DeathIsStartup
<1>5. ExactlyOnce
  BY DEF ExactlyOnce, Taken, InHand, Contexts, Tasks, Handlers
<1>6. EventBit
  BY DEF EventBit
<1>7. NoLostWakeup
  BY DEF NoLostWakeup, Contexts, Tasks, Handlers
<1> QED
  BY <1>1, <1>2, <1>3, <1>4, <1>5, <1>6, <1>7 DEF IInv

-------------------------------------------------------------------------------
(* A jump of main within its code keeps every context in its code. *)
LEMMA GotoMain ==
  ASSUME ControlOK, NEW l \in MainLabels, Goto("main", l), UNCHANGED si_value
  PROVE  ControlOK'
BY DEF ControlOK, Goto, Contexts, Tasks, Handlers

(* So does a jump of the master. *)
LEMMA GotoMaster ==
  ASSUME ControlOK, NEW l \in MasterLabels, Goto("master", l), UNCHANGED si_value
  PROVE  ControlOK'
BY DEF ControlOK, Goto, Contexts, Tasks, Handlers

(* So does a jump of a handler that was called with a timer. *)
LEMMA GotoHandler ==
  ASSUME ControlOK, NEW h \in Handlers, NEW l \in HandlerLabels, Goto(h, l),
         pc[h] # "idle", UNCHANGED si_value
  PROVE  ControlOK'
BY DEF ControlOK, Goto, Contexts, Tasks, Handlers

(* Every step keeps every context in its code. *)
LEMMA StepControlOK == TypeOK /\ [Next]_vars => ControlOK'
<1> SUFFICES ASSUME TypeOK, ControlOK, [Next]_vars PROVE ControlOK'
  BY DEF TypeOK
<1> USE DEF At, Step, signals
<1>1. CASE Main
  <2>1. CASE CreateThread
    <3>1. CASE Goto("main", "services")
      BY <2>1, <3>1, GotoMain DEF CreateThread, MainLabels
    <3>2. CASE pc' = [pc EXCEPT !["main"] = "malloc", !["master"] = "w_lock"]
      BY <2>1, <3>2 DEF CreateThread, ControlOK, MainLabels, MasterLabels, Contexts, Tasks, Handlers
    <3> QED
      BY <2>1, <3>1, <3>2 DEF CreateThread
  <2>2. CASE PublishThread \/ ServicesInit
    BY <2>2, GotoMain DEF PublishThread, ServicesInit, MainLabels
  <2>3. CASE UNCHANGED <<pc, si_value>>
    BY <2>3 DEF ControlOK
  <2>4. CASE JoinMaster /\ an_master_thread
    BY <2>4, GotoMain DEF JoinMaster, MainLabels
  <2> QED
    BY <1>1, <2>1, <2>2, <2>3, <2>4 DEF Main, StartTimer, JoinMaster, Killed
<1>2. ASSUME NEW h \in Handlers, Deliver(h) PROVE ControlOK'
  <2>1. CASE ~installed
    BY <1>2, <2>1 DEF ControlOK, Deliver, Killed
  <2>2. CASE installed
    <3>1. Head(sigq) \in Timers
      BY <1>2 DEF TypeOK, SetupOK, Deliver
    <3> QED
      BY <1>2, <2>2, <3>1 DEF Deliver, ControlOK, Goto, HandlerLabels, Contexts, Tasks, Handlers
  <2> QED
    BY <2>1, <2>2
<1>3. ASSUME NEW h \in Handlers, Handle(h) PROVE ControlOK'
  <2>1. CASE NotifySignal(h)
    BY <2>1 DEF NotifySignal, ControlOK, HandlerLabels, MasterLabels, Contexts, Tasks, Handlers
  <2>2. CASE Killed
    BY <2>2 DEF ControlOK, Killed
  <2>3. CASE pc[h] # "idle" /\ UNCHANGED si_value /\ \E l \in HandlerLabels : Goto(h, l)
    BY <2>3, GotoHandler
  <2> QED
    BY <1>3, <2>1, <2>2, <2>3
    DEF Handle, HandlerLocks, EnqueueLock, Enqueue, EnqueueUnlock, NotifyLock, NotifyUnlock,
        HandlerLabels
<1>4. CASE Master \/ WakeSpuriously
  <2>1. CASE Killed
    BY <2>1 DEF ControlOK, Killed
  <2>2. CASE UNCHANGED si_value /\ \E l \in MasterLabels : Goto("master", l)
    BY <2>2, GotoMaster
  <2>3. CASE WaitLock \/ WaitCheck \/ WaitSleep \/ WakeSpuriously \/ WaitRelock \/ WaitUnlock
    BY <2>1, <2>2, <2>3
    DEF WaitLock, WaitCheck, WaitSleep, WakeSpuriously, WaitRelock, WaitUnlock, MasterLabels
  <2>4. CASE TypeLock \/ TypeRead \/ TypeUnlock \/ Take \/ TakeUnlock \/ Dispatch
    BY <2>2, <2>4
    DEF TypeLock, TypeRead, TypeUnlock, AfterType, Take, TakeUnlock, Dispatch, MasterLabels
  <2>5. CASE ArrayLocks \/ PendingTest \/ PendingUnlock
    BY <2>2, <2>5
    DEF ArrayLocks, PendingLock, TakeLock, PendingTest, PendingUnlock, MasterLabels
  <2> QED
    BY <1>4, <2>3, <2>4, <2>5 DEF Master
<1>5. CASE UNCHANGED <<pc, si_value>>
  BY <1>5 DEF ControlOK
<1> QED
  BY <1>1, <1>2, <1>3, <1>4, <1>5, SignalAssumption DEF Next, Expire, Dead, vars

-------------------------------------------------------------------------------
(* Only five actions touch the array, the bit and the master's locals. *)
LEMMA QueueSteps ==
  ASSUME [Next]_vars
  PROVE  \/ UNCHANGED <<queue, locals>>
         \/ \E h \in Handlers : Enqueue(h)
         \/ TypeRead \/ PendingTest \/ Take \/ Dispatch
<1> USE DEF Step, Killed
<1>1. CASE Main
  BY <1>1 DEF Main, CreateThread, PublishThread, ServicesInit, StartTimer, JoinMaster
<1>2. ASSUME NEW h \in Handlers, Handle(h), ~Enqueue(h) PROVE UNCHANGED <<queue, locals>>
  BY <1>2 DEF Handle, HandlerLocks, EnqueueLock, EnqueueUnlock, NotifyLock, NotifySignal,
     NotifyUnlock
<1>3. ASSUME Master \/ WakeSpuriously, ~TypeRead, ~PendingTest, ~Take, ~Dispatch
      PROVE  UNCHANGED <<queue, locals>>
  BY <1>3
  DEF Master, WaitLock, WaitCheck, WaitSleep, WakeSpuriously, WaitRelock, WaitUnlock,
      TypeLock, TypeUnlock, ArrayLocks, PendingLock, TakeLock, PendingUnlock, TakeUnlock
<1> QED
  BY <1>1, <1>2, <1>3 DEF Next, Expire, Deliver, Dead, vars

(* Every step keeps the types of the array, the bit and the locals. *)
LEMMA StepQueueOK == TypeOK /\ [Next]_vars => QueueOK'
<1> SUFFICES ASSUME TypeOK, QueueOK, [Next]_vars PROVE QueueOK'
  BY DEF TypeOK
<1> USE DEF curr_timer_event_index
<1>1. CASE UNCHANGED <<queue, locals>>
  BY <1>1 DEF QueueOK, queue, locals
<1>2. ASSUME NEW h \in Handlers, Enqueue(h) PROVE QueueOK'
  <2>1. CASE ArrayFull
    BY <1>2, <2>1 DEF Enqueue, QueueOK, queue, locals
  <2>2. CASE ~ArrayFull
    <3>1. si_value[h] \in Timers
      BY <1>2 DEF Enqueue, At, TypeOK, ControlOK
    <3>2. Len(timer_events) < MAX_THREAD_TIMER_EVENTS
      BY <2>2, MaxAssumption DEF ArrayFull, QueueOK
    <3>3. /\ timer_events' = Append(timer_events, si_value[h])
          /\ accepted' = Append(accepted, si_value[h])
          /\ event_type' = AN_PTHREAD_TIMER_EVENT
          /\ UNCHANGED locals
      BY <1>2, <2>2 DEF Enqueue
    <3>4. /\ timer_events' \in Seq(Timers \cup {NULL})
          /\ Len(timer_events') = Len(timer_events) + 1
          /\ accepted' \in Seq(Timers)
      BY <3>1, <3>3, AppendProperties DEF QueueOK
    <3> QED
      BY <3>2, <3>3, <3>4, MaxAssumption DEF QueueOK, locals
  <2> QED
    BY <2>1, <2>2
<1>3. CASE TypeRead \/ PendingTest
  BY <1>3 DEF TypeRead, PendingTest, QueueOK, queue, locals
<1>4. CASE Take
  <2>1. \/ \E i \in 1..Len(timer_events) :
              /\ expired_timer' = timer_events[i]
              /\ timer_events' = [timer_events EXCEPT ![i] = NULL]
        \/ expired_timer' = NULL /\ UNCHANGED timer_events
    BY <1>4 DEF Take, Pending, ClearSlot
  <2>2. /\ expired_timer' \in Timers \cup {NULL}
        /\ timer_events' \in Seq(Timers \cup {NULL})
        /\ Len(timer_events') = Len(timer_events)
    <3>1. CASE expired_timer' = NULL /\ UNCHANGED timer_events
      BY <3>1 DEF QueueOK
    <3>2. ASSUME NEW i \in 1..Len(timer_events), expired_timer' = timer_events[i],
                 timer_events' = [timer_events EXCEPT ![i] = NULL]
          PROVE  <2>2!:
      <4>1. timer_events \in Seq(Timers \cup {NULL}) /\ NULL \in Timers \cup {NULL}
        BY DEF QueueOK
      <4>2. timer_events[i] \in Timers \cup {NULL}
        BY <4>1
      <4> QED
        BY <3>2, <4>1, <4>2, ExceptSeq
    <3> QED
      BY <2>1, <3>1, <3>2
  <2>3. /\ event_type' \in {0, AN_PTHREAD_TIMER_EVENT}
        /\ UNCHANGED <<accepted, evt_type, handled>>
    BY <1>4 DEF Take, ScanBit, QueueOK
  <2>4. Len(timer_events') <= MAX_THREAD_TIMER_EVENTS
    BY <2>2 DEF QueueOK
  <2>5. /\ accepted' \in Seq(Timers)
        /\ evt_type' \in {0, AN_PTHREAD_TIMER_EVENT}
        /\ handled' \in Seq(Timers)
    BY <2>3 DEF QueueOK
  <2> QED
    BY <2>2, <2>3, <2>4, <2>5, Zenon DEF QueueOK
<1>5. CASE Dispatch
  <2>1. handled' \in Seq(Timers)
    BY <1>5, AppendProperties DEF Dispatch, QueueOK
  <2> QED
    BY <1>5, <2>1 DEF Dispatch, QueueOK, queue
<1> QED
  BY <1>1, <1>2, <1>3, <1>4, <1>5, QueueSteps

(* Every step keeps the types of what main sets up, the signals and mutexes. *)
LEMMA StepSetupOK == TypeOK /\ [Next]_vars => SetupOK'
<1> SUFFICES ASSUME SetupOK, [Next]_vars PROVE SetupOK'
  BY DEF TypeOK
<1> USE DEF Step, Killed, setup, mutexes, LockThreadMutex, LockTimerEventsMutex,
        UnlockThreadMutex, UnlockTimerEventsMutex, Contexts, Tasks
<1>1. CASE Main
  BY <1>1 DEF Main, CreateThread, PublishThread, ServicesInit, StartTimer, JoinMaster,
     SetupOK, signals
<1>2. ASSUME NEW t \in Timers, Expire(t) PROVE SetupOK'
  BY <1>2, AppendProperties DEF Expire, SetupOK
<1>3. ASSUME NEW h \in Handlers, Deliver(h) PROVE SetupOK'
  <2>1. Tail(sigq) \in Seq(Timers)
    BY <1>3 DEF Deliver, SetupOK
  <2> QED
    BY <1>3, <2>1 DEF Deliver, SetupOK, signals
<1>4. ASSUME NEW h \in Handlers, Handle(h) PROVE SetupOK'
  BY <1>4 DEF Handle, HandlerLocks, EnqueueLock, Enqueue, EnqueueUnlock, NotifyLock,
     NotifySignal, NotifyUnlock, SetupOK, signals
<1>5. CASE WaitLock \/ WaitCheck \/ WaitSleep \/ WakeSpuriously \/ WaitRelock \/ WaitUnlock
  BY <1>5 DEF WaitLock, WaitCheck, WaitSleep, WakeSpuriously, WaitRelock, WaitUnlock,
     SetupOK, signals
<1>6. CASE TypeLock \/ TypeRead \/ TypeUnlock \/ Take \/ TakeUnlock \/ Dispatch
  BY <1>6 DEF TypeLock, TypeRead, TypeUnlock, Take, TakeUnlock, Dispatch, SetupOK, signals
<1>7. CASE ArrayLocks \/ PendingTest \/ PendingUnlock
  BY <1>7 DEF ArrayLocks, PendingLock, TakeLock, PendingTest, PendingUnlock, SetupOK, signals
<1>8. CASE UNCHANGED vars
  BY <1>8 DEF vars, SetupOK, signals
<1> QED
  BY <1>1, <1>2, <1>3, <1>4, <1>5, <1>6, <1>7, <1>8, SignalAssumption DEF Next, Master, Dead

-------------------------------------------------------------------------------
(* A jump that leaves the mutexes alone, between labels on the same side of *)
(* every lock and unlock, keeps the owners.                                 *)
LEMMA QuietJump ==
  ASSUME ControlOK, LockOwners, UNCHANGED mutexes,
         NEW c \in Contexts, NEW l, Goto(c, l),
         pc[c] \in InThreadMutex <=> l \in InThreadMutex,
         pc[c] \in InArrayMutex <=> l \in InArrayMutex
  PROVE  LockOwners'
BY DEF ControlOK, LockOwners, Goto, mutexes

(* A context that locks or unlocks thread_mutex, or the other one, and      *)
(* jumps accordingly keeps the owners.                                      *)
LEMMA LockingJump ==
  ASSUME ControlOK, LockOwners, NEW c \in Contexts, NEW l, Goto(c, l),
         \/ /\ LockThreadMutex(c)
            /\ l \in InThreadMutex \ InArrayMutex
            /\ pc[c] \notin InArrayMutex
         \/ /\ UnlockThreadMutex
            /\ pc[c] \in InThreadMutex \ InArrayMutex
            /\ l \notin InThreadMutex \cup InArrayMutex
         \/ /\ LockTimerEventsMutex(c)
            /\ l \in InArrayMutex \ InThreadMutex
            /\ pc[c] \notin InThreadMutex
         \/ /\ UnlockTimerEventsMutex
            /\ pc[c] \in InArrayMutex \ InThreadMutex
            /\ l \notin InThreadMutex \cup InArrayMutex
  PROVE  LockOwners'
<1>1. Unlocked \notin Contexts
  BY DEF Unlocked, Contexts, Tasks, Handlers
<1>2. /\ pc'[c] = l
      /\ \A d \in Contexts \ {c} : pc'[d] = pc[d]
  BY DEF ControlOK, Goto
<1> USE DEF LockOwners
<1>3. CASE LockThreadMutex(c) /\ l \in InThreadMutex \ InArrayMutex /\ pc[c] \notin InArrayMutex
  BY <1>1, <1>2, <1>3 DEF LockThreadMutex
<1>4. CASE /\ UnlockThreadMutex
           /\ pc[c] \in InThreadMutex \ InArrayMutex
           /\ l \notin InThreadMutex \cup InArrayMutex
  BY <1>1, <1>2, <1>4 DEF UnlockThreadMutex
<1>5. CASE /\ LockTimerEventsMutex(c)
           /\ l \in InArrayMutex \ InThreadMutex
           /\ pc[c] \notin InThreadMutex
  BY <1>1, <1>2, <1>5 DEF LockTimerEventsMutex
<1>6. CASE /\ UnlockTimerEventsMutex
           /\ pc[c] \in InArrayMutex \ InThreadMutex
           /\ l \notin InThreadMutex \cup InArrayMutex
  BY <1>1, <1>2, <1>6 DEF UnlockTimerEventsMutex
<1> QED
  BY <1>3, <1>4, <1>5, <1>6

(* Every step keeps each mutex with the context inside its section.         *)
LEMMA StepLockOwners == TypeOK /\ Startup /\ LockOwners /\ [Next]_vars => LockOwners'
<1> SUFFICES ASSUME ControlOK, Startup, LockOwners, [Next]_vars PROVE LockOwners'
  BY DEF TypeOK
<1> USE DEF At, Step
<1>1. CASE UNCHANGED <<pc, mutexes>>
  BY <1>1 DEF LockOwners, mutexes
<1>2. CASE Main
  <2>1. CASE CreateThread
    <3>1. CASE Goto("main", "services")
      BY <2>1, <3>1, QuietJump DEF CreateThread, Contexts, Tasks, InThreadMutex, InArrayMutex
    <3>2. CASE pc' = [pc EXCEPT !["main"] = "malloc", !["master"] = "w_lock"]
      BY <2>1, <3>2
      DEF CreateThread, Startup, LockOwners, ControlOK, mutexes, Contexts, Tasks, Handlers,
          InThreadMutex, InArrayMutex
    <3> QED
      BY <2>1, <3>1, <3>2 DEF CreateThread
  <2>2. CASE PublishThread \/ ServicesInit \/ (JoinMaster /\ an_master_thread)
    BY <2>2, QuietJump DEF PublishThread, ServicesInit, JoinMaster, Contexts, Tasks,
       InThreadMutex, InArrayMutex
  <2> QED
    BY <1>1, <1>2, <2>1, <2>2 DEF Main, StartTimer, JoinMaster, Killed
<1>3. ASSUME NEW h \in Handlers, Deliver(h) PROVE LockOwners'
  BY <1>1, <1>3, QuietJump DEF Deliver, Killed, Contexts, InThreadMutex, InArrayMutex
<1>4. ASSUME NEW h \in Handlers, Handle(h) PROVE LockOwners'
  <2> h \in Contexts
    BY DEF Contexts
  <2> USE DEF InThreadMutex, InArrayMutex
  <2>1. CASE HandlerLocks(h) \/ EnqueueUnlock(h) \/ NotifyUnlock(h)
    BY <1>1, <2>1, LockingJump
    DEF HandlerLocks, EnqueueLock, NotifyLock, EnqueueUnlock, NotifyUnlock, Killed
  <2>2. CASE Enqueue(h)
    BY <2>2, QuietJump DEF Enqueue
  <2>3. CASE NotifySignal(h)
    BY <2>3 DEF NotifySignal, LockOwners, ControlOK, mutexes, Contexts, Tasks, Handlers
  <2> QED
    BY <1>4, <2>1, <2>2, <2>3 DEF Handle
<1>5. CASE Master \/ WakeSpuriously
  <2> "master" \in Contexts
    BY DEF Contexts, Tasks
  <2> USE DEF InThreadMutex, InArrayMutex
  <2>1. CASE WaitLock \/ WaitSleep \/ WaitRelock \/ WaitUnlock \/ TypeLock \/ TypeUnlock
    BY <1>1, <2>1, LockingJump
    DEF WaitLock, WaitSleep, WaitRelock, WaitUnlock, TypeLock, TypeUnlock, AfterType, Killed
  <2>2. CASE ArrayLocks \/ PendingUnlock \/ TakeUnlock
    BY <2>2, LockingJump DEF ArrayLocks, PendingLock, TakeLock, PendingUnlock, TakeUnlock
  <2>3. CASE WaitCheck \/ WakeSpuriously \/ TypeRead \/ PendingTest \/ Take \/ Dispatch
    BY <2>3, QuietJump DEF WaitCheck, WakeSpuriously, TypeRead, PendingTest, Take, Dispatch
  <2> QED
    BY <1>5, <2>1, <2>2, <2>3 DEF Master
<1> QED
  BY <1>1, <1>2, <1>3, <1>4, <1>5, SignalAssumption DEF Next, Expire, Dead, vars

-------------------------------------------------------------------------------
(* Every step keeps the order of the start-up. *)
LEMMA StepStartup == TypeOK /\ Startup /\ [Next]_vars => Startup'
<1> SUFFICES ASSUME ControlOK, Startup, [Next]_vars PROVE Startup'
  BY DEF TypeOK
<1> USE DEF At, Step, Goto, setup, signals, Startup
<1>1. CASE UNCHANGED <<pc, setup, sigq>>
  BY <1>1
<1>2. CASE Main
  <2>1. CASE CreateThread
    BY <2>1 DEF CreateThread, ControlOK, Contexts, Tasks, Handlers
  <2>2. CASE PublishThread \/ ServicesInit
    BY <2>2 DEF PublishThread, ServicesInit, ControlOK, Contexts, Tasks, Handlers
  <2>3. ASSUME NEW t \in Timers, StartTimer(t) PROVE Startup'
    BY <2>3 DEF StartTimer
  <2>4. CASE JoinMaster
    BY <2>4 DEF JoinMaster, Killed, ControlOK, Contexts, Tasks, Handlers
  <2> QED
    BY <1>2, <2>1, <2>2, <2>3, <2>4 DEF Main
<1>3. ASSUME NEW t \in Timers, Expire(t) PROVE Startup'
  BY <1>3 DEF Expire
<1>4. ASSUME NEW h \in SignalContexts, Deliver(h) PROVE Startup'
  BY <1>4, SignalAssumption DEF Deliver, Killed, ResetHand, ControlOK, Contexts, Tasks, Handlers
<1>5. ASSUME NEW h \in Handlers, Handle(h) PROVE Startup'
  <2>1. UNCHANGED <<setup, sigq>>
    BY <1>5 DEF Handle, HandlerLocks, EnqueueLock, Enqueue, EnqueueUnlock, NotifyLock,
       NotifySignal, NotifyUnlock, Killed
  <2>2. CASE UNCHANGED pc
    BY <1>1, <2>1, <2>2
  <2>3. CASE pc[h] # "idle" /\ \E l \in HandlerLabels : pc' = [pc EXCEPT ![h] = l]
    BY <2>1, <2>3 DEF ControlOK, Contexts, Tasks, Handlers
  <2>4. CASE NotifySignal(h)
    BY <2>1, <2>4 DEF NotifySignal, ControlOK, Contexts, Tasks, Handlers
  <2> QED
    BY <1>5, <2>2, <2>3, <2>4 DEF Handle, HandlerLocks, EnqueueLock, Enqueue, EnqueueUnlock,
       NotifyLock, NotifyUnlock, Killed, HandlerLabels
<1>6. CASE Master \/ WakeSpuriously
  <2>1. UNCHANGED <<setup, sigq>>
    BY <1>6
    DEF Master, WaitLock, WaitCheck, WaitSleep, WakeSpuriously, WaitRelock, WaitUnlock,
        TypeLock, TypeRead, TypeUnlock, ArrayLocks, PendingLock, TakeLock, PendingTest,
        PendingUnlock, Take, TakeUnlock, Dispatch, Killed
  <2>2. UNCHANGED pc \/ (pc["master"] # "unborn" /\ \E l : pc' = [pc EXCEPT !["master"] = l])
    BY <1>6
    DEF Master, WaitLock, WaitCheck, WaitSleep, WakeSpuriously, WaitRelock, WaitUnlock,
        TypeLock, TypeRead, TypeUnlock, ArrayLocks, PendingLock, TakeLock, PendingTest,
        PendingUnlock, Take, TakeUnlock, Dispatch, Killed
  <2> QED
    BY <2>1, <2>2 DEF ControlOK, Contexts, Tasks, Handlers
<1> QED
  BY <1>1, <1>2, <1>3, <1>4, <1>5, <1>6 DEF Next, Dead, vars

(* Every step keeps the process from dying after the start-up. *)
LEMMA StepDeathIsStartup ==
  TypeOK /\ Startup /\ DeathIsStartup /\ [Next]_vars => DeathIsStartup'
<1> SUFFICES ASSUME Startup, DeathIsStartup, [Next]_vars PROVE DeathIsStartup'
  OBVIOUS
<1> USE DEF At, Step, Killed, setup, DeathIsStartup
<1>1. CASE UNCHANGED <<alive, an_master_thread>>
  BY <1>1
<1>2. CASE Main
  BY <1>2 DEF Main, CreateThread, PublishThread, ServicesInit, StartTimer, JoinMaster
<1>3. ASSUME NEW h \in SignalContexts, Deliver(h) PROVE DeathIsStartup'
  BY <1>3 DEF Deliver, Startup
<1>4. ASSUME NEW h \in Handlers, Handle(h) PROVE DeathIsStartup'
  BY <1>4 DEF Handle, HandlerLocks, EnqueueLock, Enqueue, EnqueueUnlock, NotifyLock,
     NotifySignal, NotifyUnlock
<1>5. CASE Master \/ WakeSpuriously
  BY <1>5
  DEF Master, WaitLock, WaitCheck, WaitSleep, WakeSpuriously, WaitRelock, WaitUnlock,
      TypeLock, TypeRead, TypeUnlock, ArrayLocks, PendingLock, TakeLock, PendingTest,
      PendingUnlock, Take, TakeUnlock, Dispatch
<1> QED
  BY <1>1, <1>2, <1>3, <1>4, <1>5 DEF Next, Expire, Dead, vars

-------------------------------------------------------------------------------
(* What is in the master's hand changes with the scan and the dispatch only. *)
LEMMA HandSteps ==
  ASSUME TypeOK, Startup, [Next]_vars, ~Take, ~Dispatch
  PROVE  UNCHANGED <<handled, expired_timer, InHand, Taken>>
<1> USE DEF At, Step, Goto, locals
<1> DEFINE Holding == pc["master"] \in {"p_unlock", "dispatch"}
<1>1. UNCHANGED <<handled, expired_timer>>
  BY QueueSteps DEF Enqueue, TypeRead, PendingTest
<1>2. Holding' <=> Holding
  <2> ControlOK
    BY DEF TypeOK
  <2> USE DEF ControlOK, Contexts, Tasks, Handlers
  <2>1. CASE UNCHANGED pc
    BY <2>1
  <2>2. CASE Main
    BY <2>1, <2>2 DEF Main, CreateThread, PublishThread, ServicesInit, StartTimer, JoinMaster,
       Killed, Startup
  <2>3. ASSUME NEW h \in Handlers, Deliver(h) PROVE Holding' <=> Holding
    BY <2>1, <2>3 DEF Deliver, Killed
  <2>4. ASSUME NEW h \in Handlers, Handle(h) PROVE Holding' <=> Holding
    BY <2>1, <2>4 DEF Handle, HandlerLocks, EnqueueLock, Enqueue, EnqueueUnlock, NotifyLock,
       NotifySignal, NotifyUnlock, Killed
  <2>5. CASE WaitLock \/ WaitCheck \/ WaitSleep \/ WakeSpuriously \/ WaitRelock \/ WaitUnlock
    BY <2>1, <2>5 DEF WaitLock, WaitCheck, WaitSleep, WakeSpuriously, WaitRelock, WaitUnlock,
       Killed
  <2>6. CASE TypeLock \/ TypeRead \/ TypeUnlock \/ ArrayLocks \/ PendingTest \/ PendingUnlock
    BY <2>6 DEF TypeLock, TypeRead, TypeUnlock, AfterType, ArrayLocks, PendingLock, TakeLock,
       PendingTest, PendingUnlock
  <2>7. CASE TakeUnlock
    BY <2>7 DEF TakeUnlock
  <2> QED
    BY <2>1, <2>2, <2>3, <2>4, <2>5, <2>6, <2>7, SignalAssumption
    DEF Next, Master, Expire, Dead, vars
<1> QED
  BY <1>1, <1>2 DEF InHand, Taken

(* Every step keeps each accepted event in exactly one place, in order. *)
LEMMA StepExactlyOnce ==
  TypeOK /\ Startup /\ ExactlyOnce /\ [Next]_vars => ExactlyOnce'
<1> SUFFICES ASSUME TypeOK, Startup, ExactlyOnce, [Next]_vars PROVE ExactlyOnce'
  OBVIOUS
<1> USE DEF curr_timer_event_index
<1>1. /\ timer_events \in Seq(Timers \cup {NULL})
      /\ accepted \in Seq(Timers) /\ handled \in Seq(Timers)
      /\ expired_timer \in Timers \cup {NULL}
      /\ Taken \in Nat
  BY DEF TypeOK, QueueOK, Taken
<1>2. CASE UNCHANGED <<accepted, timer_events, handled, expired_timer, InHand, Taken>>
  BY <1>2 DEF ExactlyOnce
<1>3. ASSUME NEW h \in Handlers, Enqueue(h), ~ArrayFull PROVE ExactlyOnce'
  <2>1. si_value[h] \in Timers
    BY <1>3 DEF Enqueue, At, TypeOK, ControlOK
  <2>2. /\ timer_events' = Append(timer_events, si_value[h])
        /\ accepted' = Append(accepted, si_value[h])
    BY <1>3 DEF Enqueue
  <2>3. UNCHANGED <<handled, expired_timer, InHand, Taken>>
    <3>1. pc[h] = "h_put" /\ pc' = [pc EXCEPT ![h] = "h_unlock"] /\ UNCHANGED locals
      BY <1>3 DEF Enqueue, At, Goto
    <3> QED
      BY <3>1 DEF TypeOK, ControlOK, Contexts, Tasks, Handlers, InHand, Taken, locals
  <2>4. /\ Len(timer_events') = Len(timer_events) + 1
        /\ Len(accepted') = Len(accepted) + 1
        /\ \A i \in 1..Len(timer_events) : timer_events'[i] = timer_events[i]
        /\ \A i \in 1..Len(accepted) : accepted'[i] = accepted[i]
        /\ timer_events'[Len(timer_events) + 1] = accepted'[Len(accepted) + 1]
    BY <1>1, <2>1, <2>2, AppendProperties
  <2>5. /\ Len(accepted') = Len(timer_events') /\ Taken' <= Len(accepted')
        /\ Taken <= Len(timer_events) /\ Len(handled) <= Taken
    BY <1>1, <2>3, <2>4 DEF ExactlyOnce, Taken
  <2>6. /\ \A i \in 1..Len(handled') : handled'[i] = accepted'[i]
        /\ InHand' => expired_timer' = accepted'[Taken']
    BY <1>1, <2>3, <2>4, <2>5 DEF ExactlyOnce, Taken
  <2>7. ASSUME NEW i \in 1..Len(timer_events')
        PROVE  timer_events'[i] = IF i <= Taken' THEN NULL ELSE accepted'[i]
    <3>1. CASE i = Len(timer_events) + 1
      BY <1>1, <2>3, <2>4, <2>5, <3>1 DEF ExactlyOnce
    <3>2. CASE i \in 1..Len(timer_events)
      BY <1>1, <2>3, <2>4, <2>5, <3>2 DEF ExactlyOnce
    <3> QED
      BY <1>1, <2>4, <3>1, <3>2
  <2> QED
    BY <2>5, <2>6, <2>7 DEF ExactlyOnce
<1>4. CASE Take
  <2>1. /\ ~InHand /\ Taken = Len(handled)
        /\ (pc["master"] = "p_unlock")' /\ UNCHANGED <<accepted, handled>>
    BY <1>4 DEF Take, At, Goto, InHand, Taken, TypeOK, ControlOK, Contexts, Tasks, QueueOK
  <2>2. CASE expired_timer' = NULL /\ UNCHANGED timer_events
    <3>1. ~InHand' /\ Taken' = Taken
      BY <1>1, <2>1, <2>2 DEF InHand, Taken
    <3> QED
      BY <2>1, <2>2, <3>1 DEF ExactlyOnce
  <2>3. ASSUME NEW i \in Pending, Oldest(i), expired_timer' = timer_events[i],
               timer_events' = [timer_events EXCEPT ![i] = NULL]
        PROVE  ExactlyOnce'
    <3>1. i \in 1..Len(timer_events) /\ timer_events[i] # NULL
      BY <2>3 DEF Pending
    <3>2. Taken + 1 \in 1..Len(timer_events) /\ Taken < i
      BY <1>1, <3>1 DEF ExactlyOnce
    <3>3. accepted[Taken + 1] \in Timers /\ timer_events[Taken + 1] = accepted[Taken + 1]
      BY <1>1, <3>2 DEF ExactlyOnce
    <3>4. Taken + 1 \in Pending
      BY <2>3, <3>2, <3>3, TimersAssumption DEF Pending
    <3>5. i = Taken + 1
      BY <1>1, <2>3, <3>1, <3>2, <3>4 DEF Oldest
    <3>6. InHand' /\ Taken' = Taken + 1 /\ expired_timer' = accepted[Taken + 1]
      BY <1>1, <2>1, <2>3, <3>1, <3>3, <3>5 DEF InHand, Taken
    <3>7. /\ Len(timer_events') = Len(timer_events)
          /\ \A j \in 1..Len(timer_events) :
               timer_events'[j] = IF j = Taken + 1 THEN NULL ELSE timer_events[j]
      BY <1>1, <2>3, <3>1, <3>5
    <3> QED
      BY <1>1, <2>1, <3>2, <3>6, <3>7 DEF ExactlyOnce
  <2> QED
    BY <1>4, <2>2, <2>3 DEF Take, ClearSlot
<1>5. CASE Dispatch
  <2>1. UNCHANGED <<accepted, timer_events, expired_timer>> /\ ~InHand'
    BY <1>5 DEF Dispatch, At, Goto, InHand, queue, TypeOK, ControlOK, Contexts, Tasks
  <2>2. CASE expired_timer = NULL
    <3>1. ~InHand /\ UNCHANGED handled
      BY <1>5, <2>2 DEF Dispatch, InHand
    <3> QED
      BY <2>1, <3>1 DEF ExactlyOnce, Taken
  <2>3. CASE expired_timer # NULL
    <3>1. InHand /\ handled' = Append(handled, expired_timer)
      BY <1>5, <2>3 DEF Dispatch, At, InHand
    <3>2. /\ Taken = Len(handled) + 1 /\ Taken' = Len(handled')
          /\ Len(handled') = Len(handled) + 1
          /\ handled'[Len(handled) + 1] = accepted[Taken]
          /\ \A i \in 1..Len(handled) : handled'[i] = handled[i]
      BY <1>1, <2>1, <2>3, <3>1, AppendProperties DEF Taken, ExactlyOnce
    <3> QED
      BY <1>1, <2>1, <3>2 DEF ExactlyOnce
  <2> QED
    BY <2>2, <2>3
<1> QED
  <2>1. CASE UNCHANGED <<accepted, timer_events>> /\ ~Take /\ ~Dispatch
    BY <1>2, <2>1, HandSteps
  <2>2. ASSUME NEW h \in Handlers, Enqueue(h), ArrayFull
        PROVE  UNCHANGED <<accepted, timer_events>>
    BY <2>2 DEF Enqueue, queue
  <2> QED
    BY <1>3, <1>4, <1>5, <2>1, <2>2, QueueSteps DEF queue, TypeRead, PendingTest

-------------------------------------------------------------------------------
(* Every step keeps the bit clear only while no event waits, and never set *)
(* over an empty array.                                                    *)
LEMMA StepEventBit == TypeOK /\ EventBit /\ [Next]_vars => EventBit'
<1> SUFFICES ASSUME QueueOK, EventBit, [Next]_vars PROVE EventBit'
  BY DEF TypeOK
<1> USE DEF EventBit, curr_timer_event_index
<1>1. timer_events \in Seq(Timers \cup {NULL})
  BY DEF QueueOK
<1>2. CASE UNCHANGED <<event_type, timer_events>>
  BY <1>2
<1>3. ASSUME NEW h \in Handlers, Enqueue(h), ~ArrayFull PROVE EventBit'
  BY <1>1, <1>3 DEF Enqueue, AN_PTHREAD_TIMER_EVENT
<1>4. CASE PendingTest
  BY <1>1, <1>4 DEF PendingTest
<1>5. CASE Take
  <2>1. CASE Pending = {}
    <3>1. event_type' = 0 /\ UNCHANGED timer_events
      BY <1>5, <2>1 DEF Take, ScanBit
    <3> QED
      BY <2>1, <3>1 DEF Pending
  <2>2. ASSUME NEW i \in Pending, timer_events' = [timer_events EXCEPT ![i] = NULL]
        PROVE  EventBit'
    <3>1. /\ event_type # 0 /\ UNCHANGED event_type
          /\ i \in 1..Len(timer_events) /\ Len(timer_events') = Len(timer_events)
      BY <1>1, <1>5, <2>2 DEF Take, ScanBit, Pending
    <3> QED
      BY <1>1, <3>1
  <2> QED
    BY <1>5, <2>1, <2>2 DEF Take, ClearSlot
<1> QED
  BY <1>2, <1>3, <1>4, <1>5, QueueSteps
  DEF queue, Enqueue, TypeRead, Dispatch

(* Every step keeps a notification under way while the master may sleep    *)
(* beside an event.                                                        *)
LEMMA StepNoLostWakeup ==
  TypeOK /\ Startup /\ LockOwners /\ NoLostWakeup /\ [Next]_vars => NoLostWakeup'
<1> SUFFICES ASSUME ControlOK, Startup, LockOwners, NoLostWakeup, [Next]_vars
             PROVE  NoLostWakeup'
  BY DEF TypeOK
<1> USE DEF NoLostWakeup, ControlOK, Contexts, Tasks, Handlers, At, Step, Goto
<1>1. CASE UNCHANGED <<pc, event_type>>
  BY <1>1
<1>2. CASE Main
  BY <1>1, <1>2 DEF Main, CreateThread, PublishThread, ServicesInit, StartTimer, JoinMaster,
     Killed, Startup, queue
<1>3. ASSUME NEW h \in Handlers, Deliver(h) PROVE NoLostWakeup'
  BY <1>1, <1>3 DEF Deliver, Killed, queue
<1>4. ASSUME NEW h \in Handlers, Handle(h) PROVE NoLostWakeup'
  <2>1. CASE NotifySignal(h)
    <3>1. thread_mutex = h /\ h # "master"
      BY <2>1 DEF NotifySignal, LockOwners, InThreadMutex
    <3>2. pc["master"] # "w_sleep"
      BY <3>1 DEF LockOwners, InThreadMutex
    <3> QED
      BY <2>1, <3>2 DEF NotifySignal
  <2>2. CASE HandlerLocks(h) \/ Enqueue(h)
    BY <1>1, <2>2 DEF HandlerLocks, EnqueueLock, NotifyLock, Enqueue, Killed, queue
  <2>3. CASE EnqueueUnlock(h) \/ NotifyUnlock(h)
    BY <2>3 DEF EnqueueUnlock, NotifyUnlock, queue
  <2> QED
    BY <1>4, <2>1, <2>2, <2>3 DEF Handle
<1>5. CASE Master \/ WakeSpuriously
  <2>1. CASE WaitLock \/ WaitCheck \/ WaitSleep \/ WakeSpuriously \/ WaitRelock \/ WaitUnlock
    BY <1>1, <2>1 DEF WaitLock, WaitCheck, WaitSleep, WakeSpuriously, WaitRelock, WaitUnlock,
       Killed, queue
  <2>2. CASE TypeLock \/ TypeRead \/ TypeUnlock \/ ArrayLocks \/ PendingTest \/ PendingUnlock
    BY <2>2 DEF TypeLock, TypeRead, TypeUnlock, AfterType, ArrayLocks, PendingLock, TakeLock,
       PendingTest, PendingUnlock
  <2>3. CASE Take \/ TakeUnlock \/ Dispatch
    BY <2>3 DEF Take, TakeUnlock, Dispatch
  <2> QED
    BY <1>5, <2>1, <2>2, <2>3 DEF Master
<1> QED
  BY <1>1, <1>2, <1>3, <1>4, <1>5, SignalAssumption DEF Next, Expire, Dead, vars, queue

-------------------------------------------------------------------------------
(* The inductive invariant holds in every reachable state. *)
THEOREM Invariance == Spec => []IInv
<1>1. IInv /\ [Next]_vars => IInv'
  BY StepControlOK, StepSetupOK, StepQueueOK, StepLockOwners, StepStartup,
     StepDeathIsStartup, StepExactlyOnce, StepEventBit, StepNoLostWakeup
  DEF IInv, TypeOK
<1> QED
  BY InitIInv, <1>1, PTL DEF Spec

(* The variables have their types: every context stays in its code, and the *)
(* array never outgrows its slots.                                          *)
THEOREM Typing == Spec => []TypeOK
BY Invariance, PTL DEF IInv

(* Every accepted event is waiting, in the master's hand, or dispatched,    *)
(* once and in order.                                                       *)
THEOREM NoEventLost == Spec => []ExactlyOnce
BY Invariance, PTL DEF IInv

(* A clear bit overlooks no event, a set bit never stands over nothing.     *)
THEOREM BitTellsEvents == Spec => []EventBit
BY Invariance, PTL DEF IInv

(* The master never sleeps beside an event without a handler on its way.    *)
THEOREM WakeupNotLost == Spec => []NoLostWakeup
BY Invariance, PTL DEF IInv

(* The process is killed in its start-up or never.                          *)
THEOREM DiesInStartup == Spec => []DeathIsStartup
BY Invariance, PTL DEF IInv

-------------------------------------------------------------------------------
(* A context that holds a mutex asks for none, and main holds none. *)
LEMMA HolderNotBlocked ==
  ASSUME TypeOK, LockOwners, NEW c \in Contexts, NEW d \in Contexts, BlockedBy(c, d)
  PROVE  /\ d # "main"
         /\ \A e \in Contexts : ~BlockedBy(d, e)
<1>1. pc[d] \in InThreadMutex \cup InArrayMutex
  BY DEF BlockedBy, LockOwners
<1>2. d # "main"
  BY <1>1 DEF TypeOK, ControlOK, MainLabels, InThreadMutex, InArrayMutex
<1>3. \A e \in Contexts : ~BlockedBy(d, e)
  BY <1>1 DEF BlockedBy, InThreadMutex, InArrayMutex
<1> QED
  BY <1>2, <1>3

(* In a circle of waiting contexts the handler on the master waits for a    *)
(* mutex of the master: one that is blocked waits for a holder, a holder    *)
(* waits for the handler on top of it, and that handler is blocked.         *)
LEMMA CircleIsMasterSig ==
  ASSUME TypeOK, LockOwners, NEW S \in SUBSET Contexts, Deadlocked(S)
  PROVE  "master_sig" \in S /\ BlockedBy("master_sig", "master")
<1>1. /\ S \subseteq Contexts /\ S # {}
      /\ \A c \in S : \E d \in S : WaitsFor(c, d)
  BY DEF Deadlocked
<1>2. \A c \in S : (\E d \in S : BlockedBy(c, d)) \/ \E d \in S \cap Handlers : Host(d) = c
  BY <1>1 DEF WaitsFor
<1>3. \A h \in S \cap Handlers : \E d \in S : BlockedBy(h, d)
  BY <1>2 DEF Host, Handlers
<1>4. PICK h \in S, d \in S : BlockedBy(h, d)
  BY <1>1, <1>2, <1>3
<1>5. d # "main" /\ \A e \in S : ~BlockedBy(d, e)
  BY <1>1, <1>4, HolderNotBlocked
<1>6. PICK g \in S \cap Handlers : Host(g) = d
  BY <1>2, <1>5
<1>7. g = "master_sig" /\ d = "master"
  BY <1>5, <1>6 DEF Host, Handlers
<1>8. PICK f \in S : BlockedBy(g, f)
  BY <1>3, <1>6
<1>9. f # "main" /\ \A e \in S : ~BlockedBy(f, e)
  BY <1>1, <1>6, <1>8, HolderNotBlocked
<1>10. PICK k \in S \cap Handlers : Host(k) = f
  BY <1>2, <1>9
<1>11. f = "master"
  BY <1>9, <1>10 DEF Host, Handlers
<1> QED
  BY <1>6, <1>7, <1>8, <1>11

(* Contexts wait for each other in a circle only around a handler that asks *)
(* for a mutex of the thread it interrupted.                                *)
THEOREM DeadlockIsSelfDeadlock == Spec => []OnlySelfDeadlock
<1>1. IInv => OnlySelfDeadlock
  BY CircleIsMasterSig DEF IInv, OnlySelfDeadlock, Handlers, Host
<1> QED
  BY Invariance, <1>1, PTL

(* No contexts ever wait in a circle when SIGTIMER is delivered on main.    *)
THEOREM DeadlockFreeOnMain == Spec => []NoDeadlock
<1>1. IInv => NoDeadlock
  <2> SUFFICES ASSUME IInv, SignalContexts \subseteq {"main_sig"},
                      NEW S \in SUBSET Contexts, Deadlocked(S)
               PROVE  FALSE
    BY DEF NoDeadlock
  <2>1. pc["master_sig"] = "idle"
    BY DEF IInv, Startup, Handlers
  <2> QED
    BY <2>1, CircleIsMasterSig DEF IInv, BlockedBy
<1> QED
  BY Invariance, <1>1, PTL

-------------------------------------------------------------------------------
(* The timer service implements the event channel. *)
THEOREM ImplementsChannel == Spec => ChannelSafe
<1>1. Init => Channel!Init
  BY DEF Init, Channel!Init
<1>2. ASSUME IInv, [Next]_vars PROVE [Channel!Next]_Channel!vars
  <2>1. /\ accepted \in Seq(Timers) /\ handled \in Seq(Timers)
        /\ timer_events \in Seq(Timers \cup {NULL}) /\ Len(accepted) = Len(timer_events)
    BY <1>2 DEF IInv, TypeOK, QueueOK, ExactlyOnce
  <2>2. CASE UNCHANGED <<accepted, handled>>
    BY <2>2 DEF Channel!vars
  <2>3. ASSUME NEW h \in Handlers, Enqueue(h), ~ArrayFull PROVE Channel!Next
    <3>1. si_value[h] \in Timers
      BY <1>2, <2>3 DEF Enqueue, At, IInv, TypeOK, ControlOK
    <3>2. Channel!Accept(si_value[h])
      BY <2>1, <2>3, MaxAssumption
      DEF Enqueue, ArrayFull, curr_timer_event_index, locals, Channel!Accept
    <3> QED
      BY <3>1, <3>2 DEF Channel!Next
  <2>4. CASE Dispatch /\ expired_timer # NULL
    <3>1. InHand
      BY <2>4 DEF Dispatch, At, InHand
    <3>2. Len(handled) < Len(accepted) /\ expired_timer = accepted[Len(handled) + 1]
      BY <1>2, <2>1, <3>1 DEF IInv, ExactlyOnce, Taken
    <3> QED
      BY <2>4, <3>2 DEF Dispatch, queue, Channel!Handle, Channel!Next
  <2> QED
    BY <1>2, <2>2, <2>3, <2>4, QueueSteps
    DEF queue, locals, Enqueue, TypeRead, PendingTest, Take, Dispatch
<1> QED
  BY <1>1, <1>2, Invariance, PTL DEF Spec, ChannelSafe, Channel!SafeSpec
===============================================================================

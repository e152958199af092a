----------------------------- MODULE MasterThread -----------------------------
(***************************************************************************)
(* The timer service of linux_timer/timer_linux.c: main creates the master *)
(* thread and starts periodic POSIX timers, the kernel sends SIGTIMER for  *)
(* every expiry, the signal handler puts the timer into the master's event *)
(* array and signals its condition variable, and the master takes the      *)
(* timers out of the array and dispatches them.                            *)
(*                                                                         *)
(* Four contexts execute: the two threads, and the signal handler as it    *)
(* runs on top of each of them.  A handler suspends its thread until it    *)
(* returns and is not interrupted by another SIGTIMER.  A mutex records    *)
(* the context that locked it; the mutexes are default ones, so a handler  *)
(* that locks a mutex held by the thread it interrupted blocks forever.    *)
(* Calls on a valid default mutex do not fail: the "status != 0" returns   *)
(* of the code are left out.  One step is one mutex operation, one system  *)
(* call, or the code of a critical section between them.                   *)
(***************************************************************************)
EXTENDS Integers, Sequences

CONSTANTS
  Timers,                   (* the an_linux_timer_t objects main starts      *)
  NULL,                     (* the C null pointer                            *)
  MAX_THREAD_TIMER_EVENTS,  (* slots of the event array, 20 in the source    *)
  SignalContexts,           (* handler contexts the kernel delivers on       *)
  Faults                    (* library calls of main that may fail           *)

Tasks    == {"main", "master"}
Handlers == {"main_sig", "master_sig"}
Contexts == Tasks \cup Handlers

(* The thread whose stack a handler runs on. *)
Host(h) == IF h = "main_sig" THEN "main" ELSE "master"

Unlocked == "unlocked"

AN_PTHREAD_TIMER_EVENT == 16

ASSUME TimersAssumption == NULL \notin Timers
ASSUME MaxAssumption == MAX_THREAD_TIMER_EVENTS \in Nat \ {0}
ASSUME SignalAssumption == SignalContexts \subseteq Handlers
ASSUME FaultsAssumption ==
  Faults \subseteq {"pthread_create", "malloc", "sigaction", "timer_create"}

VARIABLES
  pc,                  (* where each context is                              *)
  alive,               (* FALSE once the process is killed by a signal       *)
  an_master_thread,    (* TRUE once the global pointer is set                *)
  installed,           (* SIGTIMER has its handler                           *)
  unstarted,           (* timers main has still to initialise and start      *)
  armed,               (* timers the kernel counts down, again and again     *)
  sigq,                (* SIGTIMERs queued for the process, by timer         *)
  si_value,            (* the timer each handler was called with             *)
  thread_mutex,        (* the context that holds it, or Unlocked             *)
  timer_events_mutex,  (* likewise                                           *)
  event_type,          (* bit mask of events; only one bit is ever used      *)
  timer_events,        (* the slots below curr_timer_event_index             *)
  evt_type,            (* local of an_master_thread_func                     *)
  expired_timer,       (* local of an_master_thread_func                     *)
  accepted,            (* history: timers enqueued, in order                 *)
  handled              (* history: timers dispatched, in order               *)

mutexes == <<thread_mutex, timer_events_mutex>>
setup   == <<an_master_thread, installed, unstarted, armed>>
signals == <<sigq, si_value>>
queue   == <<event_type, timer_events, accepted>>
locals  == <<evt_type, expired_timer, handled>>
vars    == <<pc, alive, setup, signals, mutexes, queue, locals>>

(* The slots from the index on are not initialised, and never read. *)
curr_timer_event_index == Len(timer_events)

Init ==
  /\ pc = [c \in Contexts |-> CASE c = "main"   -> "create"
                                [] c = "master" -> "unborn"
                                [] OTHER        -> "idle"]
  /\ alive = TRUE
  /\ an_master_thread = FALSE
  /\ installed = FALSE
  /\ unstarted = Timers
  /\ armed = {}
  /\ sigq = << >>
  /\ si_value = [h \in Handlers |-> NULL]
  /\ thread_mutex = Unlocked
  /\ timer_events_mutex = Unlocked
  /\ event_type = 0
  /\ timer_events = << >>
  /\ evt_type = 0
  /\ expired_timer = NULL
  /\ accepted = << >>
  /\ handled = << >>

-------------------------------------------------------------------------------
(* Control. *)

(* Context c may execute the code at label l: no handler is on top of it. *)
At(c, l) ==
  /\ alive
  /\ pc[c] = l
  /\ \A h \in Handlers : Host(h) = c => pc[h] = "idle"

Goto(c, l) == pc' = [pc EXCEPT ![c] = l]

(* A step of c from label l to label k that changes no more than mutexes. *)
Step(c, l, k) ==
  /\ At(c, l)
  /\ Goto(c, k)
  /\ UNCHANGED <<alive, setup, signals, queue, locals>>

(* A null pointer is dereferenced, or a signal without a handler arrives. *)
Killed ==
  /\ alive' = FALSE
  /\ UNCHANGED <<pc, setup, signals, mutexes, queue, locals>>

LockThreadMutex(c) ==
  /\ thread_mutex = Unlocked
  /\ thread_mutex' = c
  /\ UNCHANGED timer_events_mutex

UnlockThreadMutex ==
  /\ thread_mutex' = Unlocked
  /\ UNCHANGED timer_events_mutex

LockTimerEventsMutex(c) ==
  /\ timer_events_mutex = Unlocked
  /\ timer_events_mutex' = c
  /\ UNCHANGED thread_mutex

UnlockTimerEventsMutex ==
  /\ timer_events_mutex' = Unlocked
  /\ UNCHANGED thread_mutex

-------------------------------------------------------------------------------
(* The thread main. *)

(* an_pthread_create, first half: the new thread runs from here on. *)
CreateThread ==
  /\ At("main", "create")
  /\ \/ pc' = [pc EXCEPT !["main"] = "malloc", !["master"] = "w_lock"]
     \/ "pthread_create" \in Faults /\ Goto("main", "services")
  /\ UNCHANGED <<alive, setup, signals, mutexes, queue, locals>>

(* Second half: only now is the descriptor built and an_master_thread set. *)
PublishThread ==
  /\ At("main", "malloc")
  /\ Goto("main", "services")
  /\ \/ an_master_thread' = TRUE
     \/ "malloc" \in Faults /\ UNCHANGED an_master_thread
  /\ UNCHANGED <<alive, installed, unstarted, armed, signals, mutexes, queue, locals>>

ServicesInit ==
  /\ At("main", "services")
  /\ Goto("main", "timers")
  /\ \/ installed' = TRUE
     \/ "sigaction" \in Faults /\ UNCHANGED installed
  /\ UNCHANGED <<alive, an_master_thread, unstarted, armed, signals, mutexes, queue, locals>>

(* an_timer_init and an_timer_start; a timer that is not created is not armed. *)
StartTimer(t) ==
  /\ At("main", "timers")
  /\ t \in unstarted
  /\ unstarted' = unstarted \ {t}
  /\ \/ armed' = armed \cup {t}
     \/ "timer_create" \in Faults /\ UNCHANGED armed
  /\ UNCHANGED <<pc, alive, an_master_thread, installed, signals, mutexes, queue, locals>>

(* pthread_join(an_master_thread->thread_id): the master never ends. *)
JoinMaster ==
  /\ unstarted = {}
  /\ \/ an_master_thread /\ Step("main", "timers", "join") /\ UNCHANGED mutexes
     \/ ~an_master_thread /\ At("main", "timers") /\ Killed

Main ==
  \/ CreateThread
  \/ PublishThread
  \/ ServicesInit
  \/ \E t \in Timers : StartTimer(t)
  \/ JoinMaster

-------------------------------------------------------------------------------
(* The kernel. *)

(* A timer has at most one signal queued; further expiries only overrun. *)
Expire(t) ==
  /\ alive
  /\ t \in armed
  /\ \A i \in 1..Len(sigq) : sigq[i] # t
  /\ sigq' = Append(sigq, t)
  /\ UNCHANGED <<pc, alive, setup, si_value, mutexes, queue, locals>>

(* Mutant: the handler is removed when it is called. *)
OneShot == TRUE

(* SA_RESETHAND is not among the sa_flags: the handler stays installed. *)
ResetHand == FALSE

Deliver(h) ==
  /\ alive
  /\ sigq # << >>
  /\ pc[h] = "idle"
  /\ pc[Host(h)] # "unborn"
  /\ \/ /\ installed
        /\ installed' = ~ResetHand
        /\ Goto(h, "h_lock")
        /\ si_value' = [si_value EXCEPT ![h] = Head(sigq)]
        /\ sigq' = Tail(sigq)
        /\ UNCHANGED <<alive, an_master_thread, unstarted, armed, mutexes, queue, locals>>
     \/ ~installed /\ Killed

-------------------------------------------------------------------------------
(* The handler: an_handle_timer_events enqueues, then notifies. *)

EnqueueLock(h) ==
  \/ an_master_thread /\ Step(h, "h_lock", "h_put") /\ LockTimerEventsMutex(h)
  \/ ~an_master_thread /\ At(h, "h_lock") /\ Killed

(* Mutant: the test of the index lets one event too many in. *)
OverFull == curr_timer_event_index > MAX_THREAD_TIMER_EVENTS

ArrayFull == curr_timer_event_index >= MAX_THREAD_TIMER_EVENTS

(* A full array loses the event, and the handler returns without notifying. *)
Enqueue(h) ==
  /\ At(h, "h_put")
  /\ \/ ArrayFull /\ Goto(h, "h_full") /\ UNCHANGED queue
     \/ /\ ~ArrayFull
        /\ Goto(h, "h_unlock")
        /\ timer_events' = Append(timer_events, si_value[h])
        /\ event_type' = AN_PTHREAD_TIMER_EVENT
        /\ accepted' = Append(accepted, si_value[h])
  /\ UNCHANGED <<alive, setup, signals, mutexes, locals>>

(* Mutant: the early return for a full array forgets the unlock. *)
FullKeepsLock(h) ==
  \/ Step(h, "h_full", "idle") /\ UNCHANGED mutexes
  \/ Step(h, "h_unlock", "n_lock") /\ UnlockTimerEventsMutex

EnqueueUnlock(h) ==
  /\ \/ Step(h, "h_full", "idle")
     \/ Step(h, "h_unlock", "n_lock")
  /\ UnlockTimerEventsMutex

(* Mutant: pthread_mutex_trylock, no notification when it fails. *)
NotifyTryLock(h) ==
  \/ Step(h, "n_lock", "n_signal") /\ LockThreadMutex(h)
  \/ Step(h, "n_lock", "idle") /\ thread_mutex # Unlocked /\ UNCHANGED mutexes

NotifyLock(h) == Step(h, "n_lock", "n_signal") /\ LockThreadMutex(h)

(* pthread_cond_signal: only a waiting master notices. *)
NotifySignal(h) ==
  /\ At(h, "n_signal")
  /\ pc' = [pc EXCEPT ![h] = "n_unlock",
                      !["master"] = IF @ = "w_wait" THEN "w_relock" ELSE @]
  /\ UNCHANGED <<alive, setup, signals, mutexes, queue, locals>>

(* Mutant: the unlock is missing. *)
NotifyKeepsLock(h) == Step(h, "n_unlock", "idle") /\ UNCHANGED mutexes

NotifyUnlock(h) == Step(h, "n_unlock", "idle") /\ UnlockThreadMutex

HandlerLocks(h) == EnqueueLock(h) \/ NotifyLock(h)

Handle(h) ==
  \/ HandlerLocks(h)
  \/ Enqueue(h)
  \/ EnqueueUnlock(h)
  \/ NotifySignal(h)
  \/ NotifyUnlock(h)

-------------------------------------------------------------------------------
(* The master thread: an_pthread_wait_for_event. *)

WaitLock ==
  \/ an_master_thread /\ Step("master", "w_lock", "w_check") /\ LockThreadMutex("master")
  \/ ~an_master_thread /\ At("master", "w_lock") /\ Killed

(* event_type is read under thread_mutex and written under the other one. *)
WaitCheck ==
  /\ Step("master", "w_check", IF event_type = 0 THEN "w_sleep" ELSE "w_unlock")
  /\ UNCHANGED mutexes

WaitSleep == Step("master", "w_sleep", "w_wait") /\ UnlockThreadMutex

WakeSpuriously == Step("master", "w_wait", "w_relock") /\ UNCHANGED mutexes

WaitRelock == Step("master", "w_relock", "w_unlock") /\ LockThreadMutex("master")

WaitUnlock == Step("master", "w_unlock", "g_lock") /\ UnlockThreadMutex

(* an_pthread_get_waiting_event_type: it always returns true, so the loop  *)
(* around it is never left and the master never waits a second time.       *)

TypeLock == Step("master", "g_lock", "g_read") /\ LockThreadMutex("master")

(* Mutant: the commented-out line 373 clears the bit that was found. *)
TypeReadClears ==
  /\ At("master", "g_read")
  /\ evt_type' = event_type
  /\ event_type' = 0
  /\ Goto("master", "g_unlock")
  /\ UNCHANGED <<alive, setup, signals, mutexes, timer_events, accepted, expired_timer, handled>>

(* The lowest bit that is set; there is only one. *)
TypeRead ==
  /\ At("master", "g_read")
  /\ evt_type' = event_type
  /\ Goto("master", "g_unlock")
  /\ UNCHANGED <<alive, setup, signals, mutexes, queue, expired_timer, handled>>

(* Where the inner loop goes on with the event type it was given. *)
AfterType == IF evt_type = AN_PTHREAD_TIMER_EVENT THEN "a_lock" ELSE "g_lock"

(* Mutant: the unlock is missing. *)
TypeKeepsLock == Step("master", "g_unlock", AfterType) /\ UNCHANGED mutexes

TypeUnlock == Step("master", "g_unlock", AfterType) /\ UnlockThreadMutex

(* an_pthread_any_pending_timer_event *)

PendingLock == Step("master", "a_lock", "a_test") /\ LockTimerEventsMutex("master")

(* An empty array clears the bit; a clear bit stays clear. *)
PendingTest ==
  /\ At("master", "a_test")
  /\ IF event_type = 0 \/ curr_timer_event_index = 0
       THEN event_type' = 0 /\ Goto("master", "a_no")
       ELSE UNCHANGED event_type /\ Goto("master", "a_yes")
  /\ UNCHANGED <<alive, setup, signals, mutexes, timer_events, accepted, locals>>

PendingUnlock ==
  /\ \E l \in {"a_yes", "a_no"} :
       Step("master", l, IF l = "a_yes" THEN "p_lock" ELSE "g_lock")
  /\ UnlockTimerEventsMutex

(* an_pthread_get_pending_timer_event *)

TakeLock == Step("master", "p_lock", "p_take") /\ LockTimerEventsMutex("master")

(* The slots the scan can find a timer in; it stops at the first. *)
Pending ==
  IF event_type = 0 THEN {}
  ELSE {i \in 1..curr_timer_event_index : timer_events[i] # NULL}

(* Mutant: the scan goes down from the index. *)
Newest(i) == \A j \in Pending : i >= j

Oldest(i) == \A j \in Pending : i <= j

(* Mutant: the slot keeps its timer. *)
KeepSlot(i) == UNCHANGED timer_events

(* The slot becomes NULL but the index stays: no slot is ever reused. *)
ClearSlot(i) == timer_events' = [timer_events EXCEPT ![i] = NULL]

(* Mutant: the bit is cleared whether or not a timer was found. *)
ClearBit(found) == event_type' = 0

(* The bit is cleared by the scan that finds nothing. *)
ScanBit(found) == event_type' = IF found THEN event_type ELSE 0

Take ==
  /\ At("master", "p_take")
  /\ Goto("master", "p_unlock")
  /\ ScanBit(Pending # {})
  /\ \/ \E i \in Pending :
          /\ Oldest(i)
          /\ expired_timer' = timer_events[i]
          /\ ClearSlot(i)
     \/ /\ Pending = {}
        /\ expired_timer' = NULL
        /\ UNCHANGED timer_events
  /\ UNCHANGED <<alive, setup, signals, mutexes, accepted, evt_type, handled>>

TakeUnlock == Step("master", "p_unlock", "dispatch") /\ UnlockTimerEventsMutex

(* The body of the inner loop of an_master_thread_func. *)
Dispatch ==
  /\ At("master", "dispatch")
  /\ IF expired_timer = NULL
       THEN Goto("master", "g_lock") /\ UNCHANGED handled
       ELSE Goto("master", "a_lock") /\ handled' = Append(handled, expired_timer)
  /\ UNCHANGED <<alive, setup, signals, mutexes, queue, evt_type, expired_timer>>

ArrayLocks == PendingLock \/ TakeLock

Master ==
  \/ WaitLock
  \/ WaitCheck
  \/ WaitSleep
  \/ WaitRelock
  \/ WaitUnlock
  \/ TypeLock
  \/ TypeRead
  \/ TypeUnlock
  \/ ArrayLocks
  \/ PendingTest
  \/ PendingUnlock
  \/ Take
  \/ TakeUnlock
  \/ Dispatch

-------------------------------------------------------------------------------
(* A killed process stays as it is. *)
Dead == ~alive /\ UNCHANGED vars

Next ==
  \/ Main
  \/ Master
  \/ WakeSpuriously
  \/ \E h \in Handlers : Handle(h)
  \/ \E t \in Timers : Expire(t)
  \/ \E h \in SignalContexts : Deliver(h)
  \/ Dead

Spec == Init /\ [][Next]_vars

(* The scheduler runs every thread that can run, and the kernel delivers a *)
(* queued signal; no timer is obliged to expire and no wake-up is spurious *)
(* by right.  The handlers that compete with the master for the array come *)
(* a timer period apart, so the master that asks for it gets it.           *)
Fairness ==
  /\ WF_vars(Main)
  /\ WF_vars(Master)
  /\ SF_vars(ArrayLocks)
  /\ \A h \in Handlers : WF_vars(Handle(h))
  /\ WF_vars(\E h \in SignalContexts : Deliver(h))

FairSpec == Spec /\ Fairness

(* Mutexes that are granted in the end to a handler that keeps asking:     *)
(* more than POSIX promises, and assumed by one property alone.            *)
FairLocks == \A h \in Handlers : SF_vars(HandlerLocks(h))

-------------------------------------------------------------------------------
(* Properties. *)

MainLabels    == {"create", "malloc", "services", "timers", "join"}
HandlerLabels == {"idle", "h_lock", "h_put", "h_full", "h_unlock",
                  "n_lock", "n_signal", "n_unlock"}
MasterLabels  == {"unborn", "w_lock", "w_check", "w_sleep", "w_wait", "w_relock",
                  "w_unlock", "g_lock", "g_read", "g_unlock", "a_lock", "a_test",
                  "a_yes", "a_no", "p_lock", "p_take", "p_unlock", "dispatch"}

(* Every context is at a label of its code; a running handler has its timer. *)
ControlOK ==
  /\ pc \in [Contexts -> MainLabels \cup HandlerLabels \cup MasterLabels]
  /\ pc["main"] \in MainLabels
  /\ pc["master"] \in MasterLabels
  /\ \A h \in Handlers : pc[h] \in HandlerLabels
  /\ si_value \in [Handlers -> Timers \cup {NULL}]
  /\ \A h \in Handlers : pc[h] # "idle" => si_value[h] \in Timers

SetupOK ==
  /\ alive \in BOOLEAN
  /\ an_master_thread \in BOOLEAN
  /\ installed \in BOOLEAN
  /\ unstarted \subseteq Timers
  /\ armed \subseteq Timers
  /\ sigq \in Seq(Timers)
  /\ thread_mutex \in Contexts \cup {Unlocked}
  /\ timer_events_mutex \in Contexts \cup {Unlocked}

QueueOK ==
  /\ event_type \in {0, AN_PTHREAD_TIMER_EVENT}
  /\ timer_events \in Seq(Timers \cup {NULL})
  /\ curr_timer_event_index <= MAX_THREAD_TIMER_EVENTS
  /\ accepted \in Seq(Timers)
  /\ evt_type \in {0, AN_PTHREAD_TIMER_EVENT}
  /\ expired_timer \in Timers \cup {NULL}
  /\ handled \in Seq(Timers)

(* The variables have their types; the array never outgrows its slots. *)
TypeOK == ControlOK /\ SetupOK /\ QueueOK

(* The timer the master has taken out of the array and not dispatched yet. *)
InHand == pc["master"] \in {"p_unlock", "dispatch"} /\ expired_timer # NULL

Taken == Len(handled) + (IF InHand THEN 1 ELSE 0)

(* Every accepted event is in exactly one place, and in order: the first   *)
(* ones dispatched, then the one in the master's hand, the rest in their   *)
(* slots; a slot whose event was taken is NULL.  No interleaving of the    *)
(* handlers with an_pthread_get_pending_timer_event loses, repeats or      *)
(* reorders an event.                                                      *)
ExactlyOnce ==
  /\ Len(accepted) = Len(timer_events)
  /\ Taken <= Len(accepted)
  /\ \A i \in 1..Len(handled) : handled[i] = accepted[i]
  /\ InHand => expired_timer = accepted[Taken]
  /\ \A i \in 1..Len(timer_events) :
       timer_events[i] = IF i <= Taken THEN NULL ELSE accepted[i]

(* While the timer bit of event_type is clear no event waits in the array, *)
(* so the master that reads a clear bit overlooks nothing; and the bit is  *)
(* never set over an empty array, what the code calls "something wrong".   *)
EventBit ==
  /\ event_type = 0 => \A i \in 1..Len(timer_events) : timer_events[i] = NULL
  /\ event_type # 0 => timer_events # << >>

(* If the master waits, or has decided to wait, while an event is there,   *)
(* then a handler is on its way to signal it: the wake-up cannot be lost   *)
(* although event_type is tested under a mutex it is not written under.    *)
NoLostWakeup ==
  pc["master"] \in {"w_sleep", "w_wait"} /\ event_type # 0
    => \E h \in Handlers : pc[h] \in {"h_unlock", "n_lock", "n_signal"}

(* c asks for a mutex that d holds. *)
BlockedBy(c, d) ==
  \/ pc[c] \in {"w_lock", "w_relock", "g_lock", "n_lock"} /\ thread_mutex = d
  \/ pc[c] \in {"a_lock", "p_lock", "h_lock"} /\ timer_events_mutex = d

(* c proceeds only after d does: d holds what c wants, or runs on top of c. *)
WaitsFor(c, d) ==
  \/ BlockedBy(c, d)
  \/ d \in Handlers /\ Host(d) = c /\ pc[d] # "idle"

(* The contexts of S wait for each other in a circle. *)
Deadlocked(S) == S # {} /\ \A c \in S : \E d \in S : WaitsFor(c, d)

(* The only way contexts wait for each other in a circle is a handler that *)
(* asks for a mutex of the very thread it interrupted: the two mutexes are *)
(* never nested, so no order of locking between threads can deadlock.      *)
OnlySelfDeadlock ==
  \A S \in SUBSET Contexts :
    Deadlocked(S) => \E h \in S \cap Handlers : BlockedBy(h, Host(h))

(* When SIGTIMER is delivered on main alone, which holds no mutex when it  *)
(* is interrupted, no contexts ever wait for each other in a circle.       *)
NoDeadlock ==
  SignalContexts \subseteq {"main_sig"} => \A S \in SUBSET Contexts : ~Deadlocked(S)

(* The process is killed only when a signal or the master outruns the      *)
(* publication of an_master_thread in an_pthread_create (or when it was    *)
(* never published), or when installing the handler failed: once started   *)
(* up, nothing the timers do kills it.                                     *)
DeathIsStartup ==
  ~alive => ~an_master_thread \/ "sigaction" \in Faults

Channel == INSTANCE EventChannel
  WITH Events <- Timers, Capacity <- MAX_THREAD_TIMER_EVENTS

(* The array, the bit and the two mutexes implement the event channel:     *)
(* dispatched events are the accepted ones in order, at most               *)
(* MAX_THREAD_TIMER_EVENTS in the life of the process.                     *)
ChannelSafe == Channel!SafeSpec

(* And with a fair scheduler every accepted event is dispatched, whatever  *)
(* the master does to thread_mutex while it polls.                         *)
ChannelLive == Channel!Spec

(* A handler that starts returns, so main can take the next signal.  The   *)
(* polling master takes thread_mutex over and over: only mutexes that are  *)
(* granted in the end let the handler through.                             *)
HandlerReturns ==
  FairLocks => \A h \in Handlers : pc[h] # "idle" ~> (pc[h] = "idle" \/ ~alive)

(* "No event present wait for an event to occur" (timer_linux.c:270): a    *)
(* master with no event present gets to its wait, unless an event comes.   *)
IdleMasterWaits ==
  (an_master_thread /\ event_type = 0)
    ~> (pc["master"] = "w_wait" \/ event_type # 0 \/ ~alive)
===============================================================================

---------------------------- MODULE NetlinkMonitor ----------------------------
(***************************************************************************)
(* The interface monitor of linux_timer/timer_event_lib.c over the netlink *)
(* socket of rt_netlinks/rt_netlink_utils.c: main starts a libevent timer  *)
(* and the event thread, asks the kernel for a dump of the interfaces,     *)
(* reads it, and registers the socket with the event loop; from then on    *)
(* the thread reads the link notifications.                                *)
(*                                                                         *)
(* Link messages are numbered in the order the kernel queues them on the   *)
(* socket.  A datagram is a run of n link messages, the first of them      *)
(* numbered lo, and what ends it: nothing, the end of the dump             *)
(* (NLMSG_DONE), an error reply, another message that the code does not    *)
(* ask for (RTM_DELLINK), or the mark of a datagram that recvmsg truncates.*)
(* The code walks all 8192 bytes of its buffer, whatever was received:     *)
(* what follows the datagram is uninitialised memory or the rest of an     *)
(* earlier one, and may look like any message.  A stale link message is    *)
(* parsed as well: it is reported without a number, as 0.                  *)
(***************************************************************************)
EXTENDS Integers, Sequences, FiniteSets

CONSTANTS
  LINKS,    (* interfaces in the dump                                  *)
  CHANGES,  (* bound on the link changes during a run                  *)
  STALE,    (* bound on the stale link messages reported during a run  *)
  RCVBUF,   (* datagrams the socket holds                              *)
  Faults    (* calls that may fail, replies that may be errors         *)

ASSUME LinksAssumption == LINKS \in Nat \ {0}
ASSUME ChangesAssumption == CHANGES \in Nat
ASSUME StaleAssumption == STALE \in Nat
ASSUME RcvbufAssumption == RCVBUF \in Nat \ {0}
ASSUME NetlinkFaults ==
  Faults \subseteq {"event_base_new", "pthread_create", "malloc", "bind", "sendmsg",
                    "dump", "msg_buf", "event_new", "truncation"}

Contexts == {"main", "thread"}

VARIABLES
  pc,                       (* where main and the event thread are         *)
  alive,                    (* FALSE once a null pointer was dereferenced, *)
                            (* or a name overran its place on the stack    *)
  an_evnt_handler_thread,   (* TRUE once the global pointer is set         *)
  netlink_sock,             (* _netlink_sock: NULL, unbound or bound       *)
  nonblocking,              (* the socket is non-blocking                  *)
  registered,               (* the socket is an event of the loop          *)
  dump,                     (* none, running, done or error                *)
  left,                     (* links of the dump still to be queued        *)
  sockq,                    (* datagrams on the socket                     *)
  overrun,                  (* the next recvmsg reports a lost datagram    *)
  changes,                  (* link changes so far                         *)
  data,                     (* what is left to walk of msg_buf             *)
  msg_done,                 (* local of an_receive_netlink_info            *)
  sent,                     (* history: link messages queued               *)
  reported,                 (* history: what was parsed, in order          *)
  dropped                   (* history: numbers of those recvmsg truncated *)

setup   == <<an_evnt_handler_thread, netlink_sock, nonblocking, registered>>
kernel  == <<dump, left, sockq, overrun, changes, sent>>
receive == <<data, msg_done, reported, dropped>>
vars    == <<pc, alive, setup, kernel, receive>>

Nothing == [lo |-> 1, n |-> 0, end |-> "none"]

(* The bytes of the buffer behind the datagram. *)
Stale == [lo |-> 1, n |-> 0, end |-> "stale"]

Init ==
  /\ pc = [main |-> "init", thread |-> "unborn"]
  /\ alive = TRUE
  /\ an_evnt_handler_thread = FALSE
  /\ netlink_sock = "NULL"
  /\ nonblocking = FALSE
  /\ registered = FALSE
  /\ dump = "none"
  /\ left = LINKS
  /\ sockq = << >>
  /\ overrun = FALSE
  /\ changes = 0
  /\ data = [c \in Contexts |-> Nothing]
  /\ msg_done = [c \in Contexts |-> FALSE]
  /\ sent = 0
  /\ reported = << >>
  /\ dropped = {}

At(c, l) == alive /\ pc[c] = l

Goto(c, l) == pc' = [pc EXCEPT ![c] = l]

Killed ==
  /\ alive' = FALSE
  /\ UNCHANGED <<pc, setup, kernel, receive>>

-------------------------------------------------------------------------------
(* main up to the receive loop. *)

(* The event base, the timer and its start, which dereferences the event. *)
InitTimer ==
  /\ At("main", "init")
  /\ \/ Goto("main", "create") /\ UNCHANGED <<alive, setup, kernel, receive>>
     \/ "event_base_new" \in Faults /\ Killed

(* an_pthread_create, first half: the event loop runs from here on. *)
CreateThread ==
  /\ At("main", "create")
  /\ \/ pc' = [main |-> "malloc", thread |-> "loop"]
     \/ "pthread_create" \in Faults /\ Goto("main", "open")
  /\ UNCHANGED <<alive, setup, kernel, receive>>

PublishThread ==
  /\ At("main", "malloc")
  /\ Goto("main", "open")
  /\ \/ an_evnt_handler_thread' = TRUE
     \/ "malloc" \in Faults /\ UNCHANGED an_evnt_handler_thread
  /\ UNCHANGED <<alive, netlink_sock, nonblocking, registered, kernel, receive>>

OpenSocket ==
  /\ At("main", "open")
  /\ \/ netlink_sock' = "bound" /\ Goto("main", "send")
     \/ /\ \/ "malloc" \in Faults /\ UNCHANGED netlink_sock
           \/ "bind" \in Faults /\ netlink_sock' = "unbound"
        /\ Goto("main", "join")
  /\ UNCHANGED <<alive, an_evnt_handler_thread, nonblocking, registered, kernel, receive>>

(* Mutant: the event is registered with the request, before the dump is read. *)
SendAndRegister ==
  /\ At("main", "send")
  /\ Goto("main", "alloc")
  /\ dump' = "running"
  /\ nonblocking' = TRUE
  /\ registered' = TRUE
  /\ UNCHANGED <<alive, an_evnt_handler_thread, netlink_sock,
                 left, sockq, overrun, changes, sent, receive>>

SendRequest ==
  /\ At("main", "send")
  /\ \/ Goto("main", "alloc") /\ dump' = "running"
     \/ "sendmsg" \in Faults /\ Goto("main", "join") /\ UNCHANGED dump
  /\ UNCHANGED <<alive, setup, left, sockq, overrun, changes, sent, receive>>

(* an_register_interface_events *)
Register ==
  /\ At("main", "add")
  /\ \/ /\ Goto("main", "join")
        /\ nonblocking' = TRUE
        /\ registered' = TRUE
        /\ UNCHANGED <<alive, an_evnt_handler_thread, netlink_sock, kernel, receive>>
     \/ "event_new" \in Faults /\ Killed

(* pthread_join(an_evnt_handler_thread->thread_id): the thread never ends. *)
JoinThread == At("main", "join") /\ ~an_evnt_handler_thread /\ Killed

-------------------------------------------------------------------------------
(* an_receive_netlink_info, by main for the dump and by the thread after. *)

Leave(c) == Goto(c, IF c = "main" THEN "add" ELSE "loop")

(* Without a buffer there is nothing to receive into. *)
AllocBuffer(c) ==
  /\ At(c, "alloc")
  /\ \/ Goto(c, "recv") /\ msg_done' = [msg_done EXCEPT ![c] = FALSE]
     \/ "msg_buf" \in Faults /\ Leave(c) /\ UNCHANGED msg_done
  /\ UNCHANGED <<alive, setup, kernel, data, reported, dropped>>

(* recvmsg waits for a datagram while the socket is blocking; an error, and *)
(* a first message that was truncated, end the loop.                        *)
Receive(c) ==
  /\ At(c, "recv")
  /\ \/ /\ overrun
        /\ overrun' = FALSE
        /\ Leave(c)
        /\ UNCHANGED <<sockq, data, dropped>>
     \/ /\ ~overrun
        /\ sockq # << >>
        /\ sockq' = Tail(sockq)
        /\ LET d == Head(sockq) IN
             IF d.end = "truncated"
               THEN /\ Leave(c)
                    /\ dropped' = dropped \cup (d.lo)..(d.lo + d.n - 1)
                    /\ UNCHANGED data
               ELSE /\ Goto(c, "walk")
                    /\ data' = [data EXCEPT ![c] = d]
                    /\ UNCHANGED dropped
        /\ UNCHANGED overrun
     \/ /\ ~overrun
        /\ sockq = << >>
        /\ nonblocking
        /\ Leave(c)
        /\ UNCHANGED <<sockq, overrun, data, dropped>>
  /\ UNCHANGED <<alive, setup, dump, left, changes, sent, msg_done, reported>>

(* NLMSG_NEXT *)
Rest(d) == [lo |-> d.lo + 1, n |-> d.n - 1, end |-> d.end]

(* The link messages of the datagram, each parsed in its turn. *)
ParseLink(c) ==
  /\ At(c, "walk")
  /\ data[c].n > 0
  /\ data' = [data EXCEPT ![c] = Rest(data[c])]
  /\ reported' = Append(reported, data[c].lo)
  /\ UNCHANGED <<pc, alive, setup, kernel, msg_done, dropped>>

(* Mutant: every header decides again whether the dump is done. *)
LastHeader(done, type) == type = "DONE"

(* The break of case NLMSG_DONE leaves the switch alone, not the walk. *)
AfterHeader(done, type) == done \/ type = "DONE"

(* What ends the datagram; the walk goes on behind it. *)
WalkEnd(c) ==
  /\ At(c, "walk")
  /\ data[c].n = 0
  /\ data[c] # Stale
  /\ msg_done' = [msg_done EXCEPT ![c] = AfterHeader(@, data[c].end)]
  /\ data' = [data EXCEPT ![c] = Stale]
  /\ UNCHANGED <<pc, alive, setup, kernel, reported, dropped>>

(* A stale header that is no link message. *)
WalkStale(c) ==
  /\ At(c, "walk")
  /\ data[c] = Stale
  /\ \E type \in {"DONE", "other"} :
       msg_done' = [msg_done EXCEPT ![c] = AfterHeader(@, type)]
  /\ UNCHANGED <<pc, alive, setup, kernel, data, reported, dropped>>

(* A stale RTM_NEWLINK is parsed like any other.  Its name need not be one: *)
(* strcpy may write over the end of name[IFNAMSIZ].                         *)
ParseStale(c) ==
  /\ At(c, "walk")
  /\ data[c] = Stale
  /\ \/ /\ Cardinality({k \in 1..Len(reported) : reported[k] = 0}) < STALE
        /\ reported' = Append(reported, 0)
        /\ UNCHANGED <<pc, alive, setup, kernel, data, msg_done, dropped>>
     \/ Killed

(* The end of the buffer, or bytes that are no header. *)
EndWalk(c) ==
  /\ At(c, "walk")
  /\ data[c] = Stale
  /\ data' = [data EXCEPT ![c] = Nothing]
  /\ IF msg_done[c] THEN Leave(c) ELSE Goto(c, "recv")
  /\ UNCHANGED <<alive, setup, kernel, msg_done, reported, dropped>>

an_receive_netlink_info(c) ==
  \/ AllocBuffer(c)
  \/ Receive(c)
  \/ ParseLink(c)
  \/ WalkEnd(c)
  \/ WalkStale(c)
  \/ ParseStale(c)
  \/ EndWalk(c)

Main ==
  \/ InitTimer
  \/ CreateThread
  \/ PublishThread
  \/ OpenSocket
  \/ SendRequest
  \/ an_receive_netlink_info("main")
  \/ Register
  \/ JoinThread

-------------------------------------------------------------------------------
(* The event thread. *)

(* The persistent timer expires; its callback prints the id of the thread. *)
TimerCbk ==
  /\ At("thread", "loop")
  /\ IF an_evnt_handler_thread THEN UNCHANGED vars ELSE Killed

(* Mutant: without EV_PERSIST the event is gone once it has fired. *)
FiresOnce == FALSE

EV_PERSIST == TRUE

(* The loop calls back while the socket is readable: epoll is level-triggered. *)
an_handle_intf_events ==
  /\ At("thread", "loop")
  /\ registered
  /\ sockq # << >> \/ overrun
  /\ Goto("thread", "alloc")
  /\ registered' = EV_PERSIST
  /\ UNCHANGED <<alive, an_evnt_handler_thread, netlink_sock, nonblocking, kernel, receive>>

SocketEvents == an_handle_intf_events \/ an_receive_netlink_info("thread")

-------------------------------------------------------------------------------
(* The kernel. *)

Queue(n, end) ==
  /\ Len(sockq) < RCVBUF
  /\ sockq' = Append(sockq, [lo |-> sent + 1, n |-> n, end |-> end])
  /\ sent' = sent + n

(* The dump goes on as the socket has room; NLMSG_DONE comes with the last *)
(* links or in a datagram of its own.                                      *)
DumpLinks ==
  /\ alive
  /\ dump = "running"
  /\ \E n \in 0..left :
       /\ left' = left - n
       /\ \/ n > 0 /\ Queue(n, "none") /\ UNCHANGED dump
          \/ n = left /\ Queue(n, "DONE") /\ dump' = "done"
  /\ UNCHANGED <<pc, alive, setup, overrun, changes, receive>>

(* The request is answered with NLMSG_ERROR: no NLMSG_DONE will come. *)
RefuseDump ==
  /\ alive
  /\ "dump" \in Faults
  /\ dump = "running"
  /\ left = LINKS
  /\ Queue(0, "error")
  /\ dump' = "error"
  /\ UNCHANGED <<pc, alive, setup, left, overrun, changes, receive>>

(* A link changes or goes: a notification to the group the socket is bound to. *)
NotifyLink ==
  /\ alive
  /\ netlink_sock = "bound"
  /\ changes < CHANGES
  /\ changes' = changes + 1
  /\ \/ Queue(1, "none") /\ UNCHANGED overrun
     \/ Queue(0, "other") /\ UNCHANGED overrun
     \/ "truncation" \in Faults /\ Queue(1, "truncated") /\ UNCHANGED overrun
     \/ Len(sockq) >= RCVBUF /\ overrun' = TRUE /\ UNCHANGED <<sockq, sent>>
  /\ UNCHANGED <<pc, alive, setup, dump, left, receive>>

-------------------------------------------------------------------------------
Dead == ~alive /\ UNCHANGED vars

Next ==
  \/ Main
  \/ TimerCbk
  \/ SocketEvents
  \/ DumpLinks
  \/ RefuseDump
  \/ NotifyLink
  \/ Dead

Spec == Init /\ [][Next]_vars

(* Both threads run when they can, the event loop serves a readable socket *)
(* whatever its timer does, and the kernel goes on with the dump.          *)
FairSpec ==
  Spec /\ WF_vars(Main) /\ WF_vars(SocketEvents) /\ WF_vars(DumpLinks \/ RefuseDump)

-------------------------------------------------------------------------------
(* Properties. *)

Ends == {"none", "DONE", "error", "other", "truncated"}

Datagram == [lo : Nat \ {0}, n : Nat, end : Ends]

MainLabels   == {"init", "create", "malloc", "open", "send", "add", "join"}
ThreadLabels == {"unborn", "loop"}
ReceiveLabels == {"alloc", "recv", "walk"}

(* Both contexts are at labels of their code. *)
ControlOK ==
  /\ pc \in [Contexts -> MainLabels \cup ThreadLabels \cup ReceiveLabels]
  /\ pc["main"] \in MainLabels \cup ReceiveLabels
  /\ pc["thread"] \in ThreadLabels \cup ReceiveLabels

SetupOK ==
  /\ alive \in BOOLEAN
  /\ an_evnt_handler_thread \in BOOLEAN
  /\ netlink_sock \in {"NULL", "unbound", "bound"}
  /\ nonblocking \in BOOLEAN
  /\ registered \in BOOLEAN
  /\ dump \in {"none", "running", "done", "error"}
  /\ left \in 0..LINKS
  /\ overrun \in BOOLEAN
  /\ changes \in 0..CHANGES
  /\ msg_done \in [Contexts -> BOOLEAN]

DataOK ==
  /\ sockq \in Seq(Datagram)
  /\ Len(sockq) <= RCVBUF
  /\ data \in [Contexts -> Datagram \cup {Stale}]
  /\ sent \in Nat
  /\ reported \in Seq(Nat)
  /\ dropped \subseteq Nat \ {0}

(* The variables have their types; the socket never holds more than RCVBUF. *)
TypeOK == ControlOK /\ SetupOK /\ DataOK

(* The link messages in the buffers of the two threads. *)
InBuffers == data["main"].n + data["thread"].n

(* The link messages that were reported or truncated: the rest of those    *)
(* sent is in a buffer or on the socket.                                   *)
Passed == (IF sockq = << >> THEN sent ELSE sockq[1].lo - 1) - InBuffers

(* Main hands the socket over to the event thread without losing, repeating *)
(* or reordering a link message, whatever stale ones are reported besides:  *)
(* those passed are all reported but for the truncated ones, in the order   *)
(* the kernel queued them; those not passed yet follow on, first the rest   *)
(* of the one datagram being walked, then the socket.                       *)
Conserved ==
  /\ {reported[k] : k \in 1..Len(reported)} \ {0} = (1..Passed) \ dropped
  /\ dropped \subseteq 1..Passed
  /\ \A j, k \in 1..Len(reported) :
       j < k /\ reported[j] # 0 /\ reported[k] # 0 => reported[j] < reported[k]
  /\ \A c \in Contexts :
       data[c].n > 0 => data[c].lo = Passed + 1 /\ data[c].n = InBuffers
  /\ \A k \in 2..Len(sockq) : sockq[k].lo = sockq[k - 1].lo + sockq[k - 1].n
  /\ sockq # << >> => sent = sockq[Len(sockq)].lo + sockq[Len(sockq)].n - 1

(* Main never asks for another datagram after it took the one that ends    *)
(* the dump: whatever the stale bytes behind NLMSG_DONE look like, it does *)
(* not wait for a reply that will not come.                                *)
DoneIsFinal ==
  dump = "done" /\ pc["main"] = "recv"
    => \E k \in 1..Len(sockq) : sockq[k].end = "DONE"

(* The callback that asks for a buffer again and again gets one in the end.*)
MemoryReturns == SF_vars(AllocBuffer("thread") /\ pc'["thread"] = "recv")

(* Every link message that was queued is reported: by main, or by the      *)
(* event thread when main stopped early, unless recvmsg truncates it, the  *)
(* process dies, the request never got out, or the thread's malloc fails   *)
(* for ever.                                                               *)
AllReported ==
  MemoryReturns =>
    \A k \in 1..(LINKS + CHANGES) :
      sent >= k ~> \/ \E j \in 1..Len(reported) : reported[j] = k
                   \/ k \in dropped
                   \/ ~alive
                   \/ pc["main"] = "join" /\ dump = "none"

(* A dump that the kernel completed, read by a main that lives, ends with  *)
(* the registration of the socket.                                         *)
DumpRegisters == dump = "done" ~> registered \/ ~alive
===============================================================================

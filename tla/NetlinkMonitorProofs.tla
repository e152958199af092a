------------------------- MODULE NetlinkMonitorProofs -------------------------
(***************************************************************************)
(* Theorems about NetlinkMonitor, for every number of links and changes,   *)
(* every size of the socket's queue and every set of calls that may fail.  *)
(***************************************************************************)
EXTENDS NetlinkMonitor, SequenceTheorems, TLAPS

(* One thread at a time receives: the socket is an event of the loop only  *)
(* once main is done with it, and only a walk has a datagram in its hand.  *)
Roles ==
  /\ registered => pc["main"] = "join"
  /\ pc["thread"] \in ReceiveLabels => pc["main"] = "join"
  /\ \A c \in Contexts : pc[c] # "walk" => data[c] = Nothing

(* While main is to receive, NLMSG_DONE of a complete dump is still ahead. *)
DoneAhead ==
  dump = "done" /\ pc["main"] \in ReceiveLabels
    => \/ \E k \in 1..Len(sockq) : sockq[k].end = "DONE"
       \/ pc["main"] = "walk" /\ (data["main"].end = "DONE" \/ msg_done["main"])

IInv ==
  /\ TypeOK
  /\ Roles
  /\ Conserved
  /\ DoneAhead

-------------------------------------------------------------------------------
(* The initial states satisfy the inductive invariant. *)
LEMMA InitIInv == Init => IInv
<1> SUFFICES ASSUME Init PROVE IInv
  OBVIOUS
<1> USE DEF Init, Contexts, Nothing
<1>1. TypeOK
  <2>1. ControlOK
    BY DEF ControlOK, MainLabels, ThreadLabels, ReceiveLabels
  <2>2. SetupOK
    <3>1. left \in 0..LINKS /\ changes \in 0..CHANGES
      BY LinksAssumption, ChangesAssumption
    <3>2. msg_done \in [Contexts -> BOOLEAN]
      OBVIOUS
    <3> QED
      BY <3>1, <3>2 DEF SetupOK
  <2>3. DataOK
    <3>1. Nothing \in Datagram
      BY DEF Datagram, Ends
    <3>2. sockq \in Seq(Datagram) /\ Len(sockq) <= RCVBUF /\ reported \in Seq(Nat) /\ sent \in Nat
      BY RcvbufAssumption
    <3> QED
      BY <3>1, <3>2 DEF DataOK
  <2> QED
    BY <2>1, <2>2, <2>3 DEF TypeOK
<1>2. Roles
  BY DEF Roles, ReceiveLabels
<1>3. Conserved
  <2>1. Passed = 0 /\ Len(reported) = 0 /\ Len(sockq) = 0
    BY DEF Passed, InBuffers
  <2> QED
    BY <2>1 DEF Conserved
<1>4. DoneAhead
  BY DEF DoneAhead
<1> QED
  BY <1>1, <1>2, <1>3, <1>4 DEF IInv

-------------------------------------------------------------------------------
(* A jump within its own code keeps a context in it. *)
LEMMA GotoControlOK ==
  ASSUME ControlOK, NEW c \in Contexts, NEW l, Goto(c, l),
         c = "main" => l \in MainLabels \cup ReceiveLabels,
         c = "thread" => l \in ThreadLabels \cup ReceiveLabels
  PROVE  ControlOK'
BY DEF ControlOK, Goto, Contexts

(* Every step keeps both contexts in their code. *)
LEMMA StepControlOK == ControlOK /\ [Next]_vars => ControlOK'
<1> SUFFICES ASSUME ControlOK, [Next]_vars PROVE ControlOK'
  OBVIOUS
<1>1. "main" \in Contexts /\ "thread" \in Contexts
  BY DEF Contexts
<1>2. CASE UNCHANGED pc
  BY <1>2 DEF ControlOK
<1>3. CASE InitTimer \/ PublishThread \/ OpenSocket \/ SendRequest \/ Register \/ JoinThread
  <2>1. UNCHANGED pc \/ \E l \in MainLabels \cup ReceiveLabels : Goto("main", l)
    BY <1>3 DEF InitTimer, PublishThread, OpenSocket, SendRequest, Register, JoinThread, Killed,
       MainLabels, ReceiveLabels
  <2> QED
    BY <1>1, <1>2, <2>1, GotoControlOK
<1>4. CASE CreateThread
  <2>1. CASE Goto("main", "open")
    BY <1>1, <2>1, GotoControlOK DEF MainLabels
  <2>2. CASE pc' = [main |-> "malloc", thread |-> "loop"]
    BY <2>2 DEF ControlOK, Contexts, MainLabels, ThreadLabels
  <2> QED
    BY <1>4, <2>1, <2>2 DEF CreateThread
<1>5. ASSUME NEW c \in Contexts, an_receive_netlink_info(c) PROVE ControlOK'
  <2>1. UNCHANGED pc \/ Leave(c) \/ \E l \in ReceiveLabels : Goto(c, l)
    BY <1>5 DEF an_receive_netlink_info, AllocBuffer, Receive, ParseLink, WalkEnd,
       WalkStale, ParseStale, EndWalk, Killed, ReceiveLabels
  <2>2. CASE Leave(c)
    BY <1>5, <2>2, GotoControlOK DEF Leave, Contexts, MainLabels, ThreadLabels
  <2> QED
    BY <1>2, <2>1, <2>2, GotoControlOK
<1>6. CASE an_handle_intf_events
  BY <1>1, <1>6, GotoControlOK DEF an_handle_intf_events, ReceiveLabels
<1>7. CASE TimerCbk \/ DumpLinks \/ RefuseDump \/ NotifyLink \/ UNCHANGED vars
  BY <1>2, <1>7 DEF TimerCbk, DumpLinks, RefuseDump, NotifyLink, Killed, vars
<1> QED
  BY <1>1, <1>3, <1>4, <1>5, <1>6, <1>7 DEF Next, Main, SocketEvents, Dead, Contexts

(* Every step keeps the types of the flags and counters. *)
LEMMA StepSetupOK == SetupOK /\ [Next]_vars => SetupOK'
<1> SUFFICES ASSUME SetupOK, [Next]_vars PROVE SetupOK'
  OBVIOUS
<1> USE DEF SetupOK
<1>1. CASE InitTimer \/ CreateThread \/ PublishThread \/ JoinThread
  <2>1. CASE InitTimer \/ CreateThread
    BY <2>1 DEF InitTimer, CreateThread, Killed, setup, kernel, receive
  <2>2. CASE PublishThread \/ JoinThread
    BY <2>2 DEF PublishThread, JoinThread, Killed, setup, kernel, receive
  <2> QED
    BY <1>1, <2>1, <2>2
<1>2. CASE OpenSocket \/ SendRequest \/ Register
  <2>1. CASE OpenSocket
    BY <2>1 DEF OpenSocket, Killed, setup, kernel, receive
  <2>2. CASE SendRequest
    BY <2>2 DEF SendRequest, Killed, setup, kernel, receive
  <2>3. CASE Register
    BY <2>3 DEF Register, Killed, setup, kernel, receive
  <2> QED
    BY <1>2, <2>1, <2>2, <2>3
<1>3. ASSUME NEW c \in Contexts, an_receive_netlink_info(c) PROVE SetupOK'
  <2>1. CASE AllocBuffer(c)
    BY <2>1 DEF AllocBuffer, setup, kernel
  <2>2. CASE Receive(c)
    BY <2>2 DEF Receive, setup
  <2>3. CASE ParseLink(c)
    BY <2>3 DEF ParseLink, setup, kernel
  <2>4. CASE WalkEnd(c) \/ WalkStale(c)
    <3>1. UNCHANGED <<setup, kernel, alive>> /\ msg_done' \in [Contexts -> BOOLEAN]
      BY <2>4 DEF WalkEnd, WalkStale, AfterHeader
    <3> QED
      BY <3>1 DEF setup, kernel
  <2>5. CASE ParseStale(c) \/ EndWalk(c)
    BY <2>5 DEF ParseStale, EndWalk, Killed, setup, kernel, receive
  <2> QED
    BY <1>3, <2>1, <2>2, <2>3, <2>4, <2>5 DEF an_receive_netlink_info
<1>4. CASE TimerCbk \/ an_handle_intf_events
  BY <1>4 DEF TimerCbk, an_handle_intf_events, EV_PERSIST, Killed, vars, setup, kernel, receive
<1>5. CASE DumpLinks
  <2>1. left' \in 0..LINKS
    BY <1>5, LinksAssumption DEF DumpLinks
  <2> QED
    BY <1>5, <2>1 DEF DumpLinks, setup, receive
<1>6. CASE RefuseDump
  BY <1>6 DEF RefuseDump, setup, receive
<1>7. CASE NotifyLink
  <2>1. changes' \in 0..CHANGES
    BY <1>7, ChangesAssumption DEF NotifyLink
  <2> QED
    BY <1>7, <2>1 DEF NotifyLink, setup, receive
<1>8. CASE UNCHANGED vars
  BY <1>8 DEF vars, setup, kernel, receive
<1> QED
  BY <1>1, <1>2, <1>3, <1>4, <1>5, <1>6, <1>7, <1>8 DEF Next, Main, SocketEvents, Dead, Contexts

(* Every step keeps the types of what is sent, received and reported. *)
LEMMA StepDataOK == SetupOK /\ DataOK /\ [Next]_vars => DataOK'
<1> SUFFICES ASSUME SetupOK, DataOK, [Next]_vars PROVE DataOK'
  OBVIOUS
<1> USE DEF DataOK
<1>1. CASE UNCHANGED <<sockq, data, sent, reported, dropped>>
  BY <1>1
<1>2. ASSUME NEW n \in Nat, NEW end \in Ends, Queue(n, end)
      PROVE  sockq' \in Seq(Datagram) /\ Len(sockq') <= RCVBUF /\ sent' \in Nat
  BY <1>2, RcvbufAssumption DEF Queue, Datagram
<1>3. ASSUME NEW c \in Contexts, an_receive_netlink_info(c) PROVE DataOK'
  <2>1. CASE AllocBuffer(c)
    BY <1>1, <2>1 DEF AllocBuffer, kernel
  <2>2. CASE Receive(c)
    <3>1. sockq # << >> => /\ Head(sockq) \in Datagram
                           /\ Tail(sockq) \in Seq(Datagram)
                           /\ Len(Tail(sockq)) <= RCVBUF
      BY RcvbufAssumption
    <3>2. ASSUME sockq # << >>
          PROVE  (Head(sockq).lo)..(Head(sockq).lo + Head(sockq).n - 1) \subseteq Nat \ {0}
      BY <3>1, <3>2 DEF Datagram
    <3> QED
      BY <2>2, <3>1, <3>2 DEF Receive
  <2>3. CASE ParseLink(c)
    <3>1. data[c] \in Datagram /\ data[c].n > 0
      BY <2>3, <1>3 DEF ParseLink, Stale
    <3>2. Rest(data[c]) \in Datagram /\ data[c].lo \in Nat
      BY <3>1 DEF Rest, Datagram
    <3> QED
      BY <2>3, <3>2 DEF ParseLink, kernel
  <2>4. CASE WalkEnd(c) \/ WalkStale(c) \/ EndWalk(c)
    <3>1. Nothing \in Datagram
      BY DEF Nothing, Datagram, Ends
    <3> QED
      BY <2>4, <3>1 DEF WalkEnd, WalkStale, EndWalk, kernel
  <2>5. CASE ParseStale(c)
    <3>1. /\ UNCHANGED <<sockq, data, sent, dropped>>
          /\ reported' = Append(reported, 0) \/ UNCHANGED reported
      BY <2>5 DEF ParseStale, Killed, kernel, receive
    <3>2. CASE UNCHANGED reported
      BY <3>1, <3>2
    <3>3. CASE reported' = Append(reported, 0)
      <4>1. reported' \in Seq(Nat)
        BY <3>3
      <4> QED
        BY <3>1, <4>1
    <3> QED
      BY <3>1, <3>2, <3>3
  <2> QED
    BY <1>3, <2>1, <2>2, <2>3, <2>4, <2>5 DEF an_receive_netlink_info
<1>4. CASE DumpLinks
  <2>1. PICK n \in 0..left : Queue(n, "none") \/ Queue(n, "DONE")
    BY <1>4 DEF DumpLinks
  <2>2. n \in Nat
    BY DEF SetupOK
  <2> QED
    BY <1>4, <2>1, <2>2, <1>2 DEF DumpLinks, Ends, receive
<1>5. CASE RefuseDump \/ NotifyLink
  BY <1>5, <1>1, <1>2 DEF RefuseDump, NotifyLink, Ends, receive
<1>6. CASE InitTimer \/ CreateThread \/ PublishThread \/ OpenSocket \/ SendRequest \/ Register \/ JoinThread
  BY <1>1, <1>6 DEF InitTimer, CreateThread, PublishThread, OpenSocket, SendRequest, Register,
     JoinThread, Killed, kernel, receive
<1>7. CASE TimerCbk \/ an_handle_intf_events \/ UNCHANGED vars
  BY <1>1, <1>7 DEF TimerCbk, an_handle_intf_events, Killed, vars, kernel, receive
<1> QED
  BY <1>3, <1>4, <1>5, <1>6, <1>7 DEF Next, Main, SocketEvents, Dead, Contexts

(* Every step keeps the receiving to one thread. *)
LEMMA StepRoles == ControlOK /\ DataOK /\ Roles /\ [Next]_vars => Roles'
<1> SUFFICES ASSUME ControlOK, DataOK, Roles, [Next]_vars PROVE Roles'
  OBVIOUS
<1> USE DEF Roles, At, Goto, Contexts, ReceiveLabels
<1>0. /\ pc \in [Contexts -> MainLabels \cup ThreadLabels \cup ReceiveLabels]
      /\ data \in [Contexts -> Datagram \cup {Stale}]
  BY DEF ControlOK, DataOK
<1>1. CASE InitTimer \/ CreateThread \/ PublishThread \/ JoinThread
  BY <1>0, <1>1 DEF InitTimer, CreateThread, PublishThread, JoinThread, Killed, setup, kernel, receive
<1>2. CASE OpenSocket \/ SendRequest \/ Register
  BY <1>0, <1>2 DEF OpenSocket, SendRequest, Register, Killed, setup, kernel, receive
<1>3. ASSUME NEW c \in Contexts, an_receive_netlink_info(c) PROVE Roles'
  <2>1. CASE AllocBuffer(c)
    BY <1>0, <1>3, <2>1 DEF AllocBuffer, Leave, setup, kernel
  <2>2. CASE Receive(c)
    BY <1>0, <1>3, <2>2 DEF Receive, Leave, setup
  <2>3. CASE ParseLink(c)
    BY <1>0, <1>3, <2>3 DEF ParseLink, setup
  <2>4. CASE WalkEnd(c) \/ WalkStale(c)
    BY <1>0, <1>3, <2>4 DEF WalkEnd, WalkStale, setup
  <2>5. CASE ParseStale(c) \/ EndWalk(c)
    BY <1>0, <1>3, <2>5 DEF ParseStale, EndWalk, Leave, Killed, setup, kernel, receive
  <2> QED
    BY <1>3, <2>1, <2>2, <2>3, <2>4, <2>5 DEF an_receive_netlink_info
<1>4. CASE TimerCbk \/ an_handle_intf_events
  BY <1>0, <1>4 DEF TimerCbk, an_handle_intf_events, Killed, vars, setup, kernel, receive
<1>5. CASE DumpLinks \/ RefuseDump \/ NotifyLink
  BY <1>5 DEF DumpLinks, RefuseDump, NotifyLink, setup, receive
<1>6. CASE UNCHANGED vars
  BY <1>6 DEF vars, setup, receive
<1> QED
  BY <1>1, <1>2, <1>3, <1>4, <1>5, <1>6 DEF Next, Main, SocketEvents, Dead, Contexts

-------------------------------------------------------------------------------
(* What Append does to the elements of a sequence. *)
LEMMA Appended ==
  ASSUME NEW S, NEW s \in Seq(S), NEW e
  PROVE  /\ Len(s) \in Nat
         /\ Len(Append(s, e)) = Len(s) + 1
         /\ \A k \in 1..Len(s) : Append(s, e)[k] = s[k]
         /\ Append(s, e)[Len(s) + 1] = e
OBVIOUS

(* Appending adds one element to those of the sequence. *)
LEMMA AppendedRange ==
  ASSUME NEW S, NEW s \in Seq(S), NEW e
  PROVE  LET a == Append(s, e)
         IN  {a[k] : k \in 1..Len(a)} = {s[k] : k \in 1..Len(s)} \cup {e}
<1> DEFINE a == Append(s, e)
<1>1. /\ Len(s) \in Nat /\ Len(a) = Len(s) + 1 /\ a[Len(s) + 1] = e
      /\ \A k \in 1..Len(s) : a[k] = s[k]
  BY Appended
<1> HIDE DEF a
<1>2. 1..Len(a) = (1..Len(s)) \cup {Len(s) + 1}
  BY <1>1
<1>3. {a[k] : k \in 1..Len(a)} = {s[k] : k \in 1..Len(s)} \cup {e}
  BY <1>1, <1>2
<1> QED
  BY <1>3 DEF a

(* What the numbers of the datagrams and of the buffers are. *)
LEMMA Numbers ==
  ASSUME DataOK
  PROVE  /\ Len(reported) \in Nat /\ Len(sockq) \in Nat /\ sent \in Nat /\ InBuffers \in Nat
         /\ \A c \in Contexts : data[c].lo \in Nat \ {0} /\ data[c].n \in Nat
         /\ \A k \in 1..Len(sockq) : sockq[k].lo \in Nat \ {0} /\ sockq[k].n \in Nat
         /\ Passed \in Int
<1>1. Len(reported) \in Nat /\ Len(sockq) \in Nat /\ sent \in Nat
  BY DEF DataOK
<1>2. \A c \in Contexts : data[c].lo \in Nat \ {0} /\ data[c].n \in Nat
  BY DEF DataOK, Datagram, Stale
<1>3. InBuffers \in Nat
  BY <1>2 DEF InBuffers, Contexts
<1>4. \A k \in 1..Len(sockq) : sockq[k].lo \in Nat \ {0} /\ sockq[k].n \in Nat
  <2>1. \A k \in 1..Len(sockq) : sockq[k] \in Datagram
    BY DEF DataOK
  <2> QED
    BY <2>1 DEF Datagram
<1>5. sockq # << >> => 1 \in 1..Len(sockq)
  BY DEF DataOK
<1> QED
  BY <1>1, <1>2, <1>3, <1>4, <1>5 DEF Passed

(* A datagram queued behind the others keeps the chain of numbers. *)
LEMMA QueueConserves ==
  ASSUME DataOK, Conserved, NEW n \in Nat, NEW end, Queue(n, end),
         UNCHANGED <<data, reported, dropped>>
  PROVE  Conserved'
<1> DEFINE d == [lo |-> sent + 1, n |-> n, end |-> end]
<1>1. /\ sockq' = Append(sockq, d) /\ sent' = sent + n
      /\ Len(sockq') = Len(sockq) + 1 /\ Len(sockq) \in Nat /\ sockq' # << >>
      /\ \A k \in 1..Len(sockq) : sockq'[k] = sockq[k]
      /\ sockq'[Len(sockq) + 1] = d
  <2>1. sockq \in Seq(Datagram) /\ sockq' = Append(sockq, d) /\ sent' = sent + n
    BY DEF Queue, DataOK
  <2> HIDE DEF d
  <2>2. /\ Len(sockq) \in Nat
        /\ Len(sockq') = Len(sockq) + 1
        /\ \A k \in 1..Len(sockq) : sockq'[k] = sockq[k]
        /\ sockq'[Len(sockq) + 1] = d
    BY <2>1, Appended
  <2>3. sockq' # << >>
    BY <2>2, EmptySeq
  <2> QED
    BY <2>1, <2>2, <2>3
<1>2. InBuffers' = InBuffers
  BY DEF InBuffers
<1>3. Passed' = Passed
  <2>1. CASE sockq = << >>
    <3>1. sockq'[1] = d
      BY <2>1, <1>1
    <3> QED
      BY <2>1, <3>1, <1>1, <1>2, Numbers DEF Passed
  <2>2. CASE sockq # << >>
    <3>1. 1 \in 1..Len(sockq)
      BY <2>2 DEF DataOK
    <3> QED
      BY <2>2, <3>1, <1>1, <1>2 DEF Passed
  <2> QED
    BY <2>1, <2>2
<1>4. ASSUME NEW k \in 2..Len(sockq')
      PROVE  sockq'[k].lo = sockq'[k - 1].lo + sockq'[k - 1].n
  <2>1. CASE k \in 2..Len(sockq)
    <3>1. k \in 1..Len(sockq) /\ k - 1 \in 1..Len(sockq)
      BY <2>1, <1>1
    <3> QED
      BY <2>1, <3>1, <1>1 DEF Conserved
  <2>2. CASE k = Len(sockq) + 1
    <3>1. Len(sockq) \in 1..Len(sockq) /\ k - 1 = Len(sockq) /\ sockq # << >>
      BY <2>2, <1>1, EmptySeq
    <3>2. sent = sockq[Len(sockq)].lo + sockq[Len(sockq)].n - 1
      BY <3>1 DEF Conserved
    <3>3. sockq'[k].lo = sent + 1 /\ sockq'[k - 1] = sockq[Len(sockq)]
      BY <2>2, <3>1, <1>1
    <3> QED
      BY <3>1, <3>2, <3>3, Numbers
  <2> QED
    BY <1>1, <1>4, <2>1, <2>2
<1>5. sent' = sockq'[Len(sockq')].lo + sockq'[Len(sockq')].n - 1
  BY <1>1, Numbers
<1> QED
  BY <1>1, <1>2, <1>3, <1>4, <1>5 DEF Conserved

(* Taking the first datagram off the socket leaves the chain of the others, *)
(* which goes on behind it.                                                 *)
LEMMA TakeChain ==
  ASSUME DataOK, Conserved, sockq # << >>, sockq' = Tail(sockq), sent' = sent
  PROVE  /\ sockq[1].lo \in Nat \ {0} /\ sockq[1].n \in Nat /\ Head(sockq) = sockq[1]
         /\ (IF sockq' = << >> THEN sent' ELSE sockq'[1].lo - 1) = sockq[1].lo + sockq[1].n - 1
         /\ \A k \in 2..Len(sockq') : sockq'[k].lo = sockq'[k - 1].lo + sockq'[k - 1].n
         /\ sockq' # << >> => sent' = sockq'[Len(sockq')].lo + sockq'[Len(sockq')].n - 1
<1>1. /\ Len(sockq') = Len(sockq) - 1 /\ Len(sockq) \in Nat \ {0}
      /\ \A k \in 1..Len(sockq') : sockq'[k] = sockq[k + 1]
      /\ Head(sockq) = sockq[1] /\ sockq' \in Seq(Datagram)
  BY DEF DataOK
<1>2. sockq[1].lo \in Nat \ {0} /\ sockq[1].n \in Nat
  BY <1>1, Numbers
<1>3. CASE sockq' = << >>
  <2>1. Len(sockq) = 1
    <3>1. Len(sockq') = 0
      BY <1>1, <1>3, EmptySeq
    <3> QED
      BY <3>1, <1>1
  <2>2. sent = sockq[1].lo + sockq[1].n - 1
    BY <2>1 DEF Conserved
  <2>3. Len(sockq') = 0
    BY <1>1, <1>3, EmptySeq
  <2>4. 2..Len(sockq') = {}
    <3>1. 2..0 = {}
      OBVIOUS
    <3> QED
      BY <2>3, <3>1
  <2> QED
    BY <1>1, <1>2, <1>3, <2>2, <2>4
<1>4. CASE sockq' # << >>
  <2>1. Len(sockq') \in 1..Len(sockq') /\ Len(sockq') + 1 = Len(sockq) /\ Len(sockq') \in Nat
    BY <1>4, <1>1
  <2>2. sockq'[Len(sockq')] = sockq[Len(sockq)]
    BY <2>1, <1>1
  <2>3. sockq'[1] = sockq[2] /\ 2 \in 2..Len(sockq)
    BY <2>1, <1>1
  <2>4. sockq[2].lo = sockq[1].lo + sockq[1].n
    BY <2>3 DEF Conserved
  <2>5. ASSUME NEW k \in 2..Len(sockq')
        PROVE  sockq'[k].lo = sockq'[k - 1].lo + sockq'[k - 1].n
    <3>1. /\ k \in 1..Len(sockq') /\ k - 1 \in 1..Len(sockq') /\ (k - 1) + 1 = k
          /\ k + 1 \in 2..Len(sockq) /\ (k + 1) - 1 = k
      BY <2>1
    <3>2. sockq'[k] = sockq[k + 1] /\ sockq'[k - 1] = sockq[k]
      BY <3>1, <1>1
    <3>3. sockq[k + 1].lo = sockq[k].lo + sockq[k].n
      BY <3>1 DEF Conserved
    <3> QED
      BY <3>2, <3>3
  <2>6. sent' = sockq'[Len(sockq')].lo + sockq'[Len(sockq')].n - 1
    BY <2>2 DEF Conserved
  <2>7. sockq'[1].lo - 1 = sockq[1].lo + sockq[1].n - 1
    BY <2>3, <2>4, <1>2
  <2> QED
    BY <1>1, <1>2, <1>4, <2>5, <2>6, <2>7
<1> QED
  BY <1>3, <1>4

(* A datagram taken off the socket becomes the one that is walked. *)
LEMMA TakeConserves ==
  ASSUME DataOK, Conserved, NEW c \in Contexts, sockq # << >>, sockq' = Tail(sockq),
         \A x \in Contexts : data[x] = Nothing,
         data' = [data EXCEPT ![c] = Head(sockq)],
         UNCHANGED <<sent, reported, dropped>>
  PROVE  Conserved'
<1>1. /\ sockq[1].lo \in Nat \ {0} /\ sockq[1].n \in Nat /\ Head(sockq) = sockq[1]
      /\ (IF sockq' = << >> THEN sent' ELSE sockq'[1].lo - 1) = sockq[1].lo + sockq[1].n - 1
      /\ \A k \in 2..Len(sockq') : sockq'[k].lo = sockq'[k - 1].lo + sockq'[k - 1].n
      /\ sockq' # << >> => sent' = sockq'[Len(sockq')].lo + sockq'[Len(sockq')].n - 1
  BY TakeChain
<1>2. /\ data'[c] = sockq[1]
      /\ \A x \in Contexts \ {c} : data'[x] = Nothing
      /\ \A x \in Contexts : data[x].n = 0
  BY <1>1 DEF DataOK, Nothing
<1>3. InBuffers = 0 /\ InBuffers' = sockq[1].n
  BY <1>1, <1>2 DEF InBuffers, Contexts, Nothing
<1>4. Passed = sockq[1].lo - 1 /\ Passed' = sockq[1].lo - 1
  BY <1>1, <1>3 DEF Passed
<1>5. \A x \in Contexts :
        data'[x].n > 0 => data'[x].lo = Passed' + 1 /\ data'[x].n = InBuffers'
  BY <1>1, <1>2, <1>3, <1>4 DEF Nothing
<1> QED
  BY <1>1, <1>4, <1>5 DEF Conserved

(* Dropping what follows leaves the rest of the numbers as it is. *)
LEMMA CutOff ==
  ASSUME NEW p \in Nat, NEW n \in Nat, NEW D, D \subseteq 1..p
  PROVE  /\ (1..(p + n)) \ (D \cup (p + 1)..(p + n)) = (1..p) \ D
         /\ D \cup (p + 1)..(p + n) \subseteq 1..(p + n)
<1>1. 1..(p + n) = (1..p) \cup (p + 1)..(p + n) /\ (1..p) \cap (p + 1)..(p + n) = {}
  OBVIOUS
<1> QED
  BY <1>1

(* A truncated datagram takes its link messages with it. *)
LEMMA DropConserves ==
  ASSUME DataOK, Conserved, sockq # << >>, sockq' = Tail(sockq),
         \A x \in Contexts : data[x] = Nothing,
         dropped' = dropped \cup (Head(sockq).lo)..(Head(sockq).lo + Head(sockq).n - 1),
         UNCHANGED <<data, sent, reported>>
  PROVE  Conserved'
<1>1. /\ sockq[1].lo \in Nat \ {0} /\ sockq[1].n \in Nat /\ Head(sockq) = sockq[1]
      /\ (IF sockq' = << >> THEN sent' ELSE sockq'[1].lo - 1) = sockq[1].lo + sockq[1].n - 1
      /\ \A k \in 2..Len(sockq') : sockq'[k].lo = sockq'[k - 1].lo + sockq'[k - 1].n
      /\ sockq' # << >> => sent' = sockq'[Len(sockq')].lo + sockq'[Len(sockq')].n - 1
  BY TakeChain
<1>2. InBuffers = 0 /\ InBuffers' = 0
  BY DEF InBuffers, Contexts, Nothing
<1>3. PICK p \in Nat, n \in Nat : sockq[1].lo = p + 1 /\ sockq[1].n = n
  <2>1. sockq[1].lo - 1 \in Nat /\ sockq[1].lo = (sockq[1].lo - 1) + 1
    BY <1>1
  <2> QED
    BY <1>1, <2>1
<1>4. Passed = p /\ Passed' = p + n
  <2>1. Passed = (p + 1) - 1 - 0
    BY <1>2, <1>3 DEF Passed
  <2>2. Passed' = (p + 1) + n - 1 - 0
    BY <1>1, <1>2, <1>3 DEF Passed
  <2> QED
    BY <2>1, <2>2
<1>5. dropped' = dropped \cup (p + 1)..(p + n)
  <2>1. (p + 1) + n - 1 = p + n
    OBVIOUS
  <2> QED
    BY <1>1, <1>3, <2>1
<1>6. (1..Passed') \ dropped' = (1..Passed) \ dropped /\ dropped' \subseteq 1..Passed'
  BY <1>4, <1>5, CutOff DEF Conserved
<1>7. \A x \in Contexts : data'[x].n = 0
  BY DEF Nothing
<1> QED
  BY <1>1, <1>6, <1>7 DEF Conserved

(* The first link message of a buffer is the next one to report. *)
LEMMA ParseConserves ==
  ASSUME DataOK, Conserved, NEW c \in Contexts, ParseLink(c)
  PROVE  Conserved'
<1>1. /\ Len(reported) \in Nat /\ Passed \in Int /\ Passed + 1 \in Nat \ {0}
      /\ data[c].n > 0 /\ data[c].lo = Passed + 1 /\ data[c].n = InBuffers
      /\ data[c].lo \in Nat \ {0} /\ data[c].n \in Nat
      /\ sockq' = sockq /\ sent' = sent /\ dropped' = dropped
  BY Numbers DEF ParseLink, Conserved, kernel
<1>2. reported' = Append(reported, Passed + 1) /\ reported \in Seq(Nat)
  BY <1>1 DEF ParseLink, DataOK
<1>3. /\ Len(reported') = Len(reported) + 1
      /\ \A k \in 1..Len(reported) : reported'[k] = reported[k]
      /\ reported'[Len(reported) + 1] = Passed + 1
  BY <1>2, Appended
<1>4. {reported'[k] : k \in 1..Len(reported')} = {reported[k] : k \in 1..Len(reported)} \cup {Passed + 1}
  BY <1>2, AppendedRange
<1>5. /\ data'[c].lo = data[c].lo + 1 /\ data'[c].n = data[c].n - 1
      /\ \A x \in Contexts \ {c} : data'[x] = data[x] /\ data[x].n = 0
  <2>1. data' = [data EXCEPT ![c] = Rest(data[c])] /\ data \in [Contexts -> Datagram \cup {Stale}]
    BY DEF ParseLink, DataOK
  <2>2. data'[c] = Rest(data[c]) /\ \A x \in Contexts \ {c} : data'[x] = data[x]
    BY <2>1
  <2>3. ASSUME NEW x \in Contexts \ {c} PROVE data[x].n = 0
    BY <1>1, Numbers DEF InBuffers, Contexts
  <2> QED
    BY <2>2, <2>3 DEF Rest
<1>6. InBuffers' = InBuffers - 1
  <2>1. CASE c = "main"
    BY <2>1, <1>1, <1>5, Numbers DEF InBuffers, Contexts
  <2>2. CASE c = "thread"
    BY <2>2, <1>1, <1>5, Numbers DEF InBuffers, Contexts
  <2> QED
    BY <2>1, <2>2 DEF Contexts
<1>7. Passed' = Passed + 1
  <2>1. sockq # << >> => 1 \in 1..Len(sockq)
    BY DEF DataOK
  <2> QED
    BY <1>1, <1>6, <2>1, Numbers DEF Passed
<1>8. {reported'[k] : k \in 1..Len(reported')} \ {0} = (1..Passed') \ dropped'
  <2>1. Passed + 1 \notin dropped /\ 1..(Passed + 1) = (1..Passed) \cup {Passed + 1}
    BY <1>1 DEF Conserved
  <2>2. Passed + 1 # 0
    BY <1>1
  <2> QED
    BY <1>1, <1>4, <1>7, <2>1, <2>2 DEF Conserved
<1>9. ASSUME NEW j \in 1..Len(reported'), NEW k \in 1..Len(reported'), j < k,
             reported'[j] # 0, reported'[k] # 0
      PROVE  reported'[j] < reported'[k]
  <2>1. j \in 1..Len(reported) /\ reported'[j] = reported[j]
    BY <1>1, <1>3, <1>9
  <2>2. CASE k \in 1..Len(reported)
    BY <2>1, <2>2, <1>3, <1>9 DEF Conserved
  <2>3. CASE k = Len(reported) + 1
    <3>1. reported[j] \in {reported[i] : i \in 1..Len(reported)} \ {0}
      BY <2>1, <1>9
    <3>2. reported[j] \in 1..Passed
      BY <3>1 DEF Conserved
    <3> QED
      BY <2>1, <2>3, <3>2, <1>1, <1>3
  <2> QED
    BY <2>2, <2>3, <1>1, <1>3, <1>9
<1>10. \A x \in Contexts :
         data'[x].n > 0 => data'[x].lo = Passed' + 1 /\ data'[x].n = InBuffers'
  BY <1>1, <1>5, <1>6, <1>7
<1>11. dropped' \subseteq 1..Passed'
  BY <1>1, <1>7 DEF Conserved
<1> QED
  BY <1>1, <1>8, <1>9, <1>10, <1>11 DEF Conserved

(* A stale link message is reported beside the others. *)
LEMMA StaleConserves ==
  ASSUME DataOK, Conserved, reported' = Append(reported, 0),
         UNCHANGED <<data, dropped, sockq, sent>>
  PROVE  Conserved'
<1>1. /\ Len(reported) \in Nat /\ Len(reported') = Len(reported) + 1
      /\ \A k \in 1..Len(reported) : reported'[k] = reported[k]
      /\ reported'[Len(reported) + 1] = 0
  BY Appended DEF DataOK
<1>2. {reported'[k] : k \in 1..Len(reported')} = {reported[k] : k \in 1..Len(reported)} \cup {0}
  BY AppendedRange DEF DataOK
<1>3. {reported'[k] : k \in 1..Len(reported')} \ {0} = {reported[k] : k \in 1..Len(reported)} \ {0}
  BY <1>2
<1>4. Passed' = Passed /\ InBuffers' = InBuffers
  BY DEF Passed, InBuffers
<1>5. ASSUME NEW j \in 1..Len(reported'), NEW k \in 1..Len(reported'), j < k,
             reported'[j] # 0, reported'[k] # 0
      PROVE  reported'[j] < reported'[k]
  <2>1. j \in 1..Len(reported) /\ k \in 1..Len(reported)
    BY <1>1, <1>5
  <2> QED
    BY <2>1, <1>1, <1>5 DEF Conserved
<1> QED
  BY <1>3, <1>4, <1>5 DEF Conserved

(* Every step conserves the link messages and their order. *)
LEMMA StepConserved == SetupOK /\ DataOK /\ Roles /\ Conserved /\ [Next]_vars => Conserved'
<1> SUFFICES ASSUME SetupOK, DataOK, Roles, Conserved, [Next]_vars PROVE Conserved'
  OBVIOUS
<1>1. CASE UNCHANGED <<data, reported, dropped, sockq, sent>>
  BY <1>1 DEF Conserved, Passed, InBuffers
<1>2. ASSUME NEW c \in Contexts, an_receive_netlink_info(c) PROVE Conserved'
  <2>1. CASE Receive(c)
    <3>1. \A x \in Contexts : data[x] = Nothing
      BY <1>2, <2>1 DEF Receive, At, Roles, ReceiveLabels, Contexts
    <3>2. CASE sockq # << >> /\ sockq' = Tail(sockq)
      <4>1. CASE data' = [data EXCEPT ![c] = Head(sockq)] /\ UNCHANGED dropped
        BY <2>1, <3>1, <3>2, <4>1, TakeConserves DEF Receive
      <4>2. CASE /\ UNCHANGED data
                 /\ dropped' = dropped \cup (Head(sockq).lo)..(Head(sockq).lo + Head(sockq).n - 1)
        BY <2>1, <3>1, <3>2, <4>2, DropConserves DEF Receive
      <4> QED
        BY <1>1, <2>1, <3>2, <4>1, <4>2 DEF Receive
    <3> QED
      BY <1>1, <2>1, <3>2 DEF Receive
  <2>2. CASE ParseLink(c)
    BY <2>2, ParseConserves
  <2>3. CASE WalkEnd(c) \/ WalkStale(c) \/ EndWalk(c)
    <3>1. /\ \A x \in Contexts : data'[x] = data[x] \/ (data'[x].n = 0 /\ data[x].n = 0)
          /\ UNCHANGED <<sockq, sent, reported, dropped>>
      BY <2>3 DEF WalkEnd, WalkStale, EndWalk, DataOK, Nothing, Stale, kernel
    <3>2. InBuffers' = InBuffers
      BY <3>1 DEF InBuffers, Contexts
    <3>3. Passed' = Passed
      BY <3>1, <3>2 DEF Passed
    <3>4. \A x \in Contexts : data'[x].n > 0 => data'[x] = data[x]
      BY <3>1
    <3> QED
      BY <3>1, <3>2, <3>3, <3>4 DEF Conserved
  <2>4. CASE ParseStale(c)
    BY <1>1, <2>4, StaleConserves DEF ParseStale, Killed, kernel, receive
  <2>5. CASE AllocBuffer(c)
    BY <1>1, <2>5 DEF AllocBuffer, kernel
  <2> QED
    BY <1>2, <2>1, <2>2, <2>3, <2>4, <2>5 DEF an_receive_netlink_info
<1>3. CASE DumpLinks
  <2>1. PICK n \in 0..left : Queue(n, "none") \/ Queue(n, "DONE")
    BY <1>3 DEF DumpLinks
  <2>2. n \in Nat
    BY DEF SetupOK
  <2> QED
    BY <1>3, <2>1, <2>2, QueueConserves DEF DumpLinks, receive
<1>4. CASE RefuseDump
  BY <1>4, QueueConserves DEF RefuseDump, receive
<1>5. CASE NotifyLink
  BY <1>1, <1>5, QueueConserves DEF NotifyLink, receive
<1>6. CASE InitTimer \/ CreateThread \/ PublishThread \/ OpenSocket \/ SendRequest \/ Register \/ JoinThread
  BY <1>1, <1>6 DEF InitTimer, CreateThread, PublishThread, OpenSocket, SendRequest, Register,
     JoinThread, Killed, kernel, receive
<1>7. CASE TimerCbk \/ an_handle_intf_events \/ UNCHANGED vars
  BY <1>1, <1>7 DEF TimerCbk, an_handle_intf_events, Killed, vars, kernel, receive
<1> QED
  BY <1>2, <1>3, <1>4, <1>5, <1>6, <1>7 DEF Next, Main, SocketEvents, Dead, Contexts

-------------------------------------------------------------------------------
(* Every step keeps NLMSG_DONE ahead of a main that is to receive. *)
LEMMA StepDoneAhead == TypeOK /\ Roles /\ DoneAhead /\ [Next]_vars => DoneAhead'
<1> SUFFICES ASSUME TypeOK, Roles, DoneAhead, [Next]_vars PROVE DoneAhead'
  OBVIOUS
<1> USE DEF DoneAhead, ReceiveLabels, At, Goto, Contexts
<1>0. pc \in [Contexts -> MainLabels \cup ThreadLabels \cup ReceiveLabels]
      /\ data \in [Contexts -> Datagram \cup {Stale}] /\ msg_done \in [Contexts -> BOOLEAN]
      /\ sockq \in Seq(Datagram)
  BY DEF TypeOK, ControlOK, SetupOK, DataOK
<1>1. CASE an_receive_netlink_info("main")
  <2>1. CASE Receive("main")
    <3>1. CASE sockq # << >> /\ sockq' = Tail(sockq) /\ pc'["main"] = "walk"
      <4>1. data'["main"] = Head(sockq)
        BY <1>0, <2>1, <3>1 DEF Receive, Leave
      <4>2. Head(sockq) = sockq[1] /\ Len(sockq') = Len(sockq) - 1 /\ Len(sockq) \in Nat
            /\ \A k \in 1..Len(sockq') : sockq'[k] = sockq[k + 1]
        BY <1>0, <3>1
      <4>3. ASSUME NEW k \in 1..Len(sockq), k # 1 PROVE k - 1 \in 1..Len(sockq') /\ sockq'[k - 1] = sockq[k]
        BY <4>2, <4>3
      <4> QED
        BY <2>1, <3>1, <4>1, <4>2, <4>3 DEF Receive
    <3>2. CASE pc'["main"] = "add"
      BY <3>2
    <3> QED
      BY <1>0, <2>1, <3>1, <3>2 DEF Receive, Leave
  <2>2. CASE ParseLink("main")
    BY <1>0, <2>2 DEF ParseLink, Rest, kernel
  <2>3. CASE WalkEnd("main") \/ WalkStale("main")
    <3>1. data["main"].end = "DONE" \/ msg_done["main"] => msg_done'["main"]
      <4>1. CASE WalkEnd("main")
        BY <1>0, <2>3, <4>1 DEF WalkEnd, AfterHeader
      <4>2. CASE WalkStale("main")
        BY <1>0, <2>3, <4>2 DEF WalkStale, AfterHeader, Stale
      <4> QED
        BY <2>3, <4>1, <4>2
    <3> QED
      BY <1>0, <2>3, <3>1 DEF WalkEnd, WalkStale, kernel
  <2>4. CASE ParseStale("main")
    BY <2>4 DEF ParseStale, Killed, kernel, receive
  <2>5. CASE EndWalk("main")
    <3>1. data["main"].end # "DONE"
      BY <2>5 DEF EndWalk, Stale
    <3> QED
      BY <1>0, <2>5, <3>1 DEF EndWalk, Leave, kernel
  <2>6. CASE AllocBuffer("main")
    BY <1>0, <2>6 DEF AllocBuffer, Leave, kernel
  <2> QED
    BY <1>1, <2>1, <2>2, <2>3, <2>4, <2>5, <2>6 DEF an_receive_netlink_info
<1>2. CASE SocketEvents
  <2>1. pc["main"] = "join" /\ pc'["main"] = "join"
    BY <1>0, <1>2 DEF SocketEvents, an_handle_intf_events, an_receive_netlink_info, AllocBuffer,
       Receive, ParseLink, WalkEnd, WalkStale, ParseStale, EndWalk, Killed, Leave, Roles
  <2> QED
    BY <2>1
<1>3. ASSUME NEW n \in Nat, NEW end, Queue(n, end)
      PROVE  /\ (\E k \in 1..Len(sockq) : sockq[k].end = "DONE") => (\E k \in 1..Len(sockq') : sockq'[k].end = "DONE")
             /\ end = "DONE" => \E k \in 1..Len(sockq') : sockq'[k].end = "DONE"
  <2>1. /\ Len(sockq') = Len(sockq) + 1 /\ Len(sockq) \in Nat
        /\ \A k \in 1..Len(sockq) : sockq'[k] = sockq[k]
        /\ sockq'[Len(sockq) + 1].end = end
    BY <1>0, <1>3 DEF Queue
  <2> QED
    BY <2>1
<1>4. CASE DumpLinks
  <2>1. PICK n \in 0..left : \/ Queue(n, "none") /\ UNCHANGED dump
                             \/ Queue(n, "DONE") /\ dump' = "done"
    BY <1>4 DEF DumpLinks
  <2>2. n \in Nat /\ UNCHANGED <<pc, data, msg_done>>
    BY <1>4 DEF TypeOK, SetupOK, DumpLinks, receive
  <2> QED
    BY <2>1, <2>2, <1>3
<1>5. CASE RefuseDump
  BY <1>5 DEF RefuseDump
<1>6. CASE NotifyLink
  BY <1>6, <1>3 DEF NotifyLink, receive
<1>7. CASE InitTimer \/ CreateThread \/ PublishThread \/ OpenSocket \/ SendRequest \/ Register \/ JoinThread
  BY <1>0, <1>7 DEF InitTimer, CreateThread, PublishThread, OpenSocket, SendRequest, Register,
     JoinThread, Killed, kernel, receive
<1>8. CASE TimerCbk \/ UNCHANGED vars
  BY <1>8 DEF TimerCbk, Killed, vars, kernel, receive
<1> QED
  BY <1>1, <1>2, <1>4, <1>5, <1>6, <1>7, <1>8 DEF Next, Main, Dead

-------------------------------------------------------------------------------
(* The inductive invariant holds in every reachable state. *)
THEOREM Invariance == Spec => []IInv
<1>1. IInv /\ [Next]_vars => IInv'
  BY StepControlOK, StepSetupOK, StepDataOK, StepRoles, StepConserved, StepDoneAhead
  DEF IInv, TypeOK
<1> QED
  BY InitIInv, <1>1, PTL DEF Spec

(* The variables have their types; the socket holds RCVBUF datagrams.      *)
THEOREM Typing == Spec => []TypeOK
BY Invariance, PTL DEF IInv

(* Main and the event thread report every link message that recvmsg did not *)
(* truncate once and in order, whatever stale ones they report besides.    *)
THEOREM LinksConserved == Spec => []Conserved
BY Invariance, PTL DEF IInv

(* Main does not wait for a datagram behind the end of the dump.           *)
THEOREM DumpEnds == Spec => []DoneIsFinal
<1>1. IInv => DoneIsFinal
  BY DEF IInv, DoneAhead, DoneIsFinal, ReceiveLabels
<1> QED
  BY Invariance, <1>1, PTL
===============================================================================

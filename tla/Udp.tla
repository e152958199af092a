-------------------------------- MODULE Udp --------------------------------
(***************************************************************************)
(* The datagram programs of socket/ and bpf/ on one link: a client that    *)
(* sends one datagram, one that multicasts, a recvfrom and a recvmsg       *)
(* server, and two programs that listen to all frames of the link behind a *)
(* packet filter.  The link loses, repeats and reorders frames, and other  *)
(* nodes send what they like.                                              *)
(***************************************************************************)
EXTENDS Integers, Sequences, FiniteSets

CONSTANTS
  Deployments, (* sets of programs that run together                   *)
  HELLO,    (* the bytes of "Hello World"                              *)
  Strange,  (* frames other nodes send                                 *)
  MAXBUF,   (* size of the servers' buffers                            *)
  Garbage,  (* what such a buffer may hold before anything is received *)
  Behind,   (* what may lie behind it in memory, up to the next NUL    *)
  FRAMES,   (* bound on the different frames sent                      *)
  COPIES,   (* bound on what one receiver is given                     *)
  Faults    (* "bind", "getaddrinfo", "sendto", "recv" may fail        *)

(* What the programs look at in a frame. *)
AnyFrame ==
  [ether : Nat, next : Nat, sport : Nat, dport : Nat, dst : {"host", "group"}, text : Seq(Nat)]

ASSUME FramesAssumption == HELLO \in Seq(Nat) /\ Strange \subseteq AnyFrame

ASSUME MemoryAssumption ==
  Garbage \subseteq [1..MAXBUF -> Nat] /\ Behind \subseteq Seq(Nat) /\ Behind # {}

(* No datagram fills a buffer: 65536 is more than UDP carries. *)
ASSUME BufferAssumption ==
  /\ MAXBUF \in Nat
  /\ Len(HELLO) < MAXBUF
  /\ \A f \in Strange : Len(f.text) < MAXBUF

Clients   == {"udp_client", "udp_multicast_client"}
Servers   == {"udp_recv_from_server", "udp_recv_msg_server"}
Listeners == {"bpf_filter_test", "udp_raw_server"}
Receivers == Servers \cup Listeners

VARIABLES
  pc,       (* where each program is                                   *)
  link,     (* frames sent: each may arrive never, once or repeatedly  *)
  sockq,    (* what waits in the socket of each receiver               *)
  buffer,   (* what each server's buffer holds                         *)
  shown,    (* what each receiver printed                              *)
  given,    (* history: what reached the socket of each receiver       *)
  taken,    (* history: what each server took from its socket          *)
  early     (* history: how much of it before a listener's filter      *)

vars == <<pc, link, sockq, buffer, shown, given, taken, early>>

IP4 == 2048
IP6 == 34525
UDP == 17
PORT == 4936

(* The fields the programs look at.  What a frame that is not IPv6 has at   *)
(* the offsets of the others no program reads: the filter stops before.    *)
Frame(dst, text) ==
  [ether |-> IP6, next |-> UDP, sport |-> PORT, dport |-> PORT, dst |-> dst, text |-> text]

-----------------------------------------------------------------------------
(* The packet filter. *)

LDH(k) == [op |-> "ldh", k |-> k, jf |-> 0]
LDB(k) == [op |-> "ldb", k |-> k, jf |-> 0]
JEQ(k, jf) == [op |-> "jeq", k |-> k, jf |-> jf]
RET(k) == [op |-> "ret", k |-> k, jf |-> 0]

(* Mutant: a source port that differs is let through. *)
CodeShort ==
  <<LDH(12), JEQ(IP6, 7), LDB(20), JEQ(UDP, 5), LDH(54), JEQ(PORT, 0), LDH(56), JEQ(PORT, 1),
    RET(65535), RET(0)>>

(* The instructions, the same in both programs; jt is zero in each. *)
code ==
  <<LDH(12), JEQ(IP6, 7), LDB(20), JEQ(UDP, 5), LDH(54), JEQ(PORT, 3), LDH(56), JEQ(PORT, 1),
    RET(65535), RET(0)>>

(* How many of them the program attaches. *)
len(p) == IF p = "udp_raw_server" THEN 4 ELSE 10

(* SO_ATTACH_FILTER refuses a program with a jump behind its end, or that  *)
(* does not end with a return.                                             *)
Accepted(n) ==
  /\ \A i \in 1..n : code[i].op = "jeq" => i + code[i].jf + 1 <= n
  /\ code[n].op = "ret"

(* The halfword or byte at an offset of a frame: link header of 14 bytes,  *)
(* then 40 of IPv6.                                                        *)
At(f, k) == CASE k = 12 -> f.ether [] k = 20 -> f.next [] k = 54 -> f.sport [] k = 56 -> f.dport

(* What the machine returns from instruction i on, acc in the accumulator. *)
Verdict(f) ==
  LET Values == {0, f.ether, f.next, f.sport, f.dport}
      run[i \in 1..Len(code)] ==
        [acc \in Values |->
          CASE code[i].op = "ret" -> code[i].k
            [] code[i].op = "jeq" -> run[i + 1 + (IF acc = code[i].k THEN 0 ELSE code[i].jf)][acc]
            [] OTHER -> run[i + 1][At(f, code[i].k)]]
  IN run[1][0]

-----------------------------------------------------------------------------
Goto(p, l) == pc' = [pc EXCEPT ![p] = l]

(* A stack buffer holds anything at first. *)
Init ==
  /\ \E on \in Deployments :
       pc = [p \in Clients \cup Receivers |-> IF p \in on THEN "start" ELSE "off"]
  /\ link = {}
  /\ sockq = [r \in Receivers |-> << >>]
  /\ \E bytes \in Garbage : buffer = [s \in Servers |-> bytes]
  /\ shown = [r \in Receivers |-> << >>]
  /\ given = [r \in Receivers |-> << >>]
  /\ taken = [s \in Servers |-> << >>]
  /\ early = [p \in Listeners |-> 0]

(* A socket that failed fails the bind, and every program binds PORT. *)
BindClient(c) ==
  /\ c \in Clients
  /\ pc[c] = "start"
  /\ \/ Goto(c, "resolve")
     \/ "bind" \in Faults /\ Goto(c, "exited")
  /\ UNCHANGED <<link, sockq, buffer, shown, given, taken, early>>

(* Before it binds a server clears as many bytes of an address as a length *)
(* says that is not initialised.                                           *)
BindServer(s) ==
  /\ s \in Servers
  /\ pc[s] = "start"
  /\ \/ Goto(s, "receive")
     \/ "bind" \in Faults /\ Goto(s, "exited")
     \/ Goto(s, "killed")
  /\ UNCHANGED <<link, sockq, buffer, shown, given, taken, early>>

(* A resolution that failed is printed, and psinfo then points anywhere.   *)
Resolve(c) ==
  /\ c \in Clients
  /\ pc[c] = "resolve"
  /\ \/ Goto(c, "send")
     \/ "getaddrinfo" \in Faults /\ Goto(c, "killed")
  /\ UNCHANGED <<link, sockq, buffer, shown, given, taken, early>>

Put(f) ==
  /\ Cardinality(link) < FRAMES \/ f \in link
  /\ link' = link \cup {f}

(* One datagram, or one every two seconds for ever; a failure is printed.  *)
Send(c) ==
  /\ c \in Clients
  /\ pc[c] = "send"
  /\ \/ Put(Frame(IF c = "udp_client" THEN "host" ELSE "group", HELLO))
     \/ "sendto" \in Faults /\ UNCHANGED link
  /\ Goto(c, IF c = "udp_client" THEN "exited" ELSE "send")
  /\ UNCHANGED <<sockq, buffer, shown, given, taken, early>>

SendStrange ==
  /\ \E f \in Strange : Put(f)
  /\ UNCHANGED <<pc, sockq, buffer, shown, given, taken, early>>

(* A packet socket is given every frame from its creation on. *)
Open(p) ==
  /\ p \in Listeners
  /\ pc[p] = "start"
  /\ \/ Goto(p, "open")
     \/ "bind" \in Faults /\ Goto(p, "exited")
  /\ UNCHANGED <<link, sockq, buffer, shown, given, taken, early>>

(* Of the listeners one attaches all its filter and one, behind an         *)
(* unchecked getaddrinfo, the first four instructions: the kernel refuses  *)
(* what it cannot run.  What is queued already stays.                      *)
Attach(p) ==
  /\ p \in Listeners
  /\ pc[p] = "open"
  /\ \/ Accepted(len(p)) /\ Goto(p, "receive")
     \/ (~Accepted(len(p)) \/ "bind" \in Faults) /\ Goto(p, "exited")
     \/ p = "udp_raw_server" /\ "getaddrinfo" \in Faults /\ Goto(p, "killed")
  /\ early' = [early EXCEPT ![p] = Len(given[p])]
  /\ UNCHANGED <<link, sockq, buffer, shown, given, taken>>

(* A datagram for the port reaches the servers, over IPv6 or, as they bind *)
(* the wildcard address and do not ask for IPv6 alone, over IPv4; they     *)
(* join no group.  A listener is offered every frame and its filter, once  *)
(* attached, picks.                                                        *)
Takes(r, f) ==
  IF r \in Listeners THEN pc[r] = "open" \/ Verdict(f) > 0
  ELSE f.ether \in {IP4, IP6} /\ f.next = UDP /\ f.dport = PORT /\ f.dst = "host"

Ready(r) == pc[r] \in {"open", "receive"} /\ Len(given[r]) < COPIES

(* A frame arrives at some of the receivers, later than frames sent after  *)
(* it, and again, as the link pleases.                                     *)
Arrive ==
  /\ \E f \in link : \E R \in SUBSET {r \in Receivers : Ready(r)} :
       /\ given' = [r \in Receivers |-> IF r \in R THEN Append(given[r], f) ELSE given[r]]
       /\ sockq' = [r \in Receivers |-> IF r \in R /\ Takes(r, f) THEN Append(sockq[r], f)
                                                                   ELSE sockq[r]]
  /\ UNCHANGED <<pc, link, buffer, shown, taken, early>>

-----------------------------------------------------------------------------
(* printf("%s"): the bytes up to the first NUL.  The buffer need not hold  *)
(* one; then it goes on with what lies behind.                             *)
String(buf, behind) ==
  LET memory == buf \o behind \o <<0>>
      end == CHOOSE i \in 1..Len(memory) : memory[i] = 0 /\ \A j \in 1..(i - 1) : memory[j] # 0
  IN SubSeq(memory, 1, end - 1)

(* Mutant: the text is ended in the buffer, over its last byte. *)
EndedEarly(buf, text) ==
  [i \in 1..MAXBUF |-> IF i < Len(text) THEN text[i] ELSE IF i = Len(text) THEN 0 ELSE buf[i]]

(* The datagram overwrites the start of the buffer and nothing ends it.    *)
Received(buf, text) == [i \in 1..MAXBUF |-> IF i <= Len(text) THEN text[i] ELSE buf[i]]

(* A receive that failed prints the buffer all the same. *)
Serve(s) ==
  /\ s \in Servers
  /\ pc[s] = "receive"
  /\ \/ /\ sockq[s] # << >>
        /\ buffer' = [buffer EXCEPT ![s] = Received(@, Head(sockq[s]).text)]
        /\ sockq' = [sockq EXCEPT ![s] = Tail(@)]
        /\ taken' = [taken EXCEPT ![s] = Append(@, Head(sockq[s]))]
     \/ "recv" \in Faults /\ Len(shown[s]) < COPIES /\ UNCHANGED <<buffer, sockq, taken>>
  /\ \E behind \in Behind : shown' = [shown EXCEPT ![s] = Append(@, String(buffer'[s], behind))]
  /\ UNCHANGED <<pc, link, given, early>>

(* A listener prints as many bytes as it received; the loop that counts    *)
(* down from -1 leaves the buffer behind and is killed.                    *)
Listen(p) ==
  /\ p \in Listeners
  /\ pc[p] = "receive"
  /\ \/ /\ sockq[p] # << >>
        /\ shown' = [shown EXCEPT ![p] = Append(@, Head(sockq[p]))]
        /\ sockq' = [sockq EXCEPT ![p] = Tail(@)]
        /\ UNCHANGED pc
     \/ "recv" \in Faults /\ Goto(p, "killed") /\ UNCHANGED <<shown, sockq>>
  /\ UNCHANGED <<link, buffer, given, taken, early>>

Next ==
  \/ \E c \in Clients : BindClient(c) \/ Resolve(c) \/ Send(c)
  \/ SendStrange
  \/ \E p \in Listeners : Open(p) \/ Attach(p) \/ Listen(p)
  \/ Arrive
  \/ \E s \in Servers : BindServer(s) \/ Serve(s)

Spec == Init /\ [][Next]_vars

-----------------------------------------------------------------------------
(* Properties. *)

(* Small frames only, in all places. *)
SmallFrame == {f \in AnyFrame : Len(f.text) < MAXBUF}

(* The variables have their types. *)
TypeOK ==
  /\ pc \in [Clients \cup Receivers ->
               {"off", "start", "resolve", "send", "open", "receive", "exited", "killed"}]
  /\ link \subseteq SmallFrame
  /\ sockq \in [Receivers -> Seq(SmallFrame)]
  /\ buffer \in [Servers -> [1..MAXBUF -> Nat]]
  /\ shown = [r \in Receivers |-> shown[r]]
  /\ \A p \in Listeners : shown[p] \in Seq(SmallFrame)
  /\ \A s \in Servers : shown[s] \in Seq(Seq(Nat))
  /\ given \in [Receivers -> Seq(SmallFrame)]
  /\ taken \in [Servers -> Seq(SmallFrame)]
  /\ early \in [Listeners -> Nat]

(* s is what g holds at the places K, in the same order. *)
Picks(s, g, K) ==
  \E place \in [1..Len(s) -> 1..Len(g)] :
    /\ \A m, n \in 1..Len(s) : m < n => place[m] < place[n]
    /\ {place[m] : m \in 1..Len(s)} = K
    /\ \A m \in 1..Len(s) : s[m] = g[place[m]]

Wanted(f) == f.ether = IP6 /\ f.next = UDP /\ f.sport = PORT /\ f.dport = PORT

(* "ip6 and udp and src port 4936 and dst port 4936" (bpf_filter_test.c:29)*)
(* of all the frames that reach the socket once the filter is attached:    *)
(* the listener prints these, in order, and no other, behind whatever the  *)
(* socket had been given before.  The listener whose filter is cut to four *)
(* instructions prints nothing: it never gets as far as listening.         *)
FilterExact ==
  /\ LET p == "bpf_filter_test"
         g == given[p]
     IN pc[p] # "open" =>
          Picks(shown[p] \o sockq[p], g, {i \in 1..Len(g) : i <= early[p] \/ Wanted(g[i])})
  /\ shown["udp_raw_server"] = << >>

ForServer(f) == f.ether \in {IP4, IP6} /\ f.next = UDP /\ f.dport = PORT /\ f.dst = "host"

(* A server takes the datagrams for its port, all and in the order they    *)
(* arrived in.  It prints the one it took, up to a NUL, and behind its end *)
(* what is left of earlier ones: at each place the byte of the latest      *)
(* datagram that was long enough, of whatever sender.  What no datagram    *)
(* reached is whatever was there.                                          *)
TailIsOld ==
  \A s \in Servers :
    LET d == taken[s]
        g == given[s]
        line == shown[s][Len(shown[s])]
        last == d[Len(d)].text
        covers(j, i) == Len(d[j].text) >= i
    IN /\ Picks(d \o sockq[s], g, {i \in 1..Len(g) : ForServer(g[i])})
       /\ d # << >> =>
            /\ \A i \in 1..Len(line), j \in 1..Len(d) :
                 covers(j, i) /\ (\A l \in (j + 1)..Len(d) : ~covers(l, i))
                   => line[i] = d[j].text[i]
            /\ \A i \in 1..Len(last) : (\A k \in 1..i : last[k] # 0) => i <= Len(line)
=============================================================================

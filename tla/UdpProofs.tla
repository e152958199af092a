------------------------------ MODULE UdpProofs ------------------------------
(***************************************************************************)
(* Theorems about Udp, for all deployments, frames, faults and bounds.     *)
(***************************************************************************)
EXTENDS Udp, FiniteSetTheorems, SequenceTheorems, WellFoundedInduction, TLAPS

(* Every set of natural numbers that is not empty has a least element.     *)
LEMMA LeastNat ==
  ASSUME NEW T \in SUBSET Nat, T # {}
  PROVE  \E n \in T : \A m \in T : n <= m
<1> DEFINE R == {ss \in Nat \X Nat : ss[1] < ss[2]}
<1>1. IsWellFoundedOn(R, Nat)
  BY NatLessThanWellFounded DEF OpToRel
<1> HIDE DEF R
<1>2. PICK n \in T : \A m \in T : <<m, n>> \notin R
  BY <1>1, WFMin
<1>3. \A m \in T : <<m, n>> \notin R => n <= m
  BY DEF R
<1> QED
  BY <1>2, <1>3

(* The ten instructions. *)
LEMMA Instructions ==
  /\ Len(code) = 10
  /\ \A i \in 1..10 :
       /\ code[i].op \in {"ldh", "ldb", "jeq", "ret"}
       /\ code[i].jf \in Nat
       /\ code[i].op = "jeq" => i + 1 + code[i].jf <= 10
       /\ code[i].op \in {"ldh", "ldb"} => i < 10 /\ code[i].k \in {12, 20, 54, 56}
  /\ code[1].op = "ldh" /\ code[1].k = 12
  /\ code[2].op = "jeq" /\ code[2].k = IP6 /\ code[2].jf = 7
  /\ code[3].op = "ldb" /\ code[3].k = 20
  /\ code[4].op = "jeq" /\ code[4].k = UDP /\ code[4].jf = 5
  /\ code[5].op = "ldh" /\ code[5].k = 54
  /\ code[6].op = "jeq" /\ code[6].k = PORT /\ code[6].jf = 3
  /\ code[7].op = "ldh" /\ code[7].k = 56
  /\ code[8].op = "jeq" /\ code[8].k = PORT /\ code[8].jf = 1
  /\ code[9].op = "ret" /\ code[9].k = 65535
  /\ code[10].op = "ret" /\ code[10].k = 0
<1>1. Len(code) = 10
  BY DEF code
<1>2. /\ code[1] = LDH(12) /\ code[2] = JEQ(IP6, 7) /\ code[3] = LDB(20) /\ code[4] = JEQ(UDP, 5)
      /\ code[5] = LDH(54) /\ code[6] = JEQ(PORT, 3) /\ code[7] = LDH(56)
      /\ code[8] = JEQ(PORT, 1) /\ code[9] = RET(65535) /\ code[10] = RET(0)
  BY DEF code
<1>3. \A i \in 1..10 : i \in {1, 2, 3, 4, 5, 6, 7, 8, 9, 10}
  OBVIOUS
<1> QED
  BY <1>1, <1>2, <1>3 DEF LDH, LDB, JEQ, RET

(* The machine, run on the ten instructions, passes what line 29 says.     *)
LEMMA VerdictExact == ASSUME NEW f \in AnyFrame PROVE Verdict(f) > 0 <=> Wanted(f)
<1> DEFINE Values == {0, f.ether, f.next, f.sport, f.dport}
           Places == 1..Len(code)
           Body(r) ==
             [i \in Places |->
               [acc \in Values |->
                 CASE code[i].op = "ret" -> code[i].k
                   [] code[i].op = "jeq" -> r[i + 1 + (IF acc = code[i].k THEN 0 ELSE code[i].jf)][acc]
                   [] OTHER -> r[i + 1][At(f, code[i].k)]]]
           v8(acc) == IF acc = PORT THEN 65535 ELSE 0
           v6(acc) == IF acc = PORT THEN v8(f.dport) ELSE 0
           v4(acc) == IF acc = UDP THEN v6(f.sport) ELSE 0
           v2(acc) == IF acc = IP6 THEN v4(f.next) ELSE 0
           result(i, acc) ==
             CASE i = 1 -> v2(f.ether) [] i = 2 -> v2(acc) [] i = 3 -> v4(f.next) [] i = 4 -> v4(acc)
               [] i = 5 -> v6(f.sport) [] i = 6 -> v6(acc) [] i = 7 -> v8(f.dport) [] i = 8 -> v8(acc)
               [] i = 9 -> 65535 [] i = 10 -> 0
           table == [i \in Places |-> [acc \in Values |-> result(i, acc)]]
<1>1. /\ f.ether \in Values /\ f.next \in Values /\ f.sport \in Values /\ f.dport \in Values
      /\ 0 \in Values
  OBVIOUS
<1>2. Places = {1, 2, 3, 4, 5, 6, 7, 8, 9, 10}
  BY Instructions
<1>3. /\ At(f, 12) = f.ether /\ At(f, 20) = f.next /\ At(f, 54) = f.sport /\ At(f, 56) = f.dport
  BY DEF At
<1> DEFINE step(r, i, acc) ==
             CASE code[i].op = "ret" -> code[i].k
               [] code[i].op = "jeq" -> r[i + 1 + (IF acc = code[i].k THEN 0 ELSE code[i].jf)][acc]
               [] OTHER -> r[i + 1][At(f, code[i].k)]
<1>4. \E r : r = Body(r)
  <2>1. \A i \in Places, a \in Values : table[i][a] = result(i, a)
    <3> HIDE DEF Places, Values, result
    <3> QED
      OBVIOUS
  <2> HIDE DEF table, Places, Values
  <2>2. ASSUME NEW i \in Places, NEW acc \in Values
        PROVE  result(i, acc) = step(table, i, acc)
    <3>1. i \in {1, 2, 3, 4, 5, 6, 7, 8, 9, 10}
      BY <1>2
    <3>2. CASE i \in {1, 3, 5, 7}
      BY <1>1, <1>2, <1>3, <2>1, <3>2, Instructions
    <3>3. CASE i \in {2, 4, 6, 8}
      BY <1>1, <1>2, <1>3, <2>1, <3>3, Instructions
    <3>4. CASE i \in {9, 10}
      BY <3>4, Instructions
    <3> QED
      BY <3>1, <3>2, <3>3, <3>4
  <2>3. table = Body(table)
    <3>1. table = [i \in Places |-> [acc \in Values |-> step(table, i, acc)]]
      <4> HIDE DEF step, result
      <4> QED
        BY <2>2 DEF table
    <3> QED
      BY <3>1
  <2> HIDE DEF Body
  <2> QED
    BY <2>3
<1> DEFINE run == CHOOSE r : r = Body(r)
<1>5. run = Body(run)
  <2> HIDE DEF Body
  <2> QED
    BY <1>4
<1>6. Verdict(f) = run[1][0]
  BY DEF Verdict
<1> HIDE DEF run
<1>7. \A i \in Places, acc \in Values : run[i][acc] = step(run, i, acc)
  <2> HIDE DEF Places, Values
  <2>1. run = [i \in Places |-> [acc \in Values |-> step(run, i, acc)]]
    BY <1>5
  <2> HIDE DEF step
  <2> QED
    BY <2>1
<1> HIDE DEF Places, Values
<1>8. \A a \in Values : run[10][a] = 0 /\ run[9][a] = 65535
  BY <1>2, <1>7, Instructions
<1>9. \A a \in Values : run[8][a] = v8(a)
  BY <1>2, <1>7, <1>8, Instructions
<1>10. \A a \in Values : run[7][a] = v8(f.dport)
  BY <1>1, <1>2, <1>3, <1>7, <1>9, Instructions
<1>11. \A a \in Values : run[6][a] = v6(a)
  BY <1>2, <1>7, <1>8, <1>10, Instructions
<1>12. \A a \in Values : run[5][a] = v6(f.sport)
  BY <1>1, <1>2, <1>3, <1>7, <1>11, Instructions
<1>13. \A a \in Values : run[4][a] = v4(a)
  BY <1>2, <1>7, <1>8, <1>12, Instructions
<1>14. \A a \in Values : run[3][a] = v4(f.next)
  BY <1>1, <1>2, <1>3, <1>7, <1>13, Instructions
<1>15. \A a \in Values : run[2][a] = v2(a)
  BY <1>2, <1>7, <1>8, <1>14, Instructions
<1>16. run[1][0] = v2(f.ether)
  BY <1>1, <1>2, <1>3, <1>7, <1>15, Instructions
<1> QED
  BY <1>6, <1>16 DEF Wanted

-----------------------------------------------------------------------------
(* What is due to a receiver of all it was given. *)
ListenerDue(p) ==
  {i \in 1..Len(given[p]) : pc[p] = "open" \/ i <= early[p] \/ Wanted(given[p][i])}

ServerDue(s) == {i \in 1..Len(given[s]) : ForServer(given[s][i])}

QueueOK ==
  /\ \A p \in Listeners :
       /\ Picks(shown[p] \o sockq[p], given[p], ListenerDue(p))
       /\ early[p] <= Len(given[p])
       /\ pc[p] \in {"off", "start"} => given[p] = << >>
  /\ \A s \in Servers : Picks(taken[s] \o sockq[s], given[s], ServerDue(s))

(* The short filter is refused. *)
ShortRefused == pc["udp_raw_server"] # "receive" /\ shown["udp_raw_server"] = << >>

(* At each place of the buffer is the byte of the latest datagram that     *)
(* reached so far.                                                         *)
BufferOK ==
  \A s \in Servers : \A i \in 1..MAXBUF, j \in 1..Len(taken[s]) :
    /\ Len(taken[s][j].text) >= i
    /\ \A l \in (j + 1)..Len(taken[s]) : ~(Len(taken[s][l].text) >= i)
    => buffer[s][i] = taken[s][j].text[i]

(* The latest line printed is the buffer as it is, and what lies behind. *)
LineOK ==
  \A s \in Servers :
    /\ shown[s] # << >> =>
         \E behind \in Behind : shown[s][Len(shown[s])] = String(buffer[s], behind)
    /\ taken[s] # << >> => shown[s] # << >>

IInv == TypeOK /\ QueueOK /\ ShortRefused /\ BufferOK /\ LineOK

-----------------------------------------------------------------------------
(* Moving the head of a queue behind what was taken before it changes      *)
(* nothing of the whole; what arrives comes behind it.                     *)
LEMMA MoveHead ==
  ASSUME NEW S, NEW s \in Seq(S), NEW q \in Seq(S), q # << >>
  PROVE  Append(s, Head(q)) \o Tail(q) = s \o q
<1>1. Head(q) \in S /\ Tail(q) \in Seq(S) /\ <<Head(q)>> \in Seq(S)
  BY HeadTailProperties
<1>2. Append(s, Head(q)) = s \o <<Head(q)>>
  BY <1>1, AppendIsConcat
<1>3. <<Head(q)>> \o Tail(q) = q
  BY <1>1
<1> QED
  BY <1>1, <1>2, <1>3, ConcatAssociative

LEMMA AppendBehind ==
  ASSUME NEW S, NEW s \in Seq(S), NEW q \in Seq(S), NEW e \in S
  PROVE  s \o Append(q, e) = Append(s \o q, e)
<1>1. <<e>> \in Seq(S) /\ s \o q \in Seq(S)
  OBVIOUS
<1>2. Append(q, e) = q \o <<e>> /\ Append(s \o q, e) = (s \o q) \o <<e>>
  BY <1>1, AppendIsConcat
<1> QED
  BY <1>1, <1>2, ConcatAssociative

(* An element more is picked or left out. *)
LEMMA PicksNone == Picks(<< >>, << >>, {})
<1> DEFINE place == [m \in 1..0 |-> 0]
<1>1. place \in [1..Len(<< >>) -> 1..Len(<< >>)] /\ 1..Len(<< >>) = {}
  OBVIOUS
<1> QED
  BY <1>1 DEF Picks

LEMMA PicksOneMore ==
  ASSUME NEW S, NEW s \in Seq(S), NEW g \in Seq(S), NEW e \in S,
         NEW K \in SUBSET (1..Len(g)), Picks(s, g, K)
  PROVE  Picks(Append(s, e), Append(g, e), K \cup {Len(g) + 1})
<1> DEFINE t == Append(s, e)
           h == Append(g, e)
<1>1. /\ Len(s) \in Nat /\ Len(g) \in Nat
      /\ Len(t) = Len(s) + 1 /\ Len(h) = Len(g) + 1
      /\ t[Len(s) + 1] = e /\ h[Len(g) + 1] = e
      /\ \A m \in 1..Len(s) : t[m] = s[m]
      /\ \A m \in 1..Len(g) : h[m] = g[m]
  BY AppendProperties, LenProperties
<1> HIDE DEF t, h
<1>2. PICK place \in [1..Len(s) -> 1..Len(g)] :
        /\ \A m, n \in 1..Len(s) : m < n => place[m] < place[n]
        /\ {place[m] : m \in 1..Len(s)} = K
        /\ \A m \in 1..Len(s) : s[m] = g[place[m]]
  BY DEF Picks
<1> DEFINE more == [m \in 1..Len(t) |-> IF m = Len(t) THEN Len(h) ELSE place[m]]
<1>3. \A m \in 1..Len(s) : m \in 1..Len(t) /\ m # Len(t) /\ place[m] \in 1..Len(g)
  BY <1>1
<1>4. \A m \in 1..Len(t) : m = Len(t) \/ m \in 1..Len(s)
  BY <1>1
<1>5. more[Len(t)] = Len(h) /\ \A m \in 1..Len(s) : more[m] = place[m]
  BY <1>1, <1>3
<1>6. more \in [1..Len(t) -> 1..Len(h)]
  BY <1>1, <1>3, <1>4
<1> HIDE DEF more
<1>7. \A m, n \in 1..Len(t) : m < n => more[m] < more[n]
  <2> SUFFICES ASSUME NEW m \in 1..Len(t), NEW n \in 1..Len(t), m < n PROVE more[m] < more[n]
    OBVIOUS
  <2>1. m \in 1..Len(s)
    BY <1>1, <1>4
  <2>2. CASE n = Len(t)
    <3>1. place[m] < Len(h)
      BY <1>1, <1>3, <2>1
    <3> QED
      BY <1>5, <2>1, <2>2, <3>1
  <2>3. CASE n \in 1..Len(s)
    BY <1>2, <1>5, <2>1, <2>3
  <2> QED
    BY <1>4, <2>2, <2>3
<1>8. {more[m] : m \in 1..Len(t)} = K \cup {Len(g) + 1}
  <2>1. \A m \in 1..Len(t) : more[m] \in K \cup {Len(g) + 1}
    BY <1>1, <1>2, <1>4, <1>5
  <2>2. \A k \in K : \E m \in 1..Len(t) : more[m] = k
    BY <1>2, <1>3, <1>5
  <2>3. Len(t) \in 1..Len(t) /\ more[Len(t)] = Len(g) + 1
    BY <1>1, <1>5
  <2> QED
    BY <2>1, <2>2, <2>3
<1>9. \A m \in 1..Len(t) : t[m] = h[more[m]]
  <2> SUFFICES ASSUME NEW m \in 1..Len(t) PROVE t[m] = h[more[m]]
    OBVIOUS
  <2>1. CASE m = Len(t)
    BY <1>1, <1>5, <2>1
  <2>2. CASE m \in 1..Len(s)
    BY <1>1, <1>2, <1>3, <1>5, <2>2
  <2> QED
    BY <1>4, <2>1, <2>2
<1> QED
  BY <1>6, <1>7, <1>8, <1>9 DEF Picks, t, h

LEMMA PicksNoMore ==
  ASSUME NEW S, NEW s \in Seq(S), NEW g \in Seq(S), NEW e \in S,
         NEW K \in SUBSET (1..Len(g)), Picks(s, g, K)
  PROVE  Picks(s, Append(g, e), K)
<1> DEFINE h == Append(g, e)
<1>1. /\ Len(s) \in Nat /\ Len(g) \in Nat /\ Len(h) = Len(g) + 1
      /\ \A m \in 1..Len(g) : h[m] = g[m]
  BY AppendProperties, LenProperties
<1> HIDE DEF h
<1>2. PICK place \in [1..Len(s) -> 1..Len(g)] :
        /\ \A m, n \in 1..Len(s) : m < n => place[m] < place[n]
        /\ {place[m] : m \in 1..Len(s)} = K
        /\ \A m \in 1..Len(s) : s[m] = g[place[m]]
  BY DEF Picks
<1>3. place \in [1..Len(s) -> 1..Len(h)]
  BY <1>1
<1>4. \A m \in 1..Len(s) : s[m] = h[place[m]]
  BY <1>1, <1>2
<1> QED
  BY <1>2, <1>3, <1>4 DEF Picks, h

(* The first NUL ends what is printed: it shows the bytes before it.       *)
LEMMA StringOf ==
  ASSUME MAXBUF \in Nat, NEW buf \in [1..MAXBUF -> Nat], NEW behind \in Seq(Nat)
  PROVE  /\ String(buf, behind) \in Seq(Nat)
         /\ \A i \in 1..Len(String(buf, behind)) :
              i <= MAXBUF => String(buf, behind)[i] = buf[i]
         /\ \A i \in 1..MAXBUF :
              Len(String(buf, behind)) < i => \E k \in 1..i : buf[k] = 0
<1> DEFINE memory == buf \o behind \o <<0>>
           end == CHOOSE i \in 1..Len(memory) :
                    memory[i] = 0 /\ \A j \in 1..(i - 1) : memory[j] # 0
<1>1. /\ memory \in Seq(Nat) /\ Len(memory) \in Nat \ {0} /\ memory[Len(memory)] = 0
      /\ MAXBUF < Len(memory) /\ \A i \in 1..MAXBUF : memory[i] = buf[i]
  <2>1. buf \in Seq(Nat) /\ Len(buf) = MAXBUF
    <3>1. buf \in UNION {[1..n -> Nat] : n \in Nat}
      OBVIOUS
    <3>2. Seq(Nat) = UNION {[1..n -> Nat] : n \in Nat}
      BY SeqDef
    <3>3. buf \in Seq(Nat) /\ DOMAIN buf = 1..MAXBUF
      BY <3>1, <3>2
    <3>4. Len(buf) \in Nat /\ DOMAIN buf = 1..Len(buf)
      BY <3>3, LenProperties
    <3>5. (MAXBUF = 0 \/ MAXBUF \in 1..MAXBUF) /\ (Len(buf) = 0 \/ Len(buf) \in 1..Len(buf))
      BY <3>4
    <3>6. (MAXBUF = 0 \/ MAXBUF \in 1..Len(buf)) /\ (Len(buf) = 0 \/ Len(buf) \in 1..MAXBUF)
      BY <3>3, <3>4, <3>5
    <3>7. \A m, n \in Nat :
            (m = 0 \/ m \in 1..n) /\ (n = 0 \/ n \in 1..m) => n = m
      OBVIOUS
    <3> QED
      BY <3>3, <3>4, <3>6, <3>7, Zenon
  <2>2. <<0>> \in Seq(Nat) /\ Len(<<0>>) = 1 /\ <<0>>[1] = 0
    OBVIOUS
  <2>3. /\ buf \o behind \in Seq(Nat) /\ Len(buf \o behind) = MAXBUF + Len(behind)
        /\ \A i \in 1..MAXBUF : (buf \o behind)[i] = buf[i]
    <3>1. /\ buf \o behind \in Seq(Nat) /\ Len(buf \o behind) = Len(buf) + Len(behind)
          /\ \A i \in 1..Len(buf) + Len(behind) :
               (buf \o behind)[i] = IF i <= Len(buf) THEN buf[i] ELSE behind[i - Len(buf)]
      BY <2>1, ConcatProperties
    <3>2. /\ Len(behind) \in Nat
          /\ \A i \in 1..MAXBUF : i \in 1..(MAXBUF + Len(behind)) /\ i <= MAXBUF
      BY LenProperties
    <3> QED
      BY <2>1, <3>1, <3>2, Zenon
  <2>4. Len(behind) \in Nat
    OBVIOUS
  <2>5. /\ memory \in Seq(Nat) /\ Len(memory) = MAXBUF + Len(behind) + 1
        /\ \A i \in 1..(MAXBUF + Len(behind)) : memory[i] = (buf \o behind)[i]
        /\ memory[MAXBUF + Len(behind) + 1] = <<0>>[1]
    BY <2>2, <2>3, <2>4, ConcatProperties
  <2> HIDE DEF memory
  <2>6. \A i \in 1..MAXBUF : i \in 1..(MAXBUF + Len(behind))
    BY <2>4
  <2> QED
    BY <2>2, <2>3, <2>4, <2>5, <2>6
<1> HIDE DEF memory
<1>2. \E i \in 1..Len(memory) : memory[i] = 0 /\ \A j \in 1..(i - 1) : memory[j] # 0
  <2> DEFINE T == {i \in 1..Len(memory) : memory[i] = 0}
  <2>1. T \in SUBSET Nat /\ Len(memory) \in T
    BY <1>1
  <2>2. PICK n \in T : \A m \in T : n <= m
    BY <2>1, LeastNat
  <2>3. n \in Nat /\ n \in 1..Len(memory) /\ memory[n] = 0
    BY <2>1
  <2>4. ASSUME NEW j \in 1..(n - 1) PROVE memory[j] # 0
    <3>1. j \in 1..Len(memory) /\ ~(n <= j)
      BY <1>1, <2>3
    <3> QED
      BY <2>2, <3>1
  <2> QED
    BY <2>3, <2>4
<1>3. /\ end \in 1..Len(memory) /\ memory[end] = 0
      /\ \A j \in 1..(end - 1) : memory[j] # 0
  BY <1>2
<1>4. String(buf, behind) = SubSeq(memory, 1, end - 1)
  BY DEF String, memory
<1> HIDE DEF end
<1>5. end \in Nat /\ end >= 1 /\ end - 1 \in 0..Len(memory)
  BY <1>1, <1>3
<1>6. /\ String(buf, behind) \in Seq(Nat) /\ Len(String(buf, behind)) = end - 1
      /\ \A i \in 1..(end - 1) : String(buf, behind)[i] = memory[i]
  BY <1>1, <1>4, <1>5
<1>7. ASSUME NEW i \in 1..(end - 1), i <= MAXBUF PROVE String(buf, behind)[i] = buf[i]
  <2>1. i \in 1..MAXBUF
    BY <1>5, <1>7
  <2> QED
    BY <1>1, <1>6, <2>1
<1>8. ASSUME NEW i \in 1..MAXBUF, end - 1 < i PROVE \E k \in 1..i : buf[k] = 0
  <2>1. end \in 1..i /\ end \in 1..MAXBUF
    BY <1>5, <1>8
  <2> QED
    BY <1>1, <1>3, <2>1
<1> QED
  BY <1>6, <1>7, <1>8

-----------------------------------------------------------------------------
LEMMA SmallStrange == Strange \subseteq SmallFrame
BY FramesAssumption, BufferAssumption DEF SmallFrame

LEMMA SmallHello ==
  \A dst \in {"host", "group"} : Frame(dst, HELLO) \in SmallFrame
BY FramesAssumption, BufferAssumption DEF SmallFrame, AnyFrame, Frame, IP6, UDP, PORT

LEMMA BufferSize == MAXBUF \in Nat /\ MAXBUF > 0
<1>1. Len(HELLO) \in Nat
  BY FramesAssumption, LenProperties
<1> QED
  BY <1>1, BufferAssumption

(* The initial states satisfy the inductive invariant. *)
LEMMA InitIInv == Init => IInv
<1> SUFFICES ASSUME Init PROVE IInv
  OBVIOUS
<1>1. TypeOK
  <2>1. pc \in [Clients \cup Receivers ->
               {"off", "start", "resolve", "send", "open", "receive", "exited", "killed"}]
    BY DEF Init
  <2>2. buffer \in [Servers -> [1..MAXBUF -> Nat]]
    BY MemoryAssumption DEF Init
  <2> QED
    BY <2>1, <2>2 DEF Init, TypeOK, Listeners, Servers, Receivers
<1>2. QueueOK
  <2>1. \A p \in Listeners : /\ given[p] = << >> /\ shown[p] = << >> /\ sockq[p] = << >>
                            /\ early[p] = 0
    BY DEF Init, Listeners, Receivers
  <2>2. \A s \in Servers : given[s] = << >> /\ taken[s] = << >> /\ sockq[s] = << >>
    BY DEF Init, Servers, Receivers
  <2>3. << >> \o << >> = << >> /\ Len(<< >>) = 0 /\ 1..0 = {}
    OBVIOUS
  <2>4. \A p \in Listeners : ListenerDue(p) = {}
    BY <2>1, <2>3 DEF ListenerDue
  <2>5. \A s \in Servers : ServerDue(s) = {}
    BY <2>2, <2>3 DEF ServerDue
  <2>6. ASSUME NEW p \in Listeners
        PROVE  /\ Picks(shown[p] \o sockq[p], given[p], ListenerDue(p))
               /\ early[p] <= Len(given[p])
               /\ given[p] = << >>
    <3>1. given[p] = << >> /\ shown[p] = << >> /\ sockq[p] = << >> /\ early[p] = 0
      BY <2>1, <2>6
    <3>2. ListenerDue(p) = {} /\ shown[p] \o sockq[p] = << >>
      BY <2>3, <2>4, <2>6, <3>1
    <3>3. Picks(shown[p] \o sockq[p], given[p], ListenerDue(p))
      BY <3>1, <3>2, PicksNone
    <3>4. early[p] <= Len(given[p])
      BY <2>3, <3>1
    <3> QED
      BY <3>1, <3>3, <3>4
  <2>7. ASSUME NEW s \in Servers
        PROVE  Picks(taken[s] \o sockq[s], given[s], ServerDue(s))
    <3>1. taken[s] \o sockq[s] = << >>
      BY <2>2, <2>3
    <3> QED
      BY <2>2, <2>5, <3>1, PicksNone
  <2> QED
    BY <2>6, <2>7 DEF QueueOK
<1>3. ShortRefused
  BY DEF Init, ShortRefused, Clients, Receivers, Listeners
<1>4. BufferOK
  <2>1. \A s \in Servers : taken[s] = << >>
    BY DEF Init
  <2>2. Len(<< >>) = 0 /\ 1..0 = {}
    OBVIOUS
  <2> QED
    BY <2>1, <2>2 DEF BufferOK
<1>5. LineOK
  BY DEF Init, LineOK, Receivers
<1> QED
  BY <1>1, <1>2, <1>3, <1>4, <1>5 DEF IInv

(* What a server and a listener do to their socket, buffer and output.     *)
LEMMA ServeEffect ==
  ASSUME TypeOK, NEW s \in Servers, Serve(s)
  PROVE  /\ UNCHANGED <<pc, link, given, early>>
         /\ buffer' \in [Servers -> [1..MAXBUF -> Nat]]
         /\ sockq' \in [Receivers -> Seq(SmallFrame)] /\ taken' \in [Servers -> Seq(SmallFrame)]
         /\ \E line \in Seq(Nat) :
              /\ \E behind \in Behind : line = String(buffer'[s], behind)
              /\ shown' = [shown EXCEPT ![s] = Append(shown[s], line)]
         /\ \/ UNCHANGED <<buffer, sockq, taken>>
            \/ /\ sockq[s] # << >>
               /\ sockq' = [sockq EXCEPT ![s] = Tail(sockq[s])]
               /\ taken' = [taken EXCEPT ![s] = Append(taken[s], Head(sockq[s]))]
               /\ \A r \in Servers : r # s => buffer'[r] = buffer[r]
               /\ \A i \in 1..MAXBUF :
                    buffer'[s][i] = IF i <= Len(Head(sockq[s]).text) THEN Head(sockq[s]).text[i]
                                                                     ELSE buffer[s][i]
<1> DEFINE text == Head(sockq[s]).text
<1>1. /\ s \in Receivers /\ sockq[s] \in Seq(SmallFrame)
      /\ buffer[s] \in [1..MAXBUF -> Nat] /\ taken[s] \in Seq(SmallFrame)
  BY DEF TypeOK, Receivers
<1>2. /\ buffer' \in [Servers -> [1..MAXBUF -> Nat]]
      /\ sockq' \in [Receivers -> Seq(SmallFrame)] /\ taken' \in [Servers -> Seq(SmallFrame)]
      /\ \/ UNCHANGED <<buffer, sockq, taken>>
         \/ /\ sockq[s] # << >>
            /\ sockq' = [sockq EXCEPT ![s] = Tail(sockq[s])]
            /\ taken' = [taken EXCEPT ![s] = Append(taken[s], Head(sockq[s]))]
            /\ \A r \in Servers : r # s => buffer'[r] = buffer[r]
            /\ \A i \in 1..MAXBUF :
                 buffer'[s][i] = IF i <= Len(text) THEN text[i] ELSE buffer[s][i]
  <2>1. CASE UNCHANGED <<buffer, sockq, taken>>
    BY <1>1, <2>1 DEF TypeOK
  <2>2. CASE /\ sockq[s] # << >>
             /\ buffer' = [buffer EXCEPT ![s] = Received(buffer[s], text)]
             /\ sockq' = [sockq EXCEPT ![s] = Tail(sockq[s])]
             /\ taken' = [taken EXCEPT ![s] = Append(taken[s], Head(sockq[s]))]
    <3>1. Head(sockq[s]) \in SmallFrame
      BY <1>1, <2>2
    <3>2. text \in Seq(Nat) /\ Len(text) < MAXBUF /\ Len(text) \in Nat
      BY <3>1, LenProperties DEF SmallFrame, AnyFrame
    <3> HIDE DEF text
    <3>3. \A i \in 1..Len(text) : text[i] \in Nat
      BY <3>2, ElementOfSeq
    <3>4. Received(buffer[s], text) \in [1..MAXBUF -> Nat]
      <4>1. \A i \in 1..MAXBUF : i <= Len(text) => i \in 1..Len(text)
        BY <3>2
      <4>2. \A i \in 1..MAXBUF : (IF i <= Len(text) THEN text[i] ELSE buffer[s][i]) \in Nat
        BY <1>1, <3>3, <4>1
      <4> QED
        BY <4>2 DEF Received
    <3>5. \A i \in 1..MAXBUF :
            Received(buffer[s], text)[i] = IF i <= Len(text) THEN text[i] ELSE buffer[s][i]
      BY DEF Received
    <3>6. /\ buffer'[s] = Received(buffer[s], text)
          /\ \A r \in Servers : r # s => buffer'[r] = buffer[r]
      BY <2>2 DEF TypeOK
    <3>7. Tail(sockq[s]) \in Seq(SmallFrame) /\ Append(taken[s], Head(sockq[s])) \in Seq(SmallFrame)
      BY <1>1, <2>2, <3>1
    <3>8. /\ sockq' \in [Receivers -> Seq(SmallFrame)]
          /\ taken' \in [Servers -> Seq(SmallFrame)]
      BY <2>2, <3>7 DEF TypeOK
    <3>9. buffer' \in [Servers -> [1..MAXBUF -> Nat]]
      BY <2>2, <3>4 DEF TypeOK
    <3> QED
      BY <2>2, <3>5, <3>6, <3>8, <3>9
  <2> QED
    BY <2>1, <2>2 DEF Serve
<1>3. buffer'[s] \in [1..MAXBUF -> Nat]
  BY <1>2
<1>4. UNCHANGED <<pc, link, given, early>>
  BY DEF Serve
<1>5. PICK behind \in Behind :
        shown' = [shown EXCEPT ![s] = Append(shown[s], String(buffer'[s], behind))]
  BY DEF Serve
<1>6. String(buffer'[s], behind) \in Seq(Nat)
  BY <1>3, BufferSize, MemoryAssumption, StringOf
<1> QED
  BY <1>2, <1>4, <1>5, <1>6

LEMMA ListenEffect ==
  ASSUME TypeOK, NEW p \in Listeners, Listen(p)
  PROVE  /\ UNCHANGED <<link, buffer, given, taken, early>>
         /\ pc[p] = "receive"
         /\ \/ UNCHANGED <<shown, sockq>> /\ pc' = [pc EXCEPT ![p] = "killed"]
            \/ /\ UNCHANGED pc
               /\ sockq[p] # << >> /\ Head(sockq[p]) \in SmallFrame
               /\ sockq' = [sockq EXCEPT ![p] = Tail(sockq[p])]
               /\ Tail(sockq[p]) \in Seq(SmallFrame)
               /\ shown' = [shown EXCEPT ![p] = Append(shown[p], Head(sockq[p]))]
               /\ Append(shown[p], Head(sockq[p])) \in Seq(SmallFrame)
<1>1. sockq[p] \in Seq(SmallFrame) /\ shown[p] \in Seq(SmallFrame)
  BY DEF TypeOK, Receivers
<1>2. sockq[p] # << >> =>
        /\ Head(sockq[p]) \in SmallFrame /\ Tail(sockq[p]) \in Seq(SmallFrame)
        /\ Append(shown[p], Head(sockq[p])) \in Seq(SmallFrame)
  BY <1>1
<1> QED
  BY <1>2 DEF Listen, Goto

(* Every step keeps the types. *)
LEMMA StepTypeOK == TypeOK /\ BufferOK /\ [Next]_vars => TypeOK'
<1> SUFFICES ASSUME TypeOK, BufferOK, [Next]_vars PROVE TypeOK'
  OBVIOUS
<1>1. ASSUME NEW c \in Clients, BindClient(c) \/ Resolve(c) PROVE TypeOK'
  <2>1. pc' \in [Clients \cup Receivers ->
               {"off", "start", "resolve", "send", "open", "receive", "exited", "killed"}]
    BY <1>1 DEF BindClient, Resolve, Goto, TypeOK
  <2> QED
    BY <1>1, <2>1 DEF BindClient, Resolve, TypeOK
<1>2. ASSUME NEW c \in Clients, Send(c) PROVE TypeOK'
  <2>1. pc' \in [Clients \cup Receivers ->
               {"off", "start", "resolve", "send", "open", "receive", "exited", "killed"}]
    BY <1>2 DEF Send, Goto, TypeOK
  <2>2. link' \subseteq SmallFrame
    BY <1>2, SmallHello DEF Send, Put, TypeOK
  <2> QED
    BY <1>2, <2>1, <2>2 DEF Send, TypeOK
<1>3. CASE SendStrange
  <2>1. link' \subseteq SmallFrame
    BY <1>3, SmallStrange DEF SendStrange, Put, TypeOK
  <2> QED
    BY <1>3, <2>1 DEF SendStrange, TypeOK
<1>4. ASSUME NEW p \in Listeners, Open(p) PROVE TypeOK'
  <2>1. pc' \in [Clients \cup Receivers ->
               {"off", "start", "resolve", "send", "open", "receive", "exited", "killed"}]
    BY <1>4 DEF Open, Goto, TypeOK
  <2> QED
    BY <1>4, <2>1 DEF Open, TypeOK
<1>5. ASSUME NEW p \in Listeners, Attach(p) PROVE TypeOK'
  <2>1. pc' \in [Clients \cup Receivers ->
               {"off", "start", "resolve", "send", "open", "receive", "exited", "killed"}]
    BY <1>5 DEF Attach, Goto, TypeOK
  <2>2. Len(given[p]) \in Nat
    BY LenProperties DEF TypeOK, Receivers
  <2>3. early' \in [Listeners -> Nat]
    BY <1>5, <2>2 DEF Attach, TypeOK
  <2> QED
    BY <1>5, <2>1, <2>3 DEF Attach, TypeOK
<1>6. ASSUME NEW p \in Listeners, Listen(p) PROVE TypeOK'
  <2>1. CASE UNCHANGED <<shown, sockq>> /\ pc' = [pc EXCEPT ![p] = "killed"]
    <3>1. pc' \in [Clients \cup Receivers ->
                 {"off", "start", "resolve", "send", "open", "receive", "exited", "killed"}]
      BY <2>1 DEF TypeOK
    <3> QED
      BY <1>6, <2>1, <3>1, ListenEffect DEF TypeOK
  <2>2. CASE /\ UNCHANGED pc
             /\ sockq' = [sockq EXCEPT ![p] = Tail(sockq[p])]
             /\ Tail(sockq[p]) \in Seq(SmallFrame)
             /\ shown' = [shown EXCEPT ![p] = Append(shown[p], Head(sockq[p]))]
             /\ Append(shown[p], Head(sockq[p])) \in Seq(SmallFrame)
    <3>1. sockq' \in [Receivers -> Seq(SmallFrame)]
      BY <2>2 DEF TypeOK
    <3>2. /\ shown' = [r \in Receivers |-> shown'[r]]
          /\ \A r \in Receivers : r # p => shown'[r] = shown[r]
          /\ shown'[p] = Append(shown[p], Head(sockq[p]))
      BY <2>2 DEF TypeOK, Receivers
    <3>3. \A s \in Servers : s # p
      BY DEF Servers, Listeners
    <3>4. /\ \A q \in Listeners : shown'[q] \in Seq(SmallFrame)
          /\ \A s \in Servers : shown'[s] \in Seq(Seq(Nat))
      BY <2>2, <3>2, <3>3 DEF TypeOK, Receivers
    <3> QED
      BY <1>6, <2>2, <3>1, <3>2, <3>4, ListenEffect DEF TypeOK
  <2> QED
    BY <1>6, <2>1, <2>2, ListenEffect
<1>7. CASE Arrive
  <2>1. PICK f \in link, R \in SUBSET {r \in Receivers : Ready(r)} :
       /\ given' = [r \in Receivers |-> IF r \in R THEN Append(given[r], f) ELSE given[r]]
       /\ sockq' = [r \in Receivers |-> IF r \in R /\ Takes(r, f) THEN Append(sockq[r], f)
                                                                   ELSE sockq[r]]
    BY <1>7 DEF Arrive
  <2>2. f \in SmallFrame
    BY DEF TypeOK
  <2>3. \A r \in Receivers : /\ Append(given[r], f) \in Seq(SmallFrame)
                            /\ Append(sockq[r], f) \in Seq(SmallFrame)
                            /\ given[r] \in Seq(SmallFrame) /\ sockq[r] \in Seq(SmallFrame)
    BY <2>2 DEF TypeOK
  <2>4. given' \in [Receivers -> Seq(SmallFrame)] /\ sockq' \in [Receivers -> Seq(SmallFrame)]
    BY <2>1, <2>3
  <2> QED
    BY <1>7, <2>4 DEF Arrive, TypeOK
<1>8. ASSUME NEW s \in Servers, BindServer(s) PROVE TypeOK'
  <2>1. pc' \in [Clients \cup Receivers ->
               {"off", "start", "resolve", "send", "open", "receive", "exited", "killed"}]
    BY <1>8 DEF BindServer, Goto, TypeOK
  <2> QED
    BY <1>8, <2>1 DEF BindServer, TypeOK
<1>9. ASSUME NEW s \in Servers, Serve(s) PROVE TypeOK'
  <2>1. shown[s] \in Seq(Seq(Nat))
    BY DEF TypeOK
  <2>6. PICK line \in Seq(Nat) : shown' = [shown EXCEPT ![s] = Append(shown[s], line)]
    BY <1>9, ServeEffect
  <2>2. Append(shown[s], line) \in Seq(Seq(Nat))
    BY <2>1
  <2>3. /\ shown' = [r \in Receivers |-> shown'[r]]
        /\ \A r \in Receivers : r # s => shown'[r] = shown[r]
        /\ shown'[s] = Append(shown[s], line)
    BY <2>6 DEF TypeOK, Receivers
  <2>4. \A p \in Listeners : p # s
    BY DEF Servers, Listeners
  <2>5. /\ \A p \in Listeners : shown'[p] \in Seq(SmallFrame)
        /\ \A r \in Servers : shown'[r] \in Seq(Seq(Nat))
    BY <2>2, <2>3, <2>4 DEF TypeOK, Receivers
  <2> QED
    BY <1>9, <2>3, <2>5, ServeEffect DEF TypeOK
<1>10. CASE UNCHANGED vars
  BY <1>10 DEF vars, TypeOK
<1> QED
  BY <1>1, <1>2, <1>3, <1>4, <1>5, <1>6, <1>7, <1>8, <1>9, <1>10 DEF Next

-----------------------------------------------------------------------------
(* A step that touches no queue, no history and, of the listeners' places, *)
(* none that matters.                                                      *)
LEMMA QueuesAlone ==
  ASSUME QueueOK, UNCHANGED <<shown, sockq, given, taken, early>>,
         \A p \in Listeners : \/ pc'[p] = pc[p]
                              \/ given[p] = << >>
                              \/ pc[p] = "receive" /\ pc'[p] \notin {"off", "start", "open"}
  PROVE  QueueOK'
<1>1. ASSUME NEW p \in Listeners
      PROVE  /\ ListenerDue(p)' = ListenerDue(p)
             /\ pc'[p] \in {"off", "start"} => given[p] = << >>
  <2>1. CASE pc'[p] = pc[p]
    BY <2>1 DEF ListenerDue, QueueOK
  <2>2. CASE given[p] = << >>
    <3>1. 1..Len(given[p]) = {}
      BY <2>2
    <3> QED
      BY <2>2, <3>1 DEF ListenerDue
  <2>3. CASE pc[p] = "receive" /\ pc'[p] \notin {"off", "start", "open"}
    BY <2>3 DEF ListenerDue
  <2> QED
    BY <2>1, <2>2, <2>3
<1>2. \A s \in Servers : ServerDue(s)' = ServerDue(s)
  BY DEF ServerDue
<1> QED
  BY <1>1, <1>2 DEF QueueOK

(* Attaching the filter changes nothing of what is due already.            *)
LEMMA QueueAttach ==
  ASSUME TypeOK, QueueOK, NEW p \in Listeners, Attach(p)
  PROVE  QueueOK'
<1>1. /\ UNCHANGED <<shown, sockq, given, taken>>
      /\ early'[p] = Len(given[p]) /\ \A q \in Listeners : q # p => early'[q] = early[q]
      /\ pc[p] = "open" /\ pc'[p] \in {"receive", "exited", "killed"}
      /\ \A q \in Listeners : q # p => pc'[q] = pc[q]
  BY DEF Attach, Goto, TypeOK, Receivers
<1>2. \A q \in Listeners : Len(given[q]) \in Nat
  BY LenProperties DEF TypeOK, Receivers
<1>3. ListenerDue(p)' = ListenerDue(p)
  BY <1>1, <1>2 DEF ListenerDue
<1>4. \A q \in Listeners : q # p => ListenerDue(q)' = ListenerDue(q)
  BY <1>1 DEF ListenerDue
<1>5. \A s \in Servers : ServerDue(s)' = ServerDue(s)
  BY <1>1 DEF ServerDue
<1>6. \A q \in Listeners : /\ Picks(shown'[q] \o sockq'[q], given'[q], ListenerDue(q)')
                           /\ early'[q] <= Len(given'[q])
                           /\ pc'[q] \in {"off", "start"} => given'[q] = << >>
  BY <1>1, <1>2, <1>3, <1>4 DEF QueueOK
<1> QED
  BY <1>1, <1>5, <1>6 DEF QueueOK

(* A listener moves the head of its queue to what it printed.              *)
LEMMA QueueListen ==
  ASSUME TypeOK, QueueOK, NEW p \in Listeners, Listen(p)
  PROVE  QueueOK'
<1>1. CASE UNCHANGED <<shown, sockq>> /\ pc' = [pc EXCEPT ![p] = "killed"]
  <2>1. \A q \in Listeners : \/ pc'[q] = pc[q]
                             \/ pc[q] = "receive" /\ pc'[q] \notin {"off", "start", "open"}
    BY <1>1, ListenEffect DEF TypeOK, Receivers
  <2> QED
    BY <1>1, <2>1, ListenEffect, QueuesAlone
<1>2. CASE /\ UNCHANGED pc
           /\ sockq[p] # << >>
           /\ sockq' = [sockq EXCEPT ![p] = Tail(sockq[p])]
           /\ shown' = [shown EXCEPT ![p] = Append(shown[p], Head(sockq[p]))]
  <2>1. UNCHANGED <<given, taken, early>>
    BY ListenEffect
  <2>2. \A q \in Listeners : ListenerDue(q)' = ListenerDue(q)
    BY <1>2, <2>1 DEF ListenerDue
  <2>3. \A s \in Servers : ServerDue(s)' = ServerDue(s)
    BY <2>1 DEF ServerDue
  <2>4. /\ sockq'[p] = Tail(sockq[p]) /\ \A r \in Receivers : r # p => sockq'[r] = sockq[r]
    BY <1>2 DEF TypeOK, Receivers
  <2>5. /\ shown'[p] = Append(shown[p], Head(sockq[p]))
        /\ \A r \in Receivers : r # p => shown'[r] = shown[r]
    BY <1>2 DEF TypeOK, Receivers
  <2>6. shown'[p] \o sockq'[p] = shown[p] \o sockq[p]
    <3>1. shown[p] \in Seq(SmallFrame) /\ sockq[p] \in Seq(SmallFrame) /\ sockq[p] # << >>
      BY <1>2 DEF TypeOK, Receivers
    <3> QED
      BY <2>4, <2>5, <3>1, MoveHead
  <2>7. \A q \in Listeners : shown'[q] \o sockq'[q] = shown[q] \o sockq[q]
    BY <2>4, <2>5, <2>6 DEF Receivers
  <2>8. \A s \in Servers : sockq'[s] = sockq[s]
    BY <2>4 DEF Receivers, Servers, Listeners
  <2> QED
    BY <1>2, <2>1, <2>2, <2>3, <2>7, <2>8 DEF QueueOK
<1> QED
  BY <1>1, <1>2, ListenEffect

(* A server moves the head of its queue to what it took.                   *)
LEMMA QueueServe ==
  ASSUME TypeOK, QueueOK, NEW s \in Servers, Serve(s)
  PROVE  QueueOK'
<1>1. UNCHANGED <<pc, given, early>> /\ \A p \in Listeners : shown'[p] = shown[p]
  <2>1. UNCHANGED <<pc, given, early>>
    BY ServeEffect
  <2>2. \E line : shown' = [shown EXCEPT ![s] = Append(shown[s], line)]
    BY ServeEffect
  <2>3. \A p \in Listeners : p # s /\ p \in Receivers
    BY DEF Listeners, Servers, Receivers
  <2> QED
    BY <2>1, <2>2, <2>3 DEF TypeOK
<1>2. \A p \in Listeners : ListenerDue(p)' = ListenerDue(p)
  BY <1>1 DEF ListenerDue
<1>3. \A r \in Servers : ServerDue(r)' = ServerDue(r)
  BY <1>1 DEF ServerDue
<1>4. /\ \A p \in Listeners : sockq'[p] = sockq[p]
      /\ \A r \in Servers : taken'[r] \o sockq'[r] = taken[r] \o sockq[r]
  <2>1. CASE UNCHANGED <<sockq, taken>>
    BY <2>1
  <2>2. CASE /\ sockq[s] # << >>
             /\ sockq' = [sockq EXCEPT ![s] = Tail(sockq[s])]
             /\ taken' = [taken EXCEPT ![s] = Append(taken[s], Head(sockq[s]))]
    <3>1. sockq'[s] = Tail(sockq[s]) /\ \A r \in Receivers : r # s => sockq'[r] = sockq[r]
      BY <2>2 DEF TypeOK, Receivers
    <3>2. /\ taken'[s] = Append(taken[s], Head(sockq[s]))
          /\ \A r \in Servers : r # s => taken'[r] = taken[r]
      BY <2>2 DEF TypeOK
    <3>3. taken'[s] \o sockq'[s] = taken[s] \o sockq[s]
      <4>1. taken[s] \in Seq(SmallFrame) /\ sockq[s] \in Seq(SmallFrame) /\ sockq[s] # << >>
        BY <2>2 DEF TypeOK, Receivers
      <4> QED
        BY <3>1, <3>2, <4>1, MoveHead
    <3>4. \A r \in Servers : taken'[r] \o sockq'[r] = taken[r] \o sockq[r]
      BY <3>1, <3>2, <3>3 DEF Receivers
    <3>5. \A p \in Listeners : sockq'[p] = sockq[p]
      BY <3>1 DEF Listeners, Servers, Receivers
    <3> QED
      BY <3>4, <3>5
  <2> QED
    BY <2>1, <2>2, ServeEffect
<1> QED
  BY <1>1, <1>2, <1>3, <1>4 DEF QueueOK

(* What arrives is due to a receiver exactly if its socket takes it.       *)
LEMMA QueueArrive ==
  ASSUME TypeOK, QueueOK, Arrive
  PROVE  QueueOK'
<1>1. PICK f \in link, R \in SUBSET {r \in Receivers : Ready(r)} :
       /\ given' = [r \in Receivers |-> IF r \in R THEN Append(given[r], f) ELSE given[r]]
       /\ sockq' = [r \in Receivers |-> IF r \in R /\ Takes(r, f) THEN Append(sockq[r], f)
                                                                   ELSE sockq[r]]
  BY DEF Arrive
<1>2. UNCHANGED <<pc, shown, taken, early>>
  BY DEF Arrive
<1>3. f \in SmallFrame /\ f \in AnyFrame
  BY DEF TypeOK, SmallFrame
<1>4. \A r \in Receivers : /\ given[r] \in Seq(SmallFrame) /\ sockq[r] \in Seq(SmallFrame)
                           /\ Len(given[r]) \in Nat
  BY LenProperties DEF TypeOK
<1>5. \A r \in Receivers :
        /\ Len(Append(given[r], f)) = Len(given[r]) + 1
        /\ Append(given[r], f)[Len(given[r]) + 1] = f
        /\ \A i \in 1..Len(given[r]) : Append(given[r], f)[i] = given[r][i]
  BY <1>3, <1>4, AppendProperties
<1>6. \A r \in Receivers : r \in R => pc[r] \in {"open", "receive"}
  BY DEF Ready
<1>7. ASSUME NEW r \in Receivers, NEW was \in Seq(SmallFrame),
             NEW K \in SUBSET (1..Len(given[r])), NEW L,
             Picks(was \o sockq[r], given[r], K),
             r \notin R => L = K,
             r \in R /\ Takes(r, f) => L = K \cup {Len(given[r]) + 1},
             r \in R /\ ~Takes(r, f) => L = K
      PROVE  Picks(was \o sockq'[r], given'[r], L)
  <2>0. was \o sockq[r] \in Seq(SmallFrame)
    BY <1>4
  <2>1. CASE r \notin R
    BY <1>1, <1>7, <2>1
  <2>2. CASE r \in R /\ Takes(r, f)
    <3>1. Picks(Append(was \o sockq[r], f), Append(given[r], f), K \cup {Len(given[r]) + 1})
      BY <1>3, <1>4, <1>7, <2>0, PicksOneMore
    <3>2. was \o Append(sockq[r], f) = Append(was \o sockq[r], f)
      BY <1>3, <1>4, AppendBehind
    <3>3. sockq'[r] = Append(sockq[r], f) /\ given'[r] = Append(given[r], f)
      BY <1>1, <2>2
    <3> QED
      BY <1>7, <2>2, <3>1, <3>2, <3>3
  <2>3. CASE r \in R /\ ~Takes(r, f)
    <3>1. Picks(was \o sockq[r], Append(given[r], f), K)
      BY <1>3, <1>4, <1>7, <2>0, PicksNoMore
    <3>2. sockq'[r] = sockq[r] /\ given'[r] = Append(given[r], f)
      BY <1>1, <2>3
    <3> QED
      BY <1>7, <2>3, <3>1, <3>2
  <2> QED
    BY <2>1, <2>2, <2>3
<1>8. ASSUME NEW p \in Listeners
      PROVE  /\ Picks(shown'[p] \o sockq'[p], given'[p], ListenerDue(p)')
             /\ early'[p] <= Len(given'[p])
             /\ pc'[p] \in {"off", "start"} => given'[p] = << >>
  <2>1. /\ p \in Receivers /\ shown[p] \in Seq(SmallFrame) /\ early[p] \in Nat
        /\ early[p] <= Len(given[p])
    BY DEF TypeOK, Receivers, QueueOK
  <2>2. Takes(p, f) <=> pc[p] = "open" \/ Wanted(f)
    BY <1>3, VerdictExact DEF Takes
  <2>3. CASE p \notin R
    <3>1. given'[p] = given[p]
      BY <1>1, <2>1, <2>3
    <3>2. ListenerDue(p)' = ListenerDue(p)
      BY <1>2, <3>1 DEF ListenerDue
    <3>3. Picks(shown[p] \o sockq'[p], given'[p], ListenerDue(p)')
      BY <1>7, <2>1, <2>3, <3>2 DEF ListenerDue, QueueOK
    <3> QED
      BY <1>2, <2>1, <3>1, <3>3 DEF QueueOK
  <2>4. CASE p \in R
    <3> DEFINE n == Len(given[p]) + 1
    <3>1. /\ given'[p] = Append(given[p], f) /\ Len(given'[p]) = n /\ given'[p][n] = f
          /\ \A i \in 1..Len(given[p]) : given'[p][i] = given[p][i]
      BY <1>1, <1>5, <2>1, <2>4
    <3>2. 1..n = (1..Len(given[p])) \cup {n} /\ n > early[p] /\ n \notin 1..Len(given[p])
      BY <1>4, <2>1
    <3>3. n \in ListenerDue(p)' <=> Takes(p, f)
      BY <1>2, <2>1, <2>2, <3>1, <3>2 DEF ListenerDue
    <3>4. \A i \in 1..Len(given[p]) : i \in ListenerDue(p)' <=> i \in ListenerDue(p)
      BY <1>2, <3>1, <3>2 DEF ListenerDue
    <3>5. /\ ListenerDue(p)' \in SUBSET (1..n)
          /\ ListenerDue(p) \in SUBSET (1..Len(given[p]))
      BY <3>1 DEF ListenerDue
    <3>6. /\ Takes(p, f) => ListenerDue(p)' = ListenerDue(p) \cup {n}
          /\ ~Takes(p, f) => ListenerDue(p)' = ListenerDue(p)
      BY <3>2, <3>3, <3>4, <3>5
    <3>7. Picks(shown[p] \o sockq'[p], given'[p], ListenerDue(p)')
      BY <1>7, <2>1, <2>4, <3>5, <3>6 DEF QueueOK
    <3>8. early[p] <= Len(given'[p])
      BY <1>4, <2>1, <3>1
    <3>9. pc[p] \notin {"off", "start"}
      BY <1>6, <2>1, <2>4
    <3> QED
      BY <1>2, <3>7, <3>8, <3>9
  <2> QED
    BY <2>3, <2>4
<1>9. ASSUME NEW s \in Servers
      PROVE  Picks(taken'[s] \o sockq'[s], given'[s], ServerDue(s)')
  <2>1. s \in Receivers /\ taken[s] \in Seq(SmallFrame)
    BY DEF TypeOK, Receivers
  <2>2. Takes(s, f) <=> ForServer(f)
    BY DEF Takes, ForServer, Servers, Listeners
  <2>3. CASE s \notin R
    <3>1. given'[s] = given[s]
      BY <1>1, <2>1, <2>3
    <3>2. ServerDue(s)' = ServerDue(s)
      BY <3>1 DEF ServerDue
    <3> QED
      BY <1>2, <1>7, <2>1, <2>3, <3>2 DEF ServerDue, QueueOK
  <2>4. CASE s \in R
    <3> DEFINE n == Len(given[s]) + 1
    <3>1. /\ given'[s] = Append(given[s], f) /\ Len(given'[s]) = n /\ given'[s][n] = f
          /\ \A i \in 1..Len(given[s]) : given'[s][i] = given[s][i]
      BY <1>1, <1>5, <2>1, <2>4
    <3>2. 1..n = (1..Len(given[s])) \cup {n} /\ n \notin 1..Len(given[s])
      BY <1>4, <2>1
    <3>3. n \in ServerDue(s)' <=> Takes(s, f)
      BY <2>2, <3>1, <3>2 DEF ServerDue
    <3>4. \A i \in 1..Len(given[s]) : i \in ServerDue(s)' <=> i \in ServerDue(s)
      BY <3>1, <3>2 DEF ServerDue
    <3>5. /\ ServerDue(s)' \in SUBSET (1..n)
          /\ ServerDue(s) \in SUBSET (1..Len(given[s]))
      BY <3>1 DEF ServerDue
    <3>6. /\ Takes(s, f) => ServerDue(s)' = ServerDue(s) \cup {n}
          /\ ~Takes(s, f) => ServerDue(s)' = ServerDue(s)
      BY <3>2, <3>3, <3>4, <3>5
    <3> QED
      BY <1>2, <1>7, <2>1, <2>4, <3>5, <3>6 DEF QueueOK
  <2> QED
    BY <2>3, <2>4
<1> QED
  BY <1>8, <1>9 DEF QueueOK

(* Every step keeps what the sockets hold and what is still due.           *)
LEMMA StepQueueOK == TypeOK /\ QueueOK /\ BufferOK /\ [Next]_vars => QueueOK'
<1> SUFFICES ASSUME TypeOK, QueueOK, BufferOK, [Next]_vars PROVE QueueOK'
  OBVIOUS
<1>1. ASSUME NEW c \in Clients, BindClient(c) \/ Resolve(c) \/ Send(c) PROVE QueueOK'
  <2>1. \A p \in Listeners : pc'[p] = pc[p]
    BY <1>1 DEF BindClient, Resolve, Send, Goto, TypeOK, Clients, Listeners, Receivers
  <2> QED
    BY <1>1, <2>1, QueuesAlone DEF BindClient, Resolve, Send
<1>2. CASE SendStrange
  BY <1>2, QueuesAlone DEF SendStrange
<1>3. ASSUME NEW p \in Listeners, Open(p) PROVE QueueOK'
  <2>1. \A q \in Listeners : pc'[q] = pc[q] \/ given[q] = << >>
    BY <1>3 DEF Open, Goto, TypeOK, Receivers, QueueOK
  <2> QED
    BY <1>3, <2>1, QueuesAlone DEF Open
<1>4. ASSUME NEW p \in Listeners, Attach(p) PROVE QueueOK'
  BY <1>4, QueueAttach
<1>5. ASSUME NEW p \in Listeners, Listen(p) PROVE QueueOK'
  BY <1>5, QueueListen
<1>6. CASE Arrive
  BY <1>6, QueueArrive
<1>7. ASSUME NEW s \in Servers, BindServer(s) PROVE QueueOK'
  <2>1. \A p \in Listeners : pc'[p] = pc[p]
    BY <1>7 DEF BindServer, Goto, TypeOK, Servers, Listeners, Receivers
  <2> QED
    BY <1>7, <2>1, QueuesAlone DEF BindServer
<1>8. ASSUME NEW s \in Servers, Serve(s) PROVE QueueOK'
  BY <1>8, QueueServe
<1>9. CASE UNCHANGED vars
  BY <1>9, QueuesAlone DEF vars
<1> QED
  BY <1>1, <1>2, <1>3, <1>4, <1>5, <1>6, <1>7, <1>8, <1>9 DEF Next

(* The kernel refuses the four instructions: the second jumps behind them. *)
LEMMA FourRefused == ~Accepted(len("udp_raw_server"))
<1>1. 2 \in 1..4 /\ len("udp_raw_server") = 4
  BY DEF len
<1> QED
  BY <1>1, Instructions DEF Accepted

(* The listener with the short filter never comes to listen.               *)
LEMMA StepShortRefused == TypeOK /\ BufferOK /\ ShortRefused /\ [Next]_vars => ShortRefused'
<1> DEFINE p == "udp_raw_server"
<1> SUFFICES ASSUME TypeOK, BufferOK, ShortRefused, [Next]_vars PROVE ShortRefused'
  OBVIOUS
<1>1. p \in Listeners /\ p \in Receivers /\ p \notin Clients /\ p \notin Servers
  BY DEF Listeners, Servers, Clients, Receivers
<1>2. ASSUME NEW c \in Clients, BindClient(c) \/ Resolve(c) \/ Send(c) PROVE ShortRefused'
  <2>1. pc'[p] = pc[p]
    BY <1>1, <1>2 DEF BindClient, Resolve, Send, Goto, TypeOK
  <2> QED
    BY <1>2, <2>1 DEF BindClient, Resolve, Send, ShortRefused
<1>3. CASE SendStrange
  BY <1>3 DEF SendStrange, ShortRefused
<1>4. ASSUME NEW q \in Listeners, Open(q) PROVE ShortRefused'
  <2>1. pc'[p] = pc[p] \/ pc'[p] \in {"open", "exited"}
    BY <1>1, <1>4 DEF Open, Goto, TypeOK
  <2> QED
    BY <1>4, <2>1 DEF Open, ShortRefused
<1>5. ASSUME NEW q \in Listeners, Attach(q) PROVE ShortRefused'
  <2>1. pc'[p] # "receive"
    <3>1. CASE q = p
      BY <1>1, <1>5, <3>1, FourRefused DEF Attach, Goto, TypeOK
    <3>2. CASE q # p
      BY <1>1, <1>5, <3>2 DEF Attach, Goto, TypeOK, ShortRefused
    <3> QED
      BY <3>1, <3>2
  <2> QED
    BY <1>5, <2>1 DEF Attach, ShortRefused
<1>6. ASSUME NEW q \in Listeners, Listen(q) PROVE ShortRefused'
  <2>1. q # p
    BY <1>6 DEF Listen, ShortRefused
  <2> QED
    BY <1>1, <1>6, <2>1, ListenEffect DEF TypeOK, ShortRefused
<1>7. CASE Arrive
  BY <1>7 DEF Arrive, ShortRefused
<1>8. ASSUME NEW s \in Servers, BindServer(s) PROVE ShortRefused'
  <2>1. pc'[p] = pc[p]
    BY <1>1, <1>8 DEF BindServer, Goto, TypeOK
  <2> QED
    BY <1>8, <2>1 DEF BindServer, ShortRefused
<1>9. ASSUME NEW s \in Servers, Serve(s) PROVE ShortRefused'
  <2>1. UNCHANGED pc /\ \E line : shown' = [shown EXCEPT ![s] = Append(shown[s], line)]
    BY <1>9, ServeEffect
  <2>2. shown'[p] = shown[p]
    BY <1>1, <2>1 DEF TypeOK
  <2> QED
    BY <2>1, <2>2 DEF ShortRefused
<1>10. CASE UNCHANGED vars
  BY <1>10 DEF vars, ShortRefused
<1> QED
  BY <1>2, <1>3, <1>4, <1>5, <1>6, <1>7, <1>8, <1>9, <1>10 DEF Next

(* No step but a server's own touches its buffer, what it took, its lines. *)
LEMMA OthersAlone ==
  ASSUME TypeOK, [Next]_vars, ~\E s \in Servers : Serve(s)
  PROVE  UNCHANGED <<buffer, taken>> /\ \A s \in Servers : shown'[s] = shown[s]
<1>1. ASSUME NEW p \in Listeners, Listen(p)
      PROVE  UNCHANGED <<buffer, taken>> /\ \A s \in Servers : shown'[s] = shown[s]
  <2>1. \A s \in Servers : s # p /\ s \in Receivers
    BY DEF Servers, Listeners, Receivers
  <2> QED
    BY <1>1, <2>1, ListenEffect DEF TypeOK
<1>2. ASSUME NEW c \in Clients, BindClient(c) \/ Resolve(c) \/ Send(c)
      PROVE  UNCHANGED <<buffer, taken, shown>>
  BY <1>2 DEF BindClient, Resolve, Send
<1>3. ASSUME NEW p \in Listeners, Open(p) \/ Attach(p) PROVE UNCHANGED <<buffer, taken, shown>>
  BY <1>3 DEF Open, Attach
<1>4. ASSUME NEW s \in Servers, BindServer(s) PROVE UNCHANGED <<buffer, taken, shown>>
  BY <1>4 DEF BindServer
<1> QED
  BY <1>1, <1>2, <1>3, <1>4 DEF Next, vars, SendStrange, Arrive

(* A datagram overwrites the buffer as far as it reaches, no further.      *)
LEMMA StepBufferOK == TypeOK /\ BufferOK /\ [Next]_vars => BufferOK'
<1> SUFFICES ASSUME TypeOK, BufferOK, [Next]_vars PROVE BufferOK'
  OBVIOUS
<1>1. CASE ~\E s \in Servers : Serve(s)
  <2>1. UNCHANGED <<buffer, taken>>
    BY <1>1, OthersAlone
  <2> QED
    BY <2>1 DEF BufferOK
<1>2. ASSUME NEW s \in Servers, Serve(s) PROVE BufferOK'
  <2>1. CASE UNCHANGED <<buffer, taken>>
    BY <2>1 DEF BufferOK
  <2>2. CASE /\ sockq[s] # << >>
             /\ taken' = [taken EXCEPT ![s] = Append(taken[s], Head(sockq[s]))]
             /\ \A r \in Servers : r # s => buffer'[r] = buffer[r]
             /\ \A i \in 1..MAXBUF :
                  buffer'[s][i] = IF i <= Len(Head(sockq[s]).text) THEN Head(sockq[s]).text[i]
                                                                   ELSE buffer[s][i]
    <3> DEFINE e == Head(sockq[s])
               d == taken[s]
               t == Append(d, e)
    <3>1. \A r \in Servers : r # s => taken'[r] = taken[r] /\ buffer'[r] = buffer[r]
      BY <2>2 DEF TypeOK
    <3>2. taken'[s] = t /\ d \in Seq(SmallFrame) /\ e \in SmallFrame
      BY <2>2 DEF TypeOK, Receivers
    <3>3. /\ Len(t) = Len(d) + 1 /\ t[Len(d) + 1] = e /\ Len(d) \in Nat
          /\ \A j \in 1..Len(d) : t[j] = d[j]
      BY <3>2, AppendProperties, LenProperties
    <3>4. Len(e.text) \in Nat
      BY <3>2, LenProperties DEF SmallFrame, AnyFrame
    <3> HIDE DEF t, d, e
    <3>5. ASSUME NEW i \in 1..MAXBUF, NEW j \in 1..Len(t), Len(t[j].text) >= i,
                 \A l \in (j + 1)..Len(t) : ~(Len(t[l].text) >= i)
          PROVE  buffer'[s][i] = t[j].text[i]
      <4>1. i \in Nat /\ j \in Nat
        BY BufferSize
      <4>2. CASE j = Len(t)
        <5>1. i <= Len(e.text) /\ t[j] = e
          BY <3>3, <3>4, <3>5, <4>1, <4>2
        <5> QED
          BY <2>2, <5>1 DEF e
      <4>3. CASE j # Len(t)
        <5>1. j \in 1..Len(d) /\ Len(t) \in (j + 1)..Len(t)
          BY <3>3, <4>1, <4>3
        <5>2. ~(Len(e.text) >= i)
          BY <3>3, <3>5, <5>1
        <5>3. ~(i <= Len(e.text))
          BY <3>4, <4>1, <5>2
        <5>4. buffer'[s][i] = buffer[s][i]
          BY <2>2, <5>3 DEF e
        <5>5. \A l \in (j + 1)..Len(d) : l \in (j + 1)..Len(t) /\ t[l] = d[l]
          BY <3>3, <4>1
        <5>6. \A l \in (j + 1)..Len(d) : ~(Len(d[l].text) >= i)
          BY <3>5, <5>5
        <5>7. Len(d[j].text) >= i
          BY <3>3, <3>5, <5>1
        <5>8. buffer[s][i] = d[j].text[i]
          BY <5>1, <5>6, <5>7 DEF BufferOK, d
        <5> QED
          BY <3>3, <5>1, <5>4, <5>8
      <4> QED
        BY <4>2, <4>3
    <3>6. ASSUME NEW r \in Servers
          PROVE  \A i \in 1..MAXBUF, j \in 1..Len(taken'[r]) :
                   /\ Len(taken'[r][j].text) >= i
                   /\ \A l \in (j + 1)..Len(taken'[r]) : ~(Len(taken'[r][l].text) >= i)
                   => buffer'[r][i] = taken'[r][j].text[i]
      <4>1. CASE r = s
        BY <3>2, <3>5, <4>1
      <4>2. CASE r # s
        <5>1. taken'[r] = taken[r] /\ buffer'[r] = buffer[r]
          BY <3>1, <4>2
        <5>2. \A i \in 1..MAXBUF, j \in 1..Len(taken[r]) :
                /\ Len(taken[r][j].text) >= i
                /\ \A l \in (j + 1)..Len(taken[r]) : ~(Len(taken[r][l].text) >= i)
                => buffer[r][i] = taken[r][j].text[i]
          BY Zenon DEF BufferOK
        <5> QED
          BY Zenon, <5>1, <5>2
      <4> QED
        BY <4>1, <4>2
    <3> QED
      BY <3>6 DEF BufferOK
  <2> QED
    BY <1>2, <2>1, <2>2, ServeEffect
<1> QED
  BY <1>1, <1>2

(* A server prints the buffer each time it changes it.                     *)
LEMMA StepLineOK == TypeOK /\ BufferOK /\ LineOK /\ [Next]_vars => LineOK'
<1> SUFFICES ASSUME TypeOK, BufferOK, LineOK, [Next]_vars PROVE LineOK'
  OBVIOUS
<1>1. CASE ~\E s \in Servers : Serve(s)
  BY <1>1, OthersAlone DEF LineOK
<1>2. ASSUME NEW s \in Servers, Serve(s) PROVE LineOK'
  <2>6. PICK b \in Seq(Nat) : /\ \E behind \in Behind : b = String(buffer'[s], behind)
                             /\ shown' = [shown EXCEPT ![s] = Append(shown[s], b)]
    BY <1>2, ServeEffect
  <2>1. shown[s] \in Seq(Seq(Nat)) /\ s \in Receivers
    BY DEF TypeOK, Receivers
  <2>2. /\ shown'[s] = Append(shown[s], b)
        /\ \A r \in Servers : r # s => shown'[r] = shown[r]
    BY <2>1, <2>6 DEF TypeOK, Receivers
  <2>3. shown'[s] # << >> /\ shown'[s][Len(shown'[s])] = b
    <3>1. Len(Append(shown[s], b)) = Len(shown[s]) + 1 /\ Len(shown[s]) \in Nat
      BY <2>1, AppendProperties, LenProperties
    <3>2. Append(shown[s], b)[Len(shown[s]) + 1] = b /\ Append(shown[s], b) # << >>
      BY <2>1, AppendProperties
    <3> QED
      BY <2>2, <3>1, <3>2
  <2>4. \A r \in Servers : r # s => buffer'[r] = buffer[r] /\ taken'[r] = taken[r]
    BY <1>2, ServeEffect DEF TypeOK
  <2>5. \A r \in Servers :
          /\ shown'[r] # << >> =>
               \E behind \in Behind : shown'[r][Len(shown'[r])] = String(buffer'[r], behind)
          /\ taken'[r] # << >> => shown'[r] # << >>
    BY <2>2, <2>3, <2>4, <2>6 DEF LineOK
  <2> QED
    BY <2>5 DEF LineOK
<1> QED
  BY <1>1, <1>2

-----------------------------------------------------------------------------
(* The inductive invariant holds in every reachable state.                 *)
THEOREM Invariance == Spec => []IInv
<1>1. Init => IInv
  BY InitIInv
<1>2. IInv /\ [Next]_vars => IInv'
  BY StepTypeOK, StepQueueOK, StepShortRefused, StepBufferOK, StepLineOK DEF IInv
<1> QED
  BY <1>1, <1>2, PTL DEF Spec

(* The variables keep their types.                                         *)
THEOREM Typing == Spec => []TypeOK
<1>1. IInv => TypeOK
  BY DEF IInv
<1> QED
  BY <1>1, Invariance, PTL

(* The listener with the whole filter prints what reached its socket       *)
(* before the filter and then the wanted frames, all and in order; the one *)
(* with the short filter prints nothing.                                   *)
THEOREM FilterWorks == Spec => []FilterExact
<1>1. IInv => FilterExact
  <2> SUFFICES ASSUME IInv PROVE FilterExact
    OBVIOUS
  <2> DEFINE p == "bpf_filter_test"
             K == {i \in 1..Len(given[p]) : i <= early[p] \/ Wanted(given[p][i])}
  <2>1. p \in Listeners
    BY DEF Listeners
  <2>2. Picks(shown[p] \o sockq[p], given[p], ListenerDue(p))
    BY <2>1 DEF IInv, QueueOK
  <2>3. pc[p] # "open" => ListenerDue(p) = K
    BY DEF ListenerDue
  <2>4. shown["udp_raw_server"] = << >>
    BY DEF IInv, ShortRefused
  <2> QED
    BY <2>2, <2>3, <2>4 DEF FilterExact
<1> QED
  BY <1>1, Invariance, PTL

(* What a server prints behind the end of a datagram is what earlier ones  *)
(* left there.                                                             *)
THEOREM OldTail == Spec => []TailIsOld
<1>1. IInv => TailIsOld
  <2> SUFFICES ASSUME IInv, NEW s \in Servers
               PROVE  LET d == taken[s]
                          g == given[s]
                          line == shown[s][Len(shown[s])]
                          last == d[Len(d)].text
                          covers(j, i) == Len(d[j].text) >= i
                      IN /\ Picks(d \o sockq[s], g, {i \in 1..Len(g) : ForServer(g[i])})
                         /\ d # << >> =>
                              /\ \A i \in 1..Len(line), j \in 1..Len(d) :
                                   covers(j, i) /\ (\A l \in (j + 1)..Len(d) : ~covers(l, i))
                                     => line[i] = d[j].text[i]
                              /\ \A i \in 1..Len(last) :
                                   (\A k \in 1..i : last[k] # 0) => i <= Len(line)
    BY DEF TailIsOld
  <2> DEFINE d == taken[s]
             line == shown[s][Len(shown[s])]
             last == d[Len(d)].text
  <2>1. Picks(d \o sockq[s], given[s], {i \in 1..Len(given[s]) : ForServer(given[s][i])})
    BY DEF IInv, QueueOK, ServerDue
  <2>2. ASSUME d # << >>
        PROVE  /\ \A i \in 1..Len(line), j \in 1..Len(d) :
                    /\ Len(d[j].text) >= i
                    /\ \A l \in (j + 1)..Len(d) : ~(Len(d[l].text) >= i)
                    => line[i] = d[j].text[i]
               /\ \A i \in 1..Len(last) : (\A k \in 1..i : last[k] # 0) => i <= Len(line)
    <3>1. PICK behind \in Behind : line = String(buffer[s], behind)
      BY <2>2 DEF IInv, LineOK
    <3>2. buffer[s] \in [1..MAXBUF -> Nat] /\ behind \in Seq(Nat)
      BY MemoryAssumption DEF IInv, TypeOK
    <3>3. /\ line \in Seq(Nat)
          /\ \A i \in 1..Len(line) : i <= MAXBUF => line[i] = buffer[s][i]
          /\ \A i \in 1..MAXBUF : Len(line) < i => \E k \in 1..i : buffer[s][k] = 0
      <4> DEFINE print == String(buffer[s], behind)
      <4>1. /\ print \in Seq(Nat)
            /\ \A i \in 1..Len(print) : i <= MAXBUF => print[i] = buffer[s][i]
            /\ \A i \in 1..MAXBUF : Len(print) < i => \E k \in 1..i : buffer[s][k] = 0
        BY <3>2, StringOf, BufferSize
      <4>2. line = print
        BY <3>1
      <4> HIDE DEF print, line
      <4> QED
        BY <4>1, <4>2
    <3>4. d \in Seq(SmallFrame) /\ Len(d) \in Nat /\ Len(d) \in 1..Len(d)
      <4>1. d \in Seq(SmallFrame)
        BY DEF IInv, TypeOK
      <4> QED
        BY <2>2, <4>1, LenProperties, EmptySeq
    <3>5. last \in Seq(Nat) /\ Len(last) \in Nat /\ Len(last) < MAXBUF
      <4>1. d[Len(d)] \in SmallFrame
        BY <3>4, ElementOfSeq
      <4> QED
        BY <4>1, LenProperties DEF SmallFrame, AnyFrame
    <3> HIDE DEF d, line
    <3>6. \A i \in 1..MAXBUF, j \in 1..Len(d) :
            /\ Len(d[j].text) >= i
            /\ \A l \in (j + 1)..Len(d) : ~(Len(d[l].text) >= i)
            => buffer[s][i] = d[j].text[i]
      BY DEF IInv, BufferOK, d
    <3>7. ASSUME NEW i \in 1..Len(line), NEW j \in 1..Len(d), Len(d[j].text) >= i,
                 \A l \in (j + 1)..Len(d) : ~(Len(d[l].text) >= i)
          PROVE  line[i] = d[j].text[i]
      <4>1. d[j] \in SmallFrame
        BY <3>4, ElementOfSeq
      <4>2. Len(d[j].text) \in Nat /\ Len(d[j].text) < MAXBUF
        BY <4>1, LenProperties DEF SmallFrame, AnyFrame
      <4>3. i \in 1..MAXBUF /\ i <= MAXBUF
        BY <3>7, <4>2, BufferSize
      <4> QED
        BY <3>3, <3>6, <3>7, <4>3
    <3>8. ASSUME NEW i \in 1..Len(last), \A k \in 1..i : last[k] # 0
          PROVE  i <= Len(line)
      <4>1. i \in 1..MAXBUF /\ Len(line) \in Nat /\ (Len(d) + 1)..Len(d) = {}
        BY <3>3, <3>4, <3>5, BufferSize
      <4>2. ASSUME NEW k \in 1..i PROVE buffer[s][k] # 0
        <5>1. k \in 1..MAXBUF /\ Len(last) >= k
          <6> HIDE DEF last
          <6>1. i \in 1..Len(last) /\ Len(last) \in Nat /\ Len(last) < MAXBUF
            BY <3>5, <3>8
          <6> QED
            BY <6>1, BufferSize
        <5>2. \A l \in (Len(d) + 1)..Len(d) : ~(Len(d[l].text) >= k)
          BY <4>1
        <5>3. buffer[s][k] = d[Len(d)].text[k]
          <6>1. \A m \in 1..MAXBUF :
                  /\ Len(d[Len(d)].text) >= m
                  /\ \A l \in (Len(d) + 1)..Len(d) : ~(Len(d[l].text) >= m)
                  => buffer[s][m] = d[Len(d)].text[m]
            BY <3>4, <3>6, Zenon
          <6>2. Len(d[Len(d)].text) >= k
            BY <5>1
          <6> QED
            BY <5>1, <5>2, <6>1, <6>2, Zenon
        <5> QED
          BY <3>8, <5>3
      <4> QED
        BY <3>3, <4>1, <4>2
    <3> QED
      BY <3>6, <3>7, <3>8
  <2> QED
    BY <2>1, <2>2
<1> QED
  BY <1>1, Invariance, PTL
=============================================================================

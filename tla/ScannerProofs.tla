--------------------------- MODULE ScannerProofs ---------------------------
(***************************************************************************)
(* Theorems about Scanner, for every input, every size of the buffer and   *)
(* of a read, and all faults.  First the buffer, the patterns and what is  *)
(* printed; then that Scanner implements Lexer: what yylex prints are the  *)
(* longest matches of the rules on the whole input.                        *)
(***************************************************************************)
EXTENDS Scanner, SequenceTheorems, TLAPS

-----------------------------------------------------------------------------
(* The inductive invariant. *)

Chars256 == 0..255

(* The text as it stands but for the NUL that ends the current token. *)
Plain ==
  IF pc \in {"scan", "act"} THEN [yy_ch_buf EXCEPT ![yy_c_buf_p] = yy_hold_char] ELSE yy_ch_buf

DfaType == [state : 0..22, last : 0..22, cpos : Nat]

Types ==
  /\ pc \in {"start", "scan", "match", "find", "act", "previous", "nul", "move", "room",
             "input", "loaded", "done", "out of memory", "input failed"}
  /\ input \in Seq(Chars256)
  /\ taken \in 0..Len(input)
  /\ b \in [size : Nat, n_chars : Nat, status : {"NEW", "NORMAL", "EOF_PENDING"}]
  /\ yy_ch_buf \in [0..(b.size + 1) -> Chars256]
  /\ yy_n_chars \in Nat
  /\ yy_c_buf_p \in Nat
  /\ yytext_ptr \in Nat
  /\ yy_hold_char \in Chars256
  /\ yy_cp \in Nat
  /\ yy_bp \in Nat
  /\ yy_act \in 0..10
  /\ dfa \in DfaType
  /\ after \in {"match", "find", "nul"}
  /\ scanned \in Nat

(* The states that a letter leads to, and those that a tab leads to. *)
InWord == 7..10 \cup 12..21
InTabs == {5, 11}

(* What the text lo..hi-1 of a buffer is in each state: nothing, letters,  *)
(* tabs, or one character that no other can join.                          *)
OfKind(buf, s, lo, hi) ==
  /\ lo <= hi
  /\ s = 1 => lo = hi
  /\ s # 1 => lo < hi
  /\ s \in InWord => \A i \in lo..(hi - 1) : yy_ec[buf[i]] \in 5..12
  /\ s \in InTabs => \A i \in lo..(hi - 1) : yy_ec[buf[i]] = 2
  /\ s = 4 => hi = lo + 1 /\ yy_ec[buf[lo]] \in 0..1

(* The beginning of a token that may go on. *)
Unfinished == {1, 4} \cup InTabs \cup InWord
Uniform(buf, lo, hi) == \E s \in Unfinished : OfKind(buf, s, lo, hi)

(* The end-of-buffer characters. *)
EndsIn(buf) == yy_n_chars <= b.size /\ buf[yy_n_chars] = NUL /\ buf[yy_n_chars + 1] = NUL

(* A NUL behind the text lo..p-2 took the scanner to p. *)
AtNul(buf, lo, p) ==
  p <= yy_n_chars + 1 /\ lo < p /\ buf[p - 1] = NUL /\ Uniform(buf, lo, p - 1)

StartOK ==
  pc = "start" =>
    /\ yy_n_chars = 0 /\ yy_c_buf_p = 0 /\ yy_hold_char = NUL
    /\ taken = 0 /\ scanned = 0

(* A new buffer counts its characters itself; refilling starts with one    *)
(* that was adopted.                                                       *)
NewOK ==
  b.status = "NEW" =>
    b.n_chars = yy_n_chars /\ pc \notin {"move", "room", "input", "loaded"}

ScanOK == pc = "scan" => yy_c_buf_p <= yy_n_chars

MatchOK ==
  pc = "match" =>
    \/ dfa.state = 3 /\ AtNul(Plain, yy_bp, yy_cp)
    \/ dfa.state \in Unfinished /\ OfKind(Plain, dfa.state, yy_bp, yy_cp) /\ yy_cp <= yy_n_chars

FindOK ==
  pc = "find" =>
    LET backUp == yy_accept[dfa.state] = 0
        p == IF backUp THEN dfa.cpos ELSE yy_cp
        s == IF backUp THEN dfa.last ELSE dfa.state
    IN \/ s = 3 /\ AtNul(Plain, yy_bp, p)
       \/ s \in 4..21 /\ yy_bp < p /\ p <= yy_n_chars

ActOK ==
  pc = "act" =>
    /\ yy_c_buf_p = yy_cp
    /\ yytext_ptr < yy_cp
    /\ IF yy_act = YY_END_OF_BUFFER THEN AtNul(Plain, yytext_ptr, yy_cp)
                                    ELSE yy_cp <= yy_n_chars

PreviousOK ==
  pc = "previous" =>
    /\ yy_bp = yytext_ptr
    /\ dfa.state \in Unfinished
    /\ OfKind(Plain, dfa.state, yy_bp, yy_cp)
    /\ Uniform(Plain, yy_bp, yy_c_buf_p)
    /\ yy_cp <= yy_c_buf_p
    /\ yy_c_buf_p <= yy_n_chars
    /\ after = "nul" => yy_c_buf_p < yy_n_chars /\ Plain[yy_c_buf_p] = NUL
    /\ after = "find" => yy_bp < yy_c_buf_p

NulOK ==
  pc = "nul" =>
    /\ dfa.state \in Unfinished
    /\ OfKind(Plain, dfa.state, yy_bp, yy_cp)
    /\ yy_cp = yy_c_buf_p
    /\ yy_c_buf_p < yy_n_chars
    /\ Plain[yy_c_buf_p] = NUL

MoveOK ==
  pc = "move" =>
    /\ yy_c_buf_p = yy_n_chars + 1
    /\ yytext_ptr <= yy_n_chars
    /\ Uniform(Plain, yytext_ptr, yy_n_chars)

RefillOK ==
  pc \in {"room", "input", "loaded"} =>
    /\ number_to_move \in 0..b.size
    /\ Uniform(Plain, 0, number_to_move)
    /\ pc = "input" => num_to_read > 0
    /\ pc = "loaded" => yy_n_chars + number_to_move <= b.size

Ends == Scanning => EndsIn(Plain)

(* Every character that was taken is in a token, in the buffer, or both    *)
(* where the buffer is.                                                    *)
Accounted ==
  /\ Scanning =>
       /\ TokenStart <= yy_n_chars
       /\ taken = scanned + (yy_n_chars - TokenStart)
       /\ \A i \in TokenStart..(yy_n_chars - 1) :
            Plain[i] = input[scanned + 1 + i - TokenStart]
  /\ pc \in {"room", "input", "loaded"} =>
       LET k == number_to_move + (IF pc = "loaded" THEN yy_n_chars ELSE 0)
       IN /\ taken = scanned + k
          /\ \A i \in 0..(k - 1) : Plain[i] = input[scanned + 1 + i]

IInv ==
  /\ Types /\ StartOK /\ NewOK
  /\ ScanOK /\ MatchOK /\ FindOK /\ ActOK /\ PreviousOK /\ NulOK /\ MoveOK /\ RefillOK
  /\ Ends /\ Accounted

-----------------------------------------------------------------------------
(* The tables, entry by entry. *)

LEMMA AcceptTable ==
  /\ yy_accept[0] = 0 /\ yy_accept[1] = 0 /\ yy_accept[2] = 0 /\ yy_accept[3] = 10 /\ yy_accept[4] = 9
  /\ yy_accept[5] = 1 /\ yy_accept[6] = 8 /\ yy_accept[7] = 7 /\ yy_accept[8] = 7 /\ yy_accept[9] = 7
  /\ yy_accept[10] = 7 /\ yy_accept[11] = 1 /\ yy_accept[12] = 7 /\ yy_accept[13] = 3 /\ yy_accept[14] = 7
  /\ yy_accept[15] = 2 /\ yy_accept[16] = 7 /\ yy_accept[17] = 7 /\ yy_accept[18] = 4 /\ yy_accept[19] = 5
  /\ yy_accept[20] = 7 /\ yy_accept[21] = 6 /\ yy_accept[22] = 0
BY DEF yy_accept, FromZero

LEMMA MetaTable ==
  /\ yy_meta[0] = 0 /\ yy_meta[1] = 1 /\ yy_meta[2] = 1 /\ yy_meta[3] = 1 /\ yy_meta[4] = 1
  /\ yy_meta[5] = 2 /\ yy_meta[6] = 2 /\ yy_meta[7] = 2 /\ yy_meta[8] = 2 /\ yy_meta[9] = 2
  /\ yy_meta[10] = 2 /\ yy_meta[11] = 2 /\ yy_meta[12] = 2
BY DEF yy_meta, FromZero

LEMMA BaseTable ==
  /\ yy_base[0] = 0 /\ yy_base[1] = 0 /\ yy_base[2] = 0 /\ yy_base[3] = 25 /\ yy_base[4] = 26
  /\ yy_base[5] = 22 /\ yy_base[6] = 26 /\ yy_base[7] = 0 /\ yy_base[8] = 4 /\ yy_base[9] = 12
  /\ yy_base[10] = 9 /\ yy_base[11] = 20 /\ yy_base[12] = 0 /\ yy_base[13] = 0 /\ yy_base[14] = 14
  /\ yy_base[15] = 0 /\ yy_base[16] = 9 /\ yy_base[17] = 9 /\ yy_base[18] = 0 /\ yy_base[19] = 0
  /\ yy_base[20] = 11 /\ yy_base[21] = 0 /\ yy_base[22] = 26 /\ yy_base[23] = 15
BY DEF yy_base, FromZero

LEMMA DefTable ==
  /\ yy_def[0] = 0 /\ yy_def[1] = 22 /\ yy_def[2] = 1 /\ yy_def[3] = 22 /\ yy_def[4] = 22
  /\ yy_def[5] = 22 /\ yy_def[6] = 22 /\ yy_def[7] = 23 /\ yy_def[8] = 23 /\ yy_def[9] = 23
  /\ yy_def[10] = 23 /\ yy_def[11] = 22 /\ yy_def[12] = 23 /\ yy_def[13] = 23 /\ yy_def[14] = 23
  /\ yy_def[15] = 23 /\ yy_def[16] = 23 /\ yy_def[17] = 23 /\ yy_def[18] = 23 /\ yy_def[19] = 23
  /\ yy_def[20] = 23 /\ yy_def[21] = 23 /\ yy_def[22] = 0 /\ yy_def[23] = 22
BY DEF yy_def, FromZero

LEMMA NxtTable ==
  /\ yy_nxt[0] = 0 /\ yy_nxt[1] = 4 /\ yy_nxt[2] = 5 /\ yy_nxt[3] = 6 /\ yy_nxt[4] = 6
  /\ yy_nxt[5] = 7 /\ yy_nxt[6] = 8 /\ yy_nxt[7] = 7 /\ yy_nxt[8] = 9 /\ yy_nxt[9] = 7
  /\ yy_nxt[10] = 7 /\ yy_nxt[11] = 7 /\ yy_nxt[12] = 10 /\ yy_nxt[13] = 13 /\ yy_nxt[14] = 14
  /\ yy_nxt[15] = 16 /\ yy_nxt[16] = 17 /\ yy_nxt[17] = 12 /\ yy_nxt[18] = 21 /\ yy_nxt[19] = 20
  /\ yy_nxt[20] = 19 /\ yy_nxt[21] = 18 /\ yy_nxt[22] = 11 /\ yy_nxt[23] = 15 /\ yy_nxt[24] = 11
  /\ yy_nxt[25] = 22 /\ yy_nxt[26] = 3 /\ yy_nxt[27] = 22 /\ yy_nxt[28] = 22 /\ yy_nxt[29] = 22
  /\ yy_nxt[30] = 22 /\ yy_nxt[31] = 22 /\ yy_nxt[32] = 22 /\ yy_nxt[33] = 22 /\ yy_nxt[34] = 22
  /\ yy_nxt[35] = 22 /\ yy_nxt[36] = 22 /\ yy_nxt[37] = 22 /\ yy_nxt[38] = 22
BY DEF yy_nxt, FromZero

LEMMA ChkTable ==
  /\ yy_chk[0] = 0 /\ yy_chk[1] = 1 /\ yy_chk[2] = 1 /\ yy_chk[3] = 1 /\ yy_chk[4] = 1
  /\ yy_chk[5] = 1 /\ yy_chk[6] = 1 /\ yy_chk[7] = 1 /\ yy_chk[8] = 1 /\ yy_chk[9] = 1
  /\ yy_chk[10] = 1 /\ yy_chk[11] = 1 /\ yy_chk[12] = 1 /\ yy_chk[13] = 8 /\ yy_chk[14] = 8
  /\ yy_chk[15] = 10 /\ yy_chk[16] = 10 /\ yy_chk[17] = 23 /\ yy_chk[18] = 20 /\ yy_chk[19] = 17
  /\ yy_chk[20] = 16 /\ yy_chk[21] = 14 /\ yy_chk[22] = 11 /\ yy_chk[23] = 9 /\ yy_chk[24] = 5
  /\ yy_chk[25] = 3 /\ yy_chk[26] = 22 /\ yy_chk[27] = 22 /\ yy_chk[28] = 22 /\ yy_chk[29] = 22
  /\ yy_chk[30] = 22 /\ yy_chk[31] = 22 /\ yy_chk[32] = 22 /\ yy_chk[33] = 22 /\ yy_chk[34] = 22
  /\ yy_chk[35] = 22 /\ yy_chk[36] = 22 /\ yy_chk[37] = 22 /\ yy_chk[38] = 22
BY DEF yy_chk, FromZero

(* Every character has a class, and only NUL has class zero. *)
LEMMA Classes == \A c \in Chars256 : yy_ec[c] \in 0..12 /\ (yy_ec[c] = 0 <=> c = NUL)
BY DEF yy_ec, Chars256, NUL, NEWLINE

(* Where each kind of state goes. *)
LEMMA FromStart ==
  ASSUME NEW c \in 0..12
  PROVE  /\ c = 0 => Transition(1, c) = 3
         /\ c = 1 => Transition(1, c) = 4
         /\ c = 2 => Transition(1, c) = 5
         /\ c \in 3..4 => Transition(1, c) = 6
         /\ c \in 5..12 => Transition(1, c) \in InWord
BY MetaTable, BaseTable, DefTable, NxtTable, ChkTable DEF InWord, Transition, HasEntry, ClassFor

LEMMA FromWord ==
  ASSUME NEW s \in InWord, NEW c \in 0..12
  PROVE  /\ c = 0 => Transition(s, c) = 3
         /\ c \in 1..4 => Transition(s, c) = 22
         /\ c \in 5..12 => Transition(s, c) \in InWord
BY MetaTable, BaseTable, DefTable, NxtTable, ChkTable DEF InWord, Transition, HasEntry, ClassFor

LEMMA FromTabs ==
  ASSUME NEW s \in InTabs, NEW c \in 0..12
  PROVE  /\ c = 0 => Transition(s, c) = 3
         /\ c = 2 => Transition(s, c) = 11
         /\ c \notin {0, 2} => Transition(s, c) = 22
BY MetaTable, BaseTable, DefTable, NxtTable, ChkTable DEF InTabs, Transition, HasEntry, ClassFor

LEMMA FromOther ==
  ASSUME NEW c \in 0..12
  PROVE  /\ c = 0 => Transition(4, c) = 3
         /\ c # 0 => Transition(4, c) = 22
         /\ Transition(3, c) = 22
BY MetaTable, BaseTable, DefTable, NxtTable, ChkTable DEF Transition, HasEntry, ClassFor

(* Which states accept, and in which the matching loop stops. *)
LEMMA Accepting ==
  /\ yy_accept[1] = 0 /\ yy_accept[22] = 0 /\ yy_accept[3] = YY_END_OF_BUFFER
  /\ \A s \in 4..21 : yy_accept[s] \in 1..9
  /\ \A s \in 0..22 : yy_accept[s] \in 0..10
BY AcceptTable DEF YY_END_OF_BUFFER

LEMMA Stopping == \A s \in 1..22 : s # 2 => (Stops(s) <=> s \in {4, 6, 22})
BY BaseTable DEF Stops, JAM

-----------------------------------------------------------------------------
(* One character of the matching loop. *)

LEMMA UnfinishedStates ==
  ASSUME NEW q \in Unfinished
  PROVE  /\ q \in 1..21 /\ q \in 0..22
         /\ q = 1 \/ q = 4 \/ q \in InTabs \/ q \in InWord
         /\ q # 1 => q \in 4..21 /\ yy_accept[q] # 0
<1>1. q \in 0..22 /\ q \in 1..21 /\ (q # 1 => q \in 4..21)
  BY DEF Unfinished, InTabs, InWord
<1> QED
  BY <1>1, Accepting DEF Unfinished

(* The state after a character that is not NUL, or that counts as class    *)
(* one: the token goes on, stops behind the character, or stopped before.  *)
LEMMA StepInToken ==
  ASSUME NEW buf, NEW q \in Unfinished, NEW lo \in Nat, NEW p \in Nat, NEW c \in 1..12,
         OfKind(buf, q, lo, p), c = yy_ec[buf[p]] \/ (c = 1 /\ yy_ec[buf[p]] = 0)
  PROVE  LET s == Transition(q, c)
         IN /\ \/ s \in Unfinished /\ OfKind(buf, s, lo, p + 1)
               \/ s = 6 /\ lo = p
               \/ s = 22 /\ q # 1 /\ lo < p
            /\ q = 1 /\ c \notin 3..4 => s \in Unfinished
            /\ q \in InWord /\ c \in 5..12 => s \in Unfinished
            /\ q \in InTabs /\ c = 2 => s \in Unfinished
            /\ q # 1 /\ c = 1 => s = 22
<1> DEFINE s == Transition(q, c)
<1>w. (1 \notin InTabs) /\ (4 \notin InTabs) /\ (1 \notin InWord) /\ (4 \notin InWord) /\ (5 \notin InWord) /\ (11 \notin InWord)
      /\ (InTabs \cap InWord = {})
  BY DEF InTabs, InWord
<1>o. c \in 0..12
  OBVIOUS
<1>c. lo <= p /\ (q = 1 => lo = p) /\ (q # 1 => lo < p)
  BY DEF OfKind
<1>n. \A i \in lo..(p + 1 - 1) : i \in lo..(p - 1) \/ i = p
  OBVIOUS
<1>1. CASE q = 1
  <2>1. /\ c = 1 => s = 4
        /\ c = 2 => s = 5
        /\ c \in 3..4 => s = 6
        /\ c \in 5..12 => s \in InWord
    BY <1>1, <1>o, FromStart
  <2> HIDE DEF s
  <2>2. CASE c = 1
    BY <2>1, <2>2, <1>1, <1>c, <1>w DEF OfKind, Unfinished, s
  <2>3. CASE c = 2
    BY <2>1, <2>3, <1>1, <1>c, <1>n, <1>w DEF OfKind, Unfinished, InTabs, s
  <2>4. CASE c \in 3..4
    BY <2>1, <2>4, <1>1, <1>c, <1>w DEF s
  <2>5. CASE c \in 5..12
    <3>1. s \in InWord /\ s # 1 /\ s # 4 /\ s \notin InTabs
      BY <2>1, <2>5 DEF InWord, InTabs
    <3>2. yy_ec[buf[p]] \in 5..12
      BY <2>5
    <3>3. OfKind(buf, s, lo, p + 1)
      BY <3>1, <3>2, <1>1, <1>c, <1>n DEF OfKind
    <3> QED
      BY <2>5, <3>1, <3>3, <1>1, <1>w DEF Unfinished, s
  <2> QED
    BY <2>2, <2>3, <2>4, <2>5
<1>2. CASE q = 4
  <2>1. s = 22
    BY <1>2, <1>o, FromOther
  <2> HIDE DEF s
  <2> QED
    BY <1>2, <2>1, <1>c, <1>w DEF s
<1>3. CASE q \in InTabs
  <2>1. (c = 2 => s = 11) /\ (c # 2 => s = 22)
    BY <1>3, <1>o, FromTabs
  <2> HIDE DEF s
  <2>2. c = 2 => OfKind(buf, 11, lo, p + 1)
    <3>1. c = 2 => yy_ec[buf[p]] = 2
      OBVIOUS
    <3>2. q # 1 /\ \A i \in lo..(p - 1) : yy_ec[buf[i]] = 2
      BY <1>3, <1>w DEF OfKind
    <3> QED
      BY <1>c, <1>n, <1>w, <3>1, <3>2 DEF OfKind
  <2>3. 11 \in Unfinished
    BY DEF Unfinished, InTabs
  <2> QED
    BY <1>3, <2>1, <2>2, <2>3, <1>c, <1>w DEF s
<1>4. CASE q \in InWord
  <2>1. (c \in 1..4 => s = 22) /\ (c \in 5..12 => s \in InWord)
    BY <1>4, <1>o, FromWord
  <2> HIDE DEF s
  <2>2. c \in 5..12 => OfKind(buf, s, lo, p + 1)
    <3>1. c \in 5..12 => yy_ec[buf[p]] \in 5..12
      OBVIOUS
    <3>2. q # 1 /\ \A i \in lo..(p - 1) : yy_ec[buf[i]] \in 5..12
      BY <1>4, <1>w DEF OfKind
    <3>3. s \in InWord => s # 1 /\ s # 4 /\ s \notin InTabs
      BY DEF InWord, InTabs
    <3> QED
      BY <2>1, <1>c, <1>n, <3>1, <3>2, <3>3 DEF OfKind
  <2>3. c \in 5..12 => s \in Unfinished
    BY <2>1 DEF Unfinished
  <2>4. c \in 1..4 \/ c \in 5..12
    OBVIOUS
  <2> QED
    BY <1>4, <2>1, <2>2, <2>3, <2>4, <1>c, <1>w DEF s
<1> QED
  BY <1>1, <1>2, <1>3, <1>4, UnfinishedStates

LEMMA AdvanceType ==
  ASSUME NEW d \in DfaType, NEW p \in Nat, NEW c, Transition(d.state, c) \in 0..22
  PROVE  /\ Advance(d, p, c) \in DfaType
         /\ Advance(d, p, c).state = Transition(d.state, c)
         /\ yy_accept[d.state] # 0 =>
              Advance(d, p, c).last = d.state /\ Advance(d, p, c).cpos = p
BY DEF Advance, DfaType

AfterChar(buf, q, e, lo, p) ==
  \/ e.state \in Unfinished /\ OfKind(buf, e.state, lo, p + 1)
  \/ e.state = 6 /\ lo = p
  \/ e.state = 22 /\ e.last = q /\ e.cpos = p /\ q \in 4..21 /\ lo < p

LEMMA AdvanceInToken ==
  ASSUME NEW buf, NEW d \in DfaType, NEW lo \in Nat, NEW p \in Nat, NEW c \in 1..12,
         d.state \in Unfinished, OfKind(buf, d.state, lo, p),
         c = yy_ec[buf[p]] \/ (c = 1 /\ yy_ec[buf[p]] = 0)
  PROVE  LET e == Advance(d, p, c)
         IN /\ e \in DfaType
            /\ e.state = Transition(d.state, c)
            /\ AfterChar(buf, d.state, e, lo, p)
<1> DEFINE q == d.state
           s == Transition(q, c)
<1> HIDE DEF q
<1>1. q \in Unfinished /\ OfKind(buf, q, lo, p) /\ q = d.state
  BY DEF q
<1>2. \/ s \in Unfinished /\ OfKind(buf, s, lo, p + 1)
      \/ s = 6 /\ lo = p
      \/ s = 22 /\ q # 1 /\ lo < p
  BY <1>1, StepInToken
<1> HIDE DEF s
<1>3. s \in 0..22
  BY <1>2, UnfinishedStates
<1>4. q \in 0..22 /\ (q # 1 => q \in 4..21 /\ yy_accept[q] # 0)
  BY <1>1, UnfinishedStates
<1>5. /\ Advance(d, p, c) \in DfaType
      /\ Advance(d, p, c).state = s
      /\ yy_accept[q] # 0 => Advance(d, p, c).last = q /\ Advance(d, p, c).cpos = p
  BY <1>3, AdvanceType DEF q, s
<1> QED
  BY <1>1, <1>2, <1>4, <1>5 DEF s, AfterChar

(* A NUL takes every token that may go on to the end-of-buffer state, and  *)
(* one character more shows that nothing longer matches.                   *)
LEMMA AdvanceAtNul ==
  ASSUME NEW d \in DfaType, NEW p \in Nat, d.state \in Unfinished
  PROVE  Advance(d, p, 0) \in DfaType /\ Advance(d, p, 0).state = 3
<1>1. d.state \in {1, 4} \cup InTabs \cup InWord
  BY DEF Unfinished
<1>2. Transition(d.state, 0) = 3
  BY <1>1, FromStart, FromWord, FromTabs, FromOther
<1> QED
  BY <1>2 DEF Advance, DfaType

LEMMA AdvanceBehindNul ==
  ASSUME NEW d \in DfaType, NEW p \in Nat, NEW c \in 0..12, d.state = 3
  PROVE  /\ Advance(d, p, c) \in DfaType
         /\ Advance(d, p, c).state = 22
         /\ Advance(d, p, c).last = 3
         /\ Advance(d, p, c).cpos = p
<1>1. Transition(3, c) = 22 /\ yy_accept[3] # 0
  BY FromOther, Accepting DEF YY_END_OF_BUFFER
<1> QED
  BY <1>1 DEF Advance, DfaType

(* A state that the text leads to is there at every point of it. *)
LEMMA AdvanceInUniform ==
  ASSUME NEW buf, NEW d \in DfaType, NEW lo \in Nat, NEW p \in Nat, NEW hi \in Nat,
         NEW c \in 1..12, c = yy_ec[buf[p]] \/ (c = 1 /\ yy_ec[buf[p]] = 0),
         d.state \in Unfinished, OfKind(buf, d.state, lo, p),
         Uniform(buf, lo, hi), p < hi
  PROVE  LET e == Advance(d, p, c)
         IN e \in DfaType /\ e.state \in Unfinished /\ OfKind(buf, e.state, lo, p + 1)
<1> DEFINE q == d.state
           s == Transition(q, c)
<1>q. q \in Unfinished /\ OfKind(buf, q, lo, p) /\ p \in Nat
  OBVIOUS
<1>2. c = yy_ec[buf[p]] \/ (c = 1 /\ yy_ec[buf[p]] = 0)
  OBVIOUS
<1>3. PICK t \in Unfinished : OfKind(buf, t, lo, hi)
  BY DEF Uniform
<1>a. /\ \/ s \in Unfinished
         \/ s = 6 \/ s = 22
      /\ q = 1 /\ c \notin 3..4 => s \in Unfinished
      /\ q \in InWord /\ c \in 5..12 => s \in Unfinished
      /\ q \in InTabs /\ c = 2 => s \in Unfinished
  BY <1>2, <1>q, StepInToken
<1> HIDE DEF q
<1>c. OfKind(buf, s, lo, p + 1) \/ s = 6 \/ s = 22
  BY <1>2, <1>q, StepInToken
<1> HIDE DEF s
<1>4. lo <= p /\ p \in lo..(hi - 1) /\ t # 1
  BY <1>3, <1>q DEF OfKind
<1>5. q # 1 => lo \in lo..(p - 1) /\ lo \in lo..(hi - 1)
  BY <1>4, <1>q DEF OfKind
<1>6. /\ q = 1 \/ q = 4 \/ q \in InTabs \/ q \in InWord
      /\ t = 4 \/ t \in InTabs \/ t \in InWord
  BY <1>3, <1>4, <1>q, UnfinishedStates
<1>7. /\ q = 4 => yy_ec[buf[lo]] \in 0..1
      /\ q \in InTabs => yy_ec[buf[lo]] = 2
      /\ q \in InWord => yy_ec[buf[lo]] \in 5..12
  <2>1. (q = 4 \/ q \in InTabs \/ q \in InWord) => q # 1
    BY DEF InTabs, InWord
  <2> QED
    BY <1>q, <1>5, <2>1 DEF OfKind
<1>8. s \in Unfinished
  <2>1. CASE t = 4
    <3>1. hi = lo + 1 /\ yy_ec[buf[lo]] \in 0..1
      BY <2>1, <1>3 DEF OfKind
    <3>2. q = 1 /\ p = lo
      BY <3>1, <1>4, <1>5, <1>q
    <3> QED
      BY <3>1, <3>2, <1>2, <1>a
  <2>2. CASE t \in InTabs
    <3>1. \A i \in lo..(hi - 1) : yy_ec[buf[i]] = 2
      BY <2>2, <1>3 DEF OfKind
    <3>2. c = 2 /\ (q = 1 \/ q \in InTabs)
      BY <3>1, <1>2, <1>4, <1>5, <1>6, <1>7
    <3> QED
      BY <3>2, <1>a
  <2>3. CASE t \in InWord
    <3>1. \A i \in lo..(hi - 1) : yy_ec[buf[i]] \in 5..12
      BY <2>3, <1>3 DEF OfKind
    <3>2. c \in 5..12 /\ (q = 1 \/ q \in InWord)
      BY <3>1, <1>2, <1>4, <1>5, <1>6, <1>7
    <3> QED
      BY <3>2, <1>a
  <2> QED
    BY <1>6, <2>1, <2>2, <2>3
<1>9. s # 6 /\ s # 22
  BY <1>8 DEF Unfinished, InTabs, InWord
<1>b. Advance(d, p, c) \in DfaType /\ Advance(d, p, c).state = s
  BY <1>8, UnfinishedStates, AdvanceType DEF q, s
<1> QED
  BY <1>8, <1>9, <1>b, <1>c

-----------------------------------------------------------------------------
(* The text of the buffer as the steps see it. *)

LEMMA TokenStarts ==
  /\ pc = "scan" => TokenStart = yy_c_buf_p
  /\ pc \in {"match", "find", "previous", "nul"} => TokenStart = yy_bp
  /\ pc \in {"act", "move"} => TokenStart = yytext_ptr
BY DEF TokenStart

LEMMA TokenStartsNext ==
  /\ pc' = "scan" => TokenStart' = yy_c_buf_p'
  /\ pc' \in {"match", "find", "previous", "nul"} => TokenStart' = yy_bp'
  /\ pc' \in {"act", "move"} => TokenStart' = yytext_ptr'
BY DEF TokenStart

LEMMA PlainText ==
  ASSUME Types
  PROVE  /\ Plain \in [0..(b.size + 1) -> Chars256]
         /\ pc \notin {"scan", "act"} => Plain = yy_ch_buf
BY DEF Types, Plain

LEMMA BufferSize ==
  ASSUME Types
  PROVE  b.size \in Nat /\ yy_n_chars \in Nat /\ yy_cp \in Nat /\ yy_bp \in Nat
         /\ yy_c_buf_p \in Nat /\ yytext_ptr \in Nat /\ dfa \in DfaType
BY DEF Types

(* Text that is copied to another place is of the same kind there. *)
LEMMA UniformMoved ==
  ASSUME NEW buf, NEW copy, NEW lo \in Nat, NEW hi \in Nat, NEW to \in Nat,
         Uniform(buf, lo, hi),
         \A i \in 0..(hi - lo - 1) : copy[to + i] = buf[lo + i]
  PROVE  Uniform(copy, to, to + hi - lo)
<1>1. PICK s \in Unfinished : OfKind(buf, s, lo, hi)
  BY DEF Uniform
<1>2. \A i \in to..(to + hi - lo - 1) : copy[i] = buf[lo + (i - to)]
  <2> TAKE i \in to..(to + hi - lo - 1)
  <2>1. i - to \in 0..(hi - lo - 1) /\ to + (i - to) = i
    OBVIOUS
  <2> QED
    BY <2>1
<1>3. \A i \in to..(to + hi - lo - 1) : lo + (i - to) \in lo..(hi - 1)
  OBVIOUS
<1>4. hi = lo + 1 => to \in to..(to + hi - lo - 1) /\ lo + (to - to) = lo
  OBVIOUS
<1>5. OfKind(copy, s, to, to + hi - lo)
  BY <1>1, <1>2, <1>3, <1>4 DEF OfKind
<1> QED
  BY <1>5 DEF Uniform

LEMMA UniformKept ==
  ASSUME NEW buf, NEW copy, NEW hi \in Nat, Uniform(buf, 0, hi),
         \A i \in 0..(hi - 1) : copy[i] = buf[i]
  PROVE  Uniform(copy, 0, hi)
<1>1. PICK s \in Unfinished : OfKind(buf, s, 0, hi)
  BY DEF Uniform
<1>2. hi = 0 + 1 => 0 \in 0..(hi - 1)
  OBVIOUS
<1>3. OfKind(copy, s, 0, hi)
  BY <1>1, <1>2 DEF OfKind
<1> QED
  BY <1>3 DEF Uniform

-----------------------------------------------------------------------------
(* The steps. *)

LEMMA InitInvariant == Init => IInv
<1> SUFFICES ASSUME Init PROVE IInv
  OBVIOUS
<1>1. input \in Seq(Chars256)
  BY InputsAssumption DEF Init, Chars256
<1>2. Fresh(0) \in [0..1 -> Chars256]
  BY DEF Fresh, NUL, Chars256
<1>3. dfa \in DfaType
  BY DEF Init, DfaType
<1>4. Len(input) \in Nat
  BY <1>1
<1>5. Types
  BY <1>1, <1>2, <1>3, <1>4 DEF Init, Types, Chars256, NUL
<1> QED
  BY <1>5 DEF Init, IInv, StartOK, NewOK, ScanOK, MatchOK, FindOK, ActOK, PreviousOK, NulOK,
              MoveOK, RefillOK, Ends, Accounted, Scanning, NUL

(* A failure leaves everything else as it is. *)
LEMMA FailStep ==
  ASSUME IInv, OutOfMemory \/ InputFailed
  PROVE  IInv'
<1>1. pc' \in {"out of memory", "input failed"}
  BY DEF OutOfMemory, InputFailed, Goto
<1>2. UNCHANGED <<source, stream, buffer, token, locals, printed>>
  BY DEF OutOfMemory, InputFailed
<1>3. Types'
  BY <1>1, <1>2 DEF IInv, Types, source, stream, buffer, token, locals, printed
<1>4. NewOK'
  BY <1>1, <1>2 DEF IInv, NewOK, buffer
<1> QED
  BY <1>1, <1>3, <1>4 DEF IInv, StartOK, NewOK, ScanOK, MatchOK, FindOK, ActOK, PreviousOK, NulOK,
                     MoveOK, RefillOK, Ends, Accounted, Scanning

LEMMA InitialiseStep ==
  ASSUME IInv, Initialise
  PROVE  IInv'
<1> SUFFICES ASSUME pc = "start", pc' = "scan",
                    yy_ch_buf' = Fresh(YY_BUF_SIZE), b' = [b EXCEPT !.size = YY_BUF_SIZE],
                    UNCHANGED <<source, stream, yy_n_chars, token, locals, printed>>
             PROVE  IInv'
  BY FailStep DEF Initialise, Goto
<1>1. Fresh(YY_BUF_SIZE) \in [0..(YY_BUF_SIZE + 1) -> Chars256]
  BY SizesAssumption DEF Fresh, NUL, Chars256
<1>2. b' \in [size : Nat, n_chars : Nat, status : {"NEW", "NORMAL", "EOF_PENDING"}]
      /\ b'.size = YY_BUF_SIZE /\ b'.n_chars = b.n_chars /\ b'.status = b.status
  BY SizesAssumption DEF IInv, Types
<1>3. Types'
  BY <1>1, <1>2 DEF IInv, Types, source, stream, token, locals, printed
<1>4. yy_n_chars' = 0 /\ yy_c_buf_p' = 0 /\ yy_hold_char' = NUL /\ taken' = 0 /\ scanned' = 0
  BY DEF IInv, StartOK, token, stream, printed
<1>5. NewOK'
  BY <1>2 DEF IInv, NewOK
<1>6. /\ Fresh(YY_BUF_SIZE)[0] = NUL /\ Fresh(YY_BUF_SIZE)[1] = NUL
      /\ DOMAIN Fresh(YY_BUF_SIZE) = 0..(YY_BUF_SIZE + 1)
  BY SizesAssumption DEF Fresh
<1>7. Ends'
  BY <1>2, <1>4, <1>6, SizesAssumption DEF Ends, EndsIn, Plain
<1>8. Accounted'
  BY <1>4, TokenStartsNext DEF Accounted
<1> QED
  BY <1>3, <1>4, <1>5, <1>7, <1>8
     DEF IInv, StartOK, ScanOK, MatchOK, FindOK, ActOK, PreviousOK, NulOK, MoveOK, RefillOK

LEMMA BeginTokenStep ==
  ASSUME IInv, BeginToken
  PROVE  IInv'
<1> USE DEF BeginToken, Goto, source, stream, token, printed
<1>1. pc = "scan" /\ pc' = "match" /\ Types
  BY DEF IInv
<1>d. dfa' \in DfaType /\ dfa'.state = 1
  BY <1>1, BufferSize DEF Started, DfaType
<1>b. yy_ch_buf' \in [0..(b.size + 1) -> Chars256]
  BY <1>1 DEF Types
<1>t. Types'
  BY <1>1, <1>d, <1>b DEF Types
<1>2. Plain' = Plain
  BY <1>1 DEF Plain
<1>3. yy_c_buf_p <= yy_n_chars
  BY <1>1 DEF IInv, ScanOK
<1>4. MatchOK'
  BY <1>1, <1>2, <1>3, <1>d, BufferSize DEF MatchOK, Unfinished, OfKind, InTabs, InWord
<1>5. NewOK'
  BY <1>1 DEF IInv, NewOK
<1>6. Ends'
  BY <1>1, <1>2 DEF IInv, Ends, Scanning, EndsIn
<1>7. Accounted'
  BY <1>1, <1>2, TokenStarts, TokenStartsNext DEF IInv, Accounted, Scanning
<1> QED
  BY <1>1, <1>t, <1>4, <1>5, <1>6, <1>7
     DEF IInv, StartOK, ScanOK, FindOK, ActOK, PreviousOK, NulOK, MoveOK, RefillOK

LEMMA MatchCharStep ==
  ASSUME IInv, MatchChar
  PROVE  IInv'
<1> DEFINE c == yy_ec[yy_ch_buf[yy_cp]]
           e == Advance(dfa, yy_cp, c)
<1>1. /\ pc = "match" /\ dfa' = e /\ yy_cp' = yy_cp + 1
      /\ pc' = IF Stops(e.state) THEN "find" ELSE "match"
      /\ UNCHANGED <<source, stream, buffer, token, yy_bp, yy_act, after, printed>>
  BY DEF MatchChar, Goto
<1>2. Types /\ yy_ch_buf \in [0..(b.size + 1) -> Chars256] /\ b.size \in Nat
      /\ yy_n_chars \in Nat /\ yy_cp \in Nat /\ yy_bp \in Nat /\ dfa \in DfaType
  BY DEF IInv, Types
<1>3. Plain = yy_ch_buf /\ Plain' = yy_ch_buf
  BY <1>1 DEF Plain, buffer
<1>4. yy_n_chars <= b.size /\ yy_ch_buf[yy_n_chars] = NUL /\ yy_ch_buf[yy_n_chars + 1] = NUL
  BY <1>1, <1>3 DEF IInv, Ends, Scanning, EndsIn
<1>5. \/ dfa.state = 3 /\ AtNul(yy_ch_buf, yy_bp, yy_cp)
      \/ dfa.state \in Unfinished /\ OfKind(yy_ch_buf, dfa.state, yy_bp, yy_cp)
         /\ yy_cp <= yy_n_chars
  BY <1>1, <1>3 DEF IInv, MatchOK
<1>6. yy_cp <= yy_n_chars + 1
  BY <1>2, <1>5 DEF AtNul
<1>7. c \in 0..12 /\ (c = 0 <=> yy_ch_buf[yy_cp] = NUL)
  BY <1>2, <1>4, <1>6, Classes
<1> HIDE DEF c, e
<1>8. e \in DfaType /\ IF pc' = "match" THEN MatchOK' ELSE FindOK'
  <2>1. CASE dfa.state = 3
    <3>1. e \in DfaType /\ e.state = 22 /\ e.last = 3 /\ e.cpos = yy_cp
      BY <2>1, <1>2, <1>7, AdvanceBehindNul DEF e
    <3>2. pc' = "find"
      BY <3>1, <1>1, Stopping
    <3>3. AtNul(yy_ch_buf, yy_bp, yy_cp)
      BY <2>1, <1>5 DEF Unfinished, InTabs, InWord
    <3> QED
      BY <3>1, <3>2, <3>3, <1>1, <1>3, Accepting DEF FindOK, AtNul, buffer
  <2>2. CASE dfa.state # 3 /\ c = 0
    <3>1. dfa.state \in Unfinished /\ OfKind(yy_ch_buf, dfa.state, yy_bp, yy_cp)
          /\ yy_cp <= yy_n_chars
      BY <2>2, <1>5
    <3>2. e \in DfaType /\ e.state = 3
      BY <2>2, <3>1, <1>2, AdvanceAtNul DEF e
    <3>3. pc' = "match"
      BY <3>2, <1>1, Stopping
    <3>4. yy_bp <= yy_cp /\ Uniform(yy_ch_buf, yy_bp, yy_cp)
      BY <3>1 DEF Uniform, OfKind
    <3>5. yy_cp + 1 - 1 = yy_cp /\ yy_bp < yy_cp + 1
      BY <3>4, <1>2
    <3>6. AtNul(yy_ch_buf, yy_bp, yy_cp + 1)
      BY <2>2, <3>1, <3>4, <3>5, <1>2, <1>7 DEF AtNul
    <3> QED
      BY <3>2, <3>3, <3>6, <1>1, <1>3 DEF MatchOK, AtNul, buffer
  <2>3. CASE dfa.state # 3 /\ c # 0
    <3>1. dfa.state \in Unfinished /\ OfKind(yy_ch_buf, dfa.state, yy_bp, yy_cp)
          /\ yy_cp <= yy_n_chars /\ yy_bp <= yy_cp
      BY <2>3, <1>5 DEF OfKind
    <3>2. yy_cp + 1 <= yy_n_chars
      BY <2>3, <3>1, <1>2, <1>4, <1>7
    <3>3. c \in 1..12 /\ c = yy_ec[yy_ch_buf[yy_cp]]
      BY <2>3, <1>7 DEF c
    <3>a. e \in DfaType /\ AfterChar(yy_ch_buf, dfa.state, e, yy_bp, yy_cp)
      BY <3>1, <3>3, <1>2, AdvanceInToken DEF e
    <3>4. /\ e \in DfaType
          /\ \/ e.state \in Unfinished /\ OfKind(yy_ch_buf, e.state, yy_bp, yy_cp + 1)
             \/ e.state = 6 /\ yy_bp = yy_cp
             \/ /\ e.state = 22 /\ e.last = dfa.state /\ e.cpos = yy_cp /\ dfa.state \in 4..21
                /\ yy_bp < yy_cp
      BY <3>a DEF AfterChar
    <3>5. CASE e.state \in Unfinished /\ OfKind(yy_ch_buf, e.state, yy_bp, yy_cp + 1)
      <4>1. CASE e.state = 4
        <5>1. pc' = "find" /\ yy_accept[4] # 0
          BY <4>1, <1>1, Stopping, Accepting
        <5> QED
          BY <4>1, <5>1, <3>1, <3>2, <3>4, <1>1, <1>2 DEF FindOK, buffer
      <4>2. CASE e.state # 4
        <5>1. e.state \notin {4, 6, 22} /\ e.state \in 1..22 /\ e.state # 2
          BY <4>2, <3>5 DEF Unfinished, InTabs, InWord
        <5>2. pc' = "match"
          BY <5>1, <1>1, Stopping
        <5> QED
          BY <5>2, <3>2, <3>4, <3>5, <1>1, <1>3 DEF MatchOK, buffer
      <4> QED
        BY <4>1, <4>2
    <3>6. CASE e.state = 6 /\ yy_bp = yy_cp
      <4>1. pc' = "find" /\ yy_accept[6] # 0
        BY <3>6, <1>1, Stopping, Accepting
      <4> QED
        BY <3>6, <4>1, <3>2, <3>4, <1>1, <1>2 DEF FindOK, buffer
    <3>7. CASE e.state = 22 /\ e.last = dfa.state /\ e.cpos = yy_cp /\ dfa.state \in 4..21
               /\ yy_bp < yy_cp
      <4>1. pc' = "find" /\ yy_accept[22] = 0
        BY <3>7, <1>1, Stopping, Accepting
      <4> QED
        BY <3>7, <4>1, <3>1, <3>4, <1>1, <1>2 DEF FindOK, buffer
    <3> QED
      BY <3>4, <3>5, <3>6, <3>7
  <2> QED
    BY <2>1, <2>2, <2>3
<1>9. pc' \in {"match", "find"}
  BY <1>1
<1>10. Types'
  BY <1>1, <1>2, <1>8, <1>9 DEF Types, source, stream, buffer, token, printed
<1>11. NewOK'
  BY <1>1, <1>9 DEF IInv, NewOK, buffer
<1>12. Ends'
  BY <1>1, <1>3, <1>9 DEF IInv, Ends, Scanning, EndsIn, buffer
<1>13. Accounted'
  BY <1>1, <1>3, <1>9, TokenStarts, TokenStartsNext
     DEF IInv, Accounted, Scanning, buffer, stream, source, printed
<1> QED
  BY <1>8, <1>9, <1>10, <1>11, <1>12, <1>13
     DEF IInv, StartOK, ScanOK, MatchOK, FindOK, ActOK, PreviousOK, NulOK, MoveOK, RefillOK

LEMMA FindActionStep ==
  ASSUME IInv, FindAction
  PROVE  IInv'
<1> DEFINE p == IF yy_accept[dfa.state] = 0 THEN dfa.cpos ELSE yy_cp
           s == IF yy_accept[dfa.state] = 0 THEN dfa.last ELSE dfa.state
<1>1. /\ pc = "find" /\ pc' = "act"
      /\ yy_act' = yy_accept[s] /\ dfa' = [dfa EXCEPT !.state = s]
      /\ yy_cp' = p /\ yy_c_buf_p' = p /\ yy_hold_char' = yy_ch_buf[p]
      /\ yy_ch_buf' = [yy_ch_buf EXCEPT ![p] = NUL]
      /\ yytext_ptr' = yy_bp
      /\ UNCHANGED <<source, stream, b, yy_n_chars, yy_bp, after, printed>>
  BY DEF FindAction, Goto
<1>2. \/ s = 3 /\ AtNul(Plain, yy_bp, p)
      \/ s \in 4..21 /\ yy_bp < p /\ p <= yy_n_chars
  BY <1>1 DEF IInv, FindOK
<1>3. p \in Nat /\ s \in 0..22
  BY BufferSize DEF IInv, DfaType
<1> HIDE DEF p, s
<1>4. Types /\ yy_ch_buf \in [0..(b.size + 1) -> Chars256] /\ b.size \in Nat
      /\ yy_n_chars \in Nat /\ yy_bp \in Nat
  BY DEF IInv, Types
<1>5. Plain = yy_ch_buf
  BY <1>1 DEF Plain
<1>6. yy_n_chars <= b.size
  BY <1>1 DEF IInv, Ends, Scanning, EndsIn
<1>7. p \in 0..(b.size + 1) /\ yy_bp < p
  BY <1>2, <1>3, <1>4, <1>6 DEF AtNul
<1>8. Plain' = Plain
  BY <1>1, <1>4, <1>5, <1>7 DEF Plain
<1>9. ActOK'
  <2>1. CASE s = 3 /\ AtNul(Plain, yy_bp, p)
    <3>1. AtNul(Plain', yytext_ptr', yy_cp')
      BY <2>1, <1>1, <1>8
    <3>2. AtNul(Plain, yytext_ptr, yy_cp)'
      BY <3>1, <1>1 DEF AtNul, Uniform
    <3> QED
      BY <2>1, <3>2, <1>1, <1>7, Accepting DEF ActOK
  <2>2. CASE s \in 4..21 /\ yy_bp < p /\ p <= yy_n_chars
    <3>1. yy_act' \in 1..9 /\ yy_act' # YY_END_OF_BUFFER
      BY <2>2, <1>1, Accepting DEF YY_END_OF_BUFFER
    <3> QED
      BY <2>2, <3>1, <1>1 DEF ActOK
  <2> QED
    BY <1>2, <2>1, <2>2
<1>10. Types'
  <2>a. NUL \in Chars256
    BY DEF NUL, Chars256
  <2>1. yy_ch_buf' \in [0..(b.size + 1) -> Chars256] /\ yy_hold_char' \in Chars256
    BY <1>1, <1>4, <1>7, <2>a
  <2>2. dfa' \in DfaType
    BY <1>1, <1>3, BufferSize DEF DfaType, IInv
  <2>3. yy_act' \in 0..10
    BY <1>1, <1>3, Accepting
  <2> QED
    BY <1>1, <1>3, <1>4, <2>1, <2>2, <2>3 DEF Types, source, stream, printed
<1>11. NewOK'
  BY <1>1 DEF IInv, NewOK
<1>12. Ends'
  BY <1>1, <1>8 DEF IInv, Ends, Scanning, EndsIn
<1>13. Accounted'
  BY <1>1, <1>8, TokenStarts, TokenStartsNext
     DEF IInv, Accounted, Scanning, stream, source, printed
<1> QED
  BY <1>1, <1>9, <1>10, <1>11, <1>12, <1>13
     DEF IInv, StartOK, ScanOK, MatchOK, FindOK, PreviousOK, NulOK, MoveOK, RefillOK

LEMMA RuleStep ==
  ASSUME IInv, Rule
  PROVE  IInv'
<1>1. /\ pc = "act" /\ pc' = "scan" /\ yy_act \in 1..9
      /\ scanned' = scanned + Len(yytext)
      /\ UNCHANGED <<source, stream, buffer, token, locals>>
  BY DEF Rule, Goto
<1>2. Types /\ yy_n_chars \in Nat /\ yytext_ptr \in Nat /\ yy_cp \in Nat /\ scanned \in Nat
  BY DEF IInv, Types
<1>3. yy_c_buf_p = yy_cp /\ yytext_ptr < yy_cp /\ yy_cp <= yy_n_chars
  BY <1>1 DEF IInv, ActOK, YY_END_OF_BUFFER
<1>4. Len(yytext) = yy_cp - yytext_ptr
  BY <1>2, <1>3 DEF yytext
<1>5. Plain' = Plain
  BY <1>1 DEF Plain, buffer, token
<1>6. Types'
  BY <1>1, <1>2, <1>3, <1>4 DEF Types, source, stream, buffer, token, locals
<1>7. ScanOK'
  BY <1>1, <1>3 DEF ScanOK, buffer, token
<1>8. NewOK'
  BY <1>1 DEF IInv, NewOK, buffer
<1>9. Ends'
  BY <1>1, <1>5 DEF IInv, Ends, Scanning, EndsIn, buffer
<1>10. Accounted'
  <2>1. /\ TokenStart = yytext_ptr /\ TokenStart' = yy_cp
        /\ scanned' = scanned + (yy_cp - yytext_ptr)
        /\ yy_n_chars' = yy_n_chars /\ taken' = taken /\ input' = input
    BY <1>1, <1>3, <1>4, TokenStarts, TokenStartsNext DEF token, buffer, stream, source
  <2>2. /\ taken = scanned + (yy_n_chars - yytext_ptr)
        /\ \A i \in yytext_ptr..(yy_n_chars - 1) : Plain[i] = input[scanned + 1 + i - yytext_ptr]
    BY <2>1, <1>1 DEF IInv, Accounted, Scanning
  <2>3. taken' = scanned' + (yy_n_chars' - TokenStart')
    BY <2>1, <2>2, <1>2
  <2>4. \A i \in yy_cp..(yy_n_chars - 1) : Plain'[i] = input'[scanned' + 1 + i - yy_cp]
    <3> TAKE i \in yy_cp..(yy_n_chars - 1)
    <3>1. i \in yytext_ptr..(yy_n_chars - 1)
          /\ scanned' + 1 + i - yy_cp = scanned + 1 + i - yytext_ptr
      BY <2>1, <1>2, <1>3
    <3> QED
      BY <3>1, <2>1, <2>2, <1>5
  <2> QED
    BY <2>1, <2>3, <2>4, <1>1, <1>3 DEF Accounted
<1> QED
  BY <1>1, <1>6, <1>7, <1>8, <1>9, <1>10
     DEF IInv, StartOK, MatchOK, FindOK, ActOK, PreviousOK, NulOK, MoveOK, RefillOK

(* At the end-of-buffer state the buffer is adopted and the text restored. *)
LEMMA AtEndOfBuffer ==
  ASSUME IInv, pc = "act", yy_act = YY_END_OF_BUFFER
  PROVE  /\ Chars = yy_n_chars
         /\ Restored = Plain
         /\ Adopted \in [size : Nat, n_chars : Nat, status : {"NORMAL", "EOF_PENDING"}]
         /\ Adopted.size = b.size
         /\ yy_c_buf_p = yy_cp /\ yytext_ptr < yy_cp
         /\ AtNul(Plain, yytext_ptr, yy_cp)
<1>1. b \in [size : Nat, n_chars : Nat, status : {"NEW", "NORMAL", "EOF_PENDING"}]
  BY DEF IInv, Types
<1>2. yy_c_buf_p = yy_cp /\ yytext_ptr < yy_cp /\ AtNul(Plain, yytext_ptr, yy_cp)
  BY DEF IInv, ActOK
<1>3. Chars = yy_n_chars
  BY DEF IInv, NewOK, Chars
<1>4. Restored = Plain
  BY <1>2 DEF Restored, Plain
<1>5. Adopted \in [size : Nat, n_chars : Nat, status : {"NORMAL", "EOF_PENDING"}]
      /\ Adopted.size = b.size
  BY <1>1 DEF Adopted
<1> QED
  BY <1>2, <1>3, <1>4, <1>5

LEMMA RealNulStep ==
  ASSUME IInv, RealNul
  PROVE  IInv'
<1>1. /\ pc = "act" /\ pc' = "previous" /\ yy_act = YY_END_OF_BUFFER
      /\ yy_c_buf_p <= Chars
      /\ yy_ch_buf' = Restored /\ b' = Adopted /\ yy_n_chars' = Chars
      /\ yy_c_buf_p' = yy_cp - 1 /\ yy_bp' = yytext_ptr
      /\ yy_cp' = yytext_ptr' /\ dfa' = Started /\ after' = "nul"
      /\ UNCHANGED <<source, stream, yytext_ptr, yy_hold_char, yy_act, printed>>
  BY DEF RealNul, Previous, Goto
<1>2. /\ Chars = yy_n_chars /\ Restored = Plain
      /\ Adopted \in [size : Nat, n_chars : Nat, status : {"NORMAL", "EOF_PENDING"}]
      /\ Adopted.size = b.size
      /\ yy_c_buf_p = yy_cp /\ yytext_ptr < yy_cp /\ AtNul(Plain, yytext_ptr, yy_cp)
  BY <1>1, AtEndOfBuffer
<1>3. Types /\ yy_n_chars \in Nat /\ yytext_ptr \in Nat /\ yy_cp \in Nat
      /\ Plain \in [0..(b.size + 1) -> Chars256]
  BY PlainText DEF IInv, Types
<1>4. yy_n_chars' = yy_n_chars /\ Plain' = Plain /\ yytext_ptr' = yytext_ptr /\ yy_cp - 1 \in Nat
  BY <1>1, <1>2, <1>3 DEF Plain
<1>5. dfa' \in DfaType /\ dfa'.state = 1
  BY <1>1, BufferSize DEF IInv, Started, DfaType
<1>6. Types'
  BY <1>1, <1>2, <1>3, <1>4, <1>5 DEF Types, source, stream, printed
<1>7. PreviousOK'
  <2>1. Uniform(Plain, yytext_ptr, yy_cp - 1) /\ Plain[yy_cp - 1] = NUL
    BY <1>2 DEF AtNul
  <2>2. OfKind(Plain, 1, yytext_ptr, yytext_ptr)
    BY <1>3 DEF OfKind, InWord, InTabs
  <2>3. 1 \in Unfinished
    BY DEF Unfinished
  <2>4. yytext_ptr <= yy_cp - 1 /\ yy_cp - 1 < yy_n_chars
    BY <1>1, <1>2, <1>3
  <2> QED
    BY <2>1, <2>2, <2>3, <2>4, <1>1, <1>3, <1>4, <1>5 DEF PreviousOK
<1>8. NewOK'
  BY <1>1, <1>2 DEF NewOK
<1>9. Ends'
  BY <1>1, <1>2, <1>4 DEF IInv, Ends, Scanning, EndsIn
<1>10. Accounted'
  BY <1>1, <1>4, TokenStarts, TokenStartsNext
     DEF IInv, Accounted, Scanning, stream, source, printed
<1> QED
  BY <1>1, <1>6, <1>7, <1>8, <1>9, <1>10
     DEF IInv, StartOK, ScanOK, MatchOK, FindOK, ActOK, NulOK, MoveOK, RefillOK

LEMMA EndOfBufferStep ==
  ASSUME IInv, EndOfBuffer
  PROVE  IInv'
<1>1. /\ pc = "act" /\ pc' = "move" /\ yy_act = YY_END_OF_BUFFER
      /\ yy_c_buf_p > Chars
      /\ yy_ch_buf' = Restored /\ b' = Adopted /\ yy_n_chars' = Chars
      /\ UNCHANGED <<source, stream, token, locals, printed>>
  BY DEF EndOfBuffer, Goto
<1>2. /\ Chars = yy_n_chars /\ Restored = Plain
      /\ Adopted \in [size : Nat, n_chars : Nat, status : {"NORMAL", "EOF_PENDING"}]
      /\ Adopted.size = b.size
      /\ yy_c_buf_p = yy_cp /\ yytext_ptr < yy_cp /\ AtNul(Plain, yytext_ptr, yy_cp)
  BY <1>1, AtEndOfBuffer
<1>3. Types /\ yy_n_chars \in Nat /\ yytext_ptr \in Nat /\ yy_cp \in Nat
      /\ Plain \in [0..(b.size + 1) -> Chars256]
  BY PlainText DEF IInv, Types
<1>4. yy_n_chars' = yy_n_chars /\ Plain' = Plain
  BY <1>1, <1>2 DEF Plain
<1>5. Types'
  BY <1>1, <1>2, <1>3, <1>4 DEF Types, source, stream, token, locals, printed
<1>6. MoveOK'
  <2>1. yy_cp = yy_n_chars + 1 /\ yytext_ptr <= yy_n_chars /\ yy_cp - 1 = yy_n_chars
    BY <1>1, <1>2, <1>3 DEF AtNul
  <2>2. Uniform(Plain, yytext_ptr, yy_n_chars)
    BY <2>1, <1>2 DEF AtNul
  <2> QED
    BY <2>1, <2>2, <1>1, <1>2, <1>4 DEF MoveOK, token
<1>7. NewOK'
  BY <1>1, <1>2 DEF NewOK
<1>8. Ends'
  BY <1>1, <1>2, <1>4 DEF IInv, Ends, Scanning, EndsIn
<1>9. Accounted'
  BY <1>1, <1>4, TokenStarts, TokenStartsNext
     DEF IInv, Accounted, Scanning, stream, source, printed, token
<1> QED
  BY <1>1, <1>5, <1>6, <1>7, <1>8, <1>9
     DEF IInv, StartOK, ScanOK, MatchOK, FindOK, ActOK, PreviousOK, NulOK, RefillOK

LEMMA TryNulStep ==
  ASSUME IInv, TryNul
  PROVE  IInv'
<1> DEFINE e == Advance(dfa, yy_c_buf_p, 1)
<1>1. /\ pc = "nul"
      /\ \/ /\ e.state # JAM /\ dfa' = e
            /\ yy_c_buf_p' = yy_c_buf_p + 1 /\ yy_cp' = yy_c_buf_p + 1
            /\ pc' = "match"
         \/ /\ e.state = JAM /\ dfa' = [e EXCEPT !.state = dfa.state]
            /\ pc' = "find"
            /\ UNCHANGED <<yy_c_buf_p, yy_cp>>
      /\ UNCHANGED <<source, stream, buffer, yytext_ptr, yy_hold_char, yy_bp, yy_act, after, printed>>
  BY DEF TryNul, Goto
<1>2. Types /\ yy_n_chars \in Nat /\ yy_bp \in Nat /\ yy_cp \in Nat /\ dfa \in DfaType
      /\ yy_c_buf_p \in Nat
  BY DEF IInv, Types
<1>3. Plain = yy_ch_buf /\ Plain' = yy_ch_buf
  BY <1>1 DEF Plain, buffer
<1>4. /\ dfa.state \in Unfinished
      /\ OfKind(yy_ch_buf, dfa.state, yy_bp, yy_c_buf_p)
      /\ yy_cp = yy_c_buf_p /\ yy_c_buf_p < yy_n_chars
      /\ yy_ch_buf[yy_c_buf_p] = NUL
  BY <1>1, <1>3 DEF IInv, NulOK
<1>5. yy_ec[yy_ch_buf[yy_c_buf_p]] = 0
  BY <1>4, Classes DEF NUL, Chars256
<1>6. e \in DfaType /\ AfterChar(yy_ch_buf, dfa.state, e, yy_bp, yy_c_buf_p)
      /\ e.state = Transition(dfa.state, 1)
  <2> SUFFICES ASSUME NEW c \in 1..12, c = 1
               PROVE  LET x == Advance(dfa, yy_c_buf_p, c)
                      IN x \in DfaType /\ AfterChar(yy_ch_buf, dfa.state, x, yy_bp, yy_c_buf_p)
                         /\ x.state = Transition(dfa.state, c)
    OBVIOUS
  <2>1. c = yy_ec[yy_ch_buf[yy_c_buf_p]] \/ (c = 1 /\ yy_ec[yy_ch_buf[yy_c_buf_p]] = 0)
    BY <1>5
  <2> QED
    BY <1>2, <1>4, <2>1, AdvanceInToken
<1>7. /\ dfa.state = 1 => Transition(dfa.state, 1) = 4
      /\ dfa.state # 1 => Transition(dfa.state, 1) = 22
  <2>1. dfa.state # 1 => Transition(dfa.state, 1) = 22
    BY <1>4, UnfinishedStates, FromWord, FromTabs, FromOther
  <2> QED
    BY <2>1, FromStart
<1> HIDE DEF e
<1>8. /\ pc' \in {"match", "find"} /\ dfa' \in DfaType
      /\ yy_cp' \in Nat /\ yy_c_buf_p' \in Nat
      /\ IF pc' = "match" THEN MatchOK' ELSE FindOK'
  <2>1. CASE dfa.state = 1
    <3>1. e.state = 4 /\ e.state # JAM
      BY <2>1, <1>6, <1>7 DEF JAM
    <3>2. pc' = "match" /\ dfa' = e /\ yy_cp' = yy_c_buf_p + 1 /\ yy_c_buf_p' = yy_c_buf_p + 1
      BY <3>1, <1>1
    <3>3. 4 \in Unfinished /\ OfKind(yy_ch_buf, 4, yy_bp, yy_c_buf_p + 1)
      BY <3>1, <1>6 DEF AfterChar, Unfinished
    <3>4. yy_c_buf_p + 1 <= yy_n_chars
      BY <1>2, <1>4
    <3> QED
      BY <3>1, <3>2, <3>3, <3>4, <1>1, <1>2, <1>3, <1>6 DEF MatchOK, buffer
  <2>2. CASE dfa.state # 1
    <3>1. e.state = JAM
      BY <2>2, <1>6, <1>7 DEF JAM
    <3>2. pc' = "find" /\ dfa' = [e EXCEPT !.state = dfa.state] /\ yy_cp' = yy_cp
          /\ yy_c_buf_p' = yy_c_buf_p
      BY <3>1, <1>1
    <3>3. dfa.state \in 4..21 /\ dfa.state \in 0..22 /\ yy_accept[dfa.state] # 0
      BY <2>2, <1>4, UnfinishedStates
    <3>4. dfa' \in DfaType /\ dfa'.state = dfa.state
      BY <3>2, <3>3, <1>6 DEF DfaType
    <3>5. yy_bp < yy_cp /\ yy_cp <= yy_n_chars
      BY <2>2, <1>2, <1>4 DEF OfKind
    <3> QED
      BY <3>2, <3>3, <3>4, <3>5, <1>1, <1>2 DEF FindOK, buffer
  <2> QED
    BY <2>1, <2>2
<1>9. Types'
  BY <1>1, <1>2, <1>8 DEF Types, source, stream, buffer, printed
<1>10. NewOK'
  BY <1>1, <1>8 DEF IInv, NewOK, buffer
<1>11. Ends'
  BY <1>1, <1>3, <1>8 DEF IInv, Ends, Scanning, EndsIn, buffer
<1>12. Accounted'
  BY <1>1, <1>3, <1>8, TokenStarts, TokenStartsNext
     DEF IInv, Accounted, Scanning, buffer, stream, source, printed
<1> QED
  BY <1>8, <1>9, <1>10, <1>11, <1>12
     DEF IInv, StartOK, ScanOK, MatchOK, FindOK, ActOK, PreviousOK, NulOK, MoveOK, RefillOK

LEMMA PreviousCharStep ==
  ASSUME IInv, PreviousChar
  PROVE  IInv'
<1>1. /\ pc = "previous"
      /\ UNCHANGED <<source, stream, buffer, token, yy_bp, yy_act, after, printed>>
  BY DEF PreviousChar
<1>2. Types /\ yy_ch_buf \in [0..(b.size + 1) -> Chars256] /\ b.size \in Nat
      /\ yy_n_chars \in Nat /\ yy_bp \in Nat /\ yy_cp \in Nat /\ dfa \in DfaType
      /\ yy_c_buf_p \in Nat /\ after \in {"match", "find", "nul"}
  BY DEF IInv, Types
<1>3. Plain = yy_ch_buf
  BY <1>1 DEF Plain
<1>4. /\ yy_bp = yytext_ptr
      /\ dfa.state \in Unfinished /\ OfKind(yy_ch_buf, dfa.state, yy_bp, yy_cp)
      /\ Uniform(yy_ch_buf, yy_bp, yy_c_buf_p)
      /\ yy_cp <= yy_c_buf_p /\ yy_c_buf_p <= yy_n_chars
      /\ after = "nul" => yy_c_buf_p < yy_n_chars /\ yy_ch_buf[yy_c_buf_p] = NUL
      /\ after = "find" => yy_bp < yy_c_buf_p
  BY <1>1, <1>3 DEF IInv, PreviousOK
<1>5. yy_n_chars <= b.size
  BY <1>1 DEF IInv, Ends, Scanning, EndsIn
<1>6. ASSUME yy_cp < yy_c_buf_p,
             LET c == yy_ch_buf[yy_cp]
             IN dfa' = Advance(dfa, yy_cp, IF c = NUL THEN 1 ELSE yy_ec[c]),
             yy_cp' = yy_cp + 1, pc' = pc
      PROVE  Types' /\ pc' = "previous" /\ PreviousOK'
  <2>1. PICK c : c = IF yy_ch_buf[yy_cp] = NUL THEN 1 ELSE yy_ec[yy_ch_buf[yy_cp]]
    OBVIOUS
  <2>2. yy_ch_buf[yy_cp] \in Chars256
    BY <1>2, <1>4, <1>5, <1>6
  <2>3. c \in 1..12
        /\ (c = yy_ec[yy_ch_buf[yy_cp]] \/ (c = 1 /\ yy_ec[yy_ch_buf[yy_cp]] = 0))
    BY <2>1, <2>2, Classes
  <2>4. dfa' = Advance(dfa, yy_cp, c)
    BY <1>6, <2>1
  <2>5. dfa' \in DfaType /\ dfa'.state \in Unfinished
        /\ OfKind(yy_ch_buf, dfa'.state, yy_bp, yy_cp + 1)
    <3>1. yy_cp < yy_c_buf_p
      BY <1>6
    <3> QED
      BY <2>3, <2>4, <3>1, <1>2, <1>4, AdvanceInUniform
  <2>6. yy_cp + 1 \in Nat /\ yy_cp + 1 <= yy_c_buf_p
    BY <1>2, <1>6
  <2>7. Types'
    BY <2>5, <2>6, <1>1, <1>2, <1>6 DEF Types, source, stream, buffer, token, printed
  <2>8. Plain' = yy_ch_buf /\ pc' = "previous"
    BY <1>1, <1>6 DEF Plain, buffer
  <2> QED
    BY <2>5, <2>6, <2>7, <2>8, <1>1, <1>4, <1>6 DEF PreviousOK, Uniform, buffer, token
<1>7. ASSUME yy_cp = yy_c_buf_p, pc' = after, UNCHANGED <<yy_cp, dfa>>
      PROVE  /\ Types' /\ pc' \in {"match", "find", "nul"}
             /\ MatchOK' /\ FindOK' /\ NulOK'
  <2>1. Types'
    BY <1>1, <1>2, <1>7 DEF Types, source, stream, buffer, token, printed
  <2>2. pc' \in {"match", "find", "nul"} /\ Plain' = yy_ch_buf
    BY <1>1, <1>2, <1>7 DEF Plain, buffer
  <2>3. MatchOK' /\ NulOK'
    BY <2>2, <1>1, <1>4, <1>7 DEF MatchOK, NulOK, buffer, token
  <2>4. FindOK'
    <3> SUFFICES ASSUME pc' = "find" PROVE FindOK'
      BY DEF FindOK
    <3>1. yy_bp < yy_cp /\ yy_cp <= yy_n_chars
      BY <1>4, <1>7
    <3>2. dfa.state # 1
      BY <3>1, <1>2, <1>4 DEF OfKind
    <3>3. dfa.state \in 4..21 /\ yy_accept[dfa.state] # 0
      BY <3>2, <1>4, UnfinishedStates
    <3> QED
      BY <3>1, <3>3, <1>1, <1>7 DEF FindOK, buffer
  <2> QED
    BY <2>1, <2>2, <2>3, <2>4
<1>8. /\ Types' /\ pc' \in {"previous", "match", "find", "nul"}
      /\ MatchOK' /\ FindOK' /\ NulOK' /\ PreviousOK'
  <2>1. \/ /\ yy_cp < yy_c_buf_p
           /\ LET c == yy_ch_buf[yy_cp]
              IN dfa' = Advance(dfa, yy_cp, IF c = NUL THEN 1 ELSE yy_ec[c])
           /\ yy_cp' = yy_cp + 1 /\ pc' = pc
        \/ yy_cp = yy_c_buf_p /\ pc' = after /\ UNCHANGED <<yy_cp, dfa>>
    BY DEF PreviousChar, Goto
  <2>2. pc' = "previous" => MatchOK' /\ FindOK' /\ NulOK'
    BY DEF MatchOK, FindOK, NulOK
  <2>3. pc' \in {"match", "find", "nul"} => PreviousOK'
    BY DEF PreviousOK
  <2> QED
    BY <2>1, <2>2, <2>3, <1>6, <1>7
<1>9. NewOK'
  BY <1>1, <1>8 DEF IInv, NewOK, buffer
<1>10. Plain' = Plain
  BY <1>1, <1>3, <1>8 DEF Plain, buffer
<1>11. Ends'
  BY <1>1, <1>10 DEF IInv, Ends, Scanning, EndsIn, buffer
<1>12. Accounted'
  BY <1>1, <1>8, <1>10, TokenStarts, TokenStartsNext
     DEF IInv, Accounted, Scanning, buffer, stream, source, printed
<1> QED
  BY <1>8, <1>9, <1>11, <1>12
     DEF IInv, StartOK, ScanOK, ActOK, MoveOK, RefillOK

LEMMA MoveTextStep ==
  ASSUME IInv, MoveText
  PROVE  IInv'
<1> DEFINE k == number_to_move
<1>1. /\ pc = "move"
      /\ yy_ch_buf' = Moved
      /\ UNCHANGED <<source, stream, token, locals, printed>>
      /\ \/ /\ b.status = "EOF_PENDING" /\ yy_n_chars' = 0 /\ b' = [b EXCEPT !.n_chars = 0]
            /\ pc' = "loaded"
         \/ b.status # "EOF_PENDING" /\ pc' = "room" /\ UNCHANGED <<b, yy_n_chars>>
  BY DEF MoveText, Goto
<1>2. Types /\ yy_n_chars \in Nat /\ yytext_ptr \in Nat /\ b.size \in Nat
      /\ yy_c_buf_p \in Nat /\ yy_ch_buf \in [0..(b.size + 1) -> Chars256]
      /\ b \in [size : Nat, n_chars : Nat, status : {"NEW", "NORMAL", "EOF_PENDING"}]
  BY DEF IInv, Types
<1>3. Plain = yy_ch_buf /\ Plain' = Moved
  BY <1>1 DEF Plain
<1>4. yy_c_buf_p = yy_n_chars + 1 /\ yytext_ptr <= yy_n_chars
      /\ Uniform(yy_ch_buf, yytext_ptr, yy_n_chars)
  BY <1>1, <1>3 DEF IInv, MoveOK
<1>5. yy_n_chars <= b.size
  BY <1>1 DEF IInv, Ends, Scanning, EndsIn
<1>6. k = yy_n_chars - yytext_ptr /\ k \in 0..b.size /\ k' = k
  BY <1>1, <1>2, <1>4, <1>5 DEF number_to_move, token
<1>7. b' \in [size : Nat, n_chars : Nat, status : {"NEW", "NORMAL", "EOF_PENDING"}]
      /\ b'.size = b.size /\ b'.status = b.status
      /\ (pc' = "loaded" => yy_n_chars' = 0) /\ yy_n_chars' \in Nat
  BY <1>1, <1>2
<1> HIDE DEF k
<1>8. \A i \in 0..(k - 1) : Moved[i] = yy_ch_buf[yytext_ptr + i]
  BY <1>2, <1>4, <1>5, <1>6 DEF Moved, k
<1>9. Moved \in [0..(b.size + 1) -> Chars256]
  <2>1. \A i \in 0..(b.size + 1) :
          yy_ch_buf[IF i < k THEN yytext_ptr + i ELSE i] \in Chars256
    BY <1>2, <1>4, <1>5, <1>6
  <2>2. DOMAIN yy_ch_buf = 0..(b.size + 1)
    BY <1>2
  <2> QED
    BY <2>1, <2>2 DEF Moved, k
<1>10. Types'
  BY <1>1, <1>2, <1>7, <1>9 DEF Types, source, stream, token, locals, printed
<1>11. Uniform(Moved, 0, k)
  <2>1. 0 + yy_n_chars - yytext_ptr = k /\ \A i \in 0..(yy_n_chars - yytext_ptr - 1) : 0 + i = i
    BY <1>2, <1>6
  <2>2. \A i \in 0..(yy_n_chars - yytext_ptr - 1) : Moved[0 + i] = yy_ch_buf[yytext_ptr + i]
    BY <1>2, <1>6, <1>8
  <2>3. Uniform(Moved, 0, 0 + yy_n_chars - yytext_ptr)
    BY <2>2, <1>2, <1>4, UniformMoved
  <2> QED
    BY <2>1, <2>3
<1>12. RefillOK'
  BY <1>1, <1>2, <1>3, <1>6, <1>7, <1>11 DEF RefillOK, k
<1>13. b.status # "NEW" /\ NewOK'
  BY <1>1, <1>7 DEF IInv, NewOK
<1>14. Accounted'
  <2>1. /\ taken = scanned + k
        /\ \A i \in yytext_ptr..(yy_n_chars - 1) :
             yy_ch_buf[i] = input[scanned + 1 + i - yytext_ptr]
    BY <1>1, <1>3, <1>6, TokenStarts DEF IInv, Accounted, Scanning
  <2>2. taken' = taken /\ scanned' = scanned /\ input' = input /\ scanned \in Nat
    BY <1>1, <1>2 DEF stream, source, printed, Types
  <2>3. \A i \in 0..(k - 1) : Moved[i] = input[scanned + 1 + i]
    <3> TAKE i \in 0..(k - 1)
    <3>1. yytext_ptr + i \in yytext_ptr..(yy_n_chars - 1)
          /\ scanned + 1 + (yytext_ptr + i) - yytext_ptr = scanned + 1 + i
      BY <1>2, <1>6, <2>2
    <3> QED
      BY <3>1, <2>1, <1>8
  <2>4. k' + (IF pc' = "loaded" THEN yy_n_chars' ELSE 0) = k
    BY <1>6, <1>7
  <2>5. pc' \in {"loaded", "room"}
    BY <1>1
  <2> QED
    BY <2>1, <2>2, <2>3, <2>4, <2>5, <1>3 DEF Accounted, Scanning, k
<1> QED
  BY <1>1, <1>10, <1>12, <1>13, <1>14
     DEF IInv, StartOK, ScanOK, MatchOK, FindOK, ActOK, PreviousOK, NulOK, MoveOK, Ends, Scanning

LEMMA GrowStep ==
  ASSUME IInv, Grow
  PROVE  IInv'
<1> SUFFICES ASSUME pc = "room",
                    b' = [b EXCEPT !.size = 2 * @],
                    yy_ch_buf' = [i \in 0..(2 * b.size + 1) |->
                                    IF i \in DOMAIN yy_ch_buf THEN yy_ch_buf[i] ELSE 119],
                    UNCHANGED <<pc, source, stream, yy_n_chars, token, locals, printed>>
             PROVE  IInv'
  BY FailStep DEF Grow, Goto
<1> DEFINE k == number_to_move
<1>1. Types /\ b.size \in Nat /\ yy_ch_buf \in [0..(b.size + 1) -> Chars256]
      /\ b \in [size : Nat, n_chars : Nat, status : {"NEW", "NORMAL", "EOF_PENDING"}]
  BY DEF IInv, Types
<1>2. b' \in [size : Nat, n_chars : Nat, status : {"NEW", "NORMAL", "EOF_PENDING"}]
      /\ b'.size = 2 * b.size /\ b'.status = b.status /\ b'.n_chars = b.n_chars
  BY <1>1
<1>3. yy_ch_buf' \in [0..(2 * b.size + 1) -> Chars256]
  BY <1>1 DEF Chars256
<1>4. Types'
  BY <1>1, <1>2, <1>3 DEF Types, source, stream, token, locals, printed
<1>5. Plain = yy_ch_buf /\ Plain' = yy_ch_buf' /\ k' = k
  BY DEF Plain, number_to_move, token
<1>6. k \in 0..b.size /\ Uniform(yy_ch_buf, 0, k)
  BY <1>5 DEF IInv, RefillOK
<1> HIDE DEF k
<1>7. \A i \in 0..(k - 1) : yy_ch_buf'[i] = yy_ch_buf[i]
  BY <1>1, <1>6
<1>8. Uniform(yy_ch_buf', 0, k)
  BY <1>1, <1>6, <1>7, UniformKept
<1>9. RefillOK'
  BY <1>1, <1>2, <1>5, <1>6, <1>8 DEF RefillOK, k
<1>10. Accounted'
  BY <1>1, <1>5, <1>6, <1>7 DEF IInv, Accounted, Scanning, stream, source, printed, k
<1>11. NewOK'
  BY <1>2 DEF IInv, NewOK
<1> QED
  BY <1>4, <1>9, <1>10, <1>11
     DEF IInv, StartOK, ScanOK, MatchOK, FindOK, ActOK, PreviousOK, NulOK, MoveOK, Ends, Scanning

LEMMA RoomStep ==
  ASSUME IInv, Room
  PROVE  IInv'
<1>1. /\ pc = "room" /\ pc' = "input" /\ num_to_read > 0
      /\ UNCHANGED <<source, stream, buffer, token, locals, printed>>
  BY DEF Room, Goto
<1>2. Types'
  BY <1>1 DEF IInv, Types, source, stream, buffer, token, locals, printed
<1>3. Plain' = Plain /\ number_to_move' = number_to_move /\ num_to_read' = num_to_read
  BY <1>1 DEF Plain, number_to_move, num_to_read, buffer, token
<1>4. RefillOK'
  BY <1>1, <1>3 DEF IInv, RefillOK, buffer
<1>5. Accounted'
  BY <1>1, <1>3 DEF IInv, Accounted, Scanning, stream, source, printed
<1>6. NewOK'
  BY <1>1 DEF IInv, NewOK, buffer
<1> QED
  BY <1>1, <1>2, <1>4, <1>5, <1>6
     DEF IInv, StartOK, ScanOK, MatchOK, FindOK, ActOK, PreviousOK, NulOK, MoveOK, Ends, Scanning

(* What is read fits behind the text that was moved. *)
LEMMA GotStep ==
  ASSUME IInv, pc = "input", NEW k \in 0..Available, Got(k)
  PROVE  IInv'
<1> DEFINE m == number_to_move
<1>1. /\ yy_ch_buf' = [i \in DOMAIN yy_ch_buf |->
                         IF i \in m..(m + k - 1) THEN input[taken + 1 + i - m] ELSE yy_ch_buf[i]]
      /\ yy_n_chars' = k /\ b' = [b EXCEPT !.n_chars = k] /\ taken' = taken + k
      /\ pc' = "loaded"
      /\ UNCHANGED <<source, token, locals, printed>>
  BY DEF Got, Goto
<1>2. Types /\ b.size \in Nat /\ yy_ch_buf \in [0..(b.size + 1) -> Chars256]
      /\ b \in [size : Nat, n_chars : Nat, status : {"NEW", "NORMAL", "EOF_PENDING"}]
      /\ input \in Seq(Chars256) /\ Len(input) \in Nat /\ taken \in 0..Len(input)
      /\ scanned \in Nat
  BY DEF IInv, Types
<1>3. Plain = yy_ch_buf /\ Plain' = yy_ch_buf' /\ m' = m
  BY <1>1 DEF Plain, number_to_move, token
<1>4. m \in 0..b.size /\ Uniform(yy_ch_buf, 0, m) /\ num_to_read > 0
  BY <1>3 DEF IInv, RefillOK
<1>5. num_to_read = b.size - m - 1
  BY DEF num_to_read
<1> HIDE DEF m
<1>6. k \in Nat /\ taken + k <= Len(input) /\ k <= num_to_read
  BY <1>2, <1>4, <1>5, SizesAssumption DEF Available, max_size
<1>7. \A i \in m..(m + k - 1) : input[taken + 1 + i - m] \in Chars256
  <2> TAKE i \in m..(m + k - 1)
  <2>1. taken + 1 + i - m \in 1..Len(input)
    BY <1>2, <1>4, <1>6
  <2> QED
    BY <2>1, <1>2
<1>8. yy_ch_buf' \in [0..(b.size + 1) -> Chars256]
  BY <1>1, <1>2, <1>7
<1>9. b' \in [size : Nat, n_chars : Nat, status : {"NEW", "NORMAL", "EOF_PENDING"}]
      /\ b'.size = b.size /\ b'.status = b.status
  BY <1>1, <1>2, <1>6
<1>10. Types'
  BY <1>1, <1>2, <1>6, <1>8, <1>9 DEF Types, source, token, locals, printed
<1>11. \A i \in 0..(m - 1) : yy_ch_buf'[i] = yy_ch_buf[i]
  BY <1>1, <1>2, <1>4
<1>12. Uniform(yy_ch_buf', 0, m)
  BY <1>4, <1>11, UniformKept
<1>13. RefillOK'
  BY <1>1, <1>3, <1>4, <1>5, <1>6, <1>9, <1>12, <1>2 DEF RefillOK, m
<1>14. Accounted'
  <2>1. taken = scanned + m /\ \A i \in 0..(m - 1) : yy_ch_buf[i] = input[scanned + 1 + i]
    BY <1>2, <1>3, <1>4 DEF IInv, Accounted, Scanning, m
  <2>2. \A i \in 0..(m + k - 1) : yy_ch_buf'[i] = input[scanned + 1 + i]
    <3> TAKE i \in 0..(m + k - 1)
    <3>1. CASE i < m
      BY <3>1, <2>1, <1>4, <1>11
    <3>2. CASE i >= m
      <4>1. i \in m..(m + k - 1) /\ i \in DOMAIN yy_ch_buf
            /\ taken + 1 + i - m = scanned + 1 + i
        BY <3>2, <2>1, <1>2, <1>4, <1>5, <1>6
      <4> QED
        BY <4>1, <1>1
    <3> QED
      BY <3>1, <3>2, <1>4, <1>6
  <2>3. taken' = scanned + (m + k) /\ scanned' = scanned /\ input' = input
    BY <2>1, <1>1, <1>2, <1>4, <1>6 DEF source, printed
  <2> QED
    <3>1. m' + (IF pc' = "loaded" THEN yy_n_chars' ELSE 0) = m + k
      BY <1>1, <1>3
    <3>2. pc' = "loaded" /\ ~Scanning'
      BY <1>1 DEF Scanning
    <3> QED
      <4> DEFINE n == m' + (IF pc' = "loaded" THEN yy_n_chars' ELSE 0)
      <4>1. n = m + k
        BY <3>1
      <4> HIDE DEF n
      <4>2. taken' = scanned' + n /\ \A i \in 0..(n - 1) : Plain'[i] = input'[scanned' + 1 + i]
        BY <2>2, <2>3, <4>1, <1>3, <1>4, <1>6
      <4> QED
        BY <4>2, <3>2 DEF Accounted, m, n
<1>15. NewOK'
  BY <1>1, <1>9 DEF IInv, NewOK
<1> QED
  BY <1>1, <1>10, <1>13, <1>14, <1>15
     DEF IInv, StartOK, ScanOK, MatchOK, FindOK, ActOK, PreviousOK, NulOK, MoveOK, Ends, Scanning

LEMMA AvailableType ==
  ASSUME IInv, pc = "input"
  PROVE  Available \in Nat
<1>1. Len(input) \in Nat /\ taken \in 0..Len(input) /\ num_to_read \in Int
  BY DEF IInv, Types, num_to_read, RefillOK
<1>2. num_to_read > 0
  BY DEF IInv, RefillOK
<1> QED
  BY <1>1, <1>2, SizesAssumption DEF Available, max_size

LEMMA ReadStep ==
  ASSUME IInv, ReadLine \/ ReadBlock \/ ReadError
  PROVE  IInv'
<1>1. pc = "input"
  BY DEF ReadLine, ReadBlock, ReadError
<1>2. Available \in Nat
  BY <1>1, AvailableType
<1>3. \/ InputFailed
      \/ \E k \in 0..Available : Got(k)
      \/ UNCHANGED <<pc, source, taken, buffer, token, locals, printed>>
  BY <1>2 DEF ReadLine, ReadBlock, ReadError
<1>4. CASE UNCHANGED <<pc, source, taken, buffer, token, locals, printed>>
  <2>1. /\ Types' /\ Plain' = Plain
        /\ number_to_move' = number_to_move /\ num_to_read' = num_to_read
    BY <1>4 DEF IInv, Types, Plain, number_to_move, num_to_read, source, buffer, token, locals,
                printed
  <2>2. RefillOK' /\ Accounted' /\ NewOK'
    BY <2>1, <1>1, <1>4 DEF IInv, RefillOK, Accounted, NewOK, Scanning, source, buffer, token,
                            printed
  <2> QED
    BY <2>1, <2>2, <1>1, <1>4
       DEF IInv, StartOK, ScanOK, MatchOK, FindOK, ActOK, PreviousOK, NulOK, MoveOK, Ends, Scanning
<1> QED
  BY <1>1, <1>3, <1>4, FailStep, GotStep

LEMMA EndOfFileStep ==
  ASSUME IInv, EndOfFile
  PROVE  IInv'
<1>1. /\ pc = "loaded" /\ pc' = "done" /\ yy_n_chars = 0
      /\ yy_ch_buf' = Terminated(0)
      /\ b' = [b EXCEPT !.n_chars = 0, !.status = "NEW"]
      /\ yytext_ptr' = 0 /\ yy_c_buf_p' = 0 /\ yy_hold_char' = NUL
      /\ UNCHANGED <<source, stream, yy_n_chars, locals, printed>>
  BY DEF EndOfFile, Goto
<1>2. Types /\ b.size \in Nat /\ yy_ch_buf \in [0..(b.size + 1) -> Chars256]
      /\ b \in [size : Nat, n_chars : Nat, status : {"NEW", "NORMAL", "EOF_PENDING"}]
  BY DEF IInv, Types
<1>3. NUL \in Chars256
  BY DEF NUL, Chars256
<1>4. Terminated(0) \in [0..(b.size + 1) -> Chars256]
  BY <1>2, <1>3 DEF Terminated
<1>5. b' \in [size : Nat, n_chars : Nat, status : {"NEW", "NORMAL", "EOF_PENDING"}]
      /\ b'.size = b.size /\ b'.n_chars = 0
  BY <1>1, <1>2
<1>6. Types'
  BY <1>1, <1>2, <1>3, <1>4, <1>5 DEF Types, source, stream, locals, printed
<1> QED
  BY <1>1, <1>5, <1>6
     DEF IInv, StartOK, NewOK, ScanOK, MatchOK, FindOK, ActOK, PreviousOK, NulOK, MoveOK, RefillOK,
         Ends, Accounted, Scanning

LEMMA RescanStep ==
  ASSUME IInv, ContinueScan \/ LastMatch
  PROVE  IInv'
<1> DEFINE k == number_to_move
           m == yy_n_chars + number_to_move
<1>1. /\ pc = "loaded" /\ pc' = "previous"
      /\ yy_n_chars' = m /\ yy_ch_buf' = Terminated(m)
      /\ yytext_ptr' = 0 /\ yy_bp' = 0 /\ yy_c_buf_p' = k /\ yy_cp' = 0 /\ dfa' = Started
      /\ UNCHANGED <<source, stream, yy_hold_char, yy_act, printed>>
      /\ \/ yy_n_chars > 0 /\ after' = "match" /\ b' = b
         \/ yy_n_chars = 0 /\ k > 0 /\ after' = "find" /\ b' = [b EXCEPT !.status = "EOF_PENDING"]
  BY DEF ContinueScan, LastMatch, Rescan, Previous, Goto
<1>2. Types /\ b.size \in Nat /\ yy_ch_buf \in [0..(b.size + 1) -> Chars256]
      /\ b \in [size : Nat, n_chars : Nat, status : {"NEW", "NORMAL", "EOF_PENDING"}]
      /\ yy_n_chars \in Nat
  BY DEF IInv, Types
<1>3. Plain = yy_ch_buf /\ Plain' = Terminated(m)
  BY <1>1 DEF Plain
<1>4. k \in 0..b.size /\ Uniform(yy_ch_buf, 0, k) /\ m <= b.size
  BY <1>1, <1>3 DEF IInv, RefillOK
<1>5. b' \in [size : Nat, n_chars : Nat, status : {"NEW", "NORMAL", "EOF_PENDING"}]
      /\ b'.size = b.size /\ b'.status # "NEW"
  <2>1. b.status # "NEW"
    BY <1>1 DEF IInv, NewOK
  <2> QED
    BY <2>1, <1>1, <1>2
<1>6. m \in Nat /\ k <= m /\ m \in 0..b.size
  BY <1>2, <1>4
<1> HIDE DEF k, m
<1>7. NUL \in Chars256
  BY DEF NUL, Chars256
<1>8. Terminated(m) \in [0..(b.size + 1) -> Chars256]
  BY <1>2, <1>6, <1>7 DEF Terminated
<1>9. /\ \A i \in 0..(m - 1) : Terminated(m)[i] = yy_ch_buf[i]
      /\ Terminated(m)[m] = NUL /\ Terminated(m)[m + 1] = NUL
  BY <1>2, <1>6 DEF Terminated
<1>10. dfa' \in DfaType /\ dfa'.state = 1
  BY <1>1, BufferSize DEF IInv, Started, DfaType
<1>11. Types'
  BY <1>1, <1>2, <1>4, <1>5, <1>6, <1>8, <1>10 DEF Types, source, stream, printed
<1>12. Uniform(Terminated(m), 0, k)
  <2>1. \A i \in 0..(k - 1) : Terminated(m)[i] = yy_ch_buf[i]
    BY <1>4, <1>6, <1>9
  <2> QED
    BY <2>1, <1>4, UniformKept
<1>13. PreviousOK'
  <2>1. OfKind(Terminated(m), 1, 0, 0) /\ 1 \in Unfinished
    BY DEF OfKind, InWord, InTabs, Unfinished
  <2> QED
    BY <2>1, <1>1, <1>3, <1>4, <1>6, <1>10, <1>12 DEF PreviousOK, Uniform
<1>14. NewOK'
  BY <1>5 DEF NewOK
<1>15. Ends'
  BY <1>1, <1>3, <1>5, <1>6, <1>9 DEF Ends, EndsIn
<1>16. Accounted'
  <2>1. k + yy_n_chars = m
    BY <1>2, <1>4 DEF k, m
  <2>2. taken = scanned + m /\ \A i \in 0..(m - 1) : yy_ch_buf[i] = input[scanned + 1 + i]
    BY <2>1, <1>1, <1>3 DEF IInv, Accounted, k
  <2>3. TokenStart' = 0 /\ taken' = taken /\ scanned' = scanned /\ input' = input
        /\ scanned \in Nat
    BY <1>1, <1>2, TokenStartsNext DEF source, stream, printed, Types
  <2>4. \A i \in 0..(m - 1) : Terminated(m)[i] = input[scanned + 1 + i - 0]
    BY <2>2, <2>3, <1>6, <1>9
  <2> QED
    BY <2>2, <2>3, <2>4, <1>1, <1>3, <1>6 DEF Accounted
<1> QED
  BY <1>1, <1>11, <1>13, <1>14, <1>15, <1>16
     DEF IInv, StartOK, ScanOK, MatchOK, FindOK, ActOK, NulOK, MoveOK, RefillOK

LEMMA StutterStep ==
  ASSUME IInv, UNCHANGED vars
  PROVE  IInv'
<1> USE DEF vars, source, stream, buffer, token, locals, printed
<1>1. Plain' = Plain /\ number_to_move' = number_to_move /\ num_to_read' = num_to_read
      /\ TokenStart' = TokenStart /\ Scanning' = Scanning
  BY DEF Plain, number_to_move, num_to_read, TokenStart, Scanning
<1>2. Types' /\ StartOK' /\ NewOK'
  BY DEF IInv, Types, StartOK, NewOK
<1>3. ScanOK' /\ MatchOK' /\ FindOK' /\ ActOK'
  BY <1>1 DEF IInv, ScanOK, MatchOK, FindOK, ActOK, AtNul
<1>4. PreviousOK' /\ NulOK' /\ MoveOK' /\ RefillOK'
  BY <1>1 DEF IInv, PreviousOK, NulOK, MoveOK, RefillOK
<1>5. Ends' /\ Accounted'
  BY <1>1 DEF IInv, Ends, Accounted, EndsIn
<1> QED
  BY <1>2, <1>3, <1>4, <1>5 DEF IInv

LEMMA StepInvariant == IInv /\ [Next]_vars => IInv'
<1> SUFFICES ASSUME IInv, [Next]_vars PROVE IInv'
  OBVIOUS
<1> QED
  BY InitialiseStep, BeginTokenStep, MatchCharStep, FindActionStep, RuleStep, RealNulStep,
     TryNulStep, EndOfBufferStep, PreviousCharStep, MoveTextStep, GrowStep, RoomStep, ReadStep,
     EndOfFileStep, RescanStep, StutterStep DEF Next, Scan, Stopped

-----------------------------------------------------------------------------
(* The theorems. *)

(* The inductive invariant, for every input, size and fault. *)
THEOREM Invariance == Spec => []IInv
BY InitInvariant, StepInvariant, PTL DEF Spec

LEMMA CharIsPlain ==
  ASSUME IInv, Scanning, NEW i \in 0..(b.size + 1)
  PROVE  Char(i) = Plain[i]
BY DEF IInv, Types, Char, Plain

(* No step reads behind the two end-of-buffer characters, whatever the     *)
(* input and however small the buffer: InBuffer for every instance.        *)
THEOREM StaysInBuffer == Spec => []InBuffer
<1>1. ASSUME IInv PROVE InBuffer
  <2>1. Types /\ yy_n_chars \in Nat /\ b.size \in Nat /\ yy_cp \in Nat /\ yy_c_buf_p \in Nat
        /\ DOMAIN yy_ch_buf = 0..(b.size + 1)
    BY <1>1 DEF IInv, Types
  <2>2. Scanning => EndsIn(Plain)
    BY <1>1 DEF IInv, Ends
  <2>3. Scanning => /\ yy_n_chars + 1 \in DOMAIN yy_ch_buf
                    /\ \A e \in yy_n_chars..(yy_n_chars + 1) : Char(e) = NUL
    <3> SUFFICES ASSUME Scanning PROVE yy_n_chars + 1 \in DOMAIN yy_ch_buf
                    /\ \A e \in yy_n_chars..(yy_n_chars + 1) : Char(e) = NUL
      OBVIOUS
    <3>1. yy_n_chars <= b.size /\ Plain[yy_n_chars] = NUL /\ Plain[yy_n_chars + 1] = NUL
      BY <2>2 DEF EndsIn
    <3>2. yy_n_chars \in 0..(b.size + 1) /\ yy_n_chars + 1 \in 0..(b.size + 1)
      BY <2>1, <3>1
    <3>3. Char(yy_n_chars) = NUL /\ Char(yy_n_chars + 1) = NUL
      BY <1>1, <3>1, <3>2, CharIsPlain
    <3>4. \A e \in yy_n_chars..(yy_n_chars + 1) : e = yy_n_chars \/ e = yy_n_chars + 1
      BY <2>1
    <3> QED
      BY <2>1, <3>2, <3>3, <3>4
  <2>4. pc = "match" => yy_cp <= yy_n_chars + 1
    BY <1>1, <2>1 DEF IInv, MatchOK, AtNul
  <2>5. /\ pc = "previous" => yy_cp <= yy_c_buf_p /\ yy_c_buf_p <= yy_n_chars
        /\ pc = "move" => yy_c_buf_p = yy_n_chars + 1
        /\ pc = "loaded" => yy_n_chars + number_to_move <= b.size
    BY <1>1 DEF IInv, PreviousOK, MoveOK, RefillOK
  <2> QED
    BY <2>1, <2>3, <2>4, <2>5 DEF InBuffer
<1> QED
  BY <1>1, Invariance, PTL

(* The tokens, the buffer and the unread rest are the input, in order:     *)
(* BufferIsInput for every instance.                                       *)
THEOREM NothingLost == Spec => []BufferIsInput
<1>1. ASSUME IInv PROVE BufferIsInput
  <2> SUFFICES ASSUME Scanning
               PROVE  /\ scanned = taken - (yy_n_chars - TokenStart)
                      /\ \A i \in TokenStart..(yy_n_chars - 1) :
                           Char(i) = input[taken - yy_n_chars + i + 1]
    BY DEF BufferIsInput
  <2>1. /\ TokenStart <= yy_n_chars
        /\ taken = scanned + (yy_n_chars - TokenStart)
        /\ \A i \in TokenStart..(yy_n_chars - 1) :
             Plain[i] = input[scanned + 1 + i - TokenStart]
    BY <1>1 DEF IInv, Accounted
  <2>2. TokenStart \in Nat /\ yy_n_chars \in Nat /\ scanned \in Nat /\ yy_n_chars <= b.size
        /\ b.size \in Nat
    BY <1>1, TokenStarts DEF IInv, Types, Scanning, Ends, EndsIn
  <2>3. \A i \in TokenStart..(yy_n_chars - 1) :
          Char(i) = input[taken - yy_n_chars + i + 1]
    <3> TAKE i \in TokenStart..(yy_n_chars - 1)
    <3>1. i \in 0..(b.size + 1) /\ taken - yy_n_chars + i + 1 = scanned + 1 + i - TokenStart
      BY <2>1, <2>2
    <3> QED
      BY <3>1, <2>1, <1>1, CharIsPlain
  <2> QED
    BY <2>1, <2>2, <2>3
<1> QED
  BY <1>1, Invariance, PTL

(* Nobody waits for input behind a line that is complete: Prompt for every *)
(* instance.                                                               *)
THEOREM AnswersFirst == Spec => []Prompt
<1>1. ASSUME IInv PROVE Prompt
  <2> SUFFICES ASSUME pc = "input", NEW i \in 0..(number_to_move - 1)
               PROVE  yy_ch_buf[i] # NEWLINE
    BY DEF Prompt
  <2>1. Plain = yy_ch_buf /\ Uniform(yy_ch_buf, 0, number_to_move) /\ number_to_move \in Nat
    BY <1>1 DEF IInv, RefillOK, Plain
  <2>2. PICK s \in Unfinished : OfKind(yy_ch_buf, s, 0, number_to_move)
    BY <2>1 DEF Uniform
  <2>3. s = 4 \/ s \in InTabs \/ s \in InWord
    BY <2>1, <2>2, UnfinishedStates DEF OfKind
  <2>4. yy_ec[yy_ch_buf[i]] # 3
    BY <2>1, <2>2, <2>3 DEF OfKind
  <2>5. yy_ec[NEWLINE] = 3
    BY DEF yy_ec, NEWLINE, NUL
  <2> QED
    BY <2>4, <2>5
<1> QED
  BY <1>1, Invariance, PTL

-----------------------------------------------------------------------------
(* The inductive invariant: which word the state stands for.               *)

(* The text lo..hi-1 of the buffer is that of a verb or of what begins     *)
(* one: each state of a beginning stands for one text.                     *)
Spells(buf, q, lo, hi) ==
  \/ q = 8  /\ hi = lo + 1 /\ buf[lo] = 97
  \/ q = 9  /\ hi = lo + 1 /\ buf[lo] = 105
  \/ q = 10 /\ hi = lo + 1 /\ buf[lo] = 119
  \/ q = 13 /\ hi = lo + 2 /\ buf[lo] = 97  /\ buf[lo + 1] = 109
  \/ q = 14 /\ hi = lo + 2 /\ buf[lo] = 97  /\ buf[lo + 1] = 114
  \/ q = 15 /\ hi = lo + 2 /\ buf[lo] = 105 /\ buf[lo + 1] = 115
  \/ q = 16 /\ hi = lo + 2 /\ buf[lo] = 119 /\ buf[lo + 1] = 97
  \/ q = 17 /\ hi = lo + 2 /\ buf[lo] = 119 /\ buf[lo + 1] = 101
  \/ q = 18 /\ hi = lo + 3 /\ buf[lo] = 97  /\ buf[lo + 1] = 114 /\ buf[lo + 2] = 101
  \/ q = 19 /\ hi = lo + 3 /\ buf[lo] = 119 /\ buf[lo + 1] = 97 /\ buf[lo + 2] = 115
  \/ q = 20 /\ hi = lo + 3 /\ buf[lo] = 119 /\ buf[lo + 1] = 101 /\ buf[lo + 2] = 114
  \/ /\ q = 21 /\ hi = lo + 4
     /\ buf[lo] = 119 /\ buf[lo + 1] = 101 /\ buf[lo + 2] = 114 /\ buf[lo + 3] = 101

Beginnings == 8..10 \cup 13..21

Describes(buf, s, lo, hi) ==
  s \in InWord => \A q \in Beginnings : s = q <=> Spells(buf, q, lo, hi)

(* The token lo..hi-1 of the final state s. *)
TokenOf(buf, s, lo, hi) ==
  /\ s \in 4..21
  /\ s # 6 => OfKind(buf, s, lo, hi) /\ Describes(buf, s, lo, hi)
  /\ s = 6 => hi = lo + 1 /\ yy_ec[buf[lo]] \in 3..4

(* No longer text matches: the input ends at hi, where n characters are in *)
(* the buffer and all were taken, or a character cannot go on.             *)
EndsHere(buf, s, hi, n, allTaken) ==
  \/ hi = n /\ allTaken
  \/ /\ hi < n
     /\ s \in InWord => yy_ec[buf[hi]] \notin 5..12
     /\ s \in InTabs => yy_ec[buf[hi]] # 2
  \/ s \in {4, 6}

DescribeOK ==
  pc \in {"match", "previous", "nul"} => Describes(Plain, dfa.state, yy_bp, yy_cp)

FoundOK ==
  pc = "find" =>
    LET backUp == yy_accept[dfa.state] = 0
        p == IF backUp THEN dfa.cpos ELSE yy_cp
        s == IF backUp THEN dfa.last ELSE dfa.state
    IN s = 3 \/ (TokenOf(Plain, s, yy_bp, p) /\ EndsHere(Plain, s, p, yy_n_chars, taken = Len(input)))

TokenOK ==
  pc = "act" /\ yy_act # YY_END_OF_BUFFER =>
    \E s \in 4..21 : /\ yy_act = yy_accept[s]
                     /\ TokenOf(Plain, s, yytext_ptr, yy_cp)
                     /\ EndsHere(Plain, s, yy_cp, yy_n_chars, taken = Len(input))

(* The end of the input was seen before it is acted upon. *)
EndSeen ==
  /\ b.status = "EOF_PENDING" => taken = Len(input)
  /\ pc = "loaded" /\ yy_n_chars = 0 => taken = Len(input)
  /\ pc = "previous" /\ after = "find" => yy_c_buf_p = yy_n_chars /\ taken = Len(input)

TokenInv == DescribeOK /\ FoundOK /\ TokenOK /\ EndSeen

-----------------------------------------------------------------------------
(* Classes, states and words. *)

LEMMA Letters ==
  ASSUME NEW x \in Chars256
  PROVE  /\ yy_ec[x] = 2 <=> x = 9
         /\ yy_ec[x] \in 3..4 <=> x \in {10, 45}
         /\ yy_ec[x] \in 5..12 <=> x \in 65..90 \cup 97..122
         /\ yy_ec[x] = 6 <=> x = 97
         /\ yy_ec[x] = 7 <=> x = 101
         /\ yy_ec[x] = 8 <=> x = 105
         /\ yy_ec[x] = 9 <=> x = 109
         /\ yy_ec[x] = 10 <=> x = 114
         /\ yy_ec[x] = 11 <=> x = 115
         /\ yy_ec[x] = 12 <=> x = 119
BY DEF yy_ec, Chars256, NUL, NEWLINE

LEMMA FirstLetter ==
  ASSUME NEW c \in 5..12
  PROVE  /\ Transition(1, c) = 8 <=> c = 6
         /\ Transition(1, c) = 9 <=> c = 8
         /\ Transition(1, c) = 10 <=> c = 12
         /\ Transition(1, c) \notin 13..21
BY MetaTable, BaseTable, DefTable, NxtTable, ChkTable DEF Transition, HasEntry, ClassFor

LEMMA NextLetter ==
  ASSUME NEW s \in InWord, NEW c \in 5..12
  PROVE  /\ Transition(s, c) \notin 8..10
         /\ Transition(s, c) = 13 <=> s = 8 /\ c = 9
         /\ Transition(s, c) = 14 <=> s = 8 /\ c = 10
         /\ Transition(s, c) = 15 <=> s = 9 /\ c = 11
         /\ Transition(s, c) = 16 <=> s = 10 /\ c = 6
         /\ Transition(s, c) = 17 <=> s = 10 /\ c = 7
         /\ Transition(s, c) = 18 <=> s = 14 /\ c = 7
         /\ Transition(s, c) = 19 <=> s = 16 /\ c = 11
         /\ Transition(s, c) = 20 <=> s = 17 /\ c = 10
         /\ Transition(s, c) = 21 <=> s = 20 /\ c = 7
BY MetaTable, BaseTable, DefTable, NxtTable, ChkTable
   DEF InWord, Transition, HasEntry, ClassFor

LEMMA Verdicts ==
  /\ yy_accept[4] = 9 /\ yy_accept[5] = 1 /\ yy_accept[6] = 8 /\ yy_accept[11] = 1
  /\ \A s \in {13, 15, 18, 19, 21} : yy_accept[s] \in 2..6
  /\ \A s \in InWord \ {13, 15, 18, 19, 21} : yy_accept[s] = 7
BY AcceptTable DEF InWord

(* A character more makes a beginning of a verb another one, or none. *)
LEMMA DescribesNext ==
  ASSUME NEW buf, NEW q \in Unfinished, NEW lo \in Nat, NEW p \in Nat, NEW c \in 0..12,
         OfKind(buf, q, lo, p), Describes(buf, q, lo, p),
         buf[p] \in Chars256, c = yy_ec[buf[p]] \/ (c = 1 /\ yy_ec[buf[p]] = 0)
  PROVE  Describes(buf, Transition(q, c), lo, p + 1)
<1> DEFINE s == Transition(q, c)
<1> SUFFICES ASSUME s \in InWord
             PROVE  \A t \in Beginnings : s = t <=> Spells(buf, t, lo, p + 1)
  BY DEF Describes
<1>1. c \in 5..12 /\ (q = 1 \/ q \in InWord)
  <2>1. 22 \notin InWord /\ 3 \notin InWord /\ 4 \notin InWord /\ 5 \notin InWord /\ 6 \notin InWord
        /\ 11 \notin InWord
    BY DEF InWord
  <2>2. c = 0 \/ c = 1 \/ c = 2 \/ c \in 3..4 \/ c \in 5..12
    OBVIOUS
  <2>3. CASE q = 1
    BY <2>1, <2>2, <2>3, FromStart
  <2>4. CASE q = 4
    BY <2>1, <2>2, <2>4, FromOther
  <2>5. CASE q \in InTabs
    BY <2>1, <2>2, <2>5, FromTabs
  <2>6. CASE q \in InWord
    BY <2>1, <2>2, <2>6, FromWord
  <2> QED
    BY <2>3, <2>4, <2>5, <2>6, UnfinishedStates
<1>2. c = yy_ec[buf[p]]
  BY <1>1
<1>3. /\ c = 6 <=> buf[p] = 97
      /\ c = 7 <=> buf[p] = 101
      /\ c = 8 <=> buf[p] = 105
      /\ c = 9 <=> buf[p] = 109
      /\ c = 10 <=> buf[p] = 114
      /\ c = 11 <=> buf[p] = 115
      /\ c = 12 <=> buf[p] = 119
  BY <1>2, Letters
<1>4. lo <= p /\ (q = 1 => p = lo) /\ (q # 1 => lo < p)
  BY DEF OfKind
<1>5. CASE q = 1
  <2>1. s \notin 13..21 /\ (s = 8 <=> c = 6) /\ (s = 9 <=> c = 8) /\ (s = 10 <=> c = 12)
    BY <1>1, <1>5, FirstLetter
  <2> HIDE DEF s
  <2>2. p = lo
    BY <1>4, <1>5
  <2> SUFFICES ASSUME NEW t \in Beginnings PROVE s = t <=> Spells(buf, t, lo, p + 1)
    BY DEF s
  <2>3. CASE t \in 8..10
    BY <2>1, <2>2, <2>3, <1>3 DEF Spells
  <2>4. CASE t \in 13..21
    BY <2>1, <2>2, <2>4 DEF Spells
  <2> QED
    BY <2>3, <2>4 DEF Beginnings
<1>6. CASE q \in InWord
  <2>1. /\ s \notin 8..10
        /\ s = 13 <=> q = 8 /\ c = 9
        /\ s = 14 <=> q = 8 /\ c = 10
        /\ s = 15 <=> q = 9 /\ c = 11
        /\ s = 16 <=> q = 10 /\ c = 6
        /\ s = 17 <=> q = 10 /\ c = 7
        /\ s = 18 <=> q = 14 /\ c = 7
        /\ s = 19 <=> q = 16 /\ c = 11
        /\ s = 20 <=> q = 17 /\ c = 10
        /\ s = 21 <=> q = 20 /\ c = 7
    BY <1>1, <1>6, NextLetter
  <2> HIDE DEF s
  <2>2. lo < p
    BY <1>4, <1>6 DEF InWord
  <2>3. /\ q = 8 <=> Spells(buf, 8, lo, p)
        /\ q = 9 <=> Spells(buf, 9, lo, p)
        /\ q = 10 <=> Spells(buf, 10, lo, p)
        /\ q = 14 <=> Spells(buf, 14, lo, p)
        /\ q = 16 <=> Spells(buf, 16, lo, p)
        /\ q = 17 <=> Spells(buf, 17, lo, p)
        /\ q = 20 <=> Spells(buf, 20, lo, p)
    BY <1>6 DEF Describes, Beginnings
  <2>4. /\ q = 8  <=> p = lo + 1 /\ buf[lo] = 97
        /\ q = 9  <=> p = lo + 1 /\ buf[lo] = 105
        /\ q = 10 <=> p = lo + 1 /\ buf[lo] = 119
        /\ q = 14 <=> p = lo + 2 /\ buf[lo] = 97  /\ buf[lo + 1] = 114
        /\ q = 16 <=> p = lo + 2 /\ buf[lo] = 119 /\ buf[lo + 1] = 97
        /\ q = 17 <=> p = lo + 2 /\ buf[lo] = 119 /\ buf[lo + 1] = 101
        /\ q = 20 <=> p = lo + 3 /\ buf[lo] = 119 /\ buf[lo + 1] = 101 /\ buf[lo + 2] = 114
    BY <2>3 DEF Spells
  <2> SUFFICES ASSUME NEW t \in Beginnings PROVE s = t <=> Spells(buf, t, lo, p + 1)
    BY DEF s
  <2>5. CASE t \in 8..10
    BY <2>1, <2>2, <2>5 DEF Spells
  <2>6. CASE t \in 13..17
    <3>1. t = 13 \/ t = 14 \/ t = 15 \/ t = 16 \/ t = 17
      BY <2>6
    <3>2. Spells(buf, t, lo, p + 1) <=>
            \/ t = 13 /\ p = lo + 1 /\ buf[lo] = 97  /\ buf[p] = 109
            \/ t = 14 /\ p = lo + 1 /\ buf[lo] = 97  /\ buf[p] = 114
            \/ t = 15 /\ p = lo + 1 /\ buf[lo] = 105 /\ buf[p] = 115
            \/ t = 16 /\ p = lo + 1 /\ buf[lo] = 119 /\ buf[p] = 97
            \/ t = 17 /\ p = lo + 1 /\ buf[lo] = 119 /\ buf[p] = 101
      BY <3>1 DEF Spells
    <3> QED
      BY <3>1, <3>2, <2>1, <2>4, <1>3
  <2>7. CASE t \in 18..20
    <3>1. t = 18 \/ t = 19 \/ t = 20
      BY <2>7
    <3>2. Spells(buf, t, lo, p + 1) <=>
            \/ t = 18 /\ p = lo + 2 /\ buf[lo] = 97  /\ buf[lo + 1] = 114 /\ buf[p] = 101
            \/ t = 19 /\ p = lo + 2 /\ buf[lo] = 119 /\ buf[lo + 1] = 97 /\ buf[p] = 115
            \/ t = 20 /\ p = lo + 2 /\ buf[lo] = 119 /\ buf[lo + 1] = 101 /\ buf[p] = 114
      BY <3>1 DEF Spells
    <3> QED
      BY <3>1, <3>2, <2>1, <2>4, <1>3
  <2>8. CASE t = 21
    <3>1. Spells(buf, t, lo, p + 1) <=>
            /\ p = lo + 3 /\ buf[lo] = 119 /\ buf[lo + 1] = 101 /\ buf[lo + 2] = 114
            /\ buf[p] = 101
      BY <2>8 DEF Spells
    <3> QED
      BY <3>1, <2>8, <2>1, <2>4, <1>3
  <2> QED
    BY <2>5, <2>6, <2>7, <2>8 DEF Beginnings
<1> QED
  BY <1>1, <1>5, <1>6

-----------------------------------------------------------------------------
(* The steps. *)

LEMMA InitTokenInv == Init => TokenInv
BY DEF Init, TokenInv, DescribeOK, FoundOK, TokenOK, EndSeen

(* Nothing is matched in these steps; reading sees the end of the input    *)
(* when it finds no character, since there is room for one.                *)
LEMMA OtherTokenStep ==
  ASSUME IInv, TokenInv,
         Initialise \/ Rule \/ EndOfBuffer \/ MoveText \/ Grow \/ Room \/ EndOfFile
  PROVE  TokenInv'
<1>1. b \in [size : Nat, n_chars : Nat, status : {"NEW", "NORMAL", "EOF_PENDING"}]
  BY DEF IInv, Types
<1>2. UNCHANGED <<source, stream>>
  BY DEF Initialise, Rule, EndOfBuffer, MoveText, Grow, Room, EndOfFile, OutOfMemory
<1>3. b'.status = "EOF_PENDING" => b.status = "EOF_PENDING"
  <2>1. CASE Initialise \/ Rule \/ Grow \/ Room
    BY <2>1, <1>1 DEF Initialise, Rule, Grow, Room, OutOfMemory, buffer
  <2>2. CASE EndOfBuffer
    BY <2>2, <1>1 DEF EndOfBuffer, Adopted
  <2>3. CASE MoveText \/ EndOfFile
    BY <2>3, <1>1 DEF MoveText, EndOfFile
  <2> QED
    BY <2>1, <2>2, <2>3
<1>4. pc' \in {"scan", "move", "room", "input", "loaded", "done", "out of memory"}
  BY DEF Initialise, Rule, EndOfBuffer, MoveText, Grow, Room, EndOfFile, OutOfMemory, Goto
<1>5. pc' = "loaded" => b.status = "EOF_PENDING"
  BY DEF Initialise, Rule, EndOfBuffer, MoveText, Grow, Room, EndOfFile, OutOfMemory, Goto
<1>6. EndSeen'
  BY <1>2, <1>3, <1>4, <1>5 DEF TokenInv, EndSeen, source, stream
<1> QED
  BY <1>4, <1>6 DEF TokenInv, DescribeOK, FoundOK, TokenOK

LEMMA ReadTokenStep ==
  ASSUME IInv, TokenInv, ReadLine \/ ReadBlock \/ ReadError
  PROVE  TokenInv'
<1>1. pc = "input"
  BY DEF ReadLine, ReadBlock, ReadError
<1>2. /\ b \in [size : Nat, n_chars : Nat, status : {"NEW", "NORMAL", "EOF_PENDING"}]
      /\ Len(input) \in Nat /\ taken \in 0..Len(input)
  <2>1. b \in [size : Nat, n_chars : Nat, status : {"NEW", "NORMAL", "EOF_PENDING"}]
    BY DEF IInv, Types
  <2>2. input \in Seq(Chars256) /\ taken \in 0..Len(input)
    BY DEF IInv, Types
  <2> QED
    BY <2>1, <2>2
<1>3. num_to_read > 0 /\ num_to_read \in Int
  BY <1>1, <1>2 DEF IInv, RefillOK, num_to_read
<1>4. Available \in 0..(Len(input) - taken) /\ (Available = 0 => taken = Len(input))
  BY <1>2, <1>3, SizesAssumption DEF Available, max_size
<1>5. CASE InputFailed \/ UNCHANGED <<pc, source, taken, buffer, token, locals, printed>>
  <2>1. pc' \in {"input", "input failed"} /\ b' = b /\ taken' = taken /\ input' = input
    BY <1>1, <1>5 DEF InputFailed, Goto, buffer, stream, source
  <2> QED
    BY <2>1 DEF TokenInv, EndSeen, DescribeOK, FoundOK, TokenOK
<1>6. CASE \E k \in 0..Available : Got(k) /\ (k = 0 => Available = 0)
  <2>1. PICK k \in 0..Available : Got(k) /\ (k = 0 => Available = 0)
    BY <1>6
  <2>2. pc' = "loaded" /\ b'.status = b.status /\ taken' = taken + k /\ input' = input
        /\ yy_n_chars' = k
    BY <2>1, <1>2 DEF Got, Goto, source
  <2>3. taken = Len(input) => taken' = Len(input)
    BY <2>1, <2>2, <1>2, <1>4
  <2>4. k = 0 => taken' = Len(input)
    BY <2>1, <2>2, <1>2, <1>4
  <2>5. EndSeen'
    BY <2>2, <2>3, <2>4 DEF TokenInv, EndSeen
  <2> QED
    BY <2>2, <2>5 DEF TokenInv, DescribeOK, FoundOK, TokenOK
<1>7. CASE ReadLine
  <2>1. ASSUME NEW k \in 0..Available, IsLine(k) PROVE k = 0 => Available = 0
    BY <2>1 DEF IsLine
  <2> QED
    BY <2>1, <1>5, <1>6, <1>7 DEF ReadLine
<1>8. CASE ReadBlock
  BY <1>4, <1>5, <1>6, <1>8 DEF ReadBlock
<1>9. CASE ReadError
  BY <1>4, <1>5, <1>6, <1>9 DEF ReadError
<1> QED
  BY <1>7, <1>8, <1>9

LEMMA BeginTokenTokenStep ==
  ASSUME IInv, TokenInv, BeginToken
  PROVE  TokenInv'
<1>1. pc' = "match" /\ dfa'.state = 1 /\ b' = b /\ taken' = taken /\ input' = input
  BY BufferSize DEF IInv, BeginToken, Goto, Started, DfaType, stream, source
<1>2. DescribeOK'
  BY <1>1 DEF DescribeOK, Describes, InWord
<1> QED
  BY <1>1, <1>2 DEF TokenInv, FoundOK, TokenOK, EndSeen

LEMMA MatchCharTokenStep ==
  ASSUME IInv, TokenInv, MatchChar
  PROVE  TokenInv'
<1> DEFINE c == yy_ec[yy_ch_buf[yy_cp]]
           e == Advance(dfa, yy_cp, c)
<1>1. /\ pc = "match" /\ dfa' = e /\ yy_cp' = yy_cp + 1
      /\ pc' = IF Stops(e.state) THEN "find" ELSE "match"
      /\ UNCHANGED <<source, stream, buffer, token, yy_bp, yy_act, after, printed>>
  BY DEF MatchChar, Goto
<1>2. Types /\ yy_ch_buf \in [0..(b.size + 1) -> Chars256] /\ b.size \in Nat
      /\ yy_n_chars \in Nat /\ yy_cp \in Nat /\ yy_bp \in Nat /\ dfa \in DfaType
  BY DEF IInv, Types
<1>3. Plain = yy_ch_buf /\ Plain' = yy_ch_buf
  BY <1>1 DEF Plain, buffer
<1>4. yy_n_chars <= b.size /\ yy_ch_buf[yy_n_chars] = NUL
  BY <1>1, <1>3 DEF IInv, Ends, Scanning, EndsIn
<1>5. \/ dfa.state = 3 /\ AtNul(yy_ch_buf, yy_bp, yy_cp)
      \/ dfa.state \in Unfinished /\ OfKind(yy_ch_buf, dfa.state, yy_bp, yy_cp)
         /\ yy_cp <= yy_n_chars
  BY <1>1, <1>3 DEF IInv, MatchOK
<1>6. yy_cp <= yy_n_chars + 1
  BY <1>2, <1>5 DEF AtNul
<1>7. yy_ch_buf[yy_cp] \in Chars256 /\ c \in 0..12 /\ (c = 0 <=> yy_ch_buf[yy_cp] = NUL)
  BY <1>2, <1>4, <1>6, Classes
<1>8. Describes(yy_ch_buf, dfa.state, yy_bp, yy_cp)
  BY <1>1, <1>3 DEF TokenInv, DescribeOK
<1>9. c = yy_ec[yy_ch_buf[yy_cp]]
  OBVIOUS
<1> HIDE DEF c, e
<1>10. IF pc' = "match" THEN DescribeOK' ELSE FoundOK'
  <2>1. CASE dfa.state = 3
    <3>1. e \in DfaType /\ e.state = 22 /\ e.last = 3 /\ e.cpos = yy_cp
      BY <2>1, <1>2, <1>7, AdvanceBehindNul DEF e
    <3>2. pc' = "find"
      BY <3>1, <1>1, Stopping
    <3> QED
      BY <3>1, <3>2, <1>1, Accepting DEF FoundOK
  <2>2. CASE dfa.state # 3 /\ c = 0
    <3>1. e.state = 3
      BY <2>2, <1>2, <1>5, AdvanceAtNul DEF e
    <3>2. pc' = "match"
      BY <3>1, <1>1, Stopping
    <3> QED
      BY <3>1, <3>2, <1>1 DEF DescribeOK, Describes, InWord
  <2>3. CASE dfa.state # 3 /\ c # 0
    <3>1. dfa.state \in Unfinished /\ OfKind(yy_ch_buf, dfa.state, yy_bp, yy_cp)
          /\ yy_cp <= yy_n_chars
      BY <2>3, <1>5
    <3>2. yy_cp < yy_n_chars
      BY <2>3, <3>1, <1>2, <1>4, <1>7
    <3>3. c \in 1..12 /\ c = yy_ec[yy_ch_buf[yy_cp]]
      BY <2>3, <1>7, <1>9
    <3>a. e \in DfaType /\ AfterChar(yy_ch_buf, dfa.state, e, yy_bp, yy_cp)
      BY <3>1, <3>3, <1>2, AdvanceInToken DEF e
    <3>c. e.state = Transition(dfa.state, c)
      BY DEF e, Advance
    <3>b. Describes(yy_ch_buf, e.state, yy_bp, yy_cp + 1)
      <4>1. Describes(yy_ch_buf, Transition(dfa.state, c), yy_bp, yy_cp + 1)
        BY <3>1, <3>3, <1>2, <1>7, <1>8, DescribesNext
      <4> QED
        BY <4>1, <3>c
    <3>4. CASE e.state \in Unfinished /\ OfKind(yy_ch_buf, e.state, yy_bp, yy_cp + 1)
      <4>1. CASE e.state = 4
        <5>1. pc' = "find" /\ yy_accept[4] # 0
          BY <4>1, <1>1, Stopping, Accepting
        <5>2. TokenOf(yy_ch_buf, 4, yy_bp, yy_cp + 1)
          BY <4>1, <3>4, <3>b DEF TokenOf
        <5> QED
          BY <4>1, <5>1, <5>2, <1>1, <1>3 DEF FoundOK, EndsHere
      <4>2. CASE e.state # 4
        <5>1. e.state \notin {4, 6, 22} /\ e.state \in 1..22 /\ e.state # 2
          BY <4>2, <3>4 DEF Unfinished, InTabs, InWord
        <5>2. pc' = "match"
          BY <5>1, <1>1, Stopping
        <5> QED
          BY <5>2, <3>b, <1>1, <1>3 DEF DescribeOK
      <4> QED
        BY <4>1, <4>2
    <3>5. CASE e.state = 6 /\ yy_bp = yy_cp
      <4>1. pc' = "find" /\ yy_accept[6] # 0
        BY <3>5, <1>1, Stopping, Accepting
      <4>2. c \in 3..4
        <5>1. dfa.state = 1
          BY <3>1, <3>5, <1>2 DEF OfKind
        <5>2. c = 1 \/ c = 2 \/ c \in 3..4 \/ c \in 5..12
          BY <3>3
        <5>3. 6 \notin InWord
          BY DEF InWord
        <5> QED
          BY <5>1, <5>2, <5>3, <3>5, <3>c, <1>7, FromStart
      <4>3. TokenOf(yy_ch_buf, 6, yy_bp, yy_cp + 1)
        BY <3>3, <3>5, <4>2 DEF TokenOf
      <4> QED
        BY <3>5, <4>1, <4>3, <1>1, <1>3 DEF FoundOK, EndsHere
    <3>6. CASE e.state = 22 /\ e.last = dfa.state /\ e.cpos = yy_cp /\ dfa.state \in 4..21
               /\ yy_bp < yy_cp
      <4>1. pc' = "find" /\ yy_accept[22] = 0
        BY <3>6, <1>1, Stopping, Accepting
      <4>2. TokenOf(yy_ch_buf, dfa.state, yy_bp, yy_cp)
        <5>1. dfa.state # 6
          BY <3>1 DEF Unfinished, InTabs, InWord
        <5> QED
          BY <5>1, <3>1, <3>6, <1>8 DEF TokenOf
      <4>3. /\ dfa.state \in InWord => c \notin 5..12
            /\ dfa.state \in InTabs => c # 2
        <5>1. 22 \notin InWord
          BY DEF InWord
        <5> QED
          BY <5>1, <3>6, <3>c, <1>7, FromWord, FromTabs
      <4>4. EndsHere(yy_ch_buf, dfa.state, yy_cp, yy_n_chars, taken = Len(input))
        BY <3>2, <3>3, <4>3 DEF EndsHere
      <4>5. dfa'.last = dfa.state /\ dfa'.cpos = yy_cp /\ yy_accept[dfa'.state] = 0
            /\ yy_bp' = yy_bp /\ yy_n_chars' = yy_n_chars /\ taken' = taken /\ input' = input
        BY <3>6, <4>1, <1>1 DEF buffer, stream, source
      <4> QED
        BY <4>1, <4>2, <4>4, <4>5, <1>3 DEF FoundOK
    <3> QED
      BY <3>a, <3>4, <3>5, <3>6 DEF AfterChar
  <2> QED
    BY <2>1, <2>2, <2>3
<1>11. pc' \in {"match", "find"} /\ EndSeen'
  BY <1>1 DEF TokenInv, EndSeen, buffer, stream, source
<1> QED
  BY <1>10, <1>11 DEF TokenInv, DescribeOK, FoundOK, TokenOK

LEMMA FindActionTokenStep ==
  ASSUME IInv, TokenInv, FindAction
  PROVE  TokenInv'
<1> DEFINE p == IF yy_accept[dfa.state] = 0 THEN dfa.cpos ELSE yy_cp
           s == IF yy_accept[dfa.state] = 0 THEN dfa.last ELSE dfa.state
<1>1. /\ pc = "find" /\ pc' = "act"
      /\ yy_act' = yy_accept[s]
      /\ yy_cp' = p /\ yy_c_buf_p' = p /\ yy_hold_char' = yy_ch_buf[p]
      /\ yy_ch_buf' = [yy_ch_buf EXCEPT ![p] = NUL]
      /\ yytext_ptr' = yy_bp
      /\ UNCHANGED <<source, stream, b, yy_n_chars>>
  BY DEF FindAction, Goto
<1>2. s = 3 \/ (TokenOf(Plain, s, yy_bp, p)
                /\ EndsHere(Plain, s, p, yy_n_chars, taken = Len(input)))
  BY <1>1 DEF TokenInv, FoundOK
<1>3. \/ s = 3 /\ AtNul(Plain, yy_bp, p)
      \/ s \in 4..21 /\ yy_bp < p /\ p <= yy_n_chars
  BY <1>1 DEF IInv, FindOK
<1>4. p \in Nat
  BY BufferSize DEF IInv, DfaType
<1> HIDE DEF p, s
<1>5. yy_ch_buf \in [0..(b.size + 1) -> Chars256] /\ b.size \in Nat /\ yy_n_chars \in Nat
  BY DEF IInv, Types
<1>6. Plain = yy_ch_buf /\ yy_n_chars <= b.size
  BY <1>1 DEF IInv, Plain, Ends, Scanning, EndsIn
<1>7. p \in 0..(b.size + 1)
  BY <1>3, <1>4, <1>5, <1>6 DEF AtNul
<1>8. Plain' = Plain
  BY <1>1, <1>5, <1>6, <1>7 DEF Plain
<1>9. TokenOK'
  <2> SUFFICES ASSUME yy_act' # YY_END_OF_BUFFER PROVE TokenOK'
    BY DEF TokenOK
  <2>1. s # 3
    BY <1>1, Accepting
  <2>2. s \in 4..21 /\ TokenOf(Plain, s, yy_bp, p)
        /\ EndsHere(Plain, s, p, yy_n_chars, taken = Len(input))
    BY <2>1, <1>2, <1>3
  <2>3. yytext_ptr' = yy_bp /\ yy_cp' = p /\ yy_n_chars' = yy_n_chars
        /\ taken' = taken /\ input' = input
    BY <1>1 DEF stream, source
  <2> QED
    BY <2>2, <2>3, <1>1, <1>8 DEF TokenOK
<1> QED
  BY <1>1, <1>9 DEF TokenInv, DescribeOK, FoundOK, EndSeen, stream, source

LEMMA RealNulTokenStep ==
  ASSUME IInv, TokenInv, RealNul
  PROVE  TokenInv'
<1>1. /\ pc' = "previous" /\ dfa' = Started /\ after' = "nul" /\ b' = Adopted
      /\ UNCHANGED <<source, stream>>
  BY DEF RealNul, Previous, Goto
<1>2. dfa'.state = 1
  BY <1>1, BufferSize DEF IInv, Started, DfaType
<1>3. b'.status = "EOF_PENDING" => b.status = "EOF_PENDING"
  BY <1>1 DEF IInv, Types, Adopted
<1>4. DescribeOK'
  BY <1>2 DEF DescribeOK, Describes, InWord
<1> QED
  BY <1>1, <1>3, <1>4 DEF TokenInv, FoundOK, TokenOK, EndSeen, stream, source

LEMMA TryNulTokenStep ==
  ASSUME IInv, TokenInv, TryNul
  PROVE  TokenInv'
<1> DEFINE e == Advance(dfa, yy_c_buf_p, 1)
<1>1. /\ pc = "nul"
      /\ \/ /\ e.state # JAM /\ dfa' = e
            /\ yy_c_buf_p' = yy_c_buf_p + 1 /\ yy_cp' = yy_c_buf_p + 1
            /\ pc' = "match"
         \/ /\ e.state = JAM /\ dfa' = [e EXCEPT !.state = dfa.state]
            /\ pc' = "find"
            /\ UNCHANGED <<yy_c_buf_p, yy_cp>>
      /\ UNCHANGED <<source, stream, buffer, yytext_ptr, yy_hold_char, yy_bp, yy_act, after, printed>>
  BY DEF TryNul, Goto
<1>2. yy_n_chars \in Nat /\ yy_bp \in Nat /\ yy_cp \in Nat /\ dfa \in DfaType
      /\ yy_c_buf_p \in Nat
  BY DEF IInv, Types
<1>3. Plain = yy_ch_buf /\ Plain' = yy_ch_buf
  BY <1>1 DEF Plain, buffer
<1>4. /\ dfa.state \in Unfinished
      /\ OfKind(yy_ch_buf, dfa.state, yy_bp, yy_c_buf_p)
      /\ yy_cp = yy_c_buf_p /\ yy_c_buf_p < yy_n_chars
      /\ yy_ch_buf[yy_c_buf_p] = NUL
  BY <1>1, <1>3 DEF IInv, NulOK
<1>5. yy_ec[yy_ch_buf[yy_c_buf_p]] = 0
  BY <1>4, Classes DEF NUL, Chars256
<1>6. e.state = Transition(dfa.state, 1)
  BY DEF Advance
<1>7. /\ dfa.state = 1 => Transition(dfa.state, 1) = 4
      /\ dfa.state # 1 => Transition(dfa.state, 1) = 22
  <2>1. dfa.state # 1 => Transition(dfa.state, 1) = 22
    BY <1>4, UnfinishedStates, FromWord, FromTabs, FromOther
  <2> QED
    BY <2>1, FromStart
<1>8. Describes(yy_ch_buf, dfa.state, yy_bp, yy_cp)
  BY <1>1, <1>3 DEF TokenInv, DescribeOK
<1>e. e = [state |-> Transition(dfa.state, 1),
           last  |-> IF yy_accept[dfa.state] # 0 THEN dfa.state ELSE dfa.last,
           cpos  |-> IF yy_accept[dfa.state] # 0 THEN yy_c_buf_p ELSE dfa.cpos]
  BY DEF Advance
<1>9. [e EXCEPT !.state = dfa.state].state = dfa.state
  BY <1>e
<1> HIDE DEF e
<1>10. /\ pc' \in {"match", "find"}
       /\ IF pc' = "match" THEN DescribeOK' ELSE FoundOK'
  <2>1. CASE dfa.state = 1
    <3>1. pc' = "match" /\ dfa'.state = 4
      BY <2>1, <1>1, <1>6, <1>7 DEF JAM
    <3> QED
      BY <3>1 DEF DescribeOK, Describes, InWord
  <2>2. CASE dfa.state # 1
    <3>1. pc' = "find" /\ dfa'.state = dfa.state /\ yy_cp' = yy_cp /\ yy_bp' = yy_bp
      BY <2>2, <1>1, <1>6, <1>7, <1>9 DEF JAM
    <3>2. dfa.state \in 4..21 /\ yy_accept[dfa.state] # 0
      BY <2>2, <1>4, UnfinishedStates
    <3>3. dfa.state # 6
      BY <1>4 DEF Unfinished, InTabs, InWord
    <3>4. TokenOf(yy_ch_buf, dfa.state, yy_bp, yy_cp)
      BY <3>2, <3>3, <1>4, <1>8 DEF TokenOf
    <3>5. EndsHere(yy_ch_buf, dfa.state, yy_cp, yy_n_chars, taken = Len(input))
      BY <1>4, <1>5 DEF EndsHere
    <3>6. yy_n_chars' = yy_n_chars /\ taken' = taken /\ input' = input
      BY <1>1 DEF buffer, stream, source
    <3> QED
      BY <3>1, <3>2, <3>4, <3>5, <3>6, <1>3 DEF FoundOK
  <2> QED
    BY <2>1, <2>2
<1> QED
  BY <1>1, <1>10 DEF TokenInv, DescribeOK, FoundOK, TokenOK, EndSeen, buffer, stream, source

LEMMA PreviousCharTokenStep ==
  ASSUME IInv, TokenInv, PreviousChar
  PROVE  TokenInv'
<1>1. /\ pc = "previous"
      /\ UNCHANGED <<source, stream, buffer, token, yy_bp, yy_act, after, printed>>
  BY DEF PreviousChar
<1>2. yy_ch_buf \in [0..(b.size + 1) -> Chars256] /\ b.size \in Nat
      /\ yy_n_chars \in Nat /\ yy_bp \in Nat /\ yy_cp \in Nat /\ dfa \in DfaType
      /\ yy_c_buf_p \in Nat /\ after \in {"match", "find", "nul"}
  BY DEF IInv, Types
<1>3. Plain = yy_ch_buf
  BY <1>1 DEF Plain
<1>4. /\ dfa.state \in Unfinished /\ OfKind(yy_ch_buf, dfa.state, yy_bp, yy_cp)
      /\ yy_cp <= yy_c_buf_p /\ yy_c_buf_p <= yy_n_chars /\ yy_n_chars <= b.size
      /\ after = "find" => yy_bp < yy_c_buf_p
  BY <1>1, <1>3 DEF IInv, PreviousOK, Ends, Scanning, EndsIn
<1>5. Describes(yy_ch_buf, dfa.state, yy_bp, yy_cp)
  BY <1>1, <1>3 DEF TokenInv, DescribeOK
<1>6. after = "find" => yy_c_buf_p = yy_n_chars /\ taken = Len(input)
  BY <1>1 DEF TokenInv, EndSeen
<1>7. ASSUME yy_cp < yy_c_buf_p,
             LET c == yy_ch_buf[yy_cp]
             IN dfa' = Advance(dfa, yy_cp, IF c = NUL THEN 1 ELSE yy_ec[c]),
             yy_cp' = yy_cp + 1, pc' = pc
      PROVE  TokenInv'
  <2>1. PICK c : c = IF yy_ch_buf[yy_cp] = NUL THEN 1 ELSE yy_ec[yy_ch_buf[yy_cp]]
    OBVIOUS
  <2>2. yy_ch_buf[yy_cp] \in Chars256
    BY <1>2, <1>4, <1>7
  <2>3. c \in 0..12
        /\ (c = yy_ec[yy_ch_buf[yy_cp]] \/ (c = 1 /\ yy_ec[yy_ch_buf[yy_cp]] = 0))
    BY <2>1, <2>2, Classes
  <2>4. dfa' = Advance(dfa, yy_cp, c)
    BY <1>7, <2>1
  <2>5. dfa'.state = Transition(dfa.state, c)
    BY <2>4 DEF Advance
  <2>6. Describes(yy_ch_buf, Transition(dfa.state, c), yy_bp, yy_cp + 1)
    BY <2>2, <2>3, <1>2, <1>4, <1>5, DescribesNext
  <2>7. Plain' = yy_ch_buf /\ pc' = "previous"
    BY <1>1, <1>7 DEF Plain, buffer
  <2>8. DescribeOK'
    BY <2>5, <2>6, <2>7, <1>1, <1>7 DEF DescribeOK
  <2> QED
    BY <2>7, <2>8, <1>1 DEF TokenInv, FoundOK, TokenOK, EndSeen, buffer, stream, source, token
<1>8. ASSUME yy_cp = yy_c_buf_p, pc' = after, UNCHANGED <<yy_cp, dfa>>
      PROVE  TokenInv'
  <2>1. pc' \in {"match", "find", "nul"} /\ Plain' = yy_ch_buf
    BY <1>1, <1>2, <1>8 DEF Plain, buffer
  <2>2. DescribeOK'
    BY <2>1, <1>1, <1>5, <1>8 DEF DescribeOK
  <2>3. FoundOK'
    <3> SUFFICES ASSUME pc' = "find" PROVE FoundOK'
      BY DEF FoundOK
    <3>1. yy_bp < yy_cp /\ yy_cp = yy_n_chars /\ taken = Len(input)
      BY <1>4, <1>6, <1>8
    <3>2. dfa.state # 1
      BY <3>1, <1>2, <1>4 DEF OfKind
    <3>3. dfa.state \in 4..21 /\ yy_accept[dfa.state] # 0
      BY <3>2, <1>4, UnfinishedStates
    <3>4. dfa.state # 6
      BY <1>4 DEF Unfinished, InTabs, InWord
    <3>5. TokenOf(yy_ch_buf, dfa.state, yy_bp, yy_cp)
      BY <3>3, <3>4, <1>4, <1>5 DEF TokenOf
    <3>6. EndsHere(yy_ch_buf, dfa.state, yy_cp, yy_n_chars, taken = Len(input))
      BY <3>1 DEF EndsHere
    <3>7. yy_n_chars' = yy_n_chars /\ taken' = taken /\ input' = input /\ yy_bp' = yy_bp
          /\ dfa' = dfa /\ yy_cp' = yy_cp
      BY <1>1, <1>8 DEF buffer, stream, source
    <3> QED
      BY <3>3, <3>5, <3>6, <3>7, <2>1 DEF FoundOK
  <2> QED
    BY <2>1, <2>2, <2>3, <1>1 DEF TokenInv, TokenOK, EndSeen, buffer, stream, source
<1> QED
  BY <1>7, <1>8 DEF PreviousChar, Goto

LEMMA RescanTokenStep ==
  ASSUME IInv, TokenInv, ContinueScan \/ LastMatch
  PROVE  TokenInv'
<1>1. /\ pc = "loaded" /\ pc' = "previous" /\ dfa' = Started
      /\ yy_n_chars' = yy_n_chars + number_to_move /\ yy_c_buf_p' = number_to_move
      /\ UNCHANGED <<source, stream>>
      /\ \/ after' = "match" /\ b' = b
         \/ yy_n_chars = 0 /\ after' = "find"
  BY DEF ContinueScan, LastMatch, Rescan, Previous, Goto
<1>2. dfa'.state = 1
  BY <1>1, BufferSize DEF IInv, Started, DfaType
<1>3. number_to_move \in Int
  BY BufferSize DEF IInv, number_to_move
<1>4. DescribeOK'
  BY <1>2 DEF DescribeOK, Describes, InWord
<1>5. EndSeen'
  BY <1>1, <1>3 DEF TokenInv, EndSeen, stream, source
<1> QED
  BY <1>1, <1>4, <1>5 DEF TokenInv, FoundOK, TokenOK

LEMMA StutterTokenStep ==
  ASSUME TokenInv, UNCHANGED vars
  PROVE  TokenInv'
<1> USE DEF vars, source, stream, buffer, token, locals, printed
<1>1. Plain' = Plain
  BY DEF Plain
<1> QED
  BY <1>1 DEF TokenInv, DescribeOK, FoundOK, TokenOK, EndSeen

LEMMA TokenStep == IInv /\ TokenInv /\ [Next]_vars => TokenInv'
<1> SUFFICES ASSUME IInv, TokenInv, [Next]_vars PROVE TokenInv'
  OBVIOUS
<1> QED
  BY OtherTokenStep, ReadTokenStep, BeginTokenTokenStep, MatchCharTokenStep, FindActionTokenStep,
     RealNulTokenStep, TryNulTokenStep, PreviousCharTokenStep, RescanTokenStep, StutterTokenStep
     DEF Next, Scan, Stopped

(* Each state stands for the text it was reached by, and a token is only   *)
(* accepted where nothing longer can match.                                *)
THEOREM TokenInvariance == Spec => [](IInv /\ TokenInv)
BY InitTokenInv, InitInvariant, StepInvariant, TokenStep, PTL DEF Spec

-----------------------------------------------------------------------------
(* The rules on one text. *)

Rules(t) == Reference!MatchingRules(t)

LEMMA RuleTests ==
  ASSUME NEW t
  PROVE  /\ Rules(t) \subseteq {"blank", "verb", "word", "end", "echo"}
         /\ "blank" \in Rules(t) <=> \A k \in DOMAIN t : t[k] = 9
         /\ "verb" \in Rules(t) <=> t \in Reference!Verbs
         /\ "word" \in Rules(t) <=> \A k \in DOMAIN t : Reference!Letter(t[k])
         /\ "end" \in Rules(t) <=> t \in {<<45>>, <<10>>}
         /\ "echo" \in Rules(t) <=> Len(t) = 1
BY DEF Rules, Reference!MatchingRules

LEMMA FirstRule ==
  ASSUME NEW R \in SUBSET {"blank", "verb", "word", "end", "echo"}
  PROVE  /\ "blank" \in R => Reference!First(R) = "blank"
         /\ "blank" \notin R /\ "verb" \in R => Reference!First(R) = "verb"
         /\ "blank" \notin R /\ "verb" \notin R /\ "word" \in R => Reference!First(R) = "word"
         /\ "blank" \notin R /\ "verb" \notin R /\ "word" \notin R /\ "end" \in R
              => Reference!First(R) = "end"
         /\ "blank" \notin R /\ "verb" \notin R /\ "word" \notin R /\ "end" \notin R
            /\ "echo" \in R => Reference!First(R) = "echo"
<1> DEFINE Order == Reference!RuleOrder
           IsFirst(r) == \E k \in DOMAIN Order :
                           Order[k] = r /\ \A j \in 1..(k - 1) : Order[j] \notin R
<1>1. /\ DOMAIN Order = 1..5
      /\ Order[1] = "blank" /\ Order[2] = "verb" /\ Order[3] = "word" /\ Order[4] = "end"
      /\ Order[5] = "echo"
  BY DEF Reference!RuleOrder
<1>2. Reference!First(R) = CHOOSE r \in R : IsFirst(r)
  BY DEF Reference!First
<1> HIDE DEF Order
<1>3. \A k \in 1..5 : k = 1 \/ k = 2 \/ k = 3 \/ k = 4 \/ k = 5
  OBVIOUS
<1>4. /\ IsFirst("blank")
      /\ IsFirst("verb") <=> "blank" \notin R
      /\ IsFirst("word") <=> "blank" \notin R /\ "verb" \notin R
      /\ IsFirst("end") <=> "blank" \notin R /\ "verb" \notin R /\ "word" \notin R
      /\ IsFirst("echo") <=>
           "blank" \notin R /\ "verb" \notin R /\ "word" \notin R /\ "end" \notin R
  <2>1. IsFirst("blank")
    BY <1>1
  <2>2. IsFirst("verb") <=> "blank" \notin R
    BY <1>1, <1>3
  <2>3. IsFirst("word") <=> "blank" \notin R /\ "verb" \notin R
    BY <1>1, <1>3
  <2>4. IsFirst("end") <=> "blank" \notin R /\ "verb" \notin R /\ "word" \notin R
    BY <1>1, <1>3
  <2>5. IsFirst("echo") <=>
          "blank" \notin R /\ "verb" \notin R /\ "word" \notin R /\ "end" \notin R
    BY <1>1, <1>3
  <2> QED
    BY <2>1, <2>2, <2>3, <2>4, <2>5
<1> HIDE DEF IsFirst
<1>5. ASSUME NEW x \in R, IsFirst(x), \A y \in R : IsFirst(y) => y = x
      PROVE  Reference!First(R) = x
  BY <1>2, <1>5
<1>6. \A y \in R : y = "blank" \/ y = "verb" \/ y = "word" \/ y = "end" \/ y = "echo"
  OBVIOUS
<1> QED
  BY <1>4, <1>5, <1>6

(* The verbs, character by character. *)
LEMMA VerbTexts ==
  ASSUME NEW t \in Seq(Chars256)
  PROVE  t \in Reference!Verbs <=>
           \/ Len(t) = 2 /\ t[1] = 105 /\ t[2] = 115
           \/ Len(t) = 2 /\ t[1] = 97 /\ t[2] = 109
           \/ Len(t) = 3 /\ t[1] = 97 /\ t[2] = 114 /\ t[3] = 101
           \/ Len(t) = 3 /\ t[1] = 119 /\ t[2] = 97 /\ t[3] = 115
           \/ Len(t) = 4 /\ t[1] = 119 /\ t[2] = 101 /\ t[3] = 114 /\ t[4] = 101
<1>1. t = <<105, 115>> <=> Len(t) = 2 /\ t[1] = 105 /\ t[2] = 115
  OBVIOUS
<1>2. t = <<97, 109>> <=> Len(t) = 2 /\ t[1] = 97 /\ t[2] = 109
  OBVIOUS
<1>3. t = <<97, 114, 101>> <=> Len(t) = 3 /\ t[1] = 97 /\ t[2] = 114 /\ t[3] = 101
  OBVIOUS
<1>4. t = <<119, 97, 115>> <=> Len(t) = 3 /\ t[1] = 119 /\ t[2] = 97 /\ t[3] = 115
  OBVIOUS
<1>5. t = <<119, 101, 114, 101>> <=>
        Len(t) = 4 /\ t[1] = 119 /\ t[2] = 101 /\ t[3] = 114 /\ t[4] = 101
  OBVIOUS
<1> QED
  BY <1>1, <1>2, <1>3, <1>4, <1>5 DEF Reference!Verbs

LEMMA EndTexts ==
  ASSUME NEW t \in Seq(Chars256)
  PROVE  t \in {<<45>>, <<10>>} <=> Len(t) = 1 /\ t[1] \in {10, 45}
OBVIOUS

LEMMA LetterClass ==
  ASSUME NEW x \in Chars256
  PROVE  Reference!Letter(x) <=> yy_ec[x] \in 5..12
BY Letters DEF Reference!Letter

(* A character that cannot go on ends what the rules can match. *)
LEMMA NothingLonger ==
  ASSUME NEW t \in Seq(Chars256), NEW n \in Nat, 1 <= n, n < Len(t),
         \/ yy_ec[t[1]] \in 5..12 /\ yy_ec[t[n + 1]] \notin 5..12
         \/ yy_ec[t[1]] = 2 /\ yy_ec[t[n + 1]] # 2
         \/ yy_ec[t[1]] \notin 5..12 \cup {2}
  PROVE  Rules(t) = {}
<1>1. 1 \in DOMAIN t /\ n + 1 \in DOMAIN t /\ Len(t) # 1
      /\ t[1] \in Chars256 /\ t[n + 1] \in Chars256
  OBVIOUS
<1>2. t[1] = 9 <=> yy_ec[t[1]] = 2
  BY <1>1, Letters
<1>3. t[n + 1] = 9 <=> yy_ec[t[n + 1]] = 2
  BY <1>1, Letters
<1>4. "blank" \notin Rules(t)
  BY <1>1, <1>2, <1>3, RuleTests
<1>5. "word" \notin Rules(t)
  BY <1>1, LetterClass, RuleTests
<1>6. "verb" \notin Rules(t)
  <2> SUFFICES ASSUME t \in Reference!Verbs PROVE FALSE
    BY RuleTests
  <2>1. n + 1 \in {2, 3, 4} /\ Len(t) \in {2, 3, 4}
    BY VerbTexts
  <2>2. t[1] \in {97, 105, 119} /\ t[n + 1] \in {97, 101, 109, 114, 115}
    <3>1. CASE n = 1
      BY <3>1, VerbTexts
    <3>2. CASE n = 2
      BY <3>2, VerbTexts
    <3>3. CASE n = 3
      BY <3>3, VerbTexts
    <3> QED
      BY <2>1, <3>1, <3>2, <3>3
  <2>3. yy_ec[t[1]] \in 5..12 /\ yy_ec[t[n + 1]] \in 5..12
    BY <2>2, <1>1, Letters
  <2> QED
    BY <2>3
<1>7. "end" \notin Rules(t) /\ "echo" \notin Rules(t)
  BY <1>1, EndTexts, RuleTests
<1> QED
  BY <1>4, <1>5, <1>6, <1>7, RuleTests

-----------------------------------------------------------------------------
(* Tokens of the scanner and rules of the lexer. *)

(* What the action of a rule prints. *)
Prints(act, t) ==
  CASE act \in {1, 8} -> << >>
    [] act \in 2..6   -> <<[kind |-> "verb", text |-> t]>>
    [] act = 7        -> <<[kind |-> "word", text |-> t]>>
    [] act = 9        -> <<[kind |-> "echo", text |-> t]>>

LEMMA PrintedBy ==
  ASSUME NEW t, NEW act \in 1..9, NEW r,
         \/ act \in {1, 8} /\ r \in {"blank", "end"}
         \/ act \in 2..6 /\ r = "verb"
         \/ act = 7 /\ r = "word"
         \/ act = 9 /\ r = "echo"
  PROVE  Reference!Printed(r, t) = Prints(act, t)
<1>1. CASE act \in {1, 8} /\ r \in {"blank", "end"}
  BY <1>1 DEF Reference!Printed, Prints
<1>2. CASE act \in 2..6 /\ r = "verb"
  BY <1>2 DEF Reference!Printed, Prints
<1>3. CASE act = 7 /\ r = "word"
  BY <1>3 DEF Reference!Printed, Prints
<1>4. CASE act = 9 /\ r = "echo"
  BY <1>4 DEF Reference!Printed, Prints
<1> QED
  BY <1>1, <1>2, <1>3, <1>4

(* The text t is in buf at lo..hi-1. *)
TextIs(t, buf, lo, hi) ==
  /\ t \in Seq(Chars256)
  /\ Len(t) = hi - lo
  /\ \A k \in 1..Len(t) : t[k] = buf[lo + k - 1]

LEMMA TextClass ==
  ASSUME NEW lo \in Nat, NEW hi \in Nat, lo < hi, NEW buf, NEW t, TextIs(t, buf, lo, hi)
  PROVE  /\ t \in Seq(Chars256) /\ Len(t) \in Nat /\ DOMAIN t = 1..Len(t) /\ Len(t) = hi - lo
         /\ Len(t) >= 1 /\ t[1] = buf[lo] /\ t[1] \in Chars256
         /\ Len(t) >= 2 => t[2] = buf[lo + 1]
         /\ Len(t) >= 3 => t[3] = buf[lo + 2]
         /\ Len(t) >= 4 => t[4] = buf[lo + 3]
         /\ \A k \in 1..Len(t) : lo + k - 1 \in lo..(hi - 1) /\ t[k] = buf[lo + k - 1]
                                 /\ t[k] \in Chars256
<1>1. t \in Seq(Chars256) /\ Len(t) \in Nat /\ DOMAIN t = 1..Len(t) /\ Len(t) = hi - lo
  BY DEF TextIs
<1>2. \A k \in 1..Len(t) : t[k] = buf[lo + k - 1] /\ t[k] \in Chars256
  BY DEF TextIs
<1>3. \A k \in 1..Len(t) : lo + k - 1 \in lo..(hi - 1)
  BY <1>1
<1>4. Len(t) >= 1 /\ lo + 1 - 1 = lo /\ lo + 2 - 1 = lo + 1 /\ lo + 3 - 1 = lo + 2
      /\ lo + 4 - 1 = lo + 3
  BY <1>1
<1>5. Len(t) >= 1 => t[1] = buf[lo] /\ t[1] \in Chars256
  <2>1. 1 \in 1..Len(t)
    BY <1>1, <1>4
  <2> QED
    BY <2>1, <1>2, <1>4
<1>6. Len(t) >= 2 => t[2] = buf[lo + 1]
  <2> SUFFICES ASSUME Len(t) >= 2 PROVE t[2] = buf[lo + 1]
    OBVIOUS
  <2>1. 2 \in 1..Len(t)
    BY <1>1
  <2> QED
    BY <2>1, <1>2, <1>4
<1>7. Len(t) >= 3 => t[3] = buf[lo + 2]
  <2> SUFFICES ASSUME Len(t) >= 3 PROVE t[3] = buf[lo + 2]
    OBVIOUS
  <2>1. 3 \in 1..Len(t)
    BY <1>1
  <2> QED
    BY <2>1, <1>2, <1>4
<1>8. Len(t) >= 4 => t[4] = buf[lo + 3]
  <2> SUFFICES ASSUME Len(t) >= 4 PROVE t[4] = buf[lo + 3]
    OBVIOUS
  <2>1. 4 \in 1..Len(t)
    BY <1>1
  <2> QED
    BY <2>1, <1>2, <1>4
<1> QED
  BY <1>1, <1>2, <1>3, <1>4, <1>5, <1>6, <1>7, <1>8

LEMMA CharClasses ==
  \A x \in Chars256 :
    /\ yy_ec[x] \in 0..1 => x # 9 /\ x \notin {10, 45} /\ ~Reference!Letter(x)
    /\ yy_ec[x] \in 3..4 => x # 9 /\ x \in {10, 45} /\ ~Reference!Letter(x)
    /\ yy_ec[x] = 2 => x = 9
    /\ yy_ec[x] \in 5..12 => x # 9 /\ Reference!Letter(x)
<1> SUFFICES ASSUME NEW x \in Chars256
             PROVE  /\ yy_ec[x] \in 0..1 => x # 9 /\ x \notin {10, 45} /\ ~Reference!Letter(x)
                    /\ yy_ec[x] \in 3..4 => x # 9 /\ x \in {10, 45} /\ ~Reference!Letter(x)
                    /\ yy_ec[x] = 2 => x = 9
                    /\ yy_ec[x] \in 5..12 => x # 9 /\ Reference!Letter(x)
  OBVIOUS
<1>1. /\ yy_ec[x] = 2 <=> x = 9
      /\ yy_ec[x] \in 3..4 <=> x \in {10, 45}
      /\ Reference!Letter(x) <=> yy_ec[x] \in 5..12
  BY Letters, LetterClass
<1> QED
  BY <1>1

VerbStates == {13, 15, 18, 19, 21}

LEMMA WordOrVerb ==
  ASSUME NEW lo \in Nat, NEW hi \in Nat, lo < hi, NEW buf, NEW t, TextIs(t, buf, lo, hi),
         NEW s \in InWord, Describes(buf, s, lo, hi)
  PROVE  t \in Reference!Verbs <=> s \in VerbStates
<1>1. /\ s = 13 <=> Spells(buf, 13, lo, hi)
      /\ s = 15 <=> Spells(buf, 15, lo, hi)
      /\ s = 18 <=> Spells(buf, 18, lo, hi)
      /\ s = 19 <=> Spells(buf, 19, lo, hi)
      /\ s = 21 <=> Spells(buf, 21, lo, hi)
  BY DEF Describes, Beginnings
<1>2. /\ s = 13 <=> hi = lo + 2 /\ buf[lo] = 97  /\ buf[lo + 1] = 109
      /\ s = 15 <=> hi = lo + 2 /\ buf[lo] = 105 /\ buf[lo + 1] = 115
      /\ s = 18 <=> hi = lo + 3 /\ buf[lo] = 97  /\ buf[lo + 1] = 114 /\ buf[lo + 2] = 101
      /\ s = 19 <=> hi = lo + 3 /\ buf[lo] = 119 /\ buf[lo + 1] = 97 /\ buf[lo + 2] = 115
      /\ s = 21 <=> /\ hi = lo + 4
                    /\ buf[lo] = 119 /\ buf[lo + 1] = 101 /\ buf[lo + 2] = 114 /\ buf[lo + 3] = 101
  BY <1>1 DEF Spells
<1>3. /\ t \in Seq(Chars256) /\ Len(t) \in Nat /\ Len(t) = hi - lo
      /\ t[1] = buf[lo]
      /\ Len(t) >= 2 => t[2] = buf[lo + 1]
      /\ Len(t) >= 3 => t[3] = buf[lo + 2]
      /\ Len(t) >= 4 => t[4] = buf[lo + 3]
  BY TextClass
<1>4. /\ s = 13 <=> Len(t) = 2 /\ t[1] = 97 /\ t[2] = 109
      /\ s = 15 <=> Len(t) = 2 /\ t[1] = 105 /\ t[2] = 115
      /\ s = 18 <=> Len(t) = 3 /\ t[1] = 97 /\ t[2] = 114 /\ t[3] = 101
      /\ s = 19 <=> Len(t) = 3 /\ t[1] = 119 /\ t[2] = 97 /\ t[3] = 115
      /\ s = 21 <=> Len(t) = 4 /\ t[1] = 119 /\ t[2] = 101 /\ t[3] = 114 /\ t[4] = 101
  <2>1. Len(t) = 2 <=> hi = lo + 2
    BY <1>3
  <2>2. Len(t) = 3 <=> hi = lo + 3
    BY <1>3
  <2>3. Len(t) = 4 <=> hi = lo + 4
    BY <1>3
  <2>4. ASSUME Len(t) >= 2 PROVE t[2] = buf[lo + 1]
    BY <1>3, <2>4
  <2>5. ASSUME Len(t) >= 3 PROVE t[3] = buf[lo + 2]
    BY <1>3, <2>5
  <2>6. ASSUME Len(t) >= 4 PROVE t[4] = buf[lo + 3]
    BY <1>3, <2>6
  <2>7. Len(t) = 2 => Len(t) >= 2
    OBVIOUS
  <2>8. Len(t) = 3 => Len(t) >= 2 /\ Len(t) >= 3
    OBVIOUS
  <2>9. Len(t) = 4 => Len(t) >= 2 /\ Len(t) >= 3 /\ Len(t) >= 4
    OBVIOUS
  <2>10. t[1] = buf[lo]
    BY <1>3
  <2>11. s = 13 <=> Len(t) = 2 /\ t[1] = 97 /\ t[2] = 109
    BY <1>2, <2>1, <2>4, <2>7, <2>10
  <2>12. s = 15 <=> Len(t) = 2 /\ t[1] = 105 /\ t[2] = 115
    BY <1>2, <2>1, <2>4, <2>7, <2>10
  <2>13. s = 18 <=> Len(t) = 3 /\ t[1] = 97 /\ t[2] = 114 /\ t[3] = 101
    BY <1>2, <2>2, <2>4, <2>5, <2>8, <2>10
  <2>14. s = 19 <=> Len(t) = 3 /\ t[1] = 119 /\ t[2] = 97 /\ t[3] = 115
    BY <1>2, <2>2, <2>4, <2>5, <2>8, <2>10
  <2>15. s = 21 <=> Len(t) = 4 /\ t[1] = 119 /\ t[2] = 101 /\ t[3] = 114 /\ t[4] = 101
    BY <1>2, <2>3, <2>4, <2>5, <2>6, <2>9, <2>10
  <2> QED
    BY <2>11, <2>12, <2>13, <2>14, <2>15
<1> QED
  BY <1>3, <1>4, VerbTexts DEF VerbStates

(* The rule that an accepting state stands for is the first one that       *)
(* matches its text.                                                       *)
LEMMA TokenRule ==
  ASSUME NEW lo \in Nat, NEW hi \in Nat, lo < hi, NEW buf, NEW t, TextIs(t, buf, lo, hi),
         NEW s \in 4..21, TokenOf(buf, s, lo, hi)
  PROVE  /\ Rules(t) # {}
         /\ Reference!Printed(Reference!First(Rules(t)), t) = Prints(yy_accept[s], t)
<1>1. /\ t \in Seq(Chars256) /\ Len(t) \in Nat /\ DOMAIN t = 1..Len(t) /\ Len(t) = hi - lo
      /\ Len(t) >= 1 /\ 1 \in DOMAIN t /\ t[1] = buf[lo] /\ t[1] \in Chars256
      /\ \A k \in 1..Len(t) : lo + k - 1 \in lo..(hi - 1) /\ t[k] = buf[lo + k - 1]
                              /\ t[k] \in Chars256
  <2>1. Len(t) \in Nat /\ Len(t) >= 1 => 1 \in 1..Len(t)
    OBVIOUS
  <2> QED
    BY <2>1, TextClass
<1>2. yy_accept[s] \in 1..9
  BY Accepting
<1>3. Rules(t) \in SUBSET {"blank", "verb", "word", "end", "echo"}
  BY RuleTests
<1>4. CASE s = 4
  <2>1. Len(t) = 1 /\ yy_ec[t[1]] \in 0..1
    BY <1>1, <1>4 DEF TokenOf, OfKind
  <2>2. t[1] # 9 /\ t[1] \notin {10, 45} /\ ~Reference!Letter(t[1])
    BY <2>1, <1>1, CharClasses
  <2>3. "blank" \notin Rules(t) /\ "word" \notin Rules(t)
    BY <2>2, <1>1, RuleTests
  <2>4. "verb" \notin Rules(t)
    BY <2>1, <1>1, VerbTexts, RuleTests
  <2>5. "end" \notin Rules(t) /\ "echo" \in Rules(t)
    BY <2>1, <2>2, <1>1, EndTexts, RuleTests
  <2>6. Reference!First(Rules(t)) = "echo"
    BY <2>3, <2>4, <2>5, <1>3, FirstRule
  <2> QED
    BY <2>5, <2>6, <1>4, Verdicts, PrintedBy
<1>5. CASE s = 6
  <2>1. Len(t) = 1 /\ yy_ec[t[1]] \in 3..4
    BY <1>1, <1>5 DEF TokenOf
  <2>2. t[1] # 9 /\ t[1] \in {10, 45} /\ ~Reference!Letter(t[1])
    BY <2>1, <1>1, CharClasses
  <2>3. "blank" \notin Rules(t) /\ "word" \notin Rules(t)
    BY <2>2, <1>1, RuleTests
  <2>4. "verb" \notin Rules(t)
    BY <2>1, <1>1, VerbTexts, RuleTests
  <2>5. "end" \in Rules(t)
    BY <2>1, <2>2, <1>1, EndTexts, RuleTests
  <2>6. Reference!First(Rules(t)) = "end"
    BY <2>3, <2>4, <2>5, <1>3, FirstRule
  <2> QED
    BY <2>5, <2>6, <1>5, Verdicts, PrintedBy
<1>6. CASE s \in InTabs
  <2>1. \A i \in lo..(hi - 1) : yy_ec[buf[i]] = 2
    BY <1>6 DEF TokenOf, OfKind, InTabs
  <2>2. \A k \in 1..Len(t) : yy_ec[t[k]] = 2
    BY <2>1, <1>1
  <2>3. \A k \in DOMAIN t : t[k] = 9
    BY <2>2, <1>1, CharClasses
  <2>4. "blank" \in Rules(t)
    BY <2>3, RuleTests
  <2>5. Reference!First(Rules(t)) = "blank"
    BY <2>4, <1>3, FirstRule
  <2>6. yy_accept[s] = 1
    BY <1>6, Verdicts DEF InTabs
  <2> QED
    BY <2>4, <2>5, <2>6, PrintedBy
<1>7. CASE s \in InWord
  <2>1. Describes(buf, s, lo, hi) /\ \A i \in lo..(hi - 1) : yy_ec[buf[i]] \in 5..12
    BY <1>7 DEF TokenOf, OfKind, InWord
  <2>2. \A k \in 1..Len(t) : yy_ec[t[k]] \in 5..12
    BY <2>1, <1>1
  <2>3. \A k \in DOMAIN t : Reference!Letter(t[k])
    BY <2>2, <1>1, CharClasses
  <2>4. t[1] # 9
    BY <2>2, <1>1, CharClasses
  <2>5. "blank" \notin Rules(t) /\ "word" \in Rules(t)
    BY <2>3, <2>4, <1>1, RuleTests
  <2>6. "verb" \in Rules(t) <=> s \in VerbStates
    BY <2>1, <1>7, WordOrVerb, RuleTests
  <2>7. CASE s \in VerbStates
    <3>1. Reference!First(Rules(t)) = "verb"
      BY <2>5, <2>6, <2>7, <1>3, FirstRule
    <3>2. yy_accept[s] \in 2..6
      BY <2>7, Verdicts DEF VerbStates
    <3> QED
      BY <3>1, <3>2, <2>5, <1>2, PrintedBy
  <2>8. CASE s \notin VerbStates
    <3>1. Reference!First(Rules(t)) = "word"
      BY <2>5, <2>6, <2>8, <1>3, FirstRule
    <3>2. yy_accept[s] = 7
      BY <2>8, <1>7, Verdicts DEF VerbStates
    <3> QED
      BY <3>1, <3>2, <2>5, <1>2, PrintedBy
  <2> QED
    BY <2>7, <2>8
<1> QED
  BY <1>4, <1>5, <1>6, <1>7 DEF InTabs, InWord

(* Where a token ends, nothing longer matches. *)
LEMMA TokenLongest ==
  ASSUME NEW lo \in Nat, NEW hi \in Nat, lo < hi, NEW buf, NEW s \in 4..21,
         TokenOf(buf, s, lo, hi), NEW n \in Nat, EndsHere(buf, s, hi, n, FALSE),
         NEW u \in Seq(Chars256), Len(u) > hi - lo, u[1] = buf[lo],
         hi < n => u[hi - lo + 1] = buf[hi]
  PROVE  Rules(u) = {}
<1>1. hi - lo \in Nat /\ 1 <= hi - lo /\ hi - lo < Len(u)
  OBVIOUS
<1>2. lo \in lo..(hi - 1)
  OBVIOUS
<1>3. CASE s \in {4, 6}
  <2>1. yy_ec[buf[lo]] \in 0..1 \/ yy_ec[buf[lo]] \in 3..4
    BY <1>3 DEF TokenOf, OfKind
  <2>2. \A x : x \in 0..1 \/ x \in 3..4 => x \notin 5..12 \cup {2}
    OBVIOUS
  <2>3. yy_ec[buf[lo]] \notin 5..12 \cup {2}
    BY <2>1, <2>2
  <2>4. yy_ec[u[1]] \notin 5..12 \cup {2}
    BY <2>3
  <2> QED
    BY <2>4, <1>1, NothingLonger
<1>4. CASE s \in InTabs
  <2>1. yy_ec[buf[lo]] = 2
    BY <1>2, <1>4 DEF TokenOf, OfKind, InTabs
  <2>2. hi < n /\ yy_ec[buf[hi]] # 2
    BY <1>4 DEF EndsHere, InTabs
  <2> QED
    BY <2>1, <2>2, <1>1, NothingLonger
<1>5. CASE s \in InWord
  <2>1. yy_ec[buf[lo]] \in 5..12
    BY <1>2, <1>5 DEF TokenOf, OfKind, InWord
  <2>2. hi < n /\ yy_ec[buf[hi]] \notin 5..12
    BY <1>5 DEF EndsHere, InWord
  <2> QED
    BY <2>1, <2>2, <1>1, NothingLonger
<1> QED
  BY <1>3, <1>4, <1>5 DEF InTabs, InWord

-----------------------------------------------------------------------------
(* The refinement. *)

LEMMA StatusOf ==
  /\ pc = "done" => Status = "done"
  /\ Failed => Status = "failed"
  /\ pc # "done" /\ ~Failed => Status = "running"
BY DEF Status, Failed

LEMMA StatusNext ==
  /\ pc' = "done" => Status' = "done"
  /\ Failed' => Status' = "failed"
  /\ pc' # "done" /\ ~Failed' => Status' = "running"
BY DEF Status, Failed

LEMMA MapsInit == Init => Reference!Init
BY StatusOf DEF Init, Failed, Reference!Init

(* The texts of the lexer. *)
LEMMA TextOfInput ==
  ASSUME Types, NEW m \in Nat, scanned + m <= Len(input)
  PROVE  /\ Reference!Text(m) \in Seq(Chars256)
         /\ Len(Reference!Text(m)) = m
         /\ \A k \in 1..m : Reference!Text(m)[k] = input[scanned + k]
<1> DEFINE u == SubSeq(input, scanned + 1, scanned + m)
<1>1. input \in Seq(Chars256) /\ Len(input) \in Nat /\ scanned \in Nat
  <2>1. input \in Seq(Chars256) /\ scanned \in Nat
    BY DEF Types
  <2> QED
    BY <2>1
<1>2. scanned + 1 \in 1..(Len(input) + 1) /\ scanned + m \in (scanned + 1 - 1)..Len(input)
  BY <1>1
<1>3. /\ u \in Seq(Chars256)
      /\ Len(u) = scanned + m - (scanned + 1) + 1
      /\ \A i \in 1..(scanned + m - (scanned + 1) + 1) : u[i] = input[scanned + 1 + i - 1]
  BY <1>1, <1>2, SubSeqProperties
<1> HIDE DEF u
<1>4. Len(u) = m /\ 1..(scanned + m - (scanned + 1) + 1) = 1..m
  BY <1>1, <1>3
<1>5. \A i \in 1..m : scanned + 1 + i - 1 = scanned + i
  BY <1>1
<1>6. Reference!Text(m) = u
  BY DEF Reference!Text, u
<1> QED
  BY <1>3, <1>4, <1>5, <1>6

(* Each rule prints what the lexer prints for the same token. *)
LEMMA MapsRule ==
  ASSUME IInv, TokenInv, Rule
  PROVE  Reference!Token
<1> DEFINE n == yy_cp - yytext_ptr
           t == Reference!Text(n)
<1>1. /\ pc = "act" /\ pc' = "scan" /\ yy_act \in 1..9 /\ yy_act # YY_END_OF_BUFFER
      /\ scanned' = scanned + Len(yytext)
      /\ out' = out \o Prints(yy_act, yytext)
      /\ input' = input
  BY DEF Rule, Goto, YY_END_OF_BUFFER, source, Prints, Says
<1>2. Types /\ yy_n_chars \in Nat /\ yytext_ptr \in Nat /\ yy_cp \in Nat /\ scanned \in Nat
      /\ input \in Seq(Chars256) /\ Len(input) \in Nat /\ taken \in 0..Len(input)
  <2>1. Types /\ input \in Seq(Chars256) /\ taken \in 0..Len(input)
    BY DEF IInv, Types
  <2>2. yy_n_chars \in Nat /\ yytext_ptr \in Nat /\ yy_cp \in Nat /\ scanned \in Nat
    BY DEF IInv, Types
  <2> QED
    BY <2>1, <2>2
<1>3. yy_c_buf_p = yy_cp /\ yytext_ptr < yy_cp /\ yy_cp <= yy_n_chars
  BY <1>1 DEF IInv, ActOK
<1>4. /\ taken = scanned + (yy_n_chars - yytext_ptr)
      /\ \A i \in yytext_ptr..(yy_n_chars - 1) : Plain[i] = input[scanned + 1 + i - yytext_ptr]
  <2>1. TokenStart = yytext_ptr
    BY <1>1, TokenStarts
  <2> QED
    BY <2>1, <1>1 DEF IInv, Accounted, Scanning
<1>5. n \in Nat /\ n >= 1 /\ scanned + n <= taken /\ scanned + n <= Len(input)
  BY <1>2, <1>3, <1>4
<1>6. t \in Seq(Chars256) /\ Len(t) = n /\ \A k \in 1..n : t[k] = input[scanned + k]
  BY <1>2, <1>5, TextOfInput
<1>7. TextIs(t, Plain, yytext_ptr, yy_cp)
  <2> SUFFICES ASSUME NEW k \in 1..n PROVE t[k] = Plain[yytext_ptr + k - 1]
    BY <1>6 DEF TextIs
  <2>1. yytext_ptr + k - 1 \in yytext_ptr..(yy_n_chars - 1)
        /\ scanned + 1 + (yytext_ptr + k - 1) - yytext_ptr = scanned + k
    BY <1>2, <1>3
  <2>2. Plain[yytext_ptr + k - 1] = input[scanned + k]
    BY <2>1, <1>4
  <2> QED
    BY <2>2, <1>6
<1>8. yytext = t /\ Len(yytext) = n
  <2>1. \A k \in 1..n : yy_ch_buf[yytext_ptr + k - 1] = Plain[yytext_ptr + k - 1]
    <3> SUFFICES ASSUME NEW k \in 1..n
                 PROVE  yy_ch_buf[yytext_ptr + k - 1] = Plain[yytext_ptr + k - 1]
      OBVIOUS
    <3>1. yytext_ptr + k - 1 # yy_c_buf_p /\ yytext_ptr + k - 1 \in 0..(b.size + 1)
      BY <1>1, <1>2, <1>3 DEF IInv, Ends, EndsIn, Scanning, Types
    <3>2. yy_ch_buf \in [0..(b.size + 1) -> Chars256]
      BY <1>2 DEF Types
    <3> QED
      BY <3>1, <3>2, <1>1 DEF Plain
  <2>2. \A k \in 1..n : t[k] = yy_ch_buf[yytext_ptr + k - 1]
    BY <2>1, <1>6, <1>7 DEF TextIs
  <2>3. t = [k \in 1..n |-> t[k]]
    BY <1>6
  <2>4. yytext = [k \in 1..n |-> yy_ch_buf[yytext_ptr + k - 1]]
    BY DEF yytext
  <2> HIDE DEF t, n
  <2>5. yytext = t
    BY <2>2, <2>3, <2>4
  <2> QED
    BY <2>5, <1>6
<1>9. PICK s \in 4..21 : /\ yy_act = yy_accept[s]
                         /\ TokenOf(Plain, s, yytext_ptr, yy_cp)
                         /\ EndsHere(Plain, s, yy_cp, yy_n_chars, taken = Len(input))
  BY <1>1 DEF TokenInv, TokenOK
<1>10. /\ Rules(t) # {}
       /\ Reference!Printed(Reference!First(Rules(t)), t) = Prints(yy_act, t)
  <2> HIDE DEF t, n
  <2>1. TokenOf(Plain, s, yytext_ptr, yy_cp) /\ yy_act = yy_accept[s]
    BY <1>9
  <2>2. \A lo, hi \in Nat : lo < hi => \A buf, x : TextIs(x, buf, lo, hi) /\ TokenOf(buf, s, lo, hi)
          => /\ Rules(x) # {}
             /\ Reference!Printed(Reference!First(Rules(x)), x) = Prints(yy_accept[s], x)
    BY TokenRule
  <2>3. yytext_ptr \in Nat /\ yy_cp \in Nat /\ yytext_ptr < yy_cp
    BY <1>2, <1>3
  <2>4. \A x : TextIs(x, Plain, yytext_ptr, yy_cp)
          => /\ Rules(x) # {}
             /\ Reference!Printed(Reference!First(Rules(x)), x) = Prints(yy_accept[s], x)
    BY <2>1, <2>2, <2>3
  <2> QED
    BY <2>1, <2>4, <1>7
<1>11. \A m \in (n + 1)..(Len(input) - scanned) : Rules(Reference!Text(m)) = {}
  <2> SUFFICES ASSUME NEW m \in (n + 1)..(Len(input) - scanned)
               PROVE  Rules(Reference!Text(m)) = {}
    OBVIOUS
  <2> DEFINE u == Reference!Text(m)
  <2>1. m \in Nat /\ m >= 1 /\ scanned + m <= Len(input) /\ n + 1 \in 1..m /\ 1 \in 1..m
    BY <1>2, <1>5
  <2>2. u \in Seq(Chars256) /\ Len(u) = m /\ \A k \in 1..m : u[k] = input[scanned + k]
    BY <2>1, <1>2, TextOfInput
  <2>3. EndsHere(Plain, s, yy_cp, yy_n_chars, FALSE)
    <3>1. ~(yy_cp = yy_n_chars /\ taken = Len(input))
      BY <1>2, <1>4, <2>1
    <3> QED
      BY <3>1, <1>9 DEF EndsHere
  <2>4. u[1] = Plain[yytext_ptr]
    <3>1. yytext_ptr \in yytext_ptr..(yy_n_chars - 1)
          /\ scanned + 1 + yytext_ptr - yytext_ptr = scanned + 1
      BY <1>2, <1>3
    <3> QED
      BY <3>1, <2>1, <2>2, <1>4
  <2>5. yy_cp < yy_n_chars => u[yy_cp - yytext_ptr + 1] = Plain[yy_cp]
    <3> SUFFICES ASSUME yy_cp < yy_n_chars PROVE u[n + 1] = Plain[yy_cp]
      OBVIOUS
    <3>1. yy_cp \in yytext_ptr..(yy_n_chars - 1)
          /\ scanned + 1 + yy_cp - yytext_ptr = scanned + (n + 1)
      BY <1>2, <1>3
    <3> QED
      BY <3>1, <2>1, <2>2, <1>4
  <2>6. Len(u) > yy_cp - yytext_ptr
    BY <2>1, <2>2, <1>5
  <2> HIDE DEF u
  <2>7. Rules(u) = {}
    BY <1>2, <1>3, <1>9, <2>2, <2>3, <2>4, <2>5, <2>6, TokenLongest
  <2> QED
    BY <2>7 DEF u
<1>12. Status = "running" /\ Status' = "running"
  BY <1>1, StatusOf, StatusNext DEF Failed
<1>13. n \in 1..(Len(input) - scanned)
  BY <1>2, <1>5
<1>14. Reference!Longest(n)
  BY <1>10, <1>11 DEF Rules, Reference!Longest
<1>15. out' = out \o Reference!Printed(Reference!First(Rules(t)), t) /\ scanned' = scanned + n
  BY <1>1, <1>8, <1>10
<1> HIDE DEF n
<1> QED
  BY <1>1, <1>12, <1>13, <1>14, <1>15 DEF Rules, Reference!Token

(* At the end of the file everything is in the tokens. *)
LEMMA MapsEndOfFile ==
  ASSUME IInv, TokenInv, EndOfFile
  PROVE  Reference!EndOfInput
<1>1. /\ pc = "loaded" /\ pc' = "done" /\ yy_n_chars = 0 /\ number_to_move = 0
      /\ UNCHANGED <<source, printed>>
  BY DEF EndOfFile, Goto
<1>2. scanned \in Nat /\ taken = Len(input) /\ taken = scanned
  BY <1>1 DEF IInv, Types, Accounted, TokenInv, EndSeen
<1>3. Status = "running" /\ Status' = "done"
  BY <1>1, StatusOf, StatusNext DEF Failed
<1> QED
  BY <1>1, <1>2, <1>3 DEF Reference!EndOfInput, source, printed

LEMMA MapsFailure ==
  ASSUME Types, pc \notin {"done", "out of memory", "input failed"},
         pc' \in {"out of memory", "input failed"}, UNCHANGED <<source, printed>>
  PROVE  Reference!Fail
<1>1. Status = "running" /\ Status' = "failed"
  BY StatusOf, StatusNext DEF Failed
<1> QED
  BY <1>1 DEF Reference!Fail, source, printed

LEMMA MapsStutter ==
  ASSUME pc \notin {"done", "out of memory", "input failed"},
         pc' \notin {"done", "out of memory", "input failed"}, UNCHANGED <<source, printed>>
  PROVE  UNCHANGED Reference!vars
<1>1. Status = "running" /\ Status' = "running"
  BY StatusOf, StatusNext DEF Failed
<1> QED
  BY <1>1 DEF Reference!vars, source, printed

LEMMA MapsStep == IInv /\ TokenInv /\ [Next]_vars => [Reference!Next]_(Reference!vars)
<1> SUFFICES ASSUME IInv, TokenInv, [Next]_vars PROVE [Reference!Next]_(Reference!vars)
  OBVIOUS
<1> DEFINE Running == pc \notin {"done", "out of memory", "input failed"}
           Failing == pc' \in {"out of memory", "input failed"}
<1>0. Types
  BY DEF IInv
<1>1. CASE Rule
  BY <1>1, MapsRule DEF Reference!Next
<1>2. CASE EndOfFile
  BY <1>2, MapsEndOfFile DEF Reference!Next
<1>3. CASE Initialise \/ Grow \/ ReadLine \/ ReadBlock \/ ReadError
  <2>1. /\ Running /\ UNCHANGED <<source, printed>>
        /\ pc' # "done"
    BY <1>3 DEF Initialise, Grow, ReadLine, ReadBlock, ReadError, Got, InputFailed, OutOfMemory, Goto
  <2>2. CASE Failing
    BY <1>0, <2>1, <2>2, MapsFailure DEF Reference!Next
  <2>3. CASE ~Failing
    BY <2>1, <2>3, MapsStutter
  <2> QED
    BY <2>2, <2>3
<1>4. CASE BeginToken \/ MatchChar \/ FindAction \/ RealNul \/ TryNul \/ EndOfBuffer
  <2>1. /\ Running /\ UNCHANGED <<source, printed>>
        /\ pc' \notin {"done", "out of memory", "input failed"}
    BY <1>4 DEF BeginToken, MatchChar, FindAction, RealNul, TryNul, EndOfBuffer, Previous, Goto
  <2> QED
    BY <2>1, MapsStutter
<1>5. CASE PreviousChar \/ MoveText \/ Room \/ ContinueScan \/ LastMatch
  <2>1. after \in {"match", "find", "nul"}
    BY <1>0 DEF Types
  <2>2. /\ Running /\ UNCHANGED <<source, printed>>
        /\ pc' \notin {"done", "out of memory", "input failed"}
    BY <1>5, <2>1 DEF PreviousChar, MoveText, Room, ContinueScan, LastMatch, Rescan, Previous, Goto
  <2> QED
    BY <2>2, MapsStutter
<1>6. CASE UNCHANGED vars
  <2>1. Status' = Status
    BY <1>6 DEF Status, Failed, vars
  <2> QED
    BY <1>6, <2>1 DEF Reference!vars, vars, source, printed
<1> QED
  BY <1>1, <1>2, <1>3, <1>4, <1>5, <1>6 DEF Next, Scan, Stopped

(* LongestMatch, but for its fairness, for every instance: what yylex      *)
(* prints are the longest matches of the rules on the whole input, and it  *)
(* returns when the whole input is in the tokens.                          *)
THEOREM ImplementsLexer == Spec => Reference!Init /\ [][Reference!Next]_(Reference!vars)
BY MapsInit, MapsStep, TokenInvariance, PTL DEF Spec
=============================================================================

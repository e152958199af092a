---------------------------- MODULE QuickSortProofs ----------------------------
(***************************************************************************)
(* Theorems about QuickSort, for arrays of every size, every integer       *)
(* values and every size of the stack.                                     *)
(***************************************************************************)
EXTENDS QuickSort, SequenceTheorems, TLAPS

Running == {"outer", "up", "down"}

(* A call that waits has split its range, and the calls above one that     *)
(* waits for its left part stay within that part.                          *)
CallsOK ==
  /\ pc \in Running \cup {"call"} => Top.at = "left"
  /\ \A c \in 1..(Len(calls) - 1) :
       calls[c].lpos <= calls[c].j /\ calls[c].j <= calls[c].rpos
  /\ \A c, d \in 1..Len(calls) :
       c < d /\ calls[c].at = "left" => calls[d].rpos <= calls[c].j

(* The elements of the running call's range up to m, and from m on.        *)
Low(m)  == \A k \in Index : Top.lpos <= k /\ k <= m => arr[k] <= pivot
High(m) == \A k \in Index : m <= k /\ k <= Top.rpos => arr[k] > pivot

(* What is below the scan upwards is not above the pivot, what is above    *)
(* the scan downwards is, and the scans end side by side.                  *)
Scanned ==
  /\ Top.lpos < Top.rpos /\ arr[Top.lpos] = pivot
  /\ pc = "outer" =>
       \/ Top.lpos <= i /\ i < j /\ j <= Top.rpos + 1 /\ Low(i) /\ High(j)
       \/ i = j + 1 /\ Top.lpos <= j /\ j <= Top.rpos /\ Low(j) /\ High(j + 1)
  /\ pc = "up" =>
       Top.lpos < i /\ i <= j /\ j <= Top.rpos + 1 /\ Low(i - 1) /\ High(j)
  /\ pc = "down" =>
       /\ Top.lpos < i /\ i <= j + 1 /\ Top.lpos <= j /\ j <= Top.rpos
       /\ Low(i - 1) /\ High(j + 1)
       /\ i <= Top.rpos => arr[i] > pivot

PartitionOK == pc \in Running => Scanned

(* Elements k and l are both in the right part of a call that waits for    *)
(* its left one, or both in the range of the running call.                 *)
Later(k, l) ==
  \E c \in 1..(Len(calls) - 1) :
    calls[c].at = "left" /\ calls[c].j + 1 <= k /\ l <= calls[c].rpos

Now(k, l) == pc \in Running \cup {"call"} /\ Top.lpos <= k /\ l <= Top.rpos

Apart ==
  pc # "killed"
    => \A k, l \in Index : k < l => arr[k] < arr[l] \/ Later(k, l) \/ Now(k, l)

(* The running call is as deep as a call on its range can be: its caller   *)
(* passed on the whole range, because the pivot, now last, is the greatest.*)
Tight == Len(calls) + 2 * (Top.rpos - Top.lpos) = 2 * N

(* If no two elements are equal, a call ranges over fewer elements than    *)
(* the call two below it, so that 2N calls are enough.                     *)
DepthOK ==
  Distinct =>
    /\ pc # "killed"
    /\ \A c \in 1..Len(calls) : c + 2 * (calls[c].rpos - calls[c].lpos) <= 2 * N
    /\ \A c \in 1..(Len(calls) - 1) : calls[c].lpos < calls[c].rpos
    /\ pc = "call" /\ Tight
         => \A k \in Index : Top.lpos <= k /\ k <= Top.rpos => arr[k] <= arr[Top.rpos]
    /\ pc \in Running /\ Tight => arr[Top.rpos] > pivot

(* Every element of the array before is still somewhere. *)
Onto == \A m \in Index : \E k \in Index : origin[k] = m

IInv == TypeOK /\ CallsOK /\ PartitionOK /\ Apart /\ Rearranged /\ Onto /\ DepthOK

-------------------------------------------------------------------------------
(* What the stack operations do, for sequences of every kind. *)
LEMMA Appended ==
  ASSUME NEW S, NEW s \in Seq(S), NEW e \in S
  PROVE  /\ Append(s, e) \in Seq(S)
         /\ Len(s) \in Nat
         /\ Len(Append(s, e)) = Len(s) + 1
         /\ \A k \in 1..Len(s) : Append(s, e)[k] = s[k]
         /\ Append(s, e)[Len(s) + 1] = e
BY AppendProperties

LEMMA Dropped ==
  ASSUME NEW S, NEW s \in Seq(S), NEW n \in Nat, n <= Len(s)
  PROVE  /\ SubSeq(s, 1, n) \in Seq(S)
         /\ Len(SubSeq(s, 1, n)) = n
         /\ \A k \in 1..n : SubSeq(s, 1, n)[k] = s[k]
OBVIOUS

(* The types of a call's fields. *)
LEMMA CallTypes ==
  ASSUME NEW call \in Call
  PROVE  /\ call.lpos \in 0..N /\ call.rpos \in -1..(N - 1) /\ call.j \in 0..N
         /\ call.at \in {"left", "right"}
         /\ N \in Nat /\ N > 0
BY SizeAssumption DEF Call

(* What becomes of a call that goes on. *)
LEMMA Updated ==
  ASSUME NEW call \in Call, NEW k \in 0..N
  PROVE  /\ Partitioned(call, k) \in Call /\ OnTheRight(call) \in Call
         /\ Partitioned(call, k) = [lpos |-> call.lpos, rpos |-> call.rpos,
                                     j |-> k, at |-> call.at]
         /\ OnTheRight(call) = [lpos |-> call.lpos, rpos |-> call.rpos,
                                 j |-> call.j, at |-> "right"]
<1>1. /\ call = [lpos |-> call.lpos, rpos |-> call.rpos, j |-> call.j, at |-> call.at]
      /\ call.lpos \in 0..N /\ call.rpos \in -1..(N - 1) /\ call.j \in 0..N
      /\ call.at \in {"left", "right"}
  BY DEF Call
<1>2. Partitioned(call, k) = [lpos |-> call.lpos, rpos |-> call.rpos,
                              j |-> k, at |-> call.at]
  BY <1>1 DEF Partitioned, Call
<1>3. OnTheRight(call) = [lpos |-> call.lpos, rpos |-> call.rpos,
                          j |-> call.j, at |-> "right"]
  BY <1>1 DEF OnTheRight, Call
<1>4. Partitioned(call, k) \in Call
  BY <1>1, <1>2 DEF Call
<1>5. OnTheRight(call) \in Call
  BY <1>1, <1>3 DEF Call
<1> QED
  BY <1>2, <1>3, <1>4, <1>5

(* The running call, when there is one. *)
LEMMA TopTypes ==
  ASSUME TypeOK, pc # "done"
  PROVE  /\ Len(calls) \in Nat /\ Len(calls) > 0 /\ Len(calls) \in 1..Len(calls)
         /\ Top \in Call
         /\ N \in Nat /\ N > 0
         /\ Top.lpos \in Int /\ Top.rpos \in Int /\ 0 <= Top.lpos /\ Top.rpos < N
         /\ i \in Int /\ j \in Int /\ pivot \in Int
         /\ \A k \in Index : k \in Int /\ arr[k] \in Int
<1>1. calls \in Seq(Call) /\ calls # << >>
  BY DEF TypeOK
<1>2. Len(calls) \in Nat /\ Len(calls) > 0
  BY <1>1, EmptySeq
<1>3. Len(calls) \in 1..Len(calls) /\ Top \in Call
  BY <1>1, <1>2 DEF Top
<1>4. N \in Nat /\ N > 0
  BY SizeAssumption
<1>5. /\ Top.lpos \in Int /\ Top.rpos \in Int /\ 0 <= Top.lpos /\ Top.rpos < N
  BY <1>3, <1>4, CallTypes
<1>6. i \in Int /\ j \in Int /\ pivot \in Int /\ \A k \in Index : k \in Int /\ arr[k] \in Int
  BY <1>4 DEF TypeOK, Index
<1> QED
  BY <1>2, <1>3, <1>4, <1>5, <1>6

(* The calls after Split. *)
LEMMA SplitCalls ==
  ASSUME TypeOK, CallsOK, PartitionOK, Split
  PROVE  LET n == Len(calls) IN
         /\ i = j + 1 /\ Top.lpos <= j /\ j <= Top.rpos /\ Low(j) /\ High(j + 1)
         /\ calls' \in Seq(Call) /\ Len(calls') <= STACK /\ calls' # << >>
         /\ pc' \in {"call", "killed"}
         /\ Len(calls') = (IF pc' = "call" THEN n + 1 ELSE n)
         /\ \A c \in 1..(n - 1) : calls'[c] = calls[c]
         /\ calls'[n].lpos = Top.lpos /\ calls'[n].rpos = Top.rpos
         /\ calls'[n].j = j /\ calls'[n].at = "left"
         /\ pc' = "call" => calls'[n + 1] = NewCall(Top.lpos, j)
<1> DEFINE n == Len(calls)
           s == [calls EXCEPT ![n] = Partitioned(Top, j)]
           e == NewCall(Top.lpos, j)
<1>1. pc = "outer" /\ i >= j /\ pc # "done"
  BY DEF Split
<1>2. i = j + 1 /\ Top.lpos <= j /\ j <= Top.rpos /\ Low(j) /\ High(j + 1)
  BY <1>1, TopTypes DEF PartitionOK, Scanned, Running
<1>3. j \in 0..(N - 1) /\ Top \in Call /\ n \in 1..n /\ n \in Nat
  BY <1>1, <1>2, TopTypes
<1>4. /\ Partitioned(Top, j) \in Call /\ Partitioned(Top, j).lpos = Top.lpos
      /\ Partitioned(Top, j).rpos = Top.rpos /\ Partitioned(Top, j).j = j
      /\ Partitioned(Top, j).at = Top.at
  <2>1. j \in 0..N
    BY <1>3, TopTypes, <1>1
  <2>2. /\ Partitioned(Top, j) \in Call
        /\ Partitioned(Top, j) = [lpos |-> Top.lpos, rpos |-> Top.rpos,
                                  j |-> j, at |-> Top.at]
    BY <2>1, <1>3, Updated
  <2> QED
    BY <2>2
<1>5. Top.at = "left"
  BY <1>1 DEF CallsOK, Running
<1>6. calls \in Seq(Call) /\ n <= STACK /\ STACK \in Nat
  BY StackAssumption DEF TypeOK
<1>7. /\ s \in Seq(Call) /\ Len(s) = n
      /\ \A c \in 1..n : s[c] = IF c = n THEN Partitioned(Top, j) ELSE calls[c]
  BY <1>3, <1>4, <1>6, ExceptSeq
<1>8. e \in Call
  BY <1>3, CallTypes DEF NewCall, Call
<1>9. \/ Len(s) < STACK /\ pc' = "call" /\ calls' = Append(s, e)
      \/ ~(Len(s) < STACK) /\ pc' = "killed" /\ calls' = s
  <2>1. Push(s, e)
    BY DEF Split, LeftEnd, Top
  <2> QED
    BY <2>1 DEF Push
<1> HIDE DEF s, e
<1>10. CASE Len(s) < STACK /\ pc' = "call" /\ calls' = Append(s, e)
  <2>1. /\ calls' \in Seq(Call) /\ Len(calls') = n + 1
        /\ \A c \in 1..n : calls'[c] = s[c]
        /\ calls'[n + 1] = e
    BY <1>7, <1>8, <1>10, Appended
  <2>2. calls' # << >>
    BY <1>3, <2>1, EmptySeq
  <2>3. Len(calls') <= STACK
    BY <1>3, <1>6, <1>7, <1>10, <2>1
  <2>4. calls'[n] = Partitioned(Top, j) /\ \A c \in 1..(n - 1) : calls'[c] = calls[c]
    BY <1>3, <1>7, <2>1
  <2> QED
    BY <1>2, <1>4, <1>5, <1>10, <2>1, <2>2, <2>3, <2>4 DEF e
<1>11. CASE ~(Len(s) < STACK) /\ pc' = "killed" /\ calls' = s
  <2>1. calls' # << >>
    BY <1>3, <1>7, <1>11, EmptySeq
  <2>2. calls'[n] = Partitioned(Top, j) /\ \A c \in 1..(n - 1) : calls'[c] = calls[c]
    BY <1>3, <1>7, <1>11
  <2> QED
    BY <1>2, <1>4, <1>5, <1>6, <1>7, <1>11, <2>1, <2>2
<1> QED
  BY <1>9, <1>10, <1>11

(* The calls after Return. *)
LEMMA ReturnCalls ==
  ASSUME TypeOK, CallsOK, Return
  PROVE  LET n == Len(calls) IN
         \/ n = 1 /\ calls' = << >> /\ pc' = "done"
         \/ /\ n > 1 /\ calls[n - 1].at = "left"
            /\ calls' \in Seq(Call) /\ Len(calls') <= STACK /\ calls' # << >>
            /\ pc' \in {"call", "killed"}
            /\ Len(calls') = (IF pc' = "call" THEN n ELSE n - 1)
            /\ \A c \in 1..(n - 2) : calls'[c] = calls[c]
            /\ calls'[n - 1] = OnTheRight(calls[n - 1])
            /\ pc' = "call"
                 => calls'[n] = NewCall(RightStart(calls[n - 1]), calls[n - 1].rpos)
         \/ /\ n > 1 /\ calls[n - 1].at # "left"
            /\ calls' \in Seq(Call) /\ Len(calls') = n - 1 /\ calls' # << >>
            /\ pc' = "return"
            /\ \A c \in 1..(n - 1) : calls'[c] = calls[c]
<1> DEFINE n == Len(calls)
           m == Len(Rest)
           caller == Rest[m]
           s == [Rest EXCEPT ![m] = OnTheRight(caller)]
           e == NewCall(RightStart(caller), caller.rpos)
<1>1. pc = "return" /\ pc # "done"
  BY DEF Return
<1>2. calls \in Seq(Call) /\ n <= STACK /\ STACK \in Nat /\ n \in Nat /\ n > 0
  BY <1>1, TopTypes, StackAssumption DEF TypeOK
<1>3. /\ Rest \in Seq(Call) /\ m = n - 1 /\ m \in Nat
      /\ \A k \in 1..(n - 1) : Rest[k] = calls[k]
  <2>1. n - 1 \in Nat /\ n - 1 <= Len(calls)
    BY <1>2
  <2> QED
    BY <1>2, <2>1, Dropped DEF Rest
<1>4. CASE Rest = << >>
  <2>1. calls' = Rest /\ pc' = "done"
    BY <1>4 DEF Return
  <2>2. n = 1
    BY <1>2, <1>3, <1>4, EmptySeq
  <2> QED
    BY <1>4, <2>1, <2>2
<1>5. CASE Rest # << >> /\ caller.at = "left"
  <2>1. m > 0 /\ n > 1 /\ m \in 1..m /\ caller = calls[n - 1]
    BY <1>2, <1>3, <1>5, EmptySeq
  <2>2. Push(s, e)
    <3>1. Push([Rest EXCEPT ![Len(Rest)] = OnTheRight(@)],
               NewCall(RightStart(Rest[Len(Rest)]), Rest[Len(Rest)].rpos))
      BY <1>5 DEF Return
    <3> QED
      BY <3>1
  <2>3. caller \in Call /\ caller.j <= caller.rpos /\ caller.lpos <= caller.j
    BY <1>2, <1>3, <2>1 DEF CallsOK
  <2>4. OnTheRight(caller) \in Call
    BY <2>3, CallTypes, Updated
  <2>5. e \in Call
    <3>1. RightStart(caller) \in 0..N /\ caller.rpos \in -1..(N - 1)
      BY <2>3, CallTypes DEF RightStart
    <3> QED
      BY <3>1 DEF NewCall, Call
  <2>6. /\ s \in Seq(Call) /\ Len(s) = m
        /\ \A c \in 1..m : s[c] = IF c = m THEN OnTheRight(caller) ELSE Rest[c]
    BY <1>3, <2>1, <2>4, ExceptSeq
  <2>7. /\ \A c \in 1..(n - 2) : s[c] = calls[c]
        /\ s[n - 1] = OnTheRight(calls[n - 1])
    BY <1>2, <1>3, <2>1, <2>6
  <2> HIDE DEF s, e
  <2>8. CASE Len(s) < STACK /\ pc' = "call" /\ calls' = Append(s, e)
    <3>1. /\ calls' \in Seq(Call) /\ Len(calls') = m + 1
          /\ \A c \in 1..m : calls'[c] = s[c]
          /\ calls'[m + 1] = e
      BY <2>5, <2>6, <2>8, Appended
    <3>2. calls' # << >> /\ Len(calls') <= STACK /\ Len(calls') = n
      BY <1>2, <1>3, <2>6, <2>8, <3>1, EmptySeq
    <3>3. /\ \A c \in 1..(n - 2) : calls'[c] = calls[c]
          /\ calls'[n - 1] = OnTheRight(calls[n - 1])
          /\ calls'[n] = e
      BY <1>2, <1>3, <2>1, <2>7, <3>1
    <3> QED
      BY <1>5, <2>1, <2>8, <3>1, <3>2, <3>3 DEF e
  <2>9. CASE ~(Len(s) < STACK) /\ pc' = "killed" /\ calls' = s
    <3>1. calls' # << >> /\ Len(calls') <= STACK /\ Len(calls') = n - 1
      BY <1>2, <1>3, <2>1, <2>6, <2>9, EmptySeq
    <3> QED
      BY <1>5, <2>1, <2>6, <2>7, <2>9, <3>1
  <2> QED
    BY <2>2, <2>8, <2>9 DEF Push
<1>6. CASE Rest # << >> /\ caller.at # "left"
  <2>1. n > 1 /\ caller = calls[n - 1]
    BY <1>2, <1>3, <1>6, EmptySeq
  <2>2. calls' = Rest /\ pc' = "return"
    BY <1>1, <1>6 DEF Return
  <2> QED
    BY <1>3, <1>6, <2>1, <2>2
<1> QED
  BY <1>4, <1>5, <1>6

-------------------------------------------------------------------------------
(* The other actions leave the calls alone, and do not end the program. *)
LEMMA SameCalls ==
  ASSUME TypeOK, Enter \/ StartScan \/ ScanUp \/ ScanDown
  PROVE  /\ calls' = calls /\ arr0' = arr0 /\ pc # "done"
         /\ pc' \in {"outer", "up", "down", "return"}
         /\ pc \in {"call", "outer", "up", "down"}
BY DEF TypeOK, Enter, StartScan, ScanUp, ScanDown

(* Exchange within the array. *)
LEMMA Exchanged ==
  ASSUME TypeOK, NEW a \in Index, NEW b \in Index, Exchange(a, b)
  PROVE  /\ arr' \in [Index -> Int] /\ origin' \in [Index -> Index]
         /\ arr'[a] = arr[b] /\ arr'[b] = arr[a]
         /\ origin'[a] = origin[b] /\ origin'[b] = origin[a]
         /\ \A k \in Index \ {a, b} : arr'[k] = arr[k] /\ origin'[k] = origin[k]
<1>1. arr \in [Index -> Int] /\ origin \in [Index -> Index]
  BY DEF TypeOK
<1>2. /\ arr' = [arr EXCEPT ![a] = arr[b], ![b] = arr[a]]
      /\ origin' = [origin EXCEPT ![a] = origin[b], ![b] = origin[a]]
  BY DEF Exchange, swap
<1>3. arr' \in [Index -> Int] /\ origin' \in [Index -> Index]
  BY <1>1, <1>2
<1>4. arr'[a] = arr[b] /\ arr'[b] = arr[a]
  BY <1>1, <1>2
<1>5. origin'[a] = origin[b] /\ origin'[b] = origin[a]
  BY <1>1, <1>2
<1>6. \A k \in Index \ {a, b} : arr'[k] = arr[k] /\ origin'[k] = origin[k]
  BY <1>1, <1>2
<1> QED
  BY <1>3, <1>4, <1>5, <1>6

(* What ScanDown and Split exchange is in the range of the running call. *)
LEMMA RangeInIndex ==
  ASSUME TypeOK, pc # "done", NEW k \in Int, Top.lpos <= k, k <= Top.rpos
  PROVE  k \in Index
BY TopTypes DEF Index

-------------------------------------------------------------------------------
(* The partition goes on as it should. *)
LEMMA StepPartitionOK ==
  ASSUME TypeOK, CallsOK, PartitionOK, Next
  PROVE  PartitionOK'
<1>1. CASE Enter
  <2> USE <1>1
  <2>1. calls' = calls /\ arr' = arr /\ Top' = Top /\ pc # "done"
    BY SameCalls DEF Enter, Top
  <2>2. SUFFICES ASSUME Top.lpos < Top.rpos
                 PROVE  PartitionOK'
    BY <2>1 DEF Enter, PartitionOK, Running
  <2>3. pivot' = arr[Top.lpos] /\ i' = Top.lpos /\ j' = Top.rpos + 1 /\ pc' = "outer"
    BY <2>2 DEF Enter
  <2>4. Low(i)' /\ High(j)'
    <3>1. \A k \in Index : k \in Int /\ arr[k] \in Int
      BY <2>1, TopTypes
    <3>2. Top.lpos \in Int /\ Top.rpos \in Int /\ Top.lpos \in Index
      BY <2>1, <2>2, TopTypes, RangeInIndex
    <3>3. \A k \in Index : Top.lpos <= k /\ k <= Top.lpos => arr[k] <= arr[Top.lpos]
      BY <3>1, <3>2
    <3>4. \A k \in Index : ~(Top.rpos + 1 <= k /\ k <= Top.rpos)
      BY <3>1, <3>2
    <3> QED
      BY <2>1, <2>3, <3>3, <3>4 DEF Low, High
  <2>5. Top.lpos <= i' /\ i' < j' /\ j' <= Top.rpos + 1
    BY <2>1, <2>2, <2>3, TopTypes
  <2> QED
    BY <2>1, <2>2, <2>3, <2>4, <2>5 DEF PartitionOK, Scanned
<1>2. CASE StartScan
  <2> USE <1>2
  <2>1. /\ calls' = calls /\ arr' = arr /\ Top' = Top /\ pc # "done" /\ pivot' = pivot
        /\ j' = j /\ i' = i + 1 /\ pc' = "up" /\ pc = "outer" /\ i < j
    BY SameCalls DEF StartScan, Top, NextUp
  <2>2. /\ Top.lpos < Top.rpos /\ arr[Top.lpos] = pivot
        /\ Top.lpos <= i /\ j <= Top.rpos + 1 /\ Low(i) /\ High(j)
    BY <2>1, TopTypes DEF PartitionOK, Scanned, Running
  <2>3. Top.lpos < i' /\ i' <= j' /\ j' <= Top.rpos + 1 /\ i' - 1 = i
    BY <2>1, <2>2, TopTypes
  <2>4. Low(i - 1)' /\ High(j)'
    BY <2>1, <2>2, <2>3 DEF Low, High
  <2> QED
    BY <2>1, <2>2, <2>3, <2>4 DEF PartitionOK, Scanned
<1>3. CASE ScanUp
  <2> USE <1>3
  <2>1. /\ calls' = calls /\ arr' = arr /\ Top' = Top /\ pc # "done" /\ pivot' = pivot
        /\ pc = "up"
    BY SameCalls DEF ScanUp, Top
  <2>2. /\ Top.lpos < Top.rpos /\ arr[Top.lpos] = pivot
        /\ Top.lpos < i /\ i <= j /\ j <= Top.rpos + 1 /\ Low(i - 1) /\ High(j)
    BY <2>1 DEF PartitionOK, Scanned, Running
  <2>3. i <= Top.rpos => i \in Index /\ Memory(i) = {arr[i]}
    BY <2>1, <2>2, TopTypes, RangeInIndex DEF Memory
  <2>4. PICK x \in Memory(i) :
           IF GoesUp(x) THEN i' = i + 1 /\ pc' = pc /\ j' = j
                        ELSE j' = j - 1 /\ pc' = "down" /\ i' = i
    BY DEF ScanUp, NextUp, NextDown
  <2>5. i <= Top.rpos => x = arr[i] /\ x \in Int
    BY <2>1, <2>3, <2>4, TopTypes
  <2>6. CASE GoesUp(x)
    <3>1. i <= Top.rpos /\ x <= pivot /\ i' = i + 1 /\ pc' = "up" /\ j' = j
      BY <2>1, <2>4, <2>6 DEF GoesUp
    <3>2. i \in Index /\ arr[i] <= pivot
      BY <2>3, <2>5, <3>1
    <3>3. i # j
      BY <2>1, <2>2, <2>5, <3>1, <3>2, TopTypes DEF High
    <3>4. Low(i)
      BY <2>1, <2>2, <3>2, TopTypes DEF Low
    <3>5. Top.lpos < i' /\ i' <= j' /\ j' <= Top.rpos + 1 /\ i' - 1 = i
      BY <2>1, <2>2, <3>1, <3>3, TopTypes
    <3>6. Low(i - 1)' /\ High(j)'
      BY <2>1, <2>2, <3>1, <3>4, <3>5 DEF Low, High
    <3> QED
      BY <2>1, <2>2, <3>1, <3>5, <3>6 DEF PartitionOK, Scanned
  <2>7. CASE ~GoesUp(x)
    <3>1. j' = j - 1 /\ pc' = "down" /\ i' = i
      BY <2>4, <2>7
    <3>2. i' <= Top.rpos => arr[i'] > pivot
      BY <2>1, <2>3, <2>5, <2>7, <3>1, TopTypes DEF GoesUp
    <3>3. /\ Top.lpos < i' /\ i' <= j' + 1 /\ Top.lpos <= j' /\ j' <= Top.rpos
          /\ j' + 1 = j /\ i' - 1 = i - 1
      BY <2>1, <2>2, <3>1, TopTypes
    <3>4. Low(i - 1)' /\ High(j + 1)'
      BY <2>1, <2>2, <3>1, <3>3 DEF Low, High
    <3> QED
      BY <2>1, <2>2, <3>1, <3>2, <3>3, <3>4 DEF PartitionOK, Scanned
  <2> QED
    BY <2>6, <2>7
<1>4. CASE ScanDown
  <2> USE <1>4
  <2>1. /\ calls' = calls /\ Top' = Top /\ pc # "done" /\ pivot' = pivot
        /\ pc = "down" /\ i' = i
    BY SameCalls DEF ScanDown, Top
  <2>2. /\ Top.lpos < Top.rpos /\ arr[Top.lpos] = pivot
        /\ Top.lpos < i /\ i <= j + 1 /\ Top.lpos <= j /\ j <= Top.rpos
        /\ Low(i - 1) /\ High(j + 1)
        /\ i <= Top.rpos => arr[i] > pivot
    BY <2>1 DEF PartitionOK, Scanned, Running
  <2>3. j \in Index /\ arr[j] \in Int /\ Top.lpos \in Index
    BY <2>1, <2>2, TopTypes, RangeInIndex
  <2> pivot \in Int /\ i \in Int /\ j \in Int /\ \A k \in Index : k \in Int
    BY <2>1, TopTypes
  <2>4. CASE GoesDown
    <3>1. arr' = arr /\ j' = j - 1 /\ pc' = "down" /\ arr[j] > pivot
      BY <2>1, <2>4 DEF ScanDown, GoesDown, NextDown
    <3>2. j # Top.lpos
      BY <2>1, <2>2, <2>3, <3>1, TopTypes
    <3>3. ~(j <= i - 1)
      BY <2>2, <2>3, <3>1 DEF Low
    <3>4. High(j)
      BY <2>2, <2>3, <3>1 DEF High
    <3>5. /\ i' <= j' + 1 /\ Top.lpos <= j' /\ j' <= Top.rpos /\ j' + 1 = j
      BY <2>1, <2>2, <3>1, <3>2, <3>3, TopTypes
    <3>6. Low(i - 1)' /\ High(j + 1)'
      BY <2>1, <2>2, <3>1, <3>4, <3>5 DEF Low, High
    <3> QED
      BY <2>1, <2>2, <3>1, <3>5, <3>6 DEF PartitionOK, Scanned
  <2>5. CASE ~GoesDown /\ i < j
    <3>1. Exchange(i, j) /\ j' = j /\ pc' = "outer" /\ arr[j] <= pivot
      BY <2>1, <2>3, <2>5, TopTypes DEF ScanDown, GoesDown
    <3>2. i \in Index /\ i <= Top.rpos /\ arr[i] > pivot
      BY <2>1, <2>2, <2>5, TopTypes, RangeInIndex
    <3>3. /\ arr'[i] = arr[j] /\ arr'[j] = arr[i]
          /\ \A k \in Index \ {i, j} : arr'[k] = arr[k]
      BY <2>3, <3>1, <3>2, Exchanged
    <3>4. \A k \in Index : Top.lpos <= k /\ k <= i => arr'[k] <= pivot
      BY <2>1, <2>2, <2>5, <3>1, <3>3, TopTypes DEF Low
    <3>5. \A k \in Index : j <= k /\ k <= Top.rpos => arr'[k] > pivot
      BY <2>1, <2>2, <2>5, <3>2, <3>3, TopTypes DEF High
    <3>6. arr'[Top.lpos] = pivot
      BY <2>1, <2>2, <2>3, <2>5, <3>3, TopTypes
    <3>7. Low(i)' /\ High(j)'
      BY <2>1, <3>1, <3>4, <3>5 DEF Low, High
    <3>8. Top.lpos <= i' /\ i' < j' /\ j' <= Top.rpos + 1
      BY <2>1, <2>2, <2>5, <3>1, TopTypes
    <3> QED
      BY <2>1, <2>2, <3>1, <3>6, <3>7, <3>8 DEF PartitionOK, Scanned
  <2>6. CASE ~GoesDown /\ ~(i < j)
    <3>1. arr' = arr /\ j' = j /\ pc' = "outer" /\ arr[j] <= pivot
      BY <2>1, <2>3, <2>6, TopTypes DEF ScanDown, GoesDown
    <3>2. i # j
      BY <2>1, <2>2, <2>3, <3>1, TopTypes
    <3>3. i = j + 1 /\ i - 1 = j
      BY <2>1, <2>2, <2>6, <3>2, TopTypes
    <3>4. Low(j)' /\ High(j + 1)'
      BY <2>1, <2>2, <3>1, <3>3 DEF Low, High
    <3> QED
      BY <2>1, <2>2, <3>1, <3>3, <3>4 DEF PartitionOK, Scanned
  <2> QED
    BY <2>4, <2>5, <2>6
<1>5. CASE Split
  BY <1>5, SplitCalls DEF PartitionOK, Running
<1>6. CASE Return
  BY <1>6, ReturnCalls DEF PartitionOK, Running
<1>7. CASE Stopped
  BY <1>7 DEF Stopped, vars, PartitionOK, Running
<1> QED
  BY <1>1, <1>2, <1>3, <1>4, <1>5, <1>6, <1>7 DEF Next

(* The types are kept. *)
LEMMA StepTypeOK ==
  ASSUME TypeOK, CallsOK, PartitionOK, Next
  PROVE  TypeOK'
<1>1. CASE Enter \/ StartScan \/ ScanUp \/ ScanDown
  <2>1. /\ calls' = calls /\ arr0' = arr0 /\ pc # "done"
        /\ pc' \in {"outer", "up", "down", "return"}
    BY <1>1, SameCalls
  <2>2. /\ calls' \in Seq(Call) /\ Len(calls') <= STACK /\ arr0' \in [Index -> Int]
        /\ calls' = << >> <=> pc' = "done"
    BY <2>1 DEF TypeOK
  <2>3. pivot' \in Int /\ i' \in 0..N /\ j' \in -1..N
    <3>1. CASE Enter
      <4>1. \/ /\ Top.lpos < Top.rpos /\ pivot' = arr[Top.lpos]
               /\ i' = Top.lpos /\ j' = Top.rpos + 1
            \/ pivot' = pivot /\ i' = i /\ j' = j
        BY <3>1 DEF Enter
      <4>2. Top.lpos < Top.rpos => Top.lpos \in Index
        BY <2>1, TopTypes, RangeInIndex
      <4>3. CASE /\ Top.lpos < Top.rpos /\ pivot' = arr[Top.lpos]
                 /\ i' = Top.lpos /\ j' = Top.rpos + 1
        <5>1. pivot' \in Int
          BY <4>2, <4>3 DEF TypeOK
        <5>2. i' \in 0..N /\ j' \in -1..N
          <6>1. /\ Top.lpos \in Int /\ Top.rpos \in Int /\ N \in Nat
                /\ 0 <= Top.lpos /\ Top.rpos < N
            BY <2>1, TopTypes
          <6> QED
            BY <4>3, <6>1
        <5> QED
          BY <5>1, <5>2
      <4>4. CASE pivot' = pivot /\ i' = i /\ j' = j
        BY <4>4 DEF TypeOK
      <4> QED
        BY <4>1, <4>3, <4>4
    <3>2. CASE StartScan
      <4>1. /\ pc = "outer" /\ i < j /\ j <= N /\ pivot' = pivot
            /\ i' = i + 1 /\ j' = j
        BY <2>1, <3>2, TopTypes DEF StartScan, NextUp, TypeOK
      <4> QED
        BY <2>1, <4>1, TopTypes DEF TypeOK
    <3>3. CASE ScanUp
      <4>1. /\ pc = "up" /\ pivot' = pivot
            /\ \/ i <= Top.rpos /\ i' = i + 1 /\ j' = j
               \/ i' = i /\ j' = j - 1
        BY <3>3 DEF ScanUp, GoesUp, NextUp, NextDown
      <4>2. Top.lpos < i /\ i <= j
        BY <4>1 DEF PartitionOK, Scanned, Running
      <4> QED
        BY <2>1, <4>1, <4>2, TopTypes DEF TypeOK
    <3>4. CASE ScanDown
      <4>1. /\ pc = "down" /\ pivot' = pivot /\ i' = i
            /\ j' = j - 1 \/ j' = j
        BY <3>4 DEF ScanDown, NextDown
      <4>2. Top.lpos <= j
        BY <4>1 DEF PartitionOK, Scanned, Running
      <4> QED
        BY <2>1, <4>1, <4>2, TopTypes DEF TypeOK
    <3> QED
      BY <1>1, <3>1, <3>2, <3>3, <3>4
  <2>4. arr' \in [Index -> Int] /\ origin' \in [Index -> Index]
    <3>1. CASE arr' = arr /\ origin' = origin
      BY <3>1 DEF TypeOK
    <3>2. CASE ScanDown /\ Exchange(i, j) /\ i < j
      <4>1. Top.lpos <= i /\ i <= Top.rpos /\ Top.lpos <= j /\ j <= Top.rpos
        BY <2>1, <3>2, TopTypes DEF ScanDown, PartitionOK, Scanned, Running
      <4>2. i \in Index /\ j \in Index
        BY <2>1, <4>1, TopTypes, RangeInIndex
      <4> QED
        BY <3>2, <4>2, Exchanged
    <3> QED
      BY <1>1, <3>1, <3>2 DEF Enter, StartScan, ScanUp, ScanDown
  <2> QED
    BY <2>1, <2>2, <2>3, <2>4 DEF TypeOK
<1>2. CASE Split
  <2>1. /\ pc = "outer" /\ pc # "done" /\ Exchange(Top.lpos, j)
        /\ pivot' = pivot /\ i' = i /\ j' = j /\ arr0' = arr0
    BY <1>2 DEF Split
  <2>2. /\ calls' \in Seq(Call) /\ Len(calls') <= STACK /\ calls' # << >>
        /\ pc' \in {"call", "killed"} /\ Top.lpos <= j /\ j <= Top.rpos
    BY <1>2, SplitCalls
  <2>3. Top.lpos \in Index /\ j \in Index
    BY <2>1, <2>2, TopTypes, RangeInIndex
  <2>4. arr' \in [Index -> Int] /\ origin' \in [Index -> Index]
    BY <2>1, <2>3, Exchanged
  <2> QED
    BY <2>1, <2>2, <2>4 DEF TypeOK
<1>3. CASE Return
  <2>1. UNCHANGED <<arr, pivot, i, j, arr0, origin>>
    BY <1>3 DEF Return
  <2>2. Len(calls) \in Nat /\ Len(calls) <= STACK /\ STACK \in Nat
    BY <1>3, TopTypes, StackAssumption DEF Return, TypeOK
  <2>3. /\ calls' \in Seq(Call) /\ Len(calls') <= STACK
        /\ calls' = << >> <=> pc' = "done"
        /\ pc' \in {"call", "return", "done", "killed"}
    <3>1. << >> \in Seq(Call) /\ Len(<< >>) = 0
      BY EmptySeq
    <3>2. CASE Len(calls) = 1 /\ calls' = << >> /\ pc' = "done"
      BY <2>2, <3>1, <3>2
    <3>3. CASE /\ calls' \in Seq(Call) /\ Len(calls') <= STACK /\ calls' # << >>
               /\ pc' \in {"call", "killed"}
      BY <3>3
    <3>4. CASE /\ calls' \in Seq(Call) /\ Len(calls') = Len(calls) - 1 /\ calls' # << >>
               /\ pc' = "return"
      BY <2>2, <3>4
    <3> QED
      BY <1>3, <3>2, <3>3, <3>4, ReturnCalls
  <2> QED
    BY <2>1, <2>3 DEF TypeOK
<1>4. CASE Stopped
  BY <1>4 DEF Stopped, vars, TypeOK
<1> QED
  BY <1>1, <1>2, <1>3, <1>4 DEF Next

(* The calls stay nested. *)
LEMMA StepCallsOK ==
  ASSUME TypeOK, CallsOK, PartitionOK, Next
  PROVE  CallsOK'
<1>1. CASE Enter \/ StartScan \/ ScanUp \/ ScanDown
  BY <1>1, SameCalls DEF CallsOK, Running, Top
<1>2. CASE Split
  <2> DEFINE n == Len(calls)
  <2>1. pc = "outer" /\ pc # "done"
    BY <1>2 DEF Split
  <2>2. /\ n \in Nat /\ n > 0 /\ Top = calls[n] /\ j \in Int
        /\ \A c \in 1..n : /\ calls[c].lpos \in Int /\ calls[c].rpos \in Int
                           /\ calls[c].j \in Int
    BY <2>1, TopTypes, CallTypes DEF TypeOK, Top
  <2>3. /\ Top.lpos <= j /\ j <= Top.rpos
        /\ pc' \in {"call", "killed"}
        /\ Len(calls') = (IF pc' = "call" THEN n + 1 ELSE n)
        /\ \A c \in 1..(n - 1) : calls'[c] = calls[c]
        /\ calls'[n].lpos = Top.lpos /\ calls'[n].rpos = Top.rpos
        /\ calls'[n].j = j /\ calls'[n].at = "left"
        /\ pc' = "call" => calls'[n + 1] = NewCall(Top.lpos, j)
    BY <1>2, SplitCalls
  <2>4. pc' = "call" => /\ calls'[n + 1].rpos = j /\ calls'[n + 1].at = "left"
    BY <2>3 DEF NewCall
  <2>5. pc' \in Running \cup {"call"} => Top'.at = "left"
    BY <2>2, <2>3, <2>4 DEF Top, Running
  <2>6. \A c \in 1..(Len(calls') - 1) :
          calls'[c].lpos <= calls'[c].j /\ calls'[c].j <= calls'[c].rpos
    BY <2>2, <2>3 DEF CallsOK
  <2>7. ASSUME NEW c \in 1..Len(calls'), NEW d \in 1..Len(calls'),
               c < d, calls'[c].at = "left"
        PROVE  calls'[d].rpos <= calls'[c].j
    <3> Len(calls') \in {n, n + 1}
      BY <2>3
    <3> c \in Nat /\ d \in Nat /\ c >= 1 /\ c < d /\ d <= n + 1
      BY <2>2, <2>7
    <3>1. CASE d < n
      <4>1. c \in 1..(n - 1) /\ d \in 1..(n - 1) /\ c \in 1..n /\ d \in 1..n
        BY <2>2, <2>7, <3>1
      <4>2. calls'[c] = calls[c] /\ calls'[d] = calls[d]
        BY <2>3, <4>1
      <4> QED
        BY <2>7, <4>1, <4>2 DEF CallsOK
    <3>2. CASE d = n
      <4>1. calls'[c] = calls[c] /\ calls'[d].rpos = calls[d].rpos /\ c \in 1..n /\ d \in 1..n
        BY <2>2, <2>3, <2>7, <3>2
      <4> QED
        BY <2>7, <4>1 DEF CallsOK
    <3>3. CASE d > n
      <4>1. d = n + 1 /\ calls'[d].rpos = j
        BY <2>2, <2>3, <2>4, <2>7, <3>3
      <4>2. CASE c = n
        BY <2>2, <2>3, <4>1, <4>2
      <4>3. CASE c < n
        <5>1. calls'[c] = calls[c] /\ c \in 1..n /\ n \in 1..n
          BY <2>2, <2>3, <2>7, <4>3
        <5>2. calls[n].rpos <= calls[c].j
          BY <2>7, <4>3, <5>1 DEF CallsOK
        <5> QED
          BY <2>2, <2>3, <4>1, <5>1, <5>2
      <4> QED
        BY <2>2, <2>7, <4>1, <4>2, <4>3
    <3> QED
      BY <2>2, <2>3, <2>7, <3>1, <3>2, <3>3
  <2> QED
    BY <2>5, <2>6, <2>7 DEF CallsOK
<1>3. CASE Return
  <2> DEFINE n == Len(calls)
             m == n - 1
  <2>1. pc = "return" /\ pc # "done"
    BY <1>3 DEF Return
  <2>2. n \in Nat /\ n > 0 /\ calls \in Seq(Call)
    BY <2>1, TopTypes DEF TypeOK
  <2>3. CASE n = 1 /\ calls' = << >> /\ pc' = "done"
    <3>1. Len(calls') = 0
      BY <2>3, EmptySeq
    <3> QED
      BY <2>3, <3>1 DEF CallsOK, Running
  <2>4. CASE /\ n > 1 /\ calls[n - 1].at = "left"
             /\ pc' \in {"call", "killed"}
             /\ Len(calls') = (IF pc' = "call" THEN n ELSE n - 1)
             /\ \A c \in 1..(n - 2) : calls'[c] = calls[c]
             /\ calls'[n - 1] = OnTheRight(calls[n - 1])
             /\ pc' = "call"
                  => calls'[n] = NewCall(RightStart(calls[n - 1]), calls[n - 1].rpos)
    <3>1. m \in 1..n /\ m \in 1..m /\ calls[m] \in Call
      BY <2>2, <2>4
    <3>2. /\ calls'[m].lpos = calls[m].lpos /\ calls'[m].rpos = calls[m].rpos
          /\ calls'[m].j = calls[m].j /\ calls'[m].at = "right"
      <4>1. 0 \in 0..N
        BY SizeAssumption
      <4>2. calls'[m] = [lpos |-> calls[m].lpos, rpos |-> calls[m].rpos,
                         j |-> calls[m].j, at |-> "right"]
        BY <2>4, <3>1, <4>1, Updated
      <4> QED
        BY <4>2
    <3>3. pc' = "call" => calls'[n].rpos = calls[m].rpos /\ calls'[n].at = "left"
      BY <2>4 DEF NewCall
    <3>4. pc' \in Running \cup {"call"} => Top'.at = "left"
      BY <2>4, <3>3 DEF Top, Running
    <3>5. \A c \in 1..m : /\ calls'[c].lpos = calls[c].lpos /\ calls'[c].j = calls[c].j
                          /\ calls'[c].rpos = calls[c].rpos
      BY <2>2, <2>4, <3>2
    <3>6. \A c \in 1..(Len(calls') - 1) : c \in 1..m
      BY <2>2, <2>4
    <3>7. \A c \in 1..(Len(calls') - 1) :
            calls'[c].lpos <= calls'[c].j /\ calls'[c].j <= calls'[c].rpos
      BY <3>5, <3>6 DEF CallsOK
    <3>8. ASSUME NEW c \in 1..Len(calls'), NEW d \in 1..Len(calls'),
                 c < d, calls'[c].at = "left"
          PROVE  calls'[d].rpos <= calls'[c].j
      <4>1. c # m
        BY <3>2, <3>8
      <4>2. c < m /\ calls'[c] = calls[c] /\ c \in 1..n
        BY <2>2, <2>4, <3>8, <4>1
      <4>3. calls'[d].rpos = calls[IF d = n THEN m ELSE d].rpos
        BY <2>2, <2>4, <3>3, <3>5, <3>8
      <4>4. (IF d = n THEN m ELSE d) \in 1..n /\ c < (IF d = n THEN m ELSE d)
        BY <2>2, <2>4, <3>8, <4>2
      <4> QED
        BY <3>8, <4>2, <4>3, <4>4 DEF CallsOK
    <3> QED
      BY <3>4, <3>7, <3>8 DEF CallsOK
  <2>5. CASE /\ n > 1 /\ Len(calls') = n - 1 /\ pc' = "return"
             /\ \A c \in 1..(n - 1) : calls'[c] = calls[c]
    <3>1. \A c \in 1..(Len(calls') - 1) :
            calls'[c].lpos <= calls'[c].j /\ calls'[c].j <= calls'[c].rpos
      BY <2>2, <2>5 DEF CallsOK
    <3>2. \A c, d \in 1..Len(calls') :
            c < d /\ calls'[c].at = "left" => calls'[d].rpos <= calls'[c].j
      BY <2>2, <2>5 DEF CallsOK
    <3> QED
      BY <2>5, <3>1, <3>2 DEF CallsOK, Running
  <2> QED
    BY <1>3, <2>3, <2>4, <2>5, ReturnCalls
<1>4. CASE Stopped
  BY <1>4 DEF Stopped, vars, CallsOK, Top
<1> QED
  BY <1>1, <1>2, <1>3, <1>4 DEF Next

-------------------------------------------------------------------------------
(* An element in the range of the running call and one outside are in      *)
(* order: the ranges still to be sorted do not overlap.                    *)
LEMMA TopApart ==
  ASSUME TypeOK, CallsOK, Apart, pc \in Running,
         NEW k \in Index, NEW l \in Index, k < l,
         ~(Top.lpos <= k /\ l <= Top.rpos),
         \/ Top.lpos <= k /\ k <= Top.rpos
         \/ Top.lpos <= l /\ l <= Top.rpos
  PROVE  arr[k] < arr[l]
<1> DEFINE n == Len(calls)
<1>1. pc # "done" /\ pc # "killed"
  BY DEF Running
<1>2. arr[k] < arr[l] \/ Later(k, l)
  BY <1>1 DEF Apart, Now
<1>3. SUFFICES ASSUME NEW c \in 1..(n - 1), calls[c].at = "left",
                      calls[c].j + 1 <= k, l <= calls[c].rpos
               PROVE  FALSE
  BY <1>2 DEF Later
<1>4. n \in 1..n /\ n \in Nat /\ c \in 1..n /\ c < n /\ Top = calls[n]
  BY <1>1, TopTypes DEF Top
<1>5. Top.rpos <= calls[c].j /\ calls[c].j \in Int
  <2>1. calls[c] \in Call
    BY <1>4 DEF TypeOK
  <2>2. calls[c].j \in Int
    BY <2>1, CallTypes
  <2> QED
    BY <1>3, <1>4, <2>2 DEF CallsOK
<1>6. k \in Int /\ l \in Int /\ Top.lpos \in Int /\ Top.rpos \in Int
  BY <1>1, TopTypes
<1>7. Top.rpos < k
  BY <1>3, <1>5, <1>6
<1>8. Top.rpos < l
  BY <1>6, <1>7
<1> QED
  BY <1>6, <1>7, <1>8

(* Exchanging two elements of that range changes nothing about this.       *)
LEMMA ExchangeApart ==
  ASSUME TypeOK, CallsOK, Apart, pc \in Running,
         NEW a \in Index, NEW b \in Index, Exchange(a, b),
         Top.lpos <= a, a <= Top.rpos, Top.lpos <= b, b <= Top.rpos
  PROVE  \A k, l \in Index :
           k < l => arr'[k] < arr'[l] \/ Later(k, l) \/ (Top.lpos <= k /\ l <= Top.rpos)
<1> SUFFICES ASSUME NEW k \in Index, NEW l \in Index, k < l,
                    ~(Top.lpos <= k /\ l <= Top.rpos)
             PROVE  arr'[k] < arr'[l] \/ Later(k, l)
  OBVIOUS
<1> DEFINE was(m) == IF m = a THEN b ELSE IF m = b THEN a ELSE m
<1>1. pc # "done" /\ pc # "killed"
  BY DEF Running
<1>2. \A m \in Index : was(m) \in Index /\ arr'[m] = arr[was(m)]
  BY Exchanged
<1>3. \A m \in Index : m \in Int
  BY <1>1, TopTypes
<1>4. Top.lpos \in Int /\ Top.rpos \in Int
  BY <1>1, TopTypes
<1>5. CASE Top.lpos <= k /\ k <= Top.rpos
  <2>1. Top.rpos < l /\ l # a /\ l # b
    BY <1>3, <1>4, <1>5
  <2>2. /\ was(l) = l /\ Top.lpos <= was(k) /\ was(k) <= Top.rpos
        /\ was(k) \in Int /\ was(k) \in Index
    BY <1>2, <1>3, <1>4, <1>5, <2>1
  <2>3. was(k) < l /\ ~(Top.lpos <= was(k) /\ l <= Top.rpos)
    BY <1>3, <1>4, <2>1, <2>2
  <2> HIDE DEF was
  <2>4. arr[was(k)] < arr[l]
    BY <2>2, <2>3, TopApart
  <2> QED
    BY <1>2, <2>2, <2>4
<1>6. CASE Top.lpos <= l /\ l <= Top.rpos
  <2>1. k < Top.lpos /\ k # a /\ k # b
    BY <1>3, <1>4, <1>6
  <2>2. /\ was(k) = k /\ Top.lpos <= was(l) /\ was(l) <= Top.rpos
        /\ was(l) \in Int /\ was(l) \in Index
    BY <1>2, <1>3, <1>4, <1>6, <2>1
  <2>3. k < was(l) /\ ~(Top.lpos <= k /\ was(l) <= Top.rpos)
    BY <1>3, <1>4, <2>1, <2>2
  <2> HIDE DEF was
  <2>4. arr[k] < arr[was(l)]
    BY <2>2, <2>3, TopApart
  <2> QED
    BY <1>2, <2>2, <2>4
<1>7. CASE ~(Top.lpos <= k /\ k <= Top.rpos) /\ ~(Top.lpos <= l /\ l <= Top.rpos)
  <2>1. was(k) = k /\ was(l) = l
    BY <1>7
  <2>2. arr[k] < arr[l] \/ Later(k, l)
    BY <1>1 DEF Apart, Now
  <2> QED
    BY <1>2, <2>1, <2>2
<1> QED
  BY <1>5, <1>6, <1>7

(* The parts stay apart. *)
LEMMA StepApart ==
  ASSUME TypeOK, CallsOK, PartitionOK, Apart, Next
  PROVE  Apart'
<1> DEFINE n == Len(calls)
<1>1. CASE /\ Enter \/ StartScan \/ ScanUp \/ ScanDown
           /\ arr' = arr
  <2>1. /\ calls' = calls /\ Top' = Top /\ pc # "done" /\ pc # "killed"
        /\ pc' \in {"outer", "up", "down", "return"}
    BY <1>1, SameCalls DEF Top
  <2>2. pc' = "return" => ~(Top.lpos < Top.rpos)
    BY <1>1, <2>1 DEF Enter, StartScan, ScanUp, ScanDown
  <2>3. ASSUME NEW k \in Index, NEW l \in Index, k < l
        PROVE  arr'[k] < arr'[l] \/ Later(k, l)' \/ Now(k, l)'
    <3>1. arr[k] < arr[l] \/ Later(k, l) \/ Now(k, l)
      BY <2>1, <2>3 DEF Apart
    <3>2. Later(k, l) => Later(k, l)'
      BY <2>1 DEF Later
    <3>3. Now(k, l) => pc' # "return"
      BY <2>1, <2>2, <2>3, TopTypes DEF Now
    <3>4. Now(k, l) => Now(k, l)'
      BY <2>1, <3>3 DEF Now, Running
    <3> QED
      BY <1>1, <3>1, <3>2, <3>4
  <2> QED
    BY <2>3 DEF Apart
<1>2. CASE ScanDown /\ arr' # arr
  <2>1. /\ pc = "down" /\ pc # "done" /\ pc \in Running /\ pc' = "outer"
        /\ i < j /\ Exchange(i, j) /\ calls' = calls /\ Top' = Top
    BY <1>2 DEF ScanDown, Running, Top
  <2>2. Top.lpos <= i /\ i <= Top.rpos /\ Top.lpos <= j /\ j <= Top.rpos
    BY <2>1, TopTypes DEF PartitionOK, Scanned, Running
  <2>3. i \in Index /\ j \in Index
    BY <2>1, <2>2, TopTypes, RangeInIndex
  <2>4. \A k, l \in Index :
          k < l => arr'[k] < arr'[l] \/ Later(k, l) \/ (Top.lpos <= k /\ l <= Top.rpos)
    BY <2>1, <2>2, <2>3, ExchangeApart
  <2>5. \A k, l \in Index : Later(k, l) => Later(k, l)'
    BY <2>1 DEF Later
  <2>6. \A k, l \in Index : Top.lpos <= k /\ l <= Top.rpos => Now(k, l)'
    BY <2>1 DEF Now, Running
  <2> QED
    BY <2>4, <2>5, <2>6 DEF Apart
<1>3. CASE Split
  <2>1. SUFFICES ASSUME pc' # "killed", NEW k \in Index, NEW l \in Index, k < l
                 PROVE  arr'[k] < arr'[l] \/ Later(k, l)' \/ Now(k, l)'
    BY DEF Apart
  <2>2. pc = "outer" /\ pc # "done" /\ pc \in Running /\ Exchange(Top.lpos, j)
    BY <1>3 DEF Split, Running
  <2>3. /\ Top.lpos <= j /\ j <= Top.rpos /\ Low(j) /\ High(j + 1)
        /\ pc' = "call" /\ Len(calls') = n + 1
        /\ \A c \in 1..(n - 1) : calls'[c] = calls[c]
        /\ calls'[n].rpos = Top.rpos /\ calls'[n].j = j /\ calls'[n].at = "left"
        /\ calls'[n + 1] = NewCall(Top.lpos, j)
    BY <1>3, <2>1, SplitCalls
  <2>4. /\ n \in Nat /\ n > 0 /\ k \in Int /\ l \in Int /\ j \in Int
        /\ Top.lpos \in Int /\ Top.rpos \in Int /\ pivot \in Int
        /\ \A m \in Index : m \in Int /\ arr[m] \in Int
    BY <2>2, TopTypes
  <2>5. Top.lpos \in Index /\ j \in Index
    BY <2>2, <2>3, <2>4, RangeInIndex
  <2>6. arr'[k] < arr'[l] \/ Later(k, l) \/ (Top.lpos <= k /\ l <= Top.rpos)
    <3>1. Top.lpos <= Top.lpos /\ Top.lpos <= Top.rpos
      BY <2>3, <2>4
    <3>2. Top.lpos <= j /\ j <= Top.rpos
      BY <2>3
    <3>3. \A x, y \in Index :
            x < y => arr'[x] < arr'[y] \/ Later(x, y) \/ (Top.lpos <= x /\ y <= Top.rpos)
      BY <2>2, <2>5, <3>1, <3>2, ExchangeApart, Zenon
    <3> QED
      BY <2>1, <3>3
  <2>7. Later(k, l) => Later(k, l)'
    <3>1. \A c \in 1..(n - 1) : c \in 1..(Len(calls') - 1)
      BY <2>3, <2>4
    <3> QED
      BY <2>3, <3>1 DEF Later
  <2>8. CASE Top.lpos <= k /\ l <= j
    BY <2>3, <2>8 DEF Now, NewCall, Top
  <2>9. CASE j + 1 <= k /\ l <= Top.rpos
    <3>1. n \in 1..(Len(calls') - 1)
      BY <2>3, <2>4
    <3> QED
      BY <2>3, <2>9, <3>1 DEF Later
  <2>10. CASE Top.lpos <= k /\ k <= j /\ j < l /\ l <= Top.rpos
    <3>1. /\ arr'[Top.lpos] = arr[j] /\ arr'[j] = arr[Top.lpos]
          /\ \A m \in Index \ {Top.lpos, j} : arr'[m] = arr[m]
      BY <2>2, <2>5, Exchanged
    <3>2. arr'[l] = arr[l] /\ arr[l] > pivot
      <4>1. l # Top.lpos /\ l # j /\ j + 1 <= l
        BY <2>3, <2>4, <2>10
      <4>2. \A m \in Index : j + 1 <= m /\ m <= Top.rpos => arr[m] > pivot
        BY <2>3 DEF High
      <4>3. arr'[l] = arr[l]
        BY <3>1, <4>1
      <4> QED
        BY <2>10, <4>1, <4>2, <4>3
    <3>3. \A m \in Index : Top.lpos <= m /\ m <= j => arr[m] <= pivot
      BY <2>3 DEF Low
    <3>4. PICK m \in Index : arr'[k] = arr[m] /\ Top.lpos <= m /\ m <= j
      BY <2>3, <2>4, <2>5, <2>10, <3>1
    <3> QED
      BY <2>4, <3>2, <3>3, <3>4
  <2> QED
    BY <2>1, <2>4, <2>6, <2>7, <2>8, <2>9, <2>10
<1>4. CASE Return
  <2>1. SUFFICES ASSUME pc' # "killed", NEW k \in Index, NEW l \in Index, k < l
                 PROVE  arr'[k] < arr'[l] \/ Later(k, l)' \/ Now(k, l)'
    BY DEF Apart
  <2>2. pc = "return" /\ pc # "done" /\ arr' = arr
    BY <1>4 DEF Return
  <2>3. n \in Nat /\ n > 0
    BY <2>2, TopTypes
  <2>4. arr'[k] < arr'[l] \/ Later(k, l)
    BY <2>1, <2>2 DEF Apart, Now, Running
  <2>5. SUFFICES ASSUME NEW c \in 1..(n - 1), calls[c].at = "left",
                        calls[c].j + 1 <= k, l <= calls[c].rpos
                 PROVE  Later(k, l)' \/ Now(k, l)'
    BY <2>4 DEF Later
  <2>6. n # 1
    <3> HIDE DEF n
    <3> QED
      BY <2>3, <2>5
  <2> DEFINE Sorts == /\ pc' \in {"call", "killed"}
                      /\ Len(calls') = (IF pc' = "call" THEN n ELSE n - 1)
                      /\ \A d \in 1..(n - 2) : calls'[d] = calls[d]
                      /\ pc' = "call" => calls'[n] = NewCall(RightStart(calls[n - 1]),
                                                           calls[n - 1].rpos)
             Leaves == /\ calls[n - 1].at # "left" /\ Len(calls') = n - 1
                       /\ \A d \in 1..(n - 1) : calls'[d] = calls[d]
  <2>7. CASE Sorts
    <3>1. pc' = "call" /\ Len(calls') = n
      BY <2>1, <2>7
    <3>2. CASE c = n - 1
      BY <2>5, <2>7, <3>1, <3>2 DEF Now, NewCall, Top, RightStart
    <3>3. CASE c # n - 1
      <4>1. c \in 1..(Len(calls') - 1) /\ calls'[c] = calls[c]
        BY <2>3, <2>7, <3>1, <3>3
      <4> QED
        BY <2>5, <4>1 DEF Later
    <3> QED
      BY <3>2, <3>3
  <2>8. CASE Leaves
    <3>1. c \in 1..(Len(calls') - 1) /\ calls'[c] = calls[c]
      BY <2>3, <2>5, <2>8
    <3> QED
      BY <2>5, <3>1 DEF Later
  <2>9. n = 1 \/ Sorts \/ Leaves
    BY <1>4, ReturnCalls, Zenon
  <2> HIDE DEF Sorts, Leaves
  <2> QED
    BY <2>6, <2>7, <2>8, <2>9
<1>5. CASE Stopped
  BY <1>5 DEF Stopped, vars, Apart, Later, Now, Top, Running
<1>6. Enter \/ StartScan \/ ScanUp => arr' = arr
  BY DEF Enter, StartScan, ScanUp
<1> QED
  BY <1>1, <1>2, <1>3, <1>4, <1>5, <1>6 DEF Next

(* No element is lost or doubled. *)
LEMMA StepRearranged ==
  ASSUME TypeOK, CallsOK, PartitionOK, Rearranged, Onto, Next
  PROVE  Rearranged' /\ Onto'
<1>1. CASE arr' = arr /\ origin' = origin /\ arr0' = arr0
  BY <1>1 DEF Rearranged, Onto
<1>2. ASSUME NEW a \in Index, NEW b \in Index, Exchange(a, b), arr0' = arr0
      PROVE  Rearranged' /\ Onto'
  <2> DEFINE was(m) == IF m = a THEN b ELSE IF m = b THEN a ELSE m
  <2>1. \A m \in Index : /\ was(m) \in Index
                         /\ arr'[m] = arr[was(m)] /\ origin'[m] = origin[was(m)]
    BY <1>2, Exchanged
  <2>2. /\ \A k, l \in Index : k # l => was(k) # was(l)
        /\ \A k \in Index : was(was(k)) = k
    OBVIOUS
  <2> HIDE DEF was
  <2>3. \A k \in Index : arr'[k] = arr0'[origin'[k]]
    BY <1>2, <2>1 DEF Rearranged
  <2>4. \A k, l \in Index : k # l => origin'[k] # origin'[l]
    BY <2>1, <2>2 DEF Rearranged
  <2>5. ASSUME NEW m \in Index PROVE \E k \in Index : origin'[k] = m
    <3>1. PICK k \in Index : origin[k] = m
      BY DEF Onto
    <3>2. was(k) \in Index /\ origin'[was(k)] = m
      BY <2>1, <2>2, <3>1
    <3> QED
      BY <3>2
  <2> QED
    BY <2>3, <2>4, <2>5 DEF Rearranged, Onto
<1>3. CASE ScanDown /\ i < j /\ Exchange(i, j)
  <2>1. pc = "down" /\ pc # "done" /\ arr0' = arr0
    BY <1>3 DEF ScanDown
  <2>2. Top.lpos <= i /\ i <= Top.rpos /\ Top.lpos <= j /\ j <= Top.rpos
    BY <1>3, <2>1, TopTypes DEF PartitionOK, Scanned, Running
  <2>3. i \in Index /\ j \in Index
    BY <2>1, <2>2, TopTypes, RangeInIndex
  <2> QED
    BY <1>2, <1>3, <2>1, <2>3
<1>4. CASE Split
  <2>1. pc # "done" /\ Exchange(Top.lpos, j) /\ arr0' = arr0
    BY <1>4 DEF Split
  <2>2. Top.lpos <= j /\ j <= Top.rpos
    BY <1>4, SplitCalls
  <2>3. Top.lpos \in Index /\ j \in Index
    BY <2>1, <2>2, TopTypes, RangeInIndex
  <2> QED
    BY <1>2, <2>1, <2>3
<1>5. Enter \/ StartScan \/ ScanUp \/ Return \/ Stopped
        => arr' = arr /\ origin' = origin /\ arr0' = arr0
  BY DEF Enter, StartScan, ScanUp, Return, Stopped, vars
<1>6. ScanDown => \/ arr' = arr /\ origin' = origin /\ arr0' = arr0
                  \/ ScanDown /\ i < j /\ Exchange(i, j)
  BY DEF ScanDown
<1> QED
  BY <1>1, <1>3, <1>4, <1>5, <1>6 DEF Next

-------------------------------------------------------------------------------
(* The depth of the calls. *)

LEMMA Unequal ==
  ASSUME TypeOK, Rearranged, Distinct, NEW k \in Index, NEW l \in Index, k # l
  PROVE  arr[k] # arr[l]
<1>1. origin[k] \in Index /\ origin[l] \in Index /\ origin[k] # origin[l]
  BY DEF TypeOK, Rearranged
<1>2. arr0[origin[k]] # arr0[origin[l]]
  BY <1>1 DEF Distinct
<1> QED
  BY <1>2 DEF Rearranged

(* What DepthOK says of distinct elements, part by part. *)
LEMMA DepthParts ==
  ASSUME TypeOK, DepthOK, Distinct, pc # "done"
  PROVE  LET n == Len(calls) IN
         /\ pc # "killed" /\ n \in Nat /\ n > 0
         /\ \A c \in 1..n : /\ calls[c].lpos \in Int /\ calls[c].rpos \in Int
                            /\ calls[c].j \in Int
                            /\ c + 2 * (calls[c].rpos - calls[c].lpos) <= 2 * N
         /\ \A c \in 1..(n - 1) : calls[c].lpos < calls[c].rpos
         /\ n + 2 * (Top.rpos - Top.lpos) <= 2 * N
<1>1. Len(calls) \in Nat /\ Len(calls) > 0 /\ Len(calls) \in 1..Len(calls)
  BY TopTypes
<1>2. \A c \in 1..Len(calls) : /\ calls[c].lpos \in Int /\ calls[c].rpos \in Int
                               /\ calls[c].j \in Int
  BY CallTypes DEF TypeOK
<1> QED
  BY <1>1, <1>2 DEF DepthOK, Top

LEMMA StepDepthOK ==
  ASSUME TypeOK, CallsOK, PartitionOK, Rearranged, DepthOK, Next
  PROVE  DepthOK'
<1> SUFFICES ASSUME Distinct'
             PROVE  /\ pc' # "killed"
                    /\ \A c \in 1..Len(calls') :
                         c + 2 * (calls'[c].rpos - calls'[c].lpos) <= 2 * N
                    /\ \A c \in 1..(Len(calls') - 1) : calls'[c].lpos < calls'[c].rpos
                    /\ pc' = "call" /\ Tight'
                         => \A k \in Index : Top'.lpos <= k /\ k <= Top'.rpos
                                               => arr'[k] <= arr'[Top'.rpos]
                    /\ pc' \in Running /\ Tight' => arr'[Top'.rpos] > pivot'
  BY DEF DepthOK
<1> DEFINE n == Len(calls)
<1>1. Distinct
  BY DEF Distinct, Next, Enter, StartScan, ScanUp, ScanDown, Split, Return, Stopped, vars
<1>2. N \in Nat /\ N > 0 /\ STACK \in Nat /\ STACK >= 2 * N
  BY SizeAssumption, StackAssumption
<1>3. CASE Enter \/ StartScan \/ ScanUp
  <2>1. /\ calls' = calls /\ Top' = Top /\ pc # "done" /\ arr' = arr
        /\ pc' \in {"outer", "up", "down", "return"}
    BY <1>3, SameCalls DEF Top, Enter, StartScan, ScanUp
  <2>2. Tight' <=> Tight
    BY <2>1 DEF Tight
  <2>3. ASSUME pc' \in Running, Tight PROVE arr[Top.rpos] > pivot'
    <3>1. CASE Enter
      <4>1. pc = "call" /\ Top.lpos < Top.rpos /\ pivot' = arr[Top.lpos]
        BY <2>3, <3>1 DEF Enter, Running
      <4>2. Top.lpos \in Index /\ Top.rpos \in Index /\ Top.lpos # Top.rpos
        BY <2>1, <4>1, TopTypes, RangeInIndex
      <4>3. arr[Top.lpos] <= arr[Top.rpos] /\ arr[Top.lpos] # arr[Top.rpos]
        <5>1. Top.lpos <= Top.lpos /\ Top.lpos <= Top.rpos
          BY <2>1, <4>1, TopTypes
        <5> QED
          BY <1>1, <2>3, <4>1, <4>2, <5>1, Unequal DEF DepthOK
      <4>4. arr[Top.lpos] \in Int /\ arr[Top.rpos] \in Int
        BY <2>1, <4>2, TopTypes
      <4> QED
        BY <4>1, <4>3, <4>4
    <3>2. CASE StartScan \/ ScanUp
      BY <1>1, <2>3, <3>2 DEF DepthOK, StartScan, ScanUp, Running
    <3> QED
      BY <1>3, <3>1, <3>2
  <2> QED
    BY <1>1, <2>1, <2>2, <2>3 DEF DepthOK
<1>4. CASE ScanDown
  <2>1. /\ calls' = calls /\ Top' = Top /\ pc = "down" /\ pc # "done" /\ pc \in Running
        /\ pc' \in {"outer", "down"} /\ pivot' = pivot
        /\ arr' = arr \/ (i < j /\ ~GoesDown /\ Exchange(i, j))
    BY <1>4 DEF ScanDown, Top, Running
  <2>2. Tight' <=> Tight
    BY <2>1 DEF Tight
  <2>3. ASSUME Tight PROVE arr'[Top.rpos] > pivot
    <3>1. arr[Top.rpos] > pivot
      BY <1>1, <2>1, <2>3 DEF DepthOK
    <3>2. CASE i < j /\ ~GoesDown /\ Exchange(i, j)
      <4>1. Top.lpos <= i /\ i <= Top.rpos /\ Top.lpos <= j /\ j <= Top.rpos
        BY <2>1, <3>2, TopTypes DEF PartitionOK, Scanned
      <4>2. i \in Index /\ j \in Index /\ Top.rpos \in Index
        BY <2>1, <4>1, TopTypes, RangeInIndex
      <4>3. Top.rpos # j
        BY <3>1, <3>2 DEF GoesDown
      <4>4. Top.rpos # i
        BY <2>1, <3>2, <4>1, <4>3, TopTypes
      <4>5. arr'[Top.rpos] = arr[Top.rpos]
        BY <3>2, <4>2, <4>3, <4>4, Exchanged
      <4> QED
        BY <3>1, <4>5
    <3> QED
      BY <2>1, <3>1, <3>2
  <2> QED
    BY <1>1, <2>1, <2>2, <2>3 DEF DepthOK
<1>5. CASE Split
  <2>1. pc = "outer" /\ pc # "done" /\ pc \in Running /\ Exchange(Top.lpos, j)
    BY <1>5 DEF Split, Running
  <2>2. /\ Top.lpos <= j /\ j <= Top.rpos /\ Low(j)
        /\ pc' \in {"call", "killed"}
        /\ Len(calls') = (IF pc' = "call" THEN n + 1 ELSE n)
        /\ \A c \in 1..(n - 1) : calls'[c] = calls[c]
        /\ calls'[n].lpos = Top.lpos /\ calls'[n].rpos = Top.rpos
        /\ pc' = "call" => calls'[n + 1] = NewCall(Top.lpos, j)
    BY <1>5, SplitCalls
  <2>3. /\ n \in Nat /\ n > 0 /\ j \in Int /\ pivot \in Int
        /\ Top.lpos \in Int /\ Top.rpos \in Int /\ Top.lpos < Top.rpos
        /\ Top.lpos \in Index /\ j \in Index /\ Top.rpos \in Index
        /\ Top = calls[n]
    <3>1. Top.lpos < Top.rpos /\ arr[Top.lpos] = pivot
      BY <2>1 DEF PartitionOK, Scanned
    <3> QED
      BY <2>1, <2>2, <3>1, TopTypes, RangeInIndex DEF Top
  <2>4. /\ \A c \in 1..n : c + 2 * (calls[c].rpos - calls[c].lpos) <= 2 * N
        /\ \A c \in 1..(n - 1) : calls[c].lpos < calls[c].rpos
        /\ n + 2 * (Top.rpos - Top.lpos) <= 2 * N
    BY <1>1, <2>1, DepthParts
  <2>5. pc' = "call"
    <3>1. n < STACK
      BY <1>2, <2>3, <2>4
    <3>2. Push([calls EXCEPT ![n] = Partitioned(@, j)], NewCall(Top.lpos, LeftEnd))
      BY <1>5 DEF Split
    <3>3. Len([calls EXCEPT ![n] = Partitioned(@, j)]) = n
      <4>1. Partitioned(Top, j) \in Call
        <5>1. j \in 0..N /\ Top \in Call
          BY <1>2, <2>1, <2>3, TopTypes DEF Index
        <5> QED
          BY <5>1, Updated
      <4>2. calls \in Seq(Call) /\ n \in 1..n
        BY <2>3 DEF TypeOK
      <4> QED
        BY <2>3, <4>1, <4>2, ExceptSeq
    <3> QED
      BY <3>1, <3>2, <3>3 DEF Push
  <2>6. Top' = NewCall(Top.lpos, j) /\ Top'.lpos = Top.lpos /\ Top'.rpos = j
    BY <2>2, <2>3, <2>5 DEF Top, NewCall
  <2>7. j = Top.rpos => ~Tight
    <3>1. Low(j) => (j = Top.rpos => arr[Top.rpos] <= pivot)
      BY <2>2, <2>3 DEF Low
    <3>2. arr[Top.rpos] \in Int
      BY <2>1, <2>3, TopTypes
    <3> QED
      BY <1>1, <2>1, <2>2, <2>3, <3>1, <3>2 DEF DepthOK
  <2>8. n + 1 + 2 * (j - Top.lpos) <= 2 * N
    <3>1. CASE j = Top.rpos
      <4>1. n + 2 * (Top.rpos - Top.lpos) # 2 * N
        BY <2>7, <3>1 DEF Tight
      <4> HIDE DEF n
      <4> QED
        BY <1>2, <2>3, <2>4, <3>1, <4>1
    <3>2. CASE j < Top.rpos
      <4> HIDE DEF n
      <4> QED
        BY <1>2, <2>3, <2>4, <3>2
    <3> QED
      BY <2>2, <2>3, <3>1, <3>2
  <2>9. Tight' => j = Top.rpos
    <3>1. Len(calls') = n + 1
      BY <2>2, <2>5
    <3> QED
      BY <1>2, <2>2, <2>3, <2>4, <2>6, <3>1, SMTT(30) DEF Tight
  <2>10. ASSUME NEW c \in 1..Len(calls')
         PROVE  c + 2 * (calls'[c].rpos - calls'[c].lpos) <= 2 * N
    <3>1. c \in 1..(n - 1) \/ c = n \/ c = n + 1
      BY <2>2, <2>3, <2>5
    <3>2. CASE c \in 1..(n - 1)
      <4>1. c \in 1..n /\ calls'[c] = calls[c]
        BY <2>2, <2>3, <3>2
      <4> QED
        BY <2>4, <4>1
    <3>3. CASE c = n
      BY <2>2, <2>4, <3>3
    <3>4. CASE c = n + 1
      BY <2>2, <2>5, <2>8, <3>4 DEF NewCall
    <3> QED
      BY <3>1, <3>2, <3>3, <3>4
  <2>11. ASSUME NEW c \in 1..(Len(calls') - 1) PROVE calls'[c].lpos < calls'[c].rpos
    <3>1. c \in 1..(n - 1) \/ c = n
      BY <2>2, <2>3, <2>5
    <3> QED
      BY <2>2, <2>3, <2>4, <3>1
  <2>12. ASSUME Tight', NEW k \in Index, Top'.lpos <= k, k <= Top'.rpos
         PROVE  arr'[k] <= arr'[Top'.rpos]
    <3>1. Top.lpos <= k /\ k <= j
      BY <2>6, <2>12
    <3>2. /\ arr'[Top.lpos] = arr[j] /\ arr'[j] = arr[Top.lpos]
          /\ \A m \in Index \ {Top.lpos, j} : arr'[m] = arr[m]
      BY <2>1, <2>3, Exchanged
    <3>3. \A m \in Index : Top.lpos <= m /\ m <= j => arr[m] <= pivot
      BY <2>2 DEF Low
    <3>4. arr[Top.lpos] = pivot
      BY <2>1 DEF PartitionOK, Scanned
    <3>5. PICK m \in Index : arr'[k] = arr[m] /\ Top.lpos <= m /\ m <= j
      BY <2>2, <2>3, <3>1, <3>2
    <3> QED
      BY <2>6, <3>2, <3>3, <3>4, <3>5
  <2> QED
    BY <2>5, <2>10, <2>11, <2>12 DEF Running
<1>6. CASE Return
  <2> DEFINE m == n - 1
  <2>1. pc = "return" /\ pc # "done"
    BY <1>6 DEF Return
  <2>2. /\ n \in Nat /\ n > 0
        /\ \A c \in 1..n : /\ calls[c].lpos \in Int /\ calls[c].rpos \in Int
                           /\ calls[c].j \in Int
                           /\ c + 2 * (calls[c].rpos - calls[c].lpos) <= 2 * N
        /\ \A c \in 1..m : calls[c].lpos < calls[c].rpos
    BY <1>1, <2>1, DepthParts
  <2>3. CASE n = 1 /\ calls' = << >> /\ pc' = "done"
    <3>1. Len(calls') = 0
      BY <2>3, EmptySeq
    <3> QED
      BY <2>3, <3>1 DEF Running
  <2>4. CASE /\ n > 1 /\ calls[n - 1].at = "left"
             /\ pc' \in {"call", "killed"}
             /\ Len(calls') = (IF pc' = "call" THEN n ELSE n - 1)
             /\ \A c \in 1..(n - 2) : calls'[c] = calls[c]
             /\ calls'[n - 1] = OnTheRight(calls[n - 1])
             /\ pc' = "call"
                  => calls'[n] = NewCall(RightStart(calls[n - 1]), calls[n - 1].rpos)
    <3>1. m \in 1..m /\ m \in 1..n /\ calls[m] \in Call
          /\ calls[m].lpos < calls[m].rpos /\ calls[m].lpos <= calls[m].j
          /\ m + 2 * (calls[m].rpos - calls[m].lpos) <= 2 * N
      BY <2>2, <2>4 DEF CallsOK, TypeOK
    <3>2. calls'[m].lpos = calls[m].lpos /\ calls'[m].rpos = calls[m].rpos
      <4>1. 0 \in 0..N
        BY <1>2
      <4>2. calls'[m] = [lpos |-> calls[m].lpos, rpos |-> calls[m].rpos,
                         j |-> calls[m].j, at |-> "right"]
        BY <2>4, <3>1, <4>1, Updated
      <4> QED
        BY <4>2
    <3>3. pc' = "call"
      <4>1. m < STACK
        BY <1>2, <2>2, <3>1
      <4>2. Rest \in Seq(Call) /\ Len(Rest) = m /\ \A c \in 1..m : Rest[c] = calls[c]
        <5>1. calls \in Seq(Call) /\ m \in Nat /\ m <= Len(calls)
          BY <2>2 DEF TypeOK
        <5> QED
          BY <5>1, Dropped DEF Rest
      <4>3. Rest # << >> /\ Rest[Len(Rest)].at = "left" /\ Rest[Len(Rest)] \in Call
        BY <2>2, <2>4, <3>1, <4>2, EmptySeq
      <4>4. Push([Rest EXCEPT ![Len(Rest)] = OnTheRight(@)],
                 NewCall(RightStart(Rest[Len(Rest)]), Rest[Len(Rest)].rpos))
        BY <1>6, <4>3 DEF Return
      <4>5. Len([Rest EXCEPT ![Len(Rest)] = OnTheRight(@)]) = m
        <5>1. OnTheRight(Rest[Len(Rest)]) \in Call
          <6>1. 0 \in 0..N
            BY <1>2
          <6> QED
            BY <4>3, <6>1, Updated
        <5>2. Len(Rest) \in 1..Len(Rest)
          BY <3>1, <4>2
        <5> QED
          BY <4>2, <5>1, <5>2, ExceptSeq
      <4> QED
        BY <4>1, <4>4, <4>5 DEF Push
    <3>4. Top'.lpos = calls[m].j + 1 /\ Top'.rpos = calls[m].rpos
          /\ calls'[n].lpos = calls[m].j + 1 /\ calls'[n].rpos = calls[m].rpos
          /\ Len(calls') = n
      BY <2>4, <3>3 DEF Top, NewCall, RightStart
    <3>5. n + 2 * (calls[m].rpos - (calls[m].j + 1)) < 2 * N
      <4>1. /\ calls[m].lpos \in Int /\ calls[m].rpos \in Int /\ calls[m].j \in Int
            /\ m \in Int /\ n = m + 1
        BY <2>2, <3>1
      <4> HIDE DEF m, n
      <4> QED
        BY <1>2, <3>1, <4>1
    <3>6. ~Tight'
      BY <3>4, <3>5, <2>2, <3>1, <1>2 DEF Tight
    <3>7. ASSUME NEW c \in 1..Len(calls')
          PROVE  c + 2 * (calls'[c].rpos - calls'[c].lpos) <= 2 * N
      <4>1. c \in 1..(n - 2) \/ c = m \/ c = n
        BY <2>2, <3>4
      <4>2. CASE c \in 1..(n - 2)
        BY <2>2, <2>4, <4>2
      <4>3. CASE c = m
        BY <3>1, <3>2, <4>3
      <4>4. CASE c = n
        BY <1>2, <2>2, <3>1, <3>4, <3>5, <4>4, SMTT(30)
      <4> QED
        BY <4>1, <4>2, <4>3, <4>4
    <3>8. ASSUME NEW c \in 1..(Len(calls') - 1) PROVE calls'[c].lpos < calls'[c].rpos
      <4>1. c \in 1..(n - 2) \/ c = m
        BY <2>2, <3>4
      <4>2. CASE c \in 1..(n - 2)
        BY <2>2, <2>4, <4>2
      <4> QED
        BY <3>1, <3>2, <4>1, <4>2
    <3> QED
      BY <3>3, <3>6, <3>7, <3>8 DEF Running
  <2>5. CASE /\ n > 1 /\ Len(calls') = n - 1 /\ pc' = "return"
             /\ \A c \in 1..(n - 1) : calls'[c] = calls[c]
    <3>1. \A c \in 1..Len(calls') : c \in 1..n /\ calls'[c] = calls[c]
      BY <2>2, <2>5
    <3>2. \A c \in 1..(Len(calls') - 1) : c \in 1..m /\ calls'[c] = calls[c]
      BY <2>2, <2>5
    <3> QED
      BY <2>2, <2>5, <3>1, <3>2 DEF Running
  <2> QED
    BY <1>6, <2>3, <2>4, <2>5, ReturnCalls
<1>7. CASE Stopped
  BY <1>1, <1>7 DEF Stopped, vars, DepthOK, Top, Tight
<1> QED
  BY <1>3, <1>4, <1>5, <1>6, <1>7 DEF Next

-------------------------------------------------------------------------------
LEMMA InitIInv == Init => IInv
<1> SUFFICES ASSUME Init PROVE IInv
  OBVIOUS
<1> DEFINE first == NewCall(0, N - 1)
<1>1. N \in Nat /\ N > 0 /\ STACK \in Nat /\ STACK >= 2 * N
  BY SizeAssumption, StackAssumption
<1>2. first \in Call /\ first.lpos = 0 /\ first.rpos = N - 1 /\ first.at = "left"
  BY <1>1 DEF NewCall, Call
<1>3. calls = << first >> /\ pc = "call"
  BY DEF Init
<1> HIDE DEF first
<1>4. calls \in Seq(Call) /\ Len(calls) = 1 /\ calls[1] = first /\ calls # << >>
  BY <1>2, <1>3
<1>5. TypeOK
  <2>1. arr \in [Index -> Int] /\ arr0 \in [Index -> Int] /\ origin \in [Index -> Index]
    BY ValuesAssumption DEF Init
  <2>2. pivot \in Int /\ i \in 0..N /\ j \in -1..N
    BY <1>1 DEF Init
  <2>3. Len(calls) <= STACK
    BY <1>1, <1>4
  <2> QED
    BY <1>3, <1>4, <2>1, <2>2, <2>3 DEF TypeOK
<1>6. CallsOK
  BY <1>2, <1>4 DEF CallsOK, Top
<1>7. PartitionOK
  BY <1>3 DEF PartitionOK, Running
<1>8. Apart
  BY <1>1, <1>2, <1>3, <1>4 DEF Apart, Now, Top, Index
<1>9. Rearranged /\ Onto
  BY DEF Init, Rearranged, Onto
<1>10. DepthOK
  <2>1. Top = first /\ ~Tight /\ 1 + 2 * (first.rpos - first.lpos) <= 2 * N
    BY <1>1, <1>2, <1>4 DEF Top, Tight
  <2> QED
    BY <1>3, <1>4, <2>1 DEF DepthOK, Running
<1> QED
  BY <1>5, <1>6, <1>7, <1>8, <1>9, <1>10 DEF IInv

LEMMA StepIInv == IInv /\ [Next]_vars => IInv'
<1> SUFFICES ASSUME IInv, [Next]_vars PROVE IInv'
  OBVIOUS
<1>1. CASE Next
  BY <1>1, StepTypeOK, StepCallsOK, StepPartitionOK, StepApart, StepRearranged,
     StepDepthOK DEF IInv
<1>2. CASE UNCHANGED vars
  <2>1. TypeOK' /\ CallsOK' /\ PartitionOK'
    BY <1>2 DEF IInv, vars, TypeOK, CallsOK, PartitionOK, Scanned, Low, High, Top
  <2>2. Apart' /\ Rearranged' /\ Onto'
    BY <1>2 DEF IInv, vars, Apart, Later, Now, Top, Rearranged, Onto
  <2>3. DepthOK'
    BY <1>2 DEF IInv, vars, DepthOK, Distinct, Tight, Top
  <2> QED
    BY <1>2, <2>1, <2>2, <2>3 DEF IInv
<1> QED
  BY <1>1, <1>2

LEMMA Invariant == Spec => []IInv
BY InitIInv, StepIInv, PTL DEF Spec

(* Typing: the variables keep their types, and the stack of calls its bound, *)
(* throughout a run of quicksort.                                           *)
THEOREM Typing == Spec => []TypeOK
<1>1. IInv => TypeOK
  BY DEF IInv
<1> QED
  BY <1>1, Invariant, PTL

(* InRange: the scan downwards needs no test of j, and the scan upwards    *)
(* reads at most one element past the range, as quicksort.c:32 says.        *)
THEOREM InRange == Spec => []ScansInRange
<1>1. IInv => ScansInRange
  <2> SUFFICES ASSUME IInv PROVE ScansInRange
    OBVIOUS
  <2>1. ASSUME pc = "up" PROVE Top.lpos < i /\ i <= Top.rpos + 1
    <3>1. TypeOK /\ pc # "done" /\ Top.lpos < i /\ i <= j /\ j <= Top.rpos + 1
      BY <2>1 DEF IInv, PartitionOK, Scanned, Running
    <3> QED
      BY <3>1, TopTypes
  <2>2. pc = "down" => Top.lpos <= j /\ j <= Top.rpos
    BY DEF IInv, PartitionOK, Scanned, Running
  <2> QED
    BY <2>1, <2>2 DEF ScansInRange
<1> QED
  BY <1>1, Invariant, PTL

(* PartsStayApart: what the calls do to their ranges never puts two        *)
(* elements of different ranges out of order; sorted when done.            *)
THEOREM PartsStayApart == Spec => []Separated
<1>1. IInv => Separated
  <2> SUFFICES ASSUME IInv, pc # "killed", NEW k \in Index, NEW l \in Index, k < l
               PROVE  arr[k] <= arr[l] \/ \E p \in Pending : p[1] <= k /\ l <= p[2]
    BY DEF Separated
  <2>1. arr[k] < arr[l] \/ Later(k, l) \/ Now(k, l)
    BY DEF IInv, Apart
  <2>2. CASE Now(k, l)
    <3>1. pc \notin {"return", "done"} /\ Top.lpos <= k /\ l <= Top.rpos
      BY <2>2 DEF Now, Running
    <3>2. <<Top.lpos, Top.rpos>> \in Pending
      BY <3>1 DEF Pending
    <3> QED
      BY <3>1, <3>2
  <2>3. CASE Later(k, l)
    <3>1. PICK c \in 1..(Len(calls) - 1) :
             calls[c].at = "left" /\ calls[c].j + 1 <= k /\ l <= calls[c].rpos
      BY <2>3 DEF Later
    <3>2. <<RightStart(calls[c]), calls[c].rpos>> \in Pending
      BY <3>1 DEF Pending
    <3> QED
      BY <3>1, <3>2 DEF RightStart
  <2>4. arr[k] \in Int /\ arr[l] \in Int
    BY DEF IInv, TypeOK
  <2> QED
    BY <2>1, <2>2, <2>3, <2>4
<1> QED
  BY <1>1, Invariant, PTL

(* EndsSorted: quicksort that ends by itself leaves the array in order.    *)
THEOREM EndsSorted ==
  Spec => [](pc = "done" => \A k, l \in Index : k < l => arr[k] <= arr[l])
<1>1. IInv => (pc = "done" => \A k, l \in Index : k < l => arr[k] <= arr[l])
  <2> SUFFICES ASSUME IInv, pc = "done", NEW k \in Index, NEW l \in Index, k < l
               PROVE  arr[k] <= arr[l]
    OBVIOUS
  <2>1. Len(calls) = 0
    BY EmptySeq DEF IInv, TypeOK
  <2>2. ~Later(k, l) /\ ~Now(k, l)
    BY <2>1 DEF Later, Now, Running
  <2>3. arr[k] < arr[l] /\ arr[k] \in Int /\ arr[l] \in Int
    BY <2>2 DEF IInv, Apart, TypeOK
  <2> QED
    BY <2>3
<1> QED
  BY <1>1, Invariant, PTL

(* DistinctFit: the calls fit the stack exactly if no two elements are     *)
(* equal, for every array and every stack of at least two calls for each   *)
(* element; equal elements never come apart, so quicksort.c:47 calls       *)
(* itself until the stack is used up.                                      *)
THEOREM DistinctFit == Spec => []FitsDistinct
<1>1. IInv => FitsDistinct
  <2> SUFFICES ASSUME IInv PROVE FitsDistinct
    OBVIOUS
  <2>1. pc = "killed" => ~Distinct
    BY DEF IInv, DepthOK
  <2>2. ASSUME pc = "done" PROVE Distinct
    <3>1. Len(calls) = 0
      BY <2>2, EmptySeq DEF IInv, TypeOK
    <3>2. \A k, l \in Index : k < l => arr[k] < arr[l]
      BY <2>2, <3>1 DEF IInv, Apart, Later, Now, Running
    <3>3. \A k, l \in Index : k # l => arr[k] # arr[l]
      <4>1. \A k \in Index : k \in Int /\ arr[k] \in Int
        BY SizeAssumption DEF IInv, TypeOK, Index
      <4> QED
        BY <3>2, <4>1
    <3>4. ASSUME NEW k \in Index, NEW l \in Index, k # l PROVE arr0[k] # arr0[l]
      <4>1. PICK p \in Index : origin[p] = k
        BY DEF IInv, Onto
      <4>2. PICK q \in Index : origin[q] = l
        BY DEF IInv, Onto
      <4>3. arr[p] = arr0[k] /\ arr[q] = arr0[l] /\ p # q
        BY <3>4, <4>1, <4>2 DEF IInv, Rearranged
      <4> QED
        BY <3>3, <4>3
    <3> QED
      BY <3>4 DEF Distinct
  <2> QED
    BY <2>1, <2>2 DEF FitsDistinct
<1> QED
  BY <1>1, Invariant, PTL

(* NothingLost: the array is a rearrangement of what it was, always.       *)
THEOREM NothingLost == Spec => []Rearranged
<1>1. IInv => Rearranged
  BY DEF IInv
<1> QED
  BY <1>1, Invariant, PTL

-------------------------------------------------------------------------------
(* Sequences of n numbers in the order of a dictionary: nothing goes down  *)
(* for ever in it, however much a step adds behind what it takes away.     *)
Below(s, t, n) == \E k \in 1..n : s[k] < t[k] /\ \A l \in 1..(k - 1) : s[l] = t[l]

(* What call c has still to do: partition, the left part, the right part,  *)
(* or to return.                                                           *)
Work(c) ==
  IF c > Len(calls) THEN 0
  ELSE IF c = Len(calls) THEN (IF pc = "return" THEN 1 ELSE 4)
  ELSE IF calls[c].at = "right" THEN 2 ELSE 3

(* What quicksort has still to do, call by call from the first, and what   *)
(* the scans of the running call's partition have left.                    *)
SortLeft ==
  [k \in 1..(STACK + 4) |->
     IF k = 1 THEN (IF pc \in {"done", "killed"} THEN 0 ELSE 1)
     ELSE IF k <= STACK + 1 THEN Work(k - 1)
     ELSE IF k = STACK + 2 THEN (IF pc = "call" THEN 1 ELSE 0)
     ELSE IF k = STACK + 3 THEN (N - i) + (j + 1)
     ELSE IF pc = "outer" THEN 0 ELSE 1]

(* Its parts, one by one. *)
Parts ==
  /\ SortLeft[1] = (IF pc \in {"done", "killed"} THEN 0 ELSE 1)
  /\ \A c \in 1..STACK : SortLeft[c + 1] = Work(c)
  /\ SortLeft[STACK + 2] = (IF pc = "call" THEN 1 ELSE 0)
  /\ SortLeft[STACK + 3] = (N - i) + (j + 1)
  /\ SortLeft[STACK + 4] = (IF pc = "outer" THEN 0 ELSE 1)

LEMMA SortLeftParts == Parts
<1>1. STACK \in Nat
  BY StackAssumption
<1>2. \A c \in 1..STACK : SortLeft[c + 1] = Work(c)
  <2> SUFFICES ASSUME NEW c \in 1..STACK PROVE SortLeft[c + 1] = Work(c)
    OBVIOUS
  <2>1. c + 1 \in 1..(STACK + 4) /\ c + 1 # 1 /\ c + 1 <= STACK + 1 /\ (c + 1) - 1 = c
    BY <1>1
  <2> QED
    BY <2>1 DEF SortLeft
<1>3. SortLeft[1] = (IF pc \in {"done", "killed"} THEN 0 ELSE 1)
  BY <1>1 DEF SortLeft
<1>4. SortLeft[STACK + 2] = (IF pc = "call" THEN 1 ELSE 0)
  BY <1>1 DEF SortLeft
<1>5. SortLeft[STACK + 3] = (N - i) + (j + 1)
  BY <1>1 DEF SortLeft
<1>6. SortLeft[STACK + 4] = (IF pc = "outer" THEN 0 ELSE 1)
  BY <1>1 DEF SortLeft
<1> QED
  BY <1>2, <1>3, <1>4, <1>5, <1>6 DEF Parts

LEMMA SortLeftType == TypeOK => \A k \in 1..(STACK + 4) : SortLeft[k] \in Nat
<1> SUFFICES ASSUME TypeOK, NEW k \in 1..(STACK + 4) PROVE SortLeft[k] \in Nat
  OBVIOUS
<1>1. STACK \in Nat /\ N - i \in Nat /\ j + 1 \in Nat
  BY StackAssumption, SizeAssumption DEF TypeOK
<1>2. \A c \in Int : Work(c) \in Nat
  BY DEF Work
<1>3. CASE k = 1
  BY <1>3, SortLeftParts DEF Parts
<1>4. CASE k \in 2..(STACK + 1)
  <2>1. k - 1 \in 1..STACK /\ k = (k - 1) + 1
    BY <1>1, <1>4
  <2> QED
    BY <1>2, <2>1, SortLeftParts DEF Parts
<1>5. CASE k \in {STACK + 2, STACK + 3, STACK + 4}
  BY <1>1, <1>5, SortLeftParts DEF Parts
<1> QED
  BY <1>1, <1>3, <1>4, <1>5

(* Every step takes something away from what there is to do. *)
LEMMA StepSortLeft ==
  ASSUME TypeOK, TypeOK', CallsOK, PartitionOK, Next, ~Stopped, Parts, Parts'
  PROVE  Below(SortLeft', SortLeft, STACK + 4)
<1> DEFINE s == SortLeft'
           t == SortLeft
<1> PICK n : n = Len(calls)
  OBVIOUS
<1> DEFINE After(c) == IF c > Len(calls') THEN 0
                       ELSE IF c = Len(calls') THEN (IF pc' = "return" THEN 1 ELSE 4)
                       ELSE IF calls'[c].at = "right" THEN 2 ELSE 3
           Before(c) == IF c > n THEN 0
                        ELSE IF c = n THEN (IF pc = "return" THEN 1 ELSE 4)
                        ELSE IF calls[c].at = "right" THEN 2 ELSE 3
<1>1. /\ s[1] = (IF pc' \in {"done", "killed"} THEN 0 ELSE 1)
      /\ \A c \in 1..STACK : s[c + 1] = After(c)
      /\ s[STACK + 2] = (IF pc' = "call" THEN 1 ELSE 0)
      /\ s[STACK + 3] = (N - i') + (j' + 1)
      /\ s[STACK + 4] = (IF pc' = "outer" THEN 0 ELSE 1)
  BY DEF Parts, Work
<1>2. /\ t[1] = (IF pc \in {"done", "killed"} THEN 0 ELSE 1)
      /\ \A c \in 1..STACK : t[c + 1] = Before(c)
      /\ t[STACK + 2] = (IF pc = "call" THEN 1 ELSE 0)
      /\ t[STACK + 3] = (N - i) + (j + 1)
      /\ t[STACK + 4] = (IF pc = "outer" THEN 0 ELSE 1)
  BY DEF Parts, Work
<1>4. /\ STACK \in Nat /\ N \in Int /\ i \in Int /\ j \in Int /\ i' \in Int /\ j' \in Int
      /\ pc \notin {"done", "killed"} /\ n \in Nat /\ n > 0 /\ n <= STACK
  <2>1. pc \notin {"done", "killed"}
    BY DEF Next, Stopped, Enter, StartScan, ScanUp, ScanDown, Split, Return
  <2> QED
    BY <2>1, TopTypes, StackAssumption, SizeAssumption DEF TypeOK
<1>5. ASSUME NEW k \in 1..(STACK + 4), s[k] < t[k], \A l \in 1..(k - 1) : s[l] = t[l]
      PROVE  Below(SortLeft', SortLeft, STACK + 4)
  <2> HIDE DEF s, t
  <2>1. Below(s, t, STACK + 4)
    BY <1>5 DEF Below
  <2> QED
    BY <2>1 DEF s, t
<1> HIDE DEF s, t, After, Before
<1>6. CASE pc' \in {"done", "killed"}
  <2>1. s[1] < t[1] /\ 1 \in 1..(STACK + 4) /\ 1..(1 - 1) = {}
    BY <1>1, <1>2, <1>4, <1>6
  <2> QED
    BY <1>5, <2>1
<1>7. ASSUME pc' \notin {"done", "killed"}, NEW c \in 1..STACK, After(c) < Before(c),
             \A d \in 1..(c - 1) : After(d) = Before(d)
      PROVE  Below(SortLeft', SortLeft, STACK + 4)
  <2>1. s[c + 1] < t[c + 1] /\ c + 1 \in 1..(STACK + 4)
    <3>1. c + 1 \in 1..(STACK + 4)
      BY <1>4
    <3>2. s[c + 1] = After(c)
      BY <1>1
    <3>3. t[c + 1] = Before(c)
      BY <1>2
    <3> QED
      BY <1>7, <3>1, <3>2, <3>3
  <2>2. ASSUME NEW l \in 1..((c + 1) - 1) PROVE s[l] = t[l]
    <3>1. CASE l = 1
      BY <1>1, <1>2, <1>4, <1>7, <3>1
    <3>2. CASE l # 1
      <4>1. l - 1 \in 1..(c - 1) /\ l - 1 \in 1..STACK /\ l = (l - 1) + 1
        BY <1>4, <3>2
      <4> QED
        BY <1>1, <1>2, <1>7, <4>1
    <3> QED
      BY <3>1, <3>2
  <2> QED
    BY <1>5, <2>1, <2>2
(* The actions that leave the calls alone. *)
<1>8. ASSUME calls' = calls, pc # "return", pc' \in {"outer", "up", "down"},
             \/ s[STACK + 2] < t[STACK + 2]
             \/ s[STACK + 2] = t[STACK + 2] /\ s[STACK + 3] < t[STACK + 3]
             \/ /\ s[STACK + 2] = t[STACK + 2] /\ s[STACK + 3] = t[STACK + 3]
                /\ s[STACK + 4] < t[STACK + 4]
      PROVE  Below(SortLeft', SortLeft, STACK + 4)
  <2>1. ASSUME NEW l \in 1..(STACK + 1) PROVE s[l] = t[l]
    <3>1. CASE l = 1
      BY <1>1, <1>2, <1>4, <1>8, <3>1
    <3>2. CASE l # 1
      <4>1. l - 1 \in 1..STACK /\ l = (l - 1) + 1
        BY <1>4, <3>2
      <4>2. After(l - 1) = Before(l - 1)
        BY <1>8, <4>1 DEF After, Before
      <4> QED
        BY <1>1, <1>2, <4>1, <4>2
    <3> QED
      BY <3>1, <3>2
  <2>2. CASE s[STACK + 2] < t[STACK + 2]
    <3>1. STACK + 2 \in 1..(STACK + 4) /\ 1..((STACK + 2) - 1) = 1..(STACK + 1)
      BY <1>4
    <3> QED
      BY <1>5, <2>1, <2>2, <3>1
  <2>3. CASE s[STACK + 2] = t[STACK + 2] /\ s[STACK + 3] < t[STACK + 3]
    <3>1. /\ STACK + 3 \in 1..(STACK + 4)
          /\ \A l \in 1..((STACK + 3) - 1) : l \in 1..(STACK + 1) \/ l = STACK + 2
      BY <1>4
    <3> QED
      BY <1>5, <2>1, <2>3, <3>1
  <2>4. CASE /\ s[STACK + 2] = t[STACK + 2] /\ s[STACK + 3] = t[STACK + 3]
             /\ s[STACK + 4] < t[STACK + 4]
    <3>1. /\ STACK + 4 \in 1..(STACK + 4)
          /\ \A l \in 1..((STACK + 4) - 1) :
               l \in 1..(STACK + 1) \/ l = STACK + 2 \/ l = STACK + 3
      BY <1>4
    <3> QED
      BY <1>5, <2>1, <2>4, <3>1
  <2> QED
    BY <1>8, <2>2, <2>3, <2>4
<1>9. CASE Enter
  <2>1. calls' = calls /\ pc = "call"
    BY <1>9 DEF Enter
  <2>2. CASE pc' = "outer"
    BY <1>1, <1>2, <1>8, <2>1, <2>2
  <2>3. CASE pc' = "return"
    <3>1. n \in 1..STACK /\ After(n) = 1 /\ Before(n) = 4
      BY <1>4, <2>1, <2>3 DEF After, Before
    <3>2. ASSUME NEW d \in 1..(n - 1) PROVE After(d) = Before(d)
      <4>1. d \in Int /\ d < n /\ Len(calls') = n
        BY <1>4, <2>1
      <4> QED
        BY <1>4, <2>1, <4>1 DEF After, Before
    <3> QED
      BY <1>7, <2>3, <3>1, <3>2
  <2> QED
    BY <1>9, <2>2, <2>3 DEF Enter
<1>10. CASE StartScan
  <2>1. calls' = calls /\ pc = "outer" /\ pc' = "up" /\ i' = i + 1 /\ j' = j
    BY <1>10 DEF StartScan, NextUp
  <2>2. s[STACK + 3] < t[STACK + 3]
    BY <1>1, <1>2, <1>4, <2>1
  <2> QED
    BY <1>1, <1>2, <1>8, <2>1, <2>2
<1>11. CASE ScanUp
  <2>1. /\ calls' = calls /\ pc = "up" /\ pc' \in {"up", "down"}
        /\ (i' = i + 1 /\ j' = j) \/ (i' = i /\ j' = j - 1)
    BY <1>11 DEF ScanUp, NextUp, NextDown
  <2>2. (N - i') + (j' + 1) < (N - i) + (j + 1)
    <3>1. CASE i' = i + 1 /\ j' = j
      BY <1>4, <3>1
    <3>2. CASE i' = i /\ j' = j - 1
      BY <1>4, <3>2
    <3> QED
      BY <2>1, <3>1, <3>2
  <2>3. s[STACK + 3] < t[STACK + 3]
    BY <1>1, <1>2, <2>2
  <2> QED
    BY <1>1, <1>2, <1>8, <2>1, <2>3
<1>12. CASE ScanDown
  <2>1. calls' = calls /\ pc = "down" /\ i' = i
    BY <1>12 DEF ScanDown
  <2>2. CASE GoesDown
    <3>1. pc' = pc /\ j' = j - 1
      BY <1>12, <2>2 DEF ScanDown, NextDown
    <3>2. s[STACK + 3] < t[STACK + 3]
      BY <1>1, <1>2, <1>4, <2>1, <3>1
    <3> QED
      BY <1>1, <1>2, <1>8, <2>1, <3>1, <3>2
  <2>3. CASE ~GoesDown
    <3>1. pc' = "outer" /\ j' = j
      BY <1>12, <2>3 DEF ScanDown
    <3> QED
      BY <1>1, <1>2, <1>8, <2>1, <3>1
  <2> QED
    BY <2>2, <2>3
<1>13. CASE Split
  <2>1. /\ pc' \in {"call", "killed"} /\ pc = "outer"
        /\ Len(calls') = (IF pc' = "call" THEN n + 1 ELSE n)
        /\ \A c \in 1..(n - 1) : calls'[c] = calls[c]
        /\ calls'[n].at = "left"
    BY <1>13, SplitCalls DEF Split
  <2>2. CASE pc' = "call"
    <3>1. n \in 1..STACK /\ Before(n) = 4
      BY <1>4, <2>1 DEF Before
    <3>2. After(n) = 3
      BY <1>4, <2>1, <2>2 DEF After
    <3>3. ASSUME NEW d \in 1..(n - 1) PROVE After(d) = Before(d)
      <4>1. d \in Int /\ d < n /\ Len(calls') = n + 1 /\ calls'[d] = calls[d]
        BY <1>4, <2>1, <2>2
      <4> QED
        BY <1>4, <4>1 DEF After, Before
    <3> QED
      BY <1>7, <2>2, <3>1, <3>2, <3>3
  <2> QED
    BY <1>6, <2>1, <2>2
<1>14. CASE Return
  <2>1. pc = "return"
    BY <1>14 DEF Return
  <2>2. CASE n = 1 /\ calls' = << >> /\ pc' = "done"
    BY <1>6, <2>2
  <2>3. CASE /\ n > 1 /\ calls[n - 1].at = "left" /\ pc' \in {"call", "killed"}
             /\ Len(calls') = (IF pc' = "call" THEN n ELSE n - 1)
             /\ \A c \in 1..(n - 2) : calls'[c] = calls[c]
             /\ calls'[n - 1] = OnTheRight(calls[n - 1])
    <3>1. CASE pc' = "call"
      <4>1. n - 1 \in 1..STACK /\ n - 1 \in 1..n
        BY <1>4, <2>3
      <4>2. calls'[n - 1].at = "right"
        <5>1. calls[n - 1] \in Call
          BY <4>1 DEF TypeOK
        <5> QED
          BY <2>3, <5>1 DEF OnTheRight, Call
      <4>3. Before(n - 1) = 3
        BY <1>4, <2>3 DEF Before
      <4>4. After(n - 1) = 2
        BY <1>4, <2>3, <3>1, <4>2 DEF After
      <4>5. ASSUME NEW d \in 1..((n - 1) - 1) PROVE After(d) = Before(d)
        <5>1. d \in Int /\ d < n - 1 /\ Len(calls') = n /\ calls'[d] = calls[d]
          BY <1>4, <2>3, <3>1
        <5> QED
          BY <1>4, <5>1 DEF After, Before
      <4> QED
        BY <1>7, <3>1, <4>1, <4>3, <4>4, <4>5
    <3> QED
      BY <1>6, <2>3, <3>1
  <2>4. CASE /\ n > 1 /\ calls[n - 1].at # "left" /\ Len(calls') = n - 1 /\ pc' = "return"
             /\ \A c \in 1..(n - 1) : calls'[c] = calls[c]
    <3>1. n - 1 \in 1..STACK /\ n - 1 \in 1..n
      BY <1>4, <2>4
    <3>2. calls[n - 1].at = "right"
      <4>1. calls[n - 1] \in Call
        BY <3>1 DEF TypeOK
      <4> QED
        BY <2>4, <4>1 DEF Call
    <3>3. After(n - 1) = 1 /\ Before(n - 1) = 2
      BY <1>4, <2>4, <3>2 DEF After, Before
    <3>4. ASSUME NEW d \in 1..((n - 1) - 1) PROVE After(d) = Before(d)
      <4>1. d \in Int /\ d < n - 1 /\ Len(calls') = n - 1 /\ calls'[d] = calls[d]
        BY <1>4, <2>4
      <4> QED
        BY <1>4, <4>1 DEF After, Before
    <3> QED
      BY <1>7, <2>4, <3>1, <3>3, <3>4
  <2> QED
    BY <1>14, <2>2, <2>3, <2>4, ReturnCalls
<1> QED
  BY <1>9, <1>10, <1>11, <1>12, <1>13, <1>14 DEF Next

(* Every step of quicksort takes something away from what it has still to  *)
(* do: its recursion ends, for arrays of every size and whatever stack     *)
(* there is, although a call may hand on the whole of its range.           *)
THEOREM QuickSortEnds ==
  Spec => /\ [](\A k \in 1..(STACK + 4) : SortLeft[k] \in Nat)
          /\ [][Below(SortLeft', SortLeft, STACK + 4)]_vars
<1>1. IInv => TypeOK /\ CallsOK /\ PartitionOK
  BY DEF IInv
<1>2. IInv => \A k \in 1..(STACK + 4) : SortLeft[k] \in Nat
  BY <1>1, SortLeftType
<1>3. IInv /\ IInv' /\ Parts /\ Parts' /\ [Next]_vars
        => [Below(SortLeft', SortLeft, STACK + 4)]_vars
  <2> SUFFICES ASSUME IInv, IInv', Parts, Parts', Next
               PROVE  Below(SortLeft', SortLeft, STACK + 4) \/ UNCHANGED vars
    OBVIOUS
  <2>1. TypeOK /\ TypeOK' /\ CallsOK /\ PartitionOK
    BY DEF IInv
  <2>2. CASE Stopped
    BY <2>2 DEF Stopped
  <2>3. CASE ~Stopped
    BY <2>1, <2>3, StepSortLeft
  <2> QED
    BY <2>2, <2>3
<1> QED
  BY <1>2, <1>3, SortLeftParts, Invariant, PTL DEF Spec
===============================================================================

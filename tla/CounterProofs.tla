---------------------------- MODULE CounterProofs -----------------------------
(***************************************************************************)
(* Theorems about Counter, for every number of iterations whose double     *)
(* fits an int, with the atomic increment and with the racy one.           *)
(***************************************************************************)
EXTENDS Counter, TLAPS

(* main prints only after the threads that were created are done. *)
Joined ==
  /\ \A t \in Threads : pc[t] = "done" => i[t] = MAX_COUNT_LOOP
  /\ main_pc \in {"join2", "print", "end"} => pc["tid1"] \in {"done", "unborn"}
  /\ main_pc \in {"print", "end"} => pc["tid2"] \in {"done", "unborn"}

(* A thread that is alone loses nothing.                                    *)
Alone ==
  \A t, o \in Threads :
    t # o /\ pc[o] = "unborn" =>
      /\ i[o] = 0 /\ count = i[t]
      /\ pc[t] = "store" => loaded[t] = count

(* A register holds no more than the iterations done, and holds 0 only in   *)
(* a thread that has done none.                                             *)
Registers ==
  \A t \in Threads :
    /\ i[t] > 0 => count >= 1
    /\ pc[t] = "store" => loaded[t] <= Iterations
    /\ pc[t] = "store" /\ i[t] > 0 => loaded[t] >= 1

(* A thread that ends its loop leaves a count of at least 2, and the last   *)
(* store of all ends a loop.                                                *)
AtLeastTwo == (\A t \in Threads : i[t] = MAX_COUNT_LOOP) => count >= 2

Exact == atomic => count = Iterations /\ \A t \in Threads : pc[t] # "store"

Printed == main_pc = "end" => printed = count

IInv == TypeOK /\ NeverAhead /\ Joined /\ Alone /\ Registers /\ AtLeastTwo /\ Exact /\ Printed

-------------------------------------------------------------------------------
(* The initial states satisfy the inductive invariant. *)
LEMMA InitIInv == Init => IInv
BY LoopAssumption DEF Init, IInv, TypeOK, NeverAhead, Joined, Alone, Registers, AtLeastTwo,
   Exact, Printed, Iterations, Threads, INT_MAX

(* Every step of every thread preserves the inductive invariant. *)
LEMMA StepIInv == IInv /\ [Next]_vars => IInv'
<1> SUFFICES ASSUME IInv, [Next]_vars PROVE IInv'
  OBVIOUS
<1> USE LoopAssumption
    DEF IInv, TypeOK, NeverAhead, Joined, Alone, Registers, AtLeastTwo, Exact, Printed,
        Iterations, Threads, INT_MAX
<1>1. CASE Create
  BY <1>1 DEF Create
<1>2. CASE Join
  BY <1>2 DEF Join, JoinOf
<1>3. CASE PrintCount
  BY <1>3 DEF PrintCount
<1>4. ASSUME NEW t \in Threads, Load(t) PROVE IInv'
  BY <1>4 DEF Load
<1>5. ASSUME NEW t \in Threads, Store(t) PROVE IInv'
  BY <1>5 DEF Store
<1>6. ASSUME NEW t \in Threads, FetchAndAdd(t) PROVE IInv'
  BY <1>6 DEF FetchAndAdd
<1>7. ASSUME NEW t \in Threads, Return(t) PROVE IInv'
  BY <1>7 DEF Return
<1>8. CASE UNCHANGED vars
  BY <1>8 DEF vars
<1> QED
  BY <1>1, <1>2, <1>3, <1>4, <1>5, <1>6, <1>7, <1>8 DEF Next, Main, count_inc_cbk, Ended

-------------------------------------------------------------------------------
(* The inductive invariant holds in every reachable state. *)
THEOREM Invariance == Spec => []IInv
BY InitIInv, StepIInv, PTL DEF Spec

(* The variables have their types in every reachable state. *)
THEOREM Typing == Spec => []TypeOK
BY Invariance, PTL DEF IInv

(* The count is never ahead of the iterations, and never overflows. *)
THEOREM CountNeverAhead == Spec => []NeverAhead
BY Invariance, PTL DEF IInv

(* The racy program prints at least 2 and at most twice the loop, and what *)
(* the one thread counted, or 0, if others could not be created.           *)
THEOREM RacyResult == Spec => []RacyBounds
<1>1. IInv => RacyBounds
  BY LoopAssumption DEF IInv, TypeOK, NeverAhead, Joined, Alone, AtLeastTwo, Printed,
     RacyBounds, Total, Iterations, Threads
<1> QED
  BY Invariance, <1>1, PTL

(* The atomic program prints the total of the threads it created. *)
THEOREM AtomicResult == Spec => []AtomicTotal
<1>1. IInv => AtomicTotal
  BY LoopAssumption DEF IInv, TypeOK, Joined, Alone, Exact, Printed, AtomicTotal, Total,
     Iterations, Threads
<1> QED
  BY Invariance, <1>1, PTL
===============================================================================

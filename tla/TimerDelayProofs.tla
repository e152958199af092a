--------------------------- MODULE TimerDelayProofs ---------------------------
(***************************************************************************)
(* Theorems about TimerDelay, for every set of delays.                     *)
(***************************************************************************)
EXTENDS TimerDelay, TLAPS

(* What the programs keep is what they computed from their last delay. *)
Computed ==
  /\ delay \in [posix : Nat, libevent : Nat]
  /\ it_value = Timespec(delay.posix)
  /\ timeout = Timeval(delay.libevent)

(* Every step computes both values from the delays. *)
THEOREM AlwaysComputed == Spec => []Computed
<1>1. Disarmed = Timespec(0)
  BY DEF Disarmed, Timespec, UnitsPerMs, UnitsPerSec, UINT32_WRAP
<1>2. Init => Computed
  BY <1>1 DEF Init, Computed
<1>3. Computed /\ [Next]_vars => Computed'
  BY <1>1, DelaysAssumption
  DEF Computed, Next, vars, StartPosix, an_timer_stop, an_timer_reset, StartLibevent
<1> QED
  BY <1>2, <1>3, PTL DEF Spec

-------------------------------------------------------------------------------
(* Milliseconds split into seconds and a remainder. *)
LEMMA Split ==
  ASSUME NEW d \in Nat
  PROVE  /\ (d \div 1000) \in Nat /\ (d % 1000) \in 0..999
         /\ d = 1000 * (d \div 1000) + (d % 1000)
BY SMT

(* What an_timer_start computes: a fraction of a second for every delay, and *)
(* the fraction of the delay below the wrap.                                 *)
LEMMA PosixFraction ==
  ASSUME NEW d \in Nat, NEW f, f = ((d * 15625) % 67108864) % 15625000
  PROVE  /\ f \in Int /\ 0 <= f /\ f < 15625000
         /\ d <= 4294 => f = (d % 1000) * 15625
<1> DEFINE p == d * 15625
           q == d \div 1000
           r == d % 1000
<1>1. p \in Nat
  BY SMT
<1>2. (p % 67108864) \in Nat
  BY <1>1, SMT
<1>3. f \in Int /\ 0 <= f /\ f < 15625000
  BY <1>2, SMT
<1>4. ASSUME d <= 4294 PROVE f = r * 15625
  <2>1. p < 67108864
    BY <1>4, SMT
  <2>2. p % 67108864 = p
    BY <1>1, <2>1, SMT
  <2>3. q \in Nat /\ r \in 0..999 /\ p = 15625000 * q + 15625 * r
    BY Split, SMT
  <2>4. (15625000 * q + 15625 * r) % 15625000 = 15625 * r
    BY <2>3, SMT
  <2> QED
    BY <2>2, <2>3, <2>4, SMT
<1> QED
  BY <1>3, <1>4

(* The expiry that a computed state holds, in numbers. *)
LEMMA ExpiryInNumbers ==
  ASSUME Computed
  PROVE  \E d \in Nat, f \in Int :
           /\ d = delay.posix
           /\ it_value = [tv_sec |-> d \div 1000, tv_nsec |-> f]
           /\ 0 <= f /\ f < 15625000
           /\ d <= 4294 => f = (d % 1000) * 15625
<1>1. PICK d \in Nat : d = delay.posix /\ it_value = Timespec(d)
  BY DEF Computed
<1>2. PICK f : f = ((d * 15625) % 67108864) % 15625000
  OBVIOUS
<1>3. it_value = [tv_sec |-> d \div 1000, tv_nsec |-> f]
  BY <1>1, <1>2, SMT DEF Timespec, UnitsPerMs, UnitsPerSec, UINT32_WRAP
<1>4. f \in Int /\ 0 <= f /\ f < 15625000 /\ (d <= 4294 => f = (d % 1000) * 15625)
  BY <1>2, PosixFraction, SMT
<1> QED
  BY <1>1, <1>3, <1>4

-------------------------------------------------------------------------------
(* Below the wrap the remainder of the product is the fraction of the delay. *)
THEOREM ShortDelaysExact == Spec => []ShortPeriodExact
<1>1. ASSUME Computed PROVE ShortPeriodExact
  <2>1. PICK d \in Nat, f \in Int :
          /\ d = delay.posix
          /\ it_value = [tv_sec |-> d \div 1000, tv_nsec |-> f]
          /\ d <= 4294 => f = (d % 1000) * 15625
    BY <1>1, ExpiryInNumbers
  <2>2. d <= 4294 => (d \div 1000) * 15625000 + f = d * 15625
    BY <2>1, Split, SMT
  <2> QED
    BY <2>1, <2>2, SMT
    DEF ShortPeriodExact, PeriodIsDelay, Expiry, LongestExact, UnitsPerMs, UnitsPerSec
<1> QED
  BY AlwaysComputed, <1>1, PTL

(* However long the delay, the fraction is a valid one, the expiry is off by *)
(* less than a second, and a positive delay arms the timer.                  *)
THEOREM LongDelaysNear == Spec => []PeriodNear
<1>1. ASSUME Computed PROVE PeriodNear
  <2>1. PICK d \in Nat, f \in Int :
          /\ d = delay.posix
          /\ it_value = [tv_sec |-> d \div 1000, tv_nsec |-> f]
          /\ 0 <= f /\ f < 15625000
          /\ d <= 4294 => f = (d % 1000) * 15625
    BY <1>1, ExpiryInNumbers
  <2>2. /\ (d \div 1000) * 15625000 + f < d * 15625 + 15625000
        /\ d * 15625 < (d \div 1000) * 15625000 + f + 15625000
    BY <2>1, Split, SMT
  <2>3. (d \div 1000) = 0 /\ f = 0 <=> d = 0
    BY <2>1, Split, SMT
  <2>4. it_value = Disarmed <=> d = 0
    BY <2>1, <2>3, SMT DEF Disarmed
  <2> QED
    BY <2>1, <2>2, <2>4, SMT DEF PeriodNear, Expiry, UnitsPerMs, UnitsPerSec
<1> QED
  BY AlwaysComputed, <1>1, PTL

(* The libevent timer gets every delay exactly. *)
THEOREM LibeventExact == Spec => []TimevalExact
<1>1. ASSUME Computed PROVE TimevalExact
  <2>1. PICK d \in Nat : d = delay.libevent /\ timeout = Timeval(d)
    BY <1>1 DEF Computed
  <2>2. timeout.tv_sec = d \div 1000 /\ timeout.tv_usec = (d % 1000) * 1000
    BY <2>1, SMT DEF Timeval
  <2> QED
    BY <2>1, <2>2, Split, SMT DEF TimevalExact
<1> QED
  BY AlwaysComputed, <1>1, PTL
===============================================================================

------------------------------ MODULE TimerDelay ------------------------------
(***************************************************************************)
(* The delays of the two timer programs of linux_timer/: both take a       *)
(* uint32_t of milliseconds and split it into seconds and a fraction, in   *)
(* nanoseconds for the POSIX timers of timer_linux.c, in microseconds for  *)
(* the libevent timers of timer_event_lib.c.  Nanoseconds are counted in   *)
(* units of 64, which divides 10^6, 10^9 and 2^32: the arithmetic modulo   *)
(* 2^32 is exact, and fits the integers of TLC up to a delay of 137438.    *)
(***************************************************************************)
EXTENDS Integers

CONSTANT Delays  (* the delays the programs pass, in milliseconds *)

ASSUME DelaysAssumption == Delays \subseteq Nat

UnitsPerMs  == 15625     (* 1000000 / 64    *)
UnitsPerSec == 15625000  (* 1000000000 / 64 *)
UINT32_WRAP == 67108864  (* 2^32 / 64       *)

VARIABLES
  delay,       (* what each program asked for last              *)
  it_value,    (* first expiry and period of the POSIX timer    *)
  timeout      (* the timeval of the libevent timer             *)

vars == <<delay, it_value, timeout>>

Disarmed == [tv_sec |-> 0, tv_nsec |-> 0]

(* Mutant: seconds left in the nanoseconds. *)
WholeDelay(d) == [tv_sec |-> d \div 1000, tv_nsec |-> (d * UnitsPerMs) % UINT32_WRAP]

(* Mutant: the fraction of a second is dropped. *)
WholeSeconds(d) == [tv_sec |-> d \div 1000, tv_nsec |-> 0]

(* The product delay * 1000000 is a uint32_t. *)
Timespec(d) ==
  [tv_sec  |-> d \div 1000,
   tv_nsec |-> ((d * UnitsPerMs) % UINT32_WRAP) % UnitsPerSec]

(* Mutant: milliseconds where microseconds belong. *)
MillisTimeval(d) == [tv_sec |-> d \div 1000, tv_usec |-> d % 1000]

Timeval(d) == [tv_sec |-> d \div 1000, tv_usec |-> (d % 1000) * 1000]

Init ==
  /\ delay = [posix |-> 0, libevent |-> 0]
  /\ it_value = Disarmed
  /\ timeout = Timeval(0)

(* an_timer_start of timer_linux.c: the interval is a copy of the value, and *)
(* timer_settime takes every fraction below a second.                        *)
StartPosix(d) ==
  /\ delay' = [delay EXCEPT !.posix = d]
  /\ it_value' = Timespec(d)
  /\ UNCHANGED timeout

an_timer_stop ==
  /\ delay' = [delay EXCEPT !.posix = 0]
  /\ it_value' = Disarmed
  /\ UNCHANGED timeout

(* an_timer_reset returns at once. *)
an_timer_reset(d) == UNCHANGED vars

(* an_timer_start of timer_event_lib.c. *)
StartLibevent(d) ==
  /\ delay' = [delay EXCEPT !.libevent = d]
  /\ timeout' = Timeval(d)
  /\ UNCHANGED it_value

Next ==
  \/ \E d \in Delays : StartPosix(d) \/ an_timer_reset(d) \/ StartLibevent(d)
  \/ an_timer_stop

Spec == Init /\ [][Next]_vars

-------------------------------------------------------------------------------
(* The longest delay whose nanoseconds fit 32 bits. *)
LongestExact == 4294

(* The expiry of the POSIX timer, in units of 64 ns. *)
Expiry == it_value.tv_sec * UnitsPerSec + it_value.tv_nsec

(* "delay in milli seconds." (timer_linux.c:198) *)
PeriodIsDelay == Expiry = delay.posix * UnitsPerMs

(* Up to LongestExact milliseconds the product does not wrap.              *)
ShortPeriodExact == delay.posix <= LongestExact => PeriodIsDelay

(* Beyond, the wrapped product still gives a fraction timer_settime takes, *)
(* moves the expiry by less than a second, and never disarms the timer.    *)
PeriodNear ==
  /\ 0 <= it_value.tv_nsec /\ it_value.tv_nsec < UnitsPerSec
  /\ Expiry < delay.posix * UnitsPerMs + UnitsPerSec
  /\ delay.posix * UnitsPerMs < Expiry + UnitsPerSec
  /\ it_value = Disarmed <=> delay.posix = 0

(* The timeval of the libevent timer is exact for every delay, and its     *)
(* fraction is below a second.                                             *)
TimevalExact ==
  /\ 0 <= timeout.tv_usec /\ timeout.tv_usec < 1000000
  /\ timeout.tv_sec * 1000000 + timeout.tv_usec = delay.libevent * 1000
===============================================================================

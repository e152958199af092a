----------------------------- MODULE EventChannel -----------------------------
(***************************************************************************)
(* What the timer service of linux_timer/timer_linux.c promises to the     *)
(* code that starts timers: an expiry that is accepted is dispatched, once *)
(* and in the order of acceptance.  The capacity bounds the number of      *)
(* events accepted over the whole life of the channel, not the number that *)
(* wait in it: the array behind it is filled and never reused.             *)
(***************************************************************************)
EXTENDS Integers, Sequences

CONSTANTS
  Events,    (* what travels through the channel: timers that expired *)
  Capacity   (* how many events the channel accepts in its life       *)

VARIABLES
  accepted,  (* every event accepted so far, in order  *)
  handled    (* every event dispatched so far, in order *)

vars == <<accepted, handled>>

Init ==
  /\ accepted = << >>
  /\ handled = << >>

Accept(e) ==
  /\ Len(accepted) < Capacity
  /\ accepted' = Append(accepted, e)
  /\ UNCHANGED handled

(* The next event to dispatch is the oldest one not dispatched yet. *)
Handle ==
  /\ Len(handled) < Len(accepted)
  /\ handled' = Append(handled, accepted[Len(handled) + 1])
  /\ UNCHANGED accepted

Next ==
  \/ \E e \in Events : Accept(e)
  \/ Handle

SafeSpec == Init /\ [][Next]_vars

(* Every accepted event is dispatched in the end; nothing obliges one to arrive. *)
Spec == SafeSpec /\ WF_vars(Handle)
===============================================================================

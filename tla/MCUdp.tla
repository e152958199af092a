------------------------------- MODULE MCUdp -------------------------------
(* Each receiver with each of the clients; strange frames that differ from *)
(* theirs in one field, are shorter or longer, hold a NUL or are IPv4.     *)
EXTENDS Udp

MCDeployments == {{c, r} : c \in Clients, r \in Receivers}

MCHello == <<7, 7, 7>>

Other == Frame("host", <<5>>)

MCStrange ==
  {Other, Frame("host", <<4, 0, 4, 4>>),
   [Frame("host", <<6>>) EXCEPT !.ether = IP4], [Other EXCEPT !.next = 6],
   [Other EXCEPT !.sport = 53], [Other EXCEPT !.dport = 53]}

(* Zeros, or bytes without any terminator. *)
MCGarbage == {[i \in 1..MAXBUF |-> byte] : byte \in {0, 99}}

(* One more byte, then a NUL. *)
MCBehind == {<<88>>}
=============================================================================

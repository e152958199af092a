------------------------------- MODULE Counter --------------------------------
(***************************************************************************)
(* The two counting programs of lockless/: main starts two threads that    *)
(* each increment the global count MAX_COUNT_LOOP times, joins them and    *)
(* prints the count.  pthread_atomic_counter.c increments with             *)
(* __sync_fetch_and_add; pthread_counter.c with count++ on a plain int,    *)
(* a data race.  What a build makes of the race is loads and stores: the   *)
(* compiler keeps the count in a register over any number of iterations,   *)
(* one by one without optimisation, the whole loop at once with it.        *)
(***************************************************************************)
EXTENDS Integers

CONSTANT MAX_COUNT_LOOP  (* iterations of each thread, 10^9 and 10^8 in the sources *)

INT_MAX == 2147483647

(* Twice the iterations fit an int, as they do in both programs. *)
ASSUME LoopAssumption ==
  /\ MAX_COUNT_LOOP \in Nat
  /\ MAX_COUNT_LOOP >= 2
  /\ 2 * MAX_COUNT_LOOP <= INT_MAX

Threads == {"tid1", "tid2"}

VARIABLES
  atomic,   (* which program runs: pthread_atomic_counter.c if TRUE *)
  main_pc,  (* where main is                                    *)
  pc,       (* where each thread is                             *)
  count,    (* the global                                       *)
  i,        (* iterations each thread has completed             *)
  loaded,   (* the count in a register, between load and store  *)
  printed   (* what main prints, -1 before                      *)

vars == <<atomic, main_pc, pc, count, i, loaded, printed>>

Init ==
  /\ atomic \in BOOLEAN
  /\ main_pc = "create1"
  /\ pc = [t \in Threads |-> "unborn"]
  /\ count = 0
  /\ i = [t \in Threads |-> 0]
  /\ loaded = [t \in Threads |-> 0]
  /\ printed = -1

(* pthread_create of one thread after the other; a failure goes unseen. *)
Create ==
  /\ \/ /\ main_pc = "create1"
        /\ main_pc' = "create2"
        /\ pc' = [pc EXCEPT !["tid1"] = "loop"] \/ UNCHANGED pc
     \/ /\ main_pc = "create2"
        /\ main_pc' = "join1"
        /\ pc' = [pc EXCEPT !["tid2"] = "loop"] \/ UNCHANGED pc
  /\ UNCHANGED <<atomic, count, i, loaded, printed>>

(* A thread that is not there is joined by an id that is not initialised:  *)
(* the join fails, unseen, or kills the program.                           *)
JoinOf(t, l) ==
  \/ pc[t] \in {"done", "unborn"} /\ main_pc' = l
  \/ pc[t] = "unborn" /\ main_pc' = "killed"

(* Mutant: the second pthread_join is missing. *)
JoinFirst ==
  /\ main_pc = "join1"
  /\ JoinOf("tid1", "print")
  /\ UNCHANGED <<atomic, pc, count, i, loaded, printed>>

Join ==
  /\ \/ main_pc = "join1" /\ JoinOf("tid1", "join2")
     \/ main_pc = "join2" /\ JoinOf("tid2", "print")
  /\ UNCHANGED <<atomic, pc, count, i, loaded, printed>>

PrintCount ==
  /\ main_pc = "print"
  /\ main_pc' = "end"
  /\ printed' = count
  /\ UNCHANGED <<atomic, pc, count, i, loaded>>

Main == Create \/ Join \/ PrintCount

Load(t) ==
  /\ ~atomic
  /\ pc[t] = "loop"
  /\ i[t] < MAX_COUNT_LOOP
  /\ loaded' = [loaded EXCEPT ![t] = count]
  /\ pc' = [pc EXCEPT ![t] = "store"]
  /\ UNCHANGED <<atomic, main_pc, count, i, printed>>

(* Mutant: the increment is written back on top of the newest count. *)
StoreOnTop(t) ==
  /\ pc[t] = "store"
  /\ \E k \in 1..(MAX_COUNT_LOOP - i[t]) :
       /\ count' = count + loaded[t] + k
       /\ i' = [i EXCEPT ![t] = i[t] + k]
  /\ pc' = [pc EXCEPT ![t] = "loop"]
  /\ UNCHANGED <<atomic, main_pc, loaded, printed>>

(* k iterations of the loop since the load. *)
Store(t) ==
  /\ pc[t] = "store"
  /\ \E k \in 1..(MAX_COUNT_LOOP - i[t]) :
       /\ count' = loaded[t] + k
       /\ i' = [i EXCEPT ![t] = i[t] + k]
  /\ pc' = [pc EXCEPT ![t] = "loop"]
  /\ UNCHANGED <<atomic, main_pc, loaded, printed>>

FetchAndAdd(t) ==
  /\ atomic
  /\ pc[t] = "loop"
  /\ i[t] < MAX_COUNT_LOOP
  /\ count' = count + 1
  /\ i' = [i EXCEPT ![t] = i[t] + 1]
  /\ UNCHANGED <<atomic, main_pc, pc, loaded, printed>>

Return(t) ==
  /\ pc[t] = "loop"
  /\ i[t] = MAX_COUNT_LOOP
  /\ pc' = [pc EXCEPT ![t] = "done"]
  /\ UNCHANGED <<atomic, main_pc, count, i, loaded, printed>>

count_inc_cbk(t) ==
  /\ main_pc # "killed"
  /\ Load(t) \/ Store(t) \/ FetchAndAdd(t) \/ Return(t)

(* The program has ended. *)
Ended == main_pc \in {"end", "killed"} /\ UNCHANGED vars

Next ==
  \/ Main
  \/ \E t \in Threads : count_inc_cbk(t)
  \/ Ended

Spec == Init /\ [][Next]_vars

-------------------------------------------------------------------------------
Iterations == i["tid1"] + i["tid2"]

TypeOK ==
  /\ atomic \in BOOLEAN
  /\ main_pc \in {"create1", "create2", "join1", "join2", "print", "end", "killed"}
  /\ pc \in [Threads -> {"unborn", "loop", "store", "done"}]
  /\ count \in Nat
  /\ i \in [Threads -> 0..MAX_COUNT_LOOP]
  /\ \A t \in Threads : pc[t] = "store" => i[t] < MAX_COUNT_LOOP
  /\ loaded \in [Threads -> Nat]
  /\ printed \in Nat \cup {-1}

(* A race loses increments and never invents one: the count stays at or    *)
(* below the iterations done so far, so no int overflows either.           *)
NeverAhead == count <= Iterations /\ count <= INT_MAX

(* The iterations of the threads that could be created. *)
Total ==
  LET work(t) == IF pc[t] = "unborn" THEN 0 ELSE MAX_COUNT_LOOP
  IN work("tid1") + work("tid2")

(* What the racy program prints lies between 2 and twice the loop: a       *)
(* thread that loaded 0 had done nothing yet, so its last store, and the   *)
(* last store of all, is at least the second increment.  If a thread could *)
(* not be created there is no race and nothing is lost.                    *)
RacyBounds ==
  main_pc = "end" =>
    /\ printed <= Total
    /\ printed >= IF \E t \in Threads : pc[t] = "unborn" THEN Total ELSE 2

(* What the atomic program prints is the total of the threads it created,  *)
(* whatever the interleaving.                                              *)
AtomicTotal == atomic /\ main_pc = "end" => printed = Total
===============================================================================

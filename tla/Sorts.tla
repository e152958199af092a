------------------------------- MODULE Sorts -------------------------------
(***************************************************************************)
(* Merge, counting, bubble and selection sort of sort/ as functions of     *)
(* their input, loop by loop and call by call.  A run of a program is one  *)
(* step from its input to its output.                                      *)
(***************************************************************************)
EXTENDS Integers, FiniteSets

CONSTANTS
  Inputs,   (* [program, n, a]: a program and its array of n elements      *)
  SLOTS,    (* size of t in countingSort: one slot for each value          *)
  CSLOTS    (* size of c in countingSort: the array may be longer          *)

(* The array of each program is not empty; that of countingSort has values *)
(* below 84, and t as many slots.                                          *)
ASSUME InputsAssumption ==
  /\ SLOTS \in Nat /\ CSLOTS \in Nat
  /\ \A x \in Inputs :
       /\ x.program \in {"mergeSort", "countingSort", "bubble", "selectionSort"}
       /\ x.n \in Nat \ {0}
       /\ x.a \in [0..(x.n - 1) -> Int]
       /\ x.program = "countingSort" => \A k \in 0..(x.n - 1) : x.a[k] \in 0..(SLOTS - 1)

VARIABLES
  input,    (* the program and its array                                   *)
  output,   (* the array it leaves; << >> before it has run                *)
  overrun   (* it wrote outside c: what it does from there on is undefined *)

-----------------------------------------------------------------------------
(* Arrays are functions on 0..n-1. *)

Exchanged(a, k, l) == [a EXCEPT ![k] = a[l], ![l] = a[k]]

(* s.i and s.j are at the heads of the halves lpos..mpos-1 and mpos..rpos.  *)
(* Mutant: the right half is taken for empty one element early. *)
TakesLeftEarly(a, s, mpos, rpos) == s.i < mpos /\ (s.j < rpos => a[s.i] < a[s.j])

TakesLeft(a, s, mpos, rpos) == s.i < mpos /\ (s.j <= rpos => a[s.i] < a[s.j])

(* The smaller head goes to place k-1 of temp, the right one if they are   *)
(* equal, and what is left when one half has come to its end.  No place of *)
(* temp is read before it is written.                                      *)
Took(a, s, k, mpos, rpos) ==
  IF TakesLeft(a, s, mpos, rpos)
  THEN [i |-> s.i + 1, j |-> s.j, temp |-> [s.temp EXCEPT ![k - 1] = a[s.i]]]
  ELSE [i |-> s.i, j |-> s.j + 1, temp |-> [s.temp EXCEPT ![k - 1] = a[s.j]]]

Merged(a, lpos, mpos, rpos) ==
  LET loop[k \in lpos..(rpos + 1)] ==
        IF k = lpos THEN [i |-> lpos, j |-> mpos, temp |-> a]
        ELSE Took(a, loop[k - 1], k, mpos, rpos)
  IN loop[rpos + 1].temp

(* temp is copied back. *)
Merge(a, lpos, mpos, rpos) ==
  [k \in DOMAIN a |-> IF k \in lpos..rpos THEN Merged(a, lpos, mpos, rpos)[k] ELSE a[k]]

(* A call is an array and the range to sort: the left half, the right one  *)
(* of what that leaves, then both are merged.                              *)
MergeSort(a, n) ==
  LET sorted[x \in [0..(n - 1) -> Int] \X (0..(n - 1)) \X (0..(n - 1))] ==
        LET b == x[1]  lpos == x[2]  rpos == x[3]  mid == (lpos + rpos) \div 2
        IN IF rpos > lpos
           THEN Merge(sorted[<<sorted[<<b, lpos, mid>>], mid + 1, rpos>>], lpos, mid + 1, rpos)
           ELSE b
  IN sorted[<<a, 0, n - 1>>]

Places(a, n, v) == {k \in 0..(n - 1) : a[k] = v}

(* t counts each value, then the values up to it; each element goes to the *)
(* slot before its count, which goes down.  c is not initialised, and      *)
(* nothing keeps the slot inside it.                                       *)
CountingSort(a, n) ==
  LET upTo[v \in 0..(SLOTS - 1)] ==
        Cardinality(Places(a, n, v)) + (IF v = 0 THEN 0 ELSE upTo[v - 1])
      placed[i \in 0..n] ==
        IF i = 0 THEN [t |-> upTo, c |-> [k \in 0..(CSLOTS - 1) |-> -1], outside |-> FALSE]
        ELSE LET s == placed[i - 1]
                 v == a[i - 1]
                 slot == s.t[v] - 1
             IN [t       |-> [s.t EXCEPT ![v] = slot],
                 c       |-> [k \in 0..(CSLOTS - 1) |-> IF k = slot THEN v ELSE s.c[k]],
                 outside |-> s.outside \/ slot \notin 0..(CSLOTS - 1)]
  IN placed[n]

(* c is copied back. *)
CopiedBack(c, n) == [k \in 0..(n - 1) |-> c[k]]

(* In a pass the neighbours up to last are exchanged where out of order.   *)
Swept(a, last) ==
  LET loop[j \in 0..last] ==
        IF j = 0 THEN a
        ELSE LET b == loop[j - 1] IN IF b[j - 1] > b[j] THEN Exchanged(b, j - 1, j) ELSE b
  IN loop[last]

BubbleSort(a, n) ==
  LET pass[i \in 0..(n - 1)] == IF i = 0 THEN a ELSE Swept(pass[i - 1], n - i)
  IN pass[n - 1]

(* The first of the smallest elements from i on. *)
MinIndex(a, i, size) ==
  LET loop[j \in i..(size - 1)] ==
        IF j = i THEN i ELSE IF a[loop[j - 1]] > a[j] THEN j ELSE loop[j - 1]
  IN loop[size - 1]

SelectionSort(a, size) ==
  LET step[i \in 0..size] ==
        IF i = 0 THEN a
        ELSE LET b == step[i - 1] IN Exchanged(b, i - 1, MinIndex(b, i - 1, size))
  IN step[size]

Sort(x) ==
  CASE x.program = "mergeSort"     -> MergeSort(x.a, x.n)
    [] x.program = "countingSort"  -> CopiedBack(CountingSort(x.a, x.n).c, x.n)
    [] x.program = "bubble"        -> BubbleSort(x.a, x.n)
    [] x.program = "selectionSort" -> SelectionSort(x.a, x.n)

-----------------------------------------------------------------------------
SortInit == input \in Inputs /\ output = << >> /\ overrun = FALSE

Overruns(x) == x.program = "countingSort" /\ CountingSort(x.a, x.n).outside

RunSort ==
  /\ output = << >> /\ ~overrun
  /\ \/ Overruns(input) /\ overrun' = TRUE /\ UNCHANGED output
     \/ ~Overruns(input) /\ output' = Sort(input) /\ UNCHANGED overrun
  /\ UNCHANGED input

sortVars == <<input, output, overrun>>

SortSpec == SortInit /\ [][RunSort]_sortVars

-----------------------------------------------------------------------------
(* Properties. *)

(* countingSort writes outside c for every array that is longer than c and *)
(* for no other.  Else all four sorts put every array in ascending order   *)
(* and keep its elements, however many are equal: the halves that merge is *)
(* given, and the slots that countingSort counts out, cover the array      *)
(* exactly once.                                                           *)
SortsAgree ==
  LET long == input.program = "countingSort" /\ input.n > CSLOTS
  IN /\ overrun => long
     /\ output # << >> =>
          /\ ~long
          /\ DOMAIN output = DOMAIN input.a
          /\ \A k, l \in DOMAIN output : k < l => output[k] <= output[l]
          /\ \A v \in {input.a[k] : k \in DOMAIN input.a} :
               Cardinality(Places(output, input.n, v)) = Cardinality(Places(input.a, input.n, v))
=============================================================================

-------------------------------- MODULE GapSort --------------------------------
(***************************************************************************)
(* shellSort of sort/shellsort.c, and insertionSort of                     *)
(* sort/insertionSort.c, which is its last pass on its own: the two differ *)
(* in the first gap.  (insertionSort counts j from the left neighbour of   *)
(* the hole; here, as in shellSort, j is the hole.)                        *)
(***************************************************************************)
EXTENDS Integers

CONSTANTS
  N,        (* elements of the array, 10 in both programs     *)
  Values,   (* what the elements may be                       *)
  FirstGaps (* N \div 2 for shellSort, 1 for insertionSort    *)

ASSUME SizeAssumption == N \in Nat
ASSUME ValuesAssumption == Values \subseteq Int
ASSUME GapAssumption == FirstGaps \subseteq 0..N /\ (0 \in FirstGaps => N <= 1)

Index == 0..(N - 1)

VARIABLES
  pc,      (* next: a pass, an element, a shift, or none          *)
  arr,     (* the array                                           *)
  gap,     (* gap of the pass                                     *)
  i,       (* element that is inserted                            *)
  j,       (* the hole                                            *)
  temp,    (* the inserted element                                *)
  gaps,    (* history: gaps of the passes that have ended         *)
  arr0,    (* history: the array before                           *)
  origin   (* history: index in arr0 of every element, temp's one *)
           (* at the hole                                         *)

vars == <<pc, arr, gap, i, j, temp, gaps, arr0, origin>>

Init ==
  /\ pc = "pass"
  /\ arr \in [Index -> Values]
  /\ gap \in FirstGaps
  /\ gaps = {}
  /\ i = 0
  /\ j = 0
  /\ temp = 0
  /\ arr0 = arr
  /\ origin = [k \in Index |-> k]

(* Mutant: the loop over the gaps ends before the gap of one. *)
StopsAtTwo == gap > 1

MoreGaps == gap > 0

(* Mutant: the pass leaves out its first element. *)
AfterFirst == gap + 1

FirstOfPass == gap

StartPass ==
  /\ pc = "pass"
  /\ IF MoreGaps THEN i' = FirstOfPass /\ pc' = "element"
                 ELSE UNCHANGED i /\ pc' = "done"
  /\ UNCHANGED <<arr, gap, j, temp, gaps, arr0, origin>>

(* Mutant: half of the gap, rounded up. *)
RoundedUp == (gap + 1) \div 2

NextGap == gap \div 2

EndPass ==
  /\ pc = "element"
  /\ i >= N
  /\ gap' = NextGap
  /\ pc' = "pass"
  /\ gaps' = gaps \cup {gap}
  /\ UNCHANGED <<arr, i, j, temp, arr0, origin>>

TakeElement ==
  /\ pc = "element"
  /\ i < N
  /\ temp' = arr[i]
  /\ j' = i
  /\ pc' = "shift"
  /\ UNCHANGED <<arr, gap, i, gaps, arr0, origin>>

Shift ==
  /\ pc = "shift"
  /\ j >= gap /\ arr[j - gap] > temp
  /\ arr' = [arr EXCEPT ![j] = arr[j - gap]]
  /\ j' = j - gap
  /\ origin' = [origin EXCEPT ![j] = origin[j - gap], ![j - gap] = origin[j]]
  /\ UNCHANGED <<pc, gap, i, temp, gaps, arr0>>

(* Mutant: the element is read again after the shifts. *)
Reread == arr[i]

Saved == temp

NextElement == i + 1

Put ==
  /\ pc = "shift"
  /\ ~(j >= gap /\ arr[j - gap] > temp)
  /\ arr' = [arr EXCEPT ![j] = Saved]
  /\ i' = NextElement
  /\ pc' = "element"
  /\ UNCHANGED <<gap, j, temp, gaps, arr0, origin>>

Done == pc = "done" /\ UNCHANGED vars

Next == StartPass \/ EndPass \/ TakeElement \/ Shift \/ Put \/ Done

Spec == Init /\ [][Next]_vars
FairSpec == Spec /\ WF_vars(Next)

-------------------------------------------------------------------------------
(* The variables have their types; the indices stay inside the array.     *)
TypeOK ==
  /\ pc \in {"pass", "element", "shift", "done"}
  /\ arr \in [Index -> Int]
  /\ gap \in 0..N
  /\ i \in 0..N
  /\ j \in Nat
  /\ temp \in Int
  /\ gaps \subseteq 1..N
  /\ arr0 \in [Index -> Int]
  /\ origin \in [Index -> Index]
  /\ pc = "element" => gap > 0
  /\ pc = "shift" => gap > 0 /\ i < N /\ j <= i

(* Elements a distance g apart are in order. *)
SortedBy(g) == \A k \in Index : k + g < N => arr[k] <= arr[k + g]

(* "keep adding one more element until the entire array is gap sorted"    *)
(* (shellsort.c:42): a pass leaves the array sorted by its gap, and undoes *)
(* none of the passes before it.                                          *)
GapSorted == pc \in {"pass", "done"} => \A g \in gaps : SortedBy(g)

(* The array is sorted in the end. *)
Sorted == pc = "done" => \A k, l \in Index : k < l => arr[k] <= arr[l]

(* With the saved element in the hole, the array is a rearrangement of    *)
(* what it was: no shift loses or doubles an element.                     *)
Rearranged ==
  /\ \A k \in Index :
       (IF pc = "shift" /\ k = j THEN temp ELSE arr[k]) = arr0[origin[k]]
  /\ \A k, l \in Index : k # l => origin[k] # origin[l]

(* The sort ends. *)
Ends == <>(pc = "done")
===============================================================================

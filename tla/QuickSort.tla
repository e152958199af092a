------------------------------- MODULE QuickSort -------------------------------
(***************************************************************************)
(* quicksort of sort/quicksort.c with its stack of calls.  The call on the *)
(* left part keeps the pivot: quicksort(a, lpos, j).                       *)
(***************************************************************************)
EXTENDS Integers, Sequences

CONSTANTS
  N,       (* elements of the array, 10 in the program              *)
  Values,  (* what the elements may be                              *)
  STACK    (* bound on nested calls: the stack of the process       *)

ASSUME SizeAssumption == N \in Nat \ {0}
ASSUME ValuesAssumption == Values \subseteq Int
ASSUME StackAssumption == STACK \in Nat /\ STACK >= 2 * N

Index == 0..(N - 1)

VARIABLES
  pc,      (* call, outer, up, down, return, done or killed         *)
  arr,     (* the array                                             *)
  calls,   (* the calls, the running one last                       *)
  pivot,   (* locals of partition                                   *)
  i,
  j,
  arr0,    (* history: the array before                             *)
  origin   (* history: index in arr0 of every element               *)

vars == <<pc, arr, calls, pivot, i, j, arr0, origin>>

(* A call knows where it waits: for the left part, or for the right one.  *)
NewCall(lpos, rpos) == [lpos |-> lpos, rpos |-> rpos, j |-> lpos, at |-> "left"]

(* What it knows once partition has returned k, and once the left part is *)
(* sorted.                                                                *)
Partitioned(call, k) == [call EXCEPT !.j = k]
OnTheRight(call)     == [call EXCEPT !.at = "right"]

Top  == calls[Len(calls)]
Rest == SubSeq(calls, 1, Len(calls) - 1)

Init ==
  /\ pc = "call"
  /\ arr \in [Index -> Values]
  /\ calls = << NewCall(0, N - 1) >>
  /\ pivot = 0
  /\ i = 0
  /\ j = 0
  /\ arr0 = arr
  /\ origin = [k \in Index |-> k]

(* One more call, if the stack has room for it. *)
Push(stack, call) ==
  IF Len(stack) < STACK THEN pc' = "call" /\ calls' = Append(stack, call)
                        ELSE pc' = "killed" /\ calls' = stack

(* Mutant: the temporary of the macro is missing. *)
Copied(f, k, l) == [f EXCEPT ![k] = f[l]]

swap(f, k, l) == [f EXCEPT ![k] = f[l], ![l] = f[k]]

Exchange(k, l) ==
  /\ arr' = swap(arr, k, l)
  /\ origin' = [origin EXCEPT ![k] = origin[l], ![l] = origin[k]]

(* The running call enters partition, or has nothing to sort. *)
Enter ==
  /\ pc = "call"
  /\ IF Top.lpos < Top.rpos
       THEN /\ pivot' = arr[Top.lpos]
            /\ i' = Top.lpos
            /\ j' = Top.rpos + 1
            /\ pc' = "outer"
       ELSE pc' = "return" /\ UNCHANGED <<pivot, i, j>>
  /\ UNCHANGED <<arr, calls, arr0, origin>>

(* Mutant: the index is not advanced. *)
StaysUp == i

NextUp == i + 1

StartScan ==
  /\ pc = "outer"
  /\ i < j
  /\ i' = NextUp
  /\ pc' = "up"
  /\ UNCHANGED <<arr, calls, pivot, j, arr0, origin>>

(* a[k], or what follows the array in memory. *)
Memory(k) == IF k \in Index THEN {arr[k]} ELSE Values

GoesUp(x) == x <= pivot /\ i <= Top.rpos

NextDown == j - 1

(* a[i] is compared, even one past the range. *)
ScanUp ==
  /\ pc = "up"
  /\ \E x \in Memory(i) :
       IF GoesUp(x) THEN i' = NextUp /\ UNCHANGED <<pc, j>>
                    ELSE j' = NextDown /\ pc' = "down" /\ UNCHANGED i
  /\ UNCHANGED <<arr, calls, pivot, arr0, origin>>

(* Mutant: an element equal to the pivot does not stop the scan. *)
GoesDownOnEqual == j >= 0 /\ arr[j] >= pivot

GoesDown == arr[j] > pivot

ScanDown ==
  /\ pc = "down"
  /\ IF GoesDown
       THEN j' = NextDown /\ UNCHANGED <<pc, arr, origin>>
       ELSE /\ pc' = "outer"
            /\ IF i < j THEN Exchange(i, j) ELSE UNCHANGED <<arr, origin>>
            /\ UNCHANGED j
  /\ UNCHANGED <<calls, pivot, i, arr0>>

(* Mutant: the call on the left part leaves out the pivot. *)
BeforePivot == j - 1

LeftEnd == j

(* The pivot goes between the parts; partition returns j, and quicksort   *)
(* calls itself on the left part.                                         *)
Split ==
  /\ pc = "outer"
  /\ i >= j
  /\ Exchange(Top.lpos, j)
  /\ Push([calls EXCEPT ![Len(calls)] = Partitioned(@, j)], NewCall(Top.lpos, LeftEnd))
  /\ UNCHANGED <<pivot, i, j, arr0>>

(* Mutant: the call on the right part leaves out one element. *)
TwoAfter(call) == call.j + 2

RightStart(call) == call.j + 1

(* A call ends: the one below goes on to its right part, or ends as well. *)
Return ==
  /\ pc = "return"
  /\ IF Rest = << >>
       THEN calls' = Rest /\ pc' = "done"
       ELSE LET caller == Rest[Len(Rest)] IN
            IF caller.at = "left"
              THEN Push([Rest EXCEPT ![Len(Rest)] = OnTheRight(@)],
                        NewCall(RightStart(caller), caller.rpos))
              ELSE calls' = Rest /\ UNCHANGED pc
  /\ UNCHANGED <<arr, pivot, i, j, arr0, origin>>

Stopped == pc \in {"done", "killed"} /\ UNCHANGED vars

Next == Enter \/ StartScan \/ ScanUp \/ ScanDown \/ Split \/ Return \/ Stopped

Spec == Init /\ [][Next]_vars
FairSpec == Spec /\ WF_vars(Next)

-------------------------------------------------------------------------------
Call == [lpos : 0..N, rpos : -1..(N - 1), j : 0..N, at : {"left", "right"}]

(* The variables have their types, and no more calls than the stack holds. *)
TypeOK ==
  /\ pc \in {"call", "outer", "up", "down", "return", "done", "killed"}
  /\ arr \in [Index -> Int]
  /\ calls \in Seq(Call)
  /\ Len(calls) <= STACK
  /\ calls = << >> <=> pc = "done"
  /\ pivot \in Int
  /\ i \in 0..N
  /\ j \in -1..N
  /\ arr0 \in [Index -> Int]
  /\ origin \in [Index -> Index]

(* "not required because atleast the pivot should bail this out"          *)
(* (quicksort.c:32): the scan downwards stays in the range without a test *)
(* of j, and the scan upwards reads at most one element past it.          *)
ScansInRange ==
  /\ pc = "up" => Top.lpos < i /\ i <= Top.rpos + 1
  /\ pc = "down" => Top.lpos <= j /\ j <= Top.rpos

(* The ranges whose elements are still to be sorted. *)
Pending ==
  (IF pc \in {"return", "done"} THEN {} ELSE {<<Top.lpos, Top.rpos>>})
    \cup {<<RightStart(calls[c]), calls[c].rpos>> :
            c \in {d \in 1..(Len(calls) - 1) : calls[d].at = "left"}}

(* Elements that are not in one range still to be sorted are in order:    *)
(* whatever the calls do to their ranges, the parts stay apart.  With no  *)
(* range left, when pc is done, the whole array is sorted.                *)
Separated ==
  pc # "killed"
    => \A k, l \in Index :
         k < l => arr[k] <= arr[l] \/ \E p \in Pending : p[1] <= k /\ l <= p[2]

(* Every state of the array is a rearrangement of what it was. *)
Rearranged ==
  /\ \A k \in Index : arr[k] = arr0[origin[k]]
  /\ \A k, l \in Index : k # l => origin[k] # origin[l]

Distinct == \A k, l \in Index : k # l => arr0[k] # arr0[l]

(* The calls fit the stack exactly if the elements are distinct: two equal *)
(* elements meet as first and last of a part that is called again as it is.*)
FitsDistinct ==
  /\ pc = "killed" => ~Distinct
  /\ pc = "done" => Distinct

(* The program ends, by itself or for want of stack. *)
Ends == <>(pc \in {"done", "killed"})
===============================================================================

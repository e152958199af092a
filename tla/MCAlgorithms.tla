---------------------------- MODULE MCAlgorithms ----------------------------
(***************************************************************************)
(* The programs of Sorts, Bits and Tree side by side: one of them runs on  *)
(* each of its small inputs, the others on the first of theirs.            *)
(***************************************************************************)
EXTENDS Sorts, Bits, Tree, TLC

(* All arrays of up to six elements of four values; c has five slots. *)
Programs == {"mergeSort", "countingSort", "bubble", "selectionSort"}

MCInputs ==
  UNION {[program : {p}, n : {n}, a : [0..(n - 1) -> 0..3]] : n \in 1..6, p \in Programs}

(* The trees of the places lo..hi, as their nodes in preorder. *)
RECURSIVE Trees(_, _)
Trees(lo, hi) ==
  IF lo > hi THEN {<< >>}
  ELSE UNION {{<<[at |-> k, first |-> lo, last |-> hi]>> \o l \o r :
               l \in Trees(lo, k - 1), r \in Trees(k + 1, hi)} : k \in lo..hi}

Data(k) == k + 10

(* All trees of up to six nodes. *)
TreeInput(t) ==
  LET node == 0..(Len(t) - 1)
  IN [n     |-> Len(t),
      in    |-> [k \in node |-> Data(k)],
      pre   |-> [v \in node |-> Data(t[v + 1].at)],
      at    |-> [v \in node |-> t[v + 1].at],
      first |-> [v \in node |-> t[v + 1].first],
      last  |-> [v \in node |-> t[v + 1].last]]

MCTreeInputs == UNION {{TreeInput(t) : t \in Trees(0, n - 1)} : n \in 1..6}

OtherSort ==
  /\ input = [program |-> "bubble", n |-> 1, a |-> (0 :> 0)]
  /\ output = << >> /\ overrun = FALSE
OtherBits == args = [x |-> Zero, y |-> Zero, p |-> 0, n |-> 0] /\ results = << >>
OtherTree == TreeInit /\ traversals.n = 1

Init ==
  \/ OtherBits /\ OtherTree /\ SortInit
  \/ OtherSort /\ OtherTree /\ BitsInit
  \/ OtherSort /\ OtherBits /\ TreeInit

(* Every program has ended. *)
Ended ==
  /\ output # << >> \/ overrun
  /\ results # << >> /\ phase \in {"done", "killed"}
  /\ UNCHANGED <<sortVars, args, results, treeVars>>

Next ==
  \/ RunSort /\ UNCHANGED <<args, results, treeVars>>
  \/ RunBits /\ UNCHANGED <<sortVars, treeVars>>
  \/ TreeNext /\ UNCHANGED <<sortVars, args, results>>
  \/ Ended

Spec == Init /\ [][Next]_<<sortVars, args, results, treeVars>>
=============================================================================

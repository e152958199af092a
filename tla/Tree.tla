-------------------------------- MODULE Tree --------------------------------
(***************************************************************************)
(* tree/tree_in_post.c: the tree that buildtree makes of an inorder and a  *)
(* preorder traversal, call by call, and printInorder.  A node is its      *)
(* index in the preorder, which is when it is allocated.                   *)
(***************************************************************************)
EXTENDS Integers, Sequences, FiniteSets

CONSTANT TreeInputs
  (* [n, in, pre, at, first, last]: the traversals of a tree of n nodes.   *)
  (* Node v stands at place at[v] of in, its subtree from first[v] to      *)
  (* last[v]; the program is given in, pre and n.                          *)

Node(x) == 0..(x.n - 1)

HasLeft(x, v)  == x.first[v] < x.at[v]
HasRight(x, v) == x.at[v] < x.last[v]
IsLeaf(x, v)   == ~HasLeft(x, v) /\ ~HasRight(x, v)

(* In preorder the left subtree comes behind its node, and the right one   *)
(* behind the left one.                                                    *)
LeftNode(v)     == v + 1
RightNode(x, v) == v + 1 + x.at[v] - x.first[v]

Spans(x, v, lo, hi) == v \in Node(x) /\ x.first[v] = lo /\ x.last[v] = hi

IsTree(x) ==
  /\ Spans(x, 0, 0, x.n - 1)
  /\ \A v \in Node(x) :
       /\ x.first[v] <= x.at[v] /\ x.at[v] <= x.last[v]
       /\ x.pre[v] = x.in[x.at[v]]
       /\ HasLeft(x, v)  => Spans(x, LeftNode(v), x.first[v], x.at[v] - 1)
       /\ HasRight(x, v) => Spans(x, RightNode(x, v), x.at[v] + 1, x.last[v])

(* No data occurs twice, or searchindex could find another node's.         *)
ASSUME TreesAssumption ==
  \A x \in TreeInputs :
    /\ x.n \in Nat \ {0}
    /\ x.in \in [Node(x) -> Int] /\ x.pre \in [Node(x) -> Int]
    /\ \A v, w \in Node(x) : v # w => x.in[v] # x.in[w] /\ x.pre[v] # x.pre[w]
    /\ {x.at, x.first, x.last} \subseteq [Node(x) -> Node(x)]
    /\ IsTree(x)

VARIABLES
  traversals,  (* the input                                                *)
  phase,       (* call or return of buildtree, print, done or killed       *)
  call,        (* range of the running call of buildtree                   *)
  calls,       (* its callers, the latest last: node, nodeindex, end, and  *)
               (* the child that is being built                            *)
  preindex,
  value,       (* what buildtree returns; the argument of printInorder     *)
  heap,        (* data, left and right of each node                        *)
  lost,        (* history: nodes that got no memory                        *)
  tree,        (* of main                                                  *)
  walk,        (* callers of printInorder that still print their node      *)
  text         (* what is printed                                          *)

treeVars == <<traversals, phase, call, calls, preindex, value, heap, lost, tree, walk, text>>

NULL == -1

Top == calls[Len(calls)]
Callers == SubSeq(calls, 1, Len(calls) - 1)

-----------------------------------------------------------------------------
TreeInit ==
  /\ traversals \in TreeInputs
  /\ phase = "call"
  /\ call = [start |-> 0, end |-> traversals.n - 1]
  /\ calls = << >>
  /\ preindex = 0
  /\ value = NULL
  /\ heap = [v \in Node(traversals) |-> [data |-> 0, left |-> NULL, right |-> NULL]]
  /\ lost = {}
  /\ tree = NULL
  /\ walk = << >>
  /\ text = << >>

(* Mutant: preindex goes on only if there is memory. *)
CreateCounted(n) ==
  \/ /\ n = preindex
     /\ preindex' = preindex + 1
     /\ heap' = [heap EXCEPT ![n] =
                   [data |-> traversals.pre[n], left |-> NULL, right |-> NULL]]
     /\ UNCHANGED lost
  \/ n = NULL /\ lost' = lost \cup {preindex} /\ UNCHANGED <<preindex, heap>>

(* malloc may fail; preindex has gone on. *)
create_node(n) ==
  /\ preindex' = preindex + 1
  /\ \/ /\ n = preindex
        /\ heap' = [heap EXCEPT ![n] =
                      [data |-> traversals.pre[n], left |-> NULL, right |-> NULL]]
        /\ UNCHANGED lost
     \/ n = NULL /\ lost' = lost \cup {preindex} /\ UNCHANGED heap

searchindex(data, end) ==
  CHOOSE i \in 0..end : traversals.in[i] = data /\ \A j \in 0..(i - 1) : traversals.in[j] # data

EmptyRange ==
  /\ phase = "call"
  /\ call.start > call.end
  /\ value' = NULL
  /\ phase' = "return"
  /\ UNCHANGED <<traversals, call, calls, preindex, heap, lost, tree, walk, text>>

CreateLeaf ==
  /\ phase = "call"
  /\ call.start = call.end
  /\ \E n \in {preindex, NULL} : create_node(n) /\ value' = n
  /\ phase' = "return"
  /\ UNCHANGED <<traversals, call, calls, tree, walk, text>>

(* The call goes on to its left subtree; without memory n->data kills it.  *)
CreateInner ==
  /\ phase = "call"
  /\ call.start < call.end
  /\ \E n \in {preindex, NULL} :
       /\ create_node(n)
       /\ IF n = NULL THEN phase' = "killed" /\ UNCHANGED <<call, calls>>
          ELSE LET nodeindex == searchindex(traversals.pre[n], call.end)
               IN /\ calls' = Append(calls, [n |-> n, nodeindex |-> nodeindex,
                                             end |-> call.end, child |-> "left"])
                  /\ call' = [start |-> call.start, end |-> nodeindex - 1]
                  /\ UNCHANGED phase
  /\ UNCHANGED <<traversals, value, tree, walk, text>>

ReturnLeft ==
  /\ phase = "return"
  /\ calls # << >> /\ Top.child = "left"
  /\ heap' = [heap EXCEPT ![Top.n].left = value]
  /\ calls' = [calls EXCEPT ![Len(calls)].child = "right"]
  /\ call' = [start |-> Top.nodeindex + 1, end |-> Top.end]
  /\ phase' = "call"
  /\ UNCHANGED <<traversals, preindex, value, lost, tree, walk, text>>

ReturnRight ==
  /\ phase = "return"
  /\ calls # << >> /\ Top.child = "right"
  /\ heap' = [heap EXCEPT ![Top.n].right = value]
  /\ value' = Top.n
  /\ calls' = Callers
  /\ UNCHANGED <<traversals, phase, call, preindex, lost, tree, walk, text>>

TreeBuilt ==
  /\ phase = "return"
  /\ calls = << >>
  /\ tree' = value
  /\ phase' = "print"
  /\ UNCHANGED <<traversals, call, calls, preindex, value, heap, lost, walk, text>>

PrintLeft ==
  /\ phase = "print"
  /\ value # NULL
  /\ walk' = Append(walk, value)
  /\ value' = heap[value].left
  /\ UNCHANGED <<traversals, phase, call, calls, preindex, heap, lost, tree, text>>

(* The call for the left subtree has returned.  Nothing follows the one    *)
(* for the right subtree: its caller need not be kept.                     *)
PrintNode ==
  /\ phase = "print"
  /\ value = NULL
  /\ walk # << >>
  /\ LET n == walk[Len(walk)]
     IN text' = Append(text, heap[n].data) /\ value' = heap[n].right
  /\ walk' = SubSeq(walk, 1, Len(walk) - 1)
  /\ UNCHANGED <<traversals, phase, call, calls, preindex, heap, lost, tree>>

TreePrinted ==
  /\ phase = "print"
  /\ value = NULL
  /\ walk = << >>
  /\ phase' = "done"
  /\ UNCHANGED <<traversals, call, calls, preindex, value, heap, lost, tree, walk, text>>

TreeNext ==
  \/ EmptyRange \/ CreateLeaf \/ CreateInner \/ ReturnLeft \/ ReturnRight
  \/ TreeBuilt \/ PrintLeft \/ PrintNode \/ TreePrinted

TreeSpec == TreeInit /\ [][TreeNext]_treeVars

-----------------------------------------------------------------------------
(* The tree as it should be: where a leaf got no memory there is none.     *)
Kept(v) == IF v \in lost THEN NULL ELSE v

LeftKept(v)  == IF HasLeft(traversals, v) THEN Kept(LeftNode(v)) ELSE NULL
RightKept(v) == IF HasRight(traversals, v) THEN Kept(RightNode(traversals, v)) ELSE NULL

(* The places below m of the nodes there are, and that s is what in has    *)
(* there, in that order.                                                   *)
KeptBelow(m) == {k \in 0..(m - 1) : \A v \in lost : traversals.at[v] # k}

Shows(s, K) ==
  /\ Len(s) = Cardinality(K)
  /\ \A k \in K : s[Cardinality({l \in K : l <= k})] = traversals.in[k]

(* The tree is the one the traversals were taken from, all of pre is used  *)
(* up (preindex is static: a second tree would start behind its end), and  *)
(* what is printed is in.  Nodes without memory are missing from both      *)
(* without a word if they are leaves, and kill the program if not.         *)
TreeRebuilt ==
  /\ phase \in {"print", "done"} =>
       /\ preindex = traversals.n
       /\ tree = Kept(0)
       /\ \A v \in lost : IsLeaf(traversals, v)
       /\ \A v \in Node(traversals) \ lost :
            heap[v] = [data |-> traversals.pre[v], left |-> LeftKept(v), right |-> RightKept(v)]
  /\ phase = "done" => Shows(text, KeptBelow(traversals.n))
  /\ phase = "killed" => \E v \in lost : ~IsLeaf(traversals, v)
=============================================================================

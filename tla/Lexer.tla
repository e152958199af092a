------------------------------- MODULE Lexer -------------------------------
(***************************************************************************)
(* What lex_yacc/verb.l promises, without a buffer: the input is cut into  *)
(* tokens from the left, each the longest text one of the rules matches,   *)
(* by the first rule that matches that much.  Characters are their codes.  *)
(***************************************************************************)
EXTENDS Integers, Sequences

VARIABLES
  input,   (* the text                                      *)
  pos,     (* characters in the tokens so far               *)
  out,     (* what was printed: a kind and a text per line  *)
  status   (* "running", "done", or "failed"                *)

vars == <<input, pos, out, status>>

Letter(c) == c \in 65..90 \cup 97..122

(* is, am, are, was, were *)
Verbs == {<<105, 115>>, <<97, 109>>, <<97, 114, 101>>, <<119, 97, 115>>, <<119, 101, 114, 101>>}

(* The rules that match the text t; the last one is the default rule of    *)
(* lex.                                                                    *)
MatchingRules(t) ==
  {r \in {"blank", "verb", "word", "end", "echo"} :
     CASE r = "blank" -> \A k \in DOMAIN t : t[k] = 9
       [] r = "verb"  -> t \in Verbs
       [] r = "word"  -> \A k \in DOMAIN t : Letter(t[k])
       [] r = "end"   -> t \in {<<45>>, <<10>>}
       [] r = "echo"  -> Len(t) = 1}

(* The rules in the order of verb.l. *)
RuleOrder == <<"blank", "verb", "word", "end", "echo">>

First(rules) ==
  CHOOSE r \in rules :
    \E k \in DOMAIN RuleOrder :
      /\ RuleOrder[k] = r
      /\ \A j \in 1..(k - 1) : RuleOrder[j] \notin rules

(* The text of n characters from the position reached. *)
Text(n) == SubSeq(input, pos + 1, pos + n)

Longest(n) ==
  /\ MatchingRules(Text(n)) # {}
  /\ \A m \in (n + 1)..(Len(input) - pos) : MatchingRules(Text(m)) = {}

(* Tabs, line ends and dashes print nothing. *)
Printed(rule, t) ==
  IF rule \in {"blank", "end"} THEN << >> ELSE <<[kind |-> rule, text |-> t]>>

Init ==
  /\ pos = 0
  /\ out = << >>
  /\ status = "running"

Token ==
  /\ status = "running"
  /\ UNCHANGED <<input, status>>
  /\ \E n \in 1..(Len(input) - pos) :
       /\ pos' = pos + n
       /\ Longest(n)
       /\ out' = out \o Printed(First(MatchingRules(Text(n))), Text(n))

EndOfInput ==
  /\ status = "running"
  /\ pos = Len(input)
  /\ status' = "done"
  /\ UNCHANGED <<input, pos, out>>

(* The input or the memory may fail. *)
Fail ==
  /\ status = "running"
  /\ status' = "failed"
  /\ UNCHANGED <<input, pos, out>>

Next == Fail \/ EndOfInput \/ Token

Spec == Init /\ [][Next]_vars /\ WF_vars(Next)
=============================================================================

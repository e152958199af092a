----------------------------- MODULE MCScanner -----------------------------
(* All short texts over one character of most classes, NUL among them, and *)
(* pairs of longer words: the verbs, what begins like them and what goes   *)
(* on behind them.                                                         *)
EXTENDS Scanner

a == 97  e == 101  i == 105  m == 109  r == 114  s == 115  w == 119  y == 121

ShortTexts == UNION {[1..n -> {NUL, 9, NEWLINE, 33, a, m}] : n \in 0..4}

Words == {<<i, s>>, <<a, m>>, <<a, r, e>>, <<w, a, s>>, <<w, e, r, e>>, <<w, e, r>>,
          <<a, r>>, <<w, a, r, e, s>>, <<y>>, <<y, a, m>>}

Between == {<< >>, <<45>>, <<9, 9>>, <<NUL>>, <<NEWLINE>>}

MCInputs ==
  ShortTexts \cup {u \o x \o v : u \in Words, x \in Between, v \in Words}
=============================================================================

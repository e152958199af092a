------------------------------ MODULE Scanner ------------------------------
(***************************************************************************)
(* The scanner of lex_yacc/lex.yy.c: the tables, the buffer that yylex     *)
(* scans and yy_get_next_buffer refills, and what stdio gives it.          *)
(*                                                                         *)
(* A pointer into yy_ch_buf is its offset.  yylex is sequential; a step is *)
(* one character of the matching loop, one case of the action switch, or a *)
(* part of yy_get_next_buffer.  The buffer stack has one buffer, which is  *)
(* always ours to grow and always filled.                                  *)
(***************************************************************************)
EXTENDS Integers, Sequences

CONSTANTS
  Inputs,            (* texts, sequences of characters 0..255           *)
  YY_BUF_SIZE,       (* characters of the first buffer                  *)
  YY_READ_BUF_SIZE,  (* most characters asked for at once               *)
  Faults             (* what may fail: "malloc", "EINTR", "EIO"         *)

ASSUME InputsAssumption == \A t \in Inputs : t \in Seq(0..255)
ASSUME SizesAssumption == YY_BUF_SIZE \in Nat \ {0} /\ YY_READ_BUF_SIZE \in Nat \ {0}
ASSUME FaultsAssumption == Faults \subseteq {"malloc", "EINTR", "EIO"}

VARIABLES
  pc,
  input,           (* the text behind yyin                                *)
  interactive,     (* yyin is a terminal                                  *)
  taken,           (* characters read from yyin                           *)
  ferror,          (* the error flag of yyin                              *)
  yy_ch_buf,
  b,               (* the other fields of the buffer                      *)
  yy_n_chars, yy_c_buf_p, yytext_ptr, yy_hold_char,
  yy_cp, yy_bp, yy_act,
  dfa,             (* yy_current_state, yy_last_accepting_state and _cpos *)
  after,           (* where yylex goes on after yy_get_previous_state     *)
  scanned,         (* history: characters in the tokens so far            *)
  out              (* what was printed                                    *)

source  == <<input, interactive>>
stream  == <<taken, ferror>>
buffer  == <<yy_ch_buf, b, yy_n_chars>>
token   == <<yy_c_buf_p, yytext_ptr, yy_hold_char>>
locals  == <<yy_cp, yy_bp, yy_act, dfa, after>>
printed == <<scanned, out>>
vars    == <<pc, source, stream, buffer, token, locals, printed>>

-----------------------------------------------------------------------------
(* The tables, indexed from zero. *)

FromZero(s) == [i \in 0..(Len(s) - 1) |-> s[i + 1]]

NUL == 0
NEWLINE == 10
JAM == 22
YY_END_OF_BUFFER == 10

yy_accept == FromZero(<<0, 0, 0, 10, 9, 1, 8, 7, 7, 7, 7, 1, 7, 3, 7, 2, 7, 7, 4, 5, 7, 6, 0>>)

(* Characters that the rules do not tell apart have one class: NUL, tab,   *)
(* newline, dash, the letters of the verbs, other letters, the rest.       *)
yy_ec ==
  [c \in 0..255 |->
     CASE c = NUL -> 0      [] c = 9 -> 2        [] c = NEWLINE -> 3   [] c = 45 -> 4
       [] c = 97 -> 6       [] c = 101 -> 7      [] c = 105 -> 8       [] c = 109 -> 9
       [] c = 114 -> 10     [] c = 115 -> 11     [] c = 119 -> 12
       [] c \in (65..90 \cup 97..122) \ {97, 101, 105, 109, 114, 115, 119} -> 5
       [] OTHER -> 1]

yy_meta == FromZero(<<0, 1, 1, 1, 1, 2, 2, 2, 2, 2, 2, 2, 2>>)
yy_base == FromZero(<<0, 0, 0, 25, 26, 22, 26, 0, 4, 12, 9, 20, 0, 0, 14, 0, 9, 9, 0, 0, 11, 0,
                      26, 15>>)
yy_def  == FromZero(<<0, 22, 1, 22, 22, 22, 22, 23, 23, 23, 23, 22, 23, 23, 23, 23, 23, 23, 23,
                      23, 23, 23, 0, 22>>)
yy_nxt  == FromZero(<<0, 4, 5, 6, 6, 7, 8, 7, 9, 7, 7, 7, 10, 13, 14, 16, 17, 12, 21, 20, 19, 18,
                      11, 15, 11, 22, 3, 22, 22, 22, 22, 22, 22, 22, 22, 22, 22, 22, 22>>)
yy_chk  == FromZero(<<0, 1, 1, 1, 1, 1, 1, 1, 1, 1, 1, 1, 1, 8, 8, 10, 10, 23, 20, 17, 16, 14, 11,
                      9, 5, 3, 22, 22, 22, 22, 22, 22, 22, 22, 22, 22, 22, 22, 22>>)

HasEntry(s, c) == yy_chk[yy_base[s] + c] = s
ClassFor(s, c) == IF s >= 23 THEN yy_meta[c] ELSE c

(* The next state: from the entry of s for the class c, or of its default, *)
(* or of the default of that, which has one for every class.               *)
Transition(s, c) ==
  LET d1 == yy_def[s]   c1 == ClassFor(d1, c)
      d2 == yy_def[d1]  c2 == ClassFor(d2, c1)
  IN IF HasEntry(s, c) THEN yy_nxt[yy_base[s] + c]
     ELSE IF HasEntry(d1, c1) THEN yy_nxt[yy_base[d1] + c1]
     ELSE yy_nxt[yy_base[d2] + c2]

(* One character of class c at p: an accepting state is remembered first.  *)
Advance(d, p, c) ==
  [state |-> Transition(d.state, c),
   last  |-> IF yy_accept[d.state] # 0 THEN d.state ELSE d.last,
   cpos  |-> IF yy_accept[d.state] # 0 THEN p ELSE d.cpos]

Started == [dfa EXCEPT !.state = 1]

-----------------------------------------------------------------------------
Fresh(size) == [i \in 0..(size + 1) |-> IF i < 2 THEN NUL ELSE 119]

Goto(l) == pc' = l

Init ==
  /\ pc = "start"
  /\ input \in Inputs
  /\ interactive \in BOOLEAN
  /\ taken = 0
  /\ ferror = FALSE
  /\ yy_ch_buf = Fresh(0)
  /\ b = [size |-> 0, n_chars |-> 0, status |-> "NEW"]
  /\ yy_n_chars = 0
  /\ yy_c_buf_p = 0
  /\ yytext_ptr = 0
  /\ yy_hold_char = NUL
  /\ yy_cp = 0
  /\ yy_bp = 0
  /\ yy_act = 0
  /\ dfa = [state |-> 1, last |-> 0, cpos |-> 0]
  /\ after = "match"
  /\ scanned = 0
  /\ out = << >>

OutOfMemory ==
  /\ "malloc" \in Faults
  /\ Goto("out of memory")
  /\ UNCHANGED <<source, stream, buffer, token, locals, printed>>

(* The first call of yylex creates the buffer stack and the buffer. *)
Initialise ==
  /\ pc = "start"
  /\ \/ /\ yy_ch_buf' = Fresh(YY_BUF_SIZE)
        /\ b' = [b EXCEPT !.size = YY_BUF_SIZE]
        /\ Goto("scan")
        /\ UNCHANGED <<source, stream, yy_n_chars, token, locals, printed>>
     \/ OutOfMemory

-----------------------------------------------------------------------------
(* Matching. *)

(* The character that ended the last token is put back. *)
BeginToken ==
  /\ pc = "scan"
  /\ yy_cp' = yy_c_buf_p
  /\ yy_bp' = yy_c_buf_p
  /\ yy_ch_buf' = [yy_ch_buf EXCEPT ![yy_c_buf_p] = yy_hold_char]
  /\ dfa' = Started
  /\ Goto("match")
  /\ UNCHANGED <<source, stream, b, yy_n_chars, token, yy_act, after, printed>>

(* Mutant: the loop of a scanner that always looks one character ahead. *)
JamStops(s) == s = JAM

(* The loop stops in the states that no character leads out of. *)
Stops(s) == yy_base[s] = yy_base[JAM]

MatchChar ==
  /\ pc = "match"
  /\ dfa' = Advance(dfa, yy_cp, yy_ec[yy_ch_buf[yy_cp]])
  /\ yy_cp' = yy_cp + 1
  /\ Goto(IF Stops(dfa'.state) THEN "find" ELSE "match")
  /\ UNCHANGED <<source, stream, buffer, token, yy_bp, yy_act, after, printed>>

(* A state that accepts nothing backs up to the last one that did; then    *)
(* the text is cut off with a NUL.                                         *)
FindAction ==
  /\ pc = "find"
  /\ LET backUp == yy_accept[dfa.state] = 0
         p == IF backUp THEN dfa.cpos ELSE yy_cp
         s == IF backUp THEN dfa.last ELSE dfa.state
     IN /\ yy_act' = yy_accept[s]
        /\ dfa' = [dfa EXCEPT !.state = s]
        /\ yy_cp' = p
        /\ yy_c_buf_p' = p
        /\ yy_hold_char' = yy_ch_buf[p]
        /\ yy_ch_buf' = [yy_ch_buf EXCEPT ![p] = NUL]
  /\ yytext_ptr' = yy_bp
  /\ Goto("act")
  /\ UNCHANGED <<source, stream, b, yy_n_chars, yy_bp, after, printed>>

yytext == [i \in 1..(yy_cp - yytext_ptr) |-> yy_ch_buf[yytext_ptr + i - 1]]

Says(kind) == <<[kind |-> kind, text |-> yytext]>>

(* The rules: 1 and 8 print nothing, 2 to 6 are the verbs. *)
Rule ==
  /\ pc = "act"
  /\ yy_act \in 1..9
  /\ out' = out \o CASE yy_act \in {1, 8} -> << >>
                     [] yy_act \in 2..6   -> Says("verb")
                     [] yy_act = 7        -> Says("word")
                     [] yy_act = 9        -> Says("echo")
  /\ scanned' = scanned + Len(yytext)
  /\ Goto("scan")
  /\ UNCHANGED <<source, stream, buffer, token, locals>>

-----------------------------------------------------------------------------
(* The end-of-buffer state was reached: by a NUL of the text or by the end *)
(* of what was read. *)

Restored == [yy_ch_buf EXCEPT ![yy_cp] = yy_hold_char]

(* yy_n_chars is taken from the buffer when the buffer is new. *)
Chars == IF b.status = "NEW" THEN b.n_chars ELSE yy_n_chars
Adopted == [b EXCEPT !.status = IF @ = "NEW" THEN "NORMAL" ELSE @]

(* yy_get_previous_state: the states over the text of the token once more, *)
(* where a NUL has the class of other characters.                          *)
Previous(then) ==
  /\ yy_cp' = yytext_ptr'
  /\ dfa' = Started
  /\ after' = then
  /\ Goto("previous")

PreviousChar ==
  /\ pc = "previous"
  /\ \/ /\ yy_cp < yy_c_buf_p
        /\ LET c == yy_ch_buf[yy_cp]
           IN dfa' = Advance(dfa, yy_cp, IF c = NUL THEN 1 ELSE yy_ec[c])
        /\ yy_cp' = yy_cp + 1
        /\ UNCHANGED pc
     \/ /\ yy_cp = yy_c_buf_p
        /\ Goto(after)
        /\ UNCHANGED <<yy_cp, dfa>>
  /\ UNCHANGED <<source, stream, buffer, token, yy_bp, yy_act, after, printed>>

RealNul ==
  /\ pc = "act"
  /\ yy_act = YY_END_OF_BUFFER
  /\ yy_c_buf_p <= Chars
  /\ yy_ch_buf' = Restored
  /\ b' = Adopted
  /\ yy_n_chars' = Chars
  /\ yy_c_buf_p' = yy_cp - 1
  /\ yy_bp' = yytext_ptr
  /\ UNCHANGED <<source, stream, yytext_ptr, yy_hold_char, yy_act, printed>>
  /\ Previous("nul")

(* yy_try_NUL_trans: go on behind the NUL, or end the token before it. *)
TryNul ==
  /\ pc = "nul"
  /\ LET next == Advance(dfa, yy_c_buf_p, 1)
     IN \/ /\ next.state # JAM
           /\ dfa' = next
           /\ yy_c_buf_p' = yy_c_buf_p + 1
           /\ yy_cp' = yy_c_buf_p + 1
           /\ Goto("match")
        \/ /\ next.state = JAM
           /\ dfa' = [next EXCEPT !.state = dfa.state]
           /\ Goto("find")
           /\ UNCHANGED <<yy_c_buf_p, yy_cp>>
  /\ UNCHANGED <<source, stream, buffer, yytext_ptr, yy_hold_char, yy_bp, yy_act, after, printed>>

EndOfBuffer ==
  /\ pc = "act"
  /\ yy_act = YY_END_OF_BUFFER
  /\ yy_c_buf_p > Chars
  /\ yy_ch_buf' = Restored
  /\ b' = Adopted
  /\ yy_n_chars' = Chars
  /\ Goto("move")
  /\ UNCHANGED <<source, stream, token, locals, printed>>

-----------------------------------------------------------------------------
(* yy_get_next_buffer.  Nothing is read once the end of the input is       *)
(* pending.                                                                *)

number_to_move == yy_c_buf_p - yytext_ptr - 1

(* Mutant: the text stays where it is. *)
Unmoved == yy_ch_buf

Moved ==
  [i \in DOMAIN yy_ch_buf |-> yy_ch_buf[IF i < number_to_move THEN yytext_ptr + i ELSE i]]

MoveText ==
  /\ pc = "move"
  /\ yy_ch_buf' = Moved
  /\ \/ /\ b.status = "EOF_PENDING"
        /\ yy_n_chars' = 0
        /\ b' = [b EXCEPT !.n_chars = 0]
        /\ Goto("loaded")
     \/ /\ b.status # "EOF_PENDING"
        /\ Goto("room")
        /\ UNCHANGED <<b, yy_n_chars>>
  /\ UNCHANGED <<source, stream, token, locals, printed>>

num_to_read == b.size - number_to_move - 1

Grow ==
  /\ pc = "room"
  /\ num_to_read <= 0
  /\ \/ /\ b' = [b EXCEPT !.size = 2 * @]
        /\ yy_ch_buf' = [i \in 0..(2 * b.size + 1) |->
                           IF i \in DOMAIN yy_ch_buf THEN yy_ch_buf[i] ELSE 119]
        /\ UNCHANGED <<pc, source, stream, yy_n_chars, token, locals, printed>>
     \/ OutOfMemory

Room ==
  /\ pc = "room"
  /\ num_to_read > 0
  /\ Goto("input")
  /\ UNCHANGED <<source, stream, buffer, token, locals, printed>>

-----------------------------------------------------------------------------
(* YY_INPUT.  A terminal is read with getc up to the end of a line, any    *)
(* other input with fread, which waits for all it was asked for.           *)

max_size == IF num_to_read > YY_READ_BUF_SIZE THEN YY_READ_BUF_SIZE ELSE num_to_read

Available == IF max_size < Len(input) - taken THEN max_size ELSE Len(input) - taken

(* k characters are a line, or all there is. *)
IsLine(k) ==
  /\ \A l \in 1..(k - 1) : input[taken + l] # NEWLINE
  /\ k = Available \/ (k > 0 /\ input[taken + k] = NEWLINE)

Got(k) ==
  /\ yy_ch_buf' = [i \in DOMAIN yy_ch_buf |->
                     IF i \in number_to_move..(number_to_move + k - 1)
                     THEN input[taken + 1 + i - number_to_move] ELSE yy_ch_buf[i]]
  /\ yy_n_chars' = k
  /\ b' = [b EXCEPT !.n_chars = k]
  /\ taken' = taken + k
  /\ Goto("loaded")
  /\ UNCHANGED <<source, token, locals, printed>>

InputFailed ==
  /\ Goto("input failed")
  /\ UNCHANGED <<source, stream, buffer, token, locals, printed>>

(* getc gives up at any error. *)
ReadLine ==
  /\ pc = "input"
  /\ interactive
  /\ \/ /\ \E k \in 0..Available : IsLine(k) /\ Got(k)
        /\ UNCHANGED ferror
     \/ Faults \cap {"EINTR", "EIO"} # {} /\ InputFailed

(* The end of the input fails, too, if an earlier error left its flag.     *)
ReadBlock ==
  /\ pc = "input"
  /\ ~interactive
  /\ \/ (Available > 0 \/ ~ferror) /\ Got(Available) /\ UNCHANGED ferror
     \/ Available = 0 /\ ferror /\ InputFailed

(* An error behind some characters leaves them read; one before the first  *)
(* is retried after EINTR.                                                 *)
ReadError ==
  /\ pc = "input"
  /\ ~interactive
  /\ \/ /\ Faults \cap {"EINTR", "EIO"} # {}
        /\ \E k \in 1..Available : k < max_size /\ Got(k)
        /\ ferror' = TRUE
     \/ /\ "EINTR" \in Faults
        /\ ferror' = FALSE
        /\ UNCHANGED <<pc, source, taken, buffer, token, locals, printed>>
     \/ "EIO" \in Faults /\ InputFailed

-----------------------------------------------------------------------------
(* The end of yy_get_next_buffer, and yylex behind it. *)

(* Mutant: one end-of-buffer character only. *)
OneEnd(n) == [yy_ch_buf EXCEPT ![n] = NUL]

Terminated(n) == [yy_ch_buf EXCEPT ![n] = NUL, ![n + 1] = NUL]

(* yyrestart flushes the buffer, yywrap says that there is no other file,  *)
(* and yylex returns.                                                      *)
EndOfFile ==
  /\ pc = "loaded"
  /\ yy_n_chars = 0
  /\ number_to_move = 0
  /\ yy_ch_buf' = Terminated(0)
  /\ b' = [b EXCEPT !.n_chars = 0, !.status = "NEW"]
  /\ yytext_ptr' = 0
  /\ yy_c_buf_p' = 0
  /\ yy_hold_char' = NUL
  /\ Goto("done")
  /\ UNCHANGED <<source, stream, yy_n_chars, locals, printed>>

(* The token goes on behind the text that was moved. *)
Rescan(then) ==
  /\ yy_n_chars' = yy_n_chars + number_to_move
  /\ yy_ch_buf' = Terminated(yy_n_chars + number_to_move)
  /\ yytext_ptr' = 0
  /\ yy_bp' = 0
  /\ yy_c_buf_p' = number_to_move
  /\ UNCHANGED <<source, stream, yy_hold_char, yy_act, printed>>
  /\ Previous(then)

ContinueScan ==
  /\ pc = "loaded"
  /\ yy_n_chars > 0
  /\ Rescan("match")
  /\ UNCHANGED b

(* Mutant: the end of the input ends the scan at once. *)
TailLost ==
  /\ pc = "loaded"
  /\ yy_n_chars = 0
  /\ number_to_move > 0
  /\ Goto("done")
  /\ UNCHANGED <<source, stream, buffer, token, locals, printed>>

(* No more input: the text that was matched so far is a token. *)
LastMatch ==
  /\ pc = "loaded"
  /\ yy_n_chars = 0
  /\ number_to_move > 0
  /\ b' = [b EXCEPT !.status = "EOF_PENDING"]
  /\ Rescan("find")

-----------------------------------------------------------------------------
Failed == pc \in {"out of memory", "input failed"}
Stopped == (pc = "done" \/ Failed) /\ UNCHANGED vars

Scan ==
  \/ Initialise
  \/ BeginToken \/ MatchChar \/ FindAction \/ Rule
  \/ RealNul \/ TryNul \/ EndOfBuffer \/ PreviousChar
  \/ MoveText \/ Grow \/ Room \/ ReadLine \/ ReadBlock
  \/ EndOfFile \/ ContinueScan \/ LastMatch

Next == Scan \/ ReadError \/ Stopped

Spec == Init /\ [][Next]_vars

(* yylex runs on, and no read is interrupted for ever: a signal handler is *)
(* not installed anywhere, and a terminal's reads are not retried.         *)
FairSpec == Spec /\ WF_vars(Scan)

-----------------------------------------------------------------------------
(* Properties. *)

(* The text in the buffer, also while a NUL stands in for one character.   *)
Char(i) == IF pc \in {"scan", "act"} /\ i = yy_c_buf_p THEN yy_hold_char ELSE yy_ch_buf[i]

(* Where the token that is not printed yet starts. *)
TokenStart == CASE pc = "scan" -> yy_c_buf_p
                [] pc \in {"match", "find", "previous", "nul"} -> yy_bp
                [] OTHER -> yytext_ptr

Scanning == pc \in {"scan", "match", "find", "act", "previous", "nul", "move"}

(* The scanner reads nothing behind the two end-of-buffer characters, which*)
(* are there and within the buffer whatever was moved, read and grown: the *)
(* matching loop of yylex has no other bound, and a scan that passed them  *)
(* is the "end of buffer missed" of yy_get_next_buffer.                    *)
InBuffer ==
  /\ DOMAIN yy_ch_buf = 0..(b.size + 1)
  /\ Scanning => /\ yy_n_chars + 1 \in DOMAIN yy_ch_buf
                 /\ \A e \in yy_n_chars..(yy_n_chars + 1) : Char(e) = NUL
  /\ pc = "match" => yy_cp <= yy_n_chars + 1
  /\ pc = "previous" => yy_cp <= yy_c_buf_p /\ yy_c_buf_p <= yy_n_chars
  /\ pc = "move" => yy_c_buf_p = yy_n_chars + 1
  /\ pc = "loaded" => yy_n_chars + number_to_move <= b.size

(* The tokens so far, the text in the buffer and what was not read yet are *)
(* the input: moving, growing and refilling neither lose nor repeat a      *)
(* character, wherever a read happens to end.                              *)
BufferIsInput ==
  Scanning =>
    /\ scanned = taken - (yy_n_chars - TokenStart)
    /\ \A i \in TokenStart..(yy_n_chars - 1) :
         Char(i) = input[taken - yy_n_chars + i + 1]

(* When the scanner waits for more input, no line end is waiting in the    *)
(* buffer: who types a line sees all its words answered first.             *)
Prompt == pc = "input" => \A i \in 0..(number_to_move - 1) : yy_ch_buf[i] # NEWLINE

Status == CASE pc = "done" -> "done" [] Failed -> "failed" [] OTHER -> "running"

Reference == INSTANCE Lexer WITH pos <- scanned, status <- Status

(* Buffering, backing up and refilling implement the longest match of the  *)
(* rules on the whole input, and the scan ends, with the end of the input  *)
(* or a failure of the input or the memory.                                *)
LongestMatch == Reference!Spec
=============================================================================

-------------------------------- MODULE Bits --------------------------------
(***************************************************************************)
(* getbits, setbits, the bit count and the binary digits of binary/, as    *)
(* functions of a word's bits.  A run is one step from the arguments to    *)
(* the results.                                                            *)
(***************************************************************************)
EXTENDS Integers, Sequences, FiniteSets

CONSTANT W   (* bits of an int *)

ASSUME WidthAssumption == W \in Nat \ {0}

VARIABLES
  args,     (* the words x and y, the position p and the width n           *)
  results   (* what the programs compute; << >> before they have run       *)

-----------------------------------------------------------------------------
(* Words, from bit 0 up.  The highest bit of an int is its sign. *)

Bit == 0..(W - 1)
Word == [Bit -> 0..1]

Zero == [q \in Bit |-> 0]
Not(x) == [q \in Bit |-> 1 - x[q]]
And(x, y) == [q \in Bit |-> IF x[q] = 1 THEN y[q] ELSE 0]
Or(x, y) == [q \in Bit |-> IF x[q] = 1 THEN 1 ELSE y[q]]
LeftShift(x, n) == [q \in Bit |-> IF q < n THEN 0 ELSE x[q - n]]

(* Of an unsigned int and of an int. *)
RightShift(x, n) == [q \in Bit |-> IF q + n < W THEN x[q + n] ELSE 0]
Halved(a) == [q \in Bit |-> IF q < W - 1 THEN a[q + 1] ELSE a[q]]

(* x - 1: the borrow goes up to the lowest bit that is set. *)
MinusOne(x) ==
  [q \in Bit |-> IF \A r \in 0..(q - 1) : x[r] = 0 THEN 1 - x[q] ELSE x[q]]

(* ~(~0 << n) *)
Lowest(n) == Not(LeftShift(Not(Zero), n))

-----------------------------------------------------------------------------
(* The n bits whose highest is bit p. *)
GetBits(x, p, n) == IF p < n THEN Zero ELSE And(RightShift(x, p - n + 1), Lowest(n))

(* Mutant: the old bits of the field are kept. *)
OrBits(x, p, n, y) == Or(x, LeftShift(And(y, Lowest(n)), p - n))

(* The n bits below bit p become the lowest n of y; n is at most p.        *)
SetBits(x, p, n, y) ==
  LET npos_bits == LeftShift(Lowest(n), p - n)
      ny_bits   == LeftShift(And(y, Lowest(n)), p - n)
  IN Or(And(x, Not(npos_bits)), ny_bits)

(* Mutant: the places are counted, not the bits. *)
Shifted(x) == RightShift(x, 1)

(* x & (x - 1) *)
Cleared(x) == And(x, MinusOne(x))

Round(s) == IF s.x = Zero THEN s ELSE [x |-> Cleared(s.x), count |-> s.count + 1]

(* Rounds until nothing is left, which is after W of them at the latest.   *)
BitCount(x) ==
  LET loop[k \in 0..W] == IF k = 0 THEN [x |-> x, count |-> 0] ELSE Round(loop[k - 1])
  IN loop[W].count

(* No digits: the calls go on until the stack is used up. *)
Endless == <<-1>>

(* A call passes a >> 1 on and prints its own digit after it.  From call W *)
(* on a is zero, or minus one for ever.                                    *)
PrintRightBit(a) ==
  LET call[k \in 0..W] == IF k = 0 THEN a ELSE Halved(call[k - 1])
      printed[k \in 0..W] ==   \* by the call W - k
        IF k = 0 \/ call[W - k] = Zero THEN << >>
        ELSE printed[k - 1] \o <<call[W - k][0]>>
  IN IF call[W] = Zero THEN printed[W] ELSE Endless

-----------------------------------------------------------------------------
(* setbits is called with n at most p only. *)
BitsInit ==
  /\ args \in [x : Word, y : Word, p : Bit, n : Bit]
  /\ results = << >>

RunBits ==
  /\ results = << >>
  /\ results' =
       [get     |-> GetBits(args.x, args.p, args.n),
        set     |-> IF args.n <= args.p THEN SetBits(args.x, args.p, args.n, args.y) ELSE args.x,
        count   |-> BitCount(args.x),
        printed |-> PrintRightBit(args.x)]
  /\ UNCHANGED args

BitsSpec == BitsInit /\ [][RunBits]_<<args, results>>

-----------------------------------------------------------------------------
(* Properties. *)

(* setbits moves the lowest n bits of y below bit p and leaves every other *)
(* bit alone.  getbits counts from one bit higher: given p - 1 it reads    *)
(* that field back, and given n = p + 1 it answers zero for a field that   *)
(* is there.                                                               *)
FieldsAgree ==
  results # << >> =>
    LET x == args.x  y == args.y  p == args.p  n == args.n
    IN /\ n <= p => \A q \in Bit :
            /\ results.get[q] = IF q < n THEN x[p - n + 1 + q] ELSE 0
            /\ results.set[q] = IF q \in (p - n)..(p - 1) THEN y[q - (p - n)] ELSE x[q]
       /\ n < p => \A q \in Bit :
            GetBits(results.set, p - 1, n)[q] = IF q < n THEN y[q] ELSE 0
       /\ n > p => results.get = Zero

(* The loop counts the bits that are set, and the digits printed are those *)
(* of the number, from the highest that is set: none for zero, and none    *)
(* ever for a negative number, whose shifts keep the sign.                 *)
CountsAgree ==
  results # << >> =>
    LET x == args.x  d == results.printed
    IN /\ results.count = Cardinality({q \in Bit : x[q] = 1})
       /\ x[W - 1] = 1 <=> d = Endless
       /\ x[W - 1] = 0 =>
            /\ d # << >> => d[1] = 1
            /\ \A q \in Bit : x[q] = IF q < Len(d) THEN d[Len(d) - q] ELSE 0
=============================================================================

------------------------------- MODULE Numbers -------------------------------
(***************************************************************************)
(* trilog's arithmetic: what eval_arith makes of two numbers, and how      *)
(* numbers are ordered (solve.c).  An integer has Width bits where the     *)
(* program has 64.  A double is the nearest number of Precision            *)
(* significant bits, Precision < Width as 53 < 64; it is counted in        *)
(* quarters, so that there are fractions to round, and there are an        *)
(* infinity and a NaN past the largest; the two zeros are one.  The        *)
(* functions of libm (powers of floats, sqrt, sin, ...) are left out.      *)
(***************************************************************************)
EXTENDS Integers, Sequences, FiniteSets
LOCAL INSTANCE Bitwise

CONSTANTS Width, Precision
ASSUME SizesAssumption == Precision \in 1 .. Width - 1

MinInt == -(2 ^ (Width - 1))
MaxInt == 2 ^ (Width - 1) - 1
Inf == 2 ^ (Width + 3)          \* in quarters: eight times the integers' range
NaN == Inf + 1

Int_(n) == [tag |-> "INT", val |-> n]
Flt(q) == [tag |-> "FLT", val |-> q]
Error(what) == [tag |-> "ERROR", val |-> what]

Magnitude(n) == IF n < 0 THEN -n ELSE n
Sign(n) == IF n < 0 THEN -1 ELSE IF n > 0 THEN 1 ELSE 0
InRange(n) == MinInt <= n /\ n <= MaxInt

-----------------------------------------------------------------------------
(* Doubles *)

\* n/d, d > 0, to the nearest integer, a tie to the even one.
HalfEven(n, d) ==
  LET q == n \div d
      r == 2 * (n % d)
  IN  IF r > d \/ (r = d /\ q % 2 = 1) THEN q + 1 ELSE q

\* The double nearest to n/d quarters.
Nearest(n, d) ==
  LET ulp == CHOOSE u \in {2 ^ k : k \in 0 .. 3 * Width} :
               /\ Magnitude(n) < d * u * 2 ^ Precision
               /\ u = 1 \/ Magnitude(n) >= d * (u \div 2) * 2 ^ Precision
      q == HalfEven(n, d * ulp) * ulp
  IN  IF q >= Inf THEN Inf ELSE IF q <= -Inf THEN -Inf ELSE q

Finite(q) == -Inf < q /\ q < Inf

\* arith_dbl: the cast rounds.
Dbl(x) == IF x.tag = "FLT" THEN x.val ELSE Nearest(4 * x.val, 1)

FltSum(p, q) ==
  IF NaN \in {p, q} \/ {p, q} = {Inf, -Inf} THEN NaN
  ELSE IF ~Finite(p) THEN p ELSE IF ~Finite(q) THEN q ELSE Nearest(p + q, 1)

FltNegate(q) == IF q = NaN THEN NaN ELSE -q

FltProduct(p, q) ==
  IF NaN \in {p, q} \/ (0 \in {p, q} /\ {p, q} \cap {Inf, -Inf} # {}) THEN NaN
  ELSE IF Finite(p) /\ Finite(q) THEN Nearest(p * q, 4)
  ELSE Sign(p) * Sign(q) * Inf

\* q # 0
FltQuotient(p, q) ==
  IF NaN \in {p, q} \/ (~Finite(p) /\ ~Finite(q)) THEN NaN
  ELSE IF ~Finite(q) THEN 0
  ELSE IF ~Finite(p) THEN Sign(q) * p
  ELSE Nearest(Sign(q) * 4 * p, Magnitude(q))

\* C's comparisons: every one with a NaN is false.
FltLess(p, q) == NaN \notin {p, q} /\ p < q

\* floor, ceil, trunc and round (halves away from 0) of a finite double, in
\* quarters again.
Rounded(op, q) ==
  CASE op = "floor" -> 4 * (q \div 4)
    [] op = "ceiling" -> -4 * ((-q) \div 4)
    [] op = "truncate" -> Sign(q) * 4 * (Magnitude(q) \div 4)
    [] op = "round" -> Sign(q) * 4 * ((Magnitude(q) + 2) \div 4)

-----------------------------------------------------------------------------
(* 64-bit integers *)

Overflow == Error("int_overflow")

\* __builtin_add_overflow and its like: the exact result, if it fits.
Checked(n) == IF InRange(n) THEN Int_(n) ELSE Overflow

\* C's / and %: towards 0.
Quotient(a, b) == Sign(a) * Sign(b) * (Magnitude(a) \div Magnitude(b))
Remainder(a, b) == a - b * Quotient(a, b)

\* >> of a non-negative integer shifts; ~a is -a - 1.
arith_shift_right(a, b) ==
  IF b >= Width - 1 THEN (IF a < 0 THEN -1 ELSE 0)
  ELSE IF a < 0 THEN -((-a - 1) \div 2 ^ b) - 1
  ELSE a \div 2 ^ b

\* Mutant of arith_shift_left: the lower bound is the upper one negated.
arith_shift_left_symmetric(a, b) ==
  IF a = 0 THEN Int_(0)
  ELSE IF b >= Width - 1 \/ a > MaxInt \div 2 ^ b \/ a < -(MaxInt \div 2 ^ b)
       THEN Overflow
       ELSE Int_(a * 2 ^ b)

arith_shift_left(a, b) ==
  IF a = 0 THEN Int_(0)
  ELSE IF b = Width - 1 /\ a = -1 THEN Int_(MinInt)
  ELSE IF \/ b >= Width - 1
          \/ a > MaxInt \div 2 ^ b
          \/ a < arith_shift_right(MinInt, b)
       THEN Overflow
       ELSE Int_(a * 2 ^ b)

\* Squares x as long as an exponent is left; acc takes the odd ones.
arith_pow_int(a, b) ==
  LET Loop[acc \in Int, x \in Int, y \in Nat] ==
        LET taken == IF y % 2 = 1 THEN acc * x ELSE acc
        IN  IF y = 0 THEN Int_(acc)
            ELSE IF ~InRange(taken) THEN Overflow
            ELSE IF y \div 2 > 0 /\ ~InRange(x * x) THEN Overflow
            ELSE Loop[taken, x * x, y \div 2]
  IN  IF b >= 0 THEN Loop[1, a, b]
      ELSE CASE a = 1 -> Int_(1)
             [] a = -1 -> Int_(IF b % 2 = 1 THEN -1 ELSE 1)
             [] a = 0 -> Error("zero_divisor")
             [] OTHER -> Error("type_error")

Pattern(n) == n % 2 ^ Width
Signed(bits) == IF bits > MaxInt THEN bits - 2 ^ Width ELSE bits

IntOnly == {"//", "mod", "rem", "/\\", "\\/", "xor", "<<", ">>"}

\* The operations that take no float (arith_require_int).
IntOp(op, a, b) ==
  LET amount == IF b = MinInt THEN MaxInt ELSE Magnitude(b)
      Shift(left) == IF left THEN arith_shift_left(a, amount)
                     ELSE Int_(arith_shift_right(a, amount))
      rem == Remainder(a, b)
  IN  CASE op \in {"//", "mod", "rem"} /\ b = 0 -> Error("zero_divisor")
        [] op = "rem" /\ b # 0 -> Int_(IF b = -1 THEN 0 ELSE rem)
        [] op = "mod" /\ b # 0 ->
             Int_(IF b = -1 THEN 0
                  ELSE IF rem # 0 /\ (rem < 0) # (b < 0) THEN rem + b ELSE rem)
        [] op = "//" /\ b # 0 ->
             IF b = -1 THEN (IF a = MinInt THEN Overflow ELSE Int_(-a))
             ELSE Int_(Quotient(a, b))
        [] op = "/\\" -> Int_(Signed(Pattern(a) & Pattern(b)))
        [] op = "\\/" -> Int_(Signed(Pattern(a) | Pattern(b)))
        [] op = "xor" -> Int_(Signed(Pattern(a) ^^ Pattern(b)))
        [] op = "<<" -> Shift(b >= 0)
        [] op = ">>" -> Shift(b < 0)

-----------------------------------------------------------------------------
(* eval_arith *)

Binary == IntOnly \cup {"+", "-", "*", "/", "^", "min", "max"}

\* With a float on either side, both are doubles (^ of floats is libm's pow).
MixedOp(op, p, q) ==
  CASE op = "+" -> Flt(FltSum(p, q))
    [] op = "-" -> Flt(FltSum(p, FltNegate(q)))
    [] op = "*" -> Flt(FltProduct(p, q))
    [] op = "/" -> IF q = 0 THEN Error("zero_divisor") ELSE Flt(FltQuotient(p, q))
    [] op = "min" -> Flt(IF FltLess(p, q) \/ (p = q /\ p # NaN) THEN p ELSE q)
    [] op = "max" -> Flt(IF FltLess(q, p) \/ (p = q /\ p # NaN) THEN p ELSE q)

\* Integers: min and max compare them as doubles, and the left one wins a tie.
WholeOp(op, a, b) ==
  LET x == Dbl(Int_(a))
      y == Dbl(Int_(b))
  IN  CASE op = "+" -> Checked(a + b)
        [] op = "-" -> Checked(a - b)
        [] op = "*" -> Checked(a * b)
        [] op = "/" -> IF b = 0 THEN Error("zero_divisor")
                       ELSE IF a = MinInt /\ b = -1 THEN Overflow
                       ELSE Int_(Quotient(a, b))
        [] op = "^" -> arith_pow_int(a, b)
        [] op = "min" -> Int_(IF x <= y THEN a ELSE b)
        [] op = "max" -> Int_(IF x >= y THEN a ELSE b)
        [] OTHER -> IntOp(op, a, b)

Eval2(op, x, y) ==
  LET mixed == "FLT" \in {x.tag, y.tag}
  IN  IF mixed /\ op \in IntOnly THEN Error("type_error")
      ELSE IF mixed THEN MixedOp(op, Dbl(x), Dbl(y))
      ELSE WholeOp(op, x.val, y.val)

Casts == {"floor", "ceiling", "round", "truncate"}
Unary == Casts \cup {"-", "abs", "sign", "\\", "float",
                     "float_integer_part", "float_fractional_part"}

\* A float of no integer value is refused before it is cast.
Cast(op, q) ==
  IF ~Finite(q) THEN Overflow
  ELSE IF Rounded(op, q) >= 4 * MinInt /\ Rounded(op, q) < 4 * (MaxInt + 1)
       THEN Int_(Rounded(op, q) \div 4)
       ELSE Overflow

\* modf: the whole part, and what is left, which is 0 of an infinity.
FltOp1(op, q) ==
  CASE op = "-" -> Flt(FltNegate(q))
    [] op = "abs" -> Flt(IF q = NaN THEN NaN ELSE Magnitude(q))
    [] op = "float" -> Flt(q)
    [] op = "float_integer_part" ->
         Flt(IF Finite(q) THEN Rounded("truncate", q) ELSE q)
    [] op = "float_fractional_part" ->
         Flt(IF q = NaN THEN NaN
             ELSE IF Finite(q) THEN q - Rounded("truncate", q) ELSE 0)
    [] op \in Casts -> Cast(op, q)
    [] op \in {"sign", "\\"} -> Error("type_error")

IntOp1(op, n) ==
  CASE op \in {"-", "abs"} /\ n = MinInt -> Overflow
    [] op = "-" /\ n # MinInt -> Int_(-n)
    [] op = "abs" /\ n # MinInt -> Int_(Magnitude(n))
    [] op = "sign" -> Int_(Sign(n))
    [] op = "\\" -> Int_(-n - 1)
    [] op = "float" -> Flt(Dbl(Int_(n)))
    [] op \in {"float_integer_part", "float_fractional_part"} -> Error("type_error")
    [] op \in Casts -> Int_(n)

Eval1(op, x) == IF x.tag = "FLT" THEN FltOp1(op, x.val) ELSE IntOp1(op, x.val)

-----------------------------------------------------------------------------
(* Order *)

\* The three-way result behind <, =<, =:= and the others.
ArithCompare(x, y) ==
  IF "FLT" \in {x.tag, y.tag}
  THEN IF FltLess(Dbl(x), Dbl(y)) THEN -1 ELSE IF FltLess(Dbl(y), Dbl(x)) THEN 1 ELSE 0
  ELSE Sign(x.val - y.val)

\* Mutant of CompareNumbers: beside an integer, a float is cast to one.
CompareNumbersCast(x, y) ==
  LET Whole(z) == IF x.tag # y.tag /\ Finite(Dbl(z)) THEN Rounded("truncate", Dbl(z))
                  ELSE Dbl(z)
  IN  IF Whole(x) # Whole(y) \/ Dbl(x) = NaN
      THEN (IF FltLess(Whole(x), Whole(y)) THEN -1 ELSE 1)
      ELSE IF x.tag = y.tag THEN 0
      ELSE IF x.tag = "FLT" THEN -1 ELSE 1

\* Numbers in the standard order of terms (compare_step): as doubles, all of
\* them, and a float before an integer.
CompareNumbers(x, y) ==
  IF Dbl(x) # Dbl(y) \/ Dbl(x) = NaN THEN (IF FltLess(Dbl(x), Dbl(y)) THEN -1 ELSE 1)
  ELSE IF x.tag = y.tag THEN 0
  ELSE IF x.tag = "FLT" THEN -1 ELSE 1
=============================================================================

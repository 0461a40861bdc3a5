----------------------------- MODULE Calculator -----------------------------
(***************************************************************************)
(* A program that computes: each step evaluates an operation on the number *)
(* it has, and another one, by is/2 (eval_arith); an error ends the query  *)
(* and the next starts from a number again.  What a step computes is       *)
(* compared with the integers and quarters of mathematics.                 *)
(***************************************************************************)
EXTENDS Numbers, FiniteSetsExt

CONSTANTS Sizes, Quarters    \* the numbers in the text of the queries, but for
                             \* the sign: integers, and floats counted in quarters
ASSUME ValuesAssumption == Sizes \subseteq Nat /\ Quarters \subseteq Nat

VARIABLE acc

Ints == {n \in MinInt .. MaxInt : Magnitude(n) \in Sizes}
Given == {Int_(n) : n \in Ints} \cup {Flt(Nearest(s * q, 1)) : s \in {-1, 1}, q \in Quarters}

Init == acc \in Given

Answered(result) == acc.tag # "ERROR" /\ acc' = result

Apply1(op) == Answered(Eval1(op, acc))

Known(op, x, y) == ~(op = "^" /\ "FLT" \in {x.tag, y.tag})

Left(op, y) == Known(op, acc, y) /\ Answered(Eval2(op, acc, y))

Right(op, x) == Known(op, x, acc) /\ Answered(Eval2(op, x, acc))

NextQuery == acc.tag = "ERROR" /\ acc' \in Given

Next ==
  \/ \E op \in Unary : Apply1(op)
  \/ \E op \in Binary, y \in Given : Left(op, y) \/ Right(op, y)
  \/ NextQuery

Spec == Init /\ [][Next]_acc

-----------------------------------------------------------------------------
(* What the operations are on the integers of mathematics.  Far is past    *)
(* every integer of the program; nothing that is Far comes back.           *)

Far == 4 * MaxInt

Saturated(n) == IF n > Far THEN Far ELSE IF n < -Far THEN -Far ELSE n

Times(f(_), n, x) == FoldSet(LAMBDA i, y : Saturated(f(y)), x, 1 .. n)

\* floor(a * 2^b)
Shifted(a, b) ==
  IF b >= 0 THEN Times(LAMBDA y : 2 * y, b, a) ELSE Times(LAMBDA y : y \div 2, -b, a)

Power(a, b) == Times(LAMBDA y : a * y, b, 1)

\* The integer part of a/b.
Truncated(a, b) ==
  CHOOSE q \in -MaxInt - 1 .. MaxInt + 1 :
    Magnitude(a - b * q) < Magnitude(b) /\ (a - b * q) * a >= 0

\* The r that b leaves of a, between 0 and b, of the sign of s.
Residue(a, b, s) ==
  CHOOSE r \in -Magnitude(b) + 1 .. Magnitude(b) - 1 :
    r * s >= 0 /\ (a - r) % Magnitude(b) = 0

\* The integer nearest to q quarters on the side that op takes.
Whole(op, q) ==
  LET below == Max({n \in -Far .. Far : 4 * n <= q})
      above == Min({n \in -Far .. Far : 4 * n >= q})
  IN  CASE op = "floor" -> below
        [] op = "ceiling" -> above
        [] op = "truncate" -> IF q >= 0 THEN below ELSE above
        [] op = "round" ->
             IF 2 * q = 4 * (below + above) /\ below # above
             THEN (IF q >= 0 THEN above ELSE below)
             ELSE IF 2 * q < 4 * (below + above) THEN below ELSE above

Exact2(op, a, b) ==
  CASE op = "+" -> a + b
    [] op = "-" -> a - b
    [] op = "*" -> a * b
    [] op \in {"/", "//"} -> Truncated(a, b)
    [] op = "rem" -> Residue(a, b, Sign(a))
    [] op = "mod" -> Residue(a, b, b)
    [] op = "^" -> Power(a, b)
    [] op = "<<" -> Shifted(a, b)
    [] op = ">>" -> Shifted(a, -b)

Undefined(op, a, b) ==
  \/ op \in {"/", "//", "mod", "rem"} /\ b = 0
  \/ op = "^" /\ b < 0

IsFloat(x) == x.tag = "FLT" /\ Finite(x.val)

\* Of integers, +, -, *, the divisions, the shifts and ^ give the integer that
\* mathematics gives, or an int_overflow exactly when it needs more bits; and
\* so do the casts of a float, of an infinity and of a NaN.  (The cases of
\* INT64_MIN and -1, the bounds of a shift and the squares of arith_pow_int,
\* solve.c.)  The / of two integers truncates here: so say the code and
\* test/quad/builtins_quad.pl:20; TODO:9 lists it as a departure from the standard.
ExactOrOverflow ==
  /\ acc.tag = "INT" =>
       \A op \in {"+", "-", "*", "/", "//", "mod", "rem", "^", "<<", ">>"}, b \in Ints :
         /\ ~Undefined(op, acc.val, b) =>
              Eval2(op, acc, Int_(b)) = Checked(Exact2(op, acc.val, b))
         /\ ~Undefined(op, b, acc.val) =>
              Eval2(op, Int_(b), acc) = Checked(Exact2(op, b, acc.val))
  /\ acc.tag = "FLT" =>
       \A op \in Casts :
         Eval1(op, acc) = IF IsFloat(acc) THEN Checked(Whole(op, acc.val)) ELSE Overflow

\* The standard order sorts: of numbers that are no NaN it is antisymmetric and
\* transitive, and it never puts two numbers the other way round than < does,
\* although both round 64-bit integers to doubles, and not at the same times.
\* (compare_step and the comparisons of solve.c; sort/2, msort/2 and the
\* collections use the first, loops over integers the second.)
OrderSorts ==
  acc.tag # "ERROR" /\ acc # Flt(NaN) =>
    \A x \in Given :
      /\ CompareNumbers(acc, x) = -CompareNumbers(x, acc)
      /\ ArithCompare(acc, x) * CompareNumbers(acc, x) >= 0
      /\ \A y \in Given :
           CompareNumbers(x, acc) <= 0 /\ CompareNumbers(acc, y) <= 0 =>
             CompareNumbers(x, y) <= 0

\* What compare_step's comment says of numbers: "same-valued numbers compare by
\* type", so that only a number and itself are alike (==/2, sort/2).
AlikeIsSame ==
  acc.tag # "ERROR" => \A x \in Given : CompareNumbers(acc, x) = 0 => acc = x
=============================================================================

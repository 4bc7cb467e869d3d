------------------------------- MODULE Float -------------------------------
(***************************************************************************)
(* Binary floating point, for the places where the code's result depends   *)
(* on its rounding (C++ float and double; external to the repository).     *)
(*                                                                         *)
(* A value is a fraction <<num, den>> with den a power of two.  It has     *)
(* FloatBits significant bits and is rounded to nearest, ties to even.     *)
(* The rounding is the same at every scale, so a small FloatBits stands    *)
(* for the 24 bits of a float or the 53 of a double.  Only values >= 0.    *)
(***************************************************************************)
EXTENDS Integers

CONSTANTS FloatBits,
          MaxExponent  \* bound on the exponents of the values that occur

FloatAssumption ==
  /\ FloatBits \in Nat \ {0, 1}
  /\ MaxExponent \in Nat

\* a / b rounded to an integer, to nearest, ties to even.
Round(a, b) ==
  LET q == a \div b
      r == a % b
  IN  IF 2 * r < b \/ (2 * r = b /\ q % 2 = 0) THEN q ELSE q + 1

PowerOf2(n) ==
  LET power[k \in 0 .. n] == IF k = 0 THEN 1 ELSE 2 * power[k - 1]
  IN  power[n]

\* 2^e as the fraction Up(e) / Down(e).
Up(e)   == IF e > 0 THEN PowerOf2(e) ELSE 1
Down(e) == IF e < 0 THEN PowerOf2(-e) ELSE 1

\* m * 2^e, one exponent up when rounding made m one bit too long.
Scaled(m, e) ==
  IF m = PowerOf2(FloatBits) THEN <<(m \div 2) * Up(e + 1), Down(e + 1)>> ELSE <<m * Up(e), Down(e)>>

\* The one element of a set.  Values used more than once are bound by set
\* constructors, so that TLC evaluates them once.
The(S) == CHOOSE x \in S : TRUE

\* The value nearest to a / b.  The exponent e puts the significand between
\* 2^(FloatBits-1) and 2^FloatBits.
Nearest(a, b) ==
  IF a = 0 THEN <<0, 1>>
  ELSE The({Scaled(Round(a * Down(e), b * Up(e)), e) :
              e \in {CHOOSE x \in (- MaxExponent) .. MaxExponent :
                       /\ a * Down(x) >= b * Up(x) * PowerOf2(FloatBits - 1)
                       /\ a * Down(x) < b * Up(x) * PowerOf2(FloatBits)}})

ToFloat(a, b)   == The({Nearest(x, y) : x \in {a}, y \in {b}})
Plus(f, g)      == The({Nearest(x[1] * y[2] + y[1] * x[2], x[2] * y[2]) : x \in {f}, y \in {g}})
Minus(f, g)     == The({Nearest(x[1] * y[2] - y[1] * x[2], x[2] * y[2]) : x \in {f}, y \in {g}})
DividedBy(f, n) == The({Nearest(x[1], x[2] * y) : x \in {f}, y \in {n}})
NotMore(f, g)   == f[1] * g[2] <= g[1] * f[2]
Same(f, g)      == f[1] * g[2] = g[1] * f[2]
Truncated(f)    == The({x[1] \div x[2] : x \in {f}})
RoundedUp(f)    == The({(x[1] + x[2] - 1) \div x[2] : x \in {f}})
=============================================================================

-------------------------- MODULE PopulationProofs --------------------------
(***************************************************************************)
(* Proofs about the size and the sharing of a population.                  *)
(*                                                                         *)
(* The share computed with a float (src/quic.cpp:280) is the exact one, for *)
(* any number of significant bits that holds the number of samples.         *)
(*                                                                         *)
(* The odometer (src/src/utils/population_gen.cpp:161-277) stores every     *)
(* combination of the values it turns through once, whatever the file says  *)
(* and however its arithmetic rounds; and where rounding changes nothing,   *)
(* as for multiples of a half, these fill its vector.                       *)
(*                                                                         *)
(* The n-th sample has, in dimension d, the value of the digit              *)
(* (n \div Weight(d)) % Count(d): numbers written in a mixed base.  The     *)
(* odometer carries out of d exactly when Weight(d + 1) divides n.  Count(d) *)
(* is where d first comes to an end; a dimension that has none is never     *)
(* carried out of, and the odometer runs past the vector instead.           *)
(***************************************************************************)
EXTENDS PopulationGen, WorkSize, Induction, FiniteSetTheorems, FunctionTheorems
----------------------------------------------------------------------------
(***************************************************************************)
(* Powers of two.                                                          *)
(***************************************************************************)
Doubling(n) == [k \in 1 .. n |-> [x \in Nat |-> 2 * x]]

LEMMA PowerIsRecursive ==
  ASSUME NEW n, n \in Nat
  PROVE  \E f : Recursive(f, n, Nat, 1, Doubling(n)) /\ f[n] = PowerOf2(n)
<1> DEFINE power == CHOOSE g : g = [k \in 0 .. n |-> IF k = 0 THEN 1 ELSE 2 * g[k - 1]]
<1>1. PowerOf2(n) = power[n]
  BY DEF PowerOf2
<1>2. 1 \in Nat /\ Doubling(n) \in [1 .. n -> [Nat -> Nat]]
  BY DEF Doubling
<1>3. PICK f : Recursive(f, n, Nat, 1, Doubling(n))
  BY <1>2, Recursion
<1>4. f = [k \in 0 .. n |-> IF k = 0 THEN 1 ELSE 2 * f[k - 1]]
  <2>1. f \in [0 .. n -> Nat] /\ f[0] = 1 /\ \A k \in 1 .. n : f[k] = Doubling(n)[k][f[k - 1]]
    BY <1>3 DEF Recursive
  <2>2. ASSUME NEW k \in 0 .. n PROVE f[k] = IF k = 0 THEN 1 ELSE 2 * f[k - 1]
    <3>1. CASE k = 0
      BY <2>1, <3>1
    <3>2. CASE k # 0
      <4>1. k \in 1 .. n /\ k - 1 \in 0 .. n
        BY <3>2
      <4>2. f[k - 1] \in Nat
        BY <2>1, <4>1
      <4> QED BY <2>1, <3>2, <4>1, <4>2 DEF Doubling
    <3> QED BY <3>1, <3>2
  <2> QED BY <2>1, <2>2
<1>5. power = [k \in 0 .. n |-> IF k = 0 THEN 1 ELSE 2 * power[k - 1]]
  BY <1>4
<1> HIDE DEF power
<1>6. Recursive(power, n, Nat, 1, Doubling(n))
  <2> DEFINE G == {k \in 0 .. n : power[k] \in Nat}
  <2>1. 0 \in G
    BY <1>5
  <2>2. ASSUME NEW k \in 1 .. n, k - 1 \in G PROVE k \in G
    <3>1. k \in 0 .. n /\ k # 0 /\ power[k - 1] \in Nat
      BY <2>2
    <3>2. power[k] = 2 * power[k - 1]
      BY <1>5, <3>1
    <3> QED BY <3>1, <3>2
  <2>3. G \in SUBSET (0 .. n)
    OBVIOUS
  <2> HIDE DEF G
  <2>4. G = 0 .. n
    BY <2>1, <2>2, <2>3, StepByStep
  <2>5. \A k \in 0 .. n : power[k] \in Nat
    BY <2>4 DEF G
  <2>6. power \in [0 .. n -> Nat]
    BY <1>5, <2>5
  <2>7. ASSUME NEW k \in 1 .. n PROVE power[k] = Doubling(n)[k][power[k - 1]]
    <3>1. k \in 0 .. n /\ k # 0 /\ k - 1 \in 0 .. n
      OBVIOUS
    <3>2. power[k] = 2 * power[k - 1]
      BY <1>5, <3>1
    <3> QED BY <2>5, <3>1, <3>2 DEF Doubling
  <2>8. power[0] = 1
    BY <1>5
  <2> QED BY <2>6, <2>7, <2>8 DEF Recursive
<1> QED
  BY <1>1, <1>6

\* Functions that are doubled at each place agree as far as both go.
LEMMA DoubledAlike ==
  ASSUME NEW m, m \in Nat, NEW n, n \in Nat, m <= n,
         NEW f, Recursive(f, m, Nat, 1, Doubling(m)),
         NEW g, Recursive(g, n, Nat, 1, Doubling(n))
  PROVE  \A k \in 0 .. m : f[k] = g[k]
<1> DEFINE G == {k \in 0 .. m : f[k] = g[k]}
<1>1. f \in [0 .. m -> Nat] /\ f[0] = 1 /\ \A k \in 1 .. m : f[k] = Doubling(m)[k][f[k - 1]]
  BY DEF Recursive
<1>2. g \in [0 .. n -> Nat] /\ g[0] = 1 /\ \A k \in 1 .. n : g[k] = Doubling(n)[k][g[k - 1]]
  BY DEF Recursive
<1>3. 0 \in G
  BY <1>1, <1>2
<1>4. ASSUME NEW k \in 1 .. m, k - 1 \in G PROVE k \in G
  <2>1. k \in 1 .. n /\ k \in 0 .. m /\ k - 1 \in 0 .. n /\ f[k - 1] = g[k - 1]
    BY <1>4
  <2>2. f[k] = 2 * g[k - 1] /\ g[k] = 2 * g[k - 1]
    BY <1>1, <1>2, <2>1 DEF Doubling
  <2> QED BY <2>1, <2>2
<1>5. G \in SUBSET (0 .. m)
  OBVIOUS
<1> HIDE DEF G
<1>6. G = 0 .. m
  BY <1>3, <1>4, <1>5, StepByStep
<1> QED
  BY <1>6 DEF G

LEMMA Powers ==
  ASSUME NEW n, n \in Nat
  PROVE  /\ PowerOf2(n) \in Nat \ {0}
         /\ PowerOf2(n + 1) = 2 * PowerOf2(n)
<1>1. PICK f : Recursive(f, n, Nat, 1, Doubling(n)) /\ f[n] = PowerOf2(n)
  BY PowerIsRecursive
<1>2. n + 1 \in Nat /\ n <= n + 1
  OBVIOUS
<1>3. PICK g : Recursive(g, n + 1, Nat, 1, Doubling(n + 1)) /\ g[n + 1] = PowerOf2(n + 1)
  BY <1>2, PowerIsRecursive
<1>4. f[n] = g[n]
  <2>1. n \in 0 .. n
    OBVIOUS
  <2> QED BY <1>1, <1>2, <1>3, <2>1, DoubledAlike
<1>5. g[n + 1] = 2 * g[n]
  <2>1. n + 1 \in 1 .. (n + 1) /\ n \in 0 .. n + 1 /\ (n + 1) - 1 = n
    OBVIOUS
  <2>2. g \in [0 .. n + 1 -> Nat] /\ \A k \in 1 .. n + 1 : g[k] = Doubling(n + 1)[k][g[k - 1]]
    BY <1>3 DEF Recursive
  <2> QED BY <2>1, <2>2 DEF Doubling
<1>6. f[n] \in Nat \ {0}
  <2> DEFINE G == {k \in 0 .. n : f[k] # 0}
  <2>1. f \in [0 .. n -> Nat] /\ f[0] = 1 /\ \A k \in 1 .. n : f[k] = Doubling(n)[k][f[k - 1]]
    BY <1>1 DEF Recursive
  <2>2. 0 \in G
    BY <2>1
  <2>3. ASSUME NEW k \in 1 .. n, k - 1 \in G PROVE k \in G
    <3>1. k \in 0 .. n /\ k - 1 \in 0 .. n /\ f[k - 1] \in Nat \ {0}
      BY <2>1, <2>3
    <3>2. f[k] = 2 * f[k - 1]
      BY <2>1, <3>1 DEF Doubling
    <3> QED BY <3>1, <3>2
  <2>4. G \in SUBSET (0 .. n)
    OBVIOUS
  <2> HIDE DEF G
  <2>5. G = 0 .. n
    BY <2>2, <2>3, <2>4, StepByStep
  <2> QED BY <2>1, <2>5 DEF G
<1> QED
  BY <1>1, <1>3, <1>4, <1>5, <1>6

LEMMA PowerOfZero == PowerOf2(0) = 1
<1>1. 0 \in Nat
  OBVIOUS
<1>2. PICK f : Recursive(f, 0, Nat, 1, Doubling(0)) /\ f[0] = PowerOf2(0)
  BY <1>1, PowerIsRecursive
<1> QED
  BY <1>2 DEF Recursive
----------------------------------------------------------------------------
(***************************************************************************)
(* Rounding.                                                               *)
(***************************************************************************)
\* A rounded quotient is off by half at most.
LEMMA RoundedByHalf ==
  ASSUME NEW a \in Nat, NEW b \in Nat \ {0}
  PROVE  LET m == Round(a, b)
         IN  m \in Nat /\ 2 * (m * b - a) <= b /\ 2 * (a - m * b) <= b
<1> DEFINE q == a \div b
           r == a % b
           m == Round(a, b)
<1>1. q \in Nat /\ r \in Nat /\ r < b /\ a = q * b + r
  BY Division
<1>2. m = IF 2 * r < b \/ (2 * r = b /\ q % 2 = 0) THEN q ELSE q + 1
  BY DEF Round
<1> HIDE DEF q, r, m
<1>3. CASE m = q /\ 2 * r <= b
  <2>1. m * b - a = -r
    BY <1>1, <1>3
  <2>2. a - m * b = r
    BY <1>1, <1>3
  <2> QED BY <1>1, <1>3, <2>1, <2>2 DEF m
<1>4. CASE m = q + 1 /\ 2 * r >= b
  <2>1. m * b = q * b + b
    BY <1>1, <1>4
  <2>2. q * b \in Int
    BY <1>1
  <2>3. m * b - a = b - r /\ a - m * b = r - b
    BY <1>1, <2>1, <2>2
  <2> QED BY <1>1, <1>4, <2>3 DEF m
<1> QED
  BY <1>1, <1>2, <1>3, <1>4
----------------------------------------------------------------------------
(***************************************************************************)
(* The exponent, and the nearest value.                                    *)
(***************************************************************************)
half == PowerOf2(FloatBits - 1)
all  == PowerOf2(FloatBits)

LEMMA Halves ==
  ASSUME FloatAssumption
  PROVE  half \in Nat \ {0} /\ all = 2 * half /\ MaxExponent \in Nat
<1>1. FloatBits - 1 \in Nat /\ (FloatBits - 1) + 1 = FloatBits
  BY DEF FloatAssumption
<1> QED
  BY <1>1, Powers DEF half, all, FloatAssumption

LEMMA Exponents ==
  ASSUME NEW x, x \in Int
  PROVE  /\ Up(x) \in Nat \ {0} /\ Down(x) \in Nat \ {0}
         /\ x >= 0 => Down(x) = 1 /\ Up(x + 1) = 2 * Up(x)
         /\ x < 0 => Up(x) = 1 /\ Up(x + 1) = 1 /\ Down(x) = 2 * Down(x + 1)
         /\ x > 0 => Up(x) >= 2
<1>1. CASE x > 0
  <2>1. /\ x \in Nat /\ x + 1 > 0 /\ x - 1 \in Nat /\ (x - 1) + 1 = x
        /\ ~ (x < 0) /\ x >= 0
    BY <1>1
  <2>2. PowerOf2(x) \in Nat \ {0} /\ PowerOf2(x + 1) = 2 * PowerOf2(x)
    BY <2>1, Powers
  <2>3. PowerOf2(x - 1) \in Nat \ {0} /\ PowerOf2(x) = 2 * PowerOf2(x - 1)
    BY <2>1, Powers
  <2>4. Up(x) = PowerOf2(x) /\ Up(x + 1) = PowerOf2(x + 1) /\ Down(x) = 1
    BY <1>1, <2>1 DEF Up, Down
  <2> QED BY <2>1, <2>2, <2>3, <2>4
<1>2. CASE x = 0
  <2>1. PowerOf2(0 + 1) = 2 * 1
    BY Powers, PowerOfZero
  <2>2. Up(0) = 1 /\ Up(0 + 1) = PowerOf2(0 + 1) /\ Down(0) = 1
    BY DEF Up, Down
  <2> QED BY <1>2, <2>1, <2>2
<1>3. CASE x < 0
  <2>1. -x \in Nat /\ -(x + 1) \in Nat /\ -(x + 1) + 1 = -x
    BY <1>3
  <2>2. PowerOf2(-(x + 1)) \in Nat \ {0} /\ PowerOf2(-x) = 2 * PowerOf2(-(x + 1))
    BY <2>1, Powers
  <2>3. Down(x) = PowerOf2(-x) /\ Up(x) = 1 /\ Up(x + 1) = 1
    BY <1>3 DEF Up, Down
  <2>4. Down(x + 1) = PowerOf2(-(x + 1))
    <3>1. CASE x = -1
      BY <3>1, PowerOfZero DEF Down
    <3>2. CASE x # -1
      <4>1. x + 1 < 0
        BY <1>3, <3>2
      <4> QED BY <4>1 DEF Down
    <3> QED BY <3>1, <3>2
  <2> QED BY <1>3, <2>2, <2>3, <2>4
<1> QED
  BY <1>1, <1>2, <1>3

\* The exponent that puts a / b between half and all.
ScaledFits(a, b, x) ==
  /\ x \in (- MaxExponent) .. MaxExponent
  /\ a * Down(x) >= b * Up(x) * half
  /\ a * Down(x) < b * Up(x) * all

LEMMA ExponentFits ==
  ASSUME FloatAssumption, NEW a \in Nat, NEW b \in Nat \ {0},
         a * PowerOf2(MaxExponent) >= b * half, a < b * PowerOf2(MaxExponent) * all
  PROVE  \E x : ScaledFits(a, b, x)
<1> DEFINE M == MaxExponent
           E == {x \in (- M) .. M : a * Down(x) >= b * Up(x) * half}
           T == {x + M + 1 : x \in E}
<1>1. M \in Nat /\ half \in Nat \ {0} /\ all = 2 * half
  BY Halves
<1>2. Down(-M) = PowerOf2(M) /\ Up(-M) = 1 /\ Up(M) = PowerOf2(M) /\ Down(M) = 1
  <2>1. CASE M = 0
    BY <2>1, PowerOfZero DEF Up, Down
  <2>2. CASE M # 0
    <3>1. -M < 0 /\ M > 0 /\ ~ (-M > 0) /\ ~ (M < 0) /\ -(-M) = M
      BY <1>1, <2>2
    <3> QED BY <3>1 DEF Up, Down
  <2> QED BY <2>1, <2>2
<1>3. -M \in E
  <2>1. b * 1 * half = b * half
    BY <1>1
  <2> QED BY <1>1, <1>2, <2>1
<1>4. \A x \in E : x \in Int /\ -M <= x /\ x <= M /\ a * Down(x) >= b * Up(x) * half
  BY <1>1
<1>5. T \in SUBSET (1 .. (2 * M + 1)) /\ T # {} /\ 2 * M + 1 \in Nat
  <2> HIDE DEF E
  <2>1. \A x \in E : x + M + 1 \in 1 .. (2 * M + 1)
    BY <1>1, <1>4
  <2> QED BY <1>1, <1>3, <2>1
<1>6. PICK t \in T : \A u \in T : u <= t
  <2> HIDE DEF T
  <2> QED BY <1>5, GreatestNumber
<1>7. PICK x \in E : t = x + M + 1
  BY <1>6
<1>8. \A y \in E : y <= x
  <2> TAKE y \in E
  <2>1. y + M + 1 <= x + M + 1
    BY <1>6, <1>7
  <2> HIDE DEF E
  <2> QED BY <1>1, <1>4, <2>1
<1>9. x \in Int /\ -M <= x /\ x <= M /\ a * Down(x) >= b * Up(x) * half
  BY <1>4
<1>10. a * Down(x) < b * Up(x) * all
  <2>1. CASE x = M
    BY <1>2, <2>1
  <2>2. CASE x # M
    <3>1. x + 1 \in (- M) .. M /\ x + 1 \in Int /\ ~ (x + 1 <= x)
      BY <1>1, <1>9, <2>2
    <3>2. ~ (a * Down(x + 1) >= b * Up(x + 1) * half)
      BY <1>8, <3>1
    <3> HIDE DEF E, T, M
    <3>3. /\ Up(x) \in Nat \ {0} /\ Down(x) \in Nat \ {0}
          /\ Up(x + 1) \in Nat \ {0} /\ Down(x + 1) \in Nat \ {0}
      BY <1>9, <3>1, Exponents
    <3>4. a * Down(x + 1) < b * Up(x + 1) * half
      BY <1>1, <3>2, <3>3
    <3>5. CASE x >= 0
      <4>1. Down(x) = 1 /\ Down(x + 1) = 1 /\ Up(x + 1) = 2 * Up(x)
        <5>1. x + 1 >= 0
          BY <1>9, <3>5
        <5> QED BY <1>9, <3>1, <3>5, <5>1, Exponents
      <4>2. b * (2 * Up(x)) * half = b * Up(x) * (2 * half)
        BY <1>1, <3>3
      <4> QED BY <1>1, <3>4, <4>1, <4>2
    <3>6. CASE x < 0
      <4>1. Up(x) = 1 /\ Up(x + 1) = 1 /\ Down(x) = 2 * Down(x + 1)
        BY <1>9, <3>6, Exponents
      <4>2. a * (2 * Down(x + 1)) = 2 * (a * Down(x + 1)) /\ b * 1 * (2 * half) = 2 * (b * 1 * half)
        BY <1>1, <3>3
      <4>3. a * Down(x + 1) \in Int /\ b * 1 * half \in Int
        BY <1>1, <3>3
      <4> QED BY <1>1, <3>4, <4>1, <4>2, <4>3
    <3> QED BY <1>9, <3>5, <3>6
  <2> QED BY <2>1, <2>2
<1> QED
  BY <1>9, <1>10 DEF ScaledFits

\* The value f nearest to a / b is m * U / D, where m is less than one half off.
Rounding(a, b, f, m, U, D) ==
  /\ m \in Nat /\ U \in Nat \ {0} /\ D \in Nat \ {0}
  /\ U = 1 \/ (U >= 2 /\ D = 1)
  /\ D = 1 \/ \E c \in Nat : D = 2 * c
  /\ b * U * half <= a * D /\ a * D < b * U * all
  /\ 2 * (m * (b * U) - a * D) <= b * U /\ 2 * (a * D - m * (b * U)) <= b * U
  /\ f[1] \in Nat /\ f[2] \in Nat \ {0} /\ f[1] * D = m * U * f[2]

LEMMA NearestRounds ==
  ASSUME FloatAssumption, NEW a, a \in Nat \ {0}, NEW b, b \in Nat \ {0},
         a * PowerOf2(MaxExponent) >= b * half, a < b * PowerOf2(MaxExponent) * all
  PROVE  \E m, U, D : Rounding(a, b, Nearest(a, b), m, U, D)
<1> DEFINE e == CHOOSE x \in (- MaxExponent) .. MaxExponent :
                   /\ a * Down(x) >= b * Up(x) * half
                   /\ a * Down(x) < b * Up(x) * all
           U == Up(e)
           D == Down(e)
           m == Round(a * D, b * U)
           f == Nearest(a, b)
<1>1. half \in Nat \ {0} /\ all = 2 * half /\ MaxExponent \in Nat
  BY Halves
<1>2. /\ e \in (- MaxExponent) .. MaxExponent
      /\ a * D >= b * U * half /\ a * D < b * U * all
  <2>1. \E x \in (- MaxExponent) .. MaxExponent :
          a * Down(x) >= b * Up(x) * half /\ a * Down(x) < b * Up(x) * all
    BY ExponentFits DEF ScaledFits
  <2> QED BY <2>1
<1>3. f = Scaled(m, e)
  BY DEF Nearest, The, half, all
<1> HIDE DEF e
<1>4. e \in Int
  BY <1>1, <1>2
<1>5. /\ U \in Nat \ {0} /\ D \in Nat \ {0}
      /\ U = 1 \/ (U >= 2 /\ D = 1)
  <2>1. CASE e > 0
    BY <1>4, <2>1, Exponents
  <2>2. CASE e < 0
    BY <1>4, <2>2, Exponents
  <2>3. CASE e = 0
    BY <1>4, <2>3, Exponents DEF Up
  <2> QED BY <1>4, <2>1, <2>2, <2>3
<1>10. D = 1 \/ \E c \in Nat : D = 2 * c
  <2>1. CASE e >= 0
    BY <1>4, <2>1, Exponents
  <2>2. CASE e < 0
    <3>1. e + 1 \in Int
      BY <1>4
    <3>2. Down(e + 1) \in Nat \ {0} /\ D = 2 * Down(e + 1)
      BY <1>4, <2>2, <3>1, Exponents
    <3> QED BY <3>2
  <2> QED BY <1>4, <2>1, <2>2
<1>6. a * D \in Nat /\ b * U \in Nat \ {0}
  BY <1>5
<1>7. m \in Nat /\ 2 * (m * (b * U) - a * D) <= b * U /\ 2 * (a * D - m * (b * U)) <= b * U
  BY <1>6, RoundedByHalf
<1>8. f[1] \in Nat /\ f[2] \in Nat \ {0} /\ f[1] * D = m * U * f[2]
  <2>1. CASE m # all
    <3>1. f = <<m * U, D>>
      BY <1>3, <2>1 DEF Scaled, all
    <3> HIDE DEF m, U, D, f
    <3> QED BY <1>5, <1>7, <3>1
  <2>2. CASE m = all
    <3> DEFINE V == Up(e + 1)
               C == Down(e + 1)
    <3>1. all \div 2 = half
      BY <1>1
    <3>2. f = <<half * V, C>>
      BY <1>3, <2>2, <3>1 DEF Scaled, all
    <3>3. V \in Nat \ {0} /\ C \in Nat \ {0}
      BY <1>4, Exponents
    <3>4. \/ U = 1 /\ V = 1 /\ D = 2 * C
          \/ V = 2 * U /\ D = 1 /\ C = 1
      <4>1. CASE e < 0
        BY <1>4, <4>1, Exponents
      <4>2. CASE e >= 0
        <5>1. e + 1 >= 0 /\ e + 1 \in Int
          BY <1>4, <4>2
        <5> QED BY <1>4, <4>2, <5>1, Exponents
      <4> QED BY <1>4, <4>1, <4>2
    <3> HIDE DEF m, U, D, f, V, C
    <3>5. f[1] = half * V /\ f[2] = C
      BY <3>2
    <3>6. CASE U = 1 /\ V = 1 /\ D = 2 * C
      BY <1>1, <2>2, <3>3, <3>5, <3>6
    <3>7. CASE V = 2 * U /\ D = 1 /\ C = 1
      BY <1>1, <1>5, <2>2, <3>3, <3>5, <3>7
    <3> QED BY <3>4, <3>6, <3>7
  <2> QED BY <2>1, <2>2
<1> HIDE DEF m, U, D, f
<1>9. Rounding(a, b, f, m, U, D)
  BY <1>2, <1>5, <1>7, <1>8, <1>10 DEF Rounding
<1> QED
  BY <1>9 DEF f
----------------------------------------------------------------------------
(***************************************************************************)
(* The share.                                                              *)
(***************************************************************************)
\* A number that a float holds stays as it is.
LEMMA CastIsExact ==
  ASSUME FloatAssumption, NEW n, n \in Nat \ {0}, n <= all, NEW f, NEW m, NEW U, NEW D,
         Rounding(n, 1, f, m, U, D)
  PROVE  f[1] = n * f[2]
<1>1. half \in Nat \ {0} /\ all = 2 * half
  BY Halves
<1>2. /\ m \in Nat /\ U \in Nat \ {0} /\ D \in Nat \ {0}
      /\ U = 1 \/ (U >= 2 /\ D = 1)
      /\ U * half <= n * D
      /\ 2 * (m * U - n * D) <= U /\ 2 * (n * D - m * U) <= U
      /\ f[1] \in Nat /\ f[2] \in Nat \ {0} /\ f[1] * D = m * U * f[2]
  <2>1. U \in Nat \ {0} => 1 * U = U
    OBVIOUS
  <2> QED BY <2>1 DEF Rounding
<1>3. CASE U = 1
  <2>1. m = n * D
    <3>1. n * D \in Nat /\ m * 1 = m
      BY <1>2
    <3> QED BY <1>2, <1>3, <3>1
  <2>2. f[1] * D = (n * f[2]) * D
    BY <1>2, <1>3, <2>1
  <2>3. n * f[2] \in Int /\ f[1] \in Int
    BY <1>2
  <2> QED BY <1>2, <2>2, <2>3, ShorterProduct
<1>4. CASE U >= 2 /\ D = 1
  <2>1. U * half <= 2 * half
    BY <1>1, <1>2, <1>4
  <2>2. U = 2
    BY <1>1, <1>2, <1>4, <2>1, ShorterProduct
  <2>3. n = 2 * half
    BY <1>1, <1>2, <1>4, <2>2
  <2>4. m = half
    BY <1>1, <1>2, <1>4, <2>2, <2>3
  <2>5. f[1] = half * 2 * f[2]
    BY <1>2, <1>4, <2>2, <2>4
  <2> QED BY <1>1, <1>2, <2>3, <2>5
<1> QED
  BY <1>2, <1>3, <1>4

LEMMA RoundedUpIs ==
  ASSUME NEW f, f[1] \in Nat, f[2] \in Nat \ {0}
  PROVE  LET n == RoundedUp(f)
         IN  n \in Nat /\ n * f[2] >= f[1] /\ (n - 1) * f[2] < f[1]
<1> DEFINE a == f[1]
           b == f[2]
           q == (a + b - 1) \div b
           r == (a + b - 1) % b
<1>1. a \in Nat /\ b \in Nat \ {0} /\ a + b - 1 \in Nat
  OBVIOUS
<1>2. RoundedUp(f) = q
  BY DEF RoundedUp, The
<1>3. q \in Nat /\ r \in Nat /\ r < b /\ a + b - 1 = q * b + r
  <2> DEFINE c == a + b - 1
  <2>1. c \in Nat
    BY <1>1
  <2> HIDE DEF c, b
  <2>2. c \div b \in Nat /\ c % b \in Nat /\ c % b < b /\ c = (c \div b) * b + (c % b)
    BY <1>1, <2>1, Division
  <2> QED BY <2>2 DEF c
<1> HIDE DEF a, b, q, r
<1>4. (q - 1) * b = q * b - b /\ q * b \in Int
  BY <1>1, <1>3
<1>5. q * b >= a /\ (q - 1) * b < a
  BY <1>1, <1>3, <1>4
<1> QED
  BY <1>2, <1>3, <1>5 DEF a, b

\* The quotient of exact values, rounded, and rounded up.
LEMMA QuotientIsShared ==
  ASSUME FloatAssumption, NEW N, N \in Nat \ {0}, N <= all, NEW S, S \in Nat \ {0},
         NEW d, d \in Nat \ {0}, NEW f, NEW m, NEW U, NEW D,
         Rounding(N * d, d * S, f, m, U, D)
  PROVE  RoundedUp(f) \in Nat /\ RoundedUp(f) * S >= N /\ (RoundedUp(f) - 1) * S < N
<1> DEFINE n == RoundedUp(f)
<1>1. half \in Nat \ {0} /\ all = 2 * half
  BY Halves
<1>2. /\ m \in Nat /\ U \in Nat \ {0} /\ D \in Nat \ {0}
      /\ U = 1 \/ (U >= 2 /\ D = 1)
      /\ d * S * U * half <= N * d * D
      /\ 2 * (m * (d * S * U) - N * d * D) <= d * S * U
      /\ 2 * (N * d * D - m * (d * S * U)) <= d * S * U
      /\ f[1] \in Nat /\ f[2] \in Nat \ {0} /\ f[1] * D = m * U * f[2]
  BY DEF Rounding
<1>3. n \in Nat /\ n * f[2] >= f[1] /\ (n - 1) * f[2] < f[1]
  BY <1>2, RoundedUpIs
<1> HIDE DEF n
<1>4. /\ S * U * half <= N * D
      /\ 2 * (m * (S * U) - N * D) <= S * U
      /\ 2 * (N * D - m * (S * U)) <= S * U
  <2> DEFINE x == S * U * half
             y == N * D
             z == m * (S * U)
             w == S * U
  <2>1. x \in Int /\ y \in Int /\ z \in Int /\ w \in Int
    BY <1>1, <1>2
  <2>2. /\ d * S * U * half = x * d /\ N * d * D = y * d
        /\ m * (d * S * U) = z * d /\ d * S * U = w * d
    BY <1>1, <1>2
  <2> HIDE DEF x, y, z, w
  <2>3. 2 * (z * d - y * d) = (2 * (z - y)) * d /\ 2 * (y * d - z * d) = (2 * (y - z)) * d
    BY <2>1
  <2>4. x * d <= y * d /\ (2 * (z - y)) * d <= w * d /\ (2 * (y - z)) * d <= w * d
    BY <1>2, <2>2, <2>3
  <2>5. 2 * (z - y) \in Int /\ 2 * (y - z) \in Int
    BY <2>1
  <2>6. x <= y /\ 2 * (z - y) <= w /\ 2 * (y - z) <= w
    BY <2>1, <2>4, <2>5, ShorterProduct
  <2> QED BY <2>6 DEF x, y, z, w
<1>5. CASE U = 1
  <2>1. /\ S * half <= N * D
        /\ 2 * (m * S - N * D) <= S
        /\ 2 * (N * D - m * S) <= S
    <3>1. S * 1 = S
      OBVIOUS
    <3> QED BY <1>4, <1>5, <3>1
  <2>2. N * D \in Int /\ m * S \in Int /\ S * half \in Int /\ n * D \in Int
    BY <1>1, <1>2, <1>3
  <2>3. f[1] * D = m * f[2]
    BY <1>2, <1>5
  <2>4. m <= n * D
    <3>1. f[1] * D <= (n * f[2]) * D
      BY <1>2, <1>3, LargerProduct
    <3>2. m * f[2] <= (n * D) * f[2]
      BY <1>2, <1>3, <2>3, <3>1
    <3> QED BY <1>2, <2>2, <3>2, ShorterProduct
  <2>5. (n - 1) * D < m
    <3> DEFINE k == n - 1
    <3>1. k \in Int /\ k * f[2] < f[1]
      BY <1>3
    <3> HIDE DEF k
    <3>2. (k * f[2]) * D < f[1] * D
      BY <1>2, <3>1
    <3>3. (k * D) * f[2] < m * f[2] /\ k * D \in Int
      BY <1>2, <2>3, <3>1, <3>2
    <3>4. k * D < m
      BY <1>2, <3>3, ShorterProduct
    <3> QED BY <3>4 DEF k
  <2>6. n * S >= N
    <3> SUFFICES ASSUME n * S + 1 <= N PROVE FALSE
      BY <1>3
    <3>1. n * S * D + D <= N * D
      <4>1. n * S \in Int /\ n * S + 1 \in Int
        BY <1>3
      <4>2. (n * S + 1) * D <= N * D
        BY <1>2, <4>1, LargerProduct
      <4>3. (n * S + 1) * D = n * S * D + D
        BY <1>2, <4>1
      <4> QED BY <4>2, <4>3
    <3>2. m * S <= n * S * D
      <4>1. m * S <= (n * D) * S
        BY <1>2, <2>2, <2>4, LargerProduct
      <4> QED BY <1>2, <1>3, <4>1
    <3>3. 2 * D <= S
      <4>1. n * S * D \in Int
        BY <1>2, <1>3
      <4> QED BY <1>2, <2>1, <2>2, <3>1, <3>2, <4>1
    <3>4. half <= m
      <4>1. (2 * half - 1) * S <= (2 * m) * S
        <5>1. (2 * half - 1) * S = 2 * (S * half) - S /\ (2 * m) * S = 2 * (m * S)
          BY <1>1, <1>2
        <5> QED BY <2>1, <2>2, <5>1
      <4>2. 2 * half - 1 <= 2 * m
        BY <1>1, <1>2, <4>1, ShorterProduct
      <4> QED BY <1>1, <1>2, <4>2
    <3>5. S * half < D * (2 * half)
      <4>1. half * S <= m * S
        BY <1>1, <1>2, <3>4, LargerProduct
      <4>2. N * D <= (2 * half) * D
        BY <1>1, <1>2, LargerProduct
      <4>3. half * S = S * half /\ (2 * half) * D = D * (2 * half) /\ n * S * D \in Int
        BY <1>1, <1>2, <1>3
      <4>4. D * (2 * half) \in Int
        BY <1>1, <1>2
      <4> QED BY <1>2, <2>2, <3>1, <3>2, <4>1, <4>2, <4>3, <4>4
    <3>6. S * half < (2 * D) * half
      BY <1>1, <1>2, <3>5
    <3>7. S < 2 * D
      BY <1>1, <1>2, <3>6, ShorterProduct
    <3> QED BY <1>2, <3>3, <3>7
  <2>7. (n - 1) * S < N
    <3> DEFINE k == n - 1
    <3>1. k \in Int /\ k * D + 1 <= m
      BY <1>2, <1>3, <2>5
    <3> SUFFICES ASSUME N <= k * S PROVE FALSE
      BY <1>3
    <3> HIDE DEF k
    <3>2. k * D * S + S <= m * S
      <4>1. k * D \in Int /\ k * D + 1 \in Int
        BY <1>2, <3>1
      <4>2. (k * D + 1) * S <= m * S
        BY <1>2, <3>1, <4>1, LargerProduct
      <4>3. (k * D + 1) * S = k * D * S + S
        BY <4>1
      <4> QED BY <4>2, <4>3
    <3>3. N * D <= k * D * S
      <4>1. k * S \in Int
        BY <3>1
      <4>2. N * D <= (k * S) * D
        BY <1>2, <4>1, LargerProduct
      <4> QED BY <1>2, <3>1, <4>2
    <3>4. k * D * S \in Int
      BY <1>2, <3>1
    <3> QED BY <2>1, <2>2, <3>2, <3>3, <3>4
  <2> QED BY <1>3, <2>6, <2>7 DEF n
<1>6. CASE U >= 2 /\ D = 1
  <2>1. (S * U) * half <= 2 * half
    BY <1>1, <1>2, <1>4, <1>6
  <2>2. S * U <= 2
    <3>1. S * U \in Int
      BY <1>2
    <3> QED BY <1>1, <2>1, <3>1, ShorterProduct
  <2>3. U = 2 /\ S = 1
    <3>1. 1 * U <= S * U
      BY <1>2, LargerProduct
    <3>2. U = 2
      BY <1>2, <1>6, <2>2, <3>1
    <3> QED BY <2>2, <3>2
  <2>4. N = 2 * half
    BY <1>1, <1>4, <1>6, <2>3
  <2>5. m = half
    BY <1>1, <1>2, <1>4, <1>6, <2>3, <2>4
  <2>6. f[1] = N * f[2]
    BY <1>1, <1>2, <1>6, <2>3, <2>4, <2>5
  <2>7. N <= n
    BY <1>2, <1>3, <2>6, ShorterProduct
  <2>8. n - 1 < N
    <3>1. n - 1 \in Int
      BY <1>3
    <3> QED BY <1>2, <1>3, <2>6, <3>1, ShorterProduct
  <2> QED BY <1>3, <2>3, <2>7, <2>8 DEF n
<1> QED
  BY <1>2, <1>5, <1>6
----------------------------------------------------------------------------
(***************************************************************************)
(* The invariant.                                                          *)
(***************************************************************************)
\* What is cast is still the number of samples, and what is divided rounds up to the share.
ShareInvariant ==
  /\ population_size \in 1 .. MaxPopulation /\ total_servants \in 1 .. MaxServants
  /\ share_pc = "divide" /\ IsExact =>
       value[2] \in Nat \ {0} /\ value[1] = population_size * value[2]
  /\ share_pc = "ceil" /\ IsExact =>
       /\ RoundedUp(value) \in Nat
       /\ RoundedUp(value) * total_servants >= population_size
       /\ (RoundedUp(value) - 1) * total_servants < population_size
  /\ share_pc = "done" /\ IsExact => size \in Nat
  /\ ShareIsExact

\* Numbers of samples and servants have an exponent, whatever their quotient is scaled by.
LEMMA Numbers ==
  ASSUME FloatAssumption, WorkSizeAssumption,
         NEW n \in 1 .. MaxPopulation, NEW k \in 1 .. MaxServants, NEW d \in Nat \ {0}
  PROVE  /\ n * d \in Nat \ {0} /\ d * k \in Nat \ {0}
         /\ (n * d) * PowerOf2(MaxExponent) >= (d * k) * half
         /\ n * d < (d * k) * PowerOf2(MaxExponent) * all
<1> DEFINE X == PowerOf2(MaxExponent)
<1>1. half \in Nat \ {0} /\ all = 2 * half /\ MaxExponent \in Nat
  BY Halves
<1>2. X \in Nat \ {0}
  BY <1>1, Powers
<1>3. MaxPopulation <= X /\ MaxServants * half <= X /\ MaxPopulation \in Nat /\ MaxServants \in Nat
  BY DEF WorkSizeAssumption, half
<1> HIDE DEF X
<1>4. n \in Nat \ {0} /\ n <= X /\ k \in Nat \ {0} /\ k <= MaxServants
  BY <1>2, <1>3
<1>5. n * d \in Nat \ {0} /\ d * k \in Nat \ {0}
  BY <1>4
<1>6. (d * k) * half <= (n * d) * X
  <2>1. k * half <= MaxServants * half
    BY <1>1, <1>3, <1>4, LargerProduct
  <2>2. 1 * X <= n * X
    BY <1>2, <1>4, LargerProduct
  <2>3. k * half \in Int /\ n * X \in Int /\ MaxServants * half \in Int
    BY <1>1, <1>2, <1>3, <1>4
  <2>4. k * half <= n * X
    BY <1>2, <1>3, <2>1, <2>2, <2>3
  <2>5. (k * half) * d <= (n * X) * d
    BY <2>3, <2>4, LargerProduct
  <2>6. (k * half) * d = (d * k) * half /\ (n * X) * d = (n * d) * X
    BY <1>1, <1>2, <1>4
  <2> QED BY <2>5, <2>6
<1>7. n * d < (d * k) * X * all
  <2>1. n * d <= X * d
    BY <1>2, <1>4, LargerProduct
  <2>2. 1 * (X * d) <= k * (X * d)
    BY <1>2, <1>4, LargerProduct
  <2>3. X * d \in Nat \ {0} /\ k * (X * d) \in Nat \ {0}
    BY <1>2, <1>4
  <2>4. 2 * (k * (X * d)) <= all * (k * (X * d))
    BY <1>1, <2>3, LargerProduct
  <2>5. all * (k * (X * d)) = (d * k) * X * all
    BY <1>1, <1>2, <1>4
  <2>6. n * d \in Int /\ (d * k) * X * all \in Int
    BY <1>1, <1>2, <1>4
  <2> QED BY <2>1, <2>2, <2>3, <2>4, <2>5, <2>6
<1> QED
  BY <1>5, <1>6, <1>7 DEF X

LEMMA CastStep ==
  ASSUME FloatAssumption, WorkSizeAssumption, ShareInvariant, Cast
  PROVE  ShareInvariant'
<1> DEFINE n == population_size
<1>1. /\ n' = n /\ total_servants' = total_servants /\ share_pc' = "divide"
      /\ value' = Nearest(n, 1)
  BY DEF Cast, ToFloat, The
<1>2. n \in 1 .. MaxPopulation /\ total_servants \in 1 .. MaxServants
  BY DEF ShareInvariant
<1>3. ASSUME IsExact PROVE value'[2] \in Nat \ {0} /\ value'[1] = n * value'[2]
  <2>1. n \in Nat \ {0} /\ n * 1 = n /\ 1 * 1 = 1 /\ 1 \in 1 .. MaxServants /\ 1 \in Nat \ {0}
    BY <1>2 DEF WorkSizeAssumption
  <2>2. n * PowerOf2(MaxExponent) >= 1 * half /\ n < 1 * PowerOf2(MaxExponent) * all
    BY <1>2, <2>1, Numbers
  <2>3. PICK m, U, D : Rounding(n, 1, value', m, U, D)
    BY <1>1, <2>1, <2>2, NearestRounds
  <2>4. n <= all
    BY <1>3 DEF IsExact, all
  <2>5. value'[1] = n * value'[2]
    BY <2>1, <2>3, <2>4, CastIsExact
  <2> QED BY <2>3, <2>5 DEF Rounding
<1>4. IsExact' = IsExact
  BY <1>1 DEF IsExact
<1> QED
  BY <1>1, <1>2, <1>3, <1>4 DEF ShareInvariant, ShareIsExact

LEMMA DivideStep ==
  ASSUME FloatAssumption, WorkSizeAssumption, ShareInvariant, Divide
  PROVE  ShareInvariant'
<1> DEFINE n == population_size
           k == total_servants
           d == value[2]
<1>1. /\ n' = n /\ k' = k /\ share_pc' = "ceil"
      /\ value' = Nearest(value[1], d * k)
  BY DEF Divide, DividedBy, The
<1>2. n \in 1 .. MaxPopulation /\ k \in 1 .. MaxServants
  BY DEF ShareInvariant
<1>3. ASSUME IsExact
      PROVE  /\ RoundedUp(value') \in Nat
             /\ RoundedUp(value') * k >= n /\ (RoundedUp(value') - 1) * k < n
  <2>1. d \in Nat \ {0} /\ value[1] = n * d
    BY <1>3 DEF ShareInvariant, Divide
  <2>2. n \in Nat \ {0} /\ k \in Nat \ {0}
    BY <1>2
  <2>3. n <= all
    BY <1>3 DEF IsExact, all
  <2>4. value' = Nearest(n * d, d * k)
    BY <1>1, <2>1
  <2> HIDE DEF n, k, d
  <2>5. /\ n * d \in Nat \ {0} /\ d * k \in Nat \ {0}
        /\ (n * d) * PowerOf2(MaxExponent) >= (d * k) * half
        /\ n * d < (d * k) * PowerOf2(MaxExponent) * all
    BY <1>2, <2>1, Numbers
  <2>6. PICK m, U, D : Rounding(n * d, d * k, value', m, U, D)
    BY <2>4, <2>5, NearestRounds
  <2> QED BY <2>1, <2>2, <2>3, <2>6, QuotientIsShared
<1>4. IsExact' = IsExact
  BY <1>1 DEF IsExact
<1> QED
  BY <1>1, <1>2, <1>3, <1>4 DEF ShareInvariant, ShareIsExact

\* THEOREM: every sample has a servant, and no servant idles that has a share, for any
\* width of the float, as long as it holds the number of samples (quic.cpp:280).
THEOREM ShareIsAlwaysExact ==
  ASSUME FloatAssumption, WorkSizeAssumption
  PROVE  ShareSpec => []ShareInvariant /\ []ShareIsExact
<1>1. ShareInit => ShareInvariant
  BY DEF ShareInit, ShareInvariant, ShareIsExact
<1>2. ShareInvariant /\ [ShareNext]_share => ShareInvariant'
  <2> SUFFICES ASSUME ShareInvariant, [ShareNext]_share PROVE ShareInvariant'
    OBVIOUS
  <2>1. CASE Cast
    BY <2>1, CastStep
  <2>2. CASE Divide
    BY <2>2, DivideStep
  <2>3. CASE RoundUp
    BY <2>3 DEF RoundUp, ceil, ShareInvariant, ShareIsExact, IsExact
  <2>4. CASE UNCHANGED share
    BY <2>4 DEF share, ShareInvariant, ShareIsExact, IsExact
  <2> QED BY <2>1, <2>2, <2>3, <2>4 DEF ShareNext, ShareDone
<1>3. ShareInvariant => ShareIsExact
  BY DEF ShareInvariant
<1> QED
  BY <1>1, <1>2, <1>3, PTL DEF ShareSpec

\* THEOREM: this is the quotient rounded up, the WorkSize that QuicMpi computes with.
THEOREM ShareIsWorkSize ==
  ASSUME FloatAssumption, WorkSizeAssumption
  PROVE  ShareSpec => [](share_pc = "done" /\ IsExact =>
                      size = (population_size + total_servants - 1) \div total_servants)
<1>1. ShareInvariant =>
        (share_pc = "done" /\ IsExact =>
           size = (population_size + total_servants - 1) \div total_servants)
  <2> SUFFICES ASSUME ShareInvariant, share_pc = "done", IsExact
               PROVE  size = (population_size + total_servants - 1) \div total_servants
    OBVIOUS
  <2> DEFINE n == population_size
             k == total_servants
             q == (n + k - 1) \div k
             r == (n + k - 1) % k
  <2>1. n \in Nat \ {0} /\ k \in Nat \ {0}
    BY DEF ShareInvariant, WorkSizeAssumption
  <2>2. n + k - 1 \in Nat
    BY <2>1
  <2>3. size \in Nat /\ size * k >= n /\ (size - 1) * k < n
    BY DEF ShareInvariant, ShareIsExact
  <2>4. q \in Nat /\ r \in Nat /\ r < k /\ n + k - 1 = q * k + r
    <3> DEFINE c == n + k - 1
    <3>1. c \in Nat
      BY <2>2
    <3> HIDE DEF c, k
    <3> QED BY <2>1, <3>1, Division DEF c
  <2> HIDE DEF n, k, q, r
  <2>5. size * k < (q + 1) * k /\ q * k < (size + 1) * k
    <3>1. /\ (size - 1) * k = size * k - k /\ (q + 1) * k = q * k + k
          /\ (size + 1) * k = size * k + k /\ size * k \in Int /\ q * k \in Int
      BY <2>1, <2>3, <2>4
    <3> QED BY <2>1, <2>2, <2>3, <2>4, <3>1
  <2>6. size < q + 1 /\ q < size + 1
    <3>1. q + 1 \in Int /\ size + 1 \in Int
      BY <2>3, <2>4
    <3> QED BY <2>1, <2>3, <2>4, <2>5, <3>1, ShorterProduct
  <2>7. size = q
    BY <2>3, <2>4, <2>6
  <2> QED BY <2>7 DEF n, k, q
<1>2. ShareSpec => []ShareInvariant
  BY ShareIsAlwaysExact
<1> QED
  BY <1>1, <1>2, PTL
----------------------------------------------------------------------------
(***************************************************************************)
(* Products.                                                               *)
(***************************************************************************)
Multiplying(q) == [k \in DOMAIN q |-> [x \in Nat |-> q[k] * x]]

LEMMA ProductIsRecursive ==
  ASSUME NEW n, n \in Nat, NEW q, q \in [1 .. n -> Nat]
  PROVE  \E f : Recursive(f, n, Nat, 1, Multiplying(q)) /\ f[n] = Product(q)
<1> DEFINE product == CHOOSE g : g = [k \in 0 .. n |-> IF k = 0 THEN 1 ELSE q[k] * g[k - 1]]
<1>1. Product(q) = product[n]
  <2>1. q \in Seq(Nat) /\ Len(q) = n
    OBVIOUS
  <2> QED BY <2>1 DEF Product
<1>2. 1 \in Nat /\ Multiplying(q) \in [1 .. n -> [Nat -> Nat]]
  BY DEF Multiplying
<1>3. PICK f : Recursive(f, n, Nat, 1, Multiplying(q))
  BY <1>2, Recursion
<1>4. f = [k \in 0 .. n |-> IF k = 0 THEN 1 ELSE q[k] * f[k - 1]]
  <2>1. f \in [0 .. n -> Nat] /\ f[0] = 1 /\ \A k \in 1 .. n : f[k] = Multiplying(q)[k][f[k - 1]]
    BY <1>3 DEF Recursive
  <2>2. ASSUME NEW k \in 0 .. n PROVE f[k] = IF k = 0 THEN 1 ELSE q[k] * f[k - 1]
    <3>1. CASE k = 0
      BY <2>1, <3>1
    <3>2. CASE k # 0
      <4>1. k \in 1 .. n /\ k - 1 \in 0 .. n
        BY <3>2
      <4>2. f[k - 1] \in Nat /\ k \in DOMAIN q
        BY <2>1, <4>1
      <4> QED BY <2>1, <3>2, <4>1, <4>2 DEF Multiplying
    <3> QED BY <3>1, <3>2
  <2> QED BY <2>1, <2>2
<1>5. product = [k \in 0 .. n |-> IF k = 0 THEN 1 ELSE q[k] * product[k - 1]]
  BY <1>4
<1> HIDE DEF product
<1>6. Recursive(product, n, Nat, 1, Multiplying(q))
  <2> DEFINE G == {k \in 0 .. n : product[k] \in Nat}
  <2>1. 0 \in G
    BY <1>5
  <2>2. ASSUME NEW k \in 1 .. n, k - 1 \in G PROVE k \in G
    <3>1. k \in 0 .. n /\ k # 0 /\ product[k - 1] \in Nat /\ q[k] \in Nat
      BY <2>2
    <3>2. product[k] = q[k] * product[k - 1]
      BY <1>5, <3>1
    <3> QED BY <3>1, <3>2
  <2>3. G \in SUBSET (0 .. n)
    OBVIOUS
  <2> HIDE DEF G
  <2>4. G = 0 .. n
    BY <2>1, <2>2, <2>3, StepByStep
  <2>5. \A k \in 0 .. n : product[k] \in Nat
    BY <2>4 DEF G
  <2>6. product \in [0 .. n -> Nat]
    BY <1>5, <2>5
  <2>7. ASSUME NEW k \in 1 .. n PROVE product[k] = Multiplying(q)[k][product[k - 1]]
    <3>1. k \in 0 .. n /\ k # 0 /\ k - 1 \in 0 .. n /\ k \in DOMAIN q
      OBVIOUS
    <3>2. product[k] = q[k] * product[k - 1]
      BY <1>5, <3>1
    <3> QED BY <2>5, <3>1, <3>2 DEF Multiplying
  <2>8. product[0] = 1
    BY <1>5
  <2> QED BY <2>6, <2>7, <2>8 DEF Recursive
<1> QED
  BY <1>1, <1>6

\* Each factor multiplies the product of those before it.
LEMMA Products ==
  ASSUME NEW n, n \in Nat, NEW q, q \in [1 .. n -> Nat]
  PROVE  LET P(k) == Product([j \in 1 .. k |-> q[j]])
         IN  P(0) = 1 /\ \A k \in 1 .. n : P(k) = q[k] * P(k - 1) /\ P(k - 1) \in Nat
<1> DEFINE P(k) == Product([j \in 1 .. k |-> q[j]])
<1>1. PICK f : Recursive(f, n, Nat, 1, Multiplying(q))
  <2>1. 1 \in Nat /\ Multiplying(q) \in [1 .. n -> [Nat -> Nat]]
    BY DEF Multiplying
  <2> QED BY <2>1, Recursion
<1>2. f \in [0 .. n -> Nat] /\ f[0] = 1 /\ \A k \in 1 .. n : f[k] = q[k] * f[k - 1]
  <2>1. f \in [0 .. n -> Nat] /\ f[0] = 1 /\ \A k \in 1 .. n : f[k] = Multiplying(q)[k][f[k - 1]]
    BY <1>1 DEF Recursive
  <2>2. \A k \in 1 .. n : f[k - 1] \in Nat /\ k \in DOMAIN q
    <3> TAKE k \in 1 .. n
    <3>1. k - 1 \in 0 .. n
      OBVIOUS
    <3> QED BY <2>1, <3>1
  <2> QED BY <2>1, <2>2 DEF Multiplying
<1>3. ASSUME NEW m \in 0 .. n PROVE P(m) = f[m]
  <2> DEFINE r == [j \in 1 .. m |-> q[j]]
  <2>1. r \in [1 .. m -> Nat] /\ m \in Nat /\ \A j \in 1 .. m : r[j] = q[j] /\ j \in 1 .. n
    OBVIOUS
  <2> HIDE DEF r
  <2>2. PICK g : Recursive(g, m, Nat, 1, Multiplying(r)) /\ g[m] = Product(r)
    BY <2>1, ProductIsRecursive
  <2>3. g \in [0 .. m -> Nat] /\ g[0] = 1 /\ \A k \in 1 .. m : g[k] = Multiplying(r)[k][g[k - 1]]
    BY <2>2 DEF Recursive
  <2> DEFINE G == {k \in 0 .. m : g[k] = f[k]}
  <2>4. 0 \in G
    BY <1>2, <2>1, <2>3
  <2>5. ASSUME NEW k \in 1 .. m, k - 1 \in G PROVE k \in G
    <3>1. k \in DOMAIN r /\ k - 1 \in 0 .. m /\ g[k - 1] = f[k - 1] /\ k \in 0 .. m
      BY <2>1, <2>5
    <3>2. g[k] = r[k] * g[k - 1]
      BY <2>3, <3>1 DEF Multiplying
    <3> QED BY <1>2, <2>1, <3>1, <3>2
  <2>6. G \in SUBSET (0 .. m)
    OBVIOUS
  <2> HIDE DEF G
  <2>7. G = 0 .. m
    BY <2>1, <2>4, <2>5, <2>6, StepByStep
  <2>8. g[m] = f[m]
    BY <2>1, <2>7 DEF G
  <2> QED BY <2>2, <2>8 DEF r
<1>4. \A k \in 1 .. n : k \in 0 .. n /\ k - 1 \in 0 .. n
  OBVIOUS
<1> HIDE DEF P
<1>5. P(0) = 1 /\ \A k \in 1 .. n : P(k) = q[k] * P(k - 1) /\ P(k - 1) \in Nat
  BY <1>2, <1>3, <1>4
<1> QED
  BY <1>5 DEF P
----------------------------------------------------------------------------
(***************************************************************************)
(* Digits of a number in the mixed base.                                   *)
(***************************************************************************)
\* A digit and what is below it.
LEMMA MixedBase ==
  ASSUME NEW n, n \in Nat, NEW w, w \in Nat \ {0}, NEW c, c \in Nat \ {0}
  PROVE  /\ c * w \in Nat \ {0}
         /\ (n \div w) % c \in 0 .. c - 1
         /\ n % (c * w) = ((n \div w) % c) * w + (n % w)
         /\ n \div (c * w) = (n \div w) \div c
<1> DEFINE q == n \div w
           r == n % w
           h == q \div c
           d == q % c
<1>1. q \in Nat /\ r \in Nat /\ r < w /\ n = q * w + r
  BY Division
<1> HIDE DEF q, r
<1>2. h \in Nat /\ d \in Nat /\ d < c /\ q = h * c + d
  BY <1>1, Division
<1> HIDE DEF h, d
<1>3. c * w \in Nat \ {0}
  OBVIOUS
<1>4. d * w + r \in Nat /\ d * w + r < c * w
  <2>1. (d + 1) * w <= c * w
    BY <1>2, LargerProduct
  <2>2. (d + 1) * w = d * w + w /\ d * w \in Nat
    BY <1>2
  <2> QED BY <1>1, <1>3, <2>1, <2>2
<1>5. n = h * (c * w) + (d * w + r)
  <2>1. q * w = (h * c) * w + d * w
    BY <1>2
  <2>2. (h * c) * w = h * (c * w) /\ h * (c * w) \in Int /\ d * w \in Int
    BY <1>2
  <2> QED BY <1>1, <2>1, <2>2
<1>6. n \div (c * w) = h /\ n % (c * w) = d * w + r
  BY <1>2, <1>3, <1>4, <1>5, QuotientIs
<1>7. d \in 0 .. c - 1
  BY <1>2
<1> QED
  BY <1>3, <1>6, <1>7 DEF h, d, q, r

\* A multiple has no remainder.
LEMMA Multiples ==
  ASSUME NEW n, NEW w, NEW c, n \in Nat, w \in Nat \ {0}, c \in Nat \ {0}
  PROVE  n % (c * w) = 0 <=> n % w = 0 /\ (n \div w) % c = 0
<1>1. n % w \in Nat /\ (n \div w) % c \in Nat /\ n % (c * w) = ((n \div w) % c) * w + (n % w)
  <2>1. n % w \in Nat /\ n \div w \in Nat
    BY Division
  <2>2. (n \div w) % c \in Nat
    BY <2>1, Division
  <2> QED BY <2>1, <2>2, MixedBase
<1> DEFINE d == (n \div w) % c
           r == n % w
<1> HIDE DEF d, r
<1>2. d * w + r = 0 <=> r = 0 /\ d = 0
  <2>1. d \in Nat /\ r \in Nat
    BY <1>1 DEF d, r
  <2>2. d * w \in Nat /\ (d * w = 0 <=> d = 0)
    BY <2>1
  <2> QED BY <2>1, <2>2
<1> QED
  BY <1>1, <1>2 DEF d, r

\* The next number: where it is no multiple nothing carries; where it is one the digit is the next,
\* and starts again after the last.
LEMMA NothingCarries ==
  ASSUME NEW n, n \in Nat, NEW w, w \in Nat \ {0}, (n + 1) % w # 0
  PROVE  (n + 1) \div w = n \div w
<1> DEFINE q == (n + 1) \div w
           r == (n + 1) % w
<1>1. q \in Nat /\ r \in Nat /\ r < w /\ n + 1 = q * w + r /\ r # 0
  <2>1. n + 1 \in Nat
    OBVIOUS
  <2> QED BY <2>1, Division
<1> HIDE DEF q, r
<1>2. q * w \in Int /\ r - 1 \in Nat /\ r - 1 < w
  BY <1>1
<1>3. n = q * w + (r - 1)
  BY <1>1, <1>2
<1>4. n \div w = q
  BY <1>1, <1>2, <1>3, QuotientIs
<1> QED
  BY <1>4 DEF q

LEMMA NextDigit ==
  ASSUME NEW n, n \in Nat, NEW w, w \in Nat \ {0}, NEW c, c \in Nat \ {0}, (n + 1) % w = 0
  PROVE  /\ ((n \div w) % c) + 1 < c => ((n + 1) \div w) % c = ((n \div w) % c) + 1
         /\ ((n \div w) % c) + 1 = c => ((n + 1) \div w) % c = 0
<1> DEFINE q == (n + 1) \div w
<1>1. q \in Nat /\ n + 1 = q * w
  <2>1. n + 1 \in Nat
    OBVIOUS
  <2>2. q \in Nat /\ n + 1 = q * w + ((n + 1) % w) /\ q * w \in Int
    BY <2>1, Division
  <2> QED BY <2>2
<1> HIDE DEF q
<1>2. q # 0
  BY <1>1
<1>3. n \div w = q - 1
  <2>1. q - 1 \in Nat /\ w - 1 \in Nat /\ w - 1 < w
    BY <1>1, <1>2
  <2>2. (q - 1) * w = q * w - w /\ q * w \in Int
    BY <1>1
  <2>3. n = (q - 1) * w + (w - 1)
    BY <1>1, <2>2
  <2> QED BY <2>1, <2>3, QuotientIs
<1> DEFINE p == q - 1
           h == p \div c
           d == p % c
<1>4. p \in Nat /\ q = p + 1 /\ n \div w = p
  BY <1>1, <1>2, <1>3
<1> HIDE DEF p
<1>5. h \in Nat /\ d \in Nat /\ d < c /\ p = h * c + d
  BY <1>4, Division
<1> HIDE DEF h, d
<1>6. ASSUME d + 1 < c PROVE q % c = d + 1
  <2>1. q = h * c + (d + 1) /\ d + 1 \in Nat
    <3>1. h * c \in Int
      BY <1>5
    <3> QED BY <1>4, <1>5, <3>1
  <2> QED BY <1>1, <1>5, <1>6, <2>1, QuotientIs
<1>7. ASSUME d + 1 = c PROVE q % c = 0
  <2>1. (h + 1) * c = h * c + c /\ h * c \in Int /\ h + 1 \in Nat
    BY <1>5
  <2>2. q = (h + 1) * c + 0 /\ 0 \in Nat /\ 0 < c
    BY <1>4, <1>5, <1>7, <2>1
  <2> DEFINE m == h + 1
  <2>3. m \in Nat /\ q = m * c + 0
    BY <2>1, <2>2
  <2> HIDE DEF m
  <2> QED BY <1>1, <2>2, <2>3, QuotientIs
<1> QED
  BY <1>4, <1>6, <1>7 DEF q, d
----------------------------------------------------------------------------
(***************************************************************************)
(* The values of the dimensions, as the odometer turns through them.       *)
(***************************************************************************)
Dims == ranges \in Seq(RangeChoices) /\ sets \in Seq(SortedSets)

LEMMA DimensionTypes ==
  ASSUME Dims
  PROVE  /\ Len(ranges) \in Nat /\ Len(sets) \in Nat /\ dimensions \in Nat
         /\ \A d \in 1 .. Len(ranges) : ranges[d] \in RangeChoices
         /\ \A d \in 1 .. Len(sets) : sets[d] \in SortedSets
         /\ \A d \in 1 .. dimensions : d > Len(ranges) => d - Len(ranges) \in 1 .. Len(sets)
<1>1. Len(ranges) \in Nat /\ Len(sets) \in Nat
      /\ (\A d \in 1 .. Len(ranges) : ranges[d] \in RangeChoices)
      /\ (\A d \in 1 .. Len(sets) : sets[d] \in SortedSets)
  BY DEF Dims
<1> QED
  BY <1>1 DEF dimensions

\* Whether dimension d starts again after the value v, and which value follows if not.
IsLast(d, v) ==
  IF d <= Len(ranges)
    THEN ~ NotMore(Plus(v, <<ranges[d].step, 1>>), atof(ranges[d].max))
    ELSE Position(sets[d - Len(ranges)], v) = Len(sets[d - Len(ranges)])

After(d, v) ==
  IF d <= Len(ranges)
    THEN Plus(v, <<ranges[d].step, 1>>)
    ELSE atof(sets[d - Len(ranges)][Position(sets[d - Len(ranges)], v) + 1])

\* The values that follow the first one, numbered from 0.
ValueAt(d, n) ==
  LET turn[k \in 0 .. n] == IF k = 0 THEN FirstValue(d) ELSE After(d, turn[k - 1])
  IN  turn[n]

\* Dimension d turns through c values; or it ends at none, and turns for ever.
EndsAfter(d, c) ==
  /\ IsLast(d, ValueAt(d, c - 1))
  /\ \A k \in 0 .. c - 2 : ~ IsLast(d, ValueAt(d, k))

Ends(d) == \E n \in Nat : IsLast(d, ValueAt(d, n))

Count(d) == CHOOSE c \in Nat \ {0} : EndsAfter(d, c)

AllEnd == \A d \in 1 .. dimensions : Ends(d)

\* A dimension's values up to the n-th, as a function.
IsWalk(f, d, n) ==
  /\ f = [k \in 0 .. n |-> f[k]]
  /\ f[0] = FirstValue(d)
  /\ \A k \in 1 .. n : f[k] = After(d, f[k - 1])

LEMMA WalkExists ==
  ASSUME NEW d, NEW n, n \in Nat
  PROVE  \E f : IsWalk(f, d, n)
<1> DEFINE G == {m \in 0 .. n : \E f : IsWalk(f, d, m)}
<1>1. 0 \in G
  <2> DEFINE f == [k \in 0 .. 0 |-> FirstValue(d)]
  <2>1. IsWalk(f, d, 0)
    BY DEF IsWalk
  <2> HIDE DEF f
  <2> QED BY <2>1
<1>2. ASSUME NEW m \in 1 .. n, m - 1 \in G PROVE m \in G
  <2>1. PICK f : IsWalk(f, d, m - 1)
    BY <1>2
  <2>2. f[0] = FirstValue(d) /\ \A k \in 1 .. m - 1 : f[k] = After(d, f[k - 1])
    BY <2>1 DEF IsWalk
  <2> DEFINE g == [k \in 0 .. m |-> IF k = m THEN After(d, f[m - 1]) ELSE f[k]]
  <2>3. g = [k \in 0 .. m |-> g[k]] /\ g[0] = FirstValue(d)
    BY <2>2
  <2>4. \A k \in 1 .. m : g[k] = After(d, g[k - 1])
    <3> TAKE k \in 1 .. m
    <3>1. k - 1 \in 0 .. m /\ k \in 0 .. m /\ k - 1 # m /\ g[k - 1] = f[k - 1]
      OBVIOUS
    <3>2. CASE k = m
      <4>1. g[k] = After(d, f[m - 1])
        BY <3>1, <3>2
      <4> QED BY <3>1, <3>2, <4>1
    <3>3. CASE k # m
      <4>1. k \in 1 .. m - 1 /\ g[k] = f[k]
        BY <3>3
      <4> QED BY <2>2, <3>1, <4>1
    <3> QED BY <3>2, <3>3
  <2> HIDE DEF g
  <2>5. IsWalk(g, d, m)
    BY <2>3, <2>4 DEF IsWalk
  <2> QED BY <2>5
<1>3. G \in SUBSET (0 .. n)
  OBVIOUS
<1> HIDE DEF G
<1>4. G = 0 .. n
  BY <1>1, <1>2, <1>3, StepByStep
<1>5. n \in G
  BY <1>4
<1> QED
  BY <1>5 DEF G

\* Two of them agree as far as both go.
LEMMA WalksAgree ==
  ASSUME NEW d, NEW m, m \in Nat, NEW n, n \in Nat, NEW f, IsWalk(f, d, m), NEW g, IsWalk(g, d, n),
         NEW k \in 0 .. m, k <= n
  PROVE  f[k] = g[k]
<1> DEFINE G == {i \in 0 .. k : f[i] = g[i]}
<1>1. /\ f[0] = FirstValue(d) /\ \A i \in 1 .. m : f[i] = After(d, f[i - 1])
      /\ g[0] = FirstValue(d) /\ \A i \in 1 .. n : g[i] = After(d, g[i - 1])
  BY DEF IsWalk
<1>2. 0 \in G /\ k \in Nat
  BY <1>1
<1>3. ASSUME NEW i \in 1 .. k, i - 1 \in G PROVE i \in G
  <2>1. i \in 1 .. m /\ i \in 1 .. n /\ i \in 0 .. k /\ f[i - 1] = g[i - 1]
    BY <1>3
  <2> QED BY <1>1, <2>1
<1>4. G \in SUBSET (0 .. k)
  OBVIOUS
<1> HIDE DEF G
<1>5. G = 0 .. k
  BY <1>2, <1>3, <1>4, StepByStep
<1>6. k \in G
  BY <1>5
<1> QED
  BY <1>6 DEF G

LEMMA ValueOfWalk ==
  ASSUME NEW d, NEW n, n \in Nat, NEW f, IsWalk(f, d, n)
  PROVE  ValueAt(d, n) = f[n]
<1> DEFINE turn == CHOOSE g : g = [k \in 0 .. n |-> IF k = 0 THEN FirstValue(d) ELSE After(d, g[k - 1])]
<1>1. ValueAt(d, n) = turn[n]
  BY DEF ValueAt
<1>2. f = [k \in 0 .. n |-> IF k = 0 THEN FirstValue(d) ELSE After(d, f[k - 1])]
  <2>1. /\ f = [k \in 0 .. n |-> f[k]] /\ f[0] = FirstValue(d)
        /\ \A k \in 1 .. n : f[k] = After(d, f[k - 1])
    BY DEF IsWalk
  <2>2. \A k \in 0 .. n : k = 0 \/ k \in 1 .. n
    OBVIOUS
  <2>3. \A k \in 0 .. n : f[k] = IF k = 0 THEN FirstValue(d) ELSE After(d, f[k - 1])
    BY <2>1, <2>2
  <2> QED BY <2>1, <2>3
<1>3. turn = [k \in 0 .. n |-> IF k = 0 THEN FirstValue(d) ELSE After(d, turn[k - 1])]
  BY <1>2
<1> HIDE DEF turn
<1>4. IsWalk(turn, d, n)
  <2>1. 0 \in 0 .. n /\ \A k \in 1 .. n : k \in 0 .. n /\ k # 0
    OBVIOUS
  <2>2. turn[0] = FirstValue(d)
    BY <1>3, <2>1
  <2>3. \A k \in 1 .. n : turn[k] = After(d, turn[k - 1])
    BY <1>3, <2>1
  <2>4. turn = [k \in 0 .. n |-> turn[k]]
    BY <1>3
  <2> QED BY <2>2, <2>3, <2>4 DEF IsWalk
<1>5. turn[n] = f[n]
  <2>1. n \in 0 .. n /\ n <= n
    OBVIOUS
  <2> QED BY <1>4, <2>1, WalksAgree
<1> QED
  BY <1>1, <1>5

LEMMA Values ==
  ASSUME NEW d
  PROVE  /\ ValueAt(d, 0) = FirstValue(d)
         /\ \A n \in Nat : ValueAt(d, n + 1) = After(d, ValueAt(d, n))
<1>1. ValueAt(d, 0) = FirstValue(d)
  <2>1. PICK f : IsWalk(f, d, 0)
    BY WalkExists
  <2>2. ValueAt(d, 0) = f[0]
    BY <2>1, ValueOfWalk
  <2> QED BY <2>1, <2>2 DEF IsWalk
<1>2. ASSUME NEW n \in Nat PROVE ValueAt(d, n + 1) = After(d, ValueAt(d, n))
  <2>1. n + 1 \in Nat /\ n + 1 \in 1 .. n + 1 /\ (n + 1) - 1 = n /\ n \in 0 .. n + 1 /\ n <= n /\ n \in 0 .. n
    OBVIOUS
  <2>2. PICK f : IsWalk(f, d, n + 1)
    BY <2>1, WalkExists
  <2>3. PICK g : IsWalk(g, d, n)
    BY WalkExists
  <2>4. f[n] = g[n]
    BY <2>1, <2>2, <2>3, WalksAgree
  <2>5. f[n + 1] = After(d, f[n])
    BY <2>1, <2>2 DEF IsWalk
  <2>6. ValueAt(d, n + 1) = f[n + 1] /\ ValueAt(d, n) = g[n]
    BY <2>1, <2>2, <2>3, ValueOfWalk
  <2> QED BY <2>4, <2>5, <2>6
<1> QED
  BY <1>1, <1>2

\* One that ends has a first end, which Count counts.
LEMMA CountIs ==
  ASSUME NEW d, NEW c, c \in Nat \ {0}, EndsAfter(d, c)
  PROVE  Ends(d) /\ Count(d) = c
<1>1. c - 1 \in Nat
  OBVIOUS
<1>2. Ends(d)
  BY <1>1 DEF EndsAfter, Ends
<1> DEFINE e == Count(d)
<1>3. e \in Nat \ {0} /\ EndsAfter(d, e)
  BY DEF Count
<1> HIDE DEF e
<1>4. ~ (e < c) /\ ~ (c < e)
  <2>1. e < c => e - 1 \in 0 .. c - 2
    BY <1>3
  <2>2. c < e => c - 1 \in 0 .. e - 2
    BY <1>3
  <2> QED BY <1>3, <2>1, <2>2 DEF EndsAfter
<1> QED
  BY <1>2, <1>3, <1>4 DEF e

LEMMA FirstEnd ==
  ASSUME NEW d, Ends(d)
  PROVE  Count(d) \in Nat \ {0} /\ EndsAfter(d, Count(d))
<1> DEFINE S == {n \in Nat : IsLast(d, ValueAt(d, n))}
<1>1. S \in SUBSET Nat /\ S # {}
  BY DEF Ends
<1>2. PICK m \in S : \A k \in S : m <= k
  <2> HIDE DEF S
  <2> QED BY <1>1, LeastNumber
<1>3. m \in Nat /\ IsLast(d, ValueAt(d, m)) /\ \A k \in Nat : k < m => ~ IsLast(d, ValueAt(d, k))
  <2>1. m \in Nat /\ IsLast(d, ValueAt(d, m))
    OBVIOUS
  <2>2. ASSUME NEW k \in Nat, k < m, IsLast(d, ValueAt(d, k)) PROVE FALSE
    <3>1. k \in S
      BY <2>2
    <3>2. m <= k
      BY <1>2, <3>1
    <3> QED BY <2>1, <2>2, <3>2
  <2> QED BY <2>1, <2>2
<1>4. EndsAfter(d, m + 1)
  <2>1. (m + 1) - 1 = m /\ (m + 1) - 2 = m - 1
    BY <1>3
  <2>2. \A k \in 0 .. m - 1 : k \in Nat /\ k < m
    BY <1>3
  <2> QED BY <1>3, <2>1, <2>2 DEF EndsAfter
<1>5. m + 1 \in Nat \ {0}
  BY <1>3
<1>6. Count(d) = m + 1
  BY <1>4, <1>5, CountIs
<1> QED
  BY <1>4, <1>5, <1>6

\* A dimension that ends has its values once: from a value that came twice it would turn
\* for ever.
LEMMA Counts ==
  ASSUME NEW d, Ends(d)
  PROVE  /\ Count(d) \in Nat \ {0}
         /\ FirstValue(d) = ValueAt(d, 0)
         /\ \A k \in 0 .. Count(d) - 1 : IsLast(d, ValueAt(d, k)) <=> ~ (k + 1 < Count(d))
         /\ \A j, k \in 0 .. Count(d) - 1 : ValueAt(d, j) = ValueAt(d, k) => j = k
<1> DEFINE c == Count(d)
<1>1. c \in Nat \ {0} /\ EndsAfter(d, c)
  BY FirstEnd
<1> HIDE DEF c
<1>2. ASSUME NEW k \in 0 .. c - 1 PROVE IsLast(d, ValueAt(d, k)) <=> ~ (k + 1 < c)
  <2>1. CASE k + 1 < c
    <3>1. k \in 0 .. c - 2
      BY <1>1, <2>1
    <3> QED BY <1>1, <2>1, <3>1 DEF EndsAfter
  <2>2. CASE ~ (k + 1 < c)
    <3>1. k = c - 1
      BY <1>1, <2>2
    <3> QED BY <1>1, <2>2, <3>1 DEF EndsAfter
  <2> QED BY <2>1, <2>2
<1>3. ASSUME NEW j \in 0 .. c - 1, NEW k \in 0 .. c - 1, ValueAt(d, j) = ValueAt(d, k), j < k
      PROVE  FALSE
  <2> DEFINE t == (c - 1) - k
             G == {i \in 0 .. t : ValueAt(d, j + i) = ValueAt(d, k + i)}
  <2>1. t \in Nat /\ j \in Nat /\ k \in Nat
    BY <1>1
  <2>2. 0 \in G
    <3>1. j + 0 = j /\ k + 0 = k /\ 0 \in 0 .. t
      BY <2>1
    <3> QED BY <1>3, <3>1
  <2> HIDE DEF t
  <2>3. ASSUME NEW i \in 1 .. t, i - 1 \in G PROVE i \in G
    <3>1. /\ j + (i - 1) \in Nat /\ k + (i - 1) \in Nat /\ i \in 0 .. t
          /\ j + i = (j + (i - 1)) + 1 /\ k + i = (k + (i - 1)) + 1
      BY <2>1
    <3>2. ValueAt(d, j + (i - 1)) = ValueAt(d, k + (i - 1))
      BY <2>3
    <3>3. /\ ValueAt(d, j + i) = After(d, ValueAt(d, j + (i - 1)))
          /\ ValueAt(d, k + i) = After(d, ValueAt(d, k + (i - 1)))
      BY <3>1, Values
    <3> QED BY <3>1, <3>2, <3>3
  <2>4. G \in SUBSET (0 .. t)
    OBVIOUS
  <2> HIDE DEF G
  <2>5. G = 0 .. t
    BY <2>1, <2>2, <2>3, <2>4, StepByStep
  <2>6. t \in G
    BY <2>1, <2>5
  <2>7. ValueAt(d, j + t) = ValueAt(d, k + t)
    BY <2>6 DEF G
  <2>8. k + t = c - 1 /\ j + t \in 0 .. c - 2
    BY <1>1, <1>3, <2>1 DEF t
  <2> QED BY <1>1, <2>7, <2>8 DEF EndsAfter
<1>4. ASSUME NEW j \in 0 .. c - 1, NEW k \in 0 .. c - 1, ValueAt(d, j) = ValueAt(d, k)
      PROVE  j = k
  <2>1. ~ (j < k)
    BY <1>3, <1>4
  <2>2. ~ (k < j)
    BY <1>3, <1>4
  <2> QED BY <1>1, <2>1, <2>2
<1> QED
  BY <1>1, <1>2, <1>4, Values DEF c
----------------------------------------------------------------------------
(***************************************************************************)
(* Weights.                                                                *)
(***************************************************************************)
\* Weight(d) samples are made from one change of dimension d to the next.
Weight(d) == Product([j \in 1 .. (d - 1) |-> Count(j)])

LEMMA Weights ==
  ASSUME Dims, AllEnd
  PROVE  /\ Weight(1) = 1
         /\ \A d \in 1 .. dimensions + 1 : Weight(d) \in Nat \ {0}
         /\ \A d \in 1 .. dimensions : Weight(d + 1) = Count(d) * Weight(d)
<1> DEFINE q == [j \in 1 .. dimensions |-> Count(j)]
           P(k) == Product([j \in 1 .. k |-> q[j]])
<1>1. dimensions \in Nat
  BY DimensionTypes
<1>2. q \in [1 .. dimensions -> Nat] /\ \A j \in 1 .. dimensions : q[j] = Count(j) /\ q[j] # 0
  BY Counts DEF AllEnd
<1> HIDE DEF q
<1>3. \A k \in 0 .. dimensions : Weight(k + 1) = P(k)
  <2> TAKE k \in 0 .. dimensions
  <2>1. (k + 1) - 1 = k /\ \A j \in 1 .. k : j \in 1 .. dimensions
    BY <1>1
  <2>2. [j \in 1 .. k |-> Count(j)] = [j \in 1 .. k |-> q[j]]
    BY <1>2, <2>1
  <2> QED BY <2>1, <2>2 DEF Weight
<1>4. P(0) = 1 /\ \A k \in 1 .. dimensions : P(k) = q[k] * P(k - 1) /\ P(k - 1) \in Nat
  BY <1>1, <1>2, Products
<1> HIDE DEF P
<1>5. Weight(1) = 1
  <2>1. 0 \in 0 .. dimensions /\ 0 + 1 = 1
    BY <1>1
  <2> QED BY <1>3, <1>4, <2>1
<1>6. \A d \in 1 .. dimensions : Weight(d + 1) = Count(d) * Weight(d)
  <2> TAKE d \in 1 .. dimensions
  <2>1. d \in 0 .. dimensions /\ d - 1 \in 0 .. dimensions /\ (d - 1) + 1 = d
    BY <1>1
  <2> QED BY <1>2, <1>3, <1>4, <2>1
<1>7. \A d \in 1 .. dimensions + 1 : Weight(d) \in Nat \ {0}
  <2> DEFINE G == {k \in 0 .. dimensions : Weight(k + 1) \in Nat \ {0}}
  <2>1. 0 \in G
    <3>1. 0 + 1 = 1 /\ 0 \in 0 .. dimensions
      BY <1>1
    <3> QED BY <1>5, <3>1
  <2>2. ASSUME NEW k \in 1 .. dimensions, k - 1 \in G PROVE k \in G
    <3>1. (k - 1) + 1 = k /\ k \in 0 .. dimensions
      BY <1>1
    <3>2. Weight(k) \in Nat \ {0} /\ Count(k) \in Nat \ {0}
      BY <2>2, <3>1, Counts DEF AllEnd
    <3>3. Weight(k + 1) \in Nat \ {0}
      BY <1>6, <3>2
    <3> QED BY <3>1, <3>3
  <2>3. G \in SUBSET (0 .. dimensions)
    OBVIOUS
  <2> HIDE DEF G
  <2>4. G = 0 .. dimensions
    BY <1>1, <2>1, <2>2, <2>3, StepByStep
  <2> TAKE d \in 1 .. dimensions + 1
  <2>5. d - 1 \in 0 .. dimensions /\ (d - 1) + 1 = d
    BY <1>1
  <2>6. Weight((d - 1) + 1) \in Nat \ {0}
    BY <2>4, <2>5 DEF G
  <2> QED BY <2>5, <2>6
<1> QED
  BY <1>5, <1>6, <1>7
----------------------------------------------------------------------------
(***************************************************************************)
(* The odometer.                                                           *)
(***************************************************************************)
\* The n-th sample, from 0, and the odometer when the dimensions before d have started again.
Digit(n, d)   == (n \div Weight(d)) % Count(d)
Sample(n)     == [d \in 1 .. dimensions |-> ValueAt(d, Digit(n, d))]
Turning(n, d) == [j \in 1 .. dimensions |-> ValueAt(j, IF j < d THEN 0 ELSE Digit(n, j))]

LEMMA DigitTypes ==
  ASSUME Dims, AllEnd, NEW n, n \in Nat, NEW d \in 1 .. dimensions
  PROVE  /\ Weight(d) \in Nat \ {0} /\ Count(d) \in Nat \ {0} /\ Digit(n, d) \in 0 .. Count(d) - 1
         /\ Weight(d + 1) = Count(d) * Weight(d)
         /\ n % Weight(d + 1) = 0 <=> n % Weight(d) = 0 /\ Digit(n, d) = 0
         /\ (n + 1) % Weight(d) = 0 =>
              /\ Digit(n, d) + 1 < Count(d) => Digit(n + 1, d) = Digit(n, d) + 1
              /\ Digit(n, d) + 1 = Count(d) => Digit(n + 1, d) = 0
<1>1. d \in 1 .. dimensions + 1 /\ dimensions \in Nat
  BY DimensionTypes
<1>2. Weight(d) \in Nat \ {0} /\ Count(d) \in Nat \ {0} /\ Weight(d + 1) = Count(d) * Weight(d)
  BY <1>1, Weights, Counts DEF AllEnd
<1> DEFINE w == Weight(d)
           c == Count(d)
<1>3. (n \div w) % c \in 0 .. c - 1 /\ (n % (c * w) = 0 <=> n % w = 0 /\ (n \div w) % c = 0)
  <2> HIDE DEF w, c
  <2>1. w \in Nat \ {0} /\ c \in Nat \ {0}
    BY <1>2 DEF w, c
  <2>2. (n \div w) % c \in 0 .. c - 1
    BY <2>1, MixedBase
  <2>3. n % (c * w) = 0 <=> n % w = 0 /\ (n \div w) % c = 0
    BY <2>1, Multiples
  <2> QED BY <2>2, <2>3
<1>4. ASSUME (n + 1) % w = 0
      PROVE  /\ ((n \div w) % c) + 1 < c => ((n + 1) \div w) % c = ((n \div w) % c) + 1
             /\ ((n \div w) % c) + 1 = c => ((n + 1) \div w) % c = 0
  <2> HIDE DEF w, c
  <2>1. w \in Nat \ {0} /\ c \in Nat \ {0}
    BY <1>2 DEF w, c
  <2> QED BY <1>4, <2>1, NextDigit
<1> QED
  BY <1>2, <1>3, <1>4 DEF Digit

\* A multiple of a weight is one of every weight before it, and has zeros there.
LEMMA MultiplesBelow ==
  ASSUME Dims, AllEnd, NEW n, n \in Nat, NEW e \in 1 .. dimensions + 1, n % Weight(e) = 0
  PROVE  /\ \A d \in 1 .. dimensions + 1 : d <= e => n % Weight(d) = 0
         /\ \A d \in 1 .. dimensions : d < e => Digit(n, d) = 0
<1>1. dimensions \in Nat
  BY DimensionTypes
<1> DEFINE Z(d) == n % Weight(d) = 0
           G == {k \in 0 .. dimensions : \A d \in 1 .. k + 1 : Z(k + 1) => Z(d)}
<1>2. \A d \in 1 .. dimensions : Z(d + 1) => Z(d) /\ Digit(n, d) = 0
  <2> TAKE d \in 1 .. dimensions
  <2> QED BY DigitTypes
<1> HIDE DEF Z
<1>3. 0 \in G
  BY <1>1
<1>4. ASSUME NEW k \in 1 .. dimensions, k - 1 \in G PROVE k \in G
  <2>1. (k - 1) + 1 = k /\ k \in 0 .. dimensions
    BY <1>1
  <2>2. \A d \in 1 .. k : Z(k) => Z(d)
    BY <1>4, <2>1
  <2>3. \A d \in 1 .. k + 1 : d = k + 1 \/ d \in 1 .. k
    OBVIOUS
  <2> QED BY <1>2, <2>1, <2>2, <2>3
<1>5. G \in SUBSET (0 .. dimensions)
  OBVIOUS
<1> HIDE DEF G
<1>6. G = 0 .. dimensions
  BY <1>1, <1>3, <1>4, <1>5, StepByStep
<1>7. \A d \in 1 .. dimensions + 1 : d <= e => Z(d)
  <2>1. e - 1 \in 0 .. dimensions /\ (e - 1) + 1 = e
    BY <1>1
  <2>2. \A d \in 1 .. e : Z(e) => Z(d)
    BY <1>6, <2>1 DEF G
  <2>3. \A d \in 1 .. dimensions + 1 : d <= e => d \in 1 .. e
    BY <1>1
  <2> QED BY <2>2, <2>3 DEF Z
<1>8. \A d \in 1 .. dimensions : d < e => Digit(n, d) = 0
  <2> TAKE d \in 1 .. dimensions
  <2>1. d + 1 \in 1 .. dimensions + 1 /\ (d < e => d + 1 <= e)
    BY <1>1
  <2> QED BY <1>2, <1>7, <2>1
<1> QED
  BY <1>7, <1>8 DEF Z

\* A dimension that has a next value: the sample shown is the next one.
LEMMA Advances ==
  ASSUME Dims, AllEnd, NEW n, n \in Nat, NEW d \in 1 .. dimensions, (n + 1) % Weight(d) = 0,
         Digit(n, d) + 1 < Count(d), n + 1 <= Weight(dimensions + 1)
  PROVE  /\ [Turning(n, d) EXCEPT ![d] = ValueAt(d, Digit(n, d) + 1)] = Sample(n + 1)
         /\ n + 1 < Weight(dimensions + 1)
<1> DEFINE m == n + 1
<1>1. m \in Nat /\ dimensions \in Nat /\ d \in 1 .. dimensions + 1 /\ d + 1 \in 1 .. dimensions + 1
  BY DimensionTypes
<1>2. Digit(m, d) = Digit(n, d) + 1 /\ Digit(n, d) \in Nat
  <2>1. Count(d) \in Nat \ {0} /\ Digit(n, d) \in 0 .. Count(d) - 1
    BY DigitTypes
  <2>2. Digit(n, d) \in Nat
    BY <2>1
  <2>3. Digit(n + 1, d) = Digit(n, d) + 1
    BY DigitTypes
  <2> QED BY <2>2, <2>3
<1>3. m % Weight(d + 1) # 0
  <2>1. Digit(m, d) # 0
    BY <1>2
  <2> HIDE DEF m
  <2> QED BY <1>1, <2>1, DigitTypes
<1>4. \A j \in 1 .. dimensions + 1 : j >= d + 1 => m % Weight(j) # 0
  BY <1>1, <1>3, MultiplesBelow
<1>5. \A j \in 1 .. dimensions : j > d => Digit(m, j) = Digit(n, j)
  <2> TAKE j \in 1 .. dimensions
  <2> HAVE j > d
  <2>1. m % Weight(j) # 0
    BY <1>1, <1>4
  <2>2. Weight(j) \in Nat \ {0}
    BY DigitTypes
  <2> DEFINE w == Weight(j)
  <2> HIDE DEF w
  <2>3. (n + 1) \div w = n \div w
    BY <2>1, <2>2, NothingCarries DEF w
  <2> QED BY <2>3 DEF Digit, w
<1>6. \A j \in 1 .. dimensions : j < d => Digit(m, j) = 0
  BY <1>1, MultiplesBelow
<1>7. ASSUME NEW j \in 1 .. dimensions
      PROVE  [Turning(n, d) EXCEPT ![d] = ValueAt(d, Digit(n, d) + 1)][j] = ValueAt(j, Digit(m, j))
  <2>1. CASE j < d
    BY <1>6, <2>1 DEF Turning
  <2>2. CASE j = d
    BY <1>2, <2>2 DEF Turning
  <2>3. CASE j > d
    BY <1>5, <2>3 DEF Turning
  <2> QED BY <2>1, <2>2, <2>3
<1>8. m # Weight(dimensions + 1)
  <2>1. dimensions + 1 \in 1 .. dimensions + 1 /\ dimensions + 1 >= d + 1
    BY <1>1
  <2>2. m % Weight(dimensions + 1) # 0 /\ Weight(dimensions + 1) \in Nat \ {0}
    BY <1>4, <2>1, Weights
  <2> HIDE DEF m
  <2> SUFFICES ASSUME m = Weight(dimensions + 1) PROVE FALSE
    OBVIOUS
  <2>3. m % m = 0
    <3>1. m = 1 * m + 0 /\ 1 \in Nat /\ 0 \in Nat /\ 0 < m /\ m \in Nat \ {0}
      BY <2>2
    <3> QED BY <3>1, QuotientIs
  <2> QED BY <2>2, <2>3
<1>9. m < Weight(dimensions + 1)
  <2>1. Weight(dimensions + 1) \in Nat
    <3>1. dimensions + 1 \in 1 .. dimensions + 1
      BY <1>1
    <3> QED BY <3>1, Weights
  <2> QED BY <1>1, <1>8, <2>1
<1>10. [Turning(n, d) EXCEPT ![d] = ValueAt(d, Digit(n, d) + 1)]
       = [j \in 1 .. dimensions |-> ValueAt(j, Digit(m, j))]
  BY <1>7 DEF Turning
<1> QED
  BY <1>9, <1>10 DEF Sample

\* One at its last value starts again, and the next one turns.
LEMMA Carries ==
  ASSUME Dims, AllEnd, NEW n, n \in Nat, NEW d \in 1 .. dimensions, (n + 1) % Weight(d) = 0,
         Digit(n, d) + 1 = Count(d)
  PROVE  /\ [Turning(n, d) EXCEPT ![d] = ValueAt(d, 0)] = Turning(n, d + 1)
         /\ (n + 1) % Weight(d + 1) = 0
<1> DEFINE m == n + 1
<1>1. m \in Nat
  OBVIOUS
<1>2. Digit(m, d) = 0 /\ m % Weight(d) = 0
  BY DigitTypes
<1>3. m % Weight(d + 1) = 0
  <2> HIDE DEF m
  <2> QED BY <1>1, <1>2, DigitTypes
<1>4. ASSUME NEW j \in 1 .. dimensions
      PROVE  [Turning(n, d) EXCEPT ![d] = ValueAt(d, 0)][j] = ValueAt(j, IF j < d + 1 THEN 0 ELSE Digit(n, j))
  <2>1. CASE j < d
    BY <2>1 DEF Turning
  <2>2. CASE j = d
    BY <2>2 DEF Turning
  <2>3. CASE j > d
    BY <2>3 DEF Turning
  <2> QED BY <2>1, <2>2, <2>3
<1> QED
  BY <1>3, <1>4 DEF Turning

\* Where nothing has carried the odometer shows the sample, and at first the first.
LEMMA Shows ==
  ASSUME Dims, AllEnd
  PROVE  /\ \A n \in Nat : Turning(n, 1) = Sample(n) /\ n % Weight(1) = 0
         /\ FirstSample = Sample(0)
<1>1. ASSUME NEW n \in Nat PROVE Turning(n, 1) = Sample(n) /\ n % Weight(1) = 0
  <2>1. \A j \in 1 .. dimensions : ~ (j < 1)
    OBVIOUS
  <2>2. n % 1 = 0
    OBVIOUS
  <2> QED BY <2>1, <2>2, Weights DEF Turning, Sample
<1>2. FirstSample = Sample(0)
  <2>1. \A d \in 1 .. dimensions : FirstValue(d) = ValueAt(d, Digit(0, d))
    <3> TAKE d \in 1 .. dimensions
    <3>1. Weight(d) \in Nat \ {0} /\ Count(d) \in Nat \ {0} /\ 0 \in Nat
      BY DigitTypes
    <3>2. 0 \div Weight(d) = 0
      BY <3>1, QuotientIs
    <3>3. 0 % Count(d) = 0
      BY <3>1, QuotientIs
    <3> QED BY <3>2, <3>3, Counts DEF AllEnd, Digit
  <2> QED BY <2>1 DEF FirstSample, Sample
<1> QED
  BY <1>1, <1>2

\* Different samples differ.
LEMMA SamplesDiffer ==
  ASSUME Dims, AllEnd, NEW m, m \in Nat, NEW n, n \in Nat,
         m < Weight(dimensions + 1), n < Weight(dimensions + 1), Sample(m) = Sample(n)
  PROVE  m = n
<1>1. dimensions \in Nat
  BY DimensionTypes
<1>2. \A d \in 1 .. dimensions : Digit(m, d) = Digit(n, d)
  <2> TAKE d \in 1 .. dimensions
  <2>1. Sample(m)[d] = ValueAt(d, Digit(m, d)) /\ Sample(n)[d] = ValueAt(d, Digit(n, d))
    BY DEF Sample
  <2>2. Digit(m, d) \in 0 .. Count(d) - 1 /\ Digit(n, d) \in 0 .. Count(d) - 1
    BY DigitTypes
  <2> QED BY <2>1, <2>2, Counts DEF AllEnd
<1> DEFINE G == {k \in 0 .. dimensions : m % Weight(k + 1) = n % Weight(k + 1)}
<1>3. 0 \in G
  <2>1. 0 \in 0 .. dimensions /\ 0 + 1 = 1
    BY <1>1
  <2>2. m % 1 = 0 /\ n % 1 = 0
    OBVIOUS
  <2> QED BY <2>1, <2>2, Weights
<1>4. ASSUME NEW k \in 1 .. dimensions, k - 1 \in G PROVE k \in G
  <2>1. (k - 1) + 1 = k /\ k \in 0 .. dimensions
    BY <1>1
  <2>2. m % Weight(k) = n % Weight(k)
    BY <1>4, <2>1
  <2>3. Weight(k) \in Nat \ {0} /\ Count(k) \in Nat \ {0} /\ Weight(k + 1) = Count(k) * Weight(k)
    BY DigitTypes
  <2>4. /\ m % Weight(k + 1) = Digit(m, k) * Weight(k) + (m % Weight(k))
        /\ n % Weight(k + 1) = Digit(n, k) * Weight(k) + (n % Weight(k))
    BY <2>3, MixedBase DEF Digit
  <2> QED BY <1>2, <2>1, <2>2, <2>4
<1>5. G \in SUBSET (0 .. dimensions)
  OBVIOUS
<1> HIDE DEF G
<1>6. G = 0 .. dimensions
  BY <1>1, <1>3, <1>4, <1>5, StepByStep
<1> DEFINE w == Weight(dimensions + 1)
<1>7. m % w = n % w
  BY <1>1, <1>6 DEF G
<1>8. w \in Nat \ {0} /\ m < w /\ n < w
  <2>1. dimensions + 1 \in 1 .. dimensions + 1
    BY <1>1
  <2> QED BY <2>1, Weights
<1> HIDE DEF w
<1>9. m % w = m /\ n % w = n
  <2>1. m = 0 * w + m /\ n = 0 * w + n /\ 0 \in Nat
    BY <1>8
  <2> QED BY <1>8, <2>1, QuotientIs
<1> QED
  BY <1>7, <1>9
----------------------------------------------------------------------------
(***************************************************************************)
(* The invariant.                                                          *)
(***************************************************************************)
\* While dimensions that all end turn, the sample shown is the one counted.
OdometerShows ==
  /\ pc = "store" => dimensions > 0 /\ samplenum < Weight(dimensions + 1) /\ s = Sample(samplenum)
  /\ pc = "increment" =>
       /\ samplenum > 0 /\ dim_inc \in 1 .. dimensions
       /\ samplenum % Weight(dim_inc) = 0
       /\ s = Turning(samplenum - 1, dim_inc)
  /\ pc = "generated" => samplenum = Weight(dimensions + 1)
  /\ pc = "overrun" => total_population_size < Weight(dimensions + 1)

SamplesWritten ==
  pc \in {"store", "increment", "generated"} =>
    /\ samples = [n \in 1 .. total_population_size |-> samples[n]]
    /\ samplenum <= Weight(dimensions + 1) /\ samplenum <= total_population_size
    /\ \A n \in 1 .. samplenum : samples[n] = Sample(n - 1)

\* A dimension that never ends is never carried out of.
TurnsForEver(d) ==
  /\ pc \in {"store", "increment"} =>
       /\ s = [j \in 1 .. dimensions |-> s[j]]
       /\ \E k \in Nat : s[d] = ValueAt(d, k)
  /\ pc = "increment" => dim_inc \in 1 .. d
  /\ pc # "generated"

GeneratorInvariant ==
  /\ ranges \in Seq(RangeChoices) /\ sets \in Seq(SortedSets) /\ samplenum \in Nat
  /\ pc \in {"construct", "generate"} => samplenum = 0 /\ dim_inc = 1
  /\ pc # "construct" => total_population_size = ToInt(num_samples)
  /\ pc \in {"store", "increment", "generated"} => total_population_size \in Nat
  /\ AllEnd => OdometerShows /\ SamplesWritten
  /\ \A d \in 1 .. dimensions : ~ Ends(d) => TurnsForEver(d)

\* The dimensions stay, and with them what is made of them.
LEMMA DimensionsStay ==
  ASSUME ranges' = ranges, sets' = sets
  PROVE  /\ dimensions' = dimensions /\ num_samples' = num_samples
         /\ AllEnd' <=> AllEnd
         /\ \A d : Ends(d)' <=> Ends(d)
         /\ \A d, k : ValueAt(d, k)' = ValueAt(d, k)
         /\ Weight(dimensions + 1)' = Weight(dimensions + 1)
         /\ Weight(dim_inc)' = Weight(dim_inc')
         /\ Sample(samplenum)' = Sample(samplenum')
         /\ Turning(samplenum - 1, dim_inc)' = Turning(samplenum' - 1, dim_inc')
         /\ \A n : Sample(n - 1)' = Sample(n - 1)
<1>1. dimensions' = dimensions
  BY DEF dimensions
<1>2. num_samples' = num_samples
  BY DEF num_samples, RangeCount, Quotient
<1>3. \A d, k : ValueAt(d, k)' = ValueAt(d, k)
  BY DEF ValueAt, FirstValue, After
<1>4. \A d : Ends(d)' <=> Ends(d)
  BY DEF Ends, IsLast, ValueAt, FirstValue, After
<1>5. AllEnd' <=> AllEnd
  BY <1>1 DEF AllEnd, Ends, IsLast, ValueAt, FirstValue, After
<1>6. Weight(dimensions + 1)' = Weight(dimensions + 1)
  BY <1>1 DEF Weight, Count, EndsAfter, IsLast, ValueAt, FirstValue, After
<1>7. Weight(dim_inc)' = Weight(dim_inc')
  BY DEF Weight, Count, EndsAfter, IsLast, ValueAt, FirstValue, After
<1>8. Sample(samplenum)' = Sample(samplenum')
  BY <1>1 DEF Sample, Digit, Weight, Count, EndsAfter, IsLast, ValueAt, FirstValue, After
<1>9. Turning(samplenum - 1, dim_inc)' = Turning(samplenum' - 1, dim_inc')
  BY <1>1 DEF Turning, Digit, Weight, Count, EndsAfter, IsLast, ValueAt, FirstValue, After
<1>10. \A n : Sample(n - 1)' = Sample(n - 1)
  BY <1>1 DEF Sample, Digit, Weight, Count, EndsAfter, IsLast, ValueAt, FirstValue, After
<1> QED
  BY <1>1, <1>2, <1>3, <1>4, <1>5, <1>6, <1>7, <1>8, <1>9, <1>10

LEMMA InitRuns ==
  ASSUME GeneratorAssumption, Init
  PROVE  GeneratorInvariant
<1>1. ranges \in Seq(RangeChoices) /\ sets \in Seq(SortedSets)
  BY DEF Init, GeneratorAssumption
<1>2. pc = "construct" /\ samplenum = 0 /\ dim_inc = 1
  BY DEF Init
<1> QED
  BY <1>1, <1>2 DEF GeneratorInvariant, OdometerShows, SamplesWritten, TurnsForEver

LEMMA GenerateStep ==
  ASSUME GeneratorInvariant, Generate
  PROVE  GeneratorInvariant'
<1>1. /\ pc = "generate" /\ ranges' = ranges /\ sets' = sets /\ samplenum' = samplenum
      /\ total_population_size' = total_population_size /\ pc' = "store" /\ s' = FirstSample
      /\ samples' = [k \in 1 .. total_population_size |-> [d \in 1 .. dimensions |-> <<0, 1>>]]
      /\ dimensions # 0 /\ total_population_size \in Nat
  BY DEF Generate
<1>2. /\ Dims /\ samplenum = 0 /\ total_population_size = ToInt(num_samples)
      /\ ranges \in Seq(RangeChoices) /\ sets \in Seq(SortedSets)
  BY <1>1 DEF GeneratorInvariant, Dims
<1>3. ASSUME AllEnd PROVE OdometerShows' /\ SamplesWritten'
  <2>1. Weight(dimensions + 1) \in Nat \ {0}
    <3>1. dimensions + 1 \in 1 .. dimensions + 1
      BY <1>2, DimensionTypes
    <3> QED BY <1>2, <1>3, <3>1, Weights
  <2>2. samplenum' = 0 /\ Weight(dimensions + 1)' = Weight(dimensions + 1) /\ Sample(samplenum)' = Sample(0)
    BY <1>1, <1>2, DimensionsStay
  <2>3. s' = Sample(0)
    BY <1>1, <1>2, <1>3, Shows
  <2>4. samples' = [n \in 1 .. total_population_size' |-> samples'[n]]
    BY <1>1
  <2>5. SamplesWritten'
    BY <1>1, <2>1, <2>2, <2>4 DEF SamplesWritten
  <2>6. OdometerShows'
    <3>1. dimensions' > 0
      BY <1>1, <1>2, DimensionsStay, DimensionTypes
    <3> QED BY <1>1, <2>1, <2>2, <2>3, <3>1 DEF OdometerShows
  <2> QED BY <2>5, <2>6
<1>4. /\ dimensions' = dimensions /\ num_samples' = num_samples /\ (AllEnd' <=> AllEnd)
      /\ (\A d : Ends(d)' <=> Ends(d)) /\ \A d, k : ValueAt(d, k)' = ValueAt(d, k)
  BY <1>1, DimensionsStay
<1>5. total_population_size' = ToInt(num_samples')
  BY <1>1, <1>2, <1>4
<1>6. ASSUME NEW d \in 1 .. dimensions PROVE TurnsForEver(d)'
  <2>1. s' = [j \in 1 .. dimensions |-> s'[j]] /\ s'[d] = FirstValue(d)
    BY <1>1 DEF FirstSample
  <2>2. s'[d] = ValueAt(d, 0)'
    BY <1>4, <2>1, Values
  <2> QED BY <1>1, <1>4, <2>1, <2>2 DEF TurnsForEver
<1> QED
  BY <1>1, <1>2, <1>3, <1>4, <1>5, <1>6 DEF GeneratorInvariant, ToInt

LEMMA StoreStep ==
  ASSUME GeneratorInvariant, Store
  PROVE  GeneratorInvariant'
<1>1. /\ pc = "store" /\ ranges' = ranges /\ sets' = sets /\ samplenum' = samplenum + 1
      /\ total_population_size' = total_population_size /\ dim_inc' = 1 /\ s' = s
      /\ pc' \in {"increment", "overrun"}
      /\ pc' = "increment" =>
           samplenum < total_population_size /\ samples' = [samples EXCEPT ![samplenum + 1] = s]
      /\ pc' = "overrun" => ~ (samplenum < total_population_size)
  BY DEF Store
<1>2. /\ Dims /\ samplenum \in Nat /\ total_population_size = ToInt(num_samples)
      /\ ranges \in Seq(RangeChoices) /\ sets \in Seq(SortedSets) /\ total_population_size \in Nat
  BY <1>1 DEF GeneratorInvariant, Dims
<1>3. ASSUME AllEnd PROVE OdometerShows' /\ SamplesWritten'
  <2> DEFINE W == Weight(dimensions + 1)
             T == total_population_size
  <2>1. W \in Nat \ {0}
    <3>1. dimensions + 1 \in 1 .. dimensions + 1
      BY <1>2, DimensionTypes
    <3> QED BY <1>2, <1>3, <3>1, Weights
  <2>2. /\ samplenum < W /\ s = Sample(samplenum) /\ dimensions > 0
        /\ samples = [n \in 1 .. T |-> samples[n]]
        /\ \A n \in 1 .. samplenum : samples[n] = Sample(n - 1)
    BY <1>1, <1>3 DEF GeneratorInvariant, OdometerShows, SamplesWritten
  <2>3. /\ Weight(dimensions + 1)' = W /\ (\A n : Sample(n - 1)' = Sample(n - 1))
        /\ Weight(dim_inc)' = Weight(1) /\ dimensions' = dimensions
        /\ Turning(samplenum - 1, dim_inc)' = Turning(samplenum, 1)
    <3>1. (samplenum + 1) - 1 = samplenum
      BY <1>2
    <3> QED BY <1>1, <3>1, DimensionsStay
  <2> HIDE DEF W
  <2>4. SamplesWritten'
    <3> SUFFICES ASSUME pc' = "increment" PROVE SamplesWritten'
      BY <1>1 DEF SamplesWritten
    <3>1. samplenum < T /\ samples' = [samples EXCEPT ![samplenum + 1] = s]
      BY <1>1
    <3>2. samplenum + 1 \in 1 .. T /\ samplenum + 1 <= W /\ samplenum + 1 <= T
      BY <1>2, <2>1, <2>2, <3>1
    <3>3. samples' = [n \in 1 .. total_population_size' |-> samples'[n]]
      BY <1>1, <2>2, <3>1
    <3>4. ASSUME NEW n \in 1 .. samplenum + 1 PROVE samples'[n] = Sample(n - 1)
      <4>1. CASE n = samplenum + 1
        <5>1. n - 1 = samplenum
          BY <1>2, <4>1
        <5>2. samples'[n] = s
          BY <2>2, <3>1, <3>2, <4>1
        <5> QED BY <2>2, <5>1, <5>2
      <4>2. CASE n # samplenum + 1
        <5>1. n \in 1 .. samplenum /\ n \in 1 .. T
          BY <1>2, <3>2, <4>2
        <5>2. samples'[n] = samples[n]
          BY <2>2, <3>1, <4>2, <5>1
        <5> QED BY <2>2, <5>1, <5>2
      <4> QED BY <4>1, <4>2
    <3> QED BY <1>1, <2>3, <3>2, <3>3, <3>4 DEF SamplesWritten
  <2>5. OdometerShows'
    <3>1. CASE pc' = "increment"
      <4>1. 1 \in 1 .. dimensions /\ samplenum' > 0
        BY <1>1, <1>2, <2>2, DimensionTypes
      <4>2. samplenum' % Weight(1) = 0 /\ s' = Turning(samplenum, 1)
        <5>1. samplenum + 1 \in Nat
          BY <1>2
        <5> QED BY <1>1, <1>2, <1>3, <2>2, <5>1, Shows
      <4> QED BY <1>1, <2>3, <3>1, <4>1, <4>2 DEF OdometerShows
    <3>2. CASE pc' = "overrun"
      <4>1. total_population_size' < W
        BY <1>1, <1>2, <2>1, <2>2, <3>2
      <4> QED BY <2>3, <3>2, <4>1 DEF OdometerShows
    <3> QED BY <1>1, <3>1, <3>2
  <2> QED BY <2>4, <2>5
<1>4. /\ dimensions' = dimensions /\ num_samples' = num_samples /\ (AllEnd' <=> AllEnd)
      /\ (\A d : Ends(d)' <=> Ends(d)) /\ \A d, k : ValueAt(d, k)' = ValueAt(d, k)
  BY <1>1, DimensionsStay
<1>5. total_population_size' = ToInt(num_samples') /\ samplenum' \in Nat
  BY <1>1, <1>2, <1>4
<1>6. ASSUME NEW d \in 1 .. dimensions, ~ Ends(d) PROVE TurnsForEver(d)'
  <2>1. s = [j \in 1 .. dimensions |-> s[j]] /\ \E k \in Nat : s[d] = ValueAt(d, k)
    BY <1>1, <1>6 DEF GeneratorInvariant, TurnsForEver
  <2>2. 1 \in 1 .. d
    BY <1>2, DimensionTypes
  <2> QED BY <1>1, <1>4, <2>1, <2>2 DEF TurnsForEver
<1> QED
  BY <1>1, <1>2, <1>3, <1>4, <1>5, <1>6 DEF GeneratorInvariant, ToInt

\* What both kinds of dimension do.
LEMMA Turns ==
  ASSUME GeneratorInvariant, IncrementRange \/ IncrementSet
  PROVE  /\ pc = "increment" /\ UNCHANGED <<ranges, sets, total_population_size, samples, samplenum>>
         /\ IF IsLast(dim_inc, s[dim_inc]) THEN Carry ELSE Advance(After(dim_inc, s[dim_inc]))
<1>1. pc = "increment" /\ UNCHANGED <<ranges, sets, total_population_size, samples, samplenum>>
  BY DEF IncrementRange, IncrementSet
<1>2. Dims
  BY DEF GeneratorInvariant, Dims
<1>3. Len(ranges) \in Nat /\ dim_inc \in Nat
  <2>1. CASE AllEnd
    BY <1>1, <1>2, <2>1, DimensionTypes DEF GeneratorInvariant, OdometerShows
  <2>2. CASE ~ AllEnd
    <3>1. PICK d \in 1 .. dimensions : ~ Ends(d)
      BY <2>2 DEF AllEnd
    <3> QED BY <1>1, <1>2, <3>1, DimensionTypes DEF GeneratorInvariant, TurnsForEver
  <2> QED BY <2>1, <2>2
<1>4. CASE IncrementRange
  <2>1. dim_inc <= Len(ranges)
    BY <1>4 DEF IncrementRange
  <2> QED BY <1>1, <1>4, <2>1 DEF IncrementRange, IsLast, After
<1>5. CASE IncrementSet
  <2>1. ~ (dim_inc <= Len(ranges))
    BY <1>3, <1>5 DEF IncrementSet
  <2> QED BY <1>1, <1>5, <2>1 DEF IncrementSet, IsLast, After
<1> QED
  BY <1>4, <1>5

LEMMA IncrementStep ==
  ASSUME GeneratorInvariant, IncrementRange \/ IncrementSet
  PROVE  GeneratorInvariant'
<1>1. /\ pc = "increment" /\ ranges' = ranges /\ sets' = sets /\ samplenum' = samplenum
      /\ total_population_size' = total_population_size /\ samples' = samples
  BY Turns
<1>2. /\ Dims /\ samplenum \in Nat /\ total_population_size = ToInt(num_samples)
      /\ ranges \in Seq(RangeChoices) /\ sets \in Seq(SortedSets) /\ total_population_size \in Nat
  BY <1>1 DEF GeneratorInvariant, Dims
<1>3. IF IsLast(dim_inc, s[dim_inc]) THEN Carry ELSE Advance(After(dim_inc, s[dim_inc]))
  BY Turns
<1>4. ASSUME AllEnd PROVE OdometerShows' /\ SamplesWritten'
  <2> DEFINE W == Weight(dimensions + 1)
             d == dim_inc
             n == samplenum - 1
             k == Digit(n, d)
  <2>1. W \in Nat \ {0}
    <3>1. dimensions + 1 \in 1 .. dimensions + 1
      BY <1>2, DimensionTypes
    <3> QED BY <1>2, <1>4, <3>1, Weights
  <2>2. /\ samplenum > 0 /\ d \in 1 .. dimensions /\ samplenum % Weight(d) = 0 /\ s = Turning(n, d)
        /\ samplenum <= W /\ samplenum <= total_population_size
        /\ samples = [j \in 1 .. total_population_size |-> samples[j]]
        /\ \A j \in 1 .. samplenum : samples[j] = Sample(j - 1)
    BY <1>1, <1>4 DEF GeneratorInvariant, OdometerShows, SamplesWritten
  <2>3. /\ dimensions' = dimensions /\ Weight(dimensions + 1)' = W
        /\ (\A j : Sample(j - 1)' = Sample(j - 1))
        /\ Weight(dim_inc)' = Weight(dim_inc')
        /\ Sample(samplenum)' = Sample(samplenum)
        /\ Turning(samplenum - 1, dim_inc)' = Turning(n, dim_inc')
    BY <1>1, DimensionsStay
  <2>4. n \in Nat /\ n + 1 = samplenum /\ dimensions \in Nat /\ Ends(d)
    BY <1>2, <1>4, <2>2, DimensionTypes DEF AllEnd
  <2>5. /\ Count(d) \in Nat \ {0} /\ k \in 0 .. Count(d) - 1 /\ FirstValue(d) = ValueAt(d, 0)
        /\ IsLast(d, ValueAt(d, k)) <=> ~ (k + 1 < Count(d))
    <3>1. Count(d) \in Nat \ {0} /\ k \in 0 .. Count(d) - 1
      BY <1>2, <1>4, <2>2, <2>4, DigitTypes
    <3> HIDE DEF k
    <3> QED BY <2>4, <3>1, Counts
  <2>6. s[d] = ValueAt(d, k)
    <3>1. ~ (d < d)
      BY <2>2, <2>4
    <3> QED BY <2>2, <3>1 DEF Turning
  <2>7. SamplesWritten'
    BY <1>1, <2>2, <2>3 DEF SamplesWritten
  <2> HIDE DEF W, k, n
  <2>8. CASE k + 1 < Count(d)
    <3>1. After(d, s[d]) = ValueAt(d, k + 1)
      <4>1. k \in Nat
        BY <2>5
      <4> QED BY <2>6, <4>1, Values
    <3>2. Advance(After(d, s[d]))
      BY <1>3, <2>5, <2>6, <2>8
    <3>3. s' = [s EXCEPT ![d] = ValueAt(d, k + 1)] /\ pc' = "store"
      BY <3>1, <3>2 DEF Advance
    <3>4. s' = Sample(samplenum) /\ samplenum < W
      <4>1. n + 1 <= Weight(dimensions + 1) /\ (n + 1) % Weight(d) = 0 /\ Digit(n, d) + 1 < Count(d)
        BY <2>2, <2>4, <2>8 DEF k, W
      <4>2. /\ [Turning(n, d) EXCEPT ![d] = ValueAt(d, Digit(n, d) + 1)] = Sample(n + 1)
            /\ n + 1 < Weight(dimensions + 1)
        BY <1>2, <1>4, <2>2, <2>4, <4>1, Advances
      <4> QED BY <2>2, <2>4, <3>3, <4>2 DEF k, W
    <3>5. dimensions > 0
      BY <2>2, <2>4
    <3> QED BY <1>1, <2>3, <2>7, <3>3, <3>4, <3>5 DEF OdometerShows
  <2>9. CASE ~ (k + 1 < Count(d))
    <3>1. Carry
      BY <1>3, <2>5, <2>6, <2>9
    <3>2. s' = [s EXCEPT ![d] = ValueAt(d, 0)] /\ dim_inc' = d + 1
          /\ pc' = IF d + 1 > dimensions THEN "generated" ELSE "increment"
      BY <2>5, <3>1 DEF Carry
    <3>3. k + 1 = Count(d)
      BY <2>5, <2>9
    <3>4. s' = Turning(n, d + 1) /\ samplenum % Weight(d + 1) = 0
      <4>1. (n + 1) % Weight(d) = 0 /\ Digit(n, d) + 1 = Count(d)
        BY <2>2, <2>4, <3>3 DEF k
      <4>2. /\ [Turning(n, d) EXCEPT ![d] = ValueAt(d, 0)] = Turning(n, d + 1)
            /\ (n + 1) % Weight(d + 1) = 0
        BY <1>2, <1>4, <2>2, <2>4, <4>1, Carries
      <4> QED BY <2>2, <2>4, <3>2, <4>2
    <3>5. CASE d + 1 > dimensions
      <4>1. d = dimensions /\ samplenum % W = 0
        BY <2>2, <2>4, <3>4, <3>5 DEF W
      <4>2. samplenum = W
        <5> SUFFICES ASSUME samplenum < W PROVE FALSE
          BY <1>2, <2>1, <2>2
        <5>1. samplenum = 0 * W + samplenum /\ 0 \in Nat
          BY <1>2, <2>1
        <5>2. samplenum % W = samplenum
          BY <1>2, <2>1, <5>1, QuotientIs
        <5> QED BY <2>2, <4>1, <5>2
      <4> QED BY <1>1, <2>3, <2>7, <3>2, <3>5, <4>2 DEF OdometerShows
    <3>6. CASE ~ (d + 1 > dimensions)
      <4>1. d + 1 \in 1 .. dimensions
        BY <2>2, <2>4, <3>6
      <4> QED BY <1>1, <2>2, <2>3, <2>7, <3>2, <3>4, <3>6, <4>1 DEF OdometerShows
    <3> QED BY <3>5, <3>6
  <2> QED BY <2>8, <2>9
<1>5. ASSUME NEW d \in 1 .. dimensions, ~ Ends(d) PROVE TurnsForEver(d)'
  <2> DEFINE e == dim_inc
  <2>1. /\ s = [j \in 1 .. dimensions |-> s[j]] /\ e \in 1 .. d
        /\ \E k \in Nat : s[d] = ValueAt(d, k)
    BY <1>1, <1>5 DEF GeneratorInvariant, TurnsForEver
  <2>2. PICK k \in Nat : s[d] = ValueAt(d, k)
    BY <2>1
  <2>3. ~ IsLast(d, s[d]) /\ After(d, s[d]) = ValueAt(d, k + 1)
    BY <1>5, <2>2, Values DEF Ends
  <2>4. dimensions' = dimensions /\ dimensions \in Nat /\ \A j : ValueAt(d, j)' = ValueAt(d, j)
    BY <1>1, <1>2, DimensionsStay, DimensionTypes
  <2>5. CASE IsLast(e, s[e])
    <3>1. /\ s' = [s EXCEPT ![e] = FirstValue(e)] /\ dim_inc' = e + 1 /\ e # d
          /\ pc' = IF e + 1 > dimensions THEN "generated" ELSE "increment"
      BY <1>3, <2>3, <2>5 DEF Carry
    <3>2. e + 1 \in 1 .. d /\ ~ (e + 1 > dimensions)
      BY <2>1, <2>4, <3>1
    <3>3. s' = [j \in 1 .. dimensions |-> s'[j]] /\ s'[d] = s[d]
      BY <2>1, <3>1
    <3> QED BY <2>2, <2>4, <3>1, <3>2, <3>3 DEF TurnsForEver
  <2>6. CASE ~ IsLast(e, s[e])
    <3>1. s' = [s EXCEPT ![e] = After(e, s[e])] /\ pc' = "store"
      BY <1>3, <2>6 DEF Advance
    <3>2. s' = [j \in 1 .. dimensions |-> s'[j]]
      BY <2>1, <3>1
    <3>3. s'[d] = IF e = d THEN ValueAt(d, k + 1) ELSE ValueAt(d, k)
      BY <2>1, <2>2, <2>3, <3>1
    <3>4. \E j \in Nat : s'[d] = ValueAt(d, j)
      BY <3>3
    <3> QED BY <2>4, <3>1, <3>2, <3>4 DEF TurnsForEver
  <2> QED BY <2>5, <2>6
<1>6. /\ dimensions' = dimensions /\ num_samples' = num_samples /\ (AllEnd' <=> AllEnd)
      /\ \A d : Ends(d)' <=> Ends(d)
  BY <1>1, DimensionsStay
<1>7. total_population_size' = ToInt(num_samples') /\ pc' \notin {"construct", "generate"}
  BY <1>1, <1>2, <1>3, <1>6 DEF Advance, Carry
<1> QED
  BY <1>1, <1>2, <1>4, <1>5, <1>6, <1>7 DEF GeneratorInvariant, ToInt

LEMMA RunStep ==
  ASSUME GeneratorInvariant, [Next]_vars
  PROVE  GeneratorInvariant'
<1>1. CASE Construct \/ GenerateFails
  <2>1. /\ ranges' = ranges /\ sets' = sets /\ samplenum' = samplenum
        /\ dim_inc' = dim_inc /\ samplenum = 0 /\ dim_inc = 1 /\ pc' \in {"generate", "failed"}
        /\ total_population_size' = ToInt(num_samples)
    BY <1>1 DEF Construct, GenerateFails, GeneratorInvariant
  <2>2. /\ dimensions' = dimensions /\ num_samples' = num_samples /\ (AllEnd' <=> AllEnd)
        /\ \A d : Ends(d)' <=> Ends(d)
    BY <2>1, DimensionsStay
  <2>3. total_population_size' = ToInt(num_samples')
    BY <2>1, <2>2
  <2> QED BY <2>1, <2>2, <2>3
          DEF GeneratorInvariant, OdometerShows, SamplesWritten, TurnsForEver, ToInt
<1>2. CASE UNCHANGED vars
  <2>1. /\ ranges' = ranges /\ sets' = sets /\ samplenum' = samplenum /\ pc' = pc /\ dim_inc' = dim_inc
        /\ total_population_size' = total_population_size /\ samples' = samples /\ s' = s
    BY <1>2 DEF vars
  <2>2. /\ dimensions' = dimensions /\ num_samples' = num_samples /\ (AllEnd' <=> AllEnd)
        /\ Weight(dimensions + 1)' = Weight(dimensions + 1)
        /\ Weight(dim_inc)' = Weight(dim_inc)
        /\ Sample(samplenum)' = Sample(samplenum)
        /\ Turning(samplenum - 1, dim_inc)' = Turning(samplenum - 1, dim_inc)
        /\ \A n : Sample(n - 1)' = Sample(n - 1)
        /\ \A d : Ends(d)' <=> Ends(d)
        /\ \A d, k : ValueAt(d, k)' = ValueAt(d, k)
    BY <2>1, DimensionsStay
  <2>3. total_population_size = ToInt(num_samples) => total_population_size' = ToInt(num_samples')
    BY <2>1, <2>2
  <2>4. SamplesWritten => SamplesWritten'
    BY <2>1, <2>2 DEF SamplesWritten
  <2>5. OdometerShows => OdometerShows'
    BY <2>1, <2>2 DEF OdometerShows
  <2>6. \A d : TurnsForEver(d) => TurnsForEver(d)'
    BY <2>1, <2>2 DEF TurnsForEver
  <2> QED BY <2>1, <2>2, <2>3, <2>4, <2>5, <2>6 DEF GeneratorInvariant, ToInt
<1> QED
  BY <1>1, <1>2, GenerateStep, StoreStep, IncrementStep DEF Next, Done
----------------------------------------------------------------------------
(***************************************************************************)
(* The combinations.                                                       *)
(***************************************************************************)
LEMMA WeightsGrow ==
  ASSUME Dims, AllEnd, NEW d \in 1 .. dimensions + 1
  PROVE  Weight(d) <= Weight(dimensions + 1)
<1> DEFINE G == {k \in 0 .. dimensions : \A e \in 1 .. k + 1 : Weight(e) <= Weight(k + 1)}
<1>1. dimensions \in Nat
  BY DimensionTypes
<1>2. 0 \in G
  <2>1. 0 \in 0 .. dimensions /\ 0 + 1 = 1 /\ 1 \in 1 .. dimensions + 1 /\ \A e \in 1 .. 0 + 1 : e = 1
    BY <1>1
  <2>2. Weight(1) <= Weight(1)
    BY <2>1, Weights
  <2> QED BY <2>1, <2>2
<1>3. ASSUME NEW k \in 1 .. dimensions, k - 1 \in G PROVE k \in G
  <2>1. (k - 1) + 1 = k /\ k \in 0 .. dimensions /\ k \in 1 .. dimensions + 1
    BY <1>1
  <2>2. \A e \in 1 .. k : Weight(e) <= Weight(k)
    BY <1>3, <2>1
  <2>3. Weight(k) \in Nat \ {0} /\ Count(k) \in Nat \ {0} /\ Weight(k + 1) = Count(k) * Weight(k)
    BY <2>1, Weights, Counts DEF AllEnd
  <2>4. Weight(k) <= Weight(k + 1) /\ Weight(k + 1) \in Nat
    <3> DEFINE w == Weight(k)
               c == Count(k)
    <3>1. w \in Nat /\ c \in Nat /\ 1 <= c /\ Weight(k + 1) = c * w
      BY <2>3
    <3> HIDE DEF w, c
    <3>2. 1 * w <= c * w
      BY <3>1, LargerProduct
    <3>3. w <= c * w /\ c * w \in Nat
      BY <3>1, <3>2
    <3> QED BY <3>1, <3>3 DEF w
  <2>5. ASSUME NEW e \in 1 .. k + 1 PROVE Weight(e) <= Weight(k + 1)
    <3>1. CASE e = k + 1
      BY <2>4, <3>1
    <3>2. CASE e # k + 1
      <4>1. e \in 1 .. k /\ e \in 1 .. dimensions + 1
        BY <1>1, <3>2
      <4>2. Weight(e) \in Nat /\ Weight(e) <= Weight(k)
        BY <2>2, <4>1, Weights
      <4> QED BY <2>3, <2>4, <4>2
    <3> QED BY <3>1, <3>2
  <2> QED BY <2>1, <2>5
<1>4. G \in SUBSET (0 .. dimensions)
  OBVIOUS
<1> HIDE DEF G
<1>5. G = 0 .. dimensions
  BY <1>1, <1>2, <1>3, <1>4, StepByStep
<1>6. dimensions \in G
  BY <1>1, <1>5
<1> QED
  BY <1>6 DEF G

\* What has been stored in each dimension at the end, and how much that is.
LEMMA StoredValues ==
  ASSUME GeneratorInvariant, AllEnd, pc = "generated", NEW d \in 1 .. dimensions
  PROVE  /\ Stored(d) = {ValueAt(d, k) : k \in 0 .. Count(d) - 1}
         /\ Cardinality(Stored(d)) = Count(d)
<1> DEFINE W == Weight(dimensions + 1)
           C == Count(d)
           T == {ValueAt(d, k) : k \in 0 .. C - 1}
<1>1. /\ Dims /\ samplenum \in Nat /\ samplenum = W
      /\ \A n \in 1 .. W : samples[n] = Sample(n - 1)
  BY DEF GeneratorInvariant, OdometerShows, SamplesWritten, Dims
<1>2. dimensions \in Nat /\ d \in 1 .. dimensions + 1 /\ d + 1 \in 1 .. dimensions + 1
  BY <1>1, DimensionTypes
<1>3. /\ C \in Nat \ {0} /\ Weight(d) \in Nat \ {0} /\ W \in Nat /\ Weight(d + 1) = C * Weight(d)
      /\ Weight(d + 1) <= W
  <2>1. dimensions + 1 \in 1 .. dimensions + 1
    BY <1>2
  <2> QED BY <1>1, <1>2, <2>1, Weights, WeightsGrow, Counts DEF AllEnd
<1>4. \A n \in 1 .. W : n - 1 \in Nat /\ samples[n][d] = ValueAt(d, Digit(n - 1, d))
  <2> TAKE n \in 1 .. W
  <2>1. n - 1 \in Nat /\ samples[n] = Sample(n - 1)
    BY <1>1, <1>3
  <2>2. Sample(n - 1)[d] = ValueAt(d, Digit(n - 1, d))
    BY DEF Sample
  <2> QED BY <2>1, <2>2
<1>5. Stored(d) \subseteq T
  <2>1. ASSUME NEW n \in 1 .. W PROVE samples[n][d] \in T
    <3>1. Digit(n - 1, d) \in 0 .. C - 1
      BY <1>1, <1>4, DigitTypes
    <3> QED BY <1>4, <3>1
  <2> QED BY <1>1, <2>1 DEF Stored
<1>6. ASSUME NEW k \in 0 .. C - 1 PROVE ValueAt(d, k) \in Stored(d)
  <2> DEFINE w == Weight(d)
             m == k * w
  <2>1. w \in Nat \ {0} /\ k \in Nat /\ k + 1 <= C /\ 0 <= 0
    BY <1>3
  <2> HIDE DEF w
  <2>2. m \in Nat /\ m = k * w + 0 /\ 0 \in Nat /\ 0 < w
    BY <2>1
  <2>3. m + 1 <= W
    <3>1. (k + 1) * w <= C * w
      <4>1. k + 1 \in Int /\ C \in Int /\ w \in Nat
        BY <1>3, <2>1
      <4> HIDE DEF C
      <4> QED BY <2>1, <4>1, LargerProduct
    <3>2. (k + 1) * w = m + w /\ C * w = Weight(d + 1)
      BY <1>3, <2>1 DEF w
    <3> HIDE DEF m
    <3> QED BY <1>3, <2>1, <2>2, <3>1, <3>2
  <2> HIDE DEF m
  <2>4. m \div w = k
    BY <2>1, <2>2, QuotientIs
  <2>5. Digit(m, d) = k
    <3>1. k = 0 * C + k /\ k < C /\ 0 \in Nat
      BY <1>3, <2>1
    <3>2. k % C = k
      <4> HIDE DEF C
      <4> QED BY <1>3, <2>1, <3>1, QuotientIs
    <3> QED BY <2>4, <3>2 DEF Digit, w
  <2>6. m + 1 \in 1 .. W /\ (m + 1) - 1 = m
    BY <1>3, <2>2, <2>3
  <2>7. samples[m + 1][d] = ValueAt(d, k)
    BY <1>4, <2>5, <2>6
  <2> QED BY <1>1, <2>6, <2>7 DEF Stored
<1>7. Stored(d) = T
  BY <1>5, <1>6
<1>8. Cardinality(T) = C
  <2> DEFINE f == [k \in 0 .. C - 1 |-> ValueAt(d, k)]
  <2>1. \A j, k \in 0 .. C - 1 : ValueAt(d, j) = ValueAt(d, k) => j = k
    BY Counts DEF AllEnd
  <2>2. f \in [0 .. C - 1 -> T] /\ \A t \in T : \E k \in 0 .. C - 1 : f[k] = t
    OBVIOUS
  <2>3. \A j, k \in 0 .. C - 1 : f[j] = f[k] => j = k
    BY <2>1
  <2> HIDE DEF f, T
  <2>4. f \in Surjection(0 .. C - 1, T)
    BY <2>2, Fun_IsSurj
  <2>5. f \in Injection(0 .. C - 1, T)
    BY <2>2, <2>3, Fun_IsInj
  <2>6. IsFiniteSet(0 .. C - 1) /\ Cardinality(0 .. C - 1) = C
    <3>1. C - 1 \in Int /\ 0 \in Int /\ ~ (0 > C - 1) /\ (C - 1) - 0 + 1 = C
      BY <1>3
    <3> QED BY <3>1, FS_Interval
  <2> QED BY <2>4, <2>5, <2>6, FS_Surjection
<1> QED
  BY <1>7, <1>8

LEMMA CombinationsByInvariant ==
  ASSUME GeneratorInvariant
  PROVE  EveryCombinationOnce
<1> SUFFICES ASSUME pc = "generated"
             PROVE  /\ IsInjective([n \in 1 .. samplenum |-> samples[n]])
                    /\ samplenum = Product([d \in 1 .. dimensions |-> Cardinality(Stored(d))])
  BY DEF EveryCombinationOnce
<1> DEFINE W == Weight(dimensions + 1)
           f == [n \in 1 .. samplenum |-> samples[n]]
<1>1. AllEnd
  BY DEF GeneratorInvariant, TurnsForEver, AllEnd
<1>2. /\ Dims /\ samplenum \in Nat /\ samplenum = W
      /\ \A n \in 1 .. W : samples[n] = Sample(n - 1)
  BY <1>1 DEF GeneratorInvariant, OdometerShows, SamplesWritten, Dims
<1>3. ASSUME NEW j \in 1 .. samplenum, NEW k \in 1 .. samplenum, samples[j] = samples[k] PROVE j = k
  <2>1. j - 1 \in Nat /\ k - 1 \in Nat /\ j - 1 < W /\ k - 1 < W
    BY <1>2
  <2>2. Sample(j - 1) = Sample(k - 1)
    BY <1>2, <1>3
  <2>3. j - 1 = k - 1
    BY <1>1, <1>2, <2>1, <2>2, SamplesDiffer
  <2> QED BY <2>3
<1>4. IsInjective(f)
  <2>1. DOMAIN f = 1 .. samplenum /\ \A n \in 1 .. samplenum : f[n] = samples[n]
    OBVIOUS
  <2> HIDE DEF f
  <2> QED BY <1>3, <2>1 DEF IsInjective
<1>5. Product([d \in 1 .. dimensions |-> Cardinality(Stored(d))]) = W
  <2>1. (dimensions + 1) - 1 = dimensions
    BY <1>2, DimensionTypes
  <2>2. \A d \in 1 .. dimensions : Cardinality(Stored(d)) = Count(d)
    BY <1>1, StoredValues
  <2>3. [d \in 1 .. dimensions |-> Cardinality(Stored(d))] = [d \in 1 .. (dimensions + 1) - 1 |-> Count(d)]
    BY <2>1, <2>2
  <2> QED BY <2>3 DEF Weight
<1> QED
  BY <1>2, <1>4, <1>5

\* THEOREM: for any file and any rounding, backward ranges and repeated values included: an
\* odometer that comes to its end has stored every combination of the values it turned
\* through, each once (population_gen.cpp:190-275).
THEOREM CombinationsAreStoredOnce ==
  ASSUME GeneratorAssumption
  PROVE  Spec => []EveryCombinationOnce
<1>1. Init => GeneratorInvariant
  BY InitRuns
<1>2. GeneratorInvariant /\ [Next]_vars => GeneratorInvariant'
  BY RunStep
<1>3. GeneratorInvariant => EveryCombinationOnce
  BY CombinationsByInvariant
<1> QED
  BY <1>1, <1>2, <1>3, PTL DEF Spec
----------------------------------------------------------------------------
(***************************************************************************)
(* Where rounding changes nothing.                                         *)
(***************************************************************************)
\* The steps of a range that is in order, and where they lead.
LEMMA RangeSteps ==
  ASSUME GeneratorAssumption, NEW r, r \in RangeChoices, InOrder(r)
  PROVE  /\ r.min \in Nat /\ r.max \in Nat /\ r.step \in Nat \ {0} /\ StepsIn(r) \in Nat
         /\ \A k \in Nat : At(r, k) \in Nat /\ (At(r, k) <= r.max <=> k <= StepsIn(r))
<1> DEFINE a == r.min
           b == r.max
           w == 10 * r.step
           n == (b - a) \div w
<1>1. a \in Nat /\ b \in Nat /\ r.step \in Nat \ {0} /\ a <= b
  BY DEF RangeChoices, InOrder, GeneratorAssumption
<1>2. w \in Nat \ {0} /\ b - a \in Nat
  BY <1>1
<1>3. \A k : At(r, k) = a + w * k
  BY DEF At
<1>4. StepsIn(r) = n
  BY DEF StepsIn
<1> HIDE DEF a, b, w
<1>5. n \in Nat /\ (b - a) % w \in Nat /\ (b - a) % w < w /\ b - a = n * w + ((b - a) % w)
  BY <1>2, Division
<1> DEFINE v == (b - a) % w
<1>6. v \in Nat /\ v < w /\ b - a = n * w + v
  BY <1>5
<1> HIDE DEF n, v
<1>7. ASSUME NEW k \in Nat PROVE a + w * k \in Nat /\ (a + w * k <= b <=> k <= n)
  <2>1. w * k = k * w /\ k * w \in Nat /\ n * w \in Nat /\ n \in Nat
    BY <1>2, <1>5
  <2>2. ASSUME k <= n PROVE k * w <= n * w
    BY <1>2, <2>1, <2>2, LargerProduct
  <2>3. ASSUME n + 1 <= k PROVE n * w + w <= k * w
    <3>1. n + 1 \in Int
      BY <2>1
    <3>2. (n + 1) * w <= k * w
      BY <1>2, <2>1, <2>3, <3>1, LargerProduct
    <3>3. (n + 1) * w = n * w + w
      BY <1>2, <2>1
    <3> QED BY <3>2, <3>3
  <2>4. a + k * w <= b <=> k * w <= n * w + v
    BY <1>1, <1>6, <2>1
  <2>5. k <= n \/ n + 1 <= k
    BY <2>1
  <2>6. k <= n => k * w <= n * w + v
    BY <1>6, <2>1, <2>2
  <2>7. n + 1 <= k => ~ (k * w <= n * w + v) /\ ~ (k <= n)
    BY <1>2, <1>6, <2>1, <2>3
  <2> QED BY <1>1, <2>1, <2>4, <2>5, <2>6, <2>7
<1>8. n \in Nat
  BY <1>5
<1> QED
  BY <1>1, <1>3, <1>4, <1>7, <1>8 DEF a, b

LEMMA PointsOfRange ==
  ASSUME GeneratorAssumption, NEW r, r \in RangeChoices, InOrder(r)
  PROVE  {x \in r.min .. r.max : (x - r.min) % (10 * r.step) = 0} = {At(r, k) : k \in 0 .. StepsIn(r)}
<1> DEFINE w == 10 * r.step
<1>1. /\ r.min \in Nat /\ r.max \in Nat /\ w \in Nat \ {0} /\ StepsIn(r) \in Nat
      /\ \A k \in Nat : At(r, k) \in Nat /\ (At(r, k) <= r.max <=> k <= StepsIn(r))
  BY RangeSteps
<1>2. \A k : At(r, k) = r.min + w * k
  BY DEF At
<1> HIDE DEF w
<1>3. ASSUME NEW k \in 0 .. StepsIn(r)
      PROVE  At(r, k) \in r.min .. r.max /\ (At(r, k) - r.min) % w = 0
  <2>1. k \in Nat /\ k <= StepsIn(r) /\ w * k = k * w /\ k * w \in Nat
    BY <1>1
  <2>2. At(r, k) \in Nat /\ At(r, k) <= r.max
    BY <1>1, <2>1
  <2>3. At(r, k) - r.min = k * w + 0 /\ r.min <= At(r, k)
    BY <1>1, <1>2, <2>1
  <2>4. (k * w + 0) % w = 0
    <3> DEFINE a == k * w + 0
    <3>1. a \in Nat /\ a = k * w + 0 /\ 0 \in Nat /\ 0 < w
      BY <1>1, <2>1
    <3> HIDE DEF a
    <3>2. a % w = 0
      BY <1>1, <2>1, <3>1, QuotientIs
    <3> QED BY <3>2 DEF a
  <2> QED BY <1>1, <2>2, <2>3, <2>4
<1>4. ASSUME NEW x \in r.min .. r.max, (x - r.min) % w = 0
      PROVE  \E k \in 0 .. StepsIn(r) : x = At(r, k)
  <2> DEFINE a == x - r.min
             k == a \div w
  <2>1. a \in Nat /\ x = r.min + a /\ x <= r.max /\ a % w = 0
    BY <1>1, <1>4
  <2> HIDE DEF a
  <2>2. k \in Nat /\ a = k * w + (a % w)
    BY <1>1, <2>1, Division
  <2> HIDE DEF k
  <2>3. k * w \in Int /\ k * w = w * k
    BY <1>1, <2>2
  <2>4. x = r.min + w * k
    BY <1>1, <2>1, <2>2, <2>3
  <2>5. x = At(r, k)
    BY <1>2, <2>4
  <2>6. k <= StepsIn(r)
    BY <1>1, <2>1, <2>2, <2>5
  <2>7. k \in 0 .. StepsIn(r)
    BY <1>1, <2>2, <2>6
  <2> QED BY <2>5, <2>7
<1> QED
  BY <1>3, <1>4 DEF w

\* A range of literals that rounding does not disturb has the values the file names.
LEMMA ExactRange ==
  ASSUME GeneratorAssumption, Dims, DimensionsAreExact, NEW d \in 1 .. Len(ranges)
  PROVE  /\ Ends(d) /\ Count(d) = RangeCount(ranges[d])
         /\ {ValueAt(d, k) : k \in 0 .. Count(d) - 1} = ExactValues(d)
<1> DEFINE r == ranges[d]
           K == StepsIn(r)
<1>1. r \in RangeChoices /\ RangeIsExact(r) /\ d <= Len(ranges)
  BY DimensionTypes DEF DimensionsAreExact
<1>2. /\ FirstValue(d) = atof(r.min)
      /\ \A v : After(d, v) = Plus(v, <<r.step, 1>>)
      /\ \A v : IsLast(d, v) <=> ~ NotMore(Plus(v, <<r.step, 1>>), atof(r.max))
      /\ ExactValues(d) = {atof(t) : t \in {x \in r.min .. r.max : (x - r.min) % (10 * r.step) = 0}}
  BY <1>1 DEF FirstValue, After, IsLast, ExactValues
<1> HIDE DEF r
<1>3. /\ InOrder(r) /\ Quotient(r) = K
      /\ \A k \in 0 .. K : /\ Plus(atof(At(r, k)), <<r.step, 1>>) = atof(At(r, k + 1))
                           /\ NotMore(atof(At(r, k + 1)), atof(r.max)) <=> k < K
  BY <1>1 DEF RangeIsExact
<1>4. K \in Nat /\ r.min \in Nat /\ r.step \in Nat
  BY <1>1, <1>3, RangeSteps
<1> HIDE DEF K
<1> DEFINE G == {k \in 0 .. K : ValueAt(d, k) = atof(At(r, k))}
<1>5. 0 \in G
  <2>1. At(r, 0) = r.min /\ 0 \in 0 .. K
    BY <1>4 DEF At
  <2> QED BY <1>2, <2>1, Values
<1>6. ASSUME NEW k \in 1 .. K, k - 1 \in G PROVE k \in G
  <2>1. k - 1 \in Nat /\ (k - 1) + 1 = k /\ k - 1 \in 0 .. K /\ k \in 0 .. K
    BY <1>4
  <2>2. ValueAt(d, k) = After(d, ValueAt(d, k - 1)) /\ ValueAt(d, k - 1) = atof(At(r, k - 1))
    <3>1. ValueAt(d, (k - 1) + 1) = After(d, ValueAt(d, k - 1))
      BY <2>1, Values
    <3> QED BY <1>6, <2>1, <3>1
  <2>3. Plus(atof(At(r, k - 1)), <<r.step, 1>>) = atof(At(r, (k - 1) + 1))
    BY <1>3, <2>1
  <2> QED BY <1>2, <2>1, <2>2, <2>3
<1>7. G \in SUBSET (0 .. K)
  OBVIOUS
<1> HIDE DEF G
<1>8. G = 0 .. K
  BY <1>4, <1>5, <1>6, <1>7, StepByStep
<1>9. \A k \in 0 .. K : ValueAt(d, k) = atof(At(r, k))
  BY <1>8 DEF G
<1>10. \A k \in 0 .. K : IsLast(d, ValueAt(d, k)) <=> ~ (k < K)
  <2> TAKE k \in 0 .. K
  <2>1. ValueAt(d, k) = atof(At(r, k))
    BY <1>9
  <2>2. Plus(ValueAt(d, k), <<r.step, 1>>) = atof(At(r, k + 1))
    BY <1>3, <2>1
  <2>3. NotMore(atof(At(r, k + 1)), atof(r.max)) <=> k < K
    BY <1>3
  <2> QED BY <1>2, <2>2, <2>3
<1>11. EndsAfter(d, K + 1) /\ K + 1 \in Nat \ {0}
  <2>1. (K + 1) - 1 = K /\ (K + 1) - 2 = K - 1 /\ K \in 0 .. K
    BY <1>4
  <2>2. \A k \in 0 .. K - 1 : k \in 0 .. K /\ k < K
    BY <1>4
  <2> QED BY <1>4, <1>10, <2>1, <2>2 DEF EndsAfter
<1>12. Ends(d) /\ Count(d) = K + 1
  BY <1>11, CountIs
<1>13. RangeCount(ranges[d]) = K + 1
  BY <1>3 DEF RangeCount, r
<1>14. {ValueAt(d, k) : k \in 0 .. Count(d) - 1} = ExactValues(d)
  <2>1. Count(d) - 1 = K
    BY <1>4, <1>12
  <2>2. ExactValues(d) = {atof(t) : t \in {At(r, k) : k \in 0 .. K}}
    BY <1>1, <1>2, <1>3, PointsOfRange DEF K
  <2>3. {ValueAt(d, k) : k \in 0 .. K} = {atof(At(r, k)) : k \in 0 .. K}
    BY <1>9
  <2>4. {atof(t) : t \in {At(r, k) : k \in 0 .. K}} = {atof(At(r, k)) : k \in 0 .. K}
    OBVIOUS
  <2> QED BY <2>1, <2>2, <2>3, <2>4
<1> QED
  BY <1>12, <1>13, <1>14

\* And so has a set whose values differ: the place of a value is found by comparing.
LEMMA ExactSet ==
  ASSUME GeneratorAssumption, Dims, DimensionsAreExact, NEW j \in 1 .. Len(sets)
  PROVE  LET d == Len(ranges) + j
         IN  /\ Ends(d) /\ Count(d) = Len(sets[j]) /\ Len(sets[j]) \in Nat
             /\ {ValueAt(d, k) : k \in 0 .. Count(d) - 1} = ExactValues(d)
<1> DEFINE q == sets[j]
           d == Len(ranges) + j
           L == Len(q)
<1>1. q \in SortedSets /\ SetIsExact(q) /\ ~ (d <= Len(ranges)) /\ d - Len(ranges) = j
  BY DimensionTypes DEF DimensionsAreExact
<1>2. /\ FirstValue(d) = atof(q[1])
      /\ \A v : After(d, v) = atof(q[Position(q, v) + 1])
      /\ \A v : IsLast(d, v) <=> Position(q, v) = L
      /\ ExactValues(d) = {atof(q[i]) : i \in 1 .. L}
  BY <1>1 DEF FirstValue, After, IsLast, ExactValues
<1> HIDE DEF q, d
<1>3. L \in Nat /\ L >= 2
  <2>1. PICK n \in 2 .. MaxSetSize : q \in [1 .. n -> SetValues \cup {0}]
    BY <1>1 DEF SortedSets
  <2> QED BY <2>1 DEF GeneratorAssumption
<1>4. \A k \in 0 .. L - 1 : Position(q, atof(q[k + 1])) = k + 1
  <2> TAKE k \in 0 .. L - 1
  <2> DEFINE v == atof(q[k + 1])
             I == {i \in 1 .. L : Same(atof(q[i]), v)}
  <2>1. Position(q, v) = IF I # {} THEN Min(I) ELSE 0
    BY DEF Position, SelectInSeq
  <2>2. k + 1 \in 1 .. L
    BY <1>3
  <2>3. I = {k + 1}
    <3>1. Same(v, v)
      BY DEF Same
    <3>2. \A i \in 1 .. L : Same(atof(q[i]), atof(q[k + 1])) => i = k + 1
      BY <1>1, <2>2 DEF SetIsExact
    <3> QED BY <2>2, <3>1, <3>2
  <2> HIDE DEF I, v
  <2>4. Min({k + 1}) = k + 1
    <3>1. k + 1 \in Int
      BY <2>2
    <3> QED BY <3>1 DEF Min
  <2>5. Position(q, v) = k + 1
    BY <2>1, <2>3, <2>4
  <2> QED BY <2>5 DEF v
<1> HIDE DEF L
<1> DEFINE G == {k \in 0 .. L - 1 : ValueAt(d, k) = atof(q[k + 1])}
<1>5. 0 \in G
  <2>1. 0 \in 0 .. L - 1 /\ 0 + 1 = 1
    BY <1>3
  <2> QED BY <1>2, <2>1, Values
<1>6. ASSUME NEW k \in 1 .. L - 1, k - 1 \in G PROVE k \in G
  <2>1. k - 1 \in Nat /\ (k - 1) + 1 = k /\ k - 1 \in 0 .. L - 1 /\ k \in 0 .. L - 1
    BY <1>3
  <2>2. ValueAt(d, k) = After(d, ValueAt(d, k - 1)) /\ ValueAt(d, k - 1) = atof(q[k])
    <3>1. ValueAt(d, (k - 1) + 1) = After(d, ValueAt(d, k - 1))
      BY <2>1, Values
    <3> QED BY <1>6, <2>1, <3>1
  <2>3. Position(q, atof(q[k])) = k
    BY <1>4, <2>1
  <2> QED BY <1>2, <2>1, <2>2, <2>3
<1>7. G \in SUBSET (0 .. L - 1)
  OBVIOUS
<1> HIDE DEF G
<1>8. G = 0 .. L - 1
  <2>1. L - 1 \in Nat
    BY <1>3
  <2> QED BY <1>5, <1>6, <1>7, <2>1, StepByStep
<1>9. \A k \in 0 .. L - 1 : ValueAt(d, k) = atof(q[k + 1])
  BY <1>8 DEF G
<1>10. \A k \in 0 .. L - 1 : IsLast(d, ValueAt(d, k)) <=> k + 1 = L
  BY <1>2, <1>4, <1>9
<1>11. EndsAfter(d, L) /\ L \in Nat \ {0}
  <2>1. L - 1 \in 0 .. L - 1 /\ (L - 1) + 1 = L
    BY <1>3
  <2>2. \A k \in 0 .. L - 2 : k \in 0 .. L - 1 /\ k + 1 # L
    BY <1>3
  <2> QED BY <1>3, <1>10, <2>1, <2>2 DEF EndsAfter
<1>12. Ends(d) /\ Count(d) = L
  BY <1>11, CountIs
<1>13. {ValueAt(d, k) : k \in 0 .. Count(d) - 1} = ExactValues(d)
  <2>1. {ValueAt(d, k) : k \in 0 .. L - 1} = {atof(q[k + 1]) : k \in 0 .. L - 1}
    BY <1>9
  <2>2. \A k \in 0 .. L - 1 : k + 1 \in 1 .. L
    BY <1>3
  <2>3. \A i \in 1 .. L : i - 1 \in 0 .. L - 1 /\ (i - 1) + 1 = i
    BY <1>3
  <2>4. {atof(q[k + 1]) : k \in 0 .. L - 1} = {atof(q[i]) : i \in 1 .. L}
    BY <2>2, <2>3
  <2> QED BY <1>2, <1>12, <2>1, <2>4
<1> QED
  BY <1>3, <1>12, <1>13 DEF d, q, L

LEMMA ExactEnds ==
  ASSUME GeneratorAssumption, Dims, DimensionsAreExact
  PROVE  /\ AllEnd
         /\ \A d \in 1 .. dimensions : {ValueAt(d, k) : k \in 0 .. Count(d) - 1} = ExactValues(d)
<1>1. ASSUME NEW d \in 1 .. dimensions
      PROVE  Ends(d) /\ {ValueAt(d, k) : k \in 0 .. Count(d) - 1} = ExactValues(d)
  <2>1. CASE d <= Len(ranges)
    <3>1. d \in 1 .. Len(ranges)
      BY <2>1, DimensionTypes
    <3> QED BY <3>1, ExactRange
  <2>2. CASE d > Len(ranges)
    <3> DEFINE j == d - Len(ranges)
    <3>1. j \in 1 .. Len(sets) /\ Len(ranges) + j = d
      BY <2>2, DimensionTypes
    <3> HIDE DEF j
    <3> QED BY <3>1, ExactSet
  <2> QED BY <2>1, <2>2, DimensionTypes
<1> QED
  BY <1>1 DEF AllEnd

\* The size the constructor computes is the weight behind the last dimension.
LEMMA SizeIsWeight ==
  ASSUME GeneratorAssumption, Dims, DimensionsAreExact
  PROVE  num_samples = Weight(dimensions + 1)
<1> DEFINE R == Len(ranges)
           S == Len(sets)
           q == [j \in 1 .. S |-> Len(sets[j])]
           P(k) == Product([j \in 1 .. k |-> q[j]])
<1>1. R \in Nat /\ S \in Nat /\ dimensions = R + S
  BY DimensionTypes DEF dimensions
<1>2. \A j \in 1 .. S : q[j] = Len(sets[j]) /\ q[j] \in Nat
  <2> TAKE j \in 1 .. S
  <2> QED BY ExactSet
<1>3. q \in [1 .. S -> Nat]
  BY <1>2
<1>4. num_samples = Weight(R + 1) * P(S)
  <2>1. [j \in 1 .. R |-> RangeCount(ranges[j])] = [j \in 1 .. (R + 1) - 1 |-> Count(j)]
    <3>1. (R + 1) - 1 = R
      BY <1>1
    <3>2. \A j \in 1 .. R : RangeCount(ranges[j]) = Count(j)
      <4> TAKE j \in 1 .. R
      <4> QED BY ExactRange
    <3> QED BY <3>1, <3>2
  <2>2. q = [j \in 1 .. S |-> q[j]]
    OBVIOUS
  <2> QED BY <2>1, <2>2 DEF num_samples, Weight
<1> HIDE DEF q
<1>5. P(0) = 1 /\ \A k \in 1 .. S : P(k) = q[k] * P(k - 1) /\ P(k - 1) \in Nat
  BY <1>1, <1>3, Products
<1> HIDE DEF P
<1> DEFINE G == {k \in 0 .. S : Weight(R + 1) * P(k) = Weight(R + 1 + k)}
<1>6. Weight(R + 1) \in Nat
  <2>1. R + 1 \in 1 .. dimensions + 1
    BY <1>1
  <2> QED BY <2>1, Weights, ExactEnds
<1>7. 0 \in G
  <2>1. R + 1 + 0 = R + 1 /\ 0 \in 0 .. S
    BY <1>1
  <2> QED BY <1>5, <1>6, <2>1
<1>8. ASSUME NEW k \in 1 .. S, k - 1 \in G PROVE k \in G
  <2>1. R + k \in 1 .. dimensions /\ R + 1 + (k - 1) = R + k /\ R + 1 + k = (R + k) + 1 /\ k \in 0 .. S
    BY <1>1
  <2>2. Count(R + k) = q[k] /\ q[k] \in Nat
    <3> QED BY <1>2, ExactSet
  <2>3. Weight(R + 1) * P(k - 1) = Weight(R + k)
    BY <1>8, <2>1
  <2>4. Weight((R + k) + 1) = q[k] * Weight(R + k)
    BY <2>1, <2>2, Weights, ExactEnds
  <2>5. Weight(R + 1) * P(k) = q[k] * (Weight(R + 1) * P(k - 1))
    BY <1>5, <1>6, <2>2
  <2> QED BY <2>1, <2>3, <2>4, <2>5
<1>9. G \in SUBSET (0 .. S)
  OBVIOUS
<1> HIDE DEF G
<1>10. G = 0 .. S
  BY <1>1, <1>7, <1>8, <1>9, StepByStep
<1>11. Weight(R + 1) * P(S) = Weight(R + 1 + S)
  BY <1>1, <1>10 DEF G
<1>12. R + 1 + S = dimensions + 1
  BY <1>1
<1> QED
  BY <1>4, <1>11, <1>12

\* A product that fits is kept by the int.
LEMMA IntKeeps ==
  ASSUME GeneratorAssumption, NEW n, n \in Nat, n < PowerOf2(IntBits - 1)
  PROVE  ToInt(n) = n
<1> DEFINE h == PowerOf2(IntBits - 1)
<1>1. IntBits - 1 \in Nat /\ (IntBits - 1) + 1 = IntBits
  BY DEF GeneratorAssumption
<1>2. h \in Nat \ {0} /\ PowerOf2(IntBits) = 2 * h
  BY <1>1, Powers
<1>3. n < h /\ ToInt(n) = ((n + h) % PowerOf2(IntBits)) - h
  BY DEF ToInt
<1> HIDE DEF h
<1>4. n + h \in Nat /\ 2 * h \in Nat \ {0} /\ n + h < 2 * h /\ n + h = 0 * (2 * h) + (n + h) /\ 0 \in Nat
  BY <1>2, <1>3
<1>5. (n + h) % (2 * h) = n + h
  <2> DEFINE m == n + h
             b == 2 * h
  <2>1. m \in Nat /\ b \in Nat \ {0} /\ m < b /\ m = 0 * b + m
    BY <1>4
  <2> HIDE DEF m, b
  <2>2. m % b = m
    BY <2>1, <1>4, QuotientIs
  <2> QED BY <2>2 DEF m, b
<1> QED
  BY <1>2, <1>3, <1>5

\* The odometer's invariant says what is asked of the vector.
LEMMA FilledByInvariant ==
  ASSUME GeneratorAssumption, GeneratorInvariant
  PROVE  VectorIsFilled
<1> SUFFICES ASSUME pc \in {"generated", "overrun"}, DimensionsAreExact, Fits
             PROVE  Filled
  BY DEF VectorIsFilled
<1> DEFINE W == Weight(dimensions + 1)
<1>1. Dims /\ AllEnd
  BY ExactEnds DEF GeneratorInvariant, Dims
<1>2. W \in Nat \ {0} /\ num_samples = W
  <2>1. dimensions + 1 \in 1 .. dimensions + 1
    BY <1>1, DimensionTypes
  <2> QED BY <1>1, <2>1, SizeIsWeight, Weights
<1>3. total_population_size = W
  <2>1. total_population_size = ToInt(num_samples)
    BY DEF GeneratorInvariant
  <2> QED BY <1>2, <2>1, IntKeeps DEF Fits
<1>4. OdometerShows /\ SamplesWritten
  BY <1>1 DEF GeneratorInvariant
<1>5. pc = "generated"
  <2>1. ~ (W < W)
    BY <1>2
  <2> QED BY <1>3, <1>4, <2>1 DEF OdometerShows
<1>6. samplenum = W /\ samples = [n \in 1 .. W |-> samples[n]]
  BY <1>3, <1>4, <1>5 DEF OdometerShows, SamplesWritten
<1>7. Len(samples) = samplenum
  <2> HIDE DEF W
  <2> QED BY <1>2, <1>6
<1>8. \A d \in 1 .. dimensions : Stored(d) = ExactValues(d)
  BY <1>1, <1>5, StoredValues, ExactEnds
<1> QED
  BY <1>5, <1>7, <1>8 DEF Filled

\* THEOREM: for every file whose literals rounding does not disturb, whose ranges are in
\* order and whose sets repeat nothing, whatever the dimensions, as long as their product
\* fits in an int: the vector is as long as what is stored and holds the values the file
\* names (population_gen.cpp:28-54, 161-277).
THEOREM VectorIsAlwaysFilled ==
  ASSUME GeneratorAssumption
  PROVE  Spec => []VectorIsFilled
<1>1. Init => GeneratorInvariant
  BY InitRuns
<1>2. GeneratorInvariant /\ [Next]_vars => GeneratorInvariant'
  BY RunStep
<1>3. GeneratorInvariant => VectorIsFilled
  BY FilledByInvariant
<1> QED
  BY <1>1, <1>2, <1>3, PTL DEF Spec
----------------------------------------------------------------------------
(***************************************************************************)
(* Halves are exact.                                                       *)
(***************************************************************************)
LEMMA QuotientScales ==
  ASSUME NEW a, a \in Nat, NEW b, b \in Nat \ {0}, NEW c, c \in Nat \ {0}
  PROVE  (a * c) \div (b * c) = a \div b /\ (a * c) % (b * c) = (a % b) * c
<1> DEFINE q == a \div b
           r == a % b
<1>1. q \in Nat /\ r \in Nat /\ r < b /\ a = q * b + r
  BY Division
<1> HIDE DEF q, r
<1>2. a * c = q * (b * c) + r * c
  <2>1. a * c = (q * b) * c + r * c
    BY <1>1
  <2>2. (q * b) * c = q * (b * c)
    BY <1>1
  <2> QED BY <2>1, <2>2
<1>3. a * c \in Nat /\ b * c \in Nat \ {0} /\ r * c \in Nat
  BY <1>1
<1>4. r * c < b * c
  <2>1. (r + 1) * c <= b * c
    BY <1>1, LargerProduct
  <2>2. (r + 1) * c = r * c + c
    BY <1>1
  <2> QED BY <1>3, <2>1, <2>2
<1> DEFINE x == a * c
           y == b * c
           z == r * c
<1>5. x \in Nat /\ y \in Nat \ {0} /\ z \in Nat /\ z < y /\ x = q * y + z
  BY <1>2, <1>3, <1>4
<1> HIDE DEF x, y, z
<1>6. x \div y = q /\ x % y = z
  BY <1>1, <1>5, QuotientIs
<1> QED
  BY <1>6 DEF q, r, x, y, z

LEMMA RoundScales ==
  ASSUME NEW a, a \in Nat, NEW b, b \in Nat \ {0}, NEW c, c \in Nat \ {0}
  PROVE  Round(a * c, b * c) = Round(a, b)
<1> DEFINE q == a \div b
           r == a % b
<1>1. q \in Nat /\ r \in Nat
  BY Division
<1>2. (a * c) \div (b * c) = q /\ (a * c) % (b * c) = r * c
  BY QuotientScales
<1> HIDE DEF q, r
<1>3. (2 * (r * c) < b * c <=> 2 * r < b) /\ (2 * (r * c) = b * c <=> 2 * r = b)
  <2>1. 2 * (r * c) = (2 * r) * c /\ 2 * r \in Int
    BY <1>1
  <2>2. ((2 * r) * c < b * c <=> 2 * r < b) /\ ((2 * r) * c = b * c <=> 2 * r = b)
    <3> DEFINE x == 2 * r
    <3>1. x \in Int
      BY <2>1
    <3> HIDE DEF x
    <3>2. x * c < b * c => x < b
      BY <3>1, ShorterProduct
    <3>3. b * c <= x * c => b <= x
      BY <3>1, ShorterProduct
    <3>4. x * c \in Int /\ b * c \in Int
      BY <3>1
    <3>5. x * c = b * c => x = b
      BY <3>1, ShorterProduct
    <3>6. b <= x => b * c <= x * c
      BY <3>1, LargerProduct
    <3> QED BY <3>1, <3>2, <3>4, <3>5, <3>6 DEF x
  <2> QED BY <2>1, <2>2
<1>4. Round(a * c, b * c) = IF 2 * (r * c) < b * c \/ (2 * (r * c) = b * c /\ q % 2 = 0) THEN q ELSE q + 1
  BY <1>2 DEF Round
<1>5. Round(a, b) = IF 2 * r < b \/ (2 * r = b /\ q % 2 = 0) THEN q ELSE q + 1
  BY DEF Round, q, r
<1> QED
  BY <1>3, <1>4, <1>5

\* The exponents reach a / b.
InReach(a, b) ==
  a # 0 => a * PowerOf2(MaxExponent) >= b * half /\ a < b * PowerOf2(MaxExponent) * all

\* What is nearest depends on the fraction only.
LEMMA NearestScales ==
  ASSUME FloatAssumption, NEW a, a \in Nat, NEW b, b \in Nat \ {0}, NEW c, c \in Nat \ {0},
         InReach(a, b)
  PROVE  Nearest(a * c, b * c) = Nearest(a, b)
<1>1. half \in Nat \ {0} /\ all = 2 * half /\ MaxExponent \in Nat
  BY Halves
<1>2. CASE a = 0
  <2>1. a * c = 0
    BY <1>2
  <2> QED BY <1>2, <2>1 DEF Nearest
<1>3. CASE a # 0
  <2> DEFINE A(x) == /\ a * Down(x) >= b * Up(x) * half
                     /\ a * Down(x) < b * Up(x) * all
             B(x) == /\ (a * c) * Down(x) >= (b * c) * Up(x) * half
                     /\ (a * c) * Down(x) < (b * c) * Up(x) * all
             I == (- MaxExponent) .. MaxExponent
  <2>1. a * c # 0
    BY <1>3
  <2>2. ASSUME NEW x \in I PROVE A(x) <=> B(x)
    <3>1. x \in Int /\ Up(x) \in Nat \ {0} /\ Down(x) \in Nat \ {0}
      BY <1>1, Exponents
    <3> DEFINE u == Up(x)
               v == Down(x)
               l == a * v
               m == b * u * half
               n == b * u * all
    <3>2. /\ (a * c) * v = l * c /\ (b * c) * u * half = m * c /\ (b * c) * u * all = n * c
          /\ l \in Nat /\ m \in Nat /\ n \in Nat
      BY <1>1, <3>1
    <3> HIDE DEF u, v, l, m, n
    <3>3. (m * c <= l * c <=> m <= l) /\ (l * c < n * c <=> l < n)
      <4>1. (m * c <= l * c => m <= l) /\ (l * c < n * c => l < n)
        BY <3>2, ShorterProduct
      <4>2. (m <= l => m * c <= l * c) /\ (n <= l => n * c <= l * c)
        BY <3>2, LargerProduct
      <4>3. l * c \in Int /\ n * c \in Int
        BY <3>2
      <4> QED BY <3>2, <4>1, <4>2, <4>3
    <3>4. m * c \in Int /\ l * c \in Int
      BY <3>2
    <3>5. (l >= m <=> m <= l) /\ (l * c >= m * c <=> m * c <= l * c)
      BY <3>2, <3>4
    <3> QED BY <3>2, <3>3, <3>5 DEF l, m, n, u, v
  <2> DEFINE e == CHOOSE x \in I : A(x)
             g == CHOOSE x \in I : B(x)
  <2>3. e = g
    <3> HIDE DEF A, B
    <3> QED BY <2>2
  <2>4. Nearest(a, b) = Scaled(Round(a * Down(e), b * Up(e)), e)
    BY <1>3 DEF Nearest, The, half, all
  <2>5. Nearest(a * c, b * c) = Scaled(Round((a * c) * Down(g), (b * c) * Up(g)), g)
    BY <2>1 DEF Nearest, The, half, all
  <2>6. e \in Int
    <3>1. PICK x : ScaledFits(a, b, x)
      BY <1>3, ExponentFits DEF InReach
    <3>2. x \in I /\ A(x)
      BY <3>1 DEF ScaledFits
    <3>3. e \in I
      <4> HIDE DEF A, I
      <4> QED BY <3>2
    <3> QED BY <1>1, <3>3
  <2> HIDE DEF e, g
  <2>7. Round((a * c) * Down(g), (b * c) * Up(g)) = Round(a * Down(e), b * Up(e))
    <3>1. Up(e) \in Nat \ {0} /\ Down(e) \in Nat \ {0}
      BY <2>6, Exponents
    <3> DEFINE u == Up(e)
               v == Down(e)
    <3>2. /\ (a * c) * v = (a * v) * c /\ (b * c) * u = (b * u) * c
          /\ a * v \in Nat /\ b * u \in Nat \ {0}
      BY <3>1
    <3> HIDE DEF u, v
    <3>3. Round((a * v) * c, (b * u) * c) = Round(a * v, b * u)
      BY <3>2, RoundScales
    <3>4. Round((a * c) * v, (b * c) * u) = Round(a * v, b * u)
      BY <3>2, <3>3
    <3> QED BY <2>3, <3>4 DEF u, v
  <2> QED BY <2>3, <2>4, <2>5, <2>7
<1> QED
  BY <1>2, <1>3

EqualFractions(a, b, c, d) ==
  /\ a \in Nat /\ b \in Nat \ {0} /\ c \in Nat /\ d \in Nat \ {0}
  /\ a * d = c * b

LEMMA SameFraction ==
  ASSUME FloatAssumption, NEW a, NEW b, NEW c, NEW d,
         EqualFractions(a, b, c, d), InReach(c, d)
  PROVE  Nearest(a, b) = Nearest(c, d)
<1> DEFINE X == PowerOf2(MaxExponent)
           Y == X * all
<1>0. a \in Nat /\ b \in Nat \ {0} /\ c \in Nat /\ d \in Nat \ {0} /\ a * d = c * b
  BY DEF EqualFractions
<1>1. half \in Nat \ {0} /\ all \in Nat \ {0} /\ MaxExponent \in Nat
  BY Halves
<1>2. X \in Nat \ {0} /\ Y \in Nat \ {0}
  BY <1>1, Powers
<1>3. InReach(a, b)
  <2> SUFFICES ASSUME a # 0 PROVE a * X >= b * half /\ a < b * X * all
    BY DEF InReach
  <2>1. c # 0
    <3> SUFFICES ASSUME c = 0 PROVE FALSE
      OBVIOUS
    <3>1. a * d <= 0 * d /\ 0 \in Int
      BY <1>0
    <3>2. a <= 0
      BY <1>0, <3>1, ShorterProduct
    <3> QED BY <1>0, <3>2
  <2>2. d * half <= c * X /\ c < d * Y
    BY <1>0, <1>1, <1>2, <2>1 DEF InReach
  <2> HIDE DEF X, Y
  <2>3. b * half <= a * X
    <3>1. (d * half) * b <= (c * X) * b
      BY <1>0, <1>1, <1>2, <2>2, LargerProduct
    <3>2. (d * half) * b = (b * half) * d /\ (c * X) * b = (c * b) * X /\ (a * d) * X = (a * X) * d
      BY <1>0, <1>1, <1>2
    <3>3. (b * half) * d <= (a * X) * d
      BY <1>0, <3>1, <3>2
    <3> QED BY <1>0, <1>1, <1>2, <3>3, ShorterProduct
  <2>4. a < b * Y
    <3>1. c + 1 <= d * Y
      BY <1>0, <1>2, <2>2
    <3>2. (c + 1) * b <= (d * Y) * b
      BY <1>0, <1>2, <3>1, LargerProduct
    <3>3. (c + 1) * b = c * b + b /\ (d * Y) * b = (b * Y) * d
      BY <1>0, <1>2
    <3>4. a * d < (b * Y) * d
      BY <1>0, <1>2, <3>2, <3>3
    <3> QED BY <1>0, <1>2, <3>4, ShorterProduct
  <2>5. b * Y = b * X * all
    BY <1>0, <1>1, <1>2 DEF Y
  <2> QED BY <1>0, <1>1, <1>2, <2>3, <2>4, <2>5
<1>4. Nearest(a * d, b * d) = Nearest(a, b)
  BY <1>0, <1>3, NearestScales
<1>5. Nearest(c * b, d * b) = Nearest(c, d)
  BY <1>0, NearestScales
<1>6. b * d = d * b
  BY <1>0
<1> QED
  BY <1>0, <1>4, <1>5, <1>6
----------------------------------------------------------------------------
(***************************************************************************)
(* N halves.                                                               *)
(***************************************************************************)
HalvesOf(f, N) == f[1] \in Nat /\ f[2] \in Nat \ {0} /\ 2 * f[1] = N * f[2]

LEMMA HalfIsExact ==
  ASSUME FloatAssumption, all <= PowerOf2(MaxExponent), NEW N, N \in Nat, N < all
  PROVE  InReach(N, 2) /\ HalvesOf(Nearest(N, 2), N)
<1> DEFINE X == PowerOf2(MaxExponent)
<1>1. half \in Nat \ {0} /\ all = 2 * half /\ MaxExponent \in Nat
  BY Halves
<1>2. X \in Nat \ {0}
  BY <1>1, Powers
<1>3. CASE N = 0
  BY <1>3 DEF InReach, HalvesOf, Nearest
<1>4. CASE N # 0
  <2> HIDE DEF X
  <2>1. N * X >= 2 * half
    <3>1. 1 * X <= N * X
      BY <1>2, <1>4, LargerProduct
    <3>2. 1 * X = X /\ N * X \in Int
      BY <1>2
    <3> QED BY <1>1, <1>2, <3>1, <3>2 DEF X
  <2>2. N < 2 * X * all
    <3>1. 1 * all <= (2 * X) * all
      BY <1>1, <1>2, LargerProduct
    <3>2. 1 * all = all /\ (2 * X) * all \in Int
      BY <1>1, <1>2
    <3> QED BY <1>1, <3>1, <3>2
  <2>3. InReach(N, 2)
    BY <2>1, <2>2 DEF InReach, X
  <2> DEFINE f == Nearest(N, 2)
  <2>4. PICK m, U, D : Rounding(N, 2, f, m, U, D)
    BY <1>4, <2>1, <2>2, NearestRounds DEF X
  <2> HIDE DEF f
  <2>5. /\ m \in Nat /\ U \in Nat \ {0} /\ D \in Nat \ {0}
        /\ U = 1 \/ (U >= 2 /\ D = 1)
        /\ D = 1 \/ \E c \in Nat : D = 2 * c
        /\ 2 * U * half <= N * D
        /\ 2 * (m * (2 * U) - N * D) <= 2 * U /\ 2 * (N * D - m * (2 * U)) <= 2 * U
        /\ f[1] \in Nat /\ f[2] \in Nat \ {0} /\ f[1] * D = m * U * f[2]
    BY <2>4 DEF Rounding
  <2>6. D # 1
    <3> SUFFICES ASSUME D = 1 PROVE FALSE
      OBVIOUS
    <3>1. (2 * U) * half <= N /\ 1 <= U
      BY <2>5
    <3>2. 1 * (2 * half) <= U * (2 * half)
      BY <1>1, <2>5, <3>1, LargerProduct
    <3>3. U * (2 * half) = (2 * U) * half /\ (2 * U) * half \in Int
      BY <1>1, <2>5
    <3> QED BY <1>1, <3>1, <3>2, <3>3
  <2>7. U = 1
    BY <2>5, <2>6
  <2>8. PICK c \in Nat : D = 2 * c
    BY <2>5, <2>6
  <2>9. m = c * N
    <3>1. N * D = 2 * (c * N) /\ c * N \in Int
      BY <2>8
    <3>2. m * (2 * U) = 2 * m /\ 2 * U = 2
      BY <2>5, <2>7
    <3> QED BY <2>5, <3>1, <3>2
  <2>10. c \in Nat \ {0}
    BY <2>5, <2>8
  <2>11. 2 * f[1] = N * f[2]
    <3>1. (2 * f[1]) * c = (N * f[2]) * c
      <4>1. f[1] * D = (2 * f[1]) * c
        BY <2>5, <2>8
      <4>2. m * U * f[2] = (N * f[2]) * c
        BY <2>5, <2>7, <2>9
      <4> QED BY <2>5, <4>1, <4>2
    <3>2. 2 * f[1] \in Int /\ N * f[2] \in Int
      BY <2>5
    <3> QED BY <2>10, <3>1, <3>2, ShorterProduct
  <2> QED BY <2>3, <2>5, <2>11 DEF HalvesOf, f
<1> QED
  BY <1>3, <1>4

\* The arithmetic of halves is that of the integers that count them.
LEMMA HalvesCompare ==
  ASSUME NEW f, NEW A, A \in Nat, HalvesOf(f, A), NEW g, NEW B, B \in Nat, HalvesOf(g, B)
  PROVE  /\ NotMore(f, g) <=> A <= B
         /\ Same(f, g) <=> A = B
         /\ f = g => A = B
<1> DEFINE a == f[1]
           b == f[2]
           c == g[1]
           d == g[2]
<1>1. /\ a \in Nat /\ b \in Nat \ {0} /\ 2 * a = A * b
      /\ c \in Nat /\ d \in Nat \ {0} /\ 2 * c = B * d
  BY DEF HalvesOf
<1>2. /\ NotMore(f, g) <=> a * d <= c * b
      /\ Same(f, g) <=> a * d = c * b
  BY DEF NotMore, Same
<1> HIDE DEF a, b, c, d
<1> DEFINE p == b * d
<1>3. p \in Nat \ {0}
  BY <1>1
<1>4. 2 * (a * d) = A * p /\ 2 * (c * b) = B * p
  <2>1. 2 * (a * d) = (2 * a) * d /\ 2 * (c * b) = (2 * c) * b
    BY <1>1
  <2>2. (A * b) * d = A * (b * d) /\ (B * d) * b = B * (b * d)
    BY <1>1
  <2> QED BY <1>1, <2>1, <2>2
<1> HIDE DEF p
<1>5. a * d \in Int /\ c * b \in Int
  BY <1>1
<1>6. (A * p <= B * p <=> A <= B) /\ (A * p = B * p <=> A = B)
  <2>1. (A * p <= B * p => A <= B) /\ (A * p = B * p => A = B)
    BY <1>3, ShorterProduct
  <2>2. A <= B => A * p <= B * p
    BY <1>3, LargerProduct
  <2> QED BY <2>1, <2>2
<1>7. (NotMore(f, g) <=> A <= B) /\ (Same(f, g) <=> A = B)
  BY <1>2, <1>4, <1>5, <1>6
<1>8. Same(f, f)
  BY DEF Same
<1> QED
  BY <1>7, <1>8

LEMMA HalvesAdd ==
  ASSUME FloatAssumption, all <= PowerOf2(MaxExponent), NEW N, N \in Nat, NEW n, n \in Nat,
         N + 2 * n < all, NEW f, HalvesOf(f, N)
  PROVE  Plus(f, <<n, 1>>) = Nearest(N + 2 * n, 2)
<1> DEFINE a == f[1] * 1 + n * f[2]
           b == f[2] * 1
<1>1. f[1] \in Nat /\ f[2] \in Nat \ {0} /\ 2 * f[1] = N * f[2]
  BY DEF HalvesOf
<1>2. Plus(f, <<n, 1>>) = Nearest(a, b)
  BY DEF Plus, The
<1>3. a \in Nat /\ b \in Nat \ {0} /\ b = f[2]
  BY <1>1
<1>4. a * 2 = (N + 2 * n) * b
  <2>1. a * 2 = 2 * f[1] + (2 * n) * f[2]
    BY <1>1
  <2>2. (N + 2 * n) * f[2] = N * f[2] + (2 * n) * f[2]
    BY <1>1
  <2> QED BY <1>1, <1>3, <2>1, <2>2
<1> HIDE DEF a, b
<1> DEFINE Z == N + 2 * n
<1>5. EqualFractions(a, b, Z, 2)
  BY <1>3, <1>4 DEF EqualFractions
<1>6. Z \in Nat /\ Z < all
  OBVIOUS
<1> HIDE DEF Z
<1>7. InReach(Z, 2)
  BY <1>6, HalfIsExact
<1>8. Nearest(a, b) = Nearest(Z, 2)
  BY <1>5, <1>7, SameFraction
<1> QED
  BY <1>2, <1>8 DEF Z


LEMMA HalvesSubtract ==
  ASSUME FloatAssumption, all <= PowerOf2(MaxExponent), NEW A, A \in Nat, NEW B, B \in Nat,
         A <= B, B < all, NEW f, HalvesOf(f, A), NEW g, HalvesOf(g, B)
  PROVE  Minus(g, f) = Nearest(B - A, 2)
<1> DEFINE a == g[1] * f[2] - f[1] * g[2]
           b == g[2] * f[2]
<1>1. /\ f[1] \in Nat /\ f[2] \in Nat \ {0} /\ 2 * f[1] = A * f[2]
      /\ g[1] \in Nat /\ g[2] \in Nat \ {0} /\ 2 * g[1] = B * g[2]
  BY DEF HalvesOf
<1>2. Minus(g, f) = Nearest(a, b)
  BY DEF Minus, The
<1>3. f[1] * g[2] <= g[1] * f[2]
  BY HalvesCompare DEF NotMore
<1>4. a \in Nat /\ b \in Nat \ {0}
  BY <1>1, <1>3
<1>5. a * 2 = (B - A) * b
  <2>1. a * 2 = (2 * g[1]) * f[2] - (2 * f[1]) * g[2]
    BY <1>1
  <2>2. (B * g[2]) * f[2] - (A * f[2]) * g[2] = (B - A) * b
    BY <1>1
  <2> QED BY <1>1, <2>1, <2>2
<1> HIDE DEF a, b
<1> DEFINE Z == B - A
<1>6. Z \in Nat /\ Z < all
  BY Halves
<1>7. EqualFractions(a, b, Z, 2)
  BY <1>4, <1>5, <1>6 DEF EqualFractions
<1> HIDE DEF Z
<1>8. InReach(Z, 2)
  BY <1>6, HalfIsExact
<1>9. Nearest(a, b) = Nearest(Z, 2)
  BY <1>4, <1>6, <1>7, <1>8, SameFraction
<1> QED
  BY <1>2, <1>9 DEF Z

LEMMA HalvesDivide ==
  ASSUME FloatAssumption, NEW Z, Z \in Nat, NEW n, n \in Nat \ {0}, InReach(Z, 2 * n),
         NEW f, HalvesOf(f, Z)
  PROVE  DividedBy(f, n) = Nearest(Z, 2 * n)
<1> DEFINE b == f[2] * n
<1>1. f[1] \in Nat /\ f[2] \in Nat \ {0} /\ 2 * f[1] = Z * f[2]
  BY DEF HalvesOf
<1>2. DividedBy(f, n) = Nearest(f[1], b)
  BY DEF DividedBy, The
<1>3. b \in Nat \ {0} /\ 2 * n \in Nat \ {0}
  BY <1>1
<1>4. f[1] * (2 * n) = Z * b
  <2>1. f[1] * (2 * n) = (2 * f[1]) * n
    BY <1>1
  <2>2. (Z * f[2]) * n = Z * (f[2] * n)
    BY <1>1
  <2> QED BY <1>1, <2>1, <2>2
<1> DEFINE a == f[1]
           S == 2 * n
<1>5. a \in Nat /\ S \in Nat \ {0} /\ InReach(Z, S) /\ EqualFractions(a, b, Z, S)
  BY <1>1, <1>3, <1>4 DEF EqualFractions
<1> HIDE DEF a, b, S
<1>6. Nearest(a, b) = Nearest(Z, S)
  BY <1>3, <1>5, SameFraction
<1> QED
  BY <1>2, <1>6 DEF a, S

\* The cast to long of a rounded quotient is the quotient.
LEMMA QuotientIsTruncated ==
  ASSUME FloatAssumption, NEW Z, Z \in Nat, Z < all, NEW S, S \in Nat \ {0}, InReach(Z, S)
  PROVE  Truncated(Nearest(Z, S)) = Z \div S
<1> DEFINE f == Nearest(Z, S)
           q == Z \div S
           r == Z % S
<1>1. half \in Nat \ {0} /\ all = 2 * half
  BY Halves
<1>2. q \in Nat /\ r \in Nat /\ r < S /\ Z = q * S + r
  BY Division
<1>3. Truncated(f) = f[1] \div f[2]
  BY DEF Truncated, The
<1>4. CASE Z = 0
  <2>1. f = <<0, 1>>
    BY <1>4 DEF Nearest
  <2>2. 0 \div 1 = 0 /\ 0 \div S = 0
    <3>1. 0 = 0 * 1 + 0 /\ 0 = 0 * S + 0 /\ 0 < 1 /\ 0 < S /\ 0 \in Nat /\ 1 \in Nat \ {0}
      OBVIOUS
    <3> QED BY <3>1, QuotientIs
  <2> QED BY <1>3, <1>4, <2>1, <2>2
<1>5. CASE Z # 0
  <2>1. PICK m, U, D : Rounding(Z, S, f, m, U, D)
    <3>1. Z \in Nat \ {0} /\ Z * PowerOf2(MaxExponent) >= S * half
          /\ Z < S * PowerOf2(MaxExponent) * all
      BY <1>5 DEF InReach
    <3> QED BY <3>1, NearestRounds
  <2> HIDE DEF f, q, r
  <2>2. /\ m \in Nat /\ U \in Nat \ {0} /\ D \in Nat \ {0}
        /\ U = 1 \/ (U >= 2 /\ D = 1)
        /\ S * U * half <= Z * D
        /\ 2 * (m * (S * U) - Z * D) <= S * U /\ 2 * (Z * D - m * (S * U)) <= S * U
        /\ f[1] \in Nat /\ f[2] \in Nat \ {0} /\ f[1] * D = m * U * f[2]
    BY <2>1 DEF Rounding
  <2>3. U = 1
    <3> SUFFICES ASSUME U >= 2, D = 1 PROVE FALSE
      BY <2>2
    <3>1. 2 * half <= U * half
      BY <1>1, <2>2, LargerProduct
    <3>2. 1 * (U * half) <= S * (U * half)
      BY <1>1, <2>2, LargerProduct
    <3>3. U * half \in Int /\ S * (U * half) \in Int /\ S * U * half = S * (U * half)
      BY <1>1, <2>2
    <3>4. Z * D = Z /\ 1 * (U * half) = U * half
      BY <3>3
    <3> QED BY <1>1, <2>2, <3>1, <3>2, <3>3, <3>4
  <2>4. /\ S * half <= Z * D
        /\ 2 * (m * S - Z * D) <= S /\ 2 * (Z * D - m * S) <= S
        /\ f[1] * D = m * f[2]
    <3>1. S * U = S /\ m * U = m
      BY <2>2, <2>3
    <3> QED BY <2>2, <3>1
  <2> DEFINE qD == q * D
             k == q + 1
  <2>5. /\ Z * D = qD * S + r * D
        /\ Z * D \in Int /\ m * S \in Int /\ qD \in Nat /\ qD * S \in Int /\ r * D \in Nat
        /\ k \in Nat \ {0} /\ k * D \in Nat /\ k * D = qD + D
    <3>1. Z * D = (q * S + r) * D
      BY <1>2
    <3>2. (q * S + r) * D = (q * S) * D + r * D
      BY <1>2, <2>2
    <3>3. (q * S) * D = (q * D) * S
      BY <1>2, <2>2
    <3>4. k * D = q * D + D
      BY <1>2, <2>2
    <3> QED BY <1>2, <2>2, <3>1, <3>2, <3>3, <3>4
  <2> HIDE DEF qD
  <2>6. qD <= m
    <3> SUFFICES ASSUME m + 1 <= qD PROVE FALSE
      BY <2>2, <2>5
    <3>1. (m + 1) * S <= qD * S
      BY <2>2, <2>5, LargerProduct
    <3>2. (m + 1) * S = m * S + S
      BY <2>2
    <3> QED BY <2>4, <2>5, <3>1, <3>2
  <2>7. m < k * D
    <3> SUFFICES ASSUME qD + D <= m PROVE FALSE
      BY <2>2, <2>5
    <3>1. qD * S + D * S <= m * S
      <4>1. (qD + D) * S <= m * S
        BY <2>2, <2>5, LargerProduct
      <4>2. (qD + D) * S = qD * S + D * S
        BY <2>2, <2>5
      <4> QED BY <4>1, <4>2
    <3>2. r * D + D <= D * S
      <4>1. (r + 1) * D <= S * D
        BY <1>2, <2>2, LargerProduct
      <4>2. (r + 1) * D = r * D + D /\ S * D = D * S
        BY <1>2, <2>2
      <4> QED BY <4>1, <4>2
    <3>3. 2 * D <= S
      <4>1. D * S \in Int
        BY <2>2
      <4> QED BY <2>2, <2>4, <2>5, <3>1, <3>2, <4>1
    <3>4. S * half < (2 * D) * half
      <4>1. (Z + 1) * D <= (2 * half) * D
        BY <1>1, <2>2, LargerProduct
      <4>2. (Z + 1) * D = Z * D + D /\ (2 * half) * D = (2 * D) * half
        BY <1>1, <2>2
      <4>3. S * half \in Int /\ (2 * D) * half \in Int
        BY <1>1, <2>2
      <4> QED BY <2>2, <2>4, <2>5, <4>1, <4>2, <4>3
    <3>5. S < 2 * D
      <4>1. 2 * D \in Int
        BY <2>2
      <4> QED BY <1>1, <3>4, <4>1, ShorterProduct
    <3> QED BY <2>2, <3>3, <3>5
  <2>8. q * f[2] <= f[1]
    <3>1. qD * f[2] <= m * f[2]
      BY <2>2, <2>5, <2>6, LargerProduct
    <3>2. qD * f[2] = (q * f[2]) * D
      BY <1>2, <2>2 DEF qD
    <3>3. (q * f[2]) * D <= f[1] * D /\ q * f[2] \in Int
      BY <1>2, <2>2, <2>4, <3>1, <3>2
    <3> QED BY <2>2, <3>3, ShorterProduct
  <2>9. f[1] < k * f[2]
    <3>1. (m + 1) * f[2] <= (k * D) * f[2]
      BY <2>2, <2>5, <2>7, LargerProduct
    <3>2. (m + 1) * f[2] = m * f[2] + f[2] /\ m * f[2] \in Int
      BY <2>2
    <3>3. (k * D) * f[2] = (k * f[2]) * D /\ k * f[2] \in Int
      BY <2>2, <2>5
    <3>4. (k * f[2]) * D \in Int
      BY <2>2, <3>3
    <3>5. f[1] * D < (k * f[2]) * D
      BY <2>2, <2>4, <3>1, <3>2, <3>3, <3>4
    <3> QED BY <2>2, <3>3, <3>5, ShorterProduct
  <2>10. f[1] \div f[2] = q
    <3> DEFINE x == f[1]
               y == f[2]
               z == x - q * y
    <3>1. x \in Nat /\ y \in Nat \ {0}
      BY <2>2
    <3>2. k * y = q * y + y /\ q * y \in Int
      BY <1>2, <3>1
    <3>3. z \in Nat /\ z < y /\ x = q * y + z
      <4>1. q * y <= x /\ x < k * y
        BY <2>8, <2>9
      <4> HIDE DEF x, y
      <4> QED BY <3>1, <3>2, <4>1
    <3> HIDE DEF x, y, z
    <3>4. x \div y = q
      BY <1>2, <3>1, <3>3, QuotientIs
    <3> QED BY <3>4 DEF x, y
  <2> QED BY <1>3, <2>10 DEF f, q
<1> QED
  BY <1>4, <1>5

\* A literal of N halves.
LEMMA LiteralIsHalves ==
  ASSUME FloatAssumption, all <= PowerOf2(MaxExponent), NEW N, N \in Nat, N < all
  PROVE  atof(5 * N) = Nearest(N, 2)
<1> DEFINE a == 5 * N
<1>1. a \in Nat /\ EqualFractions(a, 10, N, 2)
  BY DEF EqualFractions
<1>2. atof(a) = Nearest(a, 10)
  BY DEF atof, ToFloat, The
<1>3. InReach(N, 2)
  BY HalfIsExact
<1> HIDE DEF a
<1>4. 10 \in Nat \ {0} /\ 2 \in Nat \ {0}
  OBVIOUS
<1>5. Nearest(a, 10) = Nearest(N, 2)
  BY <1>1, <1>3, <1>4, SameFraction
<1> QED
  BY <1>2, <1>5 DEF a

\* The range from A to B halves by n: every value of the odometer is a number of halves.
RangeOfHalves(r, A, B) ==
  /\ A \in Nat /\ B \in Nat /\ A <= B
  /\ r.min = 5 * A /\ r.max = 5 * B /\ r.step \in Nat \ {0}
  /\ B + 2 * r.step < all
  /\ r.step * all <= PowerOf2(MaxExponent) /\ all <= PowerOf2(MaxExponent)

LEMMA StepsOfHalves ==
  ASSUME FloatAssumption, NEW r, NEW A, NEW B, RangeOfHalves(r, A, B)
  PROVE  LET n == r.step
             K == (B - A) \div (2 * n)
         IN  /\ StepsIn(r) = K /\ K \in Nat
             /\ \A k \in Nat : /\ At(r, k) = 5 * (A + (2 * n) * k)
                               /\ A + (2 * n) * k <= B <=> k <= K
<1> DEFINE n == r.step
           Z == B - A
           S == 2 * n
           K == Z \div S
           R == Z % S
<1>1. A \in Nat /\ B \in Nat /\ n \in Nat \ {0} /\ Z \in Nat /\ S \in Nat \ {0}
  BY DEF RangeOfHalves
<1>2. K \in Nat /\ R \in Nat /\ R < S /\ Z = K * S + R
  BY <1>1, Division
<1>3. StepsIn(r) = K
  <2>1. r.max - r.min = Z * 5 /\ 10 * r.step = S * 5
    BY <1>1 DEF RangeOfHalves
  <2> HIDE DEF Z, S
  <2>2. 5 \in Nat \ {0}
    OBVIOUS
  <2>3. (Z * 5) \div (S * 5) = Z \div S
    BY <1>1, <2>2, QuotientScales
  <2> QED BY <2>1, <2>3 DEF StepsIn
<1>4. ASSUME NEW k \in Nat PROVE At(r, k) = 5 * (A + S * k)
  <2>1. r.min + 10 * r.step * k = 5 * A + 10 * n * k
    BY DEF RangeOfHalves
  <2>2. 10 * n * k = 5 * (S * k) /\ S * k \in Int
    BY <1>1
  <2> HIDE DEF S
  <2>3. 5 * (A + S * k) = 5 * A + 5 * (S * k)
    BY <1>1, <2>2
  <2> QED BY <1>1, <2>1, <2>2, <2>3 DEF At
<1>5. ASSUME NEW k \in Nat PROVE A + S * k <= B <=> k <= K
  <2> HIDE DEF K, R, S
  <2>1. k <= K => k * S <= K * S
    BY <1>1, <1>2, LargerProduct
  <2>2. K + 1 <= k => (K + 1) * S <= k * S
    BY <1>1, <1>2, LargerProduct
  <2>3. (K + 1) * S = K * S + S /\ k * S = S * k /\ K * S \in Int /\ k * S \in Int
    BY <1>1, <1>2
  <2> QED BY <1>1, <1>2, <2>1, <2>2, <2>3
<1> QED
  BY <1>2, <1>3, <1>4, <1>5

LEMMA RangeOfHalvesIsExact ==
  ASSUME FloatAssumption, NEW r, NEW A, NEW B, RangeOfHalves(r, A, B)
  PROVE  RangeIsExact(r)
<1> DEFINE n == r.step
           K == StepsIn(r)
           P(k) == A + (2 * n) * k
           X == PowerOf2(MaxExponent)
<1>1. /\ A \in Nat /\ B \in Nat /\ A <= B
      /\ r.min = 5 * A /\ r.max = 5 * B /\ n \in Nat \ {0}
      /\ B + 2 * n < all /\ n * all <= X /\ all <= X
  BY DEF RangeOfHalves
<1>2. half \in Nat \ {0} /\ all = 2 * half /\ MaxExponent \in Nat
  BY Halves
<1>3. X \in Nat \ {0}
  BY <1>2, Powers
<1>4. K = (B - A) \div (2 * n) /\ K \in Nat
  BY StepsOfHalves
<1>5. ASSUME NEW k \in Nat
      PROVE  P(k) \in Nat /\ At(r, k) = 5 * P(k) /\ (P(k) <= B <=> k <= K)
  <2>1. At(r, k) = 5 * P(k) /\ (P(k) <= B <=> k <= K)
    BY StepsOfHalves
  <2>2. (2 * n) * k \in Nat
    BY <1>1
  <2> QED BY <1>1, <2>1, <2>2
<1>6. ASSUME NEW N \in Nat, N < all PROVE atof(5 * N) = Nearest(N, 2) /\ HalvesOf(atof(5 * N), N)
  <2>1. HalvesOf(Nearest(N, 2), N)
    BY <1>1, <1>6, HalfIsExact
  <2>2. atof(5 * N) = Nearest(N, 2)
    BY <1>1, <1>6, LiteralIsHalves
  <2> QED BY <2>1, <2>2
<1>7. Quotient(r) = K /\ InOrder(r)
  <2> DEFINE Z == B - A
             S == 2 * n
  <2>1. Z \in Nat /\ Z < all /\ A < all /\ B < all /\ S \in Nat \ {0}
    BY <1>1, <1>2
  <2>2. Minus(atof(r.max), atof(r.min)) = Nearest(Z, 2)
    BY <1>1, <1>6, <2>1, HalvesSubtract
  <2>3. HalvesOf(Nearest(Z, 2), Z)
    BY <1>1, <2>1, HalfIsExact
  <2>4. InReach(Z, S)
    <3> SUFFICES ASSUME Z # 0 PROVE Z * X >= S * half /\ Z < S * X * all
      BY DEF InReach
    <3> HIDE DEF Z, X
    <3>1. 1 * X <= Z * X
      BY <1>3, <2>1, LargerProduct
    <3>2. S * half = n * all /\ 1 * X = X /\ Z * X \in Int /\ n * all \in Int
      BY <1>1, <1>2, <1>3, <2>1
    <3>3. 1 * all <= (S * X) * all
      <4>1. S * X \in Nat \ {0}
        BY <1>3, <2>1
      <4> HIDE DEF S
      <4>2. 1 <= S * X /\ S * X \in Int
        BY <4>1
      <4> QED BY <1>2, <4>2, LargerProduct
    <3>4. (S * X) * all = S * X * all /\ 1 * all = all /\ S * X * all \in Int
      BY <1>2, <1>3, <2>1
    <3> HIDE DEF S
    <3> QED BY <1>1, <1>2, <1>3, <2>1, <3>1, <3>2, <3>3, <3>4
  <2>5. DividedBy(Nearest(Z, 2), n) = Nearest(Z, S)
    BY <1>1, <2>1, <2>3, <2>4, HalvesDivide
  <2>6. Truncated(Nearest(Z, S)) = Z \div S
    BY <2>1, <2>4, QuotientIsTruncated
  <2>7. InOrder(r)
    BY <1>1 DEF InOrder
  <2> QED BY <1>4, <2>2, <2>5, <2>6, <2>7 DEF Quotient
<1> HIDE DEF K, P, X
<1>8. ASSUME NEW k \in 0 .. K
      PROVE  /\ Plus(atof(At(r, k)), <<n, 1>>) = atof(At(r, k + 1))
             /\ NotMore(atof(At(r, k + 1)), atof(r.max)) <=> k < K
  <2>1. k \in Nat /\ k + 1 \in Nat /\ k <= K /\ (k + 1 <= K <=> k < K)
    BY <1>4
  <2>2. /\ P(k) \in Nat /\ P(k + 1) \in Nat /\ P(k) <= B
        /\ At(r, k) = 5 * P(k) /\ At(r, k + 1) = 5 * P(k + 1)
        /\ P(k + 1) <= B <=> k < K
    BY <1>5, <2>1
  <2>3. P(k + 1) = P(k) + 2 * n
    <3> DEFINE c == 2 * n
    <3>1. c \in Nat
      BY <1>1
    <3>2. P(k) = A + c * k /\ P(k + 1) = A + c * (k + 1)
      BY DEF P
    <3> HIDE DEF c
    <3>3. c * (k + 1) = c * k + c /\ c * k \in Int
      BY <2>1, <3>1
    <3>4. P(k + 1) = P(k) + c
      BY <1>1, <3>1, <3>2, <3>3
    <3> QED BY <3>4 DEF c
  <2>4. P(k) < all /\ P(k + 1) < all /\ B < all
    BY <1>1, <1>2, <2>2, <2>3
  <2>5. Plus(atof(At(r, k)), <<n, 1>>) = atof(At(r, k + 1))
    <3>1. atof(At(r, k)) = Nearest(P(k), 2) /\ HalvesOf(atof(At(r, k)), P(k))
      BY <1>6, <2>2, <2>4
    <3>2. atof(At(r, k + 1)) = Nearest(P(k + 1), 2)
      BY <1>6, <2>2, <2>4
    <3>3. P(k) + 2 * n < all /\ n \in Nat
      BY <1>1, <2>3, <2>4
    <3>4. all <= PowerOf2(MaxExponent)
      BY <1>1 DEF X
    <3>5. Plus(atof(At(r, k)), <<n, 1>>) = Nearest(P(k) + 2 * n, 2)
      BY <2>2, <3>1, <3>3, <3>4, HalvesAdd
    <3> QED BY <2>3, <3>2, <3>5
  <2>6. NotMore(atof(At(r, k + 1)), atof(r.max)) <=> k < K
    <3>1. HalvesOf(atof(At(r, k + 1)), P(k + 1)) /\ HalvesOf(atof(r.max), B)
      BY <1>1, <1>6, <2>2, <2>4
    <3> QED BY <1>1, <2>2, <3>1, HalvesCompare
  <2> QED BY <2>5, <2>6
<1> QED
  BY <1>7, <1>8 DEF RangeIsExact, K

\* A literal that is a multiple of five tenths is a number of halves.
LEMMA NumberOfHalves ==
  ASSUME NEW t, t \in Nat, t % 5 = 0
  PROVE  \E N \in Nat : t = 5 * N
<1>1. t \div 5 \in Nat /\ t = (t \div 5) * 5 + (t % 5)
  BY Division
<1> QED
  BY <1>1

\* THEOREM: doubles compute with multiples of a half as with integers: atof, the additions, the
\* division and the comparisons (population_gen.cpp:34-45, 215-236) are exact up to 2^52.
THEOREM HalvesAreExact ==
  ASSUME FloatAssumption, GeneratorAssumption, Dims, DimensionsAreHalves
  PROVE  DimensionsAreExact
<1>1. half \in Nat \ {0} /\ all = 2 * half /\ all <= PowerOf2(MaxExponent)
  BY Halves DEF DimensionsAreHalves, all
<1>2. ASSUME NEW t, t \in Nat, IsHalf(t) PROVE \E N \in Nat : t = 5 * N /\ N < all
  <2>1. t % 5 = 0 /\ t < 5 * all
    BY <1>2 DEF IsHalf, all
  <2>2. PICK N \in Nat : t = 5 * N
    BY <1>2, <2>1, NumberOfHalves
  <2> QED BY <1>1, <2>1, <2>2
<1>3. ASSUME NEW j \in 1 .. Len(ranges) PROVE RangeIsExact(ranges[j])
  <2> DEFINE r == ranges[j]
  <2>1. r \in RangeChoices /\ RangeIsOfHalves(r)
    BY DimensionTypes DEF DimensionsAreHalves
  <2> HIDE DEF r
  <2>2. r.min \in Nat /\ r.max \in Nat /\ r.step \in Nat \ {0}
    BY <2>1 DEF RangeChoices, GeneratorAssumption
  <2>3. /\ r.min <= r.max /\ IsHalf(r.min) /\ IsHalf(r.max)
        /\ r.max + 10 * r.step < 5 * all /\ r.step * all <= PowerOf2(MaxExponent)
    BY <2>1 DEF RangeIsOfHalves, InOrder, all
  <2>4. PICK A \in Nat : r.min = 5 * A
    BY <1>2, <2>2, <2>3
  <2>5. PICK B \in Nat : r.max = 5 * B
    BY <1>2, <2>2, <2>3
  <2>6. A <= B /\ B + 2 * r.step < all
    BY <1>1, <2>2, <2>3, <2>4, <2>5
  <2>7. RangeOfHalves(r, A, B)
    BY <1>1, <2>2, <2>3, <2>4, <2>5, <2>6 DEF RangeOfHalves
  <2>8. RangeIsExact(r)
    BY <2>7, RangeOfHalvesIsExact
  <2> QED BY <2>8 DEF r
<1>4. ASSUME NEW j \in 1 .. Len(sets) PROVE SetIsExact(sets[j])
  <2> DEFINE q == sets[j]
  <2>1. q \in SortedSets /\ SetIsOfHalves(q)
    BY DimensionTypes DEF DimensionsAreHalves
  <2> HIDE DEF q
  <2>2. \A i \in 1 .. Len(q) : q[i] \in Nat
    <3>1. PICK n \in 2 .. MaxSetSize : q \in [1 .. n -> SetValues \cup {0}]
      BY <2>1 DEF SortedSets
    <3>2. Len(q) = n /\ SetValues \cup {0} \subseteq Nat
      BY <3>1 DEF GeneratorAssumption
    <3> QED BY <3>1, <3>2
  <2>3. ASSUME NEW i \in 1 .. Len(q), NEW k \in 1 .. Len(q), Same(atof(q[i]), atof(q[k]))
        PROVE  i = k
    <3>1. PICK N \in Nat : q[i] = 5 * N /\ N < all
      BY <1>2, <2>1, <2>2 DEF SetIsOfHalves
    <3>2. PICK M \in Nat : q[k] = 5 * M /\ M < all
      BY <1>2, <2>1, <2>2 DEF SetIsOfHalves
    <3>3. HalvesOf(atof(q[i]), N)
      BY <1>1, <3>1, HalfIsExact, LiteralIsHalves
    <3>4. HalvesOf(atof(q[k]), M)
      BY <1>1, <3>2, HalfIsExact, LiteralIsHalves
    <3>5. N = M
      BY <2>3, <3>3, <3>4, HalvesCompare
    <3> QED BY <2>1, <3>1, <3>2, <3>5 DEF SetIsOfHalves
  <2> QED BY <2>3 DEF SetIsExact, q
<1> QED
  BY <1>3, <1>4 DEF DimensionsAreExact

\* THEOREM: so whatever file is read: if its ranges and sets are in order and in halves, as
\* those of the repository's files are, its vector is filled, and no hypothesis about
\* rounding is left (population_gen.cpp:28-54, 161-277).
THEOREM HalvesFillTheVector ==
  ASSUME FloatAssumption, GeneratorAssumption
  PROVE  Spec => [](pc \in {"generated", "overrun"} /\ DimensionsAreHalves /\ Fits => Filled)
<1>1. Init => GeneratorInvariant
  BY InitRuns
<1>2. GeneratorInvariant /\ [Next]_vars => GeneratorInvariant'
  BY RunStep
<1>3. GeneratorInvariant => (pc \in {"generated", "overrun"} /\ DimensionsAreHalves /\ Fits => Filled)
  <2> SUFFICES ASSUME GeneratorInvariant, pc \in {"generated", "overrun"}, DimensionsAreHalves, Fits
               PROVE  Filled
    OBVIOUS
  <2>1. Dims
    BY DEF GeneratorInvariant, Dims
  <2>2. DimensionsAreExact
    BY <2>1, HalvesAreExact
  <2> QED BY <2>2, FilledByInvariant DEF VectorIsFilled
<1> QED
  BY <1>1, <1>2, <1>3, PTL DEF Spec
=============================================================================

----------------------------- MODULE SecpProofs -----------------------------
(***************************************************************************)
(* Proofs about Secp256r1, for every field, every curve of the form, every *)
(* width of the scalars and all requests: the types, the accumulator at    *)
(* each turn of the loop, and the answer of verify.                        *)
(*                                                                         *)
(*   - Congruence modulo p, and the inverses of FieldAssumption, which     *)
(*     leave no divisors of zero.                                          *)
(*   - The formulas of the assembly: coordinates that stand for a point    *)
(*     are taken to coordinates that stand for the point on the tangent    *)
(*     (DoublingFormula) or on the chord (AdditionFormula).  Both sides    *)
(*     are written in the affine coordinates, the slope, ZZ and ZZZ, and   *)
(*     compared as polynomials.                                            *)
(*   - Represents: doubling and accumulating are the group's, but for the  *)
(*     doubling that stands in for an addition, of which only the abscissa *)
(*     is right (AccumulateSame).                                          *)
(*   - The point of the bits from i upwards is twice that from i + 1       *)
(*     upwards and the addend of bit i (PrefixStep).                       *)
(*   - SecpInv, which is inductive.  AccumulatorIsPrefix alone is not: a  *)
(*     turn of the loop needs the types, and a key on the curve.           *)
(*     VerifiesByTheBook needs of the accumulator only that its abscissa   *)
(*     is right after the last bit, which it is even where that bit's      *)
(*     addition was a doubling.                                            *)
(***************************************************************************)
EXTENDS Secp256r1, InductionFacts

---------------------------------------------------------------------------
(* Arithmetic modulo p.                                                    *)

x \cong y == \E k \in Int : x - y = k * p

(* Congruence is an equivalence that sums and products respect.             *)
LEMMA CongIntro ==
    ASSUME NEW x \in Int, NEW y \in Int, NEW k \in Int, x - y = k * p
    PROVE  x \cong y
BY DEF \cong

LEMMA CongEqual ==
    ASSUME NEW x \in Int, NEW y \in Int, x = y
    PROVE  x \cong y
<1>1. 0 \in Int /\ x - y = 0 * p
  BY CurveAssumption
<1> QED
  BY <1>1, CongIntro

LEMMA CongRefl ==
    ASSUME NEW x \in Int
    PROVE  x \cong x
BY CongEqual

LEMMA CongSym ==
    ASSUME NEW x \in Int, NEW y \in Int, x \cong y
    PROVE  y \cong x
<1>1. PICK k \in Int : x - y = k * p
  BY DEF \cong
<1>2. -k \in Int /\ y - x = (-k) * p
  BY <1>1, CurveAssumption
<1> QED
  BY <1>2, CongIntro

LEMMA CongTrans ==
    ASSUME NEW x \in Int, NEW y \in Int, NEW z \in Int, x \cong y, y \cong z
    PROVE  x \cong z
<1>1. PICK k \in Int : x - y = k * p
  BY DEF \cong
<1>2. PICK l \in Int : y - z = l * p
  BY DEF \cong
<1>3. k + l \in Int /\ x - z = (k + l) * p
  BY <1>1, <1>2, CurveAssumption
<1> QED
  BY <1>3, CongIntro

LEMMA CongAdd ==
    ASSUME NEW x \in Int, NEW y \in Int, NEW z \in Int, NEW w \in Int, x \cong y, z \cong w
    PROVE  x + z \cong y + w
<1>1. PICK k \in Int : x - y = k * p
  BY DEF \cong
<1>2. PICK l \in Int : z - w = l * p
  BY DEF \cong
<1>3. k + l \in Int /\ x + z \in Int /\ y + w \in Int /\ (x + z) - (y + w) = (k + l) * p
  BY <1>1, <1>2, CurveAssumption
<1> QED
  BY <1>3, CongIntro

LEMMA CongSub ==
    ASSUME NEW x \in Int, NEW y \in Int, NEW z \in Int, NEW w \in Int, x \cong y, z \cong w
    PROVE  x - z \cong y - w
<1>1. PICK k \in Int : x - y = k * p
  BY DEF \cong
<1>2. PICK l \in Int : z - w = l * p
  BY DEF \cong
<1>3. k - l \in Int /\ x - z \in Int /\ y - w \in Int /\ (x - z) - (y - w) = (k - l) * p
  BY <1>1, <1>2, CurveAssumption
<1> QED
  BY <1>3, CongIntro

LEMMA CongMul ==
    ASSUME NEW x \in Int, NEW y \in Int, NEW z \in Int, NEW w \in Int, x \cong y, z \cong w
    PROVE  x * z \cong y * w
<1>1. PICK k \in Int : x - y = k * p
  BY DEF \cong
<1>2. PICK l \in Int : z - w = l * p
  BY DEF \cong
<1>3. k * z + y * l \in Int /\ x * z \in Int /\ y * w \in Int
      /\ x * z - y * w = (k * z + y * l) * p
  BY <1>1, <1>2, CurveAssumption
<1> QED
  BY <1>3, CongIntro

(* The remainder is the congruent number below p. *)
LEMMA ModCong ==
    ASSUME NEW x \in Int
    PROVE  x % p \in 0..(p - 1) /\ x % p \in Int /\ (x % p) \cong x
<1>1. x % p \in 0..(p - 1) /\ x \div p \in Int /\ x = p * (x \div p) + (x % p)
  BY CurveAssumption
<1>2. -(x \div p) \in Int /\ (x % p) - x = (-(x \div p)) * p
  BY <1>1, CurveAssumption
<1>3. x % p \in Int
  BY <1>1, CurveAssumption
<1> QED
  BY <1>1, <1>2, <1>3, CongIntro

(* Congruent numbers have one remainder; below p they are equal.            *)
LEMMA ResidueUnique ==
    ASSUME NEW x \in 0..(p - 1), NEW y \in 0..(p - 1), x \cong y
    PROVE  x = y
<1>1. PICK k \in Int : x - y = k * p
  BY DEF \cong
<1>2. k = 0
  BY <1>1, CurveAssumption
<1> QED
  BY <1>1, <1>2, CurveAssumption

LEMMA ModEqual ==
    ASSUME NEW x \in Int, NEW y \in Int
    PROVE  x \cong y <=> x % p = y % p
<1>1. (x % p) \cong x /\ (y % p) \cong y /\ x % p \in 0..(p - 1) /\ y % p \in 0..(p - 1)
      /\ x % p \in Int /\ y % p \in Int
  BY ModCong
<1>2. ASSUME x \cong y PROVE x % p = y % p
  <2>1. (x % p) \cong y
    BY <1>1, <1>2, CongTrans
  <2>2. (x % p) \cong (y % p)
    BY <1>1, <2>1, CongTrans, CongSym
  <2> QED
    BY <1>1, <2>2, ResidueUnique
<1>3. ASSUME x % p = y % p PROVE x \cong y
  <2>1. x \cong (x % p)
    BY <1>1, CongSym
  <2> QED
    BY <1>1, <1>3, <2>1, CongTrans
<1> QED
  BY <1>2, <1>3

LEMMA ResidueMod ==
    ASSUME NEW x \in 0..(p - 1)
    PROVE  x \in Int /\ x % p = x
BY CurveAssumption

LEMMA ModZero ==
    ASSUME NEW x \in Int
    PROVE  x % p = 0 <=> x \cong 0
<1>1. 0 % p = 0 /\ 0 \in Int
  BY CurveAssumption
<1> QED
  BY <1>1, ModEqual

---------------------------------------------------------------------------
(* Repeating a step.                                                       *)

(* The values of a step that is repeated m times from c. *)
Repeats(f, m, c, step) ==
    /\ DOMAIN f = 0..m /\ f[0] = c
    /\ \A k \in 1..m : f[k] = step[f[k - 1]]

LEMMA RepeatExists ==
    ASSUME NEW S, NEW c \in S, NEW step \in [S -> S], NEW m \in Nat
    PROVE  \E f \in [0..m -> S] : Repeats(f, m, c, step)
<1> DEFINE Built == {k \in Nat : \E f \in [0..k -> S] : Repeats(f, k, c, step)}
<1>1. 0 \in Built
  <2> DEFINE f == [i \in 0..0 |-> c]
  <2>1. f \in [0..0 -> S] /\ Repeats(f, 0, c, step)
    BY DEF Repeats
  <2> QED
    BY <2>1
<1>2. ASSUME NEW k \in 0..(m - 1), k \in Built PROVE k + 1 \in Built
  <2>1. PICK f \in [0..k -> S] : Repeats(f, k, c, step)
    BY <1>2
  <2> DEFINE g == [i \in 0..(k + 1) |-> IF i = k + 1 THEN step[f[k]] ELSE f[i]]
  <2>2. /\ g[k + 1] = step[f[k]]
        /\ \A i \in 0..k : g[i] = f[i]
        /\ g \in [0..(k + 1) -> S]
    OBVIOUS
  <2> HIDE DEF g
  <2>3. DOMAIN g = 0..(k + 1) /\ 0 \in 0..k /\ g[0] = c
    BY <2>1, <2>2 DEF Repeats
  <2>4. ASSUME NEW i \in 1..(k + 1) PROVE g[i] = step[g[i - 1]]
    <3>1. CASE i = k + 1
      <4>1. k \in 0..k /\ i - 1 = k
        BY <3>1
      <4> QED
        BY <2>2, <3>1, <4>1
    <3>2. CASE i # k + 1
      <4>1. i \in 1..k /\ i \in 0..k /\ i - 1 \in 0..k
        BY <3>2
      <4> QED
        BY <2>1, <2>2, <4>1 DEF Repeats
    <3> QED
      BY <3>1, <3>2
  <2>5. Repeats(g, k + 1, c, step)
    BY <2>3, <2>4 DEF Repeats
  <2> QED
    BY <2>2, <2>5
<1> HIDE DEF Built
<1>3. \A k \in 0..m : k \in Built
  BY <1>1, <1>2, SetInduction
<1> QED
  BY <1>3 DEF Built

(* Powers of two. *)
LEMMA TwoToIs ==
    /\ TwoTo \in [0..Bits -> Nat] /\ TwoTo[0] = 1
    /\ \A i \in 1..Bits : TwoTo[i] = 2 * TwoTo[i - 1]
<1> DEFINE Is(f) == f = [i \in 0..Bits |-> IF i = 0 THEN 1 ELSE 2 * f[i - 1]]
           double == [x \in Nat |-> 2 * x]
<1>0. Bits \in Nat
  BY CurveAssumption
<1>1. \E f \in [0..Bits -> Nat] : Repeats(f, Bits, 1, double)
  <2>1. double \in [Nat -> Nat] /\ 1 \in Nat
    OBVIOUS
  <2> HIDE DEF double
  <2> QED
    BY <1>0, <2>1, RepeatExists
<1>2. PICK f \in [0..Bits -> Nat] : Repeats(f, Bits, 1, double)
  BY <1>1
<1>3. f[0] = 1 /\ \A i \in 1..Bits : f[i] = 2 * f[i - 1]
  <2>1. ASSUME NEW i \in 1..Bits PROVE f[i] = 2 * f[i - 1]
    <3>1. i - 1 \in 0..Bits /\ f[i - 1] \in Nat
      BY <1>0
    <3> QED
      BY <1>2, <3>1 DEF Repeats
  <2> QED
    BY <1>2, <2>1 DEF Repeats
<1> HIDE DEF double
<1>4. Is(f)
  <2>1. ASSUME NEW i \in 0..Bits PROVE f[i] = IF i = 0 THEN 1 ELSE 2 * f[i - 1]
    BY <1>0, <1>3
  <2>2. f = [i \in 0..Bits |-> f[i]]
    OBVIOUS
  <2> QED
    BY <2>1, <2>2
<1>5. TwoTo = CHOOSE g : Is(g)
  BY DEF TwoTo
<1>6. Is(TwoTo)
  BY <1>4, <1>5
<1> HIDE DEF Is
<1>7. TwoTo = f
  <2>1. DOMAIN TwoTo = 0..Bits /\ \A i \in 0..Bits : TwoTo[i] = IF i = 0 THEN 1 ELSE 2 * TwoTo[i - 1]
    BY <1>6 DEF Is
  <2> DEFINE Same == {i \in Nat : i \in 0..Bits => TwoTo[i] = f[i]}
  <2>2. 0 \in Same
    BY <1>3, <2>1
  <2>3. ASSUME NEW i \in 0..(Bits - 1), i \in Same PROVE i + 1 \in Same
    <3>1. i \in 0..Bits /\ i + 1 \in 1..Bits /\ i + 1 \in 0..Bits /\ i + 1 # 0 /\ (i + 1) - 1 = i
      BY <1>0
    <3> QED
      BY <1>3, <2>1, <2>3, <3>1
  <2> HIDE DEF Same
  <2>4. \A i \in 0..Bits : i \in Same
    BY <1>0, <2>2, <2>3, SetInduction
  <2>5. \A i \in 0..Bits : TwoTo[i] = f[i]
    BY <1>0, <2>4 DEF Same
  <2>6. TwoTo = [i \in 0..Bits |-> TwoTo[i]]
    BY <1>6 DEF Is
  <2> QED
    BY <2>5, <2>6
<1> QED
  BY <1>3, <1>7

---------------------------------------------------------------------------
(* The field.                                                              *)

(* The precompile returns a remainder, and powers of 0 are 0.               *)
LEMMA ModExpRange ==
    ASSUME NEW base \in Nat, NEW exponent \in Nat, NEW modulus \in Nat \ {0, 1}
    PROVE  /\ ModExp(base, exponent, modulus) \in 0..(modulus - 1)
           /\ base = 0 /\ exponent # 0 => ModExp(base, exponent, modulus) = 0
<1> DEFINE Is(f) == f = [k \in 0..exponent |-> IF k = 0 THEN 1 ELSE (f[k - 1] * base) % modulus]
           Rems == 0..(modulus - 1)
           times == [x \in Rems |-> (x * base) % modulus]
<1>1. \A x \in Rems : (x * base) % modulus \in Rems
  <2> SUFFICES ASSUME NEW x \in Rems PROVE (x * base) % modulus \in Rems
    OBVIOUS
  <2>1. x * base \in Int
    OBVIOUS
  <2> QED
    BY <2>1
<1>2. PICK f \in [0..exponent -> Rems] : Repeats(f, exponent, 1, times)
  <2>1. times \in [Rems -> Rems] /\ 1 \in Rems
    BY <1>1
  <2> HIDE DEF times, Rems
  <2> QED
    BY <2>1, RepeatExists
<1>3. Is(f)
  <2>1. ASSUME NEW k \in 0..exponent
        PROVE  f[k] = IF k = 0 THEN 1 ELSE (f[k - 1] * base) % modulus
    <3>1. CASE k = 0
      BY <1>2, <3>1 DEF Repeats
    <3>2. CASE k # 0
      <4>1. k \in 1..exponent /\ k - 1 \in 0..exponent /\ f[k - 1] \in Rems
        BY <3>2
      <4> QED
        BY <1>2, <3>2, <4>1 DEF Repeats
    <3> QED
      BY <3>1, <3>2
  <2>2. f = [k \in 0..exponent |-> f[k]]
    OBVIOUS
  <2> QED
    BY <2>1, <2>2
<1> DEFINE power == CHOOSE g : Is(g)
<1>4. ModExp(base, exponent, modulus) = power[exponent]
  BY DEF ModExp
<1>5. Is(power)
  BY <1>3
<1> HIDE DEF power
<1>6. \A k \in 0..exponent : power[k] = IF k = 0 THEN 1 ELSE (power[k - 1] * base) % modulus
  BY <1>5
<1> DEFINE Ranged == {k \in Nat : k \in 0..exponent => power[k] \in Rems}
<1>7. 0 \in Ranged
  BY <1>6
<1>8. ASSUME NEW k \in 0..(exponent - 1), k \in Ranged PROVE k + 1 \in Ranged
  <2>1. k \in 0..exponent /\ k + 1 \in 0..exponent /\ k + 1 # 0 /\ (k + 1) - 1 = k
    OBVIOUS
  <2>2. power[k] \in Rems /\ power[k + 1] = (power[k] * base) % modulus
    BY <1>6, <1>8, <2>1
  <2> QED
    BY <1>1, <2>2
<1> HIDE DEF Ranged
<1>9. \A k \in 0..exponent : k \in Ranged
  BY <1>7, <1>8, SetInduction
<1>10. \A k \in 0..exponent : power[k] \in Rems
  BY <1>9 DEF Ranged
<1>11. power[exponent] \in Rems
  BY <1>10
<1>12. ASSUME base = 0, exponent # 0 PROVE power[exponent] = 0
  <2>1. exponent \in 0..exponent /\ exponent - 1 \in 0..exponent
    BY <1>12
  <2>2. power[exponent - 1] \in Int /\ power[exponent] = (power[exponent - 1] * base) % modulus
    BY <1>6, <1>10, <1>12, <2>1
  <2>3. power[exponent - 1] * base = 0
    BY <1>12, <2>2
  <2> QED
    BY <2>2, <2>3
<1> QED
  BY <1>4, <1>11, <1>12

LEMMA InverseRange ==
    /\ \A x \in Nat : FCL_pModInv(x) \in 0..(p - 1) /\ FCL_pModInv(x) \in Int
    /\ FCL_pModInv(0) = 0
    /\ \A x \in Nat : FCL_nModInv(x) \in 0..(n - 1) /\ FCL_nModInv(x) \in Nat
<1>1. p - 2 \in Nat /\ p - 2 # 0 /\ p \in Nat \ {0, 1} /\ n - 2 \in Nat /\ n \in Nat \ {0, 1}
  BY CurveAssumption
<1>2. \A x \in Nat : FCL_pModInv(x) \in 0..(p - 1)
  BY <1>1, ModExpRange DEF FCL_pModInv
<1>3. FCL_pModInv(0) = 0
  BY <1>1, ModExpRange DEF FCL_pModInv
<1>4. \A x \in Nat : FCL_nModInv(x) \in 0..(n - 1)
  BY <1>1, ModExpRange DEF FCL_nModInv
<1> QED
  BY <1>1, <1>2, <1>3, <1>4

(* What is not a multiple of p has an inverse, the one that the code uses. *)
LEMMA InverseOf ==
    ASSUME NEW x \in 0..(p - 1), ~(x \cong 0)
    PROVE  FCL_pModInv(x) \in Int /\ x * FCL_pModInv(x) \cong 1
<1>1. x \in 1..(p - 1) /\ x \in Nat
  <2>1. x # 0
    BY CongEqual
  <2> QED
    BY <2>1, CurveAssumption
<1>2. FCL_pModInv(x) \in Int
  BY <1>1, InverseRange
<1>3. (x * FCL_pModInv(x)) % p = 1 /\ 1 % p = 1
  BY <1>1, FieldAssumption, CurveAssumption
<1>4. x * FCL_pModInv(x) \in Int /\ 1 \in Int
  BY <1>1, <1>2
<1> QED
  BY <1>2, <1>3, <1>4, ModEqual

LEMMA HasInverse ==
    ASSUME NEW x \in Int, ~(x \cong 0)
    PROVE  \E i \in Int : x * i \cong 1
<1>1. x % p \in 0..(p - 1) /\ x % p \in Int /\ (x % p) \cong x
  BY ModCong
<1>2. ~((x % p) \cong 0)
  BY <1>1, CongTrans, CongSym
<1>3. PICK i \in Int : (x % p) * i \cong 1
  BY <1>1, <1>2, InverseOf
<1>4. x * i \cong (x % p) * i
  BY <1>1, CongSym, CongMul, CongRefl
<1>5. x * i \in Int /\ (x % p) * i \in Int
  BY <1>1
<1> QED
  BY <1>3, <1>4, <1>5, CongTrans

(* A factor that has an inverse can be cancelled.                           *)
LEMMA Cancel ==
    ASSUME NEW x \in Int, NEW y \in Int, NEW z \in Int, x * y \cong x * z, ~(x \cong 0)
    PROVE  y \cong z
<1>1. PICK i \in Int : x * i \cong 1
  BY HasInverse
<1>2. i * (x * y) \cong i * (x * z)
  <2>1. i \cong i /\ x * y \in Int /\ x * z \in Int
    BY CongRefl
  <2> QED
    BY <2>1, CongMul
<1>3. (x * i) * y \cong 1 * y /\ (x * i) * z \cong 1 * z
  <2>1. y \cong y /\ z \cong z /\ x * i \in Int /\ 1 \in Int
    BY CongRefl
  <2> QED
    BY <1>1, <2>1, CongMul
<1> DEFINE left == i * (x * y)
           right == i * (x * z)
<1>4. left \in Int /\ right \in Int /\ left \cong right
  BY <1>2
<1>5. left = (x * i) * y /\ right = (x * i) * z /\ 1 * y = y /\ 1 * z = z
  BY <1>1
<1> HIDE DEF left, right
<1>6. left \cong y /\ right \cong z
  BY <1>3, <1>5, Zenon
<1>7. y \cong left
  BY <1>4, <1>6, CongSym
<1>8. y \cong right
  BY <1>4, <1>7, CongTrans
<1> QED
  BY <1>4, <1>6, <1>8, CongTrans

LEMMA NoZeroDivisors ==
    ASSUME NEW x \in Int, NEW y \in Int, ~(x \cong 0), ~(y \cong 0)
    PROVE  ~(x * y \cong 0)
<1> SUFFICES ASSUME x * y \cong 0 PROVE FALSE
  OBVIOUS
<1>1. x * 0 = 0
  OBVIOUS
<1>2. x * y \cong x * 0
  BY <1>1
<1> QED
  BY <1>2, Cancel

---------------------------------------------------------------------------
(* The formulas of the assembly.                                           *)

LEMMA CongSquare ==
    ASSUME NEW x \in Int, NEW y \in Int, x \cong y
    PROVE  x * x \cong y * y
BY CongMul

LEMMA CongScale ==
    ASSUME NEW x \in Int, NEW y \in Int, NEW c \in Int, x \cong y
    PROVE  c * x \cong c * y
BY CongMul, CongRefl

Residues == 0..(p - 1)
Quads == Residues \X Residues \X Residues \X Residues

LEMMA QuadsAreInts ==
    ASSUME NEW P \in Quads
    PROVE  \A i \in 1..4 : P[i] \in Residues /\ P[i] \in Int
BY CurveAssumption DEF Quads, Residues

(* The coordinates P agree with one another, and with the point <<x, y>>. *)
Agree(P) == P[3] * P[3] * P[3] \cong P[4] * P[4]
StandsFor(P, x, y) == Agree(P) /\ P[1] \cong x * P[3] /\ P[2] \cong y * P[4]

LEMMA MinusTwo ==
    ASSUME NEW x \in Int, NEW y \in Int
    PROVE  (x + minus_2 * y) \cong (x - 2 * y)
<1> DEFINE left == x + minus_2 * y
           right == x - 2 * y
<1>1. left \in Int /\ right \in Int /\ left - right = y * p
  BY CurveAssumption DEF minus_2
<1> HIDE DEF left, right
<1>2. left \cong right
  BY <1>1, CongIntro
<1> QED
  BY <1>2 DEF left, right

(* Doubling: the new coordinates stand for the point that the tangent with  *)
(* slope l meets.                                                           *)
LEMMA DoublingFormula ==
    ASSUME NEW P \in Quads, NEW x \in Int, NEW y \in Int, NEW l \in Int,
           StandsFor(P, x, y), 2 * y * l \cong 3 * x * x - 3
    PROVE  /\ ecZZ_Dbl(P) \in Quads
           /\ StandsFor(ecZZ_Dbl(P), l * l - 2 * x, l * (x - (l * l - 2 * x)) - y)
           /\ ecZZ_Dbl(P)[3] \cong 4 * (y * y) * (P[3] * P[3] * P[3]) * P[3]
<1> DEFINE X == P[1]
           Y == P[2]
           Z == P[3]
           T == P[4]
           U == (2 * Y) % p
           V == (U * U) % p
           S == (X * V) % p
           W == (U * V) % p
           M == (3 * (X - Z) * (X + Z)) % p
           RX == (M * M + minus_2 * S) % p
           RY == (M * (S - RX) - W * Y) % p
           RZ == (V * Z) % p
           RT == (W * T) % p
<1>1. ecZZ_Dbl(P) = <<RX, RY, RZ, RT>>
  BY DEF ecZZ_Dbl
<1>2. X \in Int /\ Y \in Int /\ Z \in Int /\ T \in Int
  BY QuadsAreInts
<1>3. X \cong x * Z /\ Y \cong y * T /\ Z * Z * Z \cong T * T
  BY DEF StandsFor, Agree
<1>4. U \in Int /\ U \cong 2 * Y
  BY <1>2, ModCong
<1>5. V \in Int /\ V \cong U * U
  BY <1>4, ModCong
<1>6. S \in Int /\ S \cong X * V
  BY <1>2, <1>5, ModCong
<1>7. W \in Int /\ W \cong U * V
  BY <1>4, <1>5, ModCong
<1>8. M \in Int /\ M \cong 3 * (X - Z) * (X + Z)
  <2>1. 3 * (X - Z) * (X + Z) \in Int
    BY <1>2
  <2> QED
    BY <2>1, ModCong
<1>9. RX \in Int /\ RX \in Residues /\ RX \cong M * M - 2 * S
  <2>1. M * M \in Int /\ M * M + minus_2 * S \in Int /\ M * M - 2 * S \in Int
    BY <1>6, <1>8, CurveAssumption DEF minus_2
  <2>2. M * M + minus_2 * S \cong M * M - 2 * S
    BY <1>6, <2>1, MinusTwo
  <2>3. RX \in Int /\ RX \in Residues /\ RX \cong M * M + minus_2 * S
    BY <2>1, ModCong DEF Residues
  <2> QED
    BY <2>1, <2>2, <2>3, CongTrans
<1>10. RY \in Residues /\ RY \in Int /\ RY \cong M * (S - RX) - W * Y
  <2>1. M * (S - RX) - W * Y \in Int
    BY <1>2, <1>6, <1>7, <1>8, <1>9
  <2> QED
    BY <2>1, ModCong DEF Residues
<1>11. RZ \in Residues /\ RZ \in Int /\ RZ \cong V * Z
  BY <1>2, <1>5, ModCong DEF Residues
<1>12. RT \in Residues /\ RT \in Int /\ RT \cong W * T
  BY <1>2, <1>7, ModCong DEF Residues
<1>13. X = P[1] /\ Y = P[2] /\ Z = P[3] /\ T = P[4]
  OBVIOUS
<1> HIDE DEF X, Y, Z, T, U, V, S, W, M, RX, RY, RZ, RT
(* Everything is written in x, y, l, Z and T. *)
<1> DEFINE ZZZ == Z * Z * Z
           TT == T * T
           UU == 2 * (y * T)
           c == 4 * (y * y)
           VV == c * ZZZ
           SS == (x * Z) * VV
           s == 2 * y * l
           t == 3 * x * x - 3
           MM == s * (Z * Z)
           x2 == l * l - 2 * x
           XX == x2 * (VV * Z)
           e == 8 * (y * y * y) * ZZZ
           lx == l * (x - x2)
<1>14. /\ ZZZ \in Int /\ TT \in Int /\ UU \in Int /\ c \in Int /\ VV \in Int /\ SS \in Int
       /\ s \in Int /\ t \in Int /\ MM \in Int /\ x2 \in Int /\ XX \in Int /\ e \in Int /\ lx \in Int
       /\ VV * Z \in Int /\ x * Z \in Int /\ y * T \in Int /\ Z * Z \in Int
  BY <1>2
<1>15. ZZZ \cong TT /\ s \cong t
  BY <1>3
<1>16. /\ UU * UU = c * TT
       /\ 3 * ((x * Z - Z) * (x * Z + Z)) = (Z * Z) * t
       /\ MM * MM - 2 * SS = x2 * (VV * Z)
       /\ (UU * VV) * T = e * TT
       /\ (UU * VV) * (y * T) = (y * e) * TT
       /\ MM * (SS - XX) = lx * (e * ZZZ)
       /\ (VV * Z) * (VV * Z) * (VV * Z) = (e * ZZZ) * (e * ZZZ)
  BY <1>2
<1>17. VV * Z = 4 * (y * y) * (Z * Z * Z) * Z
  OBVIOUS
<1>18. VV = c * ZZZ /\ MM = s * (Z * Z) /\ SS = (x * Z) * VV /\ UU = 2 * (y * T) /\ XX = x2 * (VV * Z)
  OBVIOUS
<1>19. lx - y = l * (x - x2) - y
  OBVIOUS
<1>20. U \cong UU
  <2>1. 2 * Y \cong 2 * (y * T)
    BY <1>2, <1>3, <1>14, CongScale
  <2> QED
    BY <1>2, <1>4, <1>14, <2>1, CongTrans
<1> HIDE DEF ZZZ, TT, UU, c, VV, SS, s, t, MM, x2, XX, e, lx
<1>21. V \cong VV
  <2>0. UU * UU = c * TT /\ c * TT \in Int /\ c * ZZZ \in Int /\ U * U \in Int
    BY <1>4, <1>14, <1>16
  <2>1. U * U \cong c * TT
    BY <1>4, <1>14, <1>20, <2>0, CongSquare
  <2>2. c * TT \cong c * ZZZ
    BY <1>14, <1>15, CongScale, CongSym
  <2>3. U * U \cong c * ZZZ
    BY <2>0, <2>1, <2>2, CongTrans
  <2> QED
    BY <1>4, <1>5, <1>14, <1>18, <2>3, CongTrans
<1>22. S \cong SS
  <2>1. X * V \cong (x * Z) * VV
    BY <1>2, <1>3, <1>5, <1>14, <1>21, CongMul
  <2> QED
    BY <1>2, <1>5, <1>6, <1>14, <1>18, <2>1, CongTrans
<1>23. M \cong MM
  <2> DEFINE D == X - Z
             E == X + Z
             xZ == x * Z
             DD == xZ - Z
             EE == xZ + Z
             ZZ == Z * Z
  <2>1. /\ D \in Int /\ E \in Int /\ xZ \in Int /\ DD \in Int /\ EE \in Int /\ ZZ \in Int
        /\ X \cong xZ /\ 3 * (X - Z) * (X + Z) = 3 * (D * E) /\ 3 * (DD * EE) = ZZ * t
    BY <1>2, <1>3, <1>16
  <2>2. MM = ZZ * s
    BY <1>14, <1>18
  <2>3. D \cong DD /\ E \cong EE
    <3> HIDE DEF xZ
    <3> QED
      BY <1>2, <2>1, CongSub, CongAdd, CongRefl
  <2> HIDE DEF D, E, xZ, DD, EE, ZZ
  <2>4. D * E \cong DD * EE
    BY <2>1, <2>3, CongMul
  <2>5. 3 * (D * E) \cong 3 * (DD * EE)
    BY <2>1, <2>4, CongScale
  <2>6. ZZ * t \cong ZZ * s
    BY <1>14, <1>15, <2>1, CongScale, CongSym
  <2>7. 3 * (D * E) \cong ZZ * s
    BY <1>14, <2>1, <2>5, <2>6, CongTrans
  <2>8. M \cong 3 * (D * E)
    BY <1>8, <2>1
  <2> QED
    BY <1>8, <1>14, <2>1, <2>2, <2>7, <2>8, CongTrans
<1>24. RZ \cong VV * Z
  <2>1. V * Z \cong VV * Z
    BY <1>2, <1>5, <1>14, <1>21, CongMul, CongRefl
  <2> QED
    BY <1>2, <1>5, <1>11, <1>14, <2>1, CongTrans
<1>25. RX \cong XX
  <2>1. M * M \cong MM * MM /\ 2 * S \cong 2 * SS
    BY <1>6, <1>8, <1>14, <1>22, <1>23, CongSquare, CongScale
  <2>2. M * M - 2 * S \cong MM * MM - 2 * SS
    BY <1>6, <1>8, <1>14, <2>1, CongSub
  <2> QED
    BY <1>6, <1>8, <1>9, <1>14, <1>16, <1>18, <2>2, CongTrans
<1>26. RX \cong x2 * RZ
  <2>1. x2 * (VV * Z) \cong x2 * RZ
    BY <1>11, <1>14, <1>24, CongScale, CongSym
  <2> QED
    BY <1>9, <1>11, <1>14, <1>18, <1>25, <2>1, CongTrans
<1>27. W \cong UU * VV
  <2>1. U * V \cong UU * VV
    BY <1>4, <1>5, <1>14, <1>20, <1>21, CongMul
  <2> QED
    BY <1>4, <1>5, <1>7, <1>14, <2>1, CongTrans
<1> DEFINE uv == UU * VV
           eTT == e * ZZZ
<1>28. uv \in Int /\ eTT \in Int /\ W \cong uv
  BY <1>14, <1>27
<1>29. /\ uv * T = e * TT /\ uv * (y * T) = (y * e) * TT /\ MM * (SS - XX) = lx * eTT
       /\ (VV * Z) * (VV * Z) * (VV * Z) = eTT * eTT
       /\ (y * e) * ZZZ = y * eTT
  BY <1>14, <1>16
<1>30. eTT = e * ZZZ
  OBVIOUS
<1> HIDE DEF uv, eTT
<1>31. RT \cong eTT
  <2>1. W * T \cong uv * T
    <3>1. T \cong T
      BY <1>2, CongRefl
    <3> QED
      BY <1>2, <1>7, <1>28, <3>1, CongMul
  <2>2. e * TT \cong e * ZZZ
    BY <1>14, <1>15, CongScale, CongSym
  <2>3. W * T \cong eTT
    BY <1>2, <1>7, <1>14, <1>28, <1>29, <1>30, <2>1, <2>2, CongTrans
  <2> QED
    BY <1>2, <1>7, <1>12, <1>28, <2>3, CongTrans
<1>32. W * Y \cong y * eTT
  <2> DEFINE ye == y * e
  <2>1. W * Y \cong uv * (y * T)
    BY <1>2, <1>3, <1>7, <1>14, <1>28, CongMul
  <2>2. ye \in Int /\ uv * (y * T) = ye * TT /\ ye * ZZZ = y * eTT
    BY <1>14, <1>29
  <2> HIDE DEF ye
  <2>3. ye * TT \cong ye * ZZZ
    BY <1>14, <1>15, <2>2, CongScale, CongSym
  <2> QED
    BY <1>2, <1>7, <1>14, <2>1, <2>2, <2>3, CongTrans
<1>33. M * (S - RX) \cong lx * eTT
  <2>1. S - RX \cong SS - XX
    BY <1>6, <1>9, <1>14, <1>22, <1>25, CongSub
  <2>2. M * (S - RX) \cong MM * (SS - XX)
    BY <1>6, <1>8, <1>9, <1>14, <1>23, <2>1, CongMul
  <2> QED
    BY <1>29, <2>2
<1>34. RY \cong (lx - y) * RT
  <2> DEFINE r == lx - y
  <2>1. r \in Int /\ lx * eTT - y * eTT = r * eTT
    BY <1>14, <1>28
  <2> HIDE DEF r
  <2>2. M * (S - RX) - W * Y \cong lx * eTT - y * eTT
    BY <1>2, <1>6, <1>7, <1>8, <1>9, <1>14, <1>28, <1>32, <1>33, CongSub
  <2>3. RY \cong r * eTT
    BY <1>2, <1>6, <1>7, <1>8, <1>9, <1>10, <1>28, <2>1, <2>2, CongTrans
  <2>4. r * eTT \cong r * RT
    BY <1>12, <1>28, <1>31, <2>1, CongScale, CongSym
  <2>5. RY \cong r * RT
    BY <1>10, <1>12, <1>28, <2>1, <2>3, <2>4, CongTrans
  <2> QED
    BY <2>5 DEF r
<1>35. RZ * RZ * RZ \cong RT * RT
  <2> DEFINE q == VV * Z
  <2>1. q \in Int /\ RZ \cong q /\ q * q * q = eTT * eTT
    BY <1>14, <1>24, <1>29
  <2> HIDE DEF q
  <2>2. RZ * RZ \cong q * q
    BY <1>11, <2>1, CongSquare
  <2>3. RZ * RZ * RZ \cong q * q * q
    BY <1>11, <2>1, <2>2, CongMul
  <2>4. eTT * eTT \cong RT * RT
    BY <1>12, <1>28, <1>31, CongSquare, CongSym
  <2> QED
    BY <1>11, <1>12, <1>28, <2>1, <2>3, <2>4, CongTrans
<1>36. <<RX, RY, RZ, RT>> \in Quads
  BY <1>9, <1>10, <1>11, <1>12 DEF Quads
<1>37. StandsFor(<<RX, RY, RZ, RT>>, x2, lx - y)
  BY <1>26, <1>34, <1>35 DEF StandsFor, Agree
<1>38. StandsFor(<<RX, RY, RZ, RT>>, l * l - 2 * x, l * (x - (l * l - 2 * x)) - y)
  BY <1>37 DEF x2, lx
<1> QED
  BY <1>1, <1>13, <1>17, <1>24, <1>36, <1>38

(* The differences that an addition starts with. *)
LEMMA GapsAre ==
    ASSUME NEW P \in Quads, NEW x \in Int, NEW y \in Int, StandsFor(P, x, y),
           NEW A \in Residues \X Residues
    PROVE  /\ OrdinateGap(P, A) \in Residues /\ OrdinateGap(P, A) \in Int
           /\ OrdinateGap(P, A) \cong (A[2] - y) * P[4]
           /\ AbscissaGap(P, A) \in Residues /\ AbscissaGap(P, A) \in Int
           /\ AbscissaGap(P, A) \cong (A[1] - x) * P[3]
<1>1. /\ P[1] \in Int /\ P[2] \in Int /\ P[3] \in Int /\ P[4] \in Int
      /\ A[1] \in Int /\ A[2] \in Int
  BY QuadsAreInts, CurveAssumption DEF Residues
<1>2. P[1] \cong x * P[3] /\ P[2] \cong y * P[4]
  BY DEF StandsFor
<1> DEFINE e == A[2] * P[4]
           f == A[1] * P[3]
           yT == y * P[4]
           xZ == x * P[3]
<1>3. e \in Int /\ f \in Int /\ yT \in Int /\ xZ \in Int /\ P[1] \cong xZ /\ P[2] \cong yT
  BY <1>1, <1>2
<1>4. e - yT = (A[2] - y) * P[4] /\ f - xZ = (A[1] - x) * P[3]
  BY <1>1
<1>5. OrdinateGap(P, A) = (e - P[2]) % p /\ AbscissaGap(P, A) = (f - P[1]) % p
  BY DEF OrdinateGap, AbscissaGap
<1> HIDE DEF e, f, yT, xZ
<1>6. e - P[2] \cong e - yT /\ f - P[1] \cong f - xZ
  BY <1>1, <1>3, CongSub, CongRefl
<1>7. e - P[2] \in Int /\ f - P[1] \in Int /\ e - yT \in Int /\ f - xZ \in Int
  BY <1>1, <1>3
<1>8. /\ (e - P[2]) % p \in Residues /\ (e - P[2]) % p \in Int /\ ((e - P[2]) % p) \cong e - P[2]
      /\ (f - P[1]) % p \in Residues /\ (f - P[1]) % p \in Int /\ ((f - P[1]) % p) \cong f - P[1]
  BY <1>7, ModCong DEF Residues
<1>9. ((e - P[2]) % p) \cong e - yT /\ ((f - P[1]) % p) \cong f - xZ
  BY <1>6, <1>7, <1>8, CongTrans
<1> QED
  BY <1>4, <1>5, <1>8, <1>9

(* Adding the point A along the chord of slope l. *)
LEMMA AdditionFormula ==
    ASSUME NEW P \in Quads, NEW x \in Int, NEW y \in Int, StandsFor(P, x, y),
           NEW A \in Residues \X Residues,
           NEW l \in Int, l * (A[1] - x) \cong A[2] - y
    PROVE  /\ AddGaps(P, A) \in Quads
           /\ StandsFor(AddGaps(P, A), l * l - x - A[1], l * (x - (l * l - x - A[1])) - y)
           /\ AddGaps(P, A)[3] \cong ((A[1] - x) * (A[1] - x)) * (P[3] * P[3] * P[3])
<1> DEFINE X == P[1]
           Y == P[2]
           Z == P[3]
           T == P[4]
           R == OrdinateGap(P, A)
           D == AbscissaGap(P, A)
           PP == (D * D) % p
           PPP == (PP * D) % p
           QQ == (X * PP) % p
           RX == (R * R - PPP + minus_2 * QQ) % p
           RY == (R * (QQ - RX) - Y * PPP) % p
           RZ == (Z * PP) % p
           RT == (T * PPP) % p
           d == A[1] - x
           r == A[2] - y
           x2 == l * l - x - A[1]
<1>1. AddGaps(P, A) = <<RX, RY, RZ, RT>>
  BY DEF AddGaps
<1>2. X \in Int /\ Y \in Int /\ Z \in Int /\ T \in Int /\ A[1] \in Int /\ A[2] \in Int
  BY QuadsAreInts, CurveAssumption DEF Residues
<1>3. X \cong x * Z /\ Y \cong y * T /\ Z * Z * Z \cong T * T
  BY DEF StandsFor, Agree
<1>4. /\ R \in Int /\ R \cong r * T /\ D \in Int /\ D \cong d * Z /\ d \in Int /\ r \in Int
      /\ x2 \in Int /\ x2 = l * l - d - 2 * x
  BY <1>2, GapsAre
<1>5. l * d \cong r
  OBVIOUS
<1> HIDE DEF R, D
<1>6. PP \in Int /\ PP \cong D * D
  BY <1>4, ModCong
<1>7. PPP \in Int /\ PPP \cong PP * D
  BY <1>4, <1>6, ModCong
<1>8. QQ \in Int /\ QQ \cong X * PP
  BY <1>2, <1>6, ModCong
<1>9. RX \in Residues /\ RX \in Int /\ RX \cong R * R - PPP - 2 * QQ
  <2> DEFINE q == R * R - PPP
  <2>1. q \in Int /\ q + minus_2 * QQ \in Int /\ q - 2 * QQ \in Int
    BY <1>4, <1>7, <1>8, CurveAssumption DEF minus_2
  <2>2. RX = (q + minus_2 * QQ) % p /\ q - 2 * QQ = R * R - PPP - 2 * QQ
    OBVIOUS
  <2> HIDE DEF q, PPP, QQ, RX
  <2>3. q + minus_2 * QQ \cong q - 2 * QQ
    BY <1>8, <2>1, MinusTwo
  <2>4. RX \in Residues /\ RX \in Int /\ RX \cong q + minus_2 * QQ
    BY <2>1, <2>2, ModCong DEF Residues
  <2>5. RX \cong q - 2 * QQ
    BY <2>1, <2>3, <2>4, CongTrans
  <2> QED
    BY <2>2, <2>4, <2>5
<1>10. RY \in Residues /\ RY \in Int /\ RY \cong R * (QQ - RX) - Y * PPP
  <2>1. R * (QQ - RX) - Y * PPP \in Int
    BY <1>2, <1>4, <1>7, <1>8, <1>9
  <2> QED
    BY <2>1, ModCong DEF Residues
<1>11. RZ \in Residues /\ RZ \in Int /\ RZ \cong Z * PP
  BY <1>2, <1>6, ModCong DEF Residues
<1>12. RT \in Residues /\ RT \in Int /\ RT \cong T * PPP
  BY <1>2, <1>7, ModCong DEF Residues
<1>13. Z = P[3] /\ d = A[1] - x /\ x2 = l * l - x - A[1]
  OBVIOUS
<1> HIDE DEF X, Y, Z, T, PP, PPP, QQ, RX, RY, RZ, RT, d, r, x2
(* Everything is written in x, y, l, d, Z and T. *)
<1> DEFINE ZZZ == Z * Z * Z
           TT == T * T
           dZ == d * Z
           dd == d * d
           SR == (l * d) * T
           SP == dd * (Z * Z)
           SPP == (dd * d) * ZZZ
           SQ == (x * Z) * SP
           SZ == dd * ZZZ
           ldd == (l * l) * dd
           ry == l * (x - x2) - y
<1>14. /\ ZZZ \in Int /\ TT \in Int /\ dZ \in Int /\ dd \in Int /\ SR \in Int /\ SP \in Int
       /\ SPP \in Int /\ SQ \in Int /\ SZ \in Int /\ ldd \in Int /\ ry \in Int
       /\ x * Z \in Int /\ y * T \in Int /\ l * d \in Int /\ r * T \in Int
  BY <1>2, <1>4
<1>15. ZZZ \cong TT /\ D \cong dZ
  BY <1>3, <1>4
<1>16. dZ * dZ = SP /\ SP * dZ = SPP /\ Z * SP = SZ /\ SR * SR = ldd * TT
  BY <1>2, <1>4
<1>17. ldd * ZZZ - SPP - 2 * SQ = x2 * SZ
  BY <1>2, <1>4
<1>18. SR * (SQ - x2 * SZ) - (y * T) * SPP = ry * (T * SPP)
  BY <1>2, <1>4
<1>19. SZ * SZ * SZ = ((dd * d * ZZZ) * (dd * d * ZZZ)) * ZZZ
  BY <1>2, <1>4
<1>20. (T * SPP) * (T * SPP) = ((dd * d * ZZZ) * (dd * d * ZZZ)) * TT
  BY <1>2, <1>4
<1>21. SZ = (d * d) * (Z * Z * Z) /\ SR = (l * d) * T /\ SQ = (x * Z) * SP
  OBVIOUS
<1>22. ry = l * (x - x2) - y
  OBVIOUS
<1> DEFINE g == (dd * d * ZZZ) * (dd * d * ZZZ)
<1>23. g \in Int /\ SZ * SZ * SZ = g * ZZZ /\ (T * SPP) * (T * SPP) = g * TT
  BY <1>2, <1>4, <1>14, <1>19, <1>20
<1> HIDE DEF ZZZ, TT, dZ, dd, SR, SP, SPP, SQ, SZ, ldd, ry, g
<1>24. R \cong SR
  <2>1. r * T \cong (l * d) * T
    BY <1>2, <1>4, <1>5, <1>14, CongMul, CongSym, CongRefl
  <2> QED
    BY <1>4, <1>14, <1>21, <2>1, CongTrans
<1>25. PP \cong SP
  <2>1. D * D \cong SP
    BY <1>4, <1>14, <1>15, <1>16, CongSquare
  <2> QED
    BY <1>4, <1>6, <1>14, <2>1, CongTrans
<1>26. PPP \cong SPP
  <2>1. PP * D \cong SPP
    BY <1>4, <1>6, <1>14, <1>15, <1>16, <1>25, CongMul
  <2> QED
    BY <1>4, <1>6, <1>7, <1>14, <2>1, CongTrans
<1>27. QQ \cong SQ
  <2>1. X * PP \cong (x * Z) * SP
    BY <1>2, <1>3, <1>6, <1>14, <1>25, CongMul
  <2> QED
    BY <1>2, <1>6, <1>8, <1>14, <1>21, <2>1, CongTrans
<1>28. RX \cong x2 * SZ
  <2>1. R * R \cong ldd * TT
    BY <1>4, <1>14, <1>16, <1>24, CongSquare
  <2>2. ldd * TT \cong ldd * ZZZ
    BY <1>14, <1>15, CongScale, CongSym
  <2>3. R * R \in Int /\ ldd * TT \in Int /\ ldd * ZZZ \in Int /\ 2 * QQ \in Int /\ 2 * SQ \in Int
    BY <1>4, <1>8, <1>14
  <2>4. R * R \cong ldd * ZZZ
    BY <2>1, <2>2, <2>3, CongTrans
  <2> DEFINE e == ldd * ZZZ
             f == R * R
  <2>5. e \in Int /\ f \in Int /\ f \cong e /\ e - SPP - 2 * SQ = x2 * SZ
        /\ f - PPP - 2 * QQ = R * R - PPP - 2 * QQ
    BY <1>17, <2>3, <2>4
  <2> HIDE DEF e, f
  <2>6. f - PPP \cong e - SPP /\ f - PPP \in Int /\ e - SPP \in Int
    BY <1>7, <1>14, <1>26, <2>5, CongSub
  <2>7. 2 * QQ \cong 2 * SQ
    BY <1>8, <1>14, <1>27, CongScale
  <2>8. f - PPP - 2 * QQ \cong e - SPP - 2 * SQ
    BY <2>3, <2>6, <2>7, CongSub
  <2>9. f - PPP - 2 * QQ \in Int /\ x2 * SZ \in Int
    BY <1>4, <1>14, <2>3, <2>6
  <2>10. RX \cong f - PPP - 2 * QQ
    BY <1>9, <2>5
  <2>11. f - PPP - 2 * QQ \cong x2 * SZ
    BY <2>5, <2>8
  <2> QED
    BY <1>9, <2>9, <2>10, <2>11, CongTrans
<1>29. RZ \cong SZ
  <2>1. Z * PP \cong SZ
    BY <1>2, <1>6, <1>14, <1>16, <1>25, CongScale
  <2> QED
    BY <1>2, <1>6, <1>11, <1>14, <2>1, CongTrans
<1>30. RT \cong T * SPP
  <2>1. T * PPP \cong T * SPP
    BY <1>2, <1>7, <1>14, <1>26, CongScale
  <2> QED
    BY <1>2, <1>7, <1>12, <1>14, <2>1, CongTrans
<1>31. RX \cong x2 * RZ
  <2>0. SZ \cong RZ
    BY <1>11, <1>14, <1>29, CongSym
  <2>1. x2 * SZ \cong x2 * RZ
    BY <1>4, <1>11, <1>14, <2>0, CongScale
  <2>2. x2 * SZ \in Int /\ x2 * RZ \in Int
    BY <1>4, <1>11, <1>14
  <2> QED
    BY <1>9, <1>28, <2>1, <2>2, CongTrans
<1>32. RY \cong ry * RT
  <2> DEFINE tail == T * SPP
             xs == x2 * SZ
             yT == y * T
  <2>1. tail \in Int /\ xs \in Int /\ yT \in Int /\ RX \cong xs /\ RT \cong tail /\ Y \cong yT
        /\ SR * (SQ - xs) - yT * SPP = ry * tail
    BY <1>2, <1>3, <1>4, <1>14, <1>18, <1>28, <1>30
  <2> HIDE DEF tail, xs, yT
  <2>2. QQ - RX \cong SQ - xs /\ QQ - RX \in Int /\ SQ - xs \in Int
    BY <1>8, <1>9, <1>14, <1>27, <2>1, CongSub
  <2>3. R * (QQ - RX) \cong SR * (SQ - xs)
    BY <1>4, <1>14, <1>24, <2>2, CongMul
  <2>4. Y * PPP \cong yT * SPP
    BY <1>2, <1>7, <1>14, <1>26, <2>1, CongMul
  <2>5. /\ R * (QQ - RX) \in Int /\ SR * (SQ - xs) \in Int /\ Y * PPP \in Int /\ yT * SPP \in Int
        /\ ry * tail \in Int /\ ry * RT \in Int /\ R * (QQ - RX) - Y * PPP \in Int
    BY <1>2, <1>4, <1>7, <1>12, <1>14, <2>1, <2>2
  <2>6. R * (QQ - RX) - Y * PPP \cong SR * (SQ - xs) - yT * SPP
    BY <2>3, <2>4, <2>5, CongSub
  <2>7. RY \cong ry * tail
    BY <1>10, <2>1, <2>5, <2>6, CongTrans
  <2>8. ry * tail \cong ry * RT
    BY <1>12, <1>14, <2>1, CongScale, CongSym
  <2> QED
    BY <1>10, <2>5, <2>7, <2>8, CongTrans
<1>33. RZ * RZ * RZ \cong RT * RT
  <2> DEFINE tail == T * SPP
  <2>1. tail \in Int /\ RT \cong tail /\ tail * tail = g * TT
    BY <1>2, <1>14, <1>23, <1>30
  <2> HIDE DEF tail
  <2>2. RZ * RZ \cong SZ * SZ
    BY <1>11, <1>14, <1>29, CongSquare
  <2>3. RZ * RZ * RZ \cong SZ * SZ * SZ
    BY <1>11, <1>14, <1>29, <2>2, CongMul
  <2>4. g * ZZZ \cong g * TT
    BY <1>14, <1>15, <1>23, CongScale
  <2>5. tail * tail \cong RT * RT
    BY <1>12, <2>1, CongSquare, CongSym
  <2>6. g * ZZZ \in Int /\ g * TT \in Int /\ RT * RT \in Int /\ RZ * RZ * RZ \in Int
    BY <1>11, <1>12, <1>14, <1>23
  <2>7. RZ * RZ * RZ \cong g * ZZZ
    BY <1>23, <2>3
  <2>8. g * TT \cong RT * RT
    BY <2>1, <2>5
  <2> QED
    BY <2>4, <2>6, <2>7, <2>8, CongTrans
<1>34. <<RX, RY, RZ, RT>> \in Quads
  BY <1>9, <1>10, <1>11, <1>12 DEF Quads
<1>35. StandsFor(<<RX, RY, RZ, RT>>, x2, l * (x - x2) - y)
  BY <1>22, <1>31, <1>32, <1>33 DEF StandsFor, Agree
<1>36. RZ \cong ((A[1] - x) * (A[1] - x)) * (P[3] * P[3] * P[3])
  BY <1>13, <1>21, <1>29
<1> QED
  BY <1>1, <1>13, <1>34, <1>35, <1>36

---------------------------------------------------------------------------
(* Points, and the group.                                                  *)

(* What it is to be a point of the curve.                                   *)
LEMMA CurvePoint ==
    ASSUME NEW A \in Curve
    PROVE  /\ A \in Residues \X Residues /\ A = <<A[1], A[2]>> /\ A # Zero /\ A \in Points
           /\ A[1] \in Residues /\ A[2] \in Residues /\ A[1] \in Int /\ A[2] \in Int
           /\ A[2] * A[2] \cong A[1] * A[1] * A[1] - 3 * A[1] + b
<1>1. A \in Residues \X Residues
  BY DEF Curve, Residues
<1>2. A[1] \in Residues /\ A[2] \in Residues /\ A[1] \in Int /\ A[2] \in Int /\ A = <<A[1], A[2]>>
  BY <1>1, CurveAssumption DEF Residues
<1>3. (A[2] * A[2]) % p = (A[1] * A[1] * A[1] - 3 * A[1] + b) % p
  BY DEF Curve
<1>4. A[2] * A[2] \in Int /\ A[1] * A[1] * A[1] - 3 * A[1] + b \in Int
  BY <1>2, CurveAssumption
<1>5. A # Zero /\ A \in Points
  BY GroupAssumption DEF Points
<1> QED
  BY <1>1, <1>2, <1>3, <1>4, <1>5, ModEqual

LEMMA OnCurve ==
    ASSUME NEW x \in Residues, NEW y \in Residues, y * y \cong x * x * x - 3 * x + b
    PROVE  <<x, y>> \in Curve
<1>1. x \in Int /\ y \in Int /\ b \in Int
  BY CurveAssumption DEF Residues
<1>2. y * y \in Int /\ x * x * x - 3 * x + b \in Int
  BY <1>1
<1>3. (y * y) % p = (x * x * x - 3 * x + b) % p
  BY <1>2, ModEqual
<1> QED
  BY <1>3 DEF Curve, Residues

LEMMA SmallNonzero ==
    ASSUME NEW x \in Residues, x # 0
    PROVE  x \in Int /\ ~(x \cong 0)
BY ResidueUnique, CurveAssumption DEF Residues

LEMMA NegSquare ==
    ASSUME NEW x \in Int, NEW m \in Int, m \cong -x
    PROVE  m * m \cong x * x /\ (x + m) % p = 0
<1>1. -x \in Int /\ (-x) * (-x) = x * x /\ x + (-x) = 0 /\ x + m \in Int /\ x \cong x
  BY CongRefl
<1>2. m * m \cong (-x) * (-x)
  BY <1>1, CongSquare
<1>3. x + m \cong x + (-x)
  BY <1>1, CongAdd
<1> QED
  BY <1>1, <1>2, <1>3, ModZero

LEMMA TimesOne ==
    ASSUME NEW t \in Int, NEW h \in Int, h \cong 1
    PROVE  t * h \cong t
<1>1. 1 \in Int /\ t * 1 = t
  OBVIOUS
<1> QED
  BY <1>1, CongScale

LEMMA GapZero ==
    ASSUME NEW x \in Int, NEW y \in Int
    PROVE  y - x \cong 0 <=> y \cong x
<1>1. ASSUME y - x \cong 0 PROVE y \cong x
  <2>1. PICK k \in Int : (y - x) - 0 = k * p
    BY <1>1 DEF \cong
  <2>2. y - x = k * p
    BY <2>1
  <2> QED
    BY <2>2, CongIntro
<1>2. ASSUME y \cong x PROVE y - x \cong 0
  <2>1. PICK k \in Int : y - x = k * p
    BY <1>2 DEF \cong
  <2>2. y - x \in Int /\ 0 \in Int /\ (y - x) - 0 = k * p
    BY <2>1
  <2> QED
    BY <2>2, CongIntro
<1> QED
  BY <1>1, <1>2

LEMMA DoubleNonzero ==
    ASSUME NEW y \in Int, ~(y \cong 0)
    PROVE  ~(2 * y \cong 0)
<1>1. 2 \in Residues /\ 2 # 0 /\ 2 \in Int
  BY CurveAssumption DEF Residues
<1>2. ~(2 \cong 0)
  BY <1>1, SmallNonzero
<1> QED
  BY <1>1, <1>2, NoZeroDivisors

(* Dividing, the way the slopes are computed. *)
LEMMA Quotient ==
    ASSUME NEW f \in Int, NEW t \in Int, ~(f \cong 0)
    PROVE  t * FCL_pModInv(f % p) \in Int /\ (t * FCL_pModInv(f % p)) * f \cong t
<1> DEFINE fp == f % p
           i == FCL_pModInv(fp)
<1>1. fp \in 0..(p - 1) /\ fp \in Int /\ fp \cong f
  BY ModCong
<1> HIDE DEF fp
<1>2. ~(fp \cong 0)
  BY <1>1, CongSym, CongTrans
<1>3. i \in Int /\ fp * i \cong 1
  BY <1>1, <1>2, InverseOf
<1> HIDE DEF i
<1> DEFINE e == f * i
           h == fp * i
<1>4. e \in Int /\ h \in Int /\ h \cong 1 /\ (t * i) * f = t * e /\ t * i \in Int
  BY <1>1, <1>3
<1>5. h \cong e
  BY <1>1, <1>3, CongMul, CongRefl
<1> HIDE DEF e, h
<1>6. e \cong h
  BY <1>4, <1>5, CongSym
<1>7. e \cong 1
  BY <1>4, <1>6, CongTrans
<1>8. t * e \cong t
  BY <1>4, <1>7, TimesOne
<1>9. t * i \in Int /\ (t * i) * f \cong t
  BY <1>4, <1>8
<1> QED
  BY <1>9 DEF i, fp

LEMMA NeutralIsZero ==
    ASSUME NEW A
    PROVE  GroupAdd(Zero, A) = A /\ GroupAdd(A, Zero) = A
BY DEF GroupAdd

Neg(A) == <<A[1], (-A[2]) % p>>

(* A point has an opposite, and only one.                                   *)
LEMMA Opposite ==
    ASSUME NEW A \in Curve
    PROVE  Neg(A) \in Curve /\ GroupAdd(A, Neg(A)) = Zero
<1>1. /\ A[1] \in Residues /\ A[1] \in Int /\ A[2] \in Int /\ A # Zero
      /\ A[2] * A[2] \cong A[1] * A[1] * A[1] - 3 * A[1] + b
  BY CurvePoint
<1> DEFINE m == (-A[2]) % p
           e == A[1] * A[1] * A[1] - 3 * A[1] + b
           f == A[2] * A[2]
<1>2. m \in Residues /\ m \in Int /\ m \cong -A[2]
  BY <1>1, ModCong DEF Residues
<1>3. e \in Int /\ f \in Int /\ f \cong e
  BY <1>1, CurveAssumption
<1> HIDE DEF m
<1>4. m * m \cong f /\ (A[2] + m) % p = 0 /\ m * m \in Int
  BY <1>1, <1>2, NegSquare
<1> HIDE DEF e, f
<1>5. m * m \cong e
  BY <1>3, <1>4, CongTrans
<1>6. <<A[1], m>> \in Curve
  BY <1>1, <1>2, <1>5, OnCurve DEF e
<1>7. <<A[1], m>> # Zero
  BY <1>6, CurvePoint
<1>8. GroupAdd(A, <<A[1], m>>) = Zero
  BY <1>1, <1>7, <1>4 DEF GroupAdd
<1> QED
  BY <1>6, <1>8 DEF Neg, m

LEMMA OppositeIsOnly ==
    ASSUME NEW A \in Curve, NEW B \in Points, GroupAdd(A, B) = Zero
    PROVE  B = Neg(A)
<1>1. A \in Points /\ Neg(A) \in Points /\ GroupAdd(A, Neg(A)) = Zero
  BY Opposite DEF Points
<1>2. GroupAdd(Neg(A), A) = Zero
  BY <1>1, GroupAssumption
<1>3. GroupAdd(GroupAdd(Neg(A), A), B) = GroupAdd(Neg(A), GroupAdd(A, B))
  BY <1>1, GroupAssumption
<1> QED
  BY <1>2, <1>3, NeutralIsZero

(* The slope of a tangent and of a chord. *)
LEMMA TangentSlope ==
    ASSUME NEW A \in Curve, A[2] # 0
    PROVE  /\ ~(2 * A[2] \cong 0) /\ (A[2] + A[2]) % p # 0
           /\ Slope(A, A) \in Int
           /\ 2 * A[2] * Slope(A, A) \cong 3 * A[1] * A[1] - 3
<1> DEFINE x == A[1]
           y == A[2]
           f == 2 * y
           t == 3 * x * x - 3
<1>1. x \in Int /\ y \in Int /\ y \in Residues /\ y # 0
  BY CurvePoint
<1>2. Slope(A, A) = t * FCL_pModInv(f % p) /\ A[1] = x /\ A[2] = y
  BY DEF Slope
<1> HIDE DEF x, y
<1>3. ~(f \cong 0) /\ f \in Int /\ t \in Int /\ y + y = f
  BY <1>1, SmallNonzero, DoubleNonzero
<1>4. (y + y) % p # 0
  BY <1>3, ModZero
<1> HIDE DEF f, t
<1>5. Slope(A, A) \in Int /\ Slope(A, A) * f \cong t
  BY <1>2, <1>3, Quotient
<1> DEFINE l == Slope(A, A)
<1>6. l * f = 2 * y * l
  BY <1>1, <1>5 DEF f
<1> QED
  BY <1>2, <1>3, <1>4, <1>5, <1>6 DEF f, t

LEMMA ChordSlope ==
    ASSUME NEW A \in Curve, NEW B \in Curve, A[1] # B[1]
    PROVE  /\ ~(B[1] - A[1] \cong 0)
           /\ Slope(A, B) \in Int
           /\ Slope(A, B) * (B[1] - A[1]) \cong B[2] - A[2]
<1> DEFINE f == B[1] - A[1]
           t == B[2] - A[2]
<1>1. /\ A[1] \in Int /\ A[2] \in Int /\ B[1] \in Int /\ B[2] \in Int
      /\ A[1] \in Residues /\ B[1] \in Residues
  BY CurvePoint
<1>2. ~(B[1] \cong A[1])
  BY <1>1, ResidueUnique DEF Residues
<1>3. ~(f \cong 0) /\ f \in Int /\ t \in Int
  <2>1. \A c, d \in Int : d - c \cong 0 => d \cong c
    BY GapZero
  <2>2. ~(B[1] - A[1] \cong 0)
    BY <1>1, <1>2, <2>1
  <2> QED
    BY <1>1, <2>2
<1>4. Slope(A, B) = t * FCL_pModInv(f % p)
  BY DEF Slope
<1> HIDE DEF f, t
<1>5. Slope(A, B) \in Int /\ Slope(A, B) * f \cong t
  BY <1>3, <1>4, Quotient
<1> QED
  BY <1>3, <1>5 DEF f, t

(* The sum of two points that are not opposite, by its slope. *)
LEMMA SumBySlope ==
    ASSUME NEW A \in Curve, NEW B \in Curve, Slope(A, B) \in Int,
           ~(A[1] = B[1] /\ (A[2] + B[2]) % p = 0)
    PROVE  \E l \in Int, x \in Residues, y \in Residues :
              /\ l \cong Slope(A, B) /\ GroupAdd(A, B) = <<x, y>>
              /\ x \cong l * l - A[1] - B[1] /\ y \cong l * (A[1] - x) - A[2]
<1>1. A[1] \in Int /\ A[2] \in Int /\ B[1] \in Int /\ A # Zero /\ B # Zero
  BY CurvePoint
<1> DEFINE l == Slope(A, B) % p
           x == (l * l - A[1] - B[1]) % p
           y == (l * (A[1] - x) - A[2]) % p
<1>2. l \in Int /\ l \cong Slope(A, B)
  BY ModCong
<1> HIDE DEF l
<1>3. x \in Residues /\ x \in Int /\ x \cong l * l - A[1] - B[1]
  <2>1. l * l - A[1] - B[1] \in Int
    BY <1>1, <1>2
  <2> QED
    BY <2>1, ModCong DEF Residues
<1> HIDE DEF x
<1>4. y \in Residues /\ y \cong l * (A[1] - x) - A[2]
  <2>1. l * (A[1] - x) - A[2] \in Int
    BY <1>1, <1>2, <1>3
  <2> QED
    BY <2>1, ModCong DEF Residues
<1>5. GroupAdd(A, B) = <<x, y>>
  BY <1>1 DEF GroupAdd, l, x
<1> QED
  BY <1>2, <1>3, <1>4, <1>5

---------------------------------------------------------------------------
(* What an accumulator stands for.                                         *)

Represents(P, A) ==
    /\ P \in Quads
    /\ IF A = Zero THEN P[3] = 0 ELSE P[3] # 0 /\ StandsFor(P, A[1], A[2])

LEMMA StandsForCong ==
    ASSUME NEW P \in Quads, NEW x \in Int, NEW y \in Int, NEW w \in Int, NEW z \in Int,
           StandsFor(P, x, y), x \cong w, y \cong z
    PROVE  StandsFor(P, w, z)
<1>1. P[1] \in Int /\ P[2] \in Int /\ P[3] \in Int /\ P[4] \in Int
  BY QuadsAreInts
<1> DEFINE X == P[1]
           Y == P[2]
           Z == P[3]
           T == P[4]
<1>2. X \in Int /\ Y \in Int /\ Z \in Int /\ T \in Int /\ X \cong x * Z /\ Y \cong y * T
  BY <1>1 DEF StandsFor
<1>3. StandsFor(P, w, z) <=> Agree(P) /\ X \cong w * Z /\ Y \cong z * T
  BY DEF StandsFor
<1>4. Agree(P)
  BY DEF StandsFor
<1> HIDE DEF X, Y, Z, T
<1>5. x * Z \cong w * Z /\ y * T \cong z * T
  BY <1>2, CongMul, CongRefl
<1>6. x * Z \in Int /\ w * Z \in Int /\ y * T \in Int /\ z * T \in Int
  BY <1>2
<1>7. X \cong w * Z /\ Y \cong z * T
  BY <1>2, <1>5, <1>6, CongTrans
<1> QED
  BY <1>3, <1>4, <1>7

LEMMA NonzeroCong ==
    ASSUME NEW x \in Residues
    PROVE  x \in Int /\ (x \cong 0 <=> x = 0)
BY SmallNonzero, CongEqual, CurveAssumption DEF Residues

(* The fourth coordinate vanishes with the third only. *)
LEMMA FourthNonzero ==
    ASSUME NEW P \in Quads, Agree(P), P[3] # 0
    PROVE  ~(P[3] \cong 0) /\ ~(P[4] \cong 0)
<1> DEFINE Z == P[3]
           T == P[4]
<1>1. Z \in Residues /\ T \in Residues /\ Z \in Int /\ T \in Int /\ Z # 0 /\ Z * Z * Z \cong T * T
  BY QuadsAreInts DEF Agree
<1>2. Z = P[3] /\ T = P[4]
  OBVIOUS
<1> HIDE DEF Z, T
<1>3. ~(Z \cong 0)
  BY <1>1, NonzeroCong
<1>4. ~(T \cong 0)
  <2> SUFFICES ASSUME T \cong 0 PROVE FALSE
    OBVIOUS
  <2>1. T * T \cong 0
    <3>1. T * T \cong 0 * 0 /\ 0 * 0 = 0
      BY <1>1, CongSquare
    <3> QED
      BY <3>1
  <2>2. Z * Z \in Int /\ ~(Z * Z \cong 0)
    BY <1>1, <1>3, NoZeroDivisors
  <2> DEFINE s == Z * Z
  <2>3. s \in Int /\ ~(s \cong 0) /\ Z * Z * Z = s * Z
    BY <2>2
  <2> HIDE DEF s
  <2>4. ~(s * Z \cong 0) /\ s * Z \in Int /\ T * T \in Int
    BY <1>1, <1>3, <2>3, NoZeroDivisors
  <2>5. s * Z \cong T * T
    BY <1>1, <2>3
  <2> QED
    BY <2>1, <2>4, <2>5, CongTrans
<1> QED
  BY <1>2, <1>3, <1>4

LEMMA ModResidue ==
    ASSUME NEW x \in Int
    PROVE  x % p \in Residues /\ x % p \in Int
BY ModCong DEF Residues

LEMMA MinusTwoInt == minus_2 \in Int
BY CurveAssumption DEF minus_2

(* The doublings stay in the field; 2P of a point of order two is neutral,  *)
(* and the doubling in place of an addition has the same X and ZZ.          *)
LEMMA DoubledQuads ==
    ASSUME NEW P \in Quads
    PROVE  /\ ecZZ_Dbl(P) \in Quads /\ DoubleInstead(P) \in Quads
           /\ P[3] = 0 \/ P[2] = 0 => ecZZ_Dbl(P)[3] = 0
           /\ DoubleInstead(P)[1] = ecZZ_Dbl(P)[1] /\ DoubleInstead(P)[3] = ecZZ_Dbl(P)[3]
<1> DEFINE X == P[1]
           Y == P[2]
           Z == P[3]
           T == P[4]
           U == (2 * Y) % p
           V == (U * U) % p
           S == (X * V) % p
           W == (U * V) % p
           M == (3 * (X - Z) * (X + Z)) % p
           M2 == (3 * (X + Z) * (X - Z)) % p
           RX == (M * M + minus_2 * S) % p
           RX2 == (M2 * M2 + minus_2 * S) % p
           RY == (M * (S - RX) - W * Y) % p
           RY2 == (M2 * (S - RX2) - U * Y) % p
           RZ == (V * Z) % p
           RT == (W * T) % p
           RT2 == ((X - Z) * T) % p
<1>1. X \in Int /\ Y \in Int /\ Z \in Int /\ T \in Int
  BY QuadsAreInts
<1>2. ecZZ_Dbl(P) = <<RX, RY, RZ, RT>> /\ DoubleInstead(P) = <<RX2, RY2, RZ, RT2>>
  BY DEF ecZZ_Dbl, DoubleInstead
<1>3. P[3] = Z /\ P[2] = Y
  OBVIOUS
<1> HIDE DEF X, Y, Z, T
<1>4. U \in Int
  BY <1>1, ModResidue
<1>5. V \in Int
  BY <1>4, ModResidue
<1>6. S \in Int /\ W \in Int
  BY <1>1, <1>4, <1>5, ModResidue
<1>7. 3 * (X - Z) * (X + Z) = 3 * (X + Z) * (X - Z) /\ 3 * (X - Z) * (X + Z) \in Int
  BY <1>1
<1>8. M = M2 /\ M \in Int
  BY <1>7, ModResidue
<1>9. Y = 0 \/ Z = 0 => RZ = 0
  <2>1. CASE Z = 0
    <3>1. V * Z = 0 /\ 0 % p = 0
      BY <1>5, <2>1, CurveAssumption
    <3> QED
      BY <3>1
  <2>2. CASE Y = 0
    <3>1. 2 * Y = 0 /\ 0 % p = 0 /\ 0 * 0 = 0 /\ 0 * Z = 0
      BY <1>1, <2>2, CurveAssumption
    <3>2. U = 0
      BY <3>1
    <3>3. V = 0
      BY <3>1, <3>2
    <3> QED
      BY <3>1, <3>3
  <2> QED
    BY <2>1, <2>2
<1> HIDE DEF U, V, S, W, M
<1>10. RX \in Residues /\ RX \in Int
  <2>1. M * M + minus_2 * S \in Int
    BY <1>6, <1>8, MinusTwoInt
  <2> QED
    BY <2>1, ModResidue
<1>11. RX2 = RX /\ RY2 = (M * (S - RX) - U * Y) % p
  BY <1>8
<1> HIDE DEF RX
<1>12. RY \in Residues /\ RZ \in Residues /\ RT \in Residues
  <2>1. M * (S - RX) - W * Y \in Int /\ V * Z \in Int /\ W * T \in Int
    BY <1>1, <1>5, <1>6, <1>8, <1>10
  <2> QED
    BY <2>1, ModResidue
<1>13. RY2 \in Residues /\ RT2 \in Residues
  <2>1. M * (S - RX) - U * Y \in Int /\ (X - Z) * T \in Int
    BY <1>1, <1>4, <1>6, <1>8, <1>10
  <2> QED
    BY <1>11, <2>1, ModResidue
<1>14. <<RX, RY, RZ, RT>> \in Quads /\ <<RX2, RY2, RZ, RT2>> \in Quads
  BY <1>10, <1>11, <1>12, <1>13 DEF Quads
<1> HIDE DEF RX2, RY2, RZ, RT2, RY, RT
<1> QED
  BY <1>2, <1>3, <1>9, <1>11, <1>14

LEMMA GapsInResidues ==
    ASSUME NEW P \in Quads, NEW A \in Residues \X Residues
    PROVE  /\ OrdinateGap(P, A) \in Residues /\ OrdinateGap(P, A) \in Int
           /\ AbscissaGap(P, A) \in Residues /\ AbscissaGap(P, A) \in Int
<1>1. /\ P[1] \in Int /\ P[2] \in Int /\ P[3] \in Int /\ P[4] \in Int
      /\ A[1] \in Int /\ A[2] \in Int
  BY QuadsAreInts, CurveAssumption DEF Residues
<1>2. A[2] * P[4] - P[2] \in Int /\ A[1] * P[3] - P[1] \in Int
  BY <1>1
<1> QED
  BY <1>2, ModResidue DEF OrdinateGap, AbscissaGap

(* Addition stays in the field, and without a gap of abscissas is neutral.  *)
LEMMA AddedQuads ==
    ASSUME NEW P \in Quads, NEW A \in Residues \X Residues
    PROVE  /\ AddGaps(P, A) \in Quads
           /\ AbscissaGap(P, A) = 0 => AddGaps(P, A)[3] = 0
<1> DEFINE X == P[1]
           Y == P[2]
           Z == P[3]
           T == P[4]
           R == OrdinateGap(P, A)
           D == AbscissaGap(P, A)
           PP == (D * D) % p
           PPP == (PP * D) % p
           QQ == (X * PP) % p
           RX == (R * R - PPP + minus_2 * QQ) % p
           RY == (R * (QQ - RX) - Y * PPP) % p
           RZ == (Z * PP) % p
           RT == (T * PPP) % p
<1>1. X \in Int /\ Y \in Int /\ Z \in Int /\ T \in Int /\ R \in Int /\ D \in Int
  BY QuadsAreInts, GapsInResidues
<1>2. AddGaps(P, A) = <<RX, RY, RZ, RT>>
  BY DEF AddGaps
<1>3. AbscissaGap(P, A) = D
  OBVIOUS
<1> HIDE DEF X, Y, Z, T, R, D
<1>4. PP \in Int
  BY <1>1, ModResidue
<1>5. PPP \in Int /\ QQ \in Int
  BY <1>1, <1>4, ModResidue
<1>6. D = 0 => RZ = 0
  <2> SUFFICES ASSUME D = 0 PROVE RZ = 0
    OBVIOUS
  <2>1. 0 % p = 0 /\ 0 * 0 = 0 /\ Z * 0 = 0
    BY <1>1, CurveAssumption
  <2>2. PP = 0
    BY <2>1
  <2> QED
    BY <2>1, <2>2
<1> HIDE DEF PP, PPP, QQ
<1>7. RX \in Residues /\ RX \in Int
  <2>1. R * R - PPP + minus_2 * QQ \in Int
    BY <1>1, <1>5, MinusTwoInt
  <2> QED
    BY <2>1, ModResidue
<1> HIDE DEF RX
<1>8. RY \in Residues /\ RZ \in Residues /\ RT \in Residues
  <2>1. R * (QQ - RX) - Y * PPP \in Int /\ Z * PP \in Int /\ T * PPP \in Int
    BY <1>1, <1>4, <1>5, <1>7
  <2> QED
    BY <2>1, ModResidue
<1> HIDE DEF RY, RZ, RT
<1>9. <<RX, RY, RZ, RT>> \in Quads
  BY <1>7, <1>8 DEF Quads
<1> QED
  BY <1>2, <1>3, <1>6, <1>9

(* The two sides of a sum: its slope as a residue, its coordinates as the   *)
(* formulas have them.                                                      *)
LEMMA SumCoordinates ==
    ASSUME NEW l \in Int, NEW c \in Int, NEW d \in Int, NEW e \in Int,
           NEW x \in Residues, NEW y \in Residues,
           x \cong l * l - c - d, y \cong l * (c - x) - e
    PROVE  /\ (l * l - c - d) \cong x
           /\ (l * (c - (l * l - c - d)) - e) \cong y
<1> DEFINE w == l * l - c - d
           r == l * (c - x) - e
           q == l * (c - w) - e
<1>1. x \in Int /\ y \in Int /\ w \in Int /\ x \cong w
  BY CurveAssumption DEF Residues
<1> HIDE DEF w
<1>2. r \in Int /\ q \in Int /\ y \cong r
  BY <1>1
<1>3. q \cong r
  <2>1. w \cong x
    BY <1>1, CongSym
  <2>2. c - w \cong c - x /\ c - w \in Int /\ c - x \in Int
    BY <1>1, <2>1, CongSub, CongRefl
  <2>3. l * (c - w) \cong l * (c - x) /\ l * (c - w) \in Int /\ l * (c - x) \in Int
    BY <2>2, CongScale
  <2> QED
    BY <2>3, CongSub, CongRefl
<1>4. q \cong y
  <2>1. r \cong y
    BY <1>1, <1>2, CongSym
  <2> QED
    BY <1>1, <1>2, <1>3, <2>1, CongTrans
<1>5. w \cong x
  BY <1>1, CongSym
<1> QED
  BY <1>4, <1>5 DEF w, q

(* Doubling the accumulator doubles the point. *)
LEMMA DoubleRepresents ==
    ASSUME NEW P, NEW A \in Points, Represents(P, A)
    PROVE  Represents(ecZZ_Dbl(P), GroupAdd(A, A))
<1>1. P \in Quads /\ ecZZ_Dbl(P) \in Quads
  BY DoubledQuads DEF Represents
<1>2. CASE A = Zero
  <2>1. GroupAdd(A, A) = Zero
    BY <1>2, NeutralIsZero
  <2>2. P[3] = 0
    BY <1>2 DEF Represents
  <2>3. ecZZ_Dbl(P)[3] = 0
    BY <1>1, <2>2, DoubledQuads
  <2> QED
    BY <1>1, <2>1, <2>3 DEF Represents
<1>3. CASE A # Zero /\ A[2] = 0
  <2>1. A \in Curve /\ A[1] \in Int
    BY <1>3, CurvePoint DEF Points
  <2>2. (A[2] + A[2]) % p = 0
    BY <1>3, CurveAssumption
  <2>3. GroupAdd(A, A) = Zero
    BY <1>3, <2>2 DEF GroupAdd
  <2>4. P[2] = 0
    <3>1. P[2] \cong A[2] * P[4] /\ P[4] \in Int /\ P[2] \in Residues
      BY <1>1, <1>3, QuadsAreInts DEF Represents, StandsFor
    <3>2. A[2] * P[4] = 0
      BY <1>3, <3>1
    <3> QED
      BY <3>1, <3>2, NonzeroCong
  <2>5. ecZZ_Dbl(P)[3] = 0
    BY <1>1, <2>4, DoubledQuads
  <2> QED
    BY <1>1, <2>3, <2>5 DEF Represents
<1>4. CASE A # Zero /\ A[2] # 0
  <2>1. A \in Curve
    BY <1>4 DEF Points
  <2> DEFINE c == A[1]
             e == A[2]
             t == 3 * c * c - 3
             f == 2 * e
             m == Slope(A, A)
  <2>2. c \in Int /\ e \in Int /\ e \in Residues /\ e # 0 /\ t \in Int /\ f \in Int
    BY <1>4, <2>1, CurvePoint
  <2>3. m \in Int /\ ~(f \cong 0) /\ (e + e) % p # 0 /\ f * m \cong t
    BY <1>4, <2>1, TangentSlope
  <2>4. PICK l \in Int, x \in Residues, y \in Residues :
              /\ l \cong m /\ GroupAdd(A, A) = <<x, y>>
              /\ x \cong l * l - c - c /\ y \cong l * (c - x) - e
    BY <2>1, <2>3, SumBySlope
  <2>5. StandsFor(P, c, e) /\ P[3] # 0
    BY <1>4 DEF Represents
  <2>6. 2 * e * l = f * l /\ 3 * c * c - 3 = t
    BY <2>2
  <2>7. ~(e \cong 0)
    BY <2>2, NonzeroCong
  <2>8. A[2] = e
    OBVIOUS
  <2> HIDE DEF c, e, t, f, m
  <2>9. f * l \cong t
    <3>1. f \in Int /\ l \in Int /\ m \in Int /\ t \in Int /\ l \cong m
      BY <2>2, <2>3, <2>4
    <3>2. f * l \cong f * m
      BY <3>1, CongScale
    <3>3. f * l \in Int /\ f * m \in Int
      BY <3>1
    <3> QED
      BY <2>3, <3>1, <3>2, <3>3, CongTrans
  <2>10. 2 * e * l \cong 3 * c * c - 3
    BY <2>6, <2>9
  <2>11. /\ StandsFor(ecZZ_Dbl(P), l * l - 2 * c, l * (c - (l * l - 2 * c)) - e)
         /\ ecZZ_Dbl(P)[3] \cong 4 * (e * e) * (P[3] * P[3] * P[3]) * P[3]
    BY <1>1, <2>2, <2>4, <2>5, <2>10, DoublingFormula
  <2>12. l * l - 2 * c = l * l - c - c
    BY <2>2, <2>4
  <2>13. StandsFor(ecZZ_Dbl(P), x, y)
    <3>1. /\ (l * l - c - c) \cong x /\ (l * (c - (l * l - c - c)) - e) \cong y
      BY <2>2, <2>4, SumCoordinates
    <3>2. l * l - c - c \in Int /\ l * (c - (l * l - c - c)) - e \in Int /\ x \in Int /\ y \in Int
      BY <2>2, <2>4, CurveAssumption DEF Residues
    <3>3. StandsFor(ecZZ_Dbl(P), l * l - c - c, l * (c - (l * l - c - c)) - e)
      BY <2>11, <2>12
    <3> QED
      BY <1>1, <3>1, <3>2, <3>3, StandsForCong
  <2>14. ecZZ_Dbl(P)[3] # 0
    <3> DEFINE Z == P[3]
               z == ecZZ_Dbl(P)[3]
    <3>1. Z \in Int /\ ~(Z \cong 0) /\ z \in Residues /\ z \in Int
      BY <1>1, <2>5, QuadsAreInts, NonzeroCong
    <3>2. z \cong 4 * (e * e) * (Z * Z * Z) * Z
      BY <2>11
    <3>3. z = ecZZ_Dbl(P)[3]
      OBVIOUS
    <3> HIDE DEF Z, z
    <3> DEFINE s == 2 * e
               w == Z * Z
               g == s * w
    <3>4. s \in Int /\ ~(s \cong 0)
      BY <2>2, <2>7, DoubleNonzero
    <3>5. w \in Int /\ ~(w \cong 0)
      BY <3>1, NoZeroDivisors
    <3>6. 4 * (e * e) * (Z * Z * Z) * Z = g * g
      BY <2>2, <3>1
    <3> HIDE DEF s, w
    <3>7. g \in Int /\ ~(g \cong 0)
      BY <3>4, <3>5, NoZeroDivisors
    <3> HIDE DEF g
    <3>8. ~(g * g \cong 0) /\ g * g \in Int
      BY <3>7, NoZeroDivisors
    <3>9. z \cong g * g
      BY <3>2, <3>6
    <3>10. z # 0
      <4> SUFFICES ASSUME z = 0 PROVE FALSE
        OBVIOUS
      <4>1. 0 \cong g * g /\ 0 \in Int
        BY <3>9
      <4>2. g * g \cong 0
        BY <3>8, <4>1, CongSym
      <4> QED
        BY <3>8, <4>2
    <3> QED
      BY <3>3, <3>10
  <2>15. GroupAdd(A, A) # Zero
    <3> SUFFICES ASSUME GroupAdd(A, A) = Zero PROVE FALSE
      OBVIOUS
    <3>1. A = Neg(A)
      BY <2>1, OppositeIsOnly DEF Points
    <3>2. e = (-e) % p
      BY <2>8, <3>1 DEF Neg
    <3>3. -e \in Int
      BY <2>2
    <3>4. e \cong -e
      BY <3>2, <3>3, ModCong
    <3>5. (e + e) % p = 0
      BY <2>2, <3>4, NegSquare
    <3> QED
      BY <2>3, <3>5 DEF e
  <2>16. <<x, y>>[1] = x /\ <<x, y>>[2] = y
    OBVIOUS
  <2> QED
    BY <1>1, <2>4, <2>13, <2>14, <2>15, <2>16 DEF Represents
<1> QED
  BY <1>2, <1>3, <1>4

(* A point in coordinates of its own. *)
LEMMA SetRepresents ==
    ASSUME NEW A \in Curve
    PROVE  ecAff_SetZZ(A) \in Quads /\ Represents(ecAff_SetZZ(A), A)
<1>1. A[1] \in Residues /\ A[2] \in Residues /\ A[1] \in Int /\ A[2] \in Int /\ A # Zero
  BY CurvePoint
<1> DEFINE P == ecAff_SetZZ(A)
<1>2. P = <<A[1], A[2], 1, 1>>
  BY DEF ecAff_SetZZ
<1>3. 1 \in Residues /\ A[1] * 1 = A[1] /\ A[2] * 1 = A[2]
  BY <1>1, CurveAssumption DEF Residues
<1>4. P \in Quads
  BY <1>1, <1>2, <1>3 DEF Quads
<1>5. Agree(P)
  <2>1. 1 * 1 * 1 = 1 /\ 1 * 1 = 1 /\ 1 \in Int
    OBVIOUS
  <2>2. 1 \cong 1
    BY CongRefl
  <2>3. P[3] = 1 /\ P[4] = 1
    BY <1>2
  <2> QED
    BY <2>1, <2>2, <2>3 DEF Agree
<1>6. StandsFor(P, A[1], A[2])
  BY <1>1, <1>2, <1>3, <1>5, CongRefl DEF StandsFor
<1> QED
  BY <1>1, <1>2, <1>4, <1>6 DEF Represents

(* Adding along a chord. *)
LEMMA ChordRepresents ==
    ASSUME NEW P, NEW A \in Curve, NEW B \in Curve, A[1] # B[1], Represents(P, A)
    PROVE  Represents(AddGaps(P, B), GroupAdd(A, B)) /\ GroupAdd(A, B) # Zero
<1> DEFINE c == A[1]
           e == A[2]
           h == B[1]
           k == B[2]
           f == h - c
           t == k - e
           m == Slope(A, B)
<1>1. /\ c \in Int /\ e \in Int /\ h \in Int /\ k \in Int /\ f \in Int /\ t \in Int
      /\ A # Zero /\ B \in Residues \X Residues
  BY CurvePoint
<1>2. m \in Int /\ ~(f \cong 0) /\ m * f \cong t
  BY ChordSlope
<1>3. PICK l \in Int, x \in Residues, y \in Residues :
              /\ l \cong m /\ GroupAdd(A, B) = <<x, y>>
              /\ x \cong l * l - c - h /\ y \cong l * (c - x) - e
  BY <1>2, SumBySlope
<1>4. P \in Quads /\ StandsFor(P, c, e) /\ P[3] # 0
  BY <1>1 DEF Represents
<1>5. AddGaps(P, B) \in Quads
  BY <1>1, <1>4, AddedQuads
<1>6. GroupAdd(A, B) # Zero
  <2> SUFFICES ASSUME GroupAdd(A, B) = Zero PROVE FALSE
    OBVIOUS
  <2>1. B = Neg(A)
    BY OppositeIsOnly DEF Points
  <2> QED
    BY <2>1 DEF Neg
<1>7. l * f \cong t
  <2> HIDE DEF f, t, m
  <2>1. l * f \cong m * f /\ l * f \in Int /\ m * f \in Int
    BY <1>1, <1>2, <1>3, CongMul, CongRefl
  <2> QED
    BY <1>1, <1>2, <2>1, CongTrans
<1>8. /\ StandsFor(AddGaps(P, B), l * l - c - B[1], l * (c - (l * l - c - B[1])) - e)
      /\ AddGaps(P, B)[3] \cong ((B[1] - c) * (B[1] - c)) * (P[3] * P[3] * P[3])
  <2>1. l * (B[1] - c) \cong B[2] - e
    BY <1>7
  <2> HIDE DEF c, e
  <2> QED
    BY <1>1, <1>3, <1>4, <2>1, AdditionFormula
<1>9. h = B[1]
  OBVIOUS
<1> HIDE DEF c, e, h, k, t, m
<1>10. StandsFor(AddGaps(P, B), x, y)
  <2>1. /\ (l * l - c - h) \cong x /\ (l * (c - (l * l - c - h)) - e) \cong y
    BY <1>1, <1>3, SumCoordinates
  <2>2. l * l - c - h \in Int /\ l * (c - (l * l - c - h)) - e \in Int /\ x \in Int /\ y \in Int
    BY <1>1, <1>3, CurveAssumption DEF Residues
  <2>3. StandsFor(AddGaps(P, B), l * l - c - h, l * (c - (l * l - c - h)) - e)
    BY <1>8, <1>9
  <2> QED
    BY <1>5, <2>1, <2>2, <2>3, StandsForCong
<1>11. AddGaps(P, B)[3] # 0
  <2> DEFINE Z == P[3]
             z == AddGaps(P, B)[3]
  <2>1. Z \in Int /\ ~(Z \cong 0) /\ z \in Residues /\ z \in Int
    BY <1>4, <1>5, QuadsAreInts, NonzeroCong
  <2>2. z \cong (f * f) * (Z * Z * Z) /\ z = AddGaps(P, B)[3]
    BY <1>8, <1>9
  <2> HIDE DEF Z, z, f
  <2> DEFINE s == f * f
             w == Z * Z
             g == w * Z
  <2>3. s \in Int /\ ~(s \cong 0) /\ w \in Int /\ ~(w \cong 0)
    BY <1>1, <1>2, <2>1, NoZeroDivisors
  <2>4. z \cong s * g
    BY <2>2
  <2> HIDE DEF s, w
  <2>5. g \in Int /\ ~(g \cong 0)
    BY <2>1, <2>3, NoZeroDivisors
  <2> HIDE DEF g
  <2>6. ~(s * g \cong 0) /\ s * g \in Int
    BY <2>3, <2>5, NoZeroDivisors
  <2>7. z # 0
    <3> SUFFICES ASSUME z = 0 PROVE FALSE
      OBVIOUS
    <3>1. 0 \cong s * g /\ 0 \in Int
      BY <2>4
    <3>2. s * g \cong 0
      BY <2>6, <3>1, CongSym
    <3> QED
      BY <2>6, <3>2
  <2> QED
    BY <2>2, <2>7
<1>12. <<x, y>>[1] = x /\ <<x, y>>[2] = y
  OBVIOUS
<1> QED
  BY <1>3, <1>5, <1>6, <1>10, <1>11, <1>12 DEF Represents

(* Two points of one abscissa are equal or opposite. *)
LEMMA SameAbscissa ==
    ASSUME NEW A \in Curve, NEW B \in Curve, A[1] = B[1], A # B
    PROVE  GroupAdd(A, B) = Zero
<1> DEFINE e == A[2]
           k == B[2]
           s == e - k
           t == e + k
           q == A[1] * A[1] * A[1] - 3 * A[1] + b
<1>1. /\ e \in Residues /\ k \in Residues /\ e \in Int /\ k \in Int /\ q \in Int
      /\ e * e \cong q /\ k * k \cong q /\ A # Zero /\ B # Zero /\ e # k
  BY CurvePoint, CurveAssumption
<1>2. A[2] = e /\ B[2] = k
  OBVIOUS
<1> HIDE DEF e, k, q
<1>3. s \in Int /\ t \in Int /\ e * e - k * k = s * t
  BY <1>1
<1>4. e * e \cong k * k /\ e * e \in Int /\ k * k \in Int
  <2>1. e * e \in Int /\ k * k \in Int
    BY <1>1
  <2>2. q \cong k * k
    BY <1>1, <2>1, CongSym
  <2> QED
    BY <1>1, <2>1, <2>2, CongTrans
<1>5. s * t \cong 0
  BY <1>3, <1>4, GapZero
<1>6. ~(s \cong 0)
  <2>1. ~(e \cong k)
    BY <1>1, ResidueUnique DEF Residues
  <2> QED
    BY <1>1, <2>1, GapZero
<1>7. t \cong 0
  <2> HIDE DEF s, t
  <2> QED
    BY <1>3, <1>5, <1>6, NoZeroDivisors
<1>8. (A[2] + B[2]) % p = 0
  BY <1>2, <1>3, <1>7, ModZero
<1> QED
  BY <1>1, <1>8 DEF GroupAdd

(* No gap: the accumulator stands for the point that is added. *)
LEMMA GapsTell ==
    ASSUME NEW P, NEW A \in Curve, NEW B \in Curve, Represents(P, A)
    PROVE  /\ AbscissaGap(P, B) = 0 <=> A[1] = B[1]
           /\ OrdinateGap(P, B) = 0 <=> A[2] = B[2]
<1> DEFINE c == A[1]
           e == A[2]
           h == B[1]
           k == B[2]
           Z == P[3]
           T == P[4]
<1>1. /\ c \in Residues /\ e \in Residues /\ h \in Residues /\ k \in Residues
      /\ c \in Int /\ e \in Int /\ h \in Int /\ k \in Int
      /\ A # Zero /\ B \in Residues \X Residues
  BY CurvePoint
<1>2. P \in Quads /\ StandsFor(P, c, e) /\ P[3] # 0
  BY <1>1 DEF Represents
<1>3. ~(Z \cong 0) /\ ~(T \cong 0) /\ Z \in Int /\ T \in Int
  BY <1>2, FourthNonzero, QuadsAreInts DEF StandsFor
<1>4. /\ OrdinateGap(P, B) \in Residues /\ OrdinateGap(P, B) \in Int
      /\ OrdinateGap(P, B) \cong (B[2] - e) * P[4]
      /\ AbscissaGap(P, B) \in Residues /\ AbscissaGap(P, B) \in Int
      /\ AbscissaGap(P, B) \cong (B[1] - c) * P[3]
  BY <1>1, <1>2, GapsAre
<1> DEFINE R == OrdinateGap(P, B)
           D == AbscissaGap(P, B)
<1>5. /\ R \in Residues /\ R \in Int /\ R \cong (k - e) * T
      /\ D \in Residues /\ D \in Int /\ D \cong (h - c) * Z
  BY <1>4
<1>6. /\ (AbscissaGap(P, B) = 0 <=> A[1] = B[1]) <=> (D = 0 <=> c = h)
      /\ (OrdinateGap(P, B) = 0 <=> A[2] = B[2]) <=> (R = 0 <=> e = k)
  OBVIOUS
<1> HIDE DEF c, e, h, k, Z, T, R, D
<1>7. \A g, m \in Residues, w, z \in Int :
        (~(w \cong 0) /\ z \in Residues /\ z \cong (g - m) * w) => (z = 0 <=> m = g)
  <2> SUFFICES ASSUME NEW g \in Residues, NEW m \in Residues, NEW w \in Int, NEW z \in Int,
                      ~(w \cong 0), z \in Residues, z \cong (g - m) * w
               PROVE  z = 0 <=> m = g
    OBVIOUS
  <2> DEFINE d == g - m
  <2>1. g \in Int /\ m \in Int /\ d \in Int
    BY CurveAssumption DEF Residues
  <2>2. m = g => d * w = 0
    BY <2>1
  <2>3. z = 0 => d \cong 0
    <3> HIDE DEF d
    <3> SUFFICES ASSUME z = 0, ~(d \cong 0) PROVE FALSE
      OBVIOUS
    <3>1. d * w \in Int /\ ~(d * w \cong 0)
      BY <2>1, NoZeroDivisors
    <3>2. 0 \cong d * w /\ 0 \in Int
      BY DEF d
    <3> QED
      BY <3>1, <3>2, CongSym
  <2>4. d \cong 0 => m = g
    <3> SUFFICES ASSUME d \cong 0 PROVE m = g
      OBVIOUS
    <3>1. g \cong m
      BY <2>1, GapZero
    <3> QED
      BY <3>1, ResidueUnique DEF Residues
  <2>5. m = g => z = 0
    <3> SUFFICES ASSUME m = g PROVE z = 0
      OBVIOUS
    <3>1. z \cong 0
      BY <2>2
    <3> QED
      BY <3>1, NonzeroCong
  <2> QED
    BY <2>3, <2>4, <2>5
<1>8. D = 0 <=> c = h
  BY <1>1, <1>3, <1>5, <1>7
<1>9. R = 0 <=> e = k
  BY <1>1, <1>3, <1>5, <1>7
<1> QED
  BY <1>6, <1>8, <1>9

(* Accumulating another point adds it; accumulating the point itself gives  *)
(* the right abscissa.                                                      *)
LEMMA AccumulateRepresents ==
    ASSUME NEW P, NEW A \in Points, NEW B \in Curve, Represents(P, A), A # B
    PROVE  Represents(Accumulate(P, B), GroupAdd(A, B))
<1>1. P \in Quads /\ B \in Residues \X Residues /\ AddGaps(P, B) \in Quads
  BY CurvePoint, AddedQuads DEF Represents
<1>2. CASE A = Zero
  <2>1. P[3] = 0 /\ GroupAdd(A, B) = B
    BY <1>2, NeutralIsZero DEF Represents
  <2> QED
    BY <2>1, SetRepresents DEF Accumulate
<1>3. CASE A # Zero
  <2>1. A \in Curve /\ P[3] # 0
    BY <1>3 DEF Represents, Points
  <2>2. A = <<A[1], A[2]>> /\ B = <<B[1], B[2]>>
    BY <2>1, CurvePoint
  <2>3. ~(OrdinateGap(P, B) = 0 /\ AbscissaGap(P, B) = 0)
    BY <2>1, <2>2, GapsTell
  <2>4. Accumulate(P, B) = AddGaps(P, B)
    BY <2>1, <2>3 DEF Accumulate
  <2>5. CASE A[1] = B[1]
    <3>1. GroupAdd(A, B) = Zero
      BY <2>1, <2>5, SameAbscissa
    <3>2. AddGaps(P, B)[3] = 0
      BY <1>1, <2>1, <2>5, AddedQuads, GapsTell
    <3> QED
      BY <1>1, <2>4, <3>1, <3>2 DEF Represents
  <2>6. CASE A[1] # B[1]
    BY <2>1, <2>4, <2>6, ChordRepresents
  <2> QED
    BY <2>5, <2>6
<1> QED
  BY <1>2, <1>3

(* The abscissa alone is right. *)
HasAbscissa(P, A) ==
    /\ P \in Quads
    /\ IF A = Zero THEN P[3] = 0 ELSE P[3] # 0 /\ P[1] \cong A[1] * P[3]

LEMMA RepresentsAbscissa ==
    ASSUME NEW P, NEW A, Represents(P, A)
    PROVE  HasAbscissa(P, A)
BY DEF Represents, HasAbscissa, StandsFor

LEMMA AccumulateSame ==
    ASSUME NEW P, NEW B \in Curve, Represents(P, B)
    PROVE  HasAbscissa(Accumulate(P, B), GroupAdd(B, B))
<1>1. P \in Quads /\ P[3] # 0 /\ B \in Points
  BY CurvePoint DEF Represents
<1>2. Accumulate(P, B) = DoubleInstead(P)
  BY <1>1, GapsTell DEF Accumulate
<1>3. HasAbscissa(ecZZ_Dbl(P), GroupAdd(B, B))
  BY <1>1, DoubleRepresents, RepresentsAbscissa
<1>4. /\ DoubleInstead(P) \in Quads
      /\ DoubleInstead(P)[1] = ecZZ_Dbl(P)[1] /\ DoubleInstead(P)[3] = ecZZ_Dbl(P)[3]
  BY <1>1, DoubledQuads
<1> QED
  BY <1>2, <1>3, <1>4 DEF HasAbscissa

(* The abscissa that the loop returns, with that of the neutral being 0.    *)
LEMMA AbscissaIs ==
    ASSUME NEW P, NEW A \in Points, HasAbscissa(P, A)
    PROVE  (P[1] * FCL_pModInv(P[3])) % p = A[1]
<1> DEFINE X == P[1]
           Z == P[3]
           i == FCL_pModInv(Z)
<1>1. X \in Int /\ Z \in Int /\ Z \in Residues /\ Z \in Nat
  BY QuadsAreInts, CurveAssumption DEF HasAbscissa, Residues
<1>2. CASE A = Zero
  <2>1. Z = 0
    BY <1>2 DEF HasAbscissa
  <2>2. i = 0
    BY <2>1, InverseRange
  <2>3. X * 0 = 0 /\ 0 % p = 0
    BY <1>1, CurveAssumption
  <2>4. (X * i) % p = 0
    BY <2>2, <2>3
  <2> QED
    BY <1>2, <2>4 DEF Zero
<1>3. CASE A # Zero
  <2> DEFINE c == A[1]
             cZ == c * Z
  <2>1. c \in Int /\ c \in Residues
    BY <1>3, CurvePoint DEF Points
  <2>2. X \cong c * Z /\ ~(Z \cong 0)
    BY <1>1, <1>3, NonzeroCong DEF HasAbscissa
  <2>3. i \in Int /\ Z * i \cong 1
    BY <1>1, <2>2, InverseOf DEF Residues
  <2>4. (X * i) % p = (P[1] * FCL_pModInv(P[3])) % p /\ c = A[1]
    OBVIOUS
  <2> HIDE DEF X, Z, i, c
  <2>5. X * i \cong (c * Z) * i
    <3>1. cZ \in Int /\ X \cong cZ
      BY <1>1, <2>1, <2>2
    <3>2. cZ * i = (c * Z) * i
      OBVIOUS
    <3> HIDE DEF cZ
    <3>3. X * i \cong cZ * i
      BY <1>1, <2>3, <3>1, CongMul, CongRefl
    <3> QED
      BY <3>2, <3>3
  <2> DEFINE h == Z * i
  <2>6. h \in Int /\ h \cong 1 /\ (c * Z) * i = c * h
    BY <1>1, <2>1, <2>3
  <2> HIDE DEF h
  <2>7. c * h \cong c /\ c * h \in Int /\ X * i \in Int
    BY <1>1, <2>1, <2>3, <2>6, TimesOne
  <2>8. X * i \cong c
    BY <2>1, <2>5, <2>6, <2>7, CongTrans
  <2>9. (X * i) % p = c % p /\ c % p = c
    BY <2>1, <2>7, <2>8, ModEqual, ResidueMod DEF Residues
  <2> QED
    BY <2>4, <2>9
<1> QED
  BY <1>2, <1>3

(* The affine form of an accumulator is the point that it stands for.       *)
LEMMA SetAffIs ==
    ASSUME NEW P, NEW A \in Curve, Represents(P, A)
    PROVE  ecZZ_SetAff(P) = A
<1> DEFINE X == P[1]
           Y == P[2]
           Z == P[3]
           T == P[4]
           c == A[1]
           e == A[2]
           i == FCL_pModInv(T)
           j == (Z * i) % p
<1>1. c \in Int /\ e \in Int /\ c \in Residues /\ e \in Residues /\ A = <<c, e>> /\ A # Zero
  BY CurvePoint
<1>2. P \in Quads /\ StandsFor(P, c, e) /\ P[3] # 0
  BY <1>1 DEF Represents
<1>3. /\ X \in Int /\ Y \in Int /\ Z \in Int /\ T \in Int /\ T \in Residues /\ ~(T \cong 0)
      /\ X \cong c * Z /\ Y \cong e * T /\ Z * Z * Z \cong T * T
  BY <1>2, QuadsAreInts, FourthNonzero DEF StandsFor, Agree
<1>4. i \in Int /\ T * i \cong 1
  BY <1>3, InverseOf DEF Residues
<1>5. ecZZ_SetAff(P) = <<(X * j * j) % p, (Y * i) % p>>
  BY DEF ecZZ_SetAff
<1> HIDE DEF X, Y, Z, T, c, e, i
<1>6. j \in Int /\ j \cong Z * i /\ Z * i \in Int
  BY <1>3, <1>4, ModCong
<1> HIDE DEF j
<1> DEFINE h == T * i
           f == Z * i
           ZZZ == Z * Z * Z
           TT == T * T
           ii == i * i
<1>7. /\ h \in Int /\ f \in Int /\ ZZZ \in Int /\ TT \in Int /\ ii \in Int
      /\ h \cong 1 /\ j \cong f /\ ZZZ \cong TT
  BY <1>3, <1>4, <1>6
<1>8. /\ (c * Z) * f * f = c * (ZZZ * ii) /\ TT * ii = h * h /\ (e * T) * i = e * h
  BY <1>1, <1>3, <1>4
<1> HIDE DEF h, f, ZZZ, TT, ii
<1>9. X * j * j \in Int /\ Y * i \in Int /\ c * Z \in Int /\ e * T \in Int
  BY <1>1, <1>3, <1>4, <1>6
<1>10. X * j * j \cong (c * Z) * f * f
  <2> DEFINE cZ == c * Z
  <2>1. cZ \in Int /\ X \cong cZ /\ (c * Z) * f * f = cZ * f * f
    BY <1>1, <1>3
  <2> HIDE DEF cZ
  <2>2. X * j \cong cZ * f /\ X * j \in Int /\ cZ * f \in Int
    BY <1>3, <1>6, <1>7, <2>1, CongMul
  <2>3. X * j * j \cong cZ * f * f
    BY <1>6, <1>7, <2>2, CongMul
  <2> QED
    BY <2>1, <2>3
<1>11. ZZZ * ii \cong 1
  <2>1. ZZZ * ii \cong TT * ii
    BY <1>7, CongMul, CongRefl
  <2>2. h * h \cong 1
    <3>1. h * h \cong h
      BY <1>7, TimesOne
    <3>2. h * h \in Int /\ 1 \in Int
      BY <1>7
    <3> QED
      BY <1>7, <3>1, <3>2, CongTrans
  <2>3. ZZZ * ii \in Int /\ TT * ii \in Int /\ 1 \in Int
    BY <1>7
  <2>4. TT * ii \cong 1
    BY <1>8, <2>2
  <2> QED
    BY <2>1, <2>3, <2>4, CongTrans
<1> DEFINE g == ZZZ * ii
<1>12. g \in Int /\ g \cong 1 /\ (c * Z) * f * f = c * g
  BY <1>7, <1>8, <1>11
<1> HIDE DEF g
<1>13. c * g \cong c /\ c * g \in Int
  BY <1>1, <1>12, TimesOne
<1>14. X * j * j \cong c * g
  BY <1>10, <1>12
<1>15. X * j * j \cong c
  BY <1>1, <1>9, <1>13, <1>14, CongTrans
<1>16. Y * i \cong e
  <2>1. Y * i \cong (e * T) * i
    BY <1>3, <1>4, <1>9, CongMul, CongRefl
  <2>2. e * h \cong e /\ e * h \in Int
    BY <1>1, <1>7, TimesOne
  <2>3. Y * i \cong e * h
    BY <1>8, <2>1
  <2> QED
    BY <1>1, <1>9, <2>2, <2>3, CongTrans
<1>17. (X * j * j) % p = c /\ (Y * i) % p = e
  <2>1. (X * j * j) % p = c % p /\ (Y * i) % p = e % p
    BY <1>1, <1>9, <1>15, <1>16, ModEqual
  <2>2. c % p = c /\ e % p = e
    BY <1>1, ResidueMod DEF Residues
  <2> QED
    BY <2>1, <2>2
<1> QED
  BY <1>1, <1>5, <1>17

(* The generator, and the sum that is prepared before the loop. *)
LEMMA GeneratorOnCurve == G \in Curve /\ G[1] = gx /\ G[2] = gy /\ gy # 0
<1>1. G[1] = gx /\ G[2] = gy
  BY DEF G
<1>2. G \in (0..(p - 1)) \X (0..(p - 1)) /\ gy # 0
  BY CurveAssumption DEF G
<1>3. (G[2] * G[2]) % p = (G[1] * G[1] * G[1] - 3 * G[1] + b) % p
  <2>1. (gy * gy) % p = (gx * gx * gx - 3 * gx + b) % p
    BY CurveAssumption
  <2> QED
    BY <1>1, <2>1, Zenon
<1>4. G \in Curve
  BY <1>2, <1>3 DEF Curve
<1> QED
  BY <1>1, <1>2, <1>4

(* The sum prepared before the loop is a pair of residues, whatever the key. *)
LEMMA SetAffResidues ==
    ASSUME NEW P \in Quads
    PROVE  ecZZ_SetAff(P) \in Residues \X Residues
<1> DEFINE i == FCL_pModInv(P[4])
           j == (P[3] * i) % p
<1>1. P[1] \in Int /\ P[2] \in Int /\ P[3] \in Int /\ P[4] \in Nat
  BY QuadsAreInts, CurveAssumption DEF Residues
<1>2. i \in Int
  BY <1>1, InverseRange
<1>3. ecZZ_SetAff(P) = <<(P[1] * j * j) % p, (P[2] * i) % p>>
  BY DEF ecZZ_SetAff
<1> HIDE DEF i
<1>4. P[3] * i \in Int /\ j \in Int
  BY <1>1, <1>2, ModResidue
<1> HIDE DEF j
<1>5. P[1] * j * j \in Int /\ P[2] * i \in Int
  BY <1>1, <1>2, <1>4
<1> QED
  BY <1>3, <1>5, ModResidue

LEMMA AffineAddResidues ==
    ASSUME NEW K \in Residues \X Residues
    PROVE  ecAff_add(G, K) \in Residues \X Residues
<1>1. G \in Residues \X Residues /\ G \in Curve
  BY GeneratorOnCurve, CurvePoint
<1>2. ecAff_SetZZ(G) \in Quads
  BY <1>1, SetRepresents
<1>3. ecZZ_AddN(ecAff_SetZZ(G), K) \in Quads
  <2>1. ecAff_SetZZ(K) \in Quads
    BY CurveAssumption DEF ecAff_SetZZ, Quads, Residues
  <2> QED
    BY <1>2, <2>1, AddedQuads DEF ecZZ_AddN
<1> QED
  BY <1>1, <1>3, SetAffResidues DEF ecAff_add

LEMMA AffineAddIs ==
    ASSUME NEW K \in Curve, K[1] # gx, K[2] # 0
    PROVE  ecAff_add(G, K) = GroupAdd(G, K) /\ GroupAdd(G, K) \in Curve
<1>1. G \in Curve /\ G[1] # K[1] /\ G[2] # 0
  BY GeneratorOnCurve
<1> DEFINE P == ecAff_SetZZ(G)
<1>2. Represents(P, G) /\ P[2] = G[2]
  BY <1>1, SetRepresents DEF ecAff_SetZZ
<1>3. ecZZ_AddN(P, K) = AddGaps(P, K)
  BY <1>1, <1>2 DEF ecZZ_AddN
<1>4. Represents(AddGaps(P, K), GroupAdd(G, K)) /\ GroupAdd(G, K) # Zero
  BY <1>1, <1>2, ChordRepresents
<1>5. GroupAdd(G, K) \in Curve
  BY <1>1, <1>4, CurvePoint, GroupAssumption DEF Points
<1>6. ecZZ_SetAff(AddGaps(P, K)) = GroupAdd(G, K)
  BY <1>4, <1>5, SetAffIs
<1>7. ~ecAff_IsZero(G) /\ ~ecAff_IsZero(K)
  BY <1>1 DEF ecAff_IsZero
<1> HIDE DEF P
<1>8. ecAff_add(G, K) = ecZZ_SetAff(ecZZ_AddN(P, K))
  BY <1>7 DEF ecAff_add, P
<1> QED
  BY <1>3, <1>5, <1>6, <1>8

---------------------------------------------------------------------------
(* Multiples of a point, and the scalars' bits.                            *)

LEMMA ZeroIsPoint == Zero \in Points
BY DEF Points

(* The multiples of a point, by their recursion.                            *)
LEMMA TimesIs ==
    ASSUME NEW P \in Curve
    PROVE  /\ Times[P] \in [0..(n - 1) -> Points] /\ Times[P][0] = Zero
           /\ \A k \in 1..(n - 1) : Times[P][k] = GroupAdd(Times[P][k - 1], P)
<1> DEFINE Is(f) == f = [k \in 0..(n - 1) |-> IF k = 0 THEN Zero ELSE GroupAdd(f[k - 1], P)]
           step == [A \in Points |-> GroupAdd(A, P)]
           m == CHOOSE f : Is(f)
<1>1. n - 1 \in Nat /\ P \in Points
  BY CurveAssumption, CurvePoint
<1>2. PICK f \in [0..(n - 1) -> Points] : Repeats(f, n - 1, Zero, step)
  <2>1. step \in [Points -> Points]
    BY <1>1, GroupAssumption
  <2> HIDE DEF step
  <2> QED
    BY <1>1, <2>1, ZeroIsPoint, RepeatExists
<1>3. Is(f)
  <2>1. ASSUME NEW k \in 0..(n - 1)
        PROVE  f[k] = IF k = 0 THEN Zero ELSE GroupAdd(f[k - 1], P)
    <3>1. CASE k = 0
      BY <1>2, <3>1 DEF Repeats
    <3>2. CASE k # 0
      <4>1. k \in 1..(n - 1) /\ k - 1 \in 0..(n - 1) /\ f[k - 1] \in Points
        BY <1>1, <3>2
      <4> QED
        BY <1>2, <3>2, <4>1 DEF Repeats
    <3> QED
      BY <3>1, <3>2
  <2>2. f = [k \in 0..(n - 1) |-> f[k]]
    OBVIOUS
  <2> QED
    BY <2>1, <2>2
<1>4. Is(m)
  BY <1>3
<1>5. Times[P] = [k \in 0..(n - 1) |-> m[k]]
  BY DEF Times
<1> HIDE DEF m
<1>6. \A k \in 0..(n - 1) : m[k] = IF k = 0 THEN Zero ELSE GroupAdd(m[k - 1], P)
  BY <1>4
<1> DEFINE Pointed == {k \in Nat : k \in 0..(n - 1) => m[k] \in Points}
<1>7. 0 \in Pointed
  BY <1>6, ZeroIsPoint
<1>8. ASSUME NEW k \in 0..((n - 1) - 1), k \in Pointed PROVE k + 1 \in Pointed
  <2>1. k \in 0..(n - 1) /\ k + 1 \in 0..(n - 1) /\ k + 1 # 0 /\ (k + 1) - 1 = k
    BY <1>1
  <2>2. m[k] \in Points /\ m[k + 1] = GroupAdd(m[k], P)
    BY <1>6, <1>8, <2>1
  <2> QED
    BY <1>1, <2>2, GroupAssumption
<1> HIDE DEF Pointed
<1>9. \A k \in 0..(n - 1) : k \in Pointed
  BY <1>1, <1>7, <1>8, SetInduction
<1>10. \A k \in 0..(n - 1) : m[k] \in Points
  BY <1>9 DEF Pointed
<1>11. \A k \in 1..(n - 1) : k \in 0..(n - 1) /\ k # 0 /\ k - 1 \in 0..(n - 1)
  BY <1>1
<1>12. 0 \in 0..(n - 1)
  BY <1>1
<1> HIDE DEF Is, step
<1> QED
  BY <1>5, <1>6, <1>10, <1>11, <1>12

LEMMA TimesPoint ==
    ASSUME NEW P \in Curve, NEW k \in 0..(n - 1)
    PROVE  Times[P][k] \in Points
BY TimesIs

LEMMA TimesAdd ==
    ASSUME NEW P \in Curve, NEW j \in Nat, NEW k \in Nat, j + k <= n - 1
    PROVE  Times[P][j + k] = GroupAdd(Times[P][j], Times[P][k])
<1> DEFINE T == Times[P]
           Adds == {i \in Nat : j + i <= n - 1 => T[j + i] = GroupAdd(T[j], T[i])}
<1>0. n - 1 \in Nat /\ P \in Points
  BY CurveAssumption, CurvePoint
<1>1. /\ \A i \in 0..(n - 1) : T[i] \in Points
      /\ T[0] = Zero
      /\ \A i \in 1..(n - 1) : T[i] = GroupAdd(T[i - 1], P)
  BY TimesIs, TimesPoint
<1> HIDE DEF T
<1>2. 0 \in Adds
  BY <1>1, NeutralIsZero
<1>3. ASSUME NEW i \in 0..(k - 1), i \in Adds PROVE i + 1 \in Adds
  <2> SUFFICES ASSUME j + (i + 1) <= n - 1 PROVE T[j + (i + 1)] = GroupAdd(T[j], T[i + 1])
    OBVIOUS
  <2>1. /\ j + (i + 1) \in 1..(n - 1) /\ i + 1 \in 1..(n - 1) /\ (j + (i + 1)) - 1 = j + i
        /\ (i + 1) - 1 = i /\ j \in 0..(n - 1) /\ i \in 0..(n - 1) /\ j + i <= n - 1
    BY <1>0
  <2>2. T[j + (i + 1)] = GroupAdd(T[j + i], P)
    BY <1>1, <2>1
  <2>3. T[j + i] = GroupAdd(T[j], T[i])
    BY <1>3, <2>1
  <2>4. T[i + 1] = GroupAdd(T[i], P)
    BY <1>1, <2>1
  <2>5. T[j] \in Points /\ T[i] \in Points
    BY <1>1, <2>1
  <2>6. GroupAdd(GroupAdd(T[j], T[i]), P) = GroupAdd(T[j], GroupAdd(T[i], P))
    BY <1>0, <2>5, GroupAssumption
  <2> QED
    BY <2>2, <2>3, <2>4, <2>6
<1> HIDE DEF Adds
<1>4. \A i \in 0..k : i \in Adds
  BY <1>2, <1>3, SetInduction
<1>5. k \in Adds
  BY <1>4
<1> QED
  BY <1>5 DEF Adds, T

(* Sums of two doubled points. *)
LEMMA FourSum ==
    ASSUME NEW A \in Points, NEW B \in Points, NEW C \in Points, NEW D \in Points
    PROVE  GroupAdd(GroupAdd(A, B), GroupAdd(C, D)) = GroupAdd(GroupAdd(A, C), GroupAdd(B, D))
<1>1. /\ GroupAdd(A, B) \in Points /\ GroupAdd(C, D) \in Points /\ GroupAdd(B, C) \in Points
      /\ GroupAdd(B, D) \in Points /\ GroupAdd(A, C) \in Points
  BY GroupAssumption
<1>2. GroupAdd(GroupAdd(A, B), GroupAdd(C, D)) = GroupAdd(A, GroupAdd(B, GroupAdd(C, D)))
  BY <1>1, GroupAssumption
<1>3. GroupAdd(B, GroupAdd(C, D)) = GroupAdd(GroupAdd(B, C), D)
  BY GroupAssumption
<1>4. GroupAdd(B, C) = GroupAdd(C, B)
  BY GroupAssumption
<1>5. GroupAdd(GroupAdd(C, B), D) = GroupAdd(C, GroupAdd(B, D))
  BY GroupAssumption
<1>6. GroupAdd(A, GroupAdd(C, GroupAdd(B, D))) = GroupAdd(GroupAdd(A, C), GroupAdd(B, D))
  BY <1>1, GroupAssumption
<1> QED
  BY <1>2, <1>3, <1>4, <1>5, <1>6

(* Quotients by a power of two, and the bit that they drop.                 *)
LEMMA QuotientIs ==
    ASSUME NEW k \in Nat, NEW d \in Nat \ {0}
    PROVE  /\ k \div d \in Nat /\ k % d \in 0..(d - 1) /\ k = d * (k \div d) + (k % d)
           /\ k \div d <= k
<1>1. k \div d \in Int /\ k % d \in 0..(d - 1) /\ k = d * (k \div d) + (k % d)
  OBVIOUS
<1> DEFINE q == k \div d
           r == k % d
<1>2. q \in Int /\ r \in 0..(d - 1) /\ k = d * q + r
  BY <1>1
<1> HIDE DEF q, r
<1>3. q >= 0
  <2> SUFFICES ASSUME q <= -1 PROVE FALSE
    BY <1>2
  <2>1. d * q <= -d
    BY <1>2
  <2> QED
    BY <1>2, <2>1
<1>4. q <= k
  <2>1. d * q >= q
    BY <1>2, <1>3
  <2> QED
    BY <1>2, <2>1
<1> QED
  BY <1>1, <1>2, <1>3, <1>4 DEF q

LEMMA QuotientUnique ==
    ASSUME NEW k \in Nat, NEW d \in Nat \ {0}, NEW q \in Nat, NEW r \in 0..(d - 1), k = d * q + r
    PROVE  k \div d = q
<1> DEFINE w == k \div d
           s == k % d
<1>1. w \in Nat /\ s \in 0..(d - 1) /\ k = d * w + s
  BY QuotientIs
<1> HIDE DEF w, s
<1>2. w <= q
  <2> SUFFICES ASSUME w >= q + 1 PROVE FALSE
    BY <1>1
  <2>1. d * w >= d * (q + 1)
    BY <1>1
  <2>2. d * (q + 1) = d * q + d
    OBVIOUS
  <2> QED
    BY <1>1, <2>1, <2>2
<1>3. q <= w
  <2> SUFFICES ASSUME q >= w + 1 PROVE FALSE
    BY <1>1
  <2>1. d * q >= d * (w + 1)
    BY <1>1
  <2>2. d * (w + 1) = d * w + d
    BY <1>1
  <2> QED
    BY <1>1, <2>1, <2>2
<1> QED
  BY <1>1, <1>2, <1>3 DEF w

LEMMA PowersOfTwo ==
    ASSUME NEW i \in 0..Bits
    PROVE  TwoTo[i] \in Nat \ {0}
<1> DEFINE Big == {k \in Nat : k \in 0..Bits => TwoTo[k] \in Nat \ {0}}
<1>0. Bits \in Nat
  BY CurveAssumption
<1>1. 0 \in Big
  BY TwoToIs
<1>2. ASSUME NEW k \in 0..(Bits - 1), k \in Big PROVE k + 1 \in Big
  <2>1. k \in 0..Bits /\ k + 1 \in 1..Bits /\ (k + 1) - 1 = k
    BY <1>0
  <2> QED
    BY <1>2, <2>1, TwoToIs
<1> HIDE DEF Big
<1>3. \A k \in 0..Bits : k \in Big
  BY <1>0, <1>1, <1>2, SetInduction
<1> QED
  BY <1>3 DEF Big

LEMMA BitIs ==
    ASSUME NEW k \in Nat, NEW i \in 0..(Bits - 1)
    PROVE  /\ Bit(k, i) \in {0, 1}
           /\ k \div TwoTo[i] = 2 * (k \div TwoTo[i + 1]) + Bit(k, i)
<1> DEFINE d == TwoTo[i]
           c == TwoTo[i + 1]
           q == k \div d
           r == k % d
           w == q \div 2
           s == q % 2
<1>0. Bits \in Nat /\ i \in 0..Bits /\ i + 1 \in 0..Bits /\ i + 1 \in 1..Bits /\ (i + 1) - 1 = i
  BY CurveAssumption
<1>1. d \in Nat \ {0} /\ c \in Nat \ {0} /\ c = 2 * d
  BY <1>0, PowersOfTwo, TwoToIs
<1>2. Bit(k, i) = s /\ k \div TwoTo[i] = q /\ k \div TwoTo[i + 1] = k \div c
  BY DEF Bit
<1> HIDE DEF d, c
<1>3. q \in Nat /\ r \in 0..(d - 1) /\ k = d * q + r
  BY <1>1, QuotientIs
<1> HIDE DEF q, r
<1>4. w \in Nat /\ s \in {0, 1} /\ q = 2 * w + s
  BY <1>3
<1> HIDE DEF w, s
<1>5. k = c * w + (d * s + r)
  <2>1. d * q = d * (2 * w) + d * s
    BY <1>1, <1>4
  <2>2. d * (2 * w) = c * w
    BY <1>1, <1>4
  <2> QED
    BY <1>1, <1>3, <1>4, <2>1, <2>2
<1>6. d * s + r \in 0..(c - 1)
  <2>1. CASE s = 0
    BY <1>1, <1>3, <2>1
  <2>2. CASE s = 1
    BY <1>1, <1>3, <2>2
  <2> QED
    BY <1>4, <2>1, <2>2
<1> DEFINE t == d * s + r
<1>7. t \in 0..(c - 1) /\ k = c * w + t
  BY <1>5, <1>6
<1> HIDE DEF t
<1>8. k \div c = w
  BY <1>1, <1>4, <1>7, QuotientUnique
<1> QED
  BY <1>2, <1>4, <1>8

LEMMA QuotientEnds ==
    ASSUME NEW k \in 0..(n - 1)
    PROVE  k \div TwoTo[0] = k /\ k \div TwoTo[Bits] = 0
<1>1. k \in Nat /\ n \in Nat /\ Bits \in 0..Bits /\ n < TwoTo[Bits]
  BY CurveAssumption
<1>2. TwoTo[Bits] \in Nat \ {0}
  BY <1>1, PowersOfTwo
<1>3. TwoTo[Bits] * 0 = 0 /\ k \in 0..(TwoTo[Bits] - 1)
  BY <1>1, <1>2
<1>4. k \div TwoTo[Bits] = 0
  <2> DEFINE d == TwoTo[Bits]
  <2>1. d \in Nat \ {0} /\ 0 \in Nat /\ k \in 0..(d - 1) /\ k = d * 0 + k
    BY <1>1, <1>2, <1>3
  <2> HIDE DEF d
  <2>2. k \div d = 0
    BY <1>1, <2>1, QuotientUnique
  <2> QED
    BY <2>2 DEF d
<1>5. TwoTo[0] = 1
  BY TwoToIs
<1> QED
  BY <1>1, <1>4, <1>5

LEMMA QuotientSmall ==
    ASSUME NEW k \in 0..(n - 1), NEW i \in 0..Bits
    PROVE  k \div TwoTo[i] \in 0..(n - 1)
<1>1. k \in Nat /\ n \in Nat /\ TwoTo[i] \in Nat \ {0}
  BY CurveAssumption, PowersOfTwo
<1>2. k \div TwoTo[i] \in Nat /\ k \div TwoTo[i] <= k
  BY <1>1, QuotientIs
<1> QED
  BY <1>1, <1>2

---------------------------------------------------------------------------
(* The point of the bits consumed.                                         *)

(* A word is 0 modulo p if it is 0 or p. *)
LEMMA WordResidue ==
    ASSUME NEW X \in Words
    PROVE  /\ X \in Int /\ X % p \in Residues /\ X % p \in Int /\ (X % p) \cong X
           /\ X % p = 0 <=> X \in {0, p}
<1>1. p \in Nat /\ p > 3 /\ TwoTo[Bits] \in Nat /\ TwoTo[Bits] <= 2 * p
  <2>1. Bits \in 0..Bits
    BY CurveAssumption
  <2> QED
    BY <2>1, PowersOfTwo, CurveAssumption, WidthAssumption
<1>2. X \in Nat /\ X < 2 * p
  BY <1>1 DEF Words
<1>3. X % p \in 0..(p - 1) /\ X % p \in Int /\ (X % p) \cong X
  BY <1>2, ModCong
<1>4. X % p = 0 <=> X \in {0, p}
  <2> DEFINE q == X \div p
             r == X % p
  <2>1. q \in Int /\ r \in 0..(p - 1) /\ X = p * q + r
    BY <1>1, <1>2
  <2> HIDE DEF q, r
  <2>2. q \in {0, 1}
    <3>1. q < 2
      <4> SUFFICES ASSUME q >= 2 PROVE FALSE
        BY <2>1
      <4>1. p * q >= p * 2
        BY <1>1, <2>1
      <4> QED
        BY <1>1, <1>2, <2>1, <4>1
    <3>2. q > -1
      <4> SUFFICES ASSUME q <= -1 PROVE FALSE
        BY <2>1
      <4>1. p * q <= p * (-1)
        BY <1>1, <2>1
      <4> QED
        BY <1>1, <1>2, <2>1, <4>1
    <3> QED
      BY <2>1, <3>1, <3>2
  <2>3. CASE q = 0
    BY <1>1, <2>1, <2>3 DEF r
  <2>4. CASE q = 1
    BY <1>1, <2>1, <2>4 DEF r
  <2> QED
    BY <2>2, <2>3, <2>4
<1> QED
  BY <1>2, <1>3, <1>4 DEF Residues

(* ecAff_isOnCurve asks whether the residues of a key are a point of the    *)
(* curve with no coordinate 0.                                              *)
LEMMA KeyOnCurve ==
    ASSUME NEW K \in Words \X Words
    PROVE  ecAff_isOnCurve(K) <=>
              /\ <<K[1] % p, K[2] % p>> \in Curve
              /\ K[1] % p # 0 /\ K[2] % p # 0
<1> DEFINE X == K[1]
           Y == K[2]
           x == X % p
           y == Y % p
           e == X * X * X + a * X + b
           f == x * x * x - 3 * x + b
<1>0. X \in Words /\ Y \in Words
  OBVIOUS
<1> HIDE DEF X, Y
<1>1. /\ X \in Int /\ Y \in Int /\ a \in Int /\ b \in Int /\ p \in Int
      /\ x \in Int /\ y \in Int /\ x \in Residues /\ y \in Residues
      /\ x \cong X /\ y \cong Y
      /\ x = 0 <=> X \in {0, p}
      /\ y = 0 <=> Y \in {0, p}
  BY <1>0, WordResidue, CurveAssumption DEF a
<1> HIDE DEF x, y
<1>2. ecAff_isOnCurve(K) <=> x # 0 /\ y # 0 /\ (Y * Y) % p = e % p
  BY <1>1 DEF ecAff_isOnCurve, X, Y
<1>3. /\ Y * Y \in Int /\ y * y \in Int /\ e \in Int /\ f \in Int
      /\ X * X \in Int /\ x * x \in Int /\ X * X * X \in Int /\ x * x * x \in Int
      /\ 3 * X \in Int /\ 3 * x \in Int /\ 3 \in Int
      /\ X * X * X - 3 * X \in Int /\ x * x * x - 3 * x \in Int
      /\ X * X * X - 3 * X + b \in Int
  BY <1>1
<1>4. y * y \cong Y * Y /\ x * x \cong X * X
  BY <1>1, CongMul
<1>5. f \cong X * X * X - 3 * X + b
  <2>1. x * x * x \cong X * X * X
    BY <1>1, <1>3, <1>4, CongMul
  <2>2. 3 * x \cong 3 * X
    BY <1>1, <1>3, CongMul, CongRefl
  <2>3. x * x * x - 3 * x \cong X * X * X - 3 * X
    BY <1>3, <2>1, <2>2, CongSub
  <2> QED
    BY <1>1, <1>3, <2>3, CongAdd, CongRefl
<1>6. e \cong X * X * X - 3 * X + b
  <2>1. e - (X * X * X - 3 * X + b) = X * p
    BY <1>1, CurveAssumption DEF a
  <2> HIDE DEF e
  <2> QED
    BY <1>1, <1>3, <2>1, CongIntro
<1>7. e \cong f
  <2> HIDE DEF e, f
  <2> QED
    BY <1>3, <1>5, <1>6, CongSym, CongTrans
<1>8. (Y * Y) % p = e % p <=> (y * y) % p = f % p
  <2>1. (Y * Y) % p = (y * y) % p
    BY <1>3, <1>4, ModEqual
  <2>2. e % p = f % p
    <3> HIDE DEF e, f
    <3> QED
      BY <1>3, <1>7, ModEqual
  <2> QED
    BY <2>1, <2>2
<1>9. (y * y) % p = f % p <=> <<x, y>> \in Curve
  <2>1. <<x, y>> \in (0..(p - 1)) \X (0..(p - 1)) /\ <<x, y>>[1] = x /\ <<x, y>>[2] = y
    BY <1>1 DEF Residues
  <2> QED
    BY <2>1 DEF Curve
<1>10. <<x, y>> = <<K[1] % p, K[2] % p>> /\ x = K[1] % p /\ y = K[2] % p
  BY DEF x, y, X, Y
<1> QED
  BY <1>2, <1>8, <1>9, <1>10

(* The state in which the loop runs. *)
LoopState ==
    /\ u \in 0..(n - 1) /\ v \in 0..(n - 1)
    /\ request.key \in Words \X Words /\ ecAff_isOnCurve(request.key)

LEMMA LoopKey ==
    ASSUME LoopState
    PROVE  /\ Q \in Curve /\ Q[2] # 0 /\ Q \in Points /\ G \in Curve /\ G \in Points
           /\ Q \in Residues \X Residues
<1>1. Q \in Curve /\ Q[2] # 0
  BY KeyOnCurve DEF LoopState, Q
<1> QED
  BY <1>1, GeneratorOnCurve, CurvePoint

LEMMA DibitIs ==
    ASSUME LoopState, NEW i \in 0..(Bits - 1)
    PROVE  /\ Bit(u, i) \in {0, 1} /\ Bit(v, i) \in {0, 1} /\ Dibit(i) \in {0, 1, 2, 3}
           /\ Dibit(i) = 0 <=> Bit(u, i) = 0 /\ Bit(v, i) = 0
           /\ Dibit(i) = 1 <=> Bit(u, i) = 1 /\ Bit(v, i) = 0
           /\ Dibit(i) = 2 <=> Bit(u, i) = 0 /\ Bit(v, i) = 1
           /\ Dibit(i) = 3 <=> Bit(u, i) = 1 /\ Bit(v, i) = 1
<1>1. u \in Nat /\ v \in Nat
  BY CurveAssumption DEF LoopState
<1>2. Bit(u, i) \in {0, 1} /\ Bit(v, i) \in {0, 1}
  BY <1>1, BitIs
<1> QED
  BY <1>2 DEF Dibit

LEMMA SmallTimes ==
    ASSUME NEW P \in Curve
    PROVE  Times[P][0] = Zero /\ Times[P][1] = P
<1>1. 1 \in 1..(n - 1) /\ 1 - 1 = 0
  BY CurveAssumption
<1>2. Times[P][0] = Zero /\ Times[P][1] = GroupAdd(Times[P][0], P)
  BY <1>1, TimesIs
<1> QED
  BY <1>2, NeutralIsZero

LEMMA PrefixPoint ==
    ASSUME LoopState, NEW i \in 0..Bits
    PROVE  Prefix(i) \in Points
<1>1. u \div TwoTo[i] \in 0..(n - 1) /\ v \div TwoTo[i] \in 0..(n - 1)
  BY QuotientSmall DEF LoopState
<1>2. Times[G][u \div TwoTo[i]] \in Points /\ Times[Q][v \div TwoTo[i]] \in Points
  BY <1>1, LoopKey, TimesPoint
<1> QED
  BY <1>2, GroupAssumption DEF Prefix

(* One turn of the loop doubles the point and adds that of the two bits. *)
LEMMA PrefixStep ==
    ASSUME LoopState, NEW i \in 0..(Bits - 1)
    PROVE  Prefix(i) = GroupAdd(GroupAdd(Prefix(i + 1), Prefix(i + 1)), AddendByTheBook(i))
<1> DEFINE ui == u \div TwoTo[i + 1]
           vi == v \div TwoTo[i + 1]
           ub == Bit(u, i)
           vb == Bit(v, i)
<1>0. n \in Nat /\ u \in Nat /\ v \in Nat /\ i \in 0..Bits /\ i + 1 \in 0..Bits
  BY CurveAssumption DEF LoopState
<1>1. ui \in 0..(n - 1) /\ vi \in 0..(n - 1)
  BY <1>0, QuotientSmall DEF LoopState
<1>2. ub \in {0, 1} /\ vb \in {0, 1} /\ u \div TwoTo[i] = 2 * ui + ub /\ v \div TwoTo[i] = 2 * vi + vb
  BY <1>0, BitIs
<1>3. u \div TwoTo[i] \in 0..(n - 1) /\ v \div TwoTo[i] \in 0..(n - 1)
  BY <1>0, QuotientSmall DEF LoopState
<1>4. /\ Prefix(i) = GroupAdd(Times[G][2 * ui + ub], Times[Q][2 * vi + vb])
      /\ Prefix(i + 1) = GroupAdd(Times[G][ui], Times[Q][vi])
      /\ AddendByTheBook(i) = GroupAdd(Times[G][ub], Times[Q][vb])
  BY <1>2 DEF Prefix, AddendByTheBook
<1>5. 2 * ui + ub <= n - 1 /\ 2 * vi + vb <= n - 1
  BY <1>0, <1>2, <1>3
<1> HIDE DEF ui, vi, ub, vb
<1>6. \A K \in Curve, k \in Nat, c \in {0, 1} : 2 * k + c <= n - 1 =>
         /\ Times[K][2 * k + c] = GroupAdd(GroupAdd(Times[K][k], Times[K][k]), Times[K][c])
         /\ Times[K][k] \in Points /\ Times[K][c] \in Points
  <2> SUFFICES ASSUME NEW K \in Curve, NEW k \in Nat, NEW c \in {0, 1}, 2 * k + c <= n - 1
               PROVE  /\ Times[K][2 * k + c] = GroupAdd(GroupAdd(Times[K][k], Times[K][k]), Times[K][c])
                      /\ Times[K][k] \in Points /\ Times[K][c] \in Points
    OBVIOUS
  <2>1. 2 * k + c = (k + k) + c /\ k + k \in Nat /\ c \in Nat /\ (k + k) + c <= n - 1 /\ k + k <= n - 1
    BY <1>0
  <2>2. Times[K][(k + k) + c] = GroupAdd(Times[K][k + k], Times[K][c])
    BY <2>1, TimesAdd
  <2>3. Times[K][k + k] = GroupAdd(Times[K][k], Times[K][k])
    BY <2>1, TimesAdd
  <2>4. k \in 0..(n - 1) /\ c \in 0..(n - 1)
    BY <1>0
  <2>5. Times[K][k] \in Points /\ Times[K][c] \in Points
    BY <2>4, TimesPoint
  <2> QED
    BY <2>1, <2>2, <2>3, <2>5
<1> DEFINE gi == Times[G][ui]
           qi == Times[Q][vi]
           gb == Times[G][ub]
           qb == Times[Q][vb]
<1>7. /\ Times[G][2 * ui + ub] = GroupAdd(GroupAdd(gi, gi), gb) /\ gi \in Points /\ gb \in Points
      /\ Times[Q][2 * vi + vb] = GroupAdd(GroupAdd(qi, qi), qb) /\ qi \in Points /\ qb \in Points
  <2>1. ui \in Nat /\ vi \in Nat
    BY <1>0, <1>1
  <2> QED
    BY <1>2, <1>5, <1>6, <2>1, LoopKey
<1>8. /\ Prefix(i) = GroupAdd(GroupAdd(GroupAdd(gi, gi), gb), GroupAdd(GroupAdd(qi, qi), qb))
      /\ Prefix(i + 1) = GroupAdd(gi, qi) /\ AddendByTheBook(i) = GroupAdd(gb, qb)
  BY <1>4, <1>7
<1> HIDE DEF gi, qi, gb, qb
<1>9. GroupAdd(gi, gi) \in Points /\ GroupAdd(qi, qi) \in Points
  BY <1>7, GroupAssumption
<1>10. Prefix(i) = GroupAdd(GroupAdd(GroupAdd(gi, gi), GroupAdd(qi, qi)), GroupAdd(gb, qb))
  BY <1>7, <1>8, <1>9, FourSum
<1>11. GroupAdd(GroupAdd(gi, gi), GroupAdd(qi, qi)) = GroupAdd(GroupAdd(gi, qi), GroupAdd(gi, qi))
  BY <1>7, FourSum
<1> QED
  BY <1>8, <1>10, <1>11

(* The table of the assembly holds what the two bits call for.              *)
LEMMA AddendIs ==
    ASSUME LoopState, Q[1] # gx, NEW i \in 0..(Bits - 1)
    PROVE  /\ Dibit(i) = 0 => AddendByTheBook(i) = Zero
           /\ Dibit(i) # 0 => Addend(i) = AddendByTheBook(i) /\ Addend(i) \in Curve
<1>1. Q \in Curve /\ Q[2] # 0 /\ G \in Curve
  BY LoopKey
<1>2. /\ Times[G][0] = Zero /\ Times[G][1] = G /\ Times[Q][0] = Zero /\ Times[Q][1] = Q
  BY <1>1, SmallTimes
<1>3. CASE Dibit(i) = 0
  BY <1>2, <1>3, DibitIs, NeutralIsZero DEF AddendByTheBook
<1>4. CASE Dibit(i) = 1
  <2>1. Addend(i) = G
    BY <1>4 DEF Addend
  <2>2. AddendByTheBook(i) = G
    BY <1>2, <1>4, DibitIs, NeutralIsZero DEF AddendByTheBook
  <2> QED
    BY <1>1, <1>4, <2>1, <2>2
<1>5. CASE Dibit(i) = 2
  <2>1. Addend(i) = Q
    BY <1>5 DEF Addend
  <2>2. AddendByTheBook(i) = Q
    BY <1>2, <1>5, DibitIs, NeutralIsZero DEF AddendByTheBook
  <2> QED
    BY <1>1, <1>5, <2>1, <2>2
<1>6. CASE Dibit(i) = 3
  <2>1. Addend(i) = ecAff_add(G, Q)
    BY <1>6 DEF Addend
  <2>2. AddendByTheBook(i) = GroupAdd(G, Q)
    BY <1>2, <1>6, DibitIs DEF AddendByTheBook
  <2> QED
    BY <1>1, <1>6, <2>1, <2>2, AffineAddIs
<1> QED
  BY <1>3, <1>4, <1>5, <1>6, DibitIs

LEMMA AddendResidues ==
    ASSUME LoopState, NEW i \in 0..(Bits - 1), Dibit(i) # 0
    PROVE  Addend(i) \in Residues \X Residues
<1>1. G \in Residues \X Residues /\ Q \in Residues \X Residues
  BY LoopKey, CurvePoint
<1>2. ecAff_add(G, Q) \in Residues \X Residues
  BY <1>1, AffineAddResidues
<1>3. Dibit(i) = 1 \/ Dibit(i) = 2 \/ Dibit(i) = 3
  BY DibitIs
<1> QED
  BY <1>1, <1>2, <1>3 DEF Addend

(* The loop starts at the highest bit that is set in either scalar. *)
LEMMA TopIndexIs ==
    ASSUME LoopState, ~(u = 0 /\ v = 0)
    PROVE  /\ TopIndex \in 0..(Bits - 1) /\ Dibit(TopIndex) # 0
           /\ \A j \in (TopIndex + 1)..(Bits - 1) : Dibit(j) = 0
           /\ u \div TwoTo[TopIndex + 1] = 0 /\ v \div TwoTo[TopIndex + 1] = 0
<1> DEFINE Gone(i) == u \div TwoTo[i] = 0 /\ v \div TwoTo[i] = 0
           All == {i \in 0..Bits : Gone(i)}
<1>0. Bits \in Nat /\ Bits \in 0..Bits /\ u \in Nat /\ v \in Nat /\ Bits # 0
  BY CurveAssumption DEF LoopState
<1>1. Bits \in All /\ 0 \notin All
  BY <1>0, QuotientEnds DEF LoopState
<1>2. PICK m \in All : \A k \in All : m <= k
  <2>1. All \in SUBSET Nat /\ All # {}
    BY <1>0, <1>1
  <2> HIDE DEF All
  <2> QED
    BY <2>1, SmallestElement
<1> DEFINE t == m - 1
<1>3. t \in 0..(Bits - 1) /\ t + 1 = m /\ t \in 0..Bits /\ ~Gone(t) /\ Gone(m)
  BY <1>0, <1>1, <1>2
<1>4. Dibit(t) # 0
  <2> SUFFICES ASSUME Dibit(t) = 0 PROVE FALSE
    OBVIOUS
  <2>1. Bit(u, t) = 0 /\ Bit(v, t) = 0
    BY <1>3, DibitIs
  <2>2. u \div TwoTo[t] = 2 * (u \div TwoTo[t + 1]) + Bit(u, t)
    BY <1>0, <1>3, BitIs
  <2>3. v \div TwoTo[t] = 2 * (v \div TwoTo[t + 1]) + Bit(v, t)
    BY <1>0, <1>3, BitIs
  <2> HIDE DEF t
  <2> QED
    BY <1>3, <2>1, <2>2, <2>3
(* A quotient that is 0 stays 0. *)
<1>5. ASSUME NEW i \in 0..(Bits - 1), Gone(i) PROVE Gone(i + 1) /\ Dibit(i) = 0
  <2>1. i + 1 \in 0..Bits
    BY <1>0
  <2>2. /\ Bit(u, i) \in {0, 1} /\ u \div TwoTo[i] = 2 * (u \div TwoTo[i + 1]) + Bit(u, i)
        /\ Bit(v, i) \in {0, 1} /\ v \div TwoTo[i] = 2 * (v \div TwoTo[i + 1]) + Bit(v, i)
    BY <1>0, BitIs
  <2>3. u \div TwoTo[i + 1] \in 0..(n - 1) /\ v \div TwoTo[i + 1] \in 0..(n - 1)
    BY <2>1, QuotientSmall DEF LoopState
  <2>4. /\ u \div TwoTo[i + 1] = 0 /\ Bit(u, i) = 0
        /\ v \div TwoTo[i + 1] = 0 /\ Bit(v, i) = 0
    BY <1>5, <2>2, <2>3, CurveAssumption
  <2> QED
    BY <2>4, DibitIs
<1>6. \A j \in m..Bits : Gone(j)
  <2> DEFINE Rest == {k \in Nat : m + k <= Bits => Gone(m + k)}
  <2>1. 0 \in Rest
    BY <1>0, <1>3
  <2>2. ASSUME NEW k \in 0..(Bits - 1), k \in Rest PROVE k + 1 \in Rest
    <3> SUFFICES ASSUME m + (k + 1) <= Bits PROVE Gone(m + (k + 1))
      OBVIOUS
    <3>1. m + k \in 0..(Bits - 1) /\ m + (k + 1) = (m + k) + 1 /\ Gone(m + k)
      BY <1>0, <1>2, <2>2
    <3> QED
      BY <1>5, <3>1
  <2> HIDE DEF Rest
  <2>3. \A k \in 0..Bits : k \in Rest
    BY <1>0, <2>1, <2>2, SetInduction
  <2> HIDE DEF Gone
  <2>4. ASSUME NEW j \in m..Bits PROVE Gone(j)
    <3>1. j - m \in 0..Bits /\ m + (j - m) = j /\ m + (j - m) <= Bits
      BY <1>0, <1>2
    <3>2. j - m \in Rest
      BY <2>3, <3>1
    <3> QED
      BY <3>1, <3>2 DEF Rest
  <2> QED
    BY <2>4
<1>7. \A j \in (t + 1)..(Bits - 1) : Dibit(j) = 0
  <2> SUFFICES ASSUME NEW j \in (t + 1)..(Bits - 1) PROVE Dibit(j) = 0
    OBVIOUS
  <2>1. j \in m..Bits /\ j \in 0..(Bits - 1)
    BY <1>0, <1>3
  <2> HIDE DEF Gone
  <2> QED
    BY <1>5, <1>6, <2>1
<1> DEFINE Top(i) == Dibit(i) # 0 /\ \A j \in (i + 1)..(Bits - 1) : Dibit(j) = 0
<1>8. Top(t)
  BY <1>4, <1>7
<1>9. TopIndex = CHOOSE i \in 0..(Bits - 1) : Top(i)
  BY DEF TopIndex
<1>10. TopIndex \in 0..(Bits - 1) /\ Top(TopIndex)
  <2> HIDE DEF Top, t
  <2> QED
    BY <1>3, <1>8, <1>9
<1>11. TopIndex = t
  <2> HIDE DEF t
  <2>1. \A i, j \in 0..(Bits - 1) : Top(i) /\ Top(j) => ~(i < j)
    BY <1>0
  <2> HIDE DEF Top
  <2> QED
    BY <1>0, <1>3, <1>8, <1>10, <2>1
<1> HIDE DEF t
<1> QED
  BY <1>3, <1>10, <1>11

(* The bits start with the addend of the first set bit.                     *)
LEMMA PrefixEnds ==
    ASSUME LoopState
    PROVE  /\ u = 0 /\ v = 0 => Prefix(0) = Zero
           /\ Q[1] # gx /\ ~(u = 0 /\ v = 0) =>
                Prefix(TopIndex) = Addend(TopIndex) /\ Addend(TopIndex) \in Curve
<1>1. \A i : u \div TwoTo[i] = 0 /\ v \div TwoTo[i] = 0 => Prefix(i) = Zero
  <2>1. Times[G][0] = Zero /\ Times[Q][0] = Zero
    BY LoopKey, SmallTimes
  <2> QED
    BY <2>1, NeutralIsZero DEF Prefix
<1>2. ASSUME u = 0, v = 0 PROVE Prefix(0) = Zero
  <2>1. u \div TwoTo[0] = u /\ v \div TwoTo[0] = v
    BY QuotientEnds DEF LoopState
  <2> QED
    BY <1>1, <1>2, <2>1
<1>3. ASSUME Q[1] # gx, ~(u = 0 /\ v = 0)
      PROVE  Prefix(TopIndex) = Addend(TopIndex) /\ Addend(TopIndex) \in Curve
  <2> DEFINE t == TopIndex
  <2>1. t \in 0..(Bits - 1) /\ Dibit(t) # 0 /\ Prefix(t + 1) = Zero
    BY <1>1, <1>3, TopIndexIs
  <2> HIDE DEF t
  <2>2. Addend(t) = AddendByTheBook(t) /\ Addend(t) \in Curve
    BY <1>3, <2>1, AddendIs
  <2>3. Prefix(t) = Addend(t)
    BY <2>1, <2>2, PrefixStep, NeutralIsZero
  <2> QED
    BY <2>2, <2>3 DEF t
<1> QED
  BY <1>2, <1>3

---------------------------------------------------------------------------
(* The invariant.                                                          *)

SecpTypes ==
    /\ request \in Requests
    /\ pc \in {"call", "message", "first", "loop", "done"}
    /\ u \in 0..(n - 1) /\ v \in 0..(n - 1)
    /\ index \in -1..(Bits - 2) /\ acc \in Quads
    /\ result \in {"none", "valid", "invalid", "revert"}
    /\ pc # "done" => result = "none"

(* Inside the loop the key is on the curve, r and s are in range, and the   *)
(* scalars are hash/s and r/s.                                              *)
Quotients ==
    /\ u = (request.hash * FCL_nModInv(request.s)) % n
    /\ v = (request.r * FCL_nModInv(request.s)) % n
LoopEntered == pc \in {"first", "loop"} => LoopState /\ InRange(request) /\ Quotients

(* The accumulator, before each bit; after the last, its abscissa. *)
LoopSound ==
    /\ \A i \in -1..(Bits - 2) :
          pc = "loop" /\ index = i /\ ~Excepted(i) => Represents(acc, Prefix(i + 1))
    /\ pc = "loop" /\ index = -1 /\ ~Excepted(0) => HasAbscissa(acc, Prefix(0))

SecpInv == SecpTypes /\ LoopEntered /\ LoopSound /\ VerifiesByTheBook

LEMMA RequestIs ==
    ASSUME request \in Requests
    PROVE  /\ request.key \in Words \X Words
           /\ request.hash \in Nat /\ request.r \in Nat /\ request.s \in Nat
BY RequestAssumption

(* What depends on the arguments and the scalars only. *)
LEMMA SameScalars ==
    ASSUME request' = request, u' = u, v' = v
    PROVE  /\ Q' = Q /\ (InRange(request)' <=> InRange(request))
           /\ (LoopState' <=> LoopState) /\ (Quotients' <=> Quotients)
           /\ \A i : Prefix(i)' = Prefix(i)
           /\ \A i : Excepted(i)' <=> Excepted(i)
           /\ (ValidByTheBook' <=> ValidByTheBook)
<1>1. Q' = Q
  BY DEF Q
<1>2. InRange(request)' <=> InRange(request)
  BY DEF InRange
<1>3. (LoopState' <=> LoopState) /\ (Quotients' <=> Quotients)
  BY DEF LoopState, ecAff_isOnCurve, Quotients
<1>4. \A i : Prefix(i)' = Prefix(i)
  BY <1>1 DEF Prefix
<1>5. \A i : AddendByTheBook(i)' = AddendByTheBook(i) /\ Dibit(i)' = Dibit(i)
  BY <1>1 DEF AddendByTheBook, Dibit
<1>6. \A i : Excepted(i)' <=> Excepted(i)
  BY <1>1, <1>4, <1>5 DEF Excepted
<1>7. ValidByTheBook' <=> ValidByTheBook
  BY <1>1 DEF ValidByTheBook
<1> QED
  BY <1>1, <1>2, <1>3, <1>4, <1>6, <1>7

LEMMA ZeroQuads == <<0, 0, 0, 0>> \in Quads /\ \A P \in Quads : P[3] \in Residues
BY QuadsAreInts, CurveAssumption DEF Quads, Residues

LEMMA InitSound == Init => SecpInv
<1> SUFFICES ASSUME Init PROVE SecpInv
  OBVIOUS
<1>1. SecpTypes
  BY ZeroQuads, CurveAssumption DEF Init, SecpTypes
<1>2. LoopEntered /\ LoopSound /\ VerifiesByTheBook
  BY DEF Init, LoopEntered, LoopSound, VerifiesByTheBook
<1> QED
  BY <1>1, <1>2 DEF SecpInv

(* A turn of the loop. *)
LEMMA TurnQuads ==
    ASSUME LoopState, NEW P \in Quads, NEW i \in 0..(Bits - 1)
    PROVE  NextAccumulator(P, i) \in Quads
<1> DEFINE D == ecZZ_Dbl(P)
           T == Addend(i)
<1>1. D \in Quads
  BY DoubledQuads
<1>2. CASE Dibit(i) = 0
  BY <1>1, <1>2 DEF NextAccumulator
<1>3. CASE Dibit(i) # 0
  <2>1. T \in Residues \X Residues
    BY <1>3, AddendResidues
  <2>2. NextAccumulator(P, i) = Accumulate(D, T)
    BY <1>3 DEF NextAccumulator
  <2> HIDE DEF D, T
  <2>3. ecAff_SetZZ(T) \in Quads
    BY <2>1, CurveAssumption DEF ecAff_SetZZ, Quads, Residues
  <2>4. Accumulate(D, T) \in Quads
    BY <1>1, <2>1, <2>3, AddedQuads, DoubledQuads DEF Accumulate
  <2> QED
    BY <2>2, <2>4
<1> QED
  BY <1>2, <1>3

LEMMA TurnSound ==
    ASSUME LoopState, Q[1] # gx, NEW i \in 0..(Bits - 1), NEW P, Represents(P, Prefix(i + 1))
    PROVE  /\ HasAbscissa(NextAccumulator(P, i), Prefix(i))
           /\ \/ Represents(NextAccumulator(P, i), Prefix(i))
              \/ /\ Dibit(i) # 0 /\ Prefix(i + 1) # Zero
                 /\ GroupAdd(Prefix(i + 1), Prefix(i + 1)) = AddendByTheBook(i)
<1> DEFINE D == ecZZ_Dbl(P)
           A == Prefix(i + 1)
           T == AddendByTheBook(i)
           AA == GroupAdd(A, A)
           N == NextAccumulator(P, i)
<1>1. i + 1 \in 0..Bits /\ A \in Points
  BY PrefixPoint, CurveAssumption
<1>2. Represents(D, AA) /\ AA \in Points
  BY <1>1, DoubleRepresents, GroupAssumption
<1>3. Prefix(i) = GroupAdd(AA, T)
  BY PrefixStep
<1>4. N = IF Dibit(i) = 0 THEN D ELSE Accumulate(D, Addend(i))
  BY DEF NextAccumulator
<1>5. Represents(N, Prefix(i)) => HasAbscissa(N, Prefix(i))
  BY RepresentsAbscissa
<1>6. CASE Dibit(i) = 0
  <2>1. T = Zero /\ N = D
    BY <1>4, <1>6, AddendIs
  <2>2. Prefix(i) = AA
    BY <1>3, <2>1, NeutralIsZero
  <2> QED
    BY <1>2, <1>5, <2>1, <2>2
<1>7. CASE Dibit(i) # 0
  <2>1. Addend(i) = T /\ T \in Curve /\ T # Zero
    BY <1>7, AddendIs, CurvePoint
  <2>2. N = Accumulate(D, T)
    BY <1>4, <1>7, <2>1
  <2>3. CASE AA = T
    <3>1. HasAbscissa(N, GroupAdd(T, T))
      BY <1>2, <2>1, <2>2, <2>3, AccumulateSame
    <3>2. Prefix(i) = GroupAdd(T, T)
      BY <1>3, <2>3
    <3>3. A # Zero
      BY <2>1, <2>3, NeutralIsZero
    <3> QED
      BY <1>7, <2>3, <3>1, <3>2, <3>3
  <2>4. CASE AA # T
    <3>1. Represents(N, GroupAdd(AA, T))
      <4> HIDE DEF AA, T, D
      <4> QED
        BY <1>2, <2>1, <2>2, <2>4, AccumulateRepresents
    <3> QED
      BY <1>3, <1>5, <3>1
  <2> QED
    BY <2>3, <2>4
<1> QED
  BY <1>6, <1>7

(* The comparison at the end. *)
LEMMA ResidueCompare ==
    ASSUME NEW x \in Nat, NEW r \in 1..(n - 1)
    PROVE  (x - r) % n = 0 <=> x % n = r
<1> DEFINE q == x \div n
           s == x % n
           w == (x - r) \div n
           t == (x - r) % n
<1>1. n \in Nat /\ n > 1
  BY CurveAssumption
<1>2. q \in Int /\ s \in 0..(n - 1) /\ x = n * q + s
  BY <1>1
<1>3. x - r \in Int /\ w \in Int /\ t \in 0..(n - 1) /\ x - r = n * w + t
  BY <1>1
<1> HIDE DEF q, s, w, t
<1>4. ASSUME t = 0 PROVE s = r
  <2>1. n * q + s = n * w + r
    BY <1>1, <1>2, <1>3, <1>4
  <2>2. n * (q - w) = r - s
    BY <1>1, <1>2, <1>3, <2>1
  <2> DEFINE d == q - w
  <2>3. d \in Int /\ n * d = r - s
    BY <1>2, <1>3, <2>2
  <2> HIDE DEF d
  <2>4. ~(d >= 1)
    <3> SUFFICES ASSUME d >= 1 PROVE FALSE
      OBVIOUS
    <3>1. n * d >= n
      BY <1>1, <2>3
    <3> QED
      BY <1>1, <1>2, <2>3, <3>1
  <2>5. ~(d <= -1)
    <3> SUFFICES ASSUME d <= -1 PROVE FALSE
      OBVIOUS
    <3>1. n * d <= -n
      BY <1>1, <2>3
    <3> QED
      BY <1>1, <1>2, <2>3, <3>1
  <2>6. d = 0
    BY <2>3, <2>4, <2>5
  <2>7. n * 0 = 0
    BY <1>1
  <2> QED
    BY <1>2, <2>3, <2>6, <2>7
<1>5. ASSUME s = r PROVE t = 0
  <2>1. x - r = n * q
    BY <1>1, <1>2, <1>5
  <2>2. n * (w - q) = -t
    BY <1>1, <1>2, <1>3, <2>1
  <2> DEFINE d == w - q
  <2>3. d \in Int /\ n * d = -t
    BY <1>2, <1>3, <2>2
  <2> HIDE DEF d
  <2>4. ~(d >= 1)
    <3> SUFFICES ASSUME d >= 1 PROVE FALSE
      OBVIOUS
    <3>1. n * d >= n
      BY <1>1, <2>3
    <3> QED
      BY <1>1, <1>3, <2>3, <3>1
  <2>5. ~(d <= -1)
    <3> SUFFICES ASSUME d <= -1 PROVE FALSE
      OBVIOUS
    <3>1. n * d <= -n
      BY <1>1, <2>3
    <3> QED
      BY <1>1, <1>3, <2>3, <3>1
  <2>6. d = 0
    BY <2>3, <2>4, <2>5
  <2>7. n * 0 = 0
    BY <1>1
  <2> QED
    BY <1>3, <2>3, <2>6, <2>7
<1> QED
  BY <1>4, <1>5 DEF s, t

LEMMA PointAbscissa ==
    ASSUME NEW A \in Points
    PROVE  A[1] \in Nat /\ (A = Zero => A[1] = 0)
<1>1. CASE A = Zero
  BY <1>1 DEF Zero
<1>2. CASE A # Zero
  <2>1. A \in Curve
    BY <1>2 DEF Points
  <2> QED
    BY <1>2, <2>1, CurvePoint, CurveAssumption DEF Residues
<1> QED
  BY <1>1, <1>2

(* The inverse that the code computes is the only one. *)
LEMMA OnlyInverse ==
    ASSUME NEW s \in 1..(n - 1), NEW w \in 0..(n - 1), (s * w) % n = 1
    PROVE  w = FCL_nModInv(s)
<1> DEFINE i == FCL_nModInv(s)
           c == (s * w) \div n
           d == (s * i) \div n
<1>1. n \in Nat /\ n > 1 /\ s \in Nat /\ w \in Nat /\ w < n
  BY CurveAssumption
<1>2. i \in 0..(n - 1) /\ i \in Nat /\ (s * i) % n = 1
  BY <1>1, InverseRange, OrderAssumption
<1> HIDE DEF i
<1>3. c \in Int /\ s * w = n * c + 1
  <2> DEFINE t == s * w
  <2>1. t \in Int /\ t % n = 1
    BY <1>1
  <2> HIDE DEF t
  <2>2. t \div n \in Int /\ t = n * (t \div n) + 1
    BY <1>1, <2>1
  <2> QED
    BY <2>2 DEF t
<1>4. d \in Int /\ s * i = n * d + 1
  <2> DEFINE t == s * i
  <2>1. t \in Int /\ t % n = 1
    BY <1>1, <1>2
  <2> HIDE DEF t
  <2>2. t \div n \in Int /\ t = n * (t \div n) + 1
    BY <1>1, <2>1
  <2> QED
    BY <2>2 DEF t
<1> HIDE DEF c, d
<1>5. w - i = n * (c * i - d * w)
  <2>1. w * (s * i) = i * (s * w)
    BY <1>1, <1>2
  <2>2. w * (n * d + 1) = i * (n * c + 1)
    BY <1>3, <1>4, <2>1
  <2>3. w * (n * d + 1) = n * (d * w) + w
    BY <1>1, <1>4
  <2>4. i * (n * c + 1) = n * (c * i) + i
    BY <1>1, <1>2, <1>3
  <2>5. n * (c * i - d * w) = n * (c * i) - n * (d * w)
    BY <1>1, <1>2, <1>3, <1>4
  <2> DEFINE cc == n * (c * i)
             dd == n * (d * w)
  <2>6. cc \in Int /\ dd \in Int
    BY <1>1, <1>2, <1>3, <1>4
  <2> HIDE DEF cc, dd
  <2>7. dd + w = cc + i
    BY <2>2, <2>3, <2>4 DEF cc, dd
  <2>8. w - i = cc - dd
    BY <1>1, <1>2, <2>6, <2>7
  <2> QED
    BY <2>5, <2>8 DEF cc, dd
<1> DEFINE k == c * i - d * w
<1>6. k \in Int /\ w - i = n * k
  BY <1>1, <1>2, <1>3, <1>4, <1>5
<1> HIDE DEF k
<1>7. k = 0
  <2>1. k < 1
    <3> SUFFICES ASSUME k >= 1 PROVE FALSE
      BY <1>6
    <3>1. n * k >= n
      BY <1>1, <1>6
    <3> QED
      BY <1>1, <1>2, <1>6, <3>1
  <2>2. k > -1
    <3> SUFFICES ASSUME k <= -1 PROVE FALSE
      BY <1>6
    <3>1. n * k <= -n
      BY <1>1, <1>6
    <3> QED
      BY <1>1, <1>2, <1>6, <3>1
  <2> QED
    BY <1>6, <2>1, <2>2
<1> QED
  BY <1>1, <1>2, <1>6, <1>7 DEF i

(* hash/s and r/s are what the loop runs with. *)
LEMMA BookIs ==
    ASSUME LoopState, InRange(request), Quotients, request \in Requests
    PROVE  ValidByTheBook <=> Prefix(0) # Zero /\ Prefix(0)[1] % n = request.r
<1> DEFINE i == FCL_nModInv(request.s)
           R(w) == GroupAdd(Times[G][(request.hash * w) % n], Times[Q][(request.r * w) % n])
<1>1. /\ request.r \in 1..(n - 1) /\ request.s \in 1..(n - 1) /\ n \in Nat /\ n > 1
      /\ request.r \in Nat /\ request.s \in Nat
  BY RequestIs, CurveAssumption DEF InRange
<1>2. i \in 0..(n - 1) /\ (request.s * i) % n = 1
  BY <1>1, InverseRange, OrderAssumption
<1>3. R(i) = Prefix(0)
  <2>1. u \div TwoTo[0] = u /\ v \div TwoTo[0] = v
    BY QuotientEnds DEF LoopState
  <2> QED
    BY <2>1 DEF Prefix, Quotients
<1>4. i # 0
  <2> SUFFICES ASSUME i = 0 PROVE FALSE
    OBVIOUS
  <2>1. request.s * i = 0 /\ 0 % n = 0
    BY <1>1
  <2> QED
    BY <1>2, <2>1
<1>5. i \in 1..(n - 1)
  BY <1>2, <1>4
<1>6. \A w \in 1..(n - 1) : (request.s * w) % n = 1 => w = i
  <2> SUFFICES ASSUME NEW w \in 1..(n - 1), (request.s * w) % n = 1 PROVE w = i
    OBVIOUS
  <2>1. w \in 0..(n - 1)
    OBVIOUS
  <2> QED
    BY <1>1, <2>1, OnlyInverse
<1> DEFINE Good(A) == A # Zero /\ A[1] % n = request.r
<1>7. ValidByTheBook <=>
         /\ Q \in Curve /\ request.r > 0 /\ request.r < n /\ request.s > 0 /\ request.s < n
         /\ \E w \in 1..(n - 1) : (request.s * w) % n = 1 /\ Good(R(w))
  BY DEF ValidByTheBook
<1>8. /\ Q \in Curve /\ request.r > 0 /\ request.r < n /\ request.s > 0 /\ request.s < n
  BY <1>1, LoopKey
<1> HIDE DEF i, R, Good
<1>9. (\E w \in 1..(n - 1) : (request.s * w) % n = 1 /\ Good(R(w))) <=> Good(R(i))
  BY <1>2, <1>5, <1>6
<1> QED
  BY <1>3, <1>7, <1>8, <1>9 DEF Good

LEMMA CompareSound ==
    ASSUME LoopState, InRange(request), Quotients, request \in Requests,
           HasAbscissa(acc, Prefix(0))
    PROVE  (Abscissa - request.r) % n = 0 <=> ValidByTheBook
<1>1. Prefix(0) \in Points
  BY PrefixPoint, CurveAssumption
<1>2. Abscissa = Prefix(0)[1]
  BY <1>1, AbscissaIs DEF Abscissa
<1>3. request.r \in 1..(n - 1)
  BY DEF InRange
<1>4. Prefix(0)[1] \in Nat /\ (Prefix(0) = Zero => Prefix(0)[1] = 0)
  BY <1>1, PointAbscissa
<1>5. (Abscissa - request.r) % n = 0 <=> Prefix(0)[1] % n = request.r
  BY <1>2, <1>3, <1>4, ResidueCompare
<1>6. 0 % n = 0
  BY CurveAssumption
<1> QED
  BY <1>3, <1>4, <1>5, <1>6, BookIs

(* Every step keeps the invariant. *)
LEMMA ReturnTypes ==
    ASSUME SecpTypes, NEW res \in {"valid", "invalid", "revert"}, Return(res), u' = u, v' = v
    PROVE  SecpTypes'
BY DEF SecpTypes, Return

LEMMA StepTypes == SecpInv /\ Next => SecpTypes'
<1> SUFFICES ASSUME SecpInv, Next PROVE SecpTypes'
  OBVIOUS
<1>1. SecpTypes /\ LoopEntered
  BY DEF SecpInv
<1>2. CASE GenerateMessage
  <2>1. CASE MessageAccepted(request)
    BY <1>1, <1>2, <2>1 DEF GenerateMessage, SecpTypes
  <2>2. CASE ~MessageAccepted(request)
    BY <1>1, <1>2, <2>2, ReturnTypes DEF GenerateMessage
  <2> QED
    BY <2>1, <2>2
<1>3. CASE Reject
  BY <1>1, <1>3, ReturnTypes DEF Reject
<1>4. CASE Scalars
  <2> DEFINE i == FCL_nModInv(request.s)
  <2>1. request.s \in Nat /\ request.hash \in Nat /\ request.r \in Nat
    BY <1>1, RequestIs DEF SecpTypes
  <2>2. i \in Nat
    BY <2>1, InverseRange
  <2>3. u' = (request.hash * i) % n /\ v' = (request.r * i) % n
    BY <1>4 DEF Scalars
  <2> HIDE DEF i
  <2> DEFINE e == request.hash * i
             f == request.r * i
  <2>4. e \in Int /\ f \in Int
    BY <2>1, <2>2
  <2>5. u' = e % n /\ v' = f % n
    BY <2>3
  <2> HIDE DEF e, f
  <2>6. u' \in 0..(n - 1) /\ v' \in 0..(n - 1)
    BY <2>4, <2>5, CurveAssumption
  <2> QED
    BY <1>1, <1>4, <2>6 DEF Scalars, SecpTypes
<1>5. CASE FirstBit
  <2>1. LoopState
    BY <1>1, <1>5 DEF FirstBit, LoopEntered
  <2>2. acc' \in Quads /\ index' \in -1..(Bits - 2)
    <3>1. CASE u = 0 /\ v = 0
      BY <1>5, <3>1, ZeroQuads, CurveAssumption DEF FirstBit
    <3>2. CASE ~(u = 0 /\ v = 0)
      <4>1. TopIndex \in 0..(Bits - 1) /\ Dibit(TopIndex) # 0
        BY <2>1, <3>2, TopIndexIs
      <4>2. Addend(TopIndex) \in Residues \X Residues
        BY <2>1, <4>1, AddendResidues
      <4>3. ecAff_SetZZ(Addend(TopIndex)) \in Quads
        BY <4>2, CurveAssumption DEF ecAff_SetZZ, Quads, Residues
      <4>4. acc' = ecAff_SetZZ(Addend(TopIndex)) /\ index' = TopIndex - 1
        BY <1>5, <3>2 DEF FirstBit
      <4> QED
        BY <4>1, <4>3, <4>4, CurveAssumption
    <3> QED
      BY <3>1, <3>2
  <2> QED
    BY <1>1, <1>5, <2>2 DEF FirstBit, SecpTypes
<1>6. CASE NextBit
  <2>1. LoopState
    BY <1>1, <1>6 DEF NextBit, LoopEntered
  <2>2. index \in 0..(Bits - 1) /\ acc \in Quads
    BY <1>1, <1>6, CurveAssumption DEF NextBit, SecpTypes
  <2>3. acc' \in Quads
    BY <1>6, <2>1, <2>2, TurnQuads DEF NextBit
  <2>4. index' \in -1..(Bits - 2)
    BY <1>1, <1>6, CurveAssumption DEF NextBit, SecpTypes
  <2> QED
    BY <1>1, <1>6, <2>3, <2>4 DEF NextBit, SecpTypes
<1>7. CASE Compare
  BY <1>1, <1>7, ReturnTypes DEF Compare
<1> QED
  BY <1>2, <1>3, <1>4, <1>5, <1>6, <1>7 DEF Next

LEMMA StepEntered == SecpInv /\ Next => LoopEntered'
<1> SUFFICES ASSUME SecpInv, Next, pc' \in {"first", "loop"} PROVE LoopState' /\ InRange(request)' /\ Quotients'
  BY DEF LoopEntered
<1>1. SecpTypes /\ LoopEntered /\ SecpTypes'
  BY StepTypes DEF SecpInv
<1>2. CASE Scalars
  <2>1. request.key \in Words \X Words
    BY <1>1, RequestIs DEF SecpTypes
  <2>2. ecAff_isOnCurve(request.key) /\ InRange(request) /\ request' = request
    BY <1>2 DEF Scalars
  <2>3. ecAff_isOnCurve(request.key)' /\ InRange(request)'
    BY <2>2 DEF ecAff_isOnCurve, InRange
  <2>4. Quotients'
    BY <1>2 DEF Scalars, Quotients
  <2> QED
    BY <1>1, <2>1, <2>2, <2>3, <2>4 DEF SecpTypes, LoopState
<1>3. CASE FirstBit \/ NextBit
  <2>1. LoopState /\ InRange(request) /\ Quotients /\ request' = request /\ u' = u /\ v' = v
    BY <1>1, <1>3 DEF FirstBit, NextBit, LoopEntered
  <2> QED
    BY <2>1, SameScalars
<1>4. CASE GenerateMessage \/ Reject \/ Compare
  BY <1>4 DEF GenerateMessage, Reject, Compare, Return
<1> QED
  BY <1>2, <1>3, <1>4 DEF Next

LEMMA StepSound == SecpInv /\ Next => LoopSound'
<1> SUFFICES ASSUME SecpInv, Next PROVE LoopSound'
  OBVIOUS
<1>1. SecpTypes /\ LoopEntered /\ LoopSound
  BY DEF SecpInv
<1>2. CASE GenerateMessage \/ Reject \/ Scalars \/ Compare
  <2>1. pc' # "loop"
    BY <1>2 DEF GenerateMessage, Reject, Scalars, Compare, Return
  <2> QED
    BY <2>1 DEF LoopSound
<1>3. CASE FirstBit
  <2>1. LoopState /\ request' = request /\ u' = u /\ v' = v
    BY <1>1, <1>3 DEF FirstBit, LoopEntered
  <2>2. ASSUME Q[1] # gx PROVE Represents(acc', Prefix(index' + 1))
    <3>1. CASE u = 0 /\ v = 0
      <4>1. Prefix(0) = Zero /\ acc' = <<0, 0, 0, 0>> /\ index' + 1 = 0
        BY <1>3, <2>1, <3>1, PrefixEnds DEF FirstBit
      <4>2. acc' \in Quads /\ acc'[3] = 0
        BY <4>1, ZeroQuads
      <4> QED
        BY <4>1, <4>2 DEF Represents
    <3>2. CASE ~(u = 0 /\ v = 0)
      <4>1. Prefix(TopIndex) = Addend(TopIndex) /\ Addend(TopIndex) \in Curve
        BY <2>1, <2>2, <3>2, PrefixEnds
      <4>2. TopIndex \in Int
        BY <2>1, <3>2, TopIndexIs
      <4>3. acc' = ecAff_SetZZ(Addend(TopIndex)) /\ index' = TopIndex - 1
        BY <1>3, <3>2 DEF FirstBit
      <4>4. index' + 1 = TopIndex
        BY <4>2, <4>3
      <4> QED
        BY <4>1, <4>3, <4>4, SetRepresents
    <3> QED
      BY <3>1, <3>2
  <2>3. \A i : ~Excepted(i) => Q[1] # gx
    BY DEF Excepted
  <2>4. \A i \in -1..(Bits - 2) :
           index' = i /\ ~Excepted(i) => Represents(acc', Prefix(i + 1))
    BY <2>2, <2>3
  <2>5. index' = -1 /\ ~Excepted(0) => HasAbscissa(acc', Prefix(0))
    <3> SUFFICES ASSUME index' = -1, ~Excepted(0) PROVE HasAbscissa(acc', Prefix(0))
      OBVIOUS
    <3>1. Represents(acc', Prefix(index' + 1)) /\ index' + 1 = 0
      BY <2>2, <2>3
    <3> QED
      BY <3>1, RepresentsAbscissa
  <2> QED
    BY <2>1, <2>4, <2>5, SameScalars DEF LoopSound
<1>4. CASE NextBit
  <2>1. LoopState /\ request' = request /\ u' = u /\ v' = v /\ pc = "loop"
    BY <1>1, <1>4 DEF NextBit, LoopEntered
  <2> DEFINE k == index
  <2>2. k \in 0..(Bits - 2) /\ k \in 0..(Bits - 1) /\ k \in -1..(Bits - 2) /\ index' = k - 1
        /\ acc' = NextAccumulator(acc, k) /\ k = index
    BY <1>1, <1>4, CurveAssumption DEF NextBit, SecpTypes
  <2> HIDE DEF k
  <2>3. ~Excepted(k) => Represents(acc, Prefix(k + 1)) /\ Q[1] # gx
    BY <1>1, <2>1, <2>2 DEF LoopSound, Excepted
  <2>4. ~Excepted(k) => HasAbscissa(acc', Prefix(k))
    BY <2>1, <2>2, <2>3, TurnSound
  <2>5. ~Excepted(k - 1) => Represents(acc', Prefix(k))
    <3> SUFFICES ASSUME ~Excepted(k - 1) PROVE Represents(acc', Prefix(k))
      OBVIOUS
    <3>1. k \in ((k - 1) + 1)..(Bits - 2)
      BY <2>2, CurveAssumption
    <3>2. \A j \in (k + 1)..(Bits - 2) : j \in ((k - 1) + 1)..(Bits - 2)
      BY <2>2, CurveAssumption
    <3>3. ~Excepted(k)
      BY <3>2 DEF Excepted
    <3>4. ~(/\ Dibit(k) # 0 /\ Prefix(k + 1) # Zero
            /\ GroupAdd(Prefix(k + 1), Prefix(k + 1)) = AddendByTheBook(k))
      BY <3>1 DEF Excepted
    <3> QED
      BY <2>1, <2>2, <2>3, <3>3, <3>4, TurnSound
  <2>6. \A i \in -1..(Bits - 2) :
           index' = i /\ ~Excepted(i) => Represents(acc', Prefix(i + 1))
    <3> SUFFICES ASSUME NEW i \in -1..(Bits - 2), index' = i, ~Excepted(i)
                 PROVE  Represents(acc', Prefix(i + 1))
      OBVIOUS
    <3>1. i = k - 1 /\ i + 1 = k
      BY <2>2
    <3> QED
      BY <2>5, <3>1
  <2>7. index' = -1 /\ ~Excepted(0) => HasAbscissa(acc', Prefix(0))
    <3> SUFFICES ASSUME index' = -1, ~Excepted(0) PROVE HasAbscissa(acc', Prefix(0))
      OBVIOUS
    <3>1. k = 0
      BY <2>2
    <3> QED
      BY <2>4, <3>1
  <2> QED
    BY <2>1, <2>6, <2>7, SameScalars DEF LoopSound
<1> QED
  BY <1>2, <1>3, <1>4 DEF Next

LEMMA StepVerifies == SecpInv /\ Next => VerifiesByTheBook'
<1> SUFFICES ASSUME SecpInv, Next PROVE VerifiesByTheBook'
  OBVIOUS
<1>1. SecpTypes /\ LoopEntered /\ LoopSound /\ VerifiesByTheBook /\ SecpTypes'
  BY StepTypes DEF SecpInv
<1>2. CASE pc' # "done"
  <2>1. result' = "none"
    BY <1>1, <1>2 DEF SecpTypes
  <2> QED
    BY <1>2, <2>1 DEF VerifiesByTheBook
<1>3. CASE result' = "revert"
  BY <1>3 DEF VerifiesByTheBook
<1>4. CASE Reject
  <2>1. request' = request /\ u' = u /\ v' = v /\ result' = "invalid"
    BY <1>4 DEF Reject, Return
  <2>2. ~InRange(request) \/ ~ecAff_isOnCurve(request.key)
    BY <1>4 DEF Reject
  <2>3. 0 \notin {Q'[1], Q'[2]} => ~ValidByTheBook'
    <3>1. request \in Requests
      BY <1>1 DEF SecpTypes
    <3>2. /\ request.key \in Words \X Words
          /\ request.r \in Nat /\ request.s \in Nat /\ n \in Nat
      BY <3>1, RequestIs, CurveAssumption
    <3>3. ValidByTheBook => InRange(request)
      BY <3>2 DEF ValidByTheBook, InRange
    <3>4. ValidByTheBook /\ Q[1] # 0 /\ Q[2] # 0 => ecAff_isOnCurve(request.key)
      BY <3>2, KeyOnCurve DEF ValidByTheBook, Q
    <3> QED
      BY <2>1, <2>2, <3>3, <3>4, SameScalars
  <2> QED
    BY <2>1, <2>3 DEF VerifiesByTheBook
<1>5. CASE Compare
  <2>1. /\ request' = request /\ u' = u /\ v' = v /\ pc = "loop" /\ index = -1
        /\ result' = IF (Abscissa - request.r) % n = 0 THEN "valid" ELSE "invalid"
    BY <1>5 DEF Compare, Return
  <2>2. LoopState /\ InRange(request) /\ Quotients /\ request \in Requests
    BY <1>1, <2>1 DEF LoopEntered, SecpTypes
  <2>4. ASSUME ~Excepted(0) PROVE result' = "valid" <=> ValidByTheBook
    <3>1. HasAbscissa(acc, Prefix(0))
      BY <1>1, <2>1, <2>4 DEF LoopSound
    <3> QED
      BY <2>1, <2>2, <3>1, CompareSound
  <2>5. ~Excepted(0)' => (result' = "valid" <=> ValidByTheBook')
    BY <2>1, <2>4, SameScalars
  <2> QED
    BY <2>5 DEF VerifiesByTheBook
<1>6. CASE GenerateMessage
  BY <1>2, <1>3, <1>6 DEF GenerateMessage, Return
<1>7. CASE Scalars \/ FirstBit \/ NextBit
  <2>1. pc' # "done"
    BY <1>1, <1>7 DEF Scalars, FirstBit, NextBit
  <2> QED
    BY <1>2, <2>1
<1> QED
  BY <1>4, <1>5, <1>6, <1>7 DEF Next

LEMMA StutterSound == SecpInv /\ UNCHANGED vars => SecpInv'
<1> SUFFICES ASSUME SecpInv, UNCHANGED vars PROVE SecpInv'
  OBVIOUS
<1>1. /\ request' = request /\ u' = u /\ v' = v /\ index' = index /\ acc' = acc
      /\ pc' = pc /\ result' = result
  BY DEF vars
<1>2. SecpTypes'
  BY <1>1 DEF SecpInv, SecpTypes
<1>3. LoopEntered'
  BY <1>1, SameScalars DEF SecpInv, LoopEntered
<1>4. LoopSound'
  BY <1>1, SameScalars DEF SecpInv, LoopSound
<1>5. VerifiesByTheBook'
  BY <1>1, SameScalars DEF SecpInv, VerifiesByTheBook
<1> QED
  BY <1>2, <1>3, <1>4, <1>5 DEF SecpInv

(* The inductive invariant: the types, the entry of the loop, what the      *)
(* accumulator stands for at each index of the loop of                      *)
(* ecZZ_mulmuladd_S_asm, and the answer.                                    *)
THEOREM SecpInvariant == Spec => []SecpInv
<1>1. SecpInv /\ [Next]_vars => SecpInv'
  BY StepTypes, StepEntered, StepSound, StepVerifies, StutterSound DEF SecpInv
<1> QED
  BY InitSound, <1>1, PTL DEF Spec

(* Every coordinate stays below p, whatever the key, and the loop starts    *)
(* within the scalars' width.                                               *)
THEOREM SecpTyped == Spec => []SecpTypeOK
<1>1. SecpInv => SecpTypeOK
  <2> SUFFICES ASSUME SecpInv PROVE SecpTypeOK
    OBVIOUS
  <2>1. SecpTypes
    BY DEF SecpInv
  <2>2. \A i \in 1..4 : acc[i] \in 0..(p - 1)
    BY <2>1, QuadsAreInts DEF SecpTypes, Residues
  <2> QED
    BY <2>1, <2>2 DEF SecpTypes, SecpTypeOK
<1> QED
  BY SecpInvariant, <1>1, PTL

(* At every turn of the loop the accumulator is the point of the bits       *)
(* consumed, in coordinates that agree, but in the excepted cases.          *)
THEOREM AccumulatorFollowsBits == Spec => []AccumulatorIsPrefix
<1>1. SecpInv => AccumulatorIsPrefix
  <2> SUFFICES ASSUME SecpInv, pc = "loop", ~Excepted(index)
               PROVE  IF Prefix(index + 1) = Zero
                      THEN acc[3] = 0
                      ELSE /\ acc[3] # 0
                           /\ (acc[3] * acc[3] * acc[3] - acc[4] * acc[4]) % p = 0
                           /\ ecZZ_SetAff(acc) = Prefix(index + 1)
    BY DEF AccumulatorIsPrefix
  <2>1. SecpTypes /\ LoopState
    BY DEF SecpInv, LoopEntered
  <2> DEFINE A == Prefix(index + 1)
  <2>2. index \in -1..(Bits - 2) /\ index + 1 \in 0..Bits
    BY <2>1, CurveAssumption DEF SecpTypes
  <2>3. Represents(acc, A) /\ A \in Points
    BY <2>1, <2>2, PrefixPoint DEF SecpInv, LoopSound
  <2>4. CASE A = Zero
    BY <2>3, <2>4 DEF Represents
  <2>5. CASE A # Zero
    <3>1. A \in Curve /\ acc \in Quads /\ acc[3] # 0 /\ Agree(acc)
      BY <2>3, <2>5 DEF Points, Represents, StandsFor
    <3>2. ecZZ_SetAff(acc) = A
      <4> HIDE DEF A
      <4> QED
        BY <2>3, <3>1, SetAffIs
    <3>3. (acc[3] * acc[3] * acc[3] - acc[4] * acc[4]) % p = 0
      <4> DEFINE e == acc[3] * acc[3] * acc[3]
                 f == acc[4] * acc[4]
      <4>1. acc[3] \in Int /\ acc[4] \in Int
        BY <3>1, QuadsAreInts
      <4>2. e \in Int /\ f \in Int /\ e - f \in Int /\ e \cong f
        BY <3>1, <4>1 DEF Agree
      <4> HIDE DEF e, f
      <4>3. e - f \cong 0
        BY <4>2, GapZero
      <4>4. (e - f) % p = 0
        BY <4>2, <4>3, ModZero
      <4> QED
        BY <4>4 DEF e, f
    <3> QED
      BY <2>5, <3>1, <3>2, <3>3
  <2> QED
    BY <2>4, <2>5
<1> QED
  BY SecpInvariant, <1>1, PTL

(* verify answers as ECDSA does, for a key on the curve or not, for every   *)
(* hash, r and s: all but the excepted cases.  That the scalars are the     *)
(* quotients by s rests on OrderAssumption, as s has one inverse modulo n.  *)
THEOREM VerifiesAsBook == Spec => []VerifiesByTheBook
<1>1. SecpInv => VerifiesByTheBook
  BY DEF SecpInv
<1> QED
  BY SecpInvariant, <1>1, PTL
=============================================================================

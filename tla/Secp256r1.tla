------------------------------ MODULE Secp256r1 ------------------------------
(***************************************************************************)
(* secp256r1.sol and WebAuthn256r1.sol: the verification of a WebAuthn     *)
(* signature, over any curve y^2 = x^3 - 3x + b with a prime number of     *)
(* points.  Points are in XYZZ coordinates inside the loop, where          *)
(* (X, Y, ZZ, ZZZ) stands for (X/ZZ, Y/ZZZ), and ZZ = 0 for the neutral.   *)
(*                                                                         *)
(* The loop over the bits of the two scalars is one action per bit.  The   *)
(* assembly keeps -Y between the doubling and the addition to spare a      *)
(* subtraction; here Y is Y.  The coordinates of a key are words, and only *)
(* ecAff_isOnCurve looks at them as they are: the arithmetic takes them    *)
(* modulo p, so Q is the point of their residues.                          *)
(*                                                                         *)
(* FieldAssumption, OrderAssumption and GroupAssumption are what a         *)
(* textbook says of the primes p and n and of a curve over the former.     *)
(***************************************************************************)
EXTENDS Integers, Sequences, FiniteSets

CONSTANTS
  p, b, gx, gy, n,   \* the field, the curve, its generator, its order
  Bits,              \* the width of a scalar: 256
  Requests           \* the calls of verify that are made

\* 2^i, as a function.
TwoTo[i \in 0..Bits] == IF i = 0 THEN 1 ELSE 2 * TwoTo[i - 1]

ASSUME CurveAssumption ==
  /\ p \in Nat /\ p > 3 /\ b \in Int
  /\ gx \in 0..(p - 1) /\ gy \in 1..(p - 1)
  /\ (gy * gy) % p = (gx * gx * gx - 3 * gx + b) % p
  /\ Bits \in Nat \ {0} /\ n \in Nat \ {0, 1} /\ n < TwoTo[Bits]

Words == 0..(TwoTo[Bits] - 1)

\* Of the multiples of p only 0 and p itself fit into a word.
ASSUME WidthAssumption == TwoTo[Bits] <= 2 * p

ASSUME RequestAssumption ==
  \A req \in Requests :
    /\ req.key \in Words \X Words
    /\ req.hash \in Nat /\ req.r \in Nat /\ req.s \in Nat

VARIABLES
  request,   \* the arguments of verify
  u, v,      \* scalar_u, scalar_v
  index,     \* the bit the loop is at
  acc,       \* the accumulator (X, Y, zz, zzz)
  pc, result

vars == <<request, u, v, index, acc, pc, result>>

a == p - 3
minus_2 == p - 2

-----------------------------------------------------------------------------
(* Field and points *)

\* The ModExp precompile.
ModExp(base, exponent, modulus) ==
  LET power[k \in 0..exponent] == IF k = 0 THEN 1 ELSE (power[k - 1] * base) % modulus
  IN  power[exponent]

FCL_nModInv(x) == ModExp(x, n - 2, n)
FCL_pModInv(x) == ModExp(x, p - 2, p)

\* Fermat's little theorem, p and n being primes.
ASSUME FieldAssumption == \A x \in 1..(p - 1) : (x * FCL_pModInv(x)) % p = 1
ASSUME OrderAssumption == \A x \in 1..(n - 1) : (x * FCL_nModInv(x)) % n = 1

ecAff_SetZZ(P) == <<P[1], P[2], 1, 1>>

ecZZ_SetAff(P) ==
  LET zzzInv == FCL_pModInv(P[4])
      zInv   == (P[3] * zzzInv) % p
  IN  <<(P[1] * zInv * zInv) % p, (P[2] * zzzInv) % p>>

ecZZ_Dbl(P) ==
  LET U  == (2 * P[2]) % p
      V  == (U * U) % p
      S  == (P[1] * V) % p
      W  == (U * V) % p
      M  == (3 * (P[1] - P[3]) * (P[1] + P[3])) % p
      X3 == (M * M + minus_2 * S) % p
  IN  <<X3, (M * (S - X3) - W * P[2]) % p, (V * P[3]) % p, (W * P[4]) % p>>

\* The differences R of the ordinates and P of the abscissas.
OrdinateGap(P, Q) == (Q[2] * P[4] - P[2]) % p
AbscissaGap(P, Q) == (Q[1] * P[3] - P[1]) % p

AddGaps(P, Q) ==
  LET R   == OrdinateGap(P, Q)
      D   == AbscissaGap(P, Q)
      PP  == (D * D) % p
      PPP == (PP * D) % p
      QQ  == (P[1] * PP) % p
      X3  == (R * R - PPP + minus_2 * QQ) % p
  IN  <<X3, (R * (QQ - X3) - P[2] * PPP) % p, (P[3] * PP) % p, (P[4] * PPP) % p>>

\* P in XYZZ, Q affine and another point than P.
ecZZ_AddN(P, Q) == IF P[2] = 0 THEN ecAff_SetZZ(Q) ELSE AddGaps(P, Q)

ecAff_IsZero(P) == P[2] = 0

ecAff_add(P, Q) ==
  IF ecAff_IsZero(P) THEN Q
  ELSE IF ecAff_IsZero(Q) THEN P
  ELSE ecZZ_SetAff(ecZZ_AddN(ecAff_SetZZ(P), Q))

ecAff_isOnCurve(P) ==
  /\ P[1] \notin {0, p} /\ P[2] \notin {0, p}
  /\ (P[2] * P[2]) % p = (P[1] * P[1] * P[1] + a * P[1] + b) % p

-----------------------------------------------------------------------------
(* ecZZ_mulmuladd_S_asm: uG + vQ *)

G == <<gx, gy>>
Q == <<request.key[1] % p, request.key[2] % p>>

Bit(k, i) == (k \div TwoTo[i]) % 2

\* The dibit of this index: 0, 1, 2 or 3.
Dibit(i) == 2 * Bit(v, i) + Bit(u, i)

Addend(i) == CASE Dibit(i) = 1 -> G [] Dibit(i) = 2 -> Q [] Dibit(i) = 3 -> ecAff_add(G, Q)

\* The doubling that stands in for the addition when the accumulator is the
\* addend already.  W is overwritten by X - ZZ before ZZZ is computed, and Y
\* is computed with U in its place.
DoubleInstead(P) ==
  LET U  == (2 * P[2]) % p
      V  == (U * U) % p
      S  == (P[1] * V) % p
      M  == (3 * (P[1] + P[3]) * (P[1] - P[3])) % p
      X3 == (M * M + minus_2 * S) % p
  IN  <<X3, (M * (S - X3) - U * P[2]) % p, (V * P[3]) % p, ((P[1] - P[3]) * P[4]) % p>>

Accumulate(P, T) ==
  IF P[3] = 0 THEN ecAff_SetZZ(T)
  ELSE IF OrdinateGap(P, T) = 0 /\ AbscissaGap(P, T) = 0 THEN DoubleInstead(P)
  ELSE AddGaps(P, T)

\* Mutant: the neutral is added like any other point.
NextAccumulatorNoZero(P, i) ==
  LET D == ecZZ_Dbl(P) IN IF Dibit(i) = 0 THEN D ELSE AddGaps(D, Addend(i))

NextAccumulator(P, i) ==
  LET D == ecZZ_Dbl(P) IN IF Dibit(i) = 0 THEN D ELSE Accumulate(D, Addend(i))

TopIndex == CHOOSE i \in 0..(Bits - 1) : Dibit(i) # 0 /\ \A j \in (i + 1)..(Bits - 1) : Dibit(j) = 0

-----------------------------------------------------------------------------
(* WebAuthn256r1.verify, ecdsa_verify *)

\* The challenge is in the client data at the offset the caller names, and the
\* authenticator has set the flag the caller names.
MessageAccepted(req) ==
  /\ req.flag
  /\ req.challenge # <<>>
  /\ req.offset + Len(req.challenge) <= Len(req.clientData)
  /\ SubSeq(req.clientData, req.offset + 1, req.offset + Len(req.challenge)) = req.challenge

InRange(req) == req.r \in 1..(n - 1) /\ req.s \in 1..(n - 1)

Return(res) ==
  /\ pc' = "done" /\ result' = res
  /\ UNCHANGED <<request, index, acc>>

GenerateMessage ==
  /\ pc = "call"
  /\ IF MessageAccepted(request)
     THEN pc' = "message" /\ UNCHANGED <<request, u, v, index, acc, result>>
     ELSE Return("revert") /\ UNCHANGED <<u, v>>

Reject ==
  /\ pc = "message"
  /\ ~InRange(request) \/ ~ecAff_isOnCurve(request.key)
  /\ Return("invalid")
  /\ UNCHANGED <<u, v>>

\* Mutant: the hash and r change places.
ScalarsSwapped ==
  /\ pc = "message"
  /\ InRange(request) /\ ecAff_isOnCurve(request.key)
  /\ LET sInv == FCL_nModInv(request.s)
     IN  /\ u' = (request.r * sInv) % n
         /\ v' = (request.hash * sInv) % n
  /\ pc' = "first"
  /\ UNCHANGED <<request, index, acc, result>>

Scalars ==
  /\ pc = "message"
  /\ InRange(request) /\ ecAff_isOnCurve(request.key)
  /\ LET sInv == FCL_nModInv(request.s)
     IN  /\ u' = (request.hash * sInv) % n
         /\ v' = (request.r * sInv) % n
  /\ pc' = "first"
  /\ UNCHANGED <<request, index, acc, result>>

\* Mutant: the first set bit is doubled once more.
FirstBitAgain ==
  /\ pc = "first"
  /\ IF u = 0 /\ v = 0
     THEN acc' = <<0, 0, 0, 0>> /\ index' = -1
     ELSE acc' = ecAff_SetZZ(Addend(TopIndex)) /\ index' = TopIndex
  /\ pc' = "loop"
  /\ UNCHANGED <<request, u, v, result>>

\* Both scalars 0 give abscissa 0; else the first set bit is an assignment.
FirstBit ==
  /\ pc = "first"
  /\ IF u = 0 /\ v = 0
     THEN acc' = <<0, 0, 0, 0>> /\ index' = -1
     ELSE acc' = ecAff_SetZZ(Addend(TopIndex)) /\ index' = TopIndex - 1
  /\ pc' = "loop"
  /\ UNCHANGED <<request, u, v, result>>

NextBit ==
  /\ pc = "loop" /\ index >= 0
  /\ acc' = NextAccumulator(acc, index)
  /\ index' = index - 1
  /\ UNCHANGED <<request, u, v, pc, result>>

Abscissa == (acc[1] * FCL_pModInv(acc[3])) % p

Compare ==
  /\ pc = "loop" /\ index = -1
  /\ Return(IF (Abscissa - request.r) % n = 0 THEN "valid" ELSE "invalid")
  /\ UNCHANGED <<u, v>>

Init ==
  /\ request \in Requests
  /\ u = 0 /\ v = 0 /\ index = -1
  /\ acc = <<0, 0, 0, 0>>
  /\ pc = "call" /\ result = "none"

Next == GenerateMessage \/ Reject \/ Scalars \/ FirstBit \/ NextBit \/ Compare

Spec == Init /\ [][Next]_vars /\ WF_vars(Next)

-----------------------------------------------------------------------------
(* The curve as a group, and ECDSA, by the book *)

Zero == <<0, 0>>

Curve == {P \in (0..(p - 1)) \X (0..(p - 1)) :
            (P[2] * P[2]) % p = (P[1] * P[1] * P[1] - 3 * P[1] + b) % p}

Slope(P, R) ==
  IF P = R THEN (3 * P[1] * P[1] - 3) * FCL_pModInv((2 * P[2]) % p)
           ELSE (R[2] - P[2]) * FCL_pModInv((R[1] - P[1]) % p)

GroupAdd(P, R) ==
  IF P = Zero THEN R
  ELSE IF R = Zero THEN P
  ELSE IF P[1] = R[1] /\ (P[2] + R[2]) % p = 0 THEN Zero
  ELSE LET l == Slope(P, R) % p
           x == (l * l - P[1] - R[1]) % p
       IN  <<x, (l * (P[1] - x) - P[2]) % p>>

Points == Curve \cup {Zero}

\* The points with this addition are a group.
ASSUME GroupAssumption ==
  /\ Zero \notin Curve
  /\ \A P, R \in Points : GroupAdd(P, R) \in Points /\ GroupAdd(P, R) = GroupAdd(R, P)
  /\ \A P, R, S \in Points : GroupAdd(GroupAdd(P, R), S) = GroupAdd(P, GroupAdd(R, S))

Times ==
  [P \in Curve |-> LET m[k \in 0..(n - 1)] == IF k = 0 THEN Zero ELSE GroupAdd(m[k - 1], P)
                   IN  [k \in 0..(n - 1) |-> m[k]]]

\* The point of the scalars' bits from i upwards.
Prefix(i) == GroupAdd(Times[G][u \div TwoTo[i]], Times[Q][v \div TwoTo[i]])

AddendByTheBook(i) == GroupAdd(Times[G][Bit(u, i)], Times[Q][Bit(v, i)])

\* The cases the code gives up: a key that is plus or minus the generator
\* (secp256r1.sol:268), and an accumulator that, doubled, is the addend before
\* the last bit (secp256r1.sol:347-368).
Excepted(i) ==
  \/ Q[1] = gx
  \/ \E k \in (i + 1)..(Bits - 2) :
       /\ Dibit(k) # 0 /\ Prefix(k + 1) # Zero
       /\ GroupAdd(Prefix(k + 1), Prefix(k + 1)) = AddendByTheBook(k)

\* r and s are in 1..n-1, and (e/s)G + (r/s)Q is a point of abscissa r modulo
\* n, where w is 1/s.
ValidByTheBook ==
  /\ Q \in Curve
  /\ request.r > 0 /\ request.r < n /\ request.s > 0 /\ request.s < n
  /\ \E w \in 1..(n - 1) :
        /\ (request.s * w) % n = 1
        /\ LET R == GroupAdd(Times[G][(request.hash * w) % n], Times[Q][(request.r * w) % n])
           IN  R # Zero /\ R[1] % n = request.r

-----------------------------------------------------------------------------
(* Properties *)

SecpTypeOK ==
  /\ u \in 0..(n - 1) /\ v \in 0..(n - 1)
  /\ index \in -1..(Bits - 2)
  /\ \A i \in 1..4 : acc[i] \in 0..(p - 1)
  /\ result \in {"none", "valid", "invalid", "revert"}

\* The accumulator is the point of the bits consumed so far, in coordinates
\* that agree with one another, at every turn of the loop of
\* ecZZ_mulmuladd_S_asm (secp256r1.sol:294-381) but in the excepted cases.
AccumulatorIsPrefix ==
  pc = "loop" /\ ~Excepted(index) =>
    IF Prefix(index + 1) = Zero
    THEN acc[3] = 0
    ELSE /\ acc[3] # 0
         /\ (acc[3] * acc[3] * acc[3] - acc[4] * acc[4]) % p = 0
         /\ ecZZ_SetAff(acc) = Prefix(index + 1)

\* verify says what ECDSA says, for every key, on the curve or not, and every
\* hash, r and s (secp256r1.sol:410-432).  Left out are the excepted cases, and
\* a key with a coordinate 0, which the code refuses though the curve may have
\* such points (secp256r1.sol:217).  A key that is not reduced counts as the
\* point of its residues.
VerifiesByTheBook ==
  pc = "done" /\ result # "revert" /\ 0 \notin {Q[1], Q[2]} /\ ~Excepted(0) =>
    (result = "valid" <=> ValidByTheBook)
=============================================================================

----------------------------- MODULE MCSecp256r1 -----------------------------
(* The 17 points of y^2 = x^3 - 3x + 15 over the integers modulo 23. *)
EXTENDS Secp256r1

SmallCurve == {P \in (0..22) \X (0..22) : (P[2] * P[2]) % 23 = (P[1] * P[1] * P[1] - 3 * P[1] + 15) % 23}

(* Every point; points that are not on the curve; a coordinate of p; and    *)
(* points that are not reduced.                                             *)
Unreduced == {<<P[1] + 23, P[2]>> : P \in SmallCurve} \cup {<<P[1], P[2] + 23>> : P \in SmallCurve}

Keys == SmallCurve \cup {<<0, 0>>, <<1, 1>>, <<6, 17>>, <<5, 0>>, <<0, 8>>, <<23, 8>>, <<5, 23>>}
            \cup (Unreduced \cap (Words \X Words))

Signed(key, hash, r, s) ==
  [flag |-> TRUE, challenge |-> <<"c", "h">>, offset |-> 1, clientData |-> <<"x", "c", "h">>,
   key |-> key, hash |-> hash, r |-> r, s |-> s]

Malformed == {[flag |-> f, challenge |-> c, offset |-> o, clientData |-> <<"c", "h", "c">>,
               key |-> <<1, 6>>, hash |-> 3, r |-> 1, s |-> 1] :
                 f \in BOOLEAN, c \in {<<>>, <<"c", "h">>}, o \in 0..2}

MCRequests == {Signed(k, h, r, s) : k \in Keys, h \in 0..17, r \in 0..17, s \in {0, 1, 5, 17}} \cup Malformed
=============================================================================

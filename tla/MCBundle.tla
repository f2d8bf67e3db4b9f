------------------------------ MODULE MCBundle ------------------------------
(***************************************************************************)
(* Instances of BundleManager: few operations, each there for one of the   *)
(* decisions of createBundle, and a short chain.                           *)
(***************************************************************************)
EXTENDS BundleManager

CONSTANTS alice, bob, pm, fac, n1, n2, main, flush

Op(sender, nonce, fee, paymaster) ==
    [sender |-> sender, nonce |-> nonce,
     maxPriorityFeePerGas |-> fee, maxFeePerGas |-> fee,
     paymaster |-> paymaster, factory |-> NoAddr]

MCAddr == {alice, bob, pm, fac}
MCNonce == {n1, n2}
MCAccountOf == [a \in MCAddr |-> a]
MCNonceValue == [n \in MCNonce |-> n]
MCStakeOf == [a \in MCAddr |-> [stake |-> 0, unstakeDelaySec |-> 0]]
NoAggregator == {NoAddr}
None == {}
NoDumps == {}
MCScanner == {main}
TwoScanners == {main, flush}

a1 == Op(alice, n1, 10, NoAddr)
a1Dearer == Op(alice, n1, 11, pm)
b1 == Op(bob, n1, 7, pm)

c1 == [Op(alice, n1, 10, NoAddr) EXCEPT !.factory = fac]

DeployingOps == {c1, b1}
ReplacedOps == {a1, a1Dearer, b1}
OnlyA1 == {a1}
OnlyB1 == {b1}

A1TakesTwo == [op \in UserOps |-> IF op = a1 THEN 2 ELSE 1]
OneEach == [op \in UserOps |-> 1]
NoTouches == [op \in UserOps |-> {}]
ReadsBob == [op \in UserOps |-> IF op.sender = alice THEN {bob} ELSE {}]
TwoCovered == [p \in {pm} |-> 2]
OnlyOne == {1}
=============================================================================

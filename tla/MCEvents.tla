------------------------------ MODULE MCEvents ------------------------------
(***************************************************************************)
(* Two senders, of which one replaces its operation and one is deployed by *)
(* a factory; the listener and two scans run against a short chain.        *)
(***************************************************************************)
EXTENDS EventsManager

CONSTANTS alice, bob, pm, n1, s1, s2

Op(sender, nonce, fee, paymaster, factory) ==
    [sender |-> sender, nonce |-> nonce,
     maxPriorityFeePerGas |-> fee, maxFeePerGas |-> fee,
     paymaster |-> paymaster, factory |-> factory]

MCAddr == {alice, bob, pm}
MCNonce == {n1}
MCAccountOf == [a \in MCAddr |-> a]
MCNonceValue == [n \in MCNonce |-> n]
MCStakeOf == [a \in MCAddr |-> [stake |-> 0, unstakeDelaySec |-> 0]]
NoAggregator == {NoAddr}
Nobody == {}
NoDumps == {}

MCUserOps == {Op(alice, n1, 10, NoAddr, NoAddr), Op(alice, n1, 11, NoAddr, NoAddr),
              Op(bob, n1, 10, NoAddr, pm)}

TwoScanners == {s1, s2}
Interchangeable == Permutations(TwoScanners)
=============================================================================

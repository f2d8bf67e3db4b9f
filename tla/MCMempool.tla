------------------------------ MODULE MCMempool ------------------------------
(***************************************************************************)
(* Instances of MempoolManager: an unstaked sender, a staked one, one      *)
(* paymaster that is also a factory.                                       *)
(***************************************************************************)
EXTENDS MempoolManager

CONSTANTS alice, bob, pm, n1, n2

Op(sender, nonce, fee, paymaster) ==
    [sender |-> sender, nonce |-> nonce,
     maxPriorityFeePerGas |-> fee, maxFeePerGas |-> fee,
     paymaster |-> paymaster, factory |-> NoAddr]

MCAddr == {alice, bob, pm}
MCNonce == {n1, n2}
MCAccountOf == [a \in Addr |-> a]
MCNonceValue == [n \in MCNonce |-> n]
MCStakeOf ==
    [a \in Addr |-> [stake |-> IF a = bob THEN 1 ELSE 0, unstakeDelaySec |-> 1]]
NoAggregator == {NoAddr}
Nobody == {}
OnlyBob == {bob}
ZeroDumps == {0}

(* alice tries two nonces against a limit of one, bob two against his       *)
(* stake, which is of no use while he is banned.  By alice's replacements   *)
(* a paymaster goes and comes.                                              *)
MCUserOps ==
    {Op(alice, n1, 10, pm), Op(alice, n1, 11, NoAddr), Op(alice, n1, 13, pm),
     [Op(alice, n2, 5, NoAddr) EXCEPT !.factory = pm],
     Op(bob, n1, 10, NoAddr), Op(bob, n2, 10, NoAddr)}
=============================================================================

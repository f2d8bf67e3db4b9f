------------------------------- MODULE MCSdk --------------------------------
(* Transactions of one account at a bundler that is switched between the    *)
(* mode 'manual' of debug_bundler_setBundlingMode, with a pool size of 2    *)
(* for its 1000, and automatic bundling with a timer that fires.            *)
EXTENDS Sdk

Manual == [interval |-> 0, maxMempoolSize |-> 2]
Timed == [interval |-> 1, maxMempoolSize |-> 0]

MCModes == {Manual, Timed}
MCSenderOf == [t \in Request |-> CHOOSE a \in Account : TRUE]
Symmetry == Permutations(Request)
=============================================================================

---------------------------- MODULE MCReputation ----------------------------
(* Small parameters for ReputationManager. *)
EXTENDS ReputationManager

CONSTANTS p, q

MCAddr == {p, q}
Nobody == {}

DumpEnds == {0, 4}
=============================================================================

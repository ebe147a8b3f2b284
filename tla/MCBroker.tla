------------------------------ MODULE MCBroker ------------------------------
(* The broker on a few tasks and contexts.  Ids are only compared, so both *)
(* sets are symmetric.                                                     *)
EXTENDS Broker, TLC

Symmetry == Permutations(Tasks) \cup Permutations(Contexts)
============================================================================

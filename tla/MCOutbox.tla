------------------------------ MODULE MCOutbox ------------------------------
(* Outbox for TLC: interchangeable operations, keys and workers.           *)
EXTENDS Outbox, TLC

MCSymmetry == Permutations(Ops) \cup Permutations(Keys) \cup Permutations(Workers)
=============================================================================

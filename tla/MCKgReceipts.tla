---------------------------- MODULE MCKgReceipts ----------------------------
(* KgReceipts for TLC: interchangeable request slots.                      *)
EXTENDS KgReceipts, TLC

MCSymmetry == Permutations(Handlers)
=============================================================================

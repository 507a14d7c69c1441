------------------------- MODULE MCDelegationSpans -------------------------
(* DelegationSpans for TLC: the sizes that summaries may have.             *)
EXTENDS DelegationSpans, TLC

\* One and two characters of one byte each.
Ascii == {[bytes |-> 1, characters |-> 1], [bytes |-> 2, characters |-> 2]}
============================================================================

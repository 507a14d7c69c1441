--------------------------- MODULE MCOAuthSession ---------------------------
(***************************************************************************)
(* OAuthSession for TLC: the tasks of one process, and of two.             *)
(***************************************************************************)
EXTENDS OAuthSession, TLC

OneProcess == [t \in Hands |-> CHOOSE p \in Sharers : TRUE]

ProcessEach == CHOOSE f \in [Hands -> Sharers] : \A p \in Sharers : \E t \in Hands : f[t] = p
=============================================================================

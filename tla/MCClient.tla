------------------------------ MODULE MCClient ------------------------------
(***************************************************************************)
(* The client's side: the local-first writes of the MCP server, of facts   *)
(* and of drawers, and the sign-in of its remote client, in one run over   *)
(* components that share no state.  focus, fixed in the initial state,     *)
(* says which of them a behaviour is about; the others stay where they     *)
(* start.                                                                  *)
(***************************************************************************)
EXTENDS MCLocalFirstWrites, MCOAuthSession, DrawerWrites

VARIABLE focus

clientVars == <<writeVars, authVars, drawerVars, focus>>

ClientInit ==
  /\ Init /\ AuthInit /\ DrawersInit
  /\ focus \in {"writes", "sign-in", "drawers"}
  /\ focus = "writes" \/ (setup \in Faulty /\ ~fact.known)

ClientNext ==
  /\ \/ focus = "writes" /\ Next /\ UNCHANGED <<authVars, drawerVars>>
     \/ focus = "sign-in" /\ AuthNext /\ UNCHANGED <<writeVars, drawerVars>>
     \/ focus = "drawers" /\ DrawersNext /\ UNCHANGED <<writeVars, authVars>>
  /\ UNCHANGED focus

ClientSpec == ClientInit /\ [][ClientNext]_clientVars
=============================================================================

------------------------------ MODULE MCRemote ------------------------------
(***************************************************************************)
(* The mutation routes of the remote server, the grants of the demo hub    *)
(* and the feeds read from several palaces, in one run over components     *)
(* that share no state.  focus, fixed in the initial state, says which of  *)
(* them a behaviour is about; the others stay where they start.            *)
(***************************************************************************)
EXTENDS MCKgReceipts, DrawerRoutes, IngestBatch, HubGrants, FeedPages

VARIABLE focus

remoteVars == <<vars, drawerVars, ingVars, hubVars, feedVars, focus>>

MCContentOf == <<"v1", "v2", "gone", "v1">>
MCChunkIds == [c \in {"v1", "v2"} |-> IF c = "v1" THEN {"a", "b"} ELSE {"a"}]

RemoteInit ==
  /\ Init /\ DrawerInit /\ IngInit /\ HubInit /\ FeedInit
  /\ focus \in {"facts", "drawers", "ingest", "hub", "feeds"}
  /\ open => focus = "facts"
  /\ kind = "browser" \/ focus = "hub"
  /\ feed = "events" \/ focus = "feeds"

RemoteNext ==
  /\ \/ focus = "facts" /\ Next /\ UNCHANGED <<drawerVars, ingVars, hubVars, feedVars>>
     \/ focus = "drawers" /\ DrawerNext /\ UNCHANGED <<vars, ingVars, hubVars, feedVars>>
     \/ focus = "ingest" /\ IngNext /\ UNCHANGED <<vars, drawerVars, hubVars, feedVars>>
     \/ focus = "hub" /\ HubNext /\ UNCHANGED <<vars, drawerVars, ingVars, feedVars>>
     \/ focus = "feeds" /\ FeedNext /\ UNCHANGED <<vars, drawerVars, ingVars, hubVars>>
  /\ UNCHANGED focus

RemoteSpec == RemoteInit /\ [][RemoteNext]_remoteVars
=============================================================================

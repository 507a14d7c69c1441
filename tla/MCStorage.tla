----------------------------- MODULE MCStorage ------------------------------
(***************************************************************************)
(* The storage engine and the registries beside it, in one run over        *)
(* components that share no state.  focus, fixed in the initial state,     *)
(* says which of them a behaviour is about; the others stay where they     *)
(* start.                                                                  *)
(***************************************************************************)
EXTENDS MCSourceMine, DiaryStore, MaintenanceRun, SkillRegistry, MCDelegationSpans

VARIABLE focus

storageVars == <<mineVars, diaryVars, maintVars, skillVars, spanVars, focus>>

StorageInit ==
  /\ MineInit /\ DiaryInit /\ MaintInit /\ SkillInit /\ SpanInit
  /\ focus \in {"mining", "diary", "maintenance", "skills", "spans"}
  /\ focus = "mining" \/ (replicated /\ disk = "v1")

StorageNext ==
  /\ \/ focus = "mining" /\ MineNext /\ UNCHANGED <<diaryVars, maintVars, skillVars, spanVars>>
     \/ focus = "diary" /\ DiaryNext /\ UNCHANGED <<mineVars, maintVars, skillVars, spanVars>>
     \/ focus = "maintenance" /\ MaintNext /\ UNCHANGED <<mineVars, diaryVars, skillVars, spanVars>>
     \/ focus = "skills" /\ SkillNext /\ UNCHANGED <<mineVars, diaryVars, maintVars, spanVars>>
     \/ focus = "spans" /\ SpanNext /\ UNCHANGED <<mineVars, diaryVars, maintVars, skillVars>>
  /\ UNCHANGED focus

StorageSpec == StorageInit /\ [][StorageNext]_storageVars
=============================================================================

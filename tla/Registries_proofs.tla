-------------------------- MODULE Registries_proofs --------------------------
(***************************************************************************)
(* Proofs about the tables beside the memory itself: the maintenance lease *)
(* (MaintenanceRun), the skill registry (SkillRegistry), the diary         *)
(* (DiaryStore) and delegation spans (DelegationSpans), for any number of  *)
(* processes, runs and faults, of versions, actors and projects, of writes *)
(* and updates of an entry, of spans and checkpoints.                      *)
(***************************************************************************)
EXTENDS MaintenanceRun, SkillRegistry, DiaryStore, DelegationSpans, FiniteSetTheorems, TLAPS

-----------------------------------------------------------------------------
(* The maintenance lease.  A run that was never suspended holds the lease  *)
(* with enough time left for the rest of its tier: the tiers it has        *)
(* finished cost at most one renewal interval each, as a renewal starts    *)
(* the lease anew, and between tiers no time passes.                       *)

\* What of the lease a run may have used up by the start of its tier.
SpentBefore(tier) ==
  IF tier <= 1 THEN 0 ELSE IF tier = 2 THEN RenewEvery ELSE RenewEvery + RenewEvery

Holds(p) ==
  /\ maintLease.holder = keeper[p].holder
  /\ keeper[p].at = "claimed" => maintLease.left = LeaseTicks
  /\ keeper[p].at \in {"working", "between"} =>
       maintLease.left + SpentBefore(keeper[p].tier) + keeper[p].timer >= LeaseTicks

RunsHoldLease ==
  \A p \in Keepers :
    keeper[p].rest = "awake" /\ keeper[p].at \in {"claimed", "working", "between"} => Holds(p)

\* Holder ids are never given out twice, and exactly the runs past the claim have one.
HolderIds ==
  /\ maintLease.holder <= claims
  /\ \A p \in Keepers :
       /\ keeper[p].holder <= claims
       /\ keeper[p].at \in {"idle", "claiming"} <=> keeper[p].holder = NoHolder
       /\ keeper[p].at \in {"working", "between"} => keeper[p].tier \in Tiers
       /\ \A q \in Keepers : keeper[p].holder = keeper[q].holder => p = q \/ keeper[p].holder = NoHolder

MaintInv == MaintTypeOK /\ HolderIds /\ RunsHoldLease /\ LeaseGivenBack

\* Only the run of p changes.
OwnRun(p) ==
  /\ keeper' \in [Keepers -> KeeperState]
  /\ \A q \in Keepers : q # p => keeper'[q] = keeper[q]

LEMMA FreshRun ==
  /\ Fresh \in KeeperState
  /\ Fresh.at = "idle" /\ Fresh.holder = NoHolder /\ Fresh.rest = "awake"
BY LeaseAssumption DEF Fresh, KeeperState, NoHolder, Outcomes

LEMMA EndsEffect ==
  ASSUME MaintTypeOK, NEW p \in Keepers, NEW results \in SUBSET Outcomes,
         NEW status \in {"none", "success", "partial", "failure"}, Ends(p, results, status)
  PROVE  /\ OwnRun(p)
         /\ keeper'[p].at = "idle" /\ keeper'[p].holder = NoHolder
<1> DEFINE run == [Fresh EXCEPT !.results = results, !.status = status]
<1>1. run \in KeeperState /\ run.at = "idle" /\ run.holder = NoHolder
  BY FreshRun DEF KeeperState
<1>2. keeper' = [keeper EXCEPT ![p] = run]
  BY DEF Ends
<1> HIDE DEF run
<1>3. QED
  BY <1>1, <1>2 DEF MaintTypeOK, OwnRun

LEMMA StartEffect ==
  ASSUME MaintTypeOK, NEW p \in Keepers, NEW tier \in Tiers, StartTier(p, tier)
  PROVE  /\ OwnRun(p)
         /\ keeper'[p].at = "working" /\ keeper'[p].tier = tier /\ keeper'[p].timer = 0
         /\ keeper'[p].holder = keeper[p].holder /\ keeper'[p].rest = keeper[p].rest
<1> DEFINE run == [keeper[p] EXCEPT !.at = "working", !.tier = tier, !.timer = 0]
<1>1. keeper[p] \in KeeperState /\ 0 \in 0..RenewEvery
  BY LeaseAssumption DEF MaintTypeOK
<1>2. /\ run \in KeeperState /\ run.at = "working" /\ run.tier = tier /\ run.timer = 0
      /\ run.holder = keeper[p].holder /\ run.rest = keeper[p].rest
  BY <1>1 DEF KeeperState
<1>3. keeper' = [keeper EXCEPT ![p] = run]
  BY DEF StartTier
<1> HIDE DEF run
<1>4. QED
  BY <1>2, <1>3 DEF MaintTypeOK, OwnRun

\* A run that ends releases the lease if it still holds it, or something has failed.
LEMMA EndKeeps ==
  ASSUME MaintInv, NEW p \in Keepers, OwnRun(p),
         keeper'[p].at \in {"idle", "claiming"}, keeper'[p].holder = NoHolder,
         \/ maintLease' = Released(keeper[p].holder)
         \/ maintLease' = maintLease /\ (maintFaults' # 0 \/ keeper[p].holder = NoHolder),
         claims' = claims, maintFaults' = maintFaults \/ maintFaults' # 0
  PROVE  HolderIds' /\ RunsHoldLease' /\ LeaseGivenBack'
<1>1. \A q \in Keepers : q # p => keeper'[q] = keeper[q]
  BY DEF OwnRun
<1>2. maintLease' = maintLease \/ (maintLease'.holder = NoHolder /\ maintLease.holder = keeper[p].holder)
  BY DEF Released
<1>3. claims \in Nat
  BY LeaseAssumption DEF MaintInv, MaintTypeOK
<1>4. HolderIds'
  <2>1. maintLease'.holder <= claims
    BY <1>2, <1>3 DEF MaintInv, HolderIds, NoHolder
  <2>2. ASSUME NEW k \in Keepers
        PROVE  /\ keeper'[k].holder <= claims
               /\ keeper'[k].at \in {"idle", "claiming"} <=> keeper'[k].holder = NoHolder
               /\ keeper'[k].at \in {"working", "between"} => keeper'[k].tier \in Tiers
    BY <1>1, <1>3, <2>2 DEF MaintInv, HolderIds, NoHolder
  <2>3. ASSUME NEW k \in Keepers, NEW q \in Keepers, keeper'[k].holder = keeper'[q].holder
        PROVE  k = q \/ keeper'[k].holder = NoHolder
    BY <1>1, <2>3 DEF MaintInv, HolderIds
  <2>4. QED
    BY <2>1, <2>2, <2>3 DEF HolderIds
<1>5. RunsHoldLease'
  <2> SUFFICES ASSUME NEW q \in Keepers, keeper'[q].rest = "awake",
                      keeper'[q].at \in {"claimed", "working", "between"}
               PROVE  Holds(q)'
    BY DEF RunsHoldLease
  <2>1. q # p /\ keeper'[q] = keeper[q]
    BY <1>1
  <2>2. Holds(q)
    BY <2>1 DEF MaintInv, RunsHoldLease
  <2>3. keeper[q].holder # NoHolder /\ keeper[q].holder # keeper[p].holder
    BY <2>1 DEF MaintInv, HolderIds
  <2>4. maintLease' = maintLease
    BY <1>2, <2>2, <2>3 DEF Holds
  <2>5. QED
    BY <2>1, <2>2, <2>4 DEF Holds
<1>6. LeaseGivenBack'
  <2> SUFFICES ASSUME maintFaults' = 0, maintLease'.holder # NoHolder
               PROVE  \E q \in Keepers : keeper'[q].holder = maintLease'.holder
    BY DEF LeaseGivenBack
  <2>1. maintFaults = 0 /\ maintLease' = maintLease
    BY <1>2
  <2>2. PICK q \in Keepers : keeper[q].holder = maintLease.holder
    BY <2>1 DEF MaintInv, LeaseGivenBack
  <2>3. q # p
    <3>1. CASE maintLease' = Released(keeper[p].holder)
      <4>1. ASSUME keeper[p].holder = maintLease.holder PROVE FALSE
        BY <3>1, <4>1 DEF Released
      <4>2. QED
        BY <2>2, <4>1
    <3>2. CASE keeper[p].holder = NoHolder
      BY <2>1, <2>2, <3>2
    <3>3. QED
      BY <3>1, <3>2
  <2>4. QED
    BY <1>1, <2>1, <2>2, <2>3
<1>7. QED
  BY <1>4, <1>5, <1>6

\* A run that goes on keeps its holder id and gains no time.
LEMMA GoOnKeeps ==
  ASSUME MaintInv, NEW p \in Keepers, OwnRun(p),
         keeper[p].holder # NoHolder, keeper'[p].holder = keeper[p].holder,
         keeper'[p].at \in {"working", "between", "releasing"},
         keeper'[p].at \in {"working", "between"} => keeper'[p].tier \in Tiers,
         keeper'[p].rest = "awake" /\ keeper'[p].at \in {"working", "between"} => Holds(p)',
         maintLease' = maintLease, claims' = claims, maintFaults' = maintFaults \/ maintFaults' # 0
  PROVE  HolderIds' /\ RunsHoldLease' /\ LeaseGivenBack'
<1>1. \A q \in Keepers : keeper'[q].holder = keeper[q].holder
  BY DEF OwnRun
<1>2. \A q \in Keepers : q # p => keeper'[q] = keeper[q]
  BY DEF OwnRun
<1>3. HolderIds'
  <2>1. ASSUME NEW q \in Keepers
        PROVE  /\ keeper'[q].at \in {"idle", "claiming"} <=> keeper'[q].holder = NoHolder
               /\ keeper'[q].at \in {"working", "between"} => keeper'[q].tier \in Tiers
    BY <1>1, <1>2 DEF MaintInv, HolderIds
  <2>2. QED
    BY <1>1, <2>1 DEF MaintInv, HolderIds
<1>4. RunsHoldLease'
  <2> SUFFICES ASSUME NEW q \in Keepers, q # p, keeper'[q].rest = "awake",
                      keeper'[q].at \in {"claimed", "working", "between"}
               PROVE  Holds(q)'
    BY DEF RunsHoldLease
  <2>1. keeper'[q] = keeper[q] /\ Holds(q)
    BY <1>2 DEF MaintInv, RunsHoldLease
  <2>2. QED
    BY <2>1 DEF Holds
<1>5. LeaseGivenBack'
  BY <1>1 DEF MaintInv, LeaseGivenBack
<1>6. QED
  BY <1>3, <1>4, <1>5

\* While a run that was never suspended has the lease, nobody else can claim it.
LEMMA HeldIsLive ==
  ASSUME MaintInv, NEW p \in Keepers, keeper[p].rest = "awake",
         keeper[p].at \in {"claimed", "working", "between"}
  PROVE  maintLease.holder = keeper[p].holder /\ ~Claimable
<1>1. Holds(p)
  BY DEF MaintInv, RunsHoldLease
<1>2. /\ maintLease.left \in Int /\ keeper[p].timer \in 0..RenewEvery
      /\ SpentBefore(keeper[p].tier) \in Nat /\ SpentBefore(keeper[p].tier) <= 2 * RenewEvery
  BY LeaseAssumption DEF MaintInv, MaintTypeOK, KeeperState, SpentBefore
<1>3. QED
  BY <1>1, <1>2, LeaseAssumption DEF Holds, Claimable

\* What a run knows about itself.
LEMMA RunTypes ==
  ASSUME MaintTypeOK, NEW p \in Keepers
  PROVE  /\ keeper[p] \in KeeperState /\ keeper[p].results \in SUBSET Outcomes
         /\ keeper[p].status \in {"none", "success", "partial", "failure"}
         /\ keeper[p].timer \in Nat /\ keeper[p].timer <= RenewEvery
         /\ maintLease.left \in Int /\ claims \in Nat /\ maintFaults \in Nat /\ RenewEvery \in Nat
BY LeaseAssumption DEF MaintTypeOK, KeeperState

\* A run that ends releases the lease, or that is one more fault.
LEMMA GivesBackEffect ==
  ASSUME MaintTypeOK, NEW p \in Keepers, GivesBack(p)
  PROVE  /\ maintLease' = Released(keeper[p].holder) \/ (maintLease' = maintLease /\ maintFaults' # 0)
         /\ maintFaults' = maintFaults \/ maintFaults' # 0
         /\ maintFaults' \in 0..MaxMaintFaults
BY LeaseAssumption DEF GivesBack, MaintTypeOK

\* A release keeps the lease row's type.
LEMMA ReleasedType ==
  ASSUME MaintTypeOK, NEW h
  PROVE  Released(h) \in [holder : 0..MaxMaintRuns, left : -1..LeaseTicks]
BY LeaseAssumption DEF MaintTypeOK, Released, NoHolder

LEMMA CheckIdleKeeps ==
  ASSUME MaintInv, NEW p \in Keepers, CheckIdle(p)
  PROVE  MaintInv'
<1>1. /\ keeper[p].holder = NoHolder /\ signal' \in [Keepers -> BOOLEAN]
      /\ UNCHANGED <<maintLease, claims, maintFaults>>
  BY DEF CheckIdle, At, MaintInv, HolderIds, MaintTypeOK
<1>2. OwnRun(p) /\ keeper'[p].at \in {"idle", "claiming"} /\ keeper'[p].holder = NoHolder
  <2>1. CASE Ends(p, {"not idle"}, "partial")
    BY <2>1, EndsEffect DEF MaintInv, Outcomes
  <2>2. CASE keeper' = [keeper EXCEPT ![p] = [Fresh EXCEPT !.at = "claiming"]]
    <3> DEFINE run == [Fresh EXCEPT !.at = "claiming"]
    <3>1. run \in KeeperState /\ run.at = "claiming" /\ run.holder = NoHolder
      BY FreshRun DEF KeeperState
    <3>2. keeper' = [keeper EXCEPT ![p] = run]
      BY <2>2
    <3> HIDE DEF run
    <3>3. QED
      BY <3>1, <3>2 DEF OwnRun, MaintInv, MaintTypeOK
  <2>3. QED
    BY <2>1, <2>2 DEF CheckIdle
<1>3. HolderIds' /\ RunsHoldLease' /\ LeaseGivenBack'
  BY <1>1, <1>2, EndKeeps
<1>4. MaintTypeOK'
  BY <1>1, <1>2 DEF MaintInv, MaintTypeOK, OwnRun
<1>5. QED
  BY <1>3, <1>4 DEF MaintInv

\* A claim succeeds on an expired lease only, so no run that was never suspended loses it.
LEMMA ClaimKeeps ==
  ASSUME MaintInv, NEW p \in Keepers, Claim(p)
  PROVE  MaintInv'
<1>1. keeper[p].holder = NoHolder /\ UNCHANGED <<signal, maintFaults>>
  BY DEF Claim, At, MaintInv, HolderIds
<1>2. CASE /\ \E o \in {"aborted", "failed"} : Ends(p, {o}, "failure")
           /\ UNCHANGED <<maintLease, claims>>
  <2>1. OwnRun(p) /\ keeper'[p].at = "idle" /\ keeper'[p].holder = NoHolder
    BY <1>2, EndsEffect DEF MaintInv, Outcomes
  <2>2. HolderIds' /\ RunsHoldLease' /\ LeaseGivenBack'
    BY <1>1, <1>2, <2>1, EndKeeps
  <2>3. MaintTypeOK'
    BY <1>1, <1>2, <2>1 DEF MaintInv, MaintTypeOK, OwnRun
  <2>4. QED
    BY <2>2, <2>3 DEF MaintInv
<1>3. CASE /\ Claimable /\ claims < MaxMaintRuns /\ claims' = claims + 1
           /\ maintLease' = [holder |-> claims', left |-> LeaseTicks]
           /\ keeper' = [keeper EXCEPT ![p].at = "claimed", ![p].holder = claims',
                                        ![p].status = "success"]
  <2> DEFINE run == [keeper[p] EXCEPT !.at = "claimed", !.holder = claims', !.status = "success"]
  <2>1. claims \in Nat /\ claims' \in 0..MaxMaintRuns /\ claims' # NoHolder /\ claims' \in Nat
    BY <1>3, LeaseAssumption DEF MaintInv, MaintTypeOK, NoHolder
  <2>2. run \in KeeperState /\ run.at = "claimed" /\ run.holder = claims'
    BY <2>1 DEF KeeperState, MaintInv, MaintTypeOK
  <2>3. keeper' = [keeper EXCEPT ![p] = run]
    BY <1>3
  <2>4. /\ OwnRun(p) /\ keeper'[p].at = "claimed" /\ keeper'[p].holder = claims'
        /\ \A q \in Keepers : q # p => keeper'[q] = keeper[q]
    <3> HIDE DEF run
    <3>1. QED
      BY <2>2, <2>3 DEF OwnRun, MaintInv, MaintTypeOK
  <2> HIDE DEF run
  <2>5. maintLease'.holder = claims' /\ maintLease'.left = LeaseTicks
    BY <1>3
  <2>6. MaintTypeOK'
    BY <1>1, <1>3, <2>1, <2>4, LeaseAssumption DEF MaintInv, MaintTypeOK, OwnRun
  <2>7. HolderIds'
    <3>1. ASSUME NEW q \in Keepers,
                 q # p PROVE keeper'[q].holder <= claims /\ keeper'[q].holder # claims'
      <4>1. keeper'[q].holder <= claims /\ keeper'[q].holder \in Nat
        BY <2>4, <3>1, LeaseAssumption DEF MaintInv, HolderIds, MaintTypeOK, KeeperState
      <4>2. QED
        BY <1>3, <2>1, <4>1
    <3>2. ASSUME NEW k \in Keepers
          PROVE  /\ keeper'[k].holder <= claims'
                 /\ keeper'[k].at \in {"idle", "claiming"} <=> keeper'[k].holder = NoHolder
                 /\ keeper'[k].at \in {"working", "between"} => keeper'[k].tier \in Tiers
      <4>1. CASE k = p
        BY <2>1, <2>4, <4>1
      <4>2. CASE k # p
        <5>1. keeper'[k] = keeper[k] /\ keeper[k].holder \in Nat
          BY <2>4, <4>2, LeaseAssumption DEF MaintInv, MaintTypeOK, KeeperState
        <5>2. /\ keeper[k].at \in {"idle", "claiming"} <=> keeper[k].holder = NoHolder
              /\ keeper[k].at \in {"working", "between"} => keeper[k].tier \in Tiers
              /\ keeper[k].holder <= claims
          BY DEF MaintInv, HolderIds
        <5>3. keeper[k].holder <= claims'
          BY <1>3, <2>1, <5>1, <5>2
        <5>4. QED
          BY <5>1, <5>2, <5>3
      <4>3. QED
        BY <4>1, <4>2
    <3>3. ASSUME NEW k \in Keepers, NEW q \in Keepers, keeper'[k].holder = keeper'[q].holder
          PROVE  k = q \/ keeper'[k].holder = NoHolder
      BY <2>4, <3>1, <3>3 DEF MaintInv, HolderIds
    <3>4. QED
      BY <2>1, <2>5, <3>2, <3>3 DEF HolderIds
  <2>8. RunsHoldLease'
    <3>1. Holds(p)'
      BY <2>4, <2>5 DEF Holds
    <3>2. ASSUME NEW q \in Keepers, q # p, keeper'[q].rest = "awake",
                 keeper'[q].at \in {"claimed", "working", "between"}
          PROVE  FALSE
      <4>1. keeper[q].rest = "awake" /\ keeper[q].at \in {"claimed", "working", "between"}
        BY <2>4, <3>2
      <4>2. ~Claimable
        BY <4>1, HeldIsLive
      <4>3. QED
        BY <1>3, <4>2
    <3>3. QED
      BY <3>1, <3>2 DEF RunsHoldLease
  <2>9. LeaseGivenBack'
    BY <2>4, <2>5 DEF LeaseGivenBack
  <2>10. QED
    BY <2>6, <2>7, <2>8, <2>9 DEF MaintInv
<1>4. QED
  BY <1>2, <1>3 DEF Claim

\* Activity seen right after the claim ends the run, which releases the lease.
LEMMA FirstCheckKeeps ==
  ASSUME MaintInv, NEW p \in Keepers, CheckAfterClaim(p)
  PROVE  MaintInv'
<1>1. /\ keeper[p].at = "claimed" /\ keeper[p].holder # NoHolder
      /\ signal' \in [Keepers -> BOOLEAN] /\ UNCHANGED claims
  BY DEF CheckAfterClaim, At, MaintInv, HolderIds, MaintTypeOK
<1>2. CASE Ends(p, {"not idle"}, "partial") /\ GivesBack(p)
  <2>1. OwnRun(p) /\ keeper'[p].at = "idle" /\ keeper'[p].holder = NoHolder
    BY <1>2, EndsEffect DEF MaintInv, Outcomes
  <2>2. HolderIds' /\ RunsHoldLease' /\ LeaseGivenBack'
    BY <1>1, <1>2, <2>1, GivesBackEffect, EndKeeps DEF MaintInv
  <2>3. MaintTypeOK'
    BY <1>1, <1>2, <2>1, GivesBackEffect, ReleasedType DEF MaintInv, MaintTypeOK, OwnRun
  <2>4. QED
    BY <2>2, <2>3 DEF MaintInv
<1>3. CASE StartTier(p, 1) /\ UNCHANGED <<maintLease, maintFaults>>
  <2>1. /\ OwnRun(p) /\ keeper'[p].at = "working" /\ keeper'[p].tier = 1 /\ keeper'[p].timer = 0
        /\ keeper'[p].holder = keeper[p].holder /\ keeper'[p].rest = keeper[p].rest
    BY <1>3, StartEffect DEF MaintInv, Tiers
  <2>2. keeper'[p].rest = "awake" => Holds(p)'
    <3> SUFFICES ASSUME keeper[p].rest = "awake" PROVE Holds(p)'
      BY <2>1
    <3>1. Holds(p)
      BY <1>1 DEF MaintInv, RunsHoldLease
    <3>2. QED
      BY <1>1, <1>3, <2>1, <3>1, LeaseAssumption DEF Holds, SpentBefore
  <2>3. HolderIds' /\ RunsHoldLease' /\ LeaseGivenBack'
    BY <1>1, <1>3, <2>1, <2>2, GoOnKeeps DEF Tiers
  <2>4. MaintTypeOK'
    BY <1>1, <1>3, <2>1 DEF MaintInv, MaintTypeOK, OwnRun
  <2>5. QED
    BY <2>3, <2>4 DEF MaintInv
<1>4. QED
  BY <1>2, <1>3 DEF CheckAfterClaim

LEMMA FinishTierKeeps ==
  ASSUME MaintInv, NEW p \in Keepers, FinishTier(p)
  PROVE  MaintInv'
<1>1. /\ keeper[p].at = "working" /\ keeper[p].holder # NoHolder /\ keeper[p].tier \in Tiers
      /\ UNCHANGED <<maintLease, signal, claims, maintFaults>>
  BY DEF FinishTier, At, MaintInv, HolderIds
<1>2. PICK o \in {"completed", "nothing to do", "failed"} :
        keeper' = [keeper EXCEPT
          ![p].at = "between",
          ![p].results = @ \cup {o},
          ![p].status = IF o = "failed" THEN "failure"
                        ELSE IF o = "nothing to do" /\ @ = "success" THEN "partial" ELSE @]
  BY DEF FinishTier
<1> DEFINE status == IF o = "failed" THEN "failure"
                     ELSE IF o = "nothing to do" /\ keeper[p].status = "success" THEN "partial"
                     ELSE keeper[p].status
           results == keeper[p].results \cup {o}
           run == [keeper[p] EXCEPT !.at = "between", !.results = results, !.status = status]
<1>3. status \in {"none", "success", "partial", "failure"} /\ results \in SUBSET Outcomes
  BY RunTypes DEF MaintInv, Outcomes
<1>4. keeper' = [keeper EXCEPT ![p] = run]
  BY <1>2
<1> HIDE DEF status, results
<1>5. /\ run \in KeeperState /\ run.at = "between" /\ run.tier = keeper[p].tier
      /\ run.timer = keeper[p].timer /\ run.holder = keeper[p].holder /\ run.rest = keeper[p].rest
  BY <1>3, RunTypes DEF MaintInv, KeeperState
<1> HIDE DEF run
<1>6. /\ OwnRun(p) /\ keeper'[p] = run
  BY <1>4, <1>5 DEF OwnRun, MaintInv, MaintTypeOK
<1>7. keeper'[p].rest = "awake" => Holds(p)'
  BY <1>1, <1>5, <1>6 DEF MaintInv, RunsHoldLease, Holds
<1>8. HolderIds' /\ RunsHoldLease' /\ LeaseGivenBack'
  BY <1>1, <1>5, <1>6, <1>7, GoOnKeeps
<1>9. MaintTypeOK'
  BY <1>1, <1>6 DEF MaintInv, MaintTypeOK, OwnRun
<1>10. QED
  BY <1>8, <1>9 DEF MaintInv

\* A renewal concerns the holder of the lease alone; one that fails ends the run.
LEMMA RenewOrAbortKeeps ==
  ASSUME MaintInv, NEW p \in Keepers, RenewOrAbort(p)
  PROVE  MaintInv'
<1>1. /\ keeper[p].at = "working" /\ keeper[p].holder # NoHolder /\ keeper[p].tier \in Tiers
      /\ UNCHANGED <<signal, claims>>
  BY DEF RenewOrAbort, At, MaintInv, HolderIds
<1>2. CASE /\ Renewable(keeper[p].holder) /\ maintLease' = Renewed(keeper[p].holder)
           /\ keeper' = [keeper EXCEPT ![p].timer = 0] /\ UNCHANGED maintFaults
  <2>1. /\ maintLease' \in [holder : 0..MaxMaintRuns, left : -1..LeaseTicks]
        /\ maintLease.holder = keeper[p].holder /\ maintLease'.holder = maintLease.holder
        /\ maintLease'.left = LeaseTicks
    BY <1>2, LeaseAssumption DEF Renewable, Renewed, MaintInv, MaintTypeOK
  <2> DEFINE run == [keeper[p] EXCEPT !.timer = 0]
  <2>2. /\ run \in KeeperState /\ run.at = "working" /\ run.tier = keeper[p].tier
        /\ run.timer = 0 /\ run.holder = keeper[p].holder
    BY <1>1, RunTypes, LeaseAssumption DEF MaintInv, KeeperState
  <2>3. keeper' = [keeper EXCEPT ![p] = run]
    BY <1>2
  <2> HIDE DEF run
  <2>4. OwnRun(p) /\ keeper'[p] = run
    BY <2>2, <2>3 DEF OwnRun, MaintInv, MaintTypeOK
  <2>5. MaintTypeOK'
    BY <1>1, <1>2, <2>1, <2>4 DEF MaintInv, MaintTypeOK, OwnRun
  <2>6. \A q \in Keepers : keeper'[q].holder = keeper[q].holder
    BY <2>2, <2>4 DEF OwnRun
  <2>7. HolderIds'
    <3>1. ASSUME NEW q \in Keepers
          PROVE  /\ keeper'[q].at \in {"idle", "claiming"} <=> keeper'[q].holder = NoHolder
                 /\ keeper'[q].at \in {"working", "between"} => keeper'[q].tier \in Tiers
      BY <1>1, <2>2, <2>4 DEF MaintInv, HolderIds, OwnRun
    <3>2. QED
      BY <1>1, <2>1, <2>6, <3>1 DEF MaintInv, HolderIds
  <2>8. RunsHoldLease'
    <3>1. Holds(p)'
      <4>1. SpentBefore(keeper[p].tier) \in Nat
        BY LeaseAssumption DEF SpentBefore
      <4>2. QED
        BY <2>1, <2>2, <2>4, <4>1, LeaseAssumption DEF Holds
    <3>2. ASSUME NEW q \in Keepers, q # p, keeper'[q].rest = "awake",
                 keeper'[q].at \in {"claimed", "working", "between"}
          PROVE  FALSE
      <4>1. keeper'[q] = keeper[q] /\ Holds(q)
        BY <2>4, <3>2 DEF OwnRun, MaintInv, RunsHoldLease
      <4>2. QED
        BY <1>1, <2>1, <3>2, <4>1 DEF Holds, MaintInv, HolderIds
    <3>3. QED
      BY <3>1, <3>2 DEF RunsHoldLease
  <2>9. LeaseGivenBack'
    BY <1>2, <2>1, <2>6 DEF MaintInv, LeaseGivenBack
  <2>10. QED
    BY <2>5, <2>7, <2>8, <2>9 DEF MaintInv
<1>3. CASE /\ IF Renewable(keeper[p].holder)
                THEN /\ maintFaults < MaxMaintFaults
                     /\ maintFaults' = maintFaults + 1
                     /\ maintLease' \in {Released(keeper[p].holder), maintLease}
                ELSE GivesBack(p)
           /\ Ends(p, keeper[p].results \cup {"aborted"}, "failure")
  <2>1. OwnRun(p) /\ keeper'[p].at = "idle" /\ keeper'[p].holder = NoHolder
    <3>1. keeper[p].results \cup {"aborted"} \in SUBSET Outcomes
      BY RunTypes DEF MaintInv, Outcomes
    <3>2. QED
      BY <1>3, <3>1, EndsEffect DEF MaintInv
  <2>2. /\ maintLease' = Released(keeper[p].holder) \/ (maintLease' = maintLease /\ maintFaults' # 0)
        /\ maintFaults' = maintFaults \/ maintFaults' # 0
        /\ maintFaults' \in 0..MaxMaintFaults
    <3>1. CASE Renewable(keeper[p].holder)
      BY <1>3, <3>1, LeaseAssumption DEF MaintInv, MaintTypeOK
    <3>2. CASE ~Renewable(keeper[p].holder)
      BY <1>3, <3>2, GivesBackEffect DEF MaintInv
    <3>3. QED
      BY <3>1, <3>2
  <2>3. HolderIds' /\ RunsHoldLease' /\ LeaseGivenBack'
    BY <1>1, <1>3, <2>1, <2>2, EndKeeps
  <2>4. MaintTypeOK'
    BY <1>1, <1>3, <2>1, <2>2, ReleasedType DEF MaintInv, MaintTypeOK, OwnRun
  <2>5. QED
    BY <2>3, <2>4 DEF MaintInv
<1>4. QED
  BY <1>2, <1>3 DEF RenewOrAbort

LEMMA NextTierKeeps ==
  ASSUME MaintInv, NEW p \in Keepers, NextTier(p)
  PROVE  MaintInv'
<1>1. /\ keeper[p].at = "between" /\ keeper[p].holder # NoHolder /\ keeper[p].tier \in Tiers
      /\ signal' \in [Keepers -> BOOLEAN] /\ UNCHANGED <<maintLease, claims, maintFaults>>
  BY DEF NextTier, At, MaintInv, HolderIds, MaintTypeOK
<1>2. /\ OwnRun(p) /\ keeper'[p].holder = keeper[p].holder
      /\ \/ keeper'[p].at = "releasing"
         \/ /\ keeper[p].tier # LastTier
            /\ keeper'[p].at = "working" /\ keeper'[p].tier = keeper[p].tier + 1
            /\ keeper'[p].timer = 0 /\ keeper'[p].rest = keeper[p].rest
  <2>1. CASE keeper[p].tier = LastTier
    <3> DEFINE run == [keeper[p] EXCEPT !.at = "releasing"]
    <3>1. run \in KeeperState /\ run.at = "releasing" /\ run.holder = keeper[p].holder
      BY RunTypes DEF MaintInv, KeeperState
    <3>2. keeper' = [keeper EXCEPT ![p] = run]
      BY <2>1 DEF NextTier
    <3> HIDE DEF run
    <3>3. QED
      BY <3>1, <3>2 DEF OwnRun, MaintInv, MaintTypeOK
  <2>2. CASE keeper[p].tier # LastTier /\ StartTier(p, keeper[p].tier + 1)
    <3>1. keeper[p].tier + 1 \in Tiers
      BY <1>1, <2>2 DEF Tiers, LastTier
    <3>2. QED
      BY <2>2, <3>1, StartEffect DEF MaintInv
  <2>3. CASE keeper' = [keeper EXCEPT
                          ![p].at = "releasing",
                          ![p].results = @ \cup {"not idle"},
                          ![p].status = IF keeper[p].tier = 1 THEN "partial" ELSE @]
    <3> DEFINE status == IF keeper[p].tier = 1 THEN "partial" ELSE keeper[p].status
               results == keeper[p].results \cup {"not idle"}
               run == [keeper[p] EXCEPT !.at = "releasing", !.results = results, !.status = status]
    <3>1. status \in {"none", "success", "partial", "failure"} /\ results \in SUBSET Outcomes
      BY RunTypes DEF MaintInv, Outcomes
    <3>2. keeper' = [keeper EXCEPT ![p] = run]
      BY <2>3
    <3> HIDE DEF status, results
    <3>3. run \in KeeperState /\ run.at = "releasing" /\ run.holder = keeper[p].holder
      BY <3>1, RunTypes DEF MaintInv, KeeperState
    <3> HIDE DEF run
    <3>4. QED
      BY <3>2, <3>3 DEF OwnRun, MaintInv, MaintTypeOK
  <2>4. QED
    BY <2>1, <2>2, <2>3 DEF NextTier
<1>3. keeper'[p].rest = "awake" /\ keeper'[p].at = "working" => Holds(p)'
  <2> SUFFICES ASSUME keeper'[p].rest = "awake", keeper'[p].at = "working" PROVE Holds(p)'
    OBVIOUS
  <2>1. /\ keeper[p].tier # LastTier /\ keeper'[p].tier = keeper[p].tier + 1
        /\ keeper'[p].timer = 0 /\ keeper[p].rest = "awake"
    BY <1>2
  <2>2. Holds(p)
    BY <1>1, <2>1 DEF MaintInv, RunsHoldLease
  <2>3. SpentBefore(keeper[p].tier) + keeper[p].timer <= SpentBefore(keeper[p].tier + 1)
    BY <1>1, <2>1, RunTypes DEF SpentBefore, Tiers, LastTier, MaintInv
  <2>4. maintLease.left + SpentBefore(keeper[p].tier + 1) >= LeaseTicks
    <3>1. SpentBefore(keeper[p].tier) \in Nat /\ SpentBefore(keeper[p].tier + 1) \in Nat
      BY LeaseAssumption DEF SpentBefore
    <3>2. QED
      BY <1>1, <2>2, <2>3, <3>1, RunTypes, LeaseAssumption DEF Holds, MaintInv
  <2>5. SpentBefore(keeper[p].tier + 1) \in Nat
    BY LeaseAssumption DEF SpentBefore
  <2>6. QED
    BY <1>1, <1>2, <2>1, <2>2, <2>4, <2>5, RunTypes DEF Holds, MaintInv
<1>4. keeper'[p].at = "working" => keeper'[p].tier \in Tiers
  BY <1>1, <1>2 DEF Tiers, LastTier
<1>5. HolderIds' /\ RunsHoldLease' /\ LeaseGivenBack'
  BY <1>1, <1>2, <1>3, <1>4, GoOnKeeps
<1>6. MaintTypeOK'
  BY <1>1, <1>2 DEF MaintInv, MaintTypeOK, OwnRun
<1>7. QED
  BY <1>5, <1>6 DEF MaintInv

\* Release and crash end a run; the crash, and the release that fails, are faults.
LEMMA LeaveKeeps ==
  ASSUME MaintInv, NEW p \in Keepers, Release(p) \/ CrashKeeper(p)
  PROVE  MaintInv'
<1>1. /\ keeper[p].at # "idle" /\ claims' = claims /\ signal' \in [Keepers -> BOOLEAN]
      /\ maintFaults' = maintFaults \/ maintFaults' # 0
      /\ maintFaults' \in 0..MaxMaintFaults
  <2>1. /\ keeper[p].at # "idle" /\ claims' = claims
        /\ maintFaults' = maintFaults \/ (maintFaults < MaxMaintFaults /\ maintFaults' = maintFaults + 1)
    BY DEF Release, GivesBack, CrashKeeper, At
  <2>2. signal' \in [Keepers -> BOOLEAN]
    BY DEF Release, CrashKeeper, MaintInv, MaintTypeOK
  <2>3. QED
    BY <2>1, <2>2, LeaseAssumption DEF MaintInv, MaintTypeOK
<1>2. \/ maintLease' = Released(keeper[p].holder)
      \/ maintLease' = maintLease /\ maintFaults' # 0
  BY GivesBackEffect, RunTypes, LeaseAssumption DEF Release, CrashKeeper, MaintInv, MaintTypeOK
<1>3. OwnRun(p) /\ keeper'[p].at = "idle" /\ keeper'[p].holder = NoHolder
  <2>1. CASE Release(p)
    BY <2>1, EndsEffect, RunTypes DEF Release, MaintInv
  <2>2. CASE CrashKeeper(p)
    BY <2>2, FreshRun DEF CrashKeeper, OwnRun, MaintInv, MaintTypeOK
  <2>3. QED
    BY <2>1, <2>2
<1>4. HolderIds' /\ RunsHoldLease' /\ LeaseGivenBack'
  BY <1>1, <1>2, <1>3, EndKeeps
<1>5. MaintTypeOK'
  BY <1>1, <1>2, <1>3, ReleasedType DEF MaintInv, MaintTypeOK, OwnRun
<1>6. QED
  BY <1>4, <1>5 DEF MaintInv

\* A suspended run no longer counts on its lease, even after it wakes.
LEMMA RestKeeps ==
  ASSUME MaintInv, NEW p \in Keepers, Sleep(p) \/ Wake(p)
  PROVE  MaintInv'
<1> DEFINE rest == IF Sleep(p) THEN "asleep" ELSE "rested"
           run == [keeper[p] EXCEPT !.rest = rest]
<1>1. keeper' = [keeper EXCEPT ![p] = run]
  BY DEF Sleep, Wake
<1>2. rest \in {"asleep", "rested"}
  OBVIOUS
<1> HIDE DEF rest
<1>3. /\ run \in KeeperState /\ run.at = keeper[p].at /\ run.holder = keeper[p].holder
      /\ run.tier = keeper[p].tier /\ run.rest # "awake"
  BY <1>2, RunTypes DEF MaintInv, KeeperState
<1> HIDE DEF run
<1>4. OwnRun(p) /\ keeper'[p] = run
  BY <1>1, <1>3 DEF OwnRun, MaintInv, MaintTypeOK
<1>5. /\ UNCHANGED <<maintLease, signal, claims>>
      /\ maintFaults' = maintFaults \/ maintFaults' # 0
      /\ maintFaults' \in 0..MaxMaintFaults
  BY RunTypes, LeaseAssumption DEF Sleep, Wake, MaintInv, MaintTypeOK
<1>6. \A q \in Keepers : /\ keeper'[q].at = keeper[q].at /\ keeper'[q].holder = keeper[q].holder
                         /\ keeper'[q].tier = keeper[q].tier
                         /\ q # p => keeper'[q] = keeper[q]
  BY <1>3, <1>4 DEF OwnRun
<1>7. MaintTypeOK'
  BY <1>4, <1>5 DEF MaintInv, MaintTypeOK, OwnRun
<1>8. HolderIds'
  BY <1>5, <1>6 DEF MaintInv, HolderIds
<1>9. RunsHoldLease'
  BY <1>3, <1>4, <1>5, <1>6 DEF MaintInv, RunsHoldLease, Holds
<1>10. LeaseGivenBack'
  BY <1>5, <1>6 DEF MaintInv, LeaseGivenBack
<1>11. QED
  BY <1>7, <1>8, <1>9, <1>10 DEF MaintInv

\* A tick is time that a run not suspended spends in a tier before its next renewal.
LEMMA TickKeeps ==
  ASSUME MaintInv, Tick
  PROVE  MaintInv'
<1>1. /\ maintLease.left >= 0 /\ UNCHANGED <<signal, claims, maintFaults>>
      /\ maintLease' \in [holder : 0..MaxMaintRuns, left : -1..LeaseTicks]
      /\ maintLease'.holder = maintLease.holder /\ maintLease'.left = maintLease.left - 1
  BY LeaseAssumption DEF Tick, MaintInv, MaintTypeOK
<1>2. ASSUME NEW q \in Keepers
      PROVE  /\ keeper'[q] \in KeeperState
             /\ keeper'[q].at = keeper[q].at /\ keeper'[q].holder = keeper[q].holder
             /\ keeper'[q].tier = keeper[q].tier /\ keeper'[q].rest = keeper[q].rest
             /\ keeper'[q].timer = IF keeper[q].at = "working" /\ keeper[q].timer < RenewEvery
                                   THEN keeper[q].timer + 1 ELSE keeper[q].timer
  <2> DEFINE run == [keeper[q] EXCEPT !.timer = @ + 1]
  <2>1. keeper'[q] = IF keeper[q].at = "working" /\ keeper[q].timer < RenewEvery THEN run ELSE keeper[q]
    BY DEF Tick
  <2>2. keeper[q].timer < RenewEvery =>
          /\ run \in KeeperState /\ run.at = keeper[q].at /\ run.holder = keeper[q].holder
          /\ run.tier = keeper[q].tier /\ run.rest = keeper[q].rest /\ run.timer = keeper[q].timer + 1
    BY RunTypes DEF MaintInv, KeeperState
  <2> HIDE DEF run
  <2>3. QED
    BY <2>1, <2>2, RunTypes DEF MaintInv
<1>3. MaintTypeOK'
  <2>1. keeper' \in [Keepers -> KeeperState]
    BY <1>2 DEF Tick
  <2>2. QED
    BY <1>1, <2>1 DEF MaintInv, MaintTypeOK
<1>4. HolderIds'
  BY <1>1, <1>2 DEF MaintInv, HolderIds
<1>5. RunsHoldLease'
  <2> SUFFICES ASSUME NEW q \in Keepers, keeper[q].rest = "awake",
                      keeper[q].at \in {"claimed", "working", "between"}
               PROVE  Holds(q)'
    BY <1>2 DEF RunsHoldLease
  <2>1. keeper[q].at = "working" /\ keeper[q].timer < RenewEvery
    BY DEF Tick, Asleep
  <2>2. Holds(q) /\ keeper'[q].timer = keeper[q].timer + 1
    BY <1>2, <2>1 DEF MaintInv, RunsHoldLease
  <2>3. SpentBefore(keeper[q].tier) \in Nat
    BY LeaseAssumption DEF SpentBefore
  <2>4. QED
    BY <1>1, <1>2, <2>1, <2>2, <2>3, RunTypes, LeaseAssumption DEF Holds, MaintInv
<1>6. LeaseGivenBack'
  BY <1>1, <1>2 DEF MaintInv, LeaseGivenBack
<1>7. QED
  BY <1>3, <1>4, <1>5, <1>6 DEF MaintInv

LEMMA MaintStep ==
  ASSUME MaintInv, [MaintNext]_maintVars
  PROVE  MaintInv'
<1>1. ASSUME NEW p \in Keepers, SignalActivity(p) PROVE MaintInv'
  BY <1>1
  DEF SignalActivity, MaintInv, MaintTypeOK, HolderIds, RunsHoldLease, Holds, LeaseGivenBack
<1>2. CASE UNCHANGED maintVars
  BY <1>2 DEF maintVars, MaintInv, MaintTypeOK, HolderIds, RunsHoldLease, Holds, LeaseGivenBack
<1>3. QED
  BY <1>1, <1>2, CheckIdleKeeps, ClaimKeeps, FirstCheckKeeps, FinishTierKeeps, RenewOrAbortKeeps,
     NextTierKeeps, LeaveKeeps, RestKeeps, TickKeeps DEF MaintNext

THEOREM MaintInvHolds == MaintSpec => []MaintInv
<1>1. MaintInit => MaintInv
  BY LeaseAssumption, FreshRun
  DEF MaintInit, MaintInv, MaintTypeOK, HolderIds, RunsHoldLease, LeaseGivenBack,
     NoHolder
<1>2. MaintInv /\ [MaintNext]_maintVars => MaintInv'
  BY MaintStep
<1>3. QED
  BY <1>1, <1>2, PTL DEF MaintSpec

\* For any number of processes, claims and faults, and any lease that outlives three renewal
\* intervals: two processes work on the tables at the same time only if one of them was suspended,
\* and without faults every way out of a run gives the lease back (run_maintenance,
\* with_lease_renewal and the MaintenanceLeaseStore).
THEOREM MaintenanceExcludes == MaintSpec => []LeaseDiscipline
<1>1. MaintInv => OneMaintainer
  <2> SUFFICES ASSUME MaintInv, NEW p \in Keepers, NEW q \in Keepers,
                      keeper[p].at = "working", keeper[q].at = "working",
                      keeper[p].rest = "awake", keeper[q].rest = "awake"
               PROVE  p = q
    BY DEF OneMaintainer
  <2>1. maintLease.holder = keeper[p].holder /\ maintLease.holder = keeper[q].holder
    BY HeldIsLive
  <2>2. QED
    BY <2>1 DEF MaintInv, HolderIds
<1>2. MaintInv => LeaseDiscipline
  BY <1>1 DEF LeaseDiscipline, MaintInv
<1>3. QED
  BY <1>2, MaintInvHolds, PTL

-----------------------------------------------------------------------------
(* The review log of the skill registry.  What a transition writes is one  *)
(* row at the end of the log, so the rows of the version it moves chain on *)
(* and those of the others stay as they are.                               *)

LEMMA RowsAppend ==
  ASSUME NEW log \in Seq(ReviewRow), NEW e \in ReviewRow, NEW v
  PROVE  /\ RowsOf(log, v) \subseteq 1..Len(log) /\ IsFiniteSet(RowsOf(log, v))
         /\ RowsOf(Append(log, e), v) =
              RowsOf(log, v) \cup (IF e.version = v THEN {Len(log) + 1} ELSE {})
         /\ Append(log, e)[Len(log) + 1] = e
         /\ \A i \in RowsOf(log, v) : Append(log, e)[i] = log[i]
<1>1. RowsOf(log, v) \subseteq 1..Len(log)
  BY DEF RowsOf
<1>2. IsFiniteSet(1..Len(log))
  BY FS_Interval
<1>3. IsFiniteSet(RowsOf(log, v))
  BY <1>1, <1>2, FS_Subset
<1>4. /\ DOMAIN Append(log, e) = 1..(Len(log) + 1)
      /\ Append(log, e)[Len(log) + 1] = e
      /\ \A i \in 1..Len(log) : Append(log, e)[i] = log[i]
  OBVIOUS
<1>5. 1..(Len(log) + 1) = (1..Len(log)) \cup {Len(log) + 1} /\ DOMAIN log = 1..Len(log)
  OBVIOUS
<1>6. RowsOf(Append(log, e), v) = RowsOf(log, v) \cup (IF e.version = v THEN {Len(log) + 1} ELSE {})
  BY <1>4, <1>5 DEF RowsOf
<1>7. QED
  BY <1>1, <1>3, <1>4, <1>6

\* A row of another version.
LEMMA OtherRowExplains ==
  ASSUME NEW log \in Seq(ReviewRow), NEW e \in ReviewRow, NEW v, NEW status, NEW revision,
         Explains(log, v, status, revision), e.version # v
  PROVE  Explains(Append(log, e), v, status, revision)
<1> DEFINE rows == RowsOf(log, v)
           longer == Append(log, e)
<1>1. RowsOf(longer, v) = rows \cup (IF e.version = v THEN {Len(log) + 1} ELSE {})
  BY RowsAppend
<1>2. RowsOf(longer, v) = rows /\ \A i \in rows : longer[i] = log[i]
  BY <1>1, RowsAppend
<1>3. /\ Cardinality(rows) = revision /\ (rows = {} => status = "candidate")
      /\ \A i \in rows :
           /\ (\A j \in rows : i <= j) => log[i].from = "candidate"
           /\ (\A j \in rows : j <= i) => log[i].to = status
           /\ \A j \in rows : i < j /\ (\A k \in rows : k <= i \/ j <= k) => log[j].from = log[i].to
  BY DEF Explains
<1> HIDE DEF rows, longer
<1>4. \A i \in rows :
        /\ (\A j \in rows : i <= j) => longer[i].from = "candidate"
        /\ (\A j \in rows : j <= i) => longer[i].to = status
        /\ \A j \in rows : i < j /\ (\A k \in rows : k <= i \/ j <= k) => longer[j].from = longer[i].to
  BY <1>2, <1>3
<1>5. Explains(longer, v, status, revision)
  BY <1>2, <1>3, <1>4 DEF Explains
<1>6. QED
  BY <1>5 DEF longer

\* A row that moves the version from the status it has.
LEMMA OwnRowExplains ==
  ASSUME NEW log \in Seq(ReviewRow), NEW e \in ReviewRow, NEW status, NEW revision \in Nat,
         Explains(log, e.version, status, revision), e.from = status
  PROVE  Explains(Append(log, e), e.version, e.to, revision + 1)
<1> DEFINE old == RowsOf(log, e.version)
           new == RowsOf(Append(log, e), e.version)
           longer == Append(log, e)
           n == Len(log) + 1
<1>1. /\ old \subseteq 1..Len(log) /\ IsFiniteSet(old) /\ new = old \cup {n}
      /\ longer[n] = e /\ (\A i \in old : longer[i] = log[i]) /\ n \in Nat
  BY RowsAppend
<1>2. /\ Cardinality(old) = revision /\ (old = {} => status = "candidate")
      /\ \A i \in old :
           /\ (\A j \in old : i <= j) => log[i].from = "candidate"
           /\ (\A j \in old : j <= i) => log[i].to = status
           /\ \A j \in old : i < j /\ (\A k \in old : k <= i \/ j <= k) => log[j].from = log[i].to
  BY DEF Explains
<1>3. \A i \in old : i \in Nat /\ i < n
  BY <1>1
<1>4. Cardinality(new) = revision + 1
  <2>1. n \notin old
    BY <1>3
  <2>2. QED
    BY <1>1, <1>2, <2>1, FS_AddElement
<1> HIDE DEF old, new, longer, n
<1>5. \A i \in new : (\A j \in new : i <= j) => longer[i].from = "candidate"
  BY <1>1, <1>2, <1>3
<1>6. \A i \in new : (\A j \in new : j <= i) => longer[i].to = e.to
  BY <1>1, <1>3
<1>7. ASSUME NEW i \in new, NEW j \in new, i < j, \A k \in new : k <= i \/ j <= k
      PROVE  longer[j].from = longer[i].to
  <2>1. i \in old
    BY <1>1, <1>3, <1>7
  <2>2. CASE j \in old
    BY <1>1, <1>2, <1>7, <2>1, <2>2
  <2>3. CASE j = n
    <3>1. \A k \in old : k <= i
      BY <1>1, <1>3, <1>7, <2>3
    <3>2. log[i].to = status
      BY <1>2, <2>1, <3>1
    <3>3. QED
      BY <1>1, <2>1, <2>3, <3>2
  <2>4. QED
    BY <1>1, <2>2, <2>3
<1>8. new # {}
  BY <1>1
<1>9. QED
  BY <1>4, <1>5, <1>6, <1>7, <1>8 DEF Explains, new, longer

-----------------------------------------------------------------------------
(* The skill registry.  A version moves at most twice, its revision tells  *)
(* how far it has come; the log names versions that exist.                 *)

RevisionsCount ==
  \A v \in Versions :
    /\ skills[v].status = "candidate" => skills[v].revision = 0
    /\ skills[v].status = "promoted" => skills[v].revision = 1

RowsNamed == \A i \in DOMAIN reviews : reviews[i].version \in Versions

SkillInv == SkillsTypeOK /\ RevisionsCount /\ RowsNamed /\ OneAuthority /\ LogExplains /\ ReviewGoverned

\* The condition of ReviewGoverned on one row.
RowGoverned(i) ==
  reviews[i].to = "promoted"
    /\ (\E u \in {reviews[i].version} \cup Displaced(i) : RequiresDistinctReview(skills[u].scope))
  => reviews[i].reviewer # skills[reviews[i].version].author /\ skills[reviews[i].version].validated

\* No transition takes back who proposed a version, for whom, and that it was tried.
KeepsProvenance ==
  /\ Versions \subseteq Versions'
  /\ \A v \in Versions : /\ skills'[v].scope = skills[v].scope /\ skills'[v].author = skills[v].author
                         /\ skills[v].validated => skills'[v].validated

\* The rows that were there stay governed: the row after one of them never displaces anybody.
LEMMA OldRowsGoverned ==
  ASSUME SkillInv, KeepsProvenance, reviews' \in Seq(ReviewRow), Len(reviews) <= Len(reviews'),
         \A i \in DOMAIN reviews : reviews'[i] = reviews[i],
         Len(reviews) < Len(reviews') => reviews'[Len(reviews) + 1].to # "superseded"
  PROVE  \A i \in DOMAIN reviews : RowGoverned(i)'
<1> SUFFICES ASSUME NEW i \in DOMAIN reviews PROVE RowGoverned(i)'
  OBVIOUS
<1>1. RowGoverned(i)
  BY DEF SkillInv, ReviewGoverned, RowGoverned
<1>2. /\ reviews \in Seq(ReviewRow) /\ i \in 1..Len(reviews) /\ reviews'[i] = reviews[i]
      /\ reviews[i].version \in Versions
  BY DEF SkillInv, SkillsTypeOK, RowsNamed
<1>3. Displaced(i)' = Displaced(i) /\ Displaced(i) \subseteq Versions
  <2>1. CASE i < Len(reviews)
    <3>1. i + 1 \in DOMAIN reviews /\ reviews'[i + 1] = reviews[i + 1] /\ i < Len(reviews')
      BY <1>2, <2>1
    <3>2. reviews[i + 1].version \in Versions
      BY <3>1 DEF SkillInv, RowsNamed
    <3>3. QED
      BY <2>1, <3>1, <3>2 DEF Displaced
  <2>2. CASE i = Len(reviews)
    BY <1>2, <2>2 DEF Displaced
  <2>3. QED
    BY <1>2, <2>1, <2>2
<1>4. \A u \in {reviews[i].version} \cup Displaced(i) : skills'[u].scope = skills[u].scope
  BY <1>2, <1>3 DEF KeepsProvenance
<1>5. QED
  BY <1>1, <1>2, <1>3, <1>4 DEF RowGoverned, KeepsProvenance

LEMMA ProposeKeeps ==
  ASSUME SkillInv, NEW author \in Actors, NEW scope \in Scopes, NEW wing \in Wings \cup {NoWing},
         ProposeSkill(author, scope, wing)
  PROVE  SkillInv'
<1> DEFINE row == [scope |-> scope, wing |-> wing, author |-> author,
                   status |-> "candidate", revision |-> 0, validated |-> FALSE]
           n == Len(skills) + 1
<1>1. /\ skills \in Seq(SkillRow) /\ reviews \in Seq(ReviewRow) /\ row \in SkillRow
      /\ skills' = Append(skills, row) /\ reviews' = reviews
      /\ row.status = "candidate" /\ row.revision = 0
  BY DEF SkillInv, SkillsTypeOK, SkillRow, SkillStatuses, ProposeSkill
<1>2. Len(skills) < MaxVersions
  BY DEF ProposeSkill
<1> HIDE DEF row
<1>3. /\ Versions' = Versions \cup {n} /\ n \notin Versions /\ skills'[n] = row
      /\ \A v \in Versions : skills'[v] = skills[v]
  BY <1>1 DEF Versions
<1> HIDE DEF n
<1>4. SkillsTypeOK'
  BY <1>1, <1>2, SkillAssumption DEF SkillsTypeOK
<1>5. RevisionsCount' /\ RowsNamed' /\ KeepsProvenance
  BY <1>1, <1>3 DEF SkillInv, RevisionsCount, RowsNamed, KeepsProvenance
<1>6. OneAuthority'
  BY <1>1, <1>3 DEF SkillInv, OneAuthority, PromotedVersions
<1>7. LogExplains'
  <2>1. RowsOf(reviews, n) = {}
    BY <1>3 DEF RowsOf, SkillInv, RowsNamed
  <2>2. Cardinality(RowsOf(reviews, n)) = 0
    BY <2>1, FS_EmptySet
  <2>3. Explains(reviews, n, "candidate", 0)
    BY <2>1, <2>2 DEF Explains
  <2>4. QED
    BY <1>1, <1>3, <2>3 DEF SkillInv, LogExplains
<1>8. ReviewGoverned'
  <2>1. \A i \in DOMAIN reviews : RowGoverned(i)'
    BY <1>1, <1>5, OldRowsGoverned
  <2>2. QED
    BY <1>1, <2>1 DEF ReviewGoverned, RowGoverned
<1>9. QED
  BY <1>4, <1>5, <1>6, <1>7, <1>8 DEF SkillInv

LEMMA OutcomeKeeps ==
  ASSUME SkillInv, NEW v \in Versions, RecordOutcome(v)
  PROVE  SkillInv'
<1> DEFINE row == [skills[v] EXCEPT !.validated = TRUE]
<1>1. /\ skills \in Seq(SkillRow) /\ reviews \in Seq(ReviewRow) /\ reviews' = reviews
      /\ v \in 1..Len(skills) /\ skills[v] \in SkillRow
  BY DEF SkillInv, SkillsTypeOK, RecordOutcome, Versions
<1>2. /\ row \in SkillRow /\ row.status = skills[v].status /\ row.revision = skills[v].revision
      /\ row.scope = skills[v].scope /\ row.author = skills[v].author /\ row.validated
  BY <1>1 DEF SkillRow
<1>3. skills' = [skills EXCEPT ![v] = row]
  BY DEF RecordOutcome
<1> HIDE DEF row
<1>4. skills' \in Seq(SkillRow) /\ Len(skills') = Len(skills)
  BY <1>1, <1>2, <1>3
<1>5. Versions' = Versions /\ \A u \in Versions : skills'[u] = IF u = v THEN row ELSE skills[u]
  BY <1>1, <1>3 DEF Versions
<1>6. \A u \in Versions : /\ skills'[u].status = skills[u].status
                          /\ skills'[u].revision = skills[u].revision
                          /\ skills'[u].scope = skills[u].scope /\ skills'[u].author = skills[u].author
                          /\ skills[u].validated => skills'[u].validated
  BY <1>2, <1>5
<1>7. SkillsTypeOK' /\ RevisionsCount' /\ RowsNamed' /\ KeepsProvenance
  BY <1>1, <1>4, <1>5, <1>6 DEF SkillInv, SkillsTypeOK, RevisionsCount, RowsNamed, KeepsProvenance
<1>8. OneAuthority'
  BY <1>5, <1>6 DEF SkillInv, OneAuthority, PromotedVersions
<1>9. LogExplains'
  BY <1>1, <1>5, <1>6 DEF SkillInv, LogExplains
<1>10. ReviewGoverned'
  <2>1. \A i \in DOMAIN reviews : RowGoverned(i)'
    BY <1>1, <1>7, OldRowsGoverned
  <2>2. QED
    BY <1>1, <2>1 DEF ReviewGoverned, RowGoverned
<1>11. QED
  BY <1>7, <1>8, <1>9, <1>10 DEF SkillInv

\* A transition moves the status and counts one revision; the rest of the row stays.
LEMMA MovedEffect ==
  ASSUME SkillInv, NEW v \in Versions, NEW to \in SkillStatuses,
         skills[v].status \in {"candidate", "promoted"}
  PROVE  /\ Moved(v, to) \in SkillRow /\ Moved(v, to).status = to
         /\ Moved(v, to).revision = skills[v].revision + 1
         /\ Moved(v, to).scope = skills[v].scope /\ Moved(v, to).author = skills[v].author
         /\ Moved(v, to).validated = skills[v].validated
         /\ skills[v].revision \in Nat
<1> DEFINE n == skills[v].revision + 1
<1>1. skills[v] \in SkillRow /\ skills[v].revision \in Nat /\ n \in 0..2
  BY DEF SkillInv, SkillsTypeOK, Versions, RevisionsCount
<1>2. Moved(v, to) = [skills[v] EXCEPT !.status = to, !.revision = n]
  BY DEF Moved
<1> HIDE DEF n
<1>3. /\ Moved(v, to) \in SkillRow /\ Moved(v, to).status = to /\ Moved(v, to).revision = n
      /\ Moved(v, to).scope = skills[v].scope /\ Moved(v, to).author = skills[v].author
      /\ Moved(v, to).validated = skills[v].validated
  BY <1>1, <1>2 DEF SkillRow
<1>4. QED
  BY <1>1, <1>3 DEF n

\* The row a transition writes.
LEMMA EntryRow ==
  ASSUME SkillInv, NEW v \in Versions, NEW to \in SkillStatuses, NEW reviewer \in Actors
  PROVE  /\ Entry(v, to, reviewer) \in ReviewRow
         /\ Entry(v, to, reviewer).version = v /\ Entry(v, to, reviewer).from = skills[v].status
         /\ Entry(v, to, reviewer).to = to /\ Entry(v, to, reviewer).reviewer = reviewer
<1>0. skills \in Seq(SkillRow) /\ Len(skills) <= MaxVersions /\ v \in 1..Len(skills)
  BY DEF SkillInv, SkillsTypeOK, Versions
<1>1. skills[v] \in SkillRow /\ v \in 1..MaxVersions
  BY <1>0, SkillAssumption
<1>2. skills[v].status \in SkillStatuses
  BY <1>1 DEF SkillRow
<1>3. QED
  BY <1>1, <1>2 DEF Entry, ReviewRow

LEMMA RetireKeeps ==
  ASSUME SkillInv, NEW v \in Versions, NEW expected \in 0..2, NEW reviewer \in Actors,
         RetireSkill(v, expected, reviewer)
  PROVE  SkillInv'
<1> DEFINE row == Moved(v, "retired")
           e == Entry(v, "retired", reviewer)
<1>0. PICK n \in Nat : n = Len(reviews)
  BY DEF SkillInv, SkillsTypeOK
<1>1. /\ skills \in Seq(SkillRow) /\ reviews \in Seq(ReviewRow) /\ Len(skills) <= MaxVersions
      /\ v \in 1..Len(skills) /\ skills[v] \in SkillRow
      /\ skills[v].status \in {"candidate", "promoted"}
  <2>1. /\ skills \in Seq(SkillRow) /\ reviews \in Seq(ReviewRow) /\ Len(skills) <= MaxVersions
        /\ v \in 1..Len(skills)
    BY DEF SkillInv, SkillsTypeOK, Versions
  <2>2. skills[v] \in SkillRow
    BY <2>1
  <2>3. skills[v].status \in SkillStatuses
    BY <2>2 DEF SkillRow
  <2>4. QED
    BY <2>1, <2>2, <2>3 DEF RetireSkill, TerminalSkill, SkillStatuses
<1>2. /\ row \in SkillRow /\ row.status = "retired" /\ row.revision = skills[v].revision + 1
      /\ row.scope = skills[v].scope /\ row.author = skills[v].author
      /\ row.validated = skills[v].validated /\ skills[v].revision \in Nat
  BY <1>1, MovedEffect DEF SkillStatuses
<1>3. e \in ReviewRow /\ e.version = v /\ e.from = skills[v].status /\ e.to = "retired"
  BY EntryRow DEF SkillStatuses
<1>4. skills' = [skills EXCEPT ![v] = row] /\ reviews' = Append(reviews, e)
  BY DEF RetireSkill
<1> HIDE DEF row, e
<1>5. skills' \in Seq(SkillRow) /\ Len(skills') = Len(skills)
  BY <1>1, <1>2, <1>4
<1>6. Versions' = Versions /\ \A u \in Versions : skills'[u] = IF u = v THEN row ELSE skills[u]
  BY <1>1, <1>4 DEF Versions
<1>7. /\ reviews' \in Seq(ReviewRow) /\ Len(reviews') = Len(reviews) + 1
      /\ reviews'[Len(reviews) + 1] = e /\ \A i \in DOMAIN reviews : reviews'[i] = reviews[i]
  BY <1>1, <1>3, <1>4
<1>8. SkillsTypeOK' /\ RevisionsCount' /\ KeepsProvenance
  BY <1>1, <1>2, <1>5, <1>6, <1>7 DEF SkillInv, SkillsTypeOK, RevisionsCount, KeepsProvenance
<1>9. RowsNamed'
  BY <1>1, <1>3, <1>6, <1>7 DEF SkillInv, RowsNamed
<1>10. OneAuthority'
  BY <1>2, <1>6 DEF SkillInv, OneAuthority, PromotedVersions
<1>11. LogExplains'
  <2> SUFFICES ASSUME NEW u \in Versions
               PROVE  Explains(reviews', u, skills'[u].status, skills'[u].revision)
    BY <1>6 DEF LogExplains
  <2>1. Explains(reviews, u, skills[u].status, skills[u].revision)
    BY DEF SkillInv, LogExplains
  <2>2. CASE u = v
    BY <1>1, <1>2, <1>3, <1>4, <1>6, <2>1, <2>2, OwnRowExplains
  <2>3. CASE u # v
    BY <1>1, <1>3, <1>4, <1>6, <2>1, <2>3, OtherRowExplains
  <2>4. QED
    BY <2>2, <2>3
<1>12. ReviewGoverned'
  <2>1. \A i \in DOMAIN reviews : RowGoverned(i)'
    BY <1>1, <1>3, <1>7, <1>8, OldRowsGoverned
  <2>2. RowGoverned(n + 1)'
    BY <1>0, <1>3, <1>7 DEF RowGoverned
  <2>3. \A i \in DOMAIN reviews' : i \in DOMAIN reviews \/ i = n + 1
    BY <1>0, <1>1, <1>7
  <2>4. QED
    BY <2>1, <2>2, <2>3 DEF ReviewGoverned, RowGoverned
<1>13. QED
  BY <1>8, <1>9, <1>10, <1>11, <1>12 DEF SkillInv

\* A promotion makes v the authority and supersedes the one there was, if any: the log gains one
\* row or two, and both scopes governed the promotion.
LEMMA PromoteKeeps ==
  ASSUME SkillInv, NEW v \in Versions, NEW expected \in 0..2, NEW reviewer \in Actors,
         PromoteSkill(v, expected, reviewer)
  PROVE  SkillInv'
<1> DEFINE e == Entry(v, "promoted", reviewer)
           log == Append(reviews, e)
<1>0. PICK n \in Nat : n = Len(reviews)
  BY DEF SkillInv, SkillsTypeOK
<1>1. /\ skills \in Seq(SkillRow) /\ reviews \in Seq(ReviewRow) /\ Len(skills) <= MaxVersions
      /\ skills[v].status = "candidate" /\ skills[v].revision = 0
      /\ \A u, w \in PromotedVersions : u = w
  BY DEF SkillInv, SkillsTypeOK, PromoteSkill, RevisionsCount, OneAuthority
<1>2. v \notin PromotedVersions /\ PromotedVersions \subseteq Versions
  BY <1>1 DEF PromotedVersions
<1>3. /\ e \in ReviewRow /\ e.version = v /\ e.from = skills[v].status /\ e.to = "promoted"
      /\ e.reviewer = reviewer
  BY EntryRow DEF SkillStatuses
<1>4. /\ log \in Seq(ReviewRow) /\ Len(log) = Len(reviews) + 1 /\ log[Len(reviews) + 1] = e
      /\ \A i \in DOMAIN reviews : log[i] = reviews[i]
  BY <1>1, <1>3
<1>5. /\ Moved(v, "promoted") \in SkillRow /\ Moved(v, "promoted").status = "promoted"
      /\ Moved(v, "promoted").revision = 1
      /\ Moved(v, "promoted").scope = skills[v].scope /\ Moved(v, "promoted").author = skills[v].author
      /\ Moved(v, "promoted").validated = skills[v].validated
  BY <1>1, MovedEffect DEF SkillStatuses
<1>6. ASSUME NEW u \in PromotedVersions
      PROVE  /\ Moved(u, "superseded") \in SkillRow /\ Moved(u, "superseded").status = "superseded"
             /\ Moved(u, "superseded").revision = skills[u].revision + 1
             /\ Moved(u, "superseded").scope = skills[u].scope
             /\ Moved(u, "superseded").author = skills[u].author
             /\ Moved(u, "superseded").validated = skills[u].validated
             /\ skills[u].revision \in Nat
  <2>1. u \in Versions /\ skills[u].status = "promoted"
    BY DEF PromotedVersions
  <2>2. QED
    BY <2>1, MovedEffect DEF SkillStatuses
<1>7. /\ Versions' = Versions /\ Len(skills') = Len(skills) /\ skills' \in Seq(SkillRow)
      /\ \A u \in Versions : skills'[u] = IF u = v THEN Moved(v, "promoted")
                                          ELSE IF u \in PromotedVersions THEN Moved(u, "superseded")
                                          ELSE skills[u]
  <2>1. skills' = [u \in 1..Len(skills) |-> IF u = v THEN Moved(v, "promoted")
                                          ELSE IF u \in PromotedVersions THEN Moved(u, "superseded")
                                          ELSE skills[u]]
    BY <1>1 DEF PromoteSkill, SupersededBy, Versions
  <2>2. \A u \in 1..Len(skills) : skills'[u] \in SkillRow
    BY <1>1, <1>5, <1>6, <2>1
  <2>3. skills' \in Seq(SkillRow) /\ Len(skills') = Len(skills) /\ DOMAIN skills' = DOMAIN skills
    BY <1>1, <2>1, <2>2
  <2>4. QED
    BY <1>1, <2>1, <2>3 DEF Versions
<1>8. /\ KeepsProvenance /\ RevisionsCount'
      /\ \A u \in Versions : skills'[u].status = "promoted" => u = v
      /\ skills'[v].author = skills[v].author /\ skills'[v].validated = skills[v].validated
  BY <1>2, <1>5, <1>6, <1>7 DEF KeepsProvenance, RevisionsCount, SkillInv, PromotedVersions
<1>9. OneAuthority'
  BY <1>7, <1>8 DEF OneAuthority, PromotedVersions
<1>10. \/ PromotedVersions = {} /\ reviews' = log
       \/ \E u \in PromotedVersions : reviews' = Append(log, Entry(u, "superseded", reviewer))
  BY DEF PromoteSkill, SupersededBy
<1>11. RequiresDistinctReview(skills[v].scope)
         \/ (\E u \in PromotedVersions : RequiresDistinctReview(skills[u].scope))
         => reviewer # skills[v].author /\ skills[v].validated
  <2> DEFINE shared == {u \in PromotedVersions : RequiresDistinctReview(skills[u].scope)}
  <2>1. CASE shared # {}
    <3>1. RequiresDistinctReview(skills[CHOOSE u \in shared : TRUE].scope)
      BY <2>1
    <3>2. QED
      BY <2>1, <3>1 DEF PromoteSkill, Governed, GoverningScope
  <2>2. CASE shared = {}
    BY <2>2 DEF PromoteSkill, Governed, GoverningScope
  <2>3. QED
    BY <2>1, <2>2
<1> HIDE DEF e
<1>12. ASSUME NEW u \in Versions
       PROVE  /\ u = v => Explains(log, u, "promoted", 1)
              /\ u # v => Explains(log, u, skills[u].status, skills[u].revision)
  <2>1. Explains(reviews, u, skills[u].status, skills[u].revision)
    BY DEF SkillInv, LogExplains
  <2>2. CASE u = v
    <3>1. Explains(log, e.version, e.to, 0 + 1)
      BY <1>1, <1>3, <2>1, <2>2, OwnRowExplains
    <3>2. QED
      BY <1>3, <2>2, <3>1
  <2>3. CASE u # v
    BY <1>1, <1>3, <2>1, <2>3, OtherRowExplains
  <2>4. QED
    BY <2>2, <2>3
<1> HIDE DEF log
<1>13. CASE PromotedVersions = {} /\ reviews' = log
  <2>1. SkillsTypeOK' /\ RowsNamed'
    BY <1>1, <1>3, <1>4, <1>7, <1>13 DEF SkillInv, SkillsTypeOK, RowsNamed
  <2>2. LogExplains'
    BY <1>5, <1>7, <1>12, <1>13 DEF LogExplains
  <2>3. ReviewGoverned'
    <3>1. \A i \in DOMAIN reviews : RowGoverned(i)'
      BY <1>1, <1>3, <1>4, <1>8, <1>13, OldRowsGoverned
    <3>2. RowGoverned(n + 1)'
      <4>1. Displaced(n + 1)' = {}
        BY <1>0, <1>1, <1>4, <1>13 DEF Displaced
      <4>2. skills'[v].scope = skills[v].scope
        BY <1>8 DEF KeepsProvenance
      <4>3. QED
        BY <1>0, <1>3, <1>4, <1>8, <1>11, <1>13, <4>1, <4>2 DEF RowGoverned
    <3>3. \A i \in DOMAIN reviews' : i \in DOMAIN reviews \/ i = n + 1
      BY <1>0, <1>1, <1>4, <1>13
    <3>4. QED
      BY <3>1, <3>2, <3>3 DEF ReviewGoverned, RowGoverned
  <2>4. QED
    BY <1>8, <1>9, <2>1, <2>2, <2>3 DEF SkillInv
<1>14. ASSUME NEW u \in PromotedVersions, reviews' = Append(log, Entry(u, "superseded", reviewer))
       PROVE  SkillInv'
  <2> DEFINE d == Entry(u, "superseded", reviewer)
  <2>1. /\ d \in ReviewRow /\ d.version = u /\ d.from = skills[u].status /\ d.to = "superseded"
        /\ u \in Versions /\ u # v
    BY <1>2, EntryRow DEF SkillStatuses
  <2>2. reviews' = Append(log, d)
    BY <1>14
  <2> HIDE DEF d
  <2>3. /\ reviews' \in Seq(ReviewRow) /\ Len(reviews') = Len(reviews) + 2
        /\ reviews'[Len(reviews) + 1] = e /\ reviews'[Len(reviews) + 2] = d
        /\ \A i \in DOMAIN reviews : reviews'[i] = reviews[i]
    BY <1>1, <1>4, <2>1, <2>2
  <2>4. \A i \in DOMAIN reviews' :
          i \in DOMAIN reviews \/ i = n + 1 \/ i = n + 2
    BY <1>0, <1>1, <2>3
  <2>5. SkillsTypeOK' /\ RowsNamed'
    <3>1. SkillsTypeOK'
      BY <1>1, <1>7, <2>3 DEF SkillsTypeOK
    <3>2. RowsNamed'
      BY <1>0, <1>3, <1>7, <2>1, <2>3, <2>4 DEF SkillInv, RowsNamed
    <3>3. QED
      BY <3>1, <3>2
  <2>6. LogExplains'
    <3> SUFFICES ASSUME NEW w \in Versions
                 PROVE  Explains(reviews', w, skills'[w].status, skills'[w].revision)
      BY <1>7 DEF LogExplains
    <3>1. CASE w = u
      <4>1. skills'[w].status = d.to /\ skills'[w].revision = skills[u].revision + 1
        BY <1>6, <1>7, <2>1, <3>1
      <4>2. Explains(log, d.version, skills[u].status, skills[u].revision)
        BY <1>12, <2>1
      <4>3. Explains(Append(log, d), d.version, d.to, skills[u].revision + 1)
        BY <1>4, <1>6, <2>1, <4>2, OwnRowExplains
      <4>4. QED
        BY <2>1, <2>2, <3>1, <4>1, <4>3
    <3>2. CASE w # u
      <4>1. w \notin PromotedVersions
        BY <1>1, <3>2
      <4>2. Explains(log, w, skills'[w].status, skills'[w].revision)
        BY <1>5, <1>7, <1>12, <4>1
      <4>3. QED
        BY <1>4, <2>1, <2>2, <3>2, <4>2, OtherRowExplains
    <3>3. QED
      BY <3>1, <3>2
  <2>7. ReviewGoverned'
    <3>1. \A i \in DOMAIN reviews : RowGoverned(i)'
      BY <1>1, <1>3, <1>8, <2>3, OldRowsGoverned
    <3>2. RowGoverned(n + 1)'
      <4>1. Displaced(n + 1)' = {u}
        <5>1. n + 1 < Len(reviews')
          BY <1>0, <2>3
        <5>2. reviews'[(n + 1) + 1] = d
          BY <1>0, <2>3
        <5>3. QED
          BY <2>1, <5>1, <5>2 DEF Displaced
      <4>2. skills'[v].scope = skills[v].scope /\ skills'[u].scope = skills[u].scope
        BY <1>8, <2>1 DEF KeepsProvenance
      <4>3. QED
        BY <1>0, <1>3, <1>8, <1>11, <2>3, <4>1, <4>2 DEF RowGoverned
    <3>3. RowGoverned(n + 2)'
      BY <1>0, <2>1, <2>3 DEF RowGoverned
    <3>4. QED
      BY <2>4, <3>1, <3>2, <3>3 DEF ReviewGoverned, RowGoverned
  <2>8. QED
    BY <1>8, <1>9, <2>5, <2>6, <2>7 DEF SkillInv
<1>15. QED
  BY <1>10, <1>13, <1>14

LEMMA SkillStep ==
  ASSUME SkillInv, [SkillNext]_skillVars
  PROVE  SkillInv'
<1>1. CASE UNCHANGED skillVars
  BY <1>1
  DEF skillVars, SkillInv, SkillsTypeOK, RevisionsCount, RowsNamed, OneAuthority,
      PromotedVersions,
     Versions, LogExplains, ReviewGoverned, Displaced
<1>2. QED
  BY <1>1, ProposeKeeps, OutcomeKeeps, PromoteKeeps, RetireKeeps DEF SkillNext

THEOREM SkillInvHolds == SkillSpec => []SkillInv
<1>1. SkillInit => SkillInv
  BY SkillAssumption
  DEF SkillInit, SkillInv, SkillsTypeOK, RevisionsCount, RowsNamed, OneAuthority,
     PromotedVersions, Versions, LogExplains, ReviewGoverned
<1>2. SkillInv /\ [SkillNext]_skillVars => SkillInv'
  BY SkillStep
<1>3. QED
  BY <1>1, <1>2, PTL DEF SkillSpec

\* For any number of versions, actors and projects, and in whatever order versions are proposed,
\* tried, promoted and retired: at most one version is the authority, so the check on which
\* find_promoted_version fails a promotion never does (promote_skill, supersede_promoted).
THEOREM OneAuthorityAlways == SkillSpec => []OneAuthority
<1>1. SkillInv => OneAuthority
  BY DEF SkillInv
<1>2. QED
  BY <1>1, SkillInvHolds, PTL

\* The review log explains every version's status and revision row by row, and every promotion it
\* shows was governed by the stricter of the two scopes involved (insert_review, governing_scope).
THEOREM LogExplainsAlways == SkillSpec => []ReviewsExplain
<1>1. SkillInv => ReviewsExplain
  BY DEF SkillInv, ReviewsExplain
<1>2. QED
  BY <1>1, SkillInvHolds, PTL

-----------------------------------------------------------------------------
(* The diary: one entry in two stores.  Old runs are listed only when no   *)
(* call lasts any more, so reconciliations and writers never meet; and if  *)
(* no update or deletion overlapped anything, the summary is the gate that *)
(* lets one writer through.                                                *)

EntryCommitted == \E t \in Texts : diaryRun[t].status = "committed"

\* Past the gate, and the summary is not yet withdrawn.
Admitted(d) == diarist[d].pc \in {"checking", "adding", "committing", "undoing"}

\* Every call has a number of its own, given out in order; a run is its writer's.
CallCounted(d) ==
  /\ Text(d) <= lastText
  /\ Writing(d) \/ diarist[d].pc \in {"touching", "replacing", "retracting"} => Text(d) # NoText
  /\ diarist[d].pc = "gating" => diaryRun[Text(d)].status = "none"
  /\ Writing(d) /\ diarist[d].pc # "gating" => diaryRun[Text(d)].status = "pending"

TextsCount ==
  /\ summary <= lastText /\ \A t \in body : t <= lastText
  /\ \A t \in Texts : t > lastText => diaryRun[t].status = "none"
  /\ \A d \in Diarists : CallCounted(d)
  /\ \A d, e \in Diarists : d # e /\ Text(d) = Text(e) => Text(d) = NoText

\* Old runs have nobody who works on them, and they are all a reconciliation lists.
OldRunsRest ==
  /\ \A t \in Texts :
       /\ diaryRun[t].old => diaryRun[t].status \in {"pending", "failed"}
       /\ diaryRun[t].swept => diaryRun[t].old
       /\ diaryRun[t].old => \A d \in Diarists : ~Writing(d)
  /\ \A d \in Diarists :
       /\ \A t \in diarist[d].stale : diaryRun[t].old
       /\ Sweeping(d) => diarist[d].stale # {}

FreshEntry ==
  (\A t \in Texts : diaryRun[t].status = "none") =>
    body = {} /\ summary = NoText /\ \A d \in Diarists : ~Changing(d)

CallsApart ==
  /\ \A d, e \in Diarists : d # e /\ Changing(d) => ~Changing(e) /\ ~Writing(e) /\ ~Sweeping(e)
  /\ \A d, e \in Diarists : Admitted(d) /\ Admitted(e) => d = e
  /\ \A a, b \in body : a = b

\* Nobody passes the gate after a commit; an older row is never under a new writer's summary.
WritesSound ==
  \A d \in Diarists :
    /\ Admitted(d) => summary = Text(d)
    /\ diarist[d].pc = "adding" => body = {}
    /\ diarist[d].pc = "committing" => body # {}
    /\ Writing(d) => \A t \in body : diaryRun[t].status # "none"
    /\ Writing(d) /\ EntryCommitted => ~Admitted(d) /\ body # {} /\ summary # NoText

ChangesSound ==
  \A d \in Diarists :
    /\ diarist[d].pc \in {"touching", "replacing"} => Text(d) = lastText
    /\ diarist[d].pc \in {"touching", "replacing", "erasing"} => body # {}
    /\ diarist[d].pc # "retracting"
    /\ diarist[d].pc = "replacing" => summary = Text(d)
    /\ diarist[d].pc = "cleaning" => body = {}
    /\ Changing(d) /\ ~EntryCommitted => \A t \in Texts : ~diaryRun[t].swept

\* A reconciliation of runs none of which committed leaves neither part.
SweepsSound ==
  ~EntryCommitted =>
    /\ \A d \in Diarists : /\ diarist[d].pc \in {"forgetting", "finishing"} => body = {}
                           /\ diarist[d].pc = "finishing" => summary = NoText
    /\ (\E t \in Texts : diaryRun[t].swept) => body = {} /\ summary = NoText

PartsAgree ==
  /\ written => EntryCommitted /\ body # {}
  /\ \A t \in body : diaryRun[t].status = "none" /\ summary # NoText => t <= summary
  /\ EntryCommitted /\ ~spoiled /\ (\A d \in Diarists : ~Changing(d)) =>
       (body = {} <=> summary = NoText)

DiaryInv ==
  /\ DiaryTypeOK /\ TextsCount /\ OldRunsRest /\ FreshEntry
  /\ ~racing => CallsApart /\ WritesSound /\ ChangesSound /\ SweepsSound /\ PartsAgree

\* What becomes of a process.
LEMMA DiaristBecomes ==
  ASSUME DiaryTypeOK, NEW d \in Diarists, NEW row \in DiaristState,
         diarist' = [diarist EXCEPT ![d] = row]
  PROVE  /\ diarist' \in [Diarists -> DiaristState] /\ diarist'[d] = row
         /\ \A e \in Diarists : e # d => diarist'[e] = diarist[e]
BY DEF DiaryTypeOK

LEMMA DiaristMoves ==
  ASSUME DiaryTypeOK, NEW d \in Diarists,
         NEW x \in {"down", "listing", "pruning", "forgetting", "finishing", "ready", "gating",
                   "checking",
                   "adding", "committing", "undoing", "failing", "touching", "replacing",
                   "retracting", "erasing", "cleaning"},
         MoveTo(d, x)
  PROVE  /\ diarist' \in [Diarists -> DiaristState]
         /\ \A e \in Diarists : e # d => diarist'[e] = diarist[e]
         /\ diarist'[d].pc = x /\ diarist'[d].text = diarist[d].text
         /\ diarist'[d].whole = diarist[d].whole /\ diarist'[d].stale = diarist[d].stale
<1> DEFINE row == [diarist[d] EXCEPT !.pc = x]
<1>1. diarist[d] \in DiaristState
  BY DEF DiaryTypeOK
<1>2. /\ row \in DiaristState /\ row.pc = x /\ row.text = diarist[d].text
      /\ row.whole = diarist[d].whole /\ row.stale = diarist[d].stale
  BY <1>1 DEF DiaristState
<1>3. diarist' = [diarist EXCEPT ![d] = row]
  BY DEF MoveTo, DiaryTypeOK
<1> HIDE DEF row
<1>4. QED
  BY <1>2, <1>3, DiaristBecomes

LEMMA RestingDiarists ==
  /\ Absent \in DiaristState /\ Absent.pc = "down" /\ Absent.text = NoText /\ Absent.stale = {}
  /\ IdleDiarist \in DiaristState /\ IdleDiarist.pc = "ready" /\ IdleDiarist.text = NoText
  /\ IdleDiarist.stale = {}
BY DEF Absent, IdleDiarist, DiaristState

LEMMA DiaristRests ==
  ASSUME DiaryTypeOK, NEW d \in Diarists, Done(d) \/ diarist' = [diarist EXCEPT ![d] = Absent]
  PROVE  /\ diarist' \in [Diarists -> DiaristState]
         /\ \A e \in Diarists : e # d => diarist'[e] = diarist[e]
         /\ diarist'[d].pc \in {"down", "ready"} /\ diarist'[d].text = NoText
         /\ diarist'[d].stale = {}
BY RestingDiarists, DiaristBecomes DEF Done

LEMMA DiaristEnters ==
  ASSUME DiaryTypeOK, NEW d \in Diarists, NEW x \in {"gating", "touching", "erasing"},
         NEW n \in Texts \cup {NoText}, NEW whole \in BOOLEAN, Enters(d, x, n, whole)
  PROVE  /\ diarist' \in [Diarists -> DiaristState]
         /\ \A e \in Diarists : e # d => diarist'[e] = diarist[e]
         /\ diarist'[d].pc = x /\ diarist'[d].text = n /\ diarist'[d].stale = {}
         /\ racing' \in BOOLEAN /\ (racing => racing')
         /\ ~racing' => \A e \in Diarists : e # d =>
              ~Changing(e) /\ (x # "gating" => ~Writing(e) /\ ~Sweeping(e))
<1> DEFINE row == [IdleDiarist EXCEPT !.pc = x, !.text = n, !.whole = whole]
<1>1. row \in DiaristState /\ row.pc = x /\ row.text = n /\ row.stale = {}
  BY RestingDiarists DEF DiaristState
<1>2. diarist' = [diarist EXCEPT ![d] = row]
  BY DEF Enters
<1> HIDE DEF row
<1>3. racing' \in BOOLEAN /\ (racing => racing')
  BY DEF Enters, DiaryTypeOK
<1>4. ~racing' => \A e \in Diarists : e # d =>
        ~Changing(e) /\ (x # "gating" => ~Writing(e) /\ ~Sweeping(e))
  BY DEF Enters
<1>5. QED
  BY <1>1, <1>2, <1>3, <1>4, DiaristBecomes

\* Who else may work on the entry.
LEMMA WhoElse ==
  ASSUME DiaryInv, NEW d \in Diarists
  PROVE  /\ Sweeping(d) => \A e \in Diarists : ~Writing(e)
         /\ Writing(d) => \A e \in Diarists : ~Sweeping(e)
         /\ ~racing =>
              /\ Changing(d) => \A e \in Diarists :
                   ~Writing(e) /\ ~Sweeping(e) /\ (e # d => ~Changing(e))
              /\ Sweeping(d) \/ Writing(d) => \A e \in Diarists : ~Changing(e)
              /\ Admitted(d) => \A e \in Diarists : e # d => ~Admitted(e)
<1>1. ASSUME NEW f \in Diarists, Sweeping(f)
      PROVE  \A e \in Diarists : ~Writing(e)
  <2>1. diarist[f].stale # {} /\ diarist[f].stale \subseteq Texts
    BY <1>1 DEF DiaryInv, OldRunsRest, DiaryTypeOK, DiaristState
  <2>2. QED
    BY <2>1 DEF DiaryInv, OldRunsRest
<1>2. ASSUME NEW f \in Diarists, Sweeping(f) \/ Writing(f)
      PROVE  ~Changing(f)
  BY <1>2 DEF Sweeping, Writing, Changing
<1>3. QED
  BY <1>1, <1>2 DEF DiaryInv, CallsApart

LEMMA OpenDiary ==
  ASSUME DiaryInv, NEW d \in Diarists, OpenPalace(d)
  PROVE  DiaryInv'
<1>1. diarist[d].pc = "down"
  BY DEF OpenPalace, Doing, Writing, Changing
<1>2. UNCHANGED <<body, summary, diaryRun, lastText, diaryFaults, written, racing, spoiled>>
  BY DEF OpenPalace, Enters, MoveTo, Done
<1>3. /\ diarist' \in [Diarists -> DiaristState]
      /\ \A e \in Diarists : e # d => diarist'[e] = diarist[e]
      /\ diarist'[d].pc = "listing" /\ diarist'[d].text = diarist[d].text
      /\ diarist'[d].stale = diarist[d].stale
  BY DiaristMoves DEF OpenPalace, DiaryInv
<1>4. DiaryTypeOK'
  BY <1>1, <1>2, <1>3 DEF DiaryInv, DiaryTypeOK
<1>5. TextsCount'
  BY <1>1, <1>2, <1>3, DiaryAssumption
  DEF DiaryInv, DiaryTypeOK, TextsCount, CallCounted, Writing, Changing, Sweeping, Admitted, Text,
      EntryCommitted, Texts, NoText
<1>6. OldRunsRest'
  BY <1>1, <1>2, <1>3
  DEF DiaryInv, OldRunsRest, Writing, Changing, Sweeping, Admitted, Text, EntryCommitted
<1>7. FreshEntry'
  BY <1>1, <1>2, <1>3
  DEF DiaryInv, FreshEntry, Writing, Changing, Sweeping, Admitted, Text, EntryCommitted
<1>8. ASSUME ~racing'
      PROVE  CallsApart' /\ WritesSound' /\ ChangesSound' /\ SweepsSound' /\ PartsAgree'
  <2>1. ~racing
    BY <1>2, <1>3, <1>8
  <2>2. CallsApart /\ WritesSound /\ ChangesSound /\ SweepsSound /\ PartsAgree
    BY <2>1 DEF DiaryInv
  <2>3. EntryCommitted' <=> EntryCommitted
    BY <1>2 DEF EntryCommitted
  <2>4. \A e \in Diarists : e # d => diarist'[e] = diarist[e]
    BY <1>3
  <2>5. CallsApart'
    BY <1>1, <1>2, <1>3, <1>8, <2>2, <2>4
    DEF CallsApart, Writing, Changing, Sweeping, Admitted, Text, EntryCommitted
  <2>6. WritesSound'
    BY <1>1, <1>2, <1>3, <1>8, <2>2, <2>3, <2>4
    DEF WritesSound, Writing, Changing, Sweeping, Admitted, Text
  <2>7. ChangesSound'
    BY <1>1, <1>2, <1>3, <1>8, <2>2, <2>3, <2>4
    DEF ChangesSound, Writing, Changing, Sweeping, Admitted, Text
  <2>8. SweepsSound'
    BY <1>1, <1>2, <1>3, <1>8, <2>2, <2>3, <2>4
    DEF SweepsSound, Writing, Changing, Sweeping, Admitted, Text
  <2>9. PartsAgree'
    BY <1>1, <1>2, <1>3, <1>8, <2>2, <2>3, <2>4
    DEF PartsAgree, Writing, Changing, Sweeping, Admitted, Text
  <2>10. QED
    BY <2>5, <2>6, <2>7, <2>8, <2>9
<1>9. QED
  BY <1>4, <1>5, <1>6, <1>7, <1>8 DEF DiaryInv

LEMMA CloseDiary ==
  ASSUME DiaryInv, NEW d \in Diarists, ClosePalace(d)
  PROVE  DiaryInv'
<1>1. diarist[d].pc = "ready"
  BY DEF ClosePalace, Doing, Writing, Changing
<1>2. UNCHANGED <<body, summary, diaryRun, lastText, diaryFaults, written, racing, spoiled>>
  BY DEF ClosePalace, Enters, MoveTo, Done
<1>3. /\ diarist' \in [Diarists -> DiaristState]
      /\ \A e \in Diarists : e # d => diarist'[e] = diarist[e]
      /\ diarist'[d].pc \in {"down", "ready"} /\ diarist'[d].text = NoText
      /\ diarist'[d].stale = {}
  BY DiaristRests DEF ClosePalace, DiaryInv
<1>4. DiaryTypeOK'
  BY <1>1, <1>2, <1>3 DEF DiaryInv, DiaryTypeOK
<1>5. TextsCount'
  <2>1. TextsCount /\ lastText \in Nat
    BY DEF DiaryInv, DiaryTypeOK, Texts
  <2>2. Text(d)' = NoText /\ NoText <= lastText
    BY <1>3, <2>1 DEF Text, NoText
  <2>3. CallCounted(d)'
    BY <1>2, <1>3, <2>2 DEF CallCounted, Writing, Text
  <2>4. \A e \in Diarists : e # d => Text(e)' = Text(e) /\ CallCounted(e)'
    BY <1>2, <1>3, <2>1 DEF TextsCount, CallCounted, Writing, Text
  <2>5. (\A e \in Diarists : CallCounted(e))'
    BY <2>3, <2>4
  <2>6. \A e, f \in Diarists : e # f /\ Text(e)' = Text(f)' => Text(e)' = NoText
    BY <2>1, <2>2, <2>4 DEF TextsCount
  <2>7. summary' <= lastText
    BY <1>2, <2>1, <2>2 DEF TextsCount
  <2>8. QED
    BY <1>2, <2>1, <2>5, <2>6, <2>7 DEF TextsCount, Texts, Text
<1>6. OldRunsRest'
  BY <1>1, <1>2, <1>3
  DEF DiaryInv, OldRunsRest, Writing, Changing, Sweeping, Admitted, Text, EntryCommitted
<1>7. FreshEntry'
  BY <1>1, <1>2, <1>3
  DEF DiaryInv, FreshEntry, Writing, Changing, Sweeping, Admitted, Text, EntryCommitted
<1>8. ASSUME ~racing'
      PROVE  CallsApart' /\ WritesSound' /\ ChangesSound' /\ SweepsSound' /\ PartsAgree'
  <2>1. ~racing
    BY <1>2, <1>3, <1>8
  <2>2. CallsApart /\ WritesSound /\ ChangesSound /\ SweepsSound /\ PartsAgree
    BY <2>1 DEF DiaryInv
  <2>3. EntryCommitted' <=> EntryCommitted
    BY <1>2 DEF EntryCommitted
  <2>4. \A e \in Diarists : e # d => diarist'[e] = diarist[e]
    BY <1>3
  <2>5. CallsApart'
    BY <1>1, <1>2, <1>3, <1>8, <2>2, <2>4
    DEF CallsApart, Writing, Changing, Sweeping, Admitted, Text, EntryCommitted
  <2>6. WritesSound'
    BY <1>1, <1>2, <1>3, <1>8, <2>2, <2>3, <2>4
    DEF WritesSound, Writing, Changing, Sweeping, Admitted, Text
  <2>7. ChangesSound'
    BY <1>1, <1>2, <1>3, <1>8, <2>2, <2>3, <2>4
    DEF ChangesSound, Writing, Changing, Sweeping, Admitted, Text
  <2>8. SweepsSound'
    BY <1>1, <1>2, <1>3, <1>8, <2>2, <2>3, <2>4
    DEF SweepsSound, Writing, Changing, Sweeping, Admitted, Text
  <2>9. PartsAgree'
    BY <1>1, <1>2, <1>3, <1>8, <2>2, <2>3, <2>4
    DEF PartsAgree, Writing, Changing, Sweeping, Admitted, Text
  <2>10. QED
    BY <2>5, <2>6, <2>7, <2>8, <2>9
<1>9. QED
  BY <1>4, <1>5, <1>6, <1>7, <1>8 DEF DiaryInv

LEMMA PruneDiary ==
  ASSUME DiaryInv, NEW d \in Diarists, PruneEntry(d)
  PROVE  DiaryInv'
<1>1. diarist[d].pc = "pruning"
  BY DEF PruneEntry, Doing, Writing, Changing
<1>2. UNCHANGED <<summary, diaryRun, lastText, diaryFaults, written, racing, spoiled>>
  BY DEF PruneEntry, Enters, MoveTo, Done
<1>3. /\ diarist' \in [Diarists -> DiaristState]
      /\ \A e \in Diarists : e # d => diarist'[e] = diarist[e]
      /\ diarist'[d].pc = "forgetting" /\ diarist'[d].text = diarist[d].text
      /\ diarist'[d].stale = diarist[d].stale
      /\ body' = IF EntryCommitted THEN body ELSE {}
  <2>1. CommittedSome <=> EntryCommitted
    BY DEF CommittedSome, RunsIn, EntryCommitted
  <2>2. QED
    BY <2>1, DiaristMoves DEF PruneEntry, DiaryInv
<1>4. DiaryTypeOK'
  BY <1>1, <1>2, <1>3 DEF DiaryInv, DiaryTypeOK
<1>5. TextsCount'
  BY <1>1, <1>2, <1>3, DiaryAssumption
  DEF DiaryInv, DiaryTypeOK, TextsCount, CallCounted, Writing, Changing, Sweeping, Admitted, Text,
      EntryCommitted, Texts, NoText
<1>6. OldRunsRest'
  BY <1>1, <1>2, <1>3
  DEF DiaryInv, OldRunsRest, Writing, Changing, Sweeping, Admitted, Text, EntryCommitted
<1>7. FreshEntry'
  BY <1>1, <1>2, <1>3
  DEF DiaryInv, FreshEntry, Writing, Changing, Sweeping, Admitted, Text, EntryCommitted
<1>8. ASSUME ~racing'
      PROVE  CallsApart' /\ WritesSound' /\ ChangesSound' /\ SweepsSound' /\ PartsAgree'
  <2>1. ~racing
    BY <1>2, <1>3, <1>8
  <2>2. CallsApart /\ WritesSound /\ ChangesSound /\ SweepsSound /\ PartsAgree
    BY <2>1 DEF DiaryInv
  <2>3. EntryCommitted' <=> EntryCommitted
    BY <1>2 DEF EntryCommitted
  <2>4. \A e \in Diarists : ~Writing(e) /\ ~Changing(e)
    BY <1>1, <2>1, WhoElse DEF Sweeping
  <2>5. CallsApart'
    BY <1>1, <1>2, <1>3, <1>8, <2>2, <2>4
    DEF CallsApart, Writing, Changing, Sweeping, Admitted, Text, EntryCommitted
  <2>6. WritesSound'
    BY <1>1, <1>2, <1>3, <1>8, <2>2, <2>3, <2>4
    DEF WritesSound, Writing, Changing, Sweeping, Admitted, Text
  <2>7. ChangesSound'
    BY <1>1, <1>2, <1>3, <1>8, <2>2, <2>3, <2>4
    DEF ChangesSound, Writing, Changing, Sweeping, Admitted, Text
  <2>8. SweepsSound'
    BY <1>1, <1>2, <1>3, <1>8, <2>2, <2>3, <2>4
    DEF SweepsSound, Writing, Changing, Sweeping, Admitted, Text
  <2>9. PartsAgree'
    BY <1>1, <1>2, <1>3, <1>8, <2>2, <2>3, <2>4
    DEF PartsAgree, Writing, Changing, Sweeping, Admitted, Text
  <2>10. QED
    BY <2>5, <2>6, <2>7, <2>8, <2>9
<1>9. QED
  BY <1>4, <1>5, <1>6, <1>7, <1>8 DEF DiaryInv

LEMMA ForgetDiary ==
  ASSUME DiaryInv, NEW d \in Diarists, ForgetSummary(d)
  PROVE  DiaryInv'
<1>1. diarist[d].pc = "forgetting"
  BY DEF ForgetSummary, Doing, Writing, Changing
<1>2. UNCHANGED <<body, diaryRun, lastText, diaryFaults, written, racing, spoiled>>
  BY DEF ForgetSummary, Enters, MoveTo, Done
<1>3. /\ diarist' \in [Diarists -> DiaristState]
      /\ \A e \in Diarists : e # d => diarist'[e] = diarist[e]
      /\ diarist'[d].pc = "finishing" /\ diarist'[d].text = diarist[d].text
      /\ diarist'[d].stale = diarist[d].stale
      /\ summary' = IF EntryCommitted THEN summary ELSE NoText
  <2>1. CommittedSome <=> EntryCommitted
    BY DEF CommittedSome, RunsIn, EntryCommitted
  <2>2. QED
    BY <2>1, DiaristMoves DEF ForgetSummary, DiaryInv
<1>4. DiaryTypeOK'
  BY <1>1, <1>2, <1>3 DEF DiaryInv, DiaryTypeOK
<1>5. TextsCount'
  BY <1>1, <1>2, <1>3, DiaryAssumption
  DEF DiaryInv, DiaryTypeOK, TextsCount, CallCounted, Writing, Changing, Sweeping, Admitted, Text,
      EntryCommitted, Texts, NoText
<1>6. OldRunsRest'
  BY <1>1, <1>2, <1>3
  DEF DiaryInv, OldRunsRest, Writing, Changing, Sweeping, Admitted, Text, EntryCommitted
<1>7. FreshEntry'
  BY <1>1, <1>2, <1>3
  DEF DiaryInv, FreshEntry, Writing, Changing, Sweeping, Admitted, Text, EntryCommitted
<1>8. ASSUME ~racing'
      PROVE  CallsApart' /\ WritesSound' /\ ChangesSound' /\ SweepsSound' /\ PartsAgree'
  <2>1. ~racing
    BY <1>2, <1>3, <1>8
  <2>2. CallsApart /\ WritesSound /\ ChangesSound /\ SweepsSound /\ PartsAgree
    BY <2>1 DEF DiaryInv
  <2>3. EntryCommitted' <=> EntryCommitted
    BY <1>2 DEF EntryCommitted
  <2>4. \A e \in Diarists : ~Writing(e) /\ ~Changing(e)
    BY <1>1, <2>1, WhoElse DEF Sweeping
  <2>5. CallsApart'
    BY <1>1, <1>2, <1>3, <1>8, <2>2, <2>4
    DEF CallsApart, Writing, Changing, Sweeping, Admitted, Text, EntryCommitted
  <2>6. WritesSound'
    BY <1>1, <1>2, <1>3, <1>8, <2>2, <2>3, <2>4
    DEF WritesSound, Writing, Changing, Sweeping, Admitted, Text
  <2>7. ChangesSound'
    BY <1>1, <1>2, <1>3, <1>8, <2>2, <2>3, <2>4
    DEF ChangesSound, Writing, Changing, Sweeping, Admitted, Text
  <2>8. SweepsSound'
    BY <1>1, <1>2, <1>3, <1>8, <2>2, <2>3, <2>4
    DEF SweepsSound, Writing, Changing, Sweeping, Admitted, Text
  <2>9. PartsAgree'
    BY <1>1, <1>2, <1>3, <1>8, <2>2, <2>3, <2>4
    DEF PartsAgree, Writing, Changing, Sweeping, Admitted, Text
  <2>10. QED
    BY <2>5, <2>6, <2>7, <2>8, <2>9
<1>9. QED
  BY <1>4, <1>5, <1>6, <1>7, <1>8 DEF DiaryInv

LEMMA CheckDiary ==
  ASSUME DiaryInv, NEW d \in Diarists, CheckBody(d)
  PROVE  DiaryInv'
<1>1. diarist[d].pc = "checking"
  BY DEF CheckBody, Doing, Writing, Changing
<1>2. UNCHANGED <<body, summary, diaryRun, lastText, diaryFaults, written, racing, spoiled>>
  BY DEF CheckBody, Enters, MoveTo, Done
<1>3. /\ diarist' \in [Diarists -> DiaristState]
      /\ \A e \in Diarists : e # d => diarist'[e] = diarist[e]
      /\ diarist'[d].pc \in {"adding", "undoing"} /\ diarist'[d].text = diarist[d].text
      /\ diarist'[d].stale = diarist[d].stale
      /\ diarist'[d].pc = "adding" => body = {}
  <2>1. PICK x \in {"adding", "undoing"} : MoveTo(d, x) /\ (x = "adding" => body = {})
    BY DEF CheckBody
  <2>2. QED
    BY <2>1, DiaristMoves DEF DiaryInv
<1>4. DiaryTypeOK'
  BY <1>1, <1>2, <1>3 DEF DiaryInv, DiaryTypeOK
<1>5. TextsCount'
  BY <1>1, <1>2, <1>3, DiaryAssumption
  DEF DiaryInv, DiaryTypeOK, TextsCount, CallCounted, Writing, Changing, Sweeping, Admitted, Text,
      EntryCommitted, Texts, NoText
<1>6. OldRunsRest'
  BY <1>1, <1>2, <1>3
  DEF DiaryInv, OldRunsRest, Writing, Changing, Sweeping, Admitted, Text, EntryCommitted
<1>7. FreshEntry'
  BY <1>1, <1>2, <1>3
  DEF DiaryInv, FreshEntry, Writing, Changing, Sweeping, Admitted, Text, EntryCommitted
<1>8. ASSUME ~racing'
      PROVE  CallsApart' /\ WritesSound' /\ ChangesSound' /\ SweepsSound' /\ PartsAgree'
  <2>1. ~racing
    BY <1>2, <1>3, <1>8
  <2>2. CallsApart /\ WritesSound /\ ChangesSound /\ SweepsSound /\ PartsAgree
    BY <2>1 DEF DiaryInv
  <2>3. EntryCommitted' <=> EntryCommitted
    BY <1>2 DEF EntryCommitted
  <2>4. \A e \in Diarists : ~Sweeping(e) /\ ~Changing(e) /\ (e # d => ~Admitted(e))
    BY <1>1, <2>1, WhoElse DEF Writing, Admitted
  <2>5. CallsApart'
    BY <1>1, <1>2, <1>3, <1>8, <2>2, <2>4
    DEF CallsApart, Writing, Changing, Sweeping, Admitted, Text, EntryCommitted
  <2>6. WritesSound'
    BY <1>1, <1>2, <1>3, <1>8, <2>2, <2>3, <2>4
    DEF WritesSound, Writing, Changing, Sweeping, Admitted, Text
  <2>7. ChangesSound'
    BY <1>1, <1>2, <1>3, <1>8, <2>2, <2>3, <2>4
    DEF ChangesSound, Writing, Changing, Sweeping, Admitted, Text
  <2>8. SweepsSound'
    BY <1>1, <1>2, <1>3, <1>8, <2>2, <2>3, <2>4
    DEF SweepsSound, Writing, Changing, Sweeping, Admitted, Text
  <2>9. PartsAgree'
    BY <1>1, <1>2, <1>3, <1>8, <2>2, <2>3, <2>4
    DEF PartsAgree, Writing, Changing, Sweeping, Admitted, Text
  <2>10. QED
    BY <2>5, <2>6, <2>7, <2>8, <2>9
<1>9. QED
  BY <1>4, <1>5, <1>6, <1>7, <1>8 DEF DiaryInv

LEMMA AddDiary ==
  ASSUME DiaryInv, NEW d \in Diarists, AddBody(d)
  PROVE  DiaryInv'
<1>1. diarist[d].pc = "adding"
  BY DEF AddBody, Doing, Writing, Changing
<1>2. UNCHANGED <<summary, diaryRun, lastText, written, racing, spoiled>>
  BY DEF AddBody, Enters, MoveTo, Done
<1>3. /\ diarist' \in [Diarists -> DiaristState]
      /\ \A e \in Diarists : e # d => diarist'[e] = diarist[e]
      /\ diarist'[d].pc \in {"committing", "undoing"} /\ diarist'[d].text = diarist[d].text
      /\ diarist'[d].stale = diarist[d].stale
      /\ body' \in {body, body \cup {Text(d)}} /\ Text(d) \in Texts
      /\ diarist'[d].pc = "committing" => body' = body \cup {Text(d)}
      /\ diaryRun[Text(d)].status = "pending" /\ Text(d) <= lastText
      /\ diaryFaults' \in 0..MaxDiaryFaults
  <2>1. /\ Text(d) \in Texts /\ diaryRun[Text(d)].status = "pending" /\ Text(d) <= lastText
    BY <1>1 DEF DiaryInv, DiaryTypeOK, TextsCount, CallCounted, Writing, Text, DiaristState
  <2>2. diaryFaults' \in 0..MaxDiaryFaults
    BY DiaryAssumption DEF AddBody, DiaryInv, DiaryTypeOK
  <2>3. PICK x \in {"committing", "undoing"} :
          /\ MoveTo(d, x) /\ body' \in {body, body \cup {Text(d)}}
          /\ x = "committing" => body' = body \cup {Text(d)}
    BY DEF AddBody
  <2>4. QED
    BY <2>1, <2>2, <2>3, DiaristMoves DEF DiaryInv
<1>4. DiaryTypeOK'
  BY <1>1, <1>2, <1>3 DEF DiaryInv, DiaryTypeOK
<1>5. TextsCount'
  <2>1. summary' <= lastText' /\ \A t \in body' : t <= lastText'
    BY <1>1, <1>2, <1>3, DiaryAssumption
    DEF DiaryInv, DiaryTypeOK, TextsCount, CallCounted, Text, Texts, NoText
  <2>2. QED
    BY <1>1, <1>2, <1>3, <2>1
    DEF DiaryInv, DiaryTypeOK, TextsCount, CallCounted, Writing, Text, NoText
<1>6. OldRunsRest'
  BY <1>1, <1>2, <1>3
  DEF DiaryInv, OldRunsRest, Writing, Changing, Sweeping, Admitted, Text, EntryCommitted
<1>7. FreshEntry'
  BY <1>1, <1>2, <1>3
  DEF DiaryInv, FreshEntry, Writing, Changing, Sweeping, Admitted, Text, EntryCommitted
<1>8. ASSUME ~racing'
      PROVE  CallsApart' /\ WritesSound' /\ ChangesSound' /\ SweepsSound' /\ PartsAgree'
  <2>1. ~racing
    BY <1>2, <1>3, <1>8
  <2>2. CallsApart /\ WritesSound /\ ChangesSound /\ SweepsSound /\ PartsAgree
    BY <2>1 DEF DiaryInv
  <2>3. EntryCommitted' <=> EntryCommitted
    BY <1>2 DEF EntryCommitted
  <2>4. \A e \in Diarists : ~Sweeping(e) /\ ~Changing(e) /\ (e # d => ~Admitted(e))
    BY <1>1, <2>1, WhoElse DEF Writing, Admitted
  <2>5. CallsApart'
    BY <1>1, <1>2, <1>3, <1>8, <2>2, <2>3, <2>4
    DEF CallsApart, WritesSound, Writing, Changing, Sweeping, Admitted, Text
  <2>6. WritesSound'
    BY <1>1, <1>2, <1>3, <1>8, <2>2, <2>3, <2>4
    DEF WritesSound, Writing, Changing, Sweeping, Admitted, Text
  <2>7. ChangesSound'
    BY <1>1, <1>2, <1>3, <1>8, <2>2, <2>3, <2>4
    DEF ChangesSound, Writing, Changing, Sweeping, Admitted, Text
  <2>8. SweepsSound'
    BY <1>1, <1>2, <1>3, <1>8, <2>2, <2>3, <2>4
    DEF SweepsSound, DiaryInv, OldRunsRest, Writing, Changing, Sweeping, Admitted, Text
  <2>9. PartsAgree'
    BY <1>1, <1>2, <1>3, <1>8, <2>2, <2>3, <2>4
    DEF PartsAgree, WritesSound, Writing, Changing, Sweeping, Admitted, Text
  <2>10. QED
    BY <2>5, <2>6, <2>7, <2>8, <2>9
<1>9. QED
  BY <1>4, <1>5, <1>6, <1>7, <1>8 DEF DiaryInv

LEMMA UndoDiary ==
  ASSUME DiaryInv, NEW d \in Diarists, UndoSummary(d)
  PROVE  DiaryInv'
<1>1. diarist[d].pc = "undoing"
  BY DEF UndoSummary, Doing, Writing, Changing
<1>2. UNCHANGED <<body, diaryRun, lastText, diaryFaults, written, racing, spoiled>>
  BY DEF UndoSummary, Enters, MoveTo, Done
<1>3. /\ diarist' \in [Diarists -> DiaristState]
      /\ \A e \in Diarists : e # d => diarist'[e] = diarist[e]
      /\ diarist'[d].pc = "failing" /\ diarist'[d].text = diarist[d].text
      /\ diarist'[d].stale = diarist[d].stale
      /\ summary' = NoText
  BY DiaristMoves DEF UndoSummary, DiaryInv
<1>4. DiaryTypeOK'
  BY <1>1, <1>2, <1>3 DEF DiaryInv, DiaryTypeOK
<1>5. TextsCount'
  BY <1>1, <1>2, <1>3, DiaryAssumption
  DEF DiaryInv, DiaryTypeOK, TextsCount, CallCounted, Writing, Changing, Sweeping, Admitted, Text,
      EntryCommitted, Texts, NoText
<1>6. OldRunsRest'
  BY <1>1, <1>2, <1>3
  DEF DiaryInv, OldRunsRest, Writing, Changing, Sweeping, Admitted, Text, EntryCommitted
<1>7. FreshEntry'
  BY <1>1, <1>2, <1>3
  DEF DiaryInv, FreshEntry, Writing, Changing, Sweeping, Admitted, Text, EntryCommitted
<1>8. ASSUME ~racing'
      PROVE  CallsApart' /\ WritesSound' /\ ChangesSound' /\ SweepsSound' /\ PartsAgree'
  <2>1. ~racing
    BY <1>2, <1>3, <1>8
  <2>2. CallsApart /\ WritesSound /\ ChangesSound /\ SweepsSound /\ PartsAgree
    BY <2>1 DEF DiaryInv
  <2>3. EntryCommitted' <=> EntryCommitted
    BY <1>2 DEF EntryCommitted
  <2>4. \A e \in Diarists : ~Sweeping(e) /\ ~Changing(e) /\ (e # d => ~Admitted(e))
    BY <1>1, <2>1, WhoElse DEF Writing, Admitted
  <2>5. CallsApart'
    BY <1>1, <1>2, <1>3, <1>8, <2>2, <2>4
    DEF CallsApart, Writing, Changing, Sweeping, Admitted, Text, EntryCommitted
  <2>6. WritesSound'
    BY <1>1, <1>2, <1>3, <1>8, <2>2, <2>3, <2>4
    DEF WritesSound, Writing, Changing, Sweeping, Admitted, Text
  <2>7. ChangesSound'
    BY <1>1, <1>2, <1>3, <1>8, <2>2, <2>3, <2>4
    DEF ChangesSound, Writing, Changing, Sweeping, Admitted, Text
  <2>8. SweepsSound'
    BY <1>1, <1>2, <1>3, <1>8, <2>2, <2>3, <2>4
    DEF SweepsSound, Writing, Changing, Sweeping, Admitted, Text
  <2>9. PartsAgree'
    BY <1>1, <1>2, <1>3, <1>8, <2>2, <2>3, <2>4
    DEF PartsAgree, WritesSound, Writing, Changing, Sweeping, Admitted, Text
  <2>10. QED
    BY <2>5, <2>6, <2>7, <2>8, <2>9
<1>9. QED
  BY <1>4, <1>5, <1>6, <1>7, <1>8 DEF DiaryInv

LEMMA TouchDiary ==
  ASSUME DiaryInv, NEW d \in Diarists, Touch(d)
  PROVE  DiaryInv'
<1>1. diarist[d].pc = "touching"
  BY DEF Touch, Doing, Writing, Changing
<1>2. UNCHANGED <<body, diaryRun, lastText, diaryFaults, written, racing, spoiled>>
  BY DEF Touch, Enters, MoveTo, Done
<1>3. /\ diarist' \in [Diarists -> DiaristState]
      /\ \A e \in Diarists : e # d => diarist'[e] = diarist[e]
      /\ diarist'[d].pc \in {"replacing", "ready"}
      /\ diarist'[d].pc = "replacing" => diarist'[d].text = diarist[d].text
      /\ diarist'[d].pc = "ready" => diarist'[d].text = NoText
      /\ diarist'[d].stale \in {diarist[d].stale, {}}
      /\ summary' = Text(d) /\ Text(d) \in Texts /\ Text(d) <= lastText
  <2>1. /\ Text(d) \in Texts /\ Text(d) <= lastText
    BY <1>1 DEF DiaryInv, DiaryTypeOK, TextsCount, CallCounted, Text, DiaristState
  <2>2. CASE MoveTo(d, "replacing")
    BY <2>1, <2>2, DiaristMoves DEF Touch, DiaryInv
  <2>3. CASE Done(d)
    <3>1. diarist'[d].pc = "ready"
      BY <2>3, RestingDiarists, DiaristBecomes DEF Done, DiaryInv
    <3>2. QED
      BY <2>1, <2>3, <3>1, DiaristRests DEF Touch, DiaryInv
  <2>4. QED
    BY <2>2, <2>3 DEF Touch
<1>4. DiaryTypeOK'
  BY <1>1, <1>2, <1>3 DEF DiaryInv, DiaryTypeOK
<1>5. TextsCount'
  BY <1>1, <1>2, <1>3, DiaryAssumption
  DEF DiaryInv, DiaryTypeOK, TextsCount, CallCounted, Writing, Changing, Sweeping, Admitted, Text,
      EntryCommitted, Texts, NoText
<1>6. OldRunsRest'
  BY <1>1, <1>2, <1>3
  DEF DiaryInv, OldRunsRest, Writing, Changing, Sweeping, Admitted, Text, EntryCommitted
<1>7. FreshEntry'
  BY <1>1, <1>2, <1>3
  DEF DiaryInv, FreshEntry, Writing, Changing, Sweeping, Admitted, Text, EntryCommitted
<1>8. ASSUME ~racing'
      PROVE  CallsApart' /\ WritesSound' /\ ChangesSound' /\ SweepsSound' /\ PartsAgree'
  <2>1. ~racing
    BY <1>2, <1>3, <1>8
  <2>2. CallsApart /\ WritesSound /\ ChangesSound /\ SweepsSound /\ PartsAgree
    BY <2>1 DEF DiaryInv
  <2>3. EntryCommitted' <=> EntryCommitted
    BY <1>2 DEF EntryCommitted
  <2>4. \A e \in Diarists : ~Writing(e) /\ ~Sweeping(e) /\ (e # d => ~Changing(e))
    BY <1>1, <2>1, WhoElse DEF Changing
  <2>5. CallsApart'
    BY <1>1, <1>2, <1>3, <1>8, <2>2, <2>4
    DEF CallsApart, Writing, Changing, Sweeping, Admitted, Text, EntryCommitted
  <2>6. WritesSound'
    BY <1>1, <1>2, <1>3, <1>8, <2>2, <2>3, <2>4
    DEF WritesSound, Writing, Changing, Sweeping, Admitted, Text
  <2>7. ChangesSound'
    BY <1>1, <1>2, <1>3, <1>8, <2>2, <2>3, <2>4
    DEF ChangesSound, Writing, Changing, Sweeping, Admitted, Text
  <2>8. SweepsSound'
    BY <1>1, <1>2, <1>3, <1>8, <2>2, <2>3, <2>4
    DEF SweepsSound, ChangesSound, Writing, Changing, Sweeping, Admitted, Text
  <2>9. PartsAgree'
    BY <1>1, <1>2, <1>3, <1>8, <2>2, <2>3, <2>4
    DEF PartsAgree, ChangesSound, DiaryInv, TextsCount, CallCounted, Texts, NoText, Writing,
        Changing, Sweeping, Admitted, Text
  <2>10. QED
    BY <2>5, <2>6, <2>7, <2>8, <2>9
<1>9. QED
  BY <1>4, <1>5, <1>6, <1>7, <1>8 DEF DiaryInv

LEMMA ReplaceDiary ==
  ASSUME DiaryInv, NEW d \in Diarists, Replace(d)
  PROVE  DiaryInv'
<1>1. diarist[d].pc = "replacing"
  BY DEF Replace, Doing, Writing, Changing
<1>2. UNCHANGED <<summary, diaryRun, lastText, diaryFaults, written, racing, spoiled>>
  BY DEF Replace, Enters, MoveTo, Done
<1>3. /\ diarist' \in [Diarists -> DiaristState]
      /\ \A e \in Diarists : e # d => diarist'[e] = diarist[e]
      /\ diarist'[d].pc \in {"retracting", "ready"}
      /\ diarist'[d].pc = "retracting" =>
           diarist'[d].text = diarist[d].text /\ body = {} /\ body' = body
      /\ diarist'[d].pc = "ready" => diarist'[d].text = NoText /\ body # {} /\ body' = {Text(d)}
      /\ diarist'[d].stale \in {diarist[d].stale, {}}
      /\ Text(d) \in Texts /\ Text(d) <= lastText
  <2>1. /\ Text(d) \in Texts /\ Text(d) <= lastText
    BY <1>1 DEF DiaryInv, DiaryTypeOK, TextsCount, CallCounted, Text, DiaristState
  <2>2. CASE body = {}
    BY <2>1, <2>2, DiaristMoves DEF Replace, DiaryInv
  <2>3. CASE body # {}
    <3>1. Done(d) /\ body' = {Text(d)}
      BY <2>3 DEF Replace
    <3>2. diarist'[d].pc = "ready"
      BY <3>1, RestingDiarists, DiaristBecomes DEF Done, DiaryInv
    <3>3. QED
      BY <2>1, <2>3, <3>1, <3>2, DiaristRests DEF DiaryInv
  <2>4. QED
    BY <2>2, <2>3
<1>4. DiaryTypeOK'
  BY <1>1, <1>2, <1>3 DEF DiaryInv, DiaryTypeOK
<1>5. TextsCount'
  <2>1. summary' <= lastText' /\ \A t \in body' : t <= lastText'
    BY <1>1, <1>2, <1>3, DiaryAssumption
    DEF DiaryInv, DiaryTypeOK, TextsCount, CallCounted, Text, Texts, NoText
  <2>2. QED
    BY <1>1, <1>2, <1>3, <2>1, DiaryAssumption
    DEF DiaryInv, DiaryTypeOK, TextsCount, CallCounted, Writing, Text, NoText, Texts
<1>6. OldRunsRest'
  BY <1>1, <1>2, <1>3
  DEF DiaryInv, OldRunsRest, Writing, Changing, Sweeping, Admitted, Text, EntryCommitted
<1>7. FreshEntry'
  BY <1>1, <1>2, <1>3
  DEF DiaryInv, FreshEntry, Writing, Changing, Sweeping, Admitted, Text, EntryCommitted
<1>8. ASSUME ~racing'
      PROVE  CallsApart' /\ WritesSound' /\ ChangesSound' /\ SweepsSound' /\ PartsAgree'
  <2>1. ~racing
    BY <1>2, <1>3, <1>8
  <2>2. CallsApart /\ WritesSound /\ ChangesSound /\ SweepsSound /\ PartsAgree
    BY <2>1 DEF DiaryInv
  <2>3. EntryCommitted' <=> EntryCommitted
    BY <1>2 DEF EntryCommitted
  <2>4. \A e \in Diarists : ~Writing(e) /\ ~Sweeping(e) /\ (e # d => ~Changing(e))
    BY <1>1, <2>1, WhoElse DEF Changing
  <2>5. CallsApart'
    BY <1>1, <1>2, <1>3, <1>8, <2>2, <2>4
    DEF CallsApart, Writing, Changing, Sweeping, Admitted, Text, EntryCommitted
  <2>6. WritesSound'
    BY <1>1, <1>2, <1>3, <1>8, <2>2, <2>3, <2>4
    DEF WritesSound, Writing, Changing, Sweeping, Admitted, Text
  <2>7. ChangesSound'
    BY <1>1, <1>2, <1>3, <1>8, <2>2, <2>3, <2>4
    DEF ChangesSound, Writing, Changing, Sweeping, Admitted, Text
  <2>8. SweepsSound'
    BY <1>1, <1>2, <1>3, <1>8, <2>2, <2>3, <2>4
    DEF SweepsSound, Writing, Changing, Sweeping, Admitted, Text
  <2>9. PartsAgree'
    BY <1>1, <1>2, <1>3, <1>8, <2>2, <2>3, <2>4
    DEF PartsAgree, ChangesSound, Texts, NoText, Writing, Changing, Sweeping, Admitted, Text
  <2>10. QED
    BY <2>5, <2>6, <2>7, <2>8, <2>9
<1>9. QED
  BY <1>4, <1>5, <1>6, <1>7, <1>8 DEF DiaryInv

LEMMA RetractDiary ==
  ASSUME DiaryInv, NEW d \in Diarists, Retract(d)
  PROVE  DiaryInv'
<1>1. diarist[d].pc = "retracting"
  BY DEF Retract, Doing, Writing, Changing
<1>2. UNCHANGED <<body, diaryRun, lastText, diaryFaults, written, racing, spoiled>>
  BY DEF Retract, Enters, MoveTo, Done
<1>3. /\ diarist' \in [Diarists -> DiaristState]
      /\ \A e \in Diarists : e # d => diarist'[e] = diarist[e]
      /\ diarist'[d].pc \in {"down", "ready"} /\ diarist'[d].text = NoText
      /\ diarist'[d].stale = {}
      /\ summary' = NoText
  BY DiaristRests DEF Retract, DiaryInv
<1>4. DiaryTypeOK'
  BY <1>1, <1>2, <1>3 DEF DiaryInv, DiaryTypeOK
<1>5. TextsCount'
  <2>1. TextsCount /\ lastText \in Nat
    BY DEF DiaryInv, DiaryTypeOK, Texts
  <2>2. Text(d)' = NoText /\ NoText <= lastText
    BY <1>3, <2>1 DEF Text, NoText
  <2>3. CallCounted(d)'
    BY <1>2, <1>3, <2>2 DEF CallCounted, Writing, Text
  <2>4. \A e \in Diarists : e # d => Text(e)' = Text(e) /\ CallCounted(e)'
    BY <1>2, <1>3, <2>1 DEF TextsCount, CallCounted, Writing, Text
  <2>5. (\A e \in Diarists : CallCounted(e))'
    BY <2>3, <2>4
  <2>6. \A e, f \in Diarists : e # f /\ Text(e)' = Text(f)' => Text(e)' = NoText
    BY <2>1, <2>2, <2>4 DEF TextsCount
  <2>7. summary' <= lastText
    BY <1>3, <2>1, <2>2 DEF TextsCount
  <2>8. QED
    BY <1>2, <2>1, <2>5, <2>6, <2>7 DEF TextsCount, Texts, Text
<1>6. OldRunsRest'
  BY <1>1, <1>2, <1>3
  DEF DiaryInv, OldRunsRest, Writing, Changing, Sweeping, Admitted, Text, EntryCommitted
<1>7. FreshEntry'
  BY <1>1, <1>2, <1>3
  DEF DiaryInv, FreshEntry, Writing, Changing, Sweeping, Admitted, Text, EntryCommitted
<1>8. ASSUME ~racing'
      PROVE  CallsApart' /\ WritesSound' /\ ChangesSound' /\ SweepsSound' /\ PartsAgree'
  <2>1. ~racing
    BY <1>2, <1>3, <1>8
  <2>2. CallsApart /\ WritesSound /\ ChangesSound /\ SweepsSound /\ PartsAgree
    BY <2>1 DEF DiaryInv
  <2>3. EntryCommitted' <=> EntryCommitted
    BY <1>2 DEF EntryCommitted
  <2>4. \A e \in Diarists : ~Writing(e) /\ ~Sweeping(e) /\ (e # d => ~Changing(e))
    BY <1>1, <2>1, WhoElse DEF Changing
  <2>5. CallsApart'
    BY <1>1, <1>2, <1>3, <1>8, <2>2, <2>4
    DEF CallsApart, Writing, Changing, Sweeping, Admitted, Text, EntryCommitted
  <2>6. WritesSound'
    BY <1>1, <1>2, <1>3, <1>8, <2>2, <2>3, <2>4
    DEF WritesSound, Writing, Changing, Sweeping, Admitted, Text
  <2>7. ChangesSound'
    BY <1>1, <1>2, <1>3, <1>8, <2>2, <2>3, <2>4
    DEF ChangesSound, Writing, Changing, Sweeping, Admitted, Text
  <2>8. SweepsSound'
    BY <1>1, <1>2, <1>3, <1>8, <2>2, <2>3, <2>4
    DEF SweepsSound, Writing, Changing, Sweeping, Admitted, Text
  <2>9. PartsAgree'
    BY <1>1, <1>2, <1>3, <1>8, <2>2, <2>3, <2>4
    DEF ChangesSound, Writing, Changing, Sweeping, Admitted, Text
  <2>10. QED
    BY <2>5, <2>6, <2>7, <2>8, <2>9
<1>9. QED
  BY <1>4, <1>5, <1>6, <1>7, <1>8 DEF DiaryInv

LEMMA EraseDiary ==
  ASSUME DiaryInv, NEW d \in Diarists, Erase(d)
  PROVE  DiaryInv'
<1>1. diarist[d].pc = "erasing"
  BY DEF Erase, Doing, Writing, Changing
<1>2. UNCHANGED <<summary, diaryRun, lastText, diaryFaults, racing, spoiled>>
  BY DEF Erase, Enters, MoveTo, Done
<1>3. /\ diarist' \in [Diarists -> DiaristState]
      /\ \A e \in Diarists : e # d => diarist'[e] = diarist[e]
      /\ diarist'[d].pc \in {"cleaning", "ready"}
      /\ diarist'[d].pc = "cleaning" => diarist'[d].text = diarist[d].text
      /\ diarist'[d].pc = "ready" => diarist'[d].text = NoText /\ body = {}
      /\ diarist'[d].stale \in {diarist[d].stale, {}}
      /\ body' = {} /\ written' = FALSE
  <2>1. body' = {} /\ written' = FALSE
    BY DEF Erase
  <2>2. CASE body # {}
    BY <2>1, <2>2, DiaristMoves DEF Erase, DiaryInv
  <2>3. CASE body = {}
    <3>1. Done(d)
      BY <2>3 DEF Erase
    <3>2. diarist'[d].pc = "ready"
      BY <3>1, RestingDiarists, DiaristBecomes DEF Done, DiaryInv
    <3>3. QED
      BY <2>1, <2>3, <3>1, <3>2, DiaristRests DEF DiaryInv
  <2>4. QED
    BY <2>2, <2>3
<1>4. DiaryTypeOK'
  BY <1>1, <1>2, <1>3 DEF DiaryInv, DiaryTypeOK
<1>5. TextsCount'
  BY <1>1, <1>2, <1>3, DiaryAssumption
  DEF DiaryInv, DiaryTypeOK, TextsCount, CallCounted, Writing, Changing, Sweeping, Admitted, Text,
      EntryCommitted, Texts, NoText
<1>6. OldRunsRest'
  BY <1>1, <1>2, <1>3
  DEF DiaryInv, OldRunsRest, Writing, Changing, Sweeping, Admitted, Text, EntryCommitted
<1>7. FreshEntry'
  BY <1>1, <1>2, <1>3
  DEF DiaryInv, FreshEntry, Writing, Changing, Sweeping, Admitted, Text, EntryCommitted
<1>8. ASSUME ~racing'
      PROVE  CallsApart' /\ WritesSound' /\ ChangesSound' /\ SweepsSound' /\ PartsAgree'
  <2>1. ~racing
    BY <1>2, <1>3, <1>8
  <2>2. CallsApart /\ WritesSound /\ ChangesSound /\ SweepsSound /\ PartsAgree
    BY <2>1 DEF DiaryInv
  <2>3. EntryCommitted' <=> EntryCommitted
    BY <1>2 DEF EntryCommitted
  <2>4. \A e \in Diarists : ~Writing(e) /\ ~Sweeping(e) /\ (e # d => ~Changing(e))
    BY <1>1, <2>1, WhoElse DEF Changing
  <2>5. CallsApart'
    BY <1>1, <1>2, <1>3, <1>8, <2>2, <2>4
    DEF CallsApart, Writing, Changing, Sweeping, Admitted, Text, EntryCommitted
  <2>6. WritesSound'
    BY <1>1, <1>2, <1>3, <1>8, <2>2, <2>3, <2>4
    DEF WritesSound, Writing, Changing, Sweeping, Admitted, Text
  <2>7. ChangesSound'
    BY <1>1, <1>2, <1>3, <1>8, <2>2, <2>3, <2>4
    DEF ChangesSound, Writing, Changing, Sweeping, Admitted, Text
  <2>8. SweepsSound'
    BY <1>1, <1>2, <1>3, <1>8, <2>2, <2>3, <2>4
    DEF SweepsSound, Writing, Changing, Sweeping, Admitted, Text
  <2>9. PartsAgree'
    BY <1>1, <1>2, <1>3, <1>8, <2>2, <2>3, <2>4
    DEF PartsAgree, ChangesSound, Writing, Changing, Sweeping, Admitted, Text
  <2>10. QED
    BY <2>5, <2>6, <2>7, <2>8, <2>9
<1>9. QED
  BY <1>4, <1>5, <1>6, <1>7, <1>8 DEF DiaryInv

LEMMA CleanDiary ==
  ASSUME DiaryInv, NEW d \in Diarists, CleanSummary(d)
  PROVE  DiaryInv'
<1>1. diarist[d].pc = "cleaning"
  BY DEF CleanSummary, Doing, Writing, Changing
<1>2. UNCHANGED <<body, diaryRun, lastText, written, racing>>
  BY DEF CleanSummary, Enters, MoveTo, Done
<1>3. /\ diarist' \in [Diarists -> DiaristState]
      /\ \A e \in Diarists : e # d => diarist'[e] = diarist[e]
      /\ diarist'[d].pc \in {"down", "ready"} /\ diarist'[d].text = NoText
      /\ diarist'[d].stale = {}
      /\ summary' \in {summary, NoText} /\ (~spoiled' => ~spoiled /\ summary' = NoText)
      /\ diaryFaults' \in 0..MaxDiaryFaults /\ spoiled' \in BOOLEAN
  <2>1. diaryFaults' \in 0..MaxDiaryFaults
    BY DiaryAssumption DEF CleanSummary, DiaryInv, DiaryTypeOK
  <2>2. Done(d) /\ summary' \in {summary, NoText} /\ (~spoiled' => ~spoiled /\ summary' = NoText)
    BY DEF CleanSummary
  <2>3. spoiled' \in BOOLEAN
    BY DEF CleanSummary, DiaryInv, DiaryTypeOK
  <2>4. QED
    BY <2>1, <2>2, <2>3, DiaristRests DEF DiaryInv
<1>4. DiaryTypeOK'
  BY <1>1, <1>2, <1>3 DEF DiaryInv, DiaryTypeOK
<1>5. TextsCount'
  <2>1. summary' <= lastText' /\ \A t \in body' : t <= lastText'
    BY <1>1, <1>2, <1>3, DiaryAssumption
    DEF DiaryInv, DiaryTypeOK, TextsCount, CallCounted, Text, Texts, NoText
  <2>2. QED
    BY <1>1, <1>2, <1>3, <2>1
    DEF DiaryInv, DiaryTypeOK, TextsCount, CallCounted, Writing, Text, NoText
<1>6. OldRunsRest'
  BY <1>1, <1>2, <1>3
  DEF DiaryInv, OldRunsRest, Writing, Changing, Sweeping, Admitted, Text, EntryCommitted
<1>7. FreshEntry'
  BY <1>1, <1>2, <1>3
  DEF DiaryInv, FreshEntry, Writing, Changing, Sweeping, Admitted, Text, EntryCommitted
<1>8. ASSUME ~racing'
      PROVE  CallsApart' /\ WritesSound' /\ ChangesSound' /\ SweepsSound' /\ PartsAgree'
  <2>1. ~racing
    BY <1>2, <1>3, <1>8
  <2>2. CallsApart /\ WritesSound /\ ChangesSound /\ SweepsSound /\ PartsAgree
    BY <2>1 DEF DiaryInv
  <2>3. EntryCommitted' <=> EntryCommitted
    BY <1>2 DEF EntryCommitted
  <2>4. \A e \in Diarists : ~Writing(e) /\ ~Sweeping(e) /\ (e # d => ~Changing(e))
    BY <1>1, <2>1, WhoElse DEF Changing
  <2>5. CallsApart'
    BY <1>1, <1>2, <1>3, <1>8, <2>2, <2>4
    DEF CallsApart, Writing, Changing, Sweeping, Admitted, Text, EntryCommitted
  <2>6. WritesSound'
    BY <1>1, <1>2, <1>3, <1>8, <2>2, <2>3, <2>4
    DEF WritesSound, Writing, Changing, Sweeping, Admitted, Text
  <2>7. ChangesSound'
    BY <1>1, <1>2, <1>3, <1>8, <2>2, <2>3, <2>4
    DEF ChangesSound, Writing, Changing, Sweeping, Admitted, Text
  <2>8. SweepsSound'
    BY <1>1, <1>2, <1>3, <1>8, <2>2, <2>3, <2>4
    DEF SweepsSound, Writing, Changing, Sweeping, Admitted, Text
  <2>9. PartsAgree'
    BY <1>1, <1>2, <1>3, <1>8, <2>2, <2>3, <2>4
    DEF PartsAgree, ChangesSound, Writing, Changing, Sweeping, Admitted, Text
  <2>10. QED
    BY <2>5, <2>6, <2>7, <2>8, <2>9
<1>9. QED
  BY <1>4, <1>5, <1>6, <1>7, <1>8 DEF DiaryInv

LEMMA InterruptDiary ==
  ASSUME DiaryInv, NEW d \in Diarists, Interrupt(d)
  PROVE  DiaryInv'
<1>1. diarist[d].pc \notin {"down", "ready"}
  BY DEF Interrupt, Doing, Writing, Changing
<1>2. UNCHANGED <<body, summary, diaryRun, lastText, written, racing>>
  BY DEF Interrupt, Enters, MoveTo, Done
<1>3. /\ diarist' \in [Diarists -> DiaristState]
      /\ \A e \in Diarists : e # d => diarist'[e] = diarist[e]
      /\ diarist'[d].pc \in {"down", "ready"} /\ diarist'[d].text = NoText
      /\ diarist'[d].stale = {}
      /\ (~spoiled' => ~spoiled /\ ~Changing(d))
      /\ diaryFaults' \in 0..MaxDiaryFaults /\ spoiled' \in BOOLEAN
  <2>1. diaryFaults' \in 0..MaxDiaryFaults /\ spoiled' \in BOOLEAN
    BY DiaryAssumption DEF Interrupt, DiaryInv, DiaryTypeOK
  <2>2. QED
    BY <2>1, DiaristRests DEF Interrupt, DiaryInv
<1>4. DiaryTypeOK'
  BY <1>1, <1>2, <1>3 DEF DiaryInv, DiaryTypeOK
<1>5. TextsCount'
  BY <1>1, <1>2, <1>3, DiaryAssumption
  DEF DiaryInv, DiaryTypeOK, TextsCount, CallCounted, Writing, Changing, Sweeping, Admitted, Text,
      EntryCommitted, Texts, NoText
<1>6. OldRunsRest'
  BY <1>1, <1>2, <1>3
  DEF DiaryInv, OldRunsRest, Writing, Changing, Sweeping, Admitted, Text, EntryCommitted
<1>7. FreshEntry'
  BY <1>1, <1>2, <1>3
  DEF DiaryInv, FreshEntry, Writing, Changing, Sweeping, Admitted, Text, EntryCommitted
<1>8. ASSUME ~racing'
      PROVE  CallsApart' /\ WritesSound' /\ ChangesSound' /\ SweepsSound' /\ PartsAgree'
  <2>1. ~racing
    BY <1>2, <1>3, <1>8
  <2>2. CallsApart /\ WritesSound /\ ChangesSound /\ SweepsSound /\ PartsAgree
    BY <2>1 DEF DiaryInv
  <2>3. EntryCommitted' <=> EntryCommitted
    BY <1>2 DEF EntryCommitted
  <2>4. \A e \in Diarists : e # d => diarist'[e] = diarist[e]
    BY <1>3
  <2>5. CallsApart'
    BY <1>1, <1>2, <1>3, <1>8, <2>2, <2>4
    DEF CallsApart, Writing, Changing, Sweeping, Admitted, Text, EntryCommitted
  <2>6. WritesSound'
    BY <1>1, <1>2, <1>3, <1>8, <2>2, <2>3, <2>4
    DEF WritesSound, Writing, Changing, Sweeping, Admitted, Text
  <2>7. ChangesSound'
    BY <1>1, <1>2, <1>3, <1>8, <2>2, <2>3, <2>4
    DEF ChangesSound, Writing, Changing, Sweeping, Admitted, Text
  <2>8. SweepsSound'
    BY <1>1, <1>2, <1>3, <1>8, <2>2, <2>3, <2>4
    DEF SweepsSound, Writing, Changing, Sweeping, Admitted, Text
  <2>9. PartsAgree'
    <3>1. ~spoiled' /\ (\A e \in Diarists : ~Changing(e)') => \A e \in Diarists : ~Changing(e)
      BY <1>3, <2>4 DEF Changing
    <3>2. QED
      BY <1>2, <1>3, <2>2, <2>3, <3>1 DEF PartsAgree
  <2>10. QED
    BY <2>5, <2>6, <2>7, <2>8, <2>9
<1>9. QED
  BY <1>4, <1>5, <1>6, <1>7, <1>8 DEF DiaryInv

LEMMA ListDiary ==
  ASSUME DiaryInv, NEW d \in Diarists, ListOldRuns(d)
  PROVE  DiaryInv'
<1>1. diarist[d].pc = "listing"
  BY DEF ListOldRuns, Doing, Writing, Changing
<1>2. UNCHANGED <<body, summary, diaryRun, lastText, diaryFaults, written, spoiled>>
  BY DEF ListOldRuns, Enters, MoveTo, Done
<1>3. /\ diarist' \in [Diarists -> DiaristState]
      /\ \A e \in Diarists : e # d => diarist'[e] = diarist[e]
      /\ diarist'[d].pc \in {"ready", "pruning"} /\ diarist'[d].text = diarist[d].text
      /\ \A t \in diarist'[d].stale : t \in Texts /\ diaryRun[t].old
      /\ diarist'[d].pc = "pruning" =>
           /\ diarist'[d].stale # {} /\ \A e \in Diarists : ~Writing(e)
           /\ ~racing' => \A e \in Diarists : ~Changing(e)
      /\ racing' \in BOOLEAN /\ (~racing' => ~racing)
  <2> DEFINE row == [diarist[d] EXCEPT !.stale = OldRuns,
                                       !.pc = IF OldRuns = {} THEN "ready" ELSE "pruning"]
  <2>1. OldRuns \subseteq Texts /\ \A t \in OldRuns : diaryRun[t].old
    BY DEF OldRuns, RunsIn
  <2>2. diarist[d] \in DiaristState
    BY DEF DiaryInv, DiaryTypeOK
  <2>3. /\ row \in DiaristState /\ row.pc \in {"ready", "pruning"} /\ row.text = diarist[d].text
        /\ row.stale = OldRuns /\ (row.pc = "pruning" => OldRuns # {})
    BY <2>1, <2>2 DEF DiaristState
  <2>4. diarist' = [diarist EXCEPT ![d] = row]
    BY DEF ListOldRuns, DiaryInv, DiaryTypeOK
  <2> HIDE DEF row
  <2>5. /\ diarist' \in [Diarists -> DiaristState] /\ diarist'[d] = row
        /\ \A e \in Diarists : e # d => diarist'[e] = diarist[e]
    BY <2>3, <2>4, DiaristBecomes DEF DiaryInv
  <2>6. OldRuns # {} => \A e \in Diarists : ~Writing(e)
    BY <2>1 DEF DiaryInv, OldRunsRest
  <2>7. /\ racing' \in BOOLEAN /\ (~racing' => ~racing)
        /\ OldRuns # {} /\ ~racing' => \A e \in Diarists : ~Changing(e)
    BY DEF ListOldRuns, DiaryInv, DiaryTypeOK
  <2>8. QED
    BY <2>1, <2>3, <2>5, <2>6, <2>7
<1>4. DiaryTypeOK'
  BY <1>1, <1>2, <1>3 DEF DiaryInv, DiaryTypeOK
<1>5. TextsCount'
  BY <1>1, <1>2, <1>3, DiaryAssumption
  DEF DiaryInv, DiaryTypeOK, TextsCount, CallCounted, Writing, Changing, Sweeping, Admitted, Text,
      EntryCommitted, Texts, NoText
<1>6. OldRunsRest'
  BY <1>1, <1>2, <1>3
  DEF DiaryInv, OldRunsRest, Writing, Changing, Sweeping, Admitted, Text, EntryCommitted
<1>7. FreshEntry'
  BY <1>1, <1>2, <1>3
  DEF DiaryInv, FreshEntry, Writing, Changing, Sweeping, Admitted, Text, EntryCommitted
<1>8. ASSUME ~racing'
      PROVE  CallsApart' /\ WritesSound' /\ ChangesSound' /\ SweepsSound' /\ PartsAgree'
  <2>1. ~racing
    BY <1>2, <1>3, <1>8
  <2>2. CallsApart /\ WritesSound /\ ChangesSound /\ SweepsSound /\ PartsAgree
    BY <2>1 DEF DiaryInv
  <2>3. EntryCommitted' <=> EntryCommitted
    BY <1>2 DEF EntryCommitted
  <2>4. \A e \in Diarists : e # d => diarist'[e] = diarist[e]
    BY <1>3
  <2>5. CallsApart'
    BY <1>1, <1>2, <1>3, <1>8, <2>2, <2>4
    DEF CallsApart, Writing, Changing, Sweeping, Admitted, Text, EntryCommitted
  <2>6. WritesSound'
    BY <1>1, <1>2, <1>3, <1>8, <2>2, <2>3, <2>4
    DEF WritesSound, Writing, Changing, Sweeping, Admitted, Text
  <2>7. ChangesSound'
    BY <1>1, <1>2, <1>3, <1>8, <2>2, <2>3, <2>4
    DEF ChangesSound, Writing, Changing, Sweeping, Admitted, Text
  <2>8. SweepsSound'
    BY <1>1, <1>2, <1>3, <1>8, <2>2, <2>3, <2>4
    DEF SweepsSound, Writing, Changing, Sweeping, Admitted, Text
  <2>9. PartsAgree'
    BY <1>1, <1>2, <1>3, <1>8, <2>2, <2>3, <2>4
    DEF PartsAgree, Writing, Changing, Sweeping, Admitted, Text
  <2>10. QED
    BY <2>5, <2>6, <2>7, <2>8, <2>9
<1>9. QED
  BY <1>4, <1>5, <1>6, <1>7, <1>8 DEF DiaryInv

LEMMA FinishDiary ==
  ASSUME DiaryInv, NEW d \in Diarists, FinishReconcile(d)
  PROVE  DiaryInv'
<1>1. diarist[d].pc = "finishing"
  BY DEF FinishReconcile, Doing, Writing, Changing
<1>2. UNCHANGED <<body, summary, lastText, diaryFaults, written, racing, spoiled>>
  BY DEF FinishReconcile, Enters, MoveTo, Done
<1>3. /\ diarist' \in [Diarists -> DiaristState]
      /\ \A e \in Diarists : e # d => diarist'[e] = diarist[e]
      /\ diarist'[d].pc \in {"down", "ready"} /\ diarist'[d].text = NoText
      /\ diarist'[d].stale = {}
      /\ diaryRun' \in [Texts -> [status : {"none", "pending", "committed", "failed"},
                                  old : BOOLEAN, swept : BOOLEAN]]
      /\ diarist[d].stale \subseteq Texts /\ diarist[d].stale # {}
      /\ \A e \in Diarists : ~Writing(e)
      /\ \A t \in diarist[d].stale :
           /\ diaryRun[t].old /\ diaryRun[t].status \in {"pending", "failed"}
           /\ diaryRun'[t].old /\ diaryRun'[t].status = "failed"
      /\ \A t \in Texts : t \notin diarist[d].stale => diaryRun'[t] = diaryRun[t]
  <2>1. /\ diarist[d].stale \subseteq Texts /\ diarist[d].stale # {}
        /\ \A t \in diarist[d].stale :
             diaryRun[t].old /\ diaryRun[t].status \in {"pending", "failed"}
    BY <1>1 DEF DiaryInv, DiaryTypeOK, DiaristState, OldRunsRest, Sweeping
  <2>2. \A t \in Texts : diaryRun'[t] = IF t \in diarist[d].stale
               THEN [diaryRun[t] EXCEPT !.status = "failed", !.swept = TRUE] ELSE diaryRun[t]
    BY DEF FinishReconcile
  <2>3. \A t \in diarist[d].stale : /\ diaryRun'[t].old /\ diaryRun'[t].status = "failed"
    BY <2>1, <2>2 DEF DiaryInv, DiaryTypeOK
  <2>4. diaryRun' \in [Texts -> [status : {"none", "pending", "committed", "failed"},
                                 old : BOOLEAN, swept : BOOLEAN]]
    BY DEF FinishReconcile, DiaryInv, DiaryTypeOK
  <2>5. \A e \in Diarists : ~Writing(e)
    BY <1>1, WhoElse DEF Sweeping
  <2>6. QED
    BY <2>1, <2>2, <2>3, <2>4, <2>5, DiaristRests DEF FinishReconcile, DiaryInv
<1>4. DiaryTypeOK'
  BY <1>1, <1>2, <1>3 DEF DiaryInv, DiaryTypeOK
<1>5. TextsCount'
  <2>1. summary' <= lastText' /\ \A t \in body' : t <= lastText'
    BY <1>1, <1>2, <1>3, DiaryAssumption
    DEF DiaryInv, DiaryTypeOK, TextsCount, Text, Texts, NoText
  <2>2. \A t \in Texts : t > lastText' => diaryRun'[t].status = "none"
    BY <1>1, <1>2, <1>3, DiaryAssumption
    DEF DiaryInv, DiaryTypeOK, TextsCount, Text, Texts, NoText
  <2>3. ASSUME NEW e \in Diarists, e # d
        PROVE  CallCounted(e)' /\ (Text(e)' = Text(d)' => Text(e)' = NoText)
    <3>1. /\ Text(e) \in Texts \cup {NoText} /\ CallCounted(e) /\ Text(e)' = Text(e)
          /\ Text(d) = Text(e) => Text(e) = NoText
      BY <1>1, <1>2, <1>3, <2>3 DEF DiaryInv, DiaryTypeOK, DiaristState, TextsCount, Text
    <3>2. QED
      BY <1>1, <1>2, <1>3, <2>3, <3>1, DiaryAssumption
      DEF CallCounted, DiaryInv, DiaryTypeOK, Writing, Text, Texts, NoText
  <2>4. CallCounted(d)'
    BY <1>1, <1>2, <1>3, DiaryAssumption
    DEF DiaryInv, DiaryTypeOK, TextsCount, CallCounted, Writing, Text, Texts, NoText
  <2>5. \A e, f \in Diarists : e # f /\ Text(e)' = Text(f)' => Text(e)' = NoText
    BY <1>1, <1>2, <1>3, <2>3 DEF DiaryInv, TextsCount, Text
  <2>6. QED
    BY <2>1, <2>2, <2>3, <2>4, <2>5 DEF TextsCount, Text
<1>6. OldRunsRest'
  <2>1. ASSUME NEW t \in Texts
        PROVE  /\ diaryRun'[t].old => diaryRun'[t].status \in {"pending", "failed"}
               /\ diaryRun'[t].swept => diaryRun'[t].old
               /\ diaryRun'[t].old => \A e \in Diarists : ~Writing(e)'
    <3>1. /\ diaryRun[t].old => diaryRun[t].status \in {"pending", "failed"}
          /\ diaryRun[t].swept => diaryRun[t].old
          /\ diaryRun[t].old => \A e \in Diarists : ~Writing(e)
      BY DEF DiaryInv, OldRunsRest
    <3>2. (diaryRun'[t].old => diaryRun[t].old) /\ (diaryRun[t].old => diaryRun'[t].old)
      BY <1>1, <1>2, <1>3, <2>1, <3>1
    <3>3. QED
      BY <1>1, <1>2, <1>3, <3>1, <3>2 DEF Writing
  <2>2. ASSUME NEW e \in Diarists
        PROVE  /\ \A t \in diarist'[e].stale : diaryRun'[t].old
               /\ Sweeping(e)' => diarist'[e].stale # {}
    <3>1. /\ diarist[e].stale \subseteq Texts
          /\ \A t \in diarist[e].stale : diaryRun[t].old
          /\ Sweeping(e) => diarist[e].stale # {}
      BY DEF DiaryInv, DiaryTypeOK, DiaristState, OldRunsRest
    <3>2. QED
      BY <1>1, <1>2, <1>3, <3>1 DEF Sweeping
  <2>3. QED
    BY <2>1, <2>2 DEF OldRunsRest
<1>7. FreshEntry'
  BY <1>1, <1>2, <1>3
  DEF DiaryInv, FreshEntry, Writing, Changing, Sweeping, Admitted, Text, EntryCommitted
<1>8. ASSUME ~racing'
      PROVE  CallsApart' /\ WritesSound' /\ ChangesSound' /\ SweepsSound' /\ PartsAgree'
  <2>1. ~racing
    BY <1>2, <1>3, <1>8
  <2>2. CallsApart /\ WritesSound /\ ChangesSound /\ SweepsSound /\ PartsAgree
    BY <2>1 DEF DiaryInv
  <2>3. EntryCommitted' <=> EntryCommitted
    BY <1>3 DEF EntryCommitted
  <2>4. \A e \in Diarists : ~Writing(e) /\ ~Changing(e)
    BY <1>1, <2>1, WhoElse DEF Sweeping
  <2>5. CallsApart'
    BY <1>1, <1>2, <1>3, <1>8, <2>2, <2>4
    DEF CallsApart, Writing, Changing, Sweeping, Admitted, Text, EntryCommitted
  <2>6. WritesSound'
    BY <1>1, <1>2, <1>3, <1>8, <2>2, <2>3, <2>4
    DEF WritesSound, Writing, Changing, Sweeping, Admitted, Text
  <2>7. ChangesSound'
    BY <1>1, <1>2, <1>3, <1>8, <2>2, <2>3, <2>4
    DEF ChangesSound, Writing, Changing, Sweeping, Admitted, Text
  <2>8. SweepsSound'
    BY <1>1, <1>2, <1>3, <1>8, <2>2, <2>3, <2>4
    DEF SweepsSound, Writing, Changing, Sweeping, Admitted, Text
  <2>9. PartsAgree'
    <3>1. written' => EntryCommitted' /\ body' # {}
      BY <1>1, <1>2, <1>3, <2>2, <2>3, <2>4
      DEF PartsAgree, Writing, Changing, Sweeping, Admitted, Text
    <3>2. ASSUME NEW t \in body', diaryRun'[t].status = "none", summary' # NoText
          PROVE  t <= summary'
      <4>1. t \in Texts /\ t \in body
        BY <1>2, <3>2 DEF DiaryInv, DiaryTypeOK
      <4>2. diaryRun[t].status = "none"
        BY <1>1, <1>2, <1>3, <3>2, <4>1
      <4>3. QED
        BY <1>2, <2>2, <3>2, <4>1, <4>2 DEF PartsAgree
    <3>3. EntryCommitted' /\ ~spoiled' /\ (\A e \in Diarists : ~Changing(e)') =>
            (body' = {} <=> summary' = NoText)
      BY <1>1, <1>2, <1>3, <2>2, <2>3, <2>4
      DEF PartsAgree, Writing, Changing, Sweeping, Admitted, Text
    <3>4. QED
      BY <3>1, <3>2, <3>3 DEF PartsAgree
  <2>10. QED
    BY <2>5, <2>6, <2>7, <2>8, <2>9
<1>9. QED
  BY <1>4, <1>5, <1>6, <1>7, <1>8 DEF DiaryInv

LEMMA BeginDiary ==
  ASSUME DiaryInv, NEW d \in Diarists, BeginWrite(d)
  PROVE  DiaryInv'
<1>1. diarist[d].pc = "ready"
  BY DEF BeginWrite, Doing, Writing, Changing
<1>2. UNCHANGED <<body, summary, diaryRun, diaryFaults, written, spoiled>>
  BY DEF BeginWrite, Enters, MoveTo, Done
<1>3. /\ diarist' \in [Diarists -> DiaristState]
      /\ \A e \in Diarists : e # d => diarist'[e] = diarist[e]
      /\ diarist'[d].pc = "gating" /\ diarist'[d].text = lastText' /\ diarist'[d].stale = {}
      /\ racing' \in BOOLEAN /\ (~racing' => ~racing)
      /\ ~racing' => \A e \in Diarists : e # d => ~Changing(e)
      /\ lastText' = lastText + 1 /\ lastText \in Nat /\ lastText' \in Texts
      /\ body = {} /\ \A t \in Texts : diaryRun[t].status = "none"
  <2>1. /\ lastText' = lastText + 1 /\ lastText \in Nat /\ lastText' \in Texts
    BY DiaryAssumption DEF BeginWrite, DiaryInv, DiaryTypeOK, Texts
  <2>2. body = {} /\ \A t \in Texts : diaryRun[t].status = "none"
    BY DEF BeginWrite, RunsIn
  <2>3. Enters(d, "gating", lastText', FALSE)
    BY DEF BeginWrite
  <2>4. QED
    BY <2>1, <2>2, <2>3, DiaristEnters DEF DiaryInv
<1>4. DiaryTypeOK'
  <2>1. lastText' \in 0..MaxTexts
    BY <1>1, <1>2, <1>3, DiaryAssumption DEF Texts
  <2>2. QED
    BY <1>1, <1>2, <1>3, <2>1 DEF DiaryInv, DiaryTypeOK
<1>5. TextsCount'
  <2>1. summary' <= lastText' /\ \A t \in body' : t <= lastText'
    BY <1>1, <1>2, <1>3, DiaryAssumption
    DEF DiaryInv, DiaryTypeOK, TextsCount, Text, Texts, NoText
  <2>2. \A t \in Texts : t > lastText' => diaryRun'[t].status = "none"
    BY <1>1, <1>2, <1>3, DiaryAssumption
    DEF DiaryInv, DiaryTypeOK, TextsCount, Text, Texts, NoText
  <2>3. ASSUME NEW e \in Diarists, e # d
        PROVE  CallCounted(e)' /\ (Text(e)' = Text(d)' => Text(e)' = NoText)
    <3>1. /\ Text(e) \in Texts \cup {NoText} /\ CallCounted(e) /\ Text(e)' = Text(e)
          /\ Text(d) = Text(e) => Text(e) = NoText
      BY <1>1, <1>2, <1>3, <2>3 DEF DiaryInv, DiaryTypeOK, DiaristState, TextsCount, Text
    <3>2. QED
      BY <1>1, <1>2, <1>3, <2>3, <3>1, DiaryAssumption
      DEF CallCounted, DiaryInv, DiaryTypeOK, Writing, Text, Texts, NoText
  <2>4. CallCounted(d)'
    BY <1>1, <1>2, <1>3, DiaryAssumption
    DEF DiaryInv, DiaryTypeOK, TextsCount, CallCounted, Writing, Text, Texts, NoText
  <2>5. \A e, f \in Diarists : e # f /\ Text(e)' = Text(f)' => Text(e)' = NoText
    BY <1>1, <1>2, <1>3, <2>3 DEF DiaryInv, TextsCount, Text
  <2>6. QED
    BY <2>1, <2>2, <2>3, <2>4, <2>5 DEF TextsCount, Text
<1>6. OldRunsRest'
  BY <1>1, <1>2, <1>3
  DEF DiaryInv, OldRunsRest, Writing, Changing, Sweeping, Admitted, Text, EntryCommitted
<1>7. FreshEntry'
  BY <1>1, <1>2, <1>3
  DEF DiaryInv, FreshEntry, Writing, Changing, Sweeping, Admitted, Text, EntryCommitted
<1>8. ASSUME ~racing'
      PROVE  CallsApart' /\ WritesSound' /\ ChangesSound' /\ SweepsSound' /\ PartsAgree'
  <2>1. ~racing
    BY <1>2, <1>3, <1>8
  <2>2. CallsApart /\ WritesSound /\ ChangesSound /\ SweepsSound /\ PartsAgree
    BY <2>1 DEF DiaryInv
  <2>3. EntryCommitted' <=> EntryCommitted
    BY <1>2 DEF EntryCommitted
  <2>4. \A e \in Diarists : e # d => diarist'[e] = diarist[e]
    BY <1>3
  <2>5. CallsApart'
    BY <1>1, <1>2, <1>3, <1>8, <2>2, <2>4
    DEF CallsApart, Writing, Changing, Sweeping, Admitted, Text, EntryCommitted
  <2>6. WritesSound'
    <3>1. ~EntryCommitted /\ body' = {}
      BY <1>1, <1>2, <1>3 DEF EntryCommitted
    <3>2. \A e \in Diarists : Admitted(e) => summary = Text(e) /\ diarist[e].pc # "committing"
      BY <1>3, <2>2 DEF WritesSound, Admitted
    <3>3. \A e \in Diarists : Admitted(e)' => Admitted(e) /\ Text(e)' = Text(e)
      BY <1>3 DEF Admitted, Text
    <3>4. \A e \in Diarists : diarist'[e].pc # "committing"
      BY <1>3, <3>2 DEF Admitted
    <3>5. QED
      BY <1>1, <1>2, <1>3, <2>3, <3>1, <3>2, <3>3, <3>4 DEF WritesSound
  <2>7. ChangesSound'
    BY <1>1, <1>2, <1>3, <1>8, <2>2, <2>3, <2>4
    DEF ChangesSound, Writing, Changing, Sweeping, Admitted, Text
  <2>8. SweepsSound'
    BY <1>1, <1>2, <1>3, <1>8, <2>2, <2>3, <2>4
    DEF SweepsSound, Writing, Changing, Sweeping, Admitted, Text
  <2>9. PartsAgree'
    BY <1>1, <1>2, <1>3, <1>8, <2>2, <2>3, <2>4
    DEF PartsAgree, Writing, Changing, Sweeping, Admitted, Text
  <2>10. QED
    BY <2>5, <2>6, <2>7, <2>8, <2>9
<1>9. QED
  BY <1>4, <1>5, <1>6, <1>7, <1>8 DEF DiaryInv

LEMMA UpdateDiary ==
  ASSUME DiaryInv, NEW d \in Diarists, BeginUpdate(d)
  PROVE  DiaryInv'
<1>1. diarist[d].pc = "ready"
  BY DEF BeginUpdate, Doing, Writing, Changing
<1>2. UNCHANGED <<body, summary, diaryRun, diaryFaults, written, spoiled>>
  BY DEF BeginUpdate, Enters, MoveTo, Done
<1>3. /\ diarist' \in [Diarists -> DiaristState]
      /\ \A e \in Diarists : e # d => diarist'[e] = diarist[e]
      /\ diarist'[d].pc = "touching" /\ diarist'[d].text = lastText' /\ diarist'[d].stale = {}
      /\ racing' \in BOOLEAN /\ (~racing' => ~racing)
      /\ ~racing' => \A e \in Diarists : e # d => ~Changing(e) /\ ~Writing(e) /\ ~Sweeping(e)
      /\ lastText' = lastText + 1 /\ lastText \in Nat /\ lastText' \in Texts /\ body # {}
  <2>1. /\ lastText' = lastText + 1 /\ lastText \in Nat /\ lastText' \in Texts /\ body # {}
    BY DiaryAssumption DEF BeginUpdate, DiaryInv, DiaryTypeOK, Texts
  <2>2. PICK whole \in BOOLEAN : Enters(d, "touching", lastText', whole)
    BY DEF BeginUpdate
  <2>3. QED
    BY <2>1, <2>2, DiaristEnters DEF DiaryInv
<1>4. DiaryTypeOK'
  <2>1. lastText' \in 0..MaxTexts
    BY <1>1, <1>2, <1>3, DiaryAssumption DEF Texts
  <2>2. QED
    BY <1>1, <1>2, <1>3, <2>1 DEF DiaryInv, DiaryTypeOK
<1>5. TextsCount'
  <2>1. summary' <= lastText' /\ \A t \in body' : t <= lastText'
    BY <1>1, <1>2, <1>3, DiaryAssumption
    DEF DiaryInv, DiaryTypeOK, TextsCount, Text, Texts, NoText
  <2>2. \A t \in Texts : t > lastText' => diaryRun'[t].status = "none"
    BY <1>1, <1>2, <1>3, DiaryAssumption
    DEF DiaryInv, DiaryTypeOK, TextsCount, Text, Texts, NoText
  <2>3. ASSUME NEW e \in Diarists, e # d
        PROVE  CallCounted(e)' /\ (Text(e)' = Text(d)' => Text(e)' = NoText)
    <3>1. /\ Text(e) \in Texts \cup {NoText} /\ CallCounted(e) /\ Text(e)' = Text(e)
          /\ Text(d) = Text(e) => Text(e) = NoText
      BY <1>1, <1>2, <1>3, <2>3 DEF DiaryInv, DiaryTypeOK, DiaristState, TextsCount, Text
    <3>2. QED
      BY <1>1, <1>2, <1>3, <2>3, <3>1, DiaryAssumption
      DEF CallCounted, DiaryInv, DiaryTypeOK, Writing, Text, Texts, NoText
  <2>4. CallCounted(d)'
    BY <1>1, <1>2, <1>3, DiaryAssumption
    DEF DiaryInv, DiaryTypeOK, TextsCount, CallCounted, Writing, Text, Texts, NoText
  <2>5. \A e, f \in Diarists : e # f /\ Text(e)' = Text(f)' => Text(e)' = NoText
    BY <1>1, <1>2, <1>3, <2>3 DEF DiaryInv, TextsCount, Text
  <2>6. QED
    BY <2>1, <2>2, <2>3, <2>4, <2>5 DEF TextsCount, Text
<1>6. OldRunsRest'
  BY <1>1, <1>2, <1>3
  DEF DiaryInv, OldRunsRest, Writing, Changing, Sweeping, Admitted, Text, EntryCommitted
<1>7. FreshEntry'
  BY <1>1, <1>2, <1>3
  DEF DiaryInv, FreshEntry, Writing, Changing, Sweeping, Admitted, Text, EntryCommitted
<1>8. ASSUME ~racing'
      PROVE  CallsApart' /\ WritesSound' /\ ChangesSound' /\ SweepsSound' /\ PartsAgree'
  <2>1. ~racing
    BY <1>2, <1>3, <1>8
  <2>2. CallsApart /\ WritesSound /\ ChangesSound /\ SweepsSound /\ PartsAgree
    BY <2>1 DEF DiaryInv
  <2>3. EntryCommitted' <=> EntryCommitted
    BY <1>2 DEF EntryCommitted
  <2>4. \A e \in Diarists : e # d => diarist'[e] = diarist[e]
    BY <1>3
  <2>5. CallsApart'
    BY <1>1, <1>2, <1>3, <1>8, <2>2, <2>4
    DEF CallsApart, Writing, Changing, Sweeping, Admitted, Text, EntryCommitted
  <2>6. WritesSound'
    BY <1>1, <1>2, <1>3, <1>8, <2>2, <2>3, <2>4
    DEF WritesSound, Writing, Changing, Sweeping, Admitted, Text
  <2>7. ChangesSound'
    <3>1. EntryCommitted \/ \A t \in Texts : ~diaryRun[t].swept
      BY <1>3, <2>2 DEF SweepsSound
    <3>2. \A e \in Diarists : e # d => ~Changing(e)'
      BY <1>1, <1>2, <1>3, <1>8 DEF Changing
    <3>3. Text(d)' = lastText' \/ diarist'[d].pc = "erasing"
      BY <1>3 DEF Text
    <3>4. QED
      BY <1>1, <1>2, <1>3, <2>3, <3>1, <3>2, <3>3 DEF ChangesSound, Changing
  <2>8. SweepsSound'
    BY <1>1, <1>2, <1>3, <1>8, <2>2, <2>3, <2>4
    DEF SweepsSound, Writing, Changing, Sweeping, Admitted, Text
  <2>9. PartsAgree'
    BY <1>1, <1>2, <1>3, <1>8, <2>2, <2>3, <2>4
    DEF PartsAgree, Writing, Changing, Sweeping, Admitted, Text
  <2>10. QED
    BY <2>5, <2>6, <2>7, <2>8, <2>9
<1>9. QED
  BY <1>4, <1>5, <1>6, <1>7, <1>8 DEF DiaryInv

LEMMA DropDiary ==
  ASSUME DiaryInv, NEW d \in Diarists, BeginErase(d)
  PROVE  DiaryInv'
<1>1. diarist[d].pc = "ready"
  BY DEF BeginErase, Doing, Writing, Changing
<1>2. UNCHANGED <<body, summary, diaryRun, lastText, diaryFaults, written, spoiled>>
  BY DEF BeginErase, Enters, MoveTo, Done
<1>3. /\ diarist' \in [Diarists -> DiaristState]
      /\ \A e \in Diarists : e # d => diarist'[e] = diarist[e]
      /\ diarist'[d].pc = "erasing" /\ diarist'[d].text = NoText /\ diarist'[d].stale = {}
      /\ racing' \in BOOLEAN /\ (~racing' => ~racing)
      /\ ~racing' => \A e \in Diarists : e # d => ~Changing(e) /\ ~Writing(e) /\ ~Sweeping(e)
      /\ body # {}
  <2>1. Enters(d, "erasing", NoText, FALSE) /\ body # {}
    BY DEF BeginErase
  <2>2. QED
    BY <2>1, DiaristEnters DEF DiaryInv
<1>4. DiaryTypeOK'
  BY <1>1, <1>2, <1>3 DEF DiaryInv, DiaryTypeOK
<1>5. TextsCount'
  <2>1. summary' <= lastText' /\ \A t \in body' : t <= lastText'
    BY <1>1, <1>2, <1>3, DiaryAssumption
    DEF DiaryInv, DiaryTypeOK, TextsCount, Text, Texts, NoText
  <2>2. \A t \in Texts : t > lastText' => diaryRun'[t].status = "none"
    BY <1>1, <1>2, <1>3, DiaryAssumption
    DEF DiaryInv, DiaryTypeOK, TextsCount, Text, Texts, NoText
  <2>3. ASSUME NEW e \in Diarists, e # d
        PROVE  CallCounted(e)' /\ (Text(e)' = Text(d)' => Text(e)' = NoText)
    <3>1. /\ Text(e) \in Texts \cup {NoText} /\ CallCounted(e) /\ Text(e)' = Text(e)
          /\ Text(d) = Text(e) => Text(e) = NoText
      BY <1>1, <1>2, <1>3, <2>3 DEF DiaryInv, DiaryTypeOK, DiaristState, TextsCount, Text
    <3>2. QED
      BY <1>1, <1>2, <1>3, <2>3, <3>1, DiaryAssumption
      DEF CallCounted, DiaryInv, DiaryTypeOK, Writing, Text, Texts, NoText
  <2>4. CallCounted(d)'
    BY <1>1, <1>2, <1>3, DiaryAssumption
    DEF DiaryInv, DiaryTypeOK, TextsCount, CallCounted, Writing, Text, Texts, NoText
  <2>5. \A e, f \in Diarists : e # f /\ Text(e)' = Text(f)' => Text(e)' = NoText
    BY <1>1, <1>2, <1>3, <2>3 DEF DiaryInv, TextsCount, Text
  <2>6. QED
    BY <2>1, <2>2, <2>3, <2>4, <2>5 DEF TextsCount, Text
<1>6. OldRunsRest'
  BY <1>1, <1>2, <1>3
  DEF DiaryInv, OldRunsRest, Writing, Changing, Sweeping, Admitted, Text, EntryCommitted
<1>7. FreshEntry'
  BY <1>1, <1>2, <1>3
  DEF DiaryInv, FreshEntry, Writing, Changing, Sweeping, Admitted, Text, EntryCommitted
<1>8. ASSUME ~racing'
      PROVE  CallsApart' /\ WritesSound' /\ ChangesSound' /\ SweepsSound' /\ PartsAgree'
  <2>1. ~racing
    BY <1>2, <1>3, <1>8
  <2>2. CallsApart /\ WritesSound /\ ChangesSound /\ SweepsSound /\ PartsAgree
    BY <2>1 DEF DiaryInv
  <2>3. EntryCommitted' <=> EntryCommitted
    BY <1>2 DEF EntryCommitted
  <2>4. \A e \in Diarists : e # d => diarist'[e] = diarist[e]
    BY <1>3
  <2>5. CallsApart'
    BY <1>1, <1>2, <1>3, <1>8, <2>2, <2>4
    DEF CallsApart, Writing, Changing, Sweeping, Admitted, Text, EntryCommitted
  <2>6. WritesSound'
    BY <1>1, <1>2, <1>3, <1>8, <2>2, <2>3, <2>4
    DEF WritesSound, Writing, Changing, Sweeping, Admitted, Text
  <2>7. ChangesSound'
    <3>1. EntryCommitted \/ \A t \in Texts : ~diaryRun[t].swept
      BY <1>3, <2>2 DEF SweepsSound
    <3>2. \A e \in Diarists : e # d => ~Changing(e)'
      BY <1>1, <1>2, <1>3, <1>8 DEF Changing
    <3>3. Text(d)' = lastText' \/ diarist'[d].pc = "erasing"
      BY <1>3 DEF Text
    <3>4. QED
      BY <1>1, <1>2, <1>3, <2>3, <3>1, <3>2, <3>3 DEF ChangesSound, Changing
  <2>8. SweepsSound'
    BY <1>1, <1>2, <1>3, <1>8, <2>2, <2>3, <2>4
    DEF SweepsSound, Writing, Changing, Sweeping, Admitted, Text
  <2>9. PartsAgree'
    BY <1>1, <1>2, <1>3, <1>8, <2>2, <2>3, <2>4
    DEF PartsAgree, Writing, Changing, Sweeping, Admitted, Text
  <2>10. QED
    BY <2>5, <2>6, <2>7, <2>8, <2>9
<1>9. QED
  BY <1>4, <1>5, <1>6, <1>7, <1>8 DEF DiaryInv

LEMMA PassGate ==
  ASSUME DiaryInv, NEW d \in Diarists, Gate(d), summary = NoText
  PROVE  DiaryInv'
<1>1. diarist[d].pc = "gating" /\ diaryRun[Text(d)].status = "none"
  BY DEF Gate, Doing, DiaryInv, TextsCount, CallCounted, Writing
<1>2. UNCHANGED <<body, lastText, diaryFaults, written, racing, spoiled>>
  BY DEF Gate, Enters, MoveTo, Done
<1>3. /\ diarist' \in [Diarists -> DiaristState]
      /\ \A e \in Diarists : e # d => diarist'[e] = diarist[e]
      /\ diarist'[d].pc = "checking" /\ diarist'[d].text = diarist[d].text
      /\ diarist'[d].stale = diarist[d].stale
      /\ summary = NoText /\ summary' = Text(d)
      /\ diaryRun' \in [Texts -> [status : {"none", "pending", "committed", "failed"},
                                  old : BOOLEAN, swept : BOOLEAN]]
      /\ Text(d) \in Texts /\ Text(d) <= lastText /\ ~diaryRun[Text(d)].old
      /\ diaryRun'[Text(d)].status = "pending"
      /\ ~diaryRun'[Text(d)].old /\ ~diaryRun'[Text(d)].swept
      /\ \A t \in Texts : t # Text(d) => diaryRun'[t] = diaryRun[t]
  <2>1. /\ Text(d) \in Texts /\ Text(d) <= lastText
        /\ ~diaryRun[Text(d)].old /\ ~diaryRun[Text(d)].swept
    BY <1>1
    DEF DiaryInv, DiaryTypeOK, TextsCount, CallCounted, OldRunsRest, Writing, Text, DiaristState
  <2>2. diaryRun' = [diaryRun EXCEPT ![Text(d)].status = "pending"]
    BY DEF Gate
  <2>3. diaryRun' \in [Texts -> [status : {"none", "pending", "committed", "failed"},
                                 old : BOOLEAN, swept : BOOLEAN]]
    BY <2>1, <2>2 DEF DiaryInv, DiaryTypeOK
  <2>4. /\ diaryRun'[Text(d)].status = "pending"
        /\ ~diaryRun'[Text(d)].old /\ ~diaryRun'[Text(d)].swept
    BY <2>1, <2>2 DEF DiaryInv, DiaryTypeOK
  <2>5. \A t \in Texts : t # Text(d) => diaryRun'[t] = diaryRun[t]
    BY <2>1, <2>2 DEF DiaryInv, DiaryTypeOK
  <2>6. QED
    BY <2>1, <2>3, <2>4, <2>5, DiaristMoves DEF Gate, DiaryInv
<1>4. DiaryTypeOK'
  BY <1>1, <1>2, <1>3 DEF DiaryInv, DiaryTypeOK
<1>5. TextsCount'
  <2>1. summary' <= lastText' /\ \A t \in body' : t <= lastText'
    BY <1>1, <1>2, <1>3, DiaryAssumption
    DEF DiaryInv, DiaryTypeOK, TextsCount, Text, Texts, NoText
  <2>2. \A t \in Texts : t > lastText' => diaryRun'[t].status = "none"
    BY <1>1, <1>2, <1>3, DiaryAssumption
    DEF DiaryInv, DiaryTypeOK, TextsCount, Text, Texts, NoText
  <2>3. ASSUME NEW e \in Diarists, e # d
        PROVE  CallCounted(e)' /\ (Text(e)' = Text(d)' => Text(e)' = NoText)
    <3>1. /\ Text(e) \in Texts \cup {NoText} /\ CallCounted(e) /\ Text(e)' = Text(e)
          /\ Text(d) = Text(e) => Text(e) = NoText
      BY <1>1, <1>2, <1>3, <2>3 DEF DiaryInv, DiaryTypeOK, DiaristState, TextsCount, Text
    <3>2. QED
      BY <1>1, <1>2, <1>3, <2>3, <3>1, DiaryAssumption
      DEF CallCounted, DiaryInv, DiaryTypeOK, Writing, Text, Texts, NoText
  <2>4. CallCounted(d)'
    BY <1>1, <1>2, <1>3, DiaryAssumption
    DEF DiaryInv, DiaryTypeOK, TextsCount, CallCounted, Writing, Text, Texts, NoText
  <2>5. \A e, f \in Diarists : e # f /\ Text(e)' = Text(f)' => Text(e)' = NoText
    BY <1>1, <1>2, <1>3, <2>3 DEF DiaryInv, TextsCount, Text
  <2>6. QED
    BY <2>1, <2>2, <2>3, <2>4, <2>5 DEF TextsCount, Text
<1>6. OldRunsRest'
  <2>1. ASSUME NEW t \in Texts
        PROVE  /\ diaryRun'[t].old => diaryRun'[t].status \in {"pending", "failed"}
               /\ diaryRun'[t].swept => diaryRun'[t].old
               /\ diaryRun'[t].old => \A e \in Diarists : ~Writing(e)'
    <3>1. /\ diaryRun[t].old => diaryRun[t].status \in {"pending", "failed"}
          /\ diaryRun[t].swept => diaryRun[t].old
          /\ diaryRun[t].old => \A e \in Diarists : ~Writing(e)
      BY DEF DiaryInv, OldRunsRest
    <3>2. t # Text(d) => diaryRun'[t] = diaryRun[t]
      BY <1>1, <1>2, <1>3, <2>1, <3>1
    <3>3. QED
      BY <1>1, <1>2, <1>3, <3>1, <3>2 DEF Writing
  <2>2. ASSUME NEW e \in Diarists
        PROVE  /\ \A t \in diarist'[e].stale : diaryRun'[t].old
               /\ Sweeping(e)' => diarist'[e].stale # {}
    <3>1. /\ diarist[e].stale \subseteq Texts
          /\ \A t \in diarist[e].stale : diaryRun[t].old
          /\ Sweeping(e) => diarist[e].stale # {}
      BY DEF DiaryInv, DiaryTypeOK, DiaristState, OldRunsRest
    <3>2. QED
      BY <1>1, <1>2, <1>3, <3>1 DEF Sweeping
  <2>3. QED
    BY <2>1, <2>2 DEF OldRunsRest
<1>7. FreshEntry'
  BY <1>1, <1>2, <1>3
  DEF DiaryInv, FreshEntry, Writing, Changing, Sweeping, Admitted, Text, EntryCommitted
<1>8. ASSUME ~racing'
      PROVE  CallsApart' /\ WritesSound' /\ ChangesSound' /\ SweepsSound' /\ PartsAgree'
  <2>1. ~racing
    BY <1>2, <1>3, <1>8
  <2>2. CallsApart /\ WritesSound /\ ChangesSound /\ SweepsSound /\ PartsAgree
    BY <2>1 DEF DiaryInv
  <2>3. EntryCommitted' <=> EntryCommitted
    BY <1>1, <1>3 DEF EntryCommitted
  <2>4. \A e \in Diarists : ~Sweeping(e) /\ ~Changing(e)
    BY <1>1, <2>1, WhoElse DEF Writing
  <2>5. CallsApart'
    <3>1. ~EntryCommitted
      BY <1>1, <1>3, <2>2 DEF WritesSound, Writing
    <3>2. \A e \in Diarists : ~Admitted(e)
      <4>1. SUFFICES ASSUME NEW e \in Diarists, Admitted(e)  PROVE FALSE
        OBVIOUS
      <4>2. Text(e) # NoText
        BY <4>1 DEF DiaryInv, TextsCount, CallCounted, Admitted, Writing
      <4>3. QED
        BY <1>3, <2>2, <4>1, <4>2 DEF WritesSound
    <3>3. \A e \in Diarists : e # d => ~Admitted(e)'
      BY <1>3, <3>2 DEF Admitted
    <3>4. \A e \in Diarists : ~Changing(e)'
      BY <1>3, <2>4 DEF Changing
    <3>5. QED
      BY <1>2, <2>2, <3>3, <3>4 DEF CallsApart
  <2>6. WritesSound'
    <3>1. ~EntryCommitted
      BY <1>1, <1>3, <2>2 DEF WritesSound, Writing
    <3>2. \A e \in Diarists : e # d => ~Admitted(e)'
      BY <1>3, <2>2, <2>5 DEF CallsApart, Admitted
    <3>3. \A t \in body : diaryRun[t].status # "none"
      BY <1>1, <2>2 DEF WritesSound, Writing
    <3>4. \A t \in body : t \in Texts /\ diaryRun'[t].status # "none"
      BY <1>3, <3>3 DEF DiaryInv, DiaryTypeOK
    <3>5. Text(d)' = Text(d)
      BY <1>3 DEF Text
    <3>6. QED
      BY <1>1, <1>2, <1>3, <2>3, <3>1, <3>2, <3>4, <3>5 DEF WritesSound, Admitted
  <2>7. ChangesSound'
    BY <1>1, <1>2, <1>3, <1>8, <2>2, <2>3, <2>4
    DEF ChangesSound, Writing, Changing, Sweeping, Admitted, Text
  <2>8. SweepsSound'
    <3>1. \A t \in Texts : ~diaryRun[t].swept
      BY <1>1 DEF DiaryInv, OldRunsRest, Writing
    <3>2. \A t \in Texts : ~diaryRun'[t].swept
      BY <1>3, <3>1
    <3>3. \A e \in Diarists : ~Sweeping(e)'
      BY <1>3, <2>4 DEF Sweeping
    <3>4. QED
      BY <3>2, <3>3 DEF SweepsSound, Sweeping
  <2>9. PartsAgree'
    <3>1. ~EntryCommitted
      BY <1>1, <1>3, <2>2 DEF WritesSound, Writing
    <3>2. \A t \in body' : diaryRun'[t].status # "none"
      BY <1>3, <2>6 DEF WritesSound, Writing
    <3>3. QED
      BY <1>2, <2>2, <2>3, <3>1, <3>2 DEF PartsAgree
  <2>10. QED
    BY <2>5, <2>6, <2>7, <2>8, <2>9
<1>9. QED
  BY <1>4, <1>5, <1>6, <1>7, <1>8 DEF DiaryInv

LEMMA ShutGate ==
  ASSUME DiaryInv, NEW d \in Diarists, Gate(d), summary # NoText
  PROVE  DiaryInv'
<1>1. diarist[d].pc = "gating"
  BY DEF Gate, Doing, Writing, Changing
<1>2. UNCHANGED <<body, lastText, diaryFaults, written, racing, spoiled>>
  BY DEF Gate, Enters, MoveTo, Done
<1>3. /\ diarist' \in [Diarists -> DiaristState]
      /\ \A e \in Diarists : e # d => diarist'[e] = diarist[e]
      /\ diarist'[d].pc \in {"down", "ready"} /\ diarist'[d].text = NoText
      /\ diarist'[d].stale = {}
      /\ diaryRun' = diaryRun /\ summary' = summary
  BY DiaristRests DEF Gate, DiaryInv
<1>4. DiaryTypeOK'
  BY <1>1, <1>2, <1>3 DEF DiaryInv, DiaryTypeOK
<1>5. TextsCount'
  BY <1>1, <1>2, <1>3, DiaryAssumption
  DEF DiaryInv, DiaryTypeOK, TextsCount, CallCounted, Writing, Changing, Sweeping, Admitted, Text,
      EntryCommitted, Texts, NoText
<1>6. OldRunsRest'
  BY <1>1, <1>2, <1>3
  DEF DiaryInv, OldRunsRest, Writing, Changing, Sweeping, Admitted, Text, EntryCommitted
<1>7. FreshEntry'
  BY <1>1, <1>2, <1>3
  DEF DiaryInv, FreshEntry, Writing, Changing, Sweeping, Admitted, Text, EntryCommitted
<1>8. ASSUME ~racing'
      PROVE  CallsApart' /\ WritesSound' /\ ChangesSound' /\ SweepsSound' /\ PartsAgree'
  <2>1. ~racing
    BY <1>2, <1>3, <1>8
  <2>2. CallsApart /\ WritesSound /\ ChangesSound /\ SweepsSound /\ PartsAgree
    BY <2>1 DEF DiaryInv
  <2>3. EntryCommitted' <=> EntryCommitted
    BY <1>3 DEF EntryCommitted
  <2>4. \A e \in Diarists : ~Sweeping(e) /\ ~Changing(e)
    BY <1>1, <2>1, WhoElse DEF Writing
  <2>5. CallsApart'
    BY <1>1, <1>2, <1>3, <1>8, <2>2, <2>4
    DEF CallsApart, Writing, Changing, Sweeping, Admitted, Text, EntryCommitted
  <2>6. WritesSound'
    BY <1>1, <1>2, <1>3, <1>8, <2>2, <2>3, <2>4
    DEF WritesSound, Writing, Changing, Sweeping, Admitted, Text
  <2>7. ChangesSound'
    BY <1>1, <1>2, <1>3, <1>8, <2>2, <2>3, <2>4
    DEF ChangesSound, Writing, Changing, Sweeping, Admitted, Text
  <2>8. SweepsSound'
    BY <1>1, <1>2, <1>3, <1>8, <2>2, <2>3, <2>4
    DEF SweepsSound, Writing, Changing, Sweeping, Admitted, Text
  <2>9. PartsAgree'
    BY <1>1, <1>2, <1>3, <1>8, <2>2, <2>3, <2>4
    DEF PartsAgree, Writing, Changing, Sweeping, Admitted, Text
  <2>10. QED
    BY <2>5, <2>6, <2>7, <2>8, <2>9
<1>9. QED
  BY <1>4, <1>5, <1>6, <1>7, <1>8 DEF DiaryInv

LEMMA CommitDiary ==
  ASSUME DiaryInv, NEW d \in Diarists, CommitEntry(d)
  PROVE  DiaryInv'
<1>1. diarist[d].pc = "committing" /\ diaryRun[Text(d)].status = "pending"
  BY DEF CommitEntry, Doing, DiaryInv, TextsCount, CallCounted, Writing
<1>2. UNCHANGED <<body, summary, lastText, diaryFaults, racing, spoiled>>
  BY DEF CommitEntry, Enters, MoveTo, Done
<1>3. /\ diarist' \in [Diarists -> DiaristState]
      /\ \A e \in Diarists : e # d => diarist'[e] = diarist[e]
      /\ diarist'[d].pc \in {"down", "ready"} /\ diarist'[d].text = NoText
      /\ diarist'[d].stale = {}
      /\ written' = TRUE
      /\ diaryRun' \in [Texts -> [status : {"none", "pending", "committed", "failed"},
                                  old : BOOLEAN, swept : BOOLEAN]]
      /\ Text(d) \in Texts /\ Text(d) <= lastText /\ ~diaryRun[Text(d)].old
      /\ diaryRun'[Text(d)].status = "committed"
      /\ ~diaryRun'[Text(d)].old /\ ~diaryRun'[Text(d)].swept
      /\ \A t \in Texts : t # Text(d) => diaryRun'[t] = diaryRun[t]
  <2>1. /\ Text(d) \in Texts /\ Text(d) <= lastText
        /\ ~diaryRun[Text(d)].old /\ ~diaryRun[Text(d)].swept
    BY <1>1
    DEF DiaryInv, DiaryTypeOK, TextsCount, CallCounted, OldRunsRest, Writing, Text, DiaristState
  <2>2. diaryRun' = [diaryRun EXCEPT ![Text(d)].status = "committed"]
    BY DEF CommitEntry
  <2>3. diaryRun' \in [Texts -> [status : {"none", "pending", "committed", "failed"},
                                 old : BOOLEAN, swept : BOOLEAN]]
    BY <2>1, <2>2 DEF DiaryInv, DiaryTypeOK
  <2>4. /\ diaryRun'[Text(d)].status = "committed"
        /\ ~diaryRun'[Text(d)].old /\ ~diaryRun'[Text(d)].swept
    BY <2>1, <2>2 DEF DiaryInv, DiaryTypeOK
  <2>5. \A t \in Texts : t # Text(d) => diaryRun'[t] = diaryRun[t]
    BY <2>1, <2>2 DEF DiaryInv, DiaryTypeOK
  <2>6. QED
    BY <2>1, <2>3, <2>4, <2>5, DiaristRests DEF CommitEntry, DiaryInv
<1>4. DiaryTypeOK'
  BY <1>1, <1>2, <1>3 DEF DiaryInv, DiaryTypeOK
<1>5. TextsCount'
  <2>1. summary' <= lastText' /\ \A t \in body' : t <= lastText'
    BY <1>1, <1>2, <1>3, DiaryAssumption
    DEF DiaryInv, DiaryTypeOK, TextsCount, Text, Texts, NoText
  <2>2. \A t \in Texts : t > lastText' => diaryRun'[t].status = "none"
    BY <1>1, <1>2, <1>3, DiaryAssumption
    DEF DiaryInv, DiaryTypeOK, TextsCount, Text, Texts, NoText
  <2>3. ASSUME NEW e \in Diarists, e # d
        PROVE  CallCounted(e)' /\ (Text(e)' = Text(d)' => Text(e)' = NoText)
    <3>1. /\ Text(e) \in Texts \cup {NoText} /\ CallCounted(e) /\ Text(e)' = Text(e)
          /\ Text(d) = Text(e) => Text(e) = NoText
      BY <1>1, <1>2, <1>3, <2>3 DEF DiaryInv, DiaryTypeOK, DiaristState, TextsCount, Text
    <3>2. QED
      BY <1>1, <1>2, <1>3, <2>3, <3>1, DiaryAssumption
      DEF CallCounted, DiaryInv, DiaryTypeOK, Writing, Text, Texts, NoText
  <2>4. CallCounted(d)'
    BY <1>1, <1>2, <1>3, DiaryAssumption
    DEF DiaryInv, DiaryTypeOK, TextsCount, CallCounted, Writing, Text, Texts, NoText
  <2>5. \A e, f \in Diarists : e # f /\ Text(e)' = Text(f)' => Text(e)' = NoText
    BY <1>1, <1>2, <1>3, <2>3 DEF DiaryInv, TextsCount, Text
  <2>6. QED
    BY <2>1, <2>2, <2>3, <2>4, <2>5 DEF TextsCount, Text
<1>6. OldRunsRest'
  <2>1. ASSUME NEW t \in Texts
        PROVE  /\ diaryRun'[t].old => diaryRun'[t].status \in {"pending", "failed"}
               /\ diaryRun'[t].swept => diaryRun'[t].old
               /\ diaryRun'[t].old => \A e \in Diarists : ~Writing(e)'
    <3>1. /\ diaryRun[t].old => diaryRun[t].status \in {"pending", "failed"}
          /\ diaryRun[t].swept => diaryRun[t].old
          /\ diaryRun[t].old => \A e \in Diarists : ~Writing(e)
      BY DEF DiaryInv, OldRunsRest
    <3>2. t # Text(d) => diaryRun'[t] = diaryRun[t]
      BY <1>1, <1>2, <1>3, <2>1, <3>1
    <3>3. QED
      BY <1>1, <1>2, <1>3, <3>1, <3>2 DEF Writing
  <2>2. ASSUME NEW e \in Diarists
        PROVE  /\ \A t \in diarist'[e].stale : diaryRun'[t].old
               /\ Sweeping(e)' => diarist'[e].stale # {}
    <3>1. /\ diarist[e].stale \subseteq Texts
          /\ \A t \in diarist[e].stale : diaryRun[t].old
          /\ Sweeping(e) => diarist[e].stale # {}
      BY DEF DiaryInv, DiaryTypeOK, DiaristState, OldRunsRest
    <3>2. QED
      BY <1>1, <1>2, <1>3, <3>1 DEF Sweeping
  <2>3. QED
    BY <2>1, <2>2 DEF OldRunsRest
<1>7. FreshEntry'
  BY <1>1, <1>2, <1>3
  DEF DiaryInv, FreshEntry, Writing, Changing, Sweeping, Admitted, Text, EntryCommitted
<1>8. ASSUME ~racing'
      PROVE  CallsApart' /\ WritesSound' /\ ChangesSound' /\ SweepsSound' /\ PartsAgree'
  <2>1. ~racing
    BY <1>2, <1>3, <1>8
  <2>2. CallsApart /\ WritesSound /\ ChangesSound /\ SweepsSound /\ PartsAgree
    BY <2>1 DEF DiaryInv
  <2>3. EntryCommitted'
    BY <1>3 DEF EntryCommitted
  <2>4. \A e \in Diarists : ~Sweeping(e) /\ ~Changing(e) /\ (e # d => ~Admitted(e))
    BY <1>1, <2>1, WhoElse DEF Writing, Admitted
  <2>5. CallsApart'
    BY <1>1, <1>2, <1>3, <1>8, <2>2, <2>4
    DEF CallsApart, Writing, Changing, Sweeping, Admitted, Text, EntryCommitted
  <2>6. WritesSound'
    <3>1. /\ body # {} /\ summary = Text(d) /\ summary # NoText
          /\ \A t \in body : diaryRun[t].status # "none"
      BY <1>1, <2>2 DEF WritesSound, Admitted, Writing, DiaryInv, TextsCount, CallCounted
    <3>2. \A e \in Diarists : ~Admitted(e)'
      BY <1>3, <2>4 DEF Admitted
    <3>3. \A t \in body : t \in Texts /\ diaryRun'[t].status # "none"
      BY <1>3, <3>1 DEF DiaryInv, DiaryTypeOK
    <3>4. QED
      BY <1>2, <3>1, <3>2, <3>3 DEF WritesSound, Admitted
  <2>7. ChangesSound'
    BY <1>1, <1>2, <1>3, <1>8, <2>2, <2>3, <2>4
    DEF ChangesSound, Writing, Changing, Sweeping, Admitted, Text
  <2>8. SweepsSound'
    BY <1>1, <1>2, <1>3, <1>8, <2>2, <2>3, <2>4
    DEF SweepsSound, Writing, Changing, Sweeping, Admitted, Text
  <2>9. PartsAgree'
    <3>1. /\ body # {} /\ summary = Text(d) /\ summary # NoText
          /\ \A t \in body : diaryRun[t].status # "none"
      BY <1>1, <2>2 DEF WritesSound, Admitted, Writing, DiaryInv, TextsCount, CallCounted
    <3>2. \A t \in body : t \in Texts /\ diaryRun'[t].status # "none"
      BY <1>3, <3>1 DEF DiaryInv, DiaryTypeOK
    <3>3. QED
      BY <1>2, <2>3, <3>1, <3>2 DEF PartsAgree
  <2>10. QED
    BY <2>5, <2>6, <2>7, <2>8, <2>9
<1>9. QED
  BY <1>4, <1>5, <1>6, <1>7, <1>8 DEF DiaryInv

LEMMA FailDiary ==
  ASSUME DiaryInv, NEW d \in Diarists, FailRun(d)
  PROVE  DiaryInv'
<1>1. diarist[d].pc = "failing" /\ diaryRun[Text(d)].status = "pending"
  BY DEF FailRun, Doing, DiaryInv, TextsCount, CallCounted, Writing
<1>2. UNCHANGED <<body, summary, lastText, diaryFaults, written, racing, spoiled>>
  BY DEF FailRun, Enters, MoveTo, Done
<1>3. /\ diarist' \in [Diarists -> DiaristState]
      /\ \A e \in Diarists : e # d => diarist'[e] = diarist[e]
      /\ diarist'[d].pc \in {"down", "ready"} /\ diarist'[d].text = NoText
      /\ diarist'[d].stale = {}
      /\ diaryRun' \in [Texts -> [status : {"none", "pending", "committed", "failed"},
                                  old : BOOLEAN, swept : BOOLEAN]]
      /\ Text(d) \in Texts /\ Text(d) <= lastText /\ ~diaryRun[Text(d)].old
      /\ diaryRun'[Text(d)].status = "failed"
      /\ ~diaryRun'[Text(d)].old /\ ~diaryRun'[Text(d)].swept
      /\ \A t \in Texts : t # Text(d) => diaryRun'[t] = diaryRun[t]
  <2>1. /\ Text(d) \in Texts /\ Text(d) <= lastText
        /\ ~diaryRun[Text(d)].old /\ ~diaryRun[Text(d)].swept
    BY <1>1
    DEF DiaryInv, DiaryTypeOK, TextsCount, CallCounted, OldRunsRest, Writing, Text, DiaristState
  <2>2. diaryRun' = [diaryRun EXCEPT ![Text(d)].status = "failed"]
    BY DEF FailRun
  <2>3. diaryRun' \in [Texts -> [status : {"none", "pending", "committed", "failed"},
                                 old : BOOLEAN, swept : BOOLEAN]]
    BY <2>1, <2>2 DEF DiaryInv, DiaryTypeOK
  <2>4. /\ diaryRun'[Text(d)].status = "failed"
        /\ ~diaryRun'[Text(d)].old /\ ~diaryRun'[Text(d)].swept
    BY <2>1, <2>2 DEF DiaryInv, DiaryTypeOK
  <2>5. \A t \in Texts : t # Text(d) => diaryRun'[t] = diaryRun[t]
    BY <2>1, <2>2 DEF DiaryInv, DiaryTypeOK
  <2>6. QED
    BY <2>1, <2>3, <2>4, <2>5, DiaristRests DEF FailRun, DiaryInv
<1>4. DiaryTypeOK'
  BY <1>1, <1>2, <1>3 DEF DiaryInv, DiaryTypeOK
<1>5. TextsCount'
  <2>1. summary' <= lastText' /\ \A t \in body' : t <= lastText'
    BY <1>1, <1>2, <1>3, DiaryAssumption
    DEF DiaryInv, DiaryTypeOK, TextsCount, Text, Texts, NoText
  <2>2. \A t \in Texts : t > lastText' => diaryRun'[t].status = "none"
    BY <1>1, <1>2, <1>3, DiaryAssumption
    DEF DiaryInv, DiaryTypeOK, TextsCount, Text, Texts, NoText
  <2>3. ASSUME NEW e \in Diarists, e # d
        PROVE  CallCounted(e)' /\ (Text(e)' = Text(d)' => Text(e)' = NoText)
    <3>1. /\ Text(e) \in Texts \cup {NoText} /\ CallCounted(e) /\ Text(e)' = Text(e)
          /\ Text(d) = Text(e) => Text(e) = NoText
      BY <1>1, <1>2, <1>3, <2>3 DEF DiaryInv, DiaryTypeOK, DiaristState, TextsCount, Text
    <3>2. QED
      BY <1>1, <1>2, <1>3, <2>3, <3>1, DiaryAssumption
      DEF CallCounted, DiaryInv, DiaryTypeOK, Writing, Text, Texts, NoText
  <2>4. CallCounted(d)'
    BY <1>1, <1>2, <1>3, DiaryAssumption
    DEF DiaryInv, DiaryTypeOK, TextsCount, CallCounted, Writing, Text, Texts, NoText
  <2>5. \A e, f \in Diarists : e # f /\ Text(e)' = Text(f)' => Text(e)' = NoText
    BY <1>1, <1>2, <1>3, <2>3 DEF DiaryInv, TextsCount, Text
  <2>6. QED
    BY <2>1, <2>2, <2>3, <2>4, <2>5 DEF TextsCount, Text
<1>6. OldRunsRest'
  <2>1. ASSUME NEW t \in Texts
        PROVE  /\ diaryRun'[t].old => diaryRun'[t].status \in {"pending", "failed"}
               /\ diaryRun'[t].swept => diaryRun'[t].old
               /\ diaryRun'[t].old => \A e \in Diarists : ~Writing(e)'
    <3>1. /\ diaryRun[t].old => diaryRun[t].status \in {"pending", "failed"}
          /\ diaryRun[t].swept => diaryRun[t].old
          /\ diaryRun[t].old => \A e \in Diarists : ~Writing(e)
      BY DEF DiaryInv, OldRunsRest
    <3>2. t # Text(d) => diaryRun'[t] = diaryRun[t]
      BY <1>1, <1>2, <1>3, <2>1, <3>1
    <3>3. QED
      BY <1>1, <1>2, <1>3, <3>1, <3>2 DEF Writing
  <2>2. ASSUME NEW e \in Diarists
        PROVE  /\ \A t \in diarist'[e].stale : diaryRun'[t].old
               /\ Sweeping(e)' => diarist'[e].stale # {}
    <3>1. /\ diarist[e].stale \subseteq Texts
          /\ \A t \in diarist[e].stale : diaryRun[t].old
          /\ Sweeping(e) => diarist[e].stale # {}
      BY DEF DiaryInv, DiaryTypeOK, DiaristState, OldRunsRest
    <3>2. QED
      BY <1>1, <1>2, <1>3, <3>1 DEF Sweeping
  <2>3. QED
    BY <2>1, <2>2 DEF OldRunsRest
<1>7. FreshEntry'
  BY <1>1, <1>2, <1>3
  DEF DiaryInv, FreshEntry, Writing, Changing, Sweeping, Admitted, Text, EntryCommitted
<1>8. ASSUME ~racing'
      PROVE  CallsApart' /\ WritesSound' /\ ChangesSound' /\ SweepsSound' /\ PartsAgree'
  <2>1. ~racing
    BY <1>2, <1>3, <1>8
  <2>2. CallsApart /\ WritesSound /\ ChangesSound /\ SweepsSound /\ PartsAgree
    BY <2>1 DEF DiaryInv
  <2>3. EntryCommitted' <=> EntryCommitted
    BY <1>1, <1>3 DEF EntryCommitted
  <2>4. \A e \in Diarists : ~Sweeping(e) /\ ~Changing(e)
    BY <1>1, <2>1, WhoElse DEF Writing
  <2>5. CallsApart'
    BY <1>1, <1>2, <1>3, <1>8, <2>2, <2>4
    DEF CallsApart, Writing, Changing, Sweeping, Admitted, Text, EntryCommitted
  <2>6. WritesSound'
    <3>1. \A t \in body : t \in Texts
      BY DEF DiaryInv, DiaryTypeOK
    <3>2. ASSUME NEW e \in Diarists, Writing(e)'
          PROVE  /\ e # d /\ Writing(e) /\ diarist'[e] = diarist[e]
                 /\ \A t \in body : diaryRun'[t].status # "none"
      BY <1>3, <2>2, <3>1, <3>2 DEF WritesSound, Writing
    <3>3. \A e \in Diarists : Admitted(e)' => Writing(e)'
      BY DEF Admitted, Writing
    <3>4. QED
      BY <1>2, <1>3, <2>2, <2>3, <3>2, <3>3 DEF WritesSound, Admitted, Text
  <2>7. ChangesSound'
    BY <1>1, <1>2, <1>3, <1>8, <2>2, <2>3, <2>4
    DEF ChangesSound, Writing, Changing, Sweeping, Admitted, Text
  <2>8. SweepsSound'
    BY <1>1, <1>2, <1>3, <1>8, <2>2, <2>3, <2>4
    DEF SweepsSound, Writing, Changing, Sweeping, Admitted, Text
  <2>9. PartsAgree'
    <3>1. written' => EntryCommitted' /\ body' # {}
      BY <1>1, <1>2, <1>3, <2>2, <2>3, <2>4
      DEF PartsAgree, Writing, Changing, Sweeping, Admitted, Text, Texts, NoText
    <3>2. ASSUME NEW t \in body', diaryRun'[t].status = "none", summary' # NoText
          PROVE  t <= summary'
      <4>1. t \in Texts /\ t \in body
        BY <1>2, <3>2 DEF DiaryInv, DiaryTypeOK
      <4>2. diaryRun[t].status = "none"
        BY <1>1, <1>2, <1>3, <3>2, <4>1
      <4>3. QED
        BY <1>2, <2>2, <3>2, <4>1, <4>2 DEF PartsAgree
    <3>3. EntryCommitted' /\ ~spoiled' /\ (\A e \in Diarists : ~Changing(e)') =>
            (body' = {} <=> summary' = NoText)
      BY <1>1, <1>2, <1>3, <2>2, <2>3, <2>4
      DEF PartsAgree, Writing, Changing, Sweeping, Admitted, Text, Texts, NoText
    <3>4. QED
      BY <3>1, <3>2, <3>3 DEF PartsAgree
  <2>10. QED
    BY <2>5, <2>6, <2>7, <2>8, <2>9
<1>9. QED
  BY <1>4, <1>5, <1>6, <1>7, <1>8 DEF DiaryInv

LEMMA AgeDiary ==
  ASSUME DiaryInv, NEW r \in Texts, RunGetsOld(r)
  PROVE  DiaryInv'
<1>1. /\ diaryRun[r].status \in {"pending", "failed"} /\ ~diaryRun[r].old
      /\ \A d \in Diarists : ~Writing(d) /\ ~Changing(d)
      /\ UNCHANGED <<body, summary, lastText, diarist, diaryFaults, written, racing, spoiled>>
  BY DEF RunGetsOld
<1>2. diaryRun' = [diaryRun EXCEPT ![r].old = TRUE]
  BY DEF RunGetsOld
<1>3. /\ diaryRun' \in [Texts -> [status : {"none", "pending", "committed", "failed"},
                                  old : BOOLEAN, swept : BOOLEAN]]
      /\ \A t \in Texts : /\ diaryRun'[t].status = diaryRun[t].status
                          /\ diaryRun[t].old => diaryRun'[t].old
                          /\ diaryRun'[t].swept => diaryRun[t].swept
                          /\ diaryRun[t].swept => diaryRun'[t].swept
                          /\ diaryRun'[t].old => diaryRun[t].old \/ t = r
  BY <1>2 DEF DiaryInv, DiaryTypeOK
<1>4. DiaryTypeOK'
  BY <1>1, <1>3 DEF DiaryInv, DiaryTypeOK
<1>5. TextsCount'
  BY <1>1, <1>3 DEF DiaryInv, DiaryTypeOK, TextsCount, CallCounted, Writing, Text
<1>6. OldRunsRest'
  <2>1. ASSUME NEW t \in Texts
        PROVE  /\ diaryRun'[t].old => diaryRun'[t].status \in {"pending", "failed"}
               /\ diaryRun'[t].swept => diaryRun'[t].old
    BY <1>1, <1>3 DEF DiaryInv, OldRunsRest
  <2>2. \A d \in Diarists : ~Writing(d)'
    BY <1>1 DEF Writing
  <2>3. ASSUME NEW d \in Diarists
        PROVE  /\ \A t \in diarist'[d].stale : diaryRun'[t].old
               /\ Sweeping(d)' => diarist'[d].stale # {}
    <3>1. /\ diarist[d].stale \subseteq Texts
          /\ \A t \in diarist[d].stale : diaryRun[t].old
          /\ Sweeping(d) => diarist[d].stale # {}
      BY DEF DiaryInv, DiaryTypeOK, DiaristState, OldRunsRest
    <3>2. QED
      BY <1>1, <1>3, <3>1 DEF Sweeping
  <2>4. QED
    BY <2>1, <2>2, <2>3 DEF OldRunsRest
<1>7. FreshEntry'
  BY <1>1, <1>3 DEF FreshEntry
<1>8. ASSUME ~racing'
      PROVE  CallsApart' /\ WritesSound' /\ ChangesSound' /\ SweepsSound' /\ PartsAgree'
  <2>1. CallsApart /\ WritesSound /\ ChangesSound /\ SweepsSound /\ PartsAgree
    BY <1>1, <1>8 DEF DiaryInv
  <2>2. EntryCommitted' <=> EntryCommitted
    BY <1>3 DEF EntryCommitted
  <2>3. \A d \in Diarists : ~Writing(d)' /\ ~Changing(d)' /\ ~Admitted(d)'
    BY <1>1 DEF Writing, Changing, Admitted
  <2>4. \A t \in body' : t \in Texts
    BY <1>1 DEF DiaryInv, DiaryTypeOK
  <2>5. CallsApart'
    BY <1>1, <2>1, <2>3 DEF CallsApart
  <2>6. WritesSound'
    BY <1>1, <2>1, <2>3 DEF WritesSound, Writing
  <2>7. ChangesSound'
    BY <1>1, <2>1, <2>3 DEF ChangesSound, Changing
  <2>8. SweepsSound'
    BY <1>1, <1>3, <2>1, <2>2 DEF SweepsSound
  <2>9. PartsAgree'
    BY <1>1, <1>3, <2>1, <2>2, <2>4 DEF PartsAgree
  <2>10. QED
    BY <2>5, <2>6, <2>7, <2>8, <2>9
<1>9. QED
  BY <1>4, <1>5, <1>6, <1>7, <1>8 DEF DiaryInv

LEMMA DiaryStarts == DiaryInit => DiaryInv
<1> SUFFICES ASSUME DiaryInit  PROVE DiaryInv
  OBVIOUS
<1>1. /\ body = {} /\ summary = NoText /\ lastText = 0 /\ diaryFaults = 0
      /\ written = FALSE /\ racing = FALSE /\ spoiled = FALSE
      /\ \A d \in Diarists : /\ diarist[d].pc = "down" /\ diarist[d].text = NoText
                             /\ diarist[d].stale = {}
      /\ \A t \in Texts : diaryRun[t].status = "none" /\ ~diaryRun[t].old /\ ~diaryRun[t].swept
  BY RestingDiarists DEF DiaryInit
<1>2. DiaryTypeOK
  <2>1. diarist \in [Diarists -> DiaristState]
    BY RestingDiarists DEF DiaryInit
  <2>2. diaryRun \in [Texts -> [status : {"none", "pending", "committed", "failed"},
                                old : BOOLEAN, swept : BOOLEAN]]
    BY DEF DiaryInit
  <2>3. /\ lastText \in 0..MaxTexts /\ diaryFaults \in 0..MaxDiaryFaults
        /\ body \subseteq Texts /\ summary \in Texts \cup {NoText}
    BY <1>1, DiaryAssumption
  <2>4. written \in BOOLEAN /\ racing \in BOOLEAN /\ spoiled \in BOOLEAN
    BY <1>1
  <2>5. QED
    BY <2>1, <2>2, <2>3, <2>4 DEF DiaryTypeOK
<1>3. \A d \in Diarists : ~Writing(d) /\ ~Changing(d) /\ ~Sweeping(d) /\ ~Admitted(d)
  BY <1>1 DEF Writing, Changing, Sweeping, Admitted
<1>4. TextsCount
  BY <1>1, <1>3, DiaryAssumption DEF TextsCount, CallCounted, Text, Texts, NoText
<1>5. OldRunsRest /\ FreshEntry /\ CallsApart
  BY <1>1, <1>3 DEF OldRunsRest, FreshEntry, CallsApart
<1>6. WritesSound /\ ChangesSound /\ SweepsSound /\ PartsAgree
  BY <1>1, <1>3 DEF WritesSound, ChangesSound, SweepsSound, PartsAgree
<1>7. QED
  BY <1>2, <1>4, <1>5, <1>6 DEF DiaryInv

LEMMA DiaryRests == DiaryInv /\ UNCHANGED diaryVars => DiaryInv'
BY DEF diaryVars, DiaryInv, DiaryTypeOK, TextsCount, CallCounted, OldRunsRest, FreshEntry,
       CallsApart, WritesSound, ChangesSound, SweepsSound, PartsAgree, EntryCommitted, Admitted,
       Writing, Changing, Sweeping, Text

\* The diary's inductive invariant: who works on the entry and with which number, which runs are
\* old, and, as long as no update or deletion overlapped another call, what the summary, the row
\* and the runs say of each other (commit_diary_ingest, update_diary_entry, reconcile).
THEOREM DiaryInvHolds == DiarySpec => []DiaryInv
<1>1. DiaryInit => DiaryInv
  BY DiaryStarts
<1>2. DiaryInv /\ [DiaryNext]_diaryVars => DiaryInv'
  <2>1. ASSUME DiaryInv, NEW d \in Diarists, OpenPalace(d) \/ ClosePalace(d) \/ Interrupt(d)
        PROVE  DiaryInv'
    BY <2>1, OpenDiary, CloseDiary, InterruptDiary
  <2>2. ASSUME DiaryInv, NEW d \in Diarists, DiaryReconcile(d)
        PROVE  DiaryInv'
    BY <2>2, ListDiary, PruneDiary, ForgetDiary, FinishDiary DEF DiaryReconcile
  <2>3. ASSUME DiaryInv, NEW d \in Diarists, BeginWrite(d) \/ BeginUpdate(d) \/ BeginErase(d)
        PROVE  DiaryInv'
    BY <2>3, BeginDiary, UpdateDiary, DropDiary
  <2>4. ASSUME DiaryInv, NEW d \in Diarists, DiaryWrite(d)
        PROVE  DiaryInv'
    <3>1. CASE Gate(d)
      BY <2>4, <3>1, PassGate, ShutGate
    <3>2. QED
      BY <2>4, <3>1, CheckDiary, AddDiary, CommitDiary, UndoDiary, FailDiary DEF DiaryWrite
  <2>5. ASSUME DiaryInv, NEW d \in Diarists, DiaryChange(d)
        PROVE  DiaryInv'
    BY <2>5, TouchDiary, ReplaceDiary, RetractDiary, EraseDiary, CleanDiary DEF DiaryChange
  <2>6. QED
    BY <2>1, <2>2, <2>3, <2>4, <2>5, AgeDiary, DiaryRests DEF DiaryNext
<1>3. QED
  BY <1>1, <1>2, PTL DEF DiarySpec

\* An acknowledged entry stays until somebody deletes it, an update never leaves a new body under an
\* older summary, an entry at rest has both its parts or neither, and its id has one row: what the
\* order of the two stores' steps, the gate and the reconciliation keep whatever stops them
\* (commit_diary_ingest, update_diary_entry, reconcile), for any number of processes, writes and faults.
THEOREM EntryStaysConsistent == DiarySpec => []EntryConsistent
<1>1. DiaryInv => EntryConsistent
  <2> SUFFICES ASSUME DiaryInv  PROVE EntryConsistent
    OBVIOUS
  <2>1. ~racing => CallsApart /\ WritesSound /\ ChangesSound /\ SweepsSound /\ PartsAgree
    BY DEF DiaryInv
  <2>2. WrittenStays
    BY <2>1 DEF WrittenStays, PartsAgree
  <2>3. BodyNeverAhead
    BY <2>1 DEF BodyNeverAhead, Updated, PartsAgree
  <2>4. EntryWhole
    <3>1. SUFFICES ASSUME \A d \in Diarists : ~Writing(d) /\ ~Changing(d), ~racing, ~spoiled,
                          \A t \in RunsIn("pending") \cup RunsIn("failed") : diaryRun[t].swept
                   PROVE  body = {} <=> summary = NoText
      BY DEF EntryWhole
    <3>2. CASE EntryCommitted
      BY <2>1, <3>1, <3>2 DEF PartsAgree
    <3>3. CASE ~EntryCommitted /\ \E t \in Texts : diaryRun[t].status # "none"
      <4>1. \E t \in Texts : diaryRun[t].swept
        BY <3>1, <3>3 DEF RunsIn, EntryCommitted, DiaryInv, DiaryTypeOK
      <4>2. QED
        BY <2>1, <3>1, <3>3, <4>1 DEF SweepsSound
    <3>4. CASE \A t \in Texts : diaryRun[t].status = "none"
      BY <3>4 DEF DiaryInv, FreshEntry
    <3>5. QED
      BY <3>2, <3>3, <3>4
  <2>5. OneBody
    <3>1. SUFFICES ASSUME ~racing  PROVE Cardinality(body) <= 1
      BY DEF OneBody
    <3>2. CASE body = {}
      <4>1. Cardinality(body) = 0
        BY <3>2, FS_EmptySet
      <4>2. QED
        BY <4>1
    <3>3. CASE body # {}
      <4>1. PICK t \in body : TRUE
        BY <3>3
      <4>2. body = {t}
        BY <2>1, <3>1, <4>1 DEF CallsApart
      <4>3. Cardinality(body) = 1
        BY <4>2, FS_Singleton
      <4>4. QED
        BY <4>3
    <3>4. QED
      BY <3>2, <3>3
  <2>6. QED
    BY <2>2, <2>3, <2>4, <2>5 DEF EntryConsistent, DiaryInv
<1>2. QED
  BY <1>1, DiaryInvHolds, PTL

-----------------------------------------------------------------------------
(* Delegation spans (DelegationSpans).  Rows only grow: a closed span      *)
(* gains nothing, so what a reader has seen of one stays true whenever it  *)
(* reads on.                                                               *)

\* No summary has more bytes than characters: a character is one byte.
OneByteACharacter == \A size \in Summaries : size.bytes <= size.characters

\* Rows come after their parent, deeper by one, and in its task.
SpanTables ==
  /\ spans \in Seq(SpanRow) /\ Len(spans) <= MaxSpans
  /\ checkpoints \in Seq(CheckpointRow) /\ Len(checkpoints) <= MaxCheckpoints
  /\ \A id \in Spans :
       /\ spans[id].parent < id /\ spans[id].depth < id
       /\ spans[id].depth = IF spans[id].parent = NoParent THEN 0
                                                           ELSE spans[spans[id].parent].depth + 1
       /\ spans[id].parent # NoParent => spans[spans[id].parent].task = spans[id].task
  /\ \A k \in DOMAIN checkpoints :
       /\ checkpoints[k].span \in Spans
       /\ checkpoints[k].artifact \in {NoArtifact, spans[checkpoints[k].span].task}

\* The rows of a family have the numbers below their count.
Numbered(family) == {spans[s].fan_out_index : s \in family} = 0..(Cardinality(family) - 1)
FamiliesNumbered == \A t \in SpanTasks, p \in 0..MaxSpans : Numbered(Siblings(t, p))

RowSeen == [id : Nat, closed : BOOLEAN]
NodeSeen == [id : Nat, closed : BOOLEAN, notes : SUBSET Nat]
Ids(read) == {read[i].id : i \in DOMAIN read}
Reached == {n.id : n \in trace.nodes}

\* A reader's rows exist, are distinct, and are closed if it saw them so.
SeenOnce(read) ==
  /\ Ids(read) \subseteq Spans
  /\ \A i \in DOMAIN read : read[i].closed => spans[read[i].id].closed
  /\ \A i, j \in DOMAIN read : read[i].id = read[j].id => i = j

TraceRows ==
  /\ trace \in [phase : {"idle", "children", "checkpoints", "done"}, frontier : Seq(RowSeen),
                children : Seq(RowSeen), nodes : SUBSET NodeSeen]
  /\ trace.phase \in {"children", "checkpoints"} <=> trace.frontier # <<>>
  /\ trace.phase # "checkpoints" => trace.children = <<>>
  /\ SeenOnce(trace.frontier) /\ SeenOnce(trace.children) /\ Reached \subseteq Spans
  /\ \A m, n \in trace.nodes : m.id = n.id => m = n
  /\ Ids(trace.frontier) \cap Reached = {}

\* The rows on the frontier are the root or children of nodes, all of one task, and those in hand are
\* children of the row on top.
TraceBelowRoot ==
  /\ \E root \in Nat : \A e \in Reached \cup Ids(trace.frontier) :
       e = root \/ (e > root /\ spans[e].parent \in Reached)
  /\ \A e, f \in Reached \cup Ids(trace.frontier) : spans[e].task = spans[f].task
  /\ \A c \in Ids(trace.children) : spans[c].parent = Popped.id

\* What was read of a span, and all of it if it was read closed.
TraceComplete ==
  /\ \A n \in trace.nodes :
       /\ n.notes \subseteq CheckpointsOf(n.id)
       /\ n.closed => /\ spans[n.id].closed /\ n.notes = CheckpointsOf(n.id)
                      /\ ChildrenOf(n.id) \subseteq Reached \cup Ids(trace.frontier)
  /\ trace.phase = "checkpoints" /\ Popped.closed => ChildrenOf(Popped.id) \subseteq Ids(trace.children)

SpansKept ==
  /\ SpanTables /\ FamiliesNumbered /\ SummariesBounded
  /\ TraceRows /\ TraceBelowRoot /\ TraceComplete

\* What blocks of numbered places hold together, a block for each member of K.
LEMMA BlocksFinite ==
  ASSUME NEW K, IsFiniteSet(K), NEW n \in [K -> Nat]
  PROVE  IsFiniteSet(UNION {{k} \X (1..n[k]) : k \in K})
<1> DEFINE f == [k \in K |-> {k} \X (1..n[k])]
           T == {{k} \X (1..n[k]) : k \in K}
<1>1. f \in Surjection(K, T)
  BY DEF Surjection
<1>2. IsFiniteSet(T)
  BY <1>1, FS_Surjection
<1>3. \A k \in K : IsFiniteSet({k} \X (1..n[k]))
  <2>1. SUFFICES ASSUME NEW k \in K  PROVE IsFiniteSet({k} \X (1..n[k]))
    OBVIOUS
  <2>2. IsFiniteSet({k}) /\ IsFiniteSet(1..n[k])
    <3>1. 1 \in Int /\ n[k] \in Int
      OBVIOUS
    <3>2. QED
      BY <3>1, FS_Singleton, FS_Interval
  <2>3. QED
    BY <2>2, FS_Product
<1>4. \A B \in T : IsFiniteSet(B)
  BY <1>3
<1>5. QED
  BY <1>2, <1>4, FS_UNION

LEMMA RowsOfSpans ==
  ASSUME SpanTables
  PROVE  /\ Spans = 1..Len(spans) /\ Len(spans) \in Nat /\ Len(checkpoints) \in Nat
         /\ DOMAIN checkpoints = 1..Len(checkpoints)
         /\ \A id \in Spans : /\ spans[id] \in SpanRow /\ spans[id].task \in SpanTasks
                              /\ spans[id].parent \in 0..MaxSpans /\ spans[id].fan_out_index \in Nat
                              /\ spans[id].closed \in BOOLEAN /\ spans[id].depth \in Nat
         /\ \A k \in DOMAIN checkpoints :
              /\ checkpoints[k] \in CheckpointRow /\ checkpoints[k].size \in Summaries
              /\ checkpoints[k].size.bytes \in Nat /\ checkpoints[k].size.characters \in Nat
         /\ \A id : IsFiniteSet(CheckpointsOf(id))
<1>1. /\ Spans = 1..Len(spans) /\ Len(spans) \in Nat /\ Len(checkpoints) \in Nat
      /\ DOMAIN checkpoints = 1..Len(checkpoints)
  BY DEF SpanTables, Spans
<1>2. /\ \A id \in Spans : spans[id] \in SpanRow
      /\ \A k \in DOMAIN checkpoints : checkpoints[k] \in CheckpointRow
  BY <1>1 DEF SpanTables, Spans
<1>3. /\ \A id \in Spans : /\ spans[id].task \in SpanTasks /\ spans[id].parent \in 0..MaxSpans
                           /\ spans[id].closed \in BOOLEAN /\ spans[id].depth \in Nat
                           /\ spans[id].fan_out_index \in Nat
      /\ \A k \in DOMAIN checkpoints : checkpoints[k].size \in Summaries
  BY <1>2, SpanAssumption DEF SpanRow, CheckpointRow
<1>4. \A k \in DOMAIN checkpoints :
        checkpoints[k].size.bytes \in Nat /\ checkpoints[k].size.characters \in Nat
  BY <1>3, SpanAssumption
<1>5. ASSUME NEW id
      PROVE  IsFiniteSet(CheckpointsOf(id))
  <2>1. IsFiniteSet(1..Len(checkpoints))
    BY <1>1, FS_Interval
  <2>2. QED
    BY <1>1, <2>1, FS_Subset DEF CheckpointsOf
<1>6. QED
  BY <1>1, <1>2, <1>3, <1>4, <1>5

LEMMA StoredIsFinite ==
  ASSUME SpanTables, NEW id
  PROVE  /\ IsFiniteSet(BytesOf(id)) /\ IsFiniteSet(CharactersOf(id))
         /\ OneByteACharacter => BytesOf(id) \subseteq CharactersOf(id)
<1> DEFINE K == CheckpointsOf(id)
           b == [k \in K |-> checkpoints[k].size.bytes]
           c == [k \in K |-> checkpoints[k].size.characters]
<1>1. /\ K \subseteq DOMAIN checkpoints /\ IsFiniteSet(K)
      /\ \A k \in K : /\ checkpoints[k].size \in Summaries /\ checkpoints[k].size.bytes \in Nat
                      /\ checkpoints[k].size.characters \in Nat
  BY RowsOfSpans DEF CheckpointsOf
<1>2. b \in [K -> Nat] /\ c \in [K -> Nat]
  BY <1>1
<1>3. IsFiniteSet(UNION {{k} \X (1..b[k]) : k \in K})
  <2> HIDE DEF b, K
  <2> QED
    BY <1>1, <1>2, BlocksFinite
<1>4. IsFiniteSet(UNION {{k} \X (1..c[k]) : k \in K})
  <2> HIDE DEF c, K
  <2> QED
    BY <1>1, <1>2, BlocksFinite
<1>5. /\ {{k} \X (1..b[k]) : k \in K} = {{k} \X (1..checkpoints[k].size.bytes) : k \in K}
      /\ {{k} \X (1..c[k]) : k \in K} = {{k} \X (1..checkpoints[k].size.characters) : k \in K}
  OBVIOUS
<1>6. IsFiniteSet(BytesOf(id)) /\ IsFiniteSet(CharactersOf(id))
  BY <1>3, <1>4, <1>5 DEF BytesOf, CharactersOf
<1>7. ASSUME OneByteACharacter, NEW x \in BytesOf(id)
      PROVE  x \in CharactersOf(id)
  <2>1. PICK k \in K : x \in {k} \X (1..checkpoints[k].size.bytes)
    BY <1>7 DEF BytesOf
  <2>2. checkpoints[k].size.bytes <= checkpoints[k].size.characters
    BY <1>1, <1>7 DEF OneByteACharacter
  <2>3. \A y \in 1..checkpoints[k].size.bytes : y \in 1..checkpoints[k].size.characters
    BY <1>1, <2>2
  <2>4. x \in {k} \X (1..checkpoints[k].size.characters)
    BY <2>1, <2>3
  <2>5. QED
    BY <2>4 DEF CharactersOf
<1>8. QED
  BY <1>6, <1>7

\* Rows that only grow, and leave a closed span alone, take nothing back from a reader.
LEMMA TraceIsKept ==
  ASSUME SpanTables, TraceRows, TraceBelowRoot, TraceComplete, trace' = trace, Spans \subseteq Spans',
         \A id \in Spans :
           /\ spans'[id].parent = spans[id].parent /\ spans'[id].task = spans[id].task
           /\ CheckpointsOf(id) \subseteq CheckpointsOf(id)'
           /\ spans[id].closed => /\ spans'[id].closed /\ CheckpointsOf(id)' = CheckpointsOf(id)
                                  /\ ChildrenOf(id)' = ChildrenOf(id)
  PROVE  (TraceRows /\ TraceBelowRoot /\ TraceComplete)'
<1>1. /\ Popped' = Popped /\ Reached' = Reached
      /\ Ids(trace'.frontier) = Ids(trace.frontier) /\ Ids(trace'.children) = Ids(trace.children)
  BY DEF Popped, Reached
<1>2. /\ Ids(trace.frontier) \subseteq Spans /\ Ids(trace.children) \subseteq Spans
      /\ Reached \subseteq Spans /\ \A n \in trace.nodes : n.id \in Spans
      /\ \A i \in DOMAIN trace.frontier : trace.frontier[i].id \in Spans
      /\ \A i \in DOMAIN trace.children : trace.children[i].id \in Spans
  BY DEF TraceRows, SeenOnce, Ids, Reached
<1>3. SeenOnce(trace.frontier)' /\ SeenOnce(trace.children)'
  <2>1. SeenOnce(trace.frontier) /\ SeenOnce(trace.children)
    BY DEF TraceRows
  <2>2. Ids(trace.frontier)' = Ids(trace.frontier) /\ Ids(trace.children)' = Ids(trace.children)
    BY DEF Ids
  <2>3. QED
    BY <1>2, <2>1, <2>2 DEF SeenOnce
<1>4. TraceRows'
  BY <1>1, <1>2, <1>3 DEF TraceRows
<1>5. TraceBelowRoot'
  <2>1. \A e \in Reached \cup Ids(trace.frontier) :
          spans'[e].parent = spans[e].parent /\ spans'[e].task = spans[e].task
    BY <1>2
  <2>2. \A c \in Ids(trace.children) : spans'[c].parent = spans[c].parent
    BY <1>2
  <2>3. QED
    BY <1>1, <2>1, <2>2 DEF TraceBelowRoot
<1>6. TraceComplete'
  <2>1. ASSUME NEW n \in trace.nodes
        PROVE  /\ n.notes \subseteq CheckpointsOf(n.id)'
               /\ n.closed => /\ spans'[n.id].closed /\ n.notes = CheckpointsOf(n.id)'
                              /\ ChildrenOf(n.id)' \subseteq Reached \cup Ids(trace.frontier)
    BY <1>2 DEF TraceComplete
  <2>2. ASSUME NEW q, q = Popped.id, trace.phase = "checkpoints", Popped.closed
        PROVE  ChildrenOf(q)' \subseteq Ids(trace.children)
    <3>1. Len(trace.frontier) \in DOMAIN trace.frontier
      BY <2>2 DEF TraceRows
    <3>2. q \in Spans /\ spans[q].closed
      BY <1>2, <2>2, <3>1 DEF TraceRows, SeenOnce, Popped
    <3>3. QED
      BY <2>2, <3>2 DEF TraceComplete
  <2>3. QED
    BY <1>1, <2>1, <2>2 DEF TraceComplete, ChildrenOf, Popped
<1>7. QED
  BY <1>4, <1>5, <1>6

\* The new row is the last of its family and has the number of those before it.
LEMMA StartKeepsSpans ==
  ASSUME SpansKept, NEW t \in SpanTasks, NEW p \in {NoParent} \cup Spans, StartSpan(t, p)
  PROVE  SpansKept'
<1> DEFINE n == Len(spans) + 1
           row == [task |-> t, parent |-> p, closed |-> FALSE,
                   depth |-> IF p = NoParent THEN 0 ELSE spans[p].depth + 1,
                   fan_out_index |-> Cardinality(Siblings(t, p))]
<1>1. /\ SpanTables /\ FamiliesNumbered /\ SummariesBounded
      /\ TraceRows /\ TraceBelowRoot /\ TraceComplete
  BY DEF SpansKept
<1>2. /\ Spans = 1..Len(spans) /\ Len(spans) \in Nat /\ Len(spans) < MaxSpans
      /\ \A id \in Spans : /\ spans[id] \in SpanRow /\ spans[id].task \in SpanTasks
                           /\ spans[id].parent \in 0..MaxSpans /\ spans[id].fan_out_index \in Nat
                           /\ spans[id].depth \in Nat
  BY <1>1, RowsOfSpans DEF StartSpan
<1>3. /\ n \in Nat /\ n \notin Spans /\ n <= MaxSpans /\ n >= 1 /\ p < n /\ p \in 0..MaxSpans
      /\ \A id \in Spans : id < n /\ id \in Nat
  BY <1>2, SpanAssumption DEF NoParent
<1>4. p # NoParent => p \in Spans /\ spans[p].task = t /\ ~spans[p].closed
  BY DEF StartSpan, MayHaveChild
<1>5. /\ IsFiniteSet(Siblings(t, p)) /\ Cardinality(Siblings(t, p)) \in 0..(MaxSpans - 1)
  <2>1. Siblings(t, p) \subseteq 1..Len(spans)
    BY <1>2 DEF Siblings, Roots, ChildrenOf
  <2>2. IsFiniteSet(1..Len(spans)) /\ Cardinality(1..Len(spans)) <= Len(spans)
    <3>1. Cardinality(1..Len(spans)) = IF 1 > Len(spans) THEN 0 ELSE Len(spans) - 1 + 1
      BY <1>2, FS_Interval
    <3>2. IsFiniteSet(1..Len(spans))
      BY <1>2, FS_Interval
    <3>3. QED
      BY <1>2, <3>1, <3>2
  <2>3. IsFiniteSet(Siblings(t, p)) /\ Cardinality(Siblings(t, p)) <= Cardinality(1..Len(spans))
    BY <2>1, <2>2, FS_Subset
  <2>4. Cardinality(Siblings(t, p)) \in Nat /\ Cardinality(1..Len(spans)) \in Nat
    BY <2>2, <2>3, FS_CardinalityType
  <2>5. QED
    BY <1>2, <2>2, <2>3, <2>4, SpanAssumption
<1>6. row \in SpanRow
  <2>1. row.depth \in 0..(MaxSpans - 1)
    <3>1. CASE p = NoParent
      BY <1>2, <3>1, SpanAssumption
    <3>2. CASE p # NoParent
      <4>1. spans[p].depth < p /\ spans[p].depth \in Nat
        BY <1>1, <1>2, <1>4, <3>2 DEF SpanTables
      <4>2. QED
        BY <1>3, <3>2, <4>1, SpanAssumption
    <3>3. QED
      BY <3>1, <3>2
  <2>2. QED
    BY <1>3, <1>5, <2>1 DEF SpanRow
<1>7. /\ spans' = Append(spans, row) /\ checkpoints' = checkpoints /\ trace' = trace
  BY DEF StartSpan
<1> HIDE DEF row
<1>8. /\ spans' \in Seq(SpanRow) /\ Len(spans') = n /\ Spans' = 1..n
      /\ spans'[n] = row /\ \A id \in Spans : spans'[id] = spans[id]
  BY <1>1, <1>2, <1>6, <1>7 DEF SpanTables, Spans
<1>9. /\ row.task = t /\ row.parent = p /\ row.closed = FALSE
      /\ row.depth = (IF p = NoParent THEN 0 ELSE spans[p].depth + 1)
      /\ row.fan_out_index = Cardinality(Siblings(t, p))
  BY DEF row
<1>10. Spans' = Spans \cup {n} /\ Spans \subseteq Spans'
  BY <1>2, <1>8
<1>11. SpanTables'
  <2>1. \A id \in Spans' :
          /\ spans'[id].parent < id /\ spans'[id].depth < id
          /\ spans'[id].depth = IF spans'[id].parent = NoParent THEN 0
                                ELSE spans'[spans'[id].parent].depth + 1
          /\ spans'[id].parent # NoParent => spans'[spans'[id].parent].task = spans'[id].task
    <3>1. ASSUME NEW id \in Spans
          PROVE  /\ spans[id].parent < id /\ spans[id].depth < id
                 /\ spans[id].depth = IF spans[id].parent = NoParent THEN 0
                                      ELSE spans'[spans[id].parent].depth + 1
                 /\ spans[id].parent # NoParent => spans'[spans[id].parent].task = spans[id].task
      <4>1. spans[id].parent < id /\ spans[id].parent \in Nat /\ id \in 1..Len(spans)
        BY <1>1, <1>2 DEF SpanTables
      <4>2. spans[id].parent # NoParent => spans[id].parent \in Spans
        BY <1>2, <4>1 DEF NoParent
      <4>3. QED
        BY <1>1, <1>8, <4>1, <4>2 DEF SpanTables
    <3>2. /\ row.parent < n /\ row.depth < n
          /\ row.depth = IF row.parent = NoParent THEN 0 ELSE spans'[row.parent].depth + 1
          /\ row.parent # NoParent => spans'[row.parent].task = row.task
      <4>1. CASE p = NoParent
        BY <1>3, <1>9, <4>1
      <4>2. CASE p # NoParent
        <5>1. p \in Spans /\ spans'[p] = spans[p] /\ spans[p].task = t
          BY <1>4, <1>8, <4>2
        <5>2. spans[p].depth < p /\ spans[p].depth \in Nat /\ p \in Nat /\ p < n
          BY <1>1, <1>2, <1>3, <5>1 DEF SpanTables
        <5>3. spans[p].depth + 1 < n
          BY <1>3, <5>2
        <5>4. QED
          BY <1>3, <1>9, <4>2, <5>1, <5>3
      <4>3. QED
        BY <4>1, <4>2
    <3>3. QED
      BY <1>8, <1>10, <3>1, <3>2
  <2>2. \A k \in DOMAIN checkpoints :
          /\ checkpoints[k].span \in Spans'
          /\ checkpoints[k].artifact \in {NoArtifact, spans'[checkpoints[k].span].task}
    BY <1>1, <1>8, <1>10 DEF SpanTables
  <2>3. QED
    BY <1>1, <1>3, <1>7, <1>8, <2>1, <2>2 DEF SpanTables
<1>12. /\ \A id \in Spans : spans[id].closed => ChildrenOf(id)' = ChildrenOf(id)
       /\ \A id : CheckpointsOf(id)' = CheckpointsOf(id)
  <2>1. ASSUME NEW id \in Spans, spans[id].closed
        PROVE  {c \in Spans' : spans'[c].parent = id} = {c \in Spans : spans[c].parent = id}
    <3>1. p # id
      BY <1>2, <1>4, <2>1 DEF NoParent
    <3>2. QED
      BY <1>8, <1>9, <1>10, <3>1
  <2>2. QED
    BY <1>7, <2>1 DEF ChildrenOf, CheckpointsOf
<1>13. FamiliesNumbered'
  <2>1. ASSUME NEW u \in SpanTasks, NEW q \in 0..MaxSpans
        PROVE  Numbered(Siblings(u, q))'
    <3> DEFINE F == Siblings(u, q)
               G == IF q = NoParent THEN {c \in Spans' : spans'[c].parent = NoParent /\ spans'[c].task = u}
                                    ELSE {c \in Spans' : spans'[c].parent = q}
    <3>1. F \subseteq Spans /\ n \notin F
      BY <1>3 DEF Siblings, Roots, ChildrenOf
    <3>2. {spans[s].fan_out_index : s \in F} = 0..(Cardinality(F) - 1)
      BY <1>1, <2>1 DEF FamiliesNumbered, Numbered
    <3>3. Siblings(u, q)' = G
      BY DEF Siblings, Roots, ChildrenOf
    <3>4. CASE q = p /\ (p = NoParent => u = t)
      <4>1. F = Siblings(t, p)
        BY <3>4 DEF Siblings
      <4>2. G = F \cup {n}
        BY <1>8, <1>9, <1>10, <3>4 DEF Siblings, Roots, ChildrenOf
      <4>3. Cardinality(F \cup {n}) = Cardinality(F) + 1 /\ Cardinality(F) \in Nat
        <5>1. IsFiniteSet(F)
          BY <1>5, <4>1
        <5> HIDE DEF F
        <5>2. QED
          BY <3>1, <5>1, FS_AddElement, FS_CardinalityType
      <4>4. {spans'[s].fan_out_index : s \in F \cup {n}}
              = {spans[s].fan_out_index : s \in F} \cup {Cardinality(F)}
        BY <1>8, <1>9, <3>1, <4>1
      <4>5. {spans'[s].fan_out_index : s \in G} = 0..(Cardinality(G) - 1)
        <5> HIDE DEF F, G
        <5>1. \A m \in Nat : 0..(m + 1 - 1) = 0..(m - 1) \cup {m}
          OBVIOUS
        <5>2. Cardinality(G) = Cardinality(F) + 1
          BY <4>2, <4>3
        <5>3. {spans'[s].fan_out_index : s \in G} = {spans'[s].fan_out_index : s \in F \cup {n}}
          BY <4>2
        <5>4. {spans'[s].fan_out_index : s \in G} = 0..(Cardinality(F) - 1) \cup {Cardinality(F)}
          BY <3>2, <4>4, <5>3
        <5>5. 0..(Cardinality(G) - 1) = 0..(Cardinality(F) - 1) \cup {Cardinality(F)}
          BY <4>3, <5>1, <5>2
        <5>6. QED
          BY <5>4, <5>5
      <4>6. QED
        BY <3>3, <4>5 DEF Numbered
    <3>5. CASE ~(q = p /\ (p = NoParent => u = t))
      <4>1. G = F
        BY <1>8, <1>9, <1>10, <3>5 DEF Siblings, Roots, ChildrenOf
      <4>2. {spans'[s].fan_out_index : s \in F} = {spans[s].fan_out_index : s \in F}
        BY <1>8, <3>1
      <4>3. {spans'[s].fan_out_index : s \in G} = 0..(Cardinality(G) - 1)
        <5> HIDE DEF F, G
        <5> QED
          BY <3>2, <4>1, <4>2
      <4>4. QED
        BY <3>3, <4>3 DEF Numbered
    <3>6. QED
      BY <3>4, <3>5
  <2>2. QED
    BY <2>1 DEF FamiliesNumbered
<1>14. SummariesBounded'
  <2>1. \A id : BytesOf(id)' = BytesOf(id)
    BY <1>7 DEF BytesOf, CheckpointsOf
  <2>2. BytesOf(n) = {}
    <3>1. CheckpointsOf(n) = {}
      BY <1>1, <1>3 DEF CheckpointsOf, SpanTables
    <3>2. QED
      BY <3>1 DEF BytesOf
  <2>3. Cardinality(BytesOf(n)) <= SpanCap
    BY <2>2, FS_EmptySet, SpanAssumption
  <2>4. QED
    BY <1>1, <1>10, <2>1, <2>3 DEF SummariesBounded
<1>15. (TraceRows /\ TraceBelowRoot /\ TraceComplete)'
  <2>1. \A id \in Spans :
          /\ spans'[id].parent = spans[id].parent /\ spans'[id].task = spans[id].task
          /\ CheckpointsOf(id) \subseteq CheckpointsOf(id)'
          /\ spans[id].closed => /\ spans'[id].closed /\ CheckpointsOf(id)' = CheckpointsOf(id)
                                 /\ ChildrenOf(id)' = ChildrenOf(id)
    BY <1>8, <1>12
  <2>2. QED
    BY <1>1, <1>7, <1>10, <2>1, TraceIsKept
<1>16. QED
  BY <1>11, <1>13, <1>14, <1>15 DEF SpansKept

\* The new summary fits beside the stored ones, which count at least their bytes.
LEMMA AppendKeepsSpans ==
  ASSUME OneByteACharacter, SpansKept, NEW id \in Spans, NEW size \in Summaries,
         NEW a \in SpanTasks \cup {NoArtifact}, AppendCheckpoint(id, size, a)
  PROVE  SpansKept'
<1> DEFINE n == Len(checkpoints) + 1
           row == [span |-> id, size |-> size, artifact |-> a]
<1>1. /\ SpanTables /\ FamiliesNumbered /\ SummariesBounded
      /\ TraceRows /\ TraceBelowRoot /\ TraceComplete
  BY DEF SpansKept
<1>2. /\ Len(checkpoints) \in Nat /\ DOMAIN checkpoints = 1..Len(checkpoints)
      /\ Spans = 1..Len(spans) /\ id \in 1..MaxSpans
  BY <1>1, RowsOfSpans, SpanAssumption DEF SpanTables
<1>3. /\ Len(checkpoints) < MaxCheckpoints /\ ~spans[id].closed /\ a \in {NoArtifact, spans[id].task}
      /\ Fits(id, size) /\ checkpoints' = Append(checkpoints, row) /\ spans' = spans /\ trace' = trace
  BY DEF AppendCheckpoint
<1>4. row \in CheckpointRow /\ row.span = id /\ row.size = size /\ row.artifact = a
  BY <1>2 DEF CheckpointRow
<1> HIDE DEF row
<1>5. /\ checkpoints' \in Seq(CheckpointRow) /\ Len(checkpoints') = n /\ DOMAIN checkpoints' = 1..n
      /\ checkpoints'[n] = row /\ \A k \in DOMAIN checkpoints : checkpoints'[k] = checkpoints[k]
  BY <1>1, <1>2, <1>3, <1>4 DEF SpanTables
<1>6. /\ n \notin DOMAIN checkpoints /\ DOMAIN checkpoints' = DOMAIN checkpoints \cup {n}
      /\ n \in Nat /\ n <= MaxCheckpoints
  BY <1>2, <1>3, <1>5, SpanAssumption
<1>7. Spans' = Spans /\ \A c : ChildrenOf(c)' = ChildrenOf(c)
  BY <1>3 DEF Spans, ChildrenOf
<1>8. SpanTables'
  BY <1>1, <1>3, <1>4, <1>5, <1>6, <1>7 DEF SpanTables
<1>9. FamiliesNumbered'
  <2>1. \A t \in SpanTasks, p \in 0..MaxSpans : Siblings(t, p)' = Siblings(t, p)
    BY <1>3, <1>7 DEF Siblings, Roots
  <2>2. QED
    BY <1>1, <1>3, <2>1 DEF FamiliesNumbered, Numbered
<1>10. /\ \A c : c # id => CheckpointsOf(c)' = CheckpointsOf(c)
       /\ CheckpointsOf(id)' = CheckpointsOf(id) \cup {n} /\ n \notin CheckpointsOf(id)
  BY <1>4, <1>5, <1>6 DEF CheckpointsOf
<1>11. \A c : \A k \in CheckpointsOf(c) : checkpoints'[k] = checkpoints[k]
  BY <1>5 DEF CheckpointsOf
<1>12. /\ IsFiniteSet(BytesOf(id)) /\ IsFiniteSet(CharactersOf(id))
       /\ BytesOf(id) \subseteq CharactersOf(id)
  BY <1>1, StoredIsFinite
<1>13. ASSUME NEW c \in Spans
       PROVE  Cardinality(BytesOf(c)') <= SpanCap
  <2>1. CASE c # id
    <3>1. CheckpointsOf(c)' = CheckpointsOf(c)
      BY <1>10, <2>1
    <3>2. BytesOf(c)' = BytesOf(c)
      BY <1>11, <3>1 DEF BytesOf
    <3>3. QED
      BY <1>1, <3>2 DEF SummariesBounded
  <2>2. CASE c = id
    <3> DEFINE New == {n} \X (1..size.bytes)
    <3>1. BytesOf(c)' = BytesOf(id) \cup New
      <4>1. BytesOf(c)' = UNION {{k} \X (1..checkpoints'[k].size.bytes) : k \in CheckpointsOf(id) \cup {n}}
        BY <1>10, <2>2 DEF BytesOf
      <4>2. \A k \in CheckpointsOf(id) : checkpoints'[k].size.bytes = checkpoints[k].size.bytes
        BY <1>11
      <4>3. checkpoints'[n].size.bytes = size.bytes
        BY <1>4, <1>5
      <4>4. {{k} \X (1..checkpoints'[k].size.bytes) : k \in CheckpointsOf(id) \cup {n}}
              = {{k} \X (1..checkpoints[k].size.bytes) : k \in CheckpointsOf(id)} \cup {New}
        BY <4>2, <4>3
      <4>5. QED
        BY <4>1, <4>4 DEF BytesOf
    <3>2. size.bytes \in Nat /\ size.bytes \in Int
      BY SpanAssumption
    <3>3. IsFiniteSet(New) /\ Cardinality(New) = size.bytes
      <4>1. IsFiniteSet({n}) /\ Cardinality({n}) = 1
        BY FS_Singleton
      <4>2. IsFiniteSet(1..size.bytes) /\ Cardinality(1..size.bytes) = size.bytes
        <5>1. Cardinality(1..size.bytes) = IF 1 > size.bytes THEN 0 ELSE size.bytes - 1 + 1
          BY <3>2, FS_Interval
        <5>2. IsFiniteSet(1..size.bytes) /\ (1 > size.bytes => size.bytes = 0)
          BY <3>2, FS_Interval
        <5>3. QED
          BY <3>2, <5>1, <5>2
      <4>3. Cardinality(New) = 1 * size.bytes /\ IsFiniteSet(New)
        BY <4>1, <4>2, FS_Product
      <4>4. QED
        BY <3>2, <4>3
    <3> HIDE DEF New
    <3>4. /\ IsFiniteSet(BytesOf(id) \cap New) /\ Cardinality(BytesOf(id) \cap New) \in Nat
          /\ Cardinality(BytesOf(id)) \in Nat /\ Cardinality(CharactersOf(id)) \in Nat
      BY <1>12, <3>3, FS_Intersection, FS_CardinalityType
    <3>5. Cardinality(BytesOf(id) \cup New)
            = Cardinality(BytesOf(id)) + size.bytes - Cardinality(BytesOf(id) \cap New)
      BY <1>12, <3>3, FS_Union
    <3>6. Cardinality(BytesOf(id)) <= Cardinality(CharactersOf(id))
      BY <1>12, FS_Subset
    <3>7. Cardinality(CharactersOf(id)) + size.bytes <= SpanCap
      BY <1>3 DEF Fits, StoredLength
    <3>8. QED
      BY <3>1, <3>2, <3>4, <3>5, <3>6, <3>7, SpanAssumption
  <2>3. QED
    BY <2>1, <2>2
<1>14. SummariesBounded'
  BY <1>7, <1>13 DEF SummariesBounded
<1>15. (TraceRows /\ TraceBelowRoot /\ TraceComplete)'
  <2>1. \A c \in Spans :
          /\ spans'[c].parent = spans[c].parent /\ spans'[c].task = spans[c].task
          /\ CheckpointsOf(c) \subseteq CheckpointsOf(c)'
          /\ spans[c].closed => /\ spans'[c].closed /\ CheckpointsOf(c)' = CheckpointsOf(c)
                                /\ ChildrenOf(c)' = ChildrenOf(c)
    BY <1>3, <1>7, <1>10
  <2>2. QED
    BY <1>1, <1>3, <1>7, <2>1, TraceIsKept
<1>16. QED
  BY <1>8, <1>9, <1>14, <1>15 DEF SpansKept

LEMMA CloseKeepsSpans ==
  ASSUME SpansKept, NEW id \in Spans, CloseSpan(id)
  PROVE  SpansKept'
<1>1. /\ SpanTables /\ FamiliesNumbered /\ SummariesBounded
      /\ TraceRows /\ TraceBelowRoot /\ TraceComplete
  BY DEF SpansKept
<1>2. /\ spans \in Seq(SpanRow) /\ spans' = [spans EXCEPT ![id].closed = TRUE] /\ id \in DOMAIN spans
      /\ checkpoints' = checkpoints /\ trace' = trace
  BY <1>1 DEF CloseSpan, SpanTables, Spans
<1>3. \A c \in Spans : spans[c] \in SpanRow
  BY <1>1, RowsOfSpans
<1>4. /\ spans' \in Seq(SpanRow) /\ Len(spans') = Len(spans) /\ Spans' = Spans
      /\ \A c \in Spans :
           /\ spans'[c].parent = spans[c].parent /\ spans'[c].task = spans[c].task
           /\ spans'[c].depth = spans[c].depth /\ spans'[c].fan_out_index = spans[c].fan_out_index
           /\ spans[c].closed => spans'[c].closed
  <2>1. [spans[id] EXCEPT !.closed = TRUE] \in SpanRow
    BY <1>3 DEF SpanRow
  <2>2. spans' = [spans EXCEPT ![id] = [spans[id] EXCEPT !.closed = TRUE]]
    BY <1>2
  <2>3. spans' \in Seq(SpanRow) /\ Len(spans') = Len(spans) /\ Spans' = Spans
    BY <1>2, <2>1, <2>2 DEF Spans
  <2>4. \A c \in Spans : spans'[c] = IF c = id THEN [spans[id] EXCEPT !.closed = TRUE] ELSE spans[c]
    BY <1>2, <2>2 DEF Spans
  <2>5. QED
    BY <1>3, <2>3, <2>4 DEF SpanRow
<1>5. /\ \A c : ChildrenOf(c)' = ChildrenOf(c) /\ CheckpointsOf(c)' = CheckpointsOf(c)
      /\ \A t : Roots(t)' = Roots(t)
  BY <1>2, <1>4 DEF ChildrenOf, CheckpointsOf, Roots
<1>6. SpanTables'
  <2>1. \A c \in Spans : spans[c].parent # NoParent => spans[c].parent \in Spans
    BY <1>1, RowsOfSpans DEF SpanTables, NoParent
  <2>2. QED
    BY <1>1, <1>2, <1>4, <2>1 DEF SpanTables
<1>7. FamiliesNumbered'
  <2>1. ASSUME NEW t \in SpanTasks, NEW p \in 0..MaxSpans
        PROVE  Numbered(Siblings(t, p))'
    <3>1. Siblings(t, p)' = Siblings(t, p) /\ Siblings(t, p) \subseteq Spans
      BY <1>5 DEF Siblings, Roots, ChildrenOf
    <3>2. {spans'[s].fan_out_index : s \in Siblings(t, p)} = {spans[s].fan_out_index : s \in Siblings(t, p)}
      BY <1>4, <3>1
    <3>3. QED
      BY <1>1, <2>1, <3>1, <3>2 DEF FamiliesNumbered, Numbered
  <2>2. QED
    BY <2>1 DEF FamiliesNumbered
<1>8. SummariesBounded'
  BY <1>1, <1>2, <1>4 DEF SummariesBounded, BytesOf, CheckpointsOf
<1>9. (TraceRows /\ TraceBelowRoot /\ TraceComplete)'
  BY <1>1, <1>2, <1>4, <1>5, TraceIsKept
<1>10. QED
  BY <1>6, <1>7, <1>8, <1>9 DEF SpansKept

\* Nothing that only reads touches the tables.
LEMMA TablesStay ==
  ASSUME SpanTables, FamiliesNumbered, SummariesBounded, spans' = spans, checkpoints' = checkpoints
  PROVE  (SpanTables /\ FamiliesNumbered /\ SummariesBounded)'
<1>1. Spans' = Spans /\ \A c : CheckpointsOf(c)' = CheckpointsOf(c)
  BY DEF Spans, CheckpointsOf
<1>2. SpanTables'
  BY <1>1 DEF SpanTables
<1>3. \A t, p : Siblings(t, p)' = Siblings(t, p)
  BY <1>1 DEF Siblings, Roots, ChildrenOf
<1>4. FamiliesNumbered'
  BY <1>3 DEF FamiliesNumbered, Numbered
<1>5. \A c : BytesOf(c)' = BytesOf(c)
  BY <1>1 DEF BytesOf
<1>6. SummariesBounded'
  BY <1>1, <1>5 DEF SummariesBounded
<1>7. QED
  BY <1>2, <1>4, <1>6

\* A numbered family has an order by its numbers, and any such order lists it, each row once.
LEMMA OrderLists ==
  ASSUME SpanTables, NEW F \in SUBSET Spans, Numbered(F)
  PROVE  /\ RowsInOrder(F) \in Seq(RowSeen) /\ Ids(RowsInOrder(F)) = F /\ SeenOnce(RowsInOrder(F))
<1> DEFINE c == Cardinality(F)
           Sorted(s) == \A i, j \in DOMAIN s :
                          i < j => spans[s[i]].fan_out_index < spans[s[j]].fan_out_index
<1>1. /\ Spans = 1..Len(spans) /\ Len(spans) \in Nat
      /\ \A id \in Spans : spans[id].fan_out_index \in Nat /\ spans[id].closed \in BOOLEAN /\ id \in Nat
  BY RowsOfSpans
<1>2. IsFiniteSet(F) /\ c \in Nat
  <2>1. IsFiniteSet(1..Len(spans))
    BY <1>1, FS_Interval
  <2>2. QED
    BY <1>1, <2>1, FS_Subset, FS_CardinalityType
<1>3. {spans[s].fan_out_index : s \in F} = 0..(c - 1)
  BY DEF Numbered
<1> HIDE DEF c
<1>4. \E s \in [1..c -> F] : Sorted(s)
  <2> DEFINE s == [i \in 1..c |-> CHOOSE f \in F : spans[f].fan_out_index = i - 1]
  <2>1. \A i \in 1..c : \E f \in F : spans[f].fan_out_index = i - 1
    <3>1. \A i \in 1..c : i - 1 \in 0..(c - 1)
      BY <1>2
    <3>2. QED
      BY <1>3, <3>1
  <2>2. \A i \in 1..c : s[i] \in F /\ spans[s[i]].fan_out_index = i - 1
    BY <2>1
  <2>3. s \in [1..c -> F] /\ DOMAIN s = 1..c
    BY <2>2
  <2> HIDE DEF s
  <2>4. \A i, j \in 1..c : i < j => i - 1 < j - 1
    BY <1>2
  <2>5. Sorted(s)
    BY <2>2, <2>3, <2>4
  <2>6. QED
    BY <2>3, <2>5
<1> DEFINE order == CHOOSE s \in [1..c -> F] : Sorted(s)
<1>5. order \in [1..c -> F] /\ Sorted(order)
  BY <1>4
<1>6. RowsInOrder(F) = [i \in DOMAIN order |-> RowRead(order[i])]
  BY DEF RowsInOrder, c
<1> HIDE DEF order
<1>7. order \in Injection(1..c, F)
  <2>1. ASSUME NEW i \in 1..c, NEW j \in 1..c, order[i] = order[j], i < j
        PROVE  FALSE
    <3>1. spans[order[i]].fan_out_index < spans[order[j]].fan_out_index
      BY <1>5, <2>1
    <3>2. spans[order[i]].fan_out_index \in Nat
      BY <1>1, <1>5
    <3>3. QED
      BY <2>1, <3>1, <3>2
  <2>2. \A i, j \in 1..c : order[i] = order[j] => i = j
    <3>1. \A i, j \in 1..c : i < j \/ j < i \/ i = j
      BY <1>2
    <3>2. QED
      BY <2>1, <3>1
  <2>3. QED
    BY <1>5, <2>2 DEF Injection, IsInjective
<1>8. order \in Surjection(1..c, F)
  <2>1. c = Cardinality(F)
    BY DEF c
  <2>2. Cardinality(1..c) = c
    <3>1. Cardinality(1..c) = IF 1 > c THEN 0 ELSE c - 1 + 1
      BY <1>2, FS_Interval
    <3>2. QED
      BY <1>2, <3>1
  <2>3. QED
    BY <1>2, <1>7, <2>1, <2>2, FS_Injection
<1>9. \A f \in F : \E i \in 1..c : order[i] = f
  BY <1>8 DEF Surjection
<1> DEFINE list == RowsInOrder(F)
<1>10. /\ DOMAIN list = 1..c
       /\ \A i \in 1..c : list[i] = RowRead(order[i]) /\ list[i].id = order[i] /\ list[i].id \in Spans
                          /\ list[i].closed = spans[order[i]].closed /\ list[i] \in RowSeen
  <2>1. DOMAIN list = 1..c /\ \A i \in 1..c : list[i] = RowRead(order[i])
    BY <1>5, <1>6
  <2>2. \A i \in 1..c : order[i] \in Spans
    BY <1>5
  <2>3. \A i \in 1..c : /\ RowRead(order[i]).id = order[i] /\ RowRead(order[i]) \in RowSeen
                        /\ RowRead(order[i]).closed = spans[order[i]].closed
    BY <1>1, <2>2 DEF RowRead, RowSeen
  <2>4. QED
    BY <2>1, <2>2, <2>3
<1>11. list \in Seq(RowSeen)
  <2>1. list = [i \in 1..c |-> RowRead(order[i])]
    BY <1>5, <1>6
  <2>2. \A i \in 1..c : RowRead(order[i]) \in RowSeen
    BY <1>10
  <2>3. QED
    BY <1>2, <2>1, <2>2
<1>12. Ids(list) = F
  <2>1. \A i \in 1..c : order[i] \in F
    BY <1>5
  <2>2. QED
    BY <1>9, <1>10, <2>1 DEF Ids
<1>13. SeenOnce(list)
  <2>1. \A i, j \in 1..c : order[i] = order[j] => i = j
    BY <1>7 DEF Injection, IsInjective
  <2>2. Ids(list) \subseteq Spans
    BY <1>12
  <2>3. QED
    BY <1>10, <2>1, <2>2 DEF SeenOnce
<1>14. QED
  BY <1>11, <1>12, <1>13

\* The row on top of the frontier and those below it.
LEMMA TopOfFrontier ==
  ASSUME SpanTables, TraceRows, trace.phase \in {"children", "checkpoints"}
  PROVE  /\ Len(trace.frontier) \in Nat \ {0} /\ DOMAIN trace.frontier = 1..Len(trace.frontier)
         /\ Popped \in RowSeen /\ Popped.id \in Ids(trace.frontier) /\ Popped.id \in Spans
         /\ Popped.id \notin Reached
         /\ Popped.closed => spans[Popped.id].closed
         /\ Below \in Seq(RowSeen) /\ Len(Below) = Len(trace.frontier) - 1
         /\ \A i \in 1..(Len(trace.frontier) - 1) : Below[i] = trace.frontier[i]
         /\ Ids(Below) = Ids(trace.frontier) \ {Popped.id}
<1> DEFINE f == trace.frontier
           m == Len(f)
<1>1. f \in Seq(RowSeen) /\ f # <<>> /\ SeenOnce(f) /\ Ids(f) \cap Reached = {}
  BY DEF TraceRows
<1>2. m \in Nat \ {0} /\ DOMAIN f = 1..m /\ m \in DOMAIN f
  BY <1>1
<1>3. Popped = f[m] /\ Popped \in RowSeen
  BY <1>1, <1>2 DEF Popped
<1>4. Popped.id \in Ids(f)
  BY <1>2, <1>3 DEF Ids
<1>5. Below \in Seq(RowSeen) /\ Len(Below) = m - 1 /\ \A i \in 1..(m - 1) : Below[i] = f[i]
  BY <1>1, <1>2 DEF Below
<1>6. DOMAIN Below = 1..(m - 1)
  BY <1>5, <1>2
<1>7. Ids(Below) = Ids(f) \ {Popped.id}
  <2>1. \A i \in 1..(m - 1) : i \in 1..m /\ i # m
    BY <1>2
  <2>2. \A i \in 1..m : i # m => i \in 1..(m - 1)
    BY <1>2
  <2>3. \A i \in 1..m : f[i].id = f[m].id => i = m
    BY <1>1, <1>2 DEF SeenOnce
  <2>4. Ids(Below) = {f[i].id : i \in 1..(m - 1)}
    BY <1>5, <1>6 DEF Ids
  <2>5. Ids(f) = {f[i].id : i \in 1..m}
    BY <1>2 DEF Ids
  <2> HIDE DEF f, m
  <2>6. QED
    BY <1>3, <2>1, <2>2, <2>3, <2>4, <2>5
<1>8. Popped.id \in Spans /\ Popped.id \notin Reached /\ (Popped.closed => spans[Popped.id].closed)
  BY <1>1, <1>2, <1>3, <1>4 DEF SeenOnce
<1>9. QED
  BY <1>2, <1>3, <1>4, <1>5, <1>7, <1>8

LEMMA BeginKeepsSpans ==
  ASSUME SpansKept, NEW root \in Spans, BeginTrace(root)
  PROVE  SpansKept'
<1>1. /\ SpanTables /\ FamiliesNumbered /\ SummariesBounded /\ spans' = spans /\ checkpoints' = checkpoints
      /\ Spans' = Spans /\ \A id \in Spans : spans[id].closed \in BOOLEAN /\ id \in Nat
  BY RowsOfSpans DEF SpansKept, BeginTrace, Spans
<1>2. (SpanTables /\ FamiliesNumbered /\ SummariesBounded)'
  BY <1>1, TablesStay
<1>3. /\ trace' = [phase |-> "children", frontier |-> <<RowRead(root)>>, children |-> <<>>, nodes |-> {}]
      /\ RowRead(root) \in RowSeen /\ RowRead(root).id = root /\ RowRead(root).closed = spans[root].closed
  BY <1>1 DEF BeginTrace, NoTrace, RowRead, RowSeen
<1>4. /\ trace'.phase = "children" /\ trace'.frontier = <<RowRead(root)>> /\ trace'.children = <<>>
      /\ trace'.nodes = {} /\ Reached' = {}
  BY <1>3 DEF Reached
<1>5. /\ DOMAIN trace'.frontier = {1} /\ trace'.frontier[1] = RowRead(root)
      /\ trace'.frontier \in Seq(RowSeen) /\ trace'.frontier # <<>>
      /\ DOMAIN trace'.children = {} /\ trace'.children \in Seq(RowSeen)
  BY <1>3, <1>4
<1>6. Ids(trace.frontier)' = {root} /\ Ids(trace.children)' = {}
  BY <1>3, <1>5 DEF Ids
<1>7. TraceRows'
  <2>1. SeenOnce(trace.frontier)'
    BY <1>1, <1>3, <1>5, <1>6 DEF SeenOnce
  <2>2. SeenOnce(trace.children)'
    BY <1>1, <1>5, <1>6 DEF SeenOnce
  <2>3. trace' \in [phase : {"idle", "children", "checkpoints", "done"}, frontier : Seq(RowSeen),
                    children : Seq(RowSeen), nodes : SUBSET NodeSeen]
    BY <1>3, <1>4, <1>5
  <2>4. QED
    BY <1>4, <1>5, <1>6, <2>1, <2>2, <2>3 DEF TraceRows
<1>8. TraceBelowRoot'
  BY <1>1, <1>4, <1>6 DEF TraceBelowRoot
<1>9. TraceComplete'
  BY <1>4 DEF TraceComplete
<1>10. QED
  BY <1>2, <1>7, <1>8, <1>9 DEF SpansKept

\* The children of the row on top are a family, which its order lists.
LEMMA ReadChildrenKeepsSpans ==
  ASSUME SpansKept, ReadChildren
  PROVE  SpansKept'
<1> DEFINE F == ChildrenOf(Popped.id)
           list == RowsInOrder(F)
<1>1. /\ SpanTables /\ FamiliesNumbered /\ SummariesBounded /\ spans' = spans /\ checkpoints' = checkpoints
      /\ TraceRows /\ TraceBelowRoot /\ TraceComplete /\ Spans' = Spans /\ trace.phase = "children"
      /\ trace' = [trace EXCEPT !.phase = "checkpoints", !.children = list]
  BY DEF SpansKept, ReadChildren, Spans
<1>2. (SpanTables /\ FamiliesNumbered /\ SummariesBounded)'
  BY <1>1, TablesStay
<1>3. Popped.id \in Spans /\ Popped.id \in Ids(trace.frontier)
  BY <1>1, TopOfFrontier
<1>4. F \in SUBSET Spans /\ Numbered(F)
  <2>1. Popped.id \in 0..MaxSpans /\ Popped.id # NoParent /\ spans[Popped.id].task \in SpanTasks
    BY <1>1, <1>3, RowsOfSpans, SpanAssumption DEF SpanTables, NoParent
  <2>2. Siblings(spans[Popped.id].task, Popped.id) = F
    BY <2>1 DEF Siblings
  <2>3. F \in SUBSET Spans
    BY DEF ChildrenOf
  <2> HIDE DEF F
  <2>4. QED
    BY <1>1, <2>1, <2>2, <2>3 DEF FamiliesNumbered
<1>5. list \in Seq(RowSeen) /\ Ids(list) = F /\ SeenOnce(list)
  <2> HIDE DEF F
  <2> QED
    BY <1>1, <1>4, OrderLists
<1>6. /\ trace'.phase = "checkpoints" /\ trace'.children = list /\ trace'.frontier = trace.frontier
      /\ trace'.nodes = trace.nodes
      /\ trace' \in [phase : {"idle", "children", "checkpoints", "done"}, frontier : Seq(RowSeen),
                     children : Seq(RowSeen), nodes : SUBSET NodeSeen]
  <2> HIDE DEF list
  <2> QED
    BY <1>1, <1>5 DEF TraceRows
<1> HIDE DEF list
<1>7. /\ Popped' = Popped /\ Reached' = Reached /\ Ids(trace.frontier)' = Ids(trace.frontier)
      /\ Ids(trace.children)' = F
  BY <1>5, <1>6 DEF Popped, Reached, Ids
<1>8. TraceRows'
  <2>1. SeenOnce(trace.frontier)' /\ SeenOnce(trace.children)'
    BY <1>1, <1>5, <1>6, <1>7 DEF SeenOnce, TraceRows
  <2>2. trace.frontier # <<>>
    BY <1>1 DEF TraceRows
  <2>3. QED
    BY <1>1, <1>6, <1>7, <2>1, <2>2 DEF TraceRows
<1>9. TraceBelowRoot'
  <2>1. \A c \in F : spans[c].parent = Popped.id
    BY DEF ChildrenOf
  <2> HIDE DEF F
  <2>2. QED
    BY <1>1, <1>6, <1>7, <2>1 DEF TraceBelowRoot
<1>10. TraceComplete'
  <2>1. \A c : ChildrenOf(c)' = ChildrenOf(c) /\ CheckpointsOf(c)' = CheckpointsOf(c)
    BY <1>1 DEF ChildrenOf, CheckpointsOf
  <2>2. {c \in Spans' : spans'[c].parent = Popped'.id} = F
    BY <1>1, <1>7 DEF ChildrenOf
  <2>3. ChildrenOf(Popped.id)' = F
    BY <2>2 DEF ChildrenOf
  <2>4. \A n \in trace.nodes :
          /\ n.notes \subseteq CheckpointsOf(n.id)'
          /\ n.closed => /\ spans'[n.id].closed /\ n.notes = CheckpointsOf(n.id)'
                         /\ ChildrenOf(n.id)' \subseteq Reached \cup Ids(trace.frontier)
    BY <1>1, <2>1 DEF TraceComplete
  <2> HIDE DEF F
  <2>5. QED
    BY <1>6, <1>7, <2>3, <2>4 DEF TraceComplete
<1>11. QED
  BY <1>2, <1>8, <1>9, <1>10 DEF SpansKept

\* The row on top becomes a node, and the children in hand take its place: none of them was on the
\* frontier or a node, as its parent was none.
LEMMA ReadCheckpointsKeepsSpans ==
  ASSUME SpansKept, ReadCheckpoints
  PROVE  SpansKept'
<1> DEFINE q == Popped.id
           kids == trace.children
           rest == Below \o kids
           node == [id |-> q, closed |-> Popped.closed, notes |-> CheckpointsOf(q)]
           m == Len(trace.frontier)
<1>1. /\ SpanTables /\ FamiliesNumbered /\ SummariesBounded /\ spans' = spans /\ checkpoints' = checkpoints
      /\ TraceRows /\ TraceBelowRoot /\ TraceComplete /\ Spans' = Spans /\ trace.phase = "checkpoints"
      /\ trace' = [phase |-> PhaseAfter(rest), frontier |-> rest, children |-> <<>>,
                   nodes |-> trace.nodes \cup {node}]
  BY DEF SpansKept, ReadCheckpoints, Spans
<1>2. (SpanTables /\ FamiliesNumbered /\ SummariesBounded)'
  BY <1>1, TablesStay
<1>3. /\ m \in Nat \ {0} /\ DOMAIN trace.frontier = 1..m /\ Popped \in RowSeen
      /\ q \in Ids(trace.frontier) /\ q \in Spans /\ q \notin Reached
      /\ Popped.closed => spans[q].closed
      /\ Below \in Seq(RowSeen) /\ Len(Below) = m - 1
      /\ \A i \in 1..(m - 1) : Below[i] = trace.frontier[i]
      /\ Ids(Below) = Ids(trace.frontier) \ {q}
  BY <1>1, TopOfFrontier
<1>4. /\ kids \in Seq(RowSeen) /\ SeenOnce(kids) /\ SeenOnce(trace.frontier)
      /\ Ids(trace.frontier) \cap Reached = {}
      /\ \A c \in Ids(kids) : spans[c].parent = q
  BY <1>1 DEF TraceRows, TraceBelowRoot
<1>5. PICK root \in Nat : \A e \in Reached \cup Ids(trace.frontier) :
                            e = root \/ (e > root /\ spans[e].parent \in Reached)
  BY <1>1 DEF TraceBelowRoot
<1>6. Ids(kids) \cap (Reached \cup Ids(trace.frontier)) = {}
  <2>1. SUFFICES ASSUME NEW c \in Ids(kids), c \in Reached \cup Ids(trace.frontier)
                 PROVE  FALSE
    OBVIOUS
  <2>2. c \in Spans /\ c \in Nat /\ q \in Nat /\ spans[c].parent = q /\ q < c
    BY <1>1, <1>3, <1>4, RowsOfSpans DEF SeenOnce, SpanTables
  <2>3. q >= root
    BY <1>3, <1>5, <2>2
  <2>4. c # root
    BY <2>2, <2>3
  <2>5. q \in Reached
    BY <1>5, <2>1, <2>2, <2>4
  <2>6. QED
    BY <1>3, <2>5
<1>7. /\ rest \in Seq(RowSeen) /\ Len(rest) = m - 1 + Len(kids) /\ Len(kids) \in Nat
      /\ \A i \in 1..(m - 1) : rest[i] = trace.frontier[i]
      /\ \A i \in 1..Len(kids) : rest[m - 1 + i] = kids[i]
      /\ DOMAIN rest = 1..(m - 1 + Len(kids)) /\ DOMAIN kids = 1..Len(kids)
  <2>1. DOMAIN Below = 1..(m - 1)
    BY <1>3
  <2> HIDE DEF m, kids
  <2>2. QED
    BY <1>3, <1>4, <2>1
<1>8. \A i \in DOMAIN rest :
        \/ i \in 1..(m - 1) /\ i \in DOMAIN trace.frontier /\ rest[i] = trace.frontier[i]
             /\ rest[i].id \in Ids(Below)
        \/ \E j \in DOMAIN kids : i = m - 1 + j /\ rest[i] = kids[j] /\ rest[i].id \in Ids(kids)
  <2>1. ASSUME NEW i \in DOMAIN rest, i \in 1..(m - 1)
        PROVE  i \in DOMAIN trace.frontier /\ rest[i] = trace.frontier[i] /\ rest[i].id \in Ids(Below)
    <3>1. i \in 1..m /\ i \in DOMAIN Below
      BY <1>3, <2>1
    <3>2. QED
      BY <1>3, <1>7, <2>1, <3>1 DEF Ids
  <2>2. ASSUME NEW i \in DOMAIN rest, i \notin 1..(m - 1)
        PROVE  \E j \in DOMAIN kids : i = m - 1 + j /\ rest[i] = kids[j] /\ rest[i].id \in Ids(kids)
    <3>1. i - (m - 1) \in 1..Len(kids) /\ i = m - 1 + (i - (m - 1))
      <4> HIDE DEF m, kids, rest
      <4> QED
        BY <1>3, <1>7, <2>2
    <3>2. rest[i] = kids[i - (m - 1)] /\ i - (m - 1) \in DOMAIN kids
      BY <1>7, <3>1
    <3>3. QED
      BY <3>1, <3>2 DEF Ids
  <2>3. QED
    BY <2>1, <2>2
<1>9. Ids(rest) = (Ids(trace.frontier) \ {q}) \cup Ids(kids)
  <2>1. Ids(rest) \subseteq Ids(Below) \cup Ids(kids)
    BY <1>8 DEF Ids
  <2>2. Ids(Below) \subseteq Ids(rest)
    <3>1. DOMAIN Below = 1..(m - 1) /\ \A i \in 1..(m - 1) : i \in DOMAIN rest
      <4> HIDE DEF m, kids, rest
      <4> QED
        BY <1>3, <1>7
    <3>2. \A i \in 1..(m - 1) : rest[i] = Below[i]
      BY <1>3, <1>7
    <3> HIDE DEF rest
    <3>3. QED
      BY <3>1, <3>2 DEF Ids
  <2>3. Ids(kids) \subseteq Ids(rest)
    <3> HIDE DEF m, kids, rest
    <3>1. \A i \in 1..Len(kids) : m - 1 + i \in DOMAIN rest
      BY <1>3, <1>7
    <3>2. QED
      BY <1>7, <3>1 DEF Ids
  <2>4. QED
    BY <1>3, <2>1, <2>2, <2>3
<1> HIDE DEF rest
<1>10. SeenOnce(rest)
  <2>1. Ids(rest) \subseteq Spans
    BY <1>4, <1>9 DEF SeenOnce
  <2>2. \A i \in DOMAIN rest : rest[i].closed => spans[rest[i].id].closed
    BY <1>4, <1>8 DEF SeenOnce
  <2>3. ASSUME NEW i \in DOMAIN rest, NEW j \in DOMAIN rest, rest[i].id = rest[j].id
        PROVE  i = j
    <3>1. Ids(Below) \cap Ids(kids) = {}
      BY <1>3, <1>6
    <3>2. QED
      BY <1>4, <1>8, <2>3, <3>1 DEF SeenOnce
  <2>4. QED
    BY <2>1, <2>2, <2>3 DEF SeenOnce
<1>11. node \in NodeSeen /\ node.id = q /\ node.closed = Popped.closed /\ node.notes = CheckpointsOf(q)
  <2>1. CheckpointsOf(q) \subseteq Nat
    BY <1>1, RowsOfSpans DEF CheckpointsOf
  <2>2. Popped.id \in Nat /\ Popped.closed \in BOOLEAN
    BY <1>3 DEF RowSeen
  <2>3. QED
    BY <2>1, <2>2 DEF NodeSeen
<1> HIDE DEF node
<1>12. /\ trace'.phase = PhaseAfter(rest) /\ trace'.frontier = rest /\ trace'.children = <<>>
       /\ trace'.nodes = trace.nodes \cup {node} /\ Reached' = Reached \cup {q}
       /\ PhaseAfter(rest) = (IF rest = <<>> THEN "done" ELSE "children")
  BY <1>1, <1>11 DEF PhaseAfter, Reached
<1>13. Ids(trace.frontier)' = Ids(rest) /\ Ids(trace.children)' = {}
  BY <1>12 DEF Ids
<1>14. TraceRows'
  <2>1. trace' \in [phase : {"idle", "children", "checkpoints", "done"}, frontier : Seq(RowSeen),
                    children : Seq(RowSeen), nodes : SUBSET NodeSeen]
    <3>1. <<>> \in Seq(RowSeen) /\ trace.nodes \cup {node} \in SUBSET NodeSeen
      BY <1>1, <1>11 DEF TraceRows
    <3>2. PhaseAfter(rest) \in {"done", "children"}
      BY <1>12
    <3>3. QED
      BY <1>1, <1>7, <3>1, <3>2 DEF rest
  <2>2. SeenOnce(trace.frontier)' /\ SeenOnce(trace.children)'
    BY <1>1, <1>10, <1>12, <1>13 DEF SeenOnce
  <2>3. \A x, y \in trace.nodes \cup {node} : x.id = y.id => x = y
    BY <1>1, <1>3, <1>11 DEF TraceRows, Reached
  <2>4. Reached' \subseteq Spans'
    BY <1>1, <1>3, <1>12 DEF TraceRows
  <2>5. Ids(rest) \cap (Reached \cup {q}) = {}
    BY <1>3, <1>4, <1>6, <1>9
  <2>6. QED
    BY <1>12, <1>13, <2>1, <2>2, <2>3, <2>4, <2>5 DEF TraceRows
<1>15. TraceBelowRoot'
  <2>1. Reached' \cup Ids(rest) = Reached \cup Ids(trace.frontier) \cup Ids(kids)
    BY <1>3, <1>9, <1>12
  <2>2. \A c \in Ids(kids) : c \in Spans /\ spans[c].parent = q /\ c > q /\ spans[c].task = spans[q].task
    BY <1>1, <1>3, <1>4, RowsOfSpans DEF SeenOnce, SpanTables, NoParent
  <2>3. ASSUME NEW e \in Reached' \cup Ids(rest)
        PROVE  e = root \/ (e > root /\ spans[e].parent \in Reached')
    <3>1. CASE e \in Reached \cup Ids(trace.frontier)
      BY <1>5, <1>12, <3>1
    <3>2. CASE e \in Ids(kids)
      <4>1. q \in Nat /\ e \in Nat /\ q >= root /\ e > q
        BY <1>1, <1>3, <1>5, <2>2, <3>2, RowsOfSpans
      <4>2. QED
        BY <1>12, <2>2, <3>2, <4>1
    <3>3. QED
      BY <2>1, <2>3, <3>1, <3>2
  <2>4. \A e \in Reached \cup Ids(trace.frontier) : spans[e].task = spans[q].task
    BY <1>1, <1>3 DEF TraceBelowRoot
  <2>5. \A e, f \in Reached' \cup Ids(rest) : spans[e].task = spans[f].task
    BY <2>1, <2>2, <2>4
  <2>6. QED
    BY <1>1, <1>13, <2>3, <2>5 DEF TraceBelowRoot
<1>16. TraceComplete'
  <2>1. \A c : ChildrenOf(c)' = ChildrenOf(c) /\ CheckpointsOf(c)' = CheckpointsOf(c)
    BY <1>1 DEF ChildrenOf, CheckpointsOf
  <2>2. Reached \cup Ids(trace.frontier) \subseteq Reached' \cup Ids(rest)
    BY <1>9, <1>12
  <2>3. Ids(kids) \subseteq Reached' \cup Ids(rest)
    BY <1>9
  <2>4. ASSUME NEW n \in trace.nodes \cup {node}
        PROVE  /\ n.notes \subseteq CheckpointsOf(n.id)
               /\ n.closed => /\ spans[n.id].closed /\ n.notes = CheckpointsOf(n.id)
                              /\ ChildrenOf(n.id) \subseteq Reached' \cup Ids(rest)
    <3>1. CASE n = node
      BY <1>1, <1>3, <1>11, <2>3, <3>1 DEF TraceComplete
    <3>2. CASE n \in trace.nodes
      BY <1>1, <2>2, <3>2 DEF TraceComplete
    <3>3. QED
      BY <2>4, <3>1, <3>2
  <2>5. trace'.phase # "checkpoints"
    BY <1>12
  <2>6. QED
    BY <1>1, <1>12, <1>13, <2>1, <2>4, <2>5 DEF TraceComplete
<1>17. QED
  BY <1>2, <1>14, <1>15, <1>16 DEF SpansKept

\* The inductive invariant of the delegation tables and of a reader of them: rows count their
\* families, summaries fit, and a trace in progress has its frontier below its nodes and everything
\* of what it saw closed (start_span, append_checkpoint, close_span, trace), for any number of spans,
\* checkpoints and tasks.
THEOREM SpansKeptHolds ==
  ASSUME OneByteACharacter
  PROVE  SpanSpec => []SpansKept
<1>1. SpanInit => SpansKept
  <2>1. SUFFICES ASSUME SpanInit  PROVE SpansKept
    OBVIOUS
  <2>2. /\ spans = <<>> /\ checkpoints = <<>> /\ Spans = {} /\ DOMAIN checkpoints = {}
        /\ trace = [phase |-> "idle", frontier |-> <<>>, children |-> <<>>, nodes |-> {}]
    BY <2>1 DEF SpanInit, NoTrace, Spans
  <2>3. SpanTables
    BY <2>2, SpanAssumption DEF SpanTables
  <2>4. FamiliesNumbered
    <3>1. \A t, p : Siblings(t, p) = {}
      BY <2>2 DEF Siblings, Roots, ChildrenOf
    <3>2. Cardinality({}) = 0 /\ 0..(0 - 1) = {}
      BY FS_EmptySet
    <3>3. QED
      BY <3>1, <3>2 DEF FamiliesNumbered, Numbered
  <2>5. SummariesBounded
    BY <2>2 DEF SummariesBounded
  <2>6. /\ trace.frontier = <<>> /\ trace.children = <<>> /\ trace.nodes = {} /\ trace.phase = "idle"
        /\ <<>> \in Seq(RowSeen) /\ DOMAIN trace.frontier = {} /\ DOMAIN trace.children = {}
        /\ Reached = {} /\ Ids(trace.frontier) = {} /\ Ids(trace.children) = {}
    BY <2>2 DEF Reached, Ids
  <2>7. TraceRows
    BY <2>2, <2>6 DEF TraceRows, SeenOnce
  <2>8. TraceBelowRoot /\ TraceComplete
    BY <2>6 DEF TraceBelowRoot, TraceComplete
  <2>9. QED
    BY <2>3, <2>4, <2>5, <2>7, <2>8 DEF SpansKept
<1>2. SpansKept /\ [SpanNext]_spanVars => SpansKept'
  <2>1. ASSUME SpansKept, UNCHANGED spanVars
        PROVE  SpansKept'
    <3>1. spans' = spans /\ checkpoints' = checkpoints /\ trace' = trace
      BY <2>1 DEF spanVars
    <3>2. /\ Spans' = Spans /\ \A c : CheckpointsOf(c)' = CheckpointsOf(c)
          /\ \A c : ChildrenOf(c)' = ChildrenOf(c)
      BY <3>1 DEF Spans, CheckpointsOf, ChildrenOf
    <3>3. QED
      BY <2>1, <3>1, <3>2, TablesStay, TraceIsKept DEF SpansKept
  <2>2. QED
    BY <2>1, StartKeepsSpans, AppendKeepsSpans, CloseKeepsSpans, BeginKeepsSpans,
       ReadChildrenKeepsSpans, ReadCheckpointsKeepsSpans DEF SpanNext
<1>3. QED
  BY <1>1, <1>2, PTL DEF SpanSpec

\* Depth and fan-out say what the finished tree says, summaries stay below their cap where a character
\* is one byte, and a trace, read with many queries while spans are started, checkpointed and
\* closed, stays in its task and shows what it shows closed with all its checkpoints and children
\* (start_span, append_checkpoint, close_span, trace).
THEOREM SpansAlwaysAddUp ==
  ASSUME OneByteACharacter
  PROVE  SpanSpec => []SpansInv
<1>1. SpansKept => SpansInv
  <2>1. SUFFICES ASSUME SpansKept  PROVE SpansInv
    OBVIOUS
  <2>2. /\ SpanTables /\ FamiliesNumbered /\ SummariesBounded
        /\ TraceRows /\ TraceBelowRoot /\ TraceComplete
    BY <2>1 DEF SpansKept
  <2>3. \A n \in trace.nodes : n.id \in Reached /\ n.id \in Spans
    BY <2>2 DEF Reached, TraceRows
  <2>4. SpansTypeOK
    <3>1. \A n \in trace.nodes : n.closed \in BOOLEAN
      BY <2>2 DEF TraceRows, NodeSeen
    <3>2. \A n \in trace.nodes : n.notes \subseteq DOMAIN checkpoints
      BY <2>2 DEF TraceComplete, CheckpointsOf
    <3>3. QED
      BY <2>2, <2>3, <3>1, <3>2 DEF SpansTypeOK, SpanTables, TraceRows
  <2>5. FanOutCounts
    <3>1. ASSUME NEW id \in Spans
          PROVE  Numbered(Siblings(spans[id].task, spans[id].parent))
      BY <2>2, RowsOfSpans DEF FamiliesNumbered
    <3>2. QED
      BY <2>2, <3>1 DEF FanOutCounts, Numbered, Siblings, SpanTables
  <2>6. TraceInsideTask
    <3>1. \A m, n \in trace.nodes : spans[m.id].task = spans[n.id].task /\ (m.id = n.id => m = n)
      BY <2>2, <2>3 DEF TraceBelowRoot, TraceRows
    <3>2. ASSUME NEW n \in trace.nodes, NEW k \in n.notes
          PROVE  checkpoints[k].artifact \in {NoArtifact, spans[n.id].task}
      <4>1. k \in CheckpointsOf(n.id)
        BY <2>2 DEF TraceComplete
      <4>2. QED
        BY <2>2, <4>1 DEF CheckpointsOf, SpanTables
    <3>3. QED
      BY <3>1, <3>2 DEF TraceInsideTask
  <2>7. ClosedIsShownWhole
    <3>1. SUFFICES ASSUME trace.phase = "done", NEW n \in trace.nodes, n.closed
                   PROVE  n.notes = CheckpointsOf(n.id) /\ ChildrenOf(n.id) \subseteq Reached
      BY DEF ClosedIsShownWhole, Reached
    <3>2. trace.frontier = <<>>
      BY <2>2, <3>1 DEF TraceRows
    <3>3. Ids(trace.frontier) = {}
      BY <3>2 DEF Ids
    <3>4. QED
      BY <2>2, <3>1, <3>3 DEF TraceComplete
  <2>8. QED
    BY <2>2, <2>4, <2>5, <2>6, <2>7 DEF SpansInv, SpansAddUp, TraceIsWhole
<1>2. QED
  BY <1>1, SpansKeptHolds, PTL
=============================================================================

--------------------------- MODULE MaintenanceRun ---------------------------
(***************************************************************************)
(* Background maintenance of one palace by several processes               *)
(* (agentpalace-storage/src/engine.rs) under the lease row in SQLite       *)
(* (agentpalace-storage/src/sqlite.rs, MaintenanceLeaseStore).  A run has  *)
(* three tiers; while a tier works the lease is renewed every RenewEvery   *)
(* ticks, and the tier is dropped when the lease is lost.  Writes of its   *)
(* own process make a run skip the tiers that have not started.            *)
(*                                                                         *)
(* The clock counts down the lease; what a run does between two tiers takes*)
(* no time.  A process may crash at any point, and one that works may be   *)
(* suspended and sleep through its renewals.                               *)
(***************************************************************************)
EXTENDS Integers

CONSTANTS
  Keepers,         \* processes
  LeaseTicks,      \* the lease's time to live, five minutes
  RenewEvery,      \* the renewal interval, one minute
  MaxMaintRuns,    \* bound on the claims
  MaxMaintFaults   \* bound on crashes, suspensions, failed renewals and releases

\* Vector index, fragment compaction, version retention.
LastTierLate == 4
LastTier == 3
Tiers    == 1..3

\* The lease outlives the three tiers even if none of them lives to its first renewal.
ASSUME LeaseAssumption ==
  /\ LeaseTicks \in Nat /\ RenewEvery \in Nat /\ 3 * RenewEvery <= LeaseTicks
  /\ MaxMaintRuns \in Nat /\ MaxMaintFaults \in Nat

Outcomes == {"completed", "nothing to do", "not idle", "failed", "aborted"}

VARIABLES
  maintLease,   \* the lease row
  signal,       \* per process: activity_signal
  keeper,       \* per process: the run under way
  claims,       \* holder ids given out
  maintFaults   \* faults so far

maintVars == <<maintLease, signal, keeper, claims, maintFaults>>

NoHolder == 0

KeeperState ==
  [at      : {"idle", "claiming", "claimed", "working", "between", "releasing"},
   holder  : 0..MaxMaintRuns,
   tier    : {0} \cup Tiers,
   timer   : 0..RenewEvery,       \* ticks since the tier began or renewed the lease
   rest    : {"awake", "asleep", "rested"},   \* rested: was asleep in this run
   results : SUBSET Outcomes,     \* the outcomes in tier_results
   status  : {"none", "success", "partial", "failure"}]

Fresh == [at |-> "idle", holder |-> NoHolder, tier |-> 0, timer |-> 0, rest |-> "awake",
          results |-> {}, status |-> "none"]

\* left: ticks until expires_at; at 0 the two are equal, below it has passed.
MaintTypeOK ==
  /\ maintLease \in [holder : 0..MaxMaintRuns, left : -1..LeaseTicks]
  /\ signal \in [Keepers -> BOOLEAN]
  /\ keeper \in [Keepers -> KeeperState]
  /\ claims \in 0..MaxMaintRuns
  /\ maintFaults \in 0..MaxMaintFaults

MaintInit ==
  /\ maintLease = [holder |-> NoHolder, left |-> -1]
  /\ signal = [p \in Keepers |-> FALSE]
  /\ keeper = [p \in Keepers |-> Fresh]
  /\ claims = 0 /\ maintFaults = 0

-----------------------------------------------------------------------------
(* MaintenanceLeaseStore.                                                  *)

Claimable == maintLease.left < 0

Renewable(h) == maintLease.holder = h /\ maintLease.left > 0

RenewedNot(h) == maintLease

Renewed(h) == [maintLease EXCEPT !.left = LeaseTicks]

Released(h) == IF maintLease.holder = h THEN [holder |-> NoHolder, left |-> -1] ELSE maintLease

-----------------------------------------------------------------------------
(* run_maintenance.                                                        *)

Asleep(p) == keeper[p].rest = "asleep"

At(p, where) == keeper[p].at = where /\ ~Asleep(p)

Ends(p, results, status) ==
  keeper' = [keeper EXCEPT ![p] = [Fresh EXCEPT !.results = results, !.status = status]]

\* A write of the process raises the signal before it touches LanceDB.
SignalActivity(p) ==
  /\ ~Asleep(p) /\ ~signal[p]
  /\ signal' = [signal EXCEPT ![p] = TRUE]
  /\ UNCHANGED <<maintLease, keeper, claims, maintFaults>>

\* Skipped at once after recent writes: by the signal, which is taken, or by idle_secs.
CheckIdle(p) ==
  /\ At(p, "idle")
  /\ signal' = [signal EXCEPT ![p] = FALSE]
  /\ \/ ~signal[p] /\ keeper' = [keeper EXCEPT ![p] = [Fresh EXCEPT !.at = "claiming"]]
     \/ Ends(p, {"not idle"}, "partial")
  /\ UNCHANGED <<maintLease, claims, maintFaults>>

\* try_claim_lease: denied while the lease is live, or when SQLite is busy or fails.
Claim(p) ==
  /\ At(p, "claiming")
  /\ \/ /\ Claimable /\ claims < MaxMaintRuns
        /\ claims' = claims + 1
        /\ maintLease' = [holder |-> claims', left |-> LeaseTicks]
        /\ keeper' = [keeper EXCEPT ![p].at = "claimed", ![p].holder = claims',
                                   ![p].status = "success"]
     \/ /\ \E o \in {"aborted", "failed"} : Ends(p, {o}, "failure")
        /\ UNCHANGED <<maintLease, claims>>
  /\ UNCHANGED <<signal, maintFaults>>

\* The run ends and releases the lease; nobody looks at the result, so the lease may stay until
\* it runs out.
GivesBack(p) ==
  \/ maintLease' = Released(keeper[p].holder) /\ UNCHANGED maintFaults
  \/ /\ maintFaults < MaxMaintFaults
     /\ maintFaults' = maintFaults + 1
     /\ UNCHANGED maintLease

StartTier(p, tier) ==
  keeper' = [keeper EXCEPT ![p].at = "working", ![p].tier = tier, ![p].timer = 0]

CheckAfterClaimKeeps(p) ==
  /\ At(p, "claimed")
  /\ signal' = [signal EXCEPT ![p] = FALSE]
  /\ IF signal[p] THEN Ends(p, {"not idle"}, "partial") ELSE StartTier(p, 1)
  /\ UNCHANGED <<maintLease, claims, maintFaults>>

CheckAfterClaim(p) ==
  /\ At(p, "claimed")
  /\ signal' = [signal EXCEPT ![p] = FALSE]
  /\ IF signal[p]
       THEN Ends(p, {"not idle"}, "partial") /\ GivesBack(p)
       ELSE StartTier(p, 1) /\ UNCHANGED <<maintLease, maintFaults>>
  /\ UNCHANGED claims

\* The tier's future is polled before the renewal timer.
FinishTier(p) ==
  /\ At(p, "working")
  /\ \E o \in {"completed", "nothing to do", "failed"} :
       keeper' = [keeper EXCEPT
         ![p].at = "between",
         ![p].results = @ \cup {o},
         ![p].status = IF o = "failed" THEN "failure"
                       ELSE IF o = "nothing to do" /\ @ = "success" THEN "partial" ELSE @]
  /\ UNCHANGED <<maintLease, signal, claims, maintFaults>>

\* with_lease_renewal: a renewal that fails drops the tier and ends the run, which releases the
\* lease, as far as that does not fail, too.
RenewOrAbort(p) ==
  /\ At(p, "working") /\ keeper[p].timer = RenewEvery
  /\ \/ /\ Renewable(keeper[p].holder)
        /\ maintLease' = Renewed(keeper[p].holder)
        /\ keeper' = [keeper EXCEPT ![p].timer = 0]
        /\ UNCHANGED maintFaults
     \/ /\ IF Renewable(keeper[p].holder)
             THEN /\ maintFaults < MaxMaintFaults
                  /\ maintFaults' = maintFaults + 1
                  /\ maintLease' \in {Released(keeper[p].holder), maintLease}
             ELSE GivesBack(p)
        /\ Ends(p, keeper[p].results \cup {"aborted"}, "failure")
  /\ UNCHANGED <<signal, claims>>

\* Activity after the first tier makes the run partial; after the second the status is left alone.
NextTier(p) ==
  /\ At(p, "between")
  /\ IF keeper[p].tier = LastTier
       THEN /\ keeper' = [keeper EXCEPT ![p].at = "releasing"]
            /\ UNCHANGED signal
       ELSE /\ signal' = [signal EXCEPT ![p] = FALSE]
            /\ IF ~signal[p] THEN StartTier(p, keeper[p].tier + 1)
               ELSE keeper' = [keeper EXCEPT
                      ![p].at = "releasing",
                      ![p].results = @ \cup {"not idle"},
                      ![p].status = IF keeper[p].tier = 1 THEN "partial" ELSE @]
  /\ UNCHANGED <<maintLease, claims, maintFaults>>

Release(p) ==
  /\ At(p, "releasing")
  /\ GivesBack(p)
  /\ Ends(p, keeper[p].results, keeper[p].status)
  /\ UNCHANGED <<signal, claims>>

-----------------------------------------------------------------------------
(* Time and faults.                                                        *)

CrashKeeper(p) ==
  /\ keeper[p].at # "idle"
  /\ maintFaults < MaxMaintFaults
  /\ maintFaults' = maintFaults + 1
  /\ keeper' = [keeper EXCEPT ![p] = Fresh]
  /\ signal' = [signal EXCEPT ![p] = FALSE]
  /\ UNCHANGED <<maintLease, claims>>

Sleep(p) ==
  /\ At(p, "working")
  /\ maintFaults < MaxMaintFaults
  /\ maintFaults' = maintFaults + 1
  /\ keeper' = [keeper EXCEPT ![p].rest = "asleep"]
  /\ UNCHANGED <<maintLease, signal, claims>>

Wake(p) ==
  /\ Asleep(p)
  /\ keeper' = [keeper EXCEPT ![p].rest = "rested"]
  /\ UNCHANGED <<maintLease, signal, claims, maintFaults>>

\* No process that is awake misses a renewal or dwells between two tiers.
Tick ==
  /\ maintLease.left >= 0
  /\ \A p \in Keepers : \/ Asleep(p) \/ keeper[p].at \in {"idle", "claiming"}
                        \/ (keeper[p].at = "working" /\ keeper[p].timer < RenewEvery)
  /\ maintLease' = [maintLease EXCEPT !.left = @ - 1]
  /\ keeper' = [p \in Keepers |->
                  IF keeper[p].at = "working" /\ keeper[p].timer < RenewEvery
                    THEN [keeper[p] EXCEPT !.timer = @ + 1] ELSE keeper[p]]
  /\ UNCHANGED <<signal, claims, maintFaults>>

MaintNext ==
  \/ \E p \in Keepers :
       \/ SignalActivity(p) \/ CheckIdle(p) \/ Claim(p) \/ CheckAfterClaim(p) \/ FinishTier(p)
       \/ RenewOrAbort(p) \/ NextTier(p) \/ Release(p)
       \/ CrashKeeper(p) \/ Sleep(p) \/ Wake(p)
  \/ Tick

MaintSpec == MaintInit /\ [][MaintNext]_maintVars

-----------------------------------------------------------------------------
(* Safety.                                                                 *)

\* Two processes never work on the palace's tables at the same time, whatever crashes and however
\* long the tiers take, unless one of them was suspended (docs/Operator-Standard.md: "never run
\* maintenance simultaneously on the same palace").
OneMaintainer ==
  \A p, q \in Keepers :
    keeper[p].at = "working" /\ keeper[q].at = "working" =>
      p = q \/ keeper[p].rest # "awake" \/ keeper[q].rest # "awake"

\* Every way out of a run gives the lease back: without faults it is held only by a run under way.
LeaseGivenBack ==
  maintFaults = 0 /\ maintLease.holder # NoHolder =>
    \E p \in Keepers : keeper[p].holder = maintLease.holder

\* The lease protocol as a whole: types, exclusion and the way back (run_maintenance).
LeaseDiscipline == MaintTypeOK /\ OneMaintainer /\ LeaseGivenBack
=============================================================================

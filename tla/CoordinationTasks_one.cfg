SPECIFICATION Spec
CONSTANTS
  Workers = {w1, w2}
  Tasks = {t1}
  Artifacts = {a1}
  Nobody = Nobody
  NoTask = NoTask
  Deadlines <- MCDeadlines
  Ttls = {1, 2}
  MaxTime = 3
  MaxRevision = 4
SYMMETRY MCSymmetry
INVARIANTS TypeOK OwnershipConsistent AuditTrail FinishedByLastClaimant
CHECK_DEADLOCK FALSE
PROPERTIES LiveLeaseExcludes AffinityMovesByHandoff NoNewExecutorAfterDeadline TerminalIsFinal

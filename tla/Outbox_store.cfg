SPECIFICATION Spec
CONSTANTS
  Ops = {o1, o2, o3}
  Remotes = {r1, r2}
  Keys = {k1}
  Workers = {w1, w2}
  Nobody = Nobody
  AnyRemote = AnyRemote
  Ttls = {1}
  Backoffs = {1}
  MaxTime = 2
  MaxRevision = 4
SYMMETRY MCSymmetry
INVARIANTS TypeOK DeliveredInOrder SequencesUnique LeaseConsistent
PROPERTIES NeverAbandoned LiveLeaseKept RevisionNamesRow DeliversFifo
CHECK_DEADLOCK FALSE

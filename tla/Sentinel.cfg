CONSTANTS
  Workers = {w1, w2}
  Operators = {o1}
  MaxPolicies = 1
  MaxAlerts = 2
  MaxSeq = 2
  Snapshots <- MCSnapshots
  Rule <- MCRule
SPECIFICATION MCSpec
SYMMETRY Symmetry
INVARIANTS FewDuplicates StoredOnce OneLateSnapshot
PROPERTY PauseHolds

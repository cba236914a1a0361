CONSTANTS
  Processes = {p1, p2}
  Identities = {i1, i2}
  Policies = {c1}
  Backups = {b1, b2}
  Writers = {w1, w2}
  Keys = {k1}
  Values = {"default", "other"}
SPECIFICATION MCSpec
SYMMETRY Symmetry
CHECK_DEADLOCK FALSE
INVARIANTS DiagnosisFindsNothing RowsHaveTheirFiles OneActiveIdentity PoliciesKeepTheirRules SettingsAreKept

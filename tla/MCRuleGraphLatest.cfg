\* LATEST after the source of a rule has been deleted and created again.
SPECIFICATION Spec
CONSTANTS
  k1 = k1
  k2 = k2
  k3 = k3
  Key = {k1, k2, k3}
  NoKey = NoKey
  Absent = Absent
  AutoDests <- MCAutoDests
  MaxRules = 1
INVARIANT
  LatestFindsRule

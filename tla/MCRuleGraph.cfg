\* Three keys, one of which has two destinations in the global policy.
SPECIFICATION Spec
CONSTANTS
  k1 = k1
  k2 = k2
  k3 = k3
  Key = {k1, k2, k3}
  NoKey = NoKey
  Absent = Absent
  AutoDests <- MCAutoDests
  MaxRules = 2
INVARIANTS
  TypeOK
  NoChains
PROPERTY
  ImplementsLinkGraph
SYMMETRY
  MCSymmetry

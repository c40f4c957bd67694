\* Two keys, three lists of labels, all queries with one or two filters.
SPECIFICATION Spec
CONSTANTS
  k1 = k1
  k2 = k2
  room = room
  type = type
  v1 = v1
  v2 = v2
  Key = {k1, k2}
  Label = {room, type}
  LabelValue = {v1, v2}
  Absent = Absent
  Other = Other
  NoBackup = NoBackup
  NoResult = NoResult
  LabelLists <- MCLabelLists
  Filter <- MCFilter
  MaxFilters = 2
  Owned = {k1}
INVARIANTS
  TypeOK
  IndexesInverse
  IndexFollowsKeyspace
  QueriesExact

SPECIFICATION Spec
CONSTANTS
  g1 = g1
  g2 = g2
  t1 = t1
  t2 = t2
  t3 = t3
  Groups <- TwoGroups
  Tasks <- ThreeTasks
  GroupOf <- TwoAndOne
  Scopes <- OneChat
  Blockers = {b1}
  Announced = {1}
  MaxLimit = 2
  MaxHistory = 1
  MaxRetries = 1
SYMMETRY AlbumFiles
INVARIANTS
  TypeOK
  OverridesEarned
  FilesHaveGroup
  NobodyForgotten
PROPERTIES
  StartsAreAllowed

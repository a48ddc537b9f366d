SPECIFICATION MCSpec
CONSTANTS
  a = a
  b = b
  s1 = s1
  s2 = s2
  u = u
  t = t
  j = j
  l1 = l1
  l2 = l2
  Accounts = {a, b}
  Types = {"s3", "webdav"}
  TypeOf <- TwoTypes
  Local = local
  Boot = boot
  Switches = {s1, s2}
  Uploads = {u}
  Tasks = {t}
  Jobs = {j}
  Leases <- TwoLeases
  MaxCrashes = 1
SYMMETRY Twins
INVARIANTS
  TypeOK
  LiveTasksHaveAccount
  WritesHaveAccount
  SettingIsConsistent
  MemoryFollowsSetting
PROPERTIES
  OnlyRetryOrphans

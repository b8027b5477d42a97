\* One call at a time; nobody edits a file between its check and its write, or
\* between its write and its digest, and repairs do not fail.
CONSTANTS
  None = None
  config = config
  plain = plain
  m1 = m1
  m2 = m2
  v1 = v1
  v2 = v2
  v3 = v3
  u1 = u1
  Process = {p1}
  Path <- Paths
  Module <- Modules
  ModuleOf <- ModuleOfPath
  Version <- Versions
  Ships <- Shipped
  Excludes <- Barred
  Config <- Configs
  User <- Edits
  EditsUnderHash = FALSE
  EditsUnderCheck = FALSE
  RepairFails = FALSE
  Operations = {"install", "uninstall", "repair"}
SPECIFICATION FairSpec
INVARIANTS TypeOK OwnedIsRecorded
PROPERTIES UserBytesAreKept ConfigIsTheUsers RetrySettles
CHECK_DEADLOCK FALSE

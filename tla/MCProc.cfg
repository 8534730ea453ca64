SPECIFICATION Spec
CONSTANTS
  MAX_PROCESSES = 4
  Name = {"init", "vfs"}
  INT_MOD = 256
INVARIANTS
  TypeOK
  PidsGivenOnce
  DeadHasCode
PROPERTIES
  IsProcTable

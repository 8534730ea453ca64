SPECIFICATION Spec
CONSTANTS
  MAX_FILES = 2
  MAX_FILE_SIZE = 2
  WORD = 16
  Words = {0, 1, 2, 13, 15}
  MSG_DATA = 1
  Path = {"a", "b", "long"}
  Stored <- MCStored
  Payload = {"x"}
  READDIR_MAX = 1
  RamFiles <- MCRamFiles
CHECK_DEADLOCK FALSE
INVARIANTS
  TypeOK
  NamesUnique
  NothingOld
  ServedInside
PROPERTIES
  IsFileStore

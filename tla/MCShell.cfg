SPECIFICATION Spec
CONSTANTS
  SHELL_MAX_CMD_LEN = 6
  SHELL_MAX_ARGS = 3
  Char = {"h", "e", " "}
  Builtin <- MCBuiltin
INVARIANTS
  TypeOK
  Terminated
  ScreenIsBuffer
PROPERTIES
  IsLineEditor

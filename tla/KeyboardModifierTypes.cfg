SPECIFICATION Spec
CONSTANTS
  KEYBOARD_BUFFER_SIZE = 3
  Keys = {16, 29, 42, 54, 56, 58}
  MAX_DOWN = 2
PROPERTIES
  ModifiersAreSilent

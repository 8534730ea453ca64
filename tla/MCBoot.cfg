SPECIFICATION Spec
CONSTANTS
  ENTRIES = 2
  KERNEL_HEAP_SIZE = 28
  SIZE_MOD = 128
  HeapBases = {8, 9}
  FIRST_PHYS = 4
  MEM_WORDS = 40
  VMA_SIZE = 1
  VPages = {1, 2, 3, 8}
  Frames = {4, 24}
  Sizes = {1, 127}
  VmaEnds = {0, 1, 2, 4}
  MAX_CALLS = 5
  Directories <- MCDirectories
  Elf <- MCElf
  RAM = 4
  BLOCK_SIZE = 1
INVARIANTS
  TypeOK
  RegionsDisjoint
  MapsFound
  LoadedIsBuilt
CHECK_DEADLOCK FALSE

SPECIFICATION Spec
CONSTANTS
  Programs <- SmallPrograms
  Entry = 7
  INPUT_BUFFER_SIZE = 4
  OUTPUT_BUFFER_SIZE = 3
  InflateMemory = 8
  stack_top = 40
  boot_top = 24
  Ram <- Memory
  Allow = {}
INVARIANTS ImageSound
PROPERTIES ProgramStarts
CHECK_DEADLOCK FALSE

CONSTANTS
  Programs <- MCPrograms
  Byte = 36
SPECIFICATION Spec
INVARIANTS TypeOK CallsItsStub RoutineFound
CHECK_DEADLOCK FALSE

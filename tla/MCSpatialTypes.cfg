SPECIFICATION Spec
CONSTANTS
  MaxDisturbances = 2
  MaxUploads = 2
  MaxLines = 2
INVARIANTS
  TypeOK
CHECK_DEADLOCK FALSE

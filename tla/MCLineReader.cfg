SPECIFICATION Spec
CONSTANTS
  CHUNK_SIZE = 2
  MaxBytes = 5
  MaxErrors = 1
INVARIANTS NoByteLost WholeLines
\* The stream ends.
CHECK_DEADLOCK FALSE

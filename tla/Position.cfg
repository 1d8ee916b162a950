\* Two slots and four writes, with atomic_write_dir, late writes and crashes.
CONSTANTS
  Concurrent = 2
  Data = {a, b}
  NoData = NoData
  Atomic = TRUE
  WriteAfterClose = FALSE
  MaxWrites = 4
SPECIFICATION Spec
INVARIANTS OldOrComplete ClosedIsDurable

\* What the expect in write relies on.
CONSTANTS
  Concurrent = 2
  Data = {a}
  NoData = NoData
  NoObject = NoObject
  MaxWrites = 3
  MaxUploads = 1
SPECIFICATION Spec
INVARIANTS PendingWriteExists

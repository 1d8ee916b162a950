\* Two slots and four writes: a third part waits for the first, and the object
\* has up to four parts.
CONSTANTS
  Concurrent = 2
  Data = {a, b}
  NoData = NoData
  NoObject = NoObject
  MaxWrites = 4
  MaxUploads = 2
SPECIFICATION FairSpec
INVARIANTS
  ClosedObjectIsComplete
  SentPartsAgree
  NoPartMismatch
  NothingOutlivesWriter
PROPERTIES
  ImplementsAtomicObject
  EveryCallReturns

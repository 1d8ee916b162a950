\* A chunk of two under a service that asks for three to four bytes: buffers
\* that fit, fill a chunk, span two, and end on a boundary.
CONSTANTS
  NoSize = NoSize
  Chunk = 2
  MinSize = 3
  MaxSize = 4
  Lengths = {0, 1, 2, 5}
  MaxBytes = 9
SPECIFICATION Spec
INVARIANTS BytesKeptInOrder ChunksHaveTheSize
PROPERTIES WritesReturn

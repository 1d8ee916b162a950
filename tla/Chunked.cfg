\* Four chunks, the last one short, up to three of them read at a time; three
\* requests or tasks fail.
CONSTANTS
  NoSize = NoSize
  Chunk = 2
  Total = 7
  Concurrent = 3
  MaxFailures = 3
SPECIFICATION Spec
INVARIANT StreamIsExact

\* The writers, readers and listers, and what callers share: MCComponents gives
\* the constants of each part.
CONSTANTS
  NoSize = NoSize
  NoData = NoData
  NoObject = NoObject
  NoFile = NoFile
  Old = Old
  Empty = Empty
  Missing = Missing
  a = a
  b = b
  w1 = w1
  w2 = w2
  k1 = k1
  k2 = k2
  t1 = t1
  t2 = t2
  u1 = u1
  u2 = u2
  u3 = u3
  u4 = u4
  Unused = Unused
SPECIFICATION Spec
INVARIANTS
  WritesAreExact
  ReadsAreExact
  ListsExactly
  ReadsWhatWasStored
PROPERTIES
  VisibleStepsAreWhole
  AnswersAreTrue
  CallsReturn

\* Three keys, one of them with a version, and batches of three, so that a
\* batch can fail in part, twice; with and without a sink around the deleter.
CONSTANTS
  Key = {p1, p2, p3}
  Versioned = {p1}
  Version = {v1}
  None = None
  MaxSize = 3
  Word = 8
SPECIFICATION FairUserSpec
INVARIANTS WithinLimit NothingForgotten FedIsNotForgotten
PROPERTIES CloseDeletesAll SecondCloseDeletesAll CloseReturnsIfCountAgrees

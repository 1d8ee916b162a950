\* Whether close always comes to an end, when no version is deleted.
CONSTANTS
  Key = {p1, p2}
  Versioned = {}
  Version = {}
  None = None
  MaxSize = 2
  Word = 8
SPECIFICATION FairSpec
PROPERTIES CloseReturns

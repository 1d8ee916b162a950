\* Three bytes; a range with an end, the rest, and one that reaches behind the
\* end.  Three failures and one delay: the retries of a call can be used up.
CONSTANTS
  NoSize = NoSize
  MaxTimes = 1
  N = 3
  Width = 3
  Offsets = {0, 1, 3}
  Sizes = {0, 2, 3, NoSize}
  EmptyRange = "empty"
  MaxFailures = 3
SPECIFICATION Spec
INVARIANTS ReadsExactly LostOnlyByDrop EveryCallGetsItsRetries
PROPERTIES CallsReturn

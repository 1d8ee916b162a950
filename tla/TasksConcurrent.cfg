\* Three slots, so that a fourth submission waits for the front task.
CONSTANTS
  Concurrent = 3
  Input = {a, b}
  MaxSubmits = 5
SPECIFICATION FairSpec
INVARIANT FifoWithinLimit
PROPERTIES ErrorIsFinal ImplementsQueue EveryCallReturns

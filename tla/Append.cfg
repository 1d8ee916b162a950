\* Two writers, three buffers each, and two answers lost, over the six services.
CONSTANTS
  Writers = {w1, w2}
  Services = {"oss", "cos", "obs", "azblob", "azdls", "webhdfs"}
  Missing = Missing
  MaxBuffers = 3
  MaxLost = 2
SPECIFICATION Spec
INVARIANTS AckedOnceInOrder
PROPERTIES NothingIsTakenAway
CHECK_DEADLOCK FALSE

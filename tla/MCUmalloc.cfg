SPECIFICATION HeapLiveSpec
CONSTANTS
  LIMIT = 14
  CORE = 4
  HeaderSize = 2
  Requests = {1, 4}
  NONE = NONE
INVARIANT Tiled
PROPERTIES Returns

SPECIFICATION Spec
CONSTANTS
  Sources = {"l1", "l2"}
  Quotes <- MCQuotes
  Deltas <- MCDeltas
  MaxDepth = 2
  MinPrice = 1
  MaxPrice = 3
  MaxSpread = 1
  MaxSize = 2
  Elapses = {0, 2}
  MaxUpdates = 2
  MaxDuration = 1
INVARIANT RebaseMeansDiverged

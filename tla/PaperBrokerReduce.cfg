SPECIFICATION Spec
CONSTANTS
  Hedging = {FALSE}
  Refs <- MCRefs
  Requests <- Reducers
  Amends <- MCAmends
  Quotes <- MCQuotes
  Slips = {2}
  MaxLive = 2
  MaxTickets = 2
  Placement = 2
  InitialBalance = 50
  MarginRateBp = 5000
  StopOutBp = 5000
  Commission = 1
  SeenSlots = 3
  SeenProbe = 3
  Home <- MCHome
  Clients = {"strategies"}
  SimIds <- MCSimIds
  OrderEvery = 2
  OrderVolume = 2
  SimQuotes = 7
  MaxSubmits = 3
  MaxReplaces = 1
  MaxQuotes = 4
INVARIANTS ReduceOnlyNeverOpens
CHECK_DEADLOCK FALSE

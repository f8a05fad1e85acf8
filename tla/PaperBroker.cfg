SPECIFICATION Spec
CONSTANTS
  Hedging = {TRUE, FALSE}
  Refs <- MCRefs
  Requests <- MCRequests
  Amends <- MCAmends
  Quotes <- MCQuotes
  Slips = {2}
  MaxLive = 2
  MaxTickets = 2
  Placement = 2
  InitialBalance = 50
  MarginRateBp = 5000
  StopOutBp = 5000
  Commission = 1
  SeenSlots = 3
  SeenProbe = 3
  Home <- MCHome
  Clients = {"strategies", "sim_replay"}
  SimIds <- MCSimIds
  OrderEvery = 2
  OrderVolume = 2
  SimQuotes = 7
  MaxSubmits = 3
  MaxReplaces = 1
  MaxQuotes = 4
INVARIANTS FilledExactly PositionConserved MoneyConserved
CHECK_DEADLOCK FALSE

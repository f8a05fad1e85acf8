SPECIFICATION Spec
CONSTANTS
  Refs <- MCRefs
  ShardOf <- MCShardOf
  Capacity = 1
  Callers <- MCCallers
  Requests <- MCRequests
  Producers = 2
  ThreadOf <- MCThreadOf
  Async <- MCAsync
  Plans <- MCPlans
  QueueCapacity = 2
  LogCapacity = 5
INVARIANTS LogFaithful HaltFinal
PROPERTIES ImplementsCalls PublishedAnswered
CHECK_DEADLOCK FALSE

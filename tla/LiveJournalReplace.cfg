SPECIFICATION JournalSpec
CONSTANTS
  r1 = r1
  r2 = r2
  Refs = {r1, r2}
  Capacity = 2
  Volumes = {1, 2}
  Shards = 2
  ShardOf <- MCShardOf
  MaxRecords = 8
  OutboxCapacity = 1
  MaxOps <- MCMaxOps
  MaxLosses = 1
INVARIANT JournalAlwaysValid
CHECK_DEADLOCK FALSE

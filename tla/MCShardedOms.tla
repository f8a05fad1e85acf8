---------------------------- MODULE MCShardedOms ----------------------------
(***************************************************************************)
(* Two producer threads and two shards of one order each.  The first thread *)
(* also uses try_enqueue_create, the references a and b share a shard.     *)
(***************************************************************************)
EXTENDS ShardedOms

MCRefs == {"a", "b", "c"}
MCShardOf == [r \in MCRefs |-> IF r = "c" THEN 2 ELSE 1]
MCCallers == {"async", "async2", "sync", "other"}
MCThreadOf == [c \in MCCallers |-> IF c = "other" THEN 2 ELSE 1]
MCAsync == {"async", "async2"}

Ask(k, r, v) == [kind |-> k, ref |-> r, volume |-> v]
Create(r, v) == Ask("create", r, v)
Restore(r, t, v, f) == [kind |-> "restore", ref |-> r, target |-> t, volume |-> v, filled |-> f]
To(r, t) == [kind |-> "transition", ref |-> r, target |-> t]
Plan(async, async2, sync, other, events) ==
  [script |-> [c \in MCCallers |-> CASE c = "async" -> async [] c = "async2" -> async2 [] c = "sync" -> sync [] OTHER -> other],
   events |-> events]

\* One order: two threads race over its fills, its replacement and its end.
Race == Plan(<<>>, <<>>, <<Create("a", 2), To("a", "sent"), Ask("fill", "a", 1)>>,
             <<To("a", "acknowledged"), Ask("fill", "a", 2)>>, {"halt"})
Resize == Plan(<<>>, <<>>, <<Create("a", 2), Ask("replace", "a", 1)>>, <<Ask("fill", "a", 1), To("a", "rejected"), Ask("find", "a", 0)>>, {})
\* A restored order is filled up, in one go or in two; the second fill may use the completion again.
Again == Plan(<<>>, <<>>, <<Restore("a", "acknowledged", 2, 0), Ask("fill", "a", 2)>>,
              <<Ask("fill", "a", 1), Ask("fill", "a", 1)>>, {})
\* The ring of the first thread fills up behind a paused worker.
Saturated == Plan(<<Create("a", 2)>>, <<Create("b", 1)>>, <<Ask("find", "a", 0)>>, <<>>, {"pause"})
\* Both shards at work, a restored order and a snapshot.
Across == Plan(<<Create("c", 1)>>, <<>>, <<Restore("a", "cancel_pending", 2, 1)>>, <<Ask("snapshot", "a", 0), Create("b", 1)>>, {})
\* The kill switch trips, the owner goes away while requests are queued.
Halting == Plan(<<Create("c", 1)>>, <<>>, <<Create("a", 1)>>, <<>>, {"halt", "pause"})
Stopping == Plan(<<Create("b", 1)>>, <<>>, <<Create("a", 1)>>, <<Ask("find", "c", 0)>>, {"stop"})

MCPlans == {Race, Resize, Again, Saturated, Across, Halting, Stopping}
MCRequests == UNION {UNION {{p.script[c][i] : i \in DOMAIN p.script[c]} : c \in MCCallers} : p \in MCPlans}
=============================================================================

--------------------------- MODULE MCLiveJournal ---------------------------
(* Two orders, each on a shard of its own. *)
EXTENDS LiveJournal

CONSTANTS r1, r2

Pair(m, n) == [r \in {r1, r2} |-> IF r = r1 THEN m ELSE n]

MCShardOf == Pair(1, 2)

\* One order through a whole life (created, sent, acknowledged, filled twice, or cancelled),
\* or two orders whose records interleave.
MCMaxOps == {Pair(5, 0), Pair(2, 1)}
=============================================================================

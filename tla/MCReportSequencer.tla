------------------------- MODULE MCReportSequencer -------------------------
(* Two orders, a gap pool that both need, a cache of one finished order. *)
EXTENDS ReportSequencer, TLC

CONSTANTS r1, r2

MCRefs == {r1, r2}

\* One order with a long stream, one whose few reports compete for the pool and the cache.
MCMaxReports == r1 :> 3 @@ r2 :> 2
=============================================================================

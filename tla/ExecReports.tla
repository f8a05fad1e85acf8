---------------------------- MODULE ExecReports ----------------------------
(***************************************************************************)
(* What an execution report does to the order it is about: the calls that  *)
(* ReportSequencer::apply_one makes on the book, and whether they succeed. *)
(* The direct operations fill and replace of ShardedOms do the same.       *)
(***************************************************************************)
EXTENDS Oms

Kinds == {"ack", "fill", "cancel_pending", "cancelled", "reject", "replace_ack"}

Replaceable(o, v) == ~is_terminal(o.state) /\ o.state # "unknown" /\ v > o.filled_volume

ReportTarget(k) == CASE k = "ack" -> "acknowledged"
                     [] k = "reject" -> "rejected"
                     [] OTHER -> k

\* The Oms call a report makes succeeds.
Accepts(o, rep) ==
  CASE rep.kind = "fill"        -> FillOk(o, rep.volume)
    [] rep.kind = "replace_ack" -> Replaceable(o, rep.volume)
    [] OTHER                    -> legal(o.state, ReportTarget(rep.kind))

\* The order that call leaves behind; only a refused fill changes it without succeeding.
Result(o, rep) ==
  CASE rep.kind = "fill"     -> AfterFill(o, rep.volume)
    [] rep.kind # "fill" /\ ~Accepts(o, rep)    -> o
    [] rep.kind = "replace_ack" /\ Accepts(o, rep) -> [o EXCEPT !.requested_volume = rep.volume]
    [] OTHER                 -> [o EXCEPT !.state = ReportTarget(rep.kind)]
=============================================================================

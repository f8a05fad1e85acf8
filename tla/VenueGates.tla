----------------------------- MODULE VenueGates -----------------------------
(***************************************************************************)
(* The decisions on the way of a request to a venue, as functions of the   *)
(* state they look at: which strategy is served next, which session lets   *)
(* what through, self-trade prevention, the token buckets, the ledger's    *)
(* sequential effect, and how two sets of open orders are compared.        *)
(***************************************************************************)
EXTENDS Integers, Sequences, FiniteSetsExt

RateLimitKinds == {"order", "cancel", "replace"}

SessionStates == {"open", "closed", "disabled"}

allows_new_exposure(session) == session = "open"

\* "closed" stands for a closed session and for halted trading. Whether it blocks a cancel
\* too is a policy (allow_risk_reducing_during_halt); order entry switched off always does.
allows_risk_reducing(session, policy) ==
  session # "disabled" /\ (policy \/ allows_new_exposure(session))

ConnectionStates == {"connected", "disconnected", "reconciling", "ready"}

connection_allows_new_exposure(conn) == conn \in {"connected", "ready"}
-----------------------------------------------------------------------------
(* Deficit round robin over the strategies 0 .. n - 1. *)

\* The first slot at or after the cursor whose queue is not empty.
Turn(queue, cursor, n) ==
  LET skip == Min({k \in 0 .. n - 1 : queue[(cursor + k) % n] # <<>>})
  IN (cursor + skip) % n

\* What is left of a visit that goes on, or the quantum of one that begins.
VisitBudget(s, cursor, visit, quantum) == IF s = cursor /\ visit > 0 THEN visit ELSE quantum[s]

\* A bug in next: a visit ends only when the queue is empty.
VisitEnds_Drained(rest, budget) == rest = <<>>

VisitEnds(rest, budget) == rest = <<>> \/ budget <= 1
-----------------------------------------------------------------------------
(* Self-trade prevention on one symbol of one venue: the projected net volume, and the *)
(* strategy that moved it last. Opposition between strategies is not allowed.          *)

self_trade_ok(entry, strategy, sign) ==
  entry.net = 0 \/ entry.owner = strategy \/ entry.net * sign > 0

SelfTradeApplied(entry, strategy, signed) == [owner |-> strategy, net |-> entry.net + signed]
-----------------------------------------------------------------------------
(* The ledger as one thread sees it. `res` has the reservation of each order, or NoRes. *)

NoRes == [active |-> FALSE, requested |-> 0, filled |-> 0]
Reservation(v, f) == [active |-> TRUE, requested |-> v, filled |-> f]

Held(l, r) == l.res[r].active

Fits(l, by, limit) == l.open + by <= limit

reserve(l, r, v) == [l EXCEPT !.res[r] = Reservation(v, 0), !.open = @ + v]

release(l, r) ==
  LET rest == l.res[r].requested - l.res[r].filled
  IN IF ~Held(l, r) THEN l
     ELSE [l EXCEPT !.res[r] = NoRes, !.open = IF rest > 0 THEN @ - rest ELSE @]

Noted(l, r, f, sign) ==
  LET delta == f - l.res[r].filled
  IN IF delta <= 0 THEN l
     ELSE [l EXCEPT !.res[r].filled = f, !.open = @ - delta, !.position = @ + sign * delta]

reconcile(l, r, f, gone, sign) ==
  IF ~Held(l, r) THEN l
  ELSE IF gone THEN release(Noted(l, r, f, sign), r)
  ELSE Noted(l, r, f, sign)

\* adjust_replace with a positive or negative delta, and undo_replace_increase.
Resized(l, r, delta) == [l EXCEPT !.res[r].requested = @ + delta, !.open = @ + delta]
-----------------------------------------------------------------------------
(* OrderReconciler::compare: open orders by reference, [state, requested, filled]. *)

\* A bug in compare: the volumes are not looked at.
CompareStatus_StateOnly(local, remote, r) ==
  IF r \notin DOMAIN remote THEN "local_only"
  ELSE IF r \notin DOMAIN local THEN "venue_only"
  ELSE IF local[r].state # remote[r].state THEN "state_mismatch" ELSE "matched"

CompareStatus(local, remote, r) ==
  IF r \notin DOMAIN remote THEN "local_only"
  ELSE IF r \notin DOMAIN local THEN "venue_only"
  ELSE IF local[r].state # remote[r].state THEN "state_mismatch"
  ELSE IF local[r] # remote[r] THEN "volume_mismatch" ELSE "matched"

compare(local, remote) ==
  [r \in DOMAIN local \cup DOMAIN remote |-> CompareStatus(local, remote, r)]

\* ReconciliationOutcome::clean, `bad` standing for illegal and unknown-order reports.
clean(statuses, local, bad) ==
  /\ ~bad
  /\ \A r \in DOMAIN statuses : statuses[r] = "matched"
  /\ \A r \in DOMAIN local : local[r].state # "unknown"
=============================================================================

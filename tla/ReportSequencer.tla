-------------------------- MODULE ReportSequencer --------------------------
(***************************************************************************)
(* Execution reports reaching one shard's book: ReportSequencer with its   *)
(* gap pool and its cache of finished orders, driven by a venue whose      *)
(* reports may be delayed, reordered, repeated or lost and retransmitted.  *)
(*                                                                         *)
(* The sequencer runs on the shard's owner thread. process() is one step,  *)
(* and so is each turn of drain()'s loop; while `draining` names an order  *)
(* no other step of the thread is enabled.                                 *)
(*                                                                         *)
(* The venue numbers the reports of an order 1, 2, ... and never changes   *)
(* one, so a report is named by its order and its number: a held report is *)
(* that pair, and its contents are venue[ref][n].                          *)
(***************************************************************************)
EXTENDS ExecReports, Sequences, FiniteSetsExt

CONSTANTS GapCapacity,    \* gap_pool_capacity
          CacheCapacity,  \* terminal_cache_capacity, at least 1 after the constructor
          MaxReports,     \* bound: how many reports a venue emits for each order
          None            \* an empty pool slot, an empty cache entry, no drain in progress

Held == Refs \X (Nat \ {0})

ASSUME SequencerAssumption == /\ GapCapacity \in Nat
                              /\ CacheCapacity \in Nat \ {0}
                              /\ MaxReports \in [Refs -> Nat]
                              /\ None \notin Refs
                              /\ None \notin Held

VARIABLES slots,     \* GapPool::slots_: a held report or None
          ring,      \* TerminalCache::ring_
          write,     \* TerminalCache::write_
          draining,  \* the order drain() is working for, or None
          venue,     \* what the venue has sent of each order, in its own order
          cancels,   \* orders whose cancellation the client has asked for
          refused,   \* history: orders with a report that came in sequence and was illegal
          finished   \* history: orders a report finished, oldest first

seqVars == <<slots, ring, write, draining>>
history == <<refused, finished>>
envVars == <<venue, cancels, history>>
vars == <<omsVars, seqVars, envVars>>

GapSlots == 1 .. GapCapacity
CacheSlots == 0 .. (CacheCapacity - 1)

\* `cum` and `req` are the venue's own view of the order after the report: the volume
\* executed so far and the volume asked for. The sequencer never reads them.
Report == [kind : Kinds, volume : Nat, cum : Nat, req : Nat]

Init == /\ OmsInit
        /\ slots = [i \in GapSlots |-> None]
        /\ ring = [i \in CacheSlots |-> None]
        /\ write = 0
        /\ draining = None
        /\ venue = [r \in Refs |-> <<>>]
        /\ cancels = {}
        /\ refused = {}
        /\ finished = <<>>
-----------------------------------------------------------------------------
(* The venue and the client. *)

LastReport(r) == venue[r][Len(venue[r])]

\* The venue still works the order: acknowledged, not rejected, cancelled or used up.
Working(r) == /\ venue[r] # <<>>
              /\ LastReport(r).kind \notin {"reject", "cancelled"}
              /\ LastReport(r).cum < LastReport(r).req

Cancelling(r) == \E n \in 1 .. Len(venue[r]) : venue[r][n].kind = "cancel_pending"

VenueSays(r, k, v, c, q) ==
  /\ Len(venue[r]) < MaxReports[r]
  /\ venue' = [venue EXCEPT ![r] = Append(@, [kind |-> k, volume |-> v, cum |-> c, req |-> q])]
  /\ UNCHANGED <<omsVars, seqVars, cancels, history>>

VenueAnswers(r, k) ==
  /\ venue[r] = <<>>
  /\ r \in live
  /\ order[r].state = "sent"
  /\ VenueSays(r, k, 0, 0, order[r].requested_volume)

\* A venue goes on executing while it cancels.
VenueFills(r, v) ==
  /\ Working(r)
  /\ LastReport(r).cum + v <= LastReport(r).req
  /\ VenueSays(r, "fill", v, LastReport(r).cum + v, LastReport(r).req)

VenueReplaces(r, v) ==
  /\ Working(r)
  /\ ~Cancelling(r)
  /\ v > LastReport(r).cum
  /\ VenueSays(r, "replace_ack", v, LastReport(r).cum, v)

\* A cancellation is confirmed in two reports, or in one when the client asked for it.
VenueCancels(r, k) ==
  /\ Working(r)
  /\ k = "cancelled" => Cancelling(r) \/ r \in cancels
  /\ k = "cancel_pending" => ~Cancelling(r)
  /\ VenueSays(r, k, 0, LastReport(r).cum, LastReport(r).req)

ClientCreates(r, v) ==
  /\ draining = None
  /\ venue[r] = <<>>            \* a reference is globally unique: never used again
  /\ create(r, v)
  /\ UNCHANGED <<seqVars, envVars>>

ClientSends(r) ==
  /\ draining = None
  /\ transition(r, "sent")
  /\ UNCHANGED <<seqVars, envVars>>

\* VenueConnection::route_cancel moves the order itself, without waiting for a report.
ClientCancels(r) ==
  /\ draining = None
  /\ transition(r, "cancel_pending")
  /\ cancels' = cancels \cup {r}
  /\ UNCHANGED <<seqVars, venue, history>>
-----------------------------------------------------------------------------
(* apply_one *)

Stamp(o, n) == [o EXCEPT !.last_applied_seq = n]

\* A bug in the cache: once it is full it keeps what it has.
record_WhileRoom(r) ==
  /\ ring' = IF write < CacheCapacity THEN [ring EXCEPT ![write] = r] ELSE ring
  /\ write' = write + 1

record(r) == /\ ring' = [ring EXCEPT ![write % CacheCapacity] = r]
             /\ write' = write + 1

apply_one(r, n) ==
  LET o == order[r]
      rep == venue[r][n]
      after == Result(o, rep)
  IN \/ /\ Accepts(o, rep)
        /\ Settle(r, Stamp(after, n))
        /\ IF is_terminal(after.state)
           THEN record(r) /\ finished' = Append(finished, r)
           ELSE UNCHANGED <<ring, write, finished>>
        /\ UNCHANGED refused
     \/ /\ ~Accepts(o, rep)
        /\ Settle(r, after)
        /\ refused' = refused \cup {r}
        /\ UNCHANGED <<ring, write, finished>>
-----------------------------------------------------------------------------
(* process *)

contains(r) == \E i \in CacheSlots : i < write /\ ring[i] = r

FreeSlot(i) == slots[i] = None /\ \A j \in 1 .. i - 1 : slots[j] # None

PoolFull == \A i \in GapSlots : slots[i] # None

\* A bug in the guard: `<` for `<=` lets the last applied report in again.
IsDuplicate_Strict(r, n) == n < order[r].last_applied_seq

\* A bug in the guard: the report that is next counts as applied already.
IsDuplicate_Next(r, n) == n <= order[r].last_applied_seq + 1

IsDuplicate(r, n) == n <= order[r].last_applied_seq

\* What process() returns for report n of order r.
Outcome(r, n) ==
  CASE r \notin live /\ contains(r)         -> "terminal_late"
    [] r \notin live /\ ~contains(r)        -> "unknown_order"
    [] r \in live /\ IsDuplicate(r, n)      -> "duplicate"
    [] r \in live /\ ~IsDuplicate(r, n) /\ n > order[r].last_applied_seq + 1
                                            -> IF PoolFull THEN "gap_pool_exhausted"
                                               ELSE "held_for_gap"
    [] OTHER -> IF Accepts(order[r], venue[r][n]) THEN "applied" ELSE "illegal"

\* A report that is dropped: it changes nothing.
Drop(r, n) ==
  /\ Outcome(r, n) \in {"terminal_late", "unknown_order", "duplicate", "gap_pool_exhausted"}
  /\ UNCHANGED vars

hold(r, n) ==
  /\ Outcome(r, n) = "held_for_gap"
  /\ \E i \in GapSlots : FreeSlot(i) /\ slots' = [slots EXCEPT ![i] = <<r, n>>]
  /\ UNCHANGED <<omsVars, ring, write, draining, envVars>>

\* A bug in the O(1) fast path: drain is skipped while the pool has room left.
NeedsDrain_WhenFull == PoolFull

\* drain's fast path returns at once when nothing is held.
NeedsDrain == \E i \in GapSlots : slots[i] # None

ApplyInSequence(r, n) ==
  /\ Outcome(r, n) \in {"applied", "illegal"}
  /\ apply_one(r, n)
  /\ draining' = IF Outcome(r, n) = "applied" /\ NeedsDrain THEN r ELSE None
  /\ UNCHANGED <<slots, venue, cancels>>

process(r, n) == /\ draining = None
                 /\ n \in 1 .. Len(venue[r])
                 /\ Drop(r, n) \/ hold(r, n) \/ ApplyInSequence(r, n)
-----------------------------------------------------------------------------
(* drain, one turn of its loop per step *)

\* What take() looks for, and the slot it finds it in: the first that holds it.
NextReport == <<draining, order[draining].last_applied_seq + 1>>

Takes(i) == slots[i] = NextReport /\ \A j \in 1 .. i - 1 : slots[j] # NextReport

discard_all_for(r) ==
  slots' = [i \in GapSlots |-> IF slots[i] # None /\ slots[i][1] = r THEN None ELSE slots[i]]

DrainGone ==
  /\ draining \in Refs \ live
  /\ discard_all_for(draining)
  /\ draining' = None
  /\ UNCHANGED <<omsVars, ring, write, envVars>>

DrainNext ==
  /\ draining \in live
  /\ \E i \in GapSlots :
       LET n == NextReport[2]
       IN /\ Takes(i)
          /\ slots' = [slots EXCEPT ![i] = None]
          /\ draining' = IF Accepts(order[draining], venue[draining][n]) THEN draining
                         ELSE None
          /\ apply_one(draining, n)
  /\ UNCHANGED <<venue, cancels>>

DrainDone ==
  /\ draining \in live
  /\ \A i \in GapSlots : slots[i] # NextReport
  /\ draining' = None
  /\ UNCHANGED <<omsVars, slots, ring, write, envVars>>

drain == DrainGone \/ DrainNext \/ DrainDone
-----------------------------------------------------------------------------
Environment(r) ==
  \/ \E v \in Volumes : ClientCreates(r, v) \/ VenueFills(r, v) \/ VenueReplaces(r, v)
  \/ \E k \in {"ack", "reject"} : VenueAnswers(r, k)
  \/ \E k \in {"cancel_pending", "cancelled"} : VenueCancels(r, k)
  \/ ClientSends(r)
  \/ ClientCancels(r)

Next == \/ \E r \in Refs : Environment(r) \/ \E n \in 1 .. MaxReports[r] : process(r, n)
        \/ drain

Spec == Init /\ [][Next]_vars

\* The owner thread runs, and a venue replays its log after a reconnect, so the report an
\* order waits for is delivered in the end. Nobody has to send, cancel or execute.
FairSpec == /\ Spec
            /\ WF_vars(drain)
            /\ \A r \in Refs : WF_vars(process(r, order[r].last_applied_seq + 1))
-----------------------------------------------------------------------------
TypeOK ==
  /\ OmsTypeOK
  /\ slots \in [GapSlots -> Held \cup {None}]
  /\ ring \in [CacheSlots -> Refs \cup {None}]
  /\ write \in Nat
  /\ draining \in Refs \cup {None}
  /\ venue \in [Refs -> Seq(Report)]
  /\ cancels \subseteq Refs
  /\ refused \subseteq Refs
  /\ finished \in Seq(Refs)

\* Exactly once, in the venue's order: until a report of it is refused, a live order has
\* the volume the venue had executed, and the size it had, after report last_applied_seq
\* - whatever was duplicated, reordered, held back or retransmitted on the way.
ExactlyOnce ==
  \A r \in live \ refused :
    LET n == order[r].last_applied_seq
    IN IF n = 0 THEN order[r].filled_volume = 0
       ELSE /\ n <= Len(venue[r])
            /\ order[r].filled_volume = venue[r][n].cum
            /\ order[r].requested_volume = venue[r][n].req

\* The gap pool never keeps a report that is the next one of its order: drain()'s cascade
\* takes everything that fits once a gap closes.
NoReadyReportStranded ==
  draining = None => \A r \in live \ refused, i \in GapSlots :
                       slots[i] # <<r, order[r].last_applied_seq + 1>>

\* No held report outlives its order, so a pool slot is lost for an order's life at most
\* (copies of a report that was held twice stay until then).
HeldOnlyForLive ==
  draining = None => \A i \in GapSlots : slots[i] # None => slots[i][1] \in live

\* The cache tells a late report from an orphan: it holds exactly the last CacheCapacity
\* orders that reports finished, so their reports are terminal_late and all others for
\* orders out of the book are unknown_order.
LateReportsRecognised ==
  LET recent == {finished[k] : k \in {i \in DOMAIN finished : i + CacheCapacity > Len(finished)}}
  IN \A r \in Refs \ live : \A n \in 1 .. MaxReports[r] :
       Outcome(r, n) = IF r \in recent THEN "terminal_late" ELSE "unknown_order"

\* reserved_exposure() is what the live orders ask for, as long as no order is replaced:
\* reservations are taken and given back on requested_volume.
ReservedIsLiveVolume ==
  (\A r \in Refs : \A n \in 1 .. MaxReports[r] :
     n \in DOMAIN venue[r] => venue[r][n].kind # "replace_ack")
    => reserved = SumFunctionOnSet([r \in Refs |-> order[r].requested_volume], live)

\* What the venue executed is an upper bound of what the book says was filled.
FilledNeverExceedsVenue ==
  \A r \in live : order[r].filled_volume <= IF venue[r] = <<>> THEN 0 ELSE LastReport(r).cum

\* Every report the venue emitted of a live order is applied in the end, unless one is
\* refused or the order finishes: a full pool and lost reports only delay it.
CatchesUp ==
  \A r \in Refs :
    (r \in live /\ order[r].last_applied_seq < Len(venue[r]))
      ~> (r \notin live \/ r \in refused \/ order[r].last_applied_seq = Len(venue[r]))
=============================================================================

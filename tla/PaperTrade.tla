----------------------------- MODULE PaperTrade -----------------------------
(***************************************************************************)
(* The paper-trading runtime. In "wal" mode it trades a strategy against   *)
(* the simulated broker on recorded quotes; in "replay" mode the replay    *)
(* engine does so, with fewer precautions. In "bridge" mode the simulated  *)
(* broker still moves the strategy, and every order is also sent to MT5    *)
(* through a command file that a script (the EA) polls; the script answers *)
(* through an acknowledgement file. The runtime, the script and the broker *)
(* behind it interleave freely; each may stop, be slow, refuse or lose an  *)
(* answer.                                                                 *)
(*                                                                         *)
(* The runtime is one thread and shares nothing but the files, so a pass   *)
(* of its loop is one step, written as a chain of operators on the record  *)
(* rt of its state (the command file it alone writes included). The script *)
(* is busy while the broker works on its order: that takes two steps.      *)
(***************************************************************************)
EXTENDS Strategy, Integers

CONSTANTS Setups,       \* the pairs <<mode, strategy kind>> that are run
          MaxRearms,    \* --max-rearms
          MaxConsec,    \* InpMaxConsecRejects of the script
          Faults        \* in each mode, how often each kind of fault, and an entry, may happen

Modes == {"wal", "replay", "bridge"}
FaultKinds == {"entry",     \* entries the strategy raises
               "restart",   \* the runtime stops and is started again
               "slow",      \* a command is answered too late
               "lost",      \* an answer cannot be written
               "refusal",   \* the broker refuses an order
               "stop",      \* the broker's own stop closes the position
               "kill",      \* the kill file is dropped and removed
               "attach",    \* the script is attached anew
               "freeze",    \* the simulated broker halts itself
               "stale",     \* the recorded feed is silent for 300 s
               "any"}       \* all faults together

ASSUME PaperAssumption == /\ Setups \subseteq Modes \X Kinds
                          /\ \A s \in Setups : s[1] = "bridge" => s[2] = "flip"
                          /\ \A s \in Setups : s[1] = "replay" => s[2] = "baseline"
                          /\ MaxRearms \in Nat /\ MaxConsec \in Nat \ {0}
                          /\ Faults \in [Modes -> [FaultKinds -> Nat]]

VARIABLES setup,  \* <<mode, kind>>, from the command line
          up,     \* the runtime is running
          rt,     \* its state
          ea,     \* the state of the script
          mt5,    \* the side of the position that MT5 really holds
          ack,    \* mme_ack.txt
          acted,  \* history: the highest command number the script has sent to the broker
          left    \* how many faults of each kind may still happen

vars == <<setup, up, rt, ea, mt5, ack, acted, left>>

mode == setup[1]
kind == setup[2]
Spend(f) == /\ left[f] > 0 /\ left["any"] > 0
            /\ left' = [left EXCEPT ![f] = @ - 1, !["any"] = @ - 1]

Nothing == [seq |-> -1, action |-> "none"]
Command(n, action) == [seq |-> n, action |-> action]
Actions == {"buy", "sell", "CLOSE"}
Statuses == {"FILLED", "CLOSED", "CLOSE_NOOP", "SKIP_MAX_POSITION", "REJECT"}

\* Two fields are history: no answer has told this process yet what MT5 holds (unsynced); it
\* could not write its first CLOSE over a command of an earlier process (blind).
BridgeState == [in_flight |-> FALSE, pending_seq |-> 0, side |-> "buy", action |-> "none",
                position |-> "none", unsynced |-> TRUE, blind |-> FALSE]
NoOrder == [leg |-> "none", side |-> "none", status |-> "none"]

\* paper counts the simulated broker's open tickets (it hedges); cmd is mme_cmd.txt.
Runtime == [strat |-> Fresh, working |-> NoOrder, paper |-> [s \in Sides |-> 0], frozen |-> FALSE,
            bridge |-> BridgeState, seq |-> 0, rearms |-> 0, stale |-> FALSE, cmd |-> Nothing]

Init == /\ setup \in Setups
        /\ up = FALSE
        /\ rt = Runtime
        /\ ea = [last |-> -1, armed |-> TRUE, rejects |-> 0, backoff |-> FALSE,
                 busy |-> Nothing, kill |-> FALSE]
        /\ mt5 = "none"
        /\ ack = [seq |-> -1, status |-> "none"]
        /\ acted = -1
        /\ left = Faults[mode]
-----------------------------------------------------------------------------
(* The bridge. *)

Send(r, action, writable) ==
  IF writable
  THEN [r EXCEPT !.seq = @ + 1,
                 !.cmd = Command(r.seq + 1, action),
                 !.bridge.in_flight = TRUE,
                 !.bridge.pending_seq = r.seq + 1,
                 !.bridge.side = IF action = "CLOSE" THEN @ ELSE action,
                 !.bridge.action = action]
  ELSE r

\* The exit of a position sends CLOSE but notes the side of the exit.
SendExit(r, side, writable) ==
  IF writable THEN [Send(r, "CLOSE", TRUE) EXCEPT !.bridge.side = side] ELSE r

\* The answer decides what the runtime believes MT5 to hold.
BridgeAnswer(r) ==
  LET b == r.bridge
      position ==
        CASE ack.status = "FILLED" -> b.side
          [] ack.status \in {"CLOSED", "CLOSE_NOOP"} -> "none"
          [] ack.status = "SKIP_MAX_POSITION" ->
               IF b.position = "none" THEN Opposite(b.side) ELSE b.position
          [] OTHER -> b.position
  IN  [r EXCEPT !.bridge.in_flight = FALSE,
                !.bridge.position  = position,
                !.bridge.unsynced  = @ /\ ack.status = "REJECT"]

\* Mutant: an answer to an earlier command is taken for the answer.
bridge_poll_ack_Stale(r) ==
  IF ~r.bridge.in_flight \/ ack.status = "none" THEN r ELSE BridgeAnswer(r)

bridge_poll_ack(r) ==
  IF ~r.bridge.in_flight \/ ack.status = "none" \/ ack.seq < r.bridge.pending_seq  \* stale
  THEN r
  ELSE BridgeAnswer(r)

\* Mutant: a command is sent again under its old number.
bridge_retry_SameSeq(r, expired, writable) ==
  IF r.bridge.in_flight /\ expired /\ writable
  THEN [r EXCEPT !.cmd = Command(r.seq, r.bridge.action)] ELSE r

bridge_retry_if_timed_out(r, expired, writable) ==
  IF r.bridge.in_flight /\ expired /\ writable
  THEN [r EXCEPT !.seq = @ + 1, !.cmd = Command(r.seq + 1, r.bridge.action),
                 !.bridge.pending_seq = r.seq + 1]
  ELSE r

\* The script will not look at the command: it has seen a higher number already.
Ignored(r) == r.cmd.seq <= ea.last /\ ea.busy = Nothing
-----------------------------------------------------------------------------
(* The simulated broker, as the runtime sees it. *)

\* What may become of the working order at a quote: a fill is worth a profit or a loss.
Outcomes == IF rt.working.status = "live" /\ ~rt.frozen
            THEN {"live", "refused", "won", "lost"} ELSE {"live"}

\* An exit reduces an opposite ticket.
Filled(paper, w) ==
  IF w.leg = "entry" THEN [paper EXCEPT ![w.side] = @ + 1]
  ELSE [paper EXCEPT ![Opposite(w.side)] = IF @ > 0 THEN @ - 1 ELSE 0]

on_quote(r, outcome) ==
  IF r.working.status # "live" \/ outcome = "live" THEN r
  ELSE [r EXCEPT !.working.status = outcome,
                 !.paper = IF outcome = "refused" THEN @ ELSE Filled(@, r.working)]

settle(r) ==
  LET w == r.working
      s == CASE w.leg = "entry" /\ w.status = "refused" -> on_entry_rejected(r.strat)
             [] w.leg = "exit"  /\ w.status = "refused" -> on_exit_rejected(r.strat)
             [] w.leg = "entry" /\ w.status # "refused" -> on_entry_filled(r.strat, w.side)
             [] w.leg = "exit"  /\ w.status # "refused" ->
                  on_exit_filled(kind, r.strat, w.status = "lost")
  IN  IF w.status \in {"won", "lost", "refused"}
      THEN [r EXCEPT !.strat = s, !.working = NoOrder]
      ELSE r

Working(r) == r.working.leg # "none"

\* Mutant: only a refused entry is reported.
rejected_EntryOnly(r, intent) ==
  [r EXCEPT !.strat = IF intent.kind = "enter" THEN on_entry_rejected(@) ELSE @]

rejected(r, intent) ==
  [r EXCEPT !.strat = IF intent.kind = "enter" THEN on_entry_rejected(@) ELSE on_exit_rejected(@)]

\* risk::RiskEngine::check: reduce_only must reduce what the bridge says is open.
net_volume(b) == CASE b.position = "buy" -> 1 [] b.position = "sell" -> -1 [] OTHER -> 0
reduce_only_ok(net, side) == ~((net >= 0 /\ side = "buy") \/ (net <= 0 /\ side = "sell"))
RiskCheck(r, intent, others) ==
  others /\ (mode = "bridge" /\ intent.kind = "exit"
               => reduce_only_ok(net_volume(r.bridge), intent.side))

submit_accepts(r, intent, others) ==
  others /\ (intent.kind = "exit" => r.paper[Opposite(intent.side)] > 0)

submitted(r, intent) ==
  [r EXCEPT !.working = [leg    |-> IF intent.kind = "enter" THEN "entry" ELSE "exit",
                         side   |-> intent.side,
                         status |-> "live"]]

MarketDecisions(r) == {on_market(kind, r.strat, o) : o \in Observations(kind)}

\* The bound on entries: a decision to enter is only offered while some are left.
Offered(d) == d.intent.kind = "enter" => left["entry"] > 0
SpendEntry(d) == left' = [left EXCEPT !["entry"] = IF d.intent.kind = "enter" THEN @ - 1 ELSE @]
-----------------------------------------------------------------------------
(* The runtime. *)

\* A start knows neither MT5's position nor the script's counter: it resumes the
\* sequence from the last answer and sends CLOSE first.
StartRuntime ==
  /\ ~up
  /\ up' = TRUE
  /\ mode # "replay"
  /\ \E writable \in BOOLEAN :
       LET fresh == [Runtime EXCEPT !.cmd = rt.cmd, !.seq = IF ack.seq > 0 THEN ack.seq ELSE 0,
                                    !.bridge.blind = ~writable /\ rt.cmd # Nothing]
       IN  rt' = IF mode = "bridge"
                 THEN Send(fresh, "CLOSE", writable)
                 ELSE [Runtime EXCEPT !.cmd = rt.cmd]
  /\ UNCHANGED <<setup, ea, mt5, ack, acted, left>>

\* A signal, a crash, a corrupt segment or a catalog error: nothing in memory survives.
StopRuntime ==
  /\ up /\ Spend("restart")
  /\ up' = FALSE
  /\ rt' = [Runtime EXCEPT !.cmd = rt.cmd]
  /\ UNCHANGED <<setup, ea, mt5, ack, acted>>

\* The quote settles the working order; what follows is for its own symbol in wal mode.
WalQuote(r) ==
  /\ ~Working(r) /\ mode = "wal"
  /\ \E d \in MarketDecisions(r) :
       /\ Offered(d) /\ SpendEntry(d)
       /\ LET s == [r EXCEPT !.strat = d.strat]
          IN  \/ /\ kind # "baseline" /\ d.strat.state = "halted" /\ Flat(d.strat)
                 /\ r.rearms < MaxRearms
                 /\ rt' = [r EXCEPT !.strat = Fresh, !.rearms = @ + 1]
              \/ /\ d.intent.kind = "none"
                 /\ ~(kind # "baseline" /\ d.strat.state = "halted" /\ Flat(d.strat)
                       /\ r.rearms < MaxRearms)
                 /\ rt' = s
              \/ /\ d.intent.kind # "none"
                 /\ \E others, accepts \in BOOLEAN :
                      rt' = IF RiskCheck(s, d.intent, others) /\ submit_accepts(s, d.intent, accepts)
                            THEN submitted(s, d.intent)
                            ELSE rejected(s, d.intent)

WalEvent ==
  /\ up /\ mode # "replay"
  /\ \E outcome \in Outcomes :
       LET r == settle(on_quote(rt, outcome))
       IN  \/ rt' = r /\ UNCHANGED left
           \/ WalQuote(r)
  /\ UNCHANGED <<setup, up, ea, mt5, ack, acted>>

\* StrategyReplayEngine::run: everything is new, nothing outlives the call.
ReplayStart == /\ ~up /\ mode = "replay"
               /\ up' = TRUE
               /\ rt' = Runtime
               /\ UNCHANGED <<setup, ea, mt5, ack, acted, left>>

\* No order of the replay engine is reduce-only: an exit opens a ticket on the other side.
ReplayFilled(paper, w) == [paper EXCEPT ![w.side] = @ + 1]

replay_on_quote(r, outcome) ==
  IF r.working.status # "live" \/ outcome = "live" THEN r
  ELSE [r EXCEPT !.working.status = outcome,
                 !.paper = IF outcome = "refused" THEN @ ELSE ReplayFilled(@, r.working)]

\* The risk engine is not told what is open, so it may only refuse for other reasons.
ReplayDecide(r) ==
  /\ ~Working(r)
  /\ \E d \in MarketDecisions(r) :
       /\ Offered(d) /\ SpendEntry(d)
       /\ LET s == [r EXCEPT !.strat = d.strat]
          IN  \/ d.intent.kind = "none" /\ rt' = s
              \/ /\ d.intent.kind # "none"
                 /\ \E approved, accepted \in BOOLEAN :
                      rt' = IF approved /\ accepted THEN submitted(s, d.intent)
                            ELSE rejected(s, d.intent)

\* A quote of another symbol settles the working order but decides nothing.
ReplayEvent ==
  /\ up /\ mode = "replay"
  /\ \E outcome \in Outcomes :
       LET r == settle(replay_on_quote(rt, outcome))
       IN  \/ rt' = r /\ UNCHANGED left
           \/ ReplayDecide(r)
  /\ UNCHANGED <<setup, up, ea, mt5, ack, acted>>

StaleHalt ==
  /\ up /\ mode # "replay" /\ ~rt.stale /\ Spend("stale")
  /\ rt' = [rt EXCEPT !.stale = TRUE, !.strat = halt(@)]
  /\ UNCHANGED <<setup, up, ea, mt5, ack, acted>>

\* A stop-out, or an impossible fill: the simulated broker processes nothing any more.
Freeze ==
  /\ up /\ ~rt.frozen /\ Spend("freeze")
  /\ rt' = [rt EXCEPT !.frozen = TRUE]
  /\ UNCHANGED <<setup, up, ea, mt5, ack, acted>>

\* The two sides of the position disagree; MT5 is the authority. (A reset of the strategy
\* also counts as a re-arm, but nothing reads that count in bridge mode.)
OneSided(r) == r.bridge.position # "none" /\ Flat(r.strat)
Opposed(r) == r.bridge.position # "none" /\ ~Flat(r.strat) /\ r.bridge.position # r.strat.position
Phantom(r) == r.bridge.position = "none" /\ ~Flat(r.strat)

\* Mutant: only a position of the wrong side is closed.
reconcile_OpposedOnly(r, writable) ==
  IF Opposed(r) THEN Send(r, "CLOSE", writable)
  ELSE IF OneSided(r) THEN r ELSE [r EXCEPT !.strat = Fresh]

reconcile(r, writable) ==
  IF OneSided(r) \/ Opposed(r)
  THEN Send(r, "CLOSE", writable)
  ELSE [r EXCEPT !.strat = Fresh]

Meaningful(r, intent) == (intent.kind = "enter") = (r.bridge.position = "none")

command(r, intent, writable) ==
  IF intent.kind = "enter" THEN Send(r, intent.side, writable) ELSE SendExit(r, intent.side, writable)

\* The decision of a pass: suppressed, refused by risk or broker, or submitted and sent.
Decide(r, writable) ==
  \E d \in MarketDecisions(r) :
    /\ Offered(d) /\ SpendEntry(d)
    /\ LET s == [r EXCEPT !.strat = d.strat]
       IN  \/ d.intent.kind = "none" /\ rt' = s
           \/ /\ d.intent.kind # "none"
              /\ \E others, accepts \in BOOLEAN :
                   rt' = IF /\ Meaningful(s, d.intent)
                            /\ RiskCheck(s, d.intent, others)
                            /\ submit_accepts(s, d.intent, accepts)
                         THEN command(submitted(s, d.intent), d.intent, writable)
                         ELSE rejected(s, d.intent)

\* One pass of the fast path. A command that is still going to be answered only runs
\* into the timeout as often as `slow` allows.
Pass(expired, writable, tick, outcome) ==
  /\ up /\ mode = "bridge"
  /\ LET polled  == bridge_poll_ack(rt)
         retried == bridge_retry_if_timed_out(polled, expired, writable)
         r       == IF tick THEN settle(on_quote(retried, outcome)) ELSE retried
     IN  IF retried # polled
         THEN rt' = r /\ IF Ignored(rt) THEN UNCHANGED left ELSE Spend("slow")
         ELSE IF ~tick \/ Working(r) \/ r.bridge.in_flight
         THEN rt' = r /\ UNCHANGED left
         ELSE IF OneSided(r) \/ Opposed(r) \/ Phantom(r)
         THEN rt' = reconcile(r, writable) /\ UNCHANGED left
         ELSE Decide(r, writable)
  /\ UNCHANGED <<setup, up, ea, mt5, ack, acted>>

FastPass == \E writable, tick \in BOOLEAN, outcome \in Outcomes :
              \E expired \in IF rt.bridge.in_flight THEN BOOLEAN ELSE {FALSE} :
                Pass(expired, writable, tick, outcome)
-----------------------------------------------------------------------------
(* The script, and the broker behind it. *)

\* An answer is lost when the file cannot be opened.
WriteAck(n, status) ==
  \/ ack' = [seq |-> n, status |-> status] /\ UNCHANGED left
  \/ ack' = ack /\ Spend("lost")

RefusedAck(n) == ack' = [seq |-> n, status |-> "REJECT"] /\ Spend("refusal")

\* Mutant: the last command passes for a new one.
Seen_Again == /\ ea.armed /\ ~ea.kill /\ ea.busy = Nothing /\ ~ea.backoff
              /\ rt.cmd # Nothing /\ rt.cmd.seq >= ea.last

\* A command that the script may act on: numbered higher than every one before.
Seen == /\ ea.armed /\ ~ea.kill /\ ea.busy = Nothing /\ ~ea.backoff
        /\ rt.cmd # Nothing /\ rt.cmd.seq > ea.last

MaxOf(m, n) == IF m >= n THEN m ELSE n

OnTimer ==
  /\ Seen
  /\ LET c     == rt.cmd
         taken == [ea EXCEPT !.last = c.seq]
     IN  \/ /\ ea.rejects >= MaxConsec
            /\ ea' = [taken EXCEPT !.armed = FALSE]
            /\ WriteAck(c.seq, "REJECT")
         \/ /\ ea.rejects < MaxConsec /\ c.action = "CLOSE" /\ mt5 = "none"
            /\ ea' = taken
            /\ WriteAck(c.seq, "CLOSE_NOOP")
         \/ /\ ea.rejects < MaxConsec /\ c.action # "CLOSE" /\ mt5 # "none"
            /\ ea' = taken
            /\ WriteAck(c.seq, "SKIP_MAX_POSITION")
         \/ /\ ea.rejects < MaxConsec /\ c.action # "CLOSE" /\ mt5 = "none"
            /\ ea' = taken
            /\ RefusedAck(c.seq)
         \/ /\ ea.rejects < MaxConsec /\ (c.action = "CLOSE") = (mt5 # "none")
            /\ ea' = [taken EXCEPT !.busy = c]
            /\ UNCHANGED <<ack, left>>
  /\ acted' = IF ea'.busy = Nothing THEN acted ELSE MaxOf(acted, ea'.busy.seq)
  /\ UNCHANGED <<setup, up, rt, mt5>>

\* The broker is done with the order; it finds nothing to close when its own stop was first.
CloseOwnPositions(c, done, fail) ==
  /\ c.action = "CLOSE"
  /\ \/ /\ mt5 # "none" /\ mt5' = "none"
        /\ ea' = done /\ WriteAck(c.seq, "CLOSED")
     \/ /\ mt5 = "none" /\ UNCHANGED mt5
        /\ ea' = fail /\ WriteAck(c.seq, "REJECT")

OrderSend ==
  /\ ea.busy # Nothing
  /\ LET c    == ea.busy
         done == [ea EXCEPT !.busy = Nothing, !.rejects = 0, !.backoff = FALSE]
         fail == [ea EXCEPT !.busy = Nothing, !.rejects = @ + 1, !.backoff = TRUE]
     IN  \/ CloseOwnPositions(c, done, fail)
         \/ /\ c.action # "CLOSE"
            /\ mt5' = c.action /\ ea' = done
            /\ WriteAck(c.seq, "FILLED")
         \/ /\ ea' = fail
            /\ RefusedAck(c.seq)
            /\ UNCHANGED mt5
  /\ UNCHANGED <<setup, up, rt, acted>>

BackoffOver == /\ ea.backoff
               /\ ea' = [ea EXCEPT !.backoff = FALSE]
               /\ UNCHANGED <<setup, up, rt, mt5, ack, left, acted>>

\* The position carries a stop and a take-profit at the broker.
BrokerStop == /\ mt5 # "none" /\ Spend("stop")
              /\ mt5' = "none"
              /\ UNCHANGED <<setup, up, rt, ea, ack, acted>>

DropKillFile == /\ mode = "bridge" /\ ~ea.kill /\ ea.busy = Nothing /\ Spend("kill")
                /\ ea' = [ea EXCEPT !.kill = TRUE]
                /\ UNCHANGED <<setup, up, rt, mt5, ack, acted>>

OnTimerKilled == /\ ea.armed /\ ea.kill /\ ea.last # -999
                 /\ ea' = [ea EXCEPT !.last = -999]
                 /\ UNCHANGED <<setup, up, rt, mt5, ack, left, acted>>

RemoveKillFile == /\ ea.kill
                  /\ ea' = [ea EXCEPT !.kill = FALSE]
                  /\ UNCHANGED <<setup, up, rt, mt5, ack, left, acted>>

OnInit == /\ mode = "bridge" /\ ea.busy = Nothing /\ Spend("attach")
          /\ ea' = [ea EXCEPT !.last = -1, !.armed = TRUE, !.rejects = 0, !.backoff = FALSE]
          /\ UNCHANGED <<setup, up, rt, mt5, ack, acted>>
-----------------------------------------------------------------------------
Next == \/ StartRuntime \/ StopRuntime \/ WalEvent \/ StaleHalt \/ Freeze \/ FastPass
        \/ ReplayStart \/ ReplayEvent
        \/ OnTimer \/ OrderSend \/ BackoffOver \/ BrokerStop
        \/ DropKillFile \/ OnTimerKilled \/ RemoveKillFile \/ OnInit

\* The loop keeps running: while a pass has something to do there are, in the end, passes
\* with a published tick and a writable command file, in which a timeout is noticed and the
\* simulated broker settles its order. HasWork is when such a pass changes the state, so the
\* first conjunct is the weak fairness of FairPass, without ENABLED. The script's timer and
\* the broker behind it keep running too.
HasWork == /\ up /\ mode = "bridge"
           /\ \/ bridge_poll_ack(rt) # rt
              \/ bridge_retry_if_timed_out(rt, Ignored(rt), TRUE) # rt
              \/ Working(rt) /\ ~rt.frozen
              \/ ~Working(rt) /\ ~rt.bridge.in_flight /\ (OneSided(rt) \/ Opposed(rt))
                 /\ reconcile(rt, TRUE) # rt
FairPass == /\ HasWork
            /\ \E outcome \in IF Outcomes = {"live"} THEN Outcomes ELSE Outcomes \ {"live"} :
                 Pass(Ignored(rt), TRUE, TRUE, outcome)

Fairness == /\ <>[]HasWork => []<><<FairPass>>_vars
            /\ WF_vars(OnTimer) /\ WF_vars(OrderSend)
            /\ WF_vars(BackoffOver) /\ WF_vars(RemoveKillFile)

Spec == Init /\ [][Next]_vars /\ Fairness
-----------------------------------------------------------------------------
TypeOK == /\ setup \in Setups /\ up \in BOOLEAN
          /\ rt.strat \in StrategyRecords
          /\ rt.working.leg \in {"none", "entry", "exit"}
          /\ rt.bridge.position \in OrNone(Sides) /\ rt.bridge.in_flight \in BOOLEAN
          /\ rt.cmd.action \in OrNone(Actions) /\ rt.seq \in Nat
          /\ mt5 \in OrNone(Sides)
          /\ ack.status \in OrNone(Statuses)
          /\ left \in [FaultKinds -> Nat]

\* A strategy that waits for an answer is owed one: whichever way an intent ends (suppressed,
\* refused by risk, refused by the broker, filled), the strategy is told. A strategy left in
\* entry_pending or exit_pending with no working order would never trade again.
PendingIsOwed ==
  /\ rt.strat.state = "entry_pending" => rt.working.leg = "entry"
  /\ rt.strat.state = "exit_pending"  => rt.working.leg = "exit"

\* In wal mode, while no order is working, the strategy holds exactly what the simulated
\* broker holds for it: one ticket of its side or none. (A stale-feed halt breaks this: a
\* halted strategy ignores the answers to its working order.) In replay mode the tickets pile
\* up, but they still add up to what the strategy holds.
PaperAgrees ==
  (up /\ ~rt.stale /\ ~Working(rt)) =>
    /\ mode = "wal" => \A s \in Sides : rt.paper[s] = IF rt.strat.position = s THEN 1 ELSE 0
    /\ mode = "replay" => rt.paper["buy"] - rt.paper["sell"] = net_volume(rt.strat)

Unspent(f) == left[f] = Faults[mode][f]
Undisturbed == Unspent("kill") /\ Unspent("attach")

\* Once an answer has told the runtime what MT5 holds, it never believes MT5 flat while MT5
\* holds a position: not after timeouts and retries, lost or late answers, restarts, refused
\* orders, nor after answers to an earlier process's commands. (The kill file and a new
\* attachment of the script make it act on an old command again. A process that could not
\* write its first CLOSE leaves an old command where the script will find it.)
ViewSound ==
  (/\ up /\ mode = "bridge" /\ Undisturbed /\ ~rt.bridge.blind
   /\ ~rt.bridge.in_flight /\ ~rt.bridge.unsynced
   /\ rt.bridge.position = "none") => mt5 = "none"

\* The comment on the start: "the first command is always a CLOSE", and after its answer "the
\* two sides begin from a known flat state". So a process that was answered never believes
\* MT5 flat while it holds a position.
KnownFlatStart ==
  (/\ up /\ mode = "bridge" /\ Undisturbed
   /\ ~rt.bridge.in_flight /\ ~rt.bridge.unsynced
   /\ rt.bridge.position = "none") => mt5 = "none"

\* MT5 only opens a position of the side the runtime is waiting for, however often the
\* command was sent again.
OpensOnlyAwaited ==
  [][(/\ mt5 = "none" /\ mt5' # "none"
      /\ Undisturbed /\ Unspent("restart"))
       => rt.bridge.in_flight /\ rt.bridge.action = mt5']_vars

\* Somebody else has to act before the bridge can go on.
Stuck == ~up \/ ~ea.armed \/ rt.frozen

\* Every command is answered in the end, also one that a restarted runtime numbered below
\* what the script has already seen, and one whose answer was lost.
CommandAnswered == rt.bridge.in_flight ~> (~rt.bridge.in_flight \/ Stuck)

\* A position that MT5 holds and the strategy does not is closed: the runtime does not
\* suppress entries as "already open" for ever.
OrphanClosed ==
  (up /\ OneSided(rt)) ~> (rt.bridge.position = "none" \/ ~Flat(rt.strat) \/ Stuck)

\* The script's comment on a sequence number it has seen: "already processed; never re-fire".
\* It acts on a command at most once.
NeverRefired == [][(ea'.busy # Nothing /\ ea.busy = Nothing) => ea'.busy.seq > acted]_vars
=============================================================================

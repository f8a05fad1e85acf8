-------------------------- MODULE PaperTradeProofs --------------------------
(***************************************************************************)
(* For every configuration and any number of faults: a strategy that waits *)
(* is owed an answer, its position is what the simulated broker holds, and *)
(* the bridge never takes MT5 for flat while it holds a position.          *)
(*                                                                         *)
(* The invariant has two halves that do not meet: the strategy with its    *)
(* simulated broker (StrategyInv), and the bridge with the script and MT5  *)
(* (LinkInv). The runtime's operators change either half only.             *)
(***************************************************************************)
EXTENDS PaperTrade, TLAPS

StrategyRecs == [state : States, position : OrNone(Sides), open : Nat, losses : Nat,
                 flip : OrNone(Sides), forced : OrNone(Sides),
                 reason : {"none", "stop", "signal_flip"}]
Ends == {"refused", "won", "lost"}
Orders == [leg : {"none", "entry", "exit"}, side : OrNone(Sides),
           status : {"none", "live"} \cup Ends]
Commands == {Nothing} \cup [seq : Int, action : Actions]
Bridges == {b \in [in_flight : BOOLEAN, pending_seq : Nat, side : Sides, action : OrNone(Actions),
                   position : OrNone(Sides), unsynced : BOOLEAN, blind : BOOLEAN] :
              b.in_flight => b.action \in Actions}
Runtimes == [strat : StrategyRecs, working : Orders, paper : [Sides -> Nat], frozen : BOOLEAN,
             bridge : Bridges, seq : Nat, rearms : Nat, stale : BOOLEAN, cmd : Commands]
Scripts == [last : Int, armed : BOOLEAN, rejects : Nat, backoff : BOOLEAN, busy : Commands,
            kill : BOOLEAN]
Acks == [seq : Int, status : OrNone(Statuses)]

Types == /\ setup \in Setups /\ up \in BOOLEAN
         /\ rt \in Runtimes
         /\ ea \in Scripts
         /\ mt5 \in OrNone(Sides)
         /\ ack \in Acks
         /\ acted \in Int
         /\ left \in [FaultKinds -> Nat]
         /\ \A f \in FaultKinds : left[f] <= Faults[mode][f]
-----------------------------------------------------------------------------
(* The strategy and the simulated broker. *)

\* A state of the strategy goes with a position or with none.
Posed(s) == /\ s.state \in {"in_position", "exit_pending"} => s.position \in Sides
            /\ s.state \notin {"in_position", "exit_pending"} => s.position = "none"

\* The working order is the one the strategy waits for; a stale feed halts a strategy
\* that waits.
Waiting(s, w, stale) ==
  \/ /\ w = NoOrder
     /\ s.state \notin {"entry_pending", "exit_pending"}
  \/ /\ w.status = "live" /\ w.leg = "entry" /\ w.side \in Sides
     /\ s.state = "entry_pending" \/ (stale /\ s.state = "halted")
  \/ /\ w.status = "live" /\ w.leg = "exit" /\ w.side \in Sides
     /\ s.state = "exit_pending" \/ (stale /\ s.state = "halted")
     /\ ~stale => w.side = Opposite(s.position)

\* What the simulated broker holds for a strategy.
Holds(m, s, paper) ==
  /\ m = "wal" => \A x \in Sides : paper[x] = IF s.position = x THEN 1 ELSE 0
  /\ m = "replay" => paper["buy"] - paper["sell"] = net_volume(s)

Sound(m, r) == /\ Waiting(r.strat, r.working, r.stale)
               /\ ~r.stale => Posed(r.strat) /\ Holds(m, r.strat, r.paper)

StrategyInv == Sound(mode, rt)
-----------------------------------------------------------------------------
(* The bridge, the script and MT5, for a state r of the runtime. *)

\* The script answers in order, and is busy with the highest number it has seen. It only
\* opens where nothing is open.
ScriptInv(r) ==
  /\ ~ea.kill
  /\ ack.seq <= ea.last
  /\ ea.busy # Nothing => /\ ea.busy.seq = ea.last /\ ack.seq < ea.last
                          /\ ea.busy.action \in Actions
                          /\ ea.busy.action # "CLOSE" => mt5 = "none"
  /\ r.cmd # Nothing => r.cmd.action \in Actions /\ r.cmd.seq > 0
  /\ r.cmd = Nothing => ea.busy = Nothing /\ ack.seq = -1

\* The command file holds the last command of this process, or nothing at all.
Unsent(r) == r.cmd = Nothing /\ ~r.bridge.in_flight /\ r.seq = 0 /\ r.bridge.unsynced
Current(r) == /\ r.cmd # Nothing
              /\ r.cmd.seq = r.seq /\ r.bridge.pending_seq = r.seq
              /\ r.cmd.action = r.bridge.action

\* What this process knows of MT5 once it was answered, while it believes MT5 flat: with no
\* command under way MT5 is flat. Otherwise the command is an entry, and if that has already
\* filled, the script goes on to say so: it has no reason to refuse a repeated entry.
Idling(r) == ~r.bridge.in_flight => mt5 = "none"
Entering(r) ==
  r.bridge.in_flight =>
    /\ r.bridge.action \in Sides
    /\ ea.busy # Nothing => ea.busy.action = r.bridge.action
    /\ mt5 # "none" => /\ ea.rejects = 0
                       /\ ack.seq >= r.bridge.pending_seq => ack.status \in {"FILLED", "SKIP_MAX_POSITION"}
BelievesFlat(r) == ~r.bridge.unsynced /\ r.bridge.position = "none"

\* An answer that is taken for the answer to the last command comes when the script is
\* through with it, and the script will not look at that command again.
ProcessInv(r) ==
  /\ Unsent(r) \/ Current(r)
  /\ ea.busy # Nothing => r.bridge.in_flight /\ ack.seq < r.bridge.pending_seq
  /\ ~r.bridge.in_flight /\ r.cmd # Nothing => r.bridge.pending_seq <= ea.last
  /\ ack.seq >= r.bridge.pending_seq /\ ack.status \in {"CLOSED", "CLOSE_NOOP"} => mt5 = "none"
  /\ BelievesFlat(r) => Idling(r) /\ Entering(r)

\* The first process finds nothing of an earlier one.
FirstInv(r) == /\ ~up => r.cmd = Nothing
               /\ up => ~r.bridge.blind
               /\ ea.busy # Nothing => up /\ ea.busy.action = r.bridge.action

Linked(r) == /\ mode = "bridge" /\ Undisturbed =>
                  /\ ScriptInv(r)
                  /\ up /\ ~r.bridge.blind => ProcessInv(r)
                  /\ Unspent("restart") => FirstInv(r)
             /\ mode # "bridge" => r.cmd = Nothing /\ ea.busy = Nothing /\ mt5 = "none"

LinkInv == Linked(rt)

TradeInv == Types /\ StrategyInv /\ LinkInv
-----------------------------------------------------------------------------
(* What the strategies do, as far as the invariant tells it apart. *)

Intents == [kind : {"none", "enter", "exit"}, side : OrNone(Sides)]

\* What a decision has to do with the strategy before it.
Decided(s, d) ==
  /\ d.strat \in StrategyRecs /\ d.intent \in Intents
  /\ d.strat.position = s.position
  /\ d.intent.kind = "none" =>
       \/ d.strat.state = s.state
       \/ d.strat.state = "idle" /\ s.state \in {"cold", "cooldown"}
  /\ d.intent.kind = "enter" => /\ d.intent.side \in Sides
                                /\ s.position = "none"
                                /\ d.strat.state = "entry_pending"
  /\ d.intent.kind = "exit" => /\ s.position \in Sides
                               /\ d.intent.side = Opposite(s.position)
                               /\ d.strat.state = "exit_pending"

LEMMA Sided == ASSUME NEW x \in Sides
               PROVE  /\ Opposite(x) \in Sides /\ Opposite(x) # x /\ Opposite(Opposite(x)) = x
                      /\ x # "none"
BY DEF Sides, Opposite

LEMMA Transited ==
  ASSUME NEW s \in StrategyRecs, NEW to \in States
  PROVE  /\ transition(s, to) \in StrategyRecs
         /\ \A f \in {"position", "open", "losses", "flip", "forced", "reason"} :
              transition(s, to)[f] = s[f]
         /\ legal(s.state, to) => transition(s, to).state = to
         /\ ~legal(s.state, to) => transition(s, to) = s
BY DEF transition, StrategyRecs

LEMMA ExitDecided ==
  ASSUME NEW k \in Kinds, NEW s \in StrategyRecs, NEW o \in Observations(k),
         s.state = "in_position", ~Flat(s)
  PROVE  Decided(s, exit_decision(s, o))
<1> DEFINE close == Opposite(s.position)
           noted == [s EXCEPT !.reason = o.due, !.flip = IF o.due = "signal_flip" THEN close ELSE @]
           after == transition(noted, "exit_pending")
<1>1. s.position \in Sides
  BY DEF Flat, StrategyRecs, OrNone
<1>2. o.due \in {"none", "stop", "signal_flip"}
  BY DEF Observations, exit_due
<1>3. close \in Sides
  BY <1>1, Sided
<1>4. CASE o.due = "none"
  BY <1>4, <1>1 DEF exit_decision, Decision, NoIntent, Decided, Intents, OrNone
<1>5. CASE o.due # "none"
  <2>1. noted \in StrategyRecs /\ noted.state = "in_position" /\ noted.position = s.position
    BY <1>2, <1>3, <1>5 DEF StrategyRecs, OrNone
  <2>2. legal("in_position", "exit_pending") /\ "exit_pending" \in States
    BY DEF legal, States
  <2> HIDE DEF noted
  <2>3. after \in StrategyRecs /\ after.position = s.position /\ after.state = "exit_pending"
    BY <2>1, <2>2, Transited
  <2> HIDE DEF after, close
  <2>4. exit_decision(s, o) = [strat |-> after, intent |-> [kind |-> "exit", side |-> close]]
    BY <1>5 DEF exit_decision, Decision, after, noted, close
  <2> QED
    BY <2>3, <2>4, <1>1, <1>3 DEF Decided, Intents, OrNone, close
<1> QED
  BY <1>4, <1>5

LEMMA EntryDecided ==
  ASSUME NEW k \in Kinds, NEW s \in StrategyRecs, NEW o \in Observations(k),
         s.state = "idle", Flat(s), o.entry # "filtered"
  PROVE  Decided(s, entry_decision(s, o))
<1> DEFINE side == IF s.forced # "none" THEN s.forced ELSE o.entry
           spent == [s EXCEPT !.forced = "none"]
           after == transition(spent, "entry_pending")
<1>1. side \in OrNone(Sides)
  BY DEF StrategyRecs, OrNone, Sides, Observations
<1>2. spent \in StrategyRecs /\ spent.state = "idle" /\ spent.position = "none"
  BY DEF StrategyRecs, OrNone, Flat
<1> HIDE DEF spent, side
<1>3. legal("idle", "entry_pending") /\ "entry_pending" \in States
  BY DEF legal, States
<1>4. after \in StrategyRecs /\ after.position = "none" /\ after.state = "entry_pending"
  BY <1>2, <1>3, Transited
<1> HIDE DEF after
<1>5. entry_decision(s, o) =
        IF side = "none" THEN [strat |-> spent, intent |-> NoIntent]
        ELSE [strat |-> after, intent |-> [kind |-> "enter", side |-> side]]
  BY DEF entry_decision, Decision, side, spent, after
<1> QED
  BY <1>1, <1>2, <1>4, <1>5 DEF Decided, NoIntent, Intents, OrNone, Flat

LEMMA MarketDecided ==
  ASSUME NEW k \in Kinds, NEW s \in StrategyRecs, NEW o \in Observations(k)
  PROVE  Decided(s, on_market(k, s, o))
<1>1. Decided(s, Decision(s, NoIntent))
  BY DEF Decided, Decision, NoIntent, Intents, OrNone
<1>2. Decided(s, decide(s, o))
  <2>1. CASE s.state = "in_position" /\ ~Flat(s)
    BY <2>1, ExitDecided DEF decide
  <2>2. CASE ~(s.state = "in_position" /\ ~Flat(s)) /\ s.state = "cooldown" /\ ~o.cooled
    BY <2>2, <1>1 DEF decide
  <2>3. CASE ~(s.state = "in_position" /\ ~Flat(s)) /\ ~(s.state = "cooldown" /\ ~o.cooled)
    <3> DEFINE rested == IF s.state = "cooldown" THEN transition(s, "idle") ELSE s
               ready  == IF rested.state = "cold" /\ o.warm THEN transition(rested, "idle") ELSE rested
    <3>1. legal("cooldown", "idle") /\ legal("cold", "idle") /\ "idle" \in States
      BY DEF legal, States
    <3>2. /\ rested \in StrategyRecs /\ rested.position = s.position
          /\ rested.state = s.state \/ (s.state = "cooldown" /\ rested.state = "idle")
      BY <3>1, Transited
    <3> HIDE DEF rested
    <3>3. /\ ready \in StrategyRecs /\ ready.position = s.position
          /\ ready.state = s.state \/ (s.state \in {"cold", "cooldown"} /\ ready.state = "idle")
      BY <3>1, <3>2, Transited
    <3> HIDE DEF ready
    <3> DEFINE goes == /\ o.warm /\ ready.state = "idle" /\ Flat(ready)
                       /\ ready.open < MaxPositions /\ o.both /\ o.entry # "filtered"
    <3>4. decide(s, o) = IF goes THEN entry_decision(ready, o) ELSE Decision(ready, NoIntent)
      BY <2>3 DEF decide, ready, rested
    <3>5. CASE goes
      <4>1. Decided(ready, entry_decision(ready, o))
        BY <3>5, <3>3, EntryDecided
      <4> DEFINE d == entry_decision(ready, o)
      <4> HIDE DEF d
      <4>2. Decided(ready, d) => Decided(s, d)
        BY <3>3, <3>5 DEF Decided
      <4> QED
        BY <4>1, <4>2, <3>4, <3>5 DEF d
    <3>6. CASE ~goes
      BY <3>6, <3>4, <3>3 DEF Decided, Decision, NoIntent, Intents, OrNone
    <3> QED
      BY <3>5, <3>6
  <2> QED
    BY <2>1, <2>2, <2>3
<1> QED
  BY <1>1, <1>2 DEF on_market, ScalpFlip_on_market, Mt5L1Scalper_on_market,
                    BaselineScalper_on_market, Kinds

LEMMA EntryAnswered ==
  ASSUME NEW s \in StrategyRecs, NEW side \in Sides
  PROVE  /\ on_entry_filled(s, side) \in StrategyRecs /\ on_entry_rejected(s) \in StrategyRecs
         /\ s.state = "entry_pending" =>
              /\ on_entry_filled(s, side).state = "in_position"
              /\ on_entry_filled(s, side).position = side
              /\ on_entry_rejected(s).state = "idle"
              /\ on_entry_rejected(s).position = s.position
         /\ s.state # "entry_pending" => on_entry_filled(s, side) = s /\ on_entry_rejected(s) = s
<1> DEFINE held == [s EXCEPT !.position = side, !.open = @ + 1]
<1>0. s.open + 1 \in Nat /\ side \in OrNone(Sides)
  BY DEF StrategyRecs, OrNone
<1>1. held \in StrategyRecs /\ held.state = s.state /\ held.position = side
  BY <1>0 DEF StrategyRecs
<1> HIDE DEF held
<1>2. /\ legal("entry_pending", "in_position") /\ legal("entry_pending", "idle")
      /\ "in_position" \in States /\ "idle" \in States
  BY DEF legal, States
<1>3. on_entry_filled(s, side) = IF s.state = "entry_pending" THEN transition(held, "in_position") ELSE s
  BY DEF on_entry_filled, held
<1>4. s.state = "entry_pending" =>
        /\ transition(held, "in_position") \in StrategyRecs
        /\ transition(held, "in_position").state = "in_position"
        /\ transition(held, "in_position").position = side
  BY <1>1, <1>2, Transited
<1> QED
  BY <1>2, <1>3, <1>4, Transited DEF on_entry_rejected

LEMMA ExitAnswered ==
  ASSUME NEW k \in Kinds, NEW s \in StrategyRecs, NEW lost \in BOOLEAN
  PROVE  /\ on_exit_filled(k, s, lost) \in StrategyRecs /\ on_exit_rejected(s) \in StrategyRecs
         /\ s.state = "exit_pending" =>
              /\ on_exit_filled(k, s, lost).state \in {"cooldown", "halted"}
              /\ on_exit_filled(k, s, lost).position = "none"
              /\ on_exit_rejected(s).state = "in_position"
              /\ on_exit_rejected(s).position = s.position
         /\ s.state # "exit_pending" => on_exit_filled(k, s, lost) = s /\ on_exit_rejected(s) = s
<1>1. /\ legal("exit_pending", "in_position") /\ legal("exit_pending", "cooldown")
      /\ "in_position" \in States /\ "cooldown" \in States /\ "halted" \in States
  BY DEF legal, States
<1>2. /\ on_exit_rejected(s) \in StrategyRecs
      /\ s.state = "exit_pending" => /\ on_exit_rejected(s).state = "in_position"
                                     /\ on_exit_rejected(s).position = s.position
      /\ s.state # "exit_pending" => on_exit_rejected(s) = s
  BY <1>1, Transited DEF on_exit_rejected
<1>3. ASSUME NEW t \in StrategyRecs, t.state = "exit_pending"
      PROVE  exit_done(t) \in StrategyRecs /\ exit_done(t).state = "cooldown" /\ exit_done(t).position = "none"
  <2> DEFINE fewer == IF t.open > 0 THEN t.open - 1 ELSE 0
             flat == [t EXCEPT !.position = "none", !.open = fewer]
  <2>1. fewer \in Nat /\ "none" \in OrNone(Sides)
    BY DEF StrategyRecs, OrNone
  <2>2. exit_done(t) = transition(flat, "cooldown")
    BY DEF exit_done
  <2> HIDE DEF fewer
  <2>3. flat \in StrategyRecs /\ flat.state = "exit_pending" /\ flat.position = "none"
    BY <1>3, <2>1 DEF StrategyRecs
  <2> HIDE DEF flat
  <2>4. /\ transition(flat, "cooldown") \in StrategyRecs
        /\ transition(flat, "cooldown").position = flat.position
        /\ transition(flat, "cooldown").state = "cooldown"
    BY <2>3, <1>1, Transited
  <2> QED
    BY <2>2, <2>3, <2>4
<1>4. ASSUME NEW t \in StrategyRecs, t.state = "cooldown", t.position = "none"
      PROVE  /\ CountLoss(t, lost) \in StrategyRecs /\ CountLoss(t, lost).state \in {"cooldown", "halted"}
             /\ CountLoss(t, lost).position = "none"
  <2> DEFINE counted == [t EXCEPT !.losses = IF lost THEN @ + 1 ELSE 0]
  <2>1. counted \in StrategyRecs /\ counted.state = "cooldown" /\ counted.position = "none"
    BY <1>4 DEF StrategyRecs
  <2>2. halt(counted) \in StrategyRecs /\ halt(counted).state = "halted" /\ halt(counted).position = "none"
    BY <2>1, <1>1 DEF halt, StrategyRecs
  <2>3. CountLoss(t, lost) = IF counted.losses >= MaxLosses THEN halt(counted) ELSE counted
    BY DEF CountLoss
  <2> QED
    BY <2>1, <2>2, <2>3
<1>5. CASE s.state # "exit_pending"
  BY <1>5, <1>2 DEF on_exit_filled
<1>6. CASE s.state = "exit_pending"
  <2> DEFINE turned == [s EXCEPT !.forced = IF s.flip # "none" THEN s.flip ELSE @, !.flip = "none"]
  <2>1. turned \in StrategyRecs /\ turned.state = "exit_pending"
    BY <1>6 DEF StrategyRecs, OrNone
  <2>2. ScalpFlip_on_exit_filled(s, lost) = CountLoss(exit_done(turned), lost)
    BY DEF ScalpFlip_on_exit_filled
  <2> HIDE DEF turned
  <2>3. /\ ScalpFlip_on_exit_filled(s, lost) \in StrategyRecs
        /\ ScalpFlip_on_exit_filled(s, lost).state \in {"cooldown", "halted"}
        /\ ScalpFlip_on_exit_filled(s, lost).position = "none"
    BY <2>1, <2>2, <1>3, <1>4
  <2>4. /\ Mt5L1Scalper_on_exit_filled(s, lost) \in StrategyRecs
        /\ Mt5L1Scalper_on_exit_filled(s, lost).state \in {"cooldown", "halted"}
        /\ Mt5L1Scalper_on_exit_filled(s, lost).position = "none"
    BY <1>6, <1>3, <1>4 DEF Mt5L1Scalper_on_exit_filled
  <2>5. /\ BaselineScalper_on_exit_filled(s) \in StrategyRecs
        /\ BaselineScalper_on_exit_filled(s).state = "cooldown"
        /\ BaselineScalper_on_exit_filled(s).position = "none"
    BY <1>6, <1>3 DEF BaselineScalper_on_exit_filled
  <2> QED
    BY <1>6, <1>2, <2>3, <2>4, <2>5 DEF on_exit_filled, Kinds
<1> QED
  BY <1>5, <1>6
-----------------------------------------------------------------------------
(* The strategy's half of a step. *)

\* A step of the runtime that concerns the strategy only.
SameLink(r1, r) == r1.bridge = r.bridge /\ r1.seq = r.seq /\ r1.cmd = r.cmd

\* What a quote makes of the working order, whoever settles it.
QuotedAs(m, r, outcome) == settle(IF m = "replay" THEN replay_on_quote(r, outcome) ELSE on_quote(r, outcome))

LEMMA FreshSound == /\ Fresh \in StrategyRecs /\ Posed(Fresh) /\ Fresh.position = "none"
                    /\ Fresh.state = "cold"
BY DEF Fresh, StrategyRecs, Posed, OrNone, States

LEMMA RuntimeSound == ASSUME NEW m \in Modes
                      PROVE  Runtime \in Runtimes /\ Sound(m, Runtime)
<1>1. BridgeState \in Bridges
  BY DEF BridgeState, Bridges, OrNone, Sides
<1>2. NoOrder \in Orders /\ Nothing \in Commands
  BY DEF NoOrder, Orders, OrNone, Nothing, Commands
<1>3. Runtime \in Runtimes
  BY <1>1, <1>2, FreshSound DEF Runtime, Runtimes
<1>4. Holds(m, Fresh, [s \in Sides |-> 0])
  BY FreshSound DEF Holds, net_volume, Sides
<1> QED
  BY <1>3, <1>4, FreshSound DEF Sound, Waiting, Runtime

LEMMA SetupTypes == ASSUME setup \in Setups
                    PROVE  mode \in Modes /\ kind \in Kinds
BY PaperAssumption DEF mode, kind

\* The strategy after the answer to its working order, and the broker's tickets.
AnswerOf(s, w, outcome) ==
  IF w.leg = "entry"
  THEN IF outcome = "refused" THEN on_entry_rejected(s) ELSE on_entry_filled(s, w.side)
  ELSE IF outcome = "refused" THEN on_exit_rejected(s) ELSE on_exit_filled(kind, s, outcome = "lost")
TicketsOf(m, paper, w, outcome) ==
  IF outcome = "refused" THEN paper
  ELSE IF m = "replay" \/ w.leg = "entry" THEN [paper EXCEPT ![w.side] = @ + 1]
  ELSE [paper EXCEPT ![Opposite(w.side)] = IF @ > 0 THEN @ - 1 ELSE 0]

LEMMA QuotedForm ==
  ASSUME NEW m \in Modes, NEW r \in Runtimes, Sound(m, r), NEW outcome \in {"live"} \cup Ends
  PROVE  \/ QuotedAs(m, r, outcome) = r
         \/ /\ r.working.status = "live" /\ outcome \in Ends
            /\ QuotedAs(m, r, outcome) =
                 [r EXCEPT !.strat = AnswerOf(r.strat, r.working, outcome),
                           !.working = NoOrder,
                           !.paper = TicketsOf(m, r.paper, r.working, outcome)]
<1>1. r.working.status \in {"none", "live"}
      /\ (r.working.status = "live" => r.working.leg \in {"entry", "exit"})
  BY DEF Sound, Waiting, NoOrder
<1>2. CASE r.working.status # "live" \/ outcome = "live"
  <2>1. QuotedAs(m, r, outcome) = settle(r)
    BY <1>2 DEF QuotedAs, on_quote, replay_on_quote
  <2>2. settle(r) = r
    BY <1>1 DEF settle
  <2> QED
    BY <2>1, <2>2
<1>3. CASE r.working.status = "live" /\ outcome # "live"
  <2> DEFINE tickets == TicketsOf(m, r.paper, r.working, outcome)
             quoted == [r EXCEPT !.working.status = outcome, !.paper = tickets]
             answer == AnswerOf(r.strat, r.working, outcome)
  <2>1. QuotedAs(m, r, outcome) = settle(quoted)
    <3>1. CASE m = "replay"
      <4>1. tickets = IF outcome = "refused" THEN r.paper ELSE ReplayFilled(r.paper, r.working)
        BY <3>1 DEF ReplayFilled, TicketsOf
      <4>2. replay_on_quote(r, outcome) = quoted
        BY <4>1, <1>3 DEF replay_on_quote
      <4> QED
        BY <3>1, <4>2 DEF QuotedAs
    <3>2. CASE m # "replay"
      <4>1. tickets = IF outcome = "refused" THEN r.paper ELSE Filled(r.paper, r.working)
        BY <3>2 DEF Filled, TicketsOf
      <4>2. on_quote(r, outcome) = quoted
        BY <4>1, <1>3 DEF on_quote
      <4> QED
        BY <3>2, <4>2 DEF QuotedAs
    <3> QED
      BY <3>1, <3>2
  <2>2. /\ quoted.working.status = outcome /\ quoted.working.leg = r.working.leg
        /\ quoted.working.side = r.working.side /\ quoted.strat = r.strat
    BY DEF Runtimes, Orders
  <2>3. [quoted EXCEPT !.strat = answer, !.working = NoOrder] =
        [r EXCEPT !.strat = answer, !.working = NoOrder, !.paper = tickets]
    BY DEF Runtimes
  <2> HIDE DEF quoted
  <2>4. settle(quoted) = [quoted EXCEPT !.strat = answer, !.working = NoOrder]
    BY <1>1, <1>3, <2>2 DEF settle, AnswerOf, Ends
  <2> QED
    BY <1>3, <2>1, <2>3, <2>4
<1> QED
  BY <1>2, <1>3

LEMMA TicketTypes ==
  ASSUME NEW m \in Modes, NEW paper \in [Sides -> Nat], NEW w \in Orders, w.side \in Sides,
         NEW outcome \in Ends
  PROVE  TicketsOf(m, paper, w, outcome) \in [Sides -> Nat]
<1>1. paper[w.side] + 1 \in Nat /\ Opposite(w.side) \in Sides
  BY Sided
<1>2. (IF paper[Opposite(w.side)] > 0 THEN paper[Opposite(w.side)] - 1 ELSE 0) \in Nat
  BY <1>1
<1> QED
  BY <1>1, <1>2 DEF TicketsOf

\* An answer leaves a sound strategy and broker.
LEMMA AnswerSound ==
  ASSUME NEW m \in Modes, NEW r \in Runtimes, kind \in Kinds, Sound(m, r),
         r.working.status = "live", NEW outcome \in Ends
  PROVE  LET s == AnswerOf(r.strat, r.working, outcome)
         IN  /\ s \in StrategyRecs
             /\ s.state \notin {"entry_pending", "exit_pending"}
             /\ ~r.stale => Posed(s) /\ Holds(m, s, TicketsOf(m, r.paper, r.working, outcome))
<1> DEFINE w == r.working
           p == r.paper
           s == AnswerOf(r.strat, w, outcome)
           q == TicketsOf(m, p, w, outcome)
<1>1. w \in Orders /\ p \in [Sides -> Nat] /\ r.strat \in StrategyRecs
  BY DEF Runtimes
<1>2. w.leg \in {"entry", "exit"} /\ w.side \in Sides
  BY DEF Sound, Waiting, NoOrder
<1>3. q \in [Sides -> Nat]
  BY <1>1, <1>2, TicketTypes
<1>4. CASE w.leg = "entry"
  <2>1. r.strat.state = "entry_pending" \/ (r.stale /\ r.strat.state = "halted")
    BY <1>4 DEF Sound, Waiting, NoOrder
  <2>2. s = IF outcome = "refused" THEN on_entry_rejected(r.strat) ELSE on_entry_filled(r.strat, w.side)
    BY <1>4 DEF AnswerOf
  <2>3. s \in StrategyRecs
        /\ (r.strat.state = "entry_pending" =>
             IF outcome = "refused" THEN s.state = "idle" /\ s.position = r.strat.position
             ELSE s.state = "in_position" /\ s.position = w.side)
        /\ (r.strat.state # "entry_pending" => s = r.strat)
    BY <2>2, <1>1, <1>2, EntryAnswered
  <2>4. ASSUME ~r.stale PROVE Posed(s) /\ Holds(m, s, q)
    <3>1. r.strat.state = "entry_pending" /\ r.strat.position = "none" /\ Holds(m, r.strat, p)
      BY <2>4, <2>1 DEF Sound, Posed
    <3>2. CASE outcome = "refused"
      BY <3>1, <3>2, <2>3 DEF Posed, Holds, TicketsOf, net_volume
    <3>3. CASE outcome # "refused"
      <4>1. q = [p EXCEPT ![w.side] = @ + 1]
        BY <3>3, <1>4 DEF TicketsOf
      <4> HIDE DEF q, p, w, s
      <4> QED
        BY <3>1, <3>3, <4>1, <2>3, <1>1, <1>2 DEF Posed, Holds, net_volume, Sides
    <3> QED
      BY <3>2, <3>3
  <2> HIDE DEF s, q, w, p
  <2> QED
    BY <2>1, <2>3, <2>4 DEF s, q, w, p
<1>5. CASE w.leg = "exit"
  <2>1. r.strat.state = "exit_pending" \/ (r.stale /\ r.strat.state = "halted")
    BY <1>5 DEF Sound, Waiting, NoOrder
  <2>2. s = IF outcome = "refused" THEN on_exit_rejected(r.strat)
            ELSE on_exit_filled(kind, r.strat, outcome = "lost")
    BY <1>5 DEF AnswerOf
  <2>3. s \in StrategyRecs
        /\ (r.strat.state = "exit_pending" =>
             IF outcome = "refused" THEN s.state = "in_position" /\ s.position = r.strat.position
             ELSE s.state \in {"cooldown", "halted"} /\ s.position = "none")
        /\ (r.strat.state # "exit_pending" => s = r.strat)
    <3> DEFINE lost == outcome = "lost"
    <3>1. lost \in BOOLEAN
      OBVIOUS
    <3> HIDE DEF lost
    <3>2. s = IF outcome = "refused" THEN on_exit_rejected(r.strat) ELSE on_exit_filled(kind, r.strat, lost)
      BY <2>2 DEF lost
    <3> HIDE DEF s
    <3> QED
      BY <3>1, <3>2, <1>1, ExitAnswered
  <2>4. ASSUME ~r.stale PROVE Posed(s) /\ Holds(m, s, q)
    <3>1. /\ r.strat.state = "exit_pending" /\ r.strat.position \in Sides
          /\ w.side = Opposite(r.strat.position) /\ Holds(m, r.strat, p)
      BY <2>4, <2>1, <1>5 DEF Sound, Posed, Waiting, NoOrder
    <3>2. CASE outcome = "refused"
      BY <3>1, <3>2, <2>3 DEF Posed, Holds, TicketsOf, net_volume
    <3>3. CASE outcome # "refused"
      <4>1. q = IF m = "replay" THEN [p EXCEPT ![w.side] = @ + 1]
                ELSE [p EXCEPT ![Opposite(w.side)] = IF @ > 0 THEN @ - 1 ELSE 0]
        BY <3>3, <1>5 DEF TicketsOf
      <4> HIDE DEF q, p, w, s
      <4> QED
        BY <3>1, <3>3, <4>1, <2>3, <1>1, <1>2 DEF Posed, Holds, net_volume, Sides, Opposite
    <3> QED
      BY <3>2, <3>3
  <2> HIDE DEF s, q, w, p
  <2> QED
    BY <2>1, <2>3, <2>4 DEF s, q, w, p
<1> QED
  BY <1>2, <1>4, <1>5

\* A quote, settled, keeps the runtime sound and leaves the bridge alone.
LEMMA QuotedSound ==
  ASSUME NEW m \in Modes, NEW r \in Runtimes, kind \in Kinds, Sound(m, r),
         NEW outcome \in {"live"} \cup Ends
  PROVE  LET r1 == QuotedAs(m, r, outcome)
         IN  /\ r1 \in Runtimes /\ Sound(m, r1) /\ SameLink(r1, r)
             /\ r1.stale = r.stale /\ r1.rearms = r.rearms
<1> DEFINE r1 == QuotedAs(m, r, outcome)
<1>1. CASE r1 = r
  BY <1>1 DEF SameLink
<1>2. CASE r1 # r
  <2> DEFINE s == AnswerOf(r.strat, r.working, outcome)
             q == TicketsOf(m, r.paper, r.working, outcome)
  <2>1. /\ r.working.status = "live" /\ outcome \in Ends
        /\ r1 = [r EXCEPT !.strat = s, !.working = NoOrder, !.paper = q]
    BY <1>2, QuotedForm
  <2>2. r.working \in Orders /\ r.paper \in [Sides -> Nat] /\ r.working.side \in Sides
    BY <2>1 DEF Runtimes, Sound, Waiting, NoOrder
  <2>3. q \in [Sides -> Nat]
    BY <2>1, <2>2, TicketTypes
  <2>4. /\ s \in StrategyRecs
        /\ s.state \notin {"entry_pending", "exit_pending"}
        /\ ~r.stale => Posed(s) /\ Holds(m, s, q)
    BY <2>1, AnswerSound
  <2>5. NoOrder \in Orders
    BY DEF NoOrder, Orders, OrNone
  <2> HIDE DEF s, q, r1
  <2>6. /\ r1 \in Runtimes /\ r1.strat = s /\ r1.working = NoOrder /\ r1.paper = q
        /\ r1.stale = r.stale /\ r1.rearms = r.rearms /\ SameLink(r1, r)
    BY <2>1, <2>3, <2>4, <2>5 DEF Runtimes, SameLink
  <2>7. Sound(m, r1)
    BY <2>4, <2>6 DEF Sound, Waiting
  <2> QED
    BY <2>6, <2>7 DEF r1
<1> QED
  BY <1>1, <1>2

\* A decision, whatever becomes of its intent.
Taken(r, d) == [r EXCEPT !.strat = d.strat]

LEMMA DecisionSound ==
  ASSUME NEW m \in Modes, NEW r \in Runtimes, kind \in Kinds, Sound(m, r), ~Working(r),
         NEW d \in MarketDecisions(r)
  PROVE  LET s == Taken(r, d)
         IN  /\ d.intent \in Intents
             /\ s \in Runtimes /\ SameLink(s, r) /\ s.stale = r.stale
             /\ d.intent.kind = "none" => Sound(m, s)
             /\ d.intent.kind # "none" =>
                  /\ d.intent.side \in Sides
                  /\ submitted(s, d.intent) \in Runtimes /\ Sound(m, submitted(s, d.intent))
                  /\ rejected(s, d.intent) \in Runtimes /\ Sound(m, rejected(s, d.intent))
                  /\ SameLink(submitted(s, d.intent), r) /\ SameLink(rejected(s, d.intent), r)
<1> DEFINE s == Taken(r, d)
           t == d.strat
           i == d.intent
<1>1. PICK o \in Observations(kind) : d = on_market(kind, r.strat, o)
  BY DEF MarketDecisions
<1>2. r.strat \in StrategyRecs
  BY DEF Runtimes
<1>3. Decided(r.strat, d)
  BY <1>1, <1>2, MarketDecided
<1>4. t \in StrategyRecs /\ i \in Intents /\ t.position = r.strat.position
  BY <1>3 DEF Decided
<1>5. r.working = NoOrder /\ r.strat.state \notin {"entry_pending", "exit_pending"}
  BY DEF Working, Sound, Waiting, NoOrder
<1> HIDE DEF t, i
<1>6. /\ s \in Runtimes /\ SameLink(s, r) /\ s.stale = r.stale /\ s.strat = t
      /\ s.working = NoOrder /\ s.paper = r.paper
  BY <1>4, <1>5 DEF Runtimes, Taken, SameLink, t
<1> HIDE DEF s
<1>7. ASSUME NEW u \in StrategyRecs, u.position = r.strat.position
      PROVE  Holds(m, r.strat, r.paper) => Holds(m, u, r.paper)
  BY <1>7 DEF Holds, net_volume
<1>8. CASE i.kind = "none"
  <2>1. t.state = r.strat.state \/ (t.state = "idle" /\ r.strat.state \in {"cold", "cooldown"})
    BY <1>8, <1>3 DEF Decided, t, i
  <2> QED
    BY <1>4, <1>5, <1>6, <1>7, <1>8, <2>1 DEF Sound, Waiting, Posed, t, i, s
<1>9. CASE i.kind # "none"
  <2>1. i.kind \in {"enter", "exit"}
    BY <1>4, <1>9 DEF Intents
  <2>2. /\ i.kind = "enter" => i.side \in Sides /\ t.position = "none" /\ t.state = "entry_pending"
        /\ i.kind = "exit" => /\ t.position \in Sides /\ i.side = Opposite(t.position)
                              /\ t.state = "exit_pending"
    BY <1>3, <1>4 DEF Decided, t, i
  <2>3. i.side \in Sides
    BY <2>1, <2>2, Sided
  <2> DEFINE w == [leg |-> IF i.kind = "enter" THEN "entry" ELSE "exit", side |-> i.side, status |-> "live"]
             a == submitted(s, i)
             v == IF i.kind = "enter" THEN on_entry_rejected(t) ELSE on_exit_rejected(t)
             b == rejected(s, i)
  <2>4. w \in Orders
    BY <2>3 DEF Orders, OrNone
  <2>5. /\ a \in Runtimes /\ a.strat = t /\ a.working = w /\ a.paper = r.paper /\ a.stale = r.stale
        /\ SameLink(a, r)
    BY <2>4, <1>6 DEF Runtimes, submitted, SameLink
  <2>6. Waiting(t, w, r.stale)
    BY <2>1, <2>2, <2>3 DEF Waiting
  <2>7. Posed(t)
    BY <2>1, <2>2 DEF Posed
  <2>8. Sound(m, a)
    BY <2>5, <2>6, <2>7, <1>4, <1>7 DEF Sound
  <2>9. /\ v \in StrategyRecs /\ v.position = t.position
        /\ v.state = IF i.kind = "enter" THEN "idle" ELSE "in_position"
    BY <2>1, <2>2, <2>3, <1>4, EntryAnswered, ExitAnswered
  <2>10. /\ b \in Runtimes /\ b.strat = v /\ b.working = NoOrder /\ b.paper = r.paper /\ b.stale = r.stale
         /\ SameLink(b, r)
    <3>1. b = [s EXCEPT !.strat = v]
      BY <1>6 DEF rejected
    <3> HIDE DEF b, v
    <3> QED
      BY <3>1, <2>9, <1>6 DEF Runtimes, SameLink
  <2>11. Posed(v) /\ Waiting(v, NoOrder, r.stale)
    BY <2>1, <2>2, <2>9 DEF Posed, Waiting
  <2> HIDE DEF v, w, a, b
  <2>12. Sound(m, b)
    BY <2>9, <2>10, <2>11, <1>4, <1>7 DEF Sound
  <2> QED
    BY <1>4, <1>6, <1>9, <2>3, <2>5, <2>8, <2>10, <2>12 DEF a, b, s, i
<1> QED
  BY <1>8, <1>9
-----------------------------------------------------------------------------
(* The bridge's half of a step. *)

\* A step of the runtime that concerns the bridge only.
SameTrade(r1, r) == /\ r1.strat = r.strat /\ r1.working = r.working /\ r1.paper = r.paper
                    /\ r1.stale = r.stale

\* A command is sent; it is sent again; an answer is taken.
SentAs(r1, r, action) ==
  /\ r1.seq = r.seq + 1 /\ r1.cmd = Command(r.seq + 1, action)
  /\ r1.bridge.in_flight /\ r1.bridge.pending_seq = r.seq + 1 /\ r1.bridge.action = action
  /\ r1.bridge.position = r.bridge.position /\ r1.bridge.unsynced = r.bridge.unsynced
  /\ r1.bridge.blind = r.bridge.blind
AnsweredAs(r1, r) ==
  /\ r.bridge.in_flight /\ ack.status # "none" /\ ack.seq >= r.bridge.pending_seq
  /\ r1.seq = r.seq /\ r1.cmd = r.cmd
  /\ ~r1.bridge.in_flight
  /\ r1.bridge.pending_seq = r.bridge.pending_seq /\ r1.bridge.action = r.bridge.action
  /\ r1.bridge.blind = r.bridge.blind
  /\ r1.bridge.unsynced = (r.bridge.unsynced /\ ack.status = "REJECT")
  /\ r1.bridge.position = "none" =>
       \/ ack.status \in {"CLOSED", "CLOSE_NOOP"}
       \/ ack.status = "REJECT" /\ r.bridge.position = "none"

LEMMA SoundSame == ASSUME NEW m, NEW r, NEW r1, Sound(m, r), SameTrade(r1, r)
                   PROVE  Sound(m, r1)
BY DEF Sound, SameTrade

LEMMA SendForm ==
  ASSUME NEW r \in Runtimes, NEW action \in Actions, NEW writable \in BOOLEAN
  PROVE  /\ Send(r, action, writable) \in Runtimes /\ SameTrade(Send(r, action, writable), r)
         /\ ~writable => Send(r, action, writable) = r
         /\ writable => SentAs(Send(r, action, writable), r, action)
<1>1. CASE ~writable
  BY <1>1 DEF Send, SameTrade
<1>2. CASE writable
  <2> DEFINE n == r.seq + 1
             c == Command(n, action)
             side == IF action = "CLOSE" THEN r.bridge.side ELSE action
             b == [r.bridge EXCEPT !.in_flight = TRUE, !.pending_seq = n, !.side = side, !.action = action]
  <2>1. r.seq \in Nat /\ r.bridge \in Bridges /\ r.bridge.side \in Sides
    BY DEF Runtimes, Bridges
  <2>2. n \in Nat /\ n \in Int /\ action \in OrNone(Actions) /\ side \in Sides
    BY <2>1 DEF OrNone, Actions, Sides
  <2>3. c \in Commands
    BY <2>2 DEF Commands, Command
  <2>4. Send(r, action, writable) = [r EXCEPT !.seq = n, !.cmd = c, !.bridge = b]
    BY <1>2, <2>1 DEF Send, Bridges, Runtimes
  <2> HIDE DEF n, c, side
  <2>5. /\ b \in Bridges /\ b.in_flight /\ b.pending_seq = n /\ b.action = action
        /\ b.position = r.bridge.position /\ b.unsynced = r.bridge.unsynced /\ b.blind = r.bridge.blind
    BY <2>1, <2>2 DEF Bridges
  <2> HIDE DEF b
  <2> DEFINE r1 == Send(r, action, writable)
  <2>6. r1 \in Runtimes /\ SameTrade(r1, r) /\ r1.seq = n /\ r1.cmd = c /\ r1.bridge = b
    BY <2>2, <2>3, <2>4, <2>5 DEF Runtimes, SameTrade
  <2> HIDE DEF r1
  <2>7. SentAs(r1, r, action)
    BY <2>5, <2>6 DEF SentAs, n, c
  <2> QED
    BY <1>2, <2>6, <2>7 DEF r1
<1> QED
  BY <1>1, <1>2

LEMMA SendExitForm ==
  ASSUME NEW r \in Runtimes, NEW side \in Sides, NEW writable \in BOOLEAN
  PROVE  /\ SendExit(r, side, writable) \in Runtimes /\ SameTrade(SendExit(r, side, writable), r)
         /\ ~writable => SendExit(r, side, writable) = r
         /\ writable => SentAs(SendExit(r, side, writable), r, "CLOSE")
<1>1. CASE ~writable
  BY <1>1 DEF SendExit, SameTrade
<1>2. CASE writable
  <2> DEFINE r1 == Send(r, "CLOSE", TRUE)
             r2 == [r1 EXCEPT !.bridge.side = side]
  <2>1. "CLOSE" \in Actions
    BY DEF Actions
  <2>2. r1 \in Runtimes /\ SameTrade(r1, r) /\ SentAs(r1, r, "CLOSE")
    BY <2>1, SendForm
  <2>3. SendExit(r, side, writable) = r2
    BY <1>2 DEF SendExit
  <2> HIDE DEF r1
  <2> DEFINE b == [r1.bridge EXCEPT !.side = side]
  <2>4. r1.bridge \in Bridges
    BY <2>2 DEF Runtimes
  <2>5. /\ b \in Bridges
        /\ \A f \in {"in_flight", "pending_seq", "action", "position", "unsynced", "blind"} : b[f] = r1.bridge[f]
    BY <2>4 DEF Bridges
  <2>6. r2 = [r1 EXCEPT !.bridge = b]
    BY <2>2 DEF Runtimes
  <2> HIDE DEF b, r2
  <2>7. r2 \in Runtimes /\ SameTrade(r2, r1) /\ r2.seq = r1.seq /\ r2.cmd = r1.cmd /\ r2.bridge = b
    BY <2>2, <2>5, <2>6 DEF Runtimes, SameTrade
  <2>8. SameTrade(r2, r)
    BY <2>2, <2>7 DEF SameTrade
  <2>9. SentAs(r2, r, "CLOSE")
    BY <2>2, <2>5, <2>7 DEF SentAs
  <2> QED
    BY <1>2, <2>3, <2>7, <2>8, <2>9
<1> QED
  BY <1>1, <1>2

LEMMA PollForm ==
  ASSUME NEW r \in Runtimes, ack \in Acks
  PROVE  /\ bridge_poll_ack(r) \in Runtimes /\ SameTrade(bridge_poll_ack(r), r)
         /\ bridge_poll_ack(r) = r \/ AnsweredAs(bridge_poll_ack(r), r)
<1>1. CASE ~r.bridge.in_flight \/ ack.status = "none" \/ ack.seq < r.bridge.pending_seq
  BY <1>1 DEF bridge_poll_ack, SameTrade
<1>2. CASE ~(~r.bridge.in_flight \/ ack.status = "none" \/ ack.seq < r.bridge.pending_seq)
  <2> DEFINE b == r.bridge
             position == CASE ack.status = "FILLED" -> b.side
                           [] ack.status \in {"CLOSED", "CLOSE_NOOP"} -> "none"
                           [] ack.status = "SKIP_MAX_POSITION" ->
                                IF b.position = "none" THEN Opposite(b.side) ELSE b.position
                           [] OTHER -> b.position
             unsynced == b.unsynced /\ ack.status = "REJECT"
             b1 == [b EXCEPT !.in_flight = FALSE, !.position = position, !.unsynced = unsynced]
             r1 == bridge_poll_ack(r)
  <2>1. /\ b \in Bridges /\ b.side \in Sides /\ b.position \in OrNone(Sides) /\ b.pending_seq \in Nat
        /\ ack.status \in OrNone(Statuses) /\ ack.seq \in Int /\ unsynced \in BOOLEAN
    BY DEF Runtimes, Bridges, Acks
  <2>2. /\ position \in OrNone(Sides)
        /\ position = "none" => \/ ack.status \in {"CLOSED", "CLOSE_NOOP"}
                                \/ ack.status = "REJECT" /\ b.position = "none"
    BY <2>1, <1>2 DEF OrNone, Sides, Opposite, Statuses
  <2>3. r1 = [r EXCEPT !.bridge = b1]
    BY <1>2, <2>1 DEF bridge_poll_ack, BridgeAnswer, Bridges, Runtimes
  <2> HIDE DEF position, unsynced, r1, b
  <2>4. /\ b1 \in Bridges /\ ~b1.in_flight /\ b1.position = position /\ b1.unsynced = unsynced
        /\ b1.pending_seq = b.pending_seq /\ b1.action = b.action /\ b1.blind = b.blind
    BY <2>1, <2>2 DEF Bridges
  <2> HIDE DEF b1
  <2>5. r1 \in Runtimes /\ SameTrade(r1, r) /\ r1.bridge = b1 /\ r1.seq = r.seq /\ r1.cmd = r.cmd
    BY <2>3, <2>4 DEF Runtimes, SameTrade
  <2>6. ack.seq >= b.pending_seq
    BY <2>1, <1>2 DEF b
  <2>7. AnsweredAs(r1, r)
    BY <1>2, <2>2, <2>4, <2>5, <2>6 DEF AnsweredAs, b, unsynced
  <2> QED
    BY <2>5, <2>7 DEF r1
<1> QED
  BY <1>1, <1>2

LEMMA RetryForm ==
  ASSUME NEW r \in Runtimes, NEW expired, NEW writable
  PROVE  LET r1 == bridge_retry_if_timed_out(r, expired, writable)
         IN  /\ r1 \in Runtimes /\ SameTrade(r1, r)
             /\ r1 = r \/ (r.bridge.in_flight /\ SentAs(r1, r, r.bridge.action))
<1> DEFINE r1 == bridge_retry_if_timed_out(r, expired, writable)
<1>1. CASE ~(r.bridge.in_flight /\ expired /\ writable)
  BY <1>1 DEF bridge_retry_if_timed_out, SameTrade
<1>2. CASE r.bridge.in_flight /\ expired /\ writable
  <2> DEFINE n == r.seq + 1
             c == Command(n, r.bridge.action)
             b == [r.bridge EXCEPT !.pending_seq = n]
  <2>1. r.seq \in Nat /\ r.bridge \in Bridges /\ r.bridge.action \in Actions
    BY <1>2 DEF Runtimes, Bridges
  <2>2. n \in Nat /\ n \in Int
    BY <2>1
  <2>3. c \in Commands
    BY <2>1, <2>2 DEF Commands, Command
  <2>4. r1 = [r EXCEPT !.seq = n, !.cmd = c, !.bridge = b]
    BY <1>2 DEF bridge_retry_if_timed_out, Runtimes
  <2> HIDE DEF n, c
  <2>5. /\ b \in Bridges /\ b.pending_seq = n
        /\ \A f \in {"in_flight", "action", "position", "unsynced", "blind"} : b[f] = r.bridge[f]
    BY <2>1, <2>2 DEF Bridges
  <2> HIDE DEF b, r1
  <2>6. r1 \in Runtimes /\ SameTrade(r1, r) /\ r1.seq = n /\ r1.cmd = c /\ r1.bridge = b
    BY <2>2, <2>3, <2>4, <2>5 DEF Runtimes, SameTrade
  <2>7. SentAs(r1, r, r.bridge.action)
    BY <1>2, <2>5, <2>6 DEF SentAs, n, c
  <2> QED
    BY <1>2, <2>6, <2>7 DEF r1
<1> QED
  BY <1>1, <1>2
-----------------------------------------------------------------------------
(* The bridge's invariant, one part of a pass at a time. *)

LinkTypes == /\ ea \in Scripts /\ ack \in Acks /\ mt5 \in OrNone(Sides) /\ up \in BOOLEAN

LEMMA LinkedSame ==
  ASSUME NEW r, NEW r1, SameLink(r1, r), Linked(r)
  PROVE  Linked(r1)
BY DEF SameLink, Linked, ScriptInv, ProcessInv, FirstInv, Unsent, Current, BelievesFlat, Idling, Entering

\* Taking an answer.
LEMMA LinkedAnswered ==
  ASSUME LinkTypes, NEW r \in Runtimes, NEW r1 \in Runtimes, AnsweredAs(r1, r), Linked(r)
  PROVE  Linked(r1)
<1>1. /\ r1.cmd = r.cmd /\ r1.seq = r.seq /\ r1.bridge.blind = r.bridge.blind
      /\ r1.bridge.action = r.bridge.action /\ r1.bridge.pending_seq = r.bridge.pending_seq
      /\ r.bridge.in_flight /\ ~r1.bridge.in_flight /\ ack.seq >= r.bridge.pending_seq
  BY DEF AnsweredAs
<1>2. ack.seq \in Int /\ ea.last \in Int /\ r.bridge.pending_seq \in Nat
  BY DEF LinkTypes, Acks, Scripts, Runtimes, Bridges
<1>3. ASSUME ScriptInv(r) PROVE ScriptInv(r1)
  BY <1>3, <1>1 DEF ScriptInv
<1>4. ASSUME ScriptInv(r), ProcessInv(r) PROVE ProcessInv(r1)
  <2>1. Current(r1)
    BY <1>4, <1>1 DEF ProcessInv, Unsent, Current
  <2>2. ea.busy = Nothing
    BY <1>4, <1>1, <1>2 DEF ProcessInv
  <2>3. r1.bridge.pending_seq <= ea.last
    BY <1>4, <1>1, <1>2 DEF ScriptInv
  <2>4. ack.seq >= r1.bridge.pending_seq /\ ack.status \in {"CLOSED", "CLOSE_NOOP"} => mt5 = "none"
    BY <1>4, <1>1 DEF ProcessInv
  <2>5. ASSUME BelievesFlat(r1) PROVE mt5 = "none"
    <3>1. CASE ack.status \in {"CLOSED", "CLOSE_NOOP"}
      BY <3>1, <1>1, <2>4
    <3>2. CASE ack.status = "REJECT" /\ r.bridge.position = "none"
      <4>1. ~r.bridge.unsynced
        BY <2>5, <3>2 DEF BelievesFlat, AnsweredAs
      <4> QED
        BY <4>1, <3>2, <1>4, <1>1 DEF ProcessInv, BelievesFlat, Entering
    <3> QED
      BY <2>5, <3>1, <3>2 DEF BelievesFlat, AnsweredAs
  <2> QED
    BY <2>1, <2>2, <2>3, <2>4, <2>5, <1>1 DEF ProcessInv, Idling, Entering
<1>5. ASSUME FirstInv(r) PROVE FirstInv(r1)
  BY <1>5, <1>1 DEF FirstInv
<1> QED
  BY <1>1, <1>3, <1>4, <1>5 DEF Linked

\* Sending a command, for the first time or again.
LEMMA LinkedSent ==
  ASSUME LinkTypes, mode = "bridge", up, NEW r \in Runtimes, NEW r1 \in Runtimes, NEW action \in Actions,
         SentAs(r1, r, action), Linked(r),
         \/ r.bridge.in_flight /\ action = r.bridge.action
         \/ ~r.bridge.in_flight /\ (action = "CLOSE" => r.bridge.position # "none")
  PROVE  Linked(r1)
<1> DEFINE n == r.seq + 1
<1>1. /\ r1.cmd = Command(n, action) /\ r1.seq = n /\ r1.bridge.blind = r.bridge.blind
      /\ r1.bridge.action = action /\ r1.bridge.pending_seq = n /\ r1.bridge.in_flight
      /\ r1.bridge.position = r.bridge.position /\ r1.bridge.unsynced = r.bridge.unsynced
  BY DEF SentAs
<1>2. /\ ack.seq \in Int /\ ea.last \in Int /\ r.bridge.pending_seq \in Nat /\ r.seq \in Nat
      /\ n \in Nat /\ n > r.seq /\ n > 0 /\ n # -1
  BY DEF LinkTypes, Acks, Scripts, Runtimes, Bridges
<1> HIDE DEF n
<1>3. r1.cmd # Nothing /\ r1.cmd.seq = n /\ r1.cmd.action = action
  BY <1>1, <1>2 DEF Command, Nothing
<1>4. ASSUME ScriptInv(r) PROVE ScriptInv(r1)
  BY <1>4, <1>2, <1>3 DEF ScriptInv
<1>5. ASSUME ScriptInv(r), ProcessInv(r) PROVE ProcessInv(r1)
  <2>1. Current(r1)
    BY <1>1, <1>3 DEF Current
  <2>2. ea.busy # Nothing => ack.seq < n
    <3>1. CASE Unsent(r)
      BY <3>1, <1>5 DEF Unsent, ScriptInv
    <3>2. CASE Current(r)
      BY <3>2, <1>5, <1>2 DEF Current, ProcessInv
    <3> QED
      BY <3>1, <3>2, <1>5 DEF ProcessInv
  <2>3. ASSUME ack.seq >= n, ack.status \in {"CLOSED", "CLOSE_NOOP"} PROVE mt5 = "none"
    <3>1. CASE Unsent(r)
      BY <3>1, <1>5, <1>2, <2>3 DEF Unsent, ScriptInv
    <3>2. CASE Current(r)
      <4>1. ack.seq >= r.bridge.pending_seq
        BY <3>2, <1>2, <2>3 DEF Current
      <4> QED
        BY <4>1, <2>3, <1>5 DEF ProcessInv
    <3> QED
      BY <3>1, <3>2, <1>5 DEF ProcessInv
  <2>4. ASSUME BelievesFlat(r1) PROVE Entering(r1)
    <3>1. BelievesFlat(r) /\ r.bridge.position = "none" /\ ~r.bridge.unsynced
      BY <2>4, <1>1 DEF BelievesFlat
    <3>2. Idling(r) /\ Entering(r)
      BY <3>1, <1>5 DEF ProcessInv
    <3>3. CASE ~r.bridge.in_flight
      <4>1. action \in Sides
        BY <3>3, <3>1 DEF Actions, Sides
      <4>2. mt5 = "none" /\ ea.busy = Nothing
        BY <3>2, <3>3, <1>5 DEF Idling, ProcessInv
      <4> QED
        BY <4>1, <4>2, <1>1 DEF Entering
    <3>4. CASE r.bridge.in_flight
      <4>1. Current(r)
        BY <3>4, <1>5 DEF ProcessInv, Unsent
      <4>2. ack.seq >= n => ack.seq >= r.bridge.pending_seq
        BY <4>1, <1>2 DEF Current
      <4> QED
        BY <4>2, <3>2, <3>4, <1>1 DEF Entering
    <3> QED
      BY <3>3, <3>4
  <2> QED
    BY <2>1, <2>2, <2>3, <2>4, <1>1 DEF ProcessInv, Idling
<1>6. ASSUME ScriptInv(r), ProcessInv(r), FirstInv(r) PROVE FirstInv(r1)
  BY <1>6, <1>1 DEF FirstInv, ProcessInv
<1> QED
  BY <1>1, <1>4, <1>5, <1>6 DEF Linked, FirstInv
-----------------------------------------------------------------------------
(* The bounds on faults only ever shrink, so what is claimed of a system without some fault *)
(* was claimed before. *)

FewerLeft == /\ left' \in [FaultKinds -> Nat]
             /\ \A g \in FaultKinds : left'[g] <= left[g]

LEMMA SpentLess ==
  ASSUME left \in [FaultKinds -> Nat], NEW f \in FaultKinds, f # "any", Spend(f)
  PROVE  FewerLeft /\ left'[f] < left[f]
<1>1. "any" \in FaultKinds
  BY DEF FaultKinds
<1>2. left[f] - 1 \in Nat /\ left["any"] - 1 \in Nat
  BY <1>1 DEF Spend
<1> QED
  BY <1>1, <1>2 DEF Spend, FewerLeft

LEMMA SameLess == ASSUME left \in [FaultKinds -> Nat], UNCHANGED left
                  PROVE  FewerLeft
BY DEF FewerLeft

LEMMA EntrySpentLess ==
  ASSUME left \in [FaultKinds -> Nat], NEW d, Offered(d), SpendEntry(d)
  PROVE  FewerLeft
<1>1. "entry" \in FaultKinds
  BY DEF FaultKinds
<1>2. CASE d.intent.kind = "enter"
  <2>1. left["entry"] - 1 \in Nat
    BY <1>1, <1>2 DEF Offered
  <2> QED
    BY <1>1, <1>2, <2>1 DEF SpendEntry, FewerLeft
<1>3. CASE d.intent.kind # "enter"
  BY <1>3, <1>1 DEF SpendEntry, FewerLeft
<1> QED
  BY <1>2, <1>3

LEMMA UnspentBefore ==
  ASSUME Types, UNCHANGED setup, FewerLeft, NEW f \in FaultKinds
  PROVE  /\ left'[f] <= Faults[mode'][f]
         /\ Unspent(f)' => Unspent(f) /\ left'[f] = left[f]
<1>1. mode \in Modes /\ mode' = mode
  BY SetupTypes DEF Types, mode
<1>2. Faults[mode][f] \in Nat
  BY <1>1, PaperAssumption
<1> QED
  BY <1>1, <1>2 DEF Types, FewerLeft, Unspent

LEMMA UndisturbedBefore ==
  ASSUME Types, UNCHANGED setup, FewerLeft
  PROVE  /\ Undisturbed' => Undisturbed
         /\ Unspent("restart")' => Unspent("restart")
<1>1. {"kill", "attach", "restart"} \subseteq FaultKinds
  BY DEF FaultKinds
<1> QED
  BY <1>1, UnspentBefore DEF Undisturbed

\* The runtime moves on its own.
LEMMA RuntimeMoved ==
  ASSUME Types, UNCHANGED <<setup, up, ea, mt5, ack, acted>>, FewerLeft,
         rt' \in Runtimes, Sound(mode, rt'), Linked(rt')
  PROVE  TradeInv'
<1>1. Types'
  BY UnspentBefore DEF Types, FewerLeft
<1>2. StrategyInv'
  BY DEF StrategyInv, mode, Sound, Holds
<1>3. mode' = mode
  BY DEF mode
<1>4. (Undisturbed' => Undisturbed) /\ (Unspent("restart")' => Unspent("restart"))
  BY UndisturbedBefore
<1>5. LinkInv'
  BY <1>3, <1>4 DEF LinkInv, Linked, ScriptInv, ProcessInv, FirstInv, Unsent, Current, BelievesFlat,
                    Idling, Entering
<1> QED
  BY <1>1, <1>2, <1>5 DEF TradeInv

LEMMA InvFacts ==
  ASSUME TradeInv
  PROVE  /\ mode \in Modes /\ kind \in Kinds /\ rt \in Runtimes /\ left \in [FaultKinds -> Nat]
         /\ Sound(mode, rt) /\ Linked(rt) /\ LinkTypes /\ ack \in Acks
BY SetupTypes DEF TradeInv, Types, StrategyInv, LinkInv, LinkTypes

LEMMA OutcomesKnown == ASSUME NEW outcome \in Outcomes
                       PROVE  outcome \in {"live"} \cup Ends
BY DEF Outcomes, Ends

\* A decision, with its intent refused or submitted, in any mode.
LEMMA WalQuoteSafe ==
  ASSUME TradeInv, NEW r \in Runtimes, Sound(mode, r), SameLink(r, rt), WalQuote(r),
         UNCHANGED <<setup, up, ea, mt5, ack, acted>>
  PROVE  TradeInv'
<1>1. /\ mode \in Modes /\ kind \in Kinds /\ Linked(rt) /\ left \in [FaultKinds -> Nat]
      /\ ~Working(r) /\ mode = "wal"
  BY InvFacts DEF WalQuote
<1>2. PICK d \in MarketDecisions(r) :
        /\ Offered(d) /\ SpendEntry(d)
        /\ LET s == [r EXCEPT !.strat = d.strat]
           IN  \/ /\ kind # "baseline" /\ d.strat.state = "halted" /\ Flat(d.strat)
                  /\ r.rearms < MaxRearms
                  /\ rt' = [r EXCEPT !.strat = Fresh, !.rearms = @ + 1]
               \/ /\ d.intent.kind = "none"
                  /\ rt' = s
               \/ /\ d.intent.kind # "none"
                  /\ rt' \in {submitted(s, d.intent), rejected(s, d.intent)}
  BY Zenon DEF WalQuote
<1>3. FewerLeft
  BY <1>1, <1>2, EntrySpentLess
<1>4. /\ Taken(r, d) \in Runtimes /\ SameLink(Taken(r, d), r)
      /\ d.intent.kind = "none" => Sound(mode, Taken(r, d))
      /\ d.intent.kind # "none" =>
           /\ submitted(Taken(r, d), d.intent) \in Runtimes /\ Sound(mode, submitted(Taken(r, d), d.intent))
           /\ rejected(Taken(r, d), d.intent) \in Runtimes /\ Sound(mode, rejected(Taken(r, d), d.intent))
           /\ SameLink(submitted(Taken(r, d), d.intent), r) /\ SameLink(rejected(Taken(r, d), d.intent), r)
  BY <1>1, DecisionSound
<1>5. CASE /\ d.strat.state = "halted" /\ Flat(d.strat)
           /\ rt' = [r EXCEPT !.strat = Fresh, !.rearms = @ + 1]
  <2>1. r.rearms + 1 \in Nat
    BY DEF Runtimes
  <2>2. /\ rt' \in Runtimes /\ SameLink(rt', r) /\ rt'.strat = Fresh /\ rt'.working = r.working
        /\ rt'.paper = r.paper /\ rt'.stale = r.stale
    BY <1>5, <2>1, FreshSound DEF Runtimes, SameLink
  <2>3. r.strat.position = "none" /\ r.working = NoOrder
    <3>1. PICK o \in Observations(kind) : d = on_market(kind, r.strat, o)
      BY DEF MarketDecisions
    <3>2. Decided(r.strat, d)
      BY <3>1, <1>1, MarketDecided DEF Runtimes
    <3> QED
      BY <3>2, <1>1, <1>5 DEF Decided, Flat, Working, Sound, Waiting
  <2>4. Holds(mode, r.strat, r.paper) => Holds(mode, Fresh, r.paper)
    BY <2>3, FreshSound DEF Holds, net_volume
  <2>5. Sound(mode, rt')
    BY <2>2, <2>3, <2>4, FreshSound DEF Sound, Waiting
  <2>6. SameLink(rt', rt)
    BY <2>2 DEF SameLink
  <2> QED
    BY <2>2, <2>5, <2>6, <1>1, <1>3, LinkedSame, RuntimeMoved DEF TradeInv
<1>6. CASE ~(/\ d.strat.state = "halted" /\ Flat(d.strat)
             /\ rt' = [r EXCEPT !.strat = Fresh, !.rearms = @ + 1])
  <2>1. rt' \in Runtimes /\ Sound(mode, rt') /\ SameLink(rt', r)
    BY <1>2, <1>4, <1>6 DEF Taken
  <2>2. SameLink(rt', rt)
    BY <2>1 DEF SameLink
  <2> QED
    BY <2>1, <2>2, <1>1, <1>3, LinkedSame, RuntimeMoved DEF TradeInv
<1> QED
  BY <1>5, <1>6

LEMMA WalEventSafe == ASSUME TradeInv, WalEvent PROVE TradeInv'
<1>1. PICK outcome \in Outcomes :
        LET r == settle(on_quote(rt, outcome)) IN (rt' = r /\ UNCHANGED left) \/ WalQuote(r)
  BY DEF WalEvent
<1>2. mode # "replay" /\ UNCHANGED <<setup, up, ea, mt5, ack, acted>>
  BY DEF WalEvent
<1> DEFINE r == QuotedAs(mode, rt, outcome)
<1>3. r = settle(on_quote(rt, outcome))
  BY <1>2 DEF QuotedAs
<1>4. r \in Runtimes /\ Sound(mode, r) /\ SameLink(r, rt)
  BY InvFacts, QuotedSound, OutcomesKnown
<1> HIDE DEF r
<1>5. CASE rt' = r /\ UNCHANGED left
  BY <1>2, <1>4, <1>5, InvFacts, SameLess, LinkedSame, RuntimeMoved DEF TradeInv
<1>6. CASE WalQuote(r)
  BY <1>2, <1>4, <1>6, WalQuoteSafe
<1> QED
  BY <1>1, <1>3, <1>5, <1>6

LEMMA ReplayEventSafe == ASSUME TradeInv, ReplayEvent PROVE TradeInv'
<1>1. PICK outcome \in Outcomes :
        LET r == settle(replay_on_quote(rt, outcome)) IN (rt' = r /\ UNCHANGED left) \/ ReplayDecide(r)
  BY DEF ReplayEvent
<1>2. mode = "replay" /\ UNCHANGED <<setup, up, ea, mt5, ack, acted>>
  BY DEF ReplayEvent
<1> DEFINE r == QuotedAs(mode, rt, outcome)
<1>3. r = settle(replay_on_quote(rt, outcome))
  BY <1>2 DEF QuotedAs
<1>4. r \in Runtimes /\ Sound(mode, r) /\ SameLink(r, rt)
  BY InvFacts, QuotedSound, OutcomesKnown
<1> HIDE DEF r
<1>5. CASE rt' = r /\ UNCHANGED left
  BY <1>2, <1>4, <1>5, InvFacts, SameLess, LinkedSame, RuntimeMoved DEF TradeInv
<1>6. CASE ReplayDecide(r)
  <2>1. PICK d \in MarketDecisions(r) :
          /\ Offered(d) /\ SpendEntry(d)
          /\ LET s == [r EXCEPT !.strat = d.strat]
             IN  \/ d.intent.kind = "none" /\ rt' = s
                 \/ d.intent.kind # "none" /\ rt' \in {submitted(s, d.intent), rejected(s, d.intent)}
    BY <1>6, Zenon DEF ReplayDecide
  <2>2. ~Working(r)
    BY <1>6 DEF ReplayDecide
  <2>3. FewerLeft
    BY <2>1, InvFacts, EntrySpentLess
  <2>4. /\ Taken(r, d) \in Runtimes /\ SameLink(Taken(r, d), r)
        /\ d.intent.kind = "none" => Sound(mode, Taken(r, d))
        /\ d.intent.kind # "none" =>
             /\ submitted(Taken(r, d), d.intent) \in Runtimes /\ Sound(mode, submitted(Taken(r, d), d.intent))
             /\ rejected(Taken(r, d), d.intent) \in Runtimes /\ Sound(mode, rejected(Taken(r, d), d.intent))
             /\ SameLink(submitted(Taken(r, d), d.intent), r) /\ SameLink(rejected(Taken(r, d), d.intent), r)
    BY <1>4, <2>2, InvFacts, DecisionSound
  <2>5. rt' \in Runtimes /\ Sound(mode, rt') /\ SameLink(rt', r)
    BY <2>1, <2>4 DEF Taken
  <2>6. SameLink(rt', rt)
    BY <2>5, <1>4 DEF SameLink
  <2> QED
    BY <2>3, <2>5, <2>6, <1>2, InvFacts, LinkedSame, RuntimeMoved DEF TradeInv
<1> QED
  BY <1>1, <1>3, <1>5, <1>6

LEMMA StaleHaltSafe == ASSUME TradeInv, StaleHalt PROVE TradeInv'
<1>1. /\ rt' = [rt EXCEPT !.stale = TRUE, !.strat = halt(@)] /\ Spend("stale")
      /\ UNCHANGED <<setup, up, ea, mt5, ack, acted>>
  BY DEF StaleHalt
<1>2. rt \in Runtimes /\ rt.strat \in StrategyRecs
  BY InvFacts DEF Runtimes
<1>3. halt(rt.strat) \in StrategyRecs /\ halt(rt.strat).state = "halted"
  BY <1>2 DEF halt, StrategyRecs, States
<1>4. /\ rt' \in Runtimes /\ rt'.strat = halt(rt.strat) /\ rt'.stale /\ rt'.working = rt.working
      /\ SameLink(rt', rt)
  BY <1>1, <1>2, <1>3 DEF Runtimes, SameLink
<1>5. Sound(mode, rt')
  BY <1>3, <1>4, InvFacts DEF Sound, Waiting
<1>6. "stale" \in FaultKinds
  BY DEF FaultKinds
<1> QED
  BY <1>1, <1>4, <1>5, <1>6, InvFacts, SpentLess, LinkedSame, RuntimeMoved DEF TradeInv

LEMMA FreezeSafe == ASSUME TradeInv, Freeze PROVE TradeInv'
<1>1. /\ rt' = [rt EXCEPT !.frozen = TRUE] /\ Spend("freeze")
      /\ UNCHANGED <<setup, up, ea, mt5, ack, acted>>
  BY DEF Freeze
<1>2. rt' \in Runtimes /\ SameTrade(rt', rt) /\ SameLink(rt', rt)
  BY <1>1, InvFacts DEF Runtimes, SameTrade, SameLink
<1>3. "freeze" \in FaultKinds
  BY DEF FaultKinds
<1> QED
  BY <1>1, <1>2, <1>3, InvFacts, SpentLess, SoundSame, LinkedSame, RuntimeMoved DEF TradeInv

LEMMA ReplayStartSafe == ASSUME TradeInv, ReplayStart PROVE TradeInv'
<1>1. mode = "replay" /\ up' = TRUE /\ rt' = Runtime /\ UNCHANGED <<setup, ea, mt5, ack, acted, left>>
  BY DEF ReplayStart
<1>2. Runtime \in Runtimes /\ Sound(mode, Runtime)
  BY InvFacts, RuntimeSound
<1>3. Types'
  BY <1>1, <1>2 DEF TradeInv, Types, mode
<1>4. StrategyInv'
  BY <1>1, <1>2 DEF StrategyInv, mode, Sound, Holds
<1>5. LinkInv'
  BY <1>1 DEF TradeInv, LinkInv, Linked, Runtime, mode
<1> QED
  BY <1>3, <1>4, <1>5 DEF TradeInv

LEMMA StopRuntimeSafe == ASSUME TradeInv, StopRuntime PROVE TradeInv'
<1>1. /\ Spend("restart") /\ up' = FALSE /\ rt' = [Runtime EXCEPT !.cmd = rt.cmd]
      /\ UNCHANGED <<setup, ea, mt5, ack, acted>>
  BY DEF StopRuntime
<1>2. Runtime \in Runtimes /\ Sound(mode, Runtime)
  BY InvFacts, RuntimeSound
<1>3. rt' \in Runtimes /\ SameTrade(rt', Runtime) /\ rt'.cmd = rt.cmd
  BY <1>1, <1>2, InvFacts DEF Runtimes, SameTrade
<1>4. "restart" \in FaultKinds
  BY DEF FaultKinds
<1>5. FewerLeft /\ left'["restart"] < left["restart"] /\ left["restart"] \in Nat
  BY <1>1, <1>4, InvFacts, SpentLess
<1>6. mode' = mode /\ (Undisturbed' => Undisturbed) /\ ~Unspent("restart")'
  <2>1. Unspent("restart")' => left'["restart"] = left["restart"]
    BY <1>1, <1>4, <1>5, UnspentBefore DEF TradeInv
  <2>2. left'["restart"] \in Nat
    BY <1>4, <1>5 DEF FewerLeft
  <2> QED
    BY <2>1, <2>2, <1>1, <1>5, UndisturbedBefore DEF TradeInv, mode
<1>7. Types'
  BY <1>1, <1>3, <1>5, UnspentBefore DEF TradeInv, Types, FewerLeft
<1>8. StrategyInv'
  <2>1. Sound(mode, rt')
    BY <1>2, <1>3, SoundSame
  <2> QED
    BY <2>1, <1>6 DEF StrategyInv, Sound, Holds
<1>9. LinkInv'
  BY <1>1, <1>3, <1>6 DEF TradeInv, LinkInv, Linked, ScriptInv
<1> QED
  BY <1>7, <1>8, <1>9 DEF TradeInv

\* A start finds the command file and the answer file as an earlier process left them.
LEMMA StartRuntimeSafe == ASSUME TradeInv, StartRuntime PROVE TradeInv'
<1> DEFINE resumed == IF ack.seq > 0 THEN ack.seq ELSE 0
           Begun(w) == [Runtime EXCEPT !.cmd = rt.cmd, !.seq = resumed,
                                       !.bridge.blind = ~w /\ rt.cmd # Nothing]
<1>1. PICK writable \in BOOLEAN :
        rt' = IF mode = "bridge" THEN Send(Begun(writable), "CLOSE", writable)
              ELSE [Runtime EXCEPT !.cmd = rt.cmd]
  BY DEF StartRuntime
<1>2. ~up /\ up' = TRUE /\ UNCHANGED <<setup, ea, mt5, ack, acted, left>> /\ mode' = mode
  BY DEF StartRuntime, mode
<1>3. Runtime \in Runtimes /\ Sound(mode, Runtime) /\ rt \in Runtimes
  BY InvFacts, RuntimeSound
<1>4. /\ (Undisturbed' <=> Undisturbed) /\ (Unspent("restart")' <=> Unspent("restart"))
  BY <1>2 DEF Undisturbed, Unspent
<1>5. ASSUME rt' \in Runtimes, SameTrade(rt', Runtime) PROVE Types' /\ StrategyInv'
  <2>1. Types'
    BY <1>2, <1>5 DEF TradeInv, Types
  <2>2. Sound(mode, rt')
    BY <1>3, <1>5, SoundSame
  <2> QED
    BY <2>1, <2>2, <1>2 DEF StrategyInv, Sound, Holds
<1>6. CASE mode # "bridge"
  <2>1. rt' \in Runtimes /\ SameTrade(rt', Runtime) /\ rt'.cmd = rt.cmd
    BY <1>1, <1>3, <1>6 DEF Runtimes, SameTrade
  <2>2. LinkInv'
    BY <2>1, <1>2, <1>6 DEF TradeInv, LinkInv, Linked
  <2> QED
    BY <2>1, <2>2, <1>5 DEF TradeInv
<1>7. CASE mode = "bridge"
  <2> DEFINE blind == ~writable /\ rt.cmd # Nothing
             b == [BridgeState EXCEPT !.blind = blind]
             fresh == Begun(writable)
  <2>1. ack.seq \in Int /\ resumed \in Nat /\ blind \in BOOLEAN /\ rt.cmd \in Commands /\ ack.seq <= resumed
        /\ ea.last \in Int /\ rt.cmd.seq \in Int
    BY InvFacts DEF Acks, Runtimes, LinkTypes, Scripts, Commands, Nothing
  <2>2. /\ b \in Bridges /\ ~b.in_flight /\ b.pending_seq = 0 /\ b.position = "none" /\ b.unsynced
        /\ b.blind = blind
    BY <2>1 DEF BridgeState, Bridges, OrNone, Sides
  <2>3. fresh = [Runtime EXCEPT !.cmd = rt.cmd, !.seq = resumed, !.bridge = b]
    BY DEF Runtime
  <2> HIDE DEF b, resumed, blind, fresh
  <2>4. /\ fresh \in Runtimes /\ SameTrade(fresh, Runtime) /\ fresh.bridge = b /\ fresh.seq = resumed
        /\ fresh.cmd = rt.cmd
    BY <2>1, <2>2, <2>3, <1>3 DEF Runtimes, SameTrade
  <2>5. rt' = Send(fresh, "CLOSE", writable)
    BY <1>1, <1>7 DEF fresh
  <2>6. "CLOSE" \in Actions
    BY DEF Actions
  <2>7. /\ rt' \in Runtimes /\ SameTrade(rt', fresh)
        /\ ~writable => rt' = fresh
        /\ writable => SentAs(rt', fresh, "CLOSE")
    BY <2>4, <2>5, <2>6, SendForm
  <2>8. SameTrade(rt', Runtime)
    BY <2>4, <2>7 DEF SameTrade
  <2>9. ASSUME Undisturbed
        PROVE  /\ ScriptInv(rt)'
               /\ ~rt'.bridge.blind => ProcessInv(rt)'
               /\ Unspent("restart") => FirstInv(rt)'
    <3>1. ScriptInv(rt) /\ (Unspent("restart") => FirstInv(rt))
      BY <2>9, <1>7 DEF TradeInv, LinkInv, Linked
    <3>2. CASE ~writable
      <4>1. rt'.bridge = b /\ rt'.seq = resumed /\ rt'.cmd = rt.cmd
        BY <3>2, <2>4, <2>7
      <4>2. ScriptInv(rt)'
        BY <4>1, <3>1, <1>2 DEF ScriptInv
      <4>3. ASSUME rt.cmd = Nothing PROVE ProcessInv(rt)'
        <5>1. ea.busy = Nothing /\ ack.seq = -1 /\ resumed = 0
          BY <4>3, <3>1, <2>1 DEF ScriptInv, resumed
        <5>2. Unsent(rt)'
          BY <4>1, <4>3, <5>1, <2>2 DEF Unsent
        <5>3. ~(ack.seq >= b.pending_seq)
          BY <5>1, <2>2
        <5> QED
          BY <5>1, <5>2, <5>3, <4>1, <4>3, <2>2, <1>2 DEF ProcessInv, BelievesFlat
      <4>4. rt.cmd # Nothing => rt'.bridge.blind
        BY <4>1, <2>2, <3>2 DEF blind
      <4>5. ASSUME FirstInv(rt) PROVE FirstInv(rt)'
        <5>1. rt.cmd = Nothing /\ ea.busy = Nothing
          BY <4>5, <3>1, <1>2 DEF FirstInv, ScriptInv
        <5>2. ~b.blind
          BY <5>1, <2>2 DEF blind
        <5> QED
          BY <5>1, <5>2, <4>1, <1>2 DEF FirstInv
      <4> QED
        BY <4>2, <4>3, <4>4, <4>5, <3>1
    <3>3. CASE writable
      <4> DEFINE n == resumed + 1
      <4>1. /\ rt'.seq = n /\ rt'.cmd = Command(n, "CLOSE") /\ rt'.bridge.in_flight
            /\ rt'.bridge.pending_seq = n /\ rt'.bridge.action = "CLOSE" /\ rt'.bridge.unsynced
            /\ ~rt'.bridge.blind
        BY <3>3, <2>2, <2>4, <2>7 DEF SentAs, blind
      <4>2. n \in Nat /\ n > 0 /\ n # -1 /\ ack.seq < n /\ ~(ack.seq >= n)
        BY <2>1
      <4> HIDE DEF n
      <4>3. rt'.cmd # Nothing /\ rt'.cmd.seq = n /\ rt'.cmd.action = "CLOSE"
        BY <4>1, <4>2 DEF Command, Nothing
      <4>4. ScriptInv(rt)'
        BY <4>2, <4>3, <3>1, <2>6, <1>2 DEF ScriptInv
      <4>5. ProcessInv(rt)'
        BY <4>1, <4>2, <4>3, <1>2 DEF ProcessInv, Current, BelievesFlat
      <4>6. ASSUME FirstInv(rt) PROVE FirstInv(rt)'
        BY <4>1, <4>6, <3>1, <1>2 DEF FirstInv, ScriptInv
      <4> QED
        BY <4>4, <4>5, <4>6, <3>1
    <3> QED
      BY <3>2, <3>3
  <2>10. LinkInv'
    BY <2>9, <1>2, <1>4, <1>7 DEF LinkInv, Linked
  <2> QED
    BY <2>7, <2>8, <2>10, <1>5 DEF TradeInv
<1> QED
  BY <1>6, <1>7

\* The part of a pass that follows the settled quote: nothing, a reconciliation or a decision.
LEMMA ReconcileSafe ==
  ASSUME TradeInv, mode = "bridge", up, NEW r \in Runtimes, Sound(mode, r), Linked(r), ~r.bridge.in_flight,
         ~Working(r), NEW writable \in BOOLEAN, rt' = reconcile(r, writable),
         OneSided(r) \/ Opposed(r) \/ Phantom(r),
         UNCHANGED left, UNCHANGED <<setup, up, ea, mt5, ack, acted>>
  PROVE  TradeInv'
<1>1. /\ LinkTypes /\ left \in [FaultKinds -> Nat] /\ FewerLeft /\ "CLOSE" \in Actions
  BY InvFacts, SameLess DEF Actions
<1>2. CASE OneSided(r) \/ Opposed(r)
  <2>1. rt' = Send(r, "CLOSE", writable) /\ r.bridge.position # "none"
    BY <1>2 DEF reconcile, OneSided, Opposed
  <2>2. /\ rt' \in Runtimes /\ SameTrade(rt', r)
        /\ rt' = r \/ SentAs(rt', r, "CLOSE")
    BY <2>1, <1>1, SendForm
  <2>3. Linked(rt')
    BY <2>1, <2>2, <1>1, LinkedSent
  <2> QED
    BY <2>2, <2>3, <1>1, SoundSame, RuntimeMoved DEF TradeInv
<1>3. CASE ~(OneSided(r) \/ Opposed(r))
  <2>1. rt' = [r EXCEPT !.strat = Fresh]
    BY <1>3 DEF reconcile
  <2>2. /\ rt' \in Runtimes /\ rt'.strat = Fresh /\ rt'.working = r.working /\ rt'.paper = r.paper
        /\ rt'.stale = r.stale /\ SameLink(rt', r)
    BY <2>1, FreshSound DEF Runtimes, SameLink
  <2>3. r.working = NoOrder
    BY DEF Working, Sound, Waiting
  <2>4. Sound(mode, rt')
    BY <2>2, <2>3, FreshSound DEF Sound, Waiting, Holds
  <2> QED
    BY <2>2, <2>4, <1>1, LinkedSame, RuntimeMoved DEF TradeInv
<1> QED
  BY <1>2, <1>3

LEMMA DecideSafe ==
  ASSUME TradeInv, mode = "bridge", up, NEW r \in Runtimes, Sound(mode, r), Linked(r), ~r.bridge.in_flight,
         ~Working(r), NEW writable \in BOOLEAN, Decide(r, writable),
         UNCHANGED <<setup, up, ea, mt5, ack, acted>>
  PROVE  TradeInv'
<1>1. PICK d \in MarketDecisions(r) :
        /\ Offered(d) /\ SpendEntry(d)
        /\ LET s == [r EXCEPT !.strat = d.strat]
           IN  \/ d.intent.kind = "none" /\ rt' = s
               \/ d.intent.kind # "none" /\ rt' = rejected(s, d.intent)
               \/ /\ d.intent.kind # "none" /\ Meaningful(s, d.intent)
                  /\ rt' = command(submitted(s, d.intent), d.intent, writable)
  BY Zenon DEF Decide
<1> DEFINE s == Taken(r, d)
           i == d.intent
<1>2. /\ i \in Intents
      /\ s \in Runtimes /\ SameLink(s, r)
      /\ i.kind = "none" => Sound(mode, s)
      /\ i.kind # "none" =>
           /\ i.side \in Sides
           /\ submitted(s, i) \in Runtimes /\ Sound(mode, submitted(s, i))
           /\ rejected(s, i) \in Runtimes /\ Sound(mode, rejected(s, i))
           /\ SameLink(submitted(s, i), r) /\ SameLink(rejected(s, i), r)
  BY InvFacts, DecisionSound
<1>3. /\ FewerLeft /\ LinkTypes /\ Types
  BY <1>1, InvFacts, EntrySpentLess DEF TradeInv
<1>4. \/ i.kind = "none" /\ rt' = s
      \/ i.kind # "none" /\ rt' = rejected(s, i)
      \/ i.kind # "none" /\ Meaningful(s, i) /\ rt' = command(submitted(s, i), i, writable)
  BY <1>1 DEF Taken
<1> HIDE DEF s, i
<1>5. CASE i.kind = "none" /\ rt' = s
  BY <1>2, <1>3, <1>5, LinkedSame, RuntimeMoved
<1>6. CASE i.kind # "none" /\ rt' = rejected(s, i)
  BY <1>2, <1>3, <1>6, LinkedSame, RuntimeMoved
<1>7. CASE i.kind # "none" /\ Meaningful(s, i) /\ rt' = command(submitted(s, i), i, writable)
  <2> DEFINE a == submitted(s, i)
  <2>1. a \in Runtimes /\ Sound(mode, a) /\ SameLink(a, r) /\ i.side \in Sides
    BY <1>2, <1>7
  <2>2. /\ Linked(a) /\ ~a.bridge.in_flight
        /\ (i.kind = "enter") = (a.bridge.position = "none")
    BY <2>1, <1>2, <1>7, LinkedSame DEF SameLink, Meaningful
  <2>3. rt' = IF i.kind = "enter" THEN Send(a, i.side, writable) ELSE SendExit(a, i.side, writable)
    BY <1>7 DEF command
  <2> HIDE DEF a
  <2>4. i.side \in Actions /\ i.side # "CLOSE" /\ "CLOSE" \in Actions
    BY <2>1 DEF Actions, Sides
  <2>5. CASE i.kind = "enter"
    <3>1. rt' \in Runtimes /\ SameTrade(rt', a) /\ (rt' = a \/ SentAs(rt', a, i.side))
      BY <2>1, <2>3, <2>4, <2>5, SendForm
    <3>2. Linked(rt')
      BY <3>1, <2>1, <2>2, <2>4, <1>3, LinkedSent
    <3> QED
      BY <3>1, <3>2, <2>1, <1>3, SoundSame, RuntimeMoved
  <2>6. CASE i.kind # "enter"
    <3>1. rt' \in Runtimes /\ SameTrade(rt', a) /\ (rt' = a \/ SentAs(rt', a, "CLOSE"))
      BY <2>1, <2>3, <2>6, SendExitForm
    <3>2. Linked(rt')
      BY <3>1, <2>1, <2>2, <2>4, <2>6, <1>3, LinkedSent
    <3> QED
      BY <3>1, <3>2, <2>1, <1>3, SoundSame, RuntimeMoved
  <2> QED
    BY <2>5, <2>6
<1> QED
  BY <1>4, <1>5, <1>6, <1>7

LEMMA PassSafe ==
  ASSUME TradeInv, NEW expired \in BOOLEAN, NEW writable \in BOOLEAN, NEW tick \in BOOLEAN,
         NEW outcome \in Outcomes, Pass(expired, writable, tick, outcome)
  PROVE  TradeInv'
<1> DEFINE polled == bridge_poll_ack(rt)
           retried == bridge_retry_if_timed_out(polled, expired, writable)
           r == IF tick THEN settle(on_quote(retried, outcome)) ELSE retried
<1>1. up /\ mode = "bridge" /\ UNCHANGED <<setup, up, ea, mt5, ack, acted>>
  BY DEF Pass
<1>2. \/ rt' = r /\ UNCHANGED left
      \/ rt' = r /\ Spend("slow")
      \/ /\ ~Working(r) /\ ~r.bridge.in_flight
         /\ OneSided(r) \/ Opposed(r) \/ Phantom(r)
         /\ rt' = reconcile(r, writable) /\ UNCHANGED left
      \/ ~Working(r) /\ ~r.bridge.in_flight /\ Decide(r, writable)
  BY DEF Pass
<1>3. /\ mode \in Modes /\ kind \in Kinds /\ rt \in Runtimes /\ left \in [FaultKinds -> Nat]
      /\ Sound(mode, rt) /\ Linked(rt) /\ LinkTypes /\ ack \in Acks /\ Types
  BY InvFacts DEF TradeInv
<1>4. polled \in Runtimes /\ Sound(mode, polled) /\ Linked(polled)
  <2>1. polled \in Runtimes /\ SameTrade(polled, rt) /\ (polled = rt \/ AnsweredAs(polled, rt))
    BY <1>3, PollForm
  <2> HIDE DEF polled
  <2> QED
    BY <2>1, <1>3, SoundSame, LinkedAnswered
<1> HIDE DEF polled
<1>5. retried \in Runtimes /\ Sound(mode, retried) /\ Linked(retried)
  <2>1. /\ retried \in Runtimes /\ SameTrade(retried, polled)
        /\ \/ retried = polled
           \/ polled.bridge.in_flight /\ SentAs(retried, polled, polled.bridge.action)
    BY <1>4, RetryForm
  <2>2. polled.bridge.in_flight => polled.bridge.action \in Actions
    BY <1>4 DEF Runtimes, Bridges
  <2> HIDE DEF retried
  <2> QED
    BY <2>1, <2>2, <1>1, <1>3, <1>4, SoundSame, LinkedSent
<1> HIDE DEF retried
<1>6. r \in Runtimes /\ Sound(mode, r) /\ Linked(r)
  <2>1. CASE ~tick
    BY <2>1, <1>5
  <2>2. CASE tick
    <3> DEFINE q == QuotedAs(mode, retried, outcome)
    <3>1. r = q
      BY <2>2, <1>1 DEF QuotedAs
    <3>2. q \in Runtimes /\ Sound(mode, q) /\ SameLink(q, retried)
      BY <1>3, <1>5, QuotedSound, OutcomesKnown
    <3> HIDE DEF q, r
    <3> QED
      BY <3>1, <3>2, <1>5, LinkedSame
  <2> QED
    BY <2>1, <2>2
<1> HIDE DEF r
<1>7. CASE rt' = r /\ (UNCHANGED left \/ Spend("slow"))
  <2>1. "slow" \in FaultKinds
    BY DEF FaultKinds
  <2> QED
    BY <2>1, <1>1, <1>3, <1>6, <1>7, SameLess, SpentLess, RuntimeMoved
<1>8. CASE /\ ~Working(r) /\ ~r.bridge.in_flight
           /\ OneSided(r) \/ Opposed(r) \/ Phantom(r)
           /\ rt' = reconcile(r, writable) /\ UNCHANGED left
  BY <1>1, <1>6, <1>8, ReconcileSafe
<1>9. CASE ~Working(r) /\ ~r.bridge.in_flight /\ Decide(r, writable)
  BY <1>1, <1>6, <1>9, DecideSafe
<1> QED
  BY <1>2, <1>7, <1>8, <1>9

LEMMA FastPassSafe == ASSUME TradeInv, FastPass PROVE TradeInv'
<1>1. PICK writable \in BOOLEAN, tick \in BOOLEAN, outcome \in Outcomes :
        \E expired \in IF rt.bridge.in_flight THEN BOOLEAN ELSE {FALSE} :
          Pass(expired, writable, tick, outcome)
  BY DEF FastPass
<1>2. PICK expired \in IF rt.bridge.in_flight THEN BOOLEAN ELSE {FALSE} :
        Pass(expired, writable, tick, outcome)
  BY <1>1
<1>3. expired \in BOOLEAN
  OBVIOUS
<1> QED
  BY <1>2, <1>3, PassSafe
-----------------------------------------------------------------------------
(* The script and the broker behind it. *)

\* The runtime, and the mode, stay as they are.
LEMMA ScriptMoved ==
  ASSUME TradeInv, UNCHANGED <<setup, up, rt>>, FewerLeft,
         ea' \in Scripts, mt5' \in OrNone(Sides), ack' \in Acks, acted' \in Int
  PROVE  /\ Types' /\ StrategyInv' /\ mode' = mode
         /\ Undisturbed' => Undisturbed
         /\ Unspent("restart")' => Unspent("restart")
         /\ LinkInv' <=> Linked(rt)'
<1>1. Types /\ mode' = mode
  BY DEF TradeInv, mode
<1>2. Types'
  BY <1>1, UnspentBefore DEF Types, FewerLeft
<1>3. StrategyInv'
  BY <1>1 DEF TradeInv, StrategyInv, Sound, Holds
<1> QED
  BY <1>1, <1>2, <1>3, UndisturbedBefore DEF LinkInv

LEMMA AckWritten ==
  ASSUME left \in [FaultKinds -> Nat], ack \in Acks, NEW n \in Int, NEW status \in Statuses,
         WriteAck(n, status) \/ (status = "REJECT" /\ RefusedAck(n))
  PROVE  /\ FewerLeft /\ ack' \in Acks
         /\ ack' = ack \/ (ack'.seq = n /\ ack'.status = status)
<1>1. "lost" \in FaultKinds /\ "refusal" \in FaultKinds /\ "REJECT" \in Statuses
  BY DEF FaultKinds, Statuses
<1>2. [seq |-> n, status |-> status] \in Acks
  BY DEF Acks, OrNone
<1>3. /\ ack' = [seq |-> n, status |-> status] \/ ack' = ack
      /\ UNCHANGED left \/ Spend("lost") \/ Spend("refusal")
  BY <1>1 DEF WriteAck, RefusedAck
<1>4. FewerLeft
  BY <1>1, <1>3, SpentLess, SameLess
<1> QED
  BY <1>2, <1>3, <1>4

\* The two ways a command that was seen goes on: answered at once, or sent to the broker.
TimerAnswer(c, status) ==
  /\ ea'.busy = Nothing
  /\ WriteAck(c.seq, status) \/ (status = "REJECT" /\ RefusedAck(c.seq))
  /\ status \in {"CLOSED", "CLOSE_NOOP"} => mt5 = "none"
  /\ status = "REJECT" /\ mt5 # "none" => ea.rejects >= MaxConsec
  /\ status \in Statuses
TimerSends(c) == /\ ea'.busy = c /\ (c.action = "CLOSE") = (mt5 # "none")
                 /\ UNCHANGED <<ack, left>>

LEMMA OnTimerForm ==
  ASSUME ea \in Scripts, rt.cmd \in Commands, acted \in Int, OnTimer
  PROVE  /\ ea' \in Scripts /\ ea'.last = rt.cmd.seq /\ ea'.rejects = ea.rejects /\ ea'.kill = ea.kill
         /\ acted' \in Int
         /\ (\E status \in Statuses : TimerAnswer(rt.cmd, status)) \/ TimerSends(rt.cmd)
<1> DEFINE c == rt.cmd
           taken == [ea EXCEPT !.last = c.seq]
<1>1. Seen /\ ea.busy = Nothing
  BY DEF OnTimer, Seen
<1>2. c.seq \in Int /\ c \in Commands
  BY DEF Commands, Nothing
<1>3. /\ taken \in Scripts /\ taken.last = c.seq /\ taken.rejects = ea.rejects /\ taken.kill = ea.kill
      /\ taken.busy = Nothing
  BY <1>1, <1>2 DEF Scripts
<1>4. acted' \in Int
  <2>1. ea'.busy = Nothing \/ ea'.busy = c
    BY <1>1, <1>3 DEF OnTimer, Scripts
  <2> QED
    BY <2>1, <1>2 DEF OnTimer, MaxOf
<1>5. {"REJECT", "CLOSE_NOOP", "SKIP_MAX_POSITION"} \subseteq Statuses
  BY DEF Statuses
<1>6. ASSUME ea' = [taken EXCEPT !.armed = FALSE] \/ ea' = taken
      PROVE  /\ ea' \in Scripts /\ ea'.last = c.seq /\ ea'.rejects = ea.rejects /\ ea'.kill = ea.kill
             /\ ea'.busy = Nothing
  BY <1>3, <1>6 DEF Scripts
<1>7. CASE ea.rejects >= MaxConsec /\ ea' = [taken EXCEPT !.armed = FALSE] /\ WriteAck(c.seq, "REJECT")
  BY <1>4, <1>5, <1>6, <1>7 DEF TimerAnswer
<1>8. CASE mt5 = "none" /\ ea' = taken /\ WriteAck(c.seq, "CLOSE_NOOP")
  BY <1>4, <1>5, <1>6, <1>8 DEF TimerAnswer
<1>9. CASE mt5 # "none" /\ ea' = taken /\ WriteAck(c.seq, "SKIP_MAX_POSITION")
  BY <1>4, <1>5, <1>6, <1>9 DEF TimerAnswer
<1>10. CASE mt5 = "none" /\ ea' = taken /\ RefusedAck(c.seq)
  BY <1>4, <1>5, <1>6, <1>10 DEF TimerAnswer
<1>11. CASE /\ (c.action = "CLOSE") = (mt5 # "none") /\ ea' = [taken EXCEPT !.busy = c]
            /\ UNCHANGED <<ack, left>>
  <2> HIDE DEF taken, c
  <2>1. /\ ea' \in Scripts /\ ea'.last = c.seq /\ ea'.rejects = ea.rejects /\ ea'.kill = ea.kill
        /\ ea'.busy = c
    BY <1>2, <1>3, <1>11 DEF Scripts
  <2> QED
    BY <2>1, <1>4, <1>11 DEF TimerSends, c
<1> QED
  BY <1>7, <1>8, <1>9, <1>10, <1>11 DEF OnTimer

LEMMA OnTimerSafe == ASSUME TradeInv, OnTimer PROVE TradeInv'
<1> DEFINE c == rt.cmd
<1>1. /\ ea \in Scripts /\ c \in Commands /\ acted \in Int /\ rt \in Runtimes /\ ack \in Acks
      /\ left \in [FaultKinds -> Nat] /\ mt5 \in OrNone(Sides)
  BY DEF TradeInv, Types, Runtimes
<1>2. /\ ea' \in Scripts /\ ea'.last = c.seq /\ ea'.rejects = ea.rejects /\ ea'.kill = ea.kill
      /\ acted' \in Int
      /\ (\E status \in Statuses : TimerAnswer(c, status)) \/ TimerSends(c)
  BY <1>1, OnTimerForm
<1>3. /\ ea.busy = Nothing /\ c # Nothing /\ c.seq > ea.last
      /\ UNCHANGED <<setup, up, rt, mt5>>
  BY DEF OnTimer, Seen
<1>4. /\ c.seq \in Int /\ ea.last \in Int /\ ack.seq \in Int /\ rt.bridge.pending_seq \in Nat
      /\ ea.rejects \in Nat
  BY <1>1 DEF Commands, Nothing, Scripts, Acks, Runtimes, Bridges
<1>5. mode = "bridge"
  BY <1>3 DEF TradeInv, LinkInv, Linked
\* What is the same whichever way the command goes on.
<1>6. ASSUME FewerLeft, ack' \in Acks, ack' = ack \/ ack'.seq = c.seq,
             ea'.busy = Nothing \/ (ea'.busy = c /\ ack' = ack /\ (c.action # "CLOSE" => mt5 = "none")),
             ack' # ack => /\ ack'.status \in {"CLOSED", "CLOSE_NOOP"} => mt5 = "none"
                           /\ ack'.status = "REJECT" /\ mt5 # "none" => ea.rejects >= MaxConsec
                           /\ ack'.status \in Statuses
      PROVE  TradeInv'
  <2>1. /\ Types' /\ StrategyInv' /\ mode' = mode
        /\ Undisturbed' => Undisturbed
        /\ Unspent("restart")' => Unspent("restart")
        /\ LinkInv' <=> Linked(rt)'
    BY <1>1, <1>2, <1>3, <1>6, ScriptMoved
  <2>2. ack'.seq \in Int
    BY <1>6 DEF Acks
  <2>3. ASSUME ScriptInv(rt) PROVE ScriptInv(rt)'
    <3>1. ack.seq <= ea.last /\ ack.seq < c.seq /\ ack'.seq <= c.seq /\ ~ea.kill
          /\ c.action \in Actions /\ c.seq > 0
      BY <2>3, <1>3, <1>4, <1>6 DEF ScriptInv
    <3> HIDE DEF c
    <3>2. rt'.cmd = c
      BY <1>3 DEF c
    <3> QED
      BY <3>1, <3>2, <1>2, <1>3, <1>6 DEF ScriptInv
  <2>4. ASSUME ScriptInv(rt), ProcessInv(rt) PROVE ProcessInv(rt)' /\ rt.bridge.action = c.action
    <3>1. Current(rt)
      BY <2>4, <1>3 DEF ProcessInv, Unsent
    <3>2. c.seq = rt.bridge.pending_seq /\ c.action = rt.bridge.action
      BY <3>1 DEF Current
    <3>3. rt.bridge.in_flight
      BY <2>4, <3>2, <1>3, <1>4 DEF ProcessInv
    <3>4. ack.seq < rt.bridge.pending_seq
      BY <2>4, <3>2, <1>3, <1>4 DEF ScriptInv
    <3>5. Current(rt)'
      BY <3>1, <1>3 DEF Current
    <3>6. ack'.seq >= rt'.bridge.pending_seq => ack' # ack
      BY <3>4, <1>3, <1>4
    <3>7. ASSUME BelievesFlat(rt) PROVE Entering(rt)'
      <4>1. Entering(rt)
        BY <3>7, <2>4 DEF ProcessInv
      <4>2. /\ rt.bridge.action \in Sides
            /\ mt5 # "none" => ea.rejects = 0
        BY <4>1, <3>3 DEF Entering
      <4>3. ea'.busy # Nothing => ea'.busy.action = rt.bridge.action
        BY <1>6, <3>2
      <4>4. ASSUME mt5 # "none", ack'.seq >= rt'.bridge.pending_seq
            PROVE  ack'.status \in {"FILLED", "SKIP_MAX_POSITION"}
        <5>1. ~(ea.rejects >= MaxConsec)
          BY <4>2, <4>4, PaperAssumption
        <5> QED
          BY <5>1, <4>4, <3>6, <1>6 DEF Statuses
      <4> QED
        BY <4>2, <4>3, <4>4, <1>2, <1>3 DEF Entering
    <3> QED
      BY <3>2, <3>3, <3>4, <3>5, <3>6, <3>7, <1>3, <1>6 DEF ProcessInv, BelievesFlat, Idling
  <2>5. ASSUME ScriptInv(rt), FirstInv(rt), up /\ ~rt.bridge.blind => ProcessInv(rt)
        PROVE  FirstInv(rt)'
    <3>1. up /\ ~rt.bridge.blind
      BY <2>5, <1>3 DEF FirstInv
    <3>2. rt.bridge.action = c.action
      BY <3>1, <2>4, <2>5
    <3> QED
      BY <3>1, <3>2, <1>3, <1>6 DEF FirstInv
  <2> QED
    BY <2>1, <2>3, <2>4, <2>5, <1>3, <1>5 DEF TradeInv, LinkInv, Linked
<1>7. ASSUME NEW status \in Statuses, TimerAnswer(c, status) PROVE TradeInv'
  <2>1. /\ FewerLeft /\ ack' \in Acks
        /\ ack' = ack \/ (ack'.seq = c.seq /\ ack'.status = status)
    BY <1>1, <1>4, <1>7, AckWritten DEF TimerAnswer
  <2> QED
    BY <2>1, <1>6, <1>7 DEF TimerAnswer
<1>8. CASE TimerSends(c)
  <2>1. FewerLeft /\ ack' = ack
    BY <1>1, <1>8, SameLess DEF TimerSends
  <2> QED
    BY <2>1, <1>1, <1>6, <1>8 DEF TimerSends
<1> QED
  BY <1>2, <1>7, <1>8

\* What the broker's answer does, by what it was asked for.
LEMMA OrderSendForm ==
  ASSUME ea \in Scripts, mt5 \in OrNone(Sides), ack \in Acks, left \in [FaultKinds -> Nat], OrderSend
  PROVE  LET c == ea.busy
         IN  /\ ea' \in Scripts /\ ea'.last = ea.last /\ ea'.kill = ea.kill /\ ea'.busy = Nothing
             /\ mt5' \in OrNone(Sides) /\ ack' \in Acks /\ FewerLeft
             /\ ack' = ack \/ ack'.seq = c.seq
             /\ \/ c.action = "CLOSE" /\ mt5' = "none" /\ (ack' = ack \/ ack'.status \in {"CLOSED", "REJECT"})
                \/ /\ c.action # "CLOSE" /\ mt5' = c.action /\ ea'.rejects = 0
                   /\ ack' = ack \/ ack'.status = "FILLED"
                \/ mt5' = mt5 /\ (ack' = ack \/ ack'.status = "REJECT")
<1> DEFINE c    == ea.busy
           done == [ea EXCEPT !.busy = Nothing, !.rejects = 0, !.backoff = FALSE]
           fail == [ea EXCEPT !.busy = Nothing, !.rejects = @ + 1, !.backoff = TRUE]
<1>1. c \in Commands /\ c # Nothing /\ ea.rejects + 1 \in Nat /\ Nothing \in Commands
  BY DEF OrderSend, CloseOwnPositions, Scripts, Commands
<1>2. c.seq \in Int /\ c.action \in Actions
  BY <1>1 DEF Commands
<1>3. /\ done \in Scripts /\ done.last = ea.last /\ done.kill = ea.kill /\ done.busy = Nothing
      /\ done.rejects = 0
      /\ fail \in Scripts /\ fail.last = ea.last /\ fail.kill = ea.kill /\ fail.busy = Nothing
  BY <1>1 DEF Scripts
<1>4. {"CLOSED", "REJECT", "FILLED"} \subseteq Statuses
  BY DEF Statuses
<1> HIDE DEF c, done, fail
<1>5. CASE c.action = "CLOSE" /\ mt5' = "none" /\ ea' = done /\ WriteAck(c.seq, "CLOSED")
  <2>1. FewerLeft /\ ack' \in Acks /\ (ack' = ack \/ (ack'.seq = c.seq /\ ack'.status = "CLOSED"))
    BY <1>2, <1>4, <1>5, AckWritten
  <2> QED
    BY <2>1, <1>3, <1>5 DEF OrNone, c
<1>6. CASE c.action = "CLOSE" /\ mt5 = "none" /\ ea' = fail /\ WriteAck(c.seq, "REJECT") /\ UNCHANGED mt5
  <2>1. FewerLeft /\ ack' \in Acks /\ (ack' = ack \/ (ack'.seq = c.seq /\ ack'.status = "REJECT"))
    BY <1>2, <1>4, <1>6, AckWritten
  <2> QED
    BY <2>1, <1>3, <1>6 DEF OrNone, c
<1>7. CASE c.action # "CLOSE" /\ mt5' = c.action /\ ea' = done /\ WriteAck(c.seq, "FILLED")
  <2>1. FewerLeft /\ ack' \in Acks /\ (ack' = ack \/ (ack'.seq = c.seq /\ ack'.status = "FILLED"))
    BY <1>2, <1>4, <1>7, AckWritten
  <2>2. mt5' \in OrNone(Sides)
    BY <1>2, <1>7 DEF Actions, OrNone, Sides
  <2> QED
    BY <2>1, <2>2, <1>3, <1>7 DEF c
<1>8. CASE ea' = fail /\ RefusedAck(c.seq) /\ UNCHANGED mt5
  <2>1. FewerLeft /\ ack' \in Acks /\ (ack' = ack \/ (ack'.seq = c.seq /\ ack'.status = "REJECT"))
    BY <1>2, <1>4, <1>8, AckWritten
  <2> QED
    BY <2>1, <1>3, <1>8 DEF c
<1> QED
  BY <1>5, <1>6, <1>7, <1>8 DEF OrderSend, CloseOwnPositions, c, done, fail

LEMMA OrderSendSafe == ASSUME TradeInv, OrderSend PROVE TradeInv'
<1> DEFINE c == ea.busy
<1>1. /\ ea \in Scripts /\ acted \in Int /\ rt \in Runtimes /\ ack \in Acks
      /\ left \in [FaultKinds -> Nat] /\ mt5 \in OrNone(Sides)
  BY DEF TradeInv, Types
<1>2. c # Nothing /\ UNCHANGED <<setup, up, rt, acted>>
  BY DEF OrderSend, CloseOwnPositions
<1>3. /\ ea' \in Scripts /\ ea'.last = ea.last /\ ea'.kill = ea.kill /\ ea'.busy = Nothing
      /\ mt5' \in OrNone(Sides) /\ ack' \in Acks /\ FewerLeft
      /\ ack' = ack \/ ack'.seq = c.seq
      /\ \/ c.action = "CLOSE" /\ mt5' = "none" /\ (ack' = ack \/ ack'.status \in {"CLOSED", "REJECT"})
         \/ /\ c.action # "CLOSE" /\ mt5' = c.action /\ ea'.rejects = 0
            /\ ack' = ack \/ ack'.status = "FILLED"
         \/ mt5' = mt5 /\ (ack' = ack \/ ack'.status = "REJECT")
  BY <1>1, OrderSendForm
<1> HIDE DEF c
<1>4. /\ Types' /\ StrategyInv' /\ mode' = mode
      /\ Undisturbed' => Undisturbed
      /\ Unspent("restart")' => Unspent("restart")
      /\ LinkInv' <=> Linked(rt)'
  BY <1>1, <1>2, <1>3, ScriptMoved
<1>5. mode = "bridge"
  BY <1>2 DEF TradeInv, LinkInv, Linked, c
<1>6. ack.seq \in Int /\ ea.last \in Int /\ rt.bridge.pending_seq \in Nat
  BY <1>1 DEF Scripts, Acks, Runtimes, Bridges
<1>7. ASSUME ScriptInv(rt) PROVE ScriptInv(rt)'
  <2>1. /\ c.seq = ea.last /\ ack.seq <= ea.last /\ ~ea.kill /\ rt.cmd # Nothing
        /\ rt.cmd.action \in Actions /\ rt.cmd.seq > 0
    BY <1>2, <1>7 DEF ScriptInv, c
  <2>2. ack'.seq <= ea.last
    BY <2>1, <1>3, <1>6
  <2> QED
    BY <2>1, <2>2, <1>2, <1>3 DEF ScriptInv
<1>8. ASSUME ScriptInv(rt), ProcessInv(rt) PROVE ProcessInv(rt)'
  <2>1. rt.bridge.in_flight /\ ack.seq < rt.bridge.pending_seq
    BY <1>2, <1>8 DEF ProcessInv, c
  <2>2. (Unsent(rt) \/ Current(rt))'
    BY <1>2, <1>8 DEF ProcessInv, Unsent, Current
  <2>3. ack'.seq >= rt'.bridge.pending_seq => ack' # ack
    BY <2>1, <1>2, <1>6
  <2>4. ASSUME BelievesFlat(rt) PROVE Entering(rt)'
    <3>1. rt.bridge.action \in Sides /\ c.action = rt.bridge.action
      BY <2>1, <2>4, <1>2, <1>8 DEF ProcessInv, Entering, c
    <3>2. c.action # "CLOSE" /\ mt5 = "none"
      BY <3>1, <1>2, <1>8 DEF ScriptInv, Sides, c
    <3>3. mt5' # "none" => ea'.rejects = 0 /\ (ack' = ack \/ ack'.status = "FILLED")
      BY <3>2, <1>3
    <3> QED
      BY <3>1, <3>3, <2>3, <1>2, <1>3 DEF Entering
  <2>5. ack'.seq >= rt'.bridge.pending_seq /\ ack'.status \in {"CLOSED", "CLOSE_NOOP"} => mt5' = "none"
    BY <2>3, <1>3
  <2> QED
    BY <2>1, <2>2, <2>4, <2>5, <1>2, <1>3 DEF ProcessInv, BelievesFlat, Idling
<1>9. FirstInv(rt) => FirstInv(rt)'
  BY <1>2, <1>3 DEF FirstInv
<1> QED
  BY <1>2, <1>4, <1>5, <1>7, <1>8, <1>9 DEF TradeInv, LinkInv, Linked

LEMMA BackoffOverSafe == ASSUME TradeInv, BackoffOver PROVE TradeInv'
<1>1. ea' = [ea EXCEPT !.backoff = FALSE] /\ UNCHANGED <<setup, up, rt, mt5, ack, left, acted>>
  BY DEF BackoffOver
<1>2. /\ ea' \in Scripts
      /\ \A f \in {"last", "kill", "busy", "rejects"} : ea'[f] = ea[f]
  BY <1>1 DEF TradeInv, Types, Scripts
<1>3. FewerLeft /\ mt5' \in OrNone(Sides) /\ ack' \in Acks /\ acted' \in Int
  BY <1>1, SameLess DEF TradeInv, Types
<1>4. /\ Types' /\ StrategyInv' /\ mode' = mode
      /\ Undisturbed' => Undisturbed
      /\ Unspent("restart")' => Unspent("restart")
      /\ LinkInv' <=> Linked(rt)'
  BY <1>1, <1>2, <1>3, ScriptMoved
<1>5. ScriptInv(rt) => ScriptInv(rt)'
  BY <1>1, <1>2 DEF ScriptInv
<1>6. ProcessInv(rt) => ProcessInv(rt)'
  BY <1>1, <1>2 DEF ProcessInv, Unsent, Current, BelievesFlat, Idling, Entering
<1>7. FirstInv(rt) => FirstInv(rt)'
  BY <1>1, <1>2 DEF FirstInv
<1> QED
  BY <1>1, <1>2, <1>4, <1>5, <1>6, <1>7 DEF TradeInv, LinkInv, Linked

LEMMA BrokerStopSafe == ASSUME TradeInv, BrokerStop PROVE TradeInv'
<1>1. mt5' = "none" /\ Spend("stop") /\ UNCHANGED <<setup, up, rt, ea, ack, acted>>
  BY DEF BrokerStop
<1>2. FewerLeft
  BY <1>1, InvFacts, SpentLess DEF FaultKinds
<1>3. ea' \in Scripts /\ mt5' \in OrNone(Sides) /\ ack' \in Acks /\ acted' \in Int
  BY <1>1 DEF TradeInv, Types, OrNone
<1>4. /\ Types' /\ StrategyInv' /\ mode' = mode
      /\ Undisturbed' => Undisturbed
      /\ Unspent("restart")' => Unspent("restart")
      /\ LinkInv' <=> Linked(rt)'
  BY <1>1, <1>2, <1>3, ScriptMoved
<1>5. ScriptInv(rt) => ScriptInv(rt)'
  BY <1>1 DEF ScriptInv
<1>6. ProcessInv(rt) => ProcessInv(rt)'
  BY <1>1 DEF ProcessInv, Unsent, Current, BelievesFlat, Idling, Entering
<1>7. FirstInv(rt) => FirstInv(rt)'
  BY <1>1 DEF FirstInv
<1> QED
  BY <1>1, <1>4, <1>5, <1>6, <1>7 DEF TradeInv, LinkInv, Linked

\* The kill file and a new attachment: nothing is claimed of the bridge any more.
LEMMA DisturbSafe ==
  ASSUME TradeInv, DropKillFile \/ OnInit \/ OnTimerKilled \/ RemoveKillFile
  PROVE  TradeInv'
<1>1. UNCHANGED <<setup, up, rt, mt5, ack, acted>>
  BY DEF DropKillFile, OnInit, OnTimerKilled, RemoveKillFile
<1>2. ea' \in Scripts /\ ea'.busy = ea.busy
  <2>1. ea \in Scripts /\ -1 \in Int /\ -999 \in Int
    BY DEF TradeInv, Types
  <2>2. CASE DropKillFile \/ RemoveKillFile
    BY <2>1, <2>2 DEF DropKillFile, RemoveKillFile, Scripts
  <2>3. CASE OnTimerKilled
    BY <2>1, <2>3 DEF OnTimerKilled, Scripts
  <2>4. CASE OnInit
    BY <2>1, <2>4 DEF OnInit, Scripts
  <2> QED
    BY <2>2, <2>3, <2>4
<1>3. {"kill", "attach"} \subseteq FaultKinds
  BY DEF FaultKinds
<1>4. FewerLeft /\ (left'["kill"] < left["kill"] \/ left'["attach"] < left["attach"] \/ ea.kill)
  <2>1. CASE DropKillFile \/ OnInit
    BY <2>1, <1>3, InvFacts, SpentLess DEF DropKillFile, OnInit
  <2>2. CASE OnTimerKilled \/ RemoveKillFile
    BY <2>2, InvFacts, SameLess DEF OnTimerKilled, RemoveKillFile
  <2> QED
    BY <2>1, <2>2
<1>5. mt5' \in OrNone(Sides) /\ ack' \in Acks /\ acted' \in Int
  BY <1>1 DEF TradeInv, Types
<1>6. /\ Types' /\ StrategyInv' /\ mode' = mode
      /\ Undisturbed' => Undisturbed
      /\ LinkInv' <=> Linked(rt)'
  BY <1>1, <1>2, <1>4, <1>5, ScriptMoved
<1>7. mode = "bridge" => ~Undisturbed'
  <2>1. ASSUME Undisturbed' PROVE left'["kill"] = left["kill"] /\ left'["attach"] = left["attach"]
    BY <2>1, <1>1, <1>3, <1>4, UnspentBefore DEF TradeInv, Undisturbed
  <2>2. left["kill"] \in Nat /\ left["attach"] \in Nat
    BY <1>3, InvFacts
  <2>3. ea.kill /\ mode = "bridge" => ~Undisturbed
    BY DEF TradeInv, LinkInv, Linked, ScriptInv
  <2> QED
    BY <2>1, <2>2, <2>3, <1>4, <1>6
<1> QED
  BY <1>1, <1>2, <1>6, <1>7 DEF TradeInv, LinkInv, Linked
-----------------------------------------------------------------------------
(* The invariant, and what follows from it. *)

LEMMA InitTrade == ASSUME Init PROVE TradeInv
<1>1. mode \in Modes /\ setup \in Setups
  BY SetupTypes DEF Init
<1>2. rt = Runtime /\ Runtime \in Runtimes /\ Sound(mode, Runtime)
  BY <1>1, RuntimeSound DEF Init
<1>3. Faults[mode] \in [FaultKinds -> Nat]
  BY <1>1, PaperAssumption
<1>4. left = Faults[mode] /\ up = FALSE /\ mt5 = "none" /\ acted = -1
  BY DEF Init
<1>5. Types
  <2>1. ea \in Scripts
    BY DEF Init, Scripts, Commands
  <2>2. ack \in Acks
    BY DEF Init, Acks, OrNone
  <2>3. \A f \in FaultKinds : left[f] <= Faults[mode][f]
    BY <1>3, <1>4
  <2>4. mt5 \in OrNone(Sides) /\ acted \in Int
    BY <1>4 DEF OrNone
  <2> QED
    BY <2>1, <2>2, <2>3, <2>4, <1>1, <1>2, <1>3, <1>4 DEF Types
<1>6. /\ ea.busy = Nothing /\ ~ea.kill /\ ea.last = -1 /\ ack.seq = -1 /\ ack.status = "none"
      /\ rt.cmd = Nothing
  BY <1>2 DEF Init, Runtime
<1>7. ScriptInv(rt) /\ FirstInv(rt)
  BY <1>4, <1>6 DEF ScriptInv, FirstInv
<1> QED
  BY <1>2, <1>4, <1>5, <1>6, <1>7 DEF TradeInv, StrategyInv, LinkInv, Linked

LEMMA NextTrade == ASSUME TradeInv, [Next]_vars PROVE TradeInv'
<1>1. CASE UNCHANGED vars
  <2>1. UNCHANGED <<setup, up, ea, mt5, ack, acted>> /\ rt' = rt /\ FewerLeft
    BY <1>1, InvFacts, SameLess DEF vars
  <2> QED
    BY <2>1, InvFacts, RuntimeMoved DEF TradeInv
<1>2. CASE Next
  BY <1>2, StartRuntimeSafe, StopRuntimeSafe, WalEventSafe, StaleHaltSafe, FreezeSafe, FastPassSafe,
     ReplayStartSafe, ReplayEventSafe, OnTimerSafe, OrderSendSafe, BackoffOverSafe, BrokerStopSafe,
     DisturbSafe DEF Next
<1> QED
  BY <1>1, <1>2

LEMMA TradeInvariant == Spec => []TradeInv
<1>1. Init => TradeInv
  BY InitTrade
<1>2. TradeInv /\ [Next]_vars => TradeInv'
  BY NextTrade
<1> QED
  BY <1>1, <1>2, PTL DEF Spec

\* Whatever becomes of an intent - suppressed, refused by risk or broker, filled, or overtaken
\* by a stale feed, a re-arm or a reconciliation - a strategy that waits has a working order
\* it will hear of (paper_trade_main.cpp, strategy_replay_engine.cpp).
THEOREM WaitingIsOwed == Spec => []PendingIsOwed
<1>1. TradeInv => PendingIsOwed
  BY DEF TradeInv, StrategyInv, Sound, Waiting, PendingIsOwed, NoOrder
<1> QED
  BY <1>1, TradeInvariant, PTL

\* Until the feed goes stale, the strategy holds what the simulated broker holds for it, for
\* every strategy, any limits and any number of refused, lost or repeated orders.
THEOREM StrategyMatchesBroker == Spec => []PaperAgrees
<1>1. TradeInv => PaperAgrees
  BY DEF TradeInv, StrategyInv, Sound, Holds, PaperAgrees
<1> QED
  BY <1>1, TradeInvariant, PTL

\* A process that could write its first CLOSE never believes MT5 flat while MT5 holds a
\* position, for any number of restarts, retries, late or lost answers and refusals
\* (bridge_poll_ack, bridge_retry_if_timed_out and the script's duplicate guard).
THEOREM BridgeViewSound == Spec => []ViewSound
<1>1. TradeInv => ViewSound
  BY DEF TradeInv, LinkInv, Linked, ProcessInv, BelievesFlat, Idling, ViewSound
<1> QED
  BY <1>1, TradeInvariant, PTL

LEMMA OpensAwaited ==
  ASSUME TradeInv, [Next]_vars, mt5 = "none", mt5' # "none", Undisturbed, Unspent("restart")
  PROVE  rt.bridge.in_flight /\ rt.bridge.action = mt5'
<1>1. OrderSend
  <2>1. CASE StartRuntime \/ StopRuntime \/ WalEvent \/ StaleHalt \/ Freeze \/ ReplayStart \/ ReplayEvent
    BY <2>1 DEF StartRuntime, StopRuntime, WalEvent, StaleHalt, Freeze, ReplayStart, ReplayEvent
  <2>2. CASE FastPass
    BY <2>2 DEF FastPass, Pass
  <2>3. CASE OnTimer \/ BackoffOver \/ BrokerStop \/ DropKillFile \/ OnTimerKilled \/ RemoveKillFile \/ OnInit
    BY <2>3 DEF OnTimer, BackoffOver, BrokerStop, DropKillFile, OnTimerKilled, RemoveKillFile, OnInit
  <2>4. CASE UNCHANGED vars
    BY <2>4 DEF vars
  <2> QED
    BY <2>1, <2>2, <2>3, <2>4 DEF Next
<1>2. ea.busy # Nothing /\ mt5' = ea.busy.action
  BY <1>1 DEF OrderSend, CloseOwnPositions
<1>3. mode = "bridge"
  BY <1>2 DEF TradeInv, LinkInv, Linked
<1>4. FirstInv(rt) /\ (up /\ ~rt.bridge.blind => ProcessInv(rt))
  BY <1>3 DEF TradeInv, LinkInv, Linked
<1> QED
  BY <1>2, <1>4 DEF FirstInv, ProcessInv

\* While the runtime is not restarted, MT5 only opens the side the runtime is waiting for,
\* however late the answers and however often the command was sent again.
THEOREM OnlyAwaitedOpens == Spec => OpensOnlyAwaited
<1>1. TradeInv /\ [Next]_vars =>
        [(/\ mt5 = "none" /\ mt5' # "none"
          /\ Undisturbed /\ Unspent("restart"))
            => rt.bridge.in_flight /\ rt.bridge.action = mt5']_vars
  BY OpensAwaited
<1> QED
  BY <1>1, TradeInvariant, PTL DEF Spec, OpensOnlyAwaited
=============================================================================

------------------------------ MODULE Strategy ------------------------------
(***************************************************************************)
(* The life cycle that the three strategies share (baseline scalper, L1    *)
(* scalper, scalp-and-flip), as operators on the record of one strategy.   *)
(* Prices, signals and thresholds are abstracted to what they decide: an   *)
(* observation says whether the book has both sides, which exit is due,    *)
(* whether the signals are warm, whether the entry filters refuse the      *)
(* quote or else which direction the signals give, and whether the         *)
(* cooldown has run out.                                                   *)
(***************************************************************************)
EXTENDS Naturals

CONSTANTS MaxPositions,  \* max_positions of the strategy's configuration
          MaxLosses      \* max_consecutive_losses

ASSUME StrategyAssumption == MaxPositions \in Nat \ {0} /\ MaxLosses \in Nat \ {0}

Kinds == {"baseline", "l1", "flip"}
Sides == {"buy", "sell"}
OrNone(S) == S \cup {"none"}
Opposite(side) == IF side = "buy" THEN "sell" ELSE "buy"

States == {"cold", "idle", "entry_pending", "in_position", "exit_pending", "cooldown", "halted"}

legal(from, to) ==
  \/ to = "halted" /\ from # "halted"
  \/ <<from, to>> \in {<<"cold", "idle">>, <<"idle", "entry_pending">>, <<"idle", "cold">>,
                       <<"entry_pending", "in_position">>, <<"entry_pending", "idle">>,
                       <<"in_position", "exit_pending">>, <<"exit_pending", "cooldown">>,
                       <<"exit_pending", "in_position">>, <<"cooldown", "idle">>}

transition(s, to) == IF legal(s.state, to) THEN [s EXCEPT !.state = to] ELSE s
halt(s) == [s EXCEPT !.state = "halted"]

\* position is the side held; flip and forced are a side when they are set.
Fresh == [state |-> "cold", position |-> "none", open |-> 0, losses |-> 0,
          flip |-> "none", forced |-> "none", reason |-> "none"]

StrategyRecords ==
  [state : States, position : OrNone(Sides), open : 0 .. MaxPositions + 1, losses : 0 .. MaxLosses,
   flip : OrNone(Sides), forced : OrNone(Sides), reason : {"none", "stop", "signal_flip"}]

Flat(s) == s.position = "none"

\* A stop, a take-profit and a time stop are one exit here; a reversal is another.
exit_due(kind) == {"none", "stop"} \cup (IF kind = "flip" THEN {"signal_flip"} ELSE {})

\* In a position only the exit matters, otherwise only what concerns an entry.
Observations(kind) ==
  [both : BOOLEAN, due : exit_due(kind), warm : {TRUE}, entry : {"none"}, cooled : {TRUE}]
  \cup [both : BOOLEAN, due : {"none"}, warm : BOOLEAN,
        entry : {"filtered", "none", "buy", "sell"}, cooled : BOOLEAN]

NoIntent == [kind |-> "none", side |-> "none"]
Decision(s, intent) == [strat |-> s, intent |-> intent]

exit_decision(s, o) ==
  IF o.due = "none"
  THEN Decision(s, NoIntent)
  ELSE LET close == Opposite(s.position)
           noted == [s EXCEPT !.reason = o.due,
                              !.flip = IF o.due = "signal_flip" THEN close ELSE @]
       IN  Decision(transition(noted, "exit_pending"), [kind |-> "exit", side |-> close])

entry_decision(s, o) ==
  LET side  == IF s.forced # "none" THEN s.forced ELSE o.entry
      spent == [s EXCEPT !.forced = "none"]
  IN  IF side = "none"
      THEN Decision(spent, NoIntent)
      ELSE Decision(transition(spent, "entry_pending"), [kind |-> "enter", side |-> side])

\* What follows the guards at the top of on_market, the same in the three strategies.
decide(s, o) ==
  IF s.state = "in_position" /\ ~Flat(s)
  THEN exit_decision(s, o)
  ELSE IF s.state = "cooldown" /\ ~o.cooled
  THEN Decision(s, NoIntent)
  ELSE LET rested == IF s.state = "cooldown" THEN transition(s, "idle") ELSE s
           ready  == IF rested.state = "cold" /\ o.warm THEN transition(rested, "idle") ELSE rested
       IN  IF /\ o.warm
              /\ ready.state = "idle"
              /\ Flat(ready)
              /\ ready.open < MaxPositions
              /\ o.both /\ o.entry # "filtered"
           THEN entry_decision(ready, o)
           ELSE Decision(ready, NoIntent)

\* The baseline scalper looks for an exit even in a book without two sides.
ScalpFlip_on_market(s, o) ==
  IF s.state = "halted" \/ ~o.both THEN Decision(s, NoIntent) ELSE decide(s, o)
Mt5L1Scalper_on_market(s, o) ==
  IF s.state = "halted" \/ ~o.both THEN Decision(s, NoIntent) ELSE decide(s, o)
BaselineScalper_on_market(s, o) ==
  IF s.state = "halted" THEN Decision(s, NoIntent) ELSE decide(s, o)

on_market(kind, s, o) ==
  CASE kind = "flip"     -> ScalpFlip_on_market(s, o)
    [] kind = "l1"       -> Mt5L1Scalper_on_market(s, o)
    [] kind = "baseline" -> BaselineScalper_on_market(s, o)

on_entry_filled(s, side) ==
  IF s.state = "entry_pending"
  THEN transition([s EXCEPT !.position = side, !.open = @ + 1], "in_position")
  ELSE s

on_entry_rejected(s) == IF s.state = "entry_pending" THEN transition(s, "idle") ELSE s

\* The position is gone; the strategy rests.
exit_done(s) ==
  transition([s EXCEPT !.position = "none", !.open = IF @ > 0 THEN @ - 1 ELSE 0], "cooldown")

CountLoss(s, lost) ==
  LET counted == [s EXCEPT !.losses = IF lost THEN @ + 1 ELSE 0]
  IN  IF counted.losses >= MaxLosses THEN halt(counted) ELSE counted

\* A reversal is carried across the close: it forces the side of the next entry.
ScalpFlip_on_exit_filled(s, lost) ==
  CountLoss(exit_done([s EXCEPT !.forced = IF s.flip # "none" THEN s.flip ELSE @,
                                !.flip = "none"]), lost)
Mt5L1Scalper_on_exit_filled(s, lost) == CountLoss(exit_done(s), lost)
BaselineScalper_on_exit_filled(s) == exit_done(s)

on_exit_filled(kind, s, lost) ==
  CASE s.state # "exit_pending" -> s
    [] s.state = "exit_pending" /\ kind = "flip"     -> ScalpFlip_on_exit_filled(s, lost)
    [] s.state = "exit_pending" /\ kind = "l1"       -> Mt5L1Scalper_on_exit_filled(s, lost)
    [] s.state = "exit_pending" /\ kind = "baseline" -> BaselineScalper_on_exit_filled(s)

\* Mutant: a refused exit is taken for a finished one.
on_exit_rejected_Done(s) == IF s.state = "exit_pending" THEN exit_done(s) ELSE s

on_exit_rejected(s) == IF s.state = "exit_pending" THEN transition(s, "in_position") ELSE s
=============================================================================

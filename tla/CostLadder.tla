------------------------------ MODULE CostLadder ------------------------------
(***************************************************************************)
(* Replays of one market under a ladder of costs: evaluation/stress.py,    *)
(* evaluation/cost_sensitivity.py and run_cost_stress of baseline.py.      *)
(*                                                                         *)
(* A market is what the one strategy replayed proposes at each bar: the    *)
(* move it expects, the bar its position would leave at and the gain it    *)
(* would make.  A trade costs the multiplier, in units of the base cost.   *)
(***************************************************************************)
EXTENDS Integers, Sequences, SequencesExt, FiniteSetsExt

CONSTANTS
  LastBar,     \* bound: the last bar
  Moves, Gains, \* expected moves and gains, in units of the base cost
  Ladder,   \* multipliers, ascending
  Coverage, \* min_edge_coverage
  None

(* What a configuration has to keep to; the modules that run it check it.    *)
LadderAssumption ==
  /\ LastBar \in Nat \ {0} /\ Coverage \in Nat
  /\ Moves \union Gains \subseteq Int
  /\ Ladder \in Seq(Nat) /\ Ladder # <<>>
  /\ \A a, b \in DOMAIN Ladder : a < b => Ladder[a] < Ladder[b]

VARIABLES market, report

vars == <<market, report>>

Bars == 1..LastBar
Exits == {e \in [Bars -> Bars] : \A i \in Bars : e[i] > i \/ e[i] = LastBar}
Markets == [move : [Bars -> Moves], exit : Exits, gain : [Bars -> Gains]]

-----------------------------------------------------------------------------
(* make_candidate and the cost gate of run_baseline. *)
Worth(k, i, m) == k.move[i] > m /\ k.move[i] >= Coverage * m

(* run_baseline: the bars entered, one position after the other. *)
Taken(k, m) ==
  LET from[i \in 1..(LastBar + 1)] ==
        IF i > LastBar THEN {}
        ELSE IF Worth(k, i, m) THEN {i} \union from[k.exit[i] + 1] ELSE from[i + 1]
  IN from[1]

Over(f, S) == MapThenSumSet(LAMBDA x : f[x], S)

Row(k, m) ==
  [multiplier |-> m, trades |-> Cardinality(Taken(k, m)),
   net |-> Over([i \in Bars |-> k.gain[i] - m], Taken(k, m))]

Sweep(k) == [n \in DOMAIN Ladder |-> Row(k, Ladder[n])]

(* _find_break_even: the first fall of the net below zero, and the           *)
(* multiplier between, as a fraction of the difference of the two nets.      *)
Crossings(rows) == {n \in 1..(Len(rows) - 1) : rows[n].net >= 0 /\ rows[n + 1].net < 0}

(* Mutant: the weights of the two rows are swapped. *)
BreakEvenSwapped(rows) ==
  IF Crossings(rows) = {} THEN None
  ELSE LET n == Min(Crossings(rows))
           lower == rows[n]
           upper == rows[n + 1] IN
       [below |-> lower.multiplier, above |-> upper.multiplier, den |-> lower.net - upper.net,
        num |-> lower.multiplier * (lower.net - upper.net)
                  + upper.net * (upper.multiplier - lower.multiplier)]

BreakEven(rows) ==
  IF Crossings(rows) = {} THEN None
  ELSE LET n == Min(Crossings(rows))
           lower == rows[n]
           upper == rows[n + 1] IN
       [below |-> lower.multiplier, above |-> upper.multiplier, den |-> lower.net - upper.net,
        num |-> lower.multiplier * (lower.net - upper.net)
                  + lower.net * (upper.multiplier - lower.multiplier)]

(* _drawdown of a sequence of trades. *)
Drawdown(pnls) ==
  FoldLeft(LAMBDA acc, v :
             LET equity == acc.equity + v
                 peak == Max({acc.peak, equity}) IN
             [equity |-> equity, peak |-> peak, worst |-> Max({acc.worst, peak - equity})],
           [equity |-> 0, peak |-> 0, worst |-> 0], pnls).worst

TradePnls(k, m) ==
  LET S == Taken(k, m) IN
  [n \in 1..Cardinality(S) |->
     LET i == CHOOSE h \in S : Cardinality({j \in S : j < h}) = n - 1 IN k.gain[i] - m]

(* run_stress_matrix, run_combined_stress and cost_envelope_sweep raise for  *)
(* a replay with more trades than the one at base costs.                     *)
Raises(rows) ==
  \E n, b \in DOMAIN rows : rows[b].multiplier = 1 /\ rows[n].trades > rows[b].trades

Init == market \in Markets /\ report = None

Report ==
  /\ report = None
  /\ report' = [rows |-> Sweep(market), breakEven |-> BreakEven(Sweep(market)),
                raises |-> Raises(Sweep(market)),
                drawdowns |-> [n \in DOMAIN Ladder |-> Drawdown(TradePnls(market, Ladder[n]))]]
  /\ UNCHANGED market

Next == Report

Spec == Init /\ [][Next]_vars

TypeOK ==
  /\ market \in Markets
  /\ report # None => Len(report.rows) = Len(Ladder) /\ report.raises \in BOOLEAN

-----------------------------------------------------------------------------
(* While the trades stay the same, the break-even multiplier parts the       *)
(* ladder: what is cheaper does not lose, what is dearer does                *)
(* (cost_sensitivity.py:103-119).                                            *)
BreakEvenParts ==
  (/\ report # None
   /\ report.breakEven # None
   /\ \A m \in ToSet(Ladder) : Taken(market, m) = Taken(market, Ladder[1])) =>
    LET b == report.breakEven IN
    /\ b.below * b.den <= b.num
    /\ b.num < b.above * b.den
    /\ \A n \in DOMAIN report.rows :
         LET r == report.rows[n] IN
         IF r.multiplier * b.den <= b.num THEN r.net >= 0 ELSE r.net < 0

(* The drawdown is the largest fall of the equity between two moments,       *)
(* the beginning included (statistics.py:8-17).                              *)
DrawdownIsWorstFall ==
  report # None =>
    \A n \in DOMAIN Ladder :
      LET pnls == TradePnls(market, Ladder[n])
          fall(i, j) == -Over(pnls, i..j) IN
      report.drawdowns[n] = Max({0} \union {fall(i, j) : i, j \in DOMAIN pnls})

(* Higher costs skip trades, and make one that lower costs did not only in   *)
(* the time of a trade they skip (baseline.py:185-190): a replay is never    *)
(* without a trade that it could have made at the costs.                     *)
InventedTradesWereFreed ==
  \A a, b \in DOMAIN Ladder :
    a < b =>
      LET cheap == Taken(market, Ladder[a])
          dear == Taken(market, Ladder[b]) IN
      \A i \in dear \ cheap : \E j \in cheap \ dear : j < i /\ i <= market.exit[j]

(* "a combined adverse stress can never invent trades"                       *)
(* (stress.py:69-72); "raising costs can only skip trades, never invent      *)
(* them" (cost_sensitivity.py:56).                                           *)
CostsOnlySkipTrades ==
  report # None =>
    \A a, b \in DOMAIN report.rows : a < b => report.rows[b].trades <= report.rows[a].trades
=============================================================================

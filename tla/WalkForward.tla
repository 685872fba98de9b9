----------------------------- MODULE WalkForward -----------------------------
(***************************************************************************)
(* evaluation/baseline.py: a replay asks every strategy at every bar of an *)
(* evaluation window, follows what it enters to its exit, and flattens it  *)
(* at the end of the window; run_walk_forward replays one test window      *)
(* after another.  evaluation/walk_forward_quality.py plans the same       *)
(* windows again to gate the dataset, walk_forward_coverage.py counts      *)
(* them.                                                                   *)
(*                                                                         *)
(* What a strategy proposes and the bar at which a position's protection   *)
(* fires are free (PaperExchange models the venue); the replay simulates a *)
(* position to its end when it enters it, so an entry names its exit.  The *)
(* close that flattens it is of the quantity that was entered, which the   *)
(* venue checks against its steps as it checked the entry (at the price    *)
(* 100, for a market order): it is never refused, and the RuntimeError of  *)
(* baseline.py:219 is not reached.                                         *)
(***************************************************************************)
EXTENDS Integers, Sequences, SequencesExt, FiniteSetsExt

CONSTANTS
  Strategies,     \* the generators, in the order they are asked
  MaxBars,        \* bound: snapshots of a dataset
  Cuts,           \* sixths: train_fraction
  MaxEmbargo, MaxWindow, \* bounds: embargo, test_window
  Marks,          \* mark prices
  Quantity, Cap,  \* BaselineConfig.quantity, max_position_notional_usd
  LotStep,        \* quantity_step of the venue
  MinWindows, MissingPercent,
  Horizon, Step   \* bound: times of supplied bars; the bar interval

(* What a configuration has to keep to; the modules that run it check it. *)
ReplayAssumption ==
  /\ {MaxBars, MaxEmbargo, MaxWindow, Quantity, Horizon} \union Cuts \subseteq Nat
  /\ {LotStep, MinWindows, Step} \union Marks \subseteq Nat \ {0}
  /\ Cap \in Int
  /\ Strategies \in Seq(ToSet(Strategies))

VARIABLES
  phase, \* "windows", "replay", "done", "raised"; "supplied": a dataset only gated
  plan,  \* the configuration: bars, cut, embargo, window, whole
  ts,    \* source_ts_ms of the bars, 0 first
  start, \* test_start
  bar, turn, \* the bar of the replay, the strategy whose turn it is
  busy,  \* busy_until
  trades, \* closed trades
  rows   \* the rows, one for each window replayed

vars == <<phase, plan, ts, start, bar, turn, busy, trades, rows>>

-----------------------------------------------------------------------------
Cut(n, sixths) == Max({1, (n * sixths) \div 6})

(* Complete windows of run_walk_forward and window_plan_from_dataset.        *)
WindowAt(p, s) ==
  [trainEnd |-> s - p.embargo - 1, testStart |-> s, testEnd |-> s + p.window - 1]

NextStart(p, s) == s + p.window + p.embargo

(* _count_windows: complete w-bar windows. *)
CountWindows(p, w) ==
  Cardinality({k \in 0..p.bars : p.cut + p.embargo + k * (w + p.embargo) + w <= p.bars})

(* window_plan_from_dataset: k complete windows, each an embargo from the last. *)
Plan(p) ==
  [k \in 1..CountWindows(p, p.window) |->
     WindowAt(p, p.cut + p.embargo + (k - 1) * (p.window + p.embargo))]

(* Forward-return labels of a window (orderflow_evaluation.py,               *)
(* funding_basis_evaluation.py): entry and exit bars.                        *)
Labels(p, w, period) ==
  {<<i, i + period>> : i \in {j \in w.testStart..w.testEnd :
                               j < Min({w.testEnd - period + 1, p.bars - period})}}

(* _recommend_test_window. *)
Recommended(p) ==
  LET available == p.bars - p.cut - p.embargo
      long == {w \in 1..available : CountWindows(p, w) >= MinWindows} IN
  IF available < 1 THEN 0 ELSE IF long = {} THEN 1 ELSE Max(long)

(* _splits of a replay of everything. *)
Splits(p) ==
  IF p.cut >= p.bars THEN <<>>
  ELSE <<[trainEnd |-> p.cut - 1, testStart |-> Min({p.bars, p.cut + p.embargo}),
          testEnd |-> p.bars - 1]>>

(* effective_quantity and _floor_to_step. *)
OrderQuantity(mark) ==
  LET lots(q, d) == LotStep * (q \div (d * LotStep)) IN
  IF Cap = 0 THEN lots(Quantity, 1) ELSE Min({lots(Quantity, 1), lots(Cap, mark)})

-----------------------------------------------------------------------------
Plans ==
  {[bars |-> n, cut |-> Cut(n, c), embargo |-> e, window |-> w, whole |-> b] :
     n \in 1..MaxBars, c \in Cuts, e \in 0..MaxEmbargo, w \in 1..MaxWindow, b \in BOOLEAN}

Clock(p) == [i \in 0..(p.bars - 1) |-> i * Step]

TypeOK ==
  /\ phase \in {"windows", "replay", "done", "raised", "supplied"} /\ plan \in Plans
  /\ DOMAIN ts = 0..(plan.bars - 1)
  /\ start \in Nat /\ bar \in Nat /\ turn \in 1..(Len(Strategies) + 1)
  /\ busy \in [ToSet(Strategies) -> -1..MaxBars]
  /\ \A t \in trades : t.from \in Nat /\ t.to \in Nat /\ t.quantity \in Nat

Fresh == [s \in ToSet(Strategies) |-> -1]

Init ==
  /\ plan \in Plans
  /\ \/ phase = "windows" /\ ts = Clock(plan)
     \/ /\ phase = "supplied" /\ ~plan.whole /\ plan.bars < MaxBars
        /\ ts \in [0..(plan.bars - 1) -> 1..Horizon]
  /\ start = IF plan.whole THEN 0 ELSE plan.cut + plan.embargo
  /\ bar = 0 /\ turn = 1 /\ busy = Fresh /\ trades = {} /\ rows = <<>>

EvaluationEnd == IF plan.whole THEN plan.bars - 1 ELSE WindowAt(plan, start).testEnd

(* The next complete window, or none: then at least one is required. *)
OpenWindow ==
  /\ phase = "windows"
  /\ IF EvaluationEnd < plan.bars
     THEN phase' = "replay" /\ bar' = start /\ turn' = 1 /\ busy' = Fresh
     ELSE phase' = (IF rows = <<>> THEN "raised" ELSE "done") /\ UNCHANGED <<bar, turn, busy>>
  /\ UNCHANGED <<plan, ts, start, trades, rows>>

Asked == Strategies[turn]
Asking == phase = "replay" /\ bar <= EvaluationEnd /\ turn <= Len(Strategies)

(* No candidate, one the cost gate skips, or an order that is not filled. *)
Declines ==
  /\ Asking /\ turn' = turn + 1
  /\ UNCHANGED <<phase, plan, ts, start, bar, busy, trades, rows>>

(* Mutant: the strategy may enter at the bar its position left. *)
EntersAtExit ==
  /\ Asking /\ bar >= busy[Asked]
  /\ \E mark \in Marks, exit \in (bar + 1)..EvaluationEnd :
       /\ trades' = trades \union
            {[strategy |-> Asked, from |-> bar, to |-> exit, flattened |-> FALSE,
              row |-> Len(rows) + 1, quantity |-> OrderQuantity(mark), mark |-> mark]}
       /\ busy' = [busy EXCEPT ![Asked] = exit]
  /\ turn' = turn + 1
  /\ UNCHANGED <<phase, plan, ts, start, bar, rows>>

(* An entry: protected, followed bar by bar, flattened at the window's end. *)
Enters ==
  /\ Asking /\ bar > busy[Asked]
  /\ \E mark \in Marks, flattened \in BOOLEAN, exit \in bar..EvaluationEnd :
       /\ OrderQuantity(mark) > 0
       /\ IF flattened THEN exit = EvaluationEnd ELSE exit > bar
       /\ trades' = trades \union
            {[strategy |-> Asked, from |-> bar, to |-> exit, flattened |-> flattened,
              row |-> Len(rows) + 1, quantity |-> OrderQuantity(mark), mark |-> mark]}
       /\ busy' = [busy EXCEPT ![Asked] = exit]
  /\ turn' = turn + 1
  /\ UNCHANGED <<phase, plan, ts, start, bar, rows>>

NextBar ==
  /\ phase = "replay" /\ bar <= EvaluationEnd /\ turn > Len(Strategies)
  /\ bar' = bar + 1 /\ turn' = 1
  /\ UNCHANGED <<phase, plan, ts, start, busy, trades, rows>>

CloseWindow ==
  /\ phase = "replay" /\ bar > EvaluationEnd
  /\ rows' = IF plan.whole THEN Splits(plan) ELSE Append(rows, WindowAt(plan, start))
  /\ phase' = IF plan.whole THEN "done" ELSE "windows"
  /\ start' = NextStart(plan, start)
  /\ UNCHANGED <<plan, ts, bar, turn, busy, trades>>

Next == OpenWindow \/ Declines \/ Enters \/ NextBar \/ CloseWindow

Spec == Init /\ [][Next]_vars

-----------------------------------------------------------------------------
(* evaluate_window_quality: the bars between two times (slice_dataset), and  *)
(* what is asked of a train and of a test slice.                             *)
Slice(a, b) == {i \in DOMAIN ts : ts[a] <= ts[i] /\ ts[i] <= ts[b]}
Neighbours(S) == {e \in S \X S : e[1] < e[2] /\ \A k \in S : k <= e[1] \/ k >= e[2]}
Sound(S) == S # {} /\ \A i, j \in S : i < j => ts[i] < ts[j]
Gaps(S) == {e \in Neighbours(S) : ts[e[2]] - ts[e[1]] > Step}

(* n / d to the nearest whole number, a half to the even one. *)
Rounded(n, d) ==
  LET q == n \div d
      up == 2 * (n % d) > d \/ (2 * (n % d) = d /\ q % 2 = 1) IN
  IF up THEN q + 1 ELSE q

Missing(S) == MapThenSumSet(LAMBDA e : Rounded(ts[e[2]] - ts[e[1]], Step) - 1, Gaps(S))

TrainOk(w) ==
  LET S == Slice(0, w.trainEnd) IN
  /\ ts[0] <= ts[w.trainEnd] /\ Sound(S)
  /\ 100 * Missing(S) <= MissingPercent * (Cardinality(S) + Missing(S))

TestOk(w) ==
  LET S == Slice(w.testStart, w.testEnd) IN
  /\ Sound(S) /\ Cardinality(S) = w.testEnd - w.testStart + 1 /\ Gaps(S) = {}

WindowsOk(p) == Plan(p) # <<>> /\ \A k \in DOMAIN Plan(p) : TrainOk(Plan(p)[k]) /\ TestOk(Plan(p)[k])

-----------------------------------------------------------------------------
(* A strategy never holds two positions at once, the bar of an exit          *)
(* included; a trade lies in the window it is reported for, and between      *)
(* trades of two windows there is the embargo (baseline.py:179-182, 206).    *)
TradesStayInPlace ==
  \A t, u \in trades :
    /\ t.strategy = u.strategy /\ t.row = u.row /\ t # u => t.to < u.from \/ u.to < t.from
    /\ ~plan.whole /\ t.row < u.row => t.to + plan.embargo < u.from
    /\ ~plan.whole /\ t.row \in DOMAIN rows =>
         rows[t.row].testStart <= t.from /\ t.to <= rows[t.row].testEnd

(* No order is worth more than the notional cap.                             *)
CapHolds == Cap > 0 => \A t \in trades : t.quantity * t.mark <= Cap

(* The engine's windows are those the quality gate planned and the coverage  *)
(* check counted, and the window it recommends is the longest that leaves    *)
(* enough of them (walk_forward_quality.py:71-79,                            *)
(* walk_forward_coverage.py:63-90).                                          *)
PlannersAgree ==
  ~plan.whole =>
    /\ phase = "done" => rows = Plan(plan)
    /\ phase = "raised" => Plan(plan) = <<>>
    /\ \A k \in DOMAIN rows : rows[k].trainEnd + plan.embargo < rows[k].testStart
    /\ LET w == Recommended(plan) IN
       /\ w > 1 => CountWindows(plan, w) >= MinWindows
       /\ \A v \in (w + 1)..plan.bars : CountWindows(plan, v) < MinWindows

(* A label is made for every bar of a test window whose exit still lies in   *)
(* it, and for no other (orderflow_evaluation.py:70-73, 107-108).            *)
LabelsArePurged ==
  (phase = "windows" /\ rows = <<>>) =>
    \A k \in DOMAIN Plan(plan), period \in 1..plan.bars :
      LET w == Plan(plan)[k] IN
      Labels(plan, w, period) =
        {l \in (w.testStart..w.testEnd) \X (w.testStart..w.testEnd) : l[2] = l[1] + period}

(* A dataset the window gate admits has, in every test window, the bars the  *)
(* engine will trade, all of them, in order and with none missing            *)
(* (walk_forward_quality.py:130-139).                                        *)
AdmittedWindowsAreWhole ==
  phase = "supplied" /\ WindowsOk(plan) =>
    \A k \in DOMAIN Plan(plan) :
      LET w == Plan(plan)[k] IN
      \A i \in w.testStart..(w.testEnd - 1) : ts[i] < ts[i + 1] /\ ts[i + 1] - ts[i] <= Step
=============================================================================

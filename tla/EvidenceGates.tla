---------------------------- MODULE EvidenceGates ----------------------------
(***************************************************************************)
(* The verdicts drawn from walk-forward evidence: the robustness gate of a *)
(* candidate and of a family of candidates (evaluation/baseline.py), the   *)
(* Holm step-down over windows (walk_forward_strength.py), and the         *)
(* probability of overfitting (cscv.py).                                   *)
(*                                                                         *)
(* A bootstrap is the sorted estimates it drew, the same at any confidence *)
(* as its seed is; a p-value is a whole number of samples; the deflated    *)
(* Sharpe ratio only its verdict.                                          *)
(***************************************************************************)
EXTENDS Integers, Sequences, FiniteSetsExt

CONSTANTS
  Samples,       \* bootstrap samples
  AlphaNum, AlphaDen, \* 1 - confidence, a fraction
  MinTrades,     \* min_closed_trades of the caller
  FamilyMinTrades, \* its default, which family_wise_robustness is left with
  Pnls,          \* what an estimate can be
  MaxCandidates, \* bound: candidates of a family
  MaxWindows,    \* bound: windows with trades
  PValues, Alpha, \* p-values and the level, in samples
  Strategies, Blocks, \* rows and columns of the performance matrix
  Scores, None

(* What a configuration has to keep to; the modules that run it check it.    *)
(* cscv_pbo raises for fewer than two strategies or an odd number of blocks. *)
GatesAssumption ==
  /\ {Samples, AlphaDen, MinTrades, FamilyMinTrades} \subseteq Nat \ {0} /\ AlphaNum \in 0..AlphaDen
  /\ Pnls \union Scores \union Strategies \subseteq Int /\ PValues \subseteq Nat
  /\ Alpha \in Int /\ MaxWindows \in Nat
  /\ IsFiniteSet(Strategies) /\ Cardinality(Strategies) >= 2
  /\ IsFiniteSet(Blocks) /\ Blocks # {} /\ Cardinality(Blocks) % 2 = 0

VARIABLES family, windows, matrix, report

vars == <<family, windows, matrix, report>>

Estimates == {e \in [1..Samples -> Pnls] :
                \A i \in 1..(Samples - 1) : e[i] <= e[i + 1]}
Candidates ==
  [closed : UNION {{n - 1, n} : n \in {MinTrades, FamilyMinTrades}},
   traded : BOOLEAN,  \* the pnls of its trades are given
   byWindow : Estimates, byTrade : Estimates]

-----------------------------------------------------------------------------
(* bootstrap_ci: the lower end of the interval at confidence 1 - alpha/n.    *)
LowerEnd(e, n) == e[1 + (AlphaNum * (Samples - 1)) \div (2 * AlphaDen * n)]

(* gate_walk_forward_robustness: expectancy_positive_with_ci; the trades are *)
(* used when they are given and enough, else the windows.                    *)
Positive(c, least, n) ==
  /\ c.closed >= least
  /\ LowerEnd(IF c.traded /\ c.closed >= least THEN c.byTrade ELSE c.byWindow, n) > 0

(* evaluate_candidate_family: each candidate by itself, with the minimum     *)
(* that the caller names, and family_wise_robustness, which is not told it.  *)
FamilyReport(cs) ==
  LET tests == DOMAIN cs IN
  [alone |-> {i \in tests : Positive(cs[i], MinTrades, 1)},
   uncorrected |-> {i \in tests : Positive(cs[i], FamilyMinTrades, 1)},
   corrected |-> {i \in tests : Positive(cs[i], FamilyMinTrades, Len(cs))},
   adequate |-> \A i \in tests : cs[i].closed >= MinTrades]

-----------------------------------------------------------------------------
(* holm_stepdown of p-values: the place of each in their order, then the     *)
(* first that is not rejected stops it.                                      *)
Place(ps, i) == Cardinality({j \in DOMAIN ps : ps[j] < ps[i] \/ (ps[j] = ps[i] /\ j <= i)})
BelowLevel(ps, i) == ps[i] * (Len(ps) - Place(ps, i) + 1) <= Alpha

(* Mutant: no stop at the first that is not rejected. *)
HolmUnstopped(ps) == {i \in DOMAIN ps : BelowLevel(ps, i)}

Holm(ps) ==
  {i \in DOMAIN ps : \A j \in DOMAIN ps : Place(ps, j) <= Place(ps, i) => BelowLevel(ps, j)}

(* strengthen_walk_forward: robust_edge. *)
RobustEdge(w) ==
  /\ w.closed >= MinTrades /\ w.sharpe
  /\ Cardinality(Holm(w.ps)) >= Max({1, Len(w.ps) \div 2})

-----------------------------------------------------------------------------
(* cscv_pbo: every half of the blocks as train, the rest as test; the        *)
(* strategy best in train, the first of several, is overfit if more than     *)
(* half the strategies are ahead of it or on its place in test.              *)
Halves == {B \in SUBSET Blocks : 2 * Cardinality(B) = Cardinality(Blocks)}
Total(m, s, B) == MapThenSumSet(LAMBDA b : m[s][b], B)
RankIn(m, s, B) == 1 + Cardinality({u \in Strategies : Total(m, u, B) > Total(m, s, B)})
TrainBest(m, B) == Min({s \in Strategies : RankIn(m, s, B) = 1})

Overfit(m, B) == 2 * RankIn(m, TrainBest(m, B), Blocks \ B) > Cardinality(Strategies)

Pbo(m) == Cardinality({B \in Halves : Overfit(m, B)})
Risk(m) ==
  LET k == Cardinality(Halves) IN
  IF 2 * Pbo(m) >= k THEN "HIGH" ELSE IF 5 * Pbo(m) >= 2 * k THEN "MEDIUM" ELSE "LOW"

-----------------------------------------------------------------------------
TypeOK ==
  /\ family = None \/ \A i \in DOMAIN family : family[i] \in Candidates
  /\ matrix = None \/ matrix \in [Strategies -> [Blocks -> Scores]]
  /\ report # None =>
       CASE family # None -> report.corrected \subseteq DOMAIN family
         [] windows # None -> report.rejected \subseteq DOMAIN windows.ps
         [] OTHER -> report.pbo \in 0..Cardinality(Halves)

(* What is asked for: a family grown one candidate at a time, a set of       *)
(* windows, or a matrix.                                                     *)
Init ==
  /\ report = None
  /\ \/ family = <<>> /\ windows = None /\ matrix = None
     \/ /\ family = None /\ matrix = None
        /\ windows \in [closed : {MinTrades - 1, MinTrades}, sharpe : BOOLEAN,
                        ps : UNION {[1..n -> PValues] : n \in 0..MaxWindows}]
     \/ family = None /\ windows = None /\ matrix \in [Strategies -> [Blocks -> Scores]]

EvaluateCandidate ==
  /\ family # None /\ report = None /\ Len(family) < MaxCandidates
  /\ \E c \in Candidates : family' = Append(family, c)
  /\ UNCHANGED <<windows, matrix, report>>

(* assert_within between two candidates: no family is reported. *)
BudgetExceeded ==
  /\ family # None /\ family # <<>> /\ report = None
  /\ family' = <<>>
  /\ UNCHANGED <<windows, matrix, report>>

ReportFamily ==
  /\ family # None /\ family # <<>> /\ report = None
  /\ report' = FamilyReport(family)
  /\ UNCHANGED <<family, windows, matrix>>

ReportStrength ==
  /\ windows # None /\ report = None
  /\ report' = [rejected |-> Holm(windows.ps), robust |-> RobustEdge(windows)]
  /\ UNCHANGED <<family, windows, matrix>>

ReportOverfitting ==
  /\ matrix # None /\ report = None
  /\ report' = [pbo |-> Pbo(matrix), risk |-> Risk(matrix)]
  /\ UNCHANGED <<family, windows, matrix>>

Next == EvaluateCandidate \/ BudgetExceeded \/ ReportFamily \/ ReportStrength \/ ReportOverfitting

Spec == Init /\ [][Next]_vars

-----------------------------------------------------------------------------
(* The step-down rejects a window exactly when every set of windows it       *)
(* belongs to is rejected by its smallest p-value at the level divided by    *)
(* the size of the set: the closed test that controls the family             *)
(* (walk_forward_strength.py:61-84).                                         *)
HolmIsTheClosedTest ==
  windows # None /\ report # None =>
    report.rejected =
      {i \in DOMAIN windows.ps :
         \A S \in SUBSET DOMAIN windows.ps :
           i \in S => \E j \in S : windows.ps[j] * Cardinality(S) <= Alpha}

(* A candidate that survives the correction for its family was positive      *)
(* without it and in every smaller family; where the family's sample is      *)
(* adequate for the caller too, it is positive by itself with the caller's   *)
(* minimum, which the correction does not know (baseline.py:394-446,         *)
(* 493-504).                                                                 *)
CorrectionOnlyRemoves ==
  family # None /\ report # None =>
    /\ report.corrected \subseteq report.uncorrected
    /\ \A i \in report.corrected, k \in 1..Len(family) : Positive(family[i], FamilyMinTrades, k)
    /\ report.adequate => report.corrected \subseteq report.alone

(* A strategy ahead of all others in every block is never counted as         *)
(* overfit (cscv.py:103-121).                                                *)
DominanceIsNoOverfit ==
  matrix # None /\ report # None =>
    ((\E s \in Strategies : \A u \in Strategies \ {s}, b \in Blocks : matrix[s][b] > matrix[u][b])
       => report.pbo = 0 /\ report.risk = "LOW")
=============================================================================

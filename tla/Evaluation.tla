------------------------------ MODULE Evaluation ------------------------------
(***************************************************************************)
(* What the evidence is made of, side by side: the history that is         *)
(* fetched, the corpus it is kept in, the walk-forward replay, the gates   *)
(* and the cost ladders its results pass, and the reports.  A behaviour is *)
(* of one part, chosen at the start; the variables of the others are None. *)
(***************************************************************************)
EXTENDS Integers, FiniteSets, Sequences

CONSTANTS
  Step, MissingPercent,                                       \* of several parts
  Horizon, PageSize, MaxCandles, FundingLimit, SettleEvery, SpikePercent,
  FundingPercent, MaxSupplied,                                \* MarketHistory
  Generators, MaxBars, Cuts, MaxEmbargo, MaxWindow, Marks, Quantity, NotionalCap,
  LotStep, MinWindows, ReplayHorizon,                         \* WalkForward
  Samples, AlphaNum, AlphaDen, MinTrades, FamilyMinTrades, Pnls, MaxCandidates, MaxWindows,
  PValues, Alpha, Strategies, Blocks, Scores,                 \* EvidenceGates
  LastBar, Moves, Gains, Ladder, Coverage,                    \* CostLadder
  Symbols, Specs, MaxRetries, Threshold, MaxAge, MaxTime, MaxRuns, \* Corpus
  Families, MaxSteps, StepReturns, Regimes, ScanDepth, MaxSymbols, \* EvidenceReports
  None, Torn

VARIABLES
  part,
  source, history, cursor, collected, dataset,           \* MarketHistory
  phase, plan, ts, start, bar, turn, busy, trades, rows, \* WalkForward
  family, windows, matrix, verdict,                      \* EvidenceGates
  market, ladder,                                        \* CostLadder
  at, spec, options, attempt, failures, circuitOpen, entries, rejected,
  disk, manifest, clock, runs, asked,                    \* Corpus
  given, report                                          \* EvidenceReports

historyVars == <<source, history, cursor, collected, dataset>>
replayVars == <<phase, plan, ts, start, bar, turn, busy, trades, rows>>
gateVars == <<family, windows, matrix, verdict>>
ladderVars == <<market, ladder>>
corpusVars == <<at, spec, options, attempt, failures, circuitOpen, entries, rejected,
                disk, manifest, clock, runs, asked>>
reportVars == <<given, report>>
vars == <<part, historyVars, replayVars, gateVars, ladderVars, corpusVars, reportVars>>

Hi == INSTANCE MarketHistory WITH phase <- source

Wa == INSTANCE WalkForward WITH
  Strategies <- Generators, Cap <- NotionalCap, Horizon <- ReplayHorizon

Ga == INSTANCE EvidenceGates WITH report <- verdict

Co == INSTANCE CostLadder WITH report <- ladder

Cr == INSTANCE Corpus WITH turn <- spec

Re == INSTANCE EvidenceReports WITH Gains <- StepReturns, Cap <- ScanDepth

ASSUME PartsAssumption ==
  /\ Hi!HistoryAssumption /\ Wa!ReplayAssumption /\ Ga!GatesAssumption /\ Co!LadderAssumption
  /\ Cr!CorpusAssumption /\ Re!ReportsAssumption

Init ==
  /\ part \in {"history", "replay", "gates", "ladder", "corpus", "reports"}
  /\ IF part = "history" THEN Hi!Init
     ELSE source = None /\ history = None /\ cursor = None /\ collected = None /\ dataset = None
  /\ IF part = "replay" THEN Wa!Init
     ELSE /\ phase = None /\ plan = None /\ ts = None /\ start = None /\ bar = None
          /\ turn = None /\ busy = None /\ trades = None /\ rows = None
  /\ IF part = "gates" THEN Ga!Init
     ELSE family = None /\ windows = None /\ matrix = None /\ verdict = None
  /\ IF part = "ladder" THEN Co!Init ELSE market = None /\ ladder = None
  /\ IF part = "corpus" THEN Cr!Init
     ELSE /\ at = None /\ spec = None /\ options = None /\ attempt = None /\ failures = None
          /\ circuitOpen = None /\ entries = None /\ rejected = None /\ disk = None
          /\ manifest = None /\ clock = None /\ runs = None /\ asked = None
  /\ IF part = "reports" THEN Re!Init ELSE given = None /\ report = None

Next ==
  \/ /\ part = "history" /\ Hi!Next
     /\ UNCHANGED <<part, replayVars, gateVars, ladderVars, corpusVars, reportVars>>
  \/ /\ part = "replay" /\ Wa!Next
     /\ UNCHANGED <<part, historyVars, gateVars, ladderVars, corpusVars, reportVars>>
  \/ /\ part = "gates" /\ Ga!Next
     /\ UNCHANGED <<part, historyVars, replayVars, ladderVars, corpusVars, reportVars>>
  \/ /\ part = "ladder" /\ Co!Next
     /\ UNCHANGED <<part, historyVars, replayVars, gateVars, corpusVars, reportVars>>
  \/ /\ part = "corpus" /\ Cr!Next
     /\ UNCHANGED <<part, historyVars, replayVars, gateVars, ladderVars, reportVars>>
  \/ /\ part = "reports" /\ Re!Next
     /\ UNCHANGED <<part, historyVars, replayVars, gateVars, ladderVars, corpusVars>>

Spec == Init /\ [][Next]_vars

-----------------------------------------------------------------------------
(* Fetching loses nothing, whatever pages the venue cuts its history into;   *)
(* what the gates admit is in order and misses no more bars than the gate    *)
(* allows; and a replay of it charges each settlement once, at its first bar *)
(* on or after it (history.py:84-134, 213-219, 337-346, 453-462).            *)
HistoryIsWhole ==
  part = "history" =>
    Hi!TypeOK /\ Hi!FetchLosesNothing /\ Hi!AdmittedIsSound /\ Hi!SettlementsChargedInPlace

(* Trades keep out of each other's time and in their window, with the        *)
(* embargo between windows and under the notional cap; the engine, the gates *)
(* and the label makers plan the same windows; and the windows a gate admits *)
(* have all their bars (baseline.py:179-182, walk_forward_quality.py:71-139, *)
(* walk_forward_coverage.py:63-90, orderflow_evaluation.py:70-108).          *)
WindowsAreSound ==
  part = "replay" =>
    /\ Wa!TypeOK /\ Wa!TradesStayInPlace /\ Wa!CapHolds
    /\ Wa!PlannersAgree /\ Wa!LabelsArePurged /\ Wa!AdmittedWindowsAreWhole

(* The step-down of Holm is the closed test that controls the family, the    *)
(* family correction only takes candidates away, and a strategy ahead in     *)
(* every block is never overfit (walk_forward_strength.py:61-84,             *)
(* baseline.py:396-452, cscv.py:103-121).                                    *)
VerdictsAreSound ==
  part = "gates" =>
    Ga!TypeOK /\ Ga!HolmIsTheClosedTest /\ Ga!CorrectionOnlyRemoves /\ Ga!DominanceIsNoOverfit

(* The break-even multiplier parts a ladder of the same trades, a drawdown   *)
(* is the largest fall of the equity, and a trade that is made only at       *)
(* higher costs was kept out by one that these skip (cost_sensitivity.py:    *)
(* 50-119, 188-197, statistics.py:8-17, baseline.py:185-190).                *)
LaddersTellCosts ==
  part = "ladder" =>
    Co!TypeOK /\ Co!BreakEvenParts /\ Co!DrawdownIsWorstFall /\ Co!InventedTradesWereFreed

(* What is on disk passed its gates; a manifest names, when it is written,   *)
(* files that are there, whole and of the quality its run asked for; and     *)
(* only data that is acquired makes a stale corpus fresh                     *)
(* (acquire_corpus.py:112-148, corpus_staleness.py:39-72).                   *)
CorpusIsWhatItTells ==
  /\ [](part = "corpus" => Cr!TypeOK /\ Cr!OnlyValidatedIsKept)
  /\ [][part = "corpus" => Cr!ManifestTellsDisk /\ Cr!OnlyDataRefreshes]_vars

(* Regimes part the returns; what is published makes no claim the guard      *)
(* would refuse in a result of it, promotes no symbol that lost or was       *)
(* blocked and stands for unsigned requests only; and what a review passes   *)
(* names no risk (attribution.py:214-256, multisymbol.py:69-128,             *)
(* evidence_rollup.py:20-76, runtime_review.py:94-137).                      *)
ReportsAreTrue ==
  part = "reports" =>
    Re!TypeOK /\ Re!RegimesPartReturns /\ Re!PublishedIsHonest /\ Re!PassHasNoRisk

(* "a combined adverse stress can never invent trades" (stress.py:69-72);    *)
(* "raising costs can only skip trades, never invent them"                   *)
(* (cost_sensitivity.py:56).                                                 *)
CostsOnlySkipTrades == part = "ladder" => Co!CostsOnlySkipTrades

(* "Acquire per symbol so one bad symbol does not abort the whole corpus"    *)
(* (acquire_corpus.py:206): what is given up for the network was asked for.  *)
OneBadSymbolStaysAlone == part = "corpus" => Cr!OneBadSymbolStaysAlone
=============================================================================

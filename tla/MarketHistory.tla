---------------------------- MODULE MarketHistory ----------------------------
(***************************************************************************)
(* market/history.py: a dataset is paged backwards out of the venue's      *)
(* public history, candles first and funding settlements after them; it    *)
(* is measured, gated, and turned into the snapshots a replay sees.  A     *)
(* dataset may also be supplied, as one whose hash was checked on loading  *)
(* (its bars then come as they were stored).                               *)
(* The venue is external: a page is the newest bars up to the cursor, as   *)
(* many as it likes up to the limit, and none only if it has none.         *)
(***************************************************************************)
EXTENDS Integers, Sequences, FiniteSetsExt

CONSTANTS
  Horizon,        \* bound: times are 1..Horizon
  PageSize,       \* page_size of the candle loop
  MaxCandles, FundingLimit,
  Step,           \* expected_interval_ms of the granularity
  SettleEvery,    \* _FUNDING_INTERVAL_MS
  MissingPercent, \* max_missing_fraction
  SpikePercent,   \* max_wick_spike_bps, per cent
  FundingPercent, \* max_funding_missing_fraction
  MaxSupplied,    \* bound: bars of a supplied dataset
  None

(* What a configuration has to keep to; the modules that run it check it.    *)
(* Less than one of a limit raises; the fractions are configured.            *)
HistoryAssumption ==
  /\ \A n \in {Horizon, PageSize, MaxCandles, FundingLimit, Step, SettleEvery} : n \in Nat \ {0}
  /\ Horizon > 1
  /\ \A n \in {MissingPercent, SpikePercent, FundingPercent, MaxSupplied} : n \in Nat

Times == 1..Horizon
Settlements == {t \in Times : t % SettleEvery = 0}
Bars == [ts : Times, close : {1, 2}, wick : {0, 1}, finite : BOOLEAN]
PlainBar(t) == [ts |-> t, close |-> 1, wick |-> 0, finite |-> TRUE]

VARIABLES
  phase,     \* "candles", "funding", "ready"
  history,   \* what the venue has: bars and settlements
  cursor,    \* endTime of the next page
  collected, \* collected, of the loop that runs
  dataset    \* HistoryDataset: bars in order, funding, fetched_at

vars == <<phase, history, cursor, collected, dataset>>

TypeOK ==
  /\ phase \in {"candles", "funding", "ready"}
  /\ history \in [bars : SUBSET Times, funding : SUBSET Settlements]
  /\ cursor \in 0..Horizon /\ collected \subseteq Times
  /\ dataset.funding \subseteq Settlements /\ dataset.fetched \in Times
  /\ \A i \in DOMAIN dataset.bars : dataset.bars[i] \in Bars

Init ==
  /\ collected = {} /\ cursor = Horizon
  /\ \/ /\ phase = "candles"
        /\ history \in [bars : SUBSET Times, funding : SUBSET Settlements]
        /\ dataset = [bars |-> <<>>, funding |-> {}, fetched |-> Horizon]
     \/ /\ phase = "ready"
        /\ history = [bars |-> {}, funding |-> {}]
        /\ dataset \in [bars : UNION {[1..n -> Bars] : n \in 1..MaxSupplied},
                        funding : SUBSET Settlements, fetched : {Horizon - 1, Horizon}]

-----------------------------------------------------------------------------
Newest(S, n) == {t \in S : Cardinality({u \in S : u > t}) < n}
Sorted(S) == [i \in 1..Cardinality(S) |->
                CHOOSE t \in S : Cardinality({u \in S : u < t}) = i - 1]

(* The venue's pages, up to a limit, from what it has up to the cursor. *)
Pages(S, limit) ==
  LET here == {t \in S : t <= cursor} IN
  IF here = {} THEN {{}} ELSE {Newest(here, n) : n \in 1..limit}

(* Mutant: the next page begins one bar too early. *)
CursorAfterSkip(page) == Min(page) - 2

CursorAfter(page) == Min(page) - 1

(* fetch_candle_history and fetch_funding_history: until there is enough, a  *)
(* page is empty or adds nothing, or the cursor has reached the beginning.   *)
PageOf(S, want, limit, Finished(_)) ==
  IF Cardinality(collected) >= want THEN Finished(collected)
  ELSE \E page \in Pages(S, Min({limit, want - Cardinality(collected)})) :
         IF page = {} \/ page \subseteq collected THEN Finished(collected)
         ELSE IF CursorAfter(page) <= 0 THEN Finished(collected \union page)
         ELSE /\ collected' = collected \union page
              /\ cursor' = CursorAfter(page)
              /\ UNCHANGED <<phase, dataset>>

CandlePage ==
  /\ phase = "candles"
  /\ PageOf(history.bars, MaxCandles, PageSize,
       LAMBDA got : /\ dataset' = [dataset EXCEPT !.bars =
                                     [i \in 1..Cardinality(got) |-> PlainBar(Sorted(got)[i])]]
                    /\ phase' = "funding" /\ collected' = {} /\ cursor' = Horizon)
  /\ UNCHANGED history

FundingPage ==
  /\ phase = "funding"
  /\ PageOf(history.funding, FundingLimit, FundingLimit,
       LAMBDA got : /\ dataset' = [dataset EXCEPT !.funding = got]
                    /\ phase' = "ready" /\ collected' = {} /\ UNCHANGED cursor)
  /\ UNCHANGED history

Next == CandlePage \/ FundingPage

Spec == Init /\ [][Next]_vars

-----------------------------------------------------------------------------
(* data_quality_report of a dataset d, the counts its gates use. *)
At(d, i) == d.bars[i].ts
Steps(d) == 1..(Len(d.bars) - 1)
TimesOf(d) == {At(d, i) : i \in DOMAIN d.bars}
First(d) == Min(TimesOf(d))
Last(d) == Max(TimesOf(d))

(* The ok of the report. *)
StructurallyOk(d) ==
  /\ Cardinality(TimesOf(d)) = Len(d.bars)
  /\ \A i \in Steps(d) : At(d, i + 1) >= At(d, i)
  /\ \A i \in DOMAIN d.bars : d.bars[i].finite /\ At(d, i) <= d.fetched

(* n / d to the nearest whole number, a half to the even one. *)
Rounded(n, d) ==
  LET q == n \div d
      up == 2 * (n % d) > d \/ (2 * (n % d) = d /\ q % 2 = 1) IN
  IF up THEN q + 1 ELSE q

(* Bars that could be between two times. *)
Between(a, b) == IF b - a > Step THEN Rounded(b - a, Step) - 1 ELSE 0

Over(f, S) == MapThenSumSet(LAMBDA x : f[x], S)

MissingBars(d) == Over([i \in Steps(d) |-> Between(At(d, i), At(d, i + 1))], Steps(d))

(* A wick against the close before it, or against its own for the first bar. *)
Wick(d, i) ==
  LET ref == IF i > 1 THEN d.bars[i - 1].close ELSE d.bars[i].close IN
  (100 * d.bars[i].wick) \div ref

CoverageGate(d) == 100 * MissingBars(d) <= MissingPercent * (Len(d.bars) + MissingBars(d))
WickSpikeGate(d) == \A i \in DOMAIN d.bars : Wick(d, i) <= SpikePercent

ExpectedSettlements(d) == (Last(d) - First(d)) \div SettleEvery
FundingInRange(d) == {f \in d.funding : First(d) < f /\ f <= Last(d)}
FundingMissing(d) == Max({0, ExpectedSettlements(d) - Cardinality(FundingInRange(d))})

(* real_funding_readiness, with one record as the least. *)
FundingReady(d) ==
  ExpectedSettlements(d) >= 1 =>
    /\ FundingInRange(d) # {}
    /\ 100 * FundingMissing(d) <= FundingPercent * ExpectedSettlements(d)

(* snapshots_from_dataset: the settlement whose rate snapshot i carries, the *)
(* last of those no snapshot before it has passed.                           *)
FundingAt(d, i) ==
  LET passed == {f \in d.funding : f <= At(d, i) /\ \A j \in 1..(i - 1) : f > At(d, j)} IN
  IF passed = {} THEN None ELSE Max(passed)

-----------------------------------------------------------------------------
Ready == phase = "ready" /\ dataset.bars # <<>>
Due(d) == {t \in Settlements : First(d) < t /\ t <= Last(d)}
Fetched == phase = "ready" /\ history.bars # {}

(* Whatever pages the venue cuts its history into, the dataset is the newest *)
(* bars and settlements it has, up to the limits, each once and in order:    *)
(* no page is skipped, repeated or lost (history.py:84-134).                 *)
FetchLosesNothing ==
  Fetched =>
    /\ TimesOf(dataset) = Newest(history.bars, MaxCandles)
    /\ \A i \in Steps(dataset) : At(dataset, i) < At(dataset, i + 1)
    /\ dataset.funding = Newest(history.funding, FundingLimit)

(* What the gates admit has its bars in order, none from after the fetch,    *)
(* and no more of the grid between its ends is empty than the gate allows    *)
(* (history.py:213-219, 276-284, 337-346).  With real funding, no more of    *)
(* the settlements due between its ends are missing than is allowed, but for *)
(* one: the expected number is rounded down (history.py:314-316, 432-441).   *)
AdmittedIsSound ==
  Ready /\ StructurallyOk(dataset) /\ CoverageGate(dataset) /\ WickSpikeGate(dataset) =>
    LET grid == {t \in First(dataset)..Last(dataset) : (t - First(dataset)) % Step = 0} IN
    /\ \A i, j \in DOMAIN dataset.bars : i < j => At(dataset, i) < At(dataset, j)
    /\ Last(dataset) <= dataset.fetched
    /\ TimesOf(dataset) \subseteq grid =>
         100 * Cardinality(grid \ TimesOf(dataset)) <= MissingPercent * Cardinality(grid)
    /\ \A i \in DOMAIN dataset.bars :
         i > 1 => 100 * dataset.bars[i].wick <= SpikePercent * dataset.bars[i - 1].close + 99
    /\ FundingReady(dataset) =>
         100 * Cardinality(Due(dataset) \ dataset.funding)
           <= FundingPercent * ExpectedSettlements(dataset) + 100

(* A replay of a sound dataset charges no settlement twice, and charges it   *)
(* at its first bar on or after it; each settlement it has records for is    *)
(* charged where there is a bar for each (history.py:453-462).               *)
SettlementsChargedInPlace ==
  Ready /\ StructurallyOk(dataset) =>
    LET charged(i) == FundingAt(dataset, i) IN
    /\ \A i \in DOMAIN dataset.bars :
         charged(i) # None =>
           /\ charged(i) <= At(dataset, i)
           /\ \A j \in 1..(i - 1) : At(dataset, j) < charged(i) /\ charged(j) # charged(i)
    /\ \A f \in dataset.funding \cap TimesOf(dataset) :
         \E i \in DOMAIN dataset.bars : At(dataset, i) = f /\ charged(i) = f
=============================================================================

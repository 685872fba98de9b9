--------------------------- MODULE EvidenceReports ---------------------------
(***************************************************************************)
(* Reports made from measured results: evaluation/attribution.py,          *)
(* multisymbol.py with the guard of report_honesty.py, evidence_rollup.py, *)
(* and reviews/runtime_review.py.  Each reads what it is given once and    *)
(* returns a report or raises.                                             *)
(***************************************************************************)
EXTENDS Integers, Sequences, FiniteSetsExt

CONSTANTS
  Families,    \* strategy families, numbered in the order of their names
  MaxSteps,    \* bound: steps of a series
  Gains,       \* returns of a step
  Regimes,
  Cap,         \* MAX_SCAN_DEPTH
  MaxSymbols,  \* bound: results aggregated
  None

(* What a configuration has to keep to; the modules that run it check it.    *)
(* attribute_performance raises for fewer than two strategies.               *)
ReportsAssumption ==
  /\ Families \subseteq Nat /\ IsFiniteSet(Families) /\ Cardinality(Families) >= 2
  /\ Gains \subseteq Int /\ {MaxSteps, Cap, MaxSymbols} \subseteq Nat

VARIABLES given, report

vars == <<given, report>>

Over(f, S) == MapThenSumSet(LAMBDA i : f[i], S)
Size(n) == IF n < 0 THEN -n ELSE n
SeqsUpTo(S, n) == UNION {[1..m -> S] : m \in 1..n}

-----------------------------------------------------------------------------
(* attribute_performance *)
Net(s) == Over(s, DOMAIN s)
Volume(s) == Over([i \in DOMAIN s |-> Size(s[i])], DOMAIN s)
Largest(f) == CHOOSE k \in DOMAIN f : \A j \in DOMAIN f : f[j] <= f[k] /\ (f[j] = f[k] => k <= j)
Shortest(series) == Min({Len(series[f]) : f \in Families})

(* The blend: the sum of the step's returns, to be divided by the families. *)
Blend(series) ==
  [i \in 1..Shortest(series) |-> Over([f \in Families |-> series[f][i]], Families)]

Attribution(series) ==
  LET nets == [f \in Families |-> Net(series[f])]
      volumes == [f \in Families |-> Volume(series[f])] IN
  [net |-> nets, volume |-> volumes, total |-> Over(nets, Families),
   blend |-> Blend(series), top |-> Largest(volumes)]

(* attribute_performance_by_regime *)
(* Mutant: a regime begins at the step after its label. *)
StepsAfter(labels, g) == {i \in 2..Len(labels) : labels[i - 1] = g}

StepsOf(labels, g) == {i \in DOMAIN labels : labels[i] = g}
Observed(labels) == {labels[i] : i \in DOMAIN labels}
Aligned(series, labels) == \A f \in Families : Len(series[f]) = Len(labels)

ByRegime(series, labels) ==
  [g \in Observed(labels) |->
     [n |-> Cardinality(Families) * Cardinality(StepsOf(labels, g)),
      net |-> Over([f \in Families |-> Over(series[f], StepsOf(labels, g))], Families)]]

Matrix(series, labels) ==
  [f \in Families |-> [g \in Observed(labels) |-> Over(series[f], StepsOf(labels, g))]]

-----------------------------------------------------------------------------
(* A result: what it says, and at what depth of it there is a truthy         *)
(* promotion key (claim) or a positive promotion_gate (gate).                *)
Depths == {None, 0, Cap, Cap + 1}
Results ==
  [net : {-1, 1}, adequate : BOOLEAN, allowed : BOOLEAN, blocked : BOOLEAN,
   top : {"plain", "selected"}, claim : Depths, gate : {None, 0, Cap}]

Seen(depth) == depth # None /\ depth <= Cap

(* find_overclaims *)
Overclaims(r) ==
  \/ r.top # "plain"
  \/ Seen(r.claim)
  \/ Seen(r.gate) /\ r.blocked

(* aggregate_symbol_results: a result lies two levels down, in per_symbol. *)
Below(depth) == IF depth = None THEN None ELSE depth + 2
Promotes(rs, blocked) ==
  ~blocked /\ \A i \in DOMAIN rs : rs[i].allowed /\ rs[i].net > 0 /\ rs[i].adequate

Refuses(rs, blocked) ==
  \E i \in DOMAIN rs :
    \/ Overclaims(rs[i])
    \/ Seen(Below(rs[i].claim))
    \/ blocked /\ Seen(Below(rs[i].gate))

-----------------------------------------------------------------------------
(* roll_up_request_evidence *)
RequestBlocks == [requests : 0..2, signed : 0..1, credentials : BOOLEAN]

RefusesEvidence(bs) ==
  \/ \E i \in DOMAIN bs : bs[i].credentials
  \/ Over([i \in DOMAIN bs |-> bs[i].signed], DOMAIN bs) # 0

RollUp(bs) ==
  [symbols |-> Len(bs), requests |-> Over([i \in DOMAIN bs |-> bs[i].requests], DOMAIN bs)]

-----------------------------------------------------------------------------
(* review_run: what a run report, a ledger and a page say of each thing. *)
Said == {"good", "bad", "missing"}
RunFields == {"status", "integrity", "network", "signed", "degraded", "failures", "duplicates"}
LedgerFields == {"integrity", "schema", "events", "identity", "duplicates"}
PageFields == {"mode", "writable", "responsive", "sources"}

(* Of a field left out, zero or none is assumed, but not of these. *)
Required == {"status", "integrity", "schema", "events", "identity"} \union PageFields

Passes(said) ==
  \A f \in DOMAIN said : IF f \in Required THEN said[f] = "good" ELSE said[f] # "bad"

(* What a section names as a risk: not the status, nor the schema. *)
Risks(said) ==
  {f \in DOMAIN said \ {"status", "schema"} :
     said[f] = "bad" \/ (said[f] = "missing" /\ f \in Required)}

-----------------------------------------------------------------------------
TypeOK == given.kind \in {"returns", "symbols", "evidence", "review"}

Init ==
  /\ \/ given \in [kind : {"returns"}, series : [Families -> SeqsUpTo(Gains, MaxSteps)],
                   labels : SeqsUpTo(Regimes, MaxSteps)]
     \/ given \in [kind : {"symbols"}, results : SeqsUpTo(Results, MaxSymbols), blocked : BOOLEAN]
     \/ given \in [kind : {"evidence"}, blocks : SeqsUpTo(RequestBlocks, 2)]
     \/ given \in [kind : {"review"}, said : UNION {[F -> Said] : F \in {RunFields, LedgerFields, PageFields}}]
  /\ report = None

Returns(r) == report = None /\ report' = r /\ UNCHANGED given

(* attribute_performance takes series of any lengths, by regime only aligned ones. *)
Attribute ==
  /\ given.kind = "returns"
  /\ Returns([attribution |-> Attribution(given.series),
              regimes |-> IF Aligned(given.series, given.labels)
                          THEN ByRegime(given.series, given.labels) ELSE None,
              matrix |-> IF Aligned(given.series, given.labels)
                         THEN Matrix(given.series, given.labels) ELSE None])

Aggregate ==
  /\ given.kind = "symbols" /\ ~Refuses(given.results, given.blocked)
  /\ Returns([net |-> Over([i \in DOMAIN given.results |-> given.results[i].net],
                           DOMAIN given.results),
              promotes |-> Promotes(given.results, given.blocked)])

RollUpEvidence ==
  /\ given.kind = "evidence" /\ ~RefusesEvidence(given.blocks)
  /\ Returns(RollUp(given.blocks))

Review ==
  /\ given.kind = "review"
  /\ Returns([pass |-> Passes(given.said), risks |-> Risks(given.said)])

Next == Attribute \/ Aggregate \/ RollUpEvidence \/ Review

Spec == Init /\ [][Next]_vars

-----------------------------------------------------------------------------
Reported(kind) == given.kind = kind /\ report # None

(* Regimes part the returns: their nets add up to the net of the families,   *)
(* in the report by families, in the matrix, and in the blend of series as   *)
(* long as the labels; no family's net is outside what its regimes say       *)
(* (attribution.py:214-256).                                                 *)
RegimesPartReturns ==
  (Reported("returns") /\ report.regimes # None) =>
    LET a == report.attribution
        g == report.regimes IN
    /\ Over([x \in DOMAIN g |-> g[x].net], DOMAIN g) = a.total
    /\ Over([x \in DOMAIN g |-> g[x].n], DOMAIN g) = Cardinality(Families) * Len(given.labels)
    /\ Over(a.blend, DOMAIN a.blend) = a.total
    /\ \A f \in Families : Over(report.matrix[f], DOMAIN g) = a.net[f]

(* No aggregate is published with a claim in it that the guard would refuse  *)
(* in one of its results, none promotes a symbol that lost or was blocked,   *)
(* and a rollup stands for requests none of which was signed or used secrets *)
(* (multisymbol.py:69-128, evidence_rollup.py:20-76).                        *)
PublishedIsHonest ==
  /\ Reported("symbols") =>
       /\ \A i \in DOMAIN given.results : ~Overclaims(given.results[i])
       /\ report.promotes => ~given.blocked /\ report.net = Len(given.results)
  /\ Reported("evidence") =>
       /\ \A i \in DOMAIN given.blocks : ~given.blocks[i].credentials /\ given.blocks[i].signed = 0
       /\ report.symbols = Len(given.blocks)

(* A section of a review that passes names no risk                           *)
(* (runtime_review.py:94-107, 115-137).                                      *)
PassHasNoRisk == (Reported("review") /\ report.pass) => report.risks = {}
=============================================================================

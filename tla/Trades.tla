-------------------------------- MODULE Trades --------------------------------
(***************************************************************************)
(* What trades and what it is written to, side by side: the canonical      *)
(* runtime with one call at a time, the runner with the older paper loop,  *)
(* the demo venue's adapter, the paper exchange, the event ledger and the  *)
(* rules that size an order.  A behaviour is of one part, chosen at the    *)
(* start; the others keep their initial state.                             *)
(***************************************************************************)
EXTENDS Integers, FiniteSets

CONSTANTS
  Symbols, Snapshots, SymbolOf,                               \* of several parts
  Calls, MaxCrashes, FailureThreshold, BreakerNames, Attached, MaxGap, ColdStart,
                                                              \* PaperRuntime
  Runs, Loops,                                                \* AgentCycle
  Orders, Nonces, WithLevels, MaxRuns,                        \* DemoVenue
  Quotes, Sizes, Limits, DefaultPrice, FeePart, SlipPart, FundingPart, MaxOrders,
  MaxSequence,                                                \* PaperExchange
  LedgerRuns, NoRun, Cycles, Payloads, Tables, Keys, MaxEvents, MaxRows,  \* EventLedger
  RuleSymbols, AllowSymbols, Prices, MaxLeverage, MaxSpread, MaxAge, MinNotional,
  MaxPositionNotional, MaxTotalNotional, AvailableEquity, RequestedRisk, Step,
  SemanticLimits,                                             \* DecisionRules
  None

VARIABLES
  part,
  call, loop, context, status, ledger, placed, positions, filledOf, crashes,
  failures, isOpen, registry, stored, raised, beatAge, host,          \* PaperRuntime
  at, snap, ending, turn, completed, claimed, terminal, told, fills, position, protected,
  results,                                                            \* AgentCycle
  confirmed, atVenue, request, asked, oid, protection, runs, reports, \* DemoVenue
  orders, held, quote, lastSequence, funding, closed, filled,         \* PaperExchange
  run, cycles, events, rows,                                          \* EventLedger
  size, value, excess                                                 \* DecisionRules

runtimeVars == <<call, loop, context, status, ledger, placed, positions, filledOf, crashes,
                 failures, isOpen, registry, stored, raised, beatAge, host>>
cycleVars == <<at, snap, ending, turn, completed, claimed, terminal, told, fills, position,
               protected, results>>
demoVars == <<confirmed, atVenue, request, asked, oid, protection, runs, reports>>
exchangeVars == <<orders, held, quote, lastSequence, funding, closed, filled>>
ledgerVars == <<run, cycles, events, rows>>
ruleVars == <<size, value, excess>>
vars == <<part, runtimeVars, cycleVars, demoVars, exchangeVars, ledgerVars, ruleVars>>

(* Through CanonicalOfflineRuntime, one call at a time, as one               *)
(* PaperScheduler.run makes them; saves may raise.                           *)
Rt == INSTANCE PaperRuntime_proofs WITH
  Canonical <- TRUE, MaxInFlight <- 1, LedgerMayFail <- FALSE, SavesMayFail <- TRUE,
  OperatorActs <- FALSE, cycles <- status, orders <- placed, fills <- filledOf

Cy == INSTANCE AgentCycle WITH Snaps <- Snapshots

De == INSTANCE DemoVenue WITH at <- request

Ex == INSTANCE PaperExchange WITH position <- held

Le == INSTANCE EventLedger WITH Runs <- LedgerRuns

Ru == INSTANCE DecisionRules WITH Symbols <- RuleSymbols

ASSUME PartsAssumption ==
  /\ Rt!RuntimeAssumption /\ IsFiniteSet(Calls)
  /\ Cy!CycleAssumption /\ De!VenueAssumption /\ Ex!ExchangeAssumption
  /\ Le!LedgerAssumption /\ Ru!RulesAssumption /\ IsFiniteSet(RuleSymbols)

Init ==
  /\ part \in {"runtime", "cycle", "demo", "exchange", "ledger", "rules"}
  /\ Rt!Init /\ Cy!Init /\ De!Init /\ Ex!Init /\ Le!Init /\ Ru!Init
  /\ part = "demo" \/ ~confirmed
  /\ part = "ledger" \/ run = NoRun

Next ==
  \/ /\ part = "runtime" /\ Rt!Next
     /\ UNCHANGED <<part, cycleVars, demoVars, exchangeVars, ledgerVars, ruleVars>>
  \/ /\ part = "cycle" /\ Cy!Next
     /\ UNCHANGED <<part, runtimeVars, demoVars, exchangeVars, ledgerVars, ruleVars>>
  \/ /\ part = "demo" /\ De!Next
     /\ UNCHANGED <<part, runtimeVars, cycleVars, exchangeVars, ledgerVars, ruleVars>>
  \/ /\ part = "exchange" /\ Ex!Next
     /\ UNCHANGED <<part, runtimeVars, cycleVars, demoVars, ledgerVars, ruleVars>>
  \/ /\ part = "ledger" /\ Le!Next
     /\ UNCHANGED <<part, runtimeVars, cycleVars, demoVars, exchangeVars, ruleVars>>
  \/ /\ part = "rules" /\ Ru!Next
     /\ UNCHANGED <<part, runtimeVars, cycleVars, demoVars, exchangeVars, ledgerVars>>

Spec == Init /\ [][Next]_vars

-----------------------------------------------------------------------------
(* The paper exchange: its position is what the fills add up to, funding     *)
(* billed is in the closed trades or with the position, closed trades never  *)
(* report more than the fills' cash less their fees and funding, and, as     *)
(* long as no order flips a position, charge each cost once; and an order at *)
(* rest only fills or ends, and what ended stays as it was                   *)
(* (fake_exchange.py:147-204, 216-232).                                      *)
BooksAreTrue ==
  /\ [](part = "exchange" => /\ Ex!TypeOK /\ Ex!BooksBalance /\ Ex!ReportIsConservative
                             /\ Ex!CostsChargedOnceUnlessFlipped)
  /\ [][part = "exchange" => Ex!OrdersOnlyMoveOn]_vars

(* A run that closed its positions replays to what the queries say of it,    *)
(* whatever other runs wrote between (sqlite.py:315-328); an event has its   *)
(* projection or neither is there (145-158); and the ledger only grows, with *)
(* no claim given twice, until a reset clears all of it (293-298).           *)
LedgerReplays ==
  /\ [](part = "ledger" => Le!TypeOK /\ Le!ReplayReproducesARun /\ Le!NoHalfWrites)
  /\ [][part = "ledger" => Le!AppendOnly]_vars

(* However calls meet and processes end, a runner asks once for a snapshot,  *)
(* the ledger tells of one ending and one fill of a cycle (runner.py:30-41,  *)
(* paper_loop.py:18-61), and what the canonical runtime records with one     *)
(* call at a time is under the identity of the cycle it is about, also after *)
(* calls that raise or are lost (paper_runtime.py:55-62, 161).               *)
CyclesTellOneStory ==
  /\ part = "cycle" => Cy!TypeOK /\ Cy!RunnerAsksOnce /\ Cy!LedgerTellsOneStory
  /\ part = "runtime" => Rt!EventsKeepTheirIdentity

(* However often an order is executed again at the demo venue, whichever     *)
(* request was lost, the venue has it once, it is reported once and never    *)
(* with a protection it does not carry; and an order whose execution ended   *)
(* in an error after it was placed stays unreported, which is what           *)
(* "every order must be read back" (NEXT_PHASE_AUTONOMY_PLAN.md:576) leaves  *)
(* to the operator (bitget_demo.py:101-104, 142-192).                        *)
DemoOrdersOnce ==
  /\ [](part = "demo" => De!TypeOK /\ De!OneOrderPerRequest)
  /\ [][part = "demo" => De!LostStaysLost]_vars

(* Over any decisions and exits the book's notional is above its cap only by *)
(* what the last fill cost above its entry, a sized entry risks no more than *)
(* asked unless it is at the venue's minimum, and the two gates differ only  *)
(* where their limits do (paper_loop.py:36-46, sizing.py:63-95,              *)
(* semantic.py:132-133).                                                     *)
RulesHold ==
  /\ part = "rules" => Ru!GatesDifferInLimits
  /\ [](part = "rules" => Ru!TypeOK /\ Ru!GrossStaysBounded /\ Ru!SizedRiskIsBounded)

(* A run tagged with its id is scoped, "not blended with prior runs"         *)
(* (run_autonomous_paper.py:139); its report replays the ledger without      *)
(* naming the run (run_autonomous_paper.py:100), and that is to succeed when *)
(* the run itself replays.                                                   *)
TaggedRunReplays == part = "ledger" => Le!TaggedRunReplays
=============================================================================

# TLA+ models of the agentic paper runtime

This directory holds a specification of the offline autonomous trading runtime
in `src/src/`: how a market snapshot becomes one decision cycle, at most one
paper order and one terminal disposition on record, and how breakers, circuits,
monitors and the scheduler around it behave under concurrency, failing writes
and restarts. TLC checks the modules on small instances; TLAPS proves the
theorems of the `_proofs` modules for every value of the constants.

## 1. The system

| Component | State it keeps | Operations | Hard behaviour |
| --- | --- | --- | --- |
| `runtime/paper_runtime.py` AutonomousPaperRuntime | the shared `_event_context`; everything else through ledger, exchange, circuit, breakers | `process`, `tick_monitors` | calls interleave at the await of the provider; any of the ledger writes may fail; crash between two of them |
| `runtime/canonical.py` CanonicalOfflineRuntime | mode, watchdog | `process`, `tick_monitors`, `start_monitor_loop` | check of the cycle's status before the claim |
| `ledger/sqlite.py` EventLedger | tables cycles and events, projections, the run id of the object | `claim_cycle`, `set_terminal`, `append_event`, `append_event_with_projection`, `record_*`, queries, `replay_state`, `reset` | several runs and objects in one file; replay must give what the queries say |
| `execution/fake_exchange.py` FakeExchange | orders, fills, positions with levels, prices, funding, closed trades | `submit_order`, `place_order`, `set_protection`, `apply_market_event`, `cancel_order` | partial fills, flips, costs shared between trades; in memory only |
| `providers/circuit.py` ProviderCircuit | failures, is_open | `decide`, `health_check`, `_failure` | answers and health checks arrive in any order |
| `policy/breakers.py` BreakerRegistry, BreakerStore | open breakers with reasons, the JSON file | `trip`, `clear`, `entries_parked` | memory changes before the save that may raise |
| `runtime/heartbeat.py`, `runtime/resource_monitor.py` | last beat, last sample, whether the monitor tripped | `beat`, `tick` | the monitor's flag is not persisted, the trip is |
| `runtime/monitor_watchdog.py` MonitorWatchdog | running, last tick | `run`, `tick_once`, `stop` | a task on the event loop, ended by an exception |
| `runtime/scheduler.py` PaperScheduler | deque, keys in it, active symbols, last runs, parked | `enqueue`, `run_once`, `run`, `stop` | several drivers, requeueing, exceptions |
| `protection/*`, `reconcile/*` MarkMonitor, ProtectionSupervisor | protection records in a store, cached twice | `arm`, `on_mark`, `check_freshness`, `register_position`, `verify`, `close`, the gate after a restart | state saved before the position is closed; stale and late marks; records that are a copy |
| `decision_parser.py`, `agentic_engine.py`, `policy/sizing.py`, `policy/semantic.py` | none; the book their approvals build up | parse, validate, size | caps, steps and minimums pull one quantity different ways |
| `agent/*`, `paper_loop.py` CycleRunner, PaperLoop | locks and completed cycles in memory; the older ledger rows | `run_once`, `process` | overlap per symbol; a fill told in several writes |
| `runtime/resource_budget.py` ResourceBudget | last sample, breach, the thread | `__enter__`, `assert_within`, `__exit__`, the watchdog thread | a thread beside the worker, joined for a bounded time |
| `execution/bitget_demo.py`, `providers/anthropic.py` | the confirmation in the environment; a count of failures | submit, read back, verify; decide with retries | a request lost after the venue acted on it; retries against one count |
| `market/history.py`, `market/bitget_public.py`, `scripts/acquire_corpus.py` | pages collected, the client's circuit, files and manifest | fetch, gate, acquire, reuse, write | overlapping and short pages, a run that dies between files |
| `evaluation/baseline.py` and the walk-forward modules | busy bars, trades, rows | replay, plan windows, gate | windows, embargo, overlapping trades |
| `evaluation/` gates, stress, cost ladders | none | Bonferroni, Holm, overfitting, sweeps | off-by-one levels; costs that change which trades exist |
| `evaluation/attribution.py`, `multisymbol.py`, `evidence_rollup.py`, `reviews/` | none | attribute, aggregate, roll up, review | what an earlier report left out |
| `policy/kill_switch.py`, `risk/*`, `accounting/*`, `features/*`, `strategies/*`, other reports, `scripts/`, `ui/` | a file; none | single operations, floating point, pages | none that a model would reach |

How they interact. A snapshot reaches `process` from the scheduler, from a
script or through the canonical runtime. `process` beats the heartbeat, ticks
the monitors (which trip and clear breakers), claims the cycle in the ledger,
passes the gates, awaits the provider through its circuit, validates and sizes
the decision, orders at the exchange, protects the position, and appends an
event at every stage, the last one `CYCLE_TERMINAL`, after which the row of the
cycle gets its disposition. The scheduler and the watchdog tick the monitors
beside that. An operator trips and clears breakers by hand. The runner and the
older loop do the same work with fewer parts; the demo venue stands where the
exchange does; the evaluation replays history through the same exchange and
writes files. Everything in the runtime is on
one event loop, so between two awaits a call runs alone; what interrupts it
there is only an exception or the death of the process.

What makes each part correct:

- runtime: one owner per cycle, at most one fill, a disposition that tells the
  truth, a lifecycle without gaps, an end to every call;
- breakers: a monitor clears its own trips and no others, a restart forgets
  nothing, bad news parks entries;
- circuit: the counter and the flag agree, and only a health check closes;
- watchdog and scheduler: monitors are ticked whatever snapshots do until a
  stop or an exception, no symbol has two cycles, no snapshot disappears;
- mark monitor: a breached position is closed once, the record says whether it
  is open, a position nobody sees parks entries;
- supervisor: nothing is called protected that was not read back;
- exchange and ledger: the position is the sum of the fills, costs are charged
  once, and a replay of the events gives what the queries say;
- demo venue: an order is placed once however often it is executed again, and
  is never reported as protected when it is not;
- rules: what is sized keeps to every cap, one approval after another, whatever
  the exchange then fills it at;
- budget: work is called clean only if no sample was bad;
- evidence: data without holes or look-ahead, verdicts that control what they
  claim to, reports that say no more than was measured.

## 2. Modules

The runtime and what guards it:

- `PaperRuntime` is the core. A call has a place `at` that names its next
  ledger transaction (or the await, the order, the protection), so that a
  failing write (`LedgerFails`), a crash (`Crash`) or a cancellation at the
  await (`Cancelled`) can come at each of them. `loop` names the call that has
  the event loop. `cycles` and `ledger` survive a crash; `orders`, `positions`,
  `context` and the circuit do not. `fills`, `crashes` and the field `barred`
  are history. One action stands for one stretch of `process` between two
  transactions: `Begin` (beat, monitors, context), `Claim`, `SkipDuplicate`,
  `Observe` (with the gates behind it), `BuildContext`, `ProviderDecides` and its
  failing siblings, `Decide`, `PlaceOrder`, `LogIntent` to `LogReconciled`,
  `LogTerminal`, `SetTerminal`. A snapshot is its hash, which is the cycle; an
  age is stale or not; a position is its side and whether it has levels; a
  decision is rejected, held, or an entry on one side.
- `CyclePromise` is the abstract specification of one cycle: new, claimed,
  entered, closed. `PaperRuntime` implements it under the mapping `Stage`.
- `Breakers` has the registry, its file, both monitors, the operator, the
  clock and restarts. The operations are functions on a state record because
  one call of the runtime makes several of them, each with a save that may
  raise and end the rest. `PaperRuntime` and `MonitorWatchdog` instantiate it
  over their own variables.
- `ProviderCircuit` has the calls and the health checks that are out.
  `PaperRuntime` instantiates it, uses its effects on the counter in its own
  actions, and implements its specification (`UsesCircuit`).
- `MonitorWatchdog` is the task of `MonitorWatchdog.run` over the breakers.
- `PaperScheduler` is the deque, its drivers and the loop of `run`. Time is
  what the code compares: whether a symbol's interval has passed and whether the
  monitors are due. The task of `run` is split where it polls, processes and
  ticks; between a poll and the tick the code awaits nothing, and the model lets
  others in there, which only adds behaviours.
- `MarkMonitor` has the record of each armed position in memory and in the
  file, the age of its last mark, and the position itself. Whether the save and
  the close that a breach makes raise is part of the step, because the order of
  the two is the point. `spoiled` and `closes` are history.
- `ProtectionSupervisor` has the records, the store, what the venue holds and
  what the last check was given (`seen`, history); `RecoveredGate` is the gate
  before new entries after a restart.
- `ResourceBudget` has the worker that enters, asserts and leaves and the
  threads that sample beside it. A step is what lies between two reads or writes
  of the shared fields: the last sample, `_breached` and `_stop` are read apart.
- `ModelClient` is the HTTP client of the model behind the caller's timeout:
  attempts, the count of failures, cancellation between attempts, and an answer
  that raises out of the client uncounted (`Raise`).

What trades and what it is written to:

- `PaperExchange` is the exchange with its orders, positions, levels, funding
  and closed trades, in integers that the divisions of the checked instance
  leave exact. `filled` is history: what the fills add up to.
- `EventLedger` is the log with its projection tables, cycles and run ids, the
  scoped queries and `replay_state`; one method is one transaction, and a
  transaction may fail at each of its writes.
- `AgentCycle` is the `CycleRunner` with its locks and set of completed cycles,
  beside the older `PaperLoop` over one ledger and one venue. Each of the seven
  writes after a fill is a step (`LogEvent`, `LogFill`, `Tell`, `SetTerminal`):
  one may fail (`WriteFails`), and the process may end between any two
  (`Restart`).
- `DemoVenue` is `execute` of the demo adapter as its four requests, each of
  which may be lost before or after the venue acts, run again by an operator. A
  detail that comes back without an object shows no levels, also for an order
  that has them.
- `DecisionRules` is parsing, the engine's gate and the semantic gate with the
  limits each has of its own, and sizing, as operators, and the book that
  approvals build up: sized at the decision's entry, filled at whatever price
  the exchange has, added to, reduced, flipped (`Filled`) and closed at a level
  (`Leave`). `excess` is what the last fill cost above its entry.

What the evidence is made of:

- `MarketHistory` pages candles and funding backwards, measures and gates what
  it got, and places the settlements.
- `Corpus` is the acquisition per symbol with the public client's retries and
  circuit, the files and their manifest, crashes, reuse and staleness.
- `WalkForward` plans windows and replays strategies through them, with
  embargo, flattening and sizes under the cap; the other planners of windows
  are operators beside it.
- `EvidenceGates` keeps two minimums of trades apart: the caller's, by which a
  candidate is judged alone and a sample called adequate, and the default that
  `family_wise_robustness` is left with.
- `EvidenceGates`, `CostLadder` and `EvidenceReports` are the computations on
  results: corrections, overfitting, sweeps of costs, attribution, aggregation,
  roll-up and review. They are operators over bounded inputs; the action of the
  module chooses the input and publishes the report.

`Guards`, `Trades` and `Evaluation` put the parts of the three groups that do not
call each other side by side: `part` is chosen at the start, one part moves, the
others keep their initial state. Each property there names its part.

The modules that run them: `MCPaperRuntime`, `MCPaperScheduler`, `MCTrades` and
`MCEvaluation` give TLC the constants that are functions, records or sequences,
and symmetry. `Breakers`, `MarkMonitor` and `Guards` need none and are run as
they are.

The theorems are in `PaperRuntime_proofs`, `MarkMonitor_proofs`,
`PaperScheduler_proofs`, `Breakers_proofs`, `Guards_proofs` (both circuits, the
budget, the supervisor), `Trades_proofs` (cycles, demo venue, rules, exchange,
ledger) and `Evaluation_proofs`. `DataTheorems` holds what they need of finite
sets, sums, folds and functions that are defined by recursion. Operators that are named as mutants are
wrong variants of the definition that follows them. Nothing in a specification
uses them: they show that a property notices the mistake, when the definition is
replaced by them.

## 3. Runs

Runs that pass:

| Run | Checks | Bounds |
| --- | --- | --- |
| `runtime_concurrent` | types, ownership, one fill, a true ledger, a barred call stays out; final dispositions, the promise, the circuit | 3 calls (2 at once), 2 cycles of one symbol, an operator, 1 crash, failing writes |
| `runtime_live` | every call ends, every claim is settled | 2 calls, 2 cycles, 1 crash, failing writes |
| `scheduler` | one cycle per symbol, deque and keys, no lost snapshot, turns and ticks | 2 drivers, 3 snapshots, 2 symbols, exceptions |
| `mark_monitor` | one close intent, records that tell the position, parking that lasts, blindness that parks | 2 symbols, marks of ages 0 to 1 or stale, saves and closes that raise, restarts |
| `guards` | trips and who owns them, monitors and watchdog, both circuits, protection read back, a clean budget | breakers: 3, gap 2, saves that work; watchdog: 2 breakers, gap 1, failing saves; circuit: 3 calls, 2 checks, threshold 2; client: 2 calls, 2 retries, threshold 2; budget: 2 threads; supervisor: 1 symbol |
| `trades` | the books, the replay, the older cycles and the identity of events, the demo venue, the rules | runtime: 2 calls, 1 at a time, both monitors, failing saves, 1 crash; cycle: 2 snapshots, 2 calls of each kind; exchange: 3 orders, 2 events; ledger: 3 events, 2 runs; venue: 2 orders, 4 executions; rules: 2 symbols, 3 prices, a wider leverage and a narrower spread and age for the semantic gate |
| `evaluation` | history, corpus, windows, verdicts, ladders, reports | history: 5 bars, pages of 2; corpus: 2 symbols, 2 runs; replay: 2 strategies, 6 bars; gates: 5 samples, 4 windows, minimums of 3 and 2 trades; ladder: 4 bars, 3 multipliers; reports: 2 families, 3 steps |

Why these are enough. Calls meet only in a cycle, a position, the shared
context, the circuit and the breakers, always two at a time: two in flight and
a third that comes later (as a replay, or after a crash) show every meeting.
Two cycles of one symbol share a position, the only thing cycles share at the
exchange. One crash separates before from after, and what survives it is the
same the second time. A threshold of 2 has a state below and one at it, a gap
of 1 or 2 has a healthy and a stalled age. Two snapshots of one symbol and one
of another are what requeueing and starvation need. Three orders open, add to,
and flip or close a position, with one of them at rest. Three events are an
entry, its exit and the trade of the two, or what a second run wrote between
them. Two executions after a lost request, each with a lost answer, show what a
third would. Pages of two over five bars overlap, end short and skip a hole; six
bars hold two windows with an embargo between them; four bars are the fewest in
which a skipped trade makes room for two. The caller's minimum of trades is above the
family's default, so a family may find positive what its caller calls thin; a
cap of 24 is one that a fill above its entry passes. Every bound is a constant:
`MaxCrashes`, `MaxInFlight`, `MaxOrders`, `MaxSequence`, `MaxEvents`, `MaxRows`,
`MaxRuns`, `MaxTime`, `Nonces` and the sizes of the evaluation's inputs. The
theorems hold for all values of the constants of their modules. `beatAge` stops
counting just beyond the gap, where no code tells ages apart.

The largest runs are `trades` (2.3 million states), `evaluation` (1.5 million)
and `runtime_concurrent` (1.0 million).

Runs that end in a counterexample. Each states what a document, a comment or a
test says, and shows a behaviour of the code that differs; `PROJECT.json` has
the quotations.

| Run | What the code does |
| --- | --- |
| `breakers_operator_trip` | with the heartbeat monitor alone: a healthy beat clears an operator's trip of a breaker the monitor had raised |
| `runtime_mixed_identity` | two calls mix the identity of their events |
| `ledger_tagged` | the report of a tagged run replays the events of every run, so a run that replays is reported as one that does not |
| `costs_invent_trades` | higher costs skip a long trade and two shorter ones take its place; the stress report then raises |
| `corpus_one_bad_symbol` | the retries of one symbol open the client's circuit, and the next symbol is given up unasked |

Seven more differences were met while modelling and have no run of their own,
because a passing property beside each says what holds instead: cycles that stay
claimed without a disposition after an exception (`ClaimIsSettled`), breakers
that open during the await (`BarredCallStaysOut`), reviews that read missing
fields as zero (`PassHasNoRisk`), costs of a flip that are booked twice
(`BooksAreTrue`), datasets that are too short to expect a settlement
(`AdmittedIsSound` allows for one that is missing), orders that are placed and
never read back after a lost request (`LostStaysLost`), and fills that take the
book over its cap because the order was sized at another price
(`GrossStaysBounded` says by how much).

Where the passing properties stop, and why:

- The liveness of the watchdog holds for a task that was started, that nobody
  stopped and that no save has ended: `tick_once` has no handler, so a breaker
  file that cannot be written ends the watchdog. A stop that comes before the
  first step of the task is overwritten by it. `WatchdogFollowsTheHost` has trips
  taken back that the monitor knows for its own: a trip whose save raised is not.
- `MonitorTicksGoOn` ends with an exception of `process` or of the monitor
  tick, which ends `run`.
- `TripsAreOwned` names the restart as the step that disowns a trip: the trip is
  in the file, the monitor's flag is not, so no beat clears it again.
- `CircuitsStayOpen` accepts a health check that was sent before the circuit
  opened, as the code does.
- The lifecycle in `LedgerIsTrue` is that of the events of the cycle's own call:
  a replay may add a `CYCLE_TERMINAL` that says SKIPPED.
- The beat is recorded when a call starts, not when it completes, and a
  degraded cycle parks nothing: both are in the model and neither is a property.
- `LedgerReplays` is about runs whose events are `Regular`, as those of `process`
  are: a fill names its symbol, one that tells funding comes before the trade it
  closes, and only the end of a cycle has a disposition. A log that is otherwise
  is counted differently by the replay and the queries.
- The costs in `BooksAreTrue` are charged once as long as no order flips a
  position. The position being the sum of the fills and reports that never
  claim too much hold with flips too. A resting reduce-only order is not checked
  again when it fills; nothing in the documents says it is.
- `CleanMeansNothingSeen` needs a join that does not time out (`SlowSamples` is
  FALSE in the run): after a timed-out join a thread may still find a breach.
- `LaddersTellCosts` says of a trade that only higher costs have that it lies in
  the time of one they skip. That costs never add a trade is what
  `costs_invent_trades` refutes.
- `RulesHold` compares the gates limit by limit: what the engine's gate rejects
  the semantic gate rejects too, but for limits that its own policy has wider.
- `VerdictsAreSound` has the corrected positives among the caller's own only in
  families whose sample is adequate for the caller.
- `DemoOrdersOnce` does not say that an order with levels is reported as
  protected: a detail without an object parks it.
- `WalkForward` has no order refused when a window is flattened: the close has
  the quantity of the entry, which the venue checks at the price 100 as it
  checked the entry, so the RuntimeError behind it is not reached. The exchange's
  own `CloseAtEnd` may be refused, since there a position may be a rest.
- `ProtectionIsReadBack` speaks of restarts after saves that worked.

`CHECK_DEADLOCK FALSE` is set where the system really may stop: each call of the
runtime is made once, bounded orders, events and executions run out, and a report
is the end of its evaluation. In the runs of several parts a part that stops is
enough.

## 4. Fairness

Liveness is stated under weak fairness of what the process does by itself:

- `PaperRuntime` (run `runtime_live`): the steps of a call that has the loop (the
  event loop runs what is ready) and the answer of the provider (`wait_for`
  bounds the await). Calls, cancellations, markets, operators, monitors' timers
  and crashes are not fair.
- `PaperScheduler`: the steps of the task of `run`, the end of `process` (which
  the runtime's `EveryCallEnds` gives) and the passing of time. Callers, new
  snapshots, stops and a second `run` are not.
- `MonitorWatchdog` (run `guards`): the steps of its task. Cycles, the operator,
  the clock, the host and a stop are not.
- `ResourceBudget` (run `guards`): the threads, which the system schedules, and
  the steps of a worker that has begun to leave. A worker that still works, and
  the host, are not. Fairness is what makes leaving end: the stop must find the
  thread wherever it is.

Everything else is safety and has no fairness.

## 5. Proofs

Every theorem holds for all values of the constants that its assumptions admit.
The assumptions are those of the modules (`RuntimeAssumption` and its like, which
TLC evaluates in the runs) and otherwise stand in the theorem. Most only give
types. The others, and why the code has them:

- `MaxInFlight = 1` and finitely many calls, for the identity of events:
  `runtime_mixed_identity` refutes it for two calls in flight.
- `SavesMayFail = FALSE` for the breakers: a failing save loses a trip, as the
  code has it. `SlowSamples` is a hypothesis of the property, see section 3.
- Finitely many calls at a circuit, whose bound counts those that are out, and
  finitely many symbols in the rules, whose book is summed up.
- `CorpusAssumption`: the specs of an acquisition name no symbol twice. With
  `--symbols A,A --force` the manifest could name content that is overwritten.
- `GatesAssumption`: at least two strategies and an even number of blocks;
  `ReportsAssumption`: at least two families; `HistoryAssumption`: limits of at
  least one. The code raises otherwise.
- `LadderAssumption`: the multipliers ascend, as `_find_break_even` says of them.

Most properties are invariants that are not inductive. What follows names the
strengthening each rests on and why it is needed. Where a theorem is about a part
of `Guards`, `Trades` or `Evaluation`, a lemma (`CycleAlone`, `LedgerAlone` and so
on) says that a behaviour in which that part was chosen is one of the part's own
specification, and the theorem of the part is carried over.

### The runtime

`PaperRuntime_proofs`, from `RuntimeAssumption` alone but for
`OneCallOneIdentity`:

- `TypeCorrect`, `Ownership` (`[]OwnershipInv`), `AtMostOneFill`
  (`[]OneFillPerCycle`), and `ImplementsPromise` (`Spec => KeepsPromise`: every
  behaviour of the runtime is, seen through `Stage`, one of `CyclePromise`);
- `FinalStays` (`TerminalIsFinal`), `BarredStaysOut` (`[]BarredCallStaysOut`),
  `LedgerTellsTruth` (`[]LedgerIsTrue`; `LedgerFollows` is a part of it), and
  `CircuitIsUsed` (`Spec => UsesCircuit`: a second refinement, onto
  `ProviderCircuit`);
- `OneCallOneIdentity`: with one call at a time, `[]EventsKeepTheirIdentity`.

That a cycle is filled at most once is not inductive: it holds because a call
that is about to order owns the cycle alone and the cycle has no fill yet.
`OwnershipInv` says where every call is, what its cycle's row and the exchange's
fill are (`CallTells`), what they are when nobody works on the cycle
(`CycleTells`), and that there is one owner (`OneOwner`). The claim, an insert
that only one call can win, makes an owner; no step unmakes the row; a crash ends
all owners and leaves rows claimed, so no one becomes an owner again. The weight
is in `OneCallMoves`: a step of one call that stays within its own cycle keeps
what every other call and cycle tells, because another call is at its await
whenever this one has the loop. The type of the ledger, positions, counters and
breakers (`LogTypes`) rests on it, since what a call logs is typed only because
its snapshot and verdict are. `RuntimeInv` is all of this.

The later theorems stand on `RuntimeInv`. `AdvanceShape` says what a step may do
to the cycles and the ledger: a call that owns a cycle touches that one, a
duplicate only adds SKIPPED, and a cycle that is closed has no owner, which gives
`FinalStays`. `BarredInv` adds to `BarredCallStaysOut` that what barred a call
that has not yet reached the gate is still there: the breakers move only without
the loop, and the call has it until it has passed. `IdentityInv` says that the
shared context is the snapshot of the call that is in flight: with one at a time,
only that call's own `Begin` sets it. `CircuitIsUsed` shows step by step that the
counter and the set of waiting calls move as `ProviderCircuit` lets them.

`LedgerTellsTruth` needs more than ownership, because a failing write may end a
call after any event: `StoryInv` says of every call how many events of its cycle
are on record at its place and which ways are still open to it (`CallStory`), and
of every cycle, with or without an owner, that its events are a beginning of one
of the `Lifecycles` and that a settled one ends with its terminal
(`CycleStory`). A step that logs makes the story one longer (`Longer`), every
other leaves it unsaid (`Unsaid`).

### Monitors, scheduler and guards

`MarkMonitor_proofs`: `TypeCorrect`, `ClosesOnce`, `TellsPosition`, `StaysParked`
and `ParksTheBlind`. Memory alone is not enough, since a restart forgets it:
`SaveTells` says of every symbol that what was asked to be closed is CLOSED in
memory and in the file, and that an unspoiled symbol's position agrees with both.
Saving before closing is what makes the first half inductive, and it is also why
the second half needs `spoiled`: a close that raises is on record as done.
`ParksTheBlind` reads off the same invariant which positions an unspoiled record
holds.

`PaperScheduler_proofs`: `TypeCorrect`, `OneActive` and `QueueKept`.
`OneActivePerSymbol` alone is not inductive: `LoopPolls` gives a snapshot to the
loop's driver, and would overwrite one it still held. `LoopIsIdle` says that it
holds none while the loop polls. A driver that takes a snapshot (`TakeKeepsOne`)
adds a symbol nobody works on, one that ends (`EndKeepsOne`) takes away its own.
`QueueKept` follows the deque through append and pop: keys and deque stay one to
one (`AppendHolds`, `TailHolds`), and the only snapshot that leaves without being
processed is behind an active symbol or cleared by stop.

`Breakers_proofs`: `NothingIsLost`, `MonitorsOwnTheirTrips`,
`OperatorsTripStays`, `FlagsStayAttached` and `MonitorsFollow`. An operation is
`Fine` from one state record to another if the second is in the file too, no
monitor's trip is disowned and no operator's trip is lost that the monitor had
not raised; `Fine` composes (`FineChains`), so that each call of the runtime is
the composition of operations proved one by one. `MonitorsFollow` needs that only
an attached monitor's flag is ever up (`FlagsAreAttached`).

`Guards_proofs` has, of each part, its own theorems, and of `Guards` the
properties the run checks: `NoTripIsLost`, `TripsHaveOwners`, `MonitorsFollowIt`,
`CircuitsCount`, `CircuitsStay`, `CleanWasClean` and `ProtectionWasReadBack`.

- `CountIsBounded`, `OnlyHealthClosesIt`: the bound on the provider's count counts
  the calls that are out with it: an answer takes one of them away for the one it
  adds.
- `ClientDrains`, `OpenForGood`: the same for the client, whose calls retry.
  By `ClientInv` the requests that were sent since the circuit opened and those
  that the calls which were out may still send (`RetriesLeft`) stay together
  within the retries of all callers but the one whose failure opened it.
- `BudgetTypeCorrect`, `CleanIsClean`: no thread is left when the final check
  begins (`NoThreadLeft`), and a bad sample is either still in a thread's hand or
  on the record (`BadIsKept`), which the final check reads (`CleanSoFar`).
- `ProtectedWasReadBack`, `RestartFindsTheRecords`: `ProtectionInv` says of every
  symbol whose saves all worked that file and memory agree and that what
  they call protected was in the view of the last check (`Remembered`, `Backed`),
  without which a restart would bring back a claim nobody made.

### Cycles, venue, rules, exchange and ledger

`Trades_proofs`:

- `CycleTypes`, `RunnersAskOnce`, `OneStory`, and `CyclesAreTold`
  (`[]CyclesTellOneStory`, with the runtime's identity). `CycleInv` says that who
  asks holds its symbol's lock and its snapshot is not completed (`RunnerInv`),
  that there is one owner of a claimed cycle that has not ended (`OwnersAreOne`),
  that its place says what the ledger has of it (`OwnerTells`), and that after it
  dies the story it began is one nobody goes on with (`CycleStories`).
- `DemoIsSafe` (`DemoOrdersOnce`). `DemoInv` says that every order at the venue
  goes under the one name of its request (`OneName`), that what `execute` has in
  hand is at the venue once it was submitted (`InHand`), and that every report
  tells of an order that was placed, once. `LostIsNotFound` reads off it that an
  order which is placed and not reported is reached by no later execution: its
  submission is refused.
- `RulesAreKept` (`RulesHold`). At the decision's entry an approval adds no more
  than the caps leave; at the exchange's price it adds `excess` more. A
  reduction never adds, a flip adds less than its order, so the sum over the
  book stays bounded (`RulesInv`); the rest is the arithmetic of steps and
  minimums, for every price and cap, and a comparison of the two gates code by
  code.
- `LedgerIsReplayed` (`LedgerReplays`). `LedgerInv` says that every row was
  written for an event (`RowsHaveEvents`) and that an event has at most one row,
  in the table its payload says (`EventsHaveRows`). That a run replays to what
  the queries say is then a statement about one fold over the chosen events and
  several sums over tables: `ReplaysAs` says what the fold holds after each
  event, `ReplayWalk` that it goes on so, and the sums over rows become sums over
  events, one row for each.
- `BooksAreKept`: of `BooksAreTrue`, that the position is what the fills add up
  to, that funding billed is in the closed trades or with the position, that
  costs are charged once unless an order flips, and that orders only move on.
  `ExchangeInv` has for it that signed size, funding and costs of closed trades
  and position together are those of the fills (`Balanced`); one fill keeps that
  (`FillKeeps`, `FillBalances`), and a market event is a fold of fills over the
  resting orders, each of which keeps it (`RestStep`, `AllRest`).

### The evidence

`Evaluation_proofs`, for each part of `Evaluation` the whole of its property:

- `CorpusIsTrue` (`CorpusIsWhatItTells`). `CorpusInv` bounds the client's count by
  the attempts of the request in hand, and says that what the current run has
  found or reused is on disk as it says and of the quality asked for (`FoundInv`).
- `WindowsAreKept` (`[]WindowsAreSound`). `ReplayInv` has, for each strategy, that
  its trades lie apart and before the bar up to which it is busy (`TradesInv`),
  and that the rows written are those of windows that were planned (`RowsInv`).
- `VerdictsAreRight` (`[]VerdictsAreSound`): the step-down correction is the
  closed test over all subfamilies, by ranks and the smallest p-value of a
  family; a corrected positive is positive without the correction and in every
  smaller family, for any two minimums of trades; choosing a strategy that is the
  best in every block is never called overfitting.
- `ReportsAreRight` (`[]ReportsAreTrue`): the attributions are sums of the same
  returns, parted by regime, by family and by step.
- `LaddersAreRight` (`[]LaddersTellCosts`): which trades a multiplier leaves is a
  walk over the bars, which is never without a trade it could have made: a trade
  that only the dearer walk makes meets one of the cheaper walk that covers its
  bar, and this one the dearer skips; with the trades the same, the net falls from rung to rung and
  crosses zero once; the drawdown's single pass is the largest fall there is.
- `HistoryIsRight` (`[]HistoryIsWhole`). `HistoryInv` says of what is collected
  that it is every bar the venue has behind the cursor, whatever pages overlapped,
  ended short or were asked for again, and the gates and charges are computed
  from that; the settlements due between two ends are counted against those the
  gate expects by the grid they lie on.

`DataTheorems` has the lemmas under these. A theorem that takes an operator as a
parameter cannot be instantiated by the installed provers, so what a recursive
function, a fold or a sum gives is not proved by citing an induction theorem. Each
such lemma is about a function or a set instead: a smallest counterexample exists
(`SmallestOf`, `LeastOf`), or a set of numbers that holds 0 and with each number
the next holds all (`StepInduction`), or a family of sets closed under adding one
element holds all finite ones (`SetInduction`). From these come that a fold over a
set or sequence exists, is unique and walks from one element to the next
(`FoldExists`, `FoldUnique`, `FoldWalks`), and the rules of sums.

### Only model-checked

- Liveness, whose proof needs ENABLED: `EveryCallEnds`, `ClaimIsSettled`,
  `QueuedSymbolRuns`, `MonitorTicksGoOn`, `WatchdogFollowsTheHost`,
  `LeavingEnds`.
- Of `BooksAreTrue`, what compares divided amounts: that closed trades never
  report more than the fills' cash, and that fees are charged once. The entry's
  fee is computed again from an average price when a trade closes. The code does
  this in floating point; the model's integer shares add up only where the
  divisions are exact, which the checked instance sees to and the assumptions do
  not.

## 6. Not modelled

Of the modelled components: the wording of reasons and messages, hashes,
telemetry, signing and wire formats. In the runtime, quantities, prices and fees,
which are in `PaperExchange` and `DecisionRules`; a breaker file that is damaged
(it loads as empty) and a clock that goes back (`beat` raises); the amounts that
make an order impossible to size (`OrderRaises` may happen to any). In
`PaperExchange`, more than one symbol and the venue's rules, of which only
refusal is left. In `EventLedger`, portfolio snapshots, `active_breakers`,
`reconcile_funding` and the schema's migration. In `MarkMonitor`, timestamps
ahead of the clock and positions that end without the monitor; the supervisor has
a copy of its own of the same store, and the two are modelled apart. In
`Corpus`, tickers and the other fields of the status page. In `EvidenceGates`,
resampling: estimates and p-values are inputs. In `EvidenceReports`, the
flat-line scan and the change and rollback gates.

Components without a module, with the reason in `PROJECT.json`: the kill switch
(a flag in a file), risk and accounting (floating point on one input), features
and strategies (indicators on one input), the other reports, scripts and pages.

## 7. What is left

In this order:

1. Compositions: `PaperRuntime` over `PaperExchange` and `EventLedger` instead
   of its own abstractions of both, with a refinement that shows the abstraction
   sound; `MarkMonitor` and `ProtectionSupervisor` over one store file.
2. The rest of `BooksAreTrue` as a theorem, for sizes and prices whose shares are
   exact.
3. The order book's sequence gaps, the recovery gate with the kill switch, and
   the shadow mode.

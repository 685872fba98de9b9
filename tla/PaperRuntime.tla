---------------------------- MODULE PaperRuntime ----------------------------
(***************************************************************************)
(* AutonomousPaperRuntime.process (runtime/paper_runtime.py): one decision *)
(* cycle from a market snapshot to its terminal disposition, as several    *)
(* coroutines run it on one event loop over one SQLite ledger              *)
(* (ledger/sqlite.py), one in-memory FakeExchange, one ProviderCircuit and *)
(* one BreakerRegistry, entered directly or through                        *)
(* CanonicalOfflineRuntime.process (runtime/canonical.py).                 *)
(*                                                                         *)
(* A coroutine gives the loop away only while it awaits the provider, so   *)
(* that is where calls interleave.  A crash or a failing write may come    *)
(* between any two ledger transactions, so each is a step of its own: the  *)
(* field `at' of a call names the next one.                                *)
(***************************************************************************)
EXTENDS Integers, Sequences, FiniteSets

CONSTANTS
  Calls,           \* the calls of process, each made once
  Snapshots,       \* snapshots, named by their hash, which is the cycle_id
  Symbols, SymbolOf,
  None,            \* the absence of a snapshot or of a call
  Canonical,       \* calls go through CanonicalOfflineRuntime.process
  MaxInFlight,     \* bound: calls begun and not yet returned
  MaxCrashes,      \* bound: crashes of the process
  LedgerMayFail,   \* a ledger transaction may raise (disk full, locked)
  FailureThreshold,
  BreakerNames, Attached, MaxGap, ColdStart, SavesMayFail, OperatorActs

ASSUME RuntimeAssumption ==
  /\ SymbolOf \in [Snapshots -> Symbols]
  /\ None \notin Calls \union Snapshots
  /\ MaxInFlight \in Nat \ {0}
  /\ MaxCrashes \in Nat
  /\ Canonical \in BOOLEAN
  /\ LedgerMayFail \in BOOLEAN
  /\ FailureThreshold \in Nat \ {0}
  /\ Attached \subseteq {"heartbeat", "resource"}
  /\ {"heartbeat", "resource"} \subseteq BreakerNames
  /\ MaxGap \in Nat \ {0}
  /\ ColdStart \notin Nat
  /\ SavesMayFail \in BOOLEAN
  /\ OperatorActs \in BOOLEAN

VARIABLES
  call,       \* each call: where it is, and its local variables
  loop,       \* the call that has the event loop, or None
  context,    \* AutonomousPaperRuntime._event_context, by its cycle_id
  cycles,     \* the cycles table: unclaimed, claimed, or its terminal_status
  ledger,     \* the events table, by the cycle_id of the payload
  orders,     \* client order ids the exchange has filled, by their cycle
  positions,  \* FakeExchange.positions, by symbol
  fills,      \* history: how often the exchange filled an order of a cycle
  crashes,
  failures, isOpen,                           \* ProviderCircuit
  registry, stored, raised, beatAge, host     \* Breakers

breakerVars == <<registry, stored, raised, beatAge, host>>
circuitVars == <<failures, isOpen>>
exchangeVars == <<orders, positions, fills>>
vars == <<call, loop, context, cycles, ledger, exchangeVars, crashes,
          circuitVars, breakerVars>>

B == INSTANCE Breakers

(* The circuit as this runtime uses it; nothing here runs health checks. *)
P == INSTANCE ProviderCircuit WITH
       Probes <- {},
       request <- [t \in Calls |-> IF call[t].at = "provider" THEN "waiting" ELSE "idle"],
       probe <- [p \in {} |-> "idle"]

-----------------------------------------------------------------------------
Entered == {"EXECUTED", "DEGRADED"}
NotEntered == {"PARKED", "PARKED_PROVIDER", "NO_DECISION", "HELD", "REJECTED"}
Dispositions == Entered \union NotEntered

(* What an event may be: the type, and for CYCLE_TERMINAL its disposition.   *)
EventTypes == {"MARKET_OBSERVED", "AGENT_CONTEXT_BUILT", "AGENT_DECISION",
               "INTENT_APPROVED", "ORDER_SUBMITTED", "FILL_OBSERVED",
               "PROTECTION_VERIFIED", "PROTECTION_FAILED",
               "POSITION_RECONCILED", "CYCLE_TERMINAL"}

Events == [type : EventTypes, context : Snapshots,
           disposition : Dispositions \union {"", "SKIPPED"}]

(* The next ledger transaction of a call that has claimed its cycle, or one  *)
(* of the steps without one: provider, order and protect.                    *)
BeforeOrder == {"observe", "context", "provider", "decision", "order"}
AfterOrder == {"intent", "submitted", "fill", "protect", "protected", "reconcile"}
Owning == BeforeOrder \union AfterOrder \union {"terminal", "close"}
Going == Owning \union {"claim", "skip"}
Writing == Going \ {"provider", "order", "protect"}
Ended == {"done", "raised", "lost"}

Sides == {"BUY", "SELL"}

CallStates == [at : {"idle"} \union Going \union Ended,
               snapshot : Snapshots \union {None},
               stale : BOOLEAN,     \* the snapshot is older than the policy allows
               barred : BOOLEAN,    \* history: it began stale or with a breaker open
               side : Sides \union {""},
               verdict : Dispositions \union {""}]

(* A position of the exchange, with both of its protection levels or none. *)
Position == [side : Sides, levels : {"none", "set"}]
Flat == [side |-> "", levels |-> "none"]

TypeOK ==
  /\ call \in [Calls -> CallStates]
  /\ loop \in Calls \union {None}
  /\ context \in Snapshots \union {None}
  /\ cycles \in [Snapshots -> {"unclaimed", "claimed"} \union Dispositions]
  /\ ledger \in [Snapshots -> Seq(Events)]
  /\ orders \subseteq Snapshots
  /\ positions \in [Symbols -> Position \union {Flat}]
  /\ fills \in [Snapshots -> Nat]
  /\ crashes \in 0..MaxCrashes
  /\ failures \in Nat
  /\ isOpen \in BOOLEAN
  /\ B!TypeOK

-----------------------------------------------------------------------------
NewCall == [at |-> "idle", snapshot |-> None, stale |-> FALSE, barred |-> FALSE,
            side |-> "", verdict |-> ""]

EndedCall(t, how) == [NewCall EXCEPT !.at = how, !.snapshot = call[t].snapshot]

IsTerminal(s) == cycles[s] \in Dispositions

InFlight == {t \in Calls : call[t].at \in Going}

Running(t, at) == loop = t /\ call[t].at = at

Becomes(t, c) == call' = [call EXCEPT ![t] = c]

GoTo(t, at) == Becomes(t, [call[t] EXCEPT !.at = at]) /\ UNCHANGED loop

(* Mutant: the disposition of the cycle is left as it was. *)
ConcludedUnsaid(t, verdict) == [call[t] EXCEPT !.at = "terminal"]

Concluded(t, verdict) == [call[t] EXCEPT !.at = "terminal", !.verdict = verdict]

Conclude(t, verdict) == Becomes(t, Concluded(t, verdict)) /\ UNCHANGED loop

(* The call returns or raises: the loop is free again. *)
End(t, how) == Becomes(t, EndedCall(t, how)) /\ loop' = None

(* _append: the identity of the event is that of the shared _event_context,  *)
(* the cycle in its payload is that of the call.                             *)
Log(t, type, disposition) ==
  ledger' = [ledger EXCEPT ![call[t].snapshot] =
               Append(@, [type |-> type, context |-> context, disposition |-> disposition])]

-----------------------------------------------------------------------------
(* One call of process                                                       *)

Admitted(s, stale) ==
  [NewCall EXCEPT !.at = "claim", !.snapshot = s, !.stale = stale,
                  !.barred = stale \/ B!EntriesParked']

Admit(t, s, stale) ==
  Becomes(t, Admitted(s, stale)) /\ loop' = t /\ context' = s

(* Up to the claim.  Through the canonical runtime a cycle that has a status *)
(* returns at once; a monitor whose save fails raises.                       *)
Begin(t) ==
  /\ call[t].at = "idle"
  /\ loop = None
  /\ Cardinality(InFlight) < MaxInFlight
  /\ \E s \in Snapshots, stale \in BOOLEAN :
       IF Canonical /\ IsTerminal(s)
       THEN End(t, "done") /\ UNCHANGED <<context, breakerVars>>
       ELSE \E bad \in B!FailedSaves :
              LET m == B!StartOfCycle(bad) IN
              /\ B!Become(m)
              /\ IF m.failed
                 THEN End(t, "raised") /\ UNCHANGED context
                 ELSE Admit(t, s, stale)
  /\ UNCHANGED <<cycles, ledger, exchangeVars, crashes, circuitVars>>

(* Mutant: a cycle that was interrupted may be claimed again. *)
ClaimInterrupted(t) ==
  /\ Running(t, "claim")
  /\ IF IsTerminal(call[t].snapshot)
     THEN GoTo(t, "skip") /\ UNCHANGED cycles
     ELSE GoTo(t, "observe") /\ cycles' = [cycles EXCEPT ![call[t].snapshot] = "claimed"]
  /\ UNCHANGED <<context, ledger, exchangeVars, crashes, circuitVars, breakerVars>>

(* Mutant: INSERT OR REPLACE instead of a plain INSERT. *)
ClaimReplaces(t) ==
  /\ Running(t, "claim")
  /\ GoTo(t, "observe")
  /\ cycles' = [cycles EXCEPT ![call[t].snapshot] = "claimed"]
  /\ UNCHANGED <<context, ledger, exchangeVars, crashes, circuitVars, breakerVars>>

Claim(t) ==
  /\ Running(t, "claim")
  /\ LET s == call[t].snapshot IN
     IF cycles[s] = "unclaimed"
     THEN GoTo(t, "observe") /\ cycles' = [cycles EXCEPT ![s] = "claimed"]
     ELSE GoTo(t, "skip") /\ UNCHANGED cycles
  /\ UNCHANGED <<context, ledger, exchangeVars, crashes, circuitVars, breakerVars>>

SkipDuplicate(t) ==
  /\ Running(t, "skip")
  /\ Log(t, "CYCLE_TERMINAL", "SKIPPED")
  /\ End(t, "done")
  /\ UNCHANGED <<context, cycles, exchangeVars, crashes, circuitVars, breakerVars>>

(* Mutant: the gate for open breakers is missing. *)
ObserveFreshnessOnly(t) ==
  /\ Running(t, "observe")
  /\ Log(t, "MARKET_OBSERVED", "")
  /\ IF call[t].stale THEN Conclude(t, "PARKED") ELSE GoTo(t, "context")
  /\ UNCHANGED <<context, cycles, exchangeVars, crashes, circuitVars, breakerVars>>

(* Mutant: a parked cycle returns without _terminal. *)
ObserveReturns(t) ==
  /\ Running(t, "observe")
  /\ Log(t, "MARKET_OBSERVED", "")
  /\ IF B!EntriesParked \/ call[t].stale THEN End(t, "done") ELSE GoTo(t, "context")
  /\ UNCHANGED <<context, cycles, exchangeVars, crashes, circuitVars, breakerVars>>

(* MARKET_OBSERVED, then the two gates: open breakers and stale data. *)
Observe(t) ==
  /\ Running(t, "observe")
  /\ Log(t, "MARKET_OBSERVED", "")
  /\ IF B!EntriesParked \/ call[t].stale THEN Conclude(t, "PARKED") ELSE GoTo(t, "context")
  /\ UNCHANGED <<context, cycles, exchangeVars, crashes, circuitVars, breakerVars>>

(* Mutant: the answer is waited for without giving the event loop away. *)
BuildContextBlocks(t) ==
  /\ Running(t, "context")
  /\ Log(t, "AGENT_CONTEXT_BUILT", "")
  /\ IF isOpen
     THEN Conclude(t, "PARKED_PROVIDER")
     ELSE Becomes(t, [call[t] EXCEPT !.at = "provider"]) /\ UNCHANGED loop
  /\ UNCHANGED <<context, cycles, exchangeVars, crashes, circuitVars, breakerVars>>

(* AGENT_CONTEXT_BUILT, then decide: an open circuit answers without await. *)
BuildContext(t) ==
  /\ Running(t, "context")
  /\ Log(t, "AGENT_CONTEXT_BUILT", "")
  /\ IF isOpen
     THEN Conclude(t, "PARKED_PROVIDER")
     ELSE Becomes(t, [call[t] EXCEPT !.at = "provider"]) /\ loop' = None
  /\ UNCHANGED <<context, cycles, exchangeVars, crashes, circuitVars, breakerVars>>

(* The provider's answer resumes the call, which then has the loop. *)
Resume(t) ==
  /\ call[t].at = "provider"
  /\ loop = None
  /\ loop' = t
  /\ UNCHANGED <<context, cycles, ledger, exchangeVars, crashes, breakerVars>>

(* Mutant: the failure is counted, the threshold not looked at. *)
ProviderFailsUnopened(t) ==
  /\ Resume(t)
  /\ failures' = failures + 1
  /\ UNCHANGED isOpen
  /\ Becomes(t, Concluded(t, "NO_DECISION"))

(* A failure, which may be a client's own open circuit passed on (PARK). *)
ProviderFails(t) ==
  /\ Resume(t)
  /\ P!Fail
  /\ \E status \in {"NO_DECISION", "PARKED_PROVIDER"} : Becomes(t, Concluded(t, status))

ProviderUnparseable(t) ==
  /\ Resume(t)
  /\ P!FailToParse
  /\ Becomes(t, Concluded(t, IF isOpen' THEN "PARKED_PROVIDER" ELSE "NO_DECISION"))

ProviderDecides(t) ==
  /\ Resume(t)
  /\ P!Succeed
  /\ Becomes(t, [call[t] EXCEPT !.at = "decision"])

(* The task is cancelled at its await, which process does not handle. *)
Cancelled(t) ==
  /\ call[t].at = "provider"
  /\ loop = None
  /\ End(t, "raised")
  /\ UNCHANGED <<context, cycles, ledger, exchangeVars, crashes, circuitVars, breakerVars>>

(* AGENT_DECISION, then validate_decision: rejected, approved but no entry,  *)
(* or approved to enter on one side.                                         *)
Decide(t) ==
  /\ Running(t, "decision")
  /\ Log(t, "AGENT_DECISION", "")
  /\ \/ Conclude(t, "REJECTED")
     \/ Conclude(t, "HELD")
     \/ /\ \E side \in Sides : Becomes(t, [call[t] EXCEPT !.at = "order", !.side = side])
        /\ UNCHANGED loop
  /\ UNCHANGED <<context, cycles, exchangeVars, crashes, circuitVars, breakerVars>>

(* Mutant: what they raise is swallowed. *)
OrderRaisesUnseen(t) ==
  /\ Running(t, "order")
  /\ GoTo(t, "intent")
  /\ UNCHANGED <<context, cycles, ledger, exchangeVars, crashes, circuitVars, breakerVars>>

(* size_for_risk or place_order raises: no way to size the risk, or a venue  *)
(* rule the order breaks.                                                    *)
OrderRaises(t) ==
  /\ Running(t, "order")
  /\ End(t, "raised")
  /\ UNCHANGED <<context, cycles, ledger, exchangeVars, crashes, circuitVars, breakerVars>>

(* _apply_position: against an open position an order reduces, closes or     *)
(* flips it, by its quantity; what it flips to has no levels.                *)
PositionsAfter(p, side) ==
  IF p.side \in {"", side} THEN {[side |-> side, levels |-> p.levels]}
  ELSE {p, Flat, [side |-> side, levels |-> "none"]}

(* The exchange answers a client order id it has filled with that order. *)
PlaceOrder(t) ==
  /\ Running(t, "order")
  /\ LET s == call[t].snapshot
         symbol == SymbolOf[s] IN
     IF s \in orders
     THEN UNCHANGED exchangeVars
     ELSE /\ orders' = orders \union {s}
          /\ fills' = [fills EXCEPT ![s] = @ + 1]
          /\ \E p \in PositionsAfter(positions[symbol], call[t].side) :
               positions' = [positions EXCEPT ![symbol] = p]
  /\ GoTo(t, "intent")
  /\ UNCHANGED <<context, cycles, ledger, crashes, circuitVars, breakerVars>>

(* The steps that only log. *)
LogStep(t, at, type, next) ==
  /\ Running(t, at)
  /\ Log(t, type, "")
  /\ GoTo(t, next)
  /\ UNCHANGED <<context, cycles, exchangeVars, crashes, circuitVars, breakerVars>>

LogIntent(t) == LogStep(t, "intent", "INTENT_APPROVED", "submitted")
LogSubmitted(t) == LogStep(t, "submitted", "ORDER_SUBMITTED", "fill")
LogFill(t) == LogStep(t, "fill", "FILL_OBSERVED", "protect")

(* Mutant: without a position the cycle is closed as rejected. *)
ProtectOrReject(t) ==
  /\ Running(t, "protect")
  /\ IF positions[SymbolOf[call[t].snapshot]] = Flat
     THEN Conclude(t, "REJECTED")
     ELSE Becomes(t, [call[t] EXCEPT !.at = "protected", !.verdict = "EXECUTED"])
          /\ UNCHANGED loop
  /\ UNCHANGED <<context, cycles, ledger, exchangeVars, crashes, circuitVars, breakerVars>>

(* set_protection, if the caller asks for it, and verify_protection, which   *)
(* asks whether there are levels.  Without a position both raise KeyError.   *)
Protect(t) ==
  /\ Running(t, "protect")
  /\ LET symbol == SymbolOf[call[t].snapshot]
         p == positions[symbol] IN
     IF p = Flat
     THEN End(t, "raised") /\ UNCHANGED positions
     ELSE \E attach \in BOOLEAN :
            LET q == IF attach THEN [p EXCEPT !.levels = "set"] ELSE p IN
            /\ positions' = [positions EXCEPT ![symbol] = q]
            /\ Becomes(t, [call[t] EXCEPT !.at = "protected",
                 !.verdict = IF q.levels = "none" THEN "DEGRADED" ELSE "EXECUTED"])
            /\ UNCHANGED loop
  /\ UNCHANGED <<context, cycles, ledger, orders, fills, crashes, circuitVars, breakerVars>>

LogProtection(t) ==
  LogStep(t, "protected",
          IF call[t].verdict = "EXECUTED" THEN "PROTECTION_VERIFIED" ELSE "PROTECTION_FAILED",
          "reconcile")

(* The position is compared with itself, so it is always in sync. *)
LogReconciled(t) == LogStep(t, "reconcile", "POSITION_RECONCILED", "terminal")

(* _terminal: the event, then the row of the cycle. *)
LogTerminal(t) ==
  /\ Running(t, "terminal")
  /\ Log(t, "CYCLE_TERMINAL", call[t].verdict)
  /\ GoTo(t, "close")
  /\ UNCHANGED <<context, cycles, exchangeVars, crashes, circuitVars, breakerVars>>

SetTerminal(t) ==
  /\ Running(t, "close")
  /\ cycles' = [cycles EXCEPT ![call[t].snapshot] = call[t].verdict]
  /\ End(t, "done")
  /\ UNCHANGED <<context, ledger, exchangeVars, crashes, circuitVars, breakerVars>>

LedgerFails(t) ==
  /\ LedgerMayFail
  /\ loop = t
  /\ call[t].at \in Writing
  /\ End(t, "raised")
  /\ UNCHANGED <<context, cycles, ledger, exchangeVars, crashes, circuitVars, breakerVars>>

-----------------------------------------------------------------------------
(* What happens around the calls                                             *)

(* A market event triggers the levels of a position (apply_market_event). *)
LevelsTrigger(symbol) ==
  /\ loop = None
  /\ positions[symbol].levels # "none"
  /\ positions' = [positions EXCEPT ![symbol] = Flat]
  /\ UNCHANGED <<call, loop, context, cycles, ledger, orders, fills, crashes,
                 circuitVars, breakerVars>>

(* The monitors' timer, the operator, the clock and the host. *)
BreakersMove ==
  /\ loop = None
  /\ \/ B!TickMonitors
     \/ \E n \in BreakerNames : B!OperatorTrip(n) \/ B!OperatorClear(n)
     \/ B!ClockAdvances
     \/ "resource" \in Attached /\ B!HostChanges
  /\ UNCHANGED <<call, loop, context, cycles, ledger, exchangeVars, crashes, circuitVars>>

(* The process dies and a new one starts over the same ledger and the same   *)
(* breaker file, with an exchange that knows nothing.                        *)
Crash ==
  /\ crashes < MaxCrashes
  /\ crashes' = crashes + 1
  /\ call' = [t \in Calls |-> IF t \in InFlight THEN EndedCall(t, "lost") ELSE call[t]]
  /\ loop' = None
  /\ context' = None
  /\ orders' = {}
  /\ positions' = [y \in Symbols |-> Flat]
  /\ failures' = 0
  /\ isOpen' = FALSE
  /\ B!Restart
  /\ UNCHANGED <<cycles, ledger, fills>>

-----------------------------------------------------------------------------
Init ==
  /\ call = [t \in Calls |-> NewCall]
  /\ loop = None
  /\ context = None
  /\ cycles = [s \in Snapshots |-> "unclaimed"]
  /\ ledger = [s \in Snapshots |-> <<>>]
  /\ orders = {}
  /\ positions = [y \in Symbols |-> Flat]
  /\ fills = [s \in Snapshots |-> 0]
  /\ crashes = 0
  /\ failures = 0
  /\ isOpen = FALSE
  /\ B!Init

(* A step the coroutine takes by itself once it has the loop. *)
Advance(t) ==
  \/ Claim(t) \/ SkipDuplicate(t) \/ Observe(t) \/ BuildContext(t)
  \/ Decide(t) \/ OrderRaises(t) \/ PlaceOrder(t)
  \/ LogIntent(t) \/ LogSubmitted(t) \/ LogFill(t)
  \/ Protect(t) \/ LogProtection(t) \/ LogReconciled(t)
  \/ LogTerminal(t) \/ SetTerminal(t) \/ LedgerFails(t)

Answer(t) == ProviderFails(t) \/ ProviderUnparseable(t) \/ ProviderDecides(t)

Next ==
  \/ \E t \in Calls : Begin(t) \/ Advance(t) \/ Answer(t) \/ Cancelled(t)
  \/ \E symbol \in Symbols : LevelsTrigger(symbol)
  \/ BreakersMove
  \/ Crash

Spec == Init /\ [][Next]_vars

(* The event loop runs the coroutine that is ready, and wait_for ends the    *)
(* await of the provider, if by nothing else then by its timeout.  Nothing   *)
(* makes a caller call or cancel, a market move, an operator act or a        *)
(* process crash.                                                            *)
FairSpec == Spec /\ \A t \in Calls : WF_vars(Advance(t)) /\ WF_vars(Answer(t))

-----------------------------------------------------------------------------
(* What must hold                                                            *)

(* Where the ledger has the events of a cycle, but for the SKIPPED ones of   *)
(* its duplicates, and which of them is at i.                                *)
Own(s) == {i \in DOMAIN ledger[s] : ledger[s][i].disposition # "SKIPPED"}
Nth(s, i) == Cardinality({j \in Own(s) : j <= i})

(* However often a snapshot is replayed, by how many calls at once, and      *)
(* after whatever crash: the exchange fills at most one order of its cycle   *)
(* (ARCHITECTURE.md:119).  The claim in the ledger is all that carries this  *)
(* over a crash, the exchange's own duplicate check does not survive it.     *)
OneFillPerCycle == \A s \in Snapshots : fills[s] <= 1

ClosedAs(s, disposition) ==
  \E last \in Own(s) :
    /\ ledger[s][last].disposition = disposition
    /\ \A i \in Own(s) : i <= last /\ (ledger[s][i].type = "CYCLE_TERMINAL" <=> i = last)

(* A disposition says what happened at the exchange: entered cycles have     *)
(* their fill, all others none; and the ledger has exactly one CYCLE_TERMINAL*)
(* of the cycle's own, the last of its events, with the same disposition     *)
(* (paper_runtime.py:164-172).                                               *)
DispositionIsTrue ==
  \A s \in Snapshots : IsTerminal(s) =>
    /\ cycles[s] \in Entered <=> fills[s] = 1
    /\ ClosedAs(s, cycles[s])

(* No event of an order is on record for a cycle that has no fill at the     *)
(* exchange, even when writes fail or the process crashes half-way.          *)
LedgerFollowsExchange ==
  \A s \in Snapshots : \A i \in DOMAIN ledger[s] :
    ledger[s][i].type \in {"INTENT_APPROVED", "ORDER_SUBMITTED", "FILL_OBSERVED"}
      => fills[s] = 1

(* The ways a cycle may go. *)
EnteredWay(protection) ==
  <<"MARKET_OBSERVED", "AGENT_CONTEXT_BUILT", "AGENT_DECISION",
    "INTENT_APPROVED", "ORDER_SUBMITTED", "FILL_OBSERVED",
    protection, "POSITION_RECONCILED", "CYCLE_TERMINAL">>

Lifecycles ==
  {<<"MARKET_OBSERVED", "CYCLE_TERMINAL">>,
   <<"MARKET_OBSERVED", "AGENT_CONTEXT_BUILT", "CYCLE_TERMINAL">>,
   <<"MARKET_OBSERVED", "AGENT_CONTEXT_BUILT", "AGENT_DECISION", "CYCLE_TERMINAL">>,
   EnteredWay("PROTECTION_VERIFIED"), EnteredWay("PROTECTION_FAILED")}

Follows(s, way) ==
  \A i \in Own(s) : Nth(s, i) \in DOMAIN way /\ ledger[s][i].type = way[Nth(s, i)]

(* The events of every cycle, finished or not, are the beginning of one of   *)
(* its lifecycles: none is skipped, repeated or out of order, and none       *)
(* follows the terminal one (ARCHITECTURE.md:106).                           *)
LifecycleIsKept == \A s \in Snapshots : \E way \in Lifecycles : Follows(s, way)

(* What is on record of a cycle is what happened to it, at every moment,     *)
(* through failing writes and crashes: as true a disposition, no order that  *)
(* was not filled, and no event out of its lifecycle.                        *)
LedgerIsTrue == DispositionIsTrue /\ LedgerFollowsExchange /\ LifecycleIsKept

(* A cycle that has its disposition keeps it, and nothing is added to its    *)
(* events but that a duplicate was SKIPPED, whatever calls, crashes and      *)
(* failures come (paper_runtime.py:63-66, 164-172).                          *)
TerminalIsFinal ==
  [][\A s \in Snapshots : IsTerminal(s) =>
       /\ cycles'[s] = cycles[s]
       /\ \/ ledger'[s] = ledger[s]
          \/ \E c \in Snapshots :
               ledger'[s] = Append(ledger[s], [type |-> "CYCLE_TERMINAL", context |-> c,
                                               disposition |-> "SKIPPED"])]_vars

(* Every call returns or raises, unless the process crashes: the provider's  *)
(* timeout bounds the only await (circuit.py:29-34).                         *)
EveryCallEnds ==
  \A t \in Calls : t \in InFlight ~> t \notin InFlight

(* A claimed cycle gets its disposition, unless the call that claimed it     *)
(* raised or was lost in a crash (paper_runtime.py:63-129: every other way   *)
(* through process ends in _terminal).                                       *)
ClaimIsSettled ==
  \A s \in Snapshots :
    cycles[s] = "claimed" ~>
      \/ IsTerminal(s)
      \/ \E t \in Calls : call[t].snapshot = s /\ call[t].at \in {"raised", "lost"}

(* A call that began under an open breaker or with data too old neither asks *)
(* the provider nor orders, whatever becomes of the breakers while it and    *)
(* the other calls run (paper_runtime.py:67-71).                             *)
BarredCallStaysOut ==
  \A t \in Calls : call[t].barred =>
    call[t].at \notin {"context", "provider", "decision", "order"} \union AfterOrder

(* Each event is recorded under the identity of the cycle it is about: with  *)
(* one call at a time, as one PaperScheduler.run makes them, the shared      *)
(* _event_context is always that of the call (paper_runtime.py:55-62, 161).  *)
EventsKeepTheirIdentity ==
  \A s \in Snapshots : \A i \in DOMAIN ledger[s] : ledger[s][i].context = s

(* The promise, seen through the cycles table and the exchange's fills. *)
StageOf(row, filled) ==
  CASE row = "unclaimed" -> "new"
    [] row = "claimed" -> IF filled = 0 THEN "claimed" ELSE "entered"
    [] OTHER -> IF row \in Entered THEN "closed entered" ELSE "closed flat"

Stage == [s \in Snapshots |-> StageOf(cycles[s], fills[s])]

Promise == INSTANCE CyclePromise WITH stage <- Stage

(* process implements the promise for every cycle. *)
KeepsPromise == Promise!Spec

(* The runtime asks, and reports failures to, its circuit as circuit.py has  *)
(* it, also with several calls out at once.                                  *)
UsesCircuit == P!Spec
-----------------------------------------------------------------------------
(* The invariant behind them: where a call is tells what its cycle and the   *)
(* exchange look like.                                                       *)

CallTells(t) ==
  LET c == call[t]
      s == c.snapshot IN
  /\ c.at \in Going => /\ s \in Snapshots
                       /\ context \in Snapshots
                       /\ c.at # "provider" => loop = t
  /\ c.at \in Owning => cycles[s] = "claimed"
  /\ c.at \in BeforeOrder => fills[s] = 0
  /\ c.at \in AfterOrder => fills[s] = 1
  /\ c.at \in {"protected", "reconcile"} => c.verdict \in Entered
  /\ c.at \in {"terminal", "close"} =>
       c.verdict \in Dispositions /\ (c.verdict \in Entered <=> fills[s] = 1)

CycleTells(s) ==
  /\ fills[s] \in {0, 1}
  /\ cycles[s] = "unclaimed" => fills[s] = 0
  /\ s \in orders => fills[s] = 1
  /\ cycles[s] \in Dispositions => (cycles[s] \in Entered <=> fills[s] = 1)

OneOwner ==
  \A t, u \in Calls :
    call[t].at \in Owning /\ call[u].at \in Owning /\ call[t].snapshot = call[u].snapshot
      => t = u

(* A claimed cycle has at most one call that works on it, in whatever life   *)
(* of the process, and that call's place, the cycle's row and the exchange's *)
(* fill always agree (paper_runtime.py:63-129).                              *)
OwnershipInv ==
  /\ \A t \in Calls : CallTells(t)
  /\ \A s \in Snapshots : CycleTells(s)
  /\ OneOwner

=============================================================================

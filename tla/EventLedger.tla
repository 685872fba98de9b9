----------------------------- MODULE EventLedger -----------------------------
(***************************************************************************)
(* EventLedger (ledger/sqlite.py): the log of runtime events with its      *)
(* projection tables and the cycles, the queries on it that are scoped to  *)
(* a run, and the replay that is to reproduce them                         *)
(* (scripts/replay_ledger.py).  A method is one transaction, so it is one  *)
(* action.  Several ledger objects share the file; `run' is the run_id of  *)
(* the one that writes.  Amounts are small integers.                       *)
(***************************************************************************)
EXTENDS Integers, Sequences, SequencesExt, FiniteSetsExt

CONSTANTS
  Runs,          \* run ids; NoRun is the empty one of a ledger without
  NoRun,
  Cycles, Symbols,
  Payloads,      \* records of kind, symbol, disposition, fee, funding, pnl, held
  Tables,        \* the projection tables in use
  Keys,          \* of their unique columns
  None,
  MaxEvents, MaxRows   \* bounds on what is written

Keyed == {"orders", "fills", "positions"}
Statuses == {"EXECUTED", "HELD"}
EventTypes == {"FILL_OBSERVED", "PROTECTION_VERIFIED", "PROTECTION_FAILED",
               "POSITION_RECONCILED", "CYCLE_TERMINAL"}
LegacyEventTypes == {"TRADE_CLOSED", "RISK_BREAKER_OPEN", "RISK_BREAKER_CLOSED"}
Identity == {"cycle_id", "trace_id", "mode", "product_type", "symbol"}

(* What a configuration has to keep to; the modules that run it check it. *)
LedgerAssumption ==
  /\ NoRun \in Runs
  /\ "positions" \in Tables
  /\ Tables \subseteq {"orders", "fills", "positions", "protection", "reconciliation"}
  /\ None \notin Runs
  /\ \A p \in Payloads :
       {p.fee, p.pnl, p.held} \subseteq Int /\ (p.funding # None => p.funding \in Int)
  /\ {MaxEvents, MaxRows} \subseteq Nat

VARIABLES
  run,      \* run_id of the ledger object that is open
  cycles,   \* terminal_status of each claimed cycle
  events,   \* the log: payloads with the cycle and the run they were written under
  rows      \* the projection tables; a row names the event written with it

vars == <<run, cycles, events, rows>>

TypeOK ==
  /\ run \in Runs
  /\ cycles \in [Cycles -> {"absent", "claimed"} \union Statuses]
  /\ \A i \in DOMAIN events : events[i].run \in Runs /\ events[i].cycle \in Cycles
  /\ DOMAIN rows = Tables

Init ==
  /\ run \in Runs
  /\ cycles = [c \in Cycles |-> "absent"]
  /\ events = <<>>
  /\ rows = [t \in Tables |-> <<>>]

-----------------------------------------------------------------------------
(* What is offered to the ledger: a payload under a cycle, with the fields   *)
(* it comes with.                                                            *)
Value(p, c, named, digest) == [payload |-> p, cycle |-> c, named |-> named, digest |-> digest]

(* validate_event and from_dict *)
Valid(v) ==
  /\ v.payload.kind \in EventTypes \union LegacyEventTypes
  /\ Identity \subseteq v.named
  /\ "created_ms" \in v.named
  /\ v.digest \in {"none", "matches"}

(* _canonical_value lets a timestamp stand for created_ms, and nothing for   *)
(* an identity.                                                              *)
Canonical(v) ==
  IF "timestamp" \in v.named THEN [v EXCEPT !.named = @ \union {"created_ms"}] ELSE v

(* append_legacy makes up the identity that a fixture lacks. *)
Legacy(v) == [v EXCEPT !.named = Identity \union {"created_ms"}, !.digest = "matches"]

Logged(v, table) ==
  [payload |-> v.payload, cycle |-> v.cycle, run |-> run, projected |-> table]

(* Only a position has a status. *)
RowStatuses(table) == IF table = "positions" THEN {"OPEN", "CLOSED"} ELSE {None}

Row(key, status, event) == [key |-> key, status |-> status, run |-> run, event |-> event]

Unique(table, key) ==
  table \in Keyed => \A i \in DOMAIN rows[table] : rows[table][i].key # key

-----------------------------------------------------------------------------

ClaimCycle(c) ==
  /\ cycles[c] = "absent"
  /\ cycles' = [cycles EXCEPT ![c] = "claimed"]
  /\ UNCHANGED <<run, events, rows>>

(* An update of a row that is not there changes nothing. *)
SetTerminal(c, status) ==
  /\ cycles[c] # "absent"
  /\ cycles' = [cycles EXCEPT ![c] = status]
  /\ UNCHANGED <<run, events, rows>>

AppendEvent(v) ==
  /\ Valid(Canonical(v))
  /\ events' = Append(events, Logged(v, None))
  /\ UNCHANGED <<run, cycles, rows>>

AppendLegacy(v) == AppendEvent(Legacy(v))

(* Mutant: the event is committed when the projection fails. *)
AppendFirst(v, table, key, status, fails) ==
  /\ Valid(Canonical(v))
  /\ events' = Append(events, Logged(v, table))
  /\ rows' = IF fails \/ ~Unique(table, key) THEN rows
             ELSE [rows EXCEPT ![table] = Append(@, Row(key, status, Len(events) + 1))]
  /\ UNCHANGED <<run, cycles>>

(* Both rows or, when the injected fault or a key in use raises, neither. *)
AppendEventWithProjection(v, table, key, status, fails) ==
  /\ Valid(Canonical(v))
  /\ ~fails
  /\ Unique(table, key)
  /\ events' = Append(events, Logged(v, table))
  /\ rows' = [rows EXCEPT ![table] = Append(@, Row(key, status, Len(events) + 1))]
  /\ UNCHANGED <<run, cycles>>

(* record_order and its siblings write a projection without an event. *)
Record(v, table, key, status) ==
  /\ Valid(v)
  /\ Unique(table, key)
  /\ rows' = [rows EXCEPT ![table] = Append(@, Row(key, status, 0))]
  /\ UNCHANGED <<run, cycles, events>>

(* Rows of every run go, whatever the run of the ledger that resets. *)
Reset ==
  /\ cycles' = [c \in Cycles |-> "absent"]
  /\ events' = <<>>
  /\ rows' = [t \in Tables |-> <<>>]
  /\ UNCHANGED run

(* Another process opens the file. *)
Reopen(r) == run' = r /\ UNCHANGED <<cycles, events, rows>>

Fields == {Identity \union {"created_ms"}, Identity \union {"timestamp"}, Identity \ {"trace_id"}}

Next ==
  \/ \E c \in Cycles : ClaimCycle(c)
  \/ \E c \in Cycles, s \in Statuses : SetTerminal(c, s)
  \/ \E p \in Payloads, c \in Cycles, named \in Fields, digest \in {"none", "wrong"} :
       LET v == Value(p, c, named, digest) IN
       \/ Len(events) < MaxEvents /\ (AppendEvent(v) \/ AppendLegacy(v))
       \/ \E table \in Tables, key \in Keys, fails \in BOOLEAN :
          \E status \in RowStatuses(table) :
            /\ Len(rows[table]) < MaxRows
            /\ \/ /\ Len(events) < MaxEvents
                  /\ AppendEventWithProjection(v, table, key, status, fails)
               \/ Record(v, table, key, status)
  \/ Reset
  \/ \E r \in Runs : Reopen(r)

Spec == Init /\ [][Next]_vars

-----------------------------------------------------------------------------
(* The queries.  Without a run id of their own they take the ledger's, and   *)
(* the empty one takes in every run.                                         *)
Scope(rid) == IF rid = None THEN run ELSE rid
InScope(e, rid) == Scope(rid) = NoRun \/ e.run = Scope(rid)
Of(kind, rid) == {i \in DOMAIN events : events[i].payload.kind = kind /\ InScope(events[i], rid)}
Amount(f) == IF f = None THEN 0 ELSE f

DispositionCounts(rid) ==
  [d \in Statuses |->
     Quantify(DOMAIN events, LAMBDA i : InScope(events[i], rid)
                                        /\ events[i].payload.disposition = d)]

OpenPositions(rid) ==
  {i \in DOMAIN rows["positions"] :
     rows["positions"][i].status = "OPEN" /\ InScope(rows["positions"][i], rid)}

Over(f, S) == MapThenSumSet(LAMBDA i : f[i], S)
Pnls == [i \in DOMAIN events |-> events[i].payload.pnl]
FeesPaid == [i \in DOMAIN events |-> events[i].payload.fee]
Fundings == [i \in DOMAIN events |-> Amount(events[i].payload.funding)]

RealizedPnl(rid) == Over(Pnls, Of("TRADE_CLOSED", rid))

Fees(rid) == Over(FeesPaid, Of("FILL_OBSERVED", rid))

(* Funding of the fills when one of them tells it, else of the trades. *)
Funding(rid) ==
  IF \E i \in Of("FILL_OBSERVED", rid) : events[i].payload.funding # None
  THEN Over(Fundings, Of("FILL_OBSERVED", rid))
  ELSE Over(Fundings, Of("TRADE_CLOSED", rid))

-----------------------------------------------------------------------------
(* replay_state(rid): without a run id it takes the events of every run. *)
Chosen(rid) == {i \in DOMAIN events : rid \in {None, NoRun} \/ events[i].run = rid}

(* _symbol_for_cycle: an event of the same cycle that names one. *)
SymbolForCycle(taken, i) ==
  IF events[i].payload.symbol # None THEN events[i].payload.symbol
  ELSE LET named == {j \in taken : events[j].cycle = events[i].cycle
                                   /\ events[j].payload.symbol # None}
       IN  IF named = {} THEN None ELSE events[Min(named)].payload.symbol

Nothing ==
  [dispositions |-> [d \in Statuses |-> 0], held |-> [s \in Symbols |-> 0],
   protection |-> [s \in Symbols |-> None], reconciliation |-> "UNKNOWN", breaker |-> "CLOSED",
   pnl |-> 0, fees |-> 0, funding |-> 0, seen |-> FALSE]

(* One event of replay_events, of those taken. *)
Replayed(taken, s, i) ==
  LET p == events[i].payload
      symbol == SymbolForCycle(taken, i) IN
  CASE p.kind = "FILL_OBSERVED" /\ p.symbol # None ->
         [s EXCEPT !.held[p.symbol] = @ + p.held, !.fees = @ + p.fee,
                   !.funding = @ + Amount(p.funding), !.seen = @ \/ p.funding # None]
    [] p.kind \in {"PROTECTION_VERIFIED", "PROTECTION_FAILED"} /\ symbol # None ->
         [s EXCEPT !.protection[symbol] = p.kind]
    [] p.kind = "POSITION_RECONCILED" -> [s EXCEPT !.reconciliation = "IN_SYNC"]
    [] p.kind = "TRADE_CLOSED" ->
         [s EXCEPT !.pnl = @ + p.pnl, !.funding = @ + IF s.seen THEN 0 ELSE Amount(p.funding)]
    [] p.kind = "RISK_BREAKER_OPEN" -> [s EXCEPT !.breaker = "OPEN"]
    [] p.kind = "RISK_BREAKER_CLOSED" -> [s EXCEPT !.breaker = "CLOSED"]
    [] p.kind = "CYCLE_TERMINAL" ->
         [s EXCEPT !.dispositions[p.disposition] = @ + 1]
    [] OTHER -> s

ReplayEvents(taken) ==
  FoldLeft(LAMBDA s, i : IF i \in taken THEN Replayed(taken, s, i) ELSE s,
           Nothing, [i \in DOMAIN events |-> i])

(* assert_replay_equal.  A position of the table and one of the replay have  *)
(* other fields, so they agree only when neither has any.                    *)
ReplayEqual(rid) ==
  LET replayed == ReplayEvents(Chosen(rid)) IN
  /\ replayed.dispositions = DispositionCounts(rid)
  /\ OpenPositions(rid) = {} /\ \A s \in Symbols : replayed.held[s] = 0
  /\ replayed.fees = Fees(rid)
  /\ replayed.funding = Funding(rid)

-----------------------------------------------------------------------------
(* What the runs of the repository write: fills name their symbol, what tells *)
(* funding is filled before a trade is closed, and the end of a cycle has its *)
(* disposition.                                                               *)
Regular(taken) ==
  /\ \A i \in taken : events[i].payload.kind = "FILL_OBSERVED" => events[i].payload.symbol # None
  /\ \A i, j \in taken :
       events[i].payload.kind = "TRADE_CLOSED" /\ events[j].payload.kind = "FILL_OBSERVED"
       /\ events[j].payload.funding # None => j < i
  /\ \A i \in taken :
       events[i].payload.disposition \in Statuses <=> events[i].payload.kind = "CYCLE_TERMINAL"

Flat(rid) ==
  /\ OpenPositions(rid) = {}
  /\ \A s \in Symbols : ReplayEvents(Chosen(rid)).held[s] = 0

(* A run that closed its positions replays to what the queries say of it,    *)
(* whatever other runs wrote between (sqlite.py:315-328).                    *)
ReplayReproducesARun ==
  \A r \in Runs \ {NoRun} :
    Regular(Chosen(r)) /\ Flat(r) =>
      ReplayEqual(r) /\ ReplayEvents(Chosen(r)).pnl = RealizedPnl(r)

(* No half write: an event appended with a projection has its one row, and   *)
(* the row its event, over faults, key clashes and resets                    *)
(* (sqlite.py:145-158).                                                      *)
NoHalfWrites ==
  /\ \A t \in Tables : \A i \in DOMAIN rows[t] :
       rows[t][i].event # 0 =>
         rows[t][i].event \in DOMAIN events /\ events[rows[t][i].event].projected = t
  /\ \A i \in DOMAIN events :
       events[i].projected # None =>
         Cardinality({k \in DOMAIN rows[events[i].projected] :
                        rows[events[i].projected][k].event = i}) = 1

(* Within a life of the file the log only grows and no claim is given twice; *)
(* only a reset clears it, and then all of it (sqlite.py:293-298).           *)
AppendOnly ==
  \/ /\ IsPrefix(events, events')
     /\ \A c \in Cycles : cycles[c] # "absent" =>
          cycles'[c] # "absent" /\ (cycles[c] # "claimed" => cycles'[c] # "claimed")
  \/ /\ events' = <<>> /\ cycles' = [c \in Cycles |-> "absent"]
     /\ \A t \in Tables : rows'[t] = <<>>

(* A run tagged with its id is scoped, "not blended with prior runs"         *)
(* (run_autonomous_paper.py:139): its report replays the ledger without      *)
(* naming the run (run_autonomous_paper.py:100), and that is to succeed when *)
(* the run itself replays.                                                   *)
TaggedRunReplays == run # NoRun /\ ReplayEqual(run) => ReplayEqual(None)
=============================================================================

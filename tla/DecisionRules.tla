---------------------------- MODULE DecisionRules ----------------------------
(***************************************************************************)
(* The rules between a provider's answer and an order: parse_decision      *)
(* (decision_parser.py), validate_decision (agentic_engine.py), the        *)
(* validate_semantic that the tests hold beside it (policy/semantic.py),   *)
(* with limits of its own, size_for_risk (policy/sizing.py), and the book  *)
(* of paper positions that PaperLoop builds with it (paper_loop.py:33-50)  *)
(* at the prices of the exchange.  Prices, sizes and amounts are integers; *)
(* sizing divides only before the floor to a step, and the entry value     *)
(* that a reduction leaves is rounded up.                                  *)
(* What a rejection is called is left out: a rule answers with every code  *)
(* that applies, where the code returns the first of them.                 *)
(***************************************************************************)
EXTENDS Integers, FiniteSets, FiniteSetsExt

CONSTANTS
  Symbols, AllowSymbols,
  Prices,          \* that a decision or a market may name
  MaxLeverage, MaxSpread, MaxAge,   \* of Policy
  MinNotional, MaxPositionNotional, MaxTotalNotional,
  AvailableEquity, RequestedRisk,
  Step,            \* quantity_step
  SemanticLimits,  \* of SemanticPolicy: symbols, leverage, spread, age, least, most, and
                   \* distance: max_entry_distance_bps, as one part in so many of the mark
  None

(* What a configuration has to keep to; the modules that run it check it. *)
RulesAssumption ==
  /\ AllowSymbols \subseteq Symbols
  /\ Prices \subseteq Nat \ {0}
  /\ {MaxLeverage, MinNotional, MaxPositionNotional, MaxTotalNotional, AvailableEquity,
      RequestedRisk, Step} \subseteq Nat \ {0}
  /\ {MaxSpread, MaxAge} \subseteq Nat
  /\ SemanticLimits \in [symbols : SUBSET Symbols, leverage : Nat \ {0}, spread : Nat, age : Nat,
                         least : Nat \ {0}, most : Nat \ {0}, distance : Nat \ {0}]
  /\ None \notin Int

VARIABLES
  size, value,  \* of each symbol: the signed quantity held, and its entry price times it
  excess        \* what the last fill cost above the entry price it was sized at

vars == <<size, value, excess>>

Actions == {"ENTER", "EXIT", "REDUCE", "HOLD", "CANCEL"}
Sign(side) == IF side = "BUY" THEN 1 ELSE -1
Magnitude(n) == IF n < 0 THEN -n ELSE n
Lesser(a, b) == IF a < b THEN a ELSE b
Greater(a, b) == IF a < b THEN b ELSE a

TypeOK ==
  /\ size \in [Symbols -> Int]
  /\ value \in [Symbols -> Nat] /\ excess \in Int
  /\ \A s \in Symbols : size[s] = 0 <=> value[s] = 0

Init ==
  /\ size = [s \in Symbols |-> 0]
  /\ value = [s \in Symbols |-> 0] /\ excess = 0

-----------------------------------------------------------------------------
Number(n) == n \in Int /\ n > 0

(* parse_decision: nothing is repaired.  wellFormed stands for an object     *)
(* with exactly the fields of a decision, whose names and texts are strings  *)
(* of the lengths allowed; fresh for a valid_until_ms to come.               *)
Parsed(d) ==
  /\ d.wellFormed /\ d.fresh
  /\ d.action \in Actions
  /\ d.side \in {"BUY", "SELL", "NONE"}
  /\ \A n \in {d.entry, d.stop, d.target} : n = None \/ Number(n)
  /\ Number(d.leverage) /\ Number(d.notional)
  /\ d.action = "ENTER" => d.side # "NONE" /\ None \notin {d.entry, d.stop, d.target}

(* The stop on the losing side of the entry, the target on the other. *)
Ordered(d) ==
  IF d.side = "BUY" THEN d.stop < d.entry /\ d.entry < d.target
                    ELSE d.target < d.entry /\ d.entry < d.stop

Levels(d) == {d.entry, d.stop, d.target}

(* validate_decision *)
EngineRejects(d, m, killed) ==
  IF killed THEN {"KILL_SWITCH"}
  ELSE IF d.action = "HOLD" THEN {}
  ELSE {c \in {"SYMBOL_NOT_ALLOWED", "MARKET_SYMBOL_MISMATCH", "STALE_MARKET_DATA",
               "SPREAD_TOO_WIDE", "LEVERAGE_LIMIT", "NOTIONAL_LIMIT", "LEVELS_INVALID"} :
          CASE c = "SYMBOL_NOT_ALLOWED" -> d.symbol \notin AllowSymbols
            [] c = "MARKET_SYMBOL_MISMATCH" -> m.symbol # d.symbol
            [] c = "STALE_MARKET_DATA" -> m.age > MaxAge
            [] c = "SPREAD_TOO_WIDE" -> m.spread > MaxSpread
            [] c = "LEVERAGE_LIMIT" -> d.leverage > MaxLeverage
            [] c = "NOTIONAL_LIMIT" -> d.notional > MaxPositionNotional
            [] c = "LEVELS_INVALID" ->
                 d.action = "ENTER" /\ (None \in Levels(d) \/ d.side = "NONE" \/ ~Ordered(d))}

(* The limits of SemanticState that the books of the account have reached. *)
LimitReasons == {"DAILY_LOSS_LIMIT", "DRAWDOWN_LIMIT", "CONCURRENT_POSITIONS_LIMIT",
           "GROSS_EXPOSURE_LIMIT", "NET_EXPOSURE_LIMIT", "CORRELATED_EXPOSURE_LIMIT",
           "SYMBOL_CONCENTRATION_LIMIT", "SLIPPAGE_TOO_HIGH", "FUNDING_TOO_HIGH",
           "FEE_NOT_VIABLE", "PROTECTION_UNVERIFIED"}
Stops == {"KILL_SWITCH_ACTIVE", "PROVIDER_CIRCUIT_OPEN", "RECONCILIATION_DEGRADED"}

(* validate_semantic.  reached are the codes that the account's state        *)
(* brings, held the symbols with a position.                                 *)
SemanticRejects(d, m, reached, held) ==
  LET entering == d.action = "ENTER"
      priced == entering /\ d.entry # None /\ m.mark > 0
      Applies(c) ==
        CASE c = "SYMBOL_NOT_ALLOWED" -> d.symbol \notin SemanticLimits.symbols
          [] c = "MARKET_SYMBOL_MISMATCH" -> m.symbol # d.symbol
          [] c = "MARKET_AGE_INVALID" -> m.age < 0
          [] c = "STALE_MARKET_DATA" -> m.age > SemanticLimits.age
          [] c = "SPREAD_TOO_WIDE" -> m.spread > SemanticLimits.spread
          [] c = "DECISION_EXPIRED" -> ~d.fresh
          [] c = "SIDE_INVALID" -> entering /\ d.side = "NONE"
          [] c = "ENTRY_TOO_FAR_FROM_MARK" ->
               entering /\ (~priced \/ Magnitude(d.entry - m.mark) * SemanticLimits.distance > m.mark)
          [] c = "PROTECTION_REQUIRED" -> entering /\ None \in Levels(d)
          [] c = "LEVELS_INVALID" -> entering /\ None \notin Levels(d) /\ ~Ordered(d)
          [] c = "LEVERAGE_LIMIT" -> entering /\ d.leverage > SemanticLimits.leverage
          [] c = "MIN_NOTIONAL" -> entering /\ d.notional < SemanticLimits.least
          [] c = "MAX_NOTIONAL" -> entering /\ d.notional > SemanticLimits.most
          [] c = "DUPLICATE_EXPOSURE" -> entering /\ d.symbol \in held
  IN IF reached \intersect Stops # {} THEN reached \intersect Stops
     ELSE IF d.action = "HOLD" THEN {}
     ELSE {c \in {"SYMBOL_NOT_ALLOWED", "MARKET_SYMBOL_MISMATCH", "MARKET_AGE_INVALID",
                  "STALE_MARKET_DATA", "SPREAD_TOO_WIDE", "DECISION_EXPIRED", "SIDE_INVALID",
                  "ENTRY_TOO_FAR_FROM_MARK", "PROTECTION_REQUIRED", "LEVELS_INVALID",
                  "LEVERAGE_LIMIT", "MIN_NOTIONAL", "MAX_NOTIONAL", "DUPLICATE_EXPOSURE"} :
             Applies(c)}
          \union (IF entering THEN reached \intersect LimitReasons ELSE {})

-----------------------------------------------------------------------------
(* Mutant: the room is taken without what is already held. *)
RoomOfOne(d, gross) == Min({MaxPositionNotional, d.notional, MaxTotalNotional, AvailableEquity})

(* What is left under every cap on a position's notional. *)
Room(d, gross) ==
  Min({MaxPositionNotional, d.notional, MaxTotalNotional - gross, AvailableEquity})

Floored(amount, price) == (amount \div (price * Step)) * Step

(* size_for_risk: the quantity whose loss at the stop is the risk asked for, *)
(* raised to the venue's minimum, cut to the room, floored to the step; None *)
(* where it raises SizingError.                                              *)
SizeForRisk(d, gross) ==
  LET distance == Magnitude(d.entry - d.stop)
      room == Room(d, gross)
      cap == Lesser(MaxPositionNotional, d.notional)
      wanted == Greater((RequestedRisk \div (distance * Step)) * Step, Floored(MinNotional, d.entry))
      quantity == Lesser(wanted, Floored(room, d.entry))
  IN IF \/ cap < MinNotional
        \/ room <= 0
        \/ quantity <= 0
        \/ quantity * d.entry < MinNotional
     THEN None ELSE quantity

-----------------------------------------------------------------------------
Gross == MapThenSumSet(LAMBDA s : value[s], Symbols)

(* The position after a fill of signed quantity q at price p. *)
Filled(s, q, p) ==
  LET now == size[s] + q IN
  /\ size' = [size EXCEPT ![s] = now]
  /\ value' = [value EXCEPT ![s] =
       IF size[s] = 0 \/ (size[s] > 0) = (q > 0) THEN @ + Magnitude(q) * p
       ELSE IF Magnitude(q) <= Magnitude(size[s])
            THEN @ - (@ * Magnitude(q)) \div Magnitude(size[s])
            ELSE Magnitude(now) * p]

(* PaperLoop.process from the answer on: an answer that does not parse or is *)
(* rejected, or that asks for anything but an entry, leaves the book alone,  *)
(* and so do a SizingError and an order the exchange refuses, which leave    *)
(* process.  None of these is a step.  What is sized at the decision's entry *)
(* is filled at the exchange's own price: place_order passes None for it.    *)
Decide(d, m) ==
  LET quantity == SizeForRisk(d, Gross) IN
  /\ Parsed(d) /\ EngineRejects(d, m, FALSE) = {} /\ d.action = "ENTER"
  /\ quantity # None
  /\ \E price \in Prices :
       /\ Filled(d.symbol, Sign(d.side) * quantity, price)
       /\ excess' = quantity * (price - d.entry)

(* The exchange closes a position at its stop or target. *)
Leave(s) ==
  /\ size[s] # 0
  /\ size' = [size EXCEPT ![s] = 0] /\ value' = [value EXCEPT ![s] = 0]
  /\ UNCHANGED excess

Maybe == Prices \union {None}
AtAndAbove(limits) == limits \union {n + 1 : n \in limits}
Decisions ==
  [wellFormed : {TRUE}, fresh : {TRUE}, action : {"ENTER", "EXIT"}, symbol : Symbols,
   side : {"BUY", "SELL", "NONE"}, entry : Maybe, stop : Prices, target : Maybe,
   leverage : AtAndAbove({MaxLeverage, SemanticLimits.leverage}),
   notional : {MinNotional, MaxPositionNotional}]
Markets == [symbol : Symbols, mark : Prices, age : AtAndAbove({MaxAge, SemanticLimits.age}),
            spread : AtAndAbove({MaxSpread, SemanticLimits.spread})]

(* What process may act on; any other answer leaves the book as it is. *)
Entries == {d \in Decisions : Parsed(d) /\ d.action = "ENTER"}

Next ==
  \/ \E d \in Entries : \E m \in Markets : m.symbol = d.symbol /\ Decide(d, m)
  \/ \E s \in Symbols : Leave(s)

Spec == Init /\ [][Next]_vars

-----------------------------------------------------------------------------
(* However decisions add to, reduce and flip positions and the exchange      *)
(* closes them, the book has more notional than max_total_notional_usd only  *)
(* by what its last fill cost above the entry it was sized at: each sizing   *)
(* sees what those before it left (paper_loop.py:36-46, sizing.py:67-72).    *)
GrossStaysBounded == Gross <= MaxTotalNotional + excess

(* Whatever is held, a sized entry risks no more than was asked for, unless  *)
(* it is at the venue's minimum; it is a number of steps within every cap    *)
(* (sizing.py:63-95).                                                        *)
SizedRiskIsBounded ==
  \A d \in Entries :
    LET q == SizeForRisk(d, Gross) IN
    Ordered(d) /\ q # None =>
      /\ q % Step = 0
      /\ q * d.entry >= MinNotional
      /\ q * d.entry <= Min({MaxPositionNotional, d.notional, AvailableEquity})
      /\ q * Magnitude(d.entry - d.stop) <= RequestedRisk \/ q * d.entry <= MinNotional

(* The codes of validate_decision whose limit SemanticPolicy has wider. *)
WiderLimits ==
  {c \in {"SYMBOL_NOT_ALLOWED", "STALE_MARKET_DATA", "SPREAD_TOO_WIDE", "LEVERAGE_LIMIT",
          "NOTIONAL_LIMIT"} :
     CASE c = "SYMBOL_NOT_ALLOWED" -> ~(SemanticLimits.symbols \subseteq AllowSymbols)
       [] c = "STALE_MARKET_DATA" -> SemanticLimits.age > MaxAge
       [] c = "SPREAD_TOO_WIDE" -> SemanticLimits.spread > MaxSpread
       [] c = "LEVERAGE_LIMIT" -> SemanticLimits.leverage > MaxLeverage
       [] c = "NOTIONAL_LIMIT" -> SemanticLimits.most > MaxPositionNotional}

(* The two gates share one vocabulary (semantic.py:132-133): an entry that   *)
(* parses and that validate_decision rejects, validate_semantic rejects too, *)
(* whatever is held, but for a limit that its own policy has wider.          *)
GatesDifferInLimits ==
  \A d \in Entries, m \in Markets, held \in SUBSET Symbols :
    EngineRejects(d, m, FALSE) \subseteq WiderLimits \/ SemanticRejects(d, m, {}, held) # {}
=============================================================================

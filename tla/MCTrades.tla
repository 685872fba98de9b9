------------------------------ MODULE MCTrades ------------------------------
(* Trades on small instances: two snapshots of one symbol; prices of the     *)
(* exchange in a unit that keeps the shares, fees and slippage of the        *)
(* bounded runs exact.                                                       *)
EXTENDS Trades

CONSTANT TheSymbol

MCSymbols == {TheSymbol}
MCSymbolOf == [s \in Snapshots |-> TheSymbol]

(* One quotation has its mark outside the spread. *)
Price(k) == 7200 * k
MCQuotes == {[bid |-> Price(2), ask |-> Price(3), mark |-> Price(3)],
             [bid |-> Price(1), ask |-> Price(2), mark |-> Price(3)]}
MCLimits == {Price(2)}
MCDefaultPrice == Price(2)

Payload(kind, symbol, disposition, fee, paid, pnl, quantity) ==
  [kind |-> kind, symbol |-> symbol, disposition |-> disposition, fee |-> fee,
   funding |-> paid, pnl |-> pnl, held |-> quantity]

(* An entry and its exit with and without funding, the trade they make, and  *)
(* what closes the cycle.                                                    *)
MCPayloads ==
  {Payload("FILL_OBSERVED", TheSymbol, None, 1, None, 0, 1),
   Payload("FILL_OBSERVED", TheSymbol, None, 1, None, 0, -1),
   Payload("FILL_OBSERVED", TheSymbol, None, 2, 1, 0, -1),
   Payload("TRADE_CLOSED", TheSymbol, None, 2, 1, 3, 0),
   Payload("PROTECTION_VERIFIED", None, None, 0, None, 0, 0),
   Payload("CYCLE_TERMINAL", None, "EXECUTED", 0, None, 0, 0)}

(* The defaults of SemanticPolicy beside the Policy of a paper run: a wider  *)
(* leverage, a narrower spread and age.                                      *)
MCSemanticLimits ==
  [symbols |-> RuleSymbols, leverage |-> MaxLeverage + 1, spread |-> MaxSpread - 1,
   age |-> MaxAge - 1, least |-> MinNotional, most |-> MaxPositionNotional, distance |-> 1]
=============================================================================

---------------------------- MODULE PaperExchange ----------------------------
(***************************************************************************)
(* FakeExchange (execution/fake_exchange.py) for one symbol: orders that   *)
(* fill at once or rest, partial fills, the position they make, protection *)
(* levels, funding and the trades it reports as closed.  Amounts are       *)
(* integers: a unit of quantity is half a lot, and prices are multiples of *)
(* a unit that the divisions of the bounded runs leave exact.  Averages    *)
(* are kept as totals over the position.  A spread and a slippage cost     *)
(* enter every sum together and are one cost here.                         *)
(***************************************************************************)
EXTENDS Integers, Sequences, SequencesExt

CONSTANTS
  Quotes,            \* what a market event may quote: records of bid, ask, mark
  Sizes, Limits,     \* of the orders; sizes are even, so that half of one fills
  DefaultPrice,      \* bid and ask before any market event
  FeePart, SlipPart, FundingPart,   \* of a value: one in so many; 10000 / bps
  None,
  MaxOrders, MaxSequence   \* bounds on what arrives, not of the exchange

Sides == {"BUY", "SELL"}
Levels == Nat \union {None}
Positions ==
  [side : Sides, size : Nat \ {0}, value : Int, reference : Int, costs : Int, funding : Int,
   stop : Levels, target : Levels]

(* What a configuration has to keep to; the modules that run it check it. *)
ExchangeAssumption ==
  /\ None \notin Positions
  /\ Quotes \subseteq [bid : Nat, ask : Nat, mark : Nat]
  /\ Sizes \subseteq Nat \ {0}
  /\ Limits \subseteq Nat
  /\ {DefaultPrice, MaxOrders, MaxSequence} \subseteq Nat
  /\ {FeePart, SlipPart, FundingPart} \subseteq Nat \ {0}

VARIABLES
  orders,        \* in the order of the dict: the market event fills them so
  position,      \* None, or what FakePosition holds
  quote,         \* market_prices of the symbol, or None
  lastSequence,
  funding,       \* _funding_paid - _funding_received
  closed,        \* what closed_trades add up to
  filled         \* history: what the fills add up to

vars == <<orders, position, quote, lastSequence, funding, closed, filled>>

Resting == {"NEW", "PARTIALLY_FILLED"}
Statuses == Resting \union {"FILLED", "CANCELLED", "REJECTED", "EXPIRED"}
Direction(side) == IF side = "BUY" THEN 1 ELSE -1
Opposite(side) == IF side = "BUY" THEN "SELL" ELSE "BUY"
Least(a, b) == IF a < b THEN a ELSE b
Distance(a, b) == IF a < b THEN b - a ELSE a - b

TypeOK ==
  /\ \A i \in DOMAIN orders :
       /\ orders[i].status \in Statuses
       /\ 0 <= orders[i].filled /\ orders[i].filled <= orders[i].size
  /\ position \in Positions \union {None}
  /\ lastSequence \in 0..MaxSequence
  /\ quote # None => quote \in [bid : Nat, ask : Nat, mark : Nat]

Init ==
  /\ orders = <<>>
  /\ position = None
  /\ quote = None
  /\ lastSequence = 0
  /\ funding = 0
  /\ closed = [net |-> 0, fees |-> 0, costs |-> 0, funding |-> 0]
  /\ filled = [size |-> 0, cash |-> 0, fees |-> 0, costs |-> 0, flipped |-> FALSE]

-----------------------------------------------------------------------------
(* An account is what a fill changes: the position and the two sums. *)
Account == [position |-> position, closed |-> closed, filled |-> filled]

Fee(value) == value \div FeePart

Executable(m, side, otherwise) ==
  IF m = None THEN otherwise ELSE IF side = "BUY" THEN m.ask ELSE m.bid

Mark(m, otherwise) == IF m = None THEN otherwise ELSE m.mark

(* _price for an order without a limit. *)
MarketPrice(m, side) ==
  LET base == Executable(m, side, DefaultPrice)
  IN  base + Direction(side) * (base \div SlipPart)

CostOf(m, side, size, price) ==
  LET quoted == Executable(m, side, price)
  IN  (Distance(quoted, Mark(m, price)) + Distance(price, quoted)) * size

(* The part of an amount that goes with `part` of the position's size. *)
Share(amount, part, size) == (amount * part) \div size

(* Mutant: what stays open keeps the whole cost of the entry. *)
RemainderAllCosts(p, part) ==
  IF part = p.size THEN None
  ELSE [p EXCEPT !.size = @ - part, !.value = @ - Share(@, part, p.size),
                 !.reference = @ - Share(@, part, p.size),
                 !.funding = @ - Share(@, part, p.size)]

(* What stays open of a position of which `part` is closed. *)
Remainder(p, part) ==
  IF part = p.size THEN None
  ELSE [p EXCEPT !.size = @ - part,
                 !.value = @ - Share(@, part, p.size),
                 !.reference = @ - Share(@, part, p.size),
                 !.costs = @ - Share(@, part, p.size),
                 !.funding = @ - Share(@, part, p.size)]

(* The trade that closing `part` of position p at this fill reports. *)
Trade(m, p, part, price, fee, costs) ==
  LET gross == Direction(p.side) * (Mark(m, price) * part - Share(p.reference, part, p.size))
      fees == Fee(Share(p.value, part, p.size)) + fee
      costs2 == Share(p.costs, part, p.size) + costs
      paid == Share(p.funding, part, p.size)
  IN  [net |-> gross - fees - paid - costs2, fees |-> fees, costs |-> costs2, funding |-> paid]

Opened(m, side, size, price, costs) ==
  [side |-> side, size |-> size, value |-> price * size,
   reference |-> Mark(m, price) * size, costs |-> costs, funding |-> 0,
   stop |-> None, target |-> None]

Enlarged(m, p, size, price, costs) ==
  [p EXCEPT !.size = @ + size, !.value = @ + price * size,
            !.reference = @ + Mark(m, price) * size, !.costs = @ + costs]

PlusTrade(c, t) ==
  [net |-> c.net + t.net, fees |-> c.fees + t.fees,
   costs |-> c.costs + t.costs, funding |-> c.funding + t.funding]

Against(p, side) == p # None /\ p.side # side

(* _apply_position.  A fill against the position closes as much of it as it  *)
(* can, and opens the other side with the rest.                              *)
PositionAfter(m, p, side, size, price, costs) ==
  IF p = None THEN Opened(m, side, size, price, costs)
  ELSE IF ~Against(p, side) THEN Enlarged(m, p, size, price, costs)
  ELSE IF size <= p.size THEN Remainder(p, size)
  ELSE Opened(m, side, size - p.size, price, costs)

(* _fill.  The trade it reports and the position it opens each bear all of   *)
(* its fee and costs.                                                        *)
Fill(a, m, side, size, price) ==
  LET fee == Fee(size * price)
      costs == CostOf(m, side, size, price)
      p == a.position
  IN [position |-> PositionAfter(m, p, side, size, price, costs),
      closed |->
        IF Against(p, side)
        THEN PlusTrade(a.closed, Trade(m, p, Least(p.size, size), price, fee, costs))
        ELSE a.closed,
      filled |->
        [size |-> a.filled.size + Direction(side) * size,
         cash |-> a.filled.cash - Direction(side) * size * price,
         fees |-> a.filled.fees + fee,
         costs |-> a.filled.costs + costs,
         flipped |-> a.filled.flipped \/ (Against(p, side) /\ size > p.size)]]

SetAccount(a) ==
  position' = a.position /\ closed' = a.closed /\ filled' = a.filled

-----------------------------------------------------------------------------
Crosses(m, side, limit) ==
  limit # None =>
    IF side = "BUY" THEN limit >= Executable(m, side, DefaultPrice)
                    ELSE limit <= Executable(m, side, DefaultPrice)

MayReduce(side, size) ==
  position # None /\ position.side # side /\ size <= position.size

Order(side, size, limit, status, done) ==
  [side |-> side, size |-> size, price |-> limit, status |-> status, filled |-> done]

(* submit_order against quotation m.  valid stands for the rules of the      *)
(* venue on steps and minima, immediate for IOC and FOK.                     *)
SubmitAt(m, side, size, limit, reduceOnly, immediate, valid) ==
  LET Kept(status, done) ==
        orders' = Append(orders, Order(side, size, limit, status, done))
      price == IF limit = None THEN MarketPrice(m, side) ELSE limit
      accepted == valid /\ (reduceOnly => MayReduce(side, size))
  IN
  \/ /\ ~accepted
     /\ Kept("REJECTED", 0)
     /\ UNCHANGED <<position, closed, filled>>
  \/ /\ accepted
     /\ ~Crosses(m, side, limit)
     /\ Kept(IF immediate THEN "EXPIRED" ELSE "NEW", 0)
     /\ UNCHANGED <<position, closed, filled>>
  \/ /\ accepted
     /\ Crosses(m, side, limit)
     /\ Kept("FILLED", size)
     /\ SetAccount(Fill(Account, m, side, size, price))

(* A client order id is used once: submitting it again returns the order it  *)
(* has or raises, and changes nothing.                                       *)
SubmitOrder(side, size, limit, reduceOnly, immediate, valid) ==
  /\ Len(orders) < MaxOrders
  /\ SubmitAt(quote, side, size, limit, reduceOnly, immediate, valid)
  /\ UNCHANGED <<quote, lastSequence, funding>>

CancelOrder(i) ==
  /\ orders[i].status \in Resting
  /\ orders' = [orders EXCEPT ![i].status = "CANCELLED"]
  /\ UNCHANGED <<position, quote, lastSequence, funding, closed, filled>>

SetProtection(stop, target) ==
  /\ position # None
  /\ position' = [position EXCEPT !.stop = stop, !.target = target]
  /\ UNCHANGED <<orders, quote, lastSequence, funding, closed, filled>>

(* close_position_at_end_of_replay; the venue may refuse a rest that is no   *)
(* number of its steps.                                                      *)
CloseAtEnd(mark, valid) ==
  /\ Len(orders) < MaxOrders
  /\ IF position = None
     THEN /\ SubmitAt(quote, "BUY", 0, None, TRUE, FALSE, FALSE)
          /\ UNCHANGED quote
     ELSE LET bid == Executable(quote, "SELL", mark)
              ask == Executable(quote, "BUY", mark) IN
          /\ quote' = [bid |-> bid, ask |-> ask, mark |-> mark]
          /\ SubmitAt(quote', Opposite(position.side), position.size, None, TRUE, FALSE, valid)
  /\ UNCHANGED <<lastSequence, funding>>

-----------------------------------------------------------------------------
(* Funding of one event, paid when positive: a long pays a positive rate.    *)
(* A settlement and a bar between two settlements are billed alike.          *)
FundingOf(p, mark, rate) ==
  IF p = None THEN 0
  ELSE Direction(p.side) * rate * ((p.size * mark) \div FundingPart)

(* A resting order that crosses fills, the first time by half. *)
FillResting(m, acc, i) ==
  LET o == acc.orders[i]
      remaining == o.size - o.filled
      part == IF o.status = "NEW" /\ remaining > 1 THEN remaining \div 2 ELSE remaining
  IN  IF o.status \notin Resting \/ ~Crosses(m, o.side, o.price) THEN acc
      ELSE [orders |-> [acc.orders EXCEPT
                          ![i].filled = @ + part,
                          ![i].status = IF part = remaining THEN "FILLED" ELSE "PARTIALLY_FILLED"],
            account |-> Fill(acc.account, m, o.side, part, o.price)]

Breached(p, mark) ==
  LET below(level) == level # None /\ mark <= level
      above(level) == level # None /\ mark >= level
  IN  /\ p # None
      /\ IF p.side = "BUY" THEN below(p.stop) \/ above(p.target)
                           ELSE above(p.stop) \/ below(p.target)

(* Closes a position whose levels the mark has reached, at what the market   *)
(* executes.                                                                 *)
Protect(m, acc) ==
  LET p == acc.account.position
      side == Opposite(p.side) IN
  IF ~Breached(p, m.mark) THEN acc
  ELSE [orders |-> Append(acc.orders, Order(side, p.size, MarketPrice(m, side), "FILLED", p.size)),
        account |-> Fill(acc.account, m, side, p.size, MarketPrice(m, side))]

(* apply_market_event; one that is not newer than the last is dropped. *)
MarketEvent(sequence, m, rate) ==
  LET due == FundingOf(position, m.mark, rate)
      billed == IF position = None THEN Account
                ELSE [Account EXCEPT !.position.funding = @ + due]
      rested == FoldLeft(LAMBDA acc, i : FillResting(m, acc, i),
                         [orders |-> orders, account |-> billed],
                         [i \in DOMAIN orders |-> i])
      after == Protect(m, rested)
  IN
  /\ sequence > lastSequence
  /\ lastSequence' = sequence
  /\ quote' = m
  /\ funding' = funding + due
  /\ orders' = after.orders
  /\ SetAccount(after.account)

Next ==
  \/ \E side \in Sides, size \in Sizes, limit \in Limits \union {None},
        reduceOnly, immediate, valid \in BOOLEAN :
       SubmitOrder(side, size, limit, reduceOnly, immediate, valid)
  \/ \E i \in DOMAIN orders : CancelOrder(i)
  \/ \E m \in Quotes : SetProtection(m.bid, None) \/ SetProtection(None, m.mark)
  \/ \E m \in Quotes, valid \in BOOLEAN : CloseAtEnd(m.mark, valid)
  \/ \E sequence \in 1..MaxSequence, m \in Quotes, rate \in {-1, 0, 1} :
       MarketEvent(sequence, m, rate)

Spec == Init /\ [][Next]_vars

-----------------------------------------------------------------------------
Held == IF position = None THEN 0 ELSE Direction(position.side) * position.size
OpenFunding == IF position = None THEN 0 ELSE position.funding

(* The position is what the fills add up to, over partial closes, flips and  *)
(* protection (fake_exchange.py:157-197), and what funding was billed is in  *)
(* the closed trades or goes on with the position (168, 178, 216-232).       *)
BooksBalance ==
  /\ Held = filled.size
  /\ funding = closed.funding + OpenFunding

(* With nothing open, the closed trades never report more than the cash that *)
(* the fills moved, less fees and funding: marks outside the spread and      *)
(* flips only make the report worse (fake_exchange.py:147-172).              *)
ReportIsConservative ==
  position = None => closed.net <= filled.cash - filled.fees - funding

(* Costs are charged exactly once (SYSTEM_ARCHITECTURE:398, and the report   *)
(* of phase 5): with nothing open, closed trades charge what the fills cost. *)
CostsChargedOnce ==
  position = None => closed.fees = filled.fees /\ closed.costs = filled.costs

(* It holds as long as no order is larger than the position it closes. *)
CostsChargedOnceUnlessFlipped == ~filled.flipped => CostsChargedOnce

(* An order is filled by its size at most, only while it rests, and once it  *)
(* is cancelled, filled, expired or rejected nothing happens to it.          *)
OrdersOnlyMoveOn ==
  \A i \in DOMAIN orders :
    /\ orders[i].status \notin Resting => orders'[i] = orders[i]
    /\ orders[i].filled <= orders'[i].filled
    /\ orders[i].status = "PARTIALLY_FILLED" => orders'[i].status # "NEW"
=============================================================================

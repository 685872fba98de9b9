----------------------------- MODULE DemoVenue ------------------------------
(***************************************************************************)
(* BitgetDemoAdapter (execution/bitget_demo.py) as the prove-out uses it   *)
(* (scripts/run_demo_proveout.py): one placing request, three reads and a  *)
(* verdict on protection, each request behind the environment's gate, each *)
(* able to fail after the venue has acted on it.  An operator runs it      *)
(* again.  The venue is external: it refuses a second order with a         *)
(* clientOid it knows, fills when it likes, and keeps an order's levels    *)
(* until it is gone.                                                       *)
(***************************************************************************)
EXTENDS Naturals, FiniteSets, Sequences

CONSTANTS
  Orders,     \* the orders an operator asks for
  Nonces,     \* what a clientOid could be told apart by beside its order
  WithLevels, \* the orders that carry preset levels
  MaxRuns,    \* bound: executions
  None

(* What a configuration has to keep to; the modules that run it check it. *)
VenueAssumption == Nonces # {} /\ MaxRuns \in Nat /\ None \notin Orders

VARIABLES
  confirmed,  \* DEMO_EXECUTION_CONFIRM is 1
  atVenue,    \* the venue's orders: clientOid -> state, for those it has
  at,         \* the request execute makes next
  asked,      \* its order
  oid,        \* its clientOid
  protection, \* what the order detail showed: TRUE, FALSE or None
  runs,
  reports     \* what execute returned: orders and dispositions

vars == <<confirmed, atVenue, at, asked, oid, protection, runs, reports>>

Oids == [order : Orders, nonce : Nonces]
Steps == {"idle", "submit", "order", "fills", "positions"}
Dispositions == {"EXECUTED_PROTECTED", "PARKED_PROTECTION_MISSING"}

TypeOK ==
  /\ confirmed \in BOOLEAN
  /\ atVenue \in [Oids -> {"unknown", "live", "gone"}]
  /\ at \in Steps /\ asked \in Orders \union {None} /\ oid \in Oids \union {None}
  /\ protection \in BOOLEAN \union {None}
  /\ runs \in 0..MaxRuns
  /\ reports \in Seq([order : Orders, disposition : Dispositions])

Init ==
  /\ confirmed \in BOOLEAN
  /\ atVenue = [o \in Oids |-> "unknown"]
  /\ at = "idle" /\ asked = None /\ oid = None /\ protection = None
  /\ runs = 0 /\ reports = <<>>

AnyNonce == CHOOSE n \in Nonces : TRUE

(* Mutant: an identifier of its own for every submission. *)
ClientOrderIdFresh(o, n) == [order |-> o, nonce |-> n]

(* client_order_id: a digest of the order and of nothing else. *)
ClientOrderId(o, n) == [order |-> o, nonce |-> AnyNonce]

Execute(o) ==
  /\ at = "idle" /\ runs < MaxRuns
  /\ at' = "submit" /\ asked' = o
  /\ \E n \in Nonces : oid' = ClientOrderId(o, n)
  /\ protection' = None /\ runs' = runs + 1
  /\ UNCHANGED <<confirmed, atVenue, reports>>

(* _request raises: the gate is closed, the transport or the venue fails, or *)
(* the reply is no JSON.  Whether the venue has acted is not known.          *)
Raises == at' = "idle" /\ UNCHANGED <<confirmed, asked, oid, protection, runs, reports>>

Submit ==
  /\ at = "submit"
  /\ \/ Raises /\ UNCHANGED atVenue
     \/ /\ confirmed /\ atVenue[oid] = "unknown"
        /\ atVenue' = [atVenue EXCEPT ![oid] = "live"]
        /\ \/ Raises
           \/ at' = "order" /\ UNCHANGED <<confirmed, asked, oid, protection, runs, reports>>

(* verify_protection looks at the order's detail, which shows both levels or *)
(* neither, and is read as empty when the reply has no object in it.         *)
ReadOrder ==
  /\ at = "order"
  /\ \/ Raises
     \/ /\ confirmed
        /\ protection' \in {FALSE, (asked \in WithLevels)}
        /\ at' = "fills"
        /\ UNCHANGED <<confirmed, asked, oid, runs, reports>>
  /\ UNCHANGED atVenue

(* Any fills and positions, or none, are evidence and decide nothing. *)
ReadFills ==
  /\ at = "fills"
  /\ Raises \/ (confirmed /\ at' = "positions"
                /\ UNCHANGED <<confirmed, asked, oid, protection, runs, reports>>)
  /\ UNCHANGED atVenue

ReadPositions ==
  /\ at = "positions"
  /\ \/ Raises
     \/ /\ confirmed /\ at' = "idle"
        /\ reports' = Append(reports, [order |-> asked, disposition |->
             IF protection THEN "EXECUTED_PROTECTED" ELSE "PARKED_PROTECTION_MISSING"])
        /\ UNCHANGED <<confirmed, asked, oid, protection, runs>>
  /\ UNCHANGED atVenue

Venue ==
  /\ \E o \in Oids : atVenue[o] = "live" /\ atVenue' = [atVenue EXCEPT ![o] = "gone"]
  /\ UNCHANGED <<confirmed, at, asked, oid, protection, runs, reports>>

Operator ==
  /\ confirmed' = ~confirmed
  /\ UNCHANGED <<atVenue, at, asked, oid, protection, runs, reports>>

Next ==
  \/ \E o \in Orders : Execute(o)
  \/ Submit \/ ReadOrder \/ ReadFills \/ ReadPositions
  \/ Venue \/ Operator

Spec == Init /\ [][Next]_vars

-----------------------------------------------------------------------------
PlacedFor(o) == {i \in Oids : i.order = o /\ atVenue[i] # "unknown"}

(* However often an order is executed again, and whichever request was lost, *)
(* the venue has it once; it is reported once, after it was placed, and as   *)
(* protected only if it carries levels (bitget_demo.py:101-104, 142-192).    *)
OneOrderPerRequest ==
  /\ \A o \in Orders : Cardinality(PlacedFor(o)) <= 1
  /\ \A n \in DOMAIN reports :
       LET r == reports[n] IN
       /\ PlacedFor(r.order) # {}
       /\ r.disposition = "EXECUTED_PROTECTED" => r.order \in WithLevels
       /\ \A k \in DOMAIN reports : reports[k].order = r.order => k = n

(* The execution that placed the order is over, and did not report it. *)
Lost(o) ==
  /\ PlacedFor(o) # {}
  /\ \A n \in DOMAIN reports : reports[n].order # o
  /\ at \in {"idle", "submit"} \/ asked # o

(* An order that the venue has and whose execution ended in an error is not  *)
(* found by executing again, however often: the second submission is refused *)
(* before anything is read back (bitget_demo.py:182-192).                    *)
LostStaysLost == \A o \in Orders : Lost(o) => Lost(o)'
=============================================================================

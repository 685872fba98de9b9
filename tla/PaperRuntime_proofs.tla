------------------------ MODULE PaperRuntime_proofs ------------------------
(***************************************************************************)
(* Theorems about PaperRuntime, for any number of calls, snapshots and     *)
(* symbols, any bound on concurrency and crashes, any breakers.            *)
(***************************************************************************)
EXTENDS PaperRuntime, SequenceTheorems, FiniteSetTheorems, TLAPS

-----------------------------------------------------------------------------
(* The breaker operations keep the shape of the state record.               *)

BreakerRecords ==
  [registry : [BreakerNames -> B!Trippers], stored : [BreakerNames -> B!Trippers],
   raised : [B!Monitors -> BOOLEAN], beatAge : {ColdStart} \union 0..(MaxGap + 1),
   failed : BOOLEAN]

LEMMA SavedTyped ==
  ASSUME NEW m \in BreakerRecords, NEW works \in BOOLEAN
  PROVE  B!Saved(m, works) \in BreakerRecords
BY DEF BreakerRecords, B!Saved

LEMMA TripTyped ==
  ASSUME NEW m \in BreakerRecords, NEW n \in BreakerNames,
         NEW who \in B!Trippers, NEW works \in BOOLEAN
  PROVE  B!Trip(m, n, who, works) \in BreakerRecords
<1>1. [m EXCEPT !.registry[n] = who] \in BreakerRecords
  BY DEF BreakerRecords
<1> QED BY <1>1, SavedTyped DEF B!Trip

LEMMA ClearTyped ==
  ASSUME NEW m \in BreakerRecords, NEW n \in BreakerNames, NEW works \in BOOLEAN
  PROVE  B!Clear(m, n, works) \in BreakerRecords
<1>1. [m EXCEPT !.registry[n] = "closed"] \in BreakerRecords
  BY DEF BreakerRecords, B!Trippers
<1> QED BY <1>1, SavedTyped DEF B!Clear

LEMMA SetRaisedTyped ==
  ASSUME NEW m \in BreakerRecords, NEW n \in B!Monitors, NEW b \in BOOLEAN
  PROVE  B!SetRaised(m, n, b) \in BreakerRecords
BY DEF BreakerRecords, B!SetRaised

LEMMA ObserveTyped ==
  ASSUME B!Monitors \subseteq BreakerNames,
         NEW m \in BreakerRecords, NEW n \in B!Monitors, NEW status, NEW works \in BOOLEAN
  PROVE  B!Observe(m, n, status, works) \in BreakerRecords
<1>1. B!Trip(m, n, "monitor", works) \in BreakerRecords
  BY TripTyped DEF B!Trippers
<1>2. B!Clear(m, n, works) \in BreakerRecords
  BY ClearTyped
<1> QED
  BY <1>1, <1>2, SetRaisedTyped DEF B!Observe

LEMMA EvaluateTyped ==
  ASSUME B!Monitors \subseteq BreakerNames, NEW m \in BreakerRecords, NEW bad
  PROVE  B!EvaluateMonitors(m, bad) \in BreakerRecords
<1> DEFINE h == B!HeartbeatTick(m, "heartbeat" \notin bad)
<1>1. h \in BreakerRecords
  BY ObserveTyped DEF B!HeartbeatTick, B!Monitors
<1>2. B!ResourceTick(h, "resource" \notin bad) \in BreakerRecords
  BY <1>1, ObserveTyped DEF B!ResourceTick, B!Monitors
<1> QED BY <1>2 DEF B!EvaluateMonitors

LEMMA BeatTyped ==
  ASSUME B!Monitors \subseteq BreakerNames, MaxGap \in Nat,
         NEW m \in BreakerRecords, NEW works \in BOOLEAN
  PROVE  B!Beat(m, works) \in BreakerRecords
<1> DEFINE beaten == [m EXCEPT !.beatAge = 0]
<1>1. beaten \in BreakerRecords
  BY DEF BreakerRecords
<1>2. B!Clear(beaten, "heartbeat", works) \in BreakerRecords
  BY <1>1, ClearTyped DEF B!Monitors
<1> QED
  BY <1>1, <1>2, SetRaisedTyped DEF B!Beat, B!Monitors

LEMMA NowTyped == B!TypeOK => B!Now \in BreakerRecords
BY DEF B!TypeOK, B!Now, BreakerRecords

LEMMA StartTyped ==
  ASSUME B!Monitors \subseteq BreakerNames, MaxGap \in Nat, B!TypeOK, NEW bad
  PROVE  B!StartOfCycle(bad) \in BreakerRecords
BY NowTyped, BeatTyped, EvaluateTyped DEF B!StartOfCycle

LEMMA BecomeTyped ==
  ASSUME B!TypeOK, NEW m \in BreakerRecords, B!Become(m)
  PROVE  B!TypeOK'
BY DEF B!TypeOK, B!Become, BreakerRecords

LEMMA BreakerConstants ==
  /\ Attached \subseteq B!Monitors
  /\ B!Monitors \subseteq BreakerNames
  /\ MaxGap \in Nat \ {0}
BY RuntimeAssumption DEF B!Monitors

LEMMA BreakersMoveTyped ==
  ASSUME B!TypeOK, BreakersMove
  PROVE  B!TypeOK'
<1>1. CASE B!TickMonitors
  <2>1. PICK bad \in B!FailedSaves : B!Become(B!EvaluateMonitors(B!Now, bad))
    BY <1>1 DEF B!TickMonitors
  <2> QED BY <2>1, NowTyped, EvaluateTyped, BecomeTyped, BreakerConstants
<1>2. ASSUME NEW n \in BreakerNames, B!OperatorTrip(n)
      PROVE  B!TypeOK'
  <2>1. PICK works \in BOOLEAN : B!Become(B!Trip(B!Now, n, "operator", works))
    BY <1>2 DEF B!OperatorTrip, B!SaveOutcomes
  <2> QED BY <2>1, NowTyped, TripTyped, BecomeTyped DEF B!Trippers
<1>3. ASSUME NEW n \in BreakerNames, B!OperatorClear(n)
      PROVE  B!TypeOK'
  <2>1. PICK works \in BOOLEAN : B!Become(B!Clear(B!Now, n, works))
    BY <1>3 DEF B!OperatorClear, B!SaveOutcomes
  <2> QED BY <2>1, NowTyped, ClearTyped, BecomeTyped
<1>4. CASE B!ClockAdvances
  BY <1>4, BreakerConstants DEF B!ClockAdvances, B!TypeOK
<1>5. CASE B!HostChanges
  BY <1>5 DEF B!HostChanges, B!TypeOK
<1> QED BY <1>1, <1>2, <1>3, <1>4, <1>5 DEF BreakersMove

LEMMA BeginBreakersTyped ==
  ASSUME B!TypeOK, NEW t \in Calls, Begin(t)
  PROVE  B!TypeOK'
<1>1. CASE UNCHANGED breakerVars
  BY <1>1 DEF breakerVars, B!TypeOK
<1>2. CASE \E bad \in B!FailedSaves : B!Become(B!StartOfCycle(bad))
  BY <1>2, StartTyped, BecomeTyped, BreakerConstants
<1> QED BY <1>1, <1>2 DEF Begin

-----------------------------------------------------------------------------
(* Type correctness                                                          *)

LEMMA LogTyped ==
  ASSUME ledger \in [Snapshots -> Seq(Events)],
         NEW t, call[t].snapshot \in Snapshots, context \in Snapshots,
         NEW type \in EventTypes, NEW d \in Dispositions \union {"", "SKIPPED"},
         Log(t, type, d)
  PROVE  ledger' \in [Snapshots -> Seq(Events)]
<1> DEFINE e == [type |-> type, context |-> context, disposition |-> d]
           s == call[t].snapshot
<1>1. e \in Events
  BY DEF Events
<1>2. Append(ledger[s], e) \in Seq(Events)
  <2>1. ledger[s] \in Seq(Events)
    OBVIOUS
  <2> HIDE DEF e, s
  <2> QED BY <1>1, <2>1, AppendProperties
<1>3. ledger' = [ledger EXCEPT ![s] = Append(ledger[s], e)]
  BY DEF Log
<1> QED BY <1>2, <1>3

-----------------------------------------------------------------------------
(* A step of one call keeps what every other call tells                      *)

CallTyped ==
  /\ call \in [Calls -> CallStates]
  /\ loop \in Calls \union {None}
  /\ context \in Snapshots \union {None}
  /\ cycles \in [Snapshots -> {"unclaimed", "claimed"} \union Dispositions]
  /\ fills \in [Snapshots -> Nat]
  /\ orders \subseteq Snapshots

USE DEF Becomes

LEMMA OneCallMoves ==
  ASSUME CallTyped, OwnershipInv,
         NEW t \in Calls, NEW c \in CallStates, Becomes(t, c),
         call[t].at \in Going,
         c.snapshot = call[t].snapshot,
         loop \in {t, None}, loop' \in {t, None}, context' = context,
         c.at \in Owning => call[t].at \in Owning \/ cycles[c.snapshot] = "unclaimed",
         UNCHANGED <<cycles, fills>>
           \/ call[t].at \in Owning \/ cycles[c.snapshot] = "unclaimed",
         cycles' \in [Snapshots -> {"unclaimed", "claimed"} \union Dispositions],
         fills' \in [Snapshots -> Nat],
         orders' \subseteq Snapshots,
         \A s \in Snapshots \ {c.snapshot} :
           cycles'[s] = cycles[s] /\ fills'[s] = fills[s] /\ (s \in orders' => s \in orders),
         CallTells(t)',
         c.snapshot \in Snapshots => CycleTells(c.snapshot)'
  PROVE  CallTyped' /\ OwnershipInv'
<1>1. CallTyped'
  <2>1. call' \in [Calls -> CallStates]
    BY DEF CallTyped
  <2> QED
    BY <2>1 DEF CallTyped
<1>2. \A u \in Calls \ {t} : call'[u] = call[u]
  BY DEF CallTyped
<1>3. call'[t] = c
  BY DEF CallTyped
<1>4. ASSUME NEW u \in Calls
      PROVE  CallTells(u)'
  <2>1. CASE u = t
    BY <2>1
  <2>2. CASE u # t /\ call[u].at \notin Going
    BY <1>2, <2>2 DEF CallTells, Going, Owning, BeforeOrder, AfterOrder
  <2>3. CASE u # t /\ call[u].at \in Going \ Owning
    <3>1. CallTells(u)
      BY DEF OwnershipInv
    <3>2. call'[u] = call[u] /\ call[u].at \in {"claim", "skip"}
      BY <1>2, <2>3 DEF Going
    <3>3. loop = u /\ u # None
      BY <3>1, <3>2, RuntimeAssumption DEF CallTells, Going
    <3> QED BY <3>3, <2>3
  <2>4. CASE u # t /\ call[u].at \in Owning
    <3>1. CallTells(u)
      BY DEF OwnershipInv
    <3>2. call'[u] = call[u] /\ call[u].at \in Going
      BY <1>2, <2>4 DEF Going
    <3>3. call[u].snapshot \in Snapshots /\ context \in Snapshots /\ call[u].at = "provider"
      BY <3>1, <3>2, <2>4, RuntimeAssumption DEF CallTells
    <3>4. cycles[call[u].snapshot] = "claimed" /\ fills[call[u].snapshot] = 0
      BY <3>1, <3>3, <2>4 DEF CallTells, BeforeOrder
    <3>5. cycles'[call[u].snapshot] = "claimed" /\ fills'[call[u].snapshot] = 0
      <4>1. CASE call[u].snapshot = c.snapshot
        <5>1. call[t].at \notin Owning
          BY <4>1, <2>4 DEF OwnershipInv, OneOwner
        <5> QED BY <5>1, <4>1, <3>4
      <4>2. CASE call[u].snapshot # c.snapshot
        BY <4>2, <3>3, <3>4
      <4> QED BY <4>1, <4>2
    <3> QED
      BY <3>2, <3>3, <3>5 DEF CallTells, Going, AfterOrder
  <2> QED BY <2>1, <2>2, <2>3, <2>4
<1>5. ASSUME NEW s \in Snapshots
      PROVE  CycleTells(s)'
  <2>1. CASE s = c.snapshot
    BY <2>1
  <2>2. CASE s # c.snapshot
    BY <2>2 DEF CycleTells, OwnershipInv
  <2> QED BY <2>1, <2>2
<1>6. OneOwner'
  <2> SUFFICES ASSUME NEW u \in Calls \ {t}, call'[u].at \in Owning, call'[t].at \in Owning,
                      call'[u].snapshot = call'[t].snapshot
               PROVE  FALSE
    BY <1>2 DEF OneOwner, OwnershipInv
  <2>1. call[u].at \in Owning /\ call[u].snapshot = c.snapshot /\ c.at \in Owning
    BY <1>2, <1>3
  <2>2. CASE call[t].at \in Owning
    BY <2>1, <2>2 DEF OneOwner, OwnershipInv
  <2>3. CASE cycles[c.snapshot] = "unclaimed"
    <3>1. CallTells(u)
      BY DEF OwnershipInv
    <3> QED BY <2>1, <2>3, <3>1 DEF CallTells
  <2> QED BY <2>1, <2>2, <2>3
<1> QED BY <1>1, <1>4, <1>5, <1>6 DEF OwnershipInv

(* Most steps touch neither the cycles nor the exchange. *)
LEMMA QuietMove ==
  ASSUME CallTyped, OwnershipInv,
         NEW t \in Calls, NEW c \in CallStates, Becomes(t, c),
         call[t].at \in Going,
         c.snapshot = call[t].snapshot,
         loop \in {t, None}, loop' \in {t, None},
         UNCHANGED <<context, cycles, fills, orders>>,
         c.at \in Going /\ c.at # "provider" => loop' = t,
         c.at \in Owning => call[t].at \in Owning,
         c.at \in BeforeOrder => call[t].at \in BeforeOrder,
         c.at \in AfterOrder => call[t].at \in AfterOrder,
         c.at \in {"protected", "reconcile"} => c.verdict \in Entered,
         c.at \in {"terminal", "close"} =>
           c.verdict \in Dispositions /\ (c.verdict \in Entered <=> fills[c.snapshot] = 1)
  PROVE  CallTyped' /\ OwnershipInv'
<1>1. call'[t] = c
  BY DEF CallTyped
<1>2. CallTells(t) /\ c.snapshot \in Snapshots /\ CycleTells(c.snapshot)
  BY DEF OwnershipInv, CallTells
<1>3. CallTells(t)'
  BY <1>1, <1>2 DEF CallTells
<1>4. CycleTells(c.snapshot)'
  BY <1>2 DEF CycleTells
<1> QED BY <1>3, <1>4, OneCallMoves DEF CallTyped

(* What the call records that the actions build are. *)
LEMMA MovedCall ==
  ASSUME NEW c \in CallStates, NEW at \in {"idle"} \union Going \union Ended
  PROVE  /\ [c EXCEPT !.at = at] \in CallStates
         /\ [c EXCEPT !.at = at].at = at
         /\ [c EXCEPT !.at = at].snapshot = c.snapshot
         /\ [c EXCEPT !.at = at].verdict = c.verdict
BY DEF CallStates

LEMMA ConcludedCall ==
  ASSUME NEW t \in Calls, call[t] \in CallStates, NEW v \in Dispositions
  PROVE  /\ Concluded(t, v) \in CallStates
         /\ Concluded(t, v).at = "terminal"
         /\ Concluded(t, v).snapshot = call[t].snapshot
         /\ Concluded(t, v).verdict = v
BY DEF CallStates, Concluded, Going, Owning

LEMMA EndedCallIs ==
  ASSUME NEW t \in Calls, call[t] \in CallStates, NEW how \in Ended
  PROVE  /\ EndedCall(t, how) \in CallStates
         /\ EndedCall(t, how).at = how
         /\ EndedCall(t, how).snapshot = call[t].snapshot
BY DEF CallStates, EndedCall, NewCall

(* Ending a call, by whatever step. *)
LEMMA EndMove ==
  ASSUME CallTyped, OwnershipInv,
         NEW t \in Calls, NEW how \in Ended, End(t, how), call[t].at \in Going,
         loop \in {t, None}, UNCHANGED <<context, cycles, fills, orders>>
  PROVE  CallTyped' /\ OwnershipInv'
<1>1. call[t] \in CallStates
  BY DEF CallTyped
<1>2. how \notin Going
  BY DEF Ended, Going, Owning, BeforeOrder, AfterOrder
<1> HIDE DEF Becomes
<1> QED
  BY <1>1, <1>2, EndedCallIs, QuietMove
     DEF End, Going, Owning, BeforeOrder, AfterOrder

LEMMA ConcludeMove ==
  ASSUME CallTyped, OwnershipInv,
         NEW t \in Calls, NEW v \in NotEntered, Becomes(t, Concluded(t, v)),
         call[t].at \in BeforeOrder,
         loop \in {t, None}, loop' = t, UNCHANGED <<context, cycles, fills, orders>>
  PROVE  CallTyped' /\ OwnershipInv'
<1> HIDE DEF Becomes
<1>1. call[t] \in CallStates
  BY DEF CallTyped
<1>2. v \in Dispositions /\ v \notin Entered
  BY DEF Dispositions, NotEntered, Entered
<1>3. CallTells(t) /\ call[t].at \in Owning /\ call[t].at \in Going
  BY DEF OwnershipInv, Going, Owning
<1>4. fills[call[t].snapshot] = 0
  BY <1>3 DEF CallTells
<1>5. "terminal" \notin BeforeOrder /\ "terminal" \notin AfterOrder
  BY DEF BeforeOrder, AfterOrder
<1> DEFINE c == Concluded(t, v)
<1>6. c \in CallStates /\ c.at = "terminal" /\ c.snapshot = call[t].snapshot /\ c.verdict = v
  BY <1>1, <1>2, ConcludedCall
<1> HIDE DEF c
<1>7. Becomes(t, c)
  BY DEF c
<1> QED
  BY <1>2, <1>3, <1>4, <1>5, <1>6, <1>7, QuietMove

(* Going on within the same part of the cycle. *)
LEMMA GoMove ==
  ASSUME CallTyped, OwnershipInv,
         NEW t \in Calls, NEW at \in Going, Becomes(t, [call[t] EXCEPT !.at = at]),
         call[t].at \in Going, loop \in {t, None}, loop' \in {t, None},
         UNCHANGED <<context, cycles, fills, orders>>,
         at # "provider" => loop' = t,
         at \in Owning => call[t].at \in Owning,
         at \in BeforeOrder => call[t].at \in BeforeOrder,
         at \in AfterOrder => call[t].at \in AfterOrder,
         at \in {"protected", "reconcile"} => call[t].verdict \in Entered,
         at \in {"terminal", "close"} =>
           /\ call[t].verdict \in Dispositions
           /\ call[t].verdict \in Entered <=> fills[call[t].snapshot] = 1
  PROVE  CallTyped' /\ OwnershipInv'
<1> HIDE DEF Becomes
<1>1. call[t] \in CallStates
  BY DEF CallTyped
<1> DEFINE c == [call[t] EXCEPT !.at = at]
<1>2. c \in CallStates /\ c.at = at /\ c.snapshot = call[t].snapshot /\ c.verdict = call[t].verdict
  BY <1>1, MovedCall
<1> HIDE DEF c
<1>3. Becomes(t, c)
  BY DEF c
<1> QED
  BY <1>2, <1>3, QuietMove

-----------------------------------------------------------------------------
(* Every step keeps the ownership invariant                                  *)

LEMMA AdvanceKeeps ==
  ASSUME CallTyped, OwnershipInv, NEW t \in Calls, Advance(t)
  PROVE  CallTyped' /\ OwnershipInv'
<1> HIDE DEF Becomes
<1>0. call[t] \in CallStates /\ CallTells(t)
  BY DEF CallTyped, OwnershipInv
<1> USE DEF Going, Owning, BeforeOrder, AfterOrder, Running, GoTo, exchangeVars
<1>1. CASE Claim(t)
  <2>1. call[t].snapshot \in Snapshots /\ call[t].at = "claim" /\ loop = t
    BY <1>0, <1>1 DEF CallTells, Claim
  <2>2. PICK s \in Snapshots : s = call[t].snapshot
    BY <2>1
  <2>3. CASE cycles[s] # "unclaimed"
    BY <1>1, <2>1, <2>2, <2>3, GoMove DEF Claim
  <2>4. CASE cycles[s] = "unclaimed"
    <3>1. [call[t] EXCEPT !.at = "observe"] \in CallStates
      BY <1>0, MovedCall
    <3>2. PICK c \in CallStates : c = [call[t] EXCEPT !.at = "observe"]
      BY <3>1
    <3>3. c.at = "observe" /\ c.snapshot = s
      BY <1>0, <2>2, <3>2, MovedCall
    <3>4. Becomes(t, c) /\ cycles' = [cycles EXCEPT ![s] = "claimed"]
          /\ UNCHANGED <<loop, context, fills, orders>>
      BY <1>1, <2>2, <2>4, <3>2 DEF Claim
    <3>5. CycleTells(s) /\ fills[s] = 0
      BY <2>4 DEF OwnershipInv, CycleTells
    <3>6. cycles'[s] = "claimed" /\ call'[t] = c
      BY <3>4 DEF CallTyped, Becomes
    <3>7. CycleTells(s)'
      BY <3>4, <3>5, <3>6 DEF CycleTells, Dispositions, Entered, NotEntered
    <3>8. CallTells(t)'
      BY <1>0, <2>1, <3>3, <3>4, <3>5, <3>6 DEF CallTells
    <3>9. /\ cycles' \in [Snapshots -> {"unclaimed", "claimed"} \union Dispositions]
          /\ fills' \in [Snapshots -> Nat] /\ orders' \subseteq Snapshots
          /\ \A u \in Snapshots \ {s} : cycles'[u] = cycles[u]
      BY <3>4 DEF CallTyped
    <3> QED
      BY <2>1, <2>2, <2>4, <3>3, <3>4, <3>7, <3>8, <3>9, OneCallMoves
  <2> QED BY <2>3, <2>4
<1>2. CASE SkipDuplicate(t)
  BY <1>2, EndMove DEF SkipDuplicate, Ended
<1>3. CASE Observe(t)
  <2>1. CASE Conclude(t, "PARKED")
    BY <1>3, <2>1, ConcludeMove DEF Observe, Conclude, NotEntered
  <2>2. CASE GoTo(t, "context")
    BY <1>3, <2>2, GoMove DEF Observe
  <2> QED BY <1>3, <2>1, <2>2 DEF Observe
<1>4. CASE BuildContext(t)
  <2>1. CASE Conclude(t, "PARKED_PROVIDER")
    BY <1>4, <2>1, ConcludeMove DEF BuildContext, Conclude, NotEntered
  <2>2. CASE Becomes(t, [call[t] EXCEPT !.at = "provider"]) /\ loop' = None
    BY <1>4, <2>2, GoMove DEF BuildContext
  <2> QED BY <1>4, <2>1, <2>2 DEF BuildContext
<1>5. CASE Decide(t)
  <2>1. CASE Conclude(t, "REJECTED") \/ Conclude(t, "HELD")
    BY <1>5, <2>1, ConcludeMove DEF Decide, Conclude, NotEntered
  <2>2. ASSUME NEW side \in Sides, Becomes(t, [call[t] EXCEPT !.at = "order", !.side = side]),
               UNCHANGED loop
        PROVE  CallTyped' /\ OwnershipInv'
    <3> DEFINE c == [call[t] EXCEPT !.at = "order", !.side = side]
    <3>1. c \in CallStates /\ c.at = "order" /\ c.snapshot = call[t].snapshot
      BY <1>0 DEF CallStates
    <3>2. Becomes(t, c)
      BY <2>2
    <3> HIDE DEF c
    <3> QED BY <1>5, <2>2, <3>1, <3>2, QuietMove DEF Decide
  <2> QED BY <1>5, <2>1, <2>2 DEF Decide
<1>6. CASE OrderRaises(t)
  BY <1>6, EndMove DEF OrderRaises, Ended
<1>7. CASE PlaceOrder(t)
  <2>1. call[t].snapshot \in Snapshots /\ call[t].at = "order" /\ loop = t
    BY <1>0, <1>7 DEF CallTells, PlaceOrder
  <2>2. PICK s \in Snapshots : s = call[t].snapshot
    BY <2>1
  <2>3. cycles[s] = "claimed" /\ fills[s] = 0 /\ context \in Snapshots
    BY <1>0, <2>1, <2>2 DEF CallTells
  <2>4. CycleTells(s) /\ s \notin orders
    BY <2>3 DEF OwnershipInv, CycleTells
  <2>5. [call[t] EXCEPT !.at = "intent"] \in CallStates
    BY <1>0, MovedCall
  <2>6. PICK c \in CallStates : c = [call[t] EXCEPT !.at = "intent"]
    BY <2>5
  <2>7. c.at = "intent" /\ c.snapshot = s
    BY <1>0, <2>2, <2>6, MovedCall
  <2>8. orders' = orders \union {s} /\ fills' = [fills EXCEPT ![s] = @ + 1]
        /\ Becomes(t, c) /\ UNCHANGED <<loop, context, cycles>>
    BY <1>7, <2>2, <2>4, <2>6 DEF PlaceOrder
  <2>9. fills'[s] = 1 /\ call'[t] = c
    BY <2>3, <2>8 DEF CallTyped, Becomes
  <2>10. CycleTells(s)'
    BY <2>3, <2>8, <2>9 DEF CycleTells, Dispositions, Entered, NotEntered
  <2>11. CallTells(t)'
    BY <2>1, <2>3, <2>7, <2>8, <2>9 DEF CallTells
  <2>12. /\ cycles' \in [Snapshots -> {"unclaimed", "claimed"} \union Dispositions]
         /\ fills' \in [Snapshots -> Nat] /\ orders' \subseteq Snapshots
         /\ \A u \in Snapshots \ {s} :
              cycles'[u] = cycles[u] /\ fills'[u] = fills[u] /\ (u \in orders' => u \in orders)
    BY <2>8 DEF CallTyped
  <2> QED
    BY <2>1, <2>2, <2>7, <2>8, <2>10, <2>11, <2>12, OneCallMoves
<1>8. CASE LogIntent(t)
  BY <1>8, GoMove DEF LogIntent, LogStep
<1>9. CASE LogSubmitted(t)
  BY <1>9, GoMove DEF LogSubmitted, LogStep
<1>10. CASE LogFill(t)
  BY <1>10, GoMove DEF LogFill, LogStep
<1>11. CASE Protect(t)
  <2>1. CASE End(t, "raised")
    BY <1>11, <2>1, EndMove DEF Protect, Ended
  <2>2. ASSUME NEW v \in Entered,
               Becomes(t, [call[t] EXCEPT !.at = "protected", !.verdict = v]), UNCHANGED loop
        PROVE  CallTyped' /\ OwnershipInv'
    <3> DEFINE c == [call[t] EXCEPT !.at = "protected", !.verdict = v]
    <3>1. /\ c \in CallStates /\ c.at = "protected"
          /\ c.snapshot = call[t].snapshot /\ c.verdict = v
      BY <1>0 DEF CallStates, Dispositions
    <3>2. Becomes(t, c)
      BY <2>2
    <3> HIDE DEF c
    <3> QED BY <1>11, <2>2, <3>1, <3>2, QuietMove DEF Protect
  <2> QED BY <1>11, <2>1, <2>2 DEF Protect, Entered
<1>12. CASE LogProtection(t)
  BY <1>0, <1>12, GoMove DEF LogProtection, LogStep, CallTells
<1>13. CASE LogReconciled(t)
  <2>1. call[t].verdict \in Dispositions /\ call[t].verdict \in Entered
        /\ fills[call[t].snapshot] = 1
    BY <1>0, <1>13 DEF LogReconciled, LogStep, CallTells, Dispositions
  <2> QED BY <1>13, <2>1, GoMove DEF LogReconciled, LogStep
<1>14. CASE LogTerminal(t)
  <2>1. call[t].verdict \in Dispositions
        /\ (call[t].verdict \in Entered <=> fills[call[t].snapshot] = 1)
    BY <1>0, <1>14 DEF LogTerminal, CallTells
  <2> QED BY <1>14, <2>1, GoMove DEF LogTerminal
<1>15. CASE SetTerminal(t)
  <2>1. call[t].snapshot \in Snapshots /\ call[t].at = "close" /\ loop = t
    BY <1>0, <1>15 DEF CallTells, SetTerminal
  <2>2. PICK s \in Snapshots, v \in Dispositions : s = call[t].snapshot /\ v = call[t].verdict
    BY <1>0, <2>1 DEF CallTells
  <2>3. v \in Entered <=> fills[s] = 1
    BY <1>0, <2>1, <2>2 DEF CallTells
  <2>4. EndedCall(t, "done") \in CallStates
    BY <1>0, EndedCallIs DEF Ended
  <2>5. PICK c \in CallStates : c = EndedCall(t, "done")
    BY <2>4
  <2>6. c.at = "done" /\ c.snapshot = s
    BY <1>0, <2>2, <2>5, EndedCallIs DEF Ended
  <2>7. cycles' = [cycles EXCEPT ![s] = v] /\ Becomes(t, c) /\ loop' = None
        /\ UNCHANGED <<context, fills, orders>>
    BY <1>15, <2>2, <2>5 DEF SetTerminal, End
  <2>8. cycles'[s] = v /\ call'[t] = c
    BY <2>7 DEF CallTyped, Becomes
  <2>9. CycleTells(s) /\ v # "unclaimed"
    BY DEF OwnershipInv, Dispositions, Entered, NotEntered
  <2>10. CycleTells(s)'
    BY <2>3, <2>7, <2>8, <2>9 DEF CycleTells
  <2>11. CallTells(t)'
    BY <2>6, <2>8 DEF CallTells
  <2>12. /\ cycles' \in [Snapshots -> {"unclaimed", "claimed"} \union Dispositions]
         /\ fills' \in [Snapshots -> Nat] /\ orders' \subseteq Snapshots
         /\ \A u \in Snapshots \ {s} : cycles'[u] = cycles[u]
    BY <2>7 DEF CallTyped
  <2> QED
    BY <2>1, <2>2, <2>6, <2>7, <2>10, <2>11, <2>12, OneCallMoves
<1>16. CASE LedgerFails(t)
  BY <1>16, EndMove DEF LedgerFails, Ended, Writing
<1> QED
  BY <1>1, <1>2, <1>3, <1>4, <1>5, <1>6, <1>7, <1>8, <1>9, <1>10, <1>11, <1>12,
     <1>13, <1>14, <1>15, <1>16, Advance(t) DEF Advance

LEMMA AnswerKeeps ==
  ASSUME CallTyped, OwnershipInv, NEW t \in Calls, Answer(t)
  PROVE  CallTyped' /\ OwnershipInv'
<1> HIDE DEF Becomes
<1>1. /\ call[t].at = "provider" /\ loop = None /\ loop' = t
      /\ UNCHANGED <<context, cycles, fills, orders>>
  BY DEF Answer, ProviderFails, ProviderUnparseable, ProviderDecides, Resume, exchangeVars
<1>2. call[t].at \in BeforeOrder /\ call[t].at \in Owning /\ call[t].at \in Going
  BY <1>1 DEF BeforeOrder, Owning, Going
<1>3. ASSUME NEW v \in {"NO_DECISION", "PARKED_PROVIDER"}, Becomes(t, Concluded(t, v))
      PROVE  CallTyped' /\ OwnershipInv'
  BY <1>1, <1>2, <1>3, ConcludeMove DEF NotEntered
<1>4. CASE Becomes(t, [call[t] EXCEPT !.at = "decision"])
  BY <1>1, <1>2, <1>4, GoMove DEF Going, Owning, BeforeOrder, AfterOrder
<1> QED
  BY <1>3, <1>4 DEF Answer, ProviderFails, ProviderUnparseable, ProviderDecides

(* With the loop free every call that is going on awaits the provider. *)
LEMMA BeginKeeps ==
  ASSUME CallTyped, OwnershipInv, NEW t \in Calls, Begin(t)
  PROVE  CallTyped' /\ OwnershipInv'
<1> HIDE DEF Becomes
<1>1. call[t].at = "idle" /\ loop = None /\ UNCHANGED <<cycles, fills, orders>>
  BY DEF Begin, exchangeVars
<1>2. PICK c \in CallStates :
        /\ Becomes(t, c)
        /\ \/ c.at \in Ended /\ loop' = None /\ context' = context
           \/ c.at = "claim" /\ c.snapshot \in Snapshots /\ loop' = t /\ context' \in Snapshots
  <2>1. ASSUME NEW how \in {"done", "raised"}, End(t, how), UNCHANGED context
        PROVE  EndedCall(t, how) \in CallStates /\ EndedCall(t, how).at \in Ended
    BY EndedCallIs DEF CallTyped, Ended
  <2>2. ASSUME NEW s \in Snapshots, NEW stale \in BOOLEAN, NEW b \in BOOLEAN
        PROVE  [NewCall EXCEPT !.at = "claim", !.snapshot = s, !.stale = stale,
                               !.barred = stale \/ b] \in CallStates
    BY DEF NewCall, CallStates, Going
  <2>3. CASE \E how \in {"done", "raised"} : End(t, how) /\ UNCHANGED context
    BY <2>1, <2>3 DEF End
  <2>4. ASSUME NEW s \in Snapshots, NEW stale \in BOOLEAN,
               Becomes(t, [NewCall EXCEPT !.at = "claim", !.snapshot = s, !.stale = stale,
                                          !.barred = stale \/ B!EntriesParked']),
               loop' = t, context' = s
        PROVE  \E c \in CallStates :
                 /\ Becomes(t, c)
                 /\ c.at = "claim" /\ c.snapshot \in Snapshots
                 /\ loop' = t /\ context' \in Snapshots
    <3>1. PICK b \in BOOLEAN : b = B!EntriesParked'
      BY DEF B!EntriesParked
    <3> QED BY <2>2, <2>4, <3>1 DEF NewCall
  <2> QED BY <2>3, <2>4 DEF Begin, Admit, Admitted
<1>3. CallTyped' /\ call' = [call EXCEPT ![t] = c]
  BY <1>1, <1>2 DEF CallTyped, Becomes
<1>4. ASSUME NEW u \in Calls
      PROVE  CallTells(u)'
  <2>1. CASE u = t
    BY <1>2, <1>3, <2>1 DEF CallTyped, CallTells, Going, Owning, BeforeOrder, AfterOrder, Ended
  <2>2. CASE u # t
    <3>1. CallTells(u) /\ call'[u] = call[u]
      BY <1>3, <2>2 DEF CallTyped, OwnershipInv
    <3>2. call[u].at \in Going => call[u].at = "provider" /\ context' \in Snapshots
      BY <1>1, <1>2, <3>1, RuntimeAssumption DEF CallTells
    <3> QED
      BY <1>1, <3>1, <3>2 DEF CallTells, Going, Owning, BeforeOrder, AfterOrder
  <2> QED BY <2>1, <2>2
<1>5. OneOwner'
  <2>1. call'[t].at \notin Owning /\ \A u \in Calls \ {t} : call'[u] = call[u]
    BY <1>2, <1>3 DEF CallTyped, Owning, BeforeOrder, AfterOrder, Ended
  <2> QED BY <2>1 DEF OneOwner, OwnershipInv
<1> QED BY <1>1, <1>3, <1>4, <1>5 DEF OwnershipInv, CycleTells

(* A crash ends every call that is going on, and the exchange forgets. *)
LEMMA CrashKeeps ==
  ASSUME CallTyped, OwnershipInv, Crash
  PROVE  CallTyped' /\ OwnershipInv'
<1>1. /\ call' = [t \in Calls |-> IF t \in InFlight THEN EndedCall(t, "lost") ELSE call[t]]
      /\ loop' = None /\ context' = None /\ orders' = {} /\ UNCHANGED <<cycles, fills>>
  BY DEF Crash
<1>2. ASSUME NEW t \in Calls
      PROVE  call'[t] \in CallStates /\ call'[t].at \notin Going
  <2>1. call[t] \in CallStates
    BY DEF CallTyped
  <2>2. EndedCall(t, "lost") \in CallStates /\ EndedCall(t, "lost").at = "lost"
    BY <2>1, EndedCallIs DEF Ended
  <2> QED
    BY <1>1, <2>1, <2>2 DEF InFlight, Going, Owning, BeforeOrder, AfterOrder
<1>3. CallTyped'
  BY <1>1, <1>2 DEF CallTyped
<1>4. \A t \in Calls : CallTells(t)'
  BY <1>2 DEF CallTells, Going, Owning, BeforeOrder, AfterOrder
<1>5. OneOwner'
  BY <1>2 DEF OneOwner, Going
<1>6. \A s \in Snapshots : CycleTells(s)'
  BY <1>1 DEF OwnershipInv, CycleTells
<1> QED BY <1>3, <1>4, <1>5, <1>6 DEF OwnershipInv

LEMMA CancelledKeeps ==
  ASSUME CallTyped, OwnershipInv, NEW t \in Calls, Cancelled(t)
  PROVE  CallTyped' /\ OwnershipInv'
BY EndMove DEF Cancelled, exchangeVars, Ended, Going, Owning, BeforeOrder

LEMMA UntouchedKeeps ==
  ASSUME CallTyped, OwnershipInv, UNCHANGED <<call, loop, context, cycles, fills, orders>>
  PROVE  CallTyped' /\ OwnershipInv'
BY DEF CallTyped, OwnershipInv, CallTells, CycleTells, OneOwner

LEMMA StepKeeps ==
  ASSUME CallTyped, OwnershipInv, [Next]_vars
  PROVE  CallTyped' /\ OwnershipInv'
<1>1. ASSUME NEW t \in Calls,
             Begin(t) \/ Advance(t) \/ Answer(t) \/ Cancelled(t)
      PROVE  CallTyped' /\ OwnershipInv'
  BY <1>1, BeginKeeps, AdvanceKeeps, AnswerKeeps, CancelledKeeps
<1>2. CASE (\E symbol \in Symbols : LevelsTrigger(symbol)) \/ BreakersMove \/ UNCHANGED vars
  BY <1>2, UntouchedKeeps DEF LevelsTrigger, BreakersMove, vars, exchangeVars
<1>3. CASE Crash
  BY <1>3, CrashKeeps
<1> QED BY <1>1, <1>2, <1>3 DEF Next

LEMMA InitKeeps ==
  ASSUME Init
  PROVE  CallTyped /\ OwnershipInv
<1>1. CallTyped
  BY DEF Init, CallTyped, NewCall, CallStates
<1>2. \A t \in Calls : call[t].at = "idle"
  BY DEF Init, NewCall
<1> QED
  BY <1>1, <1>2 DEF Init, OwnershipInv, CallTells, CycleTells, OneOwner,
     Going, Owning, BeforeOrder, AfterOrder, Dispositions, Entered, NotEntered

-----------------------------------------------------------------------------
(* The variables the ownership invariant does not speak of                   *)

LogTypes ==
  /\ ledger \in [Snapshots -> Seq(Events)]
  /\ positions \in [Symbols -> Position \union {Flat}]
  /\ crashes \in 0..MaxCrashes
  /\ failures \in Nat
  /\ isOpen \in BOOLEAN
  /\ B!TypeOK

LEMMA LedgerTyped ==
  ASSUME CallTyped, OwnershipInv, ledger \in [Snapshots -> Seq(Events)],
         NEW t \in Calls, Advance(t)
  PROVE  ledger' \in [Snapshots -> Seq(Events)]
<1> HIDE DEF Becomes
<1>1. CASE UNCHANGED ledger
  BY <1>1
<1>2. ASSUME NEW type \in EventTypes, NEW d \in Dispositions \union {"", "SKIPPED"},
             call[t].at \in Going, Log(t, type, d)
      PROVE  ledger' \in [Snapshots -> Seq(Events)]
  <2>1. call[t].snapshot \in Snapshots /\ context \in Snapshots
    BY <1>2 DEF OwnershipInv, CallTells
  <2> QED BY <1>2, <2>1, LogTyped
<1>3. CASE Claim(t) \/ OrderRaises(t) \/ PlaceOrder(t) \/ Protect(t) \/ SetTerminal(t) \/ LedgerFails(t)
  BY <1>1, <1>3 DEF Claim, OrderRaises, PlaceOrder, Protect, SetTerminal, LedgerFails
<1> USE DEF Running, EventTypes, Going, Owning, BeforeOrder, AfterOrder
<1>4. CASE SkipDuplicate(t)
  BY <1>2, <1>4 DEF SkipDuplicate
<1>5. CASE Observe(t)
  BY <1>2, <1>5 DEF Observe
<1>6. CASE BuildContext(t)
  BY <1>2, <1>6 DEF BuildContext
<1>7. CASE Decide(t)
  BY <1>2, <1>7 DEF Decide
<1>8. CASE LogIntent(t) \/ LogSubmitted(t) \/ LogFill(t) \/ LogReconciled(t)
  BY <1>2, <1>8 DEF LogIntent, LogSubmitted, LogFill, LogReconciled, LogStep
<1>9. CASE LogProtection(t)
  <2> DEFINE type == IF call[t].verdict = "EXECUTED"
                     THEN "PROTECTION_VERIFIED" ELSE "PROTECTION_FAILED"
  <2>1. type \in EventTypes /\ call[t].at \in Going /\ Log(t, type, "")
    BY <1>9 DEF LogProtection, LogStep
  <2> QED BY <1>2, <2>1
<1>10. CASE LogTerminal(t)
  <2>1. call[t].at \in Going /\ Log(t, "CYCLE_TERMINAL", call[t].verdict)
    BY <1>10 DEF LogTerminal
  <2>2. call[t].verdict \in Dispositions
    BY <1>10 DEF LogTerminal, OwnershipInv, CallTells
  <2> QED BY <1>2, <2>1, <2>2
<1> QED
  BY <1>3, <1>4, <1>5, <1>6, <1>7, <1>8, <1>9, <1>10, Advance(t) DEF Advance

(* An order changes a position, protecting one gives it levels. *)
LEMMA PositionsTyped ==
  ASSUME CallTyped, OwnershipInv, positions \in [Symbols -> Position \union {Flat}],
         NEW t \in Calls, Advance(t)
  PROVE  positions' \in [Symbols -> Position \union {Flat}]
<1> HIDE DEF Becomes
<1>1. CASE UNCHANGED positions
  BY <1>1
<1>2. CASE PlaceOrder(t) /\ ~UNCHANGED positions
  <2>1. /\ call[t].at \in Going /\ SymbolOf[call[t].snapshot] \in Symbols
    <3>1. call[t].at \in Going
      BY <1>2 DEF PlaceOrder, Running, Going, Owning, BeforeOrder
    <3> QED BY <3>1, RuntimeAssumption DEF OwnershipInv, CallTells
  <2>2. PICK y \in Symbols : y = SymbolOf[call[t].snapshot]
    BY <2>1
  <2>3. call[t].side \in Sides \union {""}
    BY DEF CallTyped, CallStates
  <2>4. PICK p \in PositionsAfter(positions[y], call[t].side) :
          positions' = [positions EXCEPT ![y] = p]
    BY <1>2, <2>2 DEF PlaceOrder, exchangeVars
  <2>5. positions[y] \in Position \union {Flat}
    OBVIOUS
  <2>6. p \in Position \union {Flat}
    <3> DEFINE q == positions[y]
               side == call[t].side
    <3>1. [side |-> side, levels |-> "none"] \in Position \union {Flat}
      BY <2>3 DEF Position, Flat
    <3>2. CASE q = Flat
      <4>1. Flat.side = "" /\ Flat.levels = "none"
        BY DEF Flat
      <4> QED BY <2>4, <3>1, <3>2, <4>1 DEF PositionsAfter
    <3>3. CASE q \in Position
      <4>1. q.side # "" /\ q.levels \in {"none", "set"}
        BY <3>3 DEF Position, Sides
      <4>2. side \in Sides => [side |-> side, levels |-> q.levels] \in Position
        BY <4>1 DEF Position
      <4>3. CASE q.side = side
        BY <2>3, <2>4, <4>1, <4>2, <4>3 DEF PositionsAfter
      <4>4. CASE q.side # side
        BY <2>4, <2>5, <3>1, <4>1, <4>4 DEF PositionsAfter
      <4> QED BY <4>3, <4>4
    <3> QED BY <2>5, <3>2, <3>3
  <2> QED BY <2>4, <2>6
<1>3. CASE Protect(t) /\ ~UNCHANGED positions
  <2>1. call[t].at \in Going
    BY <1>3 DEF Protect, Running, Going, Owning, AfterOrder
  <2>2. PICK y \in Symbols : y = SymbolOf[call[t].snapshot]
    BY <2>1, RuntimeAssumption DEF OwnershipInv, CallTells
  <2>3. \/ UNCHANGED positions
        \/ /\ positions[y] # Flat
           /\ positions' = [positions EXCEPT ![y] = [positions[y] EXCEPT !.levels = "set"]]
    BY <1>3, <2>2 DEF Protect
  <2>4. positions[y] \in Position \union {Flat}
    OBVIOUS
  <2>5. positions[y] # Flat => [positions[y] EXCEPT !.levels = "set"] \in Position
    BY <2>4 DEF Position
  <2> QED BY <1>3, <2>3, <2>5
<1>4. CASE LogIntent(t) \/ LogSubmitted(t) \/ LogFill(t) \/ LogProtection(t) \/ LogReconciled(t)
  BY <1>1, <1>4
     DEF LogIntent, LogSubmitted, LogFill, LogProtection, LogReconciled, LogStep, exchangeVars
<1> QED
  BY <1>1, <1>2, <1>3, <1>4, Advance(t)
     DEF Advance, Claim, SkipDuplicate, Observe, BuildContext, Decide, OrderRaises,
         LogTerminal, SetTerminal, LedgerFails, exchangeVars

LEMMA LogTypesKept ==
  ASSUME CallTyped, OwnershipInv, LogTypes, [Next]_vars
  PROVE  LogTypes'
<1> HIDE DEF Becomes
<1> USE DEF LogTypes
<1>1. ASSUME NEW t \in Calls, Begin(t)
      PROVE  LogTypes'
  BY <1>1, BeginBreakersTyped DEF Begin, exchangeVars, circuitVars
<1>2. ASSUME NEW t \in Calls, Advance(t)
      PROVE  LogTypes'
  <2>1. UNCHANGED <<crashes, circuitVars, breakerVars>>
    BY <1>2 DEF Advance, Claim, SkipDuplicate, Observe, BuildContext, Decide, OrderRaises,
         PlaceOrder, LogIntent, LogSubmitted, LogFill, Protect, LogProtection, LogReconciled,
         LogStep, LogTerminal, SetTerminal, LedgerFails
  <2>2. B!TypeOK'
    BY <2>1 DEF breakerVars, B!TypeOK
  <2> QED BY <1>2, <2>1, <2>2, LedgerTyped, PositionsTyped DEF circuitVars
<1>3. ASSUME NEW t \in Calls, Answer(t)
      PROVE  LogTypes'
  <2>1. UNCHANGED <<ledger, positions, crashes, breakerVars>>
    BY <1>3 DEF Answer, ProviderFails, ProviderUnparseable, ProviderDecides, Resume, exchangeVars
  <2>2. P!Fail \/ P!FailToParse \/ P!Succeed
    BY <1>3 DEF Answer, ProviderFails, ProviderUnparseable, ProviderDecides
  <2>3. failures' \in Nat
    BY <2>2 DEF P!Fail, P!FailToParse, P!Succeed
  <2>4. isOpen' \in BOOLEAN
    BY <2>2, Zenon DEF P!Fail, P!FailToParse, P!Succeed
  <2>5. B!TypeOK'
    BY <2>1 DEF breakerVars, B!TypeOK
  <2> QED BY <2>1, <2>3, <2>4, <2>5
<1>4. CASE \E symbol \in Symbols : LevelsTrigger(symbol)
  BY <1>4 DEF LevelsTrigger, circuitVars, breakerVars, B!TypeOK
<1>5. CASE BreakersMove
  BY <1>5, BreakersMoveTyped DEF BreakersMove, exchangeVars, circuitVars
<1>6. CASE Crash
  <2>1. B!TypeOK'
    BY <1>6 DEF Crash, B!Restart, B!TypeOK
  <2>2. crashes' \in 0..MaxCrashes
    BY <1>6, RuntimeAssumption DEF Crash
  <2>3. positions' \in [Symbols -> Position \union {Flat}]
    BY <1>6 DEF Crash
  <2> QED BY <1>6, <2>1, <2>2, <2>3 DEF Crash
<1>7. CASE UNCHANGED vars
  BY <1>7 DEF vars, exchangeVars, circuitVars, breakerVars, B!TypeOK
<1>8. ASSUME NEW t \in Calls, Cancelled(t)
      PROVE  LogTypes'
  BY <1>8 DEF Cancelled, exchangeVars, circuitVars, breakerVars, B!TypeOK
<1> QED BY <1>1, <1>2, <1>3, <1>4, <1>5, <1>6, <1>7, <1>8 DEF Next

LEMMA LogTypesInit ==
  ASSUME Init
  PROVE  LogTypes
<1>1. B!TypeOK
  BY BreakerConstants DEF Init, B!Init, B!TypeOK, B!Trippers
<1>2. ledger \in [Snapshots -> Seq(Events)]
  <2>1. <<>> \in Seq(Events)
    BY EmptySeq
  <2> QED BY <2>1 DEF Init
<1>3. failures \in Nat /\ isOpen \in BOOLEAN
  BY DEF Init
<1>5. crashes \in 0..MaxCrashes
  <2>1. crashes = 0 /\ MaxCrashes \in Nat
    BY RuntimeAssumption DEF Init
  <2> QED BY <2>1
<1>4. positions \in [Symbols -> Position \union {Flat}]
  BY DEF Init
<1> QED BY <1>1, <1>2, <1>3, <1>4, <1>5 DEF LogTypes

-----------------------------------------------------------------------------
(* The theorems                                                              *)

(* What every reachable state satisfies. *)
RuntimeInv == CallTyped /\ OwnershipInv /\ LogTypes

LEMMA RuntimeInvInvariant == Spec => []RuntimeInv
<1>1. Init => RuntimeInv
  BY InitKeeps, LogTypesInit DEF RuntimeInv
<1>2. RuntimeInv /\ [Next]_vars => RuntimeInv'
  BY StepKeeps, LogTypesKept DEF RuntimeInv
<1> QED BY <1>1, <1>2, PTL DEF Spec

(* Every variable stays in its type. *)
THEOREM TypeCorrect == Spec => []TypeOK
<1>1. RuntimeInv => TypeOK
  BY DEF RuntimeInv, CallTyped, LogTypes, TypeOK
<1> QED BY <1>1, RuntimeInvInvariant, PTL

(* A claimed cycle has at most one call that works on it, and the place of   *)
(* that call, the cycle's row and the exchange's fill agree.                 *)
THEOREM Ownership == Spec => []OwnershipInv
<1>1. RuntimeInv => OwnershipInv
  BY DEF RuntimeInv
<1> QED BY <1>1, RuntimeInvInvariant, PTL

(* However many calls replay a snapshot, and whatever crashes and failing    *)
(* writes come between, its cycle is filled at most once.                    *)
THEOREM AtMostOneFill == Spec => []OneFillPerCycle
<1>1. RuntimeInv => OneFillPerCycle
  BY DEF RuntimeInv, OwnershipInv, CycleTells, OneFillPerCycle
<1> QED BY <1>1, RuntimeInvInvariant, PTL

-----------------------------------------------------------------------------
(* process implements the promise                                            *)

(* A step that touches the row and the fills of one cycle moves its stage. *)
LEMMA StageAfter ==
  ASSUME NEW s \in Snapshots,
         \A u \in Snapshots \ {s} : cycles'[u] = cycles[u] /\ fills'[u] = fills[u]
  PROVE  /\ Stage[s] = StageOf(cycles[s], fills[s])
         /\ Stage' = [Stage EXCEPT ![s] = StageOf(cycles'[s], fills'[s])]
BY DEF Stage

(* Only three steps touch what the promise sees. *)
LEMMA PromiseStep ==
  ASSUME RuntimeInv, [Next]_vars
  PROVE  Promise!Next \/ UNCHANGED Stage
<1> HIDE DEF Becomes
<1> USE DEF RuntimeInv
<1>1. CASE UNCHANGED <<cycles, fills>>
  BY <1>1 DEF Stage
<1>2. ASSUME NEW t \in Calls, Advance(t)
      PROVE  Promise!Next \/ UNCHANGED Stage
  <2>1. CallTells(t) /\ cycles \in [Snapshots -> {"unclaimed", "claimed"} \union Dispositions]
        /\ fills \in [Snapshots -> Nat]
    BY DEF OwnershipInv, CallTyped
  <2> USE DEF Running, Going, Owning, BeforeOrder, AfterOrder
  <2>2. CASE Claim(t) /\ ~UNCHANGED <<cycles, fills>>
    <3>1. PICK s \in Snapshots :
            cycles[s] = "unclaimed" /\ cycles' = [cycles EXCEPT ![s] = "claimed"]
            /\ UNCHANGED fills
      BY <2>1, <2>2 DEF Claim, CallTells, exchangeVars
    <3>2. fills[s] = 0
      BY <3>1 DEF OwnershipInv, CycleTells
    <3>3. Stage[s] = "new" /\ Stage' = [Stage EXCEPT ![s] = "claimed"]
      BY <2>1, <3>1, <3>2, StageAfter DEF StageOf
    <3> QED BY <3>3 DEF Promise!Next, Promise!Claim, Promise!Move
  <2>3. CASE PlaceOrder(t) /\ ~UNCHANGED <<cycles, fills>>
    <3>1. PICK s \in Snapshots :
            /\ cycles[s] = "claimed" /\ fills[s] = 0
            /\ fills' = [fills EXCEPT ![s] = @ + 1] /\ UNCHANGED cycles
      BY <2>1, <2>3 DEF PlaceOrder, CallTells, exchangeVars
    <3>2. fills'[s] = 1
      BY <2>1, <3>1
    <3>3. Stage[s] = StageOf("claimed", 0)
          /\ Stage' = [Stage EXCEPT ![s] = StageOf("claimed", 1)]
      BY <2>1, <3>1, <3>2, StageAfter
    <3>4. StageOf("claimed", 0) = "claimed" /\ StageOf("claimed", 1) = "entered"
      BY DEF StageOf
    <3> QED BY <3>3, <3>4 DEF Promise!Next, Promise!Enter, Promise!Move
  <2>4. CASE SetTerminal(t)
    <3>1. PICK s \in Snapshots, v \in Dispositions :
            /\ s = call[t].snapshot /\ v = call[t].verdict
            /\ cycles[s] = "claimed" /\ (v \in Entered <=> fills[s] = 1)
            /\ cycles' = [cycles EXCEPT ![s] = v] /\ UNCHANGED fills
      BY <2>1, <2>4 DEF SetTerminal, CallTells, exchangeVars
    <3>2. fills[s] \in {0, 1} /\ v \notin {"unclaimed", "claimed"}
      BY DEF OwnershipInv, CycleTells, Dispositions, Entered, NotEntered
    <3>3. CASE v \in Entered
      <4>1. Stage[s] = StageOf("claimed", 1) /\ Stage' = [Stage EXCEPT ![s] = StageOf(v, 1)]
        BY <2>1, <3>1, <3>2, <3>3, StageAfter
      <4>2. StageOf("claimed", 1) = "entered" /\ StageOf(v, 1) = "closed entered"
        BY <3>2, <3>3 DEF StageOf
      <4> QED BY <4>1, <4>2 DEF Promise!Next, Promise!CloseEntered, Promise!Move
    <3>4. CASE v \notin Entered
      <4>1. Stage[s] = StageOf("claimed", 0) /\ Stage' = [Stage EXCEPT ![s] = StageOf(v, 0)]
        BY <2>1, <3>1, <3>2, <3>4, StageAfter
      <4>2. StageOf("claimed", 0) = "claimed" /\ StageOf(v, 0) = "closed flat"
        BY <3>2, <3>4 DEF StageOf
      <4> QED BY <4>1, <4>2 DEF Promise!Next, Promise!CloseFlat, Promise!Move
    <3> QED BY <3>3, <3>4
  <2> QED
    BY <1>1, <1>2, <2>2, <2>3, <2>4
       DEF Advance, SkipDuplicate, Observe, BuildContext, Decide, OrderRaises, LogIntent,
           LogSubmitted, LogFill, Protect, LogProtection, LogReconciled, LogStep,
           LogTerminal, LedgerFails, exchangeVars
<1> QED
  BY <1>1, <1>2
     DEF Next, Begin, Answer, ProviderFails, ProviderUnparseable, ProviderDecides, Resume,
         Cancelled, LevelsTrigger, BreakersMove, Crash, vars, exchangeVars

(* Through its cycles table and the fills of the exchange, process keeps the *)
(* promise of CyclePromise for every cycle: claimed once, entered at most    *)
(* once and only while claimed, closed at most once and truthfully.          *)
THEOREM ImplementsPromise == Spec => KeepsPromise
<1>1. Init => Promise!Init
  <2>1. StageOf("unclaimed", 0) = "new"
    BY DEF StageOf
  <2> QED BY <2>1 DEF Init, Promise!Init, Stage
<1>2. RuntimeInv /\ [Next]_vars => [Promise!Next]_Stage
  BY PromiseStep
<1> QED
  BY <1>1, <1>2, RuntimeInvInvariant, PTL DEF Spec, KeepsPromise, Promise!Spec

-----------------------------------------------------------------------------
(* What stays out, what is final, and what the ledger follows                *)

(* What a step of one call may do to the cycles and to the ledger. *)
LEMMA AdvanceShape ==
  ASSUME NEW t \in Calls, Advance(t)
  PROVE  \/ /\ call[t].at = "skip" /\ Log(t, "CYCLE_TERMINAL", "SKIPPED")
            /\ UNCHANGED cycles
         \/ /\ call[t].at \in Owning
            /\ UNCHANGED ledger \/ \E type, d : Log(t, type, d)
            /\ UNCHANGED cycles \/ \E v : cycles' = [cycles EXCEPT ![call[t].snapshot] = v]
         \/ UNCHANGED ledger /\ (UNCHANGED cycles \/ Claim(t))
<1> HIDE DEF Becomes
<1> USE DEF Running, Owning, BeforeOrder, AfterOrder
<1>1. CASE Claim(t) \/ OrderRaises(t) \/ LedgerFails(t)
  BY <1>1 DEF Claim, OrderRaises, LedgerFails
<1>2. CASE SkipDuplicate(t)
  BY <1>2 DEF SkipDuplicate
<1>3. CASE Observe(t) \/ BuildContext(t) \/ Decide(t)
  BY <1>3 DEF Observe, BuildContext, Decide
<1>4. CASE PlaceOrder(t) \/ Protect(t)
  BY <1>4 DEF PlaceOrder, Protect
<1>5. CASE LogIntent(t) \/ LogSubmitted(t) \/ LogFill(t) \/ LogReconciled(t) \/ LogProtection(t)
  BY <1>5 DEF LogIntent, LogSubmitted, LogFill, LogReconciled, LogProtection, LogStep
<1>6. CASE LogTerminal(t)
  BY <1>6 DEF LogTerminal
<1>7. CASE SetTerminal(t)
  BY <1>7 DEF SetTerminal
<1> QED
  BY <1>1, <1>2, <1>3, <1>4, <1>5, <1>6, <1>7, Advance(t) DEF Advance

(* Only the steps of a call touch the cycles and the ledger. *)
LEMMA OthersShape ==
  ASSUME [Next]_vars, \A t \in Calls : ~Advance(t)
  PROVE  UNCHANGED <<cycles, ledger>>
<1> HIDE DEF Becomes
<1> QED
  BY DEF Next, Begin, Answer, ProviderFails, ProviderUnparseable, ProviderDecides, Resume,
         Cancelled, LevelsTrigger, BreakersMove, Crash, vars

LEMMA LogElsewhere ==
  ASSUME ledger \in [Snapshots -> Seq(Events)], NEW t, NEW type, NEW d, Log(t, type, d),
         NEW s \in Snapshots, call[t].snapshot # s
  PROVE  ledger'[s] = ledger[s]
BY DEF Log

(* A cycle that has its disposition keeps it, and only the SKIPPED events of *)
(* duplicates are added to it.                                               *)
THEOREM FinalStays == Spec => TerminalIsFinal
<1> DEFINE Kept(s) ==
      /\ cycles'[s] = cycles[s]
      /\ \/ ledger'[s] = ledger[s]
         \/ \E c \in Snapshots :
              ledger'[s] = Append(ledger[s], [type |-> "CYCLE_TERMINAL", context |-> c,
                                              disposition |-> "SKIPPED"])
<1>1. ASSUME RuntimeInv, [Next]_vars, NEW s \in Snapshots, IsTerminal(s)
      PROVE  Kept(s)
  <2> USE DEF RuntimeInv
  <2>1. CASE UNCHANGED <<cycles, ledger>>
    BY <2>1
  <2>2. ASSUME NEW t \in Calls, Advance(t)
        PROVE  Kept(s)
    <3>1. CallTells(t) /\ ledger \in [Snapshots -> Seq(Events)]
          /\ cycles \in [Snapshots -> {"unclaimed", "claimed"} \union Dispositions]
      BY <1>1 DEF OwnershipInv, LogTypes, CallTyped
    <3>2. cycles[s] \notin {"unclaimed", "claimed"}
      BY <1>1 DEF IsTerminal, Dispositions, Entered, NotEntered
    <3>3. CASE call[t].at = "skip" /\ Log(t, "CYCLE_TERMINAL", "SKIPPED") /\ UNCHANGED cycles
      <4>1. context \in Snapshots /\ call[t].snapshot \in Snapshots
        BY <3>1, <3>3 DEF CallTells, Going
      <4>2. CASE call[t].snapshot = s
        BY <3>1, <3>3, <4>1, <4>2 DEF Log
      <4>3. CASE call[t].snapshot # s
        BY <3>1, <3>3, <4>3, LogElsewhere
      <4> QED BY <4>2, <4>3
    <3>4. CASE /\ call[t].at \in Owning
               /\ UNCHANGED ledger \/ \E type, d : Log(t, type, d)
               /\ UNCHANGED cycles \/ \E v : cycles' = [cycles EXCEPT ![call[t].snapshot] = v]
      <4>1. call[t].snapshot # s
        BY <3>1, <3>2, <3>4 DEF CallTells
      <4>2. ledger'[s] = ledger[s]
        BY <3>1, <3>4, <4>1, LogElsewhere
      <4>3. cycles'[s] = cycles[s]
        BY <3>1, <3>4, <4>1
      <4> QED BY <4>2, <4>3
    <3>5. CASE UNCHANGED ledger /\ (UNCHANGED cycles \/ Claim(t))
      BY <3>1, <3>2, <3>5 DEF Claim
    <3> QED BY <2>2, <3>3, <3>4, <3>5, AdvanceShape
  <2> QED BY <1>1, <2>1, <2>2, OthersShape
<1>2. RuntimeInv /\ [Next]_vars => [\A s \in Snapshots : IsTerminal(s) => Kept(s)]_vars
  BY <1>1
<1> QED
  BY <1>2, RuntimeInvInvariant, PTL DEF Spec, TerminalIsFinal

-----------------------------------------------------------------------------
(* A barred call: until it has passed the gates, what barred it is still     *)
(* there, since it has the loop and the breakers move only without.          *)
BarredInv ==
  \A t \in Calls : call[t].barred =>
    /\ call[t].at \notin {"context", "provider", "decision", "order"} \union AfterOrder
    /\ call[t].at \in {"claim", "observe"} => call[t].stale \/ B!EntriesParked

LEMMA BarredGoes ==
  ASSUME NEW t \in Calls, call[t] \in CallStates, NEW at
  PROVE  /\ [call[t] EXCEPT !.at = at].at = at
         /\ [call[t] EXCEPT !.at = at].barred = call[t].barred
         /\ [call[t] EXCEPT !.at = at].stale = call[t].stale
BY DEF CallStates

(* What becomes of a call that ends, concludes or goes on. *)
LEMMA EndIs ==
  ASSUME CallTyped, NEW t \in Calls, NEW how, End(t, how)
  PROVE  call'[t].barred = FALSE /\ call'[t].snapshot = call[t].snapshot
<1>1. call'[t] = EndedCall(t, how)
  BY DEF End, CallTyped
<1>2. EndedCall(t, how).barred = FALSE /\ EndedCall(t, how).snapshot = call[t].snapshot
  BY DEF EndedCall, NewCall
<1> QED BY <1>1, <1>2

LEMMA ConcludeIs ==
  ASSUME CallTyped, NEW t \in Calls, NEW v, Conclude(t, v)
  PROVE  call'[t].at = "terminal" /\ call'[t].snapshot = call[t].snapshot
<1>1. call'[t] = Concluded(t, v) /\ call[t] \in CallStates
  BY DEF Conclude, CallTyped
<1>2. Concluded(t, v).at = "terminal" /\ Concluded(t, v).snapshot = call[t].snapshot
  BY <1>1 DEF Concluded, CallStates
<1> QED BY <1>1, <1>2

LEMMA GoToIs ==
  ASSUME CallTyped, NEW t \in Calls, NEW at, GoTo(t, at)
  PROVE  /\ call'[t].at = at /\ call'[t].snapshot = call[t].snapshot
         /\ call'[t].barred = call[t].barred /\ call'[t].stale = call[t].stale
<1>1. call'[t] = [call[t] EXCEPT !.at = at] /\ call[t] \in CallStates
  BY DEF GoTo, CallTyped
<1>2. [call[t] EXCEPT !.at = at].snapshot = call[t].snapshot
  BY <1>1 DEF CallStates
<1> QED BY <1>1, <1>2, BarredGoes

(* The steps of a call leave the breakers and the other calls alone. *)
LEMMA AdvanceAlone ==
  ASSUME CallTyped, NEW t \in Calls, Advance(t)
  PROVE  /\ loop = t
         /\ B!EntriesParked' = B!EntriesParked
         /\ \A u \in Calls \ {t} : call'[u] = call[u]
<1>1. (\E c : Becomes(t, c)) => \A u \in Calls \ {t} : call'[u] = call[u]
  <2>1. ASSUME NEW c, Becomes(t, c)
        PROVE  \A u \in Calls \ {t} : call'[u] = call[u]
    BY <2>1 DEF CallTyped
  <2> QED BY <2>1
<1>2. loop = t /\ UNCHANGED registry
  <2> HIDE DEF Becomes
  <2> QED
    BY Advance(t) DEF Advance, Claim, SkipDuplicate, Observe, BuildContext, Decide, OrderRaises,
       PlaceOrder, LogIntent, LogSubmitted, LogFill, Protect, LogProtection, LogReconciled,
       LogStep, LogTerminal, SetTerminal, LedgerFails, Running, breakerVars
<1>3. B!EntriesParked' = B!EntriesParked
  BY <1>2 DEF B!EntriesParked, B!IsOpen
<1> HIDE DEF Becomes
<1>4. \A at : GoTo(t, at) => \E c : Becomes(t, c)
  BY Zenon DEF GoTo
<1>5. \A v : Conclude(t, v) => \E c : Becomes(t, c)
  BY Zenon DEF Conclude
<1>6. \A how : End(t, how) => \E c : Becomes(t, c)
  BY Zenon DEF End
<1>7. ASSUME Claim(t) \/ Observe(t) \/ PlaceOrder(t) \/ LogTerminal(t)
       PROVE  \E c : Becomes(t, c)
  <2>1. \E at : GoTo(t, at) \/ Conclude(t, at)
    BY <1>7, Zenon DEF Claim, Observe, PlaceOrder, LogTerminal
  <2> QED BY <1>4, <1>5, <2>1, Zenon
<1>8. ASSUME LogIntent(t) \/ LogSubmitted(t) \/ LogFill(t) \/ LogProtection(t) \/ LogReconciled(t)
       PROVE  \E c : Becomes(t, c)
  <2>1. \E at : GoTo(t, at)
    BY <1>8, Zenon DEF LogIntent, LogSubmitted, LogFill, LogProtection, LogReconciled, LogStep
  <2> QED BY <1>4, <2>1, Zenon
<1>9. ASSUME SkipDuplicate(t) \/ OrderRaises(t) \/ SetTerminal(t) \/ LedgerFails(t)
       PROVE  \E c : Becomes(t, c)
  <2>1. \E how : End(t, how)
    BY <1>9, Zenon DEF SkipDuplicate, OrderRaises, SetTerminal, LedgerFails
  <2> QED BY <1>6, <2>1, Zenon
<1>10. ASSUME BuildContext(t) \/ Decide(t) \/ Protect(t)
       PROVE  \E c : Becomes(t, c)
  <2>1. \E x : Conclude(t, x) \/ End(t, x) \/ Becomes(t, x)
    BY <1>10, Zenon DEF BuildContext, Decide, Protect
  <2> QED BY <1>5, <1>6, <2>1, Zenon
<1>11. \E c : Becomes(t, c)
  BY <1>7, <1>8, <1>9, <1>10, Advance(t), Zenon DEF Advance
<1> QED BY <1>1, <1>2, <1>3, <1>11

LEMMA BarredAdvance ==
  ASSUME CallTyped, BarredInv, NEW t \in Calls, Advance(t), call'[t].barred
  PROVE  /\ call'[t].at \notin {"context", "provider", "decision", "order"} \union AfterOrder
         /\ call'[t].at \in {"claim", "observe"} => call'[t].stale \/ B!EntriesParked
<1>0. call \in [Calls -> CallStates] /\ call[t] \in CallStates
  BY DEF CallTyped
<1>1. \A how : ~End(t, how)
  BY EndIs
<1>2. \A v : Conclude(t, v) => call'[t].at = "terminal"
  BY ConcludeIs
<1>3. \A at : GoTo(t, at) => /\ call'[t].at = at /\ call[t].barred
                            /\ call'[t].stale = call[t].stale
  BY GoToIs
<1>4. ASSUME call[t].barred
      PROVE  /\ call[t].at \notin {"context", "provider", "decision", "order"} \union AfterOrder
             /\ call[t].at \in {"claim", "observe"} => call[t].stale \/ B!EntriesParked
  BY <1>4 DEF BarredInv
<1>5. ASSUME NEW side, Becomes(t, [call[t] EXCEPT !.at = "order", !.side = side])
      PROVE  call[t].barred
  BY <1>0, <1>5 DEF CallStates
<1>6. ASSUME NEW v, Becomes(t, [call[t] EXCEPT !.at = "protected", !.verdict = v])
      PROVE  call[t].barred
  BY <1>0, <1>6 DEF CallStates
<1>7. ASSUME Becomes(t, [call[t] EXCEPT !.at = "provider"])
      PROVE  call[t].barred
  BY <1>0, <1>7, BarredGoes
<1> HIDE DEF Becomes
<1> USE DEF Running
<1>8. CASE Claim(t)
  <2>1. GoTo(t, "skip") \/ GoTo(t, "observe")
    BY <1>8 DEF Claim
  <2>2. call[t].at = "claim"
    BY <1>8 DEF Claim
  <2> QED BY <1>3, <1>4, <2>1, <2>2 DEF AfterOrder
<1>9. CASE Observe(t)
  <2>1. call[t].at = "observe"
    BY <1>9 DEF Observe
  <2>2. \/ Conclude(t, "PARKED")
        \/ ~(B!EntriesParked \/ call[t].stale) /\ GoTo(t, "context")
    BY <1>9, Zenon DEF Observe
  <2>3. ~GoTo(t, "context") \/ B!EntriesParked \/ call[t].stale
    BY <1>3, <1>4, <2>1
  <2>4. call'[t].at = "terminal"
    BY <1>2, <2>2, <2>3, Zenon
  <2> QED BY <2>4 DEF AfterOrder
<1>10. CASE BuildContext(t) \/ Decide(t) \/ Protect(t)
  <2>1. call[t].at \in {"context", "decision", "protect"}
    BY <1>10 DEF BuildContext, Decide, Protect
  <2>2. ~call[t].barred
    BY <1>4, <2>1 DEF AfterOrder
  <2>3. \E v : Conclude(t, v)
    BY <1>1, <1>5, <1>6, <1>7, <1>10, <2>2, Zenon DEF BuildContext, Decide, Protect
  <2> QED BY <1>2, <2>3 DEF AfterOrder
<1>11. CASE SkipDuplicate(t) \/ OrderRaises(t) \/ SetTerminal(t) \/ LedgerFails(t)
  BY <1>1, <1>11, Zenon DEF SkipDuplicate, OrderRaises, SetTerminal, LedgerFails
<1>12. CASE \/ PlaceOrder(t) \/ LogIntent(t) \/ LogSubmitted(t) \/ LogFill(t)
            \/ LogProtection(t) \/ LogReconciled(t)
  <2>1. call[t].at \in {"order"} \union AfterOrder
    BY <1>12 DEF PlaceOrder, LogIntent, LogSubmitted, LogFill, LogProtection, LogReconciled,
                 LogStep, AfterOrder
  <2>2. \E at : GoTo(t, at)
    BY <1>12, Zenon DEF PlaceOrder, LogIntent, LogSubmitted, LogFill, LogProtection,
                        LogReconciled, LogStep
  <2> QED BY <1>3, <1>4, <2>1, <2>2
<1>13. CASE LogTerminal(t)
  <2>1. GoTo(t, "close")
    BY <1>13 DEF LogTerminal
  <2> QED BY <1>3, <2>1 DEF AfterOrder
<1> QED
  BY <1>8, <1>9, <1>10, <1>11, <1>12, <1>13, Advance(t) DEF Advance

LEMMA BarredStep ==
  ASSUME RuntimeInv, BarredInv, [Next]_vars
  PROVE  BarredInv'
<1> HIDE DEF Becomes
<1>0. CallTyped /\ call \in [Calls -> CallStates] /\ OwnershipInv
  BY DEF RuntimeInv, CallTyped
<1>1. \A u \in Calls : call[u].at \in {"claim", "observe"} => loop = u /\ loop # None
  BY <1>0, RuntimeAssumption DEF OwnershipInv, CallTells, Going, Owning, BeforeOrder
<1>2. ASSUME NEW t \in Calls, Advance(t)
      PROVE  BarredInv'
  <2>1. /\ loop = t /\ B!EntriesParked' = B!EntriesParked
        /\ \A u \in Calls \ {t} : call'[u] = call[u]
    BY <1>0, <1>2, AdvanceAlone
  <2>2. call'[t].barred =>
          /\ call'[t].at \notin {"context", "provider", "decision", "order"} \union AfterOrder
          /\ call'[t].at \in {"claim", "observe"} => call'[t].stale \/ B!EntriesParked
    BY <1>0, <1>2, BarredAdvance
  <2> QED BY <1>1, <2>1, <2>2 DEF BarredInv
<1>3. ASSUME NEW t \in Calls, loop = None, NEW c,
             Becomes(t, c), c.at \notin {"context", "provider", "order"} \union AfterOrder,
             c.at = "decision" => ~c.barred,
             c.barred /\ c.at \in {"claim", "observe"} => c.stale \/ B!EntriesParked'
      PROVE  BarredInv'
  BY <1>0, <1>1, <1>3 DEF BarredInv, Becomes
<1>4. ASSUME NEW t \in Calls, NEW how \in {"done", "raised"}, loop = None, End(t, how)
      PROVE  BarredInv'
  <2>1. EndedCall(t, how).at = how
    BY <1>0, EndedCallIs DEF Ended
  <2> QED BY <1>3, <1>4, <2>1 DEF End, AfterOrder
<1>5. ASSUME NEW t \in Calls, Begin(t)
      PROVE  BarredInv'
  <2>1. ASSUME NEW s \in Snapshots, NEW stale \in BOOLEAN, Admit(t, s, stale)
        PROVE  BarredInv'
    <3>1. /\ Admitted(s, stale).at = "claim" /\ Admitted(s, stale).stale = stale
          /\ Admitted(s, stale).barred = (stale \/ B!EntriesParked')
      BY DEF Admitted, NewCall
    <3> QED BY <1>3, <1>5, <2>1, <3>1 DEF Begin, Admit, AfterOrder
  <2> QED BY <1>4, <1>5, <2>1 DEF Begin
<1>6. ASSUME NEW t \in Calls, Answer(t)
      PROVE  BarredInv'
  <2>1. call[t].at = "provider" /\ loop = None /\ ~call[t].barred
    BY <1>6 DEF Answer, ProviderFails, ProviderUnparseable, ProviderDecides, Resume, BarredInv
  <2>2. ASSUME NEW v, Becomes(t, Concluded(t, v))
        PROVE  BarredInv'
    <3>1. Concluded(t, v).at = "terminal"
      BY <1>0 DEF Concluded, CallStates
    <3> QED BY <1>3, <2>1, <2>2, <3>1 DEF AfterOrder
  <2>3. CASE Becomes(t, [call[t] EXCEPT !.at = "decision"])
    <3>1. /\ [call[t] EXCEPT !.at = "decision"].at = "decision"
          /\ ~[call[t] EXCEPT !.at = "decision"].barred
      BY <1>0, <2>1, BarredGoes
    <3> QED BY <1>3, <2>1, <2>3, <3>1 DEF AfterOrder
  <2> QED BY <1>6, <2>2, <2>3 DEF Answer, ProviderFails, ProviderUnparseable, ProviderDecides
<1>7. ASSUME NEW t \in Calls, Cancelled(t)
      PROVE  BarredInv'
  BY <1>4, <1>7 DEF Cancelled
<1>8. CASE (\E symbol \in Symbols : LevelsTrigger(symbol)) \/ BreakersMove
  BY <1>1, <1>8 DEF LevelsTrigger, BreakersMove, BarredInv
<1>9. CASE Crash
  <2>1. ASSUME NEW t \in Calls
        PROVE  IF call[t].at \in Going THEN ~call'[t].barred ELSE call'[t] = call[t]
    BY <1>9 DEF Crash, InFlight, EndedCall, NewCall
  <2> QED BY <2>1 DEF BarredInv, Going, Owning, BeforeOrder, AfterOrder
<1>10. CASE UNCHANGED vars
  BY <1>10 DEF vars, breakerVars, BarredInv, B!EntriesParked, B!IsOpen
<1> QED BY <1>2, <1>5, <1>6, <1>7, <1>8, <1>9, <1>10 DEF Next

(* A call that began with stale data or under an open breaker neither asks   *)
(* the provider nor orders.                                                  *)
THEOREM BarredStaysOut == Spec => []BarredCallStaysOut
<1>1. Init => BarredInv
  <2>1. NewCall.barred = FALSE
    BY DEF NewCall
  <2>2. Init => \A t \in Calls : call[t] = NewCall
    BY DEF Init
  <2> QED BY <2>1, <2>2 DEF BarredInv
<1>2. RuntimeInv /\ BarredInv /\ [Next]_vars => BarredInv'
  BY BarredStep
<1>3. BarredInv => BarredCallStaysOut
  BY DEF BarredInv, BarredCallStaysOut
<1> QED BY <1>1, <1>2, <1>3, RuntimeInvInvariant, PTL DEF Spec

-----------------------------------------------------------------------------
(* What the ledger tells of orders                                           *)

Ordering == {"INTENT_APPROVED", "ORDER_SUBMITTED", "FILL_OBSERVED"}

LEMMA LogAppends ==
  ASSUME ledger \in [Snapshots -> Seq(Events)], NEW t, NEW type, NEW d, Log(t, type, d),
         NEW s \in Snapshots, NEW i \in DOMAIN ledger'[s]
  PROVE  \/ i \in DOMAIN ledger[s] /\ ledger'[s][i] = ledger[s][i]
         \/ /\ s = call[t].snapshot
            /\ ledger'[s][i] = [type |-> type, context |-> context, disposition |-> d]
<1>1. CASE call[t].snapshot # s
  BY <1>1, LogElsewhere
<1>2. CASE call[t].snapshot = s
  <2> DEFINE e == [type |-> type, context |-> context, disposition |-> d]
  <2>1. ledger'[s] = Append(ledger[s], e) /\ ledger[s] \in Seq(Events)
    BY <1>2 DEF Log
  <2> HIDE DEF e
  <2>2. /\ DOMAIN ledger[s] = 1..Len(ledger[s]) /\ Len(ledger[s]) \in Nat
        /\ DOMAIN ledger'[s] = 1..(Len(ledger[s]) + 1)
        /\ \A j \in 1..Len(ledger[s]) : ledger'[s][j] = ledger[s][j]
        /\ ledger'[s][Len(ledger[s]) + 1] = e
    BY <2>1
  <2>3. CASE i \in 1..Len(ledger[s])
    BY <2>2, <2>3
  <2>4. CASE i = Len(ledger[s]) + 1
    BY <1>2, <2>2, <2>4 DEF e
  <2> QED BY <2>2, <2>3, <2>4
<1> QED BY <1>1, <1>2

(* Which steps log an event of an order, or fill one. *)
LEMMA AdvanceOrders ==
  ASSUME NEW t \in Calls, Advance(t)
  PROVE  \/ /\ UNCHANGED fills
            /\ \/ UNCHANGED ledger
               \/ call[t].at \in AfterOrder /\ \E type, d : Log(t, type, d)
               \/ \E type, d : Log(t, type, d) /\ type \notin Ordering
         \/ /\ call[t].at = "order" /\ UNCHANGED ledger
            /\ UNCHANGED fills \/ fills' = [fills EXCEPT ![call[t].snapshot] = @ + 1]
<1> HIDE DEF Becomes
<1> USE DEF Running, AfterOrder, Ordering, exchangeVars
<1>1. CASE Claim(t) \/ OrderRaises(t) \/ LedgerFails(t) \/ Protect(t) \/ SetTerminal(t)
  BY <1>1 DEF Claim, OrderRaises, LedgerFails, Protect, SetTerminal
<1>2. CASE SkipDuplicate(t) \/ Observe(t) \/ BuildContext(t) \/ Decide(t) \/ LogTerminal(t)
  <2>1. UNCHANGED fills /\ \E type, d : Log(t, type, d)
             /\ type \in {"CYCLE_TERMINAL", "MARKET_OBSERVED", "AGENT_CONTEXT_BUILT", "AGENT_DECISION"}
    <3>1. UNCHANGED fills
      BY <1>2 DEF SkipDuplicate, Observe, BuildContext, Decide, LogTerminal
    <3>2. \/ \E d : Log(t, "CYCLE_TERMINAL", d)
          \/ \E d : Log(t, "MARKET_OBSERVED", d)
          \/ \E d : Log(t, "AGENT_CONTEXT_BUILT", d)
          \/ \E d : Log(t, "AGENT_DECISION", d)
      BY <1>2, Zenon DEF SkipDuplicate, Observe, BuildContext, Decide, LogTerminal
    <3> QED BY <3>1, <3>2, Zenon
  <2> QED BY <2>1
<1>3. CASE PlaceOrder(t)
  BY <1>3 DEF PlaceOrder
<1>4. CASE LogIntent(t) \/ LogSubmitted(t) \/ LogFill(t) \/ LogReconciled(t) \/ LogProtection(t)
  BY <1>4 DEF LogIntent, LogSubmitted, LogFill, LogReconciled, LogProtection, LogStep
<1> QED BY <1>1, <1>2, <1>3, <1>4, Advance(t) DEF Advance

LEMMA OthersFill ==
  ASSUME [Next]_vars, \A t \in Calls : ~Advance(t)
  PROVE  UNCHANGED <<ledger, fills>>
<1> HIDE DEF Becomes
<1> QED
  BY DEF Next, Begin, Answer, ProviderFails, ProviderUnparseable, ProviderDecides, Resume,
         Cancelled, LevelsTrigger, BreakersMove, Crash, vars, exchangeVars

(* No event of an order is on record for a cycle without a fill, over        *)
(* failing writes and crashes.                                               *)
THEOREM LedgerFollows == Spec => []LedgerFollowsExchange
<1>1. Init => LedgerFollowsExchange
  BY DEF Init, LedgerFollowsExchange
<1>2. ASSUME RuntimeInv, LedgerFollowsExchange, [Next]_vars
      PROVE  LedgerFollowsExchange'
  <2>0. /\ ledger \in [Snapshots -> Seq(Events)] /\ fills \in [Snapshots -> Nat]
        /\ \A t \in Calls : CallTells(t)
    BY <1>2 DEF RuntimeInv, LogTypes, CallTyped, OwnershipInv
  <2> SUFFICES ASSUME NEW s \in Snapshots, NEW i \in DOMAIN ledger'[s],
                      ledger'[s][i].type \in Ordering
               PROVE  fills'[s] = 1
    BY DEF LedgerFollowsExchange, Ordering
  <2>1. CASE UNCHANGED <<ledger, fills>>
    BY <1>2, <2>1 DEF LedgerFollowsExchange, Ordering
  <2>2. ASSUME NEW t \in Calls, NEW type, NEW d, Log(t, type, d), UNCHANGED fills,
               call[t].at \in AfterOrder \/ type \notin Ordering
        PROVE  fills'[s] = 1
    <3>1. CASE i \in DOMAIN ledger[s] /\ ledger'[s][i] = ledger[s][i]
      BY <1>2, <2>2, <3>1 DEF LedgerFollowsExchange, Ordering
    <3>2. CASE /\ s = call[t].snapshot
               /\ ledger'[s][i] = [type |-> type, context |-> context, disposition |-> d]
      BY <2>0, <2>2, <3>2 DEF CallTells
    <3> QED BY <2>0, <2>2, <3>1, <3>2, LogAppends
  <2>3. ASSUME NEW t \in Calls, call[t].at = "order", UNCHANGED ledger,
               UNCHANGED fills \/ fills' = [fills EXCEPT ![call[t].snapshot] = @ + 1]
        PROVE  fills'[s] = 1
    <3>1. fills[s] = 1
      BY <1>2, <2>3 DEF LedgerFollowsExchange, Ordering
    <3>2. fills[call[t].snapshot] = 0
      BY <2>0, <2>3 DEF CallTells, BeforeOrder
    <3> QED BY <2>0, <2>3, <3>1, <3>2
  <2>4. ASSUME NEW t \in Calls, Advance(t)
        PROVE  fills'[s] = 1
    BY <2>1, <2>2, <2>3, <2>4, AdvanceOrders
  <2> QED BY <1>2, <2>1, <2>4, OthersFill
<1> QED BY <1>1, <1>2, RuntimeInvInvariant, PTL DEF Spec

-----------------------------------------------------------------------------
(* With one call at a time the shared _event_context is that of the call.    *)

IdentityInv ==
  /\ \A t \in Calls : call[t].at \in Going => context = call[t].snapshot
  /\ EventsKeepTheirIdentity

LEMMA AdvanceLogs ==
  ASSUME CallTyped, NEW t \in Calls, Advance(t)
  PROVE  /\ UNCHANGED context /\ call[t].at \in Going
         /\ UNCHANGED ledger \/ \E type, d : Log(t, type, d)
         /\ call'[t].snapshot = call[t].snapshot
<1>0. call \in [Calls -> CallStates] /\ call[t] \in CallStates
  BY DEF CallTyped
<1>1. ASSUME NEW side, Becomes(t, [call[t] EXCEPT !.at = "order", !.side = side])
      PROVE  call'[t].snapshot = call[t].snapshot
  BY <1>0, <1>1 DEF CallStates
<1>2. ASSUME NEW v, Becomes(t, [call[t] EXCEPT !.at = "protected", !.verdict = v])
      PROVE  call'[t].snapshot = call[t].snapshot
  BY <1>0, <1>2 DEF CallStates
<1>3. ASSUME Becomes(t, [call[t] EXCEPT !.at = "provider"])
      PROVE  call'[t].snapshot = call[t].snapshot
  BY <1>0, <1>3 DEF CallStates
<1> HIDE DEF Becomes
<1>4. UNCHANGED context /\ call[t].at \in Going
  BY Advance(t) DEF Advance, Claim, SkipDuplicate, Observe, BuildContext, Decide, OrderRaises,
     PlaceOrder, LogIntent, LogSubmitted, LogFill, Protect, LogProtection, LogReconciled,
     LogStep, LogTerminal, SetTerminal, LedgerFails, Running, Writing, Going, Owning,
     BeforeOrder, AfterOrder
<1>5. UNCHANGED ledger \/ \E type, d : Log(t, type, d)
  BY AdvanceShape, Zenon DEF Claim
<1>6. \A how : End(t, how) => call'[t].snapshot = call[t].snapshot
  BY EndIs
<1>7. \A v : Conclude(t, v) => call'[t].snapshot = call[t].snapshot
  BY ConcludeIs
<1>8. \A at : GoTo(t, at) => call'[t].snapshot = call[t].snapshot
  BY GoToIs
<1>9. ASSUME Claim(t) \/ Observe(t) \/ PlaceOrder(t) \/ LogTerminal(t)
      PROVE  call'[t].snapshot = call[t].snapshot
  BY <1>7, <1>8, <1>9, Zenon DEF Claim, Observe, PlaceOrder, LogTerminal
<1>10. ASSUME LogIntent(t) \/ LogSubmitted(t) \/ LogFill(t) \/ LogProtection(t) \/ LogReconciled(t)
       PROVE  call'[t].snapshot = call[t].snapshot
  BY <1>8, <1>10, Zenon
     DEF LogIntent, LogSubmitted, LogFill, LogProtection, LogReconciled, LogStep
<1>11. ASSUME SkipDuplicate(t) \/ OrderRaises(t) \/ SetTerminal(t) \/ LedgerFails(t)
       PROVE  call'[t].snapshot = call[t].snapshot
  BY <1>6, <1>11, Zenon DEF SkipDuplicate, OrderRaises, SetTerminal, LedgerFails
<1>12. ASSUME BuildContext(t) \/ Decide(t) \/ Protect(t)
       PROVE  call'[t].snapshot = call[t].snapshot
  BY <1>1, <1>2, <1>3, <1>6, <1>7, <1>12, Zenon DEF BuildContext, Decide, Protect
<1>13. call'[t].snapshot = call[t].snapshot
  BY <1>9, <1>10, <1>11, <1>12, Advance(t), Zenon DEF Advance
<1> QED BY <1>4, <1>5, <1>13

LEMMA IdentityAdvance ==
  ASSUME RuntimeInv, IdentityInv, NEW t \in Calls, Advance(t)
  PROVE  IdentityInv'
<1>0. CallTyped /\ ledger \in [Snapshots -> Seq(Events)]
  BY DEF RuntimeInv, LogTypes
<1>1. context' = context /\ context = call[t].snapshot /\ call'[t].snapshot = call[t].snapshot
  BY <1>0, AdvanceLogs DEF IdentityInv
<1>2. ASSUME NEW u \in Calls, call'[u].at \in Going
      PROVE  context' = call'[u].snapshot
  BY <1>0, <1>1, <1>2, AdvanceAlone DEF IdentityInv
<1>3. ASSUME NEW s \in Snapshots, NEW i \in DOMAIN ledger'[s]
      PROVE  ledger'[s][i].context = s
  <2>1. CASE UNCHANGED ledger
    BY <1>3, <2>1 DEF IdentityInv, EventsKeepTheirIdentity
  <2>2. ASSUME NEW type, NEW d, Log(t, type, d)
        PROVE  ledger'[s][i].context = s
    <3>1. CASE i \in DOMAIN ledger[s] /\ ledger'[s][i] = ledger[s][i]
      BY <3>1 DEF IdentityInv, EventsKeepTheirIdentity
    <3>2. CASE /\ s = call[t].snapshot
               /\ ledger'[s][i] = [type |-> type, context |-> context, disposition |-> d]
      BY <1>1, <3>2
    <3> QED BY <1>0, <1>3, <2>2, <3>1, <3>2, LogAppends
  <2> QED BY <1>0, <2>1, <2>2, AdvanceLogs
<1> QED BY <1>2, <1>3 DEF IdentityInv, EventsKeepTheirIdentity

LEMMA IdentityStep ==
  ASSUME MaxInFlight = 1, IsFiniteSet(Calls), RuntimeInv, IdentityInv, [Next]_vars
  PROVE  IdentityInv'
<1>0. CallTyped /\ call \in [Calls -> CallStates]
  BY DEF RuntimeInv, CallTyped
<1>1. ASSUME UNCHANGED <<ledger, context>>,
             \A u \in Calls : call'[u].at \in Going =>
               call[u].at \in Going /\ call'[u].snapshot = call[u].snapshot
      PROVE  IdentityInv'
  BY <1>1 DEF IdentityInv, EventsKeepTheirIdentity
<1>2. ASSUME NEW t \in Calls, NEW how \in {"done", "raised"}, End(t, how),
             UNCHANGED <<ledger, context>>
      PROVE  IdentityInv'
  <2>1. EndedCall(t, how).at = how
    BY <1>0, EndedCallIs DEF Ended
  <2>2. call'[t].at = how /\ \A u \in Calls \ {t} : call'[u] = call[u]
    BY <1>0, <1>2, <2>1 DEF End
  <2> QED BY <1>1, <1>2, <2>2 DEF Going, Owning, BeforeOrder, AfterOrder
<1>3. ASSUME NEW t \in Calls, Begin(t)
      PROVE  IdentityInv'
  <2> HIDE DEF Becomes
  <2>1. \A u \in Calls : call[u].at \notin Going
    <3>1. InFlight \subseteq Calls /\ IsFiniteSet(InFlight)
      BY FS_Subset DEF InFlight
    <3>2. Cardinality(InFlight) \in Nat /\ Cardinality(InFlight) < 1
      BY <1>3, <3>1, FS_CardinalityType DEF Begin
    <3>3. InFlight = {}
      BY <3>1, <3>2, FS_EmptySet
    <3> QED BY <3>3 DEF InFlight
  <2>2. UNCHANGED ledger
    BY <1>3 DEF Begin
  <2>3. \/ UNCHANGED context /\ \E how \in {"done", "raised"} : End(t, how)
        \/ \E s \in Snapshots, stale \in BOOLEAN : Admit(t, s, stale)
    BY <1>3, Zenon DEF Begin
  <2>4. ASSUME NEW s \in Snapshots, NEW stale \in BOOLEAN, Admit(t, s, stale)
        PROVE  IdentityInv'
    <3>1. Admitted(s, stale).snapshot = s
      BY DEF Admitted, NewCall
    <3>2. call'[t].snapshot = s /\ context' = s /\ \A u \in Calls \ {t} : call'[u] = call[u]
      BY <1>0, <2>4, <3>1 DEF Admit, Becomes
    <3> QED BY <2>1, <2>2, <3>2 DEF IdentityInv, EventsKeepTheirIdentity
  <2> QED BY <1>2, <2>2, <2>3, <2>4
<1>4. ASSUME NEW t \in Calls, Answer(t)
      PROVE  IdentityInv'
  <2>1. call[t].at \in Going /\ UNCHANGED <<ledger, context>> /\ call[t] \in CallStates
    BY <1>0, <1>4 DEF Answer, ProviderFails, ProviderUnparseable, ProviderDecides, Resume,
       Going, Owning, BeforeOrder
  <2>2. \A v : Concluded(t, v).snapshot = call[t].snapshot
    BY <2>1 DEF Concluded, CallStates
  <2>3. [call[t] EXCEPT !.at = "decision"].snapshot = call[t].snapshot
    BY <2>1 DEF CallStates
  <2>4. ASSUME NEW c, Becomes(t, c), c.snapshot = call[t].snapshot
        PROVE  IdentityInv'
    BY <1>0, <1>1, <2>1, <2>4
  <2> HIDE DEF Becomes
  <2> QED BY <1>4, <2>2, <2>3, <2>4 DEF Answer, ProviderFails, ProviderUnparseable, ProviderDecides
<1>5. ASSUME NEW t \in Calls, Cancelled(t)
      PROVE  IdentityInv'
  BY <1>2, <1>5 DEF Cancelled
<1>6. CASE (\E symbol \in Symbols : LevelsTrigger(symbol)) \/ BreakersMove \/ UNCHANGED vars
  BY <1>1, <1>6 DEF LevelsTrigger, BreakersMove, vars
<1>7. CASE Crash
  <2>1. ASSUME NEW t \in Calls
        PROVE  call'[t].at \notin Going
    BY <1>0, <1>7, EndedCallIs DEF Crash, InFlight, Going, Owning, BeforeOrder, AfterOrder, Ended
  <2>2. UNCHANGED ledger
    BY <1>7 DEF Crash
  <2> QED BY <2>1, <2>2 DEF IdentityInv, EventsKeepTheirIdentity
<1> QED BY <1>3, <1>4, <1>5, <1>6, <1>7, IdentityAdvance DEF Next

(* As long as one call runs at a time, as under one PaperScheduler.run, each *)
(* event is recorded under the identity of its own cycle.                    *)
THEOREM OneCallOneIdentity ==
  ASSUME MaxInFlight = 1, IsFiniteSet(Calls)
  PROVE  Spec => []EventsKeepTheirIdentity
<1>1. Init => IdentityInv
  <2>1. NewCall.at = "idle"
    BY DEF NewCall
  <2>2. Init => \A t \in Calls : call[t] = NewCall
    BY DEF Init
  <2>3. Init => \A s \in Snapshots : DOMAIN ledger[s] = {}
    BY DEF Init
  <2> QED
    BY <2>1, <2>2, <2>3
       DEF IdentityInv, EventsKeepTheirIdentity, Going, Owning, BeforeOrder, AfterOrder
<1>2. RuntimeInv /\ IdentityInv /\ [Next]_vars => IdentityInv'
  BY IdentityStep
<1>3. IdentityInv => EventsKeepTheirIdentity
  BY DEF IdentityInv
<1> QED BY <1>1, <1>2, <1>3, RuntimeInvInvariant, PTL DEF Spec

-----------------------------------------------------------------------------
(* The circuit the runtime uses is the one of ProviderCircuit                *)

Requests == [t \in Calls |-> IF call[t].at = "provider" THEN "waiting" ELSE "idle"]

LEMMA RequestAfter ==
  ASSUME call \in [Calls -> CallStates], NEW t \in Calls, NEW c, Becomes(t, c)
  PROVE  Requests' = [Requests EXCEPT ![t] = IF c.at = "provider" THEN "waiting" ELSE "idle"]
BY DEF Requests

LEMMA RequestStays ==
  ASSUME call \in [Calls -> CallStates], NEW t \in Calls, NEW c, Becomes(t, c),
         c.at # "provider", call[t].at # "provider"
  PROVE  UNCHANGED Requests
<1>1. Requests' = [Requests EXCEPT ![t] = "idle"]
  BY RequestAfter
<1>2. Requests[t] = "idle" /\ Requests = [u \in Calls |-> Requests[u]]
  BY DEF Requests
<1> QED BY <1>1, <1>2

LEMMA CircuitAdvance ==
  ASSUME CallTyped, NEW t \in Calls, Advance(t)
  PROVE  \/ UNCHANGED <<failures, isOpen, Requests>>
         \/ /\ ~isOpen /\ UNCHANGED <<failures, isOpen>> /\ Requests[t] = "idle"
            /\ Requests' = [Requests EXCEPT ![t] = "waiting"]
<1> HIDE DEF Becomes
<1>0. call \in [Calls -> CallStates] /\ call[t] \in CallStates
  BY DEF CallTyped
<1>1. UNCHANGED <<failures, isOpen>> /\ call[t].at # "provider"
  BY Advance(t) DEF Advance, Claim, SkipDuplicate, Observe, BuildContext, Decide, OrderRaises,
     PlaceOrder, LogIntent, LogSubmitted, LogFill, Protect, LogProtection, LogReconciled,
     LogStep, LogTerminal, SetTerminal, LedgerFails, Running, Writing, circuitVars
<1>2. ASSUME NEW c, Becomes(t, c), c.at # "provider"
      PROVE  UNCHANGED Requests
  BY <1>0, <1>1, <1>2, RequestStays
<1>3. ASSUME NEW at, Becomes(t, [call[t] EXCEPT !.at = at]), at # "provider"
      PROVE  UNCHANGED Requests
  BY <1>0, <1>2, <1>3, BarredGoes
<1>4. ASSUME NEW how \in {"done", "raised"}, End(t, how)
      PROVE  UNCHANGED Requests
  BY <1>0, <1>2, <1>4, EndedCallIs DEF End, Ended
<1>5. ASSUME NEW v, Conclude(t, v)
      PROVE  UNCHANGED Requests
  <2>1. Concluded(t, v).at = "terminal"
    BY <1>0 DEF Concluded, CallStates
  <2> QED BY <1>2, <1>5, <2>1 DEF Conclude
<1>6. CASE BuildContext(t) /\ ~isOpen
  <2>1. Becomes(t, [call[t] EXCEPT !.at = "provider"])
    BY <1>6 DEF BuildContext
  <2>2. Requests[t] = "idle"
    BY <1>1 DEF Requests
  <2>3. [call[t] EXCEPT !.at = "provider"].at = "provider"
    BY <1>0, BarredGoes
  <2>4. Requests' = [Requests EXCEPT ![t] = "waiting"]
    BY <1>0, <2>1, <2>3, RequestAfter
  <2> QED BY <1>1, <1>6, <2>2, <2>4
<1>7. CASE BuildContext(t) /\ isOpen
  BY <1>1, <1>5, <1>7 DEF BuildContext
<1>8. CASE Decide(t)
  <2>1. ASSUME NEW side, Becomes(t, [call[t] EXCEPT !.at = "order", !.side = side])
        PROVE  UNCHANGED Requests
    <3>1. [call[t] EXCEPT !.at = "order", !.side = side].at = "order"
      BY <1>0 DEF CallStates
    <3> QED BY <1>2, <2>1, <3>1
  <2> QED BY <1>1, <1>5, <1>8, <2>1 DEF Decide
<1>9. CASE Protect(t)
  <2>1. ASSUME NEW v, Becomes(t, [call[t] EXCEPT !.at = "protected", !.verdict = v])
        PROVE  UNCHANGED Requests
    <3>1. [call[t] EXCEPT !.at = "protected", !.verdict = v].at = "protected"
      BY <1>0 DEF CallStates
    <3> QED BY <1>2, <2>1, <3>1
  <2> QED BY <1>1, <1>4, <1>9, <2>1 DEF Protect
<1>10. CASE SkipDuplicate(t) \/ OrderRaises(t) \/ SetTerminal(t) \/ LedgerFails(t)
  BY <1>1, <1>4, <1>10 DEF SkipDuplicate, OrderRaises, SetTerminal, LedgerFails
<1>11. CASE Claim(t) \/ Observe(t) \/ PlaceOrder(t) \/ LogTerminal(t)
  BY <1>1, <1>3, <1>5, <1>11 DEF Claim, Observe, PlaceOrder, LogTerminal, GoTo
<1>12. CASE LogIntent(t) \/ LogSubmitted(t) \/ LogFill(t) \/ LogProtection(t) \/ LogReconciled(t)
  BY <1>1, <1>3, <1>12
     DEF LogIntent, LogSubmitted, LogFill, LogProtection, LogReconciled, LogStep, GoTo
<1> QED BY <1>6, <1>7, <1>8, <1>9, <1>10, <1>11, <1>12, Advance(t) DEF Advance

LEMMA CircuitAnswer ==
  ASSUME CallTyped, NEW t \in Calls, Answer(t)
  PROVE  P!Next
<1> HIDE DEF Becomes
<1>0. call \in [Calls -> CallStates] /\ call[t] \in CallStates
  BY DEF CallTyped
<1>1. ASSUME NEW c, Becomes(t, c), c.at # "provider", call[t].at = "provider"
      PROVE  Requests[t] = "waiting" /\ Requests' = [Requests EXCEPT ![t] = "idle"]
  BY <1>0, <1>1, RequestAfter DEF Requests
<1>2. ASSUME NEW v
      PROVE  Concluded(t, v).at = "terminal"
  BY <1>0 DEF Concluded, CallStates
<1>3. [call[t] EXCEPT !.at = "decision"].at = "decision"
  BY <1>0, BarredGoes
<1>4. CASE ProviderFails(t)
  BY <1>1, <1>2, <1>4 DEF ProviderFails, Resume, P!Next, P!ProviderFails, P!Answered, Requests
<1>5. CASE ProviderUnparseable(t)
  BY <1>1, <1>2, <1>5
     DEF ProviderUnparseable, Resume, P!Next, P!ProviderUnparseable, P!Answered, Requests
<1>6. CASE ProviderDecides(t)
  BY <1>1, <1>3, <1>6 DEF ProviderDecides, Resume, P!Next, P!ProviderSucceeds, P!Answered, Requests
<1> QED BY <1>4, <1>5, <1>6 DEF Answer

LEMMA CircuitStep ==
  ASSUME CallTyped, [Next]_vars
  PROVE  P!Next \/ UNCHANGED <<failures, isOpen, Requests>>
<1> HIDE DEF Becomes
<1>0. call \in [Calls -> CallStates]
  BY DEF CallTyped
<1>1. ASSUME NEW t \in Calls, Begin(t)
      PROVE  UNCHANGED <<failures, isOpen, Requests>>
  <2>1. call[t].at # "provider" /\ UNCHANGED <<failures, isOpen>>
    BY <1>1 DEF Begin, circuitVars
  <2>2. ASSUME NEW how \in {"done", "raised"}, End(t, how)
        PROVE  UNCHANGED Requests
    BY <1>0, <2>1, <2>2, EndedCallIs, RequestStays DEF End, Ended
  <2>3. ASSUME NEW s, NEW stale, Admit(t, s, stale)
        PROVE  UNCHANGED Requests
    <3>1. Admitted(s, stale).at = "claim"
      BY DEF Admitted, NewCall
    <3> QED BY <1>0, <2>1, <2>3, <3>1, RequestStays DEF Admit
  <2> QED BY <1>1, <2>1, <2>2, <2>3 DEF Begin
<1>2. ASSUME NEW t \in Calls, Advance(t)
      PROVE  P!Next \/ UNCHANGED <<failures, isOpen, Requests>>
  BY <1>2, CircuitAdvance DEF P!Next, P!Ask, Requests
<1>3. ASSUME NEW t \in Calls, Cancelled(t)
      PROVE  P!Next
  <2>1. EndedCall(t, "raised").at = "raised"
    BY <1>0, EndedCallIs DEF Ended
  <2>2. Requests[t] = "waiting" /\ Requests' = [Requests EXCEPT ![t] = "idle"]
    BY <1>0, <1>3, <2>1, RequestAfter DEF Cancelled, End, Requests
  <2> QED BY <1>3, <2>2 DEF Cancelled, circuitVars, P!Next, P!Abandoned, P!Answered, Requests
<1>4. CASE Crash
  <2>1. ASSUME NEW t \in Calls
        PROVE  call'[t].at # "provider"
    BY <1>0, <1>4, EndedCallIs DEF Crash, InFlight, Going, Owning, BeforeOrder, Ended
  <2>2. Requests' = [t \in Calls |-> "idle"]
    BY <2>1 DEF Requests
  <2> QED BY <1>4, <2>2 DEF Crash, P!Next, P!Restart, Requests
<1>5. CASE (\E symbol \in Symbols : LevelsTrigger(symbol)) \/ BreakersMove \/ UNCHANGED vars
  BY <1>5 DEF LevelsTrigger, BreakersMove, vars, circuitVars, Requests
<1> QED BY <1>1, <1>2, <1>3, <1>4, <1>5, CircuitAnswer DEF Next

(* Every behaviour of the runtime is, seen through the calls at its          *)
(* provider, a behaviour of ProviderCircuit.                                 *)
THEOREM CircuitIsUsed == Spec => UsesCircuit
<1>1. Init => P!Init
  <2>1. NewCall.at = "idle"
    BY DEF NewCall
  <2>2. Init => Requests = [t \in Calls |-> "idle"]
    BY <2>1 DEF Init, Requests
  <2>3. Init => failures = 0 /\ isOpen = FALSE
    BY DEF Init
  <2> QED BY <2>2, <2>3 DEF P!Init, Requests
<1>2. RuntimeInv /\ [Next]_vars => [P!Next]_(P!vars)
  BY CircuitStep DEF RuntimeInv, Requests, P!vars
<1> QED BY <1>1, <1>2, RuntimeInvInvariant, PTL DEF Spec, UsesCircuit, P!Spec

-----------------------------------------------------------------------------
(* What a cycle has on record. The events of a cycle follow one of the ways  *)
(* a cycle can go; the call that owns it knows how many there are and which  *)
(* ways are still open, and when the terminal event is written, and by whom. *)

(* How many events of its own a cycle has. *)
Count(s) == Cardinality(Own(s))

(* How many events the cycle of an owning call has, by the call's place, and *)
(* the ways that are still open to it.                                       *)
Said(at) ==
  CASE at = "observe" -> 0
    [] at = "context" -> 1
    [] at \in {"provider", "decision"} -> 2
    [] at \in {"order", "intent"} -> 3
    [] at = "submitted" -> 4
    [] at = "fill" -> 5
    [] at \in {"protect", "protected"} -> 6
    [] at = "reconcile" -> 7

EnteredWays == {EnteredWay("PROTECTION_VERIFIED"), EnteredWay("PROTECTION_FAILED")}

Ahead(at) ==
  CASE at = "observe" -> Lifecycles
    [] at = "context" -> {way \in Lifecycles : Len(way) >= 3}
    [] at \in {"provider", "decision"} -> {way \in Lifecycles : Len(way) >= 3}
    [] at \in AfterOrder \union {"order"} -> EnteredWays

CallStory(t) ==
  LET at == call[t].at
      s == call[t].snapshot IN
  /\ at \in BeforeOrder \union (AfterOrder \ {"reconcile"}) =>
       Count(s) = Said(at) /\ \A way \in Ahead(at) : Follows(s, way)
  /\ at = "reconcile" =>
       Count(s) = 7 /\ \E way \in EnteredWays : Follows(s, way)
  /\ at = "terminal" => \E way \in Lifecycles : Count(s) = Len(way) - 1 /\ Follows(s, way)
  /\ at = "close" =>
       ClosedAs(s, call[t].verdict) /\ \E way \in Lifecycles : Follows(s, way)

CycleStory(s) ==
  /\ cycles[s] = "unclaimed" => Own(s) = {}
  /\ \E way \in Lifecycles : Follows(s, way)
  /\ IsTerminal(s) => ClosedAs(s, cycles[s])

(* Every call, and every cycle, has told its part of the story. *)
StoryInv == (\A t \in Calls : CallStory(t)) /\ (\A s \in Snapshots : CycleStory(s))

-----------------------------------------------------------------------------
(* A way ends with its only terminal event. *)
LEMMA WaysEnd ==
  ASSUME NEW way \in Lifecycles
  PROVE  /\ Len(way) \in Nat /\ Len(way) >= 2 /\ DOMAIN way = 1..Len(way)
         /\ \A i \in 1..Len(way) : way[i] = "CYCLE_TERMINAL" <=> i = Len(way)
<1>1. CASE way = <<"MARKET_OBSERVED", "CYCLE_TERMINAL">>
  BY <1>1
<1>2. CASE way = <<"MARKET_OBSERVED", "AGENT_CONTEXT_BUILT", "CYCLE_TERMINAL">>
  BY <1>2
<1>3. CASE way = <<"MARKET_OBSERVED", "AGENT_CONTEXT_BUILT", "AGENT_DECISION", "CYCLE_TERMINAL">>
  BY <1>3
<1>4. ASSUME NEW p \in {"PROTECTION_VERIFIED", "PROTECTION_FAILED"}, way = EnteredWay(p)
      PROVE  /\ Len(way) \in Nat /\ Len(way) >= 2 /\ DOMAIN way = 1..Len(way)
             /\ \A i \in 1..Len(way) : way[i] = "CYCLE_TERMINAL" <=> i = Len(way)
  BY <1>4 DEF EnteredWay
<1> QED BY <1>1, <1>2, <1>3, <1>4 DEF Lifecycles

LEMMA OwnIs ==
  ASSUME ledger \in [Snapshots -> Seq(Events)], NEW s \in Snapshots
  PROVE  /\ Own(s) \subseteq 1..Len(ledger[s]) /\ Len(ledger[s]) \in Nat
         /\ IsFiniteSet(Own(s)) /\ Count(s) \in Nat
         /\ \A i \in Own(s) : Nth(s, i) \in 1..Count(s)
<1>1. Own(s) \subseteq 1..Len(ledger[s]) /\ Len(ledger[s]) \in Nat
  BY DEF Own
<1>2. IsFiniteSet(Own(s))
  <2>1. IsFiniteSet(1..Len(ledger[s]))
    BY <1>1, FS_Interval
  <2> QED BY <1>1, <2>1, FS_Subset
<1>3. Count(s) \in Nat
  BY <1>2, FS_CardinalityType DEF Count
<1>4. ASSUME NEW i \in Own(s) PROVE Nth(s, i) \in 1..Count(s)
  <2> DEFINE S == {j \in Own(s) : j <= i}
  <2>1. IsFiniteSet(S) /\ Cardinality(S) <= Count(s)
    BY <1>2, FS_Subset DEF Count
  <2>2. S # {}
    BY <1>1, <1>4
  <2>3. Cardinality(S) \in Nat /\ Cardinality(S) # 0
    BY <2>1, <2>2, FS_CardinalityType, FS_EmptySet
  <2>4. Nth(s, i) = Cardinality(S)
    BY DEF Nth
  <2> HIDE DEF S
  <2> QED BY <1>3, <2>1, <2>3, <2>4
<1> QED BY <1>1, <1>2, <1>3, <1>4

(* A ledger that says no more of a cycle than it did. *)
Unsaid(s) == Own(s)' = Own(s) /\ \A i \in Own(s) : ledger'[s][i] = ledger[s][i]

(* It keeps what the cycle is said to follow and to be closed as. *)
LEMMA UnsaidKeeps ==
  ASSUME NEW s, Unsaid(s)
  PROVE  /\ Count(s)' = Count(s)
         /\ \A way : Follows(s, way)' <=> Follows(s, way)
         /\ \A d : ClosedAs(s, d)' <=> ClosedAs(s, d)
<1>1. \A i : Nth(s, i)' = Nth(s, i)
  BY DEF Unsaid, Nth
<1>2. Count(s)' = Count(s)
  BY DEF Unsaid, Count
<1>3. ASSUME NEW way PROVE Follows(s, way)' <=> Follows(s, way)
  BY <1>1 DEF Unsaid, Follows
<1>4. ASSUME NEW d PROVE ClosedAs(s, d)' <=> ClosedAs(s, d)
  BY DEF Unsaid, ClosedAs
<1> QED BY <1>2, <1>3, <1>4

LEMMA UnsaidWhen ==
  ASSUME ledger \in [Snapshots -> Seq(Events)], NEW s \in Snapshots,
         \/ ledger'[s] = ledger[s]
         \/ \E t, type, d : Log(t, type, d) /\ (d = "SKIPPED" \/ call[t].snapshot # s)
  PROVE  Unsaid(s)
<1>1. CASE ledger'[s] = ledger[s]
  BY <1>1 DEF Unsaid, Own
<1>2. ASSUME NEW t, NEW type, Log(t, type, "SKIPPED"), call[t].snapshot = s PROVE Unsaid(s)
  <2> DEFINE e == [type |-> type, context |-> context, disposition |-> "SKIPPED"]
  <2>1. ledger'[s] = Append(ledger[s], e) /\ ledger[s] \in Seq(Events)
    BY <1>2 DEF Log
  <2>2. e.disposition = "SKIPPED"
    OBVIOUS
  <2> HIDE DEF e
  <2>3. /\ DOMAIN ledger[s] = 1..Len(ledger[s]) /\ Len(ledger[s]) \in Nat
        /\ DOMAIN ledger'[s] = 1..(Len(ledger[s]) + 1)
        /\ \A j \in 1..Len(ledger[s]) : ledger'[s][j] = ledger[s][j]
        /\ ledger'[s][Len(ledger[s]) + 1] = e
    BY <2>1
  <2> QED BY <2>2, <2>3 DEF Unsaid, Own
<1>3. ASSUME NEW t, NEW type, NEW d, Log(t, type, d), call[t].snapshot # s
      PROVE  ledger'[s] = ledger[s]
  BY <1>3, LogElsewhere
<1> QED BY <1>1, <1>2, <1>3

(* One more event of its own, at n. *)
Longer(s, n, type, d) ==
  /\ Own(s)' = Own(s) \union {n} /\ n \notin Own(s)
  /\ \A i \in Own(s) : i <= n /\ ~(n <= i) /\ ledger'[s][i] = ledger[s][i]
  /\ n <= n /\ ledger'[s][n].type = type /\ ledger'[s][n].disposition = d
  /\ Count(s)' = Count(s) + 1 /\ Nth(s, n)' = Count(s) + 1
  /\ \A i \in Own(s) : Nth(s, i)' = Nth(s, i)

(* An event other than a duplicate's makes it longer. *)
LEMMA OneMore ==
  ASSUME ledger \in [Snapshots -> Seq(Events)], NEW t, NEW s \in Snapshots,
         call[t].snapshot = s, NEW type, NEW d, d # "SKIPPED", Log(t, type, d)
  PROVE  \E n : Longer(s, n, type, d)
<1> DEFINE e == [type |-> type, context |-> context, disposition |-> d]
<1>0. PICK n : n = Len(ledger[s]) + 1
  OBVIOUS
<1>1. ledger'[s] = Append(ledger[s], e) /\ ledger[s] \in Seq(Events)
  BY DEF Log
<1>2. e.disposition = d /\ e.type = type
  OBVIOUS
<1> HIDE DEF e
<1>3. /\ DOMAIN ledger[s] = 1..Len(ledger[s]) /\ Len(ledger[s]) \in Nat
      /\ DOMAIN ledger'[s] = 1..(Len(ledger[s]) + 1)
      /\ \A j \in 1..Len(ledger[s]) : ledger'[s][j] = ledger[s][j]
      /\ ledger'[s][Len(ledger[s]) + 1] = e
  BY <1>1
<1>4. /\ Own(s)' = Own(s) \union {n} /\ n \notin Own(s)
      /\ \A i \in Own(s) : i <= n /\ ~(n <= i) /\ ledger'[s][i] = ledger[s][i]
      /\ n <= n /\ ledger'[s][n].type = type /\ ledger'[s][n].disposition = d
  BY <1>0, <1>2, <1>3 DEF Own
<1>5. Count(s)' = Count(s) + 1
  BY <1>4, OwnIs, FS_AddElement DEF Count
<1>6. {j \in Own(s)' : j <= n} = Own(s)'
  BY <1>4
<1>7. Nth(s, n)' = Count(s)'
  BY <1>6 DEF Nth, Count
<1>8. ASSUME NEW i \in Own(s) PROVE Nth(s, i)' = Nth(s, i)
  <2>1. {j \in Own(s)' : j <= i} = {j \in Own(s) : j <= i}
    BY <1>4
  <2> QED BY <2>1 DEF Nth
<1>9. Nth(s, n)' = Count(s) + 1
  BY <1>5, <1>7
<1> QED BY <1>4, <1>5, <1>8, <1>9 DEF Longer

(* The next event of a way goes on along it, the last one closes it. *)
LEMMA SayNext ==
  ASSUME ledger \in [Snapshots -> Seq(Events)], NEW t, NEW s \in Snapshots,
         call[t].snapshot = s, NEW type, NEW d, d # "SKIPPED", Log(t, type, d),
         NEW way, Follows(s, way), Count(s) + 1 \in DOMAIN way, way[Count(s) + 1] = type
  PROVE  Follows(s, way)'
<1>1. PICK n : Longer(s, n, type, d)
  BY OneMore
<1> QED BY <1>1 DEF Longer, Follows

LEMMA SayCount ==
  ASSUME ledger \in [Snapshots -> Seq(Events)], NEW t, NEW s \in Snapshots,
         call[t].snapshot = s, NEW type, NEW d, d # "SKIPPED", Log(t, type, d)
  PROVE  Count(s)' = Count(s) + 1
BY OneMore DEF Longer

LEMMA SayLast ==
  ASSUME ledger \in [Snapshots -> Seq(Events)], NEW t, NEW s \in Snapshots,
         call[t].snapshot = s, NEW d, d # "SKIPPED", Log(t, "CYCLE_TERMINAL", d),
         NEW way \in Lifecycles, Follows(s, way), Count(s) = Len(way) - 1
  PROVE  ClosedAs(s, d)' /\ Follows(s, way)'
<1>1. /\ Len(way) \in Nat /\ Len(way) >= 2 /\ DOMAIN way = 1..Len(way)
      /\ \A i \in 1..Len(way) : way[i] = "CYCLE_TERMINAL" <=> i = Len(way)
  BY WaysEnd
<1> DEFINE k == Len(way)
<1>0. Count(s) \in Nat /\ k \in Nat /\ Count(s) = k - 1
  BY <1>1, OwnIs
<1>2. Follows(s, way)'
  <2>0. Count(s) + 1 = k /\ k \in 1..k
    <3> HIDE DEF k
    <3> QED BY <1>0
  <2>1. Count(s) + 1 \in DOMAIN way /\ way[Count(s) + 1] = "CYCLE_TERMINAL"
    BY <1>1, <2>0
  <2> QED BY <2>1, SayNext
<1>3. ASSUME NEW i \in Own(s) PROVE ledger[s][i].type # "CYCLE_TERMINAL"
  <2>1. Nth(s, i) \in 1..Count(s) /\ ledger[s][i].type = way[Nth(s, i)]
    BY OwnIs DEF Follows
  <2>2. Nth(s, i) \in 1..k /\ Nth(s, i) # k
    <3> HIDE DEF k
    <3> QED BY <1>0, <2>1
  <2> QED BY <1>1, <2>1, <2>2
<1>4. PICK n : Longer(s, n, "CYCLE_TERMINAL", d)
  BY OneMore
<1>5. \A i \in Own(s)' : i <= n /\ (ledger'[s][i].type = "CYCLE_TERMINAL" <=> i = n)
  BY <1>3, <1>4 DEF Longer
<1>6. n \in Own(s)' /\ ledger'[s][n].disposition = d
  BY <1>4 DEF Longer
<1>7. ClosedAs(s, d)'
  BY <1>5, <1>6 DEF ClosedAs
<1> QED BY <1>2, <1>7

(* Where a step leaves its call. *)
LEMMA LeadsTo ==
  ASSUME CallTyped, NEW t \in Calls
  PROVE  /\ \A how : End(t, how) => call'[t].at = how /\ call'[t].snapshot = call[t].snapshot
         /\ \A v : Conclude(t, v) => /\ call'[t].at = "terminal"
                                     /\ call'[t].snapshot = call[t].snapshot
         /\ \A at : GoTo(t, at) => /\ call'[t].at = at
                                   /\ call'[t].snapshot = call[t].snapshot
                                   /\ call'[t].verdict = call[t].verdict
<1>1. ASSUME NEW how, End(t, how) PROVE call'[t].at = how
  <2>1. call'[t] = EndedCall(t, how)
    BY <1>1 DEF End, CallTyped, Becomes
  <2>2. EndedCall(t, how).at = how
    BY DEF EndedCall, NewCall
  <2> QED BY <2>1, <2>2
<1>2. ASSUME NEW at, GoTo(t, at) PROVE call'[t].verdict = call[t].verdict
  <2>1. call'[t] = [call[t] EXCEPT !.at = at] /\ call[t] \in CallStates
    BY <1>2 DEF GoTo, CallTyped, Becomes
  <2>2. [call[t] EXCEPT !.at = at].verdict = call[t].verdict
    BY <2>1 DEF CallStates
  <2> QED BY <2>1, <2>2
<1> QED BY <1>1, <1>2, EndIs, ConcludeIs, GoToIs

(* What one call tells of its cycle does not touch what the others have told. *)
LEMMA OneTells ==
  ASSUME RuntimeInv, StoryInv, NEW t \in Calls, call[t].at \in Going,
         NEW me \in Snapshots, call[t].snapshot = me,
         \A u \in Calls \ {t} : call'[u] = call[u],
         \A s \in Snapshots : Unsaid(s) \/ (s = me /\ call[t].at \in Owning),
         \A s \in Snapshots \ {me} : cycles'[s] = cycles[s],
         CallStory(t)', CycleStory(me)'
  PROVE  StoryInv'
<1>1. ASSUME NEW u \in Calls, u # t PROVE CallStory(u)'
  <2>1. CASE call[u].at \notin Owning
    <3>1. call'[u].at \notin Owning
      BY <1>1, <2>1
    <3> QED BY <3>1 DEF CallStory, Owning, AfterOrder
  <2>2. CASE call[u].at \in Owning
    <3>1. PICK s \in Snapshots : s = call[u].snapshot
      BY <2>2 DEF RuntimeInv, OwnershipInv, CallTells, Going
    <3>2. Unsaid(s)
      BY <1>1, <2>2, <3>1 DEF RuntimeInv, OwnershipInv, OneOwner
    <3>3. /\ Count(s)' = Count(s)
          /\ \A way : Follows(s, way)' <=> Follows(s, way)
          /\ \A d : ClosedAs(s, d)' <=> ClosedAs(s, d)
      BY <3>2, UnsaidKeeps
    <3>4. CallStory(u) /\ call'[u] = call[u] /\ call'[u].snapshot = s
      BY <1>1, <3>1 DEF StoryInv
    <3> QED BY <3>1, <3>3, <3>4 DEF CallStory
  <2> QED BY <2>1, <2>2
<1>2. ASSUME NEW s \in Snapshots, s # me PROVE CycleStory(s)'
  <2>1. Unsaid(s) /\ cycles'[s] = cycles[s] /\ CycleStory(s)
    BY <1>2 DEF StoryInv
  <2>2. Own(s)' = Own(s)
    BY <2>1 DEF Unsaid
  <2>3. /\ \A way : Follows(s, way)' <=> Follows(s, way)
        /\ \A d : ClosedAs(s, d)' <=> ClosedAs(s, d)
    BY <2>1, UnsaidKeeps
  <2> QED BY <2>1, <2>2, <2>3 DEF CycleStory, IsTerminal
<1>3. CallStory(t)'
  OBVIOUS
<1>4. \A u \in Calls : CallStory(u)'
  BY <1>1, <1>3
<1>5. \A s \in Snapshots : CycleStory(s)'
  BY <1>2
<1> QED BY <1>4, <1>5 DEF StoryInv

ParkedWay == <<"MARKET_OBSERVED", "CYCLE_TERMINAL">>
AskedWay == <<"MARKET_OBSERVED", "AGENT_CONTEXT_BUILT", "CYCLE_TERMINAL">>
DecidedWay == <<"MARKET_OBSERVED", "AGENT_CONTEXT_BUILT", "AGENT_DECISION", "CYCLE_TERMINAL">>

(* What is common to the ways that are still open. *)
LEMMA WaysBegin ==
  /\ \A way \in Lifecycles : 1 \in DOMAIN way /\ way[1] = "MARKET_OBSERVED"
  /\ \A way \in Lifecycles :
       Len(way) >= 3 => 2 \in DOMAIN way /\ way[2] = "AGENT_CONTEXT_BUILT"
  /\ ParkedWay \in Lifecycles /\ Len(ParkedWay) = 2
  /\ AskedWay \in Lifecycles /\ Len(AskedWay) = 3
  /\ DecidedWay \in Lifecycles /\ Len(DecidedWay) = 4
  /\ 3 \in DOMAIN DecidedWay /\ DecidedWay[3] = "AGENT_DECISION"
<1>1. ASSUME NEW p PROVE EnteredWay(p)[1] = "MARKET_OBSERVED" /\ EnteredWay(p)[2] = "AGENT_CONTEXT_BUILT"
                         /\ 1 \in DOMAIN EnteredWay(p) /\ 2 \in DOMAIN EnteredWay(p)
  BY DEF EnteredWay
<1>2. /\ 1 \in DOMAIN ParkedWay /\ ParkedWay[1] = "MARKET_OBSERVED" /\ Len(ParkedWay) = 2
  BY DEF ParkedWay
<1>3. /\ 1 \in DOMAIN AskedWay /\ AskedWay[1] = "MARKET_OBSERVED" /\ Len(AskedWay) = 3
      /\ 2 \in DOMAIN AskedWay /\ AskedWay[2] = "AGENT_CONTEXT_BUILT"
  BY DEF AskedWay
<1>4. /\ 1 \in DOMAIN DecidedWay /\ DecidedWay[1] = "MARKET_OBSERVED" /\ Len(DecidedWay) = 4
      /\ 2 \in DOMAIN DecidedWay /\ DecidedWay[2] = "AGENT_CONTEXT_BUILT"
      /\ 3 \in DOMAIN DecidedWay /\ DecidedWay[3] = "AGENT_DECISION"
  BY DEF DecidedWay
<1>5. Lifecycles = {ParkedWay, AskedWay, DecidedWay, EnteredWay("PROTECTION_VERIFIED"),
                    EnteredWay("PROTECTION_FAILED")}
  BY DEF Lifecycles, ParkedWay, AskedWay, DecidedWay
<1>6. ASSUME NEW way \in Lifecycles PROVE 1 \in DOMAIN way /\ way[1] = "MARKET_OBSERVED"
  BY <1>1, <1>2, <1>3, <1>4, <1>5
<1>7. ASSUME NEW way \in Lifecycles, Len(way) >= 3
      PROVE  2 \in DOMAIN way /\ way[2] = "AGENT_CONTEXT_BUILT"
  <2>1. ASSUME way = ParkedWay PROVE FALSE
    <3>1. Len(way) = 2
      BY <1>2, <2>1
    <3> QED BY <1>7, <3>1
  <2> QED BY <1>1, <1>3, <1>4, <1>5, <2>1
<1>8. ParkedWay \in Lifecycles /\ AskedWay \in Lifecycles /\ DecidedWay \in Lifecycles
  BY <1>5
<1> QED BY <1>2, <1>3, <1>4, <1>6, <1>7, <1>8

LEMMA EnteredWaysGo ==
  ASSUME NEW p \in {"PROTECTION_VERIFIED", "PROTECTION_FAILED"}, NEW way, way = EnteredWay(p)
  PROVE  /\ way \in Lifecycles /\ way \in EnteredWays /\ Len(way) = 9 /\ DOMAIN way = 1..9
         /\ way[3] = "AGENT_DECISION" /\ way[4] = "INTENT_APPROVED"
         /\ way[5] = "ORDER_SUBMITTED" /\ way[6] = "FILL_OBSERVED"
         /\ way[7] = p /\ way[8] = "POSITION_RECONCILED"
<1>1. way \in EnteredWays /\ way \in Lifecycles
  BY DEF EnteredWays, Lifecycles
<1>2. Len(way) = 9 /\ DOMAIN way = 1..9
  BY DEF EnteredWay
<1>3. /\ way[3] = "AGENT_DECISION" /\ way[4] = "INTENT_APPROVED"
      /\ way[5] = "ORDER_SUBMITTED" /\ way[6] = "FILL_OBSERVED"
      /\ way[7] = p /\ way[8] = "POSITION_RECONCILED"
  BY DEF EnteredWay
<1> QED BY <1>1, <1>2, <1>3

LEMMA SaidIs ==
  /\ Said("observe") = 0 /\ Said("context") = 1 /\ Said("provider") = 2 /\ Said("decision") = 2
  /\ Said("order") = 3 /\ Said("intent") = 3 /\ Said("submitted") = 4 /\ Said("fill") = 5
  /\ Said("protect") = 6 /\ Said("protected") = 6
BY DEF Said

LEMMA AheadIs ==
  /\ Ahead("observe") = Lifecycles
  /\ \A at \in {"context", "provider", "decision"} : Ahead(at) = {way \in Lifecycles : Len(way) >= 3}
  /\ \A at \in {"order", "intent", "submitted", "fill", "protect", "protected"} :
       Ahead(at) = EnteredWays
BY DEF Ahead, AfterOrder

(* A call says the next thing of its cycle. *)
LEMMA Speaks ==
  ASSUME RuntimeInv, StoryInv, NEW t \in Calls, NEW me \in Snapshots, call[t].snapshot = me,
         NEW at \in BeforeOrder \union (AfterOrder \ {"reconcile"}), call[t].at = at,
         NEW type, NEW d, d # "SKIPPED", Log(t, type, d)
  PROVE  /\ Count(me)' = Said(at) + 1
         /\ \A way \in Ahead(at) :
              Said(at) + 1 \in DOMAIN way /\ way[Said(at) + 1] = type => Follows(me, way)'
<1>1. Count(me) = Said(at) /\ \A way \in Ahead(at) : Follows(me, way)
  BY DEF StoryInv, CallStory
<1>2. ledger \in [Snapshots -> Seq(Events)]
  BY DEF RuntimeInv, LogTypes
<1>3. Count(me)' = Said(at) + 1
  BY <1>1, <1>2, SayCount
<1>4. ASSUME NEW way \in Ahead(at), Said(at) + 1 \in DOMAIN way, way[Said(at) + 1] = type
      PROVE  Follows(me, way)'
  BY <1>1, <1>2, <1>4, SayNext
<1> QED BY <1>3, <1>4

(* A call that says nothing. *)
LEMMA Silent ==
  ASSUME RuntimeInv, NEW me \in Snapshots, UNCHANGED ledger
  PROVE  /\ Count(me)' = Count(me)
         /\ \A way : Follows(me, way)' <=> Follows(me, way)
         /\ \A d : ClosedAs(me, d)' <=> ClosedAs(me, d)
<1>1. Unsaid(me)
  BY UnsaidWhen DEF RuntimeInv, LogTypes
<1> QED BY <1>1, UnsaidKeeps

(* A cycle that is being worked on needs a way that it follows. *)
LEMMA WorkedOn ==
  ASSUME NEW me, cycles'[me] = "claimed", NEW way \in Lifecycles, Follows(me, way)'
  PROVE  CycleStory(me)'
BY DEF CycleStory, IsTerminal, Dispositions, Entered, NotEntered

(* A call that has ended tells nothing. *)
LEMMA EndedTells ==
  ASSUME NEW t, call'[t].at \in {"done", "raised", "lost", "skip", "claim", "idle"}
  PROVE  CallStory(t)'
<1>1. call'[t].at \notin Owning
  BY DEF Owning, BeforeOrder, AfterOrder
<1> QED BY <1>1 DEF CallStory, Owning, AfterOrder

(* A call that has the loop and its cycle, up to the terminal event. *)
LEMMA GoesOn ==
  ASSUME NEW t, NEW me, call'[t].snapshot = me,
         NEW at \in BeforeOrder \union (AfterOrder \ {"reconcile"}), call'[t].at = at,
         Count(me)' = Said(at), \A way \in Ahead(at) : Follows(me, way)'
  PROVE  CallStory(t)'
BY DEF CallStory, BeforeOrder, AfterOrder

LEMMA GoesToTerminal ==
  ASSUME NEW t, NEW me, call'[t].snapshot = me, call'[t].at = "terminal",
         NEW way \in Lifecycles, Count(me)' = Len(way) - 1, Follows(me, way)'
  PROVE  CallStory(t)'
BY DEF CallStory, BeforeOrder, AfterOrder

LEMMA ClaimStory ==
  ASSUME RuntimeInv, StoryInv, NEW t \in Calls, NEW me \in Snapshots, call[t].snapshot = me,
         Claim(t)
  PROVE  CallStory(t)' /\ CycleStory(me)'
<1>0. CallTyped /\ CycleStory(me) /\ ledger \in [Snapshots -> Seq(Events)]
  BY DEF RuntimeInv, StoryInv, LogTypes
<1>1. UNCHANGED ledger
  BY DEF Claim
<1>2. /\ Count(me)' = Count(me) /\ Own(me)' = Own(me)
      /\ \A way : Follows(me, way)' <=> Follows(me, way)
      /\ \A d : ClosedAs(me, d)' <=> ClosedAs(me, d)
  BY <1>1, Silent DEF Own
<1>3. CASE cycles[me] = "unclaimed"
  <2>1. GoTo(t, "observe") /\ cycles' = [cycles EXCEPT ![me] = "claimed"]
    BY <1>3 DEF Claim
  <2>2. call'[t].at = "observe" /\ call'[t].snapshot = me /\ cycles'[me] = "claimed"
    BY <1>0, <2>1, LeadsTo DEF CallTyped
  <2>3. Own(me) = {}
    BY <1>0, <1>3 DEF CycleStory
  <2>4. Count(me) = 0 /\ \A way : Follows(me, way)
    BY <2>3, FS_EmptySet DEF Count, Follows
  <2>5. CallStory(t)'
    BY <1>2, <2>2, <2>4, GoesOn, SaidIs DEF BeforeOrder
  <2> QED BY <1>2, <2>2, <2>4, <2>5, WorkedOn, WaysBegin
<1>4. CASE cycles[me] # "unclaimed"
  <2>1. GoTo(t, "skip") /\ UNCHANGED cycles
    BY <1>4 DEF Claim
  <2>2. call'[t].at = "skip"
    BY <1>0, <2>1, LeadsTo
  <2> QED BY <1>0, <1>2, <2>1, <2>2, EndedTells DEF CycleStory, IsTerminal
<1> QED BY <1>3, <1>4

LEMMA BeforeStory ==
  ASSUME RuntimeInv, StoryInv, NEW t \in Calls, NEW me \in Snapshots, call[t].snapshot = me,
         Observe(t) \/ BuildContext(t) \/ Decide(t)
  PROVE  CallStory(t)' /\ CycleStory(me)'
<1>0. CallTyped
  BY DEF RuntimeInv
<1> HIDE DEF Becomes
<1>1. cycles'[me] = "claimed"
  BY DEF RuntimeInv, OwnershipInv, CallTells, Observe, BuildContext, Decide, Running, Owning,
     BeforeOrder
<1>2. CASE Observe(t)
  <2>1. /\ call[t].at = "observe" /\ Log(t, "MARKET_OBSERVED", "")
        /\ Conclude(t, "PARKED") \/ GoTo(t, "context")
    BY <1>2 DEF Observe, Running
  <2>2. Count(me)' = 1 /\ \A way \in Lifecycles : Follows(me, way)'
    <3>1. /\ Count(me)' = Said("observe") + 1
          /\ \A way \in Ahead("observe") :
               Said("observe") + 1 \in DOMAIN way /\ way[Said("observe") + 1] = "MARKET_OBSERVED"
               => Follows(me, way)'
      BY <2>1, Speaks DEF BeforeOrder
    <3>2. Said("observe") + 1 = 1
      BY SaidIs
    <3> QED BY <3>1, <3>2, AheadIs, WaysBegin
  <2>3. CycleStory(me)'
    BY <1>1, <2>2, WorkedOn, WaysBegin
  <2>4. CASE Conclude(t, "PARKED")
    <3>1. call'[t].at = "terminal" /\ call'[t].snapshot = me
      BY <1>0, <2>4, LeadsTo
    <3>2. Count(me)' = Len(ParkedWay) - 1
      BY <2>2, WaysBegin
    <3> QED BY <2>2, <2>3, <3>1, <3>2, WaysBegin, GoesToTerminal
  <2>5. CASE GoTo(t, "context")
    <3>1. call'[t].at = "context" /\ call'[t].snapshot = me
      BY <1>0, <2>5, LeadsTo
    <3>2. Count(me)' = Said("context") /\ \A way \in Ahead("context") : Follows(me, way)'
      BY <2>2, SaidIs, AheadIs
    <3> QED BY <2>3, <3>1, <3>2, GoesOn DEF BeforeOrder
  <2> QED BY <2>1, <2>4, <2>5
<1>3. CASE BuildContext(t)
  <2>1. /\ call[t].at = "context" /\ Log(t, "AGENT_CONTEXT_BUILT", "")
        /\ Conclude(t, "PARKED_PROVIDER") \/ Becomes(t, [call[t] EXCEPT !.at = "provider"])
    BY <1>3 DEF BuildContext, Running
  <2> DEFINE Asking == {way \in Lifecycles : Len(way) >= 3}
  <2>2. Count(me)' = 2 /\ \A way \in Asking : Follows(me, way)'
    <3>1. /\ Count(me)' = Said("context") + 1
          /\ \A way \in Ahead("context") :
               Said("context") + 1 \in DOMAIN way /\ way[Said("context") + 1] = "AGENT_CONTEXT_BUILT"
               => Follows(me, way)'
      BY <2>1, Speaks DEF BeforeOrder
    <3>2. Said("context") + 1 = 2
      BY SaidIs
    <3>3. Ahead("context") = Asking
      BY AheadIs
    <3> QED BY <3>1, <3>2, <3>3, WaysBegin
  <2>3. AskedWay \in Asking
    <3>1. Len(AskedWay) = 3 /\ AskedWay \in Lifecycles
      BY WaysBegin
    <3>2. \A n : n = 3 => n >= 3
      OBVIOUS
    <3> QED BY <3>1, <3>2
  <2>4. CycleStory(me)'
    BY <1>1, <2>2, <2>3, WorkedOn
  <2>5. CASE Conclude(t, "PARKED_PROVIDER")
    <3>1. call'[t].at = "terminal" /\ call'[t].snapshot = me
      BY <1>0, <2>5, LeadsTo
    <3>2. Count(me)' = Len(AskedWay) - 1
      BY <2>2, WaysBegin
    <3> QED BY <2>2, <2>3, <2>4, <3>1, <3>2, GoesToTerminal
  <2>6. CASE Becomes(t, [call[t] EXCEPT !.at = "provider"])
    <3>1. call'[t].at = "provider" /\ call'[t].snapshot = me
      BY <1>0, <2>6 DEF CallTyped, CallStates, Becomes
    <3>2. Count(me)' = Said("provider") /\ \A way \in Ahead("provider") : Follows(me, way)'
      BY <2>2, SaidIs, AheadIs
    <3> QED BY <2>4, <3>1, <3>2, GoesOn DEF BeforeOrder
  <2> QED BY <2>1, <2>5, <2>6
<1>4. CASE Decide(t)
  <2>1. /\ call[t].at = "decision" /\ Log(t, "AGENT_DECISION", "")
        /\ \/ Conclude(t, "REJECTED") \/ Conclude(t, "HELD")
           \/ \E side \in Sides : Becomes(t, [call[t] EXCEPT !.at = "order", !.side = side])
    BY <1>4 DEF Decide, Running
  <2>2. Count(me)' = 3 /\ Follows(me, DecidedWay)' /\ \A way \in EnteredWays : Follows(me, way)'
    <3>1. /\ Count(me)' = Said("decision") + 1
          /\ \A way \in Ahead("decision") :
               Said("decision") + 1 \in DOMAIN way /\ way[Said("decision") + 1] = "AGENT_DECISION"
               => Follows(me, way)'
      BY <2>1, Speaks DEF BeforeOrder
    <3>2. Said("decision") + 1 = 3
      BY SaidIs
    <3>3. DecidedWay \in Ahead("decision")
      BY AheadIs, WaysBegin
    <3>4. ASSUME NEW way \in EnteredWays
          PROVE  way \in Ahead("decision") /\ 3 \in DOMAIN way /\ way[3] = "AGENT_DECISION"
      <4>1. /\ way \in Lifecycles /\ Len(way) = 9 /\ DOMAIN way = 1..9
            /\ way[3] = "AGENT_DECISION"
        BY EnteredWaysGo DEF EnteredWays
      <4> QED BY <4>1, AheadIs
    <3> QED BY <3>1, <3>2, <3>3, <3>4, WaysBegin
  <2>3. CycleStory(me)'
    BY <1>1, <2>2, WorkedOn, WaysBegin
  <2>4. CASE Conclude(t, "REJECTED") \/ Conclude(t, "HELD")
    <3>1. call'[t].at = "terminal" /\ call'[t].snapshot = me
      BY <1>0, <2>4, LeadsTo
    <3>2. Count(me)' = Len(DecidedWay) - 1
      BY <2>2, WaysBegin
    <3> QED BY <2>2, <2>3, <3>1, <3>2, WaysBegin, GoesToTerminal
  <2>5. ASSUME NEW side \in Sides, Becomes(t, [call[t] EXCEPT !.at = "order", !.side = side])
        PROVE  CallStory(t)'
    <3>1. call'[t].at = "order" /\ call'[t].snapshot = me
      BY <1>0, <2>5 DEF CallTyped, CallStates, Becomes
    <3>2. Count(me)' = Said("order") /\ \A way \in Ahead("order") : Follows(me, way)'
      BY <2>2, SaidIs, AheadIs
    <3> QED BY <3>1, <3>2, GoesOn DEF BeforeOrder
  <2> QED BY <2>1, <2>3, <2>4, <2>5
<1> QED BY <1>2, <1>3, <1>4

LEMMA EnteredStory ==
  ASSUME RuntimeInv, StoryInv, NEW t \in Calls, NEW me \in Snapshots, call[t].snapshot = me,
         LogIntent(t) \/ LogSubmitted(t) \/ LogFill(t)
  PROVE  CallStory(t)' /\ CycleStory(me)'
<1>0. CallTyped
  BY DEF RuntimeInv
<1>1. cycles'[me] = "claimed"
  BY DEF RuntimeInv, OwnershipInv, CallTells, LogIntent, LogSubmitted, LogFill, LogStep, Running,
     Owning, AfterOrder
<1>2. ASSUME NEW at \in {"intent", "submitted", "fill"}, NEW next \in {"submitted", "fill", "protect"},
             NEW type, LogStep(t, at, type, next), Said(next) = Said(at) + 1,
             \A way \in EnteredWays : Said(at) + 1 \in DOMAIN way /\ way[Said(at) + 1] = type
      PROVE  CallStory(t)' /\ CycleStory(me)'
  <2>1. call[t].at = at /\ Log(t, type, "") /\ GoTo(t, next)
    BY <1>2 DEF LogStep, Running
  <2>2. Count(me)' = Said(next) /\ \A way \in EnteredWays : Follows(me, way)'
    <3>1. /\ Count(me)' = Said(at) + 1
          /\ \A way \in Ahead(at) :
               Said(at) + 1 \in DOMAIN way /\ way[Said(at) + 1] = type => Follows(me, way)'
      BY <1>2, <2>1, Speaks DEF AfterOrder
    <3> QED BY <1>2, <3>1, AheadIs
  <2>3. call'[t].at = next /\ call'[t].snapshot = me
    BY <1>0, <2>1, LeadsTo
  <2>4. CallStory(t)'
    <3>1. \A way \in Ahead(next) : Follows(me, way)'
      BY <1>2, <2>2, AheadIs
    <3> QED BY <1>2, <2>2, <2>3, <3>1, GoesOn DEF AfterOrder
  <2> QED BY <1>1, <2>2, <2>4, WorkedOn, EnteredWaysGo
<1>3. ASSUME NEW way \in EnteredWays
      PROVE  /\ DOMAIN way = 1..9 /\ way[4] = "INTENT_APPROVED"
             /\ way[5] = "ORDER_SUBMITTED" /\ way[6] = "FILL_OBSERVED"
  BY EnteredWaysGo DEF EnteredWays
<1>4. Said("intent") + 1 = 4 /\ Said("submitted") + 1 = 5 /\ Said("fill") + 1 = 6
      /\ Said("submitted") = 4 /\ Said("fill") = 5 /\ Said("protect") = 6
  BY SaidIs
<1>5. CASE LogIntent(t)
  BY <1>2, <1>3, <1>4, <1>5 DEF LogIntent
<1>6. CASE LogSubmitted(t)
  BY <1>2, <1>3, <1>4, <1>6 DEF LogSubmitted
<1>7. CASE LogFill(t)
  BY <1>2, <1>3, <1>4, <1>7 DEF LogFill
<1> QED BY <1>5, <1>6, <1>7

LEMMA ProtectedStory ==
  ASSUME RuntimeInv, StoryInv, NEW t \in Calls, NEW me \in Snapshots, call[t].snapshot = me,
         LogProtection(t) \/ LogReconciled(t)
  PROVE  CallStory(t)' /\ CycleStory(me)'
<1>0. CallTyped /\ CallStory(t) /\ ledger \in [Snapshots -> Seq(Events)]
  BY DEF RuntimeInv, StoryInv, LogTypes
<1>1. cycles'[me] = "claimed"
  BY DEF RuntimeInv, OwnershipInv, CallTells, LogProtection, LogReconciled, LogStep, Running,
     Owning, AfterOrder
<1>2. CASE LogProtection(t)
  <2>1. PICK p \in {"PROTECTION_VERIFIED", "PROTECTION_FAILED"} : LogStep(t, "protected", p, "reconcile")
    BY <1>2 DEF LogProtection
  <2>2. call[t].at = "protected" /\ Log(t, p, "") /\ GoTo(t, "reconcile")
    BY <2>1 DEF LogStep, Running
  <2>3. PICK way \in EnteredWays : way = EnteredWay(p)
    BY DEF EnteredWays
  <2>4. way \in Lifecycles /\ DOMAIN way = 1..9 /\ way[7] = p
    BY <2>3, EnteredWaysGo
  <2>5. Count(me)' = 7 /\ Follows(me, way)'
    <3>1. /\ Count(me)' = Said("protected") + 1
          /\ \A w \in Ahead("protected") :
               Said("protected") + 1 \in DOMAIN w /\ w[Said("protected") + 1] = p => Follows(me, w)'
      BY <2>2, Speaks DEF AfterOrder
    <3>2. Said("protected") + 1 = 7 /\ way \in Ahead("protected")
      BY SaidIs, AheadIs
    <3> QED BY <2>4, <3>1, <3>2
  <2>6. call'[t].at = "reconcile" /\ call'[t].snapshot = me
    BY <1>0, <2>2, LeadsTo
  <2>7. CallStory(t)'
    BY <2>5, <2>6 DEF CallStory, BeforeOrder, AfterOrder
  <2> QED BY <1>1, <2>4, <2>5, <2>7, WorkedOn
<1>3. CASE LogReconciled(t)
  <2>1. /\ call[t].at = "reconcile" /\ Log(t, "POSITION_RECONCILED", "") /\ GoTo(t, "terminal")
    BY <1>3 DEF LogReconciled, LogStep, Running
  <2>2. PICK way \in EnteredWays : Count(me) = 7 /\ Follows(me, way)
    BY <1>0, <2>1 DEF CallStory
  <2>3. /\ way \in Lifecycles /\ Len(way) = 9 /\ DOMAIN way = 1..9
        /\ way[8] = "POSITION_RECONCILED"
    BY EnteredWaysGo DEF EnteredWays
  <2>4. Count(me)' = 8
    <3>1. Count(me)' = Count(me) + 1
      BY <1>0, <2>1, SayCount
    <3> QED BY <2>2, <3>1
  <2>5. Follows(me, way)'
    <3>1. Count(me) + 1 = 8
      BY <2>2
    <3>2. Count(me) + 1 \in DOMAIN way /\ way[Count(me) + 1] = "POSITION_RECONCILED"
      BY <2>3, <3>1
    <3> QED BY <1>0, <2>1, <2>2, <3>2, SayNext
  <2>6. call'[t].at = "terminal" /\ call'[t].snapshot = me
    BY <1>0, <2>1, LeadsTo
  <2>7. CallStory(t)'
    <3>1. Count(me)' = Len(way) - 1
      BY <2>3, <2>4
    <3> QED BY <2>3, <2>5, <2>6, <3>1, GoesToTerminal
  <2> QED BY <1>1, <2>3, <2>5, <2>7, WorkedOn
<1> QED BY <1>2, <1>3

LEMMA ClosingStory ==
  ASSUME RuntimeInv, StoryInv, NEW t \in Calls, NEW me \in Snapshots, call[t].snapshot = me,
         LogTerminal(t) \/ SetTerminal(t)
  PROVE  CallStory(t)' /\ CycleStory(me)'
<1>0. /\ CallTyped /\ CallStory(t) /\ CallTells(t) /\ CycleStory(me)
      /\ ledger \in [Snapshots -> Seq(Events)]
  BY DEF RuntimeInv, StoryInv, LogTypes, OwnershipInv
<1>1. CASE LogTerminal(t)
  <2>1. PICK v : v = call[t].verdict
    OBVIOUS
  <2>2. /\ call[t].at = "terminal" /\ Log(t, "CYCLE_TERMINAL", v) /\ GoTo(t, "close")
        /\ UNCHANGED cycles
    BY <1>1, <2>1 DEF LogTerminal, Running
  <2>3. v # "SKIPPED" /\ cycles'[me] = "claimed"
    BY <1>0, <2>1, <2>2 DEF CallTells, Dispositions, Entered, NotEntered, Owning
  <2>4. PICK way \in Lifecycles : Count(me) = Len(way) - 1 /\ Follows(me, way)
    BY <1>0, <2>2 DEF CallStory
  <2>5. ClosedAs(me, v)' /\ Follows(me, way)'
    BY <1>0, <2>2, <2>3, <2>4, SayLast
  <2>6. call'[t].at = "close" /\ call'[t].snapshot = me /\ call'[t].verdict = v
    BY <1>0, <2>1, <2>2, LeadsTo
  <2>7. CallStory(t)'
    BY <2>5, <2>6 DEF CallStory, BeforeOrder, AfterOrder
  <2> QED BY <2>3, <2>5, <2>7, WorkedOn
<1>2. CASE SetTerminal(t)
  <2>1. PICK v : v = call[t].verdict
    OBVIOUS
  <2>2. /\ call[t].at = "close" /\ End(t, "done") /\ UNCHANGED ledger
        /\ cycles' = [cycles EXCEPT ![me] = v]
    BY <1>2, <2>1 DEF SetTerminal, Running
  <2>3. v \in Dispositions /\ cycles'[me] = v
    BY <1>0, <2>1, <2>2 DEF CallTells, CallTyped
  <2>4. ClosedAs(me, v)' /\ \E way \in Lifecycles : Follows(me, way)'
    BY <1>0, <2>1, <2>2, Silent DEF CallStory
  <2>5. v # "unclaimed"
    BY <2>3 DEF Dispositions, Entered, NotEntered
  <2>6. CycleStory(me)'
    BY <2>3, <2>4, <2>5 DEF CycleStory, IsTerminal
  <2>7. call'[t].at = "done"
    BY <1>0, <2>2, LeadsTo
  <2> QED BY <2>6, <2>7, EndedTells
<1> QED BY <1>1, <1>2

(* The steps that neither say nor settle anything. *)
LEMMA CycleStays ==
  ASSUME RuntimeInv, StoryInv, NEW me \in Snapshots, Unsaid(me), cycles'[me] = cycles[me]
  PROVE  CycleStory(me)'
<1>1. /\ \A way : Follows(me, way)' <=> Follows(me, way)
      /\ \A d : ClosedAs(me, d)' <=> ClosedAs(me, d)
      /\ Own(me)' = Own(me)
  BY UnsaidKeeps DEF Unsaid
<1> QED BY <1>1 DEF StoryInv, CycleStory, IsTerminal

LEMMA QuietStory ==
  ASSUME RuntimeInv, StoryInv, NEW t \in Calls, NEW me \in Snapshots, call[t].snapshot = me,
         PlaceOrder(t) \/ Protect(t) \/ OrderRaises(t) \/ LedgerFails(t) \/ SkipDuplicate(t)
  PROVE  CallStory(t)' /\ CycleStory(me)'
<1>0. CallTyped /\ CallStory(t) /\ ledger \in [Snapshots -> Seq(Events)]
  BY DEF RuntimeInv, StoryInv, LogTypes
<1>1. UNCHANGED cycles /\ (UNCHANGED ledger \/ Log(t, "CYCLE_TERMINAL", "SKIPPED"))
  BY DEF PlaceOrder, Protect, OrderRaises, LedgerFails, SkipDuplicate
<1>2. Unsaid(me)
  BY <1>0, <1>1, UnsaidWhen
<1>3. CycleStory(me)'
  BY <1>1, <1>2, CycleStays
<1>4. ASSUME NEW at \in {"order", "protect"}, call[t].at = at,
             NEW next \in {"intent", "protected"}, call'[t].at = next, call'[t].snapshot = me,
             Said(next) = Said(at)
      PROVE  CallStory(t)'
  <2>1. Count(me) = Said(at) /\ \A way \in EnteredWays : Follows(me, way)
    BY <1>0, <1>4, AheadIs DEF CallStory, BeforeOrder, AfterOrder
  <2>2. Count(me)' = Said(next) /\ \A way \in Ahead(next) : Follows(me, way)'
    BY <1>2, <1>4, <2>1, UnsaidKeeps, AheadIs
  <2> QED BY <1>4, <2>2, GoesOn DEF AfterOrder
<1>5. CASE PlaceOrder(t)
  <2>1. call[t].at = "order" /\ GoTo(t, "intent")
    BY <1>5 DEF PlaceOrder, Running
  <2>2. call'[t].at = "intent" /\ call'[t].snapshot = me
    BY <1>0, <2>1, LeadsTo
  <2> QED BY <1>3, <1>4, <2>1, <2>2, SaidIs
<1>6. ASSUME End(t, "raised") \/ End(t, "done") PROVE CallStory(t)'
  BY <1>0, <1>6, LeadsTo, EndedTells
<1>7. CASE Protect(t) /\ ~End(t, "raised")
  <2>1. /\ call[t].at = "protect"
        /\ \E v : Becomes(t, [call[t] EXCEPT !.at = "protected", !.verdict = v])
    BY <1>7 DEF Protect, Running
  <2>2. call'[t].at = "protected" /\ call'[t].snapshot = me
    <3>1. PICK v : Becomes(t, [call[t] EXCEPT !.at = "protected", !.verdict = v])
      BY <2>1
    <3> QED BY <1>0, <3>1 DEF CallTyped, CallStates, Becomes
  <2> QED BY <1>3, <1>4, <2>1, <2>2, SaidIs
<1>8. OrderRaises(t) \/ LedgerFails(t) \/ SkipDuplicate(t) => End(t, "raised") \/ End(t, "done")
  BY DEF OrderRaises, LedgerFails, SkipDuplicate
<1> QED BY <1>3, <1>5, <1>6, <1>7, <1>8

LEMMA AdvanceStory ==
  ASSUME RuntimeInv, StoryInv, NEW t \in Calls, Advance(t)
  PROVE  StoryInv'
<1>0. CallTyped /\ CallTells(t) /\ ledger \in [Snapshots -> Seq(Events)]
  BY DEF RuntimeInv, OwnershipInv, LogTypes
<1>1. call[t].at \in Going
  <2> HIDE DEF Becomes
  <2> QED BY Advance(t) DEF Advance, Claim, SkipDuplicate, Observe, BuildContext, Decide, OrderRaises,
       PlaceOrder, LogIntent, LogSubmitted, LogFill, Protect, LogProtection, LogReconciled,
       LogStep, LogTerminal, SetTerminal, LedgerFails, Running, Writing, Going, Owning,
       BeforeOrder, AfterOrder
<1>2. PICK me \in Snapshots : call[t].snapshot = me
  BY <1>0, <1>1 DEF CallTells
<1>3. CallStory(t)' /\ CycleStory(me)'
  BY <1>2, Advance(t), ClaimStory, BeforeStory, EnteredStory, ProtectedStory, ClosingStory,
     QuietStory DEF Advance
<1>4. ASSUME NEW s \in Snapshots PROVE Unsaid(s) \/ (s = me /\ call[t].at \in Owning)
  <2>1. CASE ledger'[s] = ledger[s]
    BY <1>0, <2>1, UnsaidWhen
  <2>2. CASE Log(t, "CYCLE_TERMINAL", "SKIPPED")
    BY <1>0, <2>2, UnsaidWhen
  <2>3. CASE s # me /\ \E type, d : Log(t, type, d)
    BY <1>0, <1>2, <2>3, UnsaidWhen
  <2> QED BY <2>1, <2>2, <2>3, AdvanceShape
<1>5. \A s \in Snapshots \ {me} : cycles'[s] = cycles[s]
  BY <1>0, <1>2, AdvanceShape DEF CallTyped, Claim
<1>6. \A u \in Calls \ {t} : call'[u] = call[u]
  BY <1>0, AdvanceAlone
<1> QED BY <1>1, <1>2, <1>3, <1>4, <1>5, <1>6, OneTells

LEMMA OthersStory ==
  ASSUME RuntimeInv, StoryInv, [Next]_vars, \A t \in Calls : ~Advance(t)
  PROVE  StoryInv'
<1>1. UNCHANGED <<cycles, ledger>>
  BY OthersShape
<1>2. CallTyped /\ \A t \in Calls : CallTells(t)
  BY DEF RuntimeInv, OwnershipInv
<1>3. ASSUME NEW s \in Snapshots PROVE Unsaid(s) /\ CycleStory(s)'
  <2>1. Unsaid(s)
    BY <1>1, UnsaidWhen DEF RuntimeInv, LogTypes
  <2> QED BY <1>1, <2>1, CycleStays
<1>4. ASSUME NEW t \in Calls, call'[t].snapshot = call[t].snapshot,
             call'[t].at = call[t].at, call'[t].verdict = call[t].verdict
      PROVE  CallStory(t)'
  <2>1. CASE call[t].at \notin Owning
    <3>1. call'[t].at \notin Owning
      BY <1>4, <2>1
    <3> QED BY <3>1 DEF CallStory, Owning, AfterOrder
  <2>2. CASE call[t].at \in Owning
    <3>1. PICK s \in Snapshots : s = call[t].snapshot
      BY <1>2, <2>2 DEF CallTells, Going
    <3>2. /\ Count(s)' = Count(s)
          /\ \A way : Follows(s, way)' <=> Follows(s, way)
          /\ \A d : ClosedAs(s, d)' <=> ClosedAs(s, d)
      BY <1>3, UnsaidKeeps
    <3>3. CallStory(t) /\ call'[t].snapshot = s
      BY <1>4, <3>1 DEF StoryInv
    <3> QED BY <1>4, <3>1, <3>2, <3>3 DEF CallStory
  <2> QED BY <2>1, <2>2
<1>5. ASSUME NEW t \in Calls, Answer(t) PROVE CallStory(t)'
  <2>1. PICK s \in Snapshots : s = call[t].snapshot
    BY <1>2, <1>5 DEF CallTells, Going, Owning, BeforeOrder, Answer, ProviderFails,
       ProviderUnparseable, ProviderDecides, Resume
  <2>2. call[t].at = "provider"
    BY <1>5 DEF Answer, ProviderFails, ProviderUnparseable, ProviderDecides, Resume
  <2>3. Count(s)' = 2 /\ \A way \in Lifecycles : Len(way) >= 3 => Follows(s, way)'
    <3>1. Count(s) = Said("provider") /\ \A way \in Ahead("provider") : Follows(s, way)
      BY <2>1, <2>2 DEF StoryInv, CallStory, BeforeOrder
    <3>2. /\ Count(s)' = Count(s)
          /\ \A way : Follows(s, way)' <=> Follows(s, way)
      BY <1>3, UnsaidKeeps
    <3> QED BY <3>1, <3>2, SaidIs, AheadIs
  <2>4. ASSUME NEW v, Becomes(t, Concluded(t, v)) PROVE CallStory(t)'
    <3>1. call'[t].at = "terminal" /\ call'[t].snapshot = s
      BY <1>2, <2>1, <2>4 DEF Concluded, CallTyped, CallStates, Becomes
    <3>2. AskedWay \in Lifecycles /\ Len(AskedWay) = 3
      BY WaysBegin
    <3>3. Count(s)' = Len(AskedWay) - 1 /\ Len(AskedWay) >= 3
      <4>1. \A n : n = 3 => n >= 3 /\ n - 1 = 2
        OBVIOUS
      <4> QED BY <2>3, <3>2, <4>1
    <3> QED BY <2>3, <3>1, <3>2, <3>3, GoesToTerminal
  <2>5. ASSUME Becomes(t, [call[t] EXCEPT !.at = "decision"]) PROVE CallStory(t)'
    <3>1. call'[t].at = "decision" /\ call'[t].snapshot = s
      BY <1>2, <2>1, <2>5 DEF CallTyped, CallStates, Becomes
    <3>2. Count(s)' = Said("decision") /\ \A way \in Ahead("decision") : Follows(s, way)'
      BY <2>3, SaidIs, AheadIs
    <3> QED BY <3>1, <3>2, GoesOn DEF BeforeOrder
  <2>6. (\E v : Becomes(t, Concluded(t, v))) \/ Becomes(t, [call[t] EXCEPT !.at = "decision"])
    BY <1>5, Zenon DEF Answer, ProviderFails, ProviderUnparseable, ProviderDecides
  <2> QED BY <2>4, <2>5, <2>6
<1>6. ASSUME NEW t \in Calls, Cancelled(t) PROVE CallStory(t)'
  BY <1>2, <1>6, LeadsTo, EndedTells DEF Cancelled
<1>7. ASSUME NEW t \in Calls, Begin(t) PROVE CallStory(t)'
  <2>1. ASSUME NEW s, NEW stale, Admit(t, s, stale) PROVE call'[t].at = "claim"
    <3>1. call'[t] = Admitted(s, stale)
      BY <1>2, <2>1 DEF Admit, Becomes, CallTyped
    <3>2. Admitted(s, stale).at = "claim"
      BY DEF Admitted, NewCall
    <3> QED BY <3>1, <3>2
  <2>2. (\E how \in {"done", "raised"} : End(t, how)) \/ \E s, stale : Admit(t, s, stale)
    BY <1>7, Zenon DEF Begin
  <2> QED BY <1>2, <2>1, <2>2, LeadsTo, EndedTells
<1>8. ASSUME NEW t \in Calls,
             \/ \E u \in Calls : u # t /\ (Answer(u) \/ Cancelled(u) \/ Begin(u))
             \/ (\E y \in Symbols : LevelsTrigger(y)) \/ BreakersMove \/ UNCHANGED vars
      PROVE  CallStory(t)'
  <2>1. ASSUME NEW u \in Calls, u # t, NEW c, Becomes(u, c) PROVE call'[t] = call[t]
    BY <1>2, <2>1 DEF CallTyped, Becomes
  <2>2. ASSUME NEW u \in Calls, Answer(u) \/ Cancelled(u) \/ Begin(u) PROVE \E c : Becomes(u, c)
    <3> HIDE DEF Becomes
    <3> QED BY <2>2, Zenon DEF Answer, ProviderFails, ProviderUnparseable, ProviderDecides,
         Cancelled, Begin, End, Admit
  <2>3. (\E y \in Symbols : LevelsTrigger(y)) \/ BreakersMove \/ UNCHANGED vars => UNCHANGED call
    BY DEF LevelsTrigger, BreakersMove, vars
  <2>4. call'[t] = call[t]
    BY <1>8, <2>1, <2>2, <2>3
  <2> QED BY <1>4, <2>4
<1>9. ASSUME NEW t \in Calls, Crash PROVE CallStory(t)'
  <2>1. call'[t] = IF t \in InFlight THEN EndedCall(t, "lost") ELSE call[t]
    BY <1>9 DEF Crash
  <2>2. EndedCall(t, "lost").at = "lost"
    BY DEF EndedCall, NewCall
  <2> QED BY <1>4, <2>1, <2>2, EndedTells
<1>10. \A t \in Calls : CallStory(t)'
  BY <1>4, <1>5, <1>6, <1>7, <1>8, <1>9 DEF Next
<1> QED BY <1>3, <1>10 DEF StoryInv

(* What is on record of a cycle is what happened to it, over any             *)
(* interleaving of calls, failing writes and crashes.                        *)
THEOREM LedgerTellsTruth == Spec => []LedgerIsTrue
<1>1. Init => StoryInv
  <2> SUFFICES ASSUME Init PROVE StoryInv
    OBVIOUS
  <2>1. ASSUME NEW t \in Calls PROVE CallStory(t)
    <3>1. call[t].at = "idle"
      BY DEF Init, NewCall
    <3> QED BY <3>1 DEF CallStory, BeforeOrder, AfterOrder
  <2>2. ASSUME NEW s \in Snapshots PROVE CycleStory(s)
    <3>1. Own(s) = {} /\ cycles[s] = "unclaimed"
      BY DEF Init, Own
    <3>2. \A way : Follows(s, way)
      BY <3>1 DEF Follows
    <3> QED BY <3>1, <3>2, WaysBegin DEF CycleStory, IsTerminal, Dispositions, Entered, NotEntered
  <2> QED BY <2>1, <2>2 DEF StoryInv
<1>2. RuntimeInv /\ StoryInv /\ [Next]_vars => StoryInv'
  BY AdvanceStory, OthersStory
<1>3. RuntimeInv /\ StoryInv => DispositionIsTrue /\ LifecycleIsKept
  BY DEF RuntimeInv, OwnershipInv, CycleTells, StoryInv, CycleStory, DispositionIsTrue,
     LifecycleIsKept, IsTerminal
<1>4. DispositionIsTrue /\ LifecycleIsKept /\ LedgerFollowsExchange => LedgerIsTrue
  BY DEF LedgerIsTrue
<1> QED BY <1>1, <1>2, <1>3, <1>4, RuntimeInvInvariant, LedgerFollows, PTL DEF Spec

=============================================================================

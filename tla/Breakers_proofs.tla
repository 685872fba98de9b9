---------------------------- MODULE Breakers_proofs ----------------------------
(* Theorems of Breakers for any breakers, any of the two monitors attached,  *)
(* any gap, with an operator or without, over a store whose saves work.      *)
EXTENDS Breakers, TLAPS

State ==
  [registry : [BreakerNames -> Trippers], stored : [BreakerNames -> Trippers],
   raised : [Monitors -> BOOLEAN], beatAge : {ColdStart} \union 0..(MaxGap + 1),
   failed : BOOLEAN]

(* A state that a call of the runtime may begin or end with: nothing in      *)
(* memory is missing from the file.                                          *)
Sound(m) == m \in State /\ m.failed = FALSE /\ m.stored = m.registry

(* No breaker that a monitor tripped becomes one no monitor knows for its    *)
(* own, and an operator's trip of a breaker no monitor has raised stays.     *)
NoneDisowned(m, k) ==
  \A n \in BreakerNames :
    k.registry[n] = "monitor" /\ ~(n \in Monitors /\ k.raised[n])
      => m.registry[n] = "monitor" /\ ~(n \in Monitors /\ m.raised[n])

OperatorKept(m, k) ==
  \A n \in BreakerNames :
    m.registry[n] = "operator" /\ (n \in Monitors => ~m.raised[n])
      => k.registry[n] = "operator" /\ (n \in Monitors => ~k.raised[n])

Fine(m, k) == Sound(k) /\ NoneDisowned(m, k) /\ OperatorKept(m, k)

LEMMA FineChains ==
  ASSUME NEW m, NEW k, NEW l, Fine(m, k), Fine(k, l)
  PROVE  Fine(m, l)
BY DEF Fine, NoneDisowned, OperatorKept

LEMMA StaysFine == ASSUME NEW m, Sound(m) PROVE Fine(m, m)
BY DEF Fine, NoneDisowned, OperatorKept

-----------------------------------------------------------------------------
(* A monitor trips its breaker while it is closed, or takes back what it     *)
(* knows for its own.                                                        *)
Changed(m, r, o) == [m EXCEPT !.registry = r, !.stored = r, !.raised = o]

LEMMA ChangeIsSound ==
  ASSUME NEW m, Sound(m)
  PROVE  \A r \in [BreakerNames -> Trippers], o \in [Monitors -> BOOLEAN] :
           /\ Sound(Changed(m, r, o))
           /\ Changed(m, r, o).registry = r
           /\ Changed(m, r, o).raised = o
<1> TAKE r \in [BreakerNames -> Trippers], o \in [Monitors -> BOOLEAN]
<1> DEFINE k == Changed(m, r, o)
<1>1. m \in State /\ m.failed = FALSE
  BY DEF Sound
<1>2. /\ k.registry = r /\ k.stored = r /\ k.raised = o /\ k.failed = m.failed
      /\ k \in State
  BY <1>1 DEF State, Changed
<1> QED BY <1>1, <1>2 DEF Sound

LEMMA TripIsFine ==
  ASSUME BreakersAssumption, NEW m, Sound(m), NEW n \in Monitors, m.registry[n] = "closed",
         NEW k, k = SetRaised(Trip(m, n, "monitor", TRUE), n, TRUE)
  PROVE  /\ Fine(m, k)
         /\ k.registry = [m.registry EXCEPT ![n] = "monitor"]
         /\ k.raised = [m.raised EXCEPT ![n] = TRUE]
<1> DEFINE r == [m.registry EXCEPT ![n] = "monitor"]
           o == [m.raised EXCEPT ![n] = TRUE]
<1>1. /\ m \in State
      /\ m.registry \in [BreakerNames -> Trippers]
      /\ m.raised \in [Monitors -> BOOLEAN]
      /\ m.failed = FALSE /\ m.stored = m.registry
  BY DEF Sound, State
<1>2. k = Changed(m, r, o)
  BY <1>1 DEF Changed, SetRaised, Trip, Saved, State
<1>3. r \in [BreakerNames -> Trippers] /\ o \in [Monitors -> BOOLEAN]
  BY <1>1 DEF Trippers
<1>4. Sound(k) /\ k.registry = r /\ k.raised = o
  <2> HIDE DEF r, o
  <2>1. \A p \in [BreakerNames -> Trippers], q \in [Monitors -> BOOLEAN] :
          /\ Sound(Changed(m, p, q))
          /\ Changed(m, p, q).registry = p
          /\ Changed(m, p, q).raised = q
    BY ChangeIsSound
  <2>2. Sound(Changed(m, r, o)) /\ Changed(m, r, o).registry = r /\ Changed(m, r, o).raised = o
    BY <1>3, <2>1
  <2> QED BY <1>2, <2>2
<1>5. NoneDisowned(m, k)
  BY <1>1, <1>4 DEF NoneDisowned
<1>6. OperatorKept(m, k)
  BY <1>1, <1>4 DEF OperatorKept
<1> QED BY <1>4, <1>5, <1>6 DEF Fine

LEMMA ClearIsFine ==
  ASSUME BreakersAssumption, NEW m, Sound(m), NEW n \in Monitors, m.raised[n],
         NEW k, k = SetRaised(Clear(m, n, TRUE), n, FALSE)
  PROVE  /\ Fine(m, k)
         /\ k.registry = [m.registry EXCEPT ![n] = "closed"]
         /\ k.raised = [m.raised EXCEPT ![n] = FALSE]
<1> DEFINE r == [m.registry EXCEPT ![n] = "closed"]
           o == [m.raised EXCEPT ![n] = FALSE]
<1>1. /\ m \in State
      /\ m.registry \in [BreakerNames -> Trippers]
      /\ m.raised \in [Monitors -> BOOLEAN]
      /\ m.failed = FALSE /\ m.stored = m.registry
  BY DEF Sound, State
<1>2. k = Changed(m, r, o)
  BY <1>1 DEF Changed, SetRaised, Clear, Saved, State
<1>3. r \in [BreakerNames -> Trippers] /\ o \in [Monitors -> BOOLEAN]
  BY <1>1 DEF Trippers
<1>4. Sound(k) /\ k.registry = r /\ k.raised = o
  <2> HIDE DEF r, o
  <2>1. \A p \in [BreakerNames -> Trippers], q \in [Monitors -> BOOLEAN] :
          /\ Sound(Changed(m, p, q))
          /\ Changed(m, p, q).registry = p
          /\ Changed(m, p, q).raised = q
    BY ChangeIsSound
  <2>2. Sound(Changed(m, r, o)) /\ Changed(m, r, o).registry = r /\ Changed(m, r, o).raised = o
    BY <1>3, <2>1
  <2> QED BY <1>2, <2>2
<1>5. NoneDisowned(m, k)
  BY <1>1, <1>4 DEF NoneDisowned
<1>6. OperatorKept(m, k)
  BY <1>1, <1>4 DEF OperatorKept
<1> QED BY <1>4, <1>5, <1>6 DEF Fine

(* A breaker somebody else closed is no longer the monitor's. *)
LEMMA ForgetIsFine ==
  ASSUME BreakersAssumption, NEW m, Sound(m), NEW n \in Monitors, m.registry[n] = "closed",
         NEW k, k = SetRaised(m, n, FALSE)
  PROVE  /\ Fine(m, k)
         /\ k.registry = m.registry
         /\ k.raised = [m.raised EXCEPT ![n] = FALSE]
<1> DEFINE r == m.registry
           o == [m.raised EXCEPT ![n] = FALSE]
<1>1. /\ m \in State
      /\ m.registry \in [BreakerNames -> Trippers]
      /\ m.raised \in [Monitors -> BOOLEAN]
      /\ m.failed = FALSE /\ m.stored = m.registry
  BY DEF Sound, State
<1>2. k = Changed(m, r, o)
  BY <1>1 DEF Changed, SetRaised, State
<1>3. r \in [BreakerNames -> Trippers] /\ o \in [Monitors -> BOOLEAN]
  BY <1>1 DEF Trippers
<1>4. Sound(k) /\ k.registry = r /\ k.raised = o
  <2> HIDE DEF r, o
  <2>1. \A p \in [BreakerNames -> Trippers], q \in [Monitors -> BOOLEAN] :
          /\ Sound(Changed(m, p, q))
          /\ Changed(m, p, q).registry = p
          /\ Changed(m, p, q).raised = q
    BY ChangeIsSound
  <2>2. Sound(Changed(m, r, o)) /\ Changed(m, r, o).registry = r /\ Changed(m, r, o).raised = o
    BY <1>3, <2>1
  <2> QED BY <1>2, <2>2
<1>5. NoneDisowned(m, k)
  BY <1>1, <1>4 DEF NoneDisowned
<1>6. OperatorKept(m, k)
  BY <1>1, <1>4 DEF OperatorKept
<1> QED BY <1>4, <1>5, <1>6 DEF Fine

LEMMA ObserveIsFine ==
  ASSUME BreakersAssumption, NEW m, Sound(m), NEW n \in Monitors, NEW status
  PROVE  Fine(m, Observe(m, n, status, TRUE))
<1>1. CASE status = "BAD" /\ m.registry[n] = "closed"
  BY <1>1, TripIsFine DEF Observe
<1>2. CASE status = "HEALTHY" /\ m.raised[n] /\ m.registry[n] # "closed"
  BY <1>2, ClearIsFine DEF Observe
<1>3. CASE status = "HEALTHY" /\ m.raised[n] /\ m.registry[n] = "closed"
  BY <1>3, ForgetIsFine DEF Observe
<1>4. CASE ~(status = "BAD" /\ m.registry[n] = "closed") /\ ~(status = "HEALTHY" /\ m.raised[n])
  BY <1>4, StaysFine DEF Observe
<1> QED BY <1>1, <1>2, <1>3, <1>4

LEMMA BeatIsFine ==
  ASSUME BreakersAssumption, NEW m, Sound(m)
  PROVE  Fine(m, Beat(m, TRUE))
<1> DEFINE b == [m EXCEPT !.beatAge = 0]
<1>1. Sound(b) /\ b.registry = m.registry /\ b.raised = m.raised
  BY DEF Sound, State, BreakersAssumption
<1>2. Fine(m, b)
  BY <1>1 DEF Fine, NoneDisowned, OperatorKept
<1>3. CASE m.raised["heartbeat"] /\ m.registry["heartbeat"] # "closed"
  <2>1. Fine(b, SetRaised(Clear(b, "heartbeat", TRUE), "heartbeat", FALSE))
    BY <1>1, <1>3, ClearIsFine DEF Monitors
  <2> QED BY <1>2, <1>3, <2>1, FineChains DEF Beat
<1>4. CASE ~(m.raised["heartbeat"] /\ m.registry["heartbeat"] # "closed")
  BY <1>2, <1>4 DEF Beat
<1> QED BY <1>3, <1>4

LEMMA EvaluateIsFine ==
  ASSUME BreakersAssumption, NEW m, Sound(m)
  PROVE  Fine(m, EvaluateMonitors(m, {}))
<1> DEFINE h == HeartbeatTick(m, TRUE)
<1>1. Fine(m, h)
  BY ObserveIsFine, StaysFine DEF HeartbeatTick, Monitors
<1>2. Sound(h)
  BY <1>1 DEF Fine
<1> HIDE DEF h
<1>3. Fine(h, ResourceTick(h, TRUE))
  BY <1>2, ObserveIsFine, StaysFine DEF ResourceTick, Monitors
<1>4. EvaluateMonitors(m, {}) = ResourceTick(h, TRUE)
  BY DEF EvaluateMonitors, h
<1> QED BY <1>1, <1>3, <1>4, FineChains

-----------------------------------------------------------------------------
(* A monitor's tick changes what is its own, leaves its breaker open on a    *)
(* bad status, and on a good one leaves of its trips those it does not know. *)
Ticked(m, k, n, status) ==
  /\ \A p \in Monitors : p # n => k.registry[p] = m.registry[p] /\ k.raised[p] = m.raised[p]
  /\ status = "BAD" => k.registry[n] # "closed"
  /\ status = "HEALTHY" /\ k.registry[n] = "monitor" => m.registry[n] = "monitor" /\ ~m.raised[n]

LEMMA ObserveTells ==
  ASSUME BreakersAssumption, NEW m, Sound(m), NEW n \in Monitors, NEW status
  PROVE  Ticked(m, Observe(m, n, status, TRUE), n, status)
<1> USE DEF Ticked
<1> DEFINE k == Observe(m, n, status, TRUE)
<1>1. /\ m.registry \in [BreakerNames -> Trippers] /\ m.raised \in [Monitors -> BOOLEAN]
      /\ Monitors \subseteq BreakerNames
  BY DEF Sound, State, BreakersAssumption
<1>2. CASE status = "BAD" /\ m.registry[n] = "closed"
  <2>1. /\ k.registry = [m.registry EXCEPT ![n] = "monitor"]
        /\ k.raised = [m.raised EXCEPT ![n] = TRUE]
    BY <1>2, TripIsFine DEF Observe
  <2> QED BY <1>1, <1>2, <2>1
<1>3. CASE status = "HEALTHY" /\ m.raised[n] /\ m.registry[n] # "closed"
  <2>1. /\ k.registry = [m.registry EXCEPT ![n] = "closed"]
        /\ k.raised = [m.raised EXCEPT ![n] = FALSE]
    BY <1>3, ClearIsFine DEF Observe
  <2> QED BY <1>1, <1>3, <2>1
<1>4. CASE status = "HEALTHY" /\ m.raised[n] /\ m.registry[n] = "closed"
  <2>1. k = SetRaised(m, n, FALSE)
    BY <1>4 DEF Observe
  <2>2. k.registry = m.registry /\ k.raised = [m.raised EXCEPT ![n] = FALSE]
    <3> HIDE DEF k
    <3> QED BY <1>4, <2>1, ForgetIsFine
  <2> QED BY <1>1, <1>4, <2>2
<1>5. CASE ~(status = "BAD" /\ m.registry[n] = "closed") /\ ~(status = "HEALTHY" /\ m.raised[n])
  BY <1>5 DEF Observe
<1> QED BY <1>2, <1>3, <1>4, <1>5

(* A flag is raised of an attached monitor only. *)
FlagsAreAttached == \A n \in Monitors : raised[n] => n \in Attached

LEMMA TicksTell ==
  ASSUME BreakersAssumption, NEW m, Sound(m), NEW k, k = EvaluateMonitors(m, {})
  PROVE  /\ \A n \in Monitors \ Attached : k.registry[n] = m.registry[n] /\ k.raised[n] = m.raised[n]
         /\ "heartbeat" \in Attached /\ HeartbeatStatus(m) = "BAD" => k.registry["heartbeat"] # "closed"
         /\ "heartbeat" \in Attached /\ HeartbeatStatus(m) = "HEALTHY"
              /\ k.registry["heartbeat"] = "monitor" =>
              m.registry["heartbeat"] = "monitor" /\ ~m.raised["heartbeat"]
         /\ "resource" \in Attached /\ host # "ok" => k.registry["resource"] # "closed"
         /\ "resource" \in Attached /\ host = "ok" /\ k.registry["resource"] = "monitor" =>
              m.registry["resource"] = "monitor" /\ ~m.raised["resource"]
<1> DEFINE h == HeartbeatTick(m, TRUE)
<1>0. "heartbeat" \in Monitors /\ "resource" \in Monitors
  BY DEF Monitors
<1>1. /\ h.registry["resource"] = m.registry["resource"] /\ h.raised["resource"] = m.raised["resource"]
      /\ "heartbeat" \notin Attached =>
           h.registry["heartbeat"] = m.registry["heartbeat"] /\ h.raised["heartbeat"] = m.raised["heartbeat"]
      /\ "heartbeat" \in Attached /\ HeartbeatStatus(m) = "BAD" => h.registry["heartbeat"] # "closed"
      /\ "heartbeat" \in Attached /\ HeartbeatStatus(m) = "HEALTHY" /\ h.registry["heartbeat"] = "monitor" =>
           m.registry["heartbeat"] = "monitor" /\ ~m.raised["heartbeat"]
  <2>1. CASE "heartbeat" \in Attached
    <3>1. h = Observe(m, "heartbeat", HeartbeatStatus(m), TRUE)
      BY <2>1 DEF HeartbeatTick, Sound
    <3> HIDE DEF h
    <3>2. Ticked(m, h, "heartbeat", HeartbeatStatus(m))
      BY <1>0, <3>1, ObserveTells
    <3> QED BY <1>0, <2>1, <3>2 DEF Ticked
  <2>2. CASE "heartbeat" \notin Attached
    BY <2>2 DEF HeartbeatTick
  <2> QED BY <2>1, <2>2
<1>2. Fine(m, h)
  BY ObserveIsFine, StaysFine DEF HeartbeatTick, Monitors
<1>3. Sound(h)
  BY <1>2 DEF Fine
<1>4. k = ResourceTick(h, TRUE)
  BY DEF EvaluateMonitors
<1> HIDE DEF h
<1>5. /\ k.registry["heartbeat"] = h.registry["heartbeat"] /\ k.raised["heartbeat"] = h.raised["heartbeat"]
      /\ "resource" \notin Attached =>
           k.registry["resource"] = h.registry["resource"] /\ k.raised["resource"] = h.raised["resource"]
      /\ "resource" \in Attached /\ host # "ok" => k.registry["resource"] # "closed"
      /\ "resource" \in Attached /\ host = "ok" /\ k.registry["resource"] = "monitor" =>
           h.registry["resource"] = "monitor" /\ ~h.raised["resource"]
  <2>1. CASE "resource" \in Attached
    <3>1. k = Observe(h, "resource", ResourceStatus, TRUE)
      BY <1>3, <1>4, <2>1 DEF ResourceTick, Sound
    <3>2. ResourceStatus = IF host = "ok" THEN "HEALTHY" ELSE "BAD"
      BY DEF ResourceStatus
    <3>3. Ticked(h, k, "resource", ResourceStatus)
      BY <1>0, <1>3, <3>1, ObserveTells
    <3> QED BY <1>0, <2>1, <3>2, <3>3 DEF Ticked
  <2>2. CASE "resource" \notin Attached
    BY <1>4, <2>2 DEF ResourceTick
  <2> QED BY <2>1, <2>2
<1> QED BY <1>1, <1>5 DEF Monitors

-----------------------------------------------------------------------------
LEMMA NowIsSound ==
  ASSUME TypeOK, NothingToLose
  PROVE  /\ Sound(Now)
         /\ Now.registry = registry /\ Now.stored = stored /\ Now.raised = raised
         /\ Now.beatAge = beatAge
BY DEF Sound, State, Now, TypeOK, NothingToLose

(* What becoming a state means for the variables. *)
LEMMA BecomeFine ==
  ASSUME TypeOK, NothingToLose, NEW k, Fine(Now, k), Become(k)
  PROVE  /\ TypeOK' /\ NothingToLose'
         /\ MonitorOwnsItsTrips /\ UnraisedOperatorTripStays
<1>1. /\ k \in State /\ k.stored = k.registry
      /\ NoneDisowned(Now, k) /\ OperatorKept(Now, k)
  BY DEF Fine, Sound
<1>2. /\ registry' = k.registry /\ stored' = k.stored /\ raised' = k.raised
      /\ beatAge' = k.beatAge /\ host' = host
  BY DEF Become
<1>3. /\ k.registry \in [BreakerNames -> Trippers] /\ k.stored \in [BreakerNames -> Trippers]
      /\ k.raised \in [Monitors -> BOOLEAN]
      /\ k.beatAge \in {ColdStart} \union 0..(MaxGap + 1)
  BY <1>1 DEF State
<1>4. TypeOK'
  BY <1>2, <1>3 DEF TypeOK
<1>5. NothingToLose'
  BY <1>1, <1>2 DEF NothingToLose
<1>6. MonitorOwnsItsTrips
  BY <1>1, <1>2, NowIsSound DEF NoneDisowned, MonitorOwnsItsTrips, Disowned
<1>7. UnraisedOperatorTripStays
  BY <1>1, <1>2, NowIsSound DEF OperatorKept, UnraisedOperatorTripStays
<1> QED BY <1>4, <1>5, <1>6, <1>7

LEMMA CycleIsFine ==
  ASSUME BreakersAssumption, NEW m, Sound(m)
  PROVE  Fine(m, EvaluateMonitors(Beat(m, TRUE), {}))
<1>1. Fine(m, Beat(m, TRUE))
  BY BeatIsFine
<1>2. Sound(Beat(m, TRUE))
  BY <1>1 DEF Fine
<1>3. Fine(Beat(m, TRUE), EvaluateMonitors(Beat(m, TRUE), {}))
  BY <1>2, EvaluateIsFine
<1> QED BY <1>1, <1>3, FineChains

LEMMA StepIsFine ==
  ASSUME BreakersAssumption, SavesMayFail = FALSE, TypeOK, NothingToLose, [Next]_vars
  PROVE  /\ TypeOK' /\ NothingToLose'
         /\ [MonitorOwnsItsTrips]_vars /\ [UnraisedOperatorTripStays]_vars
<1> USE DEF BreakersAssumption
<1>1. CASE CycleStarts
  <2>1. Become(StartOfCycle({}))
    BY <1>1 DEF CycleStarts, FailedSaves
  <2>2. Fine(Now, StartOfCycle({}))
    <3>1. CASE "heartbeat" \in Attached
      BY <3>1, NowIsSound, CycleIsFine DEF StartOfCycle
    <3>2. CASE "heartbeat" \notin Attached
      BY <3>2, NowIsSound, EvaluateIsFine DEF StartOfCycle
    <3> QED BY <3>1, <3>2
  <2> QED BY <2>1, <2>2, BecomeFine
<1>2. CASE TickMonitors
  <2>1. Become(EvaluateMonitors(Now, {}))
    BY <1>2 DEF TickMonitors, FailedSaves
  <2>2. Fine(Now, EvaluateMonitors(Now, {}))
    BY NowIsSound, EvaluateIsFine
  <2> QED BY <2>1, <2>2, BecomeFine
<1>3. ASSUME NEW n \in BreakerNames, OperatorTrip(n)
      PROVE  /\ TypeOK' /\ NothingToLose'
             /\ MonitorOwnsItsTrips /\ UnraisedOperatorTripStays
  <2>1. Become(Trip(Now, n, "operator", TRUE))
    BY <1>3 DEF OperatorTrip, SaveOutcomes
  <2>2. /\ registry' = [registry EXCEPT ![n] = "operator"]
        /\ stored' = [registry EXCEPT ![n] = "operator"]
        /\ UNCHANGED <<raised, beatAge, host>>
    BY <2>1 DEF Become, Trip, Saved, Now
  <2>3. TypeOK' /\ NothingToLose'
    BY <2>2 DEF TypeOK, NothingToLose, Trippers
  <2>4. MonitorOwnsItsTrips
    BY <2>2 DEF MonitorOwnsItsTrips, Disowned, TypeOK
  <2>5. UnraisedOperatorTripStays
    BY <2>2 DEF UnraisedOperatorTripStays, TypeOK
  <2> QED BY <2>3, <2>4, <2>5
<1>4. ASSUME NEW n \in BreakerNames, OperatorClear(n)
      PROVE  /\ TypeOK' /\ NothingToLose'
             /\ MonitorOwnsItsTrips /\ UnraisedOperatorTripStays
  <2>1. Become(Clear(Now, n, TRUE))
    BY <1>4 DEF OperatorClear, SaveOutcomes
  <2>2. /\ registry' = [registry EXCEPT ![n] = "closed"]
        /\ stored' = [registry EXCEPT ![n] = "closed"]
        /\ UNCHANGED <<raised, beatAge, host>>
    BY <2>1 DEF Become, Clear, Saved, Now
  <2>3. TypeOK' /\ NothingToLose'
    BY <2>2 DEF TypeOK, NothingToLose, Trippers
  <2>4. MonitorOwnsItsTrips
    BY <2>2 DEF MonitorOwnsItsTrips, Disowned, TypeOK
  <2>5. UnraisedOperatorTripStays
    BY <1>4, <2>2 DEF UnraisedOperatorTripStays, TypeOK
  <2> QED BY <2>3, <2>4, <2>5
<1>5. CASE ClockAdvances \/ HostChanges \/ UNCHANGED vars
  <2>1. UNCHANGED <<registry, stored, raised>>
    BY <1>5 DEF ClockAdvances, HostChanges, vars
  <2>2. NothingToLose' /\ MonitorOwnsItsTrips /\ UnraisedOperatorTripStays
    BY <2>1 DEF NothingToLose, MonitorOwnsItsTrips, Disowned, UnraisedOperatorTripStays
  <2>3. beatAge' \in {ColdStart} \union 0..(MaxGap + 1)
    BY <1>5 DEF ClockAdvances, HostChanges, vars, TypeOK
  <2>4. host' \in {"ok", "pressure", "unreadable"}
    BY <1>5 DEF ClockAdvances, HostChanges, vars, TypeOK
  <2> QED BY <2>1, <2>2, <2>3, <2>4 DEF TypeOK
<1>6. CASE Restart
  <2>1. TypeOK' /\ NothingToLose'
    BY <1>6 DEF Restart, TypeOK, NothingToLose
  <2>2. MonitorOwnsItsTrips
    BY <1>6 DEF MonitorOwnsItsTrips
  <2>3. UnraisedOperatorTripStays
    BY <1>6 DEF Restart, UnraisedOperatorTripStays, NothingToLose
  <2> QED BY <2>1, <2>2, <2>3
<1> QED BY <1>1, <1>2, <1>3, <1>4, <1>5, <1>6 DEF Next

LEMMA InitIsFine == BreakersAssumption /\ Init => TypeOK /\ NothingToLose
BY DEF BreakersAssumption, Init, TypeOK, NothingToLose, Trippers

(* What a call of the runtime evaluates has no flag of a monitor it has not. *)
LEMMA FlagsStep ==
  ASSUME BreakersAssumption, FlagsAreAttached, NEW m, Sound(m),
         \A n \in Monitors : m.raised[n] => raised[n], Become(EvaluateMonitors(m, {}))
  PROVE  FlagsAreAttached'
<1> DEFINE k == EvaluateMonitors(m, {})
<1>1. raised' = k.raised
  BY DEF Become
<1>2. \A n \in Monitors \ Attached : k.raised[n] = m.raised[n]
  BY TicksTell
<1> HIDE DEF k
<1> QED BY <1>1, <1>2 DEF FlagsAreAttached

(* With the flags where the monitors are, a tick parks what is bad, and a    *)
(* cycle takes back every trip its monitors know for theirs.                 *)
LEMMA TickFollows ==
  ASSUME BreakersAssumption, SavesMayFail = FALSE, TypeOK, NothingToLose, FlagsAreAttached,
         TickMonitors
  PROVE  FlagsAreAttached' /\ TickParksWhatIsBad
<1> DEFINE k == EvaluateMonitors(Now, {})
<1>1. Become(k)
  BY DEF TickMonitors, FailedSaves
<1>2. FlagsAreAttached'
  BY <1>1, NowIsSound, FlagsStep
<1>3. /\ "heartbeat" \in Attached /\ HeartbeatStatus(Now) = "BAD" => k.registry["heartbeat"] # "closed"
      /\ "resource" \in Attached /\ host # "ok" => k.registry["resource"] # "closed"
  BY NowIsSound, TicksTell
<1>4. registry' = k.registry
  BY <1>1 DEF Become
<1>5. "heartbeat" \in BreakerNames /\ "resource" \in BreakerNames
  BY DEF BreakersAssumption, Monitors
<1> HIDE DEF k
<1> QED BY <1>2, <1>3, <1>4, <1>5 DEF TickParksWhatIsBad, EntriesParked, IsOpen

LEMMA CycleFollows ==
  ASSUME BreakersAssumption, SavesMayFail = FALSE, TypeOK, NothingToLose, FlagsAreAttached,
         CycleStarts
  PROVE  FlagsAreAttached' /\ FreshBeatRecovers
<1> DEFINE m == IF "heartbeat" \in Attached THEN Beat(Now, TRUE) ELSE Now
           k == EvaluateMonitors(m, {})
<1>0. /\ Sound(Now) /\ Now.registry = registry /\ Now.raised = raised
      /\ raised \in [Monitors -> BOOLEAN] /\ registry \in [BreakerNames -> Trippers]
      /\ Monitors = {"heartbeat", "resource"} /\ Monitors \subseteq BreakerNames
  BY NowIsSound DEF Monitors, BreakersAssumption, TypeOK
<1>1. Become(k)
  BY DEF CycleStarts, FailedSaves, StartOfCycle
<1>2. /\ Sound(m) /\ \A n \in Monitors : m.raised[n] => raised[n]
      /\ m.registry["resource"] = registry["resource"] /\ m.raised["resource"] = raised["resource"]
      /\ "heartbeat" \in Attached =>
           /\ HeartbeatStatus(m) = "HEALTHY"
           /\ m.registry["heartbeat"] = "monitor" =>
                registry["heartbeat"] = "monitor" /\ ~raised["heartbeat"]
      /\ "heartbeat" \notin Attached => m = Now
  <2>1. CASE "heartbeat" \notin Attached
    BY <1>0, <2>1
  <2>2. CASE "heartbeat" \in Attached
    <3> DEFINE b == [Now EXCEPT !.beatAge = 0]
    <3>1. /\ Sound(b) /\ b.registry = registry /\ b.raised = raised /\ b.beatAge = 0
      BY <1>0 DEF Sound, State, BreakersAssumption
    <3>2. CASE raised["heartbeat"] /\ registry["heartbeat"] # "closed"
      <4>1. m = SetRaised(Clear(b, "heartbeat", TRUE), "heartbeat", FALSE)
        BY <1>0, <2>2, <3>2 DEF Beat
      <4> HIDE DEF m, b
      <4>2. /\ Fine(b, m)
            /\ m.registry = [b.registry EXCEPT !["heartbeat"] = "closed"]
            /\ m.raised = [b.raised EXCEPT !["heartbeat"] = FALSE]
        BY <1>0, <3>1, <3>2, <4>1, ClearIsFine
      <4>3. m.beatAge = 0
        BY <3>1, <4>1 DEF SetRaised, Clear, Saved, Sound, State
      <4>4. HeartbeatStatus(m) = "HEALTHY"
        BY <4>3 DEF HeartbeatStatus, BreakersAssumption
      <4> QED BY <1>0, <2>2, <3>1, <3>2, <4>2, <4>4 DEF Fine
    <3>3. CASE ~(raised["heartbeat"] /\ registry["heartbeat"] # "closed")
      <4>1. m = b
        BY <1>0, <2>2, <3>3 DEF Beat
      <4> HIDE DEF m, b
      <4>2. HeartbeatStatus(m) = "HEALTHY"
        BY <3>1, <4>1 DEF HeartbeatStatus, BreakersAssumption
      <4> QED BY <1>0, <2>2, <3>1, <3>3, <4>1, <4>2
    <3> QED BY <3>2, <3>3
  <2> QED BY <2>1, <2>2
<1> HIDE DEF m
<1>3. FlagsAreAttached'
  BY <1>1, <1>2, FlagsStep
<1>4. /\ \A n \in Monitors \ Attached : k.registry[n] = m.registry[n]
      /\ "heartbeat" \in Attached /\ HeartbeatStatus(m) = "HEALTHY"
           /\ k.registry["heartbeat"] = "monitor" =>
           m.registry["heartbeat"] = "monitor" /\ ~m.raised["heartbeat"]
      /\ "resource" \in Attached /\ host = "ok" /\ k.registry["resource"] = "monitor" =>
           m.registry["resource"] = "monitor" /\ ~m.raised["resource"]
  BY <1>2, TicksTell
<1>5. registry' = k.registry
  BY <1>1 DEF Become
<1> HIDE DEF k
<1>6. registry'["heartbeat"] = "monitor" => Disowned("heartbeat")
  BY <1>0, <1>2, <1>4, <1>5 DEF Disowned, FlagsAreAttached
<1>7. registry'["resource"] = "monitor" => Disowned("resource") \/ host # "ok"
  BY <1>0, <1>2, <1>4, <1>5 DEF Disowned, FlagsAreAttached
<1> QED BY <1>0, <1>3, <1>6, <1>7 DEF FreshBeatRecovers

LEMMA FollowStep ==
  ASSUME BreakersAssumption, SavesMayFail = FALSE, TypeOK, NothingToLose, FlagsAreAttached,
         [Next]_vars
  PROVE  FlagsAreAttached' /\ FreshBeatRecovers /\ TickParksWhatIsBad
<1>1. FreshBeatRecovers /\ (CycleStarts => FlagsAreAttached')
  BY CycleFollows DEF FreshBeatRecovers
<1>2. TickParksWhatIsBad /\ (TickMonitors => FlagsAreAttached')
  BY TickFollows DEF TickParksWhatIsBad
<1>3. ASSUME NEW n \in BreakerNames, OperatorTrip(n) \/ OperatorClear(n) PROVE FlagsAreAttached'
  <2>1. raised' = raised
    BY <1>3 DEF OperatorTrip, OperatorClear, SaveOutcomes, Become, Trip, Clear, Saved, Now
  <2> QED BY <2>1 DEF FlagsAreAttached
<1>4. CASE ClockAdvances \/ HostChanges \/ UNCHANGED vars
  BY <1>1, <1>2, <1>4 DEF ClockAdvances, HostChanges, vars, FlagsAreAttached
<1>5. CASE Restart
  BY <1>1, <1>2, <1>5 DEF Restart, FlagsAreAttached
<1> QED BY <1>1, <1>2, <1>3, <1>4, <1>5 DEF Next

-----------------------------------------------------------------------------
(* While saves work, memory has no trip that the file has not, so a restart  *)
(* forgets none, whoever made it.                                            *)
THEOREM NothingIsLost ==
  ASSUME BreakersAssumption, SavesMayFail = FALSE
  PROVE  Spec => [](TypeOK /\ NothingToLose)
BY InitIsFine, StepIsFine, PTL DEF Spec

(* While saves work, only a restart makes a trip of a monitor one that no    *)
(* monitor takes back, in any calls, ticks and operator's acts between.      *)
THEOREM MonitorsOwnTheirTrips ==
  ASSUME BreakersAssumption, SavesMayFail = FALSE
  PROVE  Spec => [][MonitorOwnsItsTrips]_vars
BY InitIsFine, StepIsFine, PTL DEF Spec

(* An operator's trip of a breaker that no monitor had raised is taken back  *)
(* by an operator only, over restarts too.                                   *)
THEOREM OperatorsTripStays ==
  ASSUME BreakersAssumption, SavesMayFail = FALSE
  PROVE  Spec => [][UnraisedOperatorTripStays]_vars
BY InitIsFine, StepIsFine, PTL DEF Spec

(* A flag is up only for a monitor that was attached.                        *)
THEOREM FlagsStayAttached ==
  ASSUME BreakersAssumption, SavesMayFail = FALSE
  PROVE  Spec => [](TypeOK /\ NothingToLose /\ FlagsAreAttached)
<1>1. Init => TypeOK /\ NothingToLose /\ FlagsAreAttached
  BY InitIsFine DEF Init, FlagsAreAttached
<1>2. TypeOK /\ NothingToLose /\ FlagsAreAttached /\ [Next]_vars =>
        (TypeOK /\ NothingToLose /\ FlagsAreAttached)'
  BY StepIsFine, FollowStep
<1> QED BY <1>1, <1>2, PTL DEF Spec

(* A tick parks entries under a stalled heartbeat or an unwell host, and a   *)
(* cycle takes back the trips its monitors know for theirs, whatever others  *)
(* tripped, cleared or restarted in between.                                 *)
THEOREM MonitorsFollow ==
  ASSUME BreakersAssumption, SavesMayFail = FALSE
  PROVE  Spec => [][FreshBeatRecovers /\ TickParksWhatIsBad]_vars
<1>1. TypeOK /\ NothingToLose /\ FlagsAreAttached /\ [Next]_vars =>
        [FreshBeatRecovers /\ TickParksWhatIsBad]_vars
  BY FollowStep
<1> QED BY <1>1, FlagsStayAttached, PTL DEF Spec
=============================================================================

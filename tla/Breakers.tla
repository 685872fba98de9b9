------------------------------ MODULE Breakers ------------------------------
(***************************************************************************)
(* The entry breakers of the paper runtime: BreakerRegistry with its JSON  *)
(* BreakerStore (policy/breakers.py) and the two monitors that trip and    *)
(* clear them, HeartbeatMonitor (runtime/heartbeat.py) and ResourceMonitor *)
(* (runtime/resource_monitor.py), as AutonomousPaperRuntime drives them:   *)
(* _beat and _evaluate_monitors at the start of a cycle, tick_monitors on  *)
(* a timer.                                                                *)
(*                                                                         *)
(* The code keeps a reason text per open breaker.  What matters of it is   *)
(* who tripped the breaker last, since a monitor is to clear only its own. *)
(* One call of the runtime makes several registry operations, each with a  *)
(* save of the file that may raise, so the operations are functions on a   *)
(* record of the state, and an action applies the composition of them.     *)
(***************************************************************************)
EXTENDS Integers

CONSTANTS
  BreakerNames,   \* BREAKER_NAMES, or the part of it a run needs
  Attached,       \* the monitors given to the runtime and wired to the registry
  MaxGap,         \* max_gap_ms, in steps of the clock
  ColdStart,      \* _last_beat_ms is None
  SavesMayFail,   \* BreakerStore.save may raise OSError
  OperatorActs    \* an operator trips and clears breakers by hand

Monitors == {"heartbeat", "resource"}

(* What a configuration has to keep to; the modules that run it check it. *)
BreakersAssumption ==
  /\ Attached \subseteq Monitors
  /\ Monitors \subseteq BreakerNames
  /\ MaxGap \in Nat \ {0}
  /\ ColdStart \notin Nat
  /\ SavesMayFail \in BOOLEAN
  /\ OperatorActs \in BOOLEAN

VARIABLES
  registry,   \* BreakerRegistry._state: who tripped the breaker last, or "closed"
  stored,     \* the same as the file has it
  raised,     \* _tripped_by_monitor of each monitor
  beatAge,    \* time since _last_beat_ms; beyond MaxGap it no longer matters how long
  host        \* what the next sample of the host's resources will say

vars == <<registry, stored, raised, beatAge, host>>

Trippers == {"closed", "monitor", "operator"}

TypeOK ==
  /\ registry \in [BreakerNames -> Trippers]
  /\ stored \in [BreakerNames -> Trippers]
  /\ raised \in [Monitors -> BOOLEAN]
  /\ beatAge \in {ColdStart} \union 0..(MaxGap + 1)
  /\ host \in {"ok", "pressure", "unreadable"}

IsOpen(n) == registry[n] # "closed"
EntriesParked == \E n \in BreakerNames : IsOpen(n)

-----------------------------------------------------------------------------
(* Registry operations on a state record m.  `works' says whether the save *)
(* returns; when it raises, memory has changed, the file has not, and the  *)
(* caller unwinds (m.failed).                                              *)

Now == [registry |-> registry, stored |-> stored, raised |-> raised,
        beatAge |-> beatAge, failed |-> FALSE]

Saved(m, works) == IF works THEN [m EXCEPT !.stored = m.registry]
                            ELSE [m EXCEPT !.failed = TRUE]

Trip(m, n, who, works) == Saved([m EXCEPT !.registry[n] = who], works)

(* Mutant: a clear that is not saved. *)
ClearUnsaved(m, n, works) == [m EXCEPT !.registry[n] = "closed"]

Clear(m, n, works) == Saved([m EXCEPT !.registry[n] = "closed"], works)

SetRaised(m, n, b) == IF m.failed THEN m ELSE [m EXCEPT !.raised[n] = b]

(* Mutant: a trip that is not remembered as the monitor's own. *)
ObserveForgets(m, n, status, works) ==
  CASE status = "BAD" /\ m.registry[n] = "closed" -> Trip(m, n, "monitor", works)
    [] status = "HEALTHY" /\ m.raised[n] ->
         SetRaised(IF m.registry[n] # "closed" THEN Clear(m, n, works) ELSE m, n, FALSE)
    [] OTHER -> m

(* HeartbeatMonitor.tick and ResourceMonitor.tick after the status is known: *)
(* trip when bad, unless already open; when good, take back an own trip.     *)
Observe(m, n, status, works) ==
  CASE status = "BAD" /\ m.registry[n] = "closed" ->
         SetRaised(Trip(m, n, "monitor", works), n, TRUE)
    [] status = "HEALTHY" /\ m.raised[n] ->
         SetRaised(IF m.registry[n] # "closed" THEN Clear(m, n, works) ELSE m, n, FALSE)
    [] OTHER -> m

HeartbeatStatus(m) ==
  IF m.beatAge = ColdStart THEN "UNKNOWN"
  ELSE IF m.beatAge > MaxGap THEN "BAD" ELSE "HEALTHY"

(* Mutant: an unreadable host counts as healthy. *)
ResourceStatusFailsOpen == IF host = "pressure" THEN "BAD" ELSE "HEALTHY"

(* An unreadable host counts as pressure. *)
ResourceStatus == IF host = "ok" THEN "HEALTHY" ELSE "BAD"

Beat(m, works) ==
  LET beaten == [m EXCEPT !.beatAge = 0]
  IN  IF m.raised["heartbeat"] /\ m.registry["heartbeat"] # "closed"
      THEN SetRaised(Clear(beaten, "heartbeat", works), "heartbeat", FALSE)
      ELSE beaten

HeartbeatTick(m, works) ==
  IF "heartbeat" \in Attached /\ ~m.failed
  THEN Observe(m, "heartbeat", HeartbeatStatus(m), works) ELSE m

ResourceTick(m, works) ==
  IF "resource" \in Attached /\ ~m.failed
  THEN Observe(m, "resource", ResourceStatus, works) ELSE m

(* _evaluate_monitors; `bad' holds the monitors whose save raises.  Each     *)
(* monitor saves at most once in one call, so this is every way it can fail. *)
EvaluateMonitors(m, bad) ==
  ResourceTick(HeartbeatTick(m, "heartbeat" \notin bad), "resource" \notin bad)

(* What process does before it claims its cycle: _beat, _evaluate_monitors. *)
StartOfCycle(bad) ==
  EvaluateMonitors(IF "heartbeat" \in Attached
                   THEN Beat(Now, "heartbeat" \notin bad) ELSE Now, bad)

Become(m) ==
  /\ registry' = m.registry
  /\ stored' = m.stored
  /\ raised' = m.raised
  /\ beatAge' = m.beatAge
  /\ UNCHANGED host

FailedSaves == IF SavesMayFail THEN SUBSET Attached ELSE {{}}
SaveOutcomes == IF SavesMayFail THEN BOOLEAN ELSE {TRUE}

-----------------------------------------------------------------------------
Init ==
  /\ registry = [n \in BreakerNames |-> "closed"]
  /\ stored = registry
  /\ raised = [n \in Monitors |-> FALSE]
  /\ beatAge = ColdStart
  /\ host = "ok"

CycleStarts == \E bad \in FailedSaves : Become(StartOfCycle(bad))

TickMonitors == \E bad \in FailedSaves : Become(EvaluateMonitors(Now, bad))

OperatorTrip(n) ==
  /\ OperatorActs
  /\ \E works \in SaveOutcomes : Become(Trip(Now, n, "operator", works))

OperatorClear(n) ==
  /\ OperatorActs
  /\ \E works \in SaveOutcomes : Become(Clear(Now, n, works))

ClockAdvances ==
  /\ beatAge # ColdStart
  /\ beatAge' = IF beatAge > MaxGap THEN beatAge ELSE beatAge + 1
  /\ UNCHANGED <<registry, stored, raised, host>>

HostChanges ==
  /\ host' \in {"ok", "pressure", "unreadable"} \ {host}
  /\ UNCHANGED <<registry, stored, raised, beatAge>>

(* A new process: the registry is loaded from the file, the monitors are new. *)
Restart ==
  /\ registry' = stored
  /\ raised' = [n \in Monitors |-> FALSE]
  /\ beatAge' = ColdStart
  /\ UNCHANGED <<stored, host>>

Next ==
  \/ CycleStarts
  \/ TickMonitors
  \/ \E n \in BreakerNames : OperatorTrip(n) \/ OperatorClear(n)
  \/ ClockAdvances
  \/ HostChanges
  \/ Restart

Spec == Init /\ [][Next]_vars

-----------------------------------------------------------------------------
(* While saves work, only a restart, which forgets the monitors' flags,      *)
(* makes a breaker a monitor opened one that no monitor will take back       *)
(* (heartbeat.py:56-62, 88-99, resource_monitor.py:95-104).                  *)
Disowned(n) == registry[n] = "monitor" /\ ~(n \in Monitors /\ raised[n])

MonitorOwnsItsTrips ==
  \A n \in BreakerNames : Disowned(n)' => Disowned(n) \/ Restart

(* What is in memory is on disk, so a restart forgets no trip, whoever made *)
(* it (breakers.py:45-60), as long as saves work.                           *)
NothingToLose == stored = registry

(* A tick leaves entries parked when the heartbeat it sees has stalled or   *)
(* the host is not provably healthy (heartbeat.py:15, resource_monitor.py:  *)
(* 59-61), whatever was open, cleared or flagged before.                    *)
TickParksWhatIsBad ==
  TickMonitors /\ ( \/ "heartbeat" \in Attached /\ HeartbeatStatus(Now) = "BAD"
                    \/ "resource" \in Attached /\ host # "ok" )
    => EntriesParked'

(* After a cycle began, while saves work, no trip the heartbeat monitor made *)
(* in this life is open, and none the resource monitor made if the host is   *)
(* well: the verified automatic recovery of heartbeat.py:8-9.                *)
FreshBeatRecovers ==
  CycleStarts
    => \A n \in Monitors :
         registry'[n] = "monitor" => Disowned(n) \/ (n = "resource" /\ host # "ok")

(* An operator's trip of a breaker no monitor had raised before is taken     *)
(* back by an operator only, over any number of cycles, ticks and restarts   *)
(* (heartbeat.py:18-19, breakers.py:50-60).                                  *)
UnraisedOperatorTripStays ==
  \A n \in BreakerNames :
    /\ registry[n] = "operator"
    /\ n \in Monitors => ~raised[n]
    /\ registry'[n] # "operator"
    => OperatorClear(n)

(* heartbeat.py:18-19: "An operator-initiated trip is preserved until the   *)
(* operator clears it."                                                     *)
OperatorTripStays ==
  [][\A n \in BreakerNames :
       registry[n] = "operator" /\ registry'[n] # "operator" => OperatorClear(n)]_vars
=============================================================================

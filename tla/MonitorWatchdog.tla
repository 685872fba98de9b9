--------------------------- MODULE MonitorWatchdog ---------------------------
(***************************************************************************)
(* MonitorWatchdog (runtime/monitor_watchdog.py) as CanonicalOfflineRuntime *)
(* starts it (run_monitor_loop, start_monitor_loop in runtime/canonical.py): *)
(* an asyncio task that calls tick_monitors on a cadence, beside the cycles  *)
(* and an operator, so that a runtime without cycles parks itself.           *)
(* The registry and the monitors are those of Breakers.                      *)
(***************************************************************************)
EXTENDS Integers

CONSTANTS BreakerNames, Attached, MaxGap, ColdStart, SavesMayFail, OperatorActs

VARIABLES
  registry, stored, raised, beatAge, host,
  task,       \* the asyncio task of run: off, created, looping, done or dead
  running,    \* MonitorWatchdog.running
  stopAsked   \* history: stop was called since the task was created

B == INSTANCE Breakers

(* What a configuration has to keep to; the modules that run it check it. *)
WatchdogAssumption == Attached = B!Monitors

breakerVars == <<registry, stored, raised, beatAge, host>>
vars == <<registry, stored, raised, beatAge, host, task, running, stopAsked>>

TypeOK ==
  /\ B!TypeOK
  /\ task \in {"off", "created", "looping", "done", "dead"}
  /\ running \in BOOLEAN
  /\ stopAsked \in BOOLEAN

Init ==
  /\ B!Init
  /\ task = "off"
  /\ running = FALSE
  /\ stopAsked = FALSE

(* start_monitor_loop: create_task only schedules run. *)
StartLoop ==
  /\ task \in {"off", "done", "dead"}
  /\ task' = "created"
  /\ stopAsked' = FALSE
  /\ UNCHANGED <<breakerVars, running>>

(* The first step of run. *)
RunBegins ==
  /\ task = "created"
  /\ task' = "looping"
  /\ running' = TRUE
  /\ UNCHANGED <<breakerVars, stopAsked>>

(* Mutant: the loop does not tick while entries are parked anyway. *)
LoopTicksUnlessParked ==
  /\ task = "looping"
  /\ running
  /\ ~B!EntriesParked
  /\ \E bad \in B!FailedSaves : B!Become(B!EvaluateMonitors(B!Now, bad))
  /\ UNCHANGED <<task, running, stopAsked>>

(* One due tick; what it raises leaves the loop through its finally clause. *)
LoopTicks ==
  /\ task = "looping"
  /\ running
  /\ \E bad \in B!FailedSaves :
       LET m == B!EvaluateMonitors(B!Now, bad) IN
       /\ B!Become(m)
       /\ task' = IF m.failed THEN "dead" ELSE task
       /\ running' = ~m.failed
  /\ UNCHANGED stopAsked

LoopEnds ==
  /\ task = "looping"
  /\ ~running
  /\ task' = "done"
  /\ UNCHANGED <<breakerVars, running, stopAsked>>

Stop ==
  /\ task \in {"created", "looping"}
  /\ running' = FALSE
  /\ stopAsked' = TRUE
  /\ UNCHANGED <<breakerVars, task>>

(* The runtime's cycles, an operator, the clock and the host go on beside it. *)
Others ==
  /\ \/ B!CycleStarts
     \/ \E n \in BreakerNames : B!OperatorTrip(n) \/ B!OperatorClear(n)
     \/ B!ClockAdvances
     \/ B!HostChanges
  /\ UNCHANGED <<task, running, stopAsked>>

Next == StartLoop \/ RunBegins \/ LoopTicks \/ LoopEnds \/ Stop \/ Others

(* The event loop runs a ready task and wakes a sleeping one; nothing makes  *)
(* cycles, operators, the host or a stop happen.                             *)
Fairness == WF_vars(RunBegins) /\ WF_vars(LoopTicks) /\ WF_vars(LoopEnds)

Spec == Init /\ [][Next]_vars /\ Fairness

-----------------------------------------------------------------------------
(* The watchdog was started, nobody has stopped it and no save broke it. *)
Watching == task \in {"created", "looping", "done"} /\ ~stopAsked
Stalled == B!HeartbeatStatus(B!Now) = "BAD"

(* monitor_watchdog.py:9-13: with no cycle for longer than max_gap_ms the    *)
(* breaker trips and entries are parked, though no cycle runs to see it.     *)
StallParks == (Watching /\ Stalled) ~> (B!EntriesParked \/ ~Stalled \/ ~Watching)

(* Lasting pressure, or a host that cannot be read, parks entries likewise   *)
(* (resource_monitor.py:59-61, 95-100).                                      *)
PressureParks ==
  (Watching /\ host # "ok") ~> (B!EntriesParked \/ host = "ok" \/ ~Watching)

(* A trip the resource monitor knows for its own does not outlive the        *)
(* pressure (resource_monitor.py:101-104): on a host that stays well the     *)
(* watchdog alone reopens entries. A trip whose save raised is not known:    *)
(* the flag is set after the call that raised (resource_monitor.py:99-100).  *)
KnownTrip == registry["resource"] = "monitor" /\ raised["resource"]
WellHostReopens ==
  (Watching /\ host = "ok" /\ KnownTrip) ~> (~KnownTrip \/ host # "ok" \/ ~Watching)
=============================================================================

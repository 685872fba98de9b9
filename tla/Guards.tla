-------------------------------- MODULE Guards --------------------------------
(***************************************************************************)
(* What guards the runtime, side by side: the breakers with their          *)
(* monitors, the watchdog that ticks them, the provider circuit, the HTTP  *)
(* client's own, the resource budget and the protection supervisor.  None  *)
(* of them calls another one here; a behaviour is of one part, chosen at   *)
(* the start, and the others keep their initial state.                     *)
(***************************************************************************)
EXTENDS Naturals

CONSTANTS
  BreakerNames, MaxGap, Attached, ColdStart, OperatorActs,    \* Breakers
  LoopNames, LoopGap,                                         \* MonitorWatchdog
  Calls, Probes, FailureThreshold,                            \* ProviderCircuit
  ClientCalls, MaxRetries, ClientThreshold,                   \* ModelClient
  Threads, Watched, SlowSamples,                              \* ResourceBudget
  Symbols,                                                    \* ProtectionSupervisor
  None

VARIABLES
  part,
  registry, stored, raised, beatAge, host,            \* Breakers
  task, running, stopAsked,                           \* MonitorWatchdog
  failures, isOpen, request, probe,                   \* ProviderCircuit
  sendFailures, posting, answer, drained,             \* ModelClient
  budgetHost, worker, watcher, thread, stopping, breached, seenBad,  \* ResourceBudget
  records, file, seen, held, failed                   \* ProtectionSupervisor

monitorVars == <<registry, stored, raised, beatAge, host>>
loopVars == <<task, running, stopAsked>>
circuitVars == <<failures, isOpen, request, probe>>
clientVars == <<sendFailures, posting, answer, drained>>
budgetVars == <<budgetHost, worker, watcher, thread, stopping, breached, seenBad>>
protectionVars == <<records, file, seen, held, failed>>
vars == <<part, monitorVars, loopVars, circuitVars, clientVars, budgetVars, protectionVars>>

(* With a store that works. *)
Br == INSTANCE Breakers_proofs WITH SavesMayFail <- FALSE

(* With a store that may fail. *)
W == INSTANCE MonitorWatchdog WITH
  BreakerNames <- LoopNames, MaxGap <- LoopGap, SavesMayFail <- TRUE

Ci == INSTANCE ProviderCircuit

Cl == INSTANCE ModelClient WITH
  Calls <- ClientCalls, Threshold <- ClientThreshold, failures <- sendFailures

Bu == INSTANCE ResourceBudget WITH host <- budgetHost

Pr == INSTANCE ProtectionSupervisor WITH stored <- file

ASSUME PartsAssumption ==
  Br!BreakersAssumption /\ W!WatchdogAssumption /\ Ci!CircuitAssumption
    /\ Cl!ClientAssumption /\ Bu!BudgetAssumption /\ Pr!ProtectionAssumption

Init ==
  /\ part \in {"breakers", "watchdog", "circuit", "client", "budget", "protection"}
  /\ IF part = "breakers" THEN Br!Init ELSE TRUE
  /\ IF part = "breakers" THEN task = "off" /\ running = FALSE /\ stopAsked = FALSE ELSE W!Init
  /\ Ci!Init /\ Cl!Init /\ Bu!Init /\ Pr!Init
  /\ part = "budget" \/ budgetHost = "ok"

Next ==
  \/ /\ part = "breakers" /\ Br!Next
     /\ UNCHANGED <<part, loopVars, circuitVars, clientVars, budgetVars, protectionVars>>
  \/ /\ part = "watchdog" /\ W!Next
     /\ UNCHANGED <<part, circuitVars, clientVars, budgetVars, protectionVars>>
  \/ /\ part = "circuit" /\ Ci!Next
     /\ UNCHANGED <<part, monitorVars, loopVars, clientVars, budgetVars, protectionVars>>
  \/ /\ part = "client" /\ Cl!Next
     /\ UNCHANGED <<part, monitorVars, loopVars, circuitVars, budgetVars, protectionVars>>
  \/ /\ part = "budget" /\ Bu!Next
     /\ UNCHANGED <<part, monitorVars, loopVars, circuitVars, clientVars, protectionVars>>
  \/ /\ part = "protection" /\ Pr!Next
     /\ UNCHANGED <<part, monitorVars, loopVars, circuitVars, clientVars, budgetVars>>

(* The fairness of the watchdog and of the budget; the actions named in it  *)
(* are not enabled in the initial state that another part leaves them in.   *)
Spec == Init /\ [][Next]_vars /\ W!Fairness /\ Bu!Fairness

-----------------------------------------------------------------------------
(* While saves work, what is in memory is on disk, so that a restart forgets *)
(* no trip, whoever made it (breakers.py:45-60).                             *)
NothingToLose == part = "breakers" => Br!TypeOK /\ Br!NothingToLose

(* Only a restart, which forgets the monitors' flags, makes a monitor's trip *)
(* one that no monitor takes back (heartbeat.py:56-62, 88-99,                *)
(* resource_monitor.py:95-104); and a trip an operator made of a breaker no  *)
(* monitor had raised is taken back by an operator only (heartbeat.py:18-19).*)
TripsAreOwned ==
  [][part = "breakers" => Br!MonitorOwnsItsTrips /\ Br!UnraisedOperatorTripStays]_vars

(* A cycle takes back the trips its monitors know for theirs, unless the     *)
(* host is still under pressure, and a tick that sees a stalled heartbeat or *)
(* an unreadable host parks (heartbeat.py:8-9, 15, resource_monitor.py:      *)
(* 59-61), whatever was open, cleared or flagged before.                     *)
MonitorsFollowTheHost ==
  [][part = "breakers" => Br!FreshBeatRecovers /\ Br!TickParksWhatIsBad]_vars

(* A watchdog that is running parks entries once the heartbeat has stalled,  *)
(* or the host is lastingly unwell, though no cycle runs to see it           *)
(* (monitor_watchdog.py:9-13, resource_monitor.py:95-100), and on a host     *)
(* that stays well it alone takes back the trip the resource monitor knows   *)
(* for its own (resource_monitor.py:101-104).                                *)
WatchdogFollowsTheHost == W!StallParks /\ W!PressureParks /\ W!WellHostReopens

(* Circuits: a closed one has counted fewer failures than its threshold, an  *)
(* open one is overshot only by the calls that were out when it opened, and  *)
(* lets out nothing but the retries of those (circuit.py:73-77,              *)
(* anthropic.py:52-54).                                                      *)
CircuitsKeepTheirCount ==
  /\ part = "circuit" => Ci!TypeOK /\ Ci!CountRespectsThreshold
  /\ part = "client" => Cl!TypeOK /\ Cl!OpenCircuitDrains

(* The provider's circuit is closed by a health check that passes or a new   *)
(* process only (circuit.py:47, 60-63); the client's, which is never asked   *)
(* for its health, once open with no call out by nothing at all, and a       *)
(* cancelled call leaves its count as it was.                                *)
CircuitsStayOpen ==
  [][/\ part = "circuit" => Ci!OnlyHealthCloses
     /\ part = "client" => Cl!OpensForGood]_vars

(* A record never claims protection that was not read back (engine.py:40-63),*)
(* and, where every save worked, parking survives a restart, after which     *)
(* READY is said only to a venue that holds what the records do              *)
(* (supervisor.py:12-19, restart.py:19-28).                                  *)
ProtectionIsReadBack ==
  /\ [](part = "protection" => Pr!TypeOK /\ Pr!ProtectedIsReadBack)
  /\ [][part = "protection" => Pr!RestartKeepsParking]_vars

(* Work under the budget that ends clean had no sample, its own or the       *)
(* watchdog's, that showed a violation (resource_budget.py:149-156).         *)
CleanMeansNothingSeen == part = "budget" => Bu!TypeOK /\ Bu!CleanMeansNothingSeen

(* Leaving the budget ends, with no watchdog thread left, with or without an *)
(* exception of the work (resource_budget.py:105-124).                       *)
LeavingEnds == Bu!LeavingEnds
=============================================================================

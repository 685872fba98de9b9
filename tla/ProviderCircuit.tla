--------------------------- MODULE ProviderCircuit ---------------------------
(***************************************************************************)
(* ProviderCircuit (providers/circuit.py): the breaker in front of the     *)
(* decision provider.  decide awaits the provider with a timeout, so       *)
(* several calls may be outstanding, and health_check may be outstanding   *)
(* beside them; counting a failure, opening and closing happen when an     *)
(* answer arrives.  What an answer does to the counter is stated apart     *)
(* from the call it answers: AutonomousPaperRuntime also counts a failure  *)
(* for an answer it cannot parse (paper_runtime.py:85-90).                 *)
(***************************************************************************)
EXTENDS Integers, FiniteSets

CONSTANTS
  Calls,              \* who may be awaiting decide
  Probes,             \* who may be awaiting health_check
  FailureThreshold    \* failure_threshold

(* What a configuration has to keep to; the modules that run it check it. *)
CircuitAssumption ==
  /\ IsFiniteSet(Calls)
  /\ FailureThreshold \in Nat \ {0}

VARIABLES
  failures,   \* ProviderCircuit.failures
  isOpen,     \* ProviderCircuit.is_open
  request,    \* whether a call awaits the provider
  probe       \* whether a health check is out

vars == <<failures, isOpen, request, probe>>

TypeOK ==
  /\ failures \in Nat
  /\ isOpen \in BOOLEAN
  /\ request \in [Calls -> {"idle", "waiting"}]
  /\ probe \in [Probes -> {"idle", "out"}]

Init ==
  /\ failures = 0
  /\ isOpen = FALSE
  /\ request = [c \in Calls |-> "idle"]
  /\ probe = [p \in Probes |-> "idle"]

-----------------------------------------------------------------------------
(* The effect of an answer on the counter.                                  *)

Succeed == failures' = 0 /\ UNCHANGED isOpen

(* Mutant: the failure that reaches the threshold does not open yet. *)
FailOffByOne ==
  /\ failures' = failures + 1
  /\ isOpen' = (isOpen \/ failures + 1 > FailureThreshold)

(* _failure after a timeout, an exception, a wrong type or a status not OK. *)
Fail ==
  /\ failures' = failures + 1
  /\ isOpen' = (isOpen \/ failures + 1 >= FailureThreshold)

(* OK for decide, which resets the counter, then unparseable for the caller, *)
(* which counts one failure: both before anything else can run.              *)
FailToParse ==
  /\ failures' = 1
  /\ isOpen' = (isOpen \/ 1 >= FailureThreshold)

-----------------------------------------------------------------------------
(* With the circuit open decide answers at once, without the provider. *)
Ask(c) ==
  /\ request[c] = "idle"
  /\ ~isOpen
  /\ request' = [request EXCEPT ![c] = "waiting"]
  /\ UNCHANGED <<failures, isOpen, probe>>

Answered(c) ==
  /\ request[c] = "waiting"
  /\ request' = [request EXCEPT ![c] = "idle"]
  /\ UNCHANGED probe

ProviderSucceeds(c) == Answered(c) /\ Succeed
ProviderFails(c) == Answered(c) /\ Fail
ProviderUnparseable(c) == Answered(c) /\ FailToParse

(* The caller is cancelled while it awaits: CancelledError is no Exception,  *)
(* so nothing is counted.                                                    *)
Abandoned(c) == Answered(c) /\ UNCHANGED <<failures, isOpen>>

BeginHealthCheck(p) ==
  /\ probe[p] = "idle"
  /\ probe' = [probe EXCEPT ![p] = "out"]
  /\ UNCHANGED <<failures, isOpen, request>>

HealthCheckPasses(p) ==
  /\ probe[p] = "out"
  /\ probe' = [probe EXCEPT ![p] = "idle"]
  /\ failures' = 0
  /\ isOpen' = FALSE
  /\ UNCHANGED request

HealthCheckFails(p) ==
  /\ probe[p] = "out"
  /\ probe' = [probe EXCEPT ![p] = "idle"]
  /\ UNCHANGED <<failures, isOpen, request>>

(* A new process has a new circuit. *)
Restart ==
  /\ failures' = 0
  /\ isOpen' = FALSE
  /\ request' = [c \in Calls |-> "idle"]
  /\ probe' = [p \in Probes |-> "idle"]

Next ==
  \/ \E c \in Calls :
       Ask(c) \/ ProviderSucceeds(c) \/ ProviderFails(c) \/ ProviderUnparseable(c)
       \/ Abandoned(c)
  \/ \E p \in Probes :
       BeginHealthCheck(p) \/ HealthCheckPasses(p) \/ HealthCheckFails(p)
  \/ Restart

Spec == Init /\ [][Next]_vars

-----------------------------------------------------------------------------
Waiting == {c \in Calls : request[c] = "waiting"}

(* Every way of counting a failure also opens (circuit.py:73-77): a closed   *)
(* circuit has seen fewer failures than the threshold, and an open one can   *)
(* only be overshot by the calls that were out when it opened.               *)
CountRespectsThreshold ==
  /\ ~isOpen => failures < FailureThreshold
  /\ failures + Cardinality(Waiting) < FailureThreshold + Cardinality(Calls)

(* Only a health check that passes, or a new process, closes the circuit: an *)
(* answer to a call that was still out when it opened does not, although it  *)
(* resets the counter (circuit.py:47, 60-63).                                *)
OnlyHealthCloses ==
  isOpen /\ ~isOpen' => Restart \/ \E p \in Probes : HealthCheckPasses(p)

=============================================================================

----------------------------- MODULE ModelClient -----------------------------
(***************************************************************************)
(* AnthropicProvider (providers/anthropic.py) behind the timeout of its    *)
(* caller: the client's own consecutive failures, its retries, and the     *)
(* cancellation that ends a call without a count.  Calls of one event loop *)
(* meet at the await of each request.                                      *)
(***************************************************************************)
EXTENDS Naturals, FiniteSets

CONSTANTS
  Calls,
  MaxRetries,   \* max_retries, 0..2
  Threshold     \* circuit_breaker_failures

(* What a configuration has to keep to; the modules that run it check it. *)
ClientAssumption ==
  MaxRetries \in 0..2 /\ Threshold \in Nat \ {0} /\ IsFiniteSet(Calls)

VARIABLES
  failures,    \* _failures
  posting,     \* the attempt each call has at the network, or 0
  answer,      \* what each call's decide gave last
  drained      \* history: requests sent since the circuit opened

vars == <<failures, posting, answer, drained>>

Answers == {"none", "OK", "PARK", "NO_DECISION", "raised", "cancelled"}

TypeOK ==
  /\ failures \in Nat
  /\ posting \in [Calls -> 0..(MaxRetries + 1)]
  /\ answer \in [Calls -> Answers]
  /\ drained \in Nat

CircuitOpen == failures >= Threshold

Init ==
  /\ failures = 0
  /\ posting = [c \in Calls |-> 0]
  /\ answer = [c \in Calls |-> "none"]
  /\ drained = 0

Outstanding == {c \in Calls : posting[c] # 0}

(* A request leaves now: after the circuit opened, if it is open. *)
Sends == drained' = IF CircuitOpen THEN drained + 1 ELSE 0

Ends(c, a) ==
  /\ posting' = [posting EXCEPT ![c] = 0]
  /\ answer' = [answer EXCEPT ![c] = a]

-----------------------------------------------------------------------------

Decide(c) ==
  /\ posting[c] = 0
  /\ IF CircuitOpen
     THEN answer' = [answer EXCEPT ![c] = "PARK"] /\ UNCHANGED <<failures, posting, drained>>
     ELSE posting' = [posting EXCEPT ![c] = 1] /\ Sends /\ UNCHANGED <<failures, answer>>

(* A timeout, a transport error or a status from 500 up is tried again, with *)
(* no look at the circuit, ...                                               *)
Retry(c) ==
  /\ posting[c] \in 1..MaxRetries
  /\ posting' = [posting EXCEPT ![c] = @ + 1]
  /\ Sends
  /\ UNCHANGED <<failures, answer>>

(* ... the last time it fails the call, as do another status, a body that is *)
(* too large, no JSON or no text: one failure, however many attempts.        *)
Fail(c) ==
  /\ posting[c] > 0
  /\ failures' = failures + 1
  /\ Ends(c, "NO_DECISION")
  /\ UNCHANGED drained

(* Text resets the count, and so closes the circuit a call outlasted. *)
Succeed(c) ==
  /\ posting[c] > 0
  /\ failures' = 0
  /\ drained' = 0
  /\ Ends(c, "OK")

(* Mutant: a cancelled call counts, as a timeout of its own would. *)
CancelCounted(c) ==
  /\ posting[c] > 0
  /\ failures' = failures + 1
  /\ Ends(c, "cancelled")
  /\ UNCHANGED drained

(* A body that is JSON but no object: the AttributeError is not one of those *)
(* that count (anthropic.py:98, 106), and leaves decide.                     *)
Raise(c) ==
  /\ posting[c] > 0
  /\ Ends(c, "raised")
  /\ UNCHANGED <<failures, drained>>

(* wait_for of ProviderCircuit cancels the call: no handler sees it. *)
Cancel(c) ==
  /\ posting[c] > 0
  /\ Ends(c, "cancelled")
  /\ UNCHANGED <<failures, drained>>

Next ==
  \E c \in Calls :
    Decide(c) \/ Retry(c) \/ Fail(c) \/ Succeed(c) \/ Raise(c) \/ Cancel(c)

Spec == Init /\ [][Next]_vars

-----------------------------------------------------------------------------
(* An open circuit lets out what its outstanding calls still retry and       *)
(* nothing else: the count stops rising at what was out when it opened, and  *)
(* every request after that is a retry of one of those (anthropic.py:52-54). *)
OpenCircuitDrains ==
  CircuitOpen =>
    /\ failures + Cardinality(Outstanding) < Threshold + Cardinality(Calls)
    /\ drained <= MaxRetries * (Cardinality(Calls) - 1)

(* Once it is open with no call out, it is open for good: the client is      *)
(* never asked how it is (anthropic.py has no health), and only an answer    *)
(* resets the count.  A call that is cancelled, or raises, leaves the count  *)
(* as it was.                                                                *)
OpensForGood ==
  /\ CircuitOpen /\ Outstanding = {} => CircuitOpen'
  /\ \A c \in Calls :
       posting[c] # 0 /\ posting'[c] = 0 /\ answer'[c] \in {"raised", "cancelled"} =>
         failures' = failures
=============================================================================

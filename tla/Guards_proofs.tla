----------------------------- MODULE Guards_proofs -----------------------------
(* Theorems of what guards the runtime.  Those of the breakers are in        *)
(* Breakers_proofs and are cited here; the other parts, the circuits, the    *)
(* budget and the protection supervisor, are proved below under the names    *)
(* Guards has for them, for any callers, thresholds, threads and symbols.    *)
EXTENDS Guards, FiniteSetTheorems, TLAPS

(* The parts count with FiniteSets, as the lemmas below do. *)
LEMMA SameSets ==
  /\ \A S : Ci!IsFiniteSet(S) <=> IsFiniteSet(S)
  /\ \A S : Cl!IsFiniteSet(S) <=> IsFiniteSet(S)
  /\ \A S : Bu!IsFiniteSet(S) <=> IsFiniteSet(S)
BY DEF Ci!IsFiniteSet, Cl!IsFiniteSet, Bu!IsFiniteSet, IsFiniteSet

LEMMA SameCount ==
  /\ \A S : Ci!Cardinality(S) = Cardinality(S)
  /\ \A S : Cl!Cardinality(S) = Cardinality(S)
  /\ \A S : Bu!Cardinality(S) = Cardinality(S)
BY DEF Ci!Cardinality, Cl!Cardinality, Bu!Cardinality, Cardinality

-----------------------------------------------------------------------------
(* The provider's circuit. *)
LEMMA CircuitTypeStep ==
  ASSUME Ci!CircuitAssumption, Ci!TypeOK, [Ci!Next]_(Ci!vars)
  PROVE  Ci!TypeOK'
<1> USE DEF Ci!TypeOK
<1>1. ASSUME NEW c \in Calls, Ci!Ask(c) PROVE Ci!TypeOK'
  BY <1>1 DEF Ci!Ask
<1>2. ASSUME NEW c \in Calls, Ci!Answered(c), Ci!Succeed \/ UNCHANGED <<failures, isOpen>>
      PROVE  Ci!TypeOK'
  BY <1>2 DEF Ci!Answered, Ci!Succeed
<1>3. ASSUME NEW c \in Calls, Ci!Answered(c), Ci!Fail \/ Ci!FailToParse PROVE Ci!TypeOK'
  <2>1. failures' \in Nat
    BY <1>3 DEF Ci!Fail, Ci!FailToParse
  <2>2. isOpen' \in BOOLEAN
    BY <1>3, Zenon DEF Ci!Fail, Ci!FailToParse
  <2> QED BY <1>3, <2>1, <2>2 DEF Ci!Answered
<1>4. ASSUME NEW p \in Probes,
             Ci!BeginHealthCheck(p) \/ Ci!HealthCheckPasses(p) \/ Ci!HealthCheckFails(p)
      PROVE  Ci!TypeOK'
  <2>1. CASE Ci!BeginHealthCheck(p)
    BY <2>1 DEF Ci!BeginHealthCheck
  <2>2. CASE Ci!HealthCheckPasses(p)
    BY <2>2 DEF Ci!HealthCheckPasses
  <2>3. CASE Ci!HealthCheckFails(p)
    BY <2>3 DEF Ci!HealthCheckFails
  <2> QED BY <1>4, <2>1, <2>2, <2>3
<1>5. CASE Ci!Restart
  BY <1>5 DEF Ci!Restart
<1>6. CASE UNCHANGED Ci!vars
  BY <1>6 DEF Ci!vars
<1> QED BY <1>1, <1>2, <1>3, <1>4, <1>5, <1>6
        DEF Ci!Next, Ci!ProviderSucceeds, Ci!ProviderFails, Ci!ProviderUnparseable, Ci!Abandoned

LEMMA WaitingIsFinite ==
  ASSUME Ci!CircuitAssumption
  PROVE  /\ IsFiniteSet(Ci!Waiting)
         /\ Cardinality(Ci!Waiting) \in Nat /\ Cardinality(Calls) \in Nat
         /\ Cardinality(Ci!Waiting) <= Cardinality(Calls)
BY SameSets, FS_Subset, FS_CardinalityType DEF Ci!CircuitAssumption, Ci!Waiting

LEMMA AnsweredIsOneLess ==
  ASSUME Ci!CircuitAssumption, Ci!TypeOK, NEW c \in Calls, Ci!Answered(c)
  PROVE  /\ Cardinality(Ci!Waiting') = Cardinality(Ci!Waiting) - 1
         /\ Cardinality(Ci!Waiting') \in Nat
<1>1. c \in Ci!Waiting /\ Ci!Waiting' = Ci!Waiting \ {c}
  BY DEF Ci!Answered, Ci!Waiting, Ci!TypeOK
<1>2. IsFiniteSet(Ci!Waiting)
  BY WaitingIsFinite
<1> QED BY <1>1, <1>2, FS_RemoveElement, FS_CardinalityType

-----------------------------------------------------------------------------
(* An answer that counts a failure moves one call from the waiting to the    *)
(* counted, and a call goes out only while fewer than the threshold are      *)
(* counted: the sum stays below both together.                               *)
LEMMA CountStep ==
  ASSUME Ci!CircuitAssumption, Ci!TypeOK, Ci!CountRespectsThreshold, [Ci!Next]_(Ci!vars)
  PROVE  Ci!CountRespectsThreshold'
<1> DEFINE w == Cardinality(Ci!Waiting)
           n == Cardinality(Calls)
<1>1. /\ w \in Nat /\ n \in Nat /\ w <= n
      /\ failures \in Nat /\ FailureThreshold \in Nat /\ FailureThreshold > 0
      /\ isOpen \in BOOLEAN
  BY WaitingIsFinite DEF Ci!CircuitAssumption, Ci!TypeOK
<1>2. /\ ~isOpen => failures < FailureThreshold
      /\ failures + w < FailureThreshold + n
  BY SameCount DEF Ci!CountRespectsThreshold
<1>3. SUFFICES /\ ~isOpen' => failures' < FailureThreshold
               /\ failures' + w' < FailureThreshold + n
  BY SameCount DEF Ci!CountRespectsThreshold
<1>4. w' \in Nat /\ w' <= n
  <2>1. Ci!Waiting' \subseteq Calls
    BY DEF Ci!Waiting
  <2> QED BY SameSets, <2>1, FS_Subset, FS_CardinalityType DEF Ci!CircuitAssumption
<1>5. ASSUME NEW c \in Calls, Ci!Answered(c) PROVE w' = w - 1
  BY <1>5, AnsweredIsOneLess
<1>6. ASSUME NEW c \in Calls, Ci!Ask(c)
      PROVE  /\ ~isOpen' => failures' < FailureThreshold
             /\ failures' + w' < FailureThreshold + n
  BY <1>1, <1>2, <1>4, <1>6 DEF Ci!Ask
<1>7. ASSUME NEW c \in Calls, Ci!Answered(c),
             Ci!Succeed \/ Ci!Fail \/ Ci!FailToParse \/ UNCHANGED <<failures, isOpen>>
      PROVE  /\ ~isOpen' => failures' < FailureThreshold
             /\ failures' + w' < FailureThreshold + n
  <2>1. w' = w - 1
    BY <1>5, <1>7
  <2>2. CASE Ci!Succeed
    BY <1>1, <1>4, <2>2 DEF Ci!Succeed
  <2>3. CASE Ci!Fail
    <3>1. failures' = failures + 1 /\ (~isOpen' => ~(failures + 1 >= FailureThreshold))
      BY <2>3, Zenon DEF Ci!Fail
    <3> QED BY <1>1, <1>2, <2>1, <3>1
  <2>4. CASE Ci!FailToParse
    <3>1. failures' = 1 /\ (~isOpen' => ~(1 >= FailureThreshold))
      BY <2>4, Zenon DEF Ci!FailToParse
    <3> QED BY <1>1, <1>4, <2>1, <3>1
  <2>5. CASE UNCHANGED <<failures, isOpen>>
    BY <1>1, <1>2, <2>1, <2>5
  <2> QED BY <1>7, <2>2, <2>3, <2>4, <2>5
<1>8. ASSUME UNCHANGED request,
             UNCHANGED <<failures, isOpen>> \/ (failures' = 0 /\ isOpen' = FALSE)
      PROVE  /\ ~isOpen' => failures' < FailureThreshold
             /\ failures' + w' < FailureThreshold + n
  <2>1. w' = w
    BY <1>8 DEF w, Ci!Waiting
  <2> QED BY <1>1, <1>2, <1>8, <2>1
<1>9. ASSUME NEW p \in Probes,
             Ci!BeginHealthCheck(p) \/ Ci!HealthCheckPasses(p) \/ Ci!HealthCheckFails(p)
      PROVE  /\ ~isOpen' => failures' < FailureThreshold
             /\ failures' + w' < FailureThreshold + n
  BY <1>8, <1>9 DEF Ci!BeginHealthCheck, Ci!HealthCheckPasses, Ci!HealthCheckFails
<1>10. CASE Ci!Restart
  BY <1>1, <1>4, <1>10 DEF Ci!Restart
<1>11. CASE UNCHANGED Ci!vars
  BY <1>8, <1>11 DEF Ci!vars
<1> QED BY <1>6, <1>7, <1>9, <1>10, <1>11
        DEF Ci!Next, Ci!ProviderSucceeds, Ci!ProviderFails, Ci!ProviderUnparseable, Ci!Abandoned

-----------------------------------------------------------------------------
(* A closed circuit has counted fewer failures than the threshold, and an    *)
(* open one is overshot only by the calls that were out when it opened.      *)
THEOREM CountIsBounded ==
  ASSUME Ci!CircuitAssumption
  PROVE  Ci!Spec => [](Ci!TypeOK /\ Ci!CountRespectsThreshold)
<1>1. Ci!Init => Ci!TypeOK
  <2> SUFFICES ASSUME Ci!Init PROVE Ci!TypeOK
    OBVIOUS
  <2>1. failures \in Nat /\ isOpen \in BOOLEAN
    BY DEF Ci!Init
  <2>2. request \in [Calls -> {"idle", "waiting"}] /\ probe \in [Probes -> {"idle", "out"}]
    BY DEF Ci!Init
  <2> QED BY <2>1, <2>2 DEF Ci!TypeOK
<1>2. Ci!Init => Ci!CountRespectsThreshold
  <2> SUFFICES ASSUME Ci!Init PROVE Ci!CountRespectsThreshold
    OBVIOUS
  <2>1. Ci!Waiting = {}
    BY DEF Ci!Init, Ci!Waiting
  <2>2. Cardinality(Ci!Waiting) = 0
    BY <2>1, FS_EmptySet
  <2> QED BY SameCount, <2>2, WaitingIsFinite DEF Ci!Init, Ci!CountRespectsThreshold, Ci!CircuitAssumption
<1>3. Ci!TypeOK /\ Ci!CountRespectsThreshold /\ [Ci!Next]_(Ci!vars) => (Ci!TypeOK /\ Ci!CountRespectsThreshold)'
  BY CircuitTypeStep, CountStep
<1> QED BY <1>1, <1>2, <1>3, PTL DEF Ci!Spec

(* Only a health check that passes, or a new process, closes the circuit,    *)
(* whatever answers arrive after it opened.                                  *)
THEOREM OnlyHealthClosesIt == ASSUME Ci!CircuitAssumption PROVE Ci!Spec => [][Ci!OnlyHealthCloses]_(Ci!vars)
<1>1. [Ci!Next]_(Ci!vars) => [Ci!OnlyHealthCloses]_(Ci!vars)
  BY DEF Ci!Next, Ci!OnlyHealthCloses, Ci!Ask, Ci!ProviderSucceeds, Ci!ProviderFails, Ci!ProviderUnparseable,
         Ci!Abandoned, Ci!Succeed, Ci!Fail, Ci!FailToParse, Ci!BeginHealthCheck, Ci!HealthCheckFails, Ci!Answered
<1> QED BY <1>1, PTL DEF Ci!Spec
-----------------------------------------------------------------------------
(* The HTTP client's own circuit.  While it is open, what has been sent and  *)
(* what the calls that are out may still send stay within the retries of all *)
(* callers but the one whose failure opened it.                              *)
RetriesLeft ==
  {r \in ClientCalls \X (1..MaxRetries) : posting[r[1]] # 0 /\ posting[r[1]] <= r[2]}

ClientInv ==
  /\ Cl!TypeOK
  /\ sendFailures + Cardinality(Cl!Outstanding) < ClientThreshold + Cardinality(ClientCalls)
  /\ ~Cl!CircuitOpen => drained = 0
  /\ Cl!CircuitOpen =>
       drained + Cardinality(RetriesLeft) <= MaxRetries * (Cardinality(ClientCalls) - 1)

LEMMA ClientTypeStep ==
  ASSUME Cl!ClientAssumption, Cl!TypeOK, [Cl!Next]_(Cl!vars)
  PROVE  Cl!TypeOK'
<1> USE DEF Cl!TypeOK, Cl!Answers, Cl!ClientAssumption
<1>1. ASSUME NEW c \in ClientCalls, Cl!Decide(c) PROVE Cl!TypeOK'
  BY <1>1 DEF Cl!Decide, Cl!Sends
<1>2. ASSUME NEW c \in ClientCalls, Cl!Retry(c) PROVE Cl!TypeOK'
  BY <1>2 DEF Cl!Retry, Cl!Sends
<1>3. ASSUME NEW c \in ClientCalls, Cl!Fail(c) \/ Cl!Succeed(c) \/ Cl!Raise(c) \/ Cl!Cancel(c)
      PROVE  Cl!TypeOK'
  BY <1>3 DEF Cl!Fail, Cl!Succeed, Cl!Raise, Cl!Cancel, Cl!Ends
<1>4. CASE UNCHANGED Cl!vars
  BY <1>4 DEF Cl!vars
<1> QED BY <1>1, <1>2, <1>3, <1>4 DEF Cl!Next

LEMMA ClientSets ==
  ASSUME Cl!ClientAssumption, NEW c \in ClientCalls
  PROVE  /\ IsFiniteSet(Cl!Outstanding) /\ IsFiniteSet(RetriesLeft)
         /\ Cardinality(ClientCalls) \in Nat /\ Cardinality(ClientCalls) >= 1
         /\ Cardinality(Cl!Outstanding) \in Nat /\ Cardinality(RetriesLeft) \in Nat
         /\ Cardinality(Cl!Outstanding) <= Cardinality(ClientCalls)
         /\ IsFiniteSet(ClientCalls \X (1..MaxRetries))
         /\ MaxRetries \in Nat /\ ClientThreshold \in Nat /\ ClientThreshold > 0
<1>1. MaxRetries \in Nat /\ IsFiniteSet(ClientCalls) /\ ClientThreshold \in Nat /\ ClientThreshold > 0
  BY SameSets DEF Cl!ClientAssumption
<1>2. IsFiniteSet(1..MaxRetries)
  BY <1>1, FS_Interval
<1>3. IsFiniteSet(ClientCalls \X (1..MaxRetries))
  BY <1>1, <1>2, FS_Product
<1>4. Cl!Outstanding \subseteq ClientCalls
  BY DEF Cl!Outstanding
<1>5. RetriesLeft \subseteq ClientCalls \X (1..MaxRetries)
  BY DEF RetriesLeft
<1>6. Cardinality(ClientCalls) >= 1
  <2>1. Cardinality({c}) = 1 /\ {c} \subseteq ClientCalls
    BY FS_Singleton
  <2> QED BY <1>1, <2>1, FS_Subset
<1> QED BY <1>1, <1>3, <1>4, <1>5, <1>6, FS_Subset, FS_CardinalityType

(* The calls that are out but c have at most all their retries left. *)
LEMMA OthersRetries ==
  ASSUME Cl!ClientAssumption, NEW c \in ClientCalls, NEW R,
         R \subseteq (ClientCalls \ {c}) \X (1..MaxRetries)
  PROVE  Cardinality(R) <= MaxRetries * (Cardinality(ClientCalls) - 1)
<1>1. MaxRetries \in Nat /\ IsFiniteSet(ClientCalls)
  BY SameSets DEF Cl!ClientAssumption
<1>2. /\ IsFiniteSet(ClientCalls \ {c})
      /\ Cardinality(ClientCalls \ {c}) = Cardinality(ClientCalls) - 1
      /\ Cardinality(ClientCalls \ {c}) \in Nat
  BY <1>1, FS_RemoveElement, FS_CardinalityType
<1>3. IsFiniteSet(1..MaxRetries) /\ Cardinality(1..MaxRetries) = MaxRetries
  BY <1>1, FS_Interval
<1>4. /\ IsFiniteSet((ClientCalls \ {c}) \X (1..MaxRetries))
      /\ Cardinality((ClientCalls \ {c}) \X (1..MaxRetries))
           = Cardinality(ClientCalls \ {c}) * Cardinality(1..MaxRetries)
  BY <1>2, <1>3, FS_Product
<1>5. Cardinality(R) <= (Cardinality(ClientCalls) - 1) * MaxRetries
  BY <1>2, <1>3, <1>4, FS_Subset
<1> DEFINE n == Cardinality(ClientCalls) - 1
<1>6. n \in Nat
  BY <1>2
<1> HIDE DEF n
<1>7. n * MaxRetries = MaxRetries * n
  BY <1>1, <1>6
<1> QED BY <1>5, <1>7 DEF n

(* A call that ends takes its retries with it. *)
LEMMA EndsStep ==
  ASSUME Cl!ClientAssumption, Cl!TypeOK, NEW c \in ClientCalls, posting[c] > 0,
         posting' = [posting EXCEPT ![c] = 0]
  PROVE  /\ Cardinality(Cl!Outstanding)' = Cardinality(Cl!Outstanding) - 1
         /\ Cardinality(RetriesLeft)' <= Cardinality(RetriesLeft)
         /\ RetriesLeft' \subseteq (ClientCalls \ {c}) \X (1..MaxRetries)
<1>1. Cl!Outstanding' = Cl!Outstanding \ {c} /\ c \in Cl!Outstanding
  BY DEF Cl!Outstanding, Cl!TypeOK
<1>2. RetriesLeft' \subseteq RetriesLeft
  BY DEF RetriesLeft, Cl!TypeOK
<1>3. RetriesLeft' \subseteq (ClientCalls \ {c}) \X (1..MaxRetries)
  BY DEF RetriesLeft, Cl!TypeOK
<1> QED BY <1>1, <1>2, <1>3, ClientSets, FS_RemoveElement, FS_Subset

(* A retry is one retry less. *)
LEMMA RetryStep ==
  ASSUME Cl!ClientAssumption, Cl!TypeOK, NEW c \in ClientCalls, Cl!Retry(c)
  PROVE  /\ Cl!Outstanding' = Cl!Outstanding
         /\ Cardinality(RetriesLeft)' = Cardinality(RetriesLeft) - 1
<1>1. /\ posting[c] \in 1..MaxRetries /\ posting' = [posting EXCEPT ![c] = posting[c] + 1]
      /\ posting \in [ClientCalls -> 0..(MaxRetries + 1)] /\ MaxRetries \in Nat
  BY DEF Cl!Retry, Cl!TypeOK, Cl!ClientAssumption
<1>2. Cl!Outstanding' = Cl!Outstanding
  BY <1>1 DEF Cl!Outstanding
<1> DEFINE used == <<c, posting[c]>>
<1>3. used \in RetriesLeft
  BY <1>1 DEF RetriesLeft
<1>4. ASSUME NEW d \in ClientCalls, NEW k \in 1..MaxRetries
      PROVE  <<d, k>> \in RetriesLeft' <=> <<d, k>> \in RetriesLeft /\ <<d, k>> # used
  <2>1. CASE d = c
    BY <1>1, <2>1 DEF RetriesLeft
  <2>2. CASE d # c
    BY <1>1, <2>2 DEF RetriesLeft
  <2> QED BY <2>1, <2>2
<1>5. RetriesLeft' = RetriesLeft \ {used}
  <2>1. RetriesLeft' \subseteq ClientCalls \X (1..MaxRetries)
    BY DEF RetriesLeft
  <2>2. RetriesLeft \subseteq ClientCalls \X (1..MaxRetries)
    BY DEF RetriesLeft
  <2> QED BY <1>4, <2>1, <2>2
<1> QED BY <1>2, <1>3, <1>5, ClientSets, FS_RemoveElement

LEMMA ClientStep ==
  ASSUME Cl!ClientAssumption, ClientInv, [Cl!Next]_(Cl!vars)
  PROVE  ClientInv'
<1> DEFINE f == sendFailures
           T == ClientThreshold
           n == Cardinality(ClientCalls)
           o == Cardinality(Cl!Outstanding)
           r == Cardinality(RetriesLeft)
           bound == MaxRetries * (n - 1)
<1>1. /\ Cl!TypeOK /\ f \in Nat /\ drained \in Nat /\ T \in Nat /\ T > 0
      /\ f + o < T + n
      /\ f < T => drained = 0
      /\ f >= T => drained + r <= bound
      /\ Cl!CircuitOpen <=> f >= T
  BY DEF ClientInv, Cl!CircuitOpen, Cl!TypeOK, Cl!ClientAssumption
<1>2. Cl!TypeOK' /\ f' \in Nat /\ drained' \in Nat
  BY <1>1, ClientTypeStep DEF Cl!TypeOK
<1>3. SUFFICES /\ f' + o' < T + n
               /\ f' < T => drained' = 0
               /\ f' >= T => drained' + r' <= bound
  BY <1>2 DEF ClientInv, Cl!CircuitOpen, Cl!ClientAssumption
<1>4. ASSUME NEW c \in ClientCalls
      PROVE  /\ n \in Nat /\ n >= 1 /\ o \in Nat /\ r \in Nat /\ o <= n
             /\ o' \in Nat /\ r' \in Nat /\ o' <= n /\ bound \in Nat
  <2>1. n \in Nat /\ n >= 1 /\ o \in Nat /\ r \in Nat /\ o <= n /\ MaxRetries \in Nat
    BY ClientSets
  <2>2. /\ Cl!Outstanding' \subseteq ClientCalls
        /\ RetriesLeft' \subseteq ClientCalls \X (1..MaxRetries)
    BY DEF Cl!Outstanding, RetriesLeft
  <2>3. o' \in Nat /\ r' \in Nat /\ o' <= n
    BY SameSets, <2>2, ClientSets, FS_Subset, FS_CardinalityType DEF Cl!ClientAssumption
  <2> HIDE DEF n
  <2>4. MaxRetries * (n - 1) \in Nat
    <3>1. n - 1 \in Nat
      BY <2>1
    <3> DEFINE k == n - 1
    <3> HIDE DEF k
    <3>2. MaxRetries * k \in Nat
      BY <2>1, <3>1 DEF k
    <3> QED BY <3>2 DEF k
  <2> QED BY <2>1, <2>3, <2>4
<1> HIDE DEF f, T, n, o, r, bound
<1>5. ASSUME NEW c \in ClientCalls, Cl!Decide(c)
      PROVE  /\ f' + o' < T + n
             /\ f' < T => drained' = 0
             /\ f' >= T => drained' + r' <= bound
  <2>1. CASE Cl!CircuitOpen
    <3>1. UNCHANGED <<f, o, r, drained>>
      BY <1>5, <2>1 DEF Cl!Decide, f, o, r, Cl!Outstanding, RetriesLeft
    <3> QED BY <1>1, <3>1
  <2>2. CASE ~Cl!CircuitOpen
    <3>1. f' = f /\ drained' = 0
      BY <1>5, <2>2 DEF Cl!Decide, Cl!Sends, f
    <3> QED BY <1>1, <1>4, <2>2, <3>1
  <2> QED BY <2>1, <2>2
<1>6. ASSUME NEW c \in ClientCalls, Cl!Retry(c)
      PROVE  /\ f' + o' < T + n
             /\ f' < T => drained' = 0
             /\ f' >= T => drained' + r' <= bound
  <2>1. o' = o /\ r' = r - 1
    BY <1>1, <1>6, RetryStep DEF o, r
  <2>2. f' = f /\ drained' = IF Cl!CircuitOpen THEN drained + 1 ELSE 0
    BY <1>6 DEF Cl!Retry, Cl!Sends, f
  <2> QED BY <1>1, <1>4, <2>1, <2>2
<1>7. ASSUME NEW c \in ClientCalls, posting[c] > 0, posting' = [posting EXCEPT ![c] = 0]
      PROVE  /\ o' = o - 1 /\ r' <= r /\ r' <= bound
  <2>1. RetriesLeft' \subseteq (ClientCalls \ {c}) \X (1..MaxRetries) /\ o' = o - 1 /\ r' <= r
    BY <1>1, <1>7, EndsStep DEF o, r
  <2>2. Cardinality(RetriesLeft') <= MaxRetries * (Cardinality(ClientCalls) - 1)
    BY <2>1, OthersRetries
  <2> QED BY <2>1, <2>2 DEF r, bound, n
<1>8. ASSUME NEW c \in ClientCalls, Cl!Fail(c)
      PROVE  /\ f' + o' < T + n
             /\ f' < T => drained' = 0
             /\ f' >= T => drained' + r' <= bound
  <2>1. /\ posting[c] > 0 /\ posting' = [posting EXCEPT ![c] = 0]
        /\ f' = f + 1 /\ drained' = drained
    BY <1>8 DEF Cl!Fail, Cl!Ends, f
  <2>2. o' = o - 1 /\ r' <= r /\ r' <= bound
    BY <1>7, <2>1
  <2> QED BY <1>1, <1>4, <2>1, <2>2
<1>9. ASSUME NEW c \in ClientCalls, Cl!Succeed(c)
      PROVE  /\ f' + o' < T + n
             /\ f' < T => drained' = 0
             /\ f' >= T => drained' + r' <= bound
  <2>1. f' = 0 /\ drained' = 0
    BY <1>9 DEF Cl!Succeed, f
  <2> QED BY <1>1, <1>4, <2>1
<1>10. ASSUME NEW c \in ClientCalls, Cl!Raise(c) \/ Cl!Cancel(c)
       PROVE  /\ f' + o' < T + n
              /\ f' < T => drained' = 0
              /\ f' >= T => drained' + r' <= bound
  <2>1. /\ posting[c] > 0 /\ posting' = [posting EXCEPT ![c] = 0]
        /\ f' = f /\ drained' = drained
    BY <1>10 DEF Cl!Raise, Cl!Cancel, Cl!Ends, f
  <2>2. o' = o - 1 /\ r' <= r /\ r' <= bound
    BY <1>7, <2>1
  <2> QED BY <1>1, <1>4, <2>1, <2>2
<1>11. CASE UNCHANGED Cl!vars
  BY <1>1, <1>11 DEF Cl!vars, f, o, r, Cl!Outstanding, RetriesLeft
<1> QED BY <1>5, <1>6, <1>8, <1>9, <1>10, <1>11 DEF Cl!Next

LEMMA ClientInit == Cl!ClientAssumption /\ Cl!Init => ClientInv
<1> SUFFICES ASSUME Cl!ClientAssumption, Cl!Init PROVE ClientInv
  OBVIOUS
<1>1. Cl!TypeOK /\ sendFailures = 0 /\ drained = 0
  BY DEF Cl!Init, Cl!TypeOK, Cl!Answers, Cl!ClientAssumption
<1>2. Cl!Outstanding = {}
  BY DEF Cl!Init, Cl!Outstanding
<1>3. Cardinality(Cl!Outstanding) = 0 /\ Cardinality(ClientCalls) \in Nat
  BY SameSets, <1>2, FS_EmptySet, FS_CardinalityType DEF Cl!ClientAssumption
<1> QED BY <1>1, <1>3 DEF ClientInv, Cl!CircuitOpen, Cl!ClientAssumption

(* An open circuit lets out what its outstanding calls still retry and       *)
(* nothing else, for any number of callers.                                  *)
THEOREM ClientDrains ==
  ASSUME Cl!ClientAssumption
  PROVE  Cl!Spec => [](Cl!TypeOK /\ Cl!OpenCircuitDrains)
<1>1. ClientInv => Cl!TypeOK /\ Cl!OpenCircuitDrains
  <2> SUFFICES ASSUME ClientInv PROVE Cl!TypeOK /\ Cl!OpenCircuitDrains
    OBVIOUS
  <2>1. Cl!TypeOK
    BY DEF ClientInv
  <2>2. ASSUME Cl!CircuitOpen
        PROVE  /\ sendFailures + Cardinality(Cl!Outstanding) < ClientThreshold + Cardinality(ClientCalls)
               /\ drained <= MaxRetries * (Cardinality(ClientCalls) - 1)
    <3> DEFINE n == Cardinality(ClientCalls)
               bound == MaxRetries * (n - 1)
    <3>1. MaxRetries \in Nat /\ n \in Nat /\ IsFiniteSet(RetriesLeft)
      <4>1. MaxRetries \in Nat /\ IsFiniteSet(ClientCalls)
        BY SameSets DEF Cl!ClientAssumption
      <4>2. IsFiniteSet(1..MaxRetries)
        BY <4>1, FS_Interval
      <4>3. IsFiniteSet(ClientCalls \X (1..MaxRetries))
        BY <4>1, <4>2, FS_Product
      <4> QED BY <4>1, <4>3, FS_Subset, FS_CardinalityType DEF RetriesLeft
    <3>2. Cardinality(RetriesLeft) \in Nat
      BY <3>1, FS_CardinalityType
    <3>3. drained \in Nat /\ drained + Cardinality(RetriesLeft) <= bound
      BY <2>1, <2>2 DEF ClientInv, Cl!TypeOK
    <3> HIDE DEF n
    <3>4. bound \in Int
      <4> DEFINE k == n - 1
      <4>1. k \in Int
        BY <3>1
      <4> HIDE DEF k
      <4>2. MaxRetries * k \in Int
        BY <3>1, <4>1
      <4> QED BY <4>2 DEF k
    <3> HIDE DEF bound
    <3>5. drained <= bound
      BY <3>2, <3>3, <3>4
    <3> QED BY <2>2, <3>5 DEF ClientInv, bound, n
  <2> QED BY <2>1, <2>2, SameCount DEF Cl!OpenCircuitDrains
<1> QED BY <1>1, ClientInit, ClientStep, PTL DEF Cl!Spec

(* With no call out only a new one begins, and that leaves the count alone.  *)
THEOREM OpenForGood == ASSUME Cl!ClientAssumption PROVE Cl!Spec => [][Cl!OpensForGood]_(Cl!vars)
<1>1. ASSUME Cl!TypeOK, Cl!Next PROVE Cl!OpensForGood
  <2>1. ASSUME NEW d \in ClientCalls, Cl!Decide(d) \/ Cl!Retry(d) \/ Cl!Raise(d) \/ Cl!Cancel(d)
        PROVE  Cl!OpensForGood
    <3>1. sendFailures' = sendFailures
      BY <2>1 DEF Cl!Decide, Cl!Retry, Cl!Raise, Cl!Cancel
    <3> QED BY <3>1 DEF Cl!OpensForGood, Cl!CircuitOpen
  <2>2. ASSUME NEW d \in ClientCalls, Cl!Fail(d) \/ Cl!Succeed(d)
        PROVE  Cl!OpensForGood
    <3>1. /\ posting[d] > 0 /\ posting' = [posting EXCEPT ![d] = 0]
          /\ answer' = [answer EXCEPT ![d] = "NO_DECISION"] \/ answer' = [answer EXCEPT ![d] = "OK"]
      BY <2>2 DEF Cl!Fail, Cl!Succeed, Cl!Ends
    <3>2. d \in Cl!Outstanding
      BY <3>1 DEF Cl!Outstanding, Cl!TypeOK
    <3>3. ASSUME NEW c \in ClientCalls, posting[c] # 0, posting'[c] = 0
          PROVE  answer'[c] \notin {"raised", "cancelled"}
      <4>1. c = d
        BY <1>1, <3>1, <3>3 DEF Cl!TypeOK
      <4> QED BY <1>1, <3>1, <4>1 DEF Cl!TypeOK
    <3> QED BY <3>2, <3>3 DEF Cl!OpensForGood
  <2> QED BY <1>1, <2>1, <2>2 DEF Cl!Next
<1>2. Cl!TypeOK /\ [Cl!Next]_(Cl!vars) => [Cl!OpensForGood]_(Cl!vars)
  BY <1>1
<1> QED BY <1>2, ClientDrains, PTL DEF Cl!Spec

-----------------------------------------------------------------------------
LEMMA SamplesType ==
  ASSUME Bu!TypeOK, NEW t \in Threads, Bu!WatcherSamples(t)
  PROVE  /\ watcher' \in [Threads -> [at : Bu!WatcherPlaces, found : Bu!Snapshots]]
         /\ seenBad' \in BOOLEAN
<1> USE DEF Bu!TypeOK, Bu!Snapshots, Bu!WatcherPlaces
<1>1. ASSUME NEW w \in [at : Bu!WatcherPlaces, found : Bu!Snapshots],
             watcher' = [watcher EXCEPT ![t] = w]
      PROVE  watcher' \in [Threads -> [at : Bu!WatcherPlaces, found : Bu!Snapshots]]
  BY <1>1
<1>2. \E w \in [at : Bu!WatcherPlaces, found : Bu!Snapshots] : watcher' = [watcher EXCEPT ![t] = w]
  BY DEF Bu!WatcherSamples, Bu!Absent
<1>3. watcher' \in [Threads -> [at : Bu!WatcherPlaces, found : Bu!Snapshots]]
  BY <1>1, <1>2
<1>4. seenBad' \in BOOLEAN
  BY Zenon DEF Bu!WatcherSamples, Bu!Sampled
<1> QED BY <1>3, <1>4

LEMMA BudgetTypeStep ==
  ASSUME Bu!BudgetAssumption, Bu!TypeOK, [Bu!Next]_(Bu!vars)
  PROVE  Bu!TypeOK'
<1> USE DEF Bu!TypeOK, Bu!Snapshots, Bu!WorkerPlaces, Bu!WatcherPlaces
<1>1. CASE Bu!Enter
  BY <1>1 DEF Bu!Enter
<1>2. CASE Bu!Look \/ Bu!BeginExit \/ Bu!Leave
  BY <1>2 DEF Bu!Look, Bu!BeginExit, Bu!Leave
<1>3. CASE Bu!AssertUnbreached \/ Bu!AssertSample
  BY <1>3 DEF Bu!AssertUnbreached, Bu!AssertSample, Bu!Breach, Bu!Sampled
<1>4. ASSUME NEW t \in Threads, Bu!WatcherSamples(t) PROVE Bu!TypeOK'
  BY <1>4, SamplesType DEF Bu!WatcherSamples
<1>5. ASSUME NEW t \in Threads, Bu!WatcherRecords(t) \/ Bu!WatcherWakes(t) PROVE Bu!TypeOK'
  BY <1>5 DEF Bu!WatcherRecords, Bu!WatcherWakes
<1>6. CASE Bu!HostChanges \/ UNCHANGED Bu!vars
  BY <1>6 DEF Bu!HostChanges, Bu!vars
<1> QED BY <1>1, <1>2, <1>3, <1>4, <1>5, <1>6 DEF Bu!Next

-----------------------------------------------------------------------------
(* While a join waits as long as a sample takes, no thread outlives its      *)
(* budget, and a bad sample is either on record or in the hands of the one   *)
(* watchdog, who records it before its thread can be joined.  By the last    *)
(* sample there is no watchdog, so nothing bad was seen.                     *)
NoThreadLeft ==
  /\ worker \in {"outside", "clean", "raised", "finishing", "last sample"} => thread = None
  /\ \A t \in Threads : watcher[t].at # "absent" => t = thread

BadIsKept ==
  worker \notin {"outside", "raised"} /\ seenBad =>
    breached \/ \E t \in Threads : watcher[t].at = "sampling" /\ watcher[t].found = "bad"

CleanSoFar == worker \in {"last sample", "clean"} => ~seenBad

BudgetInv == Bu!TypeOK /\ NoThreadLeft /\ BadIsKept /\ CleanSoFar

LEMMA ThreadStep ==
  ASSUME Bu!BudgetAssumption, SlowSamples = FALSE, Bu!TypeOK, NoThreadLeft, [Bu!Next]_(Bu!vars)
  PROVE  NoThreadLeft'
<1> USE DEF NoThreadLeft
<1>1. None \notin Threads
  BY DEF Bu!BudgetAssumption
<1>2. CASE Bu!Enter
  BY <1>1, <1>2 DEF Bu!Enter, Bu!TypeOK
<1>3. CASE Bu!Look \/ Bu!BeginExit
  BY <1>3 DEF Bu!Look, Bu!BeginExit
<1>4. CASE Bu!Leave
  BY <1>1, <1>4 DEF Bu!Leave, Bu!TypeOK
<1>5. CASE Bu!AssertUnbreached
  BY <1>5 DEF Bu!AssertUnbreached, Bu!Breach
<1>6. CASE Bu!AssertSample
  BY <1>6 DEF Bu!AssertSample, Bu!Breach
<1>7. ASSUME NEW t \in Threads, Bu!WatcherSamples(t) PROVE NoThreadLeft'
  BY <1>7 DEF Bu!WatcherSamples, Bu!Absent, Bu!TypeOK
<1>8. ASSUME NEW t \in Threads, Bu!WatcherRecords(t) \/ Bu!WatcherWakes(t) PROVE NoThreadLeft'
  BY <1>8 DEF Bu!WatcherRecords, Bu!WatcherWakes, Bu!TypeOK
<1>9. CASE Bu!HostChanges \/ UNCHANGED Bu!vars
  BY <1>9 DEF Bu!HostChanges, Bu!vars
<1> QED BY <1>2, <1>3, <1>4, <1>5, <1>6, <1>7, <1>8, <1>9 DEF Bu!Next

LEMMA BadStep ==
  ASSUME Bu!BudgetAssumption, SlowSamples = FALSE, BudgetInv, [Bu!Next]_(Bu!vars)
  PROVE  BadIsKept' /\ CleanSoFar'
<1> USE DEF BadIsKept, CleanSoFar
<1>1. None \notin Threads
  BY DEF Bu!BudgetAssumption
<1>2. /\ Bu!TypeOK /\ BadIsKept /\ CleanSoFar
      /\ worker \in {"clean", "raised", "finishing", "last sample"} =>
           \A t \in Threads : watcher[t].at = "absent"
  BY <1>1 DEF BudgetInv, NoThreadLeft
<1>3. CASE Bu!Enter
  BY <1>3 DEF Bu!Enter
<1>4. CASE Bu!Look \/ Bu!BeginExit
  <2>1. /\ worker = "working" /\ worker' \notin {"last sample", "clean"}
        /\ UNCHANGED <<watcher, breached, seenBad>>
    BY <1>4, Zenon DEF Bu!Look, Bu!BeginExit
  <2> QED BY <1>2, <2>1
<1>5. CASE Bu!Leave
  BY <1>2, <1>5 DEF Bu!Leave
<1>6. CASE Bu!AssertUnbreached
  BY <1>2, <1>6 DEF Bu!AssertUnbreached, Bu!Breach
<1>7. CASE Bu!AssertSample
  BY <1>2, <1>7 DEF Bu!AssertSample, Bu!Breach, Bu!Sampled, Bu!TypeOK, Bu!Snapshots
<1>8. ASSUME NEW t \in Threads, Bu!WatcherSamples(t) PROVE BadIsKept' /\ CleanSoFar'
  <2>1. worker \notin {"clean", "raised", "finishing", "last sample"}
    BY <1>2, <1>8 DEF Bu!WatcherSamples
  <2>2. CASE UNCHANGED seenBad /\ watcher' = [watcher EXCEPT ![t] = Bu!Absent]
    BY <1>2, <1>8, <2>1, <2>2 DEF Bu!WatcherSamples, Bu!TypeOK
  <2>3. CASE Bu!Sampled /\ watcher' = [watcher EXCEPT ![t] = [at |-> "sampling", found |-> budgetHost]]
    BY <1>2, <1>8, <2>1, <2>3 DEF Bu!WatcherSamples, Bu!Sampled, Bu!TypeOK
  <2>4. CASE watcher' = [watcher EXCEPT ![t] = [at |-> "sampling", found |-> "bad"]]
    <3>1. watcher'[t].at = "sampling" /\ watcher'[t].found = "bad"
      BY <1>2, <2>4 DEF Bu!TypeOK
    <3>2. worker' = worker
      BY <1>8 DEF Bu!WatcherSamples
    <3> QED BY <2>1, <3>1, <3>2
  <2> QED BY <1>8, <2>2, <2>3, <2>4 DEF Bu!WatcherSamples
<1>9. ASSUME NEW t \in Threads, Bu!WatcherRecords(t) PROVE BadIsKept' /\ CleanSoFar'
  BY <1>2, <1>9 DEF Bu!WatcherRecords, Bu!TypeOK
<1>10. ASSUME NEW t \in Threads, Bu!WatcherWakes(t) PROVE BadIsKept' /\ CleanSoFar'
  BY <1>2, <1>10 DEF Bu!WatcherWakes, Bu!TypeOK
<1>11. CASE Bu!HostChanges \/ UNCHANGED Bu!vars
  <2>1. UNCHANGED <<worker, watcher, breached, seenBad>>
    BY <1>11, Zenon DEF Bu!HostChanges, Bu!vars
  <2> QED BY <1>2, <2>1
<1> QED BY <1>3, <1>4, <1>5, <1>6, <1>7, <1>8, <1>9, <1>10, <1>11 DEF Bu!Next

LEMMA BudgetInvInit == Bu!BudgetAssumption /\ Bu!Init => BudgetInv
<1> SUFFICES ASSUME Bu!BudgetAssumption, Bu!Init PROVE BudgetInv
  OBVIOUS
<1>1. Bu!Absent \in [at : Bu!WatcherPlaces, found : Bu!Snapshots]
  BY DEF Bu!Absent, Bu!WatcherPlaces, Bu!Snapshots
<1>2. Bu!TypeOK
  BY <1>1 DEF Bu!Init, Bu!TypeOK, Bu!WorkerPlaces
<1>3. NoThreadLeft /\ BadIsKept /\ CleanSoFar
  BY DEF Bu!Init, NoThreadLeft, BadIsKept, CleanSoFar, Bu!Absent
<1> QED BY <1>2, <1>3 DEF BudgetInv

-----------------------------------------------------------------------------
(* The budget's variables stay in their types. *)
THEOREM BudgetTypeCorrect == ASSUME Bu!BudgetAssumption PROVE Bu!Spec => []Bu!TypeOK
<1>1. Bu!Init => Bu!TypeOK
  BY BudgetInvInit DEF BudgetInv
<1>2. Bu!TypeOK /\ [Bu!Next]_(Bu!vars) => Bu!TypeOK'
  BY BudgetTypeStep
<1> QED BY <1>1, <1>2, PTL DEF Bu!Spec

(* Work is declared clean only if no sample taken for it showed a violation, *)
(* whichever thread took it, if the join of the watchdog does not time out.  *)
THEOREM CleanIsClean == ASSUME Bu!BudgetAssumption PROVE Bu!Spec => []Bu!CleanMeansNothingSeen
<1>1. CASE SlowSamples = FALSE
  <2>1. Bu!Init => BudgetInv
    BY BudgetInvInit
  <2>2. BudgetInv /\ [Bu!Next]_(Bu!vars) => BudgetInv'
    BY <1>1, BudgetTypeStep, ThreadStep, BadStep DEF BudgetInv
  <2>3. BudgetInv => Bu!CleanMeansNothingSeen
    BY DEF BudgetInv, CleanSoFar, Bu!CleanMeansNothingSeen
  <2> QED BY <2>1, <2>2, <2>3, PTL DEF Bu!Spec
<1>2. CASE SlowSamples = TRUE
  <2>1. Bu!CleanMeansNothingSeen
    BY <1>2 DEF Bu!CleanMeansNothingSeen
  <2> QED BY <2>1, PTL
<1> QED BY <1>1, <1>2 DEF Bu!BudgetAssumption

-----------------------------------------------------------------------------
(* The protection supervisor.  A symbol whose saves all worked has in memory *)
(* what the store has, so that a restart brings back a record that was seen  *)
(* the way the venue's last answer was.                                      *)
Records == [levels : {"both", "stop", "none"}, state : Pr!States]

Backed(s) ==
  records[s] # None /\ records[s].state = "PROTECTED" =>
    /\ records[s].levels = "both"
    /\ seen[s] # None /\ seen[s].mark # "wrong"
    /\ seen[s].echo = "both" \/ (seen[s].armed /\ seen[s].fresh)

Remembered(s) == s \in failed \/ (records[s] = file[s] /\ Backed(s))

ProtectionInv ==
  /\ records \in [Symbols -> {None} \union Records]
  /\ file \in [Symbols -> {None} \union Records]
  /\ seen \in [Symbols -> {None} \union Pr!Views]
  /\ held \subseteq Symbols /\ failed \subseteq Symbols
  /\ \A s \in Symbols : Remembered(s)

LEMMA SavedRecord ==
  ASSUME ProtectionInv, NEW s \in Symbols, NEW r \in Records, Pr!Save(s, r)
  PROVE  /\ records' = [records EXCEPT ![s] = r]
         /\ records' \in [Symbols -> {None} \union Records]
         /\ file' \in [Symbols -> {None} \union Records]
         /\ failed' \subseteq Symbols
         /\ s \in failed' \/ (file'[s] = r /\ failed' = failed)
         /\ \A u \in Symbols \ {s} :
              /\ records'[u] = records[u] /\ file'[u] = file[u]
              /\ u \in failed' <=> u \in failed
BY DEF Pr!Save, ProtectionInv

LEMMA SavedIsRemembered ==
  ASSUME ProtectionInv, NEW s \in Symbols, NEW r \in Records, NEW v \in {None} \union Pr!Views,
         Pr!Save(s, r), seen' = [seen EXCEPT ![s] = v],
         held' \subseteq Symbols,
         r.state = "PROTECTED" =>
           /\ r.levels = "both" /\ v # None /\ v.mark # "wrong"
           /\ v.echo = "both" \/ (v.armed /\ v.fresh)
  PROVE  ProtectionInv'
<1>1. seen' \in [Symbols -> {None} \union Pr!Views] /\ seen'[s] = v
  BY DEF ProtectionInv
<1>2. Remembered(s)'
  <2>1. records'[s] = r
    BY SavedRecord DEF ProtectionInv
  <2>2. Backed(s)'
    BY <1>1, <2>1 DEF Backed
  <2>3. s \in failed' \/ file'[s] = r
    BY SavedRecord
  <2> QED BY <2>1, <2>2, <2>3 DEF Remembered
<1>3. ASSUME NEW u \in Symbols, u # s PROVE Remembered(u)'
  <2>1. /\ records'[u] = records[u] /\ file'[u] = file[u] /\ seen'[u] = seen[u]
        /\ u \in failed' <=> u \in failed
    BY <1>3, SavedRecord DEF ProtectionInv
  <2>2. Remembered(u)
    BY DEF ProtectionInv
  <2> QED BY <2>1, <2>2 DEF Remembered, Backed
<1> QED BY <1>1, <1>2, <1>3, SavedRecord DEF ProtectionInv

LEMMA ProtectionStep ==
  ASSUME Pr!ProtectionAssumption, ProtectionInv, [Pr!Next]_(Pr!vars)
  PROVE  ProtectionInv'
<1> DEFINE levels == {"both", "stop", "none"}
<1>1. ASSUME NEW s \in Symbols, NEW l \in levels, Pr!RegisterPosition(s, l)
      PROVE  ProtectionInv'
  <2> DEFINE r == [levels |-> l, state |-> "PENDING"]
  <2>1. r \in Records /\ r.state # "PROTECTED" /\ None \in {None} \union Pr!Views
    BY DEF Records, Pr!States
  <2>2. Pr!Save(s, r) /\ seen' = [seen EXCEPT ![s] = None] /\ held' \subseteq Symbols
    BY <1>1 DEF Pr!RegisterPosition, ProtectionInv
  <2> HIDE DEF r
  <2> QED BY <2>1, <2>2, SavedIsRemembered
<1>2. ASSUME NEW s \in Symbols, NEW v \in Pr!Views, Pr!Verify(s, v)
      PROVE  ProtectionInv'
  <2> DEFINE verdict == Pr!ReconcileProtection(records[s], v)
             r == [records[s] EXCEPT !.state = verdict]
  <2>1. records[s] \in Records
    BY <1>2 DEF Pr!Verify, ProtectionInv
  <2>2. verdict \in {"PROTECTED", "DEGRADED"}
    BY DEF Pr!ReconcileProtection
  <2>3. r \in Records /\ r.levels = records[s].levels /\ r.state = verdict
    BY <2>1, <2>2 DEF Records, Pr!States
  <2>4. v # None /\ v \in {None} \union Pr!Views
    BY DEF Pr!ProtectionAssumption
  <2>5. ASSUME verdict = "PROTECTED"
        PROVE  /\ records[s].levels = "both" /\ v.mark # "wrong"
               /\ v.echo = "both" \/ (v.armed /\ v.fresh)
    BY <2>5 DEF Pr!ReconcileProtection
  <2>6. Pr!Save(s, r) /\ seen' = [seen EXCEPT ![s] = v] /\ held' \subseteq Symbols
    BY <1>2 DEF Pr!Verify, ProtectionInv
  <2> HIDE DEF r, verdict
  <2> QED BY <2>3, <2>4, <2>5, <2>6, SavedIsRemembered
<1>3. ASSUME NEW s \in Symbols, Pr!MarkUnknown(s) \/ Pr!Close(s)
      PROVE  ProtectionInv'
  <2> DEFINE r(state) == [records[s] EXCEPT !.state = state]
  <2>1. records[s] \in Records /\ seen[s] \in {None} \union Pr!Views
    BY <1>3 DEF Pr!MarkUnknown, Pr!Close, ProtectionInv
  <2>2. /\ r("UNKNOWN") \in Records /\ r("UNKNOWN").state # "PROTECTED"
        /\ r("CLOSED") \in Records /\ r("CLOSED").state # "PROTECTED"
    BY <2>1 DEF Records, Pr!States
  <2>3. seen' = [seen EXCEPT ![s] = seen[s]] /\ held' \subseteq Symbols
    BY <1>3 DEF Pr!MarkUnknown, Pr!Close, ProtectionInv
  <2>4. Pr!Save(s, r("UNKNOWN")) \/ Pr!Save(s, r("CLOSED"))
    BY <1>3 DEF Pr!MarkUnknown, Pr!Close
  <2> HIDE DEF r
  <2> QED BY <2>1, <2>2, <2>3, <2>4, SavedIsRemembered
<1>4. CASE Pr!Restart
  BY <1>4 DEF Pr!Restart, ProtectionInv, Remembered, Backed
<1>5. CASE UNCHANGED Pr!vars
  BY <1>5 DEF Pr!vars, ProtectionInv, Remembered, Backed
<1> QED BY <1>1, <1>2, <1>3, <1>4, <1>5 DEF Pr!Next

LEMMA ProtectionInit == Pr!Init => ProtectionInv
BY DEF Pr!Init, ProtectionInv, Remembered, Backed

LEMMA ProtectionShows == ProtectionInv => Pr!TypeOK /\ Pr!ProtectedIsReadBack
<1> SUFFICES ASSUME ProtectionInv PROVE Pr!TypeOK /\ Pr!ProtectedIsReadBack
  OBVIOUS
<1>1. Pr!TypeOK
  BY DEF Pr!TypeOK, ProtectionInv, Records
<1>2. Pr!ProtectedIsReadBack
  BY DEF Pr!ProtectedIsReadBack, Pr!Known, ProtectionInv, Remembered, Backed
<1> QED BY <1>1, <1>2

(* A record that says PROTECTED was read back so, for any symbols, whatever  *)
(* saves failed for others and however often the process restarted.          *)
THEOREM ProtectedWasReadBack ==
  ASSUME Pr!ProtectionAssumption
  PROVE  Pr!Spec => [](Pr!TypeOK /\ Pr!ProtectedIsReadBack)
BY ProtectionInit, ProtectionStep, ProtectionShows, PTL DEF Pr!Spec

(* Where every save worked a restart finds the records it left.              *)
THEOREM RestartFindsTheRecords ==
  ASSUME Pr!ProtectionAssumption
  PROVE  Pr!Spec => [][Pr!RestartKeepsParking]_(Pr!vars)
<1>1. ASSUME ProtectionInv, [Pr!Next]_(Pr!vars) PROVE [Pr!RestartKeepsParking]_(Pr!vars)
  <2> SUFFICES ASSUME Pr!Restart, failed = {}
               PROVE  /\ Pr!EntriesParked(records) => Pr!EntriesParked(records')
                      /\ Pr!RecoveredGate(records', FALSE, TRUE) = "READY" => held = Pr!Open(records)
    BY DEF Pr!RestartKeepsParking
  <2>1. records' = records
    <3>1. \A s \in Symbols : records[s] = file[s]
      BY <1>1 DEF ProtectionInv, Remembered
    <3> QED BY <1>1, <3>1 DEF Pr!Restart, ProtectionInv
  <2>2. Pr!RecoveredGate(records, FALSE, TRUE) = "READY" => held = Pr!Open(records)
    BY DEF Pr!RecoveredGate
  <2> QED BY <2>1, <2>2
<1> QED BY <1>1, ProtectionInit, ProtectionStep, PTL DEF Pr!Spec

-----------------------------------------------------------------------------
(* A behaviour of the guards is one of a single part, for good: the part's   *)
(* own specification holds of it, or the part never runs.                    *)
LEMMA BreakersAlone == Spec => ([](part = "breakers") /\ Br!Spec) \/ []~(part = "breakers")
<1>1. Init /\ part = "breakers" => Br!Init
  BY DEF Init
<1>2. part = "breakers" /\ [Next]_vars => [Br!Next]_(Br!vars) /\ (part = "breakers")'
  BY DEF Next, vars, monitorVars, loopVars, circuitVars, clientVars, budgetVars, protectionVars, Br!vars
<1>3. ~(part = "breakers") /\ [Next]_vars => ~(part = "breakers")'
  BY DEF Next, vars
<1> QED BY <1>1, <1>2, <1>3, PTL DEF Spec, Br!Spec

LEMMA CircuitAlone == Spec => ([](part = "circuit") /\ Ci!Spec) \/ []~(part = "circuit")
<1>1. Init /\ part = "circuit" => Ci!Init
  BY DEF Init
<1>2. part = "circuit" /\ [Next]_vars => [Ci!Next]_(Ci!vars) /\ (part = "circuit")'
  BY DEF Next, vars, monitorVars, loopVars, circuitVars, clientVars, budgetVars, protectionVars, Ci!vars
<1>3. ~(part = "circuit") /\ [Next]_vars => ~(part = "circuit")'
  BY DEF Next, vars
<1> QED BY <1>1, <1>2, <1>3, PTL DEF Spec, Ci!Spec

LEMMA ClientAlone == Spec => ([](part = "client") /\ Cl!Spec) \/ []~(part = "client")
<1>1. Init /\ part = "client" => Cl!Init
  BY DEF Init
<1>2. part = "client" /\ [Next]_vars => [Cl!Next]_(Cl!vars) /\ (part = "client")'
  BY DEF Next, vars, monitorVars, loopVars, circuitVars, clientVars, budgetVars, protectionVars, Cl!vars
<1>3. ~(part = "client") /\ [Next]_vars => ~(part = "client")'
  BY DEF Next, vars
<1> QED BY <1>1, <1>2, <1>3, PTL DEF Spec, Cl!Spec

LEMMA BudgetAlone == Spec => ([](part = "budget") /\ Bu!Spec) \/ []~(part = "budget")
<1>1. Init /\ part = "budget" => Bu!Init
  BY DEF Init
<1>2. part = "budget" /\ [Next]_vars => [Bu!Next]_(Bu!vars) /\ (part = "budget")'
  BY DEF Next, vars, monitorVars, loopVars, circuitVars, clientVars, budgetVars, protectionVars, Bu!vars
<1>3. ~(part = "budget") /\ [Next]_vars => ~(part = "budget")'
  BY DEF Next, vars
<1> QED BY <1>1, <1>2, <1>3, PTL DEF Spec, Bu!Spec

LEMMA ProtectionAlone == Spec => ([](part = "protection") /\ Pr!Spec) \/ []~(part = "protection")
<1>1. Init /\ part = "protection" => Pr!Init
  BY DEF Init
<1>2. part = "protection" /\ [Next]_vars => [Pr!Next]_(Pr!vars) /\ (part = "protection")'
  BY DEF Next, vars, monitorVars, loopVars, circuitVars, clientVars, budgetVars, protectionVars, Pr!vars
<1>3. ~(part = "protection") /\ [Next]_vars => ~(part = "protection")'
  BY DEF Next, vars
<1> QED BY <1>1, <1>2, <1>3, PTL DEF Spec, Pr!Spec

-----------------------------------------------------------------------------
(* While saves work, no restart forgets a trip. *)
THEOREM NoTripIsLost == Spec => []NothingToLose
<1>1. Br!Spec => [](Br!TypeOK /\ Br!NothingToLose)
  BY Br!NothingIsLost, PartsAssumption
<1>2. Br!TypeOK /\ Br!NothingToLose => NothingToLose
  BY DEF NothingToLose
<1>3. ~(part = "breakers") => NothingToLose
  BY DEF NothingToLose
<1> QED BY <1>1, <1>2, <1>3, BreakersAlone, PTL

(* Only a restart makes a monitor's trip nobody's, and a trip of the         *)
(* operator's is the operator's to clear.                                    *)
THEOREM TripsHaveOwners == Spec => TripsAreOwned
<1>1. Br!Spec => [][Br!MonitorOwnsItsTrips]_(Br!vars)
  BY Br!MonitorsOwnTheirTrips, PartsAssumption
<1>2. Br!Spec => [][Br!UnraisedOperatorTripStays]_(Br!vars)
  BY Br!OperatorsTripStays, PartsAssumption
<1> DEFINE Owned == part = "breakers" => Br!MonitorOwnsItsTrips /\ Br!UnraisedOperatorTripStays
<1>3. [Br!MonitorOwnsItsTrips]_(Br!vars) /\ [Br!UnraisedOperatorTripStays]_(Br!vars) => [Owned]_vars
  BY DEF vars, monitorVars, Br!vars, Br!MonitorOwnsItsTrips, Br!UnraisedOperatorTripStays, Br!Disowned
<1>4. ~(part = "breakers") => [Owned]_vars
  OBVIOUS
<1> QED BY <1>1, <1>2, <1>3, <1>4, BreakersAlone, PTL DEF TripsAreOwned

(* Cycles take back what the monitors know for theirs, ticks park what is bad. *)
THEOREM MonitorsFollowIt == Spec => MonitorsFollowTheHost
<1>1. Br!Spec => [](Br!TypeOK /\ Br!NothingToLose /\ Br!FlagsAreAttached)
  BY Br!FlagsStayAttached, PartsAssumption
<1> DEFINE Follow == part = "breakers" => Br!FreshBeatRecovers /\ Br!TickParksWhatIsBad
<1>2. Br!TypeOK /\ Br!NothingToLose /\ Br!FlagsAreAttached /\ [Br!Next]_(Br!vars) => [Follow]_vars
  BY Br!FollowStep, PartsAssumption
<1>3. ~(part = "breakers") => [Follow]_vars
  OBVIOUS
<1> QED BY <1>1, <1>2, <1>3, BreakersAlone, PTL DEF MonitorsFollowTheHost, Br!Spec

(* Both circuits keep to their thresholds, for any number of callers. *)
THEOREM CircuitsCount == Spec => []CircuitsKeepTheirCount
<1>1. Ci!Spec => [](Ci!TypeOK /\ Ci!CountRespectsThreshold)
  BY CountIsBounded, PartsAssumption
<1>2. Cl!Spec => [](Cl!TypeOK /\ Cl!OpenCircuitDrains)
  BY ClientDrains, PartsAssumption
<1>3. ~(part = "client") /\ Ci!TypeOK /\ Ci!CountRespectsThreshold => CircuitsKeepTheirCount
  BY DEF CircuitsKeepTheirCount
<1>4. ~(part = "circuit") /\ Cl!TypeOK /\ Cl!OpenCircuitDrains => CircuitsKeepTheirCount
  BY DEF CircuitsKeepTheirCount
<1>5. /\ part = "circuit" => ~(part = "client")
      /\ ~(part = "circuit") /\ ~(part = "client") => CircuitsKeepTheirCount
  BY DEF CircuitsKeepTheirCount
<1> QED BY <1>1, <1>2, <1>3, <1>4, <1>5, CircuitAlone, ClientAlone, PTL

(* The provider's circuit is closed by its health alone, the client's by     *)
(* nothing once its calls have ended.                                        *)
THEOREM CircuitsStay == Spec => CircuitsStayOpen
<1>1. Ci!Spec => [][Ci!OnlyHealthCloses]_(Ci!vars)
  BY OnlyHealthClosesIt, PartsAssumption
<1>2. Cl!Spec => [][Cl!OpensForGood]_(Cl!vars)
  BY OpenForGood, PartsAssumption
<1> DEFINE Stay == /\ part = "circuit" => Ci!OnlyHealthCloses
                   /\ part = "client" => Cl!OpensForGood
<1>3. [Ci!OnlyHealthCloses]_(Ci!vars) /\ ~(part = "client") => [Stay]_vars
  BY DEF vars, circuitVars, Ci!vars, Ci!OnlyHealthCloses
<1>4. [Cl!OpensForGood]_(Cl!vars) /\ ~(part = "circuit") => [Stay]_vars
  BY DEF vars, clientVars, Cl!vars, Cl!OpensForGood, Cl!CircuitOpen
<1>5. /\ part = "circuit" => ~(part = "client")
      /\ ~(part = "circuit") /\ ~(part = "client") => [Stay]_vars
  OBVIOUS
<1> HIDE DEF Stay
<1>6. Spec => [][Stay]_vars
  BY <1>1, <1>2, <1>3, <1>4, <1>5, CircuitAlone, ClientAlone, PTL
<1> QED BY <1>6 DEF CircuitsStayOpen, Stay

(* Clean work was never seen over its budget. *)
THEOREM CleanWasClean == Spec => []CleanMeansNothingSeen
<1>1. Bu!Spec => []Bu!TypeOK
  BY BudgetTypeCorrect, PartsAssumption
<1>2. Bu!Spec => []Bu!CleanMeansNothingSeen
  BY CleanIsClean, PartsAssumption
<1>3. Bu!TypeOK /\ Bu!CleanMeansNothingSeen => CleanMeansNothingSeen
  BY DEF CleanMeansNothingSeen
<1>4. ~(part = "budget") => CleanMeansNothingSeen
  BY DEF CleanMeansNothingSeen
<1> QED BY <1>1, <1>2, <1>3, <1>4, BudgetAlone, PTL

(* No record claims protection that was not read back, and parking survives. *)
THEOREM ProtectionWasReadBack == Spec => ProtectionIsReadBack
<1> DEFINE Shown == part = "protection" => Pr!TypeOK /\ Pr!ProtectedIsReadBack
           Kept == part = "protection" => Pr!RestartKeepsParking
<1>1. Pr!Spec => [](Pr!TypeOK /\ Pr!ProtectedIsReadBack)
  BY ProtectedWasReadBack, PartsAssumption
<1>2. Pr!Spec => [][Pr!RestartKeepsParking]_(Pr!vars)
  BY RestartFindsTheRecords, PartsAssumption
<1>3. Pr!TypeOK /\ Pr!ProtectedIsReadBack => Shown
  OBVIOUS
<1>4. Pr!TypeOK /\ Pr!ProtectedIsReadBack /\ [Pr!RestartKeepsParking]_(Pr!vars) => [Kept]_vars
  <2> SUFFICES ASSUME UNCHANGED Pr!vars PROVE Pr!RestartKeepsParking
    BY DEF vars
  <2> QED BY DEF Pr!vars, Pr!RestartKeepsParking, Pr!RecoveredGate, Pr!EntriesParked, Pr!Known, Pr!Open
<1>5. ~(part = "protection") => Shown /\ [Kept]_vars
  OBVIOUS
<1> QED BY <1>1, <1>2, <1>3, <1>4, <1>5, ProtectionAlone, PTL DEF ProtectionIsReadBack
=============================================================================

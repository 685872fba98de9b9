--------------------------- MODULE Evaluation_proofs ---------------------------
(* Theorems of what the evidence is made of, each about the behaviours of    *)
(* one part.                                                                 *)
EXTENDS Evaluation, DataTheorems

-----------------------------------------------------------------------------
(* The corpus, for any symbols, retries, thresholds and number of runs that  *)
(* end anywhere.                                                             *)

Requesting == {"candles", "funding"}
AtSpec == Requesting \union {"spec", "judge"}

(* The client: the circuit is closed while a request is tried again, and a   *)
(* closed one has counted less than the threshold before this request.       *)
ClientInv ==
  /\ at \in {"spec", "judge", "manifest"} => attempt = 0
  /\ attempt > 0 => ~circuitOpen
  /\ ~circuitOpen => failures < Threshold + attempt

(* What the run has found: of specs before the one in hand, on disk as it    *)
(* says, and of the quality asked for.                                       *)
FoundInv ==
  /\ at \in AtSpec => spec <= Len(Specs)
  /\ at \in AtSpec => \A e \in entries : \E i \in 1..(spec - 1) : e.symbol = Specs[i]
  /\ at # "idle" =>
       \A e \in entries : disk[e.symbol] = e.data /\ e.data.quality >= options.quality

CorpusInv == Cr!TypeOK /\ ClientInv /\ FoundInv /\ Cr!OnlyValidatedIsKept

LEMMA CorpusGiven == Cr!CorpusAssumption
BY PartsAssumption

LEMMA SpecsAre ==
  /\ Len(Specs) \in Nat \ {0} /\ DOMAIN Specs = 1..Len(Specs)
  /\ \A i \in 1..Len(Specs) : Specs[i] \in Symbols
  /\ \A i, j \in 1..Len(Specs) : i # j => Specs[i] # Specs[j]
BY CorpusGiven DEF Cr!CorpusAssumption

(* Where a run goes from a spec. *)
LEMMA GoesOn ==
  ASSUME Cr!TypeOK, FoundInv, at \in AtSpec, NEW S, Cr!GoOn(S)
  PROVE  /\ attempt' = 0 /\ spec' \in 1..(Len(Specs) + 1) /\ spec' <= Len(Specs)
         /\ at' \in {"spec", "idle", "manifest"}
         /\ at' = "spec" => spec' = spec + 1
BY SpecsAre DEF Cr!TypeOK, FoundInv, Cr!GoOn, AtSpec

LEMMA CorpusTypeStep ==
  ASSUME CorpusInv, [Cr!Next]_(Cr!vars)
  PROVE  Cr!TypeOK'
<1> USE DEF CorpusInv, Cr!TypeOK, Cr!run, Cr!client, Cr!found
<1>0. MaxRetries \in Nat /\ MaxTime \in Nat /\ MaxRuns \in Nat /\ Threshold \in Nat \ {0}
  BY CorpusGiven DEF Cr!CorpusAssumption
<1>1. at \in AtSpec => Cr!Symbol \in Symbols
  BY SpecsAre DEF Cr!Symbol, FoundInv
<1>2. ASSUME at \in AtSpec, NEW r \in {"quality", "network"}, Cr!Reject(r)
      PROVE  /\ attempt' \in 0..MaxRetries /\ spec' \in 1..(Len(Specs) + 1)
             /\ at' \in {"idle", "spec", "candles", "funding", "judge", "manifest"}
             /\ rejected' \in [Symbols -> {None, "quality", "network"}] /\ entries' \subseteq Cr!Entries
  <2>1. Cr!GoOn(entries) /\ UNCHANGED entries /\ rejected' = [rejected EXCEPT ![Cr!Symbol] = r]
    BY <1>2 DEF Cr!Reject
  <2>2. attempt' = 0 /\ spec' \in 1..(Len(Specs) + 1) /\ at' \in {"spec", "idle", "manifest"}
    BY <1>2, <2>1, GoesOn
  <2> QED BY <1>0, <1>1, <1>2, <2>1, <2>2
<1>3. ASSUME at \in AtSpec, NEW data \in Cr!Datasets, Cr!Accept(data)
      PROVE  /\ attempt' \in 0..MaxRetries /\ spec' \in 1..(Len(Specs) + 1)
             /\ at' \in {"idle", "spec", "candles", "funding", "judge", "manifest"}
             /\ rejected' \in [Symbols -> {None, "quality", "network"}] /\ entries' \subseteq Cr!Entries
  <2>1. Cr!GoOn(entries') /\ UNCHANGED rejected /\ entries' = entries \union {Cr!Entry(data)}
    BY <1>3 DEF Cr!Accept
  <2>2. attempt' = 0 /\ spec' \in 1..(Len(Specs) + 1) /\ at' \in {"spec", "idle", "manifest"}
    BY <1>3, <2>1, GoesOn
  <2>3. Cr!Entry(data) \in Cr!Entries
    BY <1>1, <1>3 DEF Cr!Entry, Cr!Entries
  <2> QED BY <1>0, <2>1, <2>2, <2>3
<1>4. circuitOpen \/ failures < Threshold + attempt
  BY DEF ClientInv
<1>5. ASSUME Cr!Sends PROVE failures + 1 \in 0..(Threshold + MaxRetries)
  BY <1>0, <1>4, <1>5 DEF Cr!Sends, Cr!Asking, ClientInv
<1>6. CASE \E o \in [force : BOOLEAN, quality : 1..2] : Cr!StartRun(o)
  <2>1. PICK o \in [force : BOOLEAN, quality : 1..2] : Cr!StartRun(o)
    BY <1>6
  <2>2. options' \in [force : BOOLEAN, quality : 1..2] /\ runs' \in 0..MaxRuns /\ at' = "spec"
    BY <1>0, <2>1 DEF Cr!StartRun
  <2>3. spec' \in 1..(Len(Specs) + 1) /\ attempt' \in 0..MaxRetries
        /\ failures' \in 0..(Threshold + MaxRetries) /\ circuitOpen' = FALSE
    BY <1>0, <2>1, SpecsAre DEF Cr!StartRun
  <2>4. /\ entries' = {} /\ asked' = {} /\ UNCHANGED <<disk, manifest, clock>>
        /\ rejected' \in [Symbols -> {None, "quality", "network"}]
    BY <2>1 DEF Cr!StartRun
  <2> QED BY <2>2, <2>3, <2>4
<1>7. CASE Cr!Reuse
  <2>1. at \in AtSpec /\ UNCHANGED <<options, failures, circuitOpen, disk, manifest, clock, runs, asked>>
    BY <1>7 DEF Cr!Reuse, AtSpec
  <2>2. CASE disk[Cr!Symbol] = Torn
    <3>1. at' = "idle" /\ UNCHANGED <<spec, attempt, entries, rejected>>
      BY <1>7, <2>2 DEF Cr!Reuse
    <3> QED BY <2>1, <3>1
  <2>3. CASE disk[Cr!Symbol] # Torn
    <3>1. disk[Cr!Symbol] \in Cr!Datasets
      BY <1>1, <1>7, <2>1, <2>3 DEF Cr!Reuse
    <3>2. Cr!Accept(disk[Cr!Symbol]) \/ Cr!Reject("quality")
      BY <1>7, <2>3 DEF Cr!Reuse
    <3> QED BY <1>2, <1>3, <2>1, <3>1, <3>2
  <2> QED BY <2>2, <2>3
<1>8. CASE Cr!Acquire
  BY <1>8 DEF Cr!Acquire
<1>9. CASE Cr!CircuitIsOpen
  BY <1>2, <1>9 DEF Cr!CircuitIsOpen, Cr!Asking, AtSpec, Requesting
<1>10. ASSUME Cr!Sends, Cr!Asks PROVE asked' \subseteq Symbols /\ at \in AtSpec
  BY <1>1, <1>10 DEF Cr!Sends, Cr!Asks, Cr!Asking, AtSpec, Requesting
<1>11. CASE Cr!TransportFails
  <2>1. asked' \subseteq Symbols /\ at \in AtSpec /\ UNCHANGED <<options, disk, manifest, clock, runs>>
        /\ failures + 1 \in 0..(Threshold + MaxRetries) /\ failures' = failures + 1
    BY <1>5, <1>10, <1>11 DEF Cr!TransportFails, Cr!Asks, Cr!Counts
  <2>2. CASE attempt < MaxRetries
    <3>1. attempt' = attempt + 1 /\ UNCHANGED <<at, spec, entries, rejected, circuitOpen>>
      BY <1>11, <2>2 DEF Cr!TransportFails
    <3> QED BY <1>0, <2>1, <2>2, <3>1
  <2>3. CASE ~(attempt < MaxRetries)
    <3>1. Cr!Reject("network") /\ circuitOpen' = (circuitOpen \/ failures' >= Threshold)
      BY <1>11, <2>3 DEF Cr!TransportFails, Cr!Counts
    <3>2. circuitOpen' \in BOOLEAN
      BY <3>1, Zenon
    <3> QED BY <1>2, <2>1, <3>1, <3>2
  <2> QED BY <2>2, <2>3
<1>12. CASE Cr!TriesAgain
  BY <1>0, <1>10, <1>12 DEF Cr!TriesAgain, Cr!Asks
<1>13. CASE Cr!Refused
  <2>1. asked' \subseteq Symbols /\ at \in AtSpec /\ UNCHANGED <<options, disk, manifest, clock, runs>>
        /\ failures + 1 \in 0..(Threshold + MaxRetries) /\ failures' = failures + 1
        /\ Cr!Reject("network") /\ circuitOpen' = (circuitOpen \/ failures' >= Threshold)
    BY <1>5, <1>10, <1>13 DEF Cr!Refused, Cr!Asks, Cr!Counts
  <2>2. circuitOpen' \in BOOLEAN
    BY <2>1, Zenon
  <2> QED BY <1>2, <2>1, <2>2
<1>14. CASE Cr!SchemaRejected
  BY <1>0, <1>2, <1>10, <1>14 DEF Cr!SchemaRejected, Cr!Asks
<1>15. CASE Cr!Answered
  BY <1>0, <1>10, <1>15 DEF Cr!Answered, Cr!Asks
<1>16. CASE Cr!Judge
  <2>1. at \in AtSpec /\ UNCHANGED <<options, failures, circuitOpen, manifest, clock, runs, asked>>
    BY <1>16 DEF Cr!Judge, AtSpec
  <2>2. PICK q, data :
           /\ q \in Cr!Qualities /\ data = [quality |-> q, fetched |-> clock]
           /\ \/ Cr!Passes(q) /\ disk' = [disk EXCEPT ![Cr!Symbol] = data] /\ Cr!Accept(data)
              \/ Cr!Reject("quality") /\ UNCHANGED disk
    BY <1>16 DEF Cr!Judge
  <2>3. data \in Cr!Datasets
    BY <2>2 DEF Cr!Datasets
  <2> QED BY <1>1, <1>2, <1>3, <2>1, <2>2, <2>3
<1>17. CASE Cr!WriteManifest \/ Cr!TimePasses \/ UNCHANGED Cr!vars
  BY <1>0, <1>17 DEF Cr!WriteManifest, Cr!TimePasses, Cr!vars
<1>18. CASE Cr!Crash
  BY <1>1, <1>18 DEF Cr!Crash, AtSpec
<1> QED BY <1>6, <1>7, <1>8, <1>9, <1>11, <1>12, <1>13, <1>14, <1>15, <1>16, <1>17, <1>18
        DEF Cr!Next

LEMMA ClientStep ==
  ASSUME CorpusInv, [Cr!Next]_(Cr!vars)
  PROVE  ClientInv'
<1> USE DEF CorpusInv, Cr!TypeOK, ClientInv, Cr!run, Cr!client, Cr!found
<1>0. MaxRetries \in Nat /\ Threshold \in Nat \ {0} /\ attempt \in 0..MaxRetries /\ failures \in Int
  BY CorpusGiven DEF Cr!CorpusAssumption
<1>1. \A r, data : at \in AtSpec /\ (Cr!Reject(r) \/ Cr!Accept(data)) =>
        attempt' = 0 /\ at' \in {"spec", "idle", "manifest"}
  BY GoesOn DEF Cr!Reject, Cr!Accept
<1>2. CASE \E o \in [force : BOOLEAN, quality : 1..2] : Cr!StartRun(o)
  BY <1>0, <1>2 DEF Cr!StartRun
<1>3. CASE Cr!Reuse
  <2>1. at \in AtSpec /\ attempt = 0 /\ UNCHANGED <<failures, circuitOpen>>
        /\ \/ at' = "idle" /\ attempt' = attempt
           \/ Cr!Accept(disk[Cr!Symbol]) \/ Cr!Reject("quality")
    BY <1>3 DEF Cr!Reuse, AtSpec
  <2>2. attempt' = 0
    BY <1>1, <2>1
  <2> QED BY <2>1, <2>2
<1>4. CASE Cr!Acquire
  BY <1>4 DEF Cr!Acquire
<1>5. CASE Cr!CircuitIsOpen
  <2>1. attempt' = 0
    BY <1>1, <1>5 DEF Cr!CircuitIsOpen, Cr!Asking, AtSpec, Requesting
  <2> QED BY <1>5, <2>1 DEF Cr!CircuitIsOpen
<1>6. ASSUME Cr!Sends PROVE ~circuitOpen /\ at \in AtSpec /\ at \in Requesting
  BY <1>0, <1>6 DEF Cr!Sends, Cr!Asking, AtSpec, Requesting
<1>7. CASE Cr!TransportFails
  <2>1. failures' = failures + 1 /\ ~circuitOpen /\ at \in AtSpec /\ at \in Requesting
    BY <1>6, <1>7 DEF Cr!TransportFails, Cr!Counts
  <2>2. CASE attempt < MaxRetries
    BY <1>0, <1>7, <2>1, <2>2 DEF Cr!TransportFails, Requesting
  <2>3. CASE ~(attempt < MaxRetries)
    <3>1. attempt' = 0 /\ circuitOpen' = (circuitOpen \/ failures' >= Threshold)
      BY <1>1, <1>7, <2>1, <2>3 DEF Cr!TransportFails, Cr!Counts
    <3>2. ~circuitOpen' => ~(failures' >= Threshold)
      BY <3>1, Zenon
    <3> QED BY <1>0, <2>1, <3>1, <3>2
  <2> QED BY <2>2, <2>3
<1>8. CASE Cr!TriesAgain
  BY <1>0, <1>6, <1>8 DEF Cr!TriesAgain, Requesting
<1>9. CASE Cr!Refused
  <2>1. attempt' = 0 /\ failures' = failures + 1 /\ circuitOpen' = (circuitOpen \/ failures' >= Threshold)
    BY <1>1, <1>6, <1>9 DEF Cr!Refused, Cr!Counts
  <2>2. ~circuitOpen' => ~(failures' >= Threshold)
    BY <2>1, Zenon
  <2> QED BY <1>0, <2>1, <2>2
<1>10. CASE Cr!SchemaRejected
  <2>1. attempt' = 0 /\ failures' = 0
    BY <1>1, <1>6, <1>10 DEF Cr!SchemaRejected
  <2> QED BY <1>0, <2>1
<1>11. CASE Cr!Answered
  BY <1>0, <1>11 DEF Cr!Answered
<1>12. CASE Cr!Judge
  <2>1. attempt = 0 /\ UNCHANGED <<failures, circuitOpen>> /\ at \in AtSpec
        /\ \E data : Cr!Accept(data) \/ Cr!Reject("quality")
    BY <1>12 DEF Cr!Judge, AtSpec
  <2>2. attempt' = 0
    BY <1>1, <2>1
  <2> QED BY <2>1, <2>2
<1>13. CASE Cr!WriteManifest \/ Cr!Crash \/ Cr!TimePasses \/ UNCHANGED Cr!vars
  BY <1>13 DEF Cr!WriteManifest, Cr!Crash, Cr!TimePasses, Cr!vars
<1> QED BY <1>2, <1>3, <1>4, <1>5, <1>7, <1>8, <1>9, <1>10, <1>11, <1>12, <1>13 DEF Cr!Next

(* What the steps that end with a spec do to what was found. *)
LEMMA FoundStays ==
  ASSUME CorpusInv, UNCHANGED <<entries, disk, options>>, at # "idle",
         \/ at' = "idle"
         \/ at' \in AtSpec /\ spec' = spec /\ at \in AtSpec
         \/ at \in AtSpec /\ Cr!GoOn(entries)
         \/ at' = at /\ spec' = spec
  PROVE  FoundInv'
<1> USE DEF CorpusInv, Cr!TypeOK, FoundInv
<1>1. CASE at \in AtSpec /\ Cr!GoOn(entries)
  <2>1. at' \in {"spec", "idle", "manifest"} /\ (at' = "spec" => spec' = spec + 1) /\ spec' <= Len(Specs)
    BY <1>1, GoesOn
  <2>2. at' \in AtSpec => at' = "spec"
    BY <2>1 DEF AtSpec, Requesting
  <2>3. at' \in AtSpec => \A e \in entries : \E i \in 1..(spec' - 1) : e.symbol = Specs[i]
    BY <1>1, <2>1, <2>2, SpecsAre
  <2> QED BY <1>1, <2>1, <2>3
<1>2. CASE at' = "idle" \/ (at' \in AtSpec /\ spec' = spec /\ at \in AtSpec) \/ (at' = at /\ spec' = spec)
  BY <1>2 DEF AtSpec, Requesting
<1> QED BY <1>1, <1>2

(* An entry is made of what is on disk then. *)
LEMMA FoundGrows ==
  ASSUME CorpusInv, at \in AtSpec, NEW data, Cr!Accept(data), Cr!Passes(data.quality),
         UNCHANGED options, disk'[Cr!Symbol] = data,
         \A s \in Symbols : s # Cr!Symbol => disk'[s] = disk[s]
  PROVE  FoundInv'
<1> USE DEF CorpusInv, Cr!TypeOK, FoundInv
<1>1. entries' = entries \union {Cr!Entry(data)} /\ Cr!GoOn(entries')
  BY DEF Cr!Accept
<1>2. at' \in {"spec", "idle", "manifest"} /\ (at' = "spec" => spec' = spec + 1) /\ spec' <= Len(Specs)
  BY <1>1, GoesOn
<1>3. at' \in AtSpec => at' = "spec"
  BY <1>2 DEF AtSpec, Requesting
<1>4. spec \in 1..Len(Specs) /\ Cr!Symbol = Specs[spec]
  BY SpecsAre DEF Cr!Symbol
<1>5. \A e \in entries : \E i \in 1..(spec - 1) : e.symbol = Specs[i]
  OBVIOUS
<1>6. \A e \in entries : e.symbol \in Symbols /\ e.symbol # Cr!Symbol
  BY <1>4, <1>5, SpecsAre
<1>7. Cr!Entry(data).symbol = Cr!Symbol /\ Cr!Entry(data).data = data
  BY DEF Cr!Entry
<1>8. at' \in AtSpec => \A e \in entries' : \E i \in 1..(spec' - 1) : e.symbol = Specs[i]
  BY <1>1, <1>2, <1>3, <1>4, <1>5, <1>7
<1>9. \A e \in entries' : disk'[e.symbol] = e.data /\ e.data.quality >= options'.quality
  <2>1. \A e \in entries : disk'[e.symbol] = e.data /\ e.data.quality >= options'.quality
    BY <1>6 DEF AtSpec, Requesting
  <2>2. disk'[Cr!Symbol] = data /\ data.quality >= options'.quality
    BY DEF Cr!Passes
  <2> QED BY <1>1, <1>7, <2>1, <2>2
<1> QED BY <1>2, <1>8, <1>9

LEMMA FoundStep ==
  ASSUME CorpusInv, [Cr!Next]_(Cr!vars)
  PROVE  FoundInv'
<1> USE DEF Cr!run, Cr!client, Cr!found
<1>1. CASE \E o \in [force : BOOLEAN, quality : 1..2] : Cr!StartRun(o)
  BY <1>1, SpecsAre DEF Cr!StartRun, FoundInv
<1>2. ASSUME at \in AtSpec, NEW r, Cr!Reject(r), UNCHANGED <<disk, options>>
      PROVE  FoundInv'
  BY <1>2, FoundStays DEF Cr!Reject, AtSpec, Requesting
<1>3. CASE Cr!Reuse
  <2>1. at \in AtSpec /\ UNCHANGED <<disk, options>> /\ at # "idle"
    BY <1>3 DEF Cr!Reuse, AtSpec
  <2>2. CASE Cr!Reject("quality")
    BY <1>2, <2>1, <2>2
  <2>3. CASE at' = "idle" /\ UNCHANGED entries
    BY <2>1, <2>3, FoundStays
  <2>4. CASE Cr!Accept(disk[Cr!Symbol]) /\ Cr!Passes(disk[Cr!Symbol].quality)
    BY <2>1, <2>4, FoundGrows
  <2> QED BY <1>3, <2>2, <2>3, <2>4 DEF Cr!Reuse
<1>4. CASE Cr!Acquire
  BY <1>4, FoundStays DEF Cr!Acquire, AtSpec, Requesting
<1>5. CASE Cr!CircuitIsOpen
  BY <1>2, <1>5 DEF Cr!CircuitIsOpen, Cr!Asking, AtSpec, Requesting
<1>6. ASSUME Cr!Sends, Cr!Asks PROVE at \in AtSpec /\ at # "idle" /\ UNCHANGED <<disk, options>>
  BY <1>6 DEF Cr!Sends, Cr!Asks, Cr!Asking, AtSpec, Requesting
<1>7. CASE Cr!TransportFails
  <2>1. Cr!Reject("network") \/ UNCHANGED <<at, spec, entries>>
    BY <1>7, Zenon DEF Cr!TransportFails
  <2>2. Cr!Sends /\ Cr!Asks
    BY <1>7 DEF Cr!TransportFails
  <2> QED BY <1>2, <1>6, <2>1, <2>2, FoundStays
<1>8. CASE Cr!TriesAgain
  BY <1>6, <1>8, FoundStays DEF Cr!TriesAgain
<1>9. CASE Cr!Refused \/ Cr!SchemaRejected
  <2>1. Cr!Sends /\ Cr!Asks /\ Cr!Reject("network")
    BY <1>9 DEF Cr!Refused, Cr!SchemaRejected
  <2> QED BY <1>2, <1>6, <2>1
<1>10. CASE Cr!Answered
  <2>1. Cr!Sends /\ Cr!Asks /\ UNCHANGED <<spec, entries>> /\ at' \in AtSpec
    BY <1>6, <1>10 DEF Cr!Answered, AtSpec, Requesting
  <2> QED BY <1>6, <2>1, FoundStays
<1>11. CASE Cr!Judge
  <2>1. at \in AtSpec /\ UNCHANGED options
    BY <1>11 DEF Cr!Judge, AtSpec
  <2>2. PICK q, data :
           /\ q \in Cr!Qualities /\ data = [quality |-> q, fetched |-> clock]
           /\ \/ Cr!Passes(q) /\ disk' = [disk EXCEPT ![Cr!Symbol] = data] /\ Cr!Accept(data)
              \/ Cr!Reject("quality") /\ UNCHANGED disk
    BY <1>11 DEF Cr!Judge
  <2>3. Cr!Symbol \in Symbols /\ disk \in [Symbols -> Cr!Datasets \union {None, Torn}]
    BY <2>1, SpecsAre DEF Cr!Symbol, CorpusInv, FoundInv, Cr!TypeOK
  <2>4. CASE Cr!Passes(q) /\ disk' = [disk EXCEPT ![Cr!Symbol] = data] /\ Cr!Accept(data)
    <3>1. Cr!Passes(data.quality) /\ disk'[Cr!Symbol] = data
          /\ \A s \in Symbols : s # Cr!Symbol => disk'[s] = disk[s]
      BY <2>2, <2>3, <2>4
    <3> QED BY <2>1, <2>4, <3>1, FoundGrows
  <2> QED BY <1>2, <2>1, <2>2, <2>4
<1>12. CASE Cr!WriteManifest
  BY <1>12, FoundStays DEF Cr!WriteManifest
<1>13. CASE Cr!Crash
  BY <1>13 DEF Cr!Crash, FoundInv, AtSpec, Requesting
<1>14. CASE Cr!TimePasses \/ UNCHANGED Cr!vars
  BY <1>14 DEF Cr!TimePasses, Cr!vars, CorpusInv, FoundInv
<1> QED BY <1>1, <1>3, <1>4, <1>5, <1>7, <1>8, <1>9, <1>10, <1>11, <1>12, <1>13, <1>14 DEF Cr!Next

LEMMA KeptStep ==
  ASSUME CorpusInv, [Cr!Next]_(Cr!vars)
  PROVE  Cr!OnlyValidatedIsKept'
<1> USE DEF Cr!OnlyValidatedIsKept, Cr!Whole
<1>1. CASE UNCHANGED disk
  BY <1>1 DEF CorpusInv
<1>2. CASE Cr!Judge
  <2>1. PICK q, data :
           /\ q \in Cr!Qualities /\ data = [quality |-> q, fetched |-> clock]
           /\ (disk' = [disk EXCEPT ![Cr!Symbol] = data] /\ Cr!Passes(q)) \/ UNCHANGED disk
    BY <1>2 DEF Cr!Judge
  <2>2. Cr!Passes(q) => data.quality >= 1
    BY <2>1 DEF Cr!Passes, Cr!Qualities, CorpusInv, Cr!TypeOK
  <2> QED BY <1>1, <2>1, <2>2 DEF CorpusInv, Cr!TypeOK
<1>3. CASE Cr!Crash
  BY <1>3 DEF Cr!Crash, CorpusInv, Cr!TypeOK
<1>4. CASE Cr!Next /\ ~Cr!Judge /\ ~Cr!Crash
  <2>1. UNCHANGED disk
    BY <1>4 DEF Cr!Next, Cr!StartRun, Cr!Reuse, Cr!Acquire, Cr!CircuitIsOpen, Cr!TransportFails,
       Cr!TriesAgain, Cr!Refused, Cr!SchemaRejected, Cr!Answered, Cr!Asks, Cr!WriteManifest, Cr!TimePasses
  <2> QED BY <1>1, <2>1
<1> QED BY <1>1, <1>2, <1>3, <1>4 DEF Cr!vars

LEMMA CorpusInvHolds == Cr!Spec => []CorpusInv
<1>1. Cr!Init => CorpusInv
  <2> SUFFICES ASSUME Cr!Init PROVE CorpusInv
    OBVIOUS
  <2>1. MaxRetries \in Nat /\ MaxTime \in Nat /\ MaxRuns \in Nat /\ Threshold \in Nat \ {0}
    BY CorpusGiven DEF Cr!CorpusAssumption
  <2>2. Cr!TypeOK
    <3>1. /\ spec \in 1..(Len(Specs) + 1) /\ attempt \in 0..MaxRetries /\ clock \in 0..MaxTime
          /\ failures \in 0..(Threshold + MaxRetries) /\ runs \in 0..MaxRuns
      BY <2>1, SpecsAre DEF Cr!Init
    <3>2. options \in [force : BOOLEAN, quality : 1..2]
      BY DEF Cr!Init
    <3> QED BY <3>1, <3>2 DEF Cr!Init, Cr!TypeOK
  <2>3. ClientInv
    BY <2>1 DEF Cr!Init, ClientInv
  <2>4. FoundInv
    BY DEF Cr!Init, FoundInv, AtSpec, Requesting
  <2>5. Cr!OnlyValidatedIsKept
    BY DEF Cr!Init, Cr!OnlyValidatedIsKept, Cr!Whole
  <2> QED BY <2>2, <2>3, <2>4, <2>5 DEF CorpusInv
<1>2. CorpusInv /\ [Cr!Next]_(Cr!vars) => CorpusInv'
  BY CorpusTypeStep, ClientStep, FoundStep, KeptStep DEF CorpusInv
<1> QED BY <1>1, <1>2, PTL DEF Cr!Spec

(* A manifest that is written is what the run has found. *)
LEMMA ManifestTells == CorpusInv /\ [Cr!Next]_(Cr!vars) => Cr!ManifestTellsDisk
<1> SUFFICES ASSUME CorpusInv, [Cr!Next]_(Cr!vars), manifest' # manifest, manifest' # Torn
             PROVE  Cr!ManifestTellsDisk
  BY DEF Cr!ManifestTellsDisk
<1>1. Cr!WriteManifest
  BY DEF Cr!Next, Cr!vars, Cr!StartRun, Cr!Reuse, Cr!Acquire, Cr!CircuitIsOpen, Cr!TransportFails,
     Cr!TriesAgain, Cr!Refused, Cr!SchemaRejected, Cr!Answered, Cr!Asks, Cr!Judge, Cr!Crash, Cr!TimePasses
<1> QED BY <1>1 DEF Cr!WriteManifest, CorpusInv, FoundInv, Cr!ManifestTellsDisk

(* What is stale stays so while the files stay and the clock goes on. *)
LEMMA StaleStays ==
  ASSUME CorpusInv, Cr!Stale, UNCHANGED disk, clock' \in Int, clock' >= clock
  PROVE  Cr!Stale'
<1> DEFINE Fetched == {disk[s].fetched : s \in Cr!Whole}
<1>1. UNCHANGED Cr!Whole /\ UNCHANGED Fetched
  BY DEF Cr!Whole
<1>2. MaxTime \in Nat /\ MaxAge \in Nat /\ clock \in Int
  BY CorpusGiven DEF Cr!CorpusAssumption, CorpusInv, Cr!TypeOK
<1>3. Fetched \subseteq 0..MaxTime
  BY DEF CorpusInv, Cr!TypeOK, Cr!Whole, Cr!Datasets
<1>4. IsFiniteSet(Fetched) /\ \A n \in Fetched : n \in Int
  <2> HIDE DEF Fetched
  <2>1. IsFiniteSet(0..MaxTime)
    BY <1>2, FS_Interval
  <2>2. IsFiniteSet(Fetched)
    BY <1>3, <2>1, FS_Subset
  <2> QED BY <1>2, <1>3, <2>2
<1>5. Cr!Whole # {} => Fetched # {}
  OBVIOUS
<1>6. Fetched # {} => Cr!Max(Fetched) \in Int
  <2> HIDE DEF Fetched
  <2> QED BY <1>4, Extremes DEF Cr!Max
<1>7. CASE Cr!Whole = {}
  BY <1>1, <1>7 DEF Cr!Stale
<1>8. CASE Cr!Whole # {}
  <2>1. PICK n \in Int : n = Cr!Max(Fetched)
    BY <1>5, <1>6, <1>8
  <2>2. clock - n > MaxAge
    BY <1>8, <2>1 DEF Cr!Stale
  <2>3. clock' - n > MaxAge
    <3>1. PICK c \in Int, d \in Int : c = clock /\ d = clock'
      BY <1>2
    <3>2. d >= c
      BY <3>1
    <3> HIDE DEF Fetched
    <3> QED BY <1>2, <2>1, <2>2, <3>1, <3>2
  <2>4. Cr!Stale' <=> (Cr!Whole' = {} \/ clock' - Cr!Max(Fetched') > MaxAge)
    BY DEF Cr!Stale
  <2> QED BY <1>1, <2>1, <2>3, <2>4
<1> QED BY <1>7, <1>8

LEMMA DataRefreshes == CorpusInv /\ [Cr!Next]_(Cr!vars) => Cr!OnlyDataRefreshes
<1> SUFFICES ASSUME CorpusInv, [Cr!Next]_(Cr!vars), ~(at = "judge" /\ disk' # disk)
             PROVE  Cr!Stale => Cr!Stale'
  BY DEF Cr!OnlyDataRefreshes, Cr!ShouldPark
<1>1. UNCHANGED disk
  BY DEF Cr!Next, Cr!vars, Cr!StartRun, Cr!Reuse, Cr!Acquire, Cr!CircuitIsOpen, Cr!TransportFails,
     Cr!TriesAgain, Cr!Refused, Cr!SchemaRejected, Cr!Answered, Cr!Asks, Cr!Judge, Cr!WriteManifest,
     Cr!Crash, Cr!TimePasses
<1>2. clock' = clock \/ clock' = clock + 1
  BY DEF Cr!Next, Cr!vars, Cr!StartRun, Cr!Reuse, Cr!Acquire, Cr!CircuitIsOpen, Cr!TransportFails,
     Cr!TriesAgain, Cr!Refused, Cr!SchemaRejected, Cr!Answered, Cr!Asks, Cr!Judge, Cr!WriteManifest,
     Cr!Crash, Cr!TimePasses
<1>3. clock \in Int
  BY CorpusGiven DEF CorpusInv, Cr!TypeOK, Cr!CorpusAssumption
<1>4. clock' \in Int /\ clock' >= clock
  BY <1>2, <1>3
<1> QED BY <1>1, <1>4, StaleStays

-----------------------------------------------------------------------------
(* The replay, for any plan of windows, any strategies and prices.           *)

LEMMA ReplayGiven ==
  /\ {MaxBars, MaxEmbargo, MaxWindow, Quantity, ReplayHorizon} \union Cuts \subseteq Nat
  /\ {LotStep, MinWindows, Step} \union Marks \subseteq Nat \ {0}
  /\ NotionalCap \in Int /\ DOMAIN Generators = 1..Len(Generators) /\ Len(Generators) \in Nat
BY PartsAssumption DEF Wa!ReplayAssumption

LEMMA ReplayCounts == \A S : Wa!Cardinality(S) = Cardinality(S)
BY DEF Wa!Cardinality, Cardinality

LEMMA PairIs ==
  ASSUME NEW a \in Int, NEW b \in Int
  PROVE  /\ Wa!Min({a, b}) \in {a, b} /\ Wa!Min({a, b}) <= a /\ Wa!Min({a, b}) <= b
         /\ Wa!Max({a, b}) \in {a, b} /\ Wa!Max({a, b}) >= a /\ Wa!Max({a, b}) >= b
<1> DEFINE S == {a, b}
<1>1. IsFiniteSet(S)
  <2>1. IsFiniteSet({a} \union {b})
    BY FS_Singleton, FS_AddElement
  <2>2. S = {a} \union {b}
    OBVIOUS
  <2> QED BY <2>1, <2>2
<1>2. (\E x \in S : \A y \in S : x <= y) /\ (\E x \in S : \A y \in S : y <= x)
  <2>1. S # {} /\ \A x \in S : x \in Int
    OBVIOUS
  <2> HIDE DEF S
  <2> QED BY <1>1, <2>1, Extremes
<1>3. Wa!Min(S) \in S /\ \A y \in S : Wa!Min(S) <= y
  BY <1>2 DEF Wa!Min
<1>4. Wa!Max(S) \in S /\ \A y \in S : Wa!Max(S) >= y
  BY <1>2 DEF Wa!Max
<1> QED BY <1>3, <1>4

LEMMA PlanIs ==
  ASSUME NEW p \in Wa!Plans
  PROVE  /\ p.bars \in Nat \ {0} /\ p.bars <= MaxBars /\ p.cut \in Nat \ {0}
         /\ p.embargo \in Nat /\ p.window \in Nat \ {0} /\ p.whole \in BOOLEAN
<1>1. PICK n \in 1..MaxBars, c \in Cuts, e \in 0..MaxEmbargo, w \in 1..MaxWindow, b \in BOOLEAN :
        p = [bars |-> n, cut |-> Wa!Cut(n, c), embargo |-> e, window |-> w, whole |-> b]
  BY DEF Wa!Plans
<1>2. Wa!Cut(n, c) \in Nat \ {0}
  <2>1. n * c \in Int
    BY <1>1, ReplayGiven
  <2>2. PICK q \in Int : q = (n * c) \div 6
    BY <2>1
  <2>3. PICK a \in Int : a = 1
    OBVIOUS
  <2>4. Wa!Max({a, q}) \in {a, q} /\ Wa!Max({a, q}) >= a
    BY PairIs
  <2> QED BY <2>2, <2>3, <2>4 DEF Wa!Cut
<1> QED BY <1>1, <1>2, ReplayGiven

(* The windows of a plan, complete or not. *)
Opens(p, k) == p.cut + p.embargo + k * (p.window + p.embargo)
Fitting(p, w) == {k \in 0..p.bars : p.cut + p.embargo + k * (w + p.embargo) + w <= p.bars}

(* The complete ones come first. *)
LEMMA FirstFit ==
  ASSUME NEW p \in Wa!Plans, NEW w \in Nat \ {0}
  PROVE  /\ Wa!CountWindows(p, w) \in Nat
         /\ Fitting(p, w) = 0..(Wa!CountWindows(p, w) - 1)
<1> DEFINE F == Fitting(p, w)
<1>1. Wa!CountWindows(p, w) = Cardinality(F)
  BY ReplayCounts DEF Wa!CountWindows, Fitting
<1>2. F \subseteq 0..p.bars /\ IsFiniteSet(F) /\ \A k \in F : k \in Int
  <2>1. F \subseteq 0..p.bars
    BY DEF Fitting
  <2>2. IsFiniteSet(0..p.bars)
    BY PlanIs, FS_Interval
  <2>3. \A k \in F : k \in Int
    BY <2>1, PlanIs
  <2> QED BY <2>1, <2>2, <2>3, FS_Subset
<1>3. \A k \in F, j \in Nat : j <= k => j \in F
  <2> SUFFICES ASSUME NEW k \in F, NEW j \in Nat, j <= k PROVE j \in F
    OBVIOUS
  <2>1. PICK c \in Nat : c = w + p.embargo
    BY PlanIs
  <2>2. k \in Nat /\ k <= p.bars /\ p.cut + p.embargo + k * c + w <= p.bars
    BY <2>1, PlanIs DEF Fitting
  <2>3. j * c <= k * c
    BY <2>1, <2>2
  <2>4. j \in 0..p.bars /\ p.cut + p.embargo + j * c + w <= p.bars
    BY <2>1, <2>2, <2>3, PlanIs
  <2> QED BY <2>1, <2>4 DEF Fitting
<1>4. CASE F = {}
  <2>1. Cardinality(F) = 0
    BY <1>4, FS_EmptySet
  <2> QED BY <1>1, <1>4, <2>1
<1>5. CASE F # {}
  <2> HIDE DEF F
  <2>1. PICK m \in F : \A k \in F : k <= m
    BY <1>2, <1>5, Extremes
  <2>2. m \in Nat
    BY <1>2, <2>1, PlanIs
  <2>3. F = 0..m
    <3>1. \A k \in F : k \in Nat /\ k <= m
      BY <1>2, <2>1, PlanIs
    <3>2. \A k \in 0..m : k \in F
      BY <1>3, <2>1, <2>2
    <3>3. F \subseteq 0..m
      BY <2>2, <3>1
    <3>4. 0..m \subseteq F
      BY <3>2
    <3> QED BY <3>3, <3>4, Zenon
  <2>4. Cardinality(F) = m + 1
    BY <2>2, <2>3, FS_Interval
  <2> QED BY <1>1, <2>2, <2>3, <2>4 DEF F
<1> QED BY <1>4, <1>5

LEMMA PlanHas ==
  ASSUME NEW p \in Wa!Plans
  PROVE  /\ DOMAIN Wa!Plan(p) = 1..Wa!CountWindows(p, p.window)
         /\ \A k \in DOMAIN Wa!Plan(p) :
              /\ Wa!Plan(p)[k] = Wa!WindowAt(p, Opens(p, k - 1))
              /\ Opens(p, k - 1) \in Nat /\ Opens(p, k - 1) + p.window <= p.bars
<1>1. p.window \in Nat \ {0} /\ p.embargo \in Nat /\ p.cut \in Nat /\ p.bars \in Nat
  BY PlanIs
<1>2. Wa!CountWindows(p, p.window) \in Nat /\ Fitting(p, p.window) = 0..(Wa!CountWindows(p, p.window) - 1)
  BY <1>1, FirstFit
<1>3. ASSUME NEW k \in 1..Wa!CountWindows(p, p.window)
      PROVE  Opens(p, k - 1) \in Nat /\ Opens(p, k - 1) + p.window <= p.bars
  <2>1. k - 1 \in Fitting(p, p.window) /\ k - 1 \in Nat
    BY <1>2
  <2>2. PICK j \in Nat, c \in Nat : j = k - 1 /\ c = p.window + p.embargo
    BY <1>1, <2>1
  <2>3. j * c \in Nat /\ p.cut + p.embargo + j * c + p.window <= p.bars
    BY <2>1, <2>2 DEF Fitting
  <2> QED BY <1>1, <2>2, <2>3 DEF Opens
<1> QED BY <1>3 DEF Wa!Plan, Opens

(* What is known of the windows replayed so far. *)
Windows == [trainEnd : Int, testStart : Int, testEnd : Int]

RowsInv ==
  /\ plan.whole \/ rows \in Seq(Windows)
  /\ ~plan.whole =>
       /\ start = Opens(plan, Len(rows))
       /\ \A k \in 1..Len(rows) : /\ rows[k] = Wa!WindowAt(plan, Opens(plan, k - 1))
                                  /\ Opens(plan, k - 1) + plan.window <= plan.bars
       /\ phase = "raised" => rows = <<>>
       /\ phase \in {"done", "raised"} => start + plan.window > plan.bars
  /\ plan.whole => phase \in {"windows", "replay", "done"}
  /\ plan.whole /\ phase # "done" => rows = <<>> /\ start = 0
  /\ phase = "replay" =>
       Wa!EvaluationEnd < plan.bars /\ start <= bar /\ bar <= Wa!EvaluationEnd + 1
  /\ phase = "supplied" => ts \in [0..(plan.bars - 1) -> 1..ReplayHorizon]

Names == Wa!ToSet(Generators)

(* A trade is in the window of its row; one of the row being replayed is     *)
(* over by the bar its strategy is busy to.                                  *)
Placed(t) ==
  /\ t.strategy \in Names /\ t.row \in Nat \ {0}
  /\ t.from \in Nat /\ t.to \in Nat /\ t.from <= t.to
  /\ t.quantity \in Nat /\ t.mark \in Nat /\ (NotionalCap > 0 => t.quantity * t.mark <= NotionalCap)
  /\ phase # "replay" => t.row <= Len(rows) \/ (plan.whole /\ phase = "done")
  /\ phase = "replay" =>
       /\ t.row <= Len(rows) + 1
       /\ t.row = Len(rows) + 1 =>
            start <= t.from /\ t.to <= Wa!EvaluationEnd /\ t.to <= busy[t.strategy]
  /\ ~plan.whole /\ t.row <= Len(rows) =>
       Opens(plan, t.row - 1) <= t.from /\ t.to <= Opens(plan, t.row - 1) + plan.window - 1

Apart(t, u) ==
  t.strategy = u.strategy /\ t.row = u.row /\ t # u => t.to < u.from \/ u.to < t.from

TradesInv ==
  /\ \A t \in trades : Placed(t)
  /\ \A t, u \in trades : Apart(t, u)

ReplayInv == Wa!TypeOK /\ RowsInv /\ TradesInv

LEMMA EndIs ==
  ASSUME Wa!TypeOK
  PROVE  /\ plan \in Wa!Plans /\ start \in Nat /\ bar \in Nat /\ Wa!EvaluationEnd \in Int
         /\ plan.whole => Wa!EvaluationEnd = plan.bars - 1
         /\ ~plan.whole => Wa!EvaluationEnd = start + plan.window - 1
BY PlanIs DEF Wa!TypeOK, Wa!EvaluationEnd, Wa!WindowAt

LEMMA OpensNext ==
  ASSUME NEW p \in Wa!Plans, NEW k \in Nat
  PROVE  /\ Opens(p, k) \in Nat
         /\ Opens(p, k + 1) = Opens(p, k) + p.window + p.embargo
         /\ \A j \in Nat : j > k => Opens(p, k) + p.window + p.embargo <= Opens(p, j)
<1>1. p.window \in Nat \ {0} /\ p.embargo \in Nat /\ p.cut \in Nat
  BY PlanIs
<1>2. PICK c \in Nat : c = p.window + p.embargo
  BY <1>1
<1>3. (k + 1) * c = k * c + c /\ k * c \in Nat
  BY <1>2
<1>4. ASSUME NEW j \in Nat, j > k PROVE (k + 1) * c <= j * c
  BY <1>2, <1>4
<1> QED BY <1>1, <1>2, <1>3, <1>4 DEF Opens

(* Lots under the cap. *)
LEMMA OrdersFit ==
  ASSUME NEW m \in Marks
  PROVE  /\ Wa!OrderQuantity(m) > 0 => Wa!OrderQuantity(m) \in Nat
         /\ NotionalCap > 0 => Wa!OrderQuantity(m) * m <= NotionalCap
<1>1. m \in Nat \ {0} /\ LotStep \in Nat \ {0} /\ Quantity \in Nat /\ NotionalCap \in Int
  BY ReplayGiven
<1>2. \A q \in Nat, d \in Nat \ {0} :
        LotStep * (q \div (d * LotStep)) \in Nat /\ LotStep * (q \div (d * LotStep)) * d <= q
  <2> SUFFICES ASSUME NEW q \in Nat, NEW d \in Nat \ {0}
               PROVE  LotStep * (q \div (d * LotStep)) \in Nat /\ LotStep * (q \div (d * LotStep)) * d <= q
    OBVIOUS
  <2>1. PICK b \in Nat \ {0} : b = d * LotStep
    BY <1>1
  <2>2. PICK n \in Int : n = q \div b
    BY <2>1
  <2>3. n * b <= q /\ q < n * b + b
    BY <2>1, <2>2
  <2>4. n >= 0
    <3>1. ASSUME n <= -1 PROVE FALSE
      <4>1. n * b <= (-1) * b
        BY <2>1, <2>2, <3>1
      <4> QED BY <2>1, <2>2, <2>3, <4>1
    <3> QED BY <2>2, <3>1
  <2>5. LotStep * n \in Nat /\ LotStep * n * d = n * b
    BY <1>1, <2>1, <2>2, <2>4
  <2> QED BY <2>1, <2>2, <2>3, <2>5
<1>3. PICK a \in Nat : a = LotStep * (Quantity \div (1 * LotStep))
  BY <1>1, <1>2
<1>4. CASE NotionalCap = 0
  BY <1>1, <1>3, <1>4 DEF Wa!OrderQuantity
<1>6. CASE NotionalCap < 0
  <2>1. PICK b \in Int : b = LotStep * (NotionalCap \div (m * LotStep))
    <3>1. m * LotStep \in Nat \ {0}
      BY <1>1
    <3>2. NotionalCap \div (m * LotStep) \in Int
      BY <1>1, <3>1
    <3> QED BY <1>1, <3>2
  <2>2. Wa!OrderQuantity(m) = Wa!Min({a, b})
    BY <1>3, <1>6, <2>1 DEF Wa!OrderQuantity
  <2>3. Wa!Min({a, b}) \in {a, b}
    BY PairIs
  <2> QED BY <1>1, <1>6, <2>2, <2>3
<1>5. CASE NotionalCap > 0
  <2>1. NotionalCap \in Nat
    BY <1>1, <1>5
  <2>2. PICK b \in Nat : b = LotStep * (NotionalCap \div (m * LotStep)) /\ b * m <= NotionalCap
    BY <1>1, <1>2, <2>1
  <2>3. Wa!OrderQuantity(m) = Wa!Min({a, b})
    BY <1>3, <1>5, <2>2 DEF Wa!OrderQuantity
  <2>4. Wa!Min({a, b}) \in {a, b} /\ Wa!Min({a, b}) <= b
    BY PairIs
  <2>5. PICK n \in Nat : n = Wa!OrderQuantity(m) /\ n <= b
    BY <2>3, <2>4
  <2>6. n * m <= b * m
    BY <1>1, <2>2, <2>5
  <2>7. n * m \in Nat /\ b * m \in Nat
    BY <1>1, <2>2, <2>5
  <2> QED BY <1>1, <2>2, <2>5, <2>6, <2>7
<1> QED BY <1>1, <1>4, <1>5, <1>6

LEMMA ReplayStarts == Wa!Init => ReplayInv
<1> SUFFICES ASSUME Wa!Init PROVE ReplayInv
  OBVIOUS
<1>1. plan \in Wa!Plans /\ rows = <<>> /\ trades = {} /\ bar = 0 /\ turn = 1 /\ busy = Wa!Fresh
  BY DEF Wa!Init
<1>2. plan.cut \in Nat /\ plan.embargo \in Nat /\ plan.bars \in Nat \ {0} /\ plan.whole \in BOOLEAN
      /\ plan.window \in Nat
  BY <1>1, PlanIs
<1>3. start = IF plan.whole THEN 0 ELSE plan.cut + plan.embargo
  BY DEF Wa!Init
<1>4. start \in Nat
  BY <1>2, <1>3
<1>5. Opens(plan, 0) = plan.cut + plan.embargo
  <2>1. PICK c \in Int : c = plan.window + plan.embargo
    BY <1>2
  <2>2. 0 * c = 0
    BY <2>1
  <2> QED BY <1>2, <2>1, <2>2 DEF Opens
<1>6. Wa!TypeOK
  <2>1. Wa!Fresh \in [Names -> -1..MaxBars]
    BY ReplayGiven DEF Wa!Fresh, Names
  <2>2. phase \in {"windows", "supplied"} /\ DOMAIN ts = 0..(plan.bars - 1)
    BY DEF Wa!Init, Wa!Clock
  <2>3. turn \in 1..(Len(Generators) + 1)
    BY <1>1, ReplayGiven
  <2> QED BY <1>1, <1>4, <2>1, <2>2, <2>3 DEF Wa!TypeOK, Names
<1>7. RowsInv
  <2>1. phase = "supplied" => ~plan.whole /\ ts \in [0..(plan.bars - 1) -> 1..ReplayHorizon]
    BY DEF Wa!Init
  <2>2. phase \in {"windows", "supplied"}
    BY DEF Wa!Init
  <2> QED BY <1>1, <1>2, <1>3, <1>5, <2>1, <2>2 DEF RowsInv
<1>8. TradesInv
  BY <1>1 DEF TradesInv
<1> QED BY <1>6, <1>7, <1>8 DEF ReplayInv

(* What is known at an entry. *)
LEMMA EntryIs ==
  ASSUME ReplayInv, Wa!Enters
  PROVE  \E mark \in Marks, flat \in BOOLEAN, exit \in Nat :
           LET t == [strategy |-> Wa!Asked, from |-> bar, to |-> exit, flattened |-> flat,
                     row |-> Len(rows) + 1, quantity |-> Wa!OrderQuantity(mark), mark |-> mark] IN
           /\ trades' = trades \union {t} /\ busy' = [busy EXCEPT ![Wa!Asked] = exit]
           /\ Wa!Asked \in Names /\ bar > busy[Wa!Asked] /\ Wa!OrderQuantity(mark) > 0
           /\ bar <= exit /\ exit <= Wa!EvaluationEnd /\ exit < plan.bars
<1>1. PICK mark \in Marks, flat \in BOOLEAN, exit \in bar..Wa!EvaluationEnd :
        /\ trades' = trades \union
            {[strategy |-> Wa!Asked, from |-> bar, to |-> exit, flattened |-> flat,
              row |-> Len(rows) + 1, quantity |-> Wa!OrderQuantity(mark), mark |-> mark]}
        /\ busy' = [busy EXCEPT ![Wa!Asked] = exit] /\ Wa!OrderQuantity(mark) > 0
  BY DEF Wa!Enters
<1>2. Wa!TypeOK /\ RowsInv /\ phase = "replay" /\ bar > busy[Wa!Asked] /\ turn <= Len(Generators)
  BY DEF ReplayInv, Wa!Enters, Wa!Asking
<1>3. bar \in Nat /\ Wa!EvaluationEnd \in Int /\ plan \in Wa!Plans
  BY <1>2, EndIs
<1>4. plan.bars \in Nat /\ Wa!EvaluationEnd < plan.bars
  BY <1>2, <1>3, PlanIs DEF RowsInv
<1>5. Wa!Asked \in Names
  <2>1. turn \in 1..Len(Generators)
    BY <1>2, ReplayGiven DEF Wa!TypeOK
  <2> QED BY <2>1, ReplayGiven DEF Wa!Asked, Names, Wa!ToSet
<1>6. exit \in Nat /\ bar <= exit /\ exit <= Wa!EvaluationEnd /\ exit < plan.bars
  BY <1>1, <1>3, <1>4
<1> QED BY <1>1, <1>2, <1>5, <1>6

LEMMA ReplayTypeStep ==
  ASSUME ReplayInv, [Wa!Next]_(Wa!vars)
  PROVE  Wa!TypeOK'
<1> USE DEF Wa!TypeOK
<1>1. Wa!TypeOK
  BY DEF ReplayInv
<1>2. plan \in Wa!Plans /\ start \in Nat /\ bar \in Nat /\ Len(Generators) \in Nat /\ MaxBars \in Nat
      /\ plan.bars \in Nat /\ plan.bars <= MaxBars /\ plan.window \in Nat /\ plan.embargo \in Nat
  BY <1>1, PlanIs, ReplayGiven
<1>3. CASE Wa!OpenWindow
  <2>1. UNCHANGED <<plan, ts, start, trades, rows>>
    BY <1>3 DEF Wa!OpenWindow
  <2>2. phase' \in {"replay", "raised", "done"}
    BY <1>3 DEF Wa!OpenWindow
  <2>3. bar' \in Nat /\ turn' \in 1..(Len(Generators) + 1)
    BY <1>1, <1>2, <1>3 DEF Wa!OpenWindow
  <2>4. busy' \in [Wa!ToSet(Generators) -> -1..MaxBars]
    <3>1. Wa!Fresh \in [Wa!ToSet(Generators) -> -1..MaxBars]
      BY <1>2 DEF Wa!Fresh
    <3> QED BY <1>1, <1>3, <3>1 DEF Wa!OpenWindow
  <2> QED BY <1>1, <2>1, <2>2, <2>3, <2>4
<1>4. CASE Wa!Declines
  BY <1>1, <1>2, <1>4 DEF Wa!Declines, Wa!Asking
<1>5. CASE Wa!Enters
  <2>1. UNCHANGED <<phase, plan, ts, start, bar, rows>> /\ turn' \in 1..(Len(Generators) + 1)
    BY <1>1, <1>2, <1>5 DEF Wa!Enters, Wa!Asking
  <2>2. PICK mark \in Marks, flat \in BOOLEAN, exit \in Nat :
           LET t == [strategy |-> Wa!Asked, from |-> bar, to |-> exit, flattened |-> flat,
                     row |-> Len(rows) + 1, quantity |-> Wa!OrderQuantity(mark), mark |-> mark] IN
           /\ trades' = trades \union {t} /\ busy' = [busy EXCEPT ![Wa!Asked] = exit]
           /\ Wa!Asked \in Names /\ bar > busy[Wa!Asked] /\ Wa!OrderQuantity(mark) > 0
           /\ bar <= exit /\ exit <= Wa!EvaluationEnd /\ exit < plan.bars
    BY <1>5, EntryIs
  <2>3. exit \in -1..MaxBars
    BY <1>2, <2>2
  <2>4. busy' \in [Wa!ToSet(Generators) -> -1..MaxBars]
    BY <1>1, <2>2, <2>3 DEF Names
  <2>5. Wa!OrderQuantity(mark) \in Nat
    BY <2>2, OrdersFit
  <2>6. \A t \in trades' : t.from \in Nat /\ t.to \in Nat /\ t.quantity \in Nat
    BY <1>1, <1>2, <2>2, <2>5
  <2> QED BY <1>1, <2>1, <2>4, <2>6
<1>6. CASE Wa!NextBar
  BY <1>1, <1>2, <1>6 DEF Wa!NextBar
<1>7. CASE Wa!CloseWindow
  <2>1. UNCHANGED <<plan, ts, bar, turn, busy, trades>> /\ phase' \in {"windows", "done"}
    BY <1>7 DEF Wa!CloseWindow
  <2>2. start' \in Nat
    BY <1>2, <1>7 DEF Wa!CloseWindow, Wa!NextStart
  <2> QED BY <1>1, <2>1, <2>2
<1>8. CASE UNCHANGED Wa!vars
  BY <1>1, <1>8 DEF Wa!vars
<1> QED BY <1>3, <1>4, <1>5, <1>6, <1>7, <1>8 DEF Wa!Next

LEMMA RowsStep ==
  ASSUME ReplayInv, [Wa!Next]_(Wa!vars)
  PROVE  RowsInv'
<1>1. Wa!TypeOK /\ RowsInv
  BY DEF ReplayInv
<1>2. /\ plan \in Wa!Plans /\ start \in Nat /\ bar \in Nat /\ Wa!EvaluationEnd \in Int
      /\ plan.whole => Wa!EvaluationEnd = plan.bars - 1
      /\ ~plan.whole => Wa!EvaluationEnd = start + plan.window - 1
  BY <1>1, EndIs
<1>3. /\ plan.bars \in Nat \ {0} /\ plan.window \in Nat \ {0} /\ plan.embargo \in Nat
      /\ plan.whole \in BOOLEAN
  BY <1>2, PlanIs
<1>4. CASE Wa!OpenWindow
  <2>1. UNCHANGED <<plan, ts, start, trades, rows>> /\ UNCHANGED Wa!EvaluationEnd /\ phase = "windows"
    BY <1>4 DEF Wa!OpenWindow, Wa!EvaluationEnd
  <2>2. CASE Wa!EvaluationEnd < plan.bars
    <3>1. phase' = "replay" /\ bar' = start
      BY <1>4, <2>2 DEF Wa!OpenWindow
    <3>2. start <= bar' /\ bar' <= Wa!EvaluationEnd + 1
      BY <1>1, <1>2, <1>3, <2>1, <3>1 DEF RowsInv
    <3> QED BY <1>1, <2>1, <2>2, <3>1, <3>2 DEF RowsInv
  <2>3. CASE ~(Wa!EvaluationEnd < plan.bars)
    <3>1. ~plan.whole /\ start + plan.window > plan.bars
      BY <1>2, <1>3, <2>3
    <3>2. phase' = IF rows = <<>> THEN "raised" ELSE "done"
      BY <1>4, <2>3 DEF Wa!OpenWindow
    <3> QED BY <1>1, <2>1, <3>1, <3>2 DEF RowsInv
  <2> QED BY <2>2, <2>3
<1>5. CASE Wa!Declines \/ Wa!Enters \/ UNCHANGED Wa!vars
  <2>1. UNCHANGED <<phase, plan, ts, start, bar, rows>> /\ UNCHANGED Wa!EvaluationEnd
    BY <1>5 DEF Wa!Declines, Wa!Enters, Wa!vars, Wa!EvaluationEnd
  <2> QED BY <1>1, <2>1 DEF RowsInv
<1>6. CASE Wa!NextBar
  <2>1. UNCHANGED <<phase, plan, ts, start, rows>> /\ UNCHANGED Wa!EvaluationEnd
        /\ phase = "replay" /\ bar' = bar + 1 /\ bar <= Wa!EvaluationEnd
    BY <1>6 DEF Wa!NextBar, Wa!EvaluationEnd
  <2>2. bar' <= Wa!EvaluationEnd + 1 /\ start <= bar'
    BY <1>1, <1>2, <2>1 DEF RowsInv
  <2> QED BY <1>1, <2>1, <2>2 DEF RowsInv
<1>7. CASE Wa!CloseWindow /\ plan.whole
  <2>1. UNCHANGED <<plan, ts>> /\ phase' = "done"
    BY <1>7 DEF Wa!CloseWindow
  <2> QED BY <1>7, <2>1 DEF RowsInv
<1>8. CASE Wa!CloseWindow /\ ~plan.whole
  <2>1. UNCHANGED <<plan, ts>> /\ phase = "replay" /\ phase' = "windows"
        /\ rows' = Append(rows, Wa!WindowAt(plan, start)) /\ start' = start + plan.window + plan.embargo
    BY <1>8 DEF Wa!CloseWindow, Wa!NextStart
  <2>2. rows \in Seq(Windows) /\ start = Opens(plan, Len(rows)) /\ Wa!EvaluationEnd < plan.bars
    BY <1>1, <1>8, <2>1 DEF RowsInv
  <2>3. Wa!WindowAt(plan, start) \in Windows
    BY <1>2, <1>3 DEF Wa!WindowAt, Windows
  <2>4. rows' \in Seq(Windows) /\ Len(rows') = Len(rows) + 1 /\ Len(rows) \in Nat
        /\ rows'[Len(rows) + 1] = Wa!WindowAt(plan, start)
        /\ \A k \in 1..Len(rows) : rows'[k] = rows[k]
    BY <2>1, <2>2, <2>3
  <2>5. start' = Opens(plan, Len(rows'))
    BY <1>2, <2>1, <2>2, <2>4, OpensNext
  <2>6. \A k \in 1..Len(rows') : /\ rows'[k] = Wa!WindowAt(plan, Opens(plan, k - 1))
                                 /\ Opens(plan, k - 1) + plan.window <= plan.bars
    <3>1. \A k \in 1..Len(rows) : /\ rows[k] = Wa!WindowAt(plan, Opens(plan, k - 1))
                                  /\ Opens(plan, k - 1) + plan.window <= plan.bars
      BY <1>1, <1>8 DEF RowsInv
    <3>2. start + plan.window <= plan.bars
      BY <1>2, <1>3, <1>8, <2>2
    <3>3. \A k \in 1..Len(rows') : k \in 1..Len(rows) \/ (k = Len(rows) + 1 /\ k - 1 = Len(rows))
      BY <2>4
    <3> QED BY <2>2, <2>4, <3>1, <3>2, <3>3
  <2> QED BY <1>8, <2>1, <2>4, <2>5, <2>6 DEF RowsInv
<1> QED BY <1>4, <1>5, <1>6, <1>7, <1>8 DEF Wa!Next

LEMMA TradesStep ==
  ASSUME ReplayInv, [Wa!Next]_(Wa!vars)
  PROVE  TradesInv'
<1>1. Wa!TypeOK /\ RowsInv /\ TradesInv
  BY DEF ReplayInv
<1>2. /\ plan \in Wa!Plans /\ start \in Nat /\ bar \in Nat /\ Wa!EvaluationEnd \in Int
      /\ plan.whole => Wa!EvaluationEnd = plan.bars - 1
      /\ ~plan.whole => Wa!EvaluationEnd = start + plan.window - 1
  BY <1>1, EndIs
<1>3. CASE Wa!OpenWindow
  <2>1. UNCHANGED <<plan, ts, start, trades, rows>> /\ UNCHANGED Wa!EvaluationEnd /\ phase = "windows"
    BY <1>3 DEF Wa!OpenWindow, Wa!EvaluationEnd
  <2>2. rows = <<>> \/ ~plan.whole
    BY <1>1, <2>1 DEF RowsInv
  <2>3. Len(rows) \in Nat
    BY <1>1, <2>2 DEF RowsInv
  <2>4. \A t \in trades : t.row <= Len(rows) /\ t.row \in Nat
    BY <1>1, <2>1 DEF TradesInv, Placed
  <2>5. ASSUME NEW t \in trades PROVE Placed(t)'
    BY <1>1, <2>1, <2>3, <2>4 DEF TradesInv, Placed
  <2> QED BY <1>1, <2>1, <2>5 DEF TradesInv, Apart
<1>4. CASE Wa!Declines \/ Wa!NextBar \/ UNCHANGED Wa!vars
  <2>1. UNCHANGED <<phase, plan, start, busy, trades, rows>> /\ UNCHANGED Wa!EvaluationEnd
    BY <1>4 DEF Wa!Declines, Wa!NextBar, Wa!vars, Wa!EvaluationEnd
  <2> QED BY <1>1, <2>1 DEF TradesInv, Placed, Apart
<1>5. CASE Wa!Enters
  <2>1. UNCHANGED <<phase, plan, start, bar, rows>> /\ UNCHANGED Wa!EvaluationEnd /\ phase = "replay"
    BY <1>5 DEF Wa!Enters, Wa!EvaluationEnd, Wa!Asking
  <2>2. PICK mark \in Marks, flat \in BOOLEAN, exit \in Nat :
           LET t == [strategy |-> Wa!Asked, from |-> bar, to |-> exit, flattened |-> flat,
                     row |-> Len(rows) + 1, quantity |-> Wa!OrderQuantity(mark), mark |-> mark] IN
           /\ trades' = trades \union {t} /\ busy' = [busy EXCEPT ![Wa!Asked] = exit]
           /\ Wa!Asked \in Names /\ bar > busy[Wa!Asked] /\ Wa!OrderQuantity(mark) > 0
           /\ bar <= exit /\ exit <= Wa!EvaluationEnd /\ exit < plan.bars
    BY <1>5, EntryIs
  <2>3. PICK n : n = [strategy |-> Wa!Asked, from |-> bar, to |-> exit, flattened |-> flat,
                      row |-> Len(rows) + 1, quantity |-> Wa!OrderQuantity(mark), mark |-> mark]
    OBVIOUS
  <2>4. /\ n.strategy = Wa!Asked /\ n.from = bar /\ n.to = exit /\ n.row = Len(rows) + 1
        /\ n.quantity = Wa!OrderQuantity(mark) /\ n.mark = mark /\ trades' = trades \union {n}
    BY <2>2, <2>3
  <2>5. Len(rows) \in Nat
    BY <1>1, <2>1 DEF RowsInv
  <2>6. /\ busy \in [Names -> -1..MaxBars] /\ busy'[Wa!Asked] = exit
        /\ \A s \in Names : s # Wa!Asked => busy'[s] = busy[s]
    BY <1>1, <2>2 DEF Wa!TypeOK, Names
  <2>7. \A t \in trades : Placed(t)
    BY <1>1 DEF TradesInv
  <2>8. ASSUME NEW t \in trades, t.strategy = Wa!Asked, t.row = Len(rows) + 1
        PROVE  t.to < bar /\ t.to <= exit
    <3>1. t.to \in Nat /\ t.to <= busy[Wa!Asked]
      BY <2>1, <2>7, <2>8 DEF Placed
    <3> QED BY <1>2, <2>2, <2>6, <3>1, ReplayGiven
  <2>9. ASSUME NEW t \in trades PROVE Placed(t)'
    <3>1. t.row = Len(rows) + 1 => t.to <= busy'[t.strategy]
      BY <2>1, <2>6, <2>7, <2>8 DEF Placed
    <3> QED BY <2>1, <2>7, <3>1 DEF Placed
  <2>10. Placed(n)'
    <3>1. mark \in Nat /\ Wa!OrderQuantity(mark) \in Nat
          /\ (NotionalCap > 0 => Wa!OrderQuantity(mark) * mark <= NotionalCap)
      BY <2>2, OrdersFit, ReplayGiven
    <3>2. start <= bar
      BY <1>1, <2>1 DEF RowsInv
    <3> QED BY <1>2, <2>1, <2>2, <2>4, <2>5, <2>6, <3>1, <3>2 DEF Placed
  <2>11. \A t \in trades : Apart(t, n)' /\ Apart(n, t)'
    BY <2>4, <2>8 DEF Apart
  <2>12. Apart(n, n)'
    BY DEF Apart
  <2> QED BY <1>1, <2>4, <2>9, <2>10, <2>11, <2>12 DEF TradesInv, Apart
<1>6. CASE Wa!CloseWindow
  <2>1. UNCHANGED <<plan, trades>> /\ phase = "replay" /\ phase' = IF plan.whole THEN "done" ELSE "windows"
    BY <1>6 DEF Wa!CloseWindow
  <2>2. \A t \in trades : Placed(t)
    BY <1>1 DEF TradesInv
  <2>3. CASE plan.whole
    BY <2>1, <2>2, <2>3, <1>1 DEF TradesInv, Placed, Apart
  <2>4. CASE ~plan.whole
    <3>1. rows \in Seq(Windows) /\ start = Opens(plan, Len(rows))
      BY <1>1, <2>4 DEF RowsInv
    <3>2. Len(rows') = Len(rows) + 1 /\ Len(rows) \in Nat
      <4>1. Wa!WindowAt(plan, start) \in Windows
        BY <1>2, PlanIs DEF Wa!WindowAt, Windows
      <4> QED BY <1>6, <2>4, <3>1, <4>1 DEF Wa!CloseWindow
    <3>3. ASSUME NEW t \in trades PROVE Placed(t)'
      <4>1. t.row \in Nat \ {0} /\ t.row <= Len(rows) + 1 /\ phase' = "windows"
        BY <2>1, <2>2, <2>4 DEF Placed
      <4>2. CASE t.row <= Len(rows)
        BY <2>1, <2>2, <3>2, <4>1, <4>2 DEF Placed
      <4>3. CASE t.row = Len(rows) + 1
        <5>1. start <= t.from /\ t.to <= start + plan.window - 1 /\ t.row - 1 = Len(rows)
          BY <1>2, <2>1, <2>2, <2>4, <3>2, <4>3 DEF Placed
        <5>2. Opens(plan, t.row - 1) <= t.from /\ t.to <= Opens(plan, t.row - 1) + plan.window - 1
          BY <3>1, <5>1
        <5> QED BY <2>1, <2>2, <3>2, <4>1, <4>3, <5>2 DEF Placed
      <4> QED BY <3>2, <4>1, <4>2, <4>3
    <3> QED BY <1>1, <2>1, <3>3 DEF TradesInv, Apart
  <2> QED BY <2>3, <2>4
<1> QED BY <1>3, <1>4, <1>5, <1>6 DEF Wa!Next

LEMMA ReplayInvHolds == Wa!Spec => []ReplayInv
<1>1. ReplayInv /\ [Wa!Next]_(Wa!vars) => ReplayInv'
  BY ReplayTypeStep, RowsStep, TradesStep DEF ReplayInv
<1> QED BY <1>1, ReplayStarts, PTL DEF Wa!Spec

LEMMA TradesKeepPlace == ReplayInv => Wa!TradesStayInPlace
<1> SUFFICES ASSUME ReplayInv, NEW t \in trades, NEW u \in trades
             PROVE  /\ t.strategy = u.strategy /\ t.row = u.row /\ t # u => t.to < u.from \/ u.to < t.from
                    /\ ~plan.whole /\ t.row < u.row => t.to + plan.embargo < u.from
                    /\ ~plan.whole /\ t.row \in DOMAIN rows =>
                         rows[t.row].testStart <= t.from /\ t.to <= rows[t.row].testEnd
  BY DEF Wa!TradesStayInPlace
<1>1. Placed(t) /\ Placed(u) /\ Apart(t, u) /\ Wa!TypeOK /\ RowsInv
  BY DEF ReplayInv, TradesInv
<1>2. ASSUME ~plan.whole, t.row < u.row PROVE t.to + plan.embargo < u.from
  <2>1. rows \in Seq(Windows) /\ start = Opens(plan, Len(rows)) /\ Len(rows) \in Nat
    BY <1>1, <1>2 DEF RowsInv
  <2>2. t.row \in Nat \ {0} /\ u.row \in Nat \ {0} /\ u.row <= Len(rows) + 1 /\ t.row <= Len(rows)
    BY <1>1, <1>2, <2>1 DEF Placed
  <2>3. PICK k \in Nat, j \in Nat : k = t.row - 1 /\ j = u.row - 1 /\ j > k
    BY <1>2, <2>2
  <2>4. t.to <= Opens(plan, k) + plan.window - 1
    BY <1>1, <1>2, <2>2, <2>3 DEF Placed
  <2>5. Opens(plan, j) <= u.from
    <3>1. CASE u.row <= Len(rows)
      BY <1>1, <1>2, <2>3, <3>1 DEF Placed
    <3>2. CASE u.row = Len(rows) + 1
      <4>1. phase = "replay" /\ j = Len(rows)
        BY <1>1, <1>2, <2>1, <2>3, <3>2 DEF Placed
      <4> QED BY <1>1, <2>1, <3>2, <4>1 DEF Placed
    <3> QED BY <2>1, <2>2, <3>1, <3>2
  <2>6. Opens(plan, k) + plan.window + plan.embargo <= Opens(plan, j) /\ Opens(plan, k) \in Nat
        /\ Opens(plan, j) \in Nat
    BY <1>1, <2>3, OpensNext DEF Wa!TypeOK
  <2>7. plan.window \in Nat /\ plan.embargo \in Nat /\ t.to \in Nat /\ u.from \in Nat
    BY <1>1, PlanIs DEF Placed, Wa!TypeOK
  <2> QED BY <2>4, <2>5, <2>6, <2>7
<1>3. ASSUME ~plan.whole, t.row \in DOMAIN rows
      PROVE  rows[t.row].testStart <= t.from /\ t.to <= rows[t.row].testEnd
  <2>1. rows \in Seq(Windows) /\ t.row \in 1..Len(rows)
        /\ rows[t.row] = Wa!WindowAt(plan, Opens(plan, t.row - 1))
    BY <1>1, <1>3 DEF RowsInv
  <2> QED BY <1>1, <1>3, <2>1 DEF Placed, Wa!WindowAt
<1> QED BY <1>1, <1>2, <1>3 DEF Apart

(* No longer window than those left to it fits. *)
LEMMA NoneFits ==
  ASSUME NEW p \in Wa!Plans, NEW w \in Nat \ {0}, p.cut + p.embargo + w > p.bars
  PROVE  Wa!CountWindows(p, w) = 0
<1>1. p.cut \in Nat /\ p.embargo \in Nat /\ p.bars \in Nat
  BY PlanIs
<1>2. 0 \notin Fitting(p, w)
  <2>1. PICK c \in Nat : c = w + p.embargo
    BY <1>1
  <2>2. 0 * c = 0
    BY <2>1
  <2>3. p.cut + p.embargo + 0 * c + w > p.bars
    BY <1>1, <2>2
  <2> QED BY <1>1, <2>1, <2>3 DEF Fitting
<1> QED BY <1>2, FirstFit

LEMMA AllPlanned ==
  ASSUME ReplayInv, ~plan.whole, phase \in {"done", "raised"}
  PROVE  Len(rows) = Wa!CountWindows(plan, plan.window)
<1>1. plan \in Wa!Plans /\ RowsInv
  BY DEF ReplayInv, Wa!TypeOK
<1>2. plan.window \in Nat \ {0} /\ plan.embargo \in Nat /\ plan.cut \in Nat /\ plan.bars \in Nat
  BY <1>1, PlanIs
<1>3. PICK n \in Nat, c \in Nat : n = Len(rows) /\ c = Wa!CountWindows(plan, plan.window)
  <2>1. Wa!CountWindows(plan, plan.window) \in Nat
    BY <1>1, <1>2, FirstFit
  <2>2. rows \in Seq(Windows)
    BY <1>1 DEF RowsInv
  <2>3. Len(rows) \in Nat
    BY <2>2
  <2> QED BY <2>1, <2>3
<1>4. Fitting(plan, plan.window) = 0..(c - 1)
  BY <1>1, <1>2, <1>3, FirstFit
<1>5. ASSUME NEW k \in Nat PROVE k \in Fitting(plan, plan.window) <=> Opens(plan, k) + plan.window <= plan.bars
  <2>1. PICK d \in Nat \ {0} : d = plan.window + plan.embargo
    BY <1>2
  <2>2. k * d \in Nat /\ k * d >= k
    BY <2>1
  <2>3. Opens(plan, k) = plan.cut + plan.embargo + k * d
    BY <2>1 DEF Opens
  <2>4. Opens(plan, k) + plan.window <= plan.bars => k \in 0..plan.bars
    BY <1>2, <2>2, <2>3
  <2> QED BY <1>2, <2>1, <2>2, <2>3, <2>4 DEF Fitting
<1>6. n \notin Fitting(plan, plan.window)
  <2>1. start = Opens(plan, n) /\ start + plan.window > plan.bars
    BY <1>1, <1>3 DEF RowsInv
  <2> QED BY <1>2, <1>5, <2>1, <1>1, OpensNext
<1>7. n > 0 => n - 1 \in Fitting(plan, plan.window)
  <2> SUFFICES ASSUME n > 0 PROVE n - 1 \in Fitting(plan, plan.window)
    OBVIOUS
  <2>1. Opens(plan, n - 1) + plan.window <= plan.bars
    BY <1>1, <1>3 DEF RowsInv
  <2> QED BY <1>5, <2>1
<1> QED BY <1>3, <1>4, <1>6, <1>7

LEMMA PlannersDo == ReplayInv => Wa!PlannersAgree
<1> SUFFICES ASSUME ReplayInv, ~plan.whole PROVE Wa!PlannersAgree
  BY DEF Wa!PlannersAgree
<1>1. plan \in Wa!Plans /\ RowsInv
  BY DEF ReplayInv, Wa!TypeOK
<1>2. plan.window \in Nat \ {0} /\ plan.embargo \in Nat /\ plan.cut \in Nat /\ plan.bars \in Nat
  BY <1>1, PlanIs
<1>3. rows \in Seq(Windows) /\ \A k \in 1..Len(rows) : rows[k] = Wa!WindowAt(plan, Opens(plan, k - 1))
  BY <1>1 DEF RowsInv
<1>4. DOMAIN Wa!Plan(plan) = 1..Wa!CountWindows(plan, plan.window)
      /\ \A k \in DOMAIN Wa!Plan(plan) : Wa!Plan(plan)[k] = Wa!WindowAt(plan, Opens(plan, k - 1))
  BY <1>1, PlanHas
<1>5. ASSUME phase \in {"done", "raised"} PROVE rows = Wa!Plan(plan)
  <2>1. DOMAIN rows = DOMAIN Wa!Plan(plan)
    BY <1>3, <1>4, <1>5, AllPlanned
  <2>2. \A k \in DOMAIN rows : rows[k] = Wa!Plan(plan)[k]
    <3>1. DOMAIN rows = 1..Len(rows)
      BY <1>3
    <3> QED BY <1>3, <1>4, <2>1, <3>1, Zenon
  <2>3. Wa!Plan(plan) = [k \in DOMAIN Wa!Plan(plan) |-> Wa!Plan(plan)[k]]
    BY DEF Wa!Plan
  <2>4. rows = [k \in DOMAIN rows |-> rows[k]]
    BY <1>3
  <2> QED BY <2>1, <2>2, <2>3, <2>4
<1>6. phase = "raised" => Wa!Plan(plan) = <<>>
  BY <1>1, <1>5 DEF RowsInv
<1>7. \A k \in DOMAIN rows : rows[k].trainEnd + plan.embargo < rows[k].testStart
  <2> SUFFICES ASSUME NEW k \in 1..Len(rows) PROVE rows[k].trainEnd + plan.embargo < rows[k].testStart
    BY <1>3
  <2>1. PICK o \in Nat : o = Opens(plan, k - 1)
    <3>1. k - 1 \in Nat
      BY <1>3
    <3> QED BY <1>1, <3>1, OpensNext
  <2>2. rows[k].trainEnd = o - plan.embargo - 1 /\ rows[k].testStart = o
    <3>1. rows[k] = Wa!WindowAt(plan, o)
      BY <1>3, <2>1, Zenon
    <3> QED BY <3>1 DEF Wa!WindowAt
  <2> QED BY <1>2, <2>1, <2>2
<1>8. PICK available \in Int : available = plan.bars - plan.cut - plan.embargo
  BY <1>2
<1> DEFINE long == {w \in 1..available : Wa!CountWindows(plan, w) >= MinWindows}
<1>9. Wa!Recommended(plan) = IF available < 1 THEN 0 ELSE IF long = {} THEN 1 ELSE Wa!Max(long)
  BY <1>8 DEF Wa!Recommended
<1>10. ASSUME NEW v \in Nat \ {0}, v > available PROVE Wa!CountWindows(plan, v) = 0
  BY <1>1, <1>2, <1>8, <1>10, NoneFits
<1>11. MinWindows \in Nat \ {0} /\ \A v \in Nat \ {0} : Wa!CountWindows(plan, v) \in Nat
  BY <1>1, ReplayGiven, FirstFit
<1>12. IsFiniteSet(long) /\ \A x \in long : x \in Int
  <2>1. IsFiniteSet(1..available)
    BY FS_Interval
  <2>2. long \subseteq 1..available
    OBVIOUS
  <2> QED BY <2>1, <2>2, FS_Subset
<1>13. long # {} => Wa!Max(long) \in long /\ \A y \in long : Wa!Max(long) >= y
  <2> HIDE DEF long
  <2> QED BY <1>12, Extremes DEF Wa!Max
<1>14. /\ Wa!Recommended(plan) \in Nat
       /\ Wa!Recommended(plan) > 1 => Wa!CountWindows(plan, Wa!Recommended(plan)) >= MinWindows
  BY <1>9, <1>13
<1>15. ASSUME NEW v \in (Wa!Recommended(plan) + 1)..plan.bars PROVE Wa!CountWindows(plan, v) < MinWindows
  <2>1. v \in Nat \ {0} /\ v > Wa!Recommended(plan)
    BY <1>2, <1>14
  <2>2. CASE v > available
    BY <1>10, <1>11, <2>1, <2>2
  <2>3. CASE ~(v > available)
    <3>1. v \in 1..available /\ ~(available < 1)
      BY <1>8, <2>1, <2>3
    <3>2. v \notin long
      BY <1>9, <1>12, <1>13, <2>1, <3>1
    <3> QED BY <1>11, <2>1, <3>1, <3>2
  <2> QED BY <2>2, <2>3
<1> HIDE DEF long
<1> QED BY <1>5, <1>6, <1>7, <1>14, <1>15 DEF Wa!PlannersAgree

LEMMA LabelsDo == ReplayInv => Wa!LabelsArePurged
<1> SUFFICES ASSUME ReplayInv, NEW k \in DOMAIN Wa!Plan(plan), NEW period \in 1..plan.bars, NEW w,
                    w = Wa!Plan(plan)[k]
             PROVE  Wa!Labels(plan, w, period) =
                      {l \in (w.testStart..w.testEnd) \X (w.testStart..w.testEnd) : l[2] = l[1] + period}
  BY DEF Wa!LabelsArePurged
<1>1. plan \in Wa!Plans
  BY DEF ReplayInv, Wa!TypeOK
<1>2. plan.window \in Nat \ {0} /\ plan.bars \in Nat /\ period \in Nat \ {0}
  BY <1>1, PlanIs
<1>3. PICK o \in Nat, e \in Int : w.testStart = o /\ w.testEnd = e /\ e < plan.bars
  <2>1. w = Wa!WindowAt(plan, Opens(plan, k - 1)) /\ Opens(plan, k - 1) \in Nat
        /\ Opens(plan, k - 1) + plan.window <= plan.bars
    BY <1>1, PlanHas
  <2>2. w.testStart = Opens(plan, k - 1) /\ w.testEnd = Opens(plan, k - 1) + plan.window - 1
    BY <2>1 DEF Wa!WindowAt
  <2> QED BY <1>2, <2>1, <2>2
<1>4. \A j \in Int : j < Wa!Min({e - period + 1, plan.bars - period}) <=> j + period <= e
  <2>1. PICK a \in Int, b \in Int : a = e - period + 1 /\ b = plan.bars - period /\ a <= b
    BY <1>2, <1>3
  <2>2. Wa!Min({a, b}) \in {a, b} /\ Wa!Min({a, b}) <= a /\ Wa!Min({a, b}) <= b
    BY PairIs
  <2>3. Wa!Min({a, b}) = a
    BY <2>1, <2>2
  <2> QED BY <1>2, <1>3, <2>1, <2>3
<1> DEFINE Made == Wa!Labels(plan, w, period)
           Whole == {l \in (o..e) \X (o..e) : l[2] = l[1] + period}
<1>5. Made = {<<i, i + period>> : i \in {j \in o..e : j + period <= e}}
  BY <1>3, <1>4 DEF Wa!Labels
<1>6. \A l \in Made : l \in Whole
  <2> SUFFICES ASSUME NEW i \in o..e, i + period <= e PROVE <<i, i + period>> \in Whole
    BY <1>5
  <2>1. i + period \in o..e
    BY <1>2, <1>3
  <2> QED BY <2>1
<1>7. \A l \in Whole : l \in Made
  <2> SUFFICES ASSUME NEW l \in Whole PROVE l \in Made
    OBVIOUS
  <2>1. PICK i \in o..e, j \in o..e : l = <<i, j>> /\ j = i + period
    OBVIOUS
  <2>2. i + period <= e /\ l = <<i, i + period>>
    BY <1>3, <2>1
  <2> QED BY <1>5, <2>2
<1>8. Made = Whole
  <2> HIDE DEF Made, Whole
  <2> QED BY <1>6, <1>7, Zenon
<1> QED BY <1>3, <1>8

LEMMA AdmittedDo == ReplayInv => Wa!AdmittedWindowsAreWhole
<1> SUFFICES ASSUME ReplayInv, phase = "supplied", Wa!WindowsOk(plan), NEW k \in DOMAIN Wa!Plan(plan),
                    NEW w, w = Wa!Plan(plan)[k], NEW i \in w.testStart..(w.testEnd - 1)
             PROVE  ts[i] < ts[i + 1] /\ ts[i + 1] - ts[i] <= Step
  BY DEF Wa!AdmittedWindowsAreWhole
<1>1. plan \in Wa!Plans /\ ts \in [0..(plan.bars - 1) -> 1..ReplayHorizon]
  BY DEF ReplayInv, Wa!TypeOK, RowsInv
<1>2. plan.window \in Nat \ {0} /\ plan.bars \in Nat
  BY <1>1, PlanIs
<1>3. PICK a \in Nat, b \in Int : w.testStart = a /\ w.testEnd = b /\ b < plan.bars /\ a <= b
  <2>1. w = Wa!WindowAt(plan, Opens(plan, k - 1)) /\ Opens(plan, k - 1) \in Nat
        /\ Opens(plan, k - 1) + plan.window <= plan.bars
    BY <1>1, PlanHas
  <2>2. w.testStart = Opens(plan, k - 1) /\ w.testEnd = Opens(plan, k - 1) + plan.window - 1
    BY <2>1 DEF Wa!WindowAt
  <2> QED BY <1>2, <2>1, <2>2
<1> DEFINE S == Wa!Slice(a, b)
<1>4. Wa!Sound(S) /\ Cardinality(S) = b - a + 1 /\ Wa!Gaps(S) = {}
  BY <1>3, ReplayCounts DEF Wa!WindowsOk, Wa!TestOk
<1>5. \A j \in 0..(plan.bars - 1) : ts[j] \in Int
  BY <1>1, ReplayGiven
<1>6. S = {j \in 0..(plan.bars - 1) : ts[a] <= ts[j] /\ ts[j] <= ts[b]}
  BY <1>1 DEF Wa!Slice
<1>7. S # {} /\ \A x, y \in S : x < y => ts[x] < ts[y]
  BY <1>4 DEF Wa!Sound
<1>8. a \in 0..(plan.bars - 1) /\ b \in 0..(plan.bars - 1)
  BY <1>2, <1>3
<1>9. a \in S /\ b \in S
  BY <1>5, <1>6, <1>7, <1>8
<1>10. S \subseteq a..b
  <2> SUFFICES ASSUME NEW j \in S PROVE j \in a..b
    OBVIOUS
  <2>1. j \in Int /\ ts[a] <= ts[j] /\ ts[j] <= ts[b] /\ j \in 0..(plan.bars - 1)
    BY <1>2, <1>6
  <2>2. ~(j < a) /\ ~(b < j)
    BY <1>5, <1>7, <1>8, <1>9, <2>1
  <2> QED BY <1>3, <2>1, <2>2
<1>11. S = a..b
  <2>1. IsFiniteSet(a..b) /\ Cardinality(a..b) = b - a + 1
    BY <1>3, FS_Interval
  <2> HIDE DEF S
  <2> QED BY <1>4, <1>10, <2>1, FS_Subset
<1>12. i \in S /\ i + 1 \in S /\ i \in Int
  <2> HIDE DEF S
  <2> QED BY <1>3, <1>11
<1>13. ts[i] < ts[i + 1]
  BY <1>7, <1>12
<1>14. <<i, i + 1>> \in Wa!Neighbours(S)
  <2> HIDE DEF S
  <2> QED BY <1>3, <1>11, <1>12 DEF Wa!Neighbours
<1>15. ~(ts[i + 1] - ts[i] > Step)
  <2> HIDE DEF S
  <2> QED BY <1>4, <1>14 DEF Wa!Gaps
<1>16. ts[i] \in Int /\ ts[i + 1] \in Int /\ Step \in Int
  <2>1. i \in 0..(plan.bars - 1) /\ i + 1 \in 0..(plan.bars - 1)
    BY <1>6, <1>12
  <2> QED BY <1>5, <2>1, ReplayGiven
<1> QED BY <1>13, <1>15, <1>16

LEMMA ReplayIsSound ==
  ReplayInv => /\ Wa!TypeOK /\ Wa!TradesStayInPlace /\ Wa!CapHolds
               /\ Wa!PlannersAgree /\ Wa!LabelsArePurged /\ Wa!AdmittedWindowsAreWhole
<1>1. ReplayInv => Wa!TypeOK /\ Wa!CapHolds
  BY DEF ReplayInv, TradesInv, Placed, Wa!CapHolds
<1> QED BY <1>1, TradesKeepPlace, PlannersDo, LabelsDo, AdmittedDo

-----------------------------------------------------------------------------
(* The verdicts, for any p-values, bootstraps, families and matrices.        *)

LEMMA GatesGiven ==
  /\ {Samples, AlphaDen, MinTrades, FamilyMinTrades} \subseteq Nat \ {0} /\ AlphaNum \in 0..AlphaDen
  /\ Pnls \union Scores \union Strategies \subseteq Int /\ PValues \subseteq Nat
  /\ Alpha \in Int /\ MaxWindows \in Nat
  /\ IsFiniteSet(Strategies) /\ Cardinality(Strategies) >= 2
  /\ IsFiniteSet(Blocks) /\ Blocks # {} /\ Cardinality(Blocks) % 2 = 0
BY PartsAssumption DEF Ga!GatesAssumption, Ga!IsFiniteSet, IsFiniteSet, Ga!Cardinality, Cardinality

LEMMA GatesCount == \A S : Ga!Cardinality(S) = Cardinality(S)
BY DEF Ga!Cardinality, Cardinality

(* The order of the p-values, in which ties keep the order of the windows. *)
Precedes(ps, j, i) == ps[j] < ps[i] \/ (ps[j] = ps[i] /\ j <= i)
UpTo(ps, i) == {j \in DOMAIN ps : Precedes(ps, j, i)}
From(ps, i) == {j \in DOMAIN ps : Precedes(ps, i, j)}

LEMMA PlaceIs ==
  ASSUME NEW n \in Nat, NEW ps \in [1..n -> Nat]
  PROVE  /\ \A i \in 1..n : Ga!Place(ps, i) = Cardinality(UpTo(ps, i)) /\ Ga!Place(ps, i) \in Nat
         /\ \A i, j \in 1..n : Ga!Place(ps, j) <= Ga!Place(ps, i) <=> Precedes(ps, j, i)
         /\ \A i \in 1..n : Cardinality(From(ps, i)) = n - Ga!Place(ps, i) + 1
                            /\ Cardinality(From(ps, i)) \in Nat
<1>1. DOMAIN ps = 1..n /\ \A i \in 1..n : ps[i] \in Nat
  OBVIOUS
<1>2. \A i \in 1..n : /\ UpTo(ps, i) \subseteq 1..n /\ From(ps, i) \subseteq 1..n
                      /\ i \in UpTo(ps, i)
  BY <1>1 DEF UpTo, From, Precedes
<1>3. IsFiniteSet(1..n) /\ Cardinality(1..n) = n
  BY FS_Interval
<1>4. \A i \in 1..n : /\ IsFiniteSet(UpTo(ps, i)) /\ Cardinality(UpTo(ps, i)) \in Nat
                      /\ IsFiniteSet(From(ps, i)) /\ Cardinality(From(ps, i)) \in Nat
  BY <1>2, <1>3, FS_Subset, FS_CardinalityType
<1>5. \A i \in 1..n : Ga!Place(ps, i) = Cardinality(UpTo(ps, i))
  BY GatesCount, Zenon DEF Ga!Place, UpTo, Precedes
<1>6. ASSUME NEW i \in 1..n, NEW j \in 1..n, Precedes(ps, j, i)
      PROVE  Ga!Place(ps, j) <= Ga!Place(ps, i)
  <2>1. UpTo(ps, j) \subseteq UpTo(ps, i)
    BY <1>1, <1>6 DEF UpTo, Precedes
  <2> QED BY <1>4, <1>5, <2>1, FS_Subset
<1>7. ASSUME NEW i \in 1..n, NEW j \in 1..n, ~Precedes(ps, j, i)
      PROVE  Ga!Place(ps, i) < Ga!Place(ps, j)
  <2>1. UpTo(ps, i) \subseteq UpTo(ps, j) /\ j \in UpTo(ps, j) /\ j \notin UpTo(ps, i)
    BY <1>1, <1>7 DEF UpTo, Precedes
  <2>2. UpTo(ps, i) # UpTo(ps, j)
    BY <2>1
  <2>3. Cardinality(UpTo(ps, i)) <= Cardinality(UpTo(ps, j))
        /\ Cardinality(UpTo(ps, i)) # Cardinality(UpTo(ps, j))
    BY <1>4, <2>1, <2>2, FS_Subset
  <2> QED BY <1>4, <1>5, <2>3
<1>8. \A i, j \in 1..n : Ga!Place(ps, j) <= Ga!Place(ps, i) <=> Precedes(ps, j, i)
  BY <1>4, <1>5, <1>6, <1>7
<1>9. ASSUME NEW i \in 1..n PROVE Cardinality(From(ps, i)) = n - Ga!Place(ps, i) + 1
  <2> DEFINE U == UpTo(ps, i)
             F == From(ps, i)
  <2>1. U \union F = 1..n
    <3>1. \A x \in U \union F : x \in 1..n
      BY <1>2
    <3>2. \A x \in 1..n : x \in U \union F
      BY <1>1 DEF UpTo, From, Precedes
    <3> HIDE DEF U, F
    <3> QED BY <3>1, <3>2, Zenon
  <2>2. U \cap F = {i}
    <3>1. \A x : x \in U \cap F <=> x = i
      BY <1>1 DEF UpTo, From, Precedes
    <3> HIDE DEF U, F
    <3> QED BY <3>1
  <2>3. IsFiniteSet(U) /\ IsFiniteSet(F)
    BY <1>4
  <2>4. Cardinality(U \union F) = Cardinality(U) + Cardinality(F) - Cardinality(U \cap F)
    <3> HIDE DEF U, F
    <3> QED BY <2>3, FS_Union
  <2>5. Cardinality({i}) = 1
    BY FS_Singleton
  <2>6. n = Cardinality(U) + Cardinality(F) - 1
    <3> HIDE DEF U, F
    <3> QED BY <1>3, <2>1, <2>2, <2>4, <2>5
  <2> QED BY <1>4, <1>5, <2>6
<1> QED BY <1>4, <1>5, <1>8, <1>9

(* The step-down of Holm is the closed test. *)
LEMMA HolmCloses ==
  ASSUME NEW n \in Nat, NEW ps \in [1..n -> Nat]
  PROVE  Ga!Holm(ps) =
           {i \in 1..n : \A S \in SUBSET (1..n) : i \in S => \E j \in S : ps[j] * Cardinality(S) <= Alpha}
<1>1. DOMAIN ps = 1..n /\ Len(ps) = n /\ Alpha \in Int /\ \A i \in 1..n : ps[i] \in Nat
  BY GatesGiven
<1>2. /\ \A i, j \in 1..n : Ga!Place(ps, j) <= Ga!Place(ps, i) <=> Precedes(ps, j, i)
      /\ \A i \in 1..n : Cardinality(From(ps, i)) = n - Ga!Place(ps, i) + 1
                            /\ Cardinality(From(ps, i)) \in Nat
      /\ \A i \in 1..n : Ga!Place(ps, i) \in Nat
  BY PlaceIs
<1>3. \A i \in 1..n : Ga!BelowLevel(ps, i) <=> ps[i] * Cardinality(From(ps, i)) <= Alpha
  BY <1>1, <1>2 DEF Ga!BelowLevel
<1>4. \A i \in 1..n : i \in Ga!Holm(ps) <=>
        \A j \in 1..n : Precedes(ps, j, i) => ps[j] * Cardinality(From(ps, j)) <= Alpha
  BY <1>1, <1>2, <1>3 DEF Ga!Holm
<1>5. \A j \in 1..n : From(ps, j) \subseteq 1..n /\ IsFiniteSet(From(ps, j))
  <2>1. \A j \in 1..n : From(ps, j) \subseteq 1..n
    BY <1>1 DEF From
  <2>2. IsFiniteSet(1..n)
    BY FS_Interval
  <2> QED BY <2>1, <2>2, FS_Subset
<1>6. ASSUME NEW i \in Ga!Holm(ps), i \in 1..n, NEW S \in SUBSET (1..n), i \in S
      PROVE  \E j \in S : ps[j] * Cardinality(S) <= Alpha
  <2> DEFINE Places == {Ga!Place(ps, k) : k \in S}
  <2>1. IsFiniteSet(S)
    <3>1. IsFiniteSet(1..n)
      BY FS_Interval
    <3> QED BY <3>1, FS_Subset
  <2>2. Places \in SUBSET Nat /\ Places # {}
    BY <1>2, <1>6
  <2>3. \E x \in Places : \A y \in Places : x <= y
    <3> HIDE DEF Places
    <3> QED BY <2>2, LeastOf
  <2>4. PICK j \in S : \A k \in S : Ga!Place(ps, j) <= Ga!Place(ps, k)
    BY <2>3
  <2>5. \A k \in S : Precedes(ps, j, k)
    BY <1>2, <2>4
  <2>6. S \subseteq From(ps, j)
    BY <1>1, <2>5 DEF From
  <2>7. PICK c \in Nat, d \in Nat : c = Cardinality(S) /\ d = Cardinality(From(ps, j)) /\ c <= d
    BY <1>2, <1>5, <2>1, <2>6, FS_Subset, FS_CardinalityType
  <2>8. ps[j] * d <= Alpha /\ ps[j] \in Nat
    BY <1>1, <1>4, <1>6, <2>5, <2>7
  <2>9. PICK p \in Nat : p = ps[j]
    BY <2>8
  <2>10. p * c <= p * d
    BY <2>7
  <2>11. p * c \in Nat /\ p * d \in Nat
    OBVIOUS
  <2>12. p * d <= Alpha
    BY <2>7, <2>8, <2>9
  <2>13. p * c <= Alpha
    BY <1>1, <2>10, <2>11, <2>12
  <2> QED BY <2>7, <2>9, <2>13
<1>7. ASSUME NEW i \in 1..n, \A S \in SUBSET (1..n) : i \in S => \E j \in S : ps[j] * Cardinality(S) <= Alpha
      PROVE  i \in Ga!Holm(ps)
  <2> SUFFICES ASSUME NEW j \in 1..n, Precedes(ps, j, i)
               PROVE  ps[j] * Cardinality(From(ps, j)) <= Alpha
    BY <1>4
  <2>1. i \in From(ps, j) /\ From(ps, j) \subseteq 1..n
    BY <1>1 DEF From
  <2>2. PICK k \in From(ps, j) : ps[k] * Cardinality(From(ps, j)) <= Alpha
    BY <1>7, <2>1
  <2>3. ps[j] <= ps[k]
    BY <1>1, <2>1 DEF From, Precedes
  <2>4. PICK p \in Nat, q \in Nat, c \in Nat : p = ps[j] /\ q = ps[k] /\ c = Cardinality(From(ps, j))
    BY <1>1, <1>2, <2>1
  <2>5. p <= q
    BY <2>3, <2>4
  <2>6. p * c <= q * c
    BY <2>5
  <2>7. p * c \in Nat /\ q * c \in Nat /\ q * c <= Alpha
    BY <2>2, <2>4
  <2>8. p * c <= Alpha
    BY <1>1, <2>6, <2>7
  <2> QED BY <2>4, <2>8
<1>8. Ga!Holm(ps) \subseteq 1..n
  BY <1>1 DEF Ga!Holm
<1> QED BY <1>6, <1>7, <1>8

-----------------------------------------------------------------------------
(* The lower end of a sorted bootstrap falls as the confidence rises. *)
LEMMA SortedIs ==
  ASSUME NEW e \in Ga!Estimates, NEW a \in 1..Samples, NEW b \in 1..Samples, a <= b
  PROVE  e[a] \in Int /\ e[a] <= e[b]
<1>1. Samples \in Nat \ {0} /\ e \in [1..Samples -> Int] /\ \A i \in 1..(Samples - 1) : e[i] <= e[i + 1]
  BY GatesGiven DEF Ga!Estimates
<1> DEFINE Bad == {c \in Nat : c \in a..Samples /\ ~(e[a] <= e[c])}
<1>2. Bad = {}
  <2> SUFFICES ASSUME Bad # {} PROVE FALSE
    OBVIOUS
  <2>1. PICK c \in Bad : \A d \in Bad : c <= d
    <3>1. Bad \in SUBSET Nat
      OBVIOUS
    <3> HIDE DEF Bad
    <3> QED BY <3>1, LeastOf
  <2>2. c # a
    BY <1>1
  <2>3. c - 1 \in Nat /\ c - 1 \in a..Samples /\ c - 1 \in 1..(Samples - 1) /\ (c - 1) + 1 = c
    BY <1>1, <2>1, <2>2
  <2>4. e[a] <= e[c - 1]
    BY <2>1, <2>3
  <2>5. e[c - 1] <= e[c]
    BY <1>1, <2>3
  <2>6. e[a] \in Int /\ e[c - 1] \in Int /\ e[c] \in Int
    BY <1>1, <2>1, <2>3
  <2> QED BY <2>1, <2>4, <2>5, <2>6
<1>3. b \in Nat /\ b \in a..Samples
  BY <1>1
<1> QED BY <1>1, <1>2, <1>3

LEMMA LowerEndFalls ==
  ASSUME NEW e \in Ga!Estimates, NEW k \in Nat \ {0}, NEW n \in Nat \ {0}, k <= n
  PROVE  Ga!LowerEnd(e, n) \in Int /\ Ga!LowerEnd(e, n) <= Ga!LowerEnd(e, k)
<1>1. Samples \in Nat \ {0} /\ AlphaDen \in Nat \ {0} /\ AlphaNum \in Nat /\ AlphaNum <= AlphaDen
  BY GatesGiven
<1>2. PICK s \in Nat : s = Samples - 1
  BY <1>1
<1>3. PICK a \in Nat : a = AlphaNum * s
  BY <1>1
<1>4. PICK b \in Nat \ {0} : b = 2 * AlphaDen
  BY <1>1
<1>5. a <= b * s
  BY <1>1, <1>3, <1>4
<1>6. ASSUME NEW m \in Nat \ {0}
      PROVE  b * m \in Nat \ {0} /\ a \div (b * m) \in 0..s
  <2>1. PICK d \in Nat \ {0} : d = b * m
    OBVIOUS
  <2>2. PICK q \in Int : q = a \div d
    BY <2>1
  <2>3. q * d <= a /\ a < q * d + d
    BY <2>1, <2>2
  <2>4. q >= 0
    <3>1. ASSUME q <= -1 PROVE FALSE
      <4>1. q * d <= (-1) * d
        BY <3>1, <2>1, <2>2
      <4> QED BY <2>3, <4>1, <2>1, <2>2
    <3> QED BY <2>2, <3>1
  <2>5. q <= s
    <3>1. ASSUME q >= s + 1 PROVE FALSE
      <4>1. q * d >= (s + 1) * d
        BY <3>1, <2>1, <2>2
      <4>2. (s + 1) * d = s * d + d
        BY <2>1
      <4>3. s * d >= s * b
        <5>1. d >= b
          BY <2>1
        <5> QED BY <5>1
      <4>4. s * b = b * s
        OBVIOUS
      <4>5. s * d \in Int /\ q * d \in Int /\ b * s \in Int
        BY <2>1, <2>2
      <4> QED BY <1>5, <2>1, <2>2, <2>3, <4>1, <4>2, <4>3, <4>4, <4>5
    <3> QED BY <2>2, <3>1
  <2> QED BY <2>1, <2>2, <2>4, <2>5
<1>7. a \div (b * n) <= a \div (b * k)
  <2>1. PICK c \in Nat \ {0}, d \in Nat \ {0} : c = b * n /\ d = b * k /\ d <= c
    <3>1. b * k <= b * n /\ b * n \in Nat \ {0} /\ b * k \in Nat \ {0}
      OBVIOUS
    <3> QED BY <3>1
  <2>2. PICK p \in Nat, q \in Nat : p = a \div c /\ q = a \div d
    BY <1>6, <2>1
  <2>3. p * c <= a /\ a < q * d + d
    <3>1. p * c <= a
      BY <2>2
    <3>2. a < q * d + d
      BY <2>2
    <3> QED BY <3>1, <3>2
  <2>4. p <= q
    <3>1. ASSUME p >= q + 1 PROVE FALSE
      <4>1. p * c >= (q + 1) * c
        BY <3>1
      <4>2. (q + 1) * c >= (q + 1) * d
        BY <2>1
      <4>3. (q + 1) * d = q * d + d
        OBVIOUS
      <4>4. p * c \in Int /\ (q + 1) * c \in Int /\ q * d \in Int
        OBVIOUS
      <4> QED BY <2>3, <4>1, <4>2, <4>3, <4>4
    <3> QED BY <3>1
  <2> QED BY <2>1, <2>2, <2>4
<1>8. ASSUME NEW m \in Nat \ {0} PROVE Ga!LowerEnd(e, m) = e[1 + a \div (b * m)]
  BY <1>2, <1>3, <1>4 DEF Ga!LowerEnd
<1>9. PICK i \in 1..Samples, j \in 1..Samples : i = 1 + a \div (b * n) /\ j = 1 + a \div (b * k) /\ i <= j
  <2>1. a \div (b * n) \in 0..s /\ a \div (b * k) \in 0..s
    BY <1>6
  <2>2. PICK x \in 0..s, y \in 0..s : x = a \div (b * n) /\ y = a \div (b * k)
    BY <2>1
  <2>3. x <= y
    BY <1>7, <2>2
  <2>4. 1 + x \in 1..Samples /\ 1 + y \in 1..Samples /\ 1 + x <= 1 + y
    BY <1>1, <1>2, <2>3
  <2> QED BY <2>2, <2>4
<1> QED BY <1>8, <1>9, SortedIs

LEMMA PositiveStays ==
  ASSUME NEW c \in Ga!Candidates, NEW k \in Nat \ {0}, NEW n \in Nat \ {0}, k <= n,
         NEW least \in Nat, NEW other \in Nat, Ga!Positive(c, least, n), c.closed >= other
  PROVE  Ga!Positive(c, other, k)
<1>1. PICK e : e = IF c.traded THEN c.byTrade ELSE c.byWindow
  OBVIOUS
<1>2. e \in Ga!Estimates /\ c.traded \in BOOLEAN
  BY <1>1 DEF Ga!Candidates
<1>3. c.closed >= least /\ Ga!LowerEnd(e, n) > 0
  BY <1>1, <1>2 DEF Ga!Positive
<1>4. Ga!LowerEnd(e, n) <= Ga!LowerEnd(e, k) /\ Ga!LowerEnd(e, n) \in Int /\ Ga!LowerEnd(e, k) \in Int
  BY <1>2, LowerEndFalls
<1>5. Ga!LowerEnd(e, k) > 0
  BY <1>3, <1>4
<1> QED BY <1>1, <1>2, <1>5 DEF Ga!Positive

-----------------------------------------------------------------------------
(* Overfitting. *)
Dominates(m, s) == \A u \in Strategies \ {s}, b \in Blocks : m[s][b] > m[u][b]
Matrices == [Strategies -> [Blocks -> Scores]]

LEMMA TotalIs == \A m, s, B : Ga!Total(m, s, B) = Sum(m[s], B)
BY Zenon DEF Ga!Total, Ga!MapThenSumSet, Ga!MapThenFoldSet, Sum, MapThenSumSet, MapThenFoldSet

LEMMA AheadRanks ==
  ASSUME NEW m \in Matrices, NEW s \in Strategies, Dominates(m, s),
         NEW B \in SUBSET Blocks, B # {}
  PROVE  /\ Ga!RankIn(m, s, B) = 1
         /\ \A u \in Strategies \ {s} : Ga!RankIn(m, u, B) # 1
<1>1. \A u \in Strategies : m[u] \in [Blocks -> Int]
  BY GatesGiven DEF Matrices
<1>2. \A u \in Strategies : Sum(m[u], B) \in Int
  <2>1. \A f \in [Blocks -> Int] : \A T \in SUBSET Blocks : Sum(f, T) \in Int
    BY GatesGiven, SumRules, Zenon
  <2> QED BY <1>1, <2>1
<1>3. ASSUME NEW u \in Strategies \ {s} PROVE Sum(m[u], B) < Sum(m[s], B)
  <2>1. \A b \in Blocks : m[u][b] < m[s][b]
    <3>1. \A b \in Blocks : m[u][b] \in Int /\ m[s][b] \in Int
      BY <1>1
    <3> QED BY <3>1 DEF Dominates
  <2>2. \A f \in [Blocks -> Int], g \in [Blocks -> Int] :
          (\A b \in Blocks : f[b] < g[b]) => \A T \in SUBSET Blocks : T # {} => Sum(f, T) < Sum(g, T)
    BY GatesGiven, SumStrict, Zenon
  <2> QED BY <1>1, <2>1, <2>2
<1> DEFINE Over(u) == {x \in Strategies : Sum(m[x], B) > Sum(m[u], B)}
<1>4. \A u : Ga!RankIn(m, u, B) = 1 + Cardinality(Over(u))
  BY TotalIs, GatesCount, Zenon DEF Ga!RankIn
<1>5. Over(s) = {}
  <2>1. \A x \in Strategies : ~(Sum(m[x], B) > Sum(m[s], B))
    BY <1>2, <1>3
  <2> QED BY <2>1
<1>6. ASSUME NEW u \in Strategies \ {s} PROVE Cardinality(Over(u)) \in Nat \ {0}
  <2>1. s \in Over(u)
    BY <1>2, <1>3
  <2>2. IsFiniteSet(Over(u))
    <3>1. Over(u) \subseteq Strategies
      OBVIOUS
    <3> HIDE DEF Over
    <3> QED BY <3>1, GatesGiven, FS_Subset
  <2> HIDE DEF Over
  <2> QED BY <2>1, <2>2, FS_CardinalityType, FS_EmptySet
<1>7. Ga!RankIn(m, s, B) = 1
  BY <1>4, <1>5, FS_EmptySet
<1>8. \A u \in Strategies \ {s} : Ga!RankIn(m, u, B) # 1
  <2> HIDE DEF Over
  <2> QED BY <1>4, <1>6
<1> QED BY <1>7, <1>8

LEMMA HalvesAre ==
  /\ IsFiniteSet(Ga!Halves) /\ Cardinality(Ga!Halves) \in Nat \ {0}
  /\ \A B \in Ga!Halves : B \subseteq Blocks /\ B # {} /\ Blocks \ B # {}
<1>1. Ga!Halves = {B \in SUBSET Blocks : 2 * Cardinality(B) = Cardinality(Blocks)}
  BY GatesCount, Zenon DEF Ga!Halves
<1>2. IsFiniteSet(Blocks) /\ Blocks # {} /\ Cardinality(Blocks) % 2 = 0
  BY GatesGiven
<1>3. Cardinality(Blocks) \in Nat \ {0}
  BY <1>2, FS_CardinalityType, FS_EmptySet
<1>4. PICK h \in Nat : 2 * h = Cardinality(Blocks) /\ h <= Cardinality(Blocks)
  BY <1>2, <1>3
<1>5. PICK H \in SUBSET Blocks : Cardinality(H) = h
  <2>1. h \in 0..Cardinality(Blocks)
    BY <1>3, <1>4
  <2> QED BY <1>2, <2>1, PartsOfSize
<1>6. H \in Ga!Halves
  BY <1>1, <1>4, <1>5
<1>7. IsFiniteSet(Ga!Halves)
  <2>1. IsFiniteSet(SUBSET Blocks)
    BY <1>2, FS_SUBSET
  <2>2. Ga!Halves \subseteq SUBSET Blocks
    BY <1>1
  <2> QED BY <2>1, <2>2, FS_Subset
<1>8. ASSUME NEW B \in Ga!Halves PROVE B \subseteq Blocks /\ B # {} /\ Blocks \ B # {}
  <2>1. B \subseteq Blocks /\ 2 * Cardinality(B) = Cardinality(Blocks)
    BY <1>1, <1>8
  <2>2. B # {}
    <3>1. Cardinality({}) = 0
      BY FS_EmptySet
    <3> QED BY <1>3, <2>1, <3>1
  <2>3. B # Blocks
    BY <1>3, <2>1
  <2> QED BY <2>1, <2>2, <2>3
<1> QED BY <1>6, <1>7, <1>8, FS_CardinalityType, FS_EmptySet

LEMMA AheadIsNotOverfit ==
  ASSUME NEW m \in Matrices, NEW s \in Strategies, Dominates(m, s)
  PROVE  Ga!Pbo(m) = 0 /\ Ga!Risk(m) = "LOW"
<1>1. ASSUME NEW B \in Ga!Halves PROVE ~Ga!Overfit(m, B)
  <2>1. B \in SUBSET Blocks /\ B # {} /\ Blocks \ B \in SUBSET Blocks /\ Blocks \ B # {}
    BY <1>1, HalvesAre
  <2>2. {u \in Strategies : Ga!RankIn(m, u, B) = 1} = {s}
    BY <2>1, AheadRanks
  <2>3. Ga!TrainBest(m, B) = s
    <3>1. s \in Int
      BY GatesGiven
    <3>2. Ga!Min({s}) = s
      BY <3>1 DEF Ga!Min
    <3> QED BY <2>2, <3>2 DEF Ga!TrainBest
  <2>4. Ga!RankIn(m, s, Blocks \ B) = 1
    BY <2>1, AheadRanks
  <2>5. Cardinality(Strategies) \in Nat /\ Cardinality(Strategies) >= 2
    BY GatesGiven, FS_CardinalityType
  <2> QED BY <2>3, <2>4, <2>5, GatesCount DEF Ga!Overfit
<1>2. {B \in Ga!Halves : Ga!Overfit(m, B)} = {}
  BY <1>1
<1>3. Ga!Pbo(m) = 0
  BY <1>2, GatesCount, FS_EmptySet DEF Ga!Pbo
<1>4. Ga!Risk(m) = "LOW"
  BY <1>3, HalvesAre, GatesCount DEF Ga!Risk
<1> QED BY <1>3, <1>4

-----------------------------------------------------------------------------
(* A report is of what was given. *)
GatesInv ==
  /\ verdict # None => family # None \/ windows # None \/ matrix # None
  /\ family # None =>
       /\ windows = None /\ matrix = None /\ family \in Seq(Ga!Candidates)
       /\ verdict # None => family # <<>> /\ verdict = Ga!FamilyReport(family)
  /\ windows # None =>
       /\ family = None /\ matrix = None
       /\ \E n \in Nat : windows.ps \in [1..n -> Nat]
       /\ verdict # None => verdict.rejected = Ga!Holm(windows.ps)
  /\ matrix # None =>
       /\ family = None /\ windows = None /\ matrix \in Matrices
       /\ verdict # None => verdict.pbo = Ga!Pbo(matrix) /\ verdict.risk = Ga!Risk(matrix)

LEMMA GatesStart == Ga!Init => GatesInv
<1> SUFFICES ASSUME Ga!Init PROVE GatesInv
  OBVIOUS
<1>1. CASE family = <<>> /\ windows = None /\ matrix = None
  BY <1>1 DEF Ga!Init, GatesInv
<1>2. CASE /\ family = None /\ matrix = None
           /\ windows \in [closed : {MinTrades - 1, MinTrades}, sharpe : BOOLEAN,
                           ps : UNION {[1..n -> PValues] : n \in 0..MaxWindows}]
  <2>1. PICK n \in 0..MaxWindows : windows.ps \in [1..n -> PValues]
    BY <1>2
  <2>2. n \in Nat /\ windows.ps \in [1..n -> Nat]
    <3>1. n \in Nat /\ PValues \subseteq Nat
      BY GatesGiven
    <3> QED BY <2>1, <3>1
  <2> QED BY <1>2, <2>2 DEF Ga!Init, GatesInv
<1>3. CASE family = None /\ windows = None /\ matrix \in [Strategies -> [Blocks -> Scores]]
  BY <1>3 DEF Ga!Init, GatesInv, Matrices
<1> QED BY <1>1, <1>2, <1>3 DEF Ga!Init

LEMMA GatesStep == GatesInv /\ [Ga!Next]_(Ga!vars) => GatesInv'
<1> SUFFICES ASSUME GatesInv, [Ga!Next]_(Ga!vars) PROVE GatesInv'
  OBVIOUS
<1>1. CASE Ga!EvaluateCandidate
  <2>1. PICK c \in Ga!Candidates : family' = Append(family, c)
    BY <1>1 DEF Ga!EvaluateCandidate
  <2>2. family # None /\ verdict = None /\ UNCHANGED <<windows, matrix, verdict>>
    BY <1>1 DEF Ga!EvaluateCandidate
  <2>3. family \in Seq(Ga!Candidates) /\ windows = None /\ matrix = None
    BY <2>2 DEF GatesInv
  <2>4. family' \in Seq(Ga!Candidates)
    BY <2>1, <2>3
  <2> QED BY <2>2, <2>3, <2>4 DEF GatesInv
<1>2. CASE Ga!BudgetExceeded
  BY <1>2 DEF Ga!BudgetExceeded, GatesInv
<1>3. CASE Ga!ReportFamily
  BY <1>3 DEF Ga!ReportFamily, GatesInv
<1>4. CASE Ga!ReportStrength
  BY <1>4 DEF Ga!ReportStrength, GatesInv
<1>5. CASE Ga!ReportOverfitting
  BY <1>5 DEF Ga!ReportOverfitting, GatesInv
<1>6. CASE UNCHANGED Ga!vars
  BY <1>6 DEF Ga!vars, GatesInv
<1> QED BY <1>1, <1>2, <1>3, <1>4, <1>5, <1>6 DEF Ga!Next

LEMMA GatesInvHolds == Ga!Spec => []GatesInv
BY GatesStart, GatesStep, PTL DEF Ga!Spec

LEMMA VerdictsDo ==
  GatesInv => Ga!TypeOK /\ Ga!HolmIsTheClosedTest /\ Ga!CorrectionOnlyRemoves /\ Ga!DominanceIsNoOverfit
<1> SUFFICES ASSUME GatesInv
             PROVE  Ga!TypeOK /\ Ga!HolmIsTheClosedTest /\ Ga!CorrectionOnlyRemoves
                    /\ Ga!DominanceIsNoOverfit
  OBVIOUS
<1>1. CASE family # None
  <2>1. family \in Seq(Ga!Candidates) /\ windows = None /\ matrix = None
    BY <1>1 DEF GatesInv
  <2>2. verdict # None => verdict = Ga!FamilyReport(family)
    BY <1>1 DEF GatesInv
  <2>3. verdict # None =>
          /\ verdict.corrected = {i \in DOMAIN family : Ga!Positive(family[i], FamilyMinTrades, Len(family))}
          /\ verdict.uncorrected = {i \in DOMAIN family : Ga!Positive(family[i], FamilyMinTrades, 1)}
          /\ verdict.alone = {i \in DOMAIN family : Ga!Positive(family[i], MinTrades, 1)}
          /\ verdict.adequate <=> \A i \in DOMAIN family : family[i].closed >= MinTrades
    BY <2>2 DEF Ga!FamilyReport
  <2>4. ASSUME verdict # None, NEW i \in verdict.corrected
        PROVE  /\ i \in verdict.uncorrected
               /\ \A k \in 1..Len(family) : Ga!Positive(family[i], FamilyMinTrades, k)
               /\ verdict.adequate => i \in verdict.alone
    <3>1. i \in DOMAIN family /\ Ga!Positive(family[i], FamilyMinTrades, Len(family))
      BY <2>3, <2>4
    <3>2. family[i] \in Ga!Candidates /\ Len(family) \in Nat \ {0}
      BY <2>1, <3>1
    <3>3. MinTrades \in Nat /\ FamilyMinTrades \in Nat
      BY GatesGiven
    <3>4. family[i].closed >= FamilyMinTrades
      BY <3>1 DEF Ga!Positive
    <3>5. \A k \in Nat \ {0}, least \in Nat : k <= Len(family) /\ family[i].closed >= least =>
            Ga!Positive(family[i], least, k)
      BY <3>1, <3>2, <3>3, PositiveStays
    <3>6. \A k \in 1..Len(family) : Ga!Positive(family[i], FamilyMinTrades, k)
      BY <3>2, <3>3, <3>4, <3>5
    <3>7. verdict.adequate => i \in verdict.alone
      BY <2>3, <2>4, <3>1, <3>2, <3>3, <3>5
    <3> QED BY <2>3, <2>4, <3>1, <3>2, <3>6, <3>7
  <2>5. Ga!CorrectionOnlyRemoves
    BY <2>4 DEF Ga!CorrectionOnlyRemoves
  <2>6. Ga!TypeOK
    <3>1. \A i \in DOMAIN family : family[i] \in Ga!Candidates
      BY <2>1
    <3>2. verdict # None => verdict.corrected \subseteq DOMAIN family
      BY <2>3
    <3> QED BY <1>1, <2>1, <3>1, <3>2 DEF Ga!TypeOK
  <2> QED BY <2>1, <2>5, <2>6 DEF Ga!HolmIsTheClosedTest, Ga!DominanceIsNoOverfit
<1>2. CASE windows # None
  <2>1. family = None /\ matrix = None /\ (verdict # None => verdict.rejected = Ga!Holm(windows.ps))
    BY <1>2 DEF GatesInv
  <2>2. PICK n \in Nat : windows.ps \in [1..n -> Nat]
    BY <1>2 DEF GatesInv
  <2>3. \A ps \in [1..n -> Nat] : Ga!Holm(ps) =
          {i \in 1..n : \A S \in SUBSET (1..n) : i \in S => \E j \in S : ps[j] * Cardinality(S) <= Alpha}
    BY HolmCloses
  <2>4. DOMAIN windows.ps = 1..n
    BY <2>2
  <2>5. Ga!HolmIsTheClosedTest
    BY <2>1, <2>2, <2>3, <2>4, GatesCount, Zenon DEF Ga!HolmIsTheClosedTest
  <2>6. Ga!TypeOK
    BY <1>2, <2>1 DEF Ga!TypeOK, Ga!Holm
  <2> QED BY <2>1, <2>5, <2>6 DEF Ga!CorrectionOnlyRemoves, Ga!DominanceIsNoOverfit
<1>3. CASE family = None /\ windows = None
  <2>1. verdict # None => matrix # None
    BY <1>3 DEF GatesInv
  <2>2. matrix # None => matrix \in Matrices
          /\ (verdict # None => verdict.pbo = Ga!Pbo(matrix) /\ verdict.risk = Ga!Risk(matrix))
    BY DEF GatesInv
  <2>3. Ga!DominanceIsNoOverfit
    <3>1. \A m \in Matrices, s \in Strategies : Dominates(m, s) => Ga!Pbo(m) = 0 /\ Ga!Risk(m) = "LOW"
      BY AheadIsNotOverfit
    <3> QED BY <2>2, <3>1 DEF Ga!DominanceIsNoOverfit, Dominates
  <2>4. \A m : Ga!Pbo(m) \in 0..Ga!Cardinality(Ga!Halves)
    <3> TAKE m
    <3> DEFINE O == {B \in Ga!Halves : Ga!Overfit(m, B)}
    <3>1. O \subseteq Ga!Halves /\ IsFiniteSet(Ga!Halves)
      BY HalvesAre
    <3>2. Cardinality(O) \in Nat /\ Cardinality(O) <= Cardinality(Ga!Halves)
          /\ Cardinality(Ga!Halves) \in Nat
      <4> HIDE DEF O
      <4> QED BY <3>1, FS_Subset, FS_CardinalityType
    <3> QED BY <3>2, GatesCount DEF Ga!Pbo
  <2>5. Ga!TypeOK
    BY <1>3, <2>1, <2>2, <2>4 DEF Ga!TypeOK, Matrices
  <2> QED BY <1>3, <2>3, <2>5 DEF Ga!HolmIsTheClosedTest, Ga!CorrectionOnlyRemoves
<1> QED BY <1>1, <1>2, <1>3

-----------------------------------------------------------------------------
(* The reports, for any families, returns, regimes and results.              *)

LEMMA ReportsGiven ==
  /\ Families \subseteq Nat /\ IsFiniteSet(Families) /\ Families # {}
  /\ StepReturns \subseteq Int /\ ScanDepth \in Nat /\ MaxSteps \in Nat /\ MaxSymbols \in Nat
<1>1. Cardinality({}) = 0
  BY FS_EmptySet
<1>2. Re!ReportsAssumption
  BY PartsAssumption
<1>3. Families \subseteq Nat /\ StepReturns \subseteq Int /\ {MaxSteps, ScanDepth, MaxSymbols} \subseteq Nat
  BY <1>2 DEF Re!ReportsAssumption
<1>4. IsFiniteSet(Families) /\ Cardinality(Families) >= 2
  BY <1>2, Zenon DEF Re!ReportsAssumption, Re!IsFiniteSet, IsFiniteSet, Re!Cardinality, Cardinality
<1> QED BY <1>1, <1>3, <1>4

LEMMA ReportsCount == \A S : Re!Cardinality(S) = Cardinality(S)
BY DEF Re!Cardinality, Cardinality

LEMMA OverIs == \A f, S : Re!Over(f, S) = Sum(f, S)
BY Zenon DEF Re!Over, Re!MapThenSumSet, Re!MapThenFoldSet, Sum, MapThenSumSet, MapThenFoldSet

LEMMA SeqsAre ==
  ASSUME NEW S, NEW n \in Nat, NEW s \in Re!SeqsUpTo(S, n)
  PROVE  /\ Len(s) \in Nat \ {0} /\ DOMAIN s = 1..Len(s) /\ s \in [1..Len(s) -> S]
<1>1. PICK m \in 1..n : s \in [1..m -> S]
  BY DEF Re!SeqsUpTo
<1>2. m \in Nat \ {0} /\ DOMAIN s = 1..m
  BY <1>1
<1>3. Len(s) = m
  BY <1>1, <1>2
<1> QED BY <1>1, <1>2, <1>3

(* What a report is of. *)
Kinds ==
  \/ /\ given.kind = "returns" /\ given.series \in [Families -> Re!SeqsUpTo(StepReturns, MaxSteps)]
     /\ given.labels \in Re!SeqsUpTo(Regimes, MaxSteps)
  \/ given.kind = "symbols" /\ given.results \in Re!SeqsUpTo(Re!Results, MaxSymbols)
  \/ given.kind = "evidence" /\ given.blocks \in Re!SeqsUpTo(Re!RequestBlocks, 2)
  \/ given.kind = "review"

OfReturns ==
  report = [attribution |-> Re!Attribution(given.series),
            regimes |-> IF Re!Aligned(given.series, given.labels)
                        THEN Re!ByRegime(given.series, given.labels) ELSE None,
            matrix |-> IF Re!Aligned(given.series, given.labels)
                       THEN Re!Matrix(given.series, given.labels) ELSE None]

OfSymbols ==
  /\ ~Re!Refuses(given.results, given.blocked)
  /\ report.net = Re!Over([i \in DOMAIN given.results |-> given.results[i].net], DOMAIN given.results)
  /\ report.promotes = Re!Promotes(given.results, given.blocked)

OfEvidence == ~Re!RefusesEvidence(given.blocks) /\ report = Re!RollUp(given.blocks)

OfReview == report.pass = Re!Passes(given.said) /\ report.risks = Re!Risks(given.said)

ReportsInv ==
  /\ Kinds
  /\ Re!Reported("returns") => OfReturns
  /\ Re!Reported("symbols") => OfSymbols
  /\ Re!Reported("evidence") => OfEvidence
  /\ Re!Reported("review") => OfReview

LEMMA ReportsStart == Re!Init => ReportsInv
<1> SUFFICES ASSUME Re!Init PROVE ReportsInv
  OBVIOUS
<1>1. Kinds
  BY DEF Re!Init, Kinds
<1>2. report = None
  BY DEF Re!Init
<1> QED BY <1>1, <1>2 DEF ReportsInv, Re!Reported

LEMMA ReportsStep == ReportsInv /\ [Re!Next]_(Re!vars) => ReportsInv'
<1> SUFFICES ASSUME ReportsInv, [Re!Next]_(Re!vars) PROVE ReportsInv'
  OBVIOUS
<1>1. UNCHANGED given
  BY DEF Re!Next, Re!Attribute, Re!Aggregate, Re!RollUpEvidence, Re!Review, Re!Returns, Re!vars
<1>2. Kinds'
  BY <1>1 DEF ReportsInv, Kinds
<1>3. CASE UNCHANGED report
  BY <1>1, <1>2, <1>3 DEF ReportsInv, Re!Reported, OfReturns, OfSymbols, OfEvidence, OfReview
<1>4. CASE Re!Attribute
  <2>1. given.kind = "returns"
    BY <1>4 DEF Re!Attribute
  <2>2. OfReturns'
    BY <1>1, <1>4, Zenon DEF Re!Attribute, Re!Returns, OfReturns
  <2> QED BY <1>1, <1>2, <2>1, <2>2 DEF ReportsInv, Re!Reported
<1>5. CASE Re!Aggregate
  <2>1. given.kind = "symbols" /\ ~Re!Refuses(given.results, given.blocked)
    BY <1>5 DEF Re!Aggregate
  <2>2. report' = [net |-> Re!Over([i \in DOMAIN given.results |-> given.results[i].net],
                           DOMAIN given.results),
              promotes |-> Re!Promotes(given.results, given.blocked)]
    BY <1>5, Zenon DEF Re!Aggregate, Re!Returns
  <2>3. /\ report'.net = Re!Over([i \in DOMAIN given.results |-> given.results[i].net], DOMAIN given.results)
        /\ report'.promotes = Re!Promotes(given.results, given.blocked)
    BY <2>2
  <2>4. OfSymbols'
    BY <1>1, <2>1, <2>3, Zenon DEF OfSymbols
  <2> QED BY <1>1, <1>2, <2>1, <2>4 DEF ReportsInv, Re!Reported
<1>6. CASE Re!RollUpEvidence
  <2>1. given.kind = "evidence" /\ ~Re!RefusesEvidence(given.blocks)
    BY <1>6 DEF Re!RollUpEvidence
  <2>2. OfEvidence'
    BY <1>1, <1>6, <2>1, Zenon DEF Re!RollUpEvidence, Re!Returns, OfEvidence
  <2> QED BY <1>1, <1>2, <2>1, <2>2 DEF ReportsInv, Re!Reported
<1>7. CASE Re!Review
  <2>1. given.kind = "review" /\ report' = [pass |-> Re!Passes(given.said), risks |-> Re!Risks(given.said)]
    BY <1>7 DEF Re!Review, Re!Returns
  <2>2. report'.pass = Re!Passes(given.said) /\ report'.risks = Re!Risks(given.said)
    BY <2>1
  <2>3. OfReview'
    BY <1>1, <2>2, Zenon DEF OfReview
  <2> QED BY <1>1, <1>2, <2>1, <2>3 DEF ReportsInv, Re!Reported
<1> QED BY <1>3, <1>4, <1>5, <1>6, <1>7 DEF Re!Next, Re!vars

LEMMA ReportsInvHolds == Re!Spec => []ReportsInv
BY ReportsStart, ReportsStep, PTL DEF Re!Spec

-----------------------------------------------------------------------------
LEMMA PassIsClean == ReportsInv => Re!PassHasNoRisk
<1> SUFFICES ASSUME ReportsInv, Re!Reported("review"), report.pass PROVE report.risks = {}
  BY DEF Re!PassHasNoRisk
<1>1. Re!Passes(given.said) /\ report.risks = Re!Risks(given.said)
  BY DEF ReportsInv, OfReview
<1> QED BY <1>1 DEF Re!Passes, Re!Risks

LEMMA AggregateIsHonest ==
  ASSUME ReportsInv, Re!Reported("symbols")
  PROVE  /\ \A i \in DOMAIN given.results : ~Re!Overclaims(given.results[i])
         /\ report.promotes => ~given.blocked /\ report.net = Len(given.results)
<1>1. OfSymbols /\ given.results \in Re!SeqsUpTo(Re!Results, MaxSymbols)
  BY DEF ReportsInv, Kinds, Re!Reported
<1>2. PICK n \in Nat \ {0} : n = Len(given.results) /\ DOMAIN given.results = 1..n
                             /\ given.results \in [1..n -> Re!Results]
  BY <1>1, SeqsAre, ReportsGiven
<1>3. \A i \in DOMAIN given.results : ~Re!Overclaims(given.results[i])
  BY <1>1 DEF OfSymbols, Re!Refuses
<1>4. ASSUME report.promotes PROVE ~given.blocked /\ report.net = Len(given.results)
  <2>1. ~given.blocked /\ \A i \in DOMAIN given.results : given.results[i].net > 0
    BY <1>1, <1>4 DEF OfSymbols, Re!Promotes
  <2>2. PICK v : v = [i \in DOMAIN given.results |-> given.results[i].net]
    OBVIOUS
  <2>3. \A i \in 1..n : v[i] = 1
    <3> SUFFICES ASSUME NEW i \in 1..n PROVE given.results[i].net = 1
      BY <1>2, <2>2
    <3>1. given.results[i].net \in {-1, 1} /\ given.results[i].net > 0
      BY <1>2, <2>1 DEF Re!Results
    <3> QED BY <3>1
  <2>4. v \in [1..n -> Int]
    <3>1. v = [i \in 1..n |-> given.results[i].net]
      BY <1>2, <2>2
    <3>2. \A i \in 1..n : given.results[i].net = 1
      BY <2>3, <3>1
    <3> QED BY <3>1, <3>2
  <2>5. IsFiniteSet(1..n) /\ Cardinality(1..n) = n /\ 1..n \in SUBSET (1..n) /\ 1 \in Int
    BY FS_Interval
  <2>6. \A S \in SUBSET (1..n) : Sum(v, S) = 1 * Cardinality(S)
    BY <2>3, <2>4, <2>5, SumConstant
  <2>7. Sum(v, 1..n) = n
    BY <2>5, <2>6
  <2>8. report.net = Sum(v, 1..n)
    BY <1>1, <1>2, <2>2, OverIs DEF OfSymbols
  <2> QED BY <1>2, <2>1, <2>7, <2>8
<1> QED BY <1>3, <1>4

LEMMA RollUpIsHonest ==
  ASSUME ReportsInv, Re!Reported("evidence")
  PROVE  /\ \A i \in DOMAIN given.blocks : ~given.blocks[i].credentials /\ given.blocks[i].signed = 0
         /\ report.symbols = Len(given.blocks)
<1>1. OfEvidence /\ given.blocks \in Re!SeqsUpTo(Re!RequestBlocks, 2)
  BY DEF ReportsInv, Kinds, Re!Reported
<1>2. PICK n \in Nat \ {0} : n = Len(given.blocks) /\ DOMAIN given.blocks = 1..n
                             /\ given.blocks \in [1..n -> Re!RequestBlocks]
  BY <1>1, SeqsAre
<1>3. report.symbols = Len(given.blocks)
  BY <1>1 DEF OfEvidence, Re!RollUp
<1>4. \A i \in DOMAIN given.blocks : ~given.blocks[i].credentials
  BY <1>1 DEF OfEvidence, Re!RefusesEvidence
<1>5. PICK v : v = [i \in DOMAIN given.blocks |-> given.blocks[i].signed]
  OBVIOUS
<1>6. v \in [1..n -> Nat]
  BY <1>2, <1>5 DEF Re!RequestBlocks
<1>7. Sum(v, 1..n) = 0
  BY <1>1, <1>2, <1>5, OverIs DEF OfEvidence, Re!RefusesEvidence
<1>8. \A i \in 1..n : v[i] = 0
  <2>1. IsFiniteSet(1..n)
    BY FS_Interval
  <2> QED BY <1>6, <1>7, <2>1, SumOfNone
<1> QED BY <1>2, <1>3, <1>4, <1>5, <1>8

LEMMA PublishedDo == ReportsInv => Re!PublishedIsHonest
BY AggregateIsHonest, RollUpIsHonest DEF Re!PublishedIsHonest

-----------------------------------------------------------------------------
(* Regimes part the returns. *)
LEMMA RegimesDo == ReportsInv => Re!RegimesPartReturns
<1> SUFFICES ASSUME ReportsInv, Re!Reported("returns"), report.regimes # None
             PROVE  Re!RegimesPartReturns
  BY DEF Re!RegimesPartReturns
<1>1. OfReturns /\ given.series \in [Families -> Re!SeqsUpTo(StepReturns, MaxSteps)]
      /\ given.labels \in Re!SeqsUpTo(Regimes, MaxSteps)
  BY DEF ReportsInv, Kinds, Re!Reported
<1>2. PICK s, lab : s = given.series /\ lab = given.labels
  OBVIOUS
<1>3. /\ report.attribution = Re!Attribution(s)
      /\ report.regimes = IF Re!Aligned(s, lab) THEN Re!ByRegime(s, lab) ELSE None
      /\ report.matrix = IF Re!Aligned(s, lab) THEN Re!Matrix(s, lab) ELSE None
  BY <1>1, <1>2 DEF OfReturns
<1>4. /\ Re!Aligned(s, lab) /\ report.regimes = Re!ByRegime(s, lab)
      /\ report.matrix = Re!Matrix(s, lab)
  BY <1>3
<1>5. PICK n \in Nat \ {0} : n = Len(lab) /\ DOMAIN lab = 1..n
  BY <1>1, <1>2, SeqsAre, ReportsGiven
<1>6. \A f \in Families : s[f] \in [1..n -> Int] /\ DOMAIN s[f] = 1..n /\ Len(s[f]) = n
  <2> SUFFICES ASSUME NEW f \in Families PROVE s[f] \in [1..n -> Int] /\ DOMAIN s[f] = 1..n /\ Len(s[f]) = n
    OBVIOUS
  <2>1. s[f] \in Re!SeqsUpTo(StepReturns, MaxSteps) /\ Len(s[f]) = n
    BY <1>1, <1>2, <1>4, <1>5 DEF Re!Aligned
  <2>2. DOMAIN s[f] = 1..n /\ s[f] \in [1..n -> StepReturns]
    BY <2>1, SeqsAre, ReportsGiven
  <2> QED BY <2>1, <2>2, ReportsGiven
<1>7. IsFiniteSet(1..n) /\ Cardinality(1..n) = n /\ 1..n \in SUBSET (1..n)
  BY FS_Interval
<1>8. IsFiniteSet(Families) /\ Families # {} /\ Families \in SUBSET Families
  BY ReportsGiven
<1> DEFINE G == {lab[i] : i \in 1..n}
           Steps(g) == {i \in 1..n : lab[i] = g}
<1>9. Re!Observed(lab) = G /\ \A g : Re!StepsOf(lab, g) = Steps(g)
  BY <1>5 DEF Re!Observed, Re!StepsOf
<1>10. PICK m : m = [f \in Families |-> [g \in G |-> Sum(s[f], Steps(g))]]
  OBVIOUS
<1>11. /\ m \in [Families -> [G -> Int]]
       /\ \A f \in Families, g \in G : m[f][g] = Sum(s[f], Steps(g))
  <2>1. \A f \in Families, g \in G : Sum(s[f], Steps(g)) \in Int
    <3>1. \A v \in [1..n -> Int], T \in SUBSET (1..n) : Sum(v, T) \in Int
      BY <1>7, SumsAre
    <3>2. \A g : Steps(g) \in SUBSET (1..n)
      OBVIOUS
    <3> HIDE DEF Steps
    <3> QED BY <1>6, <3>1, <3>2
  <2> HIDE DEF G, Steps
  <2> QED BY <1>10, <2>1
<1>a. PICK label, piece :
        /\ label \in [1..n -> G] /\ \A g \in G : \E i \in 1..n : label[i] = g
        /\ piece \in [G -> SUBSET (1..n)] /\ \A g \in G : piece[g] = Steps(g)
        /\ \A g \in G, i \in 1..n : i \in piece[g] <=> label[i] = g
  <2>1. PICK label : label = [i \in 1..n |-> lab[i]]
    OBVIOUS
  <2>2. PICK piece : piece = [g \in G |-> Steps(g)]
    OBVIOUS
  <2>3. label \in [1..n -> G] /\ \A g \in G : \E i \in 1..n : label[i] = g
    BY <2>1
  <2>4. piece \in [G -> SUBSET (1..n)] /\ \A g \in G : piece[g] = Steps(g)
    <3>1. \A g : Steps(g) \in SUBSET (1..n)
      OBVIOUS
    <3> HIDE DEF G, Steps
    <3> QED BY <2>2, <3>1
  <2>5. \A g \in G, i \in 1..n : i \in piece[g] <=> label[i] = g
    <3>1. \A g, i : i \in Steps(g) <=> i \in 1..n /\ lab[i] = g
      OBVIOUS
    <3> HIDE DEF G, Steps
    <3> QED BY <2>1, <2>4, <3>1
  <2> HIDE DEF G, Steps
  <2> QED BY <2>3, <2>4, <2>5
<1>b. ASSUME NEW v \in [1..n -> Int], NEW w \in [G -> Int], \A g \in G : w[g] = Sum(v, Steps(g))
      PROVE  IsFiniteSet(G) /\ Sum(w, G) = Sum(v, 1..n)
  <2> HIDE DEF G, Steps
  <2>1. Labelled(1..n, G, label, piece)
    BY <1>a DEF Labelled
  <2>2. PartsAdded(G, v, piece, w)
    BY <1>a, <1>b DEF PartsAdded
  <2> QED BY <1>7, <2>1, <2>2, SumOfParts
(* By families: the rows of the matrix. *)
<1>12. IsFiniteSet(G) /\ \A f \in Families : Sum(m[f], G) = Sum(s[f], 1..n)
  <2>1. ASSUME NEW f \in Families PROVE IsFiniteSet(G) /\ Sum(m[f], G) = Sum(s[f], 1..n)
    <3> HIDE DEF G, Steps
    <3>1. PICK v \in [1..n -> Int], w \in [G -> Int] : v = s[f] /\ w = m[f]
      BY <1>6, <1>11
    <3>2. \A g \in G : w[g] = Sum(v, Steps(g))
      BY <1>11, <3>1
    <3> QED BY <1>b, <3>1, <3>2
  <2> HIDE DEF G
  <2> QED BY <1>8, <2>1
<1>13. PICK nets : nets = [f \in Families |-> Sum(s[f], 1..n)]
  OBVIOUS
<1>14. nets \in [Families -> Int] /\ \A f \in Families : nets[f] = Sum(s[f], 1..n)
  <2>1. \A f \in Families : Sum(s[f], 1..n) \in Int
    <3>1. \A v \in [1..n -> Int], T \in SUBSET (1..n) : Sum(v, T) \in Int
      BY <1>7, SumsAre
    <3> QED BY <1>6, <1>7, <3>1
  <2> QED BY <1>13, <2>1
<1>15. report.attribution.net = nets /\ report.attribution.total = Sum(nets, Families)
       /\ report.attribution.blend = Re!Blend(s)
  <2>1. [f \in Families |-> Re!Net(s[f])] = nets
    BY <1>6, <1>13, OverIs DEF Re!Net
  <2>2. Re!Attribution(s).net = nets /\ Re!Attribution(s).blend = Re!Blend(s)
        /\ Re!Attribution(s).total = Re!Over(nets, Families)
    BY <2>1 DEF Re!Attribution
  <2> QED BY <1>3, <2>2, OverIs
(* By regimes: its columns. *)
<1>16. PICK cols : cols = [g \in G |-> Sum([f \in Families |-> m[f][g]], Families)]
  OBVIOUS
<1>17. cols \in [G -> Int] /\ \A g \in G : cols[g] = Sum([f \in Families |-> m[f][g]], Families)
  <2>1. \A g \in G : Sum([f \in Families |-> m[f][g]], Families) \in Int
    <3> SUFFICES ASSUME NEW g \in G PROVE Sum([f \in Families |-> m[f][g]], Families) \in Int
      OBVIOUS
    <3> HIDE DEF G
    <3>1. PICK v : v = [f \in Families |-> m[f][g]]
      OBVIOUS
    <3>2. v \in [Families -> Int]
      BY <1>11, <3>1
    <3>3. Sum(v, Families) \in Int
      BY <1>8, <3>2, SumsAre
    <3> QED BY <3>1, <3>3
  <2> HIDE DEF G
  <2> QED BY <1>16, <2>1
<1>18. Sum(nets, Families) = Sum(cols, G)
  <2>1. \A f \in Families : nets[f] = Sum(m[f], G)
    BY <1>12, <1>14
  <2> HIDE DEF G
  <2>2. PICK table : table = [g \in G |-> [f \in Families |-> m[f][g]]]
    OBVIOUS
  <2>3. /\ Table(Families, G, m) /\ Table(G, Families, table) /\ Transposed(Families, G, m, table)
        /\ RowsAdded(Families, G, m, nets) /\ RowsAdded(G, Families, table, cols)
    <3>1. Table(Families, G, m) /\ RowsAdded(Families, G, m, nets)
      BY <1>11, <2>1 DEF Table, RowsAdded
    <3>2. \A g \in G : table[g] = [f \in Families |-> m[f][g]]
      BY <2>2
    <3>3. Table(G, Families, table) /\ Transposed(Families, G, m, table)
      BY <3>1, <3>2, ColumnsAreATable DEF Columns
    <3>4. RowsAdded(G, Families, table, cols)
      BY <1>17, <3>2 DEF RowsAdded
    <3> QED BY <3>1, <3>3, <3>4
  <2> QED BY <1>8, <1>12, <1>14, <1>17, <2>3, SumSwap
<1>19. /\ DOMAIN report.regimes = G
       /\ \A g \in G : /\ report.regimes[g].net = cols[g]
                       /\ report.regimes[g].n = Cardinality(Families) * Cardinality(Steps(g))
  <2>1. DOMAIN report.regimes = G
    BY <1>4, <1>9 DEF Re!ByRegime
  <2>2. ASSUME NEW g \in G
        PROVE  /\ report.regimes[g].net = Re!Over([f \in Families |-> Re!Over(s[f], Steps(g))], Families)
               /\ report.regimes[g].n = Cardinality(Families) * Cardinality(Steps(g))
    <3> HIDE DEF G, Steps
    <3> QED BY <1>4, <1>9, ReportsCount DEF Re!ByRegime
  <2>3. ASSUME NEW g \in G PROVE [f \in Families |-> Re!Over(s[f], Steps(g))] = [f \in Families |-> m[f][g]]
    <3> HIDE DEF G, Steps
    <3> QED BY <1>11, OverIs
  <2> HIDE DEF G, Steps
  <2> QED BY <1>17, <2>1, <2>2, <2>3, OverIs
<1>20. Re!Over([x \in DOMAIN report.regimes |-> report.regimes[x].net], DOMAIN report.regimes)
         = report.attribution.total
  <2>1. [x \in G |-> report.regimes[x].net] = cols
    <3> HIDE DEF G, Steps
    <3> QED BY <1>16, <1>17, <1>19
  <2> HIDE DEF G, Steps
  <2> QED BY <1>15, <1>18, <1>19, <2>1, OverIs
(* Steps counted. *)
<1>21. Re!Over([x \in DOMAIN report.regimes |-> report.regimes[x].n], DOMAIN report.regimes)
         = Cardinality(Families) * n
  <2>1. PICK c \in Nat : c = Cardinality(Families)
    BY <1>8, FS_CardinalityType
  <2>2. PICK v : v = [i \in 1..n |-> c]
    OBVIOUS
  <2>3. v \in [1..n -> Int] /\ \A i \in 1..n : v[i] = c
    BY <2>2
  <2>4. \A T \in SUBSET (1..n) : Sum(v, T) = c * Cardinality(T)
    <3>1. c \in Int
      OBVIOUS
    <3> QED BY <1>7, <2>3, <3>1, SumConstant, Zenon
  <2>5. PICK w : w = [x \in G |-> report.regimes[x].n]
    OBVIOUS
  <2>6. \A g \in G : w[g] = Sum(v, Steps(g))
    BY <1>19, <2>1, <2>4, <2>5
  <2>7. w \in [G -> Int]
    <3>1. \A g \in G : Sum(v, Steps(g)) \in Int
      <4>1. \A T \in SUBSET (1..n) : Sum(v, T) \in Int
        BY <1>7, <2>3, SumsAre
      <4> QED BY <4>1
    <3> HIDE DEF G, Steps
    <3> QED BY <2>5, <2>6, <3>1
  <2>8. Sum(w, G) = Sum(v, 1..n)
    <3> HIDE DEF G, Steps
    <3> QED BY <1>b, <2>3, <2>6, <2>7
  <2>9. Sum(v, 1..n) = c * n
    BY <1>7, <2>4
  <2> HIDE DEF G, Steps
  <2> QED BY <1>19, <2>1, <2>5, <2>8, <2>9, OverIs
(* Step by step: the blend. *)
<1>22. Re!Over(report.attribution.blend, DOMAIN report.attribution.blend) = report.attribution.total
  <2>1. Re!Shortest(s) = n
    <3>1. {Len(s[f]) : f \in Families} = {n}
      BY <1>6, <1>8
    <3>2. Re!Min({n}) = n
      BY DEF Re!Min
    <3> QED BY <3>1, <3>2 DEF Re!Shortest
  <2>2. PICK b : b = [i \in 1..n |-> Sum([f \in Families |-> s[f][i]], Families)]
    OBVIOUS
  <2>3. Re!Blend(s) = b
    BY <2>1, <2>2, OverIs DEF Re!Blend
  <2>4. DOMAIN b = 1..n /\ \A i \in 1..n : b[i] = Sum([f \in Families |-> s[f][i]], Families)
    BY <2>2
  <2>5. b \in [1..n -> Int]
    <3>1. ASSUME NEW i \in 1..n PROVE b[i] \in Int
      <4>1. PICK v : v = [f \in Families |-> s[f][i]]
        OBVIOUS
      <4>2. v \in [Families -> Int]
        BY <1>6, <4>1
      <4>3. Sum(v, Families) \in Int
        BY <1>8, <4>2, SumsAre
      <4> QED BY <2>4, <4>1, <4>3
    <3> QED BY <2>2, <3>1
  <2>6. PICK cs : cs = [i \in 1..n |-> [f \in Families |-> s[f][i]]]
    OBVIOUS
  <2>7. /\ Table(Families, 1..n, s) /\ Table(1..n, Families, cs) /\ Transposed(Families, 1..n, s, cs)
        /\ RowsAdded(Families, 1..n, s, nets) /\ RowsAdded(1..n, Families, cs, b)
    <3>1. Table(Families, 1..n, s) /\ RowsAdded(Families, 1..n, s, nets)
      BY <1>6, <1>14 DEF Table, RowsAdded
    <3>2. \A i \in 1..n : cs[i] = [f \in Families |-> s[f][i]]
      BY <2>6
    <3>3. Table(1..n, Families, cs) /\ Transposed(Families, 1..n, s, cs)
      BY <3>1, <3>2, ColumnsAreATable DEF Columns
    <3>4. RowsAdded(1..n, Families, cs, b)
      BY <2>4, <3>2 DEF RowsAdded
    <3> QED BY <3>1, <3>3, <3>4
  <2>8. Sum(nets, Families) = Sum(b, 1..n)
    BY <1>7, <1>8, <1>14, <2>5, <2>7, SumSwap
  <2> QED BY <1>15, <2>3, <2>4, <2>8, OverIs
(* A family's row. *)
<1>23. ASSUME NEW f \in Families
       PROVE  Re!Over(report.matrix[f], DOMAIN report.regimes) = report.attribution.net[f]
  <2>1. report.matrix[f] = m[f]
    <3>1. report.matrix[f] = [g \in G |-> Sum(s[f], Steps(g))]
      <4> HIDE DEF G, Steps
      <4> QED BY <1>4, <1>9, OverIs DEF Re!Matrix
    <3> HIDE DEF G, Steps
    <3> QED BY <1>10, <3>1
  <2> HIDE DEF G, Steps
  <2> QED BY <1>12, <1>14, <1>15, <1>19, <2>1, OverIs
<1>24. n = Len(given.labels)
  BY <1>2, <1>5
<1> HIDE DEF G, Steps
<1> QED BY <1>20, <1>21, <1>22, <1>23, <1>24, ReportsCount DEF Re!RegimesPartReturns

LEMMA ReportsDo ==
  ReportsInv => Re!TypeOK /\ Re!RegimesPartReturns /\ Re!PublishedIsHonest /\ Re!PassHasNoRisk
<1>1. ReportsInv => Re!TypeOK
  BY DEF ReportsInv, Kinds, Re!TypeOK
<1> QED BY <1>1, RegimesDo, PublishedDo, PassIsClean

-----------------------------------------------------------------------------
(* The cost ladders, for any market and multipliers.                         *)

LEMMA LadderGiven ==
  /\ LastBar \in Nat \ {0} /\ Coverage \in Nat /\ Moves \subseteq Int /\ Gains \subseteq Int
  /\ Ladder \in Seq(Nat) /\ Len(Ladder) \in Nat \ {0} /\ DOMAIN Ladder = 1..Len(Ladder)
  /\ \A a \in DOMAIN Ladder : Ladder[a] \in Nat
  /\ \A a, b \in DOMAIN Ladder : a < b => Ladder[a] < Ladder[b]
BY PartsAssumption DEF Co!LadderAssumption

LEMMA CoOver == \A f, S : Co!Over(f, S) = Sum(f, S)
BY Zenon DEF Co!Over, Co!MapThenSumSet, Co!MapThenFoldSet, Sum, MapThenSumSet, MapThenFoldSet

LEMMA CoCount == \A S : Co!Cardinality(S) = Cardinality(S)
BY DEF Co!Cardinality, Cardinality

LadderInv ==
  /\ market \in Co!Markets
  /\ ladder # None =>
       ladder = [rows |-> Co!Sweep(market), breakEven |-> Co!BreakEven(Co!Sweep(market)),
                 raises |-> Co!Raises(Co!Sweep(market)),
                 drawdowns |-> [n \in DOMAIN Ladder |-> Co!Drawdown(Co!TradePnls(market, Ladder[n]))]]

LEMMA LadderInvHolds == Co!Spec => []LadderInv
<1>1. Co!Init => LadderInv
  BY DEF Co!Init, LadderInv
<1>2. LadderInv /\ [Co!Next]_(Co!vars) => LadderInv'
  BY DEF LadderInv, Co!Next, Co!Report, Co!vars
<1> QED BY <1>1, <1>2, PTL DEF Co!Spec

(* What a market proposes. *)
LEMMA MarketIs ==
  ASSUME NEW k \in Co!Markets
  PROVE  /\ \A i \in 1..LastBar : k.move[i] \in Int /\ k.gain[i] \in Int /\ k.exit[i] \in 1..LastBar
         /\ \A i \in 1..LastBar : k.exit[i] > i \/ k.exit[i] = LastBar
<1>1. k.move \in [1..LastBar -> Moves] /\ k.gain \in [1..LastBar -> Gains] /\ k.exit \in Co!Exits
  BY DEF Co!Markets, Co!Bars
<1>2. k.exit \in [1..LastBar -> 1..LastBar] /\ \A i \in 1..LastBar : k.exit[i] > i \/ k.exit[i] = LastBar
  BY <1>1 DEF Co!Exits, Co!Bars
<1> QED BY <1>1, <1>2, LadderGiven

(* The recursion of the replay. *)
Replays(f, k, m) ==
  f[LastBar + 1] = {} /\ \A i \in 1..LastBar :
    f[i] = IF Co!Worth(k, i, m) THEN {i} \union f[k.exit[i] + 1] ELSE f[i + 1]

LEMMA TakenIs ==
  ASSUME NEW k \in Co!Markets, NEW m \in Nat
  PROVE  \E f \in [1..(LastBar + 1) -> SUBSET (1..LastBar)] :
           Replays(f, k, m) /\ Co!Taken(k, m) = f[1]
<1> DEFINE next == [i \in 1..LastBar |-> IF Co!Worth(k, i, m) THEN k.exit[i] + 1 ELSE i + 1]
           step == [i \in 1..LastBar |-> [acc \in SUBSET (1..LastBar) |->
                      IF Co!Worth(k, i, m) THEN {i} \union acc ELSE acc]]
           Is(f) == f = [i \in 1..(LastBar + 1) |->
                      IF i > LastBar THEN {}
                      ELSE IF Co!Worth(k, i, m) THEN {i} \union f[k.exit[i] + 1] ELSE f[i + 1]]
           from == CHOOSE f : Is(f)
<1>1. LastBar \in Nat
  BY LadderGiven
<1>2. next \in [1..LastBar -> 1..(LastBar + 1)] /\ \A i \in 1..LastBar : next[i] > i
  BY <1>1, MarketIs
<1>3. step \in [1..LastBar -> [SUBSET (1..LastBar) -> SUBSET (1..LastBar)]]
  OBVIOUS
<1>4. PICK g \in [1..(LastBar + 1) -> SUBSET (1..LastBar)] :
        g[LastBar + 1] = {} /\ \A i \in 1..LastBar : g[i] = step[i][g[next[i]]]
  <2>1. {} \in SUBSET (1..LastBar)
    OBVIOUS
  <2>2. Descends(LastBar, SUBSET (1..LastBar), {}, next, step)
    <3> HIDE DEF next, step
    <3> QED BY <1>2, <1>3, <2>1 DEF Descends
  <2> HIDE DEF next, step
  <2>3. \E f \in [1..(LastBar + 1) -> SUBSET (1..LastBar)] : Descent(f, LastBar, {}, next, step)
    BY <1>1, <2>2, DescentExists
  <2> QED BY <2>3 DEF Descent
<1>5. ASSUME NEW i \in 1..LastBar
      PROVE  g[i] = IF Co!Worth(k, i, m) THEN {i} \union g[k.exit[i] + 1] ELSE g[i + 1]
  <2>1. next[i] \in 1..(LastBar + 1) /\ g[next[i]] \in SUBSET (1..LastBar)
    <3> HIDE DEF next
    <3> QED BY <1>2
  <2>2. step[i][g[next[i]]] = IF Co!Worth(k, i, m) THEN {i} \union g[next[i]] ELSE g[next[i]]
    <3> HIDE DEF next
    <3> QED BY <2>1
  <2>3. next[i] = IF Co!Worth(k, i, m) THEN k.exit[i] + 1 ELSE i + 1
    OBVIOUS
  <2> HIDE DEF next, step
  <2> QED BY <1>4, <2>2, <2>3
<1>6. Is(g)
  <2>1. ASSUME NEW i \in 1..(LastBar + 1)
        PROVE  g[i] = IF i > LastBar THEN {}
                      ELSE IF Co!Worth(k, i, m) THEN {i} \union g[k.exit[i] + 1] ELSE g[i + 1]
    <3>1. CASE i = LastBar + 1
      <4>1. i > LastBar /\ g[i] = {}
        BY <1>1, <1>4, <3>1
      <4> QED BY <4>1, Zenon
    <3>2. CASE i \in 1..LastBar
      <4>1. ~(i > LastBar)
        BY <1>1, <3>2
      <4> QED BY <1>5, <3>2, <4>1, Zenon
    <3> QED BY <1>1, <3>1, <3>2
  <2> QED BY <2>1
<1>7. Is(from)
  <2> HIDE DEF Is
  <2> QED BY <1>6
<1>8. Replays(from, k, m)
  <2>1. from[LastBar + 1] = {}
    <3> HIDE DEF from
    <3> QED BY <1>1, <1>7
  <2>2. ASSUME NEW i \in 1..LastBar
        PROVE  from[i] = IF Co!Worth(k, i, m) THEN {i} \union from[k.exit[i] + 1] ELSE from[i + 1]
    <3> HIDE DEF from
    <3>1. i \in 1..(LastBar + 1) /\ ~(i > LastBar)
      BY <1>1
    <3> QED BY <1>7, <3>1, Zenon
  <2> HIDE DEF from
  <2> QED BY <2>1, <2>2 DEF Replays
<1>9. from \in [1..(LastBar + 1) -> SUBSET (1..LastBar)]
  <2> DEFINE Good == {j \in 0..LastBar : \A i \in 1..(LastBar + 1) : i > LastBar - j => from[i] \in SUBSET (1..LastBar)}
  <2> HIDE DEF from
  <2>1. 0 \in Good
    BY <1>1, <1>8 DEF Replays
  <2>2. ASSUME NEW j \in 0..(LastBar - 1), j \in Good PROVE j + 1 \in Good
    <3>1. PICK i \in 1..LastBar : i = LastBar - j
      BY <1>1
    <3>2. k.exit[i] + 1 \in 1..(LastBar + 1) /\ k.exit[i] + 1 > i
      BY <1>1, MarketIs, SMTT(30)
    <3>3. from[k.exit[i] + 1] \in SUBSET (1..LastBar) /\ from[i + 1] \in SUBSET (1..LastBar)
      BY <1>1, <2>2, <3>1, <3>2
    <3>4. from[i] \in SUBSET (1..LastBar)
      BY <1>8, <3>3 DEF Replays
    <3> QED BY <1>1, <2>2, <3>1, <3>4
  <2>3. 0..LastBar \subseteq Good
    <3> HIDE DEF Good
    <3> QED BY <1>1, <2>1, <2>2, StepInduction
  <2>4. \A i \in 1..(LastBar + 1) : from[i] \in SUBSET (1..LastBar)
    BY <1>1, <2>3
  <2>5. from = [i \in 1..(LastBar + 1) |-> from[i]]
    BY <1>7
  <2> QED BY <2>4, <2>5
<1>10. Co!Taken(k, m) = from[1]
  BY DEF Co!Taken
<1> HIDE DEF from
<1> QED BY <1>8, <1>9, <1>10

LEMMA TakenBars ==
  ASSUME NEW k \in Co!Markets, NEW m \in Nat
  PROVE  Co!Taken(k, m) \in SUBSET (1..LastBar)
<1>1. PICK f \in [1..(LastBar + 1) -> SUBSET (1..LastBar)] : Co!Taken(k, m) = f[1]
  BY TakenIs
<1>2. 1 \in 1..(LastBar + 1)
  BY LadderGiven
<1>3. f[1] \in SUBSET (1..LastBar)
  BY <1>2
<1> QED BY <1>1, <1>3

(* Of the bars from i on, a replay takes worthy ones that keep out of each   *)
(* other's time, and leaves out a worthy one only in the time of one taken.  *)
Replayed(S, i, k, m) ==
  /\ \A j \in S : j >= i /\ Co!Worth(k, j, m)
  /\ \A j, h \in S : ~(j < h /\ h <= k.exit[j])
  /\ \A h \in 1..LastBar :
       h >= i /\ Co!Worth(k, h, m) => h \in S \/ \E j \in S : j < h /\ h <= k.exit[j]

LEMMA TakenFill ==
  ASSUME NEW k \in Co!Markets, NEW m \in Nat
  PROVE  Replayed(Co!Taken(k, m), 1, k, m)
<1>1. PICK f \in [1..(LastBar + 1) -> SUBSET (1..LastBar)] : Replays(f, k, m) /\ Co!Taken(k, m) = f[1]
  BY TakenIs
<1>2. LastBar \in Nat \ {0}
  BY LadderGiven
<1> DEFINE Good == {h \in 0..LastBar : \A i \in 1..(LastBar + 1) : i >= LastBar + 1 - h =>
                      Replayed(f[i], i, k, m)}
<1>3. 0 \in Good
  <2>1. ASSUME NEW i \in 1..(LastBar + 1), i >= LastBar + 1 - 0
        PROVE  Replayed(f[i], i, k, m)
    <3>1. i = LastBar + 1 /\ f[i] = {}
      BY <1>1, <1>2, <2>1 DEF Replays
    <3>2. \A h \in 1..LastBar : ~(h >= i)
      BY <1>2, <3>1
    <3> QED BY <3>1, <3>2 DEF Replayed
  <2> QED BY <1>2, <2>1
<1>4. ASSUME NEW h \in 0..(LastBar - 1), h \in Good PROVE h + 1 \in Good
  <2>1. PICK i \in 1..LastBar : i = LastBar - h
    BY <1>2
  <2>2. \A g \in 1..(LastBar + 1) : g > i => Replayed(f[g], g, k, m)
    BY <1>2, <1>4, <2>1
  <2>3. PICK x \in 1..LastBar : x = k.exit[i] /\ (x > i \/ x = LastBar)
    BY MarketIs
  <2>4. x + 1 \in 1..(LastBar + 1) /\ x + 1 > i /\ i + 1 \in 1..(LastBar + 1) /\ i + 1 > i
    BY <1>2, <2>3
  <2>5. f[i] = IF Co!Worth(k, i, m) THEN {i} \union f[x + 1] ELSE f[i + 1]
    BY <1>1, <2>3 DEF Replays
  <2>6. CASE ~Co!Worth(k, i, m)
    <3>1. f[i] = f[i + 1] /\ Replayed(f[i + 1], i + 1, k, m) /\ f[i + 1] \in SUBSET (1..LastBar)
      BY <2>2, <2>4, <2>5, <2>6
    <3>2. \A j \in 1..LastBar : (j >= i /\ Co!Worth(k, j, m) => j >= i + 1) /\ (j >= i + 1 => j >= i)
      BY <2>6
    <3>3. Replayed(f[i], i, k, m)
      BY <3>1, <3>2 DEF Replayed
    <3> QED BY <1>2, <2>1, <2>2, <3>3
  <2>7. CASE Co!Worth(k, i, m)
    <3>1. PICK R \in SUBSET (1..LastBar) : R = f[x + 1] /\ Replayed(R, x + 1, k, m)
      BY <2>2, <2>4
    <3>2. f[i] = {i} \union R
      BY <2>5, <2>7, <3>1
    <3>3. /\ \A j \in R : j >= x + 1 /\ Co!Worth(k, j, m)
          /\ \A j, l \in R : ~(j < l /\ l <= k.exit[j])
          /\ \A l \in 1..LastBar :
               l >= x + 1 /\ Co!Worth(k, l, m) => l \in R \/ \E j \in R : j < l /\ l <= k.exit[j]
      BY <3>1 DEF Replayed
    <3>4. ASSUME NEW j \in R PROVE j \in Int /\ j > i /\ ~(j <= x)
      <4>1. j \in 1..LastBar /\ j >= x + 1
        BY <3>1, <3>3
      <4>2. x \in Int /\ i \in Int /\ x + 1 > i
        BY <2>4
      <4> QED BY <4>1, <4>2
    <3>5. \A j \in f[i] : j >= i /\ Co!Worth(k, j, m)
      BY <2>7, <3>2, <3>3, <3>4
    <3>6. \A j, l \in f[i] : ~(j < l /\ l <= k.exit[j])
      BY <2>3, <3>2, <3>3, <3>4
    <3>7. ASSUME NEW l \in 1..LastBar, l >= i, Co!Worth(k, l, m)
          PROVE  l \in f[i] \/ \E j \in f[i] : j < l /\ l <= k.exit[j]
      <4>1. CASE l >= x + 1
        BY <3>2, <3>3, <3>7, <4>1
      <4>2. CASE l = i
        BY <3>2, <4>2
      <4>3. CASE i < l /\ l <= x
        BY <2>3, <3>2, <4>3
      <4> QED BY <3>7, <4>1, <4>2, <4>3
    <3>8. Replayed(f[i], i, k, m)
      BY <3>5, <3>6, <3>7 DEF Replayed
    <3> QED BY <1>2, <2>1, <2>2, <3>8
  <2> QED BY <2>6, <2>7
<1>5. 0..LastBar \subseteq Good
  <2> HIDE DEF Good
  <2> QED BY <1>2, <1>3, <1>4, StepInduction
<1>6. LastBar \in Good /\ 1 >= LastBar + 1 - LastBar /\ 1 \in 1..(LastBar + 1)
  <2>1. LastBar \in 0..LastBar /\ 1 >= LastBar + 1 - LastBar /\ 1 \in 1..(LastBar + 1)
    BY <1>2
  <2> HIDE DEF Good
  <2> QED BY <1>5, <2>1
<1>7. Replayed(f[1], 1, k, m)
  BY <1>6
<1> QED BY <1>1, <1>7

LEMMA FreedDo == LadderInv => Co!InventedTradesWereFreed
<1> SUFFICES ASSUME LadderInv, NEW a \in DOMAIN Ladder, NEW b \in DOMAIN Ladder, a < b,
                    NEW i \in Co!Taken(market, Ladder[b]) \ Co!Taken(market, Ladder[a])
             PROVE  \E j \in Co!Taken(market, Ladder[a]) \ Co!Taken(market, Ladder[b]) :
                      j < i /\ i <= market.exit[j]
  BY DEF Co!InventedTradesWereFreed
<1>1. PICK low \in Nat, d \in Nat : low = Ladder[a] /\ low + d = Ladder[b]
  <2>1. Ladder[a] \in Nat /\ Ladder[b] \in Nat /\ Ladder[a] < Ladder[b]
    BY LadderGiven
  <2> QED BY <2>1
<1>2. market \in Co!Markets /\ low + d \in Nat
  BY DEF LadderInv
<1>3. PICK cheap, dear : cheap = Co!Taken(market, low) /\ dear = Co!Taken(market, low + d)
  OBVIOUS
<1>4. Replayed(cheap, 1, market, low) /\ Replayed(dear, 1, market, low + d) /\ dear \in SUBSET (1..LastBar)
  BY <1>2, <1>3, TakenFill, TakenBars
<1>5. i \in dear /\ i \notin cheap /\ i \in 1..LastBar /\ Co!Worth(market, i, low + d)
  BY <1>1, <1>3, <1>4 DEF Replayed
<1>6. Co!Worth(market, i, low)
  <2>1. PICK v \in Int, c \in Nat : v = market.move[i] /\ c = Coverage
    BY <1>2, <1>5, MarketIs, LadderGiven
  <2>2. v > low + d /\ v >= c * (low + d)
    BY <1>5, <2>1 DEF Co!Worth
  <2>3. c * (low + d) = c * low + c * d /\ c * d \in Nat /\ c * low \in Nat
    OBVIOUS
  <2>4. v > low /\ v >= c * low
    BY <2>2, <2>3
  <2> QED BY <2>1, <2>4 DEF Co!Worth
<1>7. PICK j \in cheap : j < i /\ i <= market.exit[j]
  BY <1>4, <1>5, <1>6 DEF Replayed
<1>8. j \notin dear
  BY <1>4, <1>5, <1>7 DEF Replayed
<1> QED BY <1>1, <1>3, <1>7, <1>8

(* What a rung of the ladder nets. *)
LEMMA NetIs ==
  ASSUME NEW k \in Co!Markets, NEW m \in Nat, NEW S \in SUBSET (1..LastBar), S = Co!Taken(k, m)
  PROVE  /\ Sum(k.gain, S) \in Int /\ Cardinality(S) \in Nat
         /\ Co!Row(k, m).net = Sum(k.gain, S) - m * Cardinality(S)
         /\ Co!Row(k, m).multiplier = m
<1>1. IsFiniteSet(1..LastBar) /\ IsFiniteSet(S) /\ Cardinality(S) \in Nat
  <2>1. IsFiniteSet(1..LastBar)
    BY FS_Interval, LadderGiven
  <2>2. IsFiniteSet(S)
    BY <2>1, FS_Subset
  <2> QED BY <2>1, <2>2, FS_CardinalityType
<1>2. PICK v : v = k.gain
  OBVIOUS
<1>3. v \in [1..LastBar -> Int]
  <2>1. k.gain \in [1..LastBar -> Gains]
    BY DEF Co!Markets, Co!Bars
  <2> QED BY <1>2, <2>1, LadderGiven
<1>4. PICK w : w = [i \in 1..LastBar |-> v[i] - m]
  OBVIOUS
<1>5. w \in [1..LastBar -> Int] /\ \A i \in 1..LastBar : w[i] = v[i] - m
  BY <1>3, <1>4
<1>6. PICK u : u = [i \in 1..LastBar |-> m]
  OBVIOUS
<1>7. u \in [1..LastBar -> Int] /\ \A i \in 1..LastBar : u[i] = m
  BY <1>6
<1>8. Sum(v, S) = Sum(w, S) + Sum(u, S)
  <2>1. Adds(1..LastBar, v, w, u)
    <3>1. \A i \in 1..LastBar : v[i] = w[i] + u[i]
      BY <1>3, <1>5, <1>7
    <3> QED BY <3>1 DEF Adds
  <2>2. SumAdds(1..LastBar, v, w, u)
    BY <1>1, <1>3, <1>5, <1>7, <2>1, SumsAdd
  <2> QED BY <2>2 DEF SumAdds
<1>9. Sum(u, S) = m * Cardinality(S)
  <2>1. \A T \in SUBSET (1..LastBar) : Sum(u, T) = m * Cardinality(T)
    <3>1. m \in Int
      OBVIOUS
    <3> QED BY <1>1, <1>7, <3>1, SumConstant, Zenon
  <2> QED BY <2>1
<1>10. Sum(v, S) \in Int /\ Sum(w, S) \in Int
  BY <1>1, <1>3, <1>5, SumsAre
<1>11. Co!Row(k, m).net = Sum(w, S) /\ Co!Row(k, m).multiplier = m
  <2>1. w = [i \in Co!Bars |-> k.gain[i] - m]
    BY <1>2, <1>4 DEF Co!Bars
  <2>2. Co!Row(k, m).net = Co!Over([i \in Co!Bars |-> k.gain[i] - m], Co!Taken(k, m))
        /\ Co!Row(k, m).multiplier = m
    BY DEF Co!Row
  <2> QED BY <2>1, <2>2, CoOver
<1>12. PICK p \in Int, q \in Int, c \in Nat :
         p = Sum(v, S) /\ q = Sum(w, S) /\ c = Cardinality(S) /\ p = q + m * c
  BY <1>1, <1>8, <1>9, <1>10
<1>13. q = p - m * c
  BY <1>12
<1> QED BY <1>1, <1>2, <1>10, <1>11, <1>12, <1>13

(* What interpolating between two rungs of one set of trades means: d is     *)
(* between their multipliers, l and -e are their nets.                       *)
LEMMA Interpolated ==
  ASSUME NEW low \in Nat, NEW d \in Nat \ {0}, NEW c \in Nat, NEW g \in Int,
         NEW l \in Nat, NEW e \in Nat \ {0}, l = g - low * c, -e = g - (low + d) * c
  PROVE  /\ low * (l + e) <= low * (l + e) + l * d
         /\ low * (l + e) + l * d < (low + d) * (l + e)
         /\ \A r \in Nat : r * (l + e) <= low * (l + e) + l * d <=> g - r * c >= 0
<1>1. l * d \in Nat /\ d * e \in Nat \ {0} /\ d * l = l * d /\ d * c \in Nat /\ d * g \in Int
  OBVIOUS
<1>2. (low + d) * c = low * c + d * c /\ low * c \in Nat
  OBVIOUS
<1>3. l + e = d * c
  BY <1>1, <1>2
<1>4. (low + d) * (l + e) = low * (l + e) + d * (l + e) /\ d * (l + e) = d * l + d * e
  OBVIOUS
<1>5. low * (l + e) \in Int
  OBVIOUS
<1>6. low * (l + e) + l * d = d * g
  <2>1. low * (d * c) = d * (low * c)
    OBVIOUS
  <2>2. d * (low * c + l) = d * (low * c) + d * l
    OBVIOUS
  <2>3. low * c + l = g
    BY <1>2
  <2> QED BY <1>1, <1>3, <2>1, <2>2, <2>3
<1>7. ASSUME NEW r \in Nat PROVE r * (l + e) <= low * (l + e) + l * d <=> g - r * c >= 0
  <2>1. r * (d * c) = d * (r * c)
    OBVIOUS
  <2>2. PICK x \in Int : x = g - r * c
    OBVIOUS
  <2>3. d * g = d * (r * c) + d * x
    <3>1. g = r * c + x
      BY <2>2
    <3>2. PICK y \in Int : y = r * c
      OBVIOUS
    <3>3. d * (y + x) = d * y + d * x
      OBVIOUS
    <3> QED BY <3>1, <3>2, <3>3
  <2>4. d * x >= 0 <=> x >= 0
    <3>1. x >= 0 => d * x >= 0
      OBVIOUS
    <3>2. x < 0 => d * x < 0
      OBVIOUS
    <3> QED BY <3>1, <3>2
  <2>5. d * (r * c) \in Int /\ d * x \in Int
    OBVIOUS
  <2> QED BY <1>3, <1>6, <2>1, <2>2, <2>3, <2>4, <2>5
<1> QED BY <1>1, <1>4, <1>5, <1>7

LEMMA BreakEvenDo == LadderInv => Co!BreakEvenParts
<1> SUFFICES ASSUME LadderInv, ladder # None, ladder.breakEven # None,
                    \A m \in Co!ToSet(Ladder) : Co!Taken(market, m) = Co!Taken(market, Ladder[1])
             PROVE  Co!BreakEvenParts
  BY DEF Co!BreakEvenParts
<1>1. market \in Co!Markets /\ ladder.rows = Co!Sweep(market)
      /\ ladder.breakEven = Co!BreakEven(Co!Sweep(market))
  BY DEF LadderInv
<1>2. PICK L \in Nat \ {0} : L = Len(Ladder) /\ DOMAIN Ladder = 1..L
  BY LadderGiven
<1>3. PICK S \in SUBSET (1..LastBar) : S = Co!Taken(market, Ladder[1])
  BY <1>1, <1>2, TakenBars, LadderGiven
<1>4. PICK g \in Int, c \in Nat : g = Sum(market.gain, S) /\ c = Cardinality(S)
  BY <1>1, <1>2, <1>3, NetIs, LadderGiven
<1>5. PICK rungs : rungs = Co!Sweep(market)
  OBVIOUS
<1>6. /\ DOMAIN rungs = 1..L /\ Len(rungs) = L
      /\ \A n \in 1..L : /\ Ladder[n] \in Nat /\ rungs[n].multiplier = Ladder[n]
                         /\ rungs[n].net = g - Ladder[n] * c
  <2>1. DOMAIN rungs = 1..L /\ \A n \in 1..L : rungs[n] = Co!Row(market, Ladder[n])
    BY <1>2, <1>5 DEF Co!Sweep
  <2>2. Len(rungs) = L
    BY <1>2, <1>5 DEF Co!Sweep
  <2>3. ASSUME NEW n \in 1..L
        PROVE  /\ Ladder[n] \in Nat /\ rungs[n].multiplier = Ladder[n]
               /\ rungs[n].net = g - Ladder[n] * c
    <3>1. Ladder[n] \in Nat
      BY <1>2, LadderGiven
    <3>2. Ladder[n] \in Co!ToSet(Ladder)
      BY <1>2 DEF Co!ToSet
    <3>3. S = Co!Taken(market, Ladder[n])
      BY <1>3, <3>2
    <3>4. Co!Row(market, Ladder[n]).net = Sum(market.gain, S) - Ladder[n] * Cardinality(S)
          /\ Co!Row(market, Ladder[n]).multiplier = Ladder[n]
      BY <1>1, <3>1, <3>3, NetIs
    <3> QED BY <1>4, <2>1, <3>1, <3>4
  <2> QED BY <2>1, <2>2, <2>3
<1>7. PICK n \in 1..(L - 1) :
        /\ rungs[n].net >= 0 /\ rungs[n + 1].net < 0
        /\ Co!Crossings(rungs) # {} /\ n = Co!Min(Co!Crossings(rungs))
  <2>1. Co!Crossings(rungs) # {}
    BY <1>1, <1>5 DEF Co!BreakEven
  <2>2. Co!Crossings(rungs) \in SUBSET Nat
    BY <1>6 DEF Co!Crossings
  <2>3. \E x \in Co!Crossings(rungs) : \A y \in Co!Crossings(rungs) : x <= y
    BY <2>1, <2>2, LeastOf
  <2>4. Co!Min(Co!Crossings(rungs)) \in Co!Crossings(rungs)
    BY <2>3 DEF Co!Min
  <2> QED BY <1>6, <2>1, <2>4 DEF Co!Crossings
<1>8. PICK low \in Nat, d \in Nat \ {0} : low = Ladder[n] /\ low + d = Ladder[n + 1]
  <2>1. n \in 1..L /\ n + 1 \in 1..L /\ n < n + 1
    BY <1>2
  <2>2. Ladder[n] \in Nat /\ Ladder[n + 1] \in Nat /\ Ladder[n] < Ladder[n + 1]
    BY <1>2, <2>1, LadderGiven
  <2> QED BY <2>2
<1>9. PICK l \in Nat, e \in Nat \ {0} : l = g - low * c /\ -e = g - (low + d) * c
                                        /\ rungs[n].net = l /\ rungs[n + 1].net = -e
  <2>1. n \in 1..L /\ n + 1 \in 1..L
    BY <1>2
  <2>2. rungs[n].net = g - low * c /\ rungs[n + 1].net = g - (low + d) * c
    BY <1>6, <1>8, <2>1
  <2>3. g - low * c \in Int /\ g - (low + d) * c \in Int
    OBVIOUS
  <2>4. PICK x \in Int, y \in Int : x = g - low * c /\ y = g - (low + d) * c
    BY <2>3
  <2>5. x \in Nat /\ -y \in Nat \ {0}
    BY <1>7, <2>2, <2>4
  <2>6. -(-y) = y
    OBVIOUS
  <2> QED BY <2>2, <2>4, <2>5, <2>6
<1>10. PICK b : b = ladder.breakEven
  OBVIOUS
<1>11. b.below = low /\ b.above = low + d /\ b.den = l + e /\ b.num = low * (l + e) + l * d
  <2>1. n \in 1..L /\ n + 1 \in 1..L
    BY <1>2
  <2>2. rungs[n].multiplier = low /\ rungs[n + 1].multiplier = low + d
    BY <1>6, <1>8, <2>1
  <2>3. b = [below |-> rungs[n].multiplier, above |-> rungs[n + 1].multiplier,
             den |-> rungs[n].net - rungs[n + 1].net,
             num |-> rungs[n].multiplier * (rungs[n].net - rungs[n + 1].net)
                       + rungs[n].net * (rungs[n + 1].multiplier - rungs[n].multiplier)]
    BY <1>1, <1>5, <1>7, <1>10 DEF Co!BreakEven
  <2>4. l - (-e) = l + e /\ (low + d) - low = d
    OBVIOUS
  <2> QED BY <1>9, <2>2, <2>3, <2>4
<1>12. /\ low * (l + e) <= low * (l + e) + l * d
       /\ low * (l + e) + l * d < (low + d) * (l + e)
       /\ \A r \in Nat : r * (l + e) <= low * (l + e) + l * d <=> g - r * c >= 0
  BY <1>9, Interpolated
<1>13. ASSUME NEW h \in DOMAIN ladder.rows
       PROVE  LET r == ladder.rows[h] IN
              IF r.multiplier * b.den <= b.num THEN r.net >= 0 ELSE r.net < 0
  <2>1. PICK m \in Nat, x \in Int : /\ m = ladder.rows[h].multiplier
                                    /\ x = ladder.rows[h].net /\ x = g - m * c
    <3>1. h \in 1..L
      BY <1>1, <1>5, <1>6
    <3>2. rungs[h].multiplier \in Nat /\ rungs[h].net = g - rungs[h].multiplier * c
      BY <1>6, <3>1
    <3>3. g - rungs[h].multiplier * c \in Int
      BY <3>2
    <3> QED BY <1>1, <1>5, <3>2, <3>3
  <2>2. m * (l + e) <= low * (l + e) + l * d <=> x >= 0
    BY <1>12, <2>1
  <2> QED BY <1>11, <2>1, <2>2
<1> QED BY <1>10, <1>11, <1>12, <1>13 DEF Co!BreakEvenParts

(* Drawdown as a walk along the trades. *)
Equities == [equity : Int, peak : Int, worst : Int]
Fallen(acc, v) ==
  LET equity == acc.equity + v
      peak == Co!Max({acc.peak, equity}) IN
  [equity |-> equity, peak |-> peak, worst |-> Co!Max({acc.worst, peak - equity})]
NoFall == [equity |-> 0, peak |-> 0, worst |-> 0]

LEMMA MaxOfTwo ==
  ASSUME NEW a \in Int, NEW b \in Int
  PROVE  Co!Max({a, b}) \in {a, b} /\ a <= Co!Max({a, b}) /\ b <= Co!Max({a, b})
<1>1. \E x \in {a, b} : \A y \in {a, b} : x >= y
  OBVIOUS
<1> QED BY <1>1 DEF Co!Max

LEMMA FallenIs ==
  ASSUME NEW acc \in Equities, NEW v \in Int
  PROVE  Fallen(acc, v) \in Equities
<1>1. acc.equity \in Int /\ acc.peak \in Int /\ acc.worst \in Int
  BY DEF Equities
<1>2. PICK q \in Int : q = acc.equity + v
  BY <1>1
<1>3. PICK p \in Int : p = Co!Max({acc.peak, q})
  BY <1>1, MaxOfTwo
<1>4. PICK w \in Int : w = Co!Max({acc.worst, p - q})
  <2>1. p - q \in Int
    OBVIOUS
  <2> QED BY <1>1, <2>1, MaxOfTwo
<1>5. Fallen(acc, v) = [equity |-> q, peak |-> p, worst |-> w]
  BY <1>2, <1>3, <1>4 DEF Fallen
<1> QED BY <1>5 DEF Equities

(* How FoldLeft goes over the trades: *)
LEMMA DrawdownWalks ==
  ASSUME NEW n \in Nat, NEW pnls \in [1..n -> Int]
  PROVE  \E a \in [0..n -> Equities] :
           /\ a[0] = NoFall /\ \A j \in 1..n : a[j] = Fallen(a[j - 1], pnls[j])
           /\ Co!Drawdown(pnls) = a[n].worst
<1> DEFINE top(T) == CHOOSE x \in T : \A y \in T : x >= y
           pick == [T \in SUBSET (1..n) |-> top(T)]
           step == [x \in 1..n |-> [acc \in Equities |-> Fallen(acc, pnls[x])]]
           Is(f) == f = [T \in SUBSET (1..n) |->
                           IF T = {} THEN NoFall ELSE Fallen(f[T \ {top(T)}], pnls[top(T)])]
           h == CHOOSE f : Is(f)
<1>1. IsFiniteSet(1..n)
  BY FS_Interval
<1>2. ASSUME NEW T \in SUBSET (1..n), T # {}
      PROVE  top(T) \in T /\ \A y \in T : y <= top(T)
  <2>1. IsFiniteSet(T)
    BY <1>1, FS_Subset
  <2>2. PICK x \in T : \A y \in T : y <= x
    <3>1. \A x \in T : x \in Int
      OBVIOUS
    <3> HIDE DEF top
    <3> QED BY <1>2, <2>1, <3>1, Extremes
  <2>3. x \in T /\ \A y \in T : x >= y
    BY <2>2
  <2>4. top(T) \in T /\ \A y \in T : top(T) >= y
    BY <2>3
  <2> HIDE DEF top
  <2> QED BY <2>4
<1>3. Picks(1..n, pick)
  <2>1. \A T \in SUBSET (1..n) : T # {} => pick[T] \in T
    BY <1>2
  <2> HIDE DEF pick
  <2> QED BY <2>1 DEF Picks
<1>4. NoFall \in Equities
  BY DEF NoFall, Equities
<1>5. step \in [1..n -> [Equities -> Equities]]
  BY FallenIs
<1>6. PICK g \in [SUBSET (1..n) -> Equities] : FoldsOn(1..n, g, NoFall, pick, step)
  <2>1. \A R, base : base \in R /\ step \in [1..n -> [R -> R]] =>
          \E g \in [SUBSET (1..n) -> R] : FoldsOn(1..n, g, base, pick, step)
    <3> HIDE DEF pick, step
    <3> QED BY <1>1, <1>3, FoldExists
  <2> HIDE DEF pick, step
  <2> QED BY <1>4, <1>5, <2>1
<1>7. ASSUME NEW T \in SUBSET (1..n), T # {}
      PROVE  g[T] = Fallen(g[T \ {top(T)}], pnls[top(T)])
  <2>1. pick[T] = top(T) /\ top(T) \in 1..n
    BY <1>2, <1>7
  <2>2. PICK x \in 1..n : x = top(T)
    BY <2>1
  <2>3. g[T] = step[x][g[T \ {x}]] /\ g[T \ {x}] \in Equities
    <3> HIDE DEF step, top, pick
    <3> QED BY <1>6, <1>7, <2>1, <2>2 DEF FoldsOn
  <2>4. step[x][g[T \ {x}]] = Fallen(g[T \ {x}], pnls[x])
    BY <2>3
  <2> HIDE DEF step, top
  <2> QED BY <2>2, <2>3, <2>4
<1>8. g[{}] = NoFall
  BY <1>6 DEF FoldsOn
<1>9. Is(g)
  <2>1. ASSUME NEW T \in SUBSET (1..n)
        PROVE  g[T] = IF T = {} THEN NoFall ELSE Fallen(g[T \ {top(T)}], pnls[top(T)])
    <3> HIDE DEF top
    <3> QED BY <1>7, <1>8, Zenon
  <2> HIDE DEF top
  <2> QED BY <2>1
<1>10. Is(h)
  <2> HIDE DEF Is
  <2> QED BY <1>9
<1>11. Co!Drawdown(pnls) = h[1..n].worst
  <2>1. DOMAIN pnls = 1..n
    OBVIOUS
  <2> QED BY <2>1, Zenon DEF Co!Drawdown, Co!FoldLeft, Co!MapThenFoldSet, Co!Max, Fallen, NoFall
<1>12. \A T \in SUBSET (1..n) : h[T] = g[T]
  <2>1. h[{}] = g[{}]
    <3>1. {} \in SUBSET (1..n)
      OBVIOUS
    <3>2. h[{}] = NoFall
      <4> HIDE DEF h, top
      <4> QED BY <1>10, <3>1
    <3> HIDE DEF h
    <3> QED BY <1>8, <3>2
  <2>2. ASSUME NEW T \in SUBSET (1..n), T # {}, \A x \in T : h[T \ {x}] = g[T \ {x}]
        PROVE  h[T] = g[T]
    <3>1. h[T] = Fallen(h[T \ {top(T)}], pnls[top(T)])
      <4> HIDE DEF h, top
      <4> QED BY <1>10, <2>2
    <3>2. h[T \ {top(T)}] = g[T \ {top(T)}]
      <4>1. top(T) \in T
        BY <1>2, <2>2
      <4> HIDE DEF h, top
      <4> QED BY <2>2, <4>1
    <3> HIDE DEF h, top
    <3> QED BY <1>7, <2>2, <3>1, <3>2
  <2>3. Grow(1..n, h, g)
    <3> HIDE DEF h
    <3> QED BY <2>2 DEF Grow
  <2> HIDE DEF h
  <2>4. Agree(1..n, h, g)
    BY <1>1, <2>1, <2>3, PartsAgree
  <2> QED BY <2>4 DEF Agree
<1>13. PICK a : a = [j \in 0..n |-> g[1..j]]
  OBVIOUS
<1>14. a \in [0..n -> Equities] /\ \A j \in 0..n : a[j] = g[1..j]
  <2>1. \A j \in 0..n : 1..j \in SUBSET (1..n)
    OBVIOUS
  <2> QED BY <1>13, <2>1
<1>15. a[0] = NoFall
  <2>1. 1..0 = {}
    OBVIOUS
  <2> QED BY <1>8, <1>14, <2>1
<1>16. ASSUME NEW j \in 1..n PROVE a[j] = Fallen(a[j - 1], pnls[j])
  <2>1. PICK T \in SUBSET (1..n) : T = 1..j
    OBVIOUS
  <2>2. T # {} /\ j \in T /\ \A y \in T : y <= j
    BY <2>1
  <2>3. top(T) = j
    <3>1. top(T) \in T /\ \A y \in T : y <= top(T)
      BY <1>2, <2>2
    <3> HIDE DEF top
    <3> QED BY <2>1, <2>2, <3>1
  <2>4. T \ {j} = 1..(j - 1)
    BY <2>1
  <2>5. g[T] = Fallen(g[T \ {j}], pnls[j])
    <3> HIDE DEF top
    <3> QED BY <1>7, <2>2, <2>3
  <2>6. a[j] = g[T] /\ a[j - 1] = g[T \ {j}]
    <3>1. j \in 0..n /\ j - 1 \in 0..n
      OBVIOUS
    <3> QED BY <1>14, <2>1, <2>4, <3>1, Zenon
  <2> QED BY <2>5, <2>6
<1>17. Co!Drawdown(pnls) = a[n].worst
  <2>1. h[1..n] = g[1..n] /\ a[n] = g[1..n]
    <3> HIDE DEF h
    <3> QED BY <1>12, <1>14
  <2> HIDE DEF h
  <2> QED BY <1>11, <2>1
<1> QED BY <1>14, <1>15, <1>16, <1>17

(* The trades of a replay, in order. *)
LEMMA TradesAre ==
  ASSUME NEW k \in Co!Markets, NEW m \in Nat
  PROVE  \E n \in Nat : Co!TradePnls(k, m) \in [1..n -> Int]
<1> DEFINE S == Co!Taken(k, m)
           nth(i) == CHOOSE h \in S : Co!Cardinality({j \in S : j < h}) = i - 1
<1>1. S \in SUBSET (1..LastBar)
  BY TakenBars
<1>2. IsFiniteSet(S)
  <2>1. IsFiniteSet(1..LastBar)
    BY FS_Interval, LadderGiven
  <2> HIDE DEF S
  <2> QED BY <1>1, <2>1, FS_Subset
<1>3. PICK n \in Nat : n = Cardinality(S)
  <2> HIDE DEF S
  <2> QED BY <1>2, FS_CardinalityType
<1>4. ASSUME NEW i \in 1..n PROVE nth(i) \in S
  <2>1. \E h \in S : Cardinality({j \in S : j < h}) = i - 1
    <3>1. S \in SUBSET Int
      <4> HIDE DEF S
      <4> QED BY <1>1, LadderGiven
    <3> HIDE DEF S
    <3> QED BY <1>2, <1>3, <3>1, RanksExist
  <2>2. \E h \in S : Co!Cardinality({j \in S : j < h}) = i - 1
    <3> HIDE DEF S
    <3> QED BY <2>1, CoCount
  <2> HIDE DEF S
  <2> QED BY <2>2
<1>5. Co!TradePnls(k, m) = [i \in 1..n |-> k.gain[nth(i)] - m]
  <2>1. Co!TradePnls(k, m) = [i \in 1..Co!Cardinality(S) |-> k.gain[nth(i)] - m]
    BY DEF Co!TradePnls
  <2> HIDE DEF S, nth
  <2> QED BY <1>3, <2>1, CoCount
<1>6. ASSUME NEW i \in 1..n PROVE k.gain[nth(i)] - m \in Int
  <2>1. k.gain[nth(i)] \in Int
    <3> HIDE DEF nth, S
    <3> QED BY <1>1, <1>4, MarketIs
  <2> HIDE DEF nth
  <2> QED BY <2>1
<1> HIDE DEF nth
<1> QED BY <1>5, <1>6

(* The equities before and after each trade, as sums of them. *)
LEMMA WalkTells ==
  ASSUME NEW n \in Nat, NEW pnls \in [1..n -> Int], NEW p \in [0..n -> Int],
         p[0] = 0, \A j \in 1..n : p[j] = p[j - 1] + pnls[j]
  PROVE  /\ \E i, k \in 0..n : i <= k /\ Co!Drawdown(pnls) = p[i] - p[k]
         /\ \A i, k \in 0..n : i <= k => p[i] - p[k] <= Co!Drawdown(pnls)
<1>1. PICK a \in [0..n -> Equities] :
        /\ a[0] = NoFall /\ \A j \in 1..n : a[j] = Fallen(a[j - 1], pnls[j])
        /\ Co!Drawdown(pnls) = a[n].worst
  BY DrawdownWalks
<1>2. \A j \in 0..n : a[j].equity \in Int /\ a[j].peak \in Int /\ a[j].worst \in Int
  BY DEF Equities
<1> DEFINE Tells(j) ==
      /\ a[j].equity = p[j]
      /\ \E i \in 0..j : a[j].peak = p[i]
      /\ \A i \in 0..j : p[i] <= a[j].peak
      /\ \E i, k \in 0..j : i <= k /\ a[j].worst = p[i] - p[k]
      /\ \A i, k \in 0..j : i <= k => p[i] - p[k] <= a[j].worst
    Good == {j \in 0..n : Tells(j)}
<1>3. 0 \in Good
  <2>1. a[0].equity = 0 /\ a[0].peak = 0 /\ a[0].worst = 0
    BY <1>1 DEF NoFall
  <2>2. 0..0 = {0}
    OBVIOUS
  <2> QED BY <2>1, <2>2
<1>4. ASSUME NEW j \in 0..(n - 1), j \in Good PROVE j + 1 \in Good
  <2>0. j \in 0..n /\ j + 1 \in 1..n /\ j + 1 \in 0..n /\ (j + 1) - 1 = j
    OBVIOUS
  <2>1. PICK e \in Int, q \in Int, w \in Int, v \in Int :
          e = a[j].equity /\ q = a[j].peak /\ w = a[j].worst /\ v = pnls[j + 1]
    <3>1. pnls[j + 1] \in Int
      BY <2>0
    <3> QED BY <1>2, <2>0, <3>1
  <2>2. a[j + 1] = Fallen(a[j], pnls[j + 1]) /\ p[j + 1] = p[j] + v
    BY <1>1, <2>0, <2>1
  <2>3. PICK e2 \in Int, q2 \in Int, w2 \in Int :
          /\ e2 = e + v /\ q2 = Co!Max({q, e2}) /\ w2 = Co!Max({w, q2 - e2})
          /\ a[j + 1].equity = e2 /\ a[j + 1].peak = q2 /\ a[j + 1].worst = w2
    <3>1. PICK e2 \in Int, q2 \in Int, w2 \in Int :
            e2 = a[j + 1].equity /\ q2 = a[j + 1].peak /\ w2 = a[j + 1].worst
      BY <1>2, <2>0
    <3>2. e2 = e + v
      BY <2>1, <2>2, <3>1 DEF Fallen
    <3>3. q2 = Co!Max({q, e2})
      BY <2>1, <2>2, <3>1, <3>2 DEF Fallen
    <3>4. w2 = Co!Max({w, q2 - e2})
      BY <2>1, <2>2, <3>1, <3>2, <3>3 DEF Fallen
    <3> QED BY <3>1, <3>2, <3>3, <3>4
  <2>4. q2 \in {q, e2} /\ q <= q2 /\ e2 <= q2
    BY <2>3, MaxOfTwo, ZenonT(40)
  <2>5. w2 \in {w, q2 - e2} /\ w <= w2 /\ q2 - e2 <= w2
    <3>1. q2 - e2 \in Int
      OBVIOUS
    <3> QED BY <2>3, <3>1, MaxOfTwo
  <2>6. Tells(j)
    BY <1>4
  <2>7. e2 = p[j + 1]
    BY <2>1, <2>2, <2>3, <2>6
  <2>8. \A i \in 0..(j + 1) : i \in 0..j \/ i = j + 1
    OBVIOUS
  <2>9. \A i \in 0..j : p[i] \in Int /\ p[i] <= q /\ i \in 0..(j + 1) /\ i <= j + 1
    <3>1. ASSUME NEW i \in 0..j PROVE p[i] \in Int /\ p[i] <= q /\ i \in 0..(j + 1) /\ i <= j + 1
      <4>1. i \in 0..n
        BY <2>0
      <4>2. p[i] \in Int
        BY <4>1
      <4>3. p[i] <= q
        BY <2>1, <2>6
      <4> QED BY <4>2, <4>3
    <3> QED BY <3>1
  <2>10. PICK i \in 0..(j + 1) : q2 = p[i] /\ i <= j + 1
    <3>1. CASE q2 = q
      BY <2>1, <2>6, <2>9, <3>1
    <3>2. CASE q2 = e2
      BY <2>7, <3>2
    <3> QED BY <2>4, <3>1, <3>2
  <2>11. \A h \in 0..(j + 1) : p[h] <= q2
    BY <2>4, <2>7, <2>8, <2>9
  <2>12. \E h, k \in 0..(j + 1) : h <= k /\ w2 = p[h] - p[k]
    <3>1. CASE w2 = w
      BY <2>1, <2>6, <2>9, <3>1
    <3>2. CASE w2 = q2 - e2
      <4>1. j + 1 \in 0..(j + 1)
        OBVIOUS
      <4> QED BY <2>7, <2>10, <3>2, <4>1
    <3> QED BY <2>5, <3>1, <3>2
  <2>13. ASSUME NEW h \in 0..(j + 1), NEW k \in 0..(j + 1), h <= k PROVE p[h] - p[k] <= w2
    <3>1. CASE k \in 0..j
      <4>1. h \in 0..j
        BY <2>13, <3>1
      <4>2. p[h] - p[k] <= w
        BY <2>1, <2>6, <2>13, <3>1, <4>1
      <4> QED BY <2>5, <2>9, <3>1, <4>1, <4>2
    <3>2. CASE k = j + 1
      <4>1. p[h] <= q2 /\ p[h] \in Int
        BY <2>11
      <4>2. p[k] = e2
        BY <2>7, <3>2
      <4> QED BY <2>5, <4>1, <4>2
    <3> QED BY <2>8, <3>1, <3>2
  <2>14. Tells(j + 1)
    BY <2>3, <2>7, <2>10, <2>11, <2>12, <2>13
  <2> HIDE DEF Tells
  <2> QED BY <2>14
<1>5. 0..n \subseteq Good
  <2> HIDE DEF Good
  <2> QED BY <1>3, <1>4, StepInduction
<1>6. Tells(n)
  <2>1. n \in Good
    <3> HIDE DEF Good
    <3> QED BY <1>5
  <2> HIDE DEF Tells
  <2> QED BY <2>1
<1> QED BY <1>1, <1>6

(* The largest fall of the equity over any trades. *)
LEMMA DrawdownTells ==
  ASSUME NEW n \in Nat, NEW pnls \in [1..n -> Int]
  PROVE  Co!Drawdown(pnls) = Co!Max({0} \union {-Co!Over(pnls, i..j) : i, j \in 1..n})
<1>3. Summed(1..n, pnls)
  BY AllSummed, FS_Interval
<1>4. \A T \in SUBSET (1..n) : Sum(pnls, T) \in Int /\ \A x \in T : Sum(pnls, T) = pnls[x] + Sum(pnls, T \ {x})
  BY <1>3 DEF Summed
<1>5. Sum(pnls, {}) = 0
  BY <1>3 DEF Summed
<1>6. PICK p : p = [j \in 0..n |-> Sum(pnls, 1..j)]
  OBVIOUS
<1>7. \A j \in 0..n : 1..j \in SUBSET (1..n) /\ p[j] = Sum(pnls, 1..j)
  BY <1>6
<1>8. p \in [0..n -> Int]
  BY <1>4, <1>6, <1>7
<1>9. p[0] = 0
  <2>1. 1..0 = {} /\ 0 \in 0..n
    OBVIOUS
  <2> QED BY <1>5, <1>7, <2>1
<1>10. ASSUME NEW j \in 1..n PROVE p[j] = p[j - 1] + pnls[j]
  <2>1. j \in 0..n /\ j - 1 \in 0..n /\ j \in 1..j /\ (1..j) \ {j} = 1..(j - 1)
    OBVIOUS
  <2>2. Sum(pnls, 1..j) = pnls[j] + Sum(pnls, 1..(j - 1))
    <3>1. Sum(pnls, 1..j) = pnls[j] + Sum(pnls, (1..j) \ {j})
      <4>1. 1..j \in SUBSET (1..n)
        OBVIOUS
      <4> QED BY <1>4, <2>1, <4>1
    <3> QED BY <2>1, <3>1
  <2>3. p[j] \in Int /\ p[j - 1] \in Int /\ pnls[j] \in Int
    BY <1>8, <2>1
  <2> QED BY <1>7, <2>1, <2>2, <2>3
<1>11. ASSUME NEW i \in 1..n, NEW j \in 1..n
       PROVE  -Sum(pnls, i..j) = IF i <= j THEN p[i - 1] - p[j] ELSE 0
  <2>1. CASE i <= j
    <3>1. 1..(i - 1) \in SUBSET (1..n) /\ i..j \in SUBSET (1..n)
          /\ (1..(i - 1)) \cap (i..j) = {} /\ (1..(i - 1)) \union (i..j) = 1..j
      BY <2>1
    <3>2. PICK A \in SUBSET (1..n), B \in SUBSET (1..n) : A = 1..(i - 1) /\ B = i..j
      BY <3>1
    <3>3. Sum(pnls, A \union B) = Sum(pnls, A) + Sum(pnls, B)
      <4>1. A \cap B = {}
        BY <3>1, <3>2
      <4> QED BY <1>3, <4>1 DEF Summed
    <3>4. p[j] = Sum(pnls, A \union B) /\ p[i - 1] = Sum(pnls, A)
      <4>1. j \in 0..n /\ i - 1 \in 0..n
        OBVIOUS
      <4> QED BY <1>7, <3>1, <3>2, <4>1
    <3>5. PICK x \in Int, y \in Int : x = Sum(pnls, A) /\ y = Sum(pnls, B)
      BY <1>4
    <3>6. x - (x + y) = -y
      OBVIOUS
    <3> QED BY <2>1, <3>2, <3>3, <3>4, <3>5, <3>6
  <2>2. CASE ~(i <= j)
    <3>1. i..j = {}
      BY <2>2
    <3> QED BY <1>5, <2>2, <3>1
  <2> QED BY <2>1, <2>2
<1> DEFINE F == {0} \union {-Co!Over(pnls, i..j) : i, j \in 1..n}
<1>13. \A x : x \in F <=> x = 0 \/ \E i, j \in 1..n : x = -Sum(pnls, i..j)
  <2>1. \A i, j : Co!Over(pnls, i..j) = Sum(pnls, i..j)
    BY CoOver
  <2> QED BY <2>1
<1> HIDE DEF F
<1>14. PICK d : d = Co!Drawdown(pnls)
  OBVIOUS
<1>15. /\ \E i, k \in 0..n : i <= k /\ d = p[i] - p[k]
       /\ \A i, k \in 0..n : i <= k => p[i] - p[k] <= d
  BY <1>8, <1>9, <1>10, <1>14, WalkTells
<1>16. d \in F
  <2>1. PICK i \in 0..n, k \in 0..n : i <= k /\ d = p[i] - p[k]
    BY <1>15
  <2>2. CASE i = k
    <3>1. p[i] \in Int
      BY <1>8
    <3> QED BY <1>13, <2>1, <2>2, <3>1
  <2>3. CASE i # k
    <3>1. i + 1 \in 1..n /\ k \in 1..n /\ i + 1 <= k /\ (i + 1) - 1 = i
      BY <2>1, <2>3
    <3>2. d = -Sum(pnls, (i + 1)..k)
      BY <1>11, <2>1, <3>1
    <3> QED BY <1>13, <3>1, <3>2
  <2> QED BY <2>2, <2>3
<1>17. ASSUME NEW x \in F PROVE d >= x
  <2>0. 0 \in 0..n /\ p[0] - p[0] <= d
    BY <1>15
  <2>1. d >= 0
    BY <1>9, <2>0
  <2>2. CASE x = 0
    BY <2>1, <2>2
  <2>3. ASSUME NEW i \in 1..n, NEW j \in 1..n, x = -Sum(pnls, i..j) PROVE d >= x
    <3>1. CASE i <= j
      <4>1. i - 1 \in 0..n /\ j \in 0..n /\ i - 1 <= j
        BY <3>1
      <4>2. x = p[i - 1] - p[j]
        BY <1>11, <2>3, <3>1
      <4>3. p[i - 1] - p[j] <= d
        BY <1>15, <4>1
      <4>4. d \in Int
        <5>1. PICK h \in 0..n, k \in 0..n : d = p[h] - p[k]
          BY <1>15
        <5>2. p[h] \in Int /\ p[k] \in Int
          BY <1>8
        <5> QED BY <5>1, <5>2
      <4>5. p[i - 1] \in Int /\ p[j] \in Int
        BY <1>8, <4>1
      <4> QED BY <4>2, <4>3, <4>4, <4>5
    <3>2. CASE ~(i <= j)
      BY <1>11, <2>1, <2>3, <3>2
    <3> QED BY <3>1, <3>2
  <2> QED BY <1>13, <2>2, <2>3
<1>18. \A x \in F : x \in Int
  <2>1. ASSUME NEW i \in 1..n, NEW j \in 1..n PROVE -Sum(pnls, i..j) \in Int
    <3>1. i..j \in SUBSET (1..n)
      OBVIOUS
    <3> QED BY <1>4, <3>1
  <2> QED BY <1>13, <2>1
<1>19. Co!Max(F) = d
  <2>1. Co!Max(F) = CHOOSE x \in F : \A y \in F : x >= y
    BY DEF Co!Max
  <2>2. ASSUME NEW x \in F, \A y \in F : x >= y PROVE x = d
    BY <1>16, <1>17, <1>18, <2>2
  <2> QED BY <1>16, <1>17, <2>1, <2>2
<1> QED BY <1>14, <1>19 DEF F

LEMMA DrawdownDo == LadderInv => Co!DrawdownIsWorstFall
<1> DEFINE gains(r) == Co!TradePnls(market, Ladder[r])
           falls(r) == {0} \union {-Co!Over(gains(r), i..j) : i, j \in DOMAIN gains(r)}
<1>1. ASSUME LadderInv, ladder # None, NEW r \in DOMAIN Ladder
      PROVE  ladder.drawdowns[r] = Co!Max(falls(r))
  <2>1. ladder.drawdowns[r] = Co!Drawdown(gains(r))
    BY <1>1 DEF LadderInv
  <2>2. PICK n \in Nat : gains(r) \in [1..n -> Int]
    <3>1. market \in Co!Markets /\ Ladder[r] \in Nat
      BY <1>1, LadderGiven DEF LadderInv
    <3> QED BY <3>1, TradesAre
  <2>3. DOMAIN gains(r) = 1..n
    <3> HIDE DEF gains
    <3> QED BY <2>2
  <2>4. Co!Drawdown(gains(r)) = Co!Max({0} \union {-Co!Over(gains(r), i..j) : i, j \in 1..n})
    <3> HIDE DEF gains
    <3> QED BY <2>2, DrawdownTells
  <2> HIDE DEF gains
  <2> QED BY <2>1, <2>3, <2>4
<1>2. (ladder # None => \A r \in DOMAIN Ladder : ladder.drawdowns[r] = Co!Max(falls(r)))
        => Co!DrawdownIsWorstFall
  BY DEF Co!DrawdownIsWorstFall
<1> HIDE DEF falls
<1> QED BY <1>1, <1>2

LEMMA LaddersDo ==
  LadderInv => Co!TypeOK /\ Co!BreakEvenParts /\ Co!DrawdownIsWorstFall /\ Co!InventedTradesWereFreed
<1>1. LadderInv => Co!TypeOK
  <2> SUFFICES ASSUME LadderInv PROVE Co!TypeOK
    OBVIOUS
  <2>1. ASSUME ladder # None PROVE Len(ladder.rows) = Len(Ladder) /\ ladder.raises \in BOOLEAN
    <3>1. ladder.rows = Co!Sweep(market) /\ ladder.raises = Co!Raises(Co!Sweep(market))
      BY <2>1 DEF LadderInv
    <3>2. Len(Co!Sweep(market)) = Len(Ladder)
      BY LadderGiven DEF Co!Sweep
    <3>3. Co!Raises(Co!Sweep(market)) \in BOOLEAN
      BY DEF Co!Raises
    <3> QED BY <3>1, <3>2, <3>3
  <2> QED BY <2>1 DEF Co!TypeOK, LadderInv
<1> QED BY <1>1, BreakEvenDo, DrawdownDo, FreedDo

-----------------------------------------------------------------------------
(* The history, for any pages of the venue and any bars.                     *)

LEMMA HistoryGiven ==
  /\ Horizon \in Nat \ {0, 1} /\ PageSize \in Nat \ {0} /\ MaxCandles \in Nat \ {0}
  /\ FundingLimit \in Nat \ {0} /\ Step \in Nat \ {0} /\ SettleEvery \in Nat \ {0}
  /\ MissingPercent \in Nat /\ SpikePercent \in Nat /\ FundingPercent \in Nat
  /\ MaxSupplied \in Nat
BY PartsAssumption DEF Hi!HistoryAssumption

LEMMA HiCount == \A S : Hi!Cardinality(S) = Cardinality(S)
BY DEF Hi!Cardinality, Cardinality

LEMMA HiOver == \A f, S : Hi!Over(f, S) = Sum(f, S)
BY Zenon DEF Hi!Over, Hi!MapThenSumSet, Hi!MapThenFoldSet, Sum, MapThenSumSet, MapThenFoldSet

LEMMA HiMin ==
  ASSUME NEW S, IsFiniteSet(S), S # {}, \A x \in S : x \in Int
  PROVE  Hi!Min(S) \in S /\ \A y \in S : Hi!Min(S) <= y
<1>1. PICK x \in S : \A y \in S : x <= y
  BY Extremes
<1> QED BY <1>1 DEF Hi!Min

LEMMA HiMax ==
  ASSUME NEW S, IsFiniteSet(S), S # {}, \A x \in S : x \in Int
  PROVE  Hi!Max(S) \in S /\ \A y \in S : y <= Hi!Max(S)
<1>1. PICK x \in S : \A y \in S : y <= x
  BY Extremes
<1>2. \E m \in S : \A y \in S : m >= y
  BY <1>1
<1>3. Hi!Max(S) \in S /\ \A y \in S : Hi!Max(S) >= y
  BY <1>2 DEF Hi!Max
<1> QED BY <1>3

LEMMA TimesAre ==
  ASSUME NEW S \in SUBSET (1..Horizon)
  PROVE  IsFiniteSet(S) /\ S \in SUBSET Int
<1>1. PICK R : R = 1..Horizon
  OBVIOUS
<1>2. IsFiniteSet(R) /\ R \in SUBSET Int /\ S \in SUBSET R
  BY <1>1, FS_Interval, HistoryGiven
<1> QED BY <1>2, FS_Subset

(* The newest of a set: so many, and none without those after it.            *)
LEMMA UpperIsNewest ==
  ASSUME NEW S, IsFiniteSet(S), S \in SUBSET Int, NEW n \in Nat, NEW C \in SUBSET S,
         \A t \in C, u \in S : u > t => u \in C,
         Cardinality(C) <= n, C = S \/ Cardinality(C) = n
  PROVE  Hi!Newest(S, n) = C
<1>1. ASSUME NEW t \in S PROVE t \in Hi!Newest(S, n) <=> t \in C
  <2>1. PICK A : A = {u \in S : u > t}
    OBVIOUS
  <2>2. A \in SUBSET S /\ IsFiniteSet(A) /\ IsFiniteSet(C)
    BY <2>1, FS_Subset
  <2>3. PICK a \in Nat, c \in Nat : a = Cardinality(A) /\ c = Cardinality(C)
    BY <2>2, FS_CardinalityType
  <2>4. t \in Hi!Newest(S, n) <=> a < n
    BY <2>1, <2>3, HiCount DEF Hi!Newest
  <2>5. ASSUME t \in C PROVE a < n
    <3>1. A \subseteq C \ {t}
      <4>1. ASSUME NEW u \in A PROVE u \in C /\ u # t
        <5>1. u \in S /\ u > t
          BY <2>1
        <5>2. u \in Int /\ t \in Int
          BY <5>1
        <5> QED BY <2>5, <5>1, <5>2
      <4> QED BY <4>1
    <3>2. IsFiniteSet(C \ {t}) /\ Cardinality(C \ {t}) = c - 1
      BY <2>2, <2>3, <2>5, FS_RemoveElement
    <3>3. a <= c - 1
      <4>1. PICK D : D = C \ {t}
        OBVIOUS
      <4>2. A \in SUBSET D /\ IsFiniteSet(D) /\ Cardinality(D) = c - 1
        BY <3>1, <3>2, <4>1
      <4>3. Cardinality(A) <= Cardinality(D)
        BY <4>2, FS_Subset
      <4> QED BY <2>3, <4>2, <4>3
    <3> QED BY <2>3, <3>3
  <2>6. ASSUME t \notin C PROVE ~(a < n)
    <3>1. C \subseteq A
      <4>1. ASSUME NEW u \in C PROVE u > t
        <5>1. u \in Int /\ t \in Int /\ u # t
          BY <2>6
        <5>2. ~(t > u)
          BY <2>6
        <5> QED BY <5>1, <5>2
      <4> QED BY <2>1, <4>1
    <3>2. c <= a
      BY <2>2, <2>3, <3>1, FS_Subset
    <3>3. c = n
      BY <2>3, <2>6
    <3> QED BY <2>3, <3>2, <3>3
  <2> QED BY <2>4, <2>5, <2>6
<1> QED BY <1>1 DEF Hi!Newest

LEMMA NewestIs ==
  ASSUME NEW S, IsFiniteSet(S), S \in SUBSET Int, S # {}, NEW n \in Nat \ {0}
  PROVE  /\ Hi!Newest(S, n) \in SUBSET S /\ Hi!Newest(S, n) # {}
         /\ Cardinality(Hi!Newest(S, n)) <= n
         /\ \A t \in Hi!Newest(S, n), u \in S : u > t => u \in Hi!Newest(S, n)
<1>1. PICK N : N = Hi!Newest(S, n)
  OBVIOUS
<1>2. N \in SUBSET S /\ IsFiniteSet(N)
  <2>1. N \in SUBSET S
    BY <1>1 DEF Hi!Newest
  <2> QED BY <2>1, FS_Subset
<1>3. \A t \in S : t \in N <=> Cardinality({u \in S : u > t}) < n
  BY <1>1, HiCount DEF Hi!Newest
<1>4. \A t \in S : IsFiniteSet({u \in S : u > t}) /\ Cardinality({u \in S : u > t}) \in Nat
  <2>1. \A t \in S : {u \in S : u > t} \in SUBSET S
    OBVIOUS
  <2> QED BY <2>1, FS_Subset, FS_CardinalityType
<1>5. ASSUME NEW t \in N, NEW u \in S, u > t PROVE u \in N
  <2>1. {x \in S : x > u} \subseteq {x \in S : x > t}
    <3>1. ASSUME NEW x \in S, x > u PROVE x > t
      <4>1. x \in Int /\ u \in Int /\ t \in Int
        BY <1>2
      <4> QED BY <1>5, <3>1, <4>1
    <3> QED BY <3>1
  <2>2. PICK A, B : A = {x \in S : x > u} /\ B = {x \in S : x > t}
    OBVIOUS
  <2>3. PICK a \in Nat, b \in Nat : a = Cardinality(A) /\ b = Cardinality(B)
    BY <1>2, <1>4, <2>2
  <2>4. a <= b
    <3>1. IsFiniteSet(B) /\ A \subseteq B
      BY <1>2, <1>4, <2>1, <2>2
    <3> QED BY <2>3, <3>1, FS_Subset
  <2>5. b < n
    BY <1>2, <1>3, <2>2, <2>3
  <2> QED BY <1>3, <2>2, <2>3, <2>4, <2>5
<1>6. N # {}
  <2>1. PICK x \in S : \A y \in S : y <= x
    BY Extremes
  <2>2. {u \in S : u > x} = {}
    <3>1. \A u \in S : u \in Int /\ x \in Int /\ u <= x
      BY <2>1
    <3>2. \A u \in S : ~(u > x)
      BY <3>1
    <3> QED BY <3>2
  <2> QED BY <1>3, <2>2, FS_EmptySet
<1>7. Cardinality(N) <= n
  <2>1. PICK x \in N : \A y \in N : x <= y
    BY <1>2, <1>6, Extremes
  <2>2. N \ {x} = {u \in S : u > x}
    <3>1. ASSUME NEW u \in N, u # x PROVE u \in S /\ u > x
      <4>1. u \in Int /\ x \in Int /\ x <= u
        BY <1>2, <2>1
      <4> QED BY <1>2, <3>1, <4>1
    <3>2. ASSUME NEW u \in S, u > x PROVE u \in N /\ u # x
      <4>1. u \in Int /\ x \in Int
        BY <1>2
      <4> QED BY <1>5, <3>2, <4>1
    <3> QED BY <3>1, <3>2
  <2>3. Cardinality(N \ {x}) = Cardinality(N) - 1 /\ Cardinality(N) \in Nat
    BY <1>2, FS_RemoveElement, FS_CardinalityType
  <2>4. Cardinality({u \in S : u > x}) < n
    BY <1>2, <1>3
  <2> QED BY <2>2, <2>3, <2>4
<1> QED BY <1>1, <1>2, <1>5, <1>6, <1>7

(* How a loop of fetch_candle_history and fetch_funding_history goes on, and *)
(* what it ends with.                                                        *)
AskedFor(S, want, limit) == Hi!Pages(S, Hi!Min({limit, want - Hi!Cardinality(collected)}))

Ends(S, want, limit, got) ==
  \/ Hi!Cardinality(collected) >= want /\ got = collected
  \/ /\ ~(Hi!Cardinality(collected) >= want)
     /\ \E page \in AskedFor(S, want, limit) :
          IF page = {} \/ page \subseteq collected THEN got = collected
          ELSE Hi!CursorAfter(page) <= 0 /\ got = collected \union page

PagesOn(S, want, limit) ==
  /\ ~(Hi!Cardinality(collected) >= want)
  /\ \E page \in AskedFor(S, want, limit) :
       /\ ~(page = {} \/ page \subseteq collected) /\ ~(Hi!CursorAfter(page) <= 0)
       /\ collected' = collected \union page /\ cursor' = Hi!CursorAfter(page)

LEMMA CandlesDo ==
  ASSUME Hi!CandlePage
  PROVE  /\ source = "candles" /\ history' = history
         /\ \/ PagesOn(history.bars, MaxCandles, PageSize) /\ UNCHANGED <<source, dataset>>
            \/ \E got : /\ Ends(history.bars, MaxCandles, PageSize, got)
                        /\ dataset' = [dataset EXCEPT !.bars =
                              [i \in 1..Hi!Cardinality(got) |-> Hi!PlainBar(Hi!Sorted(got)[i])]]
                        /\ source' = "funding" /\ collected' = {} /\ cursor' = Horizon
BY Zenon DEF Hi!CandlePage, Hi!PageOf, AskedFor, Ends, PagesOn

LEMMA FundingDoes ==
  ASSUME Hi!FundingPage
  PROVE  /\ source = "funding" /\ history' = history
         /\ \/ PagesOn(history.funding, FundingLimit, FundingLimit) /\ UNCHANGED <<source, dataset>>
            \/ \E got : /\ Ends(history.funding, FundingLimit, FundingLimit, got)
                        /\ dataset' = [dataset EXCEPT !.funding = got]
                        /\ source' = "ready" /\ collected' = {} /\ cursor' = cursor
BY Zenon DEF Hi!FundingPage, Hi!PageOf, AskedFor, Ends, PagesOn

(* What is collected is all the venue has after the cursor.                  *)
Paged(S, want) ==
  /\ cursor \in 0..Horizon
  /\ \A t \in S : t \in collected <=> t > cursor
  /\ collected \in SUBSET S /\ Cardinality(collected) <= want

LEMMA APageIs ==
  ASSUME NEW S \in SUBSET (1..Horizon), NEW want \in Nat \ {0}, NEW limit \in Nat \ {0},
         Paged(S, want), ~(Hi!Cardinality(collected) >= want),
         NEW page \in AskedFor(S, want, limit)
  PROVE  /\ page \in SUBSET S /\ \A t \in page : t <= cursor
         /\ Cardinality(collected \union page) <= want
         /\ page = {} => collected = S
         /\ page # {} =>
              /\ ~(page \subseteq collected)
              /\ Hi!Min(page) \in page /\ \A t \in S : t \in page <=> Hi!Min(page) <= t /\ t <= cursor
<1>1. IsFiniteSet(S) /\ S \in SUBSET Int /\ cursor \in Int /\ Horizon \in Int
  BY TimesAre, HistoryGiven DEF Paged
<1>2. IsFiniteSet(collected) /\ collected \in SUBSET S
  BY <1>1, FS_Subset DEF Paged
<1>3. PICK c \in Nat : c = Cardinality(collected) /\ c < want
  BY <1>2, FS_CardinalityType, HiCount
<1>4. PICK m \in Nat : m = Hi!Min({limit, want - Hi!Cardinality(collected)}) /\ m <= want - c
  <2>1. PICK r \in Nat : r = want - c
    BY <1>3
  <2>2. Hi!Cardinality(collected) = c
    BY <1>3, HiCount
  <2>3. IsFiniteSet({limit, r})
    <3>1. {limit, r} = {limit} \union {r}
      OBVIOUS
    <3>2. IsFiniteSet({limit})
      BY FS_Singleton
    <3> QED BY <3>1, <3>2, FS_AddElement
  <2>4. Hi!Min({limit, r}) \in {limit, r} /\ Hi!Min({limit, r}) <= r
    BY <2>3, HiMin
  <2> QED BY <2>1, <2>2, <2>4
<1>5. PICK here : here = {t \in S : t <= cursor}
  OBVIOUS
<1>6. here \in SUBSET S /\ IsFiniteSet(here) /\ here \in SUBSET Int
  BY <1>1, <1>5, FS_Subset
<1>7. page \in IF here = {} THEN {{}} ELSE {Hi!Newest(here, n) : n \in 1..m}
  BY <1>4, <1>5 DEF AskedFor, Hi!Pages
<1>8. CASE here = {}
  <2>1. page = {}
    BY <1>7, <1>8
  <2>2. collected = S
    <3>1. ASSUME NEW t \in S PROVE t \in collected
      <4>1. ~(t <= cursor) /\ t \in Int
        BY <1>1, <1>5, <1>8
      <4> QED BY <1>1, <4>1 DEF Paged
    <3> QED BY <1>2, <3>1
  <2>3. collected \union page = collected
    BY <2>1
  <2> QED BY <1>3, <2>1, <2>2, <2>3
<1>9. CASE here # {}
  <2>1. PICK n \in 1..m : page = Hi!Newest(here, n)
    BY <1>7, <1>9
  <2>2. /\ page \in SUBSET here /\ page # {} /\ Cardinality(page) <= n
        /\ \A t \in page, u \in here : u > t => u \in page
    <3>1. n \in Nat \ {0}
      BY <1>4
    <3> QED BY <1>6, <1>9, <2>1, <3>1, NewestIs
  <2>3. IsFiniteSet(page) /\ Cardinality(page) \in Nat
    BY <1>6, <2>2, FS_Subset, FS_CardinalityType
  <2>4. \A t \in page : t \in S /\ t <= cursor /\ t \notin collected
    BY <1>1, <1>5, <2>2 DEF Paged
  <2>5. Cardinality(collected \union page) <= want
    <3>1. PICK p \in Nat : p = Cardinality(page)
      BY <2>3
    <3>2. collected \cap page = {}
      BY <2>4
    <3>3. Cardinality(collected \union page) = c + p
      BY <1>2, <1>3, <2>3, <3>1, <3>2, FS_Union, FS_EmptySet
    <3> QED BY <1>3, <1>4, <2>1, <2>2, <3>1, <3>3
  <2>6. Hi!Min(page) \in page /\ \A y \in page : Hi!Min(page) <= y
    <3>1. \A x \in page : x \in Int
      BY <1>1, <2>4
    <3> QED BY <2>2, <2>3, <3>1, HiMin
  <2>7. ASSUME NEW t \in S, Hi!Min(page) <= t, t <= cursor PROVE t \in page
    <3>1. t \in here /\ t \in Int /\ Hi!Min(page) \in Int
      BY <1>1, <1>5, <2>4, <2>6, <2>7
    <3> QED BY <2>2, <2>6, <2>7, <3>1
  <2> QED BY <2>2, <2>4, <2>5, <2>6, <2>7
<1> QED BY <1>8, <1>9

LEMMA EndsWithNewest ==
  ASSUME NEW S \in SUBSET (1..Horizon), NEW want \in Nat \ {0}, NEW limit \in Nat \ {0},
         Paged(S, want), NEW got, Ends(S, want, limit, got)
  PROVE  got = Hi!Newest(S, want)
<1>1. IsFiniteSet(S) /\ S \in SUBSET Int /\ cursor \in Int
  BY TimesAre, HistoryGiven DEF Paged
<1>2. ASSUME NEW C \in SUBSET S, \A t \in C, u \in S : u > t => u \in C,
             Cardinality(C) <= want, C = S \/ Cardinality(C) = want
      PROVE  Hi!Newest(S, want) = C
  BY <1>1, <1>2, UpperIsNewest
<1>3. CASE Hi!Cardinality(collected) >= want
  <2>1. got = collected
    BY <1>3 DEF Ends
  <2>2. \A t \in collected, u \in S : u > t => u \in collected
    <3>1. ASSUME NEW t \in collected, NEW u \in S, u > t PROVE u \in collected
      <4>1. t \in Int /\ u \in Int /\ t > cursor
        BY <1>1 DEF Paged
      <4> QED BY <1>1, <3>1, <4>1 DEF Paged
    <3> QED BY <3>1
  <2>3. Cardinality(collected) = want /\ collected \in SUBSET S
    <3>1. IsFiniteSet(collected) /\ collected \in SUBSET S
      BY <1>1, FS_Subset DEF Paged
    <3>2. PICK c \in Nat : c = Cardinality(collected)
      BY <3>1, FS_CardinalityType
    <3>3. c >= want /\ c <= want
      BY <1>3, <3>2, HiCount DEF Paged
    <3> QED BY <3>1, <3>2, <3>3
  <2> QED BY <1>2, <2>1, <2>2, <2>3
<1>4. CASE ~(Hi!Cardinality(collected) >= want)
  <2>1. PICK page \in AskedFor(S, want, limit) :
          IF page = {} \/ page \subseteq collected THEN got = collected
          ELSE Hi!CursorAfter(page) <= 0 /\ got = collected \union page
    BY <1>4 DEF Ends
  <2>2. /\ page \in SUBSET S /\ \A t \in page : t <= cursor
        /\ Cardinality(collected \union page) <= want
        /\ page = {} => collected = S
        /\ page # {} =>
             /\ ~(page \subseteq collected)
             /\ Hi!Min(page) \in page /\ \A t \in S : t \in page <=> Hi!Min(page) <= t /\ t <= cursor
    BY <1>4, APageIs
  <2>3. got = S /\ Cardinality(S) <= want
    <3>1. CASE page = {}
      <4>1. collected = S /\ collected \union page = collected /\ got = collected
        BY <2>1, <2>2, <3>1
      <4> QED BY <2>2, <4>1
    <3>2. CASE page # {}
      <4>1. Hi!CursorAfter(page) <= 0 /\ got = collected \union page
        BY <2>1, <2>2, <3>2
      <4>2. Hi!Min(page) \in 1..Horizon /\ Hi!Min(page) - 1 <= 0
        BY <2>2, <3>2, <4>1 DEF Hi!CursorAfter
      <4>3. ASSUME NEW t \in S PROVE t \in collected \union page
        <5>1. t \in Int /\ Hi!Min(page) <= t
          BY <4>2, HistoryGiven
        <5>2. t > cursor \/ t <= cursor
          BY <1>1, <5>1
        <5> QED BY <2>2, <3>2, <5>1, <5>2 DEF Paged
      <4>4. collected \union page = S
        BY <2>2, <4>3 DEF Paged
      <4> QED BY <2>2, <4>1, <4>4
    <3> QED BY <3>1, <3>2
  <2> QED BY <1>2, <2>3
<1> QED BY <1>3, <1>4

LEMMA StaysPaged ==
  ASSUME NEW S \in SUBSET (1..Horizon), NEW want \in Nat \ {0}, NEW limit \in Nat \ {0},
         Paged(S, want), PagesOn(S, want, limit)
  PROVE  Paged(S, want)'
<1>1. S \in SUBSET Int /\ cursor \in Int /\ cursor <= Horizon /\ Horizon \in Nat
  BY HistoryGiven DEF Paged
<1>2. PICK page \in AskedFor(S, want, limit) :
        /\ page # {} /\ ~(Hi!CursorAfter(page) <= 0)
        /\ collected' = collected \union page /\ cursor' = Hi!CursorAfter(page)
  BY DEF PagesOn
<1>3. /\ page \in SUBSET S /\ \A t \in page : t <= cursor
      /\ Cardinality(collected \union page) <= want
      /\ Hi!Min(page) \in page /\ \A t \in S : t \in page <=> Hi!Min(page) <= t /\ t <= cursor
  BY <1>2, APageIs DEF PagesOn
<1>4. PICK x \in Int : x = Hi!Min(page) /\ cursor' = x - 1 /\ x <= cursor /\ ~(x - 1 <= 0)
  BY <1>1, <1>2, <1>3 DEF Hi!CursorAfter
<1>5. cursor' \in 0..Horizon
  BY <1>1, <1>4
<1>6. ASSUME NEW t \in S PROVE t \in collected' <=> t > cursor'
  <2>1. t \in Int /\ (t \in collected <=> t > cursor) /\ (t \in page <=> x <= t /\ t <= cursor)
    BY <1>1, <1>3, <1>4 DEF Paged
  <2>2. t \in collected' <=> t > cursor \/ (x <= t /\ t <= cursor)
    BY <1>2, <2>1
  <2> QED BY <1>1, <1>4, <2>1, <2>2
<1> QED BY <1>2, <1>3, <1>5, <1>6 DEF Paged

(* Sorted. *)
LEMMA RanksInOrder ==
  ASSUME NEW S, IsFiniteSet(S), S \in SUBSET Int, NEW n \in Nat, n = Cardinality(S)
  PROVE  /\ Hi!Sorted(S) \in [1..n -> S]
         /\ \A i, j \in 1..n : i < j => Hi!Sorted(S)[i] < Hi!Sorted(S)[j]
         /\ \A t \in S : \E i \in 1..n : Hi!Sorted(S)[i] = t
<1> DEFINE below(t) == {u \in S : u < t}
<1>1. \A t \in S : below(t) \in SUBSET S /\ IsFiniteSet(below(t)) /\ Cardinality(below(t)) \in Nat
  <2>1. \A t \in S : below(t) \in SUBSET S
    OBVIOUS
  <2> HIDE DEF below
  <2> QED BY <2>1, FS_Subset, FS_CardinalityType
<1>2. PICK s : s = Hi!Sorted(S)
  OBVIOUS
<1>3. s = [i \in 1..n |-> CHOOSE t \in S : Hi!Cardinality(below(t)) = i - 1]
  BY <1>2, HiCount DEF Hi!Sorted
<1>4. ASSUME NEW i \in 1..n PROVE s[i] \in S /\ Cardinality(below(s[i])) = i - 1
  <2>1. \E t \in S : Cardinality(below(t)) = i - 1
    BY RanksExist
  <2> HIDE DEF below
  <2>2. \E t \in S : Hi!Cardinality(below(t)) = i - 1
    BY <2>1, HiCount
  <2>3. s[i] \in S /\ Hi!Cardinality(below(s[i])) = i - 1
    BY <1>3, <2>2
  <2> QED BY <2>3, HiCount
<1>5. ASSUME NEW t \in S, NEW u \in S, t < u PROVE Cardinality(below(t)) < Cardinality(below(u))
  <2>1. below(t) \subseteq below(u) /\ t \in below(u) /\ t \notin below(t)
    <3>1. ASSUME NEW x \in S, x < t PROVE x < u
      <4>1. x \in Int /\ t \in Int /\ u \in Int
        OBVIOUS
      <4> QED BY <1>5, <3>1, <4>1
    <3>2. t \in Int /\ ~(t < t)
      OBVIOUS
    <3> QED BY <1>5, <3>1, <3>2
  <2>2. PICK A, B : A = below(t) /\ B = below(u)
    OBVIOUS
  <2> HIDE DEF below
  <2>3. IsFiniteSet(B) /\ A \in SUBSET B /\ A # B
    BY <1>1, <2>1, <2>2
  <2>4. PICK a \in Nat, b \in Nat : a = Cardinality(A) /\ b = Cardinality(B)
    BY <1>1, <2>2
  <2>5. a <= b /\ a # b
    BY <2>3, <2>4, FS_Subset
  <2> QED BY <2>2, <2>4, <2>5
<1>6. s \in [1..n -> S]
  BY <1>3, <1>4
<1>7. ASSUME NEW i \in 1..n, NEW j \in 1..n, i < j PROVE s[i] < s[j]
  <2>1. PICK a \in S, b \in S : a = s[i] /\ b = s[j]
    BY <1>4
  <2>2. Cardinality(below(a)) = i - 1 /\ Cardinality(below(b)) = j - 1
    BY <1>4, <2>1
  <2> HIDE DEF below
  <2>3. a # b
    BY <1>7, <2>2
  <2>4. ~(b < a)
    <3>1. b < a => Cardinality(below(b)) < Cardinality(below(a))
      BY <1>5
    <3> QED BY <1>7, <2>2, <3>1
  <2>5. a \in Int /\ b \in Int
    OBVIOUS
  <2> QED BY <2>1, <2>3, <2>4, <2>5
<1>8. ASSUME NEW t \in S PROVE \E i \in 1..n : s[i] = t
  <2>1. PICK k \in Nat : k = Cardinality(below(t))
    BY <1>1
  <2>2. t \notin below(t) /\ t \in Int
    OBVIOUS
  <2>3. k < n
    <3>1. below(t) \in SUBSET S /\ below(t) # S
      BY <1>1, <2>2
    <3> HIDE DEF below
    <3> QED BY <2>1, <3>1, FS_Subset
  <2>4. k + 1 \in 1..n
    BY <2>3
  <2>5. PICK x \in S : x = s[k + 1] /\ Cardinality(below(x)) = k
    <3> HIDE DEF below
    <3>1. s[k + 1] \in S /\ Cardinality(below(s[k + 1])) = (k + 1) - 1
      BY <1>4, <2>4
    <3>2. (k + 1) - 1 = k
      OBVIOUS
    <3> QED BY <3>1, <3>2
  <2>6. ~(x < t) /\ ~(t < x) /\ x \in Int
    <3> HIDE DEF below
    <3>1. (x < t => Cardinality(below(x)) < Cardinality(below(t)))
          /\ (t < x => Cardinality(below(t)) < Cardinality(below(x)))
      BY <1>5
    <3> QED BY <2>1, <2>5, <3>1
  <2> QED BY <2>2, <2>4, <2>5, <2>6
<1> QED BY <1>2, <1>6, <1>7, <1>8

(* A dataset, and one its structural checks pass.                            *)
Datasets == [bars : Seq(Hi!Bars), funding : SUBSET Hi!Settlements, fetched : Hi!Times]

LEMMA DatasetIs ==
  ASSUME NEW d \in Datasets
  PROVE  /\ d.bars \in Seq(Hi!Bars) /\ Len(d.bars) \in Nat /\ DOMAIN d.bars = 1..Len(d.bars)
         /\ \A i \in DOMAIN d.bars :
              /\ d.bars[i] \in Hi!Bars /\ Hi!At(d, i) \in 1..Horizon
              /\ d.bars[i].close \in {1, 2} /\ d.bars[i].wick \in {0, 1}
         /\ Hi!TimesOf(d) \in SUBSET (1..Horizon)
         /\ d.funding \in SUBSET (1..Horizon) /\ d.fetched \in 1..Horizon
<1>1. d.bars \in Seq(Hi!Bars) /\ d.funding \in SUBSET (1..Horizon) /\ d.fetched \in 1..Horizon
  BY DEF Datasets, Hi!Settlements, Hi!Times
<1>2. Len(d.bars) \in Nat /\ DOMAIN d.bars = 1..Len(d.bars)
  BY <1>1
<1>3. \A i \in DOMAIN d.bars : d.bars[i] \in Hi!Bars
  BY <1>1
<1>4. \A b \in Hi!Bars : b.ts \in 1..Horizon /\ b.close \in {1, 2} /\ b.wick \in {0, 1}
  BY DEF Hi!Bars, Hi!Times
<1>5. \A i \in DOMAIN d.bars : Hi!At(d, i) \in 1..Horizon
  BY <1>3, <1>4 DEF Hi!At
<1>6. Hi!TimesOf(d) \in SUBSET (1..Horizon)
  BY <1>5 DEF Hi!TimesOf
<1> QED BY <1>1, <1>2, <1>3, <1>4, <1>5, <1>6

(* No time twice and none before the last: each after the one before. *)
LEMMA OneByOne ==
  ASSUME NEW d \in Datasets, Hi!StructurallyOk(d)
  PROVE  \A i, j \in DOMAIN d.bars : i < j => Hi!At(d, i) < Hi!At(d, j)
<1>1. PICK n \in Nat : n = Len(d.bars) /\ DOMAIN d.bars = 1..n
  BY DatasetIs
<1>2. PICK a \in [1..n -> Int] : \A i \in 1..n : a[i] = Hi!At(d, i)
  <2>1. \A i \in 1..n : Hi!At(d, i) \in Int
    BY <1>1, DatasetIs
  <2>2. [i \in 1..n |-> Hi!At(d, i)] \in [1..n -> Int]
    BY <2>1
  <2> QED BY <2>2
<1>3. \A i \in 1..(n - 1) : a[i] <= a[i + 1]
  <2>1. ASSUME NEW i \in 1..(n - 1) PROVE a[i] <= a[i + 1]
    <3>1. i \in 1..n /\ i + 1 \in 1..n /\ i \in Hi!Steps(d)
      BY <1>1 DEF Hi!Steps
    <3>2. Hi!At(d, i + 1) >= Hi!At(d, i)
      BY <3>1 DEF Hi!StructurallyOk
    <3>3. a[i] = Hi!At(d, i) /\ a[i + 1] = Hi!At(d, i + 1) /\ a[i] \in Int /\ a[i + 1] \in Int
      BY <1>2, <3>1
    <3> QED BY <3>2, <3>3
  <2> QED BY <2>1
<1>4. ASSUME NEW i \in 1..n, NEW j \in 1..n, i < j PROVE a[i] <= a[j]
  <2> DEFINE Good == {k \in 0..n : \A h \in 1..k : h <= k => a[h] <= a[k]}
  <2>1. 0 \in Good
    OBVIOUS
  <2>2. ASSUME NEW k \in 0..(n - 1), k \in Good PROVE k + 1 \in Good
    <3>1. ASSUME NEW h \in 1..(k + 1) PROVE a[h] <= a[k + 1]
      <4>1. k + 1 \in 1..n /\ h \in 1..n
        OBVIOUS
      <4>2. CASE h = k + 1
        BY <4>1, <4>2
      <4>3. CASE h # k + 1
        <5>1. h \in 1..k /\ k \in 1..(n - 1) /\ k \in 1..n
          BY <4>3
        <5>2. a[h] <= a[k] /\ a[k] <= a[k + 1]
          BY <1>3, <2>2, <5>1
        <5>3. a[h] \in Int /\ a[k] \in Int /\ a[k + 1] \in Int
          BY <4>1, <5>1
        <5> QED BY <5>2, <5>3
      <4> QED BY <4>2, <4>3
    <3>2. k + 1 \in 0..n
      OBVIOUS
    <3> QED BY <3>1, <3>2
  <2>3. 0..n \subseteq Good
    <3> HIDE DEF Good
    <3> QED BY <2>1, <2>2, StepInduction
  <2>4. j \in Good /\ i \in 1..j
    <3>1. j \in 0..n /\ i \in 1..j
      BY <1>4
    <3> HIDE DEF Good
    <3> QED BY <2>3, <3>1
  <2> QED BY <2>4
<1>5. ASSUME NEW i \in 1..n, NEW j \in 1..n, i < j, a[i] = a[j] PROVE FALSE
  <2>1. PICK V : V = {a[h] : h \in (1..n) \ {j}}
    OBVIOUS
  <2>2. Hi!TimesOf(d) = V
    <3>1. \A h \in (1..n) \ {j} : a[h] = Hi!At(d, h)
      BY <1>2
    <3>2. Hi!TimesOf(d) = {a[h] : h \in 1..n}
      BY <1>1, <1>2 DEF Hi!TimesOf
    <3>3. i \in (1..n) \ {j}
      BY <1>5
    <3>4. \A h \in 1..n : \E g \in (1..n) \ {j} : a[h] = a[g]
      BY <1>5, <3>3
    <3> QED BY <2>1, <3>2, <3>4
  <2>3. IsFiniteSet((1..n) \ {j}) /\ Cardinality((1..n) \ {j}) = n - 1
    <3>1. IsFiniteSet(1..n) /\ Cardinality(1..n) = n
      BY FS_Interval
    <3> QED BY <3>1, FS_RemoveElement
  <2>4. Cardinality(V) <= n - 1
    <3>1. PICK D : D = (1..n) \ {j}
      OBVIOUS
    <3>2. V = {a[h] : h \in D} /\ IsFiniteSet(D) /\ Cardinality(D) = n - 1
      BY <2>1, <2>3, <3>1
    <3> QED BY <3>2, ImagesAreFewer
  <2>5. Cardinality(V) = n
    BY <1>1, <2>2, HiCount DEF Hi!StructurallyOk
  <2> QED BY <2>4, <2>5
<1>6. ASSUME NEW i \in 1..n, NEW j \in 1..n, i < j PROVE Hi!At(d, i) < Hi!At(d, j)
  <2>1. a[i] <= a[j] /\ a[i] # a[j] /\ a[i] \in Int /\ a[j] \in Int
    BY <1>4, <1>5, <1>6
  <2> QED BY <1>2, <2>1
<1> QED BY <1>1, <1>6

(* What a replay charges: the settlements between two bars. *)
LEMMA ChargesInPlace ==
  ASSUME NEW d \in Datasets, Hi!StructurallyOk(d)
  PROVE  /\ \A i \in DOMAIN d.bars :
              Hi!FundingAt(d, i) # None =>
                /\ Hi!FundingAt(d, i) <= Hi!At(d, i)
                /\ \A j \in 1..(i - 1) : /\ Hi!At(d, j) < Hi!FundingAt(d, i)
                                         /\ Hi!FundingAt(d, j) # Hi!FundingAt(d, i)
         /\ \A f \in d.funding \cap Hi!TimesOf(d) :
              \E i \in DOMAIN d.bars : Hi!At(d, i) = f /\ Hi!FundingAt(d, i) = f
<1> DEFINE passed(i) == {f \in d.funding : f <= Hi!At(d, i) /\ \A j \in 1..(i - 1) : f > Hi!At(d, j)}
<1>1. \A i \in DOMAIN d.bars : IsFiniteSet(passed(i)) /\ passed(i) \in SUBSET Int
  <2>1. \A i : passed(i) \in SUBSET (1..Horizon)
    BY DatasetIs
  <2> HIDE DEF passed
  <2> QED BY <2>1, TimesAre
<1>2. ASSUME NEW i \in DOMAIN d.bars
      PROVE  /\ passed(i) = {} => Hi!FundingAt(d, i) = None
             /\ passed(i) # {} => /\ Hi!FundingAt(d, i) \in passed(i)
                                  /\ \A f \in passed(i) : f <= Hi!FundingAt(d, i)
  <2>1. PICK P : P = passed(i)
    OBVIOUS
  <2>2. Hi!FundingAt(d, i) = IF P = {} THEN None ELSE Hi!Max(P)
    BY <2>1 DEF Hi!FundingAt
  <2>3. IsFiniteSet(P) /\ P \in SUBSET Int
    <3> HIDE DEF passed
    <3> QED BY <1>1, <2>1
  <2>4. P # {} => Hi!Max(P) \in P /\ \A f \in P : f <= Hi!Max(P)
    BY <2>3, HiMax
  <2> HIDE DEF passed
  <2> QED BY <2>1, <2>2, <2>4
<1>3. \A i \in DOMAIN d.bars : \A j \in 1..(i - 1) :
        j \in DOMAIN d.bars /\ Hi!At(d, j) \in Int /\ Hi!At(d, i) \in Int
  BY DatasetIs
<1>4. ASSUME NEW i \in DOMAIN d.bars, Hi!FundingAt(d, i) # None
      PROVE  /\ Hi!FundingAt(d, i) <= Hi!At(d, i)
             /\ \A j \in 1..(i - 1) : /\ Hi!At(d, j) < Hi!FundingAt(d, i)
                                      /\ Hi!FundingAt(d, j) # Hi!FundingAt(d, i)
  <2>1. Hi!FundingAt(d, i) \in passed(i)
    BY <1>2, <1>4
  <2>2. PICK f \in Int : f = Hi!FundingAt(d, i) /\ f <= Hi!At(d, i) /\ \A j \in 1..(i - 1) : f > Hi!At(d, j)
    BY <1>1, <2>1
  <2>3. ASSUME NEW j \in 1..(i - 1) PROVE Hi!At(d, j) < f /\ Hi!FundingAt(d, j) # f
    <3>1. j \in DOMAIN d.bars /\ Hi!At(d, j) \in Int /\ f > Hi!At(d, j)
      BY <1>3, <2>2
    <3>2. Hi!FundingAt(d, j) = None
          \/ (Hi!FundingAt(d, j) \in Int /\ Hi!FundingAt(d, j) <= Hi!At(d, j))
      <4>1. passed(j) # {} => Hi!FundingAt(d, j) \in Int /\ Hi!FundingAt(d, j) <= Hi!At(d, j)
        BY <1>1, <1>2, <3>1
      <4> HIDE DEF passed
      <4> QED BY <1>2, <3>1, <4>1
    <3> QED BY <1>4, <2>2, <3>1, <3>2
  <2> QED BY <2>2, <2>3
<1>5. ASSUME NEW f \in d.funding \cap Hi!TimesOf(d)
      PROVE  \E i \in DOMAIN d.bars : Hi!At(d, i) = f /\ Hi!FundingAt(d, i) = f
  <2>1. PICK i \in DOMAIN d.bars : Hi!At(d, i) = f
    BY DEF Hi!TimesOf
  <2>2. \A j \in 1..(i - 1) : f > Hi!At(d, j)
    <3>1. ASSUME NEW j \in 1..(i - 1) PROVE f > Hi!At(d, j)
      <4>1. j \in DOMAIN d.bars /\ j < i /\ Hi!At(d, j) \in Int /\ f \in Int
        BY <1>3, <2>1, DatasetIs
      <4>2. Hi!At(d, j) < Hi!At(d, i)
        BY <4>1, OneByOne
      <4> QED BY <2>1, <4>1, <4>2
    <3> QED BY <3>1
  <2>3. f \in Int /\ f <= f
    BY <2>1, DatasetIs
  <2>4. f \in passed(i)
    BY <2>1, <2>2, <2>3
  <2>5. Hi!FundingAt(d, i) \in passed(i) /\ f <= Hi!FundingAt(d, i)
    <3> HIDE DEF passed
    <3> QED BY <1>2, <2>4
  <2>6. Hi!FundingAt(d, i) <= f /\ Hi!FundingAt(d, i) \in Int
    BY <1>1, <2>1, <2>5
  <2> QED BY <2>1, <2>3, <2>5, <2>6
<1> QED BY <1>4, <1>5

(* A wick against the close before it. *)
LEMMA WicksAreSmall ==
  ASSUME NEW d \in Datasets, Hi!WickSpikeGate(d)
  PROVE  \A i \in DOMAIN d.bars :
           i > 1 => 100 * d.bars[i].wick <= SpikePercent * d.bars[i - 1].close + 99
<1> SUFFICES ASSUME NEW i \in DOMAIN d.bars, i > 1
             PROVE  100 * d.bars[i].wick <= SpikePercent * d.bars[i - 1].close + 99
  OBVIOUS
<1>1. i - 1 \in DOMAIN d.bars
  BY DatasetIs
<1>2. PICK w \in {0, 1}, c \in {1, 2} : w = d.bars[i].wick /\ c = d.bars[i - 1].close
  BY <1>1, DatasetIs
<1>3. (100 * w) \div c <= SpikePercent
  BY <1>2 DEF Hi!WickSpikeGate, Hi!Wick
<1>4. PICK q \in Int : q = (100 * w) \div c /\ 100 * w < q * c + c
  BY DivIs
<1>5. q * c <= SpikePercent * c
  BY <1>3, <1>4, HistoryGiven
<1> QED BY <1>2, <1>4, <1>5, HistoryGiven

-----------------------------------------------------------------------------
(* The grid of a dataset, and what is missing of it.                         *)
LEMMA TimesMore ==
  ASSUME NEW a \in Int, NEW b \in Int, NEW c \in Nat \ {0}
  PROVE  (a <= b <=> a * c <= b * c) /\ (a < b <=> a * c < b * c)
<1>1. ASSUME NEW x \in Int, NEW y \in Int, x < y PROVE x * c < y * c
  <2>1. PICK z \in Nat \ {0} : y = x + z
    <3>1. y - x \in Nat \ {0} /\ y = x + (y - x)
      BY <1>1
    <3> QED BY <3>1
  <2>2. y * c = x * c + z * c /\ z * c > 0
    BY <2>1
  <2>3. x * c \in Int /\ y * c \in Int /\ z * c \in Int
    BY <2>1
  <2> QED BY <2>2, <2>3
<1>2. a < b => a * c < b * c
  BY <1>1
<1>3. b < a => b * c < a * c
  BY <1>1
<1>4. a * c \in Int /\ b * c \in Int
  OBVIOUS
<1> QED BY <1>2, <1>3, <1>4

LEMMA ExactlyOnGrid ==
  ASSUME NEW a \in Int, NEW b \in Nat \ {0}
  PROVE  a % b = 0 <=> \E q \in Int : a = q * b
<1>1. ASSUME a % b = 0 PROVE a = (a \div b) * b /\ a \div b \in Int
  BY <1>1
<1>2. ASSUME NEW q \in Int, a = q * b PROVE a % b = 0
  BY <1>2
<1> QED BY <1>1, <1>2

LEMMA WholeIsRounded ==
  ASSUME NEW n \in Int, NEW d \in Nat \ {0}, NEW k \in Int, n = k * d
  PROVE  Hi!Rounded(n, d) = k
<1>1. n % d = 0
  BY ExactlyOnGrid
<1>2. PICK q \in Int : q = n \div d /\ q * d <= n /\ n < q * d + d
  BY DivIs
<1>3. (q + 1) * d = q * d + d
  BY <1>2
<1>4. k < q + 1 /\ q <= k
  BY <1>2, <1>3, TimesMore
<1>5. q = k
  BY <1>2, <1>4
<1> QED BY <1>1, <1>2, <1>5 DEF Hi!Rounded

LEMMA BetweenIs ==
  ASSUME NEW a \in Int, NEW b \in Int, NEW k \in Nat \ {0}, b - a = k * Step
  PROVE  Hi!Between(a, b) = k - 1
<1>1. Step \in Nat \ {0} /\ 2 * Step \in Nat \ {0}
  BY HistoryGiven
<1>2. CASE k = 1
  <2>1. b - a = Step
    BY <1>1, <1>2
  <2> QED BY <1>1, <1>2, <2>1 DEF Hi!Between
<1>3. CASE k # 1
  <2>1. b - a > Step
    <3>1. 1 < k
      BY <1>3
    <3>2. 1 * Step < k * Step /\ 1 * Step = Step
      BY <1>1, <3>1, TimesMore
    <3> QED BY <1>1, <3>2
  <2>2. Hi!Rounded(b - a, Step) = k
    BY <1>1, WholeIsRounded
  <2> QED BY <2>1, <2>2 DEF Hi!Between
<1> QED BY <1>2, <1>3

(* So many times of a grid. *)
LEMMA GridHas ==
  ASSUME NEW a \in Int, NEW s \in Nat \ {0}, NEW n \in Nat
  PROVE  /\ IsFiniteSet({a + x * s : x \in 0..n})
         /\ Cardinality({a + x * s : x \in 0..n}) = n + 1
<1> DEFINE G(k) == {a + x * s : x \in 0..k}
           Good == {k \in 0..n : IsFiniteSet(G(k)) /\ Cardinality(G(k)) = k + 1}
<1>1. 0 \in Good
  <2>1. G(0) = {a}
    <3>1. 0..0 = {0} /\ a + 0 * s = a
      OBVIOUS
    <3> QED BY <3>1
  <2> HIDE DEF G
  <2>2. IsFiniteSet(G(0)) /\ Cardinality(G(0)) = 0 + 1
    BY <2>1, FS_Singleton
  <2>3. 0 \in 0..n
    OBVIOUS
  <2> QED BY <2>2, <2>3
<1>2. ASSUME NEW k \in 0..(n - 1), k \in Good PROVE k + 1 \in Good
  <2>1. PICK y \in Int : y = a + (k + 1) * s
    OBVIOUS
  <2>2. G(k + 1) = G(k) \union {y}
    <3>1. \A x : x \in 0..(k + 1) <=> x \in 0..k \/ x = k + 1
      OBVIOUS
    <3> QED BY <2>1, <3>1
  <2>3. y \notin G(k)
    <3>1. ASSUME NEW x \in 0..k, y = a + x * s PROVE FALSE
      <4>1. x < k + 1 /\ x * s \in Int /\ (k + 1) * s \in Int
        OBVIOUS
      <4>2. x * s < (k + 1) * s
        BY <4>1, TimesMore
      <4> QED BY <2>1, <3>1, <4>1, <4>2
    <3> QED BY <3>1
  <2> HIDE DEF G
  <2>4. IsFiniteSet(G(k)) /\ Cardinality(G(k)) = k + 1
    BY <1>2
  <2>5. IsFiniteSet(G(k + 1)) /\ Cardinality(G(k + 1)) = (k + 1) + 1
    BY <2>2, <2>3, <2>4, FS_AddElement
  <2> QED BY <2>5
<1>3. 0..n \subseteq Good
  <2> HIDE DEF Good
  <2> QED BY <1>1, <1>2, StepInduction
<1>4. n \in Good
  <2> HIDE DEF Good
  <2> QED BY <1>3
<1> QED BY <1>4

LEMMA EndsAre ==
  ASSUME NEW d \in Datasets, Hi!StructurallyOk(d), d.bars # <<>>,
         NEW n \in Nat, n = Len(d.bars)
  PROVE  n >= 1 /\ Hi!First(d) = Hi!At(d, 1) /\ Hi!Last(d) = Hi!At(d, n)
<1>1. DOMAIN d.bars = 1..n /\ n # 0
  BY DatasetIs
<1>2. PICK T : T = Hi!TimesOf(d)
  OBVIOUS
<1>3. IsFiniteSet(T) /\ T \in SUBSET Int
  BY <1>2, DatasetIs, TimesAre
<1>4. /\ Hi!At(d, 1) \in T /\ Hi!At(d, n) \in T
      /\ \A t \in T : Hi!At(d, 1) <= t /\ t <= Hi!At(d, n)
  <2>1. \A t : t \in T <=> \E i \in 1..n : t = Hi!At(d, i)
    BY <1>1, <1>2 DEF Hi!TimesOf
  <2>2. 1 \in 1..n /\ n \in 1..n
    BY <1>1
  <2>3. ASSUME NEW i \in 1..n PROVE Hi!At(d, 1) <= Hi!At(d, i) /\ Hi!At(d, i) <= Hi!At(d, n)
    <3>1. Hi!At(d, 1) \in Int /\ Hi!At(d, i) \in Int /\ Hi!At(d, n) \in Int
      BY <1>1, <2>2, DatasetIs
    <3>2. i # 1 => Hi!At(d, 1) < Hi!At(d, i)
      <4>1. i # 1 => 1 < i
        OBVIOUS
      <4> QED BY <1>1, <2>2, <4>1, OneByOne
    <3>3. i # n => Hi!At(d, i) < Hi!At(d, n)
      <4>1. i # n => i < n
        OBVIOUS
      <4> QED BY <1>1, <2>2, <4>1, OneByOne
    <3> QED BY <3>1, <3>2, <3>3
  <2> QED BY <2>1, <2>2, <2>3
<1>5. Hi!Min(T) \in T /\ (\A y \in T : Hi!Min(T) <= y) /\ Hi!Max(T) \in T /\ \A y \in T : y <= Hi!Max(T)
  BY <1>3, <1>4, HiMin, HiMax
<1>6. Hi!Min(T) = Hi!At(d, 1)
  <2>1. Hi!Min(T) <= Hi!At(d, 1) /\ Hi!At(d, 1) <= Hi!Min(T) /\ Hi!Min(T) \in Int /\ Hi!At(d, 1) \in Int
    BY <1>3, <1>4, <1>5
  <2> QED BY <2>1
<1>7. Hi!Max(T) = Hi!At(d, n)
  <2>1. Hi!Max(T) <= Hi!At(d, n) /\ Hi!At(d, n) <= Hi!Max(T) /\ Hi!Max(T) \in Int /\ Hi!At(d, n) \in Int
    BY <1>3, <1>4, <1>5
  <2> QED BY <2>1
<1> QED BY <1>1, <1>2, <1>6, <1>7 DEF Hi!First, Hi!Last

(* The bars of the grid, counted: what lies between them is what is missing. *)
LEMMA MissingOfGrid ==
  ASSUME NEW d \in Datasets, Hi!StructurallyOk(d), d.bars # <<>>,
         NEW grid, grid = {t \in Hi!First(d)..Hi!Last(d) : (t - Hi!First(d)) % Step = 0},
         Hi!TimesOf(d) \subseteq grid
  PROVE  /\ Hi!MissingBars(d) \in Int /\ Len(d.bars) \in Int
         /\ Cardinality(grid) = Len(d.bars) + Hi!MissingBars(d)
         /\ Cardinality(grid \ Hi!TimesOf(d)) = Hi!MissingBars(d)
<1>1. PICK n \in Nat : n = Len(d.bars) /\ DOMAIN d.bars = 1..n
  BY DatasetIs
<1>2. n >= 1 /\ Hi!First(d) = Hi!At(d, 1) /\ Hi!Last(d) = Hi!At(d, n)
  BY <1>1, EndsAre
<1>3. PICK m \in Nat : n = m + 1 /\ Hi!Steps(d) = 1..m
  <2>1. n - 1 \in Nat /\ n = (n - 1) + 1
    BY <1>2
  <2> QED BY <1>1, <2>1 DEF Hi!Steps
<1>4. PICK f \in Int, l \in Int : f = Hi!First(d) /\ l = Hi!Last(d)
  <2>1. 1 \in 1..n /\ n \in 1..n
    BY <1>2
  <2> QED BY <1>1, <1>2, <2>1, DatasetIs
<1>5. grid = {t \in f..l : (t - f) % Step = 0}
  BY <1>4
<1>6. \A i \in 1..n : \E q \in Int : Hi!At(d, i) - f = q * Step
  <2>1. ASSUME NEW i \in 1..n PROVE \E q \in Int : Hi!At(d, i) - f = q * Step
    <3>1. PICK t \in Int : t = Hi!At(d, i)
      BY <1>1, DatasetIs
    <3>2. t \in grid
      BY <1>1, <3>1 DEF Hi!TimesOf
    <3>3. (t - f) % Step = 0 /\ t - f \in Int
      BY <1>5, <3>2
    <3> QED BY <3>1, <3>3, ExactlyOnGrid, HistoryGiven
  <2> QED BY <2>1
<1>7. PICK q \in [1..n -> Int] : \A i \in 1..n : Hi!At(d, i) - f = q[i] * Step
  <2> DEFINE g == [i \in 1..n |-> CHOOSE x \in Int : Hi!At(d, i) - f = x * Step]
  <2>1. \A i \in 1..n : g[i] \in Int /\ Hi!At(d, i) - f = g[i] * Step
    BY <1>6
  <2>2. g \in [1..n -> Int]
    <3> HIDE DEF g
    <3>1. g = [i \in 1..n |-> g[i]]
      BY DEF g
    <3> QED BY <2>1, <3>1
  <2> HIDE DEF g
  <2> QED BY <2>1, <2>2
<1>8. \A i \in 1..n : q[i] \in Int /\ Hi!At(d, i) \in Int /\ q[i] * Step \in Int
  <2>1. ASSUME NEW i \in 1..n PROVE q[i] \in Int /\ Hi!At(d, i) \in Int
    BY <1>1, DatasetIs
  <2>2. \A x \in Int : x * Step \in Int
    BY HistoryGiven
  <2> QED BY <2>1, <2>2
<1>9. \A i \in 1..n : Hi!At(d, i) = f + q[i] * Step
  BY <1>7, <1>8
<1>10. q[1] = 0
  <2>1. 1 \in 1..n /\ Hi!At(d, 1) = f
    BY <1>2, <1>4
  <2>2. q[1] * Step = 0 * Step /\ q[1] \in Int
    BY <1>7, <1>8, <2>1, HistoryGiven
  <2>3. q[1] <= 0 /\ 0 <= q[1]
    <3>1. q[1] * Step <= 0 * Step /\ 0 * Step <= q[1] * Step
      BY <2>2, HistoryGiven
    <3> QED BY <2>2, <3>1, TimesMore, HistoryGiven
  <2> QED BY <2>2, <2>3
<1>11. ASSUME NEW i \in 1..m
       PROVE  q[i + 1] - q[i] \in Nat \ {0} /\ Hi!Between(Hi!At(d, i), Hi!At(d, i + 1)) = q[i + 1] - q[i] - 1
  <2>1. i \in 1..n /\ i + 1 \in 1..n /\ i < i + 1
    BY <1>3
  <2>2. PICK a \in Int, b \in Int, x \in Int, y \in Int :
          a = Hi!At(d, i) /\ b = Hi!At(d, i + 1) /\ x = q[i] /\ y = q[i + 1]
    BY <1>8, <2>1
  <2>3. a < b
    BY <1>1, <2>1, <2>2, OneByOne
  <2>4. a = f + x * Step /\ b = f + y * Step
    BY <1>9, <2>1, <2>2
  <2>5. PICK c \in Int, e \in Int : c = x * Step /\ e = y * Step
    BY HistoryGiven
  <2>6. c < e
    BY <2>3, <2>4, <2>5
  <2>7. x < y
    BY <2>5, <2>6, TimesMore, HistoryGiven
  <2>8. PICK k \in Nat \ {0} : k = y - x
    BY <2>7
  <2>9. k * Step = e - c
    BY <2>5, <2>8, HistoryGiven
  <2>10. b - a = k * Step
    BY <2>4, <2>5, <2>9
  <2>11. Hi!Between(a, b) = k - 1
    BY <2>10, BetweenIs
  <2> QED BY <2>2, <2>8, <2>11
<1>12. PICK v : v = [i \in 1..m |-> Hi!Between(Hi!At(d, i), Hi!At(d, i + 1))]
  OBVIOUS
<1>13. v \in [1..m -> Int] /\ \A i \in 1..m : v[i] = q[i + 1] - q[i] - 1
  <2>1. \A i \in 1..m : q[i + 1] - q[i] - 1 \in Int
    BY <1>11
  <2> QED BY <1>11, <1>12, <2>1
<1>14. Hi!MissingBars(d) = Sum(v, 1..m)
  BY <1>3, <1>12, HiOver DEF Hi!MissingBars
<1>15. Sum(v, 1..m) = q[n] - m
  <2>1. Summed(1..m, v)
    BY <1>13, AllSummed, FS_Interval
  <2> DEFINE Good == {k \in 0..m : Sum(v, 1..k) = q[k + 1] - k}
  <2>2. 0 \in Good
    <3>1. 1..0 = {} /\ 0 \in 0..m /\ 0 + 1 = 1
      OBVIOUS
    <3>2. Sum(v, {}) = 0
      BY <2>1 DEF Summed
    <3> QED BY <1>10, <3>1, <3>2
  <2>3. ASSUME NEW k \in 0..(m - 1), k \in Good PROVE k + 1 \in Good
    <3>1. /\ k + 1 \in 1..m /\ k + 1 \in 0..m /\ k + 1 \in 1..(k + 1)
          /\ (1..(k + 1)) \ {k + 1} = 1..k /\ 1..(k + 1) \in SUBSET (1..m)
      OBVIOUS
    <3>2. Sum(v, 1..(k + 1)) = v[k + 1] + Sum(v, (1..(k + 1)) \ {k + 1})
      BY <2>1, <3>1 DEF Summed
    <3>3. Sum(v, 1..k) = q[k + 1] - k
      BY <2>3
    <3>4. v[k + 1] = q[(k + 1) + 1] - q[k + 1] - 1
      BY <1>13, <3>1
    <3>5. q[k + 1] \in Int /\ q[(k + 1) + 1] \in Int
      <4>1. k + 1 \in 1..n /\ (k + 1) + 1 \in 1..n
        BY <1>3
      <4> QED BY <1>8, <4>1
    <3>6. Sum(v, 1..(k + 1)) = q[(k + 1) + 1] - (k + 1)
      <4>1. PICK x \in Int, y \in Int : x = q[k + 1] /\ y = q[(k + 1) + 1]
        BY <3>5
      <4>2. Sum(v, 1..(k + 1)) = (y - x - 1) + (x - k)
        BY <3>1, <3>2, <3>3, <3>4, <4>1
      <4>3. (y - x - 1) + (x - k) = y - (k + 1)
        OBVIOUS
      <4> QED BY <4>1, <4>2, <4>3, Zenon
    <3> QED BY <3>1, <3>6
  <2>4. 0..m \subseteq Good
    <3> HIDE DEF Good
    <3> QED BY <2>2, <2>3, StepInduction
  <2>5. m \in Good
    <3> HIDE DEF Good
    <3> QED BY <2>4
  <2> QED BY <1>3, <2>5
<1>16. PICK k \in Nat : k = q[n] /\ l = f + k * Step
  <2>1. n \in 1..n
    BY <1>2
  <2>2. PICK x \in Int : x = q[n] /\ l = f + x * Step
    BY <1>2, <1>4, <1>9, <2>1
  <2>3. f <= l
    <3>1. 1 \in 1..n
      BY <1>2
    <3>2. n # 1 => Hi!At(d, 1) < Hi!At(d, n)
      <4>1. n # 1 => 1 < n
        BY <1>2
      <4> QED BY <1>1, <2>1, <3>1, <4>1, OneByOne
    <3> QED BY <1>2, <1>4, <3>2
  <2>4. 0 * Step <= x * Step
    <3>1. x * Step \in Int /\ 0 * Step = 0
      BY HistoryGiven
    <3> QED BY <2>2, <2>3, <3>1
  <2>5. 0 <= x
    BY <2>4, TimesMore, HistoryGiven
  <2> QED BY <2>2, <2>5
<1>17. grid = {f + x * Step : x \in 0..k}
  <2>1. ASSUME NEW t \in grid PROVE \E x \in 0..k : t = f + x * Step
    <3>1. t \in Int /\ f <= t /\ t <= l /\ (t - f) % Step = 0 /\ t - f \in Int
      BY <1>5
    <3>2. PICK x \in Int : t - f = x * Step
      BY <3>1, ExactlyOnGrid, HistoryGiven
    <3>3. PICK y \in Int, z \in Int : y = x * Step /\ z = k * Step
      BY HistoryGiven
    <3>4. t = f + y /\ 0 <= y /\ y <= z
      BY <1>16, <3>1, <3>2, <3>3, SMTT(30)
    <3>5. 0 * Step <= x * Step /\ x * Step <= k * Step
      BY <3>3, <3>4, HistoryGiven
    <3>6. 0 <= x /\ x <= k
      BY <3>5, TimesMore, HistoryGiven
    <3> QED BY <3>3, <3>4, <3>6
  <2>2. ASSUME NEW x \in 0..k PROVE f + x * Step \in grid
    <3>1. PICK y \in Int, z \in Int : y = x * Step /\ z = k * Step
      BY HistoryGiven
    <3>2. 0 * Step <= x * Step /\ x * Step <= k * Step
      BY TimesMore, HistoryGiven
    <3>3. 0 <= y /\ y <= z
      BY <3>1, <3>2, HistoryGiven
    <3>4. (f + y) - f = y /\ y % Step = 0
      <4>1. y % Step = 0 <=> \E e \in Int : y = e * Step
        BY ExactlyOnGrid, HistoryGiven
      <4> QED BY <3>1, <4>1
    <3>5. f + y \in f..l
      BY <1>16, <3>1, <3>3
    <3> QED BY <1>5, <3>1, <3>4, <3>5
  <2> QED BY <2>1, <2>2
<1>18. IsFiniteSet(grid) /\ Cardinality(grid) = k + 1
  <2>1. \A s \in Nat \ {0} : /\ IsFiniteSet({f + x * s : x \in 0..k})
                             /\ Cardinality({f + x * s : x \in 0..k}) = k + 1
    BY GridHas
  <2>2. Step \in Nat \ {0}
    BY HistoryGiven
  <2> QED BY <1>17, <2>1, <2>2, Zenon
<1>19. Hi!MissingBars(d) = k - m
  BY <1>14, <1>15, <1>16
<1>20. Cardinality(Hi!TimesOf(d)) = n
  BY <1>1, HiCount DEF Hi!StructurallyOk
<1>21. Cardinality(grid \ Hi!TimesOf(d)) = (k + 1) - n
  <2>1. PICK T : T = Hi!TimesOf(d) /\ grid \cap T = T
    OBVIOUS
  <2>2. Cardinality(grid \ T) = Cardinality(grid) - Cardinality(grid \cap T)
    BY <1>18, FS_Difference
  <2> QED BY <1>18, <1>20, <2>1, <2>2
<1> QED BY <1>1, <1>3, <1>18, <1>19, <1>21

LEMMA AdmittedAreSound ==
  ASSUME NEW d \in Datasets, Hi!StructurallyOk(d), d.bars # <<>>, Hi!CoverageGate(d),
         NEW grid, grid = {t \in Hi!First(d)..Hi!Last(d) : (t - Hi!First(d)) % Step = 0}
  PROVE  /\ Hi!Last(d) <= d.fetched
         /\ Hi!TimesOf(d) \subseteq grid =>
              100 * Cardinality(grid \ Hi!TimesOf(d)) <= MissingPercent * Cardinality(grid)
<1>1. PICK n \in Nat : n = Len(d.bars) /\ DOMAIN d.bars = 1..n /\ n >= 1 /\ Hi!Last(d) = Hi!At(d, n)
  BY DatasetIs, EndsAre
<1>2. Hi!Last(d) <= d.fetched
  <2>1. n \in DOMAIN d.bars
    BY <1>1
  <2> QED BY <1>1, <2>1 DEF Hi!StructurallyOk
<1>3. ASSUME Hi!TimesOf(d) \subseteq grid
      PROVE  100 * Cardinality(grid \ Hi!TimesOf(d)) <= MissingPercent * Cardinality(grid)
  <2>1. /\ Cardinality(grid) = Len(d.bars) + Hi!MissingBars(d)
        /\ Cardinality(grid \ Hi!TimesOf(d)) = Hi!MissingBars(d)
    BY <1>3, MissingOfGrid
  <2> QED BY <2>1 DEF Hi!CoverageGate
<1> QED BY <1>2, <1>3

(* Multiples passed between two times, against a division of the time.       *)
LEMMA MultiplesBetween ==
  ASSUME NEW a \in Int, NEW b \in Int, NEW s \in Nat \ {0}, a <= b,
         NEW p \in Int, p * s <= a, a < p * s + s,
         NEW q \in Int, q * s <= b, b < q * s + s,
         NEW e \in Int, e * s <= b - a, b - a < e * s + s
  PROVE  q - p <= e + 1 /\ p <= q /\ 0 <= e
<1>1. PICK x \in Int, y \in Int, z \in Int : x = p * s /\ y = q * s /\ z = e * s
  OBVIOUS
<1>2. /\ x <= a /\ a < x + s /\ y <= b /\ b < y + s /\ z <= b - a /\ b - a < z + s
  BY <1>1
<1>3. y - x < z + 2 * s /\ x < y + s /\ 0 < z + s
  BY <1>2
<1>4. /\ (q - p) * s = y - x /\ (e + 2) * s = z + 2 * s /\ (q + 1) * s = y + s
      /\ (e + 1) * s = z + s /\ 0 * s = 0
  BY <1>1
<1>5. (q - p) * s < (e + 2) * s /\ p * s < (q + 1) * s /\ 0 * s < (e + 1) * s
  <2>1. (q - p) * s < (e + 2) * s
    BY <1>3, <1>4, Zenon
  <2>2. p * s < (q + 1) * s
    BY <1>1, <1>3, <1>4, Zenon
  <2>3. 0 * s < (e + 1) * s
    BY <1>3, <1>4, Zenon
  <2> QED BY <2>1, <2>2, <2>3
<1>6. q - p < e + 2 /\ p < q + 1 /\ 0 < e + 1
  BY <1>5, TimesMore
<1> QED BY <1>6

(* The settlements due, counted: one more than expected at most.             *)
LEMMA SettlementsDue ==
  ASSUME NEW d \in Datasets, d.bars # <<>>, Hi!StructurallyOk(d), Hi!FundingReady(d)
  PROVE  100 * Cardinality(Hi!Due(d) \ d.funding)
           <= FundingPercent * Hi!ExpectedSettlements(d) + 100
<1>1. PICK a \in Int, b \in Int : a = Hi!First(d) /\ b = Hi!Last(d) /\ a <= b
  <2>1. PICK n \in Nat : n = Len(d.bars) /\ DOMAIN d.bars = 1..n
    BY DatasetIs
  <2>2. n >= 1 /\ Hi!First(d) = Hi!At(d, 1) /\ Hi!Last(d) = Hi!At(d, n)
    BY <2>1, EndsAre
  <2>3. 1 \in 1..n /\ n \in 1..n
    BY <2>2
  <2>4. Hi!At(d, 1) \in Int /\ Hi!At(d, n) \in Int
    BY <2>1, <2>3, DatasetIs
  <2>5. n # 1 => Hi!At(d, 1) < Hi!At(d, n)
    <3>1. n # 1 => 1 < n
      BY <2>2
    <3> QED BY <2>1, <2>3, <3>1, OneByOne
  <2> QED BY <2>2, <2>4, <2>5
<1>2. PICK s \in Nat \ {0} : s = SettleEvery
  BY HistoryGiven
<1>3. PICK p \in Int : p = a \div s /\ p * s <= a /\ a < p * s + s
  BY DivIs
<1>4. PICK q \in Int : q = b \div s /\ q * s <= b /\ b < q * s + s
  BY DivIs
<1>5. PICK e \in Int : e = (b - a) \div s /\ e * s <= b - a /\ b - a < e * s + s
  BY DivIs
<1>6. Hi!ExpectedSettlements(d) = e
  BY <1>1, <1>2, <1>5 DEF Hi!ExpectedSettlements
<1>7. q - p <= e + 1 /\ p <= q /\ 0 <= e
  <2>1. /\ p * s <= a /\ a < p * s + s /\ q * s <= b /\ b < q * s + s
        /\ e * s <= b - a /\ b - a < e * s + s
    BY <1>3, <1>4, <1>5
  <2> QED BY <1>1, <2>1, MultiplesBetween
<1> DEFINE Due == Hi!Due(d)
           In == Hi!FundingInRange(d)
           Numbers == (p + 1)..q
<1>8. IsFiniteSet(Due) /\ Cardinality(Due) <= e + 1 /\ Cardinality(Due) \in Nat
  <2>1. \A t \in Due : t \in Int /\ t \div s \in Numbers /\ t = (t \div s) * s
    <3>1. SUFFICES ASSUME NEW t \in Due PROVE t \in Int /\ t \div s \in Numbers /\ t = (t \div s) * s
      OBVIOUS
    <3>2. t \in Int /\ t % s = 0 /\ a < t /\ t <= b
      BY <1>1, <1>2, HistoryGiven DEF Hi!Due, Hi!Settlements, Hi!Times
    <3>3. PICK k \in Int : k = t \div s /\ k * s <= t /\ t < k * s + s
      BY <3>2, DivIs
    <3>4. PICK j \in Int : t = j * s
      BY <3>2, ExactlyOnGrid
    <3>5. (k + 1) * s = k * s + s /\ (q + 1) * s = q * s + s
      BY <1>2
    <3>6. k <= j /\ j < k + 1
      BY <3>3, <3>4, <3>5, TimesMore
    <3>7. k = j
      BY <3>6
    <3>8. p * s < k * s /\ k * s < (q + 1) * s
      <4>1. PICK x \in Int, y \in Int, z \in Int : x = p * s /\ y = q * s /\ z = k * s
        OBVIOUS
      <4>2. t = z /\ x <= a /\ b < y + s /\ (q + 1) * s = y + s
        BY <1>3, <1>4, <3>4, <3>5, <3>7, <4>1
      <4>3. x < z /\ z < y + s
        BY <3>2, <4>1, <4>2
      <4> QED BY <4>1, <4>2, <4>3, Zenon
    <3>9. p < k /\ k < q + 1
      BY <3>8, TimesMore
    <3> QED BY <3>2, <3>3, <3>4, <3>7, <3>9
  <2>2. IsFiniteSet(Numbers) /\ Cardinality(Numbers) = IF p + 1 > q THEN 0 ELSE q - (p + 1) + 1
    <3>1. p + 1 \in Int /\ q \in Int
      OBVIOUS
    <3> QED BY <3>1, FS_Interval, Zenon
  <2>3. Cardinality(Numbers) <= e + 1 /\ Cardinality(Numbers) \in Nat
    BY <1>7, <2>2
  <2>4. PICK f : f = [t \in Due |-> t \div s]
    OBVIOUS
  <2>5. f \in Injection(Due, Numbers)
    <3>1. f \in [Due -> Numbers]
      BY <2>1, <2>4
    <3>2. \A t, u \in Due : f[t] = f[u] => t = u
      BY <2>1, <2>4
    <3> QED BY <3>1, <3>2 DEF Injection, IsInjective
  <2>6. IsFiniteSet(Due) /\ Cardinality(Due) <= Cardinality(Numbers)
    BY <2>2, <2>5, FS_Injection
  <2>7. Cardinality(Due) \in Nat
    BY <2>6, FS_CardinalityType
  <2> QED BY <2>3, <2>6, <2>7
<1>9. /\ IsFiniteSet(In) /\ Cardinality(In) \in Nat
      /\ Cardinality(Due \ d.funding) = Cardinality(Due) - Cardinality(In)
      /\ Cardinality(Due \ d.funding) \in Nat
  <2>1. In = Due \cap d.funding /\ Due \ d.funding = Due \ In
    <3>1. d.funding \subseteq Hi!Settlements
      BY DEF Datasets
    <3> QED BY <3>1 DEF Hi!Due, Hi!FundingInRange
  <2>2. In = Due \cap In
    BY <2>1
  <2> HIDE DEF Due, In
  <2>3. IsFiniteSet(In)
    BY <1>8, <2>1, FS_Subset
  <2>4. Cardinality(Due \ In) = Cardinality(Due) - Cardinality(Due \cap In) /\ IsFiniteSet(Due \ In)
    BY <1>8, FS_Difference
  <2>5. Cardinality(In) \in Nat /\ Cardinality(Due \ In) \in Nat
    BY <2>3, <2>4, FS_CardinalityType
  <2> QED BY <2>1, <2>2, <2>3, <2>4, <2>5
<1>10. PICK x \in Nat, y \in Nat :
         x = Cardinality(Due) /\ y = Cardinality(In) /\ x <= e + 1
         /\ Cardinality(Due \ d.funding) = x - y /\ x - y \in Nat
  BY <1>8, <1>9
<1>11. PICK m \in Int : m = Hi!FundingMissing(d) /\ m >= e - y /\ m >= 0
  <2>1. Hi!FundingMissing(d) = Hi!Max({0, e - y})
    BY <1>6, <1>10, HiCount DEF Hi!FundingMissing
  <2>2. PICK z \in Int : z = e - y
    OBVIOUS
  <2>3. IsFiniteSet({0, z}) /\ {0, z} # {} /\ \A v \in {0, z} : v \in Int
    <3>1. {0, z} = {0} \union {z}
      OBVIOUS
    <3>2. IsFiniteSet({0} \union {z})
      BY FS_Singleton, FS_AddElement
    <3>3. IsFiniteSet({0, z})
      BY <3>1, <3>2, Zenon
    <3>4. {0, z} # {}
      OBVIOUS
    <3>5. 0 \in Int /\ \A v : v \in {0, z} => v = 0 \/ v = z
      OBVIOUS
    <3>6. \A v \in {0, z} : v \in Int
      BY <3>5, <2>2, Zenon
    <3> QED BY <3>3, <3>4, <3>6
  <2>4. Hi!Max({0, z}) \in {0, z} /\ \A v \in {0, z} : v <= Hi!Max({0, z})
    BY <2>3, HiMax
  <2> QED BY <2>1, <2>2, <2>4
<1>12. PICK w \in Nat : w = FundingPercent * e
  BY <1>7, HistoryGiven
<1>13. 100 * (x - y) <= w + 100
  <2>1. CASE e = 0
    BY <1>10, <1>12, <2>1
  <2>2. CASE e # 0
    <3>1. 100 * m <= w
      BY <1>6, <1>7, <1>11, <1>12, <2>2 DEF Hi!FundingReady
    <3> QED BY <1>10, <1>11, <3>1
  <2> QED BY <2>1, <2>2
<1> QED BY <1>6, <1>10, <1>12, <1>13

-----------------------------------------------------------------------------
HistoryInv ==
  /\ source \in {"candles", "funding", "ready"}
  /\ history \in [bars : SUBSET Hi!Times, funding : SUBSET Hi!Settlements]
  /\ cursor \in 0..Horizon /\ collected \subseteq Hi!Times /\ dataset \in Datasets
  /\ source = "candles" => Paged(history.bars, MaxCandles)
  /\ source = "funding" => Paged(history.funding, FundingLimit)
  /\ source # "candles" /\ history.bars # {} =>
       /\ Hi!TimesOf(dataset) = Hi!Newest(history.bars, MaxCandles)
       /\ \A i \in Hi!Steps(dataset) : Hi!At(dataset, i) < Hi!At(dataset, i + 1)
  /\ source = "ready" /\ history.bars # {} =>
       dataset.funding = Hi!Newest(history.funding, FundingLimit)

LEMMA PagedAtFirst ==
  ASSUME NEW S \in SUBSET (1..Horizon), NEW want \in Nat, cursor = Horizon, collected = {}
  PROVE  Paged(S, want)
<1>1. \A t \in S : t \in Int /\ t <= Horizon
  BY HistoryGiven
<1>2. cursor \in 0..Horizon /\ Horizon \in Int
  BY HistoryGiven
<1>3. \A t \in S : ~(t > cursor)
  BY <1>1, <1>2
<1> QED BY <1>2, <1>3, FS_EmptySet DEF Paged

LEMMA HistoryBegins == Hi!Init => HistoryInv
<1> SUFFICES ASSUME Hi!Init PROVE HistoryInv
  OBVIOUS
<1>1. collected = {} /\ cursor = Horizon /\ cursor \in 0..Horizon
  BY HistoryGiven DEF Hi!Init
<1>2. Horizon \in Hi!Times
  BY HistoryGiven DEF Hi!Times
<1>3. CASE source = "candles"
  <2>1. /\ history \in [bars : SUBSET Hi!Times, funding : SUBSET Hi!Settlements]
        /\ dataset = [bars |-> <<>>, funding |-> {}, fetched |-> Horizon]
    BY <1>3 DEF Hi!Init
  <2>2. dataset \in Datasets
    BY <1>2, <2>1 DEF Datasets
  <2>3. history.bars \in SUBSET (1..Horizon)
    BY <2>1 DEF Hi!Times
  <2>4. Paged(history.bars, MaxCandles)
    BY <1>1, <2>3, PagedAtFirst, HistoryGiven
  <2> QED BY <1>1, <1>3, <2>1, <2>2, <2>4 DEF HistoryInv
<1>4. CASE source # "candles"
  <2>1. /\ source = "ready" /\ history = [bars |-> {}, funding |-> {}]
        /\ dataset \in [bars : UNION {[1..n -> Hi!Bars] : n \in 1..MaxSupplied},
                        funding : SUBSET Hi!Settlements, fetched : {Horizon - 1, Horizon}]
    BY <1>4 DEF Hi!Init
  <2>2. PICK n \in 1..MaxSupplied : dataset.bars \in [1..n -> Hi!Bars]
    BY <2>1
  <2>3. n \in Nat
    BY HistoryGiven
  <2>4. dataset.bars \in Seq(Hi!Bars)
    BY <2>2, <2>3
  <2>5. dataset.fetched \in Hi!Times /\ dataset.funding \in SUBSET Hi!Settlements
    BY <2>1, HistoryGiven DEF Hi!Times
  <2>6. dataset = [bars |-> dataset.bars, funding |-> dataset.funding, fetched |-> dataset.fetched]
    BY <2>1
  <2>7. dataset \in Datasets
    BY <2>4, <2>5, <2>6 DEF Datasets
  <2>8. history \in [bars : SUBSET Hi!Times, funding : SUBSET Hi!Settlements] /\ history.bars = {}
    BY <2>1
  <2> QED BY <1>1, <2>1, <2>7, <2>8 DEF HistoryInv
<1> QED BY <1>3, <1>4

(* What the candle loop ends with, as bars. *)
FetchedBars(S) == [i \in 1..Hi!Cardinality(S) |-> Hi!PlainBar(Hi!Sorted(S)[i])]

LEMMA BarsAreFetched ==
  ASSUME NEW S \in SUBSET (1..Horizon), NEW d \in Datasets,
         d.bars = FetchedBars(S)
  PROVE  /\ Hi!TimesOf(d) = S
         /\ \A i \in Hi!Steps(d) : Hi!At(d, i) < Hi!At(d, i + 1)
<1>1. IsFiniteSet(S) /\ S \in SUBSET Int
  BY TimesAre
<1>2. PICK n \in Nat : n = Cardinality(S)
  BY <1>1, FS_CardinalityType
<1>3. PICK s \in [1..n -> S] :
        /\ s = Hi!Sorted(S)
        /\ \A i, j \in 1..n : i < j => s[i] < s[j]
        /\ \A t \in S : \E i \in 1..n : s[i] = t
  <2>1. /\ Hi!Sorted(S) \in [1..n -> S]
        /\ \A i, j \in 1..n : i < j => Hi!Sorted(S)[i] < Hi!Sorted(S)[j]
        /\ \A t \in S : \E i \in 1..n : Hi!Sorted(S)[i] = t
    BY <1>1, <1>2, RanksInOrder
  <2> QED BY <2>1
<1>4. PICK b : b = [i \in 1..n |-> Hi!PlainBar(s[i])]
  OBVIOUS
<1>5. d.bars = b
  BY <1>2, <1>3, <1>4, HiCount DEF FetchedBars
<1>6. DOMAIN b = 1..n /\ Len(d.bars) = n
  <2>1. DOMAIN b = 1..n
    BY <1>4
  <2>2. PICK k \in Nat : k = Len(d.bars) /\ DOMAIN d.bars = 1..k
    BY DatasetIs
  <2>3. 1..k = 1..n
    BY <1>5, <2>1, <2>2
  <2>4. k = n
    BY <2>3
  <2> QED BY <2>1, <2>2, <2>4
<1>7. ASSUME NEW i \in 1..n PROVE Hi!At(d, i) = s[i]
  <2>1. b[i] = Hi!PlainBar(s[i])
    BY <1>4
  <2> QED BY <1>5, <2>1 DEF Hi!At, Hi!PlainBar
<1>8. Hi!TimesOf(d) = S
  <2>1. \A t : t \in Hi!TimesOf(d) <=> \E i \in 1..n : t = s[i]
    BY <1>5, <1>6, <1>7 DEF Hi!TimesOf
  <2>2. \A i \in 1..n : s[i] \in S
    OBVIOUS
  <2>3. \A t : t \in Hi!TimesOf(d) <=> t \in S
    <3>1. ASSUME NEW t \in Hi!TimesOf(d) PROVE t \in S
      <4>1. PICK i \in 1..n : t = s[i]
        BY <2>1
      <4> QED BY <2>2, <4>1
    <3>2. ASSUME NEW t \in S PROVE t \in Hi!TimesOf(d)
      <4>1. PICK i \in 1..n : s[i] = t
        BY <1>3
      <4> QED BY <2>1, <4>1
    <3> QED BY <3>1, <3>2
  <2> QED BY <2>3
<1>9. ASSUME NEW i \in Hi!Steps(d) PROVE Hi!At(d, i) < Hi!At(d, i + 1)
  <2>1. i \in 1..n /\ i + 1 \in 1..n /\ i < i + 1
    BY <1>6 DEF Hi!Steps
  <2> QED BY <1>3, <1>7, <2>1
<1> QED BY <1>8, <1>9

LEMMA FetchedBarsAre ==
  ASSUME NEW S \in SUBSET (1..Horizon)
  PROVE  FetchedBars(S) \in Seq(Hi!Bars)
<1>1. IsFiniteSet(S) /\ S \in SUBSET Int
  BY TimesAre
<1>2. PICK n \in Nat : n = Cardinality(S) /\ n = Hi!Cardinality(S)
  BY <1>1, FS_CardinalityType, HiCount
<1>3. \A i \in 1..n : Hi!Sorted(S)[i] \in S
  BY <1>1, <1>2, RanksInOrder
<1>4. \A t \in S : Hi!PlainBar(t) \in Hi!Bars
  BY DEF Hi!PlainBar, Hi!Bars, Hi!Times
<1>5. \A i \in 1..n : Hi!PlainBar(Hi!Sorted(S)[i]) \in Hi!Bars
  BY <1>3, <1>4
<1> QED BY <1>2, <1>5 DEF FetchedBars

LEMMA HistoryGoesOn ==
  ASSUME HistoryInv, [Hi!Next]_(Hi!vars)
  PROVE  HistoryInv'
<1>1. /\ history.bars \in SUBSET (1..Horizon) /\ history.funding \in SUBSET (1..Horizon)
      /\ history.funding \in SUBSET Hi!Settlements
      /\ history.bars \in SUBSET Hi!Times
  BY DEF HistoryInv, Hi!Times, Hi!Settlements
<1>2. CASE Hi!CandlePage
  <2>1. source = "candles" /\ history' = history /\ Paged(history.bars, MaxCandles)
    BY <1>2, CandlesDo DEF HistoryInv
  <2>2. CASE PagesOn(history.bars, MaxCandles, PageSize) /\ UNCHANGED <<source, dataset>>
    <3>1. Paged(history.bars, MaxCandles)'
      <4>1. \A S \in SUBSET (1..Horizon) :
              Paged(S, MaxCandles) /\ PagesOn(S, MaxCandles, PageSize) => Paged(S, MaxCandles)'
        BY StaysPaged, HistoryGiven
      <4>2. PICK S \in SUBSET (1..Horizon) : S = history.bars
        BY <1>1
      <4>3. Paged(S, MaxCandles)'
        BY <2>1, <2>2, <4>1, <4>2
      <4> QED BY <2>1, <4>2, <4>3 DEF Paged
    <3> QED BY <1>1, <2>1, <2>2, <3>1 DEF HistoryInv, Paged
  <2>3. ASSUME NEW got, Ends(history.bars, MaxCandles, PageSize, got),
               dataset' = [dataset EXCEPT !.bars =
                             [i \in 1..Hi!Cardinality(got) |-> Hi!PlainBar(Hi!Sorted(got)[i])]],
               source' = "funding", collected' = {}, cursor' = Horizon
        PROVE  HistoryInv'
    <3>1. got = Hi!Newest(history.bars, MaxCandles)
      BY <1>1, <2>1, <2>3, EndsWithNewest, HistoryGiven
    <3>2. got \in SUBSET (1..Horizon)
      BY <1>1, <3>1 DEF Hi!Newest
    <3>3. PICK b : b = FetchedBars(got)
      OBVIOUS
    <3>4. b \in Seq(Hi!Bars)
      BY <3>2, <3>3, FetchedBarsAre
    <3>5. dataset' \in Datasets /\ dataset'.bars = b
      <4>1. dataset' = [dataset EXCEPT !.bars = b]
        BY <2>3, <3>3 DEF FetchedBars
      <4> QED BY <3>4, <4>1 DEF HistoryInv, Datasets
    <3>6. PICK d \in Datasets : d = dataset' /\ d.bars = b
      BY <3>5
    <3>7. /\ Hi!TimesOf(d) = got
          /\ \A i \in Hi!Steps(d) : Hi!At(d, i) < Hi!At(d, i + 1)
      BY <3>2, <3>3, <3>6, BarsAreFetched
    <3>8. Paged(history.funding, FundingLimit)'
      <4>1. \A t \in history.funding : t \in Int /\ t <= Horizon /\ ~(t > Horizon)
        BY <1>1, HistoryGiven
      <4> QED BY <2>1, <2>3, <4>1, FS_EmptySet, HistoryGiven DEF Paged
    <3>9. Horizon \in 0..Horizon
      BY HistoryGiven
    <3>10. /\ (Hi!TimesOf(dataset) = Hi!Newest(history.bars, MaxCandles))'
           /\ (\A i \in Hi!Steps(dataset) : Hi!At(dataset, i) < Hi!At(dataset, i + 1))'
      BY <2>1, <3>1, <3>6, <3>7 DEF Hi!TimesOf, Hi!Steps, Hi!At, Hi!Newest
    <3> QED BY <2>1, <2>3, <3>5, <3>8, <3>9, <3>10 DEF HistoryInv
  <2> QED BY <1>2, <2>2, <2>3, CandlesDo
<1>3. CASE Hi!FundingPage
  <2>1. source = "funding" /\ history' = history /\ Paged(history.funding, FundingLimit)
    BY <1>3, FundingDoes DEF HistoryInv
  <2>2. CASE PagesOn(history.funding, FundingLimit, FundingLimit) /\ UNCHANGED <<source, dataset>>
    <3>1. Paged(history.funding, FundingLimit)'
      <4>1. \A S \in SUBSET (1..Horizon) :
              Paged(S, FundingLimit) /\ PagesOn(S, FundingLimit, FundingLimit) => Paged(S, FundingLimit)'
        BY StaysPaged, HistoryGiven
      <4>2. PICK S \in SUBSET (1..Horizon) : S = history.funding
        BY <1>1
      <4>3. Paged(S, FundingLimit)'
        BY <2>1, <2>2, <4>1, <4>2
      <4> QED BY <2>1, <4>2, <4>3 DEF Paged
    <3>2. collected' \subseteq Hi!Times /\ cursor' \in 0..Horizon
      BY <1>1, <2>1, <3>1 DEF Paged, Hi!Times
    <3>3. (Hi!TimesOf(dataset) = Hi!Newest(history.bars, MaxCandles))'
            <=> Hi!TimesOf(dataset) = Hi!Newest(history.bars, MaxCandles)
      BY <2>1, <2>2
    <3> QED BY <2>1, <2>2, <3>1, <3>2, <3>3 DEF HistoryInv
  <2>3. ASSUME NEW got, Ends(history.funding, FundingLimit, FundingLimit, got),
               dataset' = [dataset EXCEPT !.funding = got],
               source' = "ready", collected' = {}, cursor' = cursor
        PROVE  HistoryInv'
    <3>1. got = Hi!Newest(history.funding, FundingLimit)
      BY <1>1, <2>1, <2>3, EndsWithNewest, HistoryGiven
    <3>2. got \in SUBSET Hi!Settlements
      BY <1>1, <3>1 DEF Hi!Newest
    <3>3. dataset' \in Datasets /\ dataset'.bars = dataset.bars /\ dataset'.funding = got
      BY <2>3, <3>2 DEF HistoryInv, Datasets
    <3>4. /\ history.bars # {} => (Hi!TimesOf(dataset) = Hi!Newest(history.bars, MaxCandles))'
          /\ history.bars # {} =>
               (\A i \in Hi!Steps(dataset) : Hi!At(dataset, i) < Hi!At(dataset, i + 1))'
      BY <2>1, <3>3 DEF HistoryInv, Hi!TimesOf, Hi!Steps, Hi!At, Hi!Newest
    <3>5. (dataset.funding = Hi!Newest(history.funding, FundingLimit))'
      BY <2>1, <3>1, <3>3 DEF Hi!Newest
    <3> QED BY <2>1, <2>3, <3>3, <3>4, <3>5 DEF HistoryInv
  <2> QED BY <1>3, <2>2, <2>3, FundingDoes
<1>4. CASE UNCHANGED Hi!vars
  BY <1>4 DEF Hi!vars, HistoryInv, Paged, Hi!TimesOf, Hi!Steps, Hi!At, Hi!Newest
<1> QED BY <1>2, <1>3, <1>4 DEF Hi!Next

LEMMA HistoryInvHolds == Hi!Spec => []HistoryInv
BY HistoryBegins, HistoryGoesOn, PTL DEF Hi!Spec

LEMMA HistoryDo ==
  HistoryInv =>
    Hi!TypeOK /\ Hi!FetchLosesNothing /\ Hi!AdmittedIsSound /\ Hi!SettlementsChargedInPlace
<1> SUFFICES ASSUME HistoryInv
             PROVE  Hi!TypeOK /\ Hi!FetchLosesNothing /\ Hi!AdmittedIsSound
                    /\ Hi!SettlementsChargedInPlace
  OBVIOUS
<1>1. dataset \in Datasets
  BY DEF HistoryInv
<1>2. Hi!TypeOK
  BY <1>1, DatasetIs DEF HistoryInv, Hi!TypeOK, Datasets
<1>3. Hi!FetchLosesNothing
  BY DEF HistoryInv, Hi!FetchLosesNothing, Hi!Fetched
<1>4. Hi!AdmittedIsSound
  <2>1. ASSUME Hi!Ready, Hi!StructurallyOk(dataset), Hi!CoverageGate(dataset), Hi!WickSpikeGate(dataset),
               NEW grid,
               grid = {t \in Hi!First(dataset)..Hi!Last(dataset) : (t - Hi!First(dataset)) % Step = 0}
        PROVE  /\ \A i, j \in DOMAIN dataset.bars : i < j => Hi!At(dataset, i) < Hi!At(dataset, j)
               /\ Hi!Last(dataset) <= dataset.fetched
               /\ Hi!TimesOf(dataset) \subseteq grid =>
                    100 * Hi!Cardinality(grid \ Hi!TimesOf(dataset)) <= MissingPercent * Hi!Cardinality(grid)
               /\ \A i \in DOMAIN dataset.bars :
                    i > 1 => 100 * dataset.bars[i].wick <= SpikePercent * dataset.bars[i - 1].close + 99
               /\ Hi!FundingReady(dataset) =>
                    100 * Hi!Cardinality(Hi!Due(dataset) \ dataset.funding)
                      <= FundingPercent * Hi!ExpectedSettlements(dataset) + 100
    <3>1. dataset.bars # <<>>
      BY <2>1 DEF Hi!Ready
    <3>2. \A i, j \in DOMAIN dataset.bars : i < j => Hi!At(dataset, i) < Hi!At(dataset, j)
      BY <1>1, <2>1, OneByOne
    <3>3. /\ Hi!Last(dataset) <= dataset.fetched
          /\ Hi!TimesOf(dataset) \subseteq grid =>
               100 * Cardinality(grid \ Hi!TimesOf(dataset)) <= MissingPercent * Cardinality(grid)
      BY <1>1, <2>1, <3>1, AdmittedAreSound
    <3>4. \A i \in DOMAIN dataset.bars :
            i > 1 => 100 * dataset.bars[i].wick <= SpikePercent * dataset.bars[i - 1].close + 99
      BY <1>1, <2>1, WicksAreSmall
    <3>5. Hi!FundingReady(dataset) =>
            100 * Cardinality(Hi!Due(dataset) \ dataset.funding)
              <= FundingPercent * Hi!ExpectedSettlements(dataset) + 100
      BY <1>1, <2>1, <3>1, SettlementsDue
    <3> QED BY <3>2, <3>3, <3>4, <3>5, HiCount
  <2> QED BY <2>1 DEF Hi!AdmittedIsSound
<1>5. Hi!SettlementsChargedInPlace
  BY <1>1, ChargesInPlace DEF Hi!SettlementsChargedInPlace
<1> QED BY <1>2, <1>3, <1>4, <1>5

-----------------------------------------------------------------------------
(* A behaviour is of one part: seen through its variables it is one of it,   *)
(* and the others say nothing.                                               *)
LEMMA CorpusAlone == Spec => ([](part = "corpus") /\ Cr!Spec) \/ []~(part = "corpus")
<1>1. Init /\ part = "corpus" => Cr!Init
  BY DEF Init
<1>2. part = "corpus" /\ [Next]_vars => [Cr!Next]_(Cr!vars) /\ (part = "corpus")'
  BY DEF Next, vars, historyVars, replayVars, gateVars, ladderVars, corpusVars, reportVars,
     Cr!vars, Cr!run, Cr!client, Cr!found
<1>3. ~(part = "corpus") /\ [Next]_vars => ~(part = "corpus")'
  BY DEF Next, vars
<1> QED BY <1>1, <1>2, <1>3, PTL DEF Spec, Cr!Spec

LEMMA ReplayAlone == Spec => ([](part = "replay") /\ Wa!Spec) \/ []~(part = "replay")
<1>1. Init /\ part = "replay" => Wa!Init
  BY DEF Init
<1>2. part = "replay" /\ [Next]_vars => [Wa!Next]_(Wa!vars) /\ (part = "replay")'
  BY DEF Next, vars, historyVars, replayVars, gateVars, ladderVars, corpusVars, reportVars, Wa!vars
<1>3. ~(part = "replay") /\ [Next]_vars => ~(part = "replay")'
  BY DEF Next, vars
<1> QED BY <1>1, <1>2, <1>3, PTL DEF Spec, Wa!Spec

LEMMA GatesAlone == Spec => ([](part = "gates") /\ Ga!Spec) \/ []~(part = "gates")
<1>1. Init /\ part = "gates" => Ga!Init
  BY DEF Init
<1>2. part = "gates" /\ [Next]_vars => [Ga!Next]_(Ga!vars) /\ (part = "gates")'
  BY DEF Next, vars, historyVars, replayVars, gateVars, ladderVars, corpusVars, reportVars, Ga!vars
<1>3. ~(part = "gates") /\ [Next]_vars => ~(part = "gates")'
  BY DEF Next, vars
<1> QED BY <1>1, <1>2, <1>3, PTL DEF Spec, Ga!Spec

LEMMA ReportsAlone == Spec => ([](part = "reports") /\ Re!Spec) \/ []~(part = "reports")
<1>1. Init /\ part = "reports" => Re!Init
  BY DEF Init
<1>2. part = "reports" /\ [Next]_vars => [Re!Next]_(Re!vars) /\ (part = "reports")'
  BY DEF Next, vars, historyVars, replayVars, gateVars, ladderVars, corpusVars, reportVars, Re!vars
<1>3. ~(part = "reports") /\ [Next]_vars => ~(part = "reports")'
  BY DEF Next, vars
<1> QED BY <1>1, <1>2, <1>3, PTL DEF Spec, Re!Spec

LEMMA LaddersAlone == Spec => ([](part = "ladder") /\ Co!Spec) \/ []~(part = "ladder")
<1>1. Init /\ part = "ladder" => Co!Init
  BY DEF Init
<1>2. part = "ladder" /\ [Next]_vars => [Co!Next]_(Co!vars) /\ (part = "ladder")'
  BY DEF Next, vars, historyVars, replayVars, gateVars, ladderVars, corpusVars, reportVars, Co!vars
<1>3. ~(part = "ladder") /\ [Next]_vars => ~(part = "ladder")'
  BY DEF Next, vars
<1> QED BY <1>1, <1>2, <1>3, PTL DEF Spec, Co!Spec

LEMMA HistoryAlone == Spec => ([](part = "history") /\ Hi!Spec) \/ []~(part = "history")
<1>1. Init /\ part = "history" => Hi!Init
  BY DEF Init
<1>2. part = "history" /\ [Next]_vars => [Hi!Next]_(Hi!vars) /\ (part = "history")'
  BY DEF Next, vars, historyVars, replayVars, gateVars, ladderVars, corpusVars, reportVars, Hi!vars
<1>3. ~(part = "history") /\ [Next]_vars => ~(part = "history")'
  BY DEF Next, vars
<1> QED BY <1>1, <1>2, <1>3, PTL DEF Spec, Hi!Spec

-----------------------------------------------------------------------------
(* For any symbols, each asked for once in a run, any retries and threshold, *)
(* and runs that end anywhere: what is on disk passed its gates, a manifest  *)
(* tells what is on disk, and only acquired data makes a corpus fresh.       *)
THEOREM CorpusIsTrue == Spec => CorpusIsWhatItTells
<1> DEFINE Kept == part = "corpus" => Cr!TypeOK /\ Cr!OnlyValidatedIsKept
           Told == part = "corpus" => Cr!ManifestTellsDisk /\ Cr!OnlyDataRefreshes
<1>1. CorpusInv => Kept
  BY DEF CorpusInv
<1>2. CorpusInv /\ [Cr!Next]_(Cr!vars) => Told
  BY ManifestTells, DataRefreshes
<1>3. ~(part = "corpus") => Kept /\ Told
  OBVIOUS
<1> HIDE DEF Kept, Told
<1>4. Spec => []Kept /\ [][Told]_vars
  BY <1>1, <1>2, <1>3, CorpusInvHolds, CorpusAlone, PTL DEF Cr!Spec
<1> QED BY <1>4 DEF CorpusIsWhatItTells, Kept, Told

(* For any plan of windows, strategies, prices, cap and lot step: trades     *)
(* keep their windows and out of each other's time, the planners agree, and  *)
(* the windows a gate admits are whole.                                      *)
THEOREM WindowsAreKept == Spec => []WindowsAreSound
<1>1. ReplayInv => WindowsAreSound
  BY ReplayIsSound DEF WindowsAreSound
<1>2. ~(part = "replay") => WindowsAreSound
  BY DEF WindowsAreSound
<1> QED BY <1>1, <1>2, ReplayInvHolds, ReplayAlone, PTL

(* For any p-values, bootstraps, families and matrices of two strategies or  *)
(* more: the step-down is the closed test, the correction only removes, and  *)
(* a strategy ahead everywhere is not overfit.                               *)
THEOREM VerdictsAreRight == Spec => []VerdictsAreSound
<1>1. GatesInv => VerdictsAreSound
  BY VerdictsDo DEF VerdictsAreSound
<1>2. ~(part = "gates") => VerdictsAreSound
  BY DEF VerdictsAreSound
<1> QED BY <1>1, <1>2, GatesInvHolds, GatesAlone, PTL

(* For any families, returns, regimes and results of symbols: regimes part   *)
(* the returns, what is published makes no claim the guard would refuse, and *)
(* a review passes only without a risk.                                      *)
THEOREM ReportsAreRight == Spec => []ReportsAreTrue
<1>1. ReportsInv => ReportsAreTrue
  BY ReportsDo DEF ReportsAreTrue
<1>2. ~(part = "reports") => ReportsAreTrue
  BY DEF ReportsAreTrue
<1> QED BY <1>1, <1>2, ReportsInvHolds, ReportsAlone, PTL

(* For any market and any ascending ladder of multipliers: the sweep and the *)
(* drawdowns are what they claim to be: two sums over the same trades differ *)
(* by what the multipliers do, the fold of a drawdown keeps the largest fall *)
(* up to each trade, and of two walks over proposals no position covers the  *)
(* dearer takes a part of the cheaper.                                       *)
THEOREM LaddersAreRight == Spec => []LaddersTellCosts
<1>1. LadderInv => LaddersTellCosts
  BY LaddersDo DEF LaddersTellCosts
<1>2. ~(part = "ladder") => LaddersTellCosts
  BY DEF LaddersTellCosts
<1> QED BY <1>1, <1>2, LadderInvHolds, LaddersAlone, PTL

(* For any history, pages of the venue, limits and bars: what was collected  *)
(* is all there is after the cursor, so the loops end with the newest; what  *)
(* is admitted has its bars one by one, and those missing of the grid are    *)
(* counted between them; and a settlement is charged at the first bar on or  *)
(* after it.                                                                 *)
THEOREM HistoryIsRight == Spec => []HistoryIsWhole
<1>1. HistoryInv => HistoryIsWhole
  BY HistoryDo DEF HistoryIsWhole
<1>2. ~(part = "history") => HistoryIsWhole
  BY DEF HistoryIsWhole
<1> QED BY <1>1, <1>2, HistoryInvHolds, HistoryAlone, PTL
=============================================================================

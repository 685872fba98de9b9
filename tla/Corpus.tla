------------------------------- MODULE Corpus -------------------------------
(***************************************************************************)
(* The history corpus on disk: scripts/acquire_corpus.py, which asks       *)
(* market/bitget_public.py for one symbol after the other and writes what  *)
(* passes its gates; evaluation/corpus_staleness.py, which reads the       *)
(* corpus; and the manifest.                                               *)
(***************************************************************************)
EXTENDS Integers, Sequences, FiniteSetsExt

CONSTANTS
  Symbols,
  Specs,        \* the symbols of a run, in order
  MaxRetries, Threshold,   \* max_retries and circuit_threshold of the client
  MaxAge,       \* DEFAULT_MAX_AGE_MS
  MaxTime, MaxRuns,   \* bounds: the clock, runs of the script
  None, Torn   \* no file; one that does not parse

(* What a configuration has to keep to; the modules that run it check it. *)
CorpusAssumption ==
  /\ Specs \in Seq(Symbols) /\ Specs # <<>>
  /\ \A i, j \in DOMAIN Specs : i # j => Specs[i] # Specs[j] \* the caller names none twice
  /\ {MaxRetries, MaxAge, MaxTime, MaxRuns} \subseteq Nat
  /\ Threshold \in Nat \ {0}

VARIABLES
  at,       \* where the run is
  turn,     \* the spec in hand
  options,  \* --force, and the quality the thresholds ask for
  attempt, failures, circuitOpen,   \* of the client
  entries, rejected,
  disk,     \* the file of each symbol: None, Torn or a dataset
  manifest, \* None, Torn or the entries
  clock, runs,
  asked     \* history: the symbols a request of this run was about

run == <<at, turn, options, attempt>>
client == <<failures, circuitOpen>>
found == <<entries, rejected>>
vars == <<run, client, found, disk, manifest, clock, runs, asked>>

Qualities == 0..2
Datasets == [quality : Qualities, fetched : 0..MaxTime]
Entries == [symbol : Symbols, data : Datasets]

TypeOK ==
  /\ at \in {"idle", "spec", "candles", "funding", "judge", "manifest"}
  /\ turn \in 1..(Len(Specs) + 1) /\ attempt \in 0..MaxRetries
  /\ options \in [force : BOOLEAN, quality : 1..2]
  /\ failures \in 0..(Threshold + MaxRetries) /\ circuitOpen \in BOOLEAN
  /\ entries \subseteq Entries
  /\ rejected \in [Symbols -> {None, "quality", "network"}]
  /\ disk \in [Symbols -> Datasets \union {None, Torn}]
  /\ manifest \in {None, Torn} \union SUBSET Entries
  /\ clock \in 0..MaxTime /\ runs \in 0..MaxRuns /\ asked \subseteq Symbols

Init ==
  /\ at = "idle" /\ turn = 1 /\ options = [force |-> FALSE, quality |-> 1]
  /\ attempt = 0 /\ failures = 0 /\ circuitOpen = FALSE
  /\ entries = {} /\ rejected = [s \in Symbols |-> None]
  /\ disk = [s \in Symbols |-> None] /\ manifest = None
  /\ clock = 0 /\ runs = 0 /\ asked = {}

-----------------------------------------------------------------------------
Symbol == Specs[turn]
Entry(data) == [symbol |-> Symbol, data |-> data]
Passes(quality) == quality >= options.quality

(* The next spec, or the end of acquire_corpus_tolerant: without an entry    *)
(* there is no manifest.                                                     *)
GoOn(found_) ==
  /\ attempt' = 0
  /\ IF turn < Len(Specs) THEN at' = "spec" /\ turn' = turn + 1
     ELSE at' = (IF found_ = {} THEN "idle" ELSE "manifest") /\ turn' = turn

Reject(reason) ==
  /\ rejected' = [rejected EXCEPT ![Symbol] = reason]
  /\ GoOn(entries) /\ UNCHANGED entries

Accept(data) ==
  /\ entries' = entries \union {Entry(data)}
  /\ GoOn(entries') /\ UNCHANGED rejected

(* main: a new client and a new result. *)
StartRun(o) ==
  /\ at = "idle" /\ runs < MaxRuns
  /\ runs' = runs + 1 /\ options' = o
  /\ at' = "spec" /\ turn' = 1 /\ attempt' = 0
  /\ failures' = 0 /\ circuitOpen' = FALSE
  /\ entries' = {} /\ rejected' = [s \in Symbols |-> None] /\ asked' = {}
  /\ UNCHANGED <<disk, manifest, clock>>

(* A file of an earlier run stands for a new one.  One that does not parse   *)
(* raises out of the run.                                                    *)
Reuse ==
  /\ at = "spec" /\ disk[Symbol] # None /\ ~options.force
  /\ IF disk[Symbol] = Torn
     THEN at' = "idle" /\ UNCHANGED <<turn, attempt, found>>
     ELSE IF Passes(disk[Symbol].quality) THEN Accept(disk[Symbol]) ELSE Reject("quality")
  /\ UNCHANGED <<options, client, disk, manifest, clock, runs, asked>>

Acquire ==
  /\ at = "spec" /\ (disk[Symbol] = None \/ options.force)
  /\ at' = "candles"
  /\ UNCHANGED <<turn, options, attempt, client, found, disk, manifest, clock, runs, asked>>

-----------------------------------------------------------------------------
(* BitgetPublicClient._get: a request for a page of candles or settlements. *)
Asking == at \in {"candles", "funding"}
Sends == Asking /\ (attempt > 0 \/ ~circuitOpen)
Asks ==
  /\ asked' = asked \union {Symbol}
  /\ UNCHANGED <<options, disk, manifest, clock, runs>>

CircuitIsOpen ==
  /\ Asking /\ attempt = 0 /\ circuitOpen
  /\ Reject("network")
  /\ UNCHANGED <<options, client, disk, manifest, clock, runs, asked>>

Counts ==
  /\ failures' = failures + 1
  /\ circuitOpen' = (circuitOpen \/ failures' >= Threshold)

(* A transport error counts at each attempt, and opens at the last. *)
TransportFails ==
  /\ Sends /\ Asks
  /\ IF attempt < MaxRetries
     THEN attempt' = attempt + 1 /\ failures' = failures + 1
          /\ UNCHANGED <<at, turn, found, circuitOpen>>
     ELSE Counts /\ Reject("network")

(* 429 and 5xx with attempts left. *)
TriesAgain ==
  /\ Sends /\ Asks /\ attempt < MaxRetries
  /\ attempt' = attempt + 1
  /\ UNCHANGED <<at, turn, found, client>>

(* 429 or 5xx at the last attempt, another status, or a payload refused. *)
Refused ==
  /\ Sends /\ Asks /\ Counts /\ Reject("network")

(* A payload the fetch cannot read. *)
SchemaRejected ==
  /\ Sends /\ Asks
  /\ failures' = 0 /\ UNCHANGED circuitOpen
  /\ Reject("network")

(* A page; there may be another one. *)
Answered ==
  /\ Sends /\ Asks
  /\ attempt' = 0 /\ failures' = 0
  /\ \/ at' = at
     \/ at' = IF at = "candles" THEN "funding" ELSE "judge"
  /\ UNCHANGED <<turn, found, circuitOpen>>

-----------------------------------------------------------------------------

(* The gates, and the file of what passes them. *)
Judge ==
  /\ at = "judge"
  /\ \E q \in Qualities :
       LET data == [quality |-> q, fetched |-> clock] IN
       IF Passes(q) THEN disk' = [disk EXCEPT ![Symbol] = data] /\ Accept(data)
       ELSE Reject("quality") /\ UNCHANGED disk
  /\ UNCHANGED <<options, client, manifest, clock, runs, asked>>

WriteManifest ==
  /\ at = "manifest" /\ manifest' = entries /\ at' = "idle"
  /\ UNCHANGED <<turn, options, attempt, client, found, disk, clock, runs, asked>>

(* The process ends anywhere, also in the middle of write_text. *)
Crash ==
  /\ at # "idle" /\ at' = "idle"
  /\ disk' \in {disk} \union
       (IF at = "judge" THEN {[disk EXCEPT ![Symbol] = Torn]} ELSE {})
  /\ manifest' \in {manifest} \union (IF at = "manifest" THEN {Torn} ELSE {})
  /\ UNCHANGED <<turn, options, attempt, client, found, clock, runs, asked>>

TimePasses ==
  /\ clock < MaxTime /\ clock' = clock + 1
  /\ UNCHANGED <<run, client, found, disk, manifest, runs, asked>>

Next ==
  \/ \E o \in [force : BOOLEAN, quality : 1..2] : StartRun(o)
  \/ Reuse \/ Acquire
  \/ CircuitIsOpen \/ TransportFails \/ TriesAgain \/ Refused \/ SchemaRejected \/ Answered
  \/ Judge \/ WriteManifest \/ Crash \/ TimePasses

Spec == Init /\ [][Next]_vars

-----------------------------------------------------------------------------
(* evaluate_corpus_freshness: the newest dataset speaks for the corpus. *)
Whole == {s \in Symbols : disk[s] \notin {None, Torn}}
(* Mutant: a run that only reuses files counts. *)
StaleSinceRun == IF Whole = {} \/ at # "idle" THEN FALSE
                 ELSE clock - Max({disk[s].fetched : s \in Whole}) > MaxAge

Stale == Whole = {} \/ clock - Max({disk[s].fetched : s \in Whole}) > MaxAge

(* should_park_heavy_work *)
ShouldPark == Stale

(* No dataset that failed its gates is on disk, whatever the options of the  *)
(* runs and wherever they ended (acquire_corpus.py:112-122).                 *)
OnlyValidatedIsKept == \A s \in Whole : disk[s].quality >= 1

(* A manifest names, when it is written, files that are there, whole, of the *)
(* quality its run asked for and with the content it says                    *)
(* (acquire_corpus.py:135-148).                                              *)
ManifestTellsDisk ==
  manifest' # manifest /\ manifest' # Torn =>
    \A e \in manifest' : disk'[e.symbol] = e.data /\ e.data.quality >= options.quality

(* A stale corpus becomes fresh by a dataset acquired and in no other way:   *)
(* reusing files does not refresh it (corpus_staleness.py:39-72).            *)
OnlyDataRefreshes ==
  ShouldPark /\ ~ShouldPark' => at = "judge" /\ disk' # disk

(* "Acquire per symbol so one bad symbol does not abort the whole corpus"    *)
(* (acquire_corpus.py:207): no symbol is given up for its network before a   *)
(* request was made for it.                                                  *)
OneBadSymbolStaysAlone == \A s \in Symbols : rejected[s] = "network" => s \in asked
=============================================================================

--------------------------- MODULE ResourceBudget ---------------------------
(***************************************************************************)
(* ResourceBudget (runtime/resource_budget.py) around a long job: the      *)
(* worker that enters it, asserts between units of work and leaves it, and *)
(* the watchdog thread that samples the host beside it.  Threads meet      *)
(* between any two reads and writes of the budget's fields.  A sample      *)
(* (scripts/resource_guard.py) is what violations() says of it.            *)
(***************************************************************************)
EXTENDS Naturals, FiniteSets

CONSTANTS
  Threads,        \* the watchdog threads there may be
  Watched,        \* the watchdog is enabled
  SlowSamples,    \* a sample may take longer than the join in stop_watchdog
  None

(* What a configuration has to keep to; the modules that run it check it. *)
BudgetAssumption ==
  Watched \in BOOLEAN /\ SlowSamples \in BOOLEAN /\ None \notin Threads

VARIABLES
  host,       \* what a snapshot of the host says now
  worker,     \* where the worker is
  watcher,    \* where each thread is, and what its sample said
  thread,     \* _thread
  stopping,   \* _stop
  breached,   \* _breached
  seenBad     \* history: a sample of this entry showed a violation

vars == <<host, worker, watcher, thread, stopping, breached, seenBad>>

Snapshots == {"ok", "bad"}
WorkerPlaces ==
  {"outside", "working", "asserting", "sampling", "leaving", "finishing", "last sample",
   "failing", "clean", "raised"}
WatcherPlaces == {"absent", "waking", "sampling", "waiting"}

TypeOK ==
  /\ host \in Snapshots
  /\ worker \in WorkerPlaces
  /\ watcher \in [Threads -> [at : WatcherPlaces, found : Snapshots]]
  /\ thread \in Threads \union {None}
  /\ {stopping, breached, seenBad} \subseteq BOOLEAN

Absent == [at |-> "absent", found |-> "ok"]

Init ==
  /\ host \in Snapshots
  /\ worker = "outside"
  /\ watcher = [t \in Threads |-> Absent]
  /\ thread = None
  /\ stopping = FALSE /\ breached = FALSE /\ seenBad = FALSE

-----------------------------------------------------------------------------
Sampled == seenBad' = (seenBad \/ host = "bad")

(* __enter__: preflight, and then the watchdog, unless there is one. *)
Enter ==
  /\ worker \in {"outside", "clean", "raised"}
  /\ seenBad' = (host = "bad")
  /\ \/ /\ host = "bad"
        /\ worker' = "raised"
        /\ UNCHANGED <<watcher, thread, stopping>>
     \/ /\ host = "ok"
        /\ worker' = "working"
        /\ IF ~Watched \/ thread # None THEN UNCHANGED <<watcher, thread, stopping>>
           ELSE \E t \in Threads :
                  /\ watcher[t].at = "absent"
                  /\ watcher' = [watcher EXCEPT ![t].at = "waking"]
                  /\ thread' = t
                  /\ stopping' = FALSE
  /\ UNCHANGED <<host, breached>>

(* Between units of work. *)
Look ==
  /\ worker = "working"
  /\ worker' = "asserting"
  /\ UNCHANGED <<host, watcher, thread, stopping, breached, seenBad>>

(* Mutant: the watchdog is waited for and never told. *)
BeginExitUntold ==
  /\ worker = "working"
  /\ worker' \in {"leaving", "failing"}
  /\ UNCHANGED <<host, watcher, thread, stopping, breached, seenBad>>

(* __exit__ tells the watchdog to stop, after the work or its exception. *)
BeginExit ==
  /\ worker = "working"
  /\ worker' \in {"leaving", "failing"}
  /\ stopping' = (stopping \/ thread # None)
  /\ UNCHANGED <<host, watcher, thread, breached, seenBad>>

(* Mutant: nobody waits for the thread. *)
LeaveUnjoined ==
  /\ worker \in {"leaving", "failing"}
  /\ thread' = None
  /\ worker' = (IF worker = "leaving" THEN "finishing" ELSE "raised")
  /\ UNCHANGED <<host, watcher, stopping, breached, seenBad>>

(* The thread is joined; an exception of the work goes on without a check. *)
Leave ==
  /\ worker \in {"leaving", "failing"}
  /\ thread # None => watcher[thread].at = "absent" \/ SlowSamples
  /\ thread' = None
  /\ worker' = (IF worker = "leaving" THEN "finishing" ELSE "raised")
  /\ UNCHANGED <<host, watcher, stopping, breached, seenBad>>

(* assert_within, before the next unit or as the last check: a breach on      *)
(* record is raised, and is never taken off the record.  Between units it is  *)
(* raised in the work, so that __exit__ stops the watchdog on its way out.    *)
Breach ==
  IF worker \in {"finishing", "last sample"}
  THEN worker' = "raised" /\ UNCHANGED stopping
  ELSE worker' = "failing" /\ stopping' = (stopping \/ thread # None)

AssertUnbreached ==
  /\ worker \in {"asserting", "finishing"}
  /\ IF breached THEN Breach
     ELSE /\ worker' = (IF worker = "asserting" THEN "sampling" ELSE "last sample")
          /\ UNCHANGED stopping
  /\ UNCHANGED <<host, watcher, thread, breached, seenBad>>

AssertSample ==
  /\ worker \in {"sampling", "last sample"}
  /\ Sampled
  /\ breached' = (breached \/ host = "bad")
  /\ IF host = "bad" THEN Breach
     ELSE /\ worker' = (IF worker = "sampling" THEN "working" ELSE "clean")
          /\ UNCHANGED stopping
  /\ UNCHANGED <<host, watcher, thread>>

-----------------------------------------------------------------------------
(* _watch.  The stop is looked at before a sample and not after it. *)
WatcherSamples(t) ==
  /\ watcher[t].at = "waking"
  /\ \/ /\ stopping
        /\ watcher' = [watcher EXCEPT ![t] = Absent]
        /\ UNCHANGED seenBad
     \/ /\ ~stopping
        /\ \/ /\ watcher' = [watcher EXCEPT ![t] = [at |-> "sampling", found |-> host]]
              /\ Sampled
           \/ /\ watcher' = [watcher EXCEPT ![t] = [at |-> "sampling", found |-> "bad"]]
              /\ seenBad' = TRUE    \* SNAPSHOT_ERROR
  /\ UNCHANGED <<host, worker, thread, stopping, breached>>

WatcherRecords(t) ==
  /\ watcher[t].at = "sampling"
  /\ breached' = (breached \/ watcher[t].found = "bad")
  /\ watcher' = [watcher EXCEPT ![t].at = "waiting"]
  /\ UNCHANGED <<host, worker, thread, stopping, seenBad>>

(* The wait ends with the interval or with the stop. *)
WatcherWakes(t) ==
  /\ watcher[t].at = "waiting"
  /\ watcher' = [watcher EXCEPT ![t].at = "waking"]
  /\ UNCHANGED <<host, worker, thread, stopping, breached, seenBad>>

HostChanges ==
  /\ host' \in Snapshots
  /\ UNCHANGED <<worker, watcher, thread, stopping, breached, seenBad>>

Watcher(t) == WatcherSamples(t) \/ WatcherRecords(t) \/ WatcherWakes(t)

Next ==
  \/ Enter \/ Look \/ BeginExit \/ Leave \/ AssertUnbreached \/ AssertSample
  \/ HostChanges
  \/ \E t \in Threads : WatcherSamples(t) \/ WatcherRecords(t) \/ WatcherWakes(t)

(* Threads are scheduled, and a worker that has begun to leave goes on. *)
Fairness ==
  /\ WF_vars(Leave) /\ WF_vars(AssertUnbreached) /\ WF_vars(AssertSample)
  /\ \A t \in Threads : WF_vars(Watcher(t))

Spec == Init /\ [][Next]_vars /\ Fairness

-----------------------------------------------------------------------------
(* Work is declared clean only if no sample taken for it, by the worker or   *)
(* the watchdog, showed a violation: the watchdog's last sample is recorded  *)
(* before the final check (resource_budget.py:149-156).  It takes a join     *)
(* that does not time out.                                                   *)
CleanMeansNothingSeen == ~SlowSamples /\ worker = "clean" => ~seenBad

(* Leaving ends, with or without an exception of the work, and its watchdog   *)
(* is gone by then, whenever the stop finds it (resource_budget.py:105-124).  *)
LeavingEnds ==
  worker \in {"leaving", "failing"} ~>
    worker \in {"clean", "raised"} /\ \A t \in Threads : watcher[t].at = "absent"
=============================================================================

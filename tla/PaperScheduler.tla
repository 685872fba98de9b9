---------------------------- MODULE PaperScheduler ----------------------------
(***************************************************************************)
(* PaperScheduler (runtime/scheduler.py): snapshots wait in a deque, and   *)
(* drivers on one event loop take them, one active cycle per symbol.  One  *)
(* driver is the task of run, which also calls the monitor tick between    *)
(* two polls; others call run_once by themselves.  run_once gives the loop *)
(* away only while it awaits process, so what it does before, under its    *)
(* lock, is one step, and what it does after is another.                   *)
(***************************************************************************)
EXTENDS Integers, Sequences, FiniteSets, SequencesExt

CONSTANTS
  Snapshots,      \* by their hash: the same snapshot may be offered again
  Symbols, SymbolOf,
  Drivers, Loop,  \* the callers of run_once; Loop is the one inside run
  None,           \* no snapshot
  CallsMayRaise   \* process and the monitor tick may raise

ASSUME SchedulerAssumption ==
  /\ SymbolOf \in [Snapshots -> Symbols]
  /\ Loop \in Drivers
  /\ None \notin Snapshots
  /\ CallsMayRaise \in BOOLEAN

VARIABLES
  queue, queued,  \* _queue, and _queued: the keys that are in it
  active,         \* _active: the symbols with a cycle under way
  tooSoon,        \* symbols whose _last_run is less than min_interval_seconds ago
  parked,         \* symbols in the parked dict
  running,
  job,            \* the snapshot a driver awaits process for
  loopAt,         \* where the task of run is
  due             \* the interval since _last_monitor_tick has passed

vars == <<queue, queued, active, tooSoon, parked, running, job, loopAt, due>>

TypeOK ==
  /\ queue \in Seq(Snapshots)
  /\ queued \subseteq Snapshots
  /\ active \subseteq Symbols
  /\ tooSoon \subseteq Symbols
  /\ parked \subseteq Symbols
  /\ running \in BOOLEAN
  /\ job \in [Drivers -> Snapshots \union {None}]
  /\ loopAt \in {"off", "poll", "busy", "after", "dead"}
  /\ due \in BOOLEAN

Init ==
  /\ queue = <<>>
  /\ queued = {}
  /\ active = {}
  /\ tooSoon = {}
  /\ parked = {}
  /\ running = TRUE
  /\ job = [d \in Drivers |-> None]
  /\ loopAt = "off"
  /\ due = TRUE

-----------------------------------------------------------------------------
(* enqueue: a snapshot that waits already, or whose symbol has a cycle under *)
(* way, is refused.                                                          *)
Enqueue(s) ==
  /\ s \notin queued
  /\ SymbolOf[s] \notin active
  /\ queue' = Append(queue, s)
  /\ queued' = queued \union {s}
  /\ UNCHANGED <<active, tooSoon, parked, running, job, loopAt, due>>

(* Mutants of run_once's first part: the newest snapshot is popped; one that  *)
(* comes too soon is not put back.                                           *)
TakeLast(d) ==
  LET s == Last(queue)
      y == SymbolOf[s] IN
  /\ y \notin active
  /\ IF y \in tooSoon
     THEN UNCHANGED <<queue, queued, active, job>>
     ELSE /\ queue' = Front(queue)
          /\ queued' = queued \ {s}
          /\ active' = active \union {y}
          /\ job' = [job EXCEPT ![d] = s]

TakeOrDrop(d) ==
  LET s == Head(queue) IN
  /\ queue' = Tail(queue)
  /\ queued' = queued \ {s}
  /\ IF SymbolOf[s] \in active \union tooSoon
     THEN UNCHANGED <<active, job>>
     ELSE active' = active \union {SymbolOf[s]} /\ job' = [job EXCEPT ![d] = s]

(* run_once up to its await.  Behind an active cycle of its symbol the       *)
(* snapshot is offered to enqueue, which refuses it for that very reason.    *)
Take(d) ==
  LET s == Head(queue)
      y == SymbolOf[s] IN
  \/ /\ y \in active
     /\ queue' = Tail(queue)
     /\ queued' = queued \ {s}
     /\ UNCHANGED <<active, job>>
  \/ /\ y \in tooSoon \ active
     /\ queue' = Append(Tail(queue), s)
     /\ UNCHANGED <<queued, active, job>>
  \/ /\ y \notin tooSoon \union active
     /\ queue' = Tail(queue)
     /\ queued' = queued \ {s}
     /\ active' = active \union {y}
     /\ job' = [job EXCEPT ![d] = s]

RunOnce(d) ==
  /\ d # Loop
  /\ job[d] = None
  /\ running
  /\ queue # <<>>
  /\ Take(d)
  /\ UNCHANGED <<tooSoon, parked, running, loopAt, due>>

LoopPolls ==
  /\ loopAt = "poll"
  /\ running
  /\ IF queue = <<>>
     THEN loopAt' = "after" /\ UNCHANGED <<queue, queued, active, job>>
     ELSE Take(Loop) /\ loopAt' = IF job'[Loop] = None THEN "after" ELSE "busy"
  /\ UNCHANGED <<tooSoon, parked, running, due>>

LoopEnds ==
  /\ loopAt = "poll"
  /\ ~running
  /\ loopAt' = "off"
  /\ UNCHANGED <<queue, queued, active, tooSoon, parked, running, job, due>>

(* Mutant: _last_run is kept by snapshot instead of by symbol. *)
ProcessReturnsBySnapshot(d, disposition) ==
  LET y == SymbolOf[job[d]] IN
  /\ job[d] # None
  /\ parked' = IF disposition = "parked" THEN parked \union {y} ELSE parked
  /\ tooSoon' = tooSoon \union {job[d]}
  /\ active' = active \ {y}
  /\ job' = [job EXCEPT ![d] = None]
  /\ loopAt' = IF d = Loop THEN "after" ELSE loopAt
  /\ UNCHANGED <<queue, queued, running, due>>

(* process returns a disposition, of which the scheduler tells the parked    *)
(* ones from the others.                                                     *)
ProcessReturns(d, disposition) ==
  LET y == SymbolOf[job[d]] IN
  /\ job[d] # None
  /\ parked' = IF disposition = "parked" THEN parked \union {y} ELSE parked
  /\ tooSoon' = tooSoon \union {y}
  /\ active' = active \ {y}
  /\ job' = [job EXCEPT ![d] = None]
  /\ loopAt' = IF d = Loop THEN "after" ELSE loopAt
  /\ UNCHANGED <<queue, queued, running, due>>

(* Mutant: the symbol is taken off _active only when process returns. *)
ProcessRaisesUnclean(d) ==
  /\ CallsMayRaise
  /\ job[d] # None
  /\ job' = [job EXCEPT ![d] = None]
  /\ loopAt' = IF d = Loop THEN "dead" ELSE loopAt
  /\ UNCHANGED <<queue, queued, active, tooSoon, parked, running, due>>

(* The finally clause frees the symbol; out of run goes the exception. *)
ProcessRaises(d) ==
  /\ CallsMayRaise
  /\ job[d] # None
  /\ active' = active \ {SymbolOf[job[d]]}
  /\ job' = [job EXCEPT ![d] = None]
  /\ loopAt' = IF d = Loop THEN "dead" ELSE loopAt
  /\ UNCHANGED <<queue, queued, tooSoon, parked, running, due>>

(* Mutant: the monitors are ticked only when no snapshot waits. *)
LoopTicksWhenIdle ==
  /\ loopAt = "after"
  /\ due' = (due /\ queue # <<>>)
  /\ loopAt' = "poll"
  /\ UNCHANGED <<queue, queued, active, tooSoon, parked, running, job>>

(* Between two polls the monitor tick, when it is due.  run awaits nothing   *)
(* before it; the model lets other callers in, which only adds behaviours.   *)
LoopTicks ==
  /\ loopAt = "after"
  /\ \/ loopAt' = "poll" /\ due' = FALSE
     \/ CallsMayRaise /\ due /\ loopAt' = "dead" /\ UNCHANGED due
  /\ UNCHANGED <<queue, queued, active, tooSoon, parked, running, job>>

TickMonitorsNow ==
  /\ due' = FALSE
  /\ UNCHANGED <<queue, queued, active, tooSoon, parked, running, job, loopAt>>

(* The first step of a new task of run. *)
StartLoop ==
  /\ loopAt \in {"off", "dead"}
  /\ loopAt' = "poll"
  /\ running' = TRUE
  /\ UNCHANGED <<queue, queued, active, tooSoon, parked, job, due>>

Stop ==
  /\ running' = FALSE
  /\ queue' = <<>>
  /\ queued' = {}
  /\ UNCHANGED <<active, tooSoon, parked, job, loopAt, due>>

(* Time: the interval of a symbol, or of the monitors, passes. *)
IntervalPasses(y) ==
  /\ y \in tooSoon
  /\ tooSoon' = tooSoon \ {y}
  /\ UNCHANGED <<queue, queued, active, parked, running, job, loopAt, due>>

MonitorsDue ==
  /\ due' = TRUE
  /\ UNCHANGED <<queue, queued, active, tooSoon, parked, running, job, loopAt>>

-----------------------------------------------------------------------------
ProcessEnds(d) ==
  \/ \E disposition \in {"parked", "other"} : ProcessReturns(d, disposition)
  \/ ProcessRaises(d)

LoopSteps == LoopPolls \/ LoopEnds \/ LoopTicks

Next ==
  \/ \E s \in Snapshots : Enqueue(s)
  \/ \E d \in Drivers : RunOnce(d) \/ ProcessEnds(d)
  \/ LoopSteps \/ TickMonitorsNow \/ StartLoop \/ Stop
  \/ \E y \in Symbols : IntervalPasses(y)
  \/ MonitorsDue

Spec == Init /\ [][Next]_vars

(* The event loop runs the task of run, process returns or raises, and time  *)
(* passes.  Nothing makes callers call, snapshots arrive, or stop happen.    *)
FairSpec ==
  /\ Spec
  /\ WF_vars(LoopSteps)
  /\ \A d \in Drivers : WF_vars(ProcessEnds(d))
  /\ \A y \in Symbols : WF_vars(IntervalPasses(y))

-----------------------------------------------------------------------------
Busy == {d \in Drivers : job[d] # None}

(* Any number of drivers process different symbols, and _active names        *)
(* exactly those (scheduler.py:1, 56, 65).                                   *)
OneActivePerSymbol ==
  /\ \A d, e \in Busy : SymbolOf[job[d]] = SymbolOf[job[e]] => d = e
  /\ active = {SymbolOf[job[d]] : d \in Busy}

(* _queued holds the keys of the deque, so that a key that does not wait is  *)
(* never refused for waiting, and nothing waits twice (scheduler.py:35-41).  *)
KeysMatchQueue == queued = ToSet(queue) /\ IsInjective(queue)

(* The key set stays in step with the deque over the drivers' waits, and a   *)
(* snapshot that was accepted leaves the deque to be processed, by stop, or  *)
(* because another driver works on its symbol (scheduler.py:36-55).          *)
QueueIsKept ==
  /\ []KeysMatchQueue
  /\ [][\A s \in ToSet(queue) \ ToSet(queue') :
          \/ \E d \in Drivers : job'[d] = s
          \/ ~running'
          \/ SymbolOf[s] \in active]_vars

(* While snapshots of a symbol wait and the loop runs, a cycle of the symbol *)
(* begins, whatever else arrives (scheduler.py:52-55 puts back, in turn).    *)
QueuedSymbolRuns ==
  \A y \in Symbols :
    (\E s \in queued : SymbolOf[s] = y) ~> (y \in active \/ loopAt \in {"off", "dead"})

(* scheduler.py:3-6: the monitors are ticked "regardless of whether          *)
(* snapshots arrive", from run until stop, unless an exception ends run.     *)
MonitorTicksGoOn ==
  (running /\ loopAt # "off" /\ due) ~> (~due \/ ~running \/ loopAt = "dead")
=============================================================================

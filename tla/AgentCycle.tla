----------------------------- MODULE AgentCycle -----------------------------
(***************************************************************************)
(* The two callers of run_cycle (agent/cycle.py) beside the runtime: the   *)
(* CycleRunner, which skips overlapping and repeated snapshots from memory *)
(* (agent/runner.py), and the PaperLoop, which claims a cycle in the       *)
(* ledger, enters at its venue and tells the ledger how the cycle ended    *)
(* (paper_loop.py).  Calls of one process meet at the await for the        *)
(* provider's answer; the process may end between any two ledger writes.   *)
(***************************************************************************)
EXTENDS Integers, FiniteSets

CONSTANTS
  Symbols, Snaps,
  Runs, Loops,     \* calls of run_once, calls of process
  SymbolOf,        \* the symbol of each snapshot
  None

(* What a configuration has to keep to; the modules that run it check it. *)
CycleAssumption ==
  /\ Runs \cap Loops = {}
  /\ SymbolOf \in [Snaps -> Symbols]
  /\ None \notin Snaps \union Runs \union Loops

Callers == Runs \union Loops

VARIABLES
  at,          \* where each call is
  snap,        \* its snapshot
  ending,      \* how its cycle is to end
  turn,        \* the call that has the event loop between two awaits, or None
  completed,   \* CycleRunner._completed
  claimed, terminal, told,   \* the ledger: cycles, their dispositions, its events
  fills,       \* the ledger: the calls whose FILL_OBSERVED each cycle has
  position, protected,       \* the venue's positions, and which have levels
  results      \* history: what run_cycle returned for each snapshot to a runner

ledger == <<claimed, terminal, told, fills>>
venue == <<position, protected>>
vars == <<at, snap, ending, turn, completed, ledger, venue, results>>

Endings == {"EXECUTED", "DEGRADED", "HELD", "PARKED", "REJECTED"}
Places == {"idle", "asking", "placing", "intent", "submitted", "filled", "verifying",
           "protection", "reconciled", "telling", "setting", "done", "raised"}

TypeOK ==
  /\ at \in [Callers -> Places]
  /\ snap \in [Callers -> Snaps \union {None}]
  /\ ending \in [Callers -> Endings \union {None}]
  /\ turn \in Callers \union {None}
  /\ completed \subseteq Snaps /\ claimed \subseteq Snaps
  /\ terminal \in [Snaps -> Endings \union {None}]
  /\ told \in [Snaps -> SUBSET Endings]
  /\ fills \in [Snaps -> SUBSET Loops]
  /\ position \in [Symbols -> Int] /\ protected \in [Symbols -> BOOLEAN]
  /\ results \in [Snaps -> Nat]

Init ==
  /\ at = [c \in Callers |-> "idle"]
  /\ snap = [c \in Callers |-> None]
  /\ ending = [c \in Callers |-> None]
  /\ turn = None
  /\ completed = {} /\ claimed = {}
  /\ terminal = [s \in Snaps |-> None]
  /\ told = [s \in Snaps |-> {}]
  /\ fills = [s \in Snaps |-> {}]
  /\ position = [y \in Symbols |-> 0]
  /\ protected = [y \in Symbols |-> FALSE]
  /\ results = [s \in Snaps |-> 0]

To(c, place, t) == at' = [at EXCEPT ![c] = place] /\ turn' = t

-----------------------------------------------------------------------------
(* CycleRunner.run_once.  The lock of a symbol is held by the call at the    *)
(* provider: a new call does not wait for it.                                *)
Locked(y) == \E r \in Runs : at[r] = "asking" /\ SymbolOf[snap[r]] = y

(* Mutant: the lock is not looked at. *)
RunOnceUnlocked(r, s) ==
  /\ at[r] = "idle" /\ turn = None
  /\ snap' = [snap EXCEPT ![r] = s]
  /\ To(r, IF s \in completed THEN "done" ELSE "asking", None)
  /\ UNCHANGED <<ending, completed, ledger, venue, results>>

RunOnce(r, s) ==
  /\ at[r] = "idle" /\ turn = None
  /\ snap' = [snap EXCEPT ![r] = s]
  /\ To(r, IF Locked(SymbolOf[s]) \/ s \in completed THEN "done" ELSE "asking", None)
  /\ UNCHANGED <<ending, completed, ledger, venue, results>>

(* Any result of run_cycle, one without a decision too, completes the        *)
(* snapshot; an exception of the provider does not.                          *)
RunReturns(r) ==
  /\ at[r] = "asking" /\ turn = None
  /\ \/ /\ To(r, "done", None)
        /\ completed' = completed \union {snap[r]}
        /\ results' = [results EXCEPT ![snap[r]] = @ + 1]
     \/ To(r, "raised", None) /\ UNCHANGED <<completed, results>>
  /\ UNCHANGED <<snap, ending, ledger, venue>>

-----------------------------------------------------------------------------

(* PaperLoop.process: a claimed cycle is skipped; a snapshot that is not     *)
(* fresh is PARKED before the provider is asked.                             *)
Claim(c, s) ==
  /\ at[c] = "idle" /\ turn = None
  /\ snap' = [snap EXCEPT ![c] = s]
  /\ claimed' = claimed \union {s}
  /\ IF s \in claimed THEN To(c, "done", None) /\ UNCHANGED ending
     ELSE \/ To(c, "asking", None) /\ UNCHANGED ending
          \/ To(c, "telling", c) /\ ending' = [ending EXCEPT ![c] = "PARKED"]
  /\ UNCHANGED <<completed, terminal, told, fills, venue, results>>

(* What run_cycle makes of the answer: no decision or one the policy rejects *)
(* ends REJECTED, HOLD and what is no entry HELD; an exception, of the       *)
(* provider or a SizingError, leaves the cycle as it is.                     *)
Answer(c) ==
  /\ at[c] = "asking" /\ turn = None
  /\ \/ To(c, "placing", c) /\ UNCHANGED ending
     \/ \E e \in {"HELD", "REJECTED"} :
          To(c, "telling", c) /\ ending' = [ending EXCEPT ![c] = e]
     \/ To(c, "raised", None) /\ UNCHANGED ending
  /\ UNCHANGED <<snap, completed, ledger, venue, results>>

(* place_order fills at once; a position keeps its levels unless it is       *)
(* closed or flipped.                                                        *)
Place(c) ==
  /\ at[c] = "placing"
  /\ LET y == SymbolOf[snap[c]] IN
     \E q \in {-2, -1, 1, 2} :
       /\ position' = [position EXCEPT ![y] = @ + q]
       /\ protected' = [protected EXCEPT ![y] = @ /\ position[y] * (position[y] + q) > 0]
  /\ To(c, "intent", c)
  /\ UNCHANGED <<snap, ending, completed, ledger, results>>

(* The events that no property tells from each other: INTENT_APPROVED and    *)
(* ORDER_SUBMITTED after the fill, PROTECTION_VERIFIED or -FAILED and        *)
(* POSITION_RECONCILED after the check.                                      *)
NextWrite == [intent |-> "submitted", submitted |-> "filled", protection |-> "reconciled",
              reconciled |-> "telling"]

LogEvent(c) ==
  /\ at[c] \in DOMAIN NextWrite
  /\ To(c, NextWrite[at[c]], c)
  /\ UNCHANGED <<snap, ending, completed, ledger, venue, results>>

(* A write that fails leaves the call with the cycle as it is. *)
WriteFails(c) ==
  /\ at[c] \in DOMAIN NextWrite \union {"filled", "telling", "setting"}
  /\ To(c, "raised", None)
  /\ UNCHANGED <<snap, ending, completed, ledger, venue, results>>

(* FILL_OBSERVED *)
LogFill(c) ==
  /\ at[c] = "filled"
  /\ fills' = [fills EXCEPT ![snap[c]] = @ \union {c}]
  /\ To(c, "verifying", c)
  /\ UNCHANGED <<snap, ending, completed, claimed, terminal, told, venue, results>>

(* The levels are set if the caller says so, and the position is read back:  *)
(* one that the fill closed is not there, which raises.                      *)
Verify(c) ==
  /\ at[c] = "verifying"
  /\ LET y == SymbolOf[snap[c]] IN
     IF position[y] = 0 THEN To(c, "raised", None) /\ UNCHANGED <<ending, protected>>
     ELSE \E attach \in BOOLEAN :
            /\ protected' = [protected EXCEPT ![y] = @ \/ attach]
            /\ ending' = [ending EXCEPT ![c] = IF protected'[y] THEN "EXECUTED" ELSE "DEGRADED"]
            /\ To(c, "protection", c)
  /\ UNCHANGED <<snap, completed, ledger, position, results>>

(* The event first, the cycle's row after it. *)
Tell(c) ==
  /\ at[c] = "telling"
  /\ told' = [told EXCEPT ![snap[c]] = @ \union {ending[c]}]
  /\ To(c, "setting", c)
  /\ UNCHANGED <<snap, ending, completed, claimed, terminal, fills, venue, results>>

SetTerminal(c) ==
  /\ at[c] = "setting"
  /\ terminal' = [terminal EXCEPT ![snap[c]] = ending[c]]
  /\ To(c, "done", None)
  /\ UNCHANGED <<snap, ending, completed, claimed, told, fills, venue, results>>

(* The process ends; the ledger's file is what a new one has. *)
Restart ==
  /\ \E c \in Callers : at[c] # "idle"
  /\ at' = [c \in Callers |-> IF at[c] \in {"idle", "done"} THEN at[c] ELSE "raised"]
  /\ turn' = None
  /\ completed' = {} /\ results' = [s \in Snaps |-> 0]
  /\ position' = [y \in Symbols |-> 0]
  /\ protected' = [y \in Symbols |-> FALSE]
  /\ UNCHANGED <<snap, ending, ledger>>

Next ==
  \/ \E r \in Runs : (\E s \in Snaps : RunOnce(r, s)) \/ RunReturns(r)
  \/ \E c \in Loops :
       \/ \E s \in Snaps : Claim(c, s)
       \/ Answer(c) \/ Place(c) \/ LogEvent(c) \/ LogFill(c) \/ Verify(c) \/ Tell(c)
       \/ SetTerminal(c) \/ WriteFails(c)
  \/ Restart

Spec == Init /\ [][Next]_vars

-----------------------------------------------------------------------------
(* A runner's process has one call per symbol at the provider, and takes one *)
(* result for a snapshot, however often it is sent (runner.py:30-41).        *)
RunnerAsksOnce ==
  /\ \A q, r \in Runs :
       at[q] = "asking" /\ at[r] = "asking" /\ SymbolOf[snap[q]] = SymbolOf[snap[r]] => q = r
  /\ \A s \in Snaps : results[s] <= 1

(* However calls meet, writes fail and processes end, the ledger tells of    *)
(* one ending and one fill of a cycle; its row says what was told; and what  *)
(* was HELD, PARKED or REJECTED had no fill (paper_loop.py:18-61).           *)
LedgerTellsOneStory ==
  \A s \in Snaps :
    /\ Cardinality(told[s]) <= 1 /\ Cardinality(fills[s]) <= 1
    /\ terminal[s] # None => terminal[s] \in told[s]
    /\ told[s] \cap {"EXECUTED", "DEGRADED"} # {} <=> told[s] # {} /\ fills[s] # {}
=============================================================================

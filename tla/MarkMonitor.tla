----------------------------- MODULE MarkMonitor -----------------------------
(***************************************************************************)
(* MarkMonitor (protection/mark_monitor.py) over a JsonProtectionStore     *)
(* (protection/models.py): the record of every armed position, the marks   *)
(* that arrive for it, late and out of order, and the call that closes it. *)
(* A breach saves the record as CLOSED and then calls close_position; the  *)
(* save may raise, and so may the call.  A crash between the two leaves    *)
(* what a call that raised leaves, with a Restart behind it.               *)
(***************************************************************************)
EXTENDS Integers

CONSTANTS
  Symbols,
  StaleAfter,      \* stale_after
  Never,           \* the age of the last mark of a symbol without one
  SavesMayFail, ClosesMayRaise

ASSUME MonitorAssumption ==
  /\ StaleAfter \in Nat
  /\ Never \notin Nat
  /\ SavesMayFail \in BOOLEAN
  /\ ClosesMayRaise \in BOOLEAN

VARIABLES
  records,    \* _records, and the store's copy in memory: the state of each
  stored,     \* the store's file
  markAge,    \* time since the timestamp in _last_marks; once stale it is kept
  held,       \* the positions that are open at the venue
  closes,     \* history: calls of close_position since the symbol was armed
  spoiled     \* history: symbols of which a save or a close raised since then

vars == <<records, stored, markAge, held, closes, spoiled>>

Ages == 0..(StaleAfter + 1)
States == {"none", "PROTECTED", "DEGRADED", "CLOSED"}

TypeOK ==
  /\ records \in [Symbols -> States]
  /\ stored \in [Symbols -> States]
  /\ markAge \in [Symbols -> Ages \union {Never}]
  /\ held \subseteq Symbols
  /\ closes \in [Symbols -> Nat]
  /\ spoiled \subseteq Symbols

Init ==
  /\ records = [s \in Symbols |-> "none"]
  /\ stored = records
  /\ markAge = [s \in Symbols |-> Never]
  /\ held = {}
  /\ closes = [s \in Symbols |-> 0]
  /\ spoiled = {}

-----------------------------------------------------------------------------
Armed(s) == records[s] # "none"

(* Mutant: before its first mark a symbol counts as fresh. *)
BlindOnceSeen(s) == markAge[s] # Never /\ markAge[s] > StaleAfter

(* No fresh mark.  Without any, check_freshness falls back on updated_at,    *)
(* which is the epoch: arm gives its time to the field before it.            *)
Blind(s) == markAge[s] = Never \/ markAge[s] > StaleAfter

(* JsonProtectionStore.save writes the whole store, and raises before the    *)
(* file is replaced or not at all.                                           *)
Saves(now) == records' = now /\ stored' = now
SaveRaises(now) == SavesMayFail /\ records' = now /\ UNCHANGED stored

(* Mutant: a symbol that has a record keeps it. *)
ArmOnce(s) ==
  /\ IF Armed(s) THEN UNCHANGED <<records, stored>>
                 ELSE Saves([records EXCEPT ![s] = "PROTECTED"])
  /\ spoiled' = spoiled \ {s}
  /\ held' = held \union {s}
  /\ closes' = [closes EXCEPT ![s] = 0]
  /\ UNCHANGED markAge

(* A position was opened or changed, and is armed. *)
Arm(s) ==
  /\ LET now == [records EXCEPT ![s] = "PROTECTED"] IN
     \/ Saves(now) /\ spoiled' = spoiled \ {s}
     \/ SaveRaises(now) /\ spoiled' = spoiled \union {s}
  /\ held' = held \union {s}
  /\ closes' = [closes EXCEPT ![s] = 0]
  /\ UNCHANGED markAge

(* Mutant: whatever is not degraded yet is, also what is closed. *)
DegradeClosed(S) ==
  LET open == {s \in S : records[s] # "DEGRADED"}
      now(T) == [s \in Symbols |-> IF s \in T THEN "DEGRADED" ELSE records[s]]
  IN  IF open = {} THEN UNCHANGED <<records, stored, spoiled>>
      ELSE Saves(now(open)) /\ UNCHANGED spoiled

(* _degrade for the symbols of S, one after the other; a save that raises    *)
(* leaves the rest of them as they were.                                     *)
Degrade(S) ==
  LET open == {s \in S : records[s] \notin {"CLOSED", "DEGRADED"}}
      now(T) == [s \in Symbols |-> IF s \in T THEN "DEGRADED" ELSE records[s]]
  IN
  \/ open = {} /\ UNCHANGED <<records, stored, spoiled>>
  \/ open # {} /\ Saves(now(open)) /\ UNCHANGED spoiled
  \/ \E done \in SUBSET open : \E s \in open \ done :
       /\ SavesMayFail
       /\ records' = now(done \union {s})
       /\ stored' = IF done = {} THEN stored ELSE now(done)
       /\ spoiled' = spoiled \union {s}

(* on_mark with a timestamp that is too old; it still becomes the last one.  *)
StaleMark(s) ==
  /\ Armed(s)
  /\ markAge' = [markAge EXCEPT ![s] = StaleAfter + 1]
  /\ Degrade({s})
  /\ UNCHANGED <<held, closes>>

(* Mutant: a fresh mark restores the protection. *)
QuietMarkRestores(s, age) ==
  /\ Armed(s)
  /\ markAge' = [markAge EXCEPT ![s] = age]
  /\ Saves([records EXCEPT ![s] = IF @ = "DEGRADED" THEN "PROTECTED" ELSE @])
  /\ UNCHANGED <<held, closes, spoiled>>

(* A fresh mark between the levels, or any fresh mark of a closed symbol. *)
QuietMark(s, age) ==
  /\ Armed(s)
  /\ markAge' = [markAge EXCEPT ![s] = age]
  /\ UNCHANGED <<records, stored, held, closes, spoiled>>

(* Mutant: the record is left at the intent to close. *)
BreachLeavesPending(s, age) ==
  /\ records[s] \in {"PROTECTED", "DEGRADED"}
  /\ markAge' = [markAge EXCEPT ![s] = age]
  /\ Saves([records EXCEPT ![s] = "EMERGENCY_EXIT_PENDING"])
  /\ held' = held \ {s}
  /\ closes' = [closes EXCEPT ![s] = @ + 1]
  /\ UNCHANGED spoiled

(* A fresh mark at or beyond a level. *)
BreachingMark(s, age) ==
  /\ records[s] \in {"PROTECTED", "DEGRADED"}
  /\ markAge' = [markAge EXCEPT ![s] = age]
  /\ LET now == [records EXCEPT ![s] = "CLOSED"] IN
     \/ /\ Saves(now)
        /\ held' = held \ {s}
        /\ closes' = [closes EXCEPT ![s] = @ + 1]
        /\ UNCHANGED spoiled
     \/ /\ ClosesMayRaise
        /\ Saves(now)
        /\ closes' = [closes EXCEPT ![s] = @ + 1]
        /\ spoiled' = spoiled \union {s}
        /\ UNCHANGED held
     \/ /\ SaveRaises(now)
        /\ spoiled' = spoiled \union {s}
        /\ UNCHANGED <<held, closes>>

CheckFreshness ==
  /\ Degrade({s \in Symbols : Armed(s) /\ Blind(s)})
  /\ UNCHANGED <<markAge, held, closes>>

TimePasses ==
  /\ markAge' = [s \in Symbols |->
       IF markAge[s] = Never \/ markAge[s] > StaleAfter THEN markAge[s] ELSE markAge[s] + 1]
  /\ UNCHANGED <<records, stored, held, closes, spoiled>>

(* A new monitor over the same file. *)
Restart ==
  /\ records' = stored
  /\ markAge' = [s \in Symbols |-> Never]
  /\ UNCHANGED <<stored, held, closes, spoiled>>

Next ==
  \/ \E s \in Symbols :
       \/ Arm(s) \/ StaleMark(s)
       \/ \E age \in 0..StaleAfter : QuietMark(s, age) \/ BreachingMark(s, age)
  \/ CheckFreshness \/ TimePasses \/ Restart

Spec == Init /\ [][Next]_vars

-----------------------------------------------------------------------------
(* A position is asked to be closed at most once after it was armed, over    *)
(* any marks, raised saves and restarts (mark_monitor.py:54-63,              *)
(* tests/test_mark_monitor.py, test_stop_breach_has_one_idempotent_close_    *)
(* intent).                                                                  *)
OneCloseIntent == \A s \in Symbols : closes[s] <= 1

(* As long as no save and no close of a symbol raised, its record says       *)
(* whether its position is open, also after a restart (mark_monitor.py:36,   *)
(* 62-63).  One that raised may leave CLOSED on record of an open position.  *)
RecordTellsPosition ==
  \A s \in Symbols \ spoiled : records[s] \in {"PROTECTED", "DEGRADED"} <=> s \in held

(* What was degraded keeps entries parked until it is armed anew or closed,  *)
(* whatever fresh marks and restarts come (mark_monitor.py:66-71).           *)
DegradedStaysParked ==
  [][\A s \in Symbols \ spoiled :
       records[s] = "DEGRADED" /\ records'[s] # "DEGRADED"
         => Arm(s) \/ closes'[s] > closes[s] \/ s \in spoiled']_vars

(* Unless a save raises, check_freshness leaves no open position that nobody *)
(* has seen a fresh mark of, for instance after a restart, without entries   *)
(* being parked (mark_monitor.py:73-79).                                     *)
CheckParksTheBlind ==
  [][CheckFreshness /\ spoiled' = {}
       => \A s \in held : records'[s] # "DEGRADED"
            => markAge[s] \in 0..StaleAfter]_vars
=============================================================================

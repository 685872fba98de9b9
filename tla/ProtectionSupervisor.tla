------------------------ MODULE ProtectionSupervisor ------------------------
(***************************************************************************)
(* ProtectionSupervisor (protection/supervisor.py) over a store            *)
(* (protection/models.py), with the check it delegates to                  *)
(* (reconcile_protection) and the gate on entries after a restart          *)
(* (recover_before_new_entries, reconcile/).  Levels are abstracted to     *)
(* whether a record intends both and whether its stop is on the losing     *)
(* side of the mark.                                                       *)
(***************************************************************************)
CONSTANTS Symbols, None

VARIABLES
  records,   \* _records: None, or a record of intent and state
  stored,    \* the store's file
  seen,      \* history: what the last check of each record was given
  held,      \* the positions at the venue
  failed     \* history: the symbols of which a save raised

vars == <<records, stored, seen, held, failed>>

States == {"PENDING", "PROTECTED", "DEGRADED", "UNKNOWN", "CLOSED"}
Parking == {"DEGRADED", "UNKNOWN", "EMERGENCY_EXIT_PENDING"}

TypeOK ==
  /\ \A s \in Symbols : records[s] # None => records[s].state \in States
  /\ \A s \in Symbols : stored[s] # None => stored[s].state \in States
  /\ held \subseteq Symbols /\ failed \subseteq Symbols

Init ==
  /\ records = [s \in Symbols |-> None]
  /\ stored = records
  /\ seen = [s \in Symbols |-> None]
  /\ held = {} /\ failed = {}

-----------------------------------------------------------------------------
Known(m) == {s \in Symbols : m[s] # None}
EntriesParked(m) == \E s \in Known(m) : m[s].state \in Parking

(* _save: memory first, then the file, which a failing save leaves. *)
Save(s, record) ==
  /\ records' = [records EXCEPT ![s] = record]
  /\ \/ stored' = [stored EXCEPT ![s] = record] /\ UNCHANGED failed
     \/ failed' = failed \union {s} /\ UNCHANGED stored

Views ==
  [echo : {"both", "other", "none"},   \* the levels that the venue reads back
   armed : BOOLEAN, fresh : BOOLEAN,   \* the bot's own monitor
   mark : {"none", "right", "wrong"}]  \* the side of the mark that the stop is on

(* What a configuration has to keep to; the modules that run it check it. *)
ProtectionAssumption == None \notin Views

(* reconcile_protection.  A stop cannot be on any side when there is none,   *)
(* and without a mark its side is not looked at.                             *)
ReconcileProtection(record, view) ==
  LET venueComplete == record.levels = "both" /\ view.echo = "both"
      botComplete == record.levels = "both" /\ view.armed /\ view.fresh
      fatal == record.levels # "none" /\ view.mark = "wrong"
  IN IF (venueComplete \/ botComplete) /\ ~fatal THEN "PROTECTED" ELSE "DEGRADED"

RegisterPosition(s, levels) ==
  /\ Save(s, [levels |-> levels, state |-> "PENDING"])
  /\ held' = held \union {s}
  /\ seen' = [seen EXCEPT ![s] = None]

Verify(s, view) ==
  /\ records[s] # None
  /\ Save(s, [records[s] EXCEPT !.state = ReconcileProtection(records[s], view)])
  /\ seen' = [seen EXCEPT ![s] = view]
  /\ UNCHANGED held

MarkUnknown(s) ==
  /\ records[s] # None
  /\ Save(s, [records[s] EXCEPT !.state = "UNKNOWN"])
  /\ UNCHANGED <<seen, held>>

(* The record says closed; closing the position is its caller's business. *)
Close(s) ==
  /\ records[s] # None
  /\ Save(s, [records[s] EXCEPT !.state = "CLOSED"])
  /\ held' = held \ {s}
  /\ UNCHANGED seen

(* Mutant: a new process starts without records. *)
RestartEmpty ==
  /\ records' = [s \in Symbols |-> None]
  /\ UNCHANGED <<stored, seen, held, failed>>

(* A new supervisor over the store; what it had not saved is lost. *)
Restart ==
  /\ records' = stored
  /\ UNCHANGED <<stored, seen, held, failed>>

Next ==
  \/ \E s \in Symbols :
       \/ \E levels \in {"both", "stop", "none"} : RegisterPosition(s, levels)
       \/ \E view \in Views : Verify(s, view)
       \/ MarkUnknown(s) \/ Close(s)
  \/ Restart

Spec == Init /\ [][Next]_vars

-----------------------------------------------------------------------------
(* recover_before_new_entries, with what is local taken from the records. *)
Open(m) == {s \in Known(m) : m[s].state # "CLOSED"}

RecoveredGate(m, killed, providerUp) ==
  IF killed THEN "KILL_SWITCH_ACTIVE"
  ELSE IF ~providerUp THEN "PROVIDER_OUTAGE"
  ELSE IF Open(m) # held THEN "RECONCILIATION_DRIFT"
  ELSE "READY"

(* A record never claims protection that was not read back: by the venue or  *)
(* a live monitor, for both levels, with a stop that is not across the mark, *)
(* through re-registrations and, where no save failed, restarts              *)
(* (engine.py:40-63).                                                        *)
ProtectedIsReadBack ==
  \A s \in Known(records) \ failed : records[s].state = "PROTECTED" =>
    /\ records[s].levels = "both"
    /\ seen[s] # None /\ seen[s].mark # "wrong"
    /\ seen[s].echo = "both" \/ (seen[s].armed /\ seen[s].fresh)

(* When every save worked, a supervisor that parks entries still does after a *)
(* restart, and a restart that finds the venue as recorded is let through    *)
(* only with nothing open unprotected (supervisor.py:12-19, restart.py:19-28). *)
RestartKeepsParking ==
  Restart /\ failed = {} =>
    /\ EntriesParked(records) => EntriesParked(records')
    /\ RecoveredGate(records', FALSE, TRUE) = "READY" => held = Open(records)
=============================================================================

---------------------------- MODULE CyclePromise ----------------------------
(***************************************************************************)
(* What the paper runtime promises about one cycle, whoever calls it, how  *)
(* often, and wherever it crashes: a cycle is claimed once, enters the     *)
(* market at most once and only while claimed, and is closed at most once, *)
(* as a cycle that entered exactly when it did.  A cycle may stop anywhere.*)
(* ("Submit at most one idempotent intent per cycle", docs/ARCHITECTURE.md *)
(* line 119.)                                                              *)
(***************************************************************************)
CONSTANT Snapshots

VARIABLE stage

Init == stage = [s \in Snapshots |-> "new"]

Move(s, from, to) == stage[s] = from /\ stage' = [stage EXCEPT ![s] = to]

Claim(s) == Move(s, "new", "claimed")
Enter(s) == Move(s, "claimed", "entered")
CloseFlat(s) == Move(s, "claimed", "closed flat")
CloseEntered(s) == Move(s, "entered", "closed entered")

Next == \E s \in Snapshots : Claim(s) \/ Enter(s) \/ CloseFlat(s) \/ CloseEntered(s)

Spec == Init /\ [][Next]_stage
=============================================================================

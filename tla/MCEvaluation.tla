----------------------------- MODULE MCEvaluation -----------------------------
(* Evaluation with the small instances its runs check. *)
EXTENDS Evaluation

(* Two strategies; lots of 2 under a cap that is not a number of lots. *)
MCGenerators == <<"trend_continuation", "mean_reversion">>

(* What an estimate of the bootstrap can be. *)
MCPnls == {-1, 1}

(* Room for a trade that keeps two others out, at each multiplier. *)
MCGains == {-1, 2}
MCLadder == <<0, 1, 2>>

(* Two symbols, the client's default retries and threshold. *)
MCSpecs == <<"A", "B">>

(* A loss, nothing and a gain of another size, so that sums tell them apart. *)
MCStepReturns == {-1, 0, 2}
=============================================================================

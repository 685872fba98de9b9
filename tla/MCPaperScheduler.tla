-------------------------- MODULE MCPaperScheduler --------------------------
(* PaperScheduler on a small instance: two snapshots of one symbol, which    *)
(* compete for it, and one of another.                                       *)
EXTENDS PaperScheduler

CONSTANTS a1, a2, b1, A, B

MCSnapshots == {a1, a2, b1}
MCSymbols == {A, B}
MCSymbolOf == [s \in MCSnapshots |-> IF s = b1 THEN B ELSE A]
=============================================================================

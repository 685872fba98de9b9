--------------------------- MODULE MCPaperRuntime ---------------------------
(* PaperRuntime on small instances: the snapshots of a run are all of one    *)
(* symbol, so that their orders meet in one position, and callers are        *)
(* interchangeable.                                                          *)
EXTENDS PaperRuntime, TLC

CONSTANT TheSymbol

MCSymbols == {TheSymbol}
MCSymbolOf == [s \in Snapshots |-> TheSymbol]

Interchangeable == Permutations(Calls) \union Permutations(Snapshots)
=============================================================================

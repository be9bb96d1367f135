--------------------------- MODULE MCEntryPipeline ---------------------------
(* Instances of EntryPipeline for TLC: the symbols are interchangeable.    *)
EXTENDS EntryPipeline, TLC

SymbolSymmetry == Permutations(Symbols)
=============================================================================

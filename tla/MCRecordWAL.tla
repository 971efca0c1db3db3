------------------------------ MODULE MCRecordWAL ------------------------------
(* RecordWAL on a small instance.  Handlers, ids and bodies are interchangeable. *)
EXTENDS RecordWAL, TLC

Symmetry == Permutations(Handlers) \union Permutations(Ids) \union Permutations(Bodies)
==============================================================================

--------------------------- MODULE MCMemoryStore ---------------------------
(* Model-checking instances of MemoryStore: ids are interchangeable. *)
EXTENDS MemoryStore, TLC

MemorySymmetry == Permutations(MemoryId)
=============================================================================

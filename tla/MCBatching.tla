----------------------------- MODULE MCBatching -----------------------------
(* Small instances of Batching for TLC. *)
EXTENDS BatchingImplements, TLC

\* Batches, chains, workers and zaken are interchangeable.
Symmetry == Permutations(Batches) \cup Permutations(Chains)
              \cup Permutations(Workers) \cup Permutations(Zaken)
=============================================================================

--------------------------- MODULE MCIngestRouting ---------------------------
(* Small instances of IngestRouting for TLC. *)
EXTENDS RoutingImplements, TLC

\* Zaken, workers and rows are interchangeable.
Symmetry == Permutations(Zaken) \cup Permutations(Workers) \cup Permutations(Notifications)
=============================================================================

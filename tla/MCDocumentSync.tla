--------------------------- MODULE MCDocumentSync ---------------------------
(* Small instances of DocumentSync for TLC. *)
EXTENDS DocumentImplements, TLC

\* Jobs and zaken are interchangeable.
Symmetry == Permutations(Jobs) \cup Permutations(Zaken)
=============================================================================

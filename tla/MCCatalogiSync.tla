--------------------------- MODULE MCCatalogiSync ---------------------------
(* Small instances of CatalogiSync for TLC. *)
EXTENDS CatalogiImplements

CONSTANTS c1, z1

OneCatalogus == [z \in {z1} |-> c1]
=============================================================================

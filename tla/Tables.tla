------------------------------- MODULE Tables -------------------------------
(* A database table, a queue or the set of running jobs, as a function from *)
(* the keys that are there to their rows.                                   *)

Empty == [k \in {} |-> {}]

\* A table with one more, or one changed, row, and with one row less.
Put(table, key, row) ==
  [k \in DOMAIN table \cup {key} |-> IF k = key THEN row ELSE table[k]]
Drop(table, key) == [k \in DOMAIN table \ {key} |-> table[k]]

\* A table that holds rows of one type under keys of one set.
IsTable(table, Keys, Rows) == DOMAIN table \subseteq Keys /\ table \in [DOMAIN table -> Rows]
=============================================================================

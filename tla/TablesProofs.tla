---------------------------- MODULE TablesProofs ----------------------------
(* Lemmas about tables, for the proofs about the modules that have them. *)
EXTENDS Tables, TLAPS

\* A table without rows is a table of any type.
LEMMA EmptyIsTable ==
  ASSUME NEW Keys, NEW Rows
  PROVE  IsTable(Empty, Keys, Rows)
BY DEF IsTable, Empty

\* A table stays a table when a row is put in it.
LEMMA PutIsTable ==
  ASSUME NEW Keys, NEW Rows, NEW table, IsTable(table, Keys, Rows),
         NEW key \in Keys, NEW row \in Rows
  PROVE  IsTable(Put(table, key, row), Keys, Rows)
BY DEF IsTable, Put

\* A table stays a table when a row is taken from it.
LEMMA DropIsTable ==
  ASSUME NEW Keys, NEW Rows, NEW table, IsTable(table, Keys, Rows), NEW key
  PROVE  IsTable(Drop(table, key), Keys, Rows)
BY DEF IsTable, Drop

\* A row of a table has the type of its rows.
LEMMA RowOfTable ==
  ASSUME NEW Keys, NEW Rows, NEW table, IsTable(table, Keys, Rows), NEW key \in DOMAIN table
  PROVE  key \in Keys /\ table[key] \in Rows
BY DEF IsTable
=============================================================================

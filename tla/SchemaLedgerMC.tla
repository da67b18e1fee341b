---------------------------- MODULE SchemaLedgerMC ----------------------------
(* Five migrations shaped like 0001, 0003, 0004, 0007 and 0009. *)
EXTENDS SchemaLedger

MCNeeds == [m \in 1..5 |-> CASE m = 3 -> {2} [] m = 5 -> {1} [] OTHER -> {}]

=============================================================================

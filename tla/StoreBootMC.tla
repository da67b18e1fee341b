----------------------------- MODULE StoreBootMC -----------------------------
(* Four migrations shaped like 0001, 0003, 0004 and 0009. *)
EXTENDS StoreBoot

MCNeeds == [m \in 1..4 |-> CASE m = 3 -> {2} [] m = 4 -> {1} [] OTHER -> {}]

=============================================================================

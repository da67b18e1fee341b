---------------------------- MODULE OwnerSessionMC ----------------------------
(* OwnerSession with two passphrases beside the deployed one, one too short. *)
EXTENDS OwnerSession, TLC

Symmetry == Permutations(Requests)

=============================================================================

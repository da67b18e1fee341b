------------------------------- MODULE CorpusMC -------------------------------
(* Corpus on a small instance. *)
EXTENDS Corpus, TLC

Symmetry == Permutations(Requests) \cup Permutations(TermNames) \cup Permutations(Texts)

=============================================================================

---------------------------- MODULE OAuthGrantsMC ----------------------------
(* OAuthGrants on a small instance. *)
EXTENDS OAuthGrants, TLC

\* Ids of one kind are interchangeable: no action or property orders them.
Symmetry ==
    Permutations(Clients) \cup Permutations(Verifiers) \cup Permutations(Codes)
        \cup Permutations(Tokens) \cup Permutations(Requests)

=============================================================================

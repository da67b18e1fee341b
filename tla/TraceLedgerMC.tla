---------------------------- MODULE TraceLedgerMC ----------------------------
(***************************************************************************)
(* TraceLedger with four spellings: one short word, one longer than        *)
(* MAX_KEYWORD, what is left of it when clipped, and one that normalises   *)
(* to nothing.                                                             *)
(***************************************************************************)
EXTENDS TraceLedger, TLC

MCSpellings == {"mcp", "long", "clipped", "*"}

MCClip == [s \in MCSpellings |-> IF s = "long" THEN "clipped" ELSE s]

MCNorm ==
    [s \in MCSpellings |->
        CASE s = "mcp" -> "k:mcp"
          [] s = "long" -> "k:long"
          [] s = "clipped" -> "k:clipped"
          [] OTHER -> "none"]

Symmetry == Permutations(Slots)

=============================================================================

----------------------------- MODULE MCSpRouting -----------------------------
(* Small instances of SpRouting: every SP has an operator of its own.       *)
EXTENDS SpRouting, TLC

OwnOperator == [id \in SPs |-> id]
AlsoMalformed == (Endpoints \ ForcedTo) \union {Malformed}

Symmetric ==
  Permutations(Callers) \union Permutations(Endpoints \ ForcedTo)
    \union Permutations(Families)

=============================================================================

---------------------------- MODULE MCOffChainAuth ----------------------------
(* A small instance of OffChainAuth: clients of both versions, two of the     *)
(* first with different keys, one with a fixed endpoint, one with neither.    *)
EXTENDS OffChainAuth

CONSTANTS k1, k2

Option(kind, seed, register, forced) ==
  [kind |-> kind, seed |-> seed, register |-> register, forced |-> forced]

EachOption ==
  {Option("v1", k1, TRUE, FALSE), Option("v1", k2, TRUE, FALSE),
   Option("v1", k1, FALSE, TRUE), Option("v2", k1, TRUE, FALSE),
   Option("v2", k2, TRUE, TRUE), Option("account", NoKey, TRUE, FALSE)}

=============================================================================

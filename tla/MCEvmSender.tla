----------------------------- MODULE MCEvmSender -----------------------------
(* Small instances of EvmSender.                                            *)
EXTENDS EvmSender, TLC

\* One operation of each kind: a creation and its tags, a payment, a Cosmos message.
EachWay == {CreateBucket, Deposit, Cosmos}

Symmetric == Permutations(Threads)

=============================================================================

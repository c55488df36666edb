-------------------------- MODULE MCCrossChainBatch --------------------------
(* A small instance of CrossChainBatch: one message of every way to pay.      *)
EXTENDS CrossChainBatch

EachWay ==
  {CreateGroupCallBack, DeletePolicyCallBack, TransferOut,
   Executor("Deposit")}

\* The fees before and after a change of all three.
Tables == {[relay |-> 2, minAck |-> 3, price |-> 1],
           [relay |-> 1, minAck |-> 4, price |-> 2]}

=============================================================================

--------------------------- MODULE CrossChainBatch ---------------------------
(***************************************************************************)
(* Cross-chain messages in batches: bsctypes/ builds them, bsc/ sends a     *)
(* batch as one transaction of the default account.                        *)
(*                                                                         *)
(* A caller reads the relay fees (GetMinAckRelayFee) and the price of a    *)
(* callback's gas (GetCallbackGasPrice), appends messages, each with the    *)
(* value that pays for it, and sends them (SendMessages or Execute, through *)
(* SendTx).  Later it asks for the receipt (CheckTxStatus), or sends the    *)
(* same data again with the nonce of the transaction that is pending.       *)
(* Errors on the way are log.Fatal in most places: they end the process,    *)
(* and every caller with it.                                               *)
(*                                                                         *)
(* Callers are goroutines with one client.  The contracts and the node are  *)
(* external: the fees may change between two steps, the node takes the      *)
(* transactions of an account in the order of their nonces.                *)
(***************************************************************************)
EXTENDS Integers, Sequences, FiniteSets

CONSTANTS
  Callers,      \* the goroutines
  Accounts,     \* accounts the client may be given
  Ops,          \* the message operations they use
  FeeTables,    \* values the fees on chain may have
  GasLimits,    \* callback gas limits they ask for
  Amounts,      \* amounts they transfer
  NoAck,        \* RelayFeeOption is not given, or without AckRelayFee
  Acks,         \* AckRelayFee they give
  MaxWork       \* bound: batches, messages and changes of fees and account

Table == [relay : Nat, minAck : Nat, price : Nat]

ASSUME FeesAssumption ==
  /\ FeeTables \subseteq Table
  /\ FeeTables # {}
  /\ GasLimits \subseteq Nat /\ Amounts \subseteq Nat
  /\ Acks \subseteq Nat /\ NoAck \notin Nat
ASSUME BoundsAssumption == MaxWork \in Nat

VARIABLES
  pc,         \* where each caller is
  call,       \* the batch it builds and the transaction it sends
  begun,      \* batches each caller has begun
  account,    \* the client's default account
  alive,      \* the process runs
  fees,       \* relayFee, minAckRelayFee and callbackGasPrice on chain
  committed,  \* nonce of each account in the last block
  pool,       \* transactions the node has taken and no block has
  executed,   \* transactions in blocks, in their order, with their status
  work        \* batches, messages and changes so far

\* History; no guard reads it.
VARIABLES
  auxDisturbed,  \* requests failed, or callers got in each other's way
  auxSwitched    \* the default account was changed

callerVars == <<pc, call, begun>>
clientVars == <<account, alive>>
chainVars == <<fees, committed, pool, executed>>
auxVars == <<auxDisturbed, auxSwitched>>
vars == <<callerVars, clientVars, chainVars, work, auxVars>>

-----------------------------------------------------------------------------
(* The messages.                                                            *)

Op(name, target, pays) == [name |-> name, target |-> target, pays |-> pays]
Plain(name, hub) == Op(name, hub, "plain")
WithCallBack(name, hub) == Op(name, hub, "callback")

CreateBucket == Plain("prepareCreateBucket", "BucketHub")
CreateBucketCallBack == WithCallBack("prepareCreateBucket0", "BucketHub")
DeleteBucket == Plain("prepareDeleteBucket", "BucketHub")
DeleteBucketCallBack == WithCallBack("prepareDeleteBucket0", "BucketHub")
DeleteObject == Plain("prepareDeleteObject", "ObjectHub")
DeleteObjectCallBack == WithCallBack("prepareDeleteObject0", "ObjectHub")
CreateGroup == Plain("prepareCreateGroup0", "GroupHub")
CreateGroupCallBack == WithCallBack("prepareCreateGroup", "GroupHub")
DeleteGroup == Plain("prepareDeleteGroup", "GroupHub")
DeleteGroupCallBack == WithCallBack("prepareDeleteGroup0", "GroupHub")
UpdateGroup == Plain("prepareUpdateGroup0", "GroupHub")
UpdateGroupCallBack == WithCallBack("prepareUpdateGroup", "GroupHub")
CreatePolicy == Plain("prepareCreatePolicy", "PermissionHub")
CreatePolicyCallBack == Op("prepareCreatePolicy0", "PermissionHub", "checked")
DeletePolicy == Plain("prepareDeletePolicy", "PermissionHub")
DeletePolicyCallBack == Op("prepareDeletePolicy0", "PermissionHub", "checked")
TransferOut == Op("prepareTransferOut", "TokenHub", "amount")

\* The executor's messages have a type, 1 to 13, here its name, and no value.
Executor(type) == Op(type, "MocaExecutor", "nothing")

ExecutorOps ==
  {Executor("CreatePaymentAccount"), Executor("Deposit"),
   Executor("DisableRefund"), Executor("Withdraw"), Executor("MigrateBucket"),
   Executor("CancelMigrateBucket"), Executor("UpdateBucketInfo"),
   Executor("ToggleSPAsDelegatedAgent"), Executor("SetBucketFlowRateLimit"),
   Executor("CopyObject"), Executor("UpdateObjectInfo"),
   Executor("UpdateGroupExtra"), Executor("SetTag")}

MessageOps ==
  {CreateBucket, CreateBucketCallBack, DeleteBucket, DeleteBucketCallBack,
   DeleteObject, DeleteObjectCallBack, CreateGroup, CreateGroupCallBack,
   DeleteGroup, DeleteGroupCallBack, UpdateGroup, UpdateGroupCallBack,
   CreatePolicy, CreatePolicyCallBack, DeletePolicy, DeletePolicyCallBack,
   TransferOut}

ASSUME OpsAssumption == Ops \subseteq MessageOps \cup ExecutorOps

\* What a caller asks for: a callback has a gas limit and perhaps an AckRelayFee.
Arg == [gas : GasLimits \cup {0}, ack : Acks \cup {NoAck}, amount : Amounts \cup {0}]

Args(op) ==
  [gas : IF op.pays = "callback" THEN GasLimits ELSE {0},
   ack : IF op.pays \in {"callback", "checked"} THEN Acks \cup {NoAck} ELSE {NoAck},
   amount : IF op.pays = "amount" THEN Amounts ELSE {0}]

AckFee(table, arg) == IF arg.ack = NoAck THEN table.minAck ELSE arg.ack

\* The callback's gas is not paid for.
calculateCallBackFee_NoGas(table, arg) == table.relay + AckFee(table, arg)

calculateCallBackFee(table, arg) ==
  table.relay + AckFee(table, arg) + arg.gas * table.price

\* The value of a message, from the fees its builder was made with.  A message
\* without a callback has no AckRelayFee, one that is no transfer no amount.
Fee(op, arg, table) ==
  IF op.pays = "nothing" THEN 0
  ELSE IF op.pays = "callback" THEN calculateCallBackFee(table, arg)
  ELSE table.relay + AckFee(table, arg) + arg.amount

\* The callbacks of policies refuse an AckRelayFee below the minimum.
Refused(op, arg, table) == op.pays = "checked" /\ AckFee(table, arg) < table.minAck

\* Build makes lists of targets, data and values; the messages stay in them.
Message(op, arg, table) ==
  [target |-> op.target, data |-> [op |-> op.name, arg |-> arg],
   value |-> Fee(op, arg, table)]

\* The sum of numbers one after the other.
Total(numbers) ==
  LET sum[n \in 0..Len(numbers)] == IF n = 0 THEN 0 ELSE sum[n - 1] + numbers[n]
  IN  sum[Len(numbers)]

\* What SendMessages sends along: the values' sum; Execute, one relay fee.
ValueSent(tx) ==
  IF tx.kind = "executor" THEN tx.table.relay
  ELSE Total([i \in 1..Len(tx.messages) |-> tx.messages[i].value])

\* What the contracts ask for: each message pays for its way and the way back,
\* a callback for its gas, a transfer for its amount.
Owed(arg, table) ==
  table.relay + table.minAck + arg.gas * table.price + arg.amount

Pays(tx, table) ==
  IF tx.kind = "executor" THEN ValueSent(tx) >= table.relay
  ELSE /\ tx.messages # <<>>
       /\ \A i \in DOMAIN tx.messages :
            tx.messages[i].value >= Owed(tx.messages[i].data.arg, table)
       /\ ValueSent(tx) >=
            Total([i \in 1..Len(tx.messages) |-> Owed(tx.messages[i].data.arg, table)])

-----------------------------------------------------------------------------

NoTable == CHOOSE table \in FeeTables : TRUE

NoAccount == CHOOSE a \in Accounts : TRUE

\* table: the fees read; given: the nonce it gives SendTx, 0 for none; again: it
\* sends this batch for the second time; hash: it has the second's hash.
Idle == [kind |-> "multi", table |-> NoTable, messages |-> <<>>, given |-> 0,
         nonce |-> 0, from |-> NoAccount, again |-> FALSE, hash |-> FALSE]

Init ==
  /\ pc = [c \in Callers |-> "idle"]
  /\ call = [c \in Callers |-> Idle]
  /\ begun = [c \in Callers |-> 0]
  /\ account \in Accounts
  /\ alive = TRUE
  /\ fees \in FeeTables
  /\ committed = [a \in Accounts |-> 0]
  /\ pool = {}
  /\ executed = <<>>
  /\ work = 0
  /\ auxDisturbed = FALSE
  /\ auxSwitched = FALSE

\* What makes the model larger counts.
Works == work < MaxWork /\ work' = work + 1

At(c, where) == alive /\ pc[c] = where

Goto(c, where) == pc' = [pc EXCEPT ![c] = where]

\* log.Fatal: the process ends, with all its callers had in memory.
Fatal ==
  /\ alive' = FALSE
  /\ pc' = [c \in Callers |-> "idle"]
  /\ call' = [c \in Callers |-> Idle]
  /\ begun' = [c \in Callers |-> 0]
  /\ UNCHANGED account

\* PendingNonceAt: the first nonce of the account the node has nothing for.
Pending(a) ==
  LET taken == {tx.nonce : tx \in {t \in pool : t.from = a}}
  IN  CHOOSE n \in committed[a]..(committed[a] + Cardinality(taken)) :
        /\ n \notin taken
        /\ \A k \in committed[a]..(n - 1) : k \in taken

\* The transaction a caller is about to send, or has sent.
Tx(c) ==
  [by |-> c, batch |-> begun[c], again |-> call[c].again, from |-> call[c].from,
   nonce |-> call[c].nonce, kind |-> call[c].kind, table |-> call[c].table,
   messages |-> call[c].messages]

\* The blocks' receipts for the hash the caller has.
Receipts(c) ==
  {i \in DOMAIN executed : /\ executed[i].tx.by = c
                           /\ executed[i].tx.batch = begun[c]
                           /\ executed[i].tx.again = call[c].hash}

-----------------------------------------------------------------------------
(* Building a batch.                                                        *)

\* NewMessages or NewExecutorBatchedMessage is about to be given the fees.
Begin(c, kind) ==
  /\ At(c, "idle")
  /\ Works
  /\ begun' = [begun EXCEPT ![c] = @ + 1]
  /\ call' = [call EXCEPT ![c] = [Idle EXCEPT !.kind = kind]]
  /\ Goto(c, "fees")
  /\ UNCHANGED <<clientVars, chainVars, auxVars>>

\* Both fees are read in one call of the contract.
GetMinAckRelayFee(c) ==
  /\ At(c, "fees")
  /\ call' = [call EXCEPT ![c] =
                [@ EXCEPT !.table = [relay |-> fees.relay, minAck |-> fees.minAck,
                                     price |-> call[c].table.price]]]
  /\ Goto(c, IF call[c].kind = "multi" THEN "price" ELSE "append")
  /\ UNCHANGED <<begun, clientVars, chainVars, work, auxVars>>

GetCallbackGasPrice(c) ==
  /\ At(c, "price")
  /\ call' = [call EXCEPT ![c] =
                [@ EXCEPT !.table = [relay |-> call[c].table.relay,
                                     minAck |-> call[c].table.minAck,
                                     price |-> fees.price]]]
  /\ Goto(c, "append")
  /\ UNCHANGED <<begun, clientVars, chainVars, work, auxVars>>

\* Neither returns its error.
FeesFail(c) ==
  /\ At(c, "fees") \/ At(c, "price")
  /\ Fatal
  /\ auxDisturbed' = TRUE
  /\ UNCHANGED <<chainVars, work, auxSwitched>>

\* A message is put behind the others.
AppendMessage(c, op, arg) ==
  /\ At(c, "append")
  /\ ~call[c].again
  /\ Works
  /\ (op \in ExecutorOps) <=> (call[c].kind = "executor")
  /\ IF Refused(op, arg, call[c].table)
     THEN Fatal /\ auxDisturbed' = TRUE
     ELSE /\ call' = [call EXCEPT ![c] =
                        [@ EXCEPT !.messages =
                           Append(call[c].messages, Message(op, arg, call[c].table))]]
          /\ UNCHANGED <<pc, begun, clientVars, auxDisturbed>>
  /\ UNCHANGED <<chainVars, auxSwitched>>

-----------------------------------------------------------------------------
(* Sending it.                                                              *)

\* SendMessages and Execute leave the nonce to SendTx.
Send(c) ==
  /\ At(c, "append")
  /\ Goto(c, "nonce")
  /\ UNCHANGED <<call, begun, clientVars, chainVars, work, auxVars>>

\* SendTx takes every nonce for none.
SendAgain_NonceDropped(c) ==
  /\ At(c, "sent")
  /\ ~call[c].again
  /\ Receipts(c) = {}
  /\ call' = [call EXCEPT ![c] = [@ EXCEPT !.again = TRUE]]
  /\ Goto(c, "nonce")
  /\ UNCHANGED <<begun, clientVars, chainVars, work, auxVars>>

\* The caller has no receipt yet and calls SendTx itself, with the same data and
\* the nonce of the transaction it has sent.
SendAgain(c) ==
  /\ At(c, "sent")
  /\ ~call[c].again
  /\ Receipts(c) = {}
  /\ call' = [call EXCEPT ![c] = [@ EXCEPT !.given = call[c].nonce, !.again = TRUE]]
  /\ Goto(c, "nonce")
  /\ UNCHANGED <<begun, clientVars, chainVars, work, auxVars>>

\* Callers that have a nonce of the account and whose transaction the node has
\* not taken yet.
Holding(a) == {c \in Callers : /\ pc[c] \in {"sign", "submit"}
                               /\ call[c].given = 0 /\ account = a}

\* The nonce of the account's last block is read, not the pending one.
ReadNonce_Committed(c) ==
  /\ At(c, "nonce")
  /\ call' = [call EXCEPT ![c] =
                [@ EXCEPT !.nonce = IF call[c].given = 0 THEN committed[account]
                                    ELSE call[c].given]]
  /\ auxDisturbed' = (auxDisturbed \/ Holding(account) # {})
  /\ Goto(c, "sign")
  /\ UNCHANGED <<begun, clientVars, chainVars, work, auxSwitched>>

\* The last nonce used, not the next.
ReadNonce_LastUsed(c) ==
  /\ At(c, "nonce")
  /\ call' = [call EXCEPT ![c] =
                [@ EXCEPT !.nonce = IF call[c].given = 0 THEN Pending(account) - 1
                                    ELSE call[c].given]]
  /\ auxDisturbed' = (auxDisturbed \/ Holding(account) # {})
  /\ Goto(c, "sign")
  /\ UNCHANGED <<begun, clientVars, chainVars, work, auxSwitched>>

\* SendTx: nonce 0 is none.
ReadNonce(c) ==
  /\ At(c, "nonce")
  /\ call' = [call EXCEPT ![c] =
                [@ EXCEPT !.nonce = IF call[c].given = 0 THEN Pending(account)
                                    ELSE call[c].given]]
  /\ auxDisturbed' = (auxDisturbed \/ Holding(account) # {})
  /\ Goto(c, "sign")
  /\ UNCHANGED <<begun, clientVars, chainVars, work, auxSwitched>>

\* The gas price and the chain's id are read, and the default account signs.
Sign(c) ==
  /\ At(c, "sign")
  /\ call' = [call EXCEPT ![c] = [@ EXCEPT !.from = account]]
  /\ Goto(c, "submit")
  /\ UNCHANGED <<begun, clientVars, chainVars, work, auxVars>>

\* The node takes a nonce that is not in a block.  A nonce it has a transaction
\* for is taken when the price is higher, and the other one is dropped.
Takes(tx) ==
  /\ tx.nonce >= committed[tx.from]
  /\ \/ tx.again
     \/ \A other \in pool : ~(other.from = tx.from /\ other.nonce = tx.nonce)

Enter(tx) ==
  pool' = {other \in pool : ~(other.from = tx.from /\ other.nonce = tx.nonce)}
            \cup {tx}

\* The caller goes on with the hash of its first transaction.
Submit_KeepsHash(c) ==
  /\ At(c, "submit")
  /\ Takes(Tx(c))
  /\ Enter(Tx(c))
  /\ Goto(c, "sent")
  /\ UNCHANGED <<call, begun, clientVars, fees, committed, executed, work, auxVars>>

Submit(c) ==
  /\ At(c, "submit")
  /\ Takes(Tx(c))
  /\ Enter(Tx(c))
  /\ call' = [call EXCEPT ![c] = [@ EXCEPT !.hash = call[c].again]]
  /\ Goto(c, "sent")
  /\ UNCHANGED <<begun, clientVars, fees, committed, executed, work, auxVars>>

\* SendMessages and Execute end the process on an error of SendTx; a caller of
\* SendTx gets it, and still has the hash of the first transaction.
SendFails(c) ==
  IF call[c].again
  THEN Goto(c, "sent") /\ UNCHANGED <<call, begun, clientVars>>
  ELSE Fatal

\* The node refuses: the nonce is used.
SubmitRefused(c) ==
  /\ At(c, "submit")
  /\ ~Takes(Tx(c))
  /\ SendFails(c)
  /\ UNCHANGED <<chainVars, work, auxVars>>

\* A request fails, the last one before or after the node took the transaction.
SendRequestFails(c) ==
  /\ At(c, "nonce") \/ At(c, "sign") \/ At(c, "submit")
  /\ SendFails(c)
  /\ auxDisturbed' = TRUE
  /\ \/ UNCHANGED pool
     \/ pc[c] = "submit" /\ Takes(Tx(c)) /\ Enter(Tx(c))
  /\ UNCHANGED <<fees, committed, executed, work, auxSwitched>>

-----------------------------------------------------------------------------
(* The receipt.                                                             *)

\* The call ends with the receipt's status.
CheckTxStatus(c) ==
  /\ At(c, "sent")
  /\ Receipts(c) # {}
  /\ Goto(c, "idle")
  /\ call' = [call EXCEPT ![c] = Idle]
  /\ UNCHANGED <<begun, clientVars, chainVars, work, auxVars>>

\* There is no receipt yet, or the request fails.
CheckFails(c) ==
  /\ At(c, "sent")
  /\ Fatal
  /\ auxDisturbed' = TRUE
  /\ UNCHANGED <<chainVars, work, auxSwitched>>

-----------------------------------------------------------------------------
(* The client's account, and the chain.                                     *)

SetDefaultAccount(a) ==
  /\ alive
  /\ Works
  /\ a # account
  /\ account' = a
  /\ auxSwitched' = TRUE
  /\ UNCHANGED <<callerVars, alive, chainVars, auxDisturbed>>

ChangeFees(table) ==
  /\ Works
  /\ table # fees
  /\ fees' = table
  /\ UNCHANGED <<callerVars, clientVars, committed, pool, executed, auxVars>>

\* A block takes a transaction; it reverts unless it pays.
Commit(tx) ==
  /\ tx \in pool
  /\ tx.nonce = committed[tx.from]
  /\ pool' = pool \ {tx}
  /\ committed' = [committed EXCEPT ![tx.from] = @ + 1]
  /\ executed' = Append(executed, [tx |-> tx, ok |-> Pays(tx, fees), fees |-> fees])
  /\ UNCHANGED <<callerVars, clientVars, fees, work, auxVars>>

-----------------------------------------------------------------------------

Building(c) ==
  \/ \E kind \in {"multi", "executor"} : Begin(c, kind)
  \/ GetMinAckRelayFee(c)
  \/ GetCallbackGasPrice(c)
  \/ FeesFail(c)
  \/ \E op \in Ops : \E arg \in Args(op) : AppendMessage(c, op, arg)

Sending(c) ==
  \/ Send(c)
  \/ SendAgain(c)
  \/ ReadNonce(c)
  \/ Sign(c)
  \/ Submit(c)
  \/ SubmitRefused(c)
  \/ SendRequestFails(c)

Next ==
  \/ \E c \in Callers : Building(c) \/ Sending(c) \/ CheckTxStatus(c) \/ CheckFails(c)
  \/ \E a \in Accounts : SetDefaultAccount(a)
  \/ \E table \in FeeTables : ChangeFees(table)
  \/ \E tx \in pool : Commit(tx)

\* Blocks go on taking transactions.  No caller has to do anything.
Fairness == WF_vars(\E tx \in pool : Commit(tx))

Spec == Init /\ [][Next]_vars /\ Fairness

-----------------------------------------------------------------------------
(* Properties.                                                              *)

MessageType ==
  [target : {op.target : op \in MessageOps \cup ExecutorOps},
   data : [op : {op.name : op \in MessageOps \cup ExecutorOps}, arg : Arg],
   value : Nat]

CallType ==
  [kind : {"multi", "executor"}, table : Table,
   messages : Seq(MessageType), given : Nat, nonce : Nat, from : Accounts,
   again : BOOLEAN, hash : BOOLEAN]

TxType ==
  [by : Callers, batch : 0..MaxWork, again : BOOLEAN, from : Accounts, nonce : Nat,
   kind : {"multi", "executor"}, table : Table,
   messages : Seq(MessageType)]

\* The state stays in its types: no nonce is negative, and nothing but what a
\* caller built is in a block.
TypeOK ==
  /\ pc \in [Callers -> {"idle", "fees", "price", "append", "nonce", "sign",
                         "submit", "sent"}]
  /\ call \in [Callers -> CallType]
  /\ begun \in [Callers -> 0..MaxWork]
  /\ account \in Accounts /\ alive \in BOOLEAN
  /\ fees \in FeeTables
  /\ committed \in [Accounts -> Nat]
  /\ pool \subseteq TxType
  /\ executed \in Seq([tx : TxType, ok : BOOLEAN, fees : FeeTables])
  /\ work \in 0..MaxWork
  /\ auxDisturbed \in BOOLEAN /\ auxSwitched \in BOOLEAN

\* A batch reverts only if it is empty, the fees are not those it was built
\* with, or a callback was given an AckRelayFee below the minimum, which
\* calculateCallBackFee does not check: what the builders add up and SendMessages
\* sums is otherwise what the contracts ask for.
RevertsForCause ==
  \A i \in DOMAIN executed :
    LET tx == executed[i].tx
    IN  ~executed[i].ok =>
          IF tx.kind = "executor" THEN tx.table.relay # executed[i].fees.relay
          ELSE \/ tx.messages = <<>>
               \/ tx.table # executed[i].fees
               \/ \E j \in DOMAIN tx.messages :
                    LET ack == tx.messages[j].data.arg.ack
                    IN  ack # NoAck /\ ack < tx.table.minAck

\* A batch that is sent again with its nonce is executed once, whatever a block
\* takes meanwhile: but not if that nonce is 0, which SendTx takes for none, nor
\* if another account became the default and signs it.
ExecutedOnce ==
  \A i, j \in DOMAIN executed :
    LET first == executed[i].tx
        second == executed[j].tx
    IN  i < j /\ first.by = second.by /\ first.batch = second.batch
          => auxSwitched \/ first.nonce = 0

\* The process ends for a refused nonce only if two callers held the same one, or
\* the nonce was another account's.
FatalHasCause == alive \/ auxDisturbed \/ auxSwitched

\* A caller that has sent a batch gets a receipt for the hash it has, though it
\* sends it again, unless its process ends, an answer is lost or two callers or
\* accounts get mixed up.
SentHasReceipt ==
  \A c \in Callers :
    pc[c] = "sent" ~>
      Receipts(c) # {} \/ pc[c] # "sent" \/ ~alive \/ auxDisturbed \/ auxSwitched

(***************************************************************************)
(* The inductive invariant that the safety properties follow from.         *)
(***************************************************************************)

\* What the node ever took and did not drop for another transaction.
Taken == pool \cup {executed[i].tx : i \in DOMAIN executed}

\* Blocks take the nonces of an account one after the other, each once.
InOrder ==
  /\ IsFiniteSet(pool)
  /\ \A tx \in pool : tx.nonce >= committed[tx.from]
  /\ \A tx, other \in pool :
       tx.from = other.from /\ tx.nonce = other.nonce => tx = other
  /\ \A i \in DOMAIN executed :
       executed[i].tx.nonce < committed[executed[i].tx.from]
  /\ \A i, j \in DOMAIN executed :
       i < j /\ executed[i].tx.from = executed[j].tx.from
         => executed[i].tx.nonce < executed[j].tx.nonce

\* Only what is sent again has a nonce of its own, and keeps it.
CallProgress ==
  \A c \in Callers :
    /\ begun[c] <= work
    /\ ~call[c].again => call[c].given = 0
    /\ pc[c] \in {"fees", "price", "append"} => ~call[c].again
    /\ pc[c] \in {"fees", "price"} => call[c].messages = <<>>
    /\ pc[c] \in {"sign", "submit"} /\ call[c].given # 0
         => call[c].nonce = call[c].given

\* Nothing of a batch is taken before it is sent, and what is taken has the nonce
\* that it is sent again with.
BatchProgress ==
  \A tx \in Taken : alive =>
    LET c == tx.by
    IN  /\ tx.batch <= begun[c]
        /\ tx.batch = begun[c] =>
             /\ pc[c] \notin {"fees", "price", "append"}
             /\ pc[c] \in {"nonce", "sign", "submit"}
                  => call[c].again /\ tx.nonce = call[c].given
             /\ pc[c] = "sent" /\ ~call[c].again => tx.nonce = call[c].nonce

\* A batch has one nonce, unless one of its transactions had the nonce 0.
OneNonce ==
  \A tx, other \in Taken :
    tx.by = other.by /\ tx.batch = other.batch
      => tx.nonce = other.nonce \/ tx.nonce = 0 \/ other.nonce = 0

\* Unless it is switched, one account signs everything.
OneAccount ==
  ~auxSwitched =>
    /\ \A tx \in Taken : tx.from = account
    /\ \A c \in Callers : pc[c] = "submit" => call[c].from = account

Used(a, nonce) ==
  nonce < committed[a] \/ \E tx \in pool : tx.from = a /\ tx.nonce = nonce

\* The nonce of what was sent is used, and remains so.
SentIsUsed ==
  ~auxSwitched =>
    \A c \in Callers :
      /\ pc[c] = "sent" /\ ~call[c].again => Used(account, call[c].nonce)
      /\ pc[c] \in {"nonce", "sign", "submit"} /\ call[c].again
           => Used(account, call[c].given)

\* The nonce a caller holds is free, unless it was disturbed.
HeldIsFree ==
  ~auxDisturbed /\ ~auxSwitched =>
    /\ \A c \in Holding(account) : ~Used(account, call[c].nonce)
    /\ \A c, d \in Holding(account) : c = d

\* Every message that was appended pays for itself with the fees of its batch, but
\* for an AckRelayFee below the minimum.
Priced(kind, table, messages) ==
  kind = "multi" =>
    \A i \in DOMAIN messages :
      LET arg == messages[i].data.arg
      IN  \/ messages[i].value >= Owed(arg, table)
          \/ arg.ack # NoAck /\ arg.ack < table.minAck

BatchesPriced ==
  /\ \A c \in Callers : Priced(call[c].kind, call[c].table, call[c].messages)
  /\ \A tx \in Taken : Priced(tx.kind, tx.table, tx.messages)

IInv ==
  /\ TypeOK
  /\ InOrder /\ CallProgress /\ BatchProgress /\ OneNonce
  /\ OneAccount /\ SentIsUsed /\ HeldIsFree /\ FatalHasCause
  /\ BatchesPriced /\ RevertsForCause

=============================================================================

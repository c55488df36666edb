----------------------------- MODULE EvmSender -----------------------------
(***************************************************************************)
(* Sending transactions: the send...EvmTx functions of client/, which read *)
(* a nonce, sign with the client's private key and send, and sendTxn,      *)
(* which broadcasts a Cosmos message of the default account.               *)
(*                                                                         *)
(* One Client is used by several threads, none of which locks anything     *)
(* between reading a nonce and sending.  The node takes a transaction only *)
(* with the next nonce of its account and answers "invalid nonce" or       *)
(* "invalid sequence" to any other, the answers sendSetTagEvmTxn handles.  *)
(***************************************************************************)
EXTENDS Naturals, Sequences

CONSTANTS
  Threads,     \* the goroutines that use the client
  Accounts,    \* accounts callers make the default one
  KeyAccount,  \* the account of the private key given to New
  Ops,         \* the operations called
  MaxCalls,    \* bound: calls of one thread
  MaxFaults    \* bound: requests that fail and transactions that are evicted

VARIABLES
  default,    \* the default account
  log,        \* transactions of each account, in the order of their nonces
  committed,  \* how many of them are in a block
  pc,         \* where the call of each thread is
  call,       \* its operation, stage, nonce and retry
  out,        \* how the thread's last call ended
  faults      \* faults so far

\* History; no guard reads it.
VARIABLES
  auxAccepted,  \* all transactions the node ever took
  auxDisturbed  \* the threads that had a nonce when their account changed

nodeVars == <<log, committed, auxAccepted>>
threadVars == <<pc, call, out>>
vars == <<default, nodeVars, threadVars, faults, auxDisturbed>>

-----------------------------------------------------------------------------
(* The operations: where the nonce comes from, and whether tags follow.     *)

Storage(name) == [name |-> name, session |-> "storage", tagged |-> FALSE]
Tagged(name) == [name |-> name, session |-> "storage", tagged |-> TRUE]
Payment(name) == [name |-> name, session |-> "payment", tagged |-> FALSE]

CreateBucket == Tagged("CreateBucket")
DeleteBucket == Storage("DeleteBucket")
UpdateBucketInfo == Storage("UpdateBucketInfo")
PutPolicy == Storage("PutPolicy")
DeletePolicy == Storage("DeletePolicy")
MigrateBucket == Storage("MigrateBucket")
CreateGroup == Tagged("CreateGroup")
DeleteGroup == Storage("DeleteGroup")
UpdateGroupMember == Storage("UpdateGroupMember")
RenewGroupMember == Storage("RenewGroupMember")
CreateObject == Tagged("CreateObject")
DeleteObject == Storage("DeleteObject")
CancelCreateObject == Storage("CancelCreateObject")
UpdateObjectInfo == Storage("UpdateObjectInfo")
SetTag == Storage("SetTag")
CreatePaymentAccount == Payment("CreatePaymentAccount")
Deposit == Payment("Deposit")
Withdraw == Payment("Withdraw")
Transfer == [name |-> "Transfer", session |-> "transfer", tagged |-> FALSE]
Cosmos == [name |-> "sendTxn", session |-> "cosmos", tagged |-> FALSE]

AllOps ==
  {CreateBucket, DeleteBucket, UpdateBucketInfo, PutPolicy, DeletePolicy,
   MigrateBucket, CreateGroup, DeleteGroup, UpdateGroupMember,
   RenewGroupMember, CreateObject, DeleteObject, CancelCreateObject,
   UpdateObjectInfo, SetTag, CreatePaymentAccount, Deposit, Withdraw,
   Transfer, Cosmos}

ASSUME KeyAssumption == KeyAccount \in Accounts
ASSUME OpsAssumption == Ops \subseteq AllOps
ASSUME BoundsAssumption == MaxCalls \in Nat /\ MaxFaults \in Nat

MaxNonceRetryTime == 3

\* A transaction: who sent it in which call and stage.
Entry == [thread : Threads, number : 1..MaxCalls, stage : {"main", "tag"}]

CallState == [op : AllOps, number : 0..MaxCalls, stage : {"main", "tag"},
              nonce : Nat, retry : 0..MaxNonceRetryTime-1]

Idle == [op |-> SetTag, number |-> 0, stage |-> "main",
         nonce |-> 0, retry |-> 0]

Init ==
  /\ default = KeyAccount
  /\ log = [a \in Accounts |-> <<>>]
  /\ committed = [a \in Accounts |-> 0]
  /\ pc = [t \in Threads |-> "idle"]
  /\ call = [t \in Threads |-> Idle]
  /\ out = [t \in Threads |-> "none"]
  /\ faults = 0
  /\ auxAccepted = {}
  /\ auxDisturbed = {}

Goto(t, where) == pc' = [pc EXCEPT ![t] = where] /\ UNCHANGED out

Return(t, status) ==
  /\ pc' = [pc EXCEPT ![t] = "idle"]
  /\ out' = [out EXCEPT ![t] = status]

Fault == faults < MaxFaults /\ faults' = faults + 1

\* sendSetTagEvmTxn, called alone or after the creation.
IsSetTag(t) == call[t].op = SetTag \/ call[t].stage = "tag"

\* The account whose key signs: the private key's, but for Cosmos messages.
Signer(t) == IF call[t].op.session = "cosmos" THEN default ELSE KeyAccount

-----------------------------------------------------------------------------
(* The steps of a call.                                                     *)

\* Another default account; the client's private key stays.
SetDefaultAccount(a) ==
  /\ a # default
  /\ default' = a
  /\ UNCHANGED <<nodeVars, threadVars, faults, auxDisturbed>>

Call(t, op) ==
  /\ pc[t] = "idle"
  /\ call[t].number < MaxCalls
  /\ call' = [call EXCEPT ![t] =
       [op |-> op, number |-> @.number + 1, stage |-> "main",
        nonce |-> 0, retry |-> 0]]
  /\ Goto(t, "nonce")
  /\ UNCHANGED <<default, nodeVars, faults, auxDisturbed>>

\* The threads that have a nonce and send it from account a.
SendingFrom(a) == {u \in Threads : pc[u] = "send" /\ Signer(u) = a}

\* The transactions of thread t's account changed, by thread t.
DisturbAllBut(t) ==
  auxDisturbed' = auxDisturbed \union (SendingFrom(Signer(t)) \ {t})

ReadNonce_Committed(t) ==
  /\ pc[t] = "nonce"
  /\ auxDisturbed' = auxDisturbed \ {t}
  /\ call' = [call EXCEPT ![t].nonce = committed[KeyAccount]]
  /\ Goto(t, "send")
  /\ UNCHANGED <<default, nodeVars, faults>>

(***************************************************************************)
(* createStorageEvmSession and sendTransferEvmTx ask for the pending nonce *)
(* of the private key's account; createPaymentEvmSession and the Cosmos    *)
(* client for the committed sequence of the default account.               *)
(***************************************************************************)
ReadNonce(t) ==
  /\ pc[t] = "nonce"
  /\ auxDisturbed' = auxDisturbed \ {t}
  /\ call' = [call EXCEPT ![t].nonce =
       IF call[t].op.session \in {"storage", "transfer"}
       THEN Len(log[KeyAccount])
       ELSE committed[default]]
  /\ Goto(t, "send")
  /\ UNCHANGED <<default, nodeVars, faults>>

\* A request before the sending fails: no retry, and no hash of a creation.
SessionFails(t) ==
  /\ pc[t] \in {"nonce", "send"}
  /\ Fault
  /\ Return(t, "error")
  /\ UNCHANGED <<default, nodeVars, call, auxDisturbed>>

\* The transaction a thread is about to send.
Present(t) ==
  [thread |-> t, number |-> call[t].number, stage |-> call[t].stage]

\* The node takes the transaction.
Accept(t) ==
  /\ pc[t] = "send"
  /\ call[t].nonce = Len(log[Signer(t)])
  /\ log' = [log EXCEPT ![Signer(t)] = Append(@, Present(t))]
  /\ auxAccepted' = auxAccepted \union {Present(t)}
  /\ DisturbAllBut(t)
  /\ UNCHANGED <<default, committed>>

\* Tags are set by a second transaction.
SendAccepted(t) ==
  /\ Accept(t)
  /\ IF call[t].op.tagged /\ call[t].stage = "main"
     THEN /\ Goto(t, "nonce")
          /\ call' = [call EXCEPT ![t].stage = "tag"]
     ELSE Return(t, "ok") /\ UNCHANGED call
  /\ UNCHANGED faults

SendAnswerLost_SentAgain(t) ==
  /\ Accept(t)
  /\ Fault
  /\ IF IsSetTag(t) /\ call[t].retry + 1 < MaxNonceRetryTime
     THEN /\ Goto(t, "nonce")
          /\ call' = [call EXCEPT ![t].retry = @ + 1]
     ELSE Return(t, "error") /\ UNCHANGED call

\* It was taken, but the answer is lost.
SendAnswerLost(t) ==
  /\ Accept(t)
  /\ Fault
  /\ Return(t, "error")
  /\ UNCHANGED call

SendRefused_TagsAnyway(t) ==
  /\ pc[t] = "send"
  /\ call[t].nonce # Len(log[Signer(t)])
  /\ IF call[t].op.tagged \/ IsSetTag(t)
     THEN /\ Goto(t, "nonce")
          /\ call' = [call EXCEPT ![t].stage = "tag"]
     ELSE Return(t, "refused") /\ UNCHANGED call
  /\ UNCHANGED <<default, nodeVars, faults, auxDisturbed>>

SendRefused_OnceMore(t) ==
  /\ pc[t] = "send"
  /\ call[t].nonce # Len(log[Signer(t)])
  /\ IF IsSetTag(t) /\ call[t].retry < MaxNonceRetryTime
     THEN /\ Goto(t, "nonce")
          /\ call' = [call EXCEPT ![t].retry = @ + 1]
     ELSE Return(t, "refused") /\ UNCHANGED call
  /\ UNCHANGED <<default, nodeVars, faults, auxDisturbed>>

\* "invalid nonce": only the setting of tags is tried again, with a new session.
SendRefused(t) ==
  /\ pc[t] = "send"
  /\ call[t].nonce # Len(log[Signer(t)])
  /\ IF IsSetTag(t) /\ call[t].retry + 1 < MaxNonceRetryTime
     THEN /\ Goto(t, "nonce")
          /\ call' = [call EXCEPT ![t].retry = @ + 1]
     ELSE Return(t, "refused") /\ UNCHANGED call
  /\ UNCHANGED <<default, nodeVars, faults, auxDisturbed>>

-----------------------------------------------------------------------------
(* The node.                                                                *)

\* A block takes some of the pending transactions of an account.
Commit(a) ==
  /\ \E n \in committed[a]+1..Len(log[a]) :
       committed' = [committed EXCEPT ![a] = n]
  /\ UNCHANGED <<default, log, auxAccepted, threadVars, faults, auxDisturbed>>

\* A pending transaction leaves the mempool, and all with later nonces.
Evict(a) ==
  /\ \E n \in committed[a]..Len(log[a])-1 :
       log' = [log EXCEPT ![a] = SubSeq(@, 1, n)]
  /\ Fault
  /\ auxDisturbed' = auxDisturbed \union SendingFrom(a)
  /\ UNCHANGED <<default, committed, auxAccepted, threadVars>>

Next ==
  \/ \E a \in Accounts : SetDefaultAccount(a) \/ Commit(a) \/ Evict(a)
  \/ \E t \in Threads :
       \/ \E op \in Ops : Call(t, op)
       \/ ReadNonce(t) \/ SessionFails(t)
       \/ SendAccepted(t) \/ SendAnswerLost(t) \/ SendRefused(t)

Spec == Init /\ [][Next]_vars

-----------------------------------------------------------------------------
(* What sending promises.                                                   *)

\* The variables hold values of their types.
TypeOK ==
  /\ default \in Accounts
  /\ log \in [Accounts -> Seq(Entry)]
  /\ committed \in [Accounts -> Nat]
  /\ \A a \in Accounts : committed[a] <= Len(log[a])
  /\ pc \in [Threads -> {"idle", "nonce", "send"}]
  /\ call \in [Threads -> CallState]
  /\ out \in [Threads -> {"none", "ok", "refused", "error"}]
  /\ faults \in 0..MaxFaults
  /\ auxAccepted \subseteq Entry /\ auxDisturbed \subseteq Threads

\* Has the node ever taken this transaction?
Taken(t, n, stage) == [thread |-> t, number |-> n, stage |-> stage] \in auxAccepted

\* The transactions of a call, in a log.
SentAt(a, t, n, stage) ==
  {i \in 1..Len(log[a]) :
     log[a][i].thread = t /\ log[a][i].number = n /\ log[a][i].stage = stage}

\* The transactions of a call that returned a hash were taken.
OkIsTaken ==
  \A t \in Threads : out[t] = "ok" /\ pc[t] = "idle" =>
    /\ Taken(t, call[t].number, "main")
    /\ call[t].op.tagged => Taken(t, call[t].number, "tag")

(***************************************************************************)
(* The node takes each transaction of a call at most once, a refusal being *)
(* tried again only when nothing was taken, and has taken each of them if  *)
(* the call returns a hash.                                                *)
(***************************************************************************)
EachTakenOnce ==
  /\ \A a \in Accounts, t \in Threads, n \in 1..MaxCalls, stage \in {"main", "tag"} :
       \A i, j \in SentAt(a, t, n, stage) : i = j
  /\ OkIsTaken

(***************************************************************************)
(* Tags are only set once the node took the creation of what they are set  *)
(* on, and come after it; the mempool may have lost the creation since.    *)
(***************************************************************************)
TagAfterCreation ==
  \A a \in Accounts, t \in Threads, n \in 1..MaxCalls :
    \A i \in SentAt(a, t, n, "tag") :
      /\ Taken(t, n, "main")
      /\ \A j \in SentAt(a, t, n, "main") : j < i

(***************************************************************************)
(* However fast a thread calls, a storage operation or a transfer is only  *)
(* refused for its nonce when others sent, or the node lost, a transaction *)
(* of its account between its two requests.  (Payment operations and       *)
(* Cosmos messages, which use committed sequences, are refused whenever    *)
(* something is pending.)                                                  *)
(***************************************************************************)
RefusedOnlyIfDisturbed ==
  \A t \in Threads :
    pc[t] = "idle" /\ out[t] = "refused" /\ call[t].op.session \in {"storage", "transfer"}
      => t \in auxDisturbed

(***************************************************************************)
(* The inductive invariant that they follow from.  The mempool has only    *)
(* what the node took, no transaction twice and tags behind the creation;  *)
(* a call under way has not had its present transaction taken, and has     *)
(* read the pending nonce unless it was disturbed.                         *)
(***************************************************************************)
LogIsTaken ==
  \A a \in Accounts : \A i \in 1..Len(log[a]) : log[a][i] \in auxAccepted

NoneTwice ==
  \A a \in Accounts : \A i, j \in 1..Len(log[a]) : log[a][i] = log[a][j] => i = j

MainFirst ==
  \A a \in Accounts : \A i, j \in 1..Len(log[a]) :
    /\ log[a][i].thread = log[a][j].thread /\ log[a][i].number = log[a][j].number
    /\ log[a][i].stage = "tag" /\ log[a][j].stage = "main"
    => j < i

TagsHaveMain ==
  \A e \in auxAccepted : e.stage = "tag" => Taken(e.thread, e.number, "main")

CallProgress ==
  \A t \in Threads :
    /\ \A e \in auxAccepted : e.thread = t => e.number <= call[t].number
    /\ call[t].stage = "tag" => Taken(t, call[t].number, "main")
    /\ pc[t] # "idle" =>
         /\ call[t].number > 0
         /\ ~Taken(t, call[t].number, call[t].stage)
         /\ ~Taken(t, call[t].number, "tag")

NonceIsPending ==
  \A t \in Threads :
    pc[t] = "send" /\ call[t].op.session \in {"storage", "transfer"} =>
      call[t].nonce = Len(log[KeyAccount]) \/ t \in auxDisturbed

IInv ==
  /\ TypeOK /\ RefusedOnlyIfDisturbed
  /\ LogIsTaken /\ NoneTwice /\ MainFirst /\ TagsHaveMain
  /\ CallProgress /\ NonceIsPending /\ OkIsTaken

=============================================================================

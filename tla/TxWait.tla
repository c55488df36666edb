------------------------------- MODULE TxWait -------------------------------
(***************************************************************************)
(* Client.WaitForTx and the operations that broadcast a transaction and    *)
(* wait for it: UpdateObjectContent and CancelMigrateBucket (30 seconds,   *)
(* unless IsAsyncMode), SubmitProposal (10 seconds), and WaitForTx called  *)
(* with the hash of an EVM transaction and no deadline.                    *)
(*                                                                         *)
(* WaitForTx asks the chain for the hash, then the EVM endpoint, then      *)
(* waits for the next block and starts again.  The two endpoints index a   *)
(* block some time after it is committed, each at its own pace.            *)
(***************************************************************************)
EXTENDS Naturals

CONSTANTS
  WaitOps,     \* the operations called
  MaxFailures  \* bound: how many requests fail

AllWaitOps == {"update", "cancel", "proposal", "wait"}

ASSUME WaitOpsAssumption == WaitOps \subseteq AllWaitOps
ASSUME FailuresAssumption == MaxFailures \in Nat

VARIABLES
  tx,        \* "none", "mempool", "committed", "failed" (by its code) or "dropped"
  chainHas,  \* has the chain endpoint indexed the transaction?
  evmHas,    \* has the EVM endpoint a receipt for it?
  at,        \* where the call is
  operation, \* which operation it is
  togo,      \* blocks still missing to the height waited for
  expired,   \* has the deadline of the context passed?
  answer,    \* how the call ended
  failures   \* failed requests so far

\* History; no guard reads it: has the chain been asked for the transaction since
\* it made its last block?
VARIABLE auxAsked

chainVars == <<tx, chainHas, evmHas>>
waitVars == <<chainVars, at, operation, togo, expired, answer, failures, auxAsked>>

IsEvm == operation = "wait"
Waiting == at \in {"chain", "evm", "receipt", "block", "poll", "tick"}
Outcome == {"none", "sent", "ok", "failed", "error"}

WaitInit ==
  /\ tx = "none" /\ chainHas = FALSE /\ evmHas = FALSE
  /\ at = "idle"
  /\ operation \in WaitOps
  /\ togo = 0
  /\ expired = FALSE
  /\ answer = "none"
  /\ failures = 0
  /\ auxAsked = FALSE

GoOn(where) == at' = where /\ UNCHANGED <<operation, answer>>

Answer(status) ==
  /\ at' = "done"
  /\ answer' = status
  /\ UNCHANGED operation

\* A request fails: a fault of the network, or the context is over.
RequestFails ==
  \/ expired /\ UNCHANGED failures
  \/ failures < MaxFailures /\ failures' = failures + 1

-----------------------------------------------------------------------------
(* The operations.                                                          *)

\* BroadcastTx: the node takes the transaction.
Broadcast ==
  /\ at = "idle"
  /\ ~IsEvm
  /\ tx' = "mempool"
  /\ GoOn("chain")
  /\ UNCHANGED <<chainHas, evmHas, togo, expired, failures, auxAsked>>

\* IsAsyncMode: the hash is returned at once.
BroadcastAsync ==
  /\ at = "idle"
  /\ operation \in {"update", "cancel"}
  /\ tx' = "mempool"
  /\ Answer("sent")
  /\ UNCHANGED <<chainHas, evmHas, togo, expired, failures, auxAsked>>

\* The simulation or CheckTx fails, or the answer is lost.
BroadcastFails ==
  /\ at = "idle"
  /\ ~IsEvm
  /\ tx' \in {"none", "mempool"}
  /\ tx' = "mempool" => failures < MaxFailures
  /\ failures' = IF tx' = "mempool" THEN failures + 1 ELSE failures
  /\ Answer("error")
  /\ UNCHANGED <<chainHas, evmHas, togo, expired, auxAsked>>

\* WaitForTx for a transaction sent before through the EVM endpoint.
WaitForSent ==
  /\ at = "idle"
  /\ IsEvm
  /\ tx' = "mempool"
  /\ GoOn("chain")
  /\ UNCHANGED <<chainHas, evmHas, togo, expired, failures, auxAsked>>

-----------------------------------------------------------------------------
(* WaitForTx.                                                               *)

\* What the chain says of a transaction it has: its code decides.
AnswerFound ==
  Answer(IF tx = "committed" THEN "ok" ELSE "failed")

tryWaitForTx ==
  /\ at = "chain"
  /\ ~expired
  /\ IF chainHas /\ ~IsEvm
     THEN AnswerFound
     ELSE GoOn("evm")
  /\ auxAsked' = TRUE
  /\ UNCHANGED <<chainVars, togo, expired, failures>>

\* TransactionByHash: an unknown or pending transaction is not found yet.
tryWaitForEvmTx ==
  /\ at = "evm"
  /\ ~expired
  /\ IF IsEvm /\ tx \in {"committed", "failed"}
     THEN GoOn("receipt")
     ELSE GoOn("block")
  /\ UNCHANGED <<chainVars, togo, expired, failures, auxAsked>>

TransactionReceipt_AnyIsSuccess ==
  /\ at = "receipt"
  /\ ~expired
  /\ IF evmHas
     THEN Answer("ok")
     ELSE GoOn("block")
  /\ UNCHANGED <<chainVars, togo, expired, failures, auxAsked>>

\* The receipt may be there later than the transaction; its status decides.
TransactionReceipt ==
  /\ at = "receipt"
  /\ ~expired
  /\ IF evmHas
     THEN AnswerFound
     ELSE GoOn("block")
  /\ UNCHANGED <<chainVars, togo, expired, failures, auxAsked>>

\* From GetLatestBlockHeight's height, which is 0 when its request fails.
WaitForNextBlock_FromZero ==
  /\ at = "block"
  /\ \/ ~expired /\ togo' = 1 /\ UNCHANGED failures
     \/ RequestFails /\ togo' = 0
  /\ GoOn("poll")
  /\ UNCHANGED <<chainVars, expired, auxAsked>>

WaitForNextBlock_TwoBlocks ==
  /\ at = "block"
  /\ ~expired
  /\ togo' = 2
  /\ GoOn("poll")
  /\ UNCHANGED <<chainVars, expired, failures, auxAsked>>

\* WaitForNextBlock: the latest block and one more.
WaitForNextBlock ==
  /\ at = "block"
  /\ ~expired
  /\ togo' = 1
  /\ GoOn("poll")
  /\ UNCHANGED <<chainVars, expired, failures, auxAsked>>

PollHeight_MissesTheTarget ==
  /\ at = "poll"
  /\ ~expired
  /\ GoOn("tick")
  /\ UNCHANGED <<chainVars, togo, expired, failures, auxAsked>>

\* WaitForBlockHeight: is the height reached?
PollHeight ==
  /\ at = "poll"
  /\ ~expired
  /\ GoOn(IF togo = 0 THEN "chain" ELSE "tick")
  /\ UNCHANGED <<chainVars, togo, expired, failures, auxAsked>>

\* GetLatestBlockHeight returns 0 and no error when its request fails.
PollHeightFails ==
  /\ at = "poll"
  /\ RequestFails
  /\ GoOn("tick")
  /\ UNCHANGED <<chainVars, togo, expired, auxAsked>>

\* The ticker fires; when the context is over too, either case is chosen.
Tick ==
  /\ at = "tick"
  /\ GoOn("poll")
  /\ UNCHANGED <<chainVars, togo, expired, failures, auxAsked>>

DeadlineEndsCall ==
  /\ at = "tick"
  /\ expired
  /\ Answer("error")
  /\ UNCHANGED <<chainVars, togo, expired, failures, auxAsked>>

\* Any other request fails: WaitForTx returns its error.
RequestEndsCall ==
  /\ at \in {"chain", "evm", "receipt", "block"}
  /\ RequestFails
  /\ Answer("error")
  /\ UNCHANGED <<chainVars, togo, expired, auxAsked>>

-----------------------------------------------------------------------------
(* The chain and its endpoints.                                             *)

\* A block is committed, and perhaps the transaction is in it.
NewBlock ==
  /\ tx' \in IF tx = "mempool" THEN {tx, "committed", "failed"} ELSE {tx}
  /\ togo' = IF togo > 0 THEN togo - 1 ELSE 0
  /\ auxAsked' = FALSE
  /\ UNCHANGED <<chainHas, evmHas, at, operation, expired, answer, failures>>

\* The transaction leaves the mempool without being included.
Drop ==
  /\ tx = "mempool"
  /\ tx' = "dropped"
  /\ UNCHANGED <<chainHas, evmHas, at, operation, togo, expired, answer,
                  failures, auxAsked>>

ChainIndexes ==
  /\ tx \in {"committed", "failed"} /\ ~chainHas
  /\ chainHas' = TRUE
  /\ UNCHANGED <<tx, evmHas, at, operation, togo, expired, answer, failures,
                  auxAsked>>

EvmIndexes ==
  /\ tx \in {"committed", "failed"} /\ ~evmHas
  /\ evmHas' = TRUE
  /\ UNCHANGED <<tx, chainHas, at, operation, togo, expired, answer,
                  failures, auxAsked>>

\* The timeout the operation has set, or the caller's cancellation.
Expire ==
  /\ ~expired
  /\ Waiting
  /\ expired' = TRUE
  /\ UNCHANGED <<chainVars, at, operation, togo, answer, failures, auxAsked>>

WaitStep ==
  \/ tryWaitForTx \/ tryWaitForEvmTx \/ TransactionReceipt
  \/ WaitForNextBlock \/ PollHeight \/ PollHeightFails \/ Tick
  \/ DeadlineEndsCall \/ RequestEndsCall

Environment == NewBlock \/ Drop \/ ChainIndexes \/ EvmIndexes \/ Expire

WaitNext ==
  \/ Broadcast \/ BroadcastAsync \/ BroadcastFails \/ WaitForSent
  \/ WaitStep
  \/ Environment

WaitSpec == WaitInit /\ [][WaitNext]_waitVars

\* The call runs on, blocks are made, both endpoints index them, and of a
\* ticker and a finished context the select takes each one sometimes.
FairWaitSpec ==
  /\ WaitSpec
  /\ WF_waitVars(WaitStep) /\ SF_waitVars(DeadlineEndsCall)
  /\ WF_waitVars(NewBlock) /\ WF_waitVars(ChainIndexes) /\ WF_waitVars(EvmIndexes)

-----------------------------------------------------------------------------
(* What waiting promises.                                                   *)

\* The variables hold values of their types.
WaitTypeOK ==
  /\ tx \in {"none", "mempool", "committed", "failed", "dropped"}
  /\ chainHas \in BOOLEAN /\ evmHas \in BOOLEAN
  /\ at \in {"idle", "chain", "evm", "receipt", "block", "poll", "tick", "done"}
  /\ operation \in WaitOps
  /\ togo \in 0..1
  /\ expired \in BOOLEAN
  /\ answer \in Outcome
  /\ failures \in 0..MaxFailures
  /\ auxAsked \in BOOLEAN

(***************************************************************************)
(* The answer is true: a success is a transaction that was included and    *)
(* executed, a failure one that was included and failed; one that is only  *)
(* pending, or indexed by one endpoint, is neither.                        *)
(***************************************************************************)
AnswerIsTrue ==
  /\ answer = "ok" => tx = "committed"
  /\ answer = "failed" => tx = "failed"

(***************************************************************************)
(* "if transaction not found in current block, wait for the next block":   *)
(* WaitForTx asks for the transaction at most once between two blocks,     *)
(* though a request for the height may fail at every turn and is then      *)
(* answered with 0.  It never turns into a loop that asks without pause.   *)
(***************************************************************************)
AsksOncePerBlock == at = "chain" => ~auxAsked

\* The inductive invariant that they follow from: only what was included is
\* indexed, a call that has not ended has no answer, nobody asks before the call,
\* and the block that the waiting waited for is made after the asking.
IndexedIsIncluded == chainHas \/ evmHas => tx \in {"committed", "failed"}

NoAnswerYet == at # "done" => answer = "none"

NotSentYet == at = "idle" => tx = "none" /\ ~auxAsked

BlockIsNew == at \in {"poll", "tick"} /\ togo = 0 => ~auxAsked

WaitInv ==
  /\ WaitTypeOK /\ AnswerIsTrue /\ AsksOncePerBlock
  /\ IndexedIsIncluded /\ NotSentYet /\ NoAnswerYet /\ BlockIsNew

\* A wait ends: when the transaction is included, whatever endpoint has it and
\* whatever requests for the height fail, and when the deadline passes.
WaitEnds ==
  (Waiting /\ tx \in {"committed", "failed"}) \/ expired ~> at = "done"

=============================================================================

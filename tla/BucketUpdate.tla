---------------------------- MODULE BucketUpdate ----------------------------
(***************************************************************************)
(* The four operations that change a bucket's record: they read the whole  *)
(* record with HeadBucket, replace the fields they are for, and send a     *)
(* transaction with all fields.  The chain executes it some time later.    *)
(***************************************************************************)
EXTENDS Integers, Sequences

CONSTANTS
  Clients,       \* who updates the bucket: its owner, from one or more threads
  Visibilities,  \* PUBLIC_READ, PRIVATE, INHERIT
  Accounts,      \* payment accounts
  Quotas,        \* quotas asked for
  Unspecified,   \* VISIBILITY_TYPE_UNSPECIFIED, and a field left out of the options
  Half,          \* half the range of an unsigned integer: 2^63 in the code
  MaxCalls       \* bound: calls of all clients

ASSUME UnspecifiedAssumption ==
  Unspecified \notin Visibilities \union Accounts \union Quotas
ASSUME HalfAssumption == Half \in Nat \ {0}
ASSUME QuotasAssumption == Quotas \subseteq 0..2*Half-1
ASSUME CallsAssumption == MaxCalls \in Nat

Record == [visibility : Visibilities, payment : Accounts, quota : Quotas]
Option == [visibility : Visibilities \union {Unspecified},
           payment : Accounts \union {Unspecified},
           quota : Quotas \union {Unspecified}]
None == [visibility |-> Unspecified, payment |-> Unspecified, quota |-> Unspecified]
\* A transaction, with the options and the record it was made from.
Sent == [message : [visibility : Visibilities \union {Unspecified},
                    payment : Accounts, quota : Int],
         option : Option, read : Record]
CallState == [op : {"none", "visibility", "payment", "quota", "info"},
              option : Option, read : Record]

VARIABLES
  patient,  \* do clients start an update only when no other is under way?
  bucket,   \* the record on chain
  pool,     \* transactions sent and not executed yet
  pc,       \* where the call of each client is
  call,     \* its operation, its options and the record it read
  out,      \* how the last call of each client ended
  calls

\* History; no guard reads it.
VARIABLES
  auxWanted,     \* the record if every update had changed what it was for
  auxOverlapped  \* was the record changed between a reading and the execution?

auxVars == <<auxWanted, auxOverlapped>>
vars == <<patient, bucket, pool, pc, call, out, calls, auxVars>>

Init ==
  /\ patient \in BOOLEAN
  /\ bucket \in Record
  /\ pool = <<>>
  /\ pc = [c \in Clients |-> "idle"]
  /\ call = [c \in Clients |-> [op |-> "none", option |-> None, read |-> bucket]]
  /\ out = [c \in Clients |-> "none"]
  /\ calls = 0
  /\ auxWanted = bucket
  /\ auxOverlapped = FALSE

\* int64 of an unsigned integer.
Signed(n) == IF n < Half THEN n ELSE n - 2 * Half

\* The options with the fields left out taken from a record.
Merge(option, record) ==
  [f \in DOMAIN record |->
     IF option[f] = Unspecified THEN record[f] ELSE option[f]]

-----------------------------------------------------------------------------
(* The operations, which differ in the options they can be given.           *)

Call(c, op, option) ==
  /\ pc[c] = "idle"
  /\ calls < MaxCalls /\ calls' = calls + 1
  /\ patient => pool = <<>> /\ \A d \in Clients : pc[d] = "idle"
  /\ call' = [call EXCEPT ![c] = [op |-> op, option |-> option, read |-> @.read]]
  /\ pc' = [pc EXCEPT ![c] = "head"]
  /\ UNCHANGED <<patient, bucket, pool, out, auxVars>>

UpdateBucketVisibility(c) ==
  \E v \in Visibilities : Call(c, "visibility", [None EXCEPT !.visibility = v])

UpdateBucketPaymentAddr(c) ==
  \E a \in Accounts : Call(c, "payment", [None EXCEPT !.payment = a])

BuyQuotaForBucket(c) ==
  \E q \in Quotas : Call(c, "quota", [None EXCEPT !.quota = q])

UpdateBucketInfo(c) == \E option \in Option : Call(c, "info", option)

Return(c, status) ==
  /\ pc' = [pc EXCEPT ![c] = "idle"]
  /\ out' = [out EXCEPT ![c] = status]

HeadBucket_Remembered(c) ==
  /\ pc[c] = "head"
  /\ call' = [call EXCEPT ![c].read = IF out[c] = "none" THEN bucket ELSE @]
  /\ pc' = [pc EXCEPT ![c] = "send"]
  /\ UNCHANGED <<patient, bucket, pool, out, calls, auxVars>>

\* HeadBucket: the record as it is executed so far.
HeadBucket(c) ==
  /\ pc[c] = "head"
  /\ call' = [call EXCEPT ![c].read = bucket]
  /\ pc' = [pc EXCEPT ![c] = "send"]
  /\ UNCHANGED <<patient, bucket, pool, out, calls, auxVars>>

RequestFails(c) ==
  /\ pc[c] \in {"head", "send"}
  /\ Return(c, "error")
  /\ UNCHANGED <<patient, bucket, pool, call, calls, auxVars>>

(***************************************************************************)
(* "no meta need to update": the visibility asked for is the bucket's, and *)
(* nothing else is asked for.                                              *)
(***************************************************************************)
NothingToUpdate(c) ==
  /\ call[c].op = "info"
  /\ call[c].option = [None EXCEPT !.visibility = call[c].read.visibility]

RefuseEmpty(c) ==
  /\ pc[c] = "send"
  /\ NothingToUpdate(c)
  /\ Return(c, "refused")
  /\ UNCHANGED <<patient, bucket, pool, call, calls, auxVars>>

Message_Defaults(c) ==
  LET record == Merge(call[c].option, call[c].read)
  IN  [record EXCEPT
         !.quota = IF call[c].option.quota = Unspecified
                   THEN CHOOSE q \in Quotas : \A r \in Quotas : q <= r
                   ELSE Signed(@)]

Message_OnlyNamedPayment(c) ==
  LET record == Merge(call[c].option, call[c].read)
  IN  [record EXCEPT
         !.visibility = IF call[c].op = "info" THEN call[c].option.visibility ELSE @,
         !.payment = call[c].option.payment,
         !.quota = Signed(@)]

(***************************************************************************)
(* MsgUpdateBucketInfo.  Only UpdateBucketInfo passes an unspecified       *)
(* visibility on, and the quota is converted to a signed integer.          *)
(***************************************************************************)
Message(c) ==
  LET record == Merge(call[c].option, call[c].read)
  IN  [visibility |-> IF call[c].op = "info"
                      THEN call[c].option.visibility ELSE record.visibility,
       payment |-> record.payment,
       quota |-> Signed(record.quota)]

\* sendUpdateBucketInfoEvmTxn, whose answer may be lost.
Send(c) ==
  /\ pc[c] = "send"
  /\ ~NothingToUpdate(c)
  /\ pool' = Append(pool, [message |-> Message(c), option |-> call[c].option,
                           read |-> call[c].read])
  /\ Return(c, "ok") \/ Return(c, "error")
  /\ UNCHANGED <<patient, bucket, call, calls, auxVars>>

-----------------------------------------------------------------------------
(* The chain.                                                               *)

\* All fields are set, but for an unspecified visibility.
Execute ==
  /\ pool # <<>> /\ Head(pool).message.quota >= 0
  /\ LET sent == Head(pool)
     IN  /\ bucket' = [sent.message EXCEPT
                          !.visibility = IF @ = Unspecified
                                         THEN bucket.visibility ELSE @]
         /\ auxWanted' = Merge(sent.option, auxWanted)
         /\ auxOverlapped' = (auxOverlapped \/ sent.read # bucket)
  /\ pool' = Tail(pool)
  /\ UNCHANGED <<patient, pc, call, out, calls>>

\* The transaction is refused, reverted or lost.
Revert ==
  /\ pool # <<>>
  /\ pool' = Tail(pool)
  /\ UNCHANGED <<patient, bucket, pc, call, out, calls, auxVars>>

Next ==
  \/ \E c \in Clients :
       \/ UpdateBucketVisibility(c) \/ UpdateBucketPaymentAddr(c)
       \/ BuyQuotaForBucket(c) \/ UpdateBucketInfo(c)
       \/ HeadBucket(c) \/ RequestFails(c) \/ RefuseEmpty(c) \/ Send(c)
  \/ Execute
  \/ Revert

Spec == Init /\ [][Next]_vars

-----------------------------------------------------------------------------
(* What the updates promise.                                                *)

\* The variables hold values of their types; no quota on chain is negative.
TypeOK ==
  /\ patient \in BOOLEAN
  /\ bucket \in Record /\ auxWanted \in Record
  /\ pool \in Seq(Sent)
  /\ pc \in [Clients -> {"idle", "head", "send"}]
  /\ call \in [Clients -> CallState]
  /\ out \in [Clients -> {"none", "ok", "refused", "error"}]
  /\ calls \in 0..MaxCalls
  /\ auxOverlapped \in BOOLEAN

(***************************************************************************)
(* As long as no update is executed between the reading and the execution  *)
(* of another, each changes what it is for and nothing else.               *)
(***************************************************************************)
UpdatesAreExact == ~auxOverlapped => bucket = auxWanted

(***************************************************************************)
(* Who starts no update before the earlier ones are executed or gone never *)
(* overlaps with another: each call reads the record afresh.               *)
(***************************************************************************)
PatientUpdatesAreExact == patient => bucket = auxWanted

-----------------------------------------------------------------------------
(* Why: the invariant the proofs in BucketUpdate_proofs are about.          *)

\* What is sent is what was read with the options put in.
MessagesAreMerged ==
  \A i \in 1..Len(pool) :
    LET sent == pool[i]
        merged == Merge(sent.option, sent.read)
    IN  /\ sent.message.visibility \in {sent.option.visibility, merged.visibility}
        /\ sent.message.payment = merged.payment
        /\ sent.message.quota = Signed(merged.quota)

\* Patient clients: one update at a time, of the record as it is.
OneAtATime ==
  patient =>
    /\ ~auxOverlapped
    /\ Len(pool) <= 1
    /\ \A i \in 1..Len(pool) : pool[i].read = bucket
    /\ \A c \in Clients : pc[c] # "idle" =>
         /\ pool = <<>>
         /\ \A d \in Clients : pc[d] # "idle" => d = c
         /\ pc[c] = "send" => call[c].read = bucket

IInv == TypeOK /\ MessagesAreMerged /\ UpdatesAreExact /\ OneAtATime

=============================================================================

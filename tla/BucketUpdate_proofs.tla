------------------------- MODULE BucketUpdate_proofs -------------------------
(***************************************************************************)
(* Proofs about BucketUpdate, for every number of clients and calls, and   *)
(* all sets of visibilities, accounts and quotas.                          *)
(***************************************************************************)
EXTENDS BucketUpdate, TLAPS

-----------------------------------------------------------------------------
(* Options, records and messages.                                           *)

\* The options put into a record make a record.
LEMMA MergeType ==
  ASSUME NEW option \in Option, NEW record \in Record
  PROVE  Merge(option, record) \in Record
BY DEF Merge, Option, Record

\* The conversion to a signed integer yields an integer.
LEMMA SignedType ==
  ASSUME NEW n \in Quotas
  PROVE  Signed(n) \in Int
BY HalfAssumption, QuotasAssumption DEF Signed

\* A quota that is not negative after the conversion is the one asked for.
LEMMA SignedExact ==
  ASSUME NEW n \in Quotas, Signed(n) >= 0
  PROVE  Signed(n) = n
BY HalfAssumption, QuotasAssumption DEF Signed

\* What HeadBucket read with the options put in is what is sent.
LEMMA MessageMerged ==
  ASSUME NEW c \in Clients, call[c] \in CallState
  PROVE  /\ Message(c) \in [visibility : Visibilities \union {Unspecified},
                            payment : Accounts, quota : Int]
         /\ LET merged == Merge(call[c].option, call[c].read)
            IN  /\ Message(c).visibility \in
                     {call[c].option.visibility, merged.visibility}
                /\ Message(c).payment = merged.payment
                /\ Message(c).quota = Signed(merged.quota)
<1> DEFINE merged == Merge(call[c].option, call[c].read)
<1>1. merged \in Record
  BY MergeType DEF CallState
<1>2. Signed(merged.quota) \in Int
  BY <1>1, SignedType DEF Record
<1>3. Message(c) = [visibility |-> IF call[c].op = "info"
                                   THEN call[c].option.visibility
                                   ELSE merged.visibility,
                    payment |-> merged.payment,
                    quota |-> Signed(merged.quota)]
  BY <1>1 DEF Message, Record
<1>4. call[c].option.visibility \in Visibilities \union {Unspecified}
  BY DEF CallState, Option
<1> QED
  BY <1>1, <1>2, <1>3, <1>4 DEF Record

(***************************************************************************)
(* The record a transaction leaves is the record it was made from with the *)
(* options put in, if nothing was executed in between.                     *)
(***************************************************************************)
LEMMA ExecutedExactly ==
  ASSUME NEW sent \in Sent, bucket \in Record,
         sent.message.visibility
           \in {sent.option.visibility, Merge(sent.option, sent.read).visibility},
         sent.message.payment = Merge(sent.option, sent.read).payment,
         sent.message.quota = Signed(Merge(sent.option, sent.read).quota),
         sent.message.quota >= 0
  PROVE  LET after == [sent.message EXCEPT
                         !.visibility = IF @ = Unspecified
                                        THEN bucket.visibility ELSE @]
         IN  /\ after \in Record
             /\ sent.read = bucket => after = Merge(sent.option, bucket)
<1> DEFINE merged == Merge(sent.option, sent.read)
           after == [sent.message EXCEPT
                       !.visibility = IF @ = Unspecified
                                      THEN bucket.visibility ELSE @]
<1>1. merged \in Record
  BY MergeType DEF Sent
<1>2. sent.message.quota = merged.quota
  BY <1>1, SignedExact DEF Record
<1>3. after = [visibility |-> IF sent.message.visibility = Unspecified
                              THEN bucket.visibility
                              ELSE sent.message.visibility,
               payment |-> merged.payment, quota |-> merged.quota]
  BY <1>2 DEF Sent
<1>4. after \in Record
  <2>1. sent.message.visibility \in Visibilities \union {Unspecified}
    BY DEF Sent
  <2> QED BY <2>1, <1>1, <1>3 DEF Record
<1>5. ASSUME sent.read = bucket
      PROVE  after = Merge(sent.option, bucket)
  <2>1. merged = [visibility |-> IF sent.option.visibility = Unspecified
                                 THEN bucket.visibility
                                 ELSE sent.option.visibility,
                  payment |-> merged.payment, quota |-> merged.quota]
    BY <1>5 DEF Merge, Record
  <2>2. merged.visibility \in Visibilities /\ Unspecified \notin Visibilities
    BY <1>1, UnspecifiedAssumption DEF Record
  <2>3. (IF sent.message.visibility = Unspecified
         THEN bucket.visibility
         ELSE sent.message.visibility) = merged.visibility
    BY <2>1, <2>2
  <2> QED BY <1>3, <1>5, <2>1, <2>3
<1> QED BY <1>4, <1>5

-----------------------------------------------------------------------------
(* The invariant.                                                           *)

\* The first record is the wanted one, and nothing is under way.
LEMMA InitInv == Init => IInv
<1> SUFFICES ASSUME Init PROVE IInv
  OBVIOUS
<1>1. None \in Option
  BY DEF None, Option
<1>2. call \in [Clients -> CallState]
  BY <1>1 DEF Init, CallState
<1>3. pool \in Seq(Sent)
  BY DEF Init
<1>4. TypeOK
  <2>1. calls \in 0..MaxCalls
    BY CallsAssumption DEF Init
  <2>2. bucket \in Record /\ auxWanted \in Record
    BY DEF Init
  <2>3. /\ pc \in [Clients -> {"idle", "head", "send"}]
        /\ out \in [Clients -> {"none", "ok", "refused", "error"}]
    BY DEF Init
  <2>4. patient \in BOOLEAN /\ auxOverlapped \in BOOLEAN
    BY DEF Init
  <2> QED BY <1>2, <1>3, <2>1, <2>2, <2>3, <2>4 DEF TypeOK
<1>5. MessagesAreMerged
  BY DEF Init, MessagesAreMerged
<1>6. UpdatesAreExact
  BY DEF Init, UpdatesAreExact
<1>7. OneAtATime
  BY DEF Init, OneAtATime
<1> QED BY <1>4, <1>5, <1>6, <1>7 DEF IInv

\* A call begins: patient clients wait until nothing is under way.
LEMMA CallInv ==
  ASSUME IInv, NEW c \in Clients,
         NEW op \in {"visibility", "payment", "quota", "info"},
         NEW option \in Option, Call(c, op, option)
  PROVE  IInv'
<1> USE DEF IInv
<1>1. TypeOK'
  <2>1. call' \in [Clients -> CallState]
    <3> DEFINE locals == [op |-> op, option |-> option, read |-> call[c].read]
    <3>1. call[c] \in CallState
      BY DEF TypeOK
    <3>2. locals \in CallState
      BY <3>1 DEF CallState
    <3>3. call' = [call EXCEPT ![c] = locals]
      BY DEF Call, TypeOK
    <3> QED BY <3>2, <3>3 DEF TypeOK
  <2>2. calls' \in 0..MaxCalls
    BY CallsAssumption DEF TypeOK, Call
  <2>3. pc' \in [Clients -> {"idle", "head", "send"}]
    BY DEF TypeOK, Call
  <2> QED BY <2>1, <2>2, <2>3 DEF TypeOK, Call, auxVars
<1>2. MessagesAreMerged'
  BY DEF MessagesAreMerged, Call, Merge
<1>3. UpdatesAreExact'
  BY DEF UpdatesAreExact, Call, auxVars
<1>4. OneAtATime'
  BY DEF OneAtATime, Call, auxVars, TypeOK
<1> QED BY <1>1, <1>2, <1>3, <1>4

\* Reading the record, a failure and a refusal only concern the call itself.
LEMMA ReadInv ==
  ASSUME IInv, NEW c \in Clients,
         HeadBucket(c) \/ RequestFails(c) \/ RefuseEmpty(c)
  PROVE  IInv'
<1> USE DEF IInv, HeadBucket, RequestFails, RefuseEmpty, Return, auxVars
<1>1. TypeOK'
  <2>1. call' \in [Clients -> CallState]
    <3> DEFINE locals == [op |-> call[c].op, option |-> call[c].option,
                          read |-> bucket]
    <3>1. call[c] \in CallState /\ bucket \in Record
      BY DEF TypeOK
    <3>2. locals \in CallState
      BY <3>1 DEF CallState
    <3>3. call' = call \/ call' = [call EXCEPT ![c] = locals]
      BY <3>1 DEF CallState, TypeOK
    <3> QED BY <3>2, <3>3 DEF TypeOK
  <2> QED BY <2>1 DEF TypeOK
<1>2. MessagesAreMerged'
  BY DEF MessagesAreMerged, Merge
<1>3. UpdatesAreExact'
  BY DEF UpdatesAreExact
<1>4. OneAtATime'
  <2>1. CASE HeadBucket(c)
    <3>1. /\ pc' = [pc EXCEPT ![c] = "send"] /\ pc[c] = "head"
          /\ call' = [call EXCEPT ![c].read = bucket]
          /\ UNCHANGED <<patient, bucket, pool, auxOverlapped>>
      BY <2>1
    <3>2. \A d \in Clients : pc'[d] # "idle" => pc[d] # "idle"
      BY <3>1 DEF TypeOK
    <3>3. \A d \in Clients :
            pc'[d] = "send" /\ (pc[d] = "send" => call[d].read = bucket)
              => call'[d].read = bucket
      BY <3>1 DEF TypeOK, CallState
    <3> HIDE DEF HeadBucket, RequestFails, RefuseEmpty
    <3> QED BY <3>1, <3>2, <3>3 DEF OneAtATime
  <2>2. CASE RequestFails(c) \/ RefuseEmpty(c)
    <3>1. /\ pc' = [pc EXCEPT ![c] = "idle"]
          /\ UNCHANGED <<patient, bucket, pool, call, auxOverlapped>>
      BY <2>2
    <3>2. \A d \in Clients : pc'[d] # "idle" => d # c /\ pc'[d] = pc[d]
      BY <3>1 DEF TypeOK
    <3> HIDE DEF HeadBucket, RequestFails, RefuseEmpty
    <3> QED BY <3>1, <3>2 DEF OneAtATime
  <2> QED BY <2>1, <2>2
<1> QED BY <1>1, <1>2, <1>3, <1>4

\* A transaction is sent: what was read, with the options put in.
LEMMA SendInv ==
  ASSUME IInv, NEW c \in Clients, Send(c)
  PROVE  IInv'
<1> DEFINE sent == [message |-> Message(c), option |-> call[c].option,
                    read |-> call[c].read]
           merged == Merge(call[c].option, call[c].read)
<1> USE DEF IInv
<1>1. call[c] \in CallState
  BY DEF TypeOK
<1>2. sent \in Sent
  BY <1>1, MessageMerged DEF Sent, CallState
<1>3. pool \in Seq(Sent) /\ pool' = Append(pool, sent)
  BY DEF Send, TypeOK
<1>4. TypeOK'
  BY <1>2, <1>3 DEF TypeOK, Send, Return, auxVars
<1>5. /\ Len(pool') = Len(pool) + 1
      /\ \A i \in 1..Len(pool) : pool'[i] = pool[i]
      /\ pool'[Len(pool) + 1] = sent
  BY <1>2, <1>3
<1>6. MessagesAreMerged'
  <2> SUFFICES ASSUME NEW i \in 1..Len(pool')
               PROVE  LET m == Merge(pool'[i].option, pool'[i].read)
                      IN  /\ pool'[i].message.visibility
                               \in {pool'[i].option.visibility, m.visibility}
                          /\ pool'[i].message.payment = m.payment
                          /\ pool'[i].message.quota = Signed(m.quota)
    BY DEF MessagesAreMerged, Merge, Signed
  <2>1. CASE i \in 1..Len(pool)
    BY <2>1, <1>5 DEF MessagesAreMerged
  <2>2. CASE i = Len(pool) + 1
    BY <2>2, <1>1, <1>5, MessageMerged
  <2> QED BY <2>1, <2>2, <1>3, <1>5
<1>7. UpdatesAreExact'
  BY DEF UpdatesAreExact, Send, auxVars
<1>8. OneAtATime'
  <2> SUFFICES ASSUME patient
               PROVE  /\ ~auxOverlapped
                      /\ Len(pool') <= 1
                      /\ \A i \in 1..Len(pool') : pool'[i].read = bucket
                      /\ \A d \in Clients : pc'[d] = "idle"
    BY DEF OneAtATime, Send, auxVars
  <2>1. pc[c] = "send" /\ pool = <<>> /\ call[c].read = bucket
    BY DEF Send, OneAtATime
  <2>2. \A d \in Clients \ {c} : pc[d] = "idle"
    BY <2>1 DEF OneAtATime
  <2>3. pc' = [pc EXCEPT ![c] = "idle"]
    BY DEF Send, Return
  <2>4. Len(pool) = 0
    BY <2>1
  <2> QED BY <2>1, <2>2, <2>3, <2>4, <1>3, <1>5 DEF OneAtATime, TypeOK
<1> QED BY <1>4, <1>6, <1>7, <1>8

\* The first transaction leaves the pool.
LEMMA TailPool ==
  ASSUME pool \in Seq(Sent), pool # <<>>
  PROVE  /\ Head(pool) \in Sent /\ Head(pool) = pool[1]
         /\ Tail(pool) \in Seq(Sent)
         /\ Len(pool) \in Nat /\ Len(pool) > 0
         /\ Len(Tail(pool)) = Len(pool) - 1
         /\ \A i \in 1..Len(Tail(pool)) :
              i + 1 \in 1..Len(pool) /\ Tail(pool)[i] = pool[i+1]
OBVIOUS

\* What is left of the pool is still as it was made.
LEMMA TailMerged ==
  ASSUME IInv, pool # <<>>, pool' = Tail(pool)
  PROVE  MessagesAreMerged'
<1> SUFFICES ASSUME NEW i \in 1..Len(pool')
             PROVE  LET m == Merge(pool'[i].option, pool'[i].read)
                    IN  /\ pool'[i].message.visibility
                             \in {pool'[i].option.visibility, m.visibility}
                        /\ pool'[i].message.payment = m.payment
                        /\ pool'[i].message.quota = Signed(m.quota)
  BY DEF MessagesAreMerged, Merge, Signed
<1>1. i + 1 \in 1..Len(pool) /\ pool'[i] = pool[i+1]
  BY TailPool DEF IInv, TypeOK
<1> QED BY <1>1 DEF IInv, MessagesAreMerged

\* A transaction is executed.
LEMMA ExecuteInv == IInv /\ Execute => IInv'
<1> SUFFICES ASSUME IInv, Execute PROVE IInv'
  OBVIOUS
<1> DEFINE sent == Head(pool)
<1> USE DEF IInv
<1>1. /\ sent \in Sent /\ sent = pool[1] /\ 1 \in 1..Len(pool)
      /\ Tail(pool) \in Seq(Sent)
      /\ Len(Tail(pool)) = Len(pool) - 1
  BY TailPool DEF Execute, TypeOK
<1>2. /\ bucket' \in Record
      /\ sent.read = bucket => bucket' = Merge(sent.option, bucket)
  <2>1. /\ sent.message.visibility
             \in {sent.option.visibility, Merge(sent.option, sent.read).visibility}
        /\ sent.message.payment = Merge(sent.option, sent.read).payment
        /\ sent.message.quota = Signed(Merge(sent.option, sent.read).quota)
    BY <1>1 DEF MessagesAreMerged
  <2>2. sent.message.quota >= 0
    BY DEF Execute
  <2> QED BY <1>1, <2>1, <2>2, ExecutedExactly DEF Execute, TypeOK
<1>3. auxWanted' \in Record
  BY <1>1, MergeType DEF Execute, TypeOK, Sent
<1>4. TypeOK'
  BY <1>1, <1>2, <1>3 DEF Execute, TypeOK
<1>5. MessagesAreMerged'
  BY TailMerged DEF Execute
<1>6. UpdatesAreExact'
  BY <1>2 DEF Execute, UpdatesAreExact
<1>7. OneAtATime'
  <2> SUFFICES ASSUME patient
               PROVE  /\ ~auxOverlapped'
                      /\ Len(pool') = 0
                      /\ \A c \in Clients : pc[c] = "idle"
    BY <1>1 DEF OneAtATime, Execute
  <2>1. ~auxOverlapped /\ sent.read = bucket /\ Len(pool) <= 1
    BY <1>1 DEF OneAtATime
  <2>2. auxOverlapped' = (auxOverlapped \/ sent.read # bucket)
    BY DEF Execute
  <2>3. ~auxOverlapped'
    BY <2>1, <2>2
  <2>4. Len(pool') = 0
    BY <1>1, <2>1 DEF Execute
  <2>5. \A c \in Clients : pc[c] = "idle"
    BY DEF OneAtATime, Execute
  <2> QED BY <2>3, <2>4, <2>5
<1> QED BY <1>4, <1>5, <1>6, <1>7

\* A transaction is gone.
LEMMA RevertInv == IInv /\ Revert => IInv'
<1> SUFFICES ASSUME IInv, Revert PROVE IInv'
  OBVIOUS
<1> USE DEF IInv
<1>1. /\ Tail(pool) \in Seq(Sent) /\ Len(pool) \in Nat /\ Len(pool) > 0
      /\ Len(Tail(pool)) = Len(pool) - 1
  BY TailPool DEF Revert, TypeOK
<1>2. TypeOK'
  BY <1>1 DEF Revert, TypeOK, auxVars
<1>3. MessagesAreMerged'
  BY TailMerged DEF Revert
<1>4. UpdatesAreExact'
  BY DEF Revert, UpdatesAreExact, auxVars
<1>5. OneAtATime'
  <2> SUFFICES ASSUME patient
               PROVE  /\ ~auxOverlapped
                      /\ Len(pool') = 0
                      /\ \A c \in Clients : pc[c] = "idle"
    BY <1>1 DEF OneAtATime, Revert, auxVars
  <2> QED BY <1>1 DEF OneAtATime, Revert
<1> QED BY <1>2, <1>3, <1>4, <1>5

\* Every step keeps the invariant.
LEMMA NextInv == IInv /\ [Next]_vars => IInv'
<1> SUFFICES ASSUME IInv, [Next]_vars PROVE IInv'
  OBVIOUS
<1>1. ASSUME NEW c \in Clients, UpdateBucketVisibility(c) PROVE IInv'
  <2>1. \A v \in Visibilities : [None EXCEPT !.visibility = v] \in Option
    BY DEF None, Option
  <2> QED BY <1>1, <2>1, CallInv DEF UpdateBucketVisibility
<1>2. ASSUME NEW c \in Clients, UpdateBucketPaymentAddr(c) PROVE IInv'
  <2>1. \A a \in Accounts : [None EXCEPT !.payment = a] \in Option
    BY DEF None, Option
  <2> QED BY <1>2, <2>1, CallInv DEF UpdateBucketPaymentAddr
<1>3. ASSUME NEW c \in Clients, BuyQuotaForBucket(c) PROVE IInv'
  <2>1. \A q \in Quotas : [None EXCEPT !.quota = q] \in Option
    BY DEF None, Option
  <2> QED BY <1>3, <2>1, CallInv DEF BuyQuotaForBucket
<1>4. ASSUME NEW c \in Clients, UpdateBucketInfo(c) PROVE IInv'
  BY <1>4, CallInv DEF UpdateBucketInfo
<1>5. ASSUME NEW c \in Clients,
             HeadBucket(c) \/ RequestFails(c) \/ RefuseEmpty(c)
      PROVE  IInv'
  BY <1>5, ReadInv
<1>6. ASSUME NEW c \in Clients, Send(c) PROVE IInv'
  BY <1>6, SendInv
<1>7. CASE Execute
  BY <1>7, ExecuteInv
<1>8. CASE Revert
  BY <1>8, RevertInv
<1>9. CASE UNCHANGED vars
  BY <1>9 DEF vars, auxVars, IInv, TypeOK, MessagesAreMerged, Merge, Signed,
              UpdatesAreExact, OneAtATime
<1> QED BY <1>1, <1>2, <1>3, <1>4, <1>5, <1>6, <1>7, <1>8, <1>9 DEF Next

\* The invariant holds in every state.
THEOREM Inductive == Spec => []IInv
BY InitInv, NextInv, PTL DEF Spec

-----------------------------------------------------------------------------
(* The results.                                                             *)

(***************************************************************************)
(* The variables keep their types: what the chain executes is a record,    *)
(* however many updates of whatever clients are under way.                 *)
(***************************************************************************)
THEOREM TypeCorrect == Spec => []TypeOK
<1>1. IInv => TypeOK
  BY DEF IInv
<1> QED BY <1>1, Inductive, PTL

(***************************************************************************)
(* The four updates, each a HeadBucket and a transaction with all fields,  *)
(* are exact unless one is executed between another's two steps.           *)
(***************************************************************************)
THEOREM UpdatesExact == Spec => []UpdatesAreExact
<1>1. IInv => UpdatesAreExact
  BY DEF IInv
<1> QED BY <1>1, Inductive, PTL

(***************************************************************************)
(* Updates by who starts none before the earlier ones are executed or      *)
(* gone are always exact: UpdateBucketInfo and its likes read afresh.      *)
(***************************************************************************)
THEOREM PatientUpdatesExact == Spec => []PatientUpdatesAreExact
<1>1. IInv => PatientUpdatesAreExact
  BY DEF IInv, OneAtATime, UpdatesAreExact, PatientUpdatesAreExact
<1> QED BY <1>1, Inductive, PTL

=============================================================================

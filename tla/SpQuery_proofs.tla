--------------------------- MODULE SpQuery_proofs ---------------------------
(***************************************************************************)
(* Every call of SpQuery leaves the connections and the file accounted     *)
(* for.  Types and the operation at each place come first (Control), then  *)
(* three invariants that need nothing of each other.                       *)
(***************************************************************************)
EXTENDS SpQuery, TLAPS

PCs == {"idle", "stat", "open", "names", "chain", "route", "build", "send",
        "wait", "read", "copy"}

\* A step of the thread t.
Step(t) ==
  \/ \E op \in Ops : Begin(t, op)
  \/ \E op \in Ops, result \in {"error", "empty"} : Refuse(t, op, result)
  \/ Before(t)
  \/ Send(t)
  \/ RequestFails(t)
  \/ Receive(t)

-----------------------------------------------------------------------------
(* How a call ends.                                                         *)

\* The ways a call ends keep the types of its variables.
LEMMA EndType ==
  ASSUME TypeOK, NEW t \in Threads, NEW sent \in Contents \cup {"nothing"},
         NEW result \in Results, End(t, sent, result)
  PROVE  /\ pc' \in [Threads -> PCs]
         /\ call' \in [Threads -> CallState]
         /\ begun' \in [Threads -> 0..MaxCalls]
<1>1. pc' \in [Threads -> PCs]
  BY DEF End, TypeOK, PCs
<1>2. [op |-> call[t].op, body |-> FALSE, sent |-> sent, result |-> result]
        \in CallState
  BY DEF TypeOK, CallState
<1>3. call' \in [Threads -> CallState]
  BY <1>2 DEF End, TypeOK
<1> QED
  BY <1>1, <1>3 DEF End, TypeOK

\* A call that only moves on keeps them too.
LEMMA GotoType ==
  ASSUME TypeOK, NEW t \in Threads, NEW where \in PCs, Goto(t, where)
  PROVE  /\ pc' \in [Threads -> PCs]
         /\ call' \in [Threads -> CallState]
         /\ begun' \in [Threads -> 0..MaxCalls]
  BY DEF Goto, TypeOK, PCs

\* Closing a body keeps the connections' types.
LEMMA ClosingType ==
  ASSUME TypeOK, NEW t \in Threads, NEW sent \in Contents \cup {"nothing"},
         NEW result \in Results, Closing(t, sent, result)
  PROVE  /\ pc' \in [Threads -> PCs]
         /\ call' \in [Threads -> CallState]
         /\ begun' \in [Threads -> 0..MaxCalls]
         /\ readers' \in Nat /\ lost' \in Nat /\ auxLostBy' \subseteq AllOps
<1>1. End(t, sent, result) /\ UNCHANGED connVars
  BY DEF Closing
<1> QED
  BY <1>1, EndType DEF TypeOK, connVars

\* So does losing a connection.
LEMMA UnclosedType ==
  ASSUME TypeOK, NEW t \in Threads, NEW sent \in Contents \cup {"nothing"},
         NEW result \in Results, Unclosed(t, sent, result)
  PROVE  /\ pc' \in [Threads -> PCs]
         /\ call' \in [Threads -> CallState]
         /\ begun' \in [Threads -> 0..MaxCalls]
         /\ readers' \in Nat /\ lost' \in Nat /\ auxLostBy' \subseteq AllOps
<1>1. End(t, sent, result)
  BY DEF Unclosed
<1>2. call[t].op \in AllOps
  BY DEF TypeOK, CallState
<1>3. /\ pc' \in [Threads -> PCs]
      /\ call' \in [Threads -> CallState]
      /\ begun' \in [Threads -> 0..MaxCalls]
  BY <1>1, EndType
<1>4. readers' \in Nat /\ lost' \in Nat /\ auxLostBy' \subseteq AllOps
  BY <1>2 DEF TypeOK, Unclosed
<1> QED
  BY <1>3, <1>4

\* So does handing a body over.
LEMMA HandedOverType ==
  ASSUME TypeOK, NEW t \in Threads, HandedOver(t)
  PROVE  /\ pc' \in [Threads -> PCs]
         /\ call' \in [Threads -> CallState]
         /\ begun' \in [Threads -> 0..MaxCalls]
         /\ readers' \in Nat /\ lost' \in Nat /\ auxLostBy' \subseteq AllOps
<1>1. End(t, "nothing", "reader") /\ "reader" \in Results
  BY DEF HandedOver, Results
<1>2. /\ pc' \in [Threads -> PCs]
      /\ call' \in [Threads -> CallState]
      /\ begun' \in [Threads -> 0..MaxCalls]
  BY <1>1, EndType
<1>3. readers' \in Nat /\ lost' \in Nat /\ auxLostBy' \subseteq AllOps
  BY DEF TypeOK, HandedOver
<1> QED
  BY <1>2, <1>3

\* The types, with the file's variables, in the shape the steps prove them.
LEMMA TypeParts ==
  TypeOK <=> /\ pc \in [Threads -> PCs]
             /\ call \in [Threads -> CallState]
             /\ begun \in [Threads -> 0..MaxCalls]
             /\ readers \in Nat /\ lost \in Nat /\ auxLostBy \subseteq AllOps
             /\ exists \in BOOLEAN /\ file \in Seq({"whole", "cut"})
             /\ auxRaced \in BOOLEAN
  BY DEF TypeOK, PCs

\* A call that fails keeps every type.
LEMMA FailType ==
  ASSUME TypeOK, NEW t \in Threads, Fail(t)
  PROVE  TypeOK'
<1>1. Closing(t, "nothing", "error") /\ UNCHANGED fileVars
  BY DEF Fail
<1>2. "error" \in Results /\ "nothing" \in Contents \cup {"nothing"}
  BY DEF Results
<1>3. exists' \in BOOLEAN /\ file' \in Seq({"whole", "cut"}) /\ auxRaced' \in BOOLEAN
  BY <1>1 DEF TypeOK, fileVars
<1> QED
  BY <1>1, <1>2, <1>3, ClosingType DEF TypeOK, PCs

\* A call that only moves on keeps every type.
LEMMA MoveType ==
  ASSUME TypeOK, NEW t \in Threads, NEW where \in PCs, Goto(t, where),
         UNCHANGED <<connVars, fileVars>>
  PROVE  TypeOK'
<1>1. /\ pc' \in [Threads -> PCs]
      /\ call' \in [Threads -> CallState]
      /\ begun' \in [Threads -> 0..MaxCalls]
  BY GotoType
<1> QED
  BY <1>1 DEF TypeOK, PCs, connVars, fileVars

-----------------------------------------------------------------------------
(* Type correctness.                                                        *)

\* Beginning a call, or refusing it, keeps the types.
LEMMA BeginType ==
  ASSUME TypeOK, NEW t \in Threads, NEW op \in Ops,
         Begin(t, op) \/ \E result \in {"error", "empty"} : Refuse(t, op, result)
  PROVE  TypeOK'
<1>0. op \in AllOps
  BY OpsAssumption
<1>1. \A result \in Results :
        [Idle EXCEPT !.op = op, !.result = result] \in CallState
  BY <1>0 DEF Idle, CallState, Contents
<1>2. [Idle EXCEPT !.op = op] \in CallState
  BY <1>0 DEF Idle, CallState, Contents, Results
<1>3. \E record \in CallState : call' = [call EXCEPT ![t] = record]
  <2>1. CASE Begin(t, op)
    BY <1>2, <2>1 DEF Begin
  <2>2. ASSUME NEW result \in {"error", "empty"}, Refuse(t, op, result)
        PROVE  \E record \in CallState : call' = [call EXCEPT ![t] = record]
    <3>1. [Idle EXCEPT !.op = op, !.result = result] \in CallState
      BY <1>1 DEF Results
    <3> QED
      BY <2>2, <3>1 DEF Refuse
  <2> QED
    BY <2>1, <2>2
<1>8. call' \in [Threads -> CallState]
  BY <1>3 DEF TypeOK
<1>4. begun' \in [Threads -> 0..MaxCalls]
  BY BoundsAssumption DEF Begin, Refuse, TypeOK
<1>5. pc' \in [Threads -> PCs]
  BY DEF Begin, Refuse, TypeOK, PCs
<1>6. UNCHANGED <<connVars, fileVars>>
  BY DEF Begin, Refuse
<1> QED
  BY <1>8, <1>4, <1>5, <1>6 DEF TypeOK, PCs, connVars, fileVars

\* The steps before the request keep the types.
LEMMA BeforeType ==
  ASSUME TypeOK, NEW t \in Threads, Before(t)
  PROVE  TypeOK'
<1> USE DEF PCs
<1>1. CASE Stat(t)
  BY <1>1, MoveType DEF Stat
<1>2. CASE StatRefuses(t) \/ OpenFileFails(t) \/ RouteFails(t)
  BY <1>2, FailType DEF StatRefuses, OpenFileFails, RouteFails
<1>3. CASE OpenFile(t)
  <2>1. /\ pc' \in [Threads -> PCs]
        /\ call' \in [Threads -> CallState]
        /\ begun' \in [Threads -> 0..MaxCalls]
    BY <1>3, GotoType DEF OpenFile
  <2> QED
    BY <1>3, <2>1 DEF OpenFile, TypeOK, connVars
<1>4. CASE CheckNames(t)
  BY <1>4, MoveType, FailType DEF CheckNames
<1>5. CASE AskChain(t)
  <2>1. CASE Goto(t, "route") /\ UNCHANGED connVars
    BY <1>5, <2>1, MoveType DEF AskChain
  <2>2. CASE \E result \in {"error", "status"} : Closing(t, "nothing", result)
    <3>1. PICK result \in Results : Closing(t, "nothing", result)
      BY <2>2 DEF Results
    <3>2. /\ pc' \in [Threads -> PCs]
          /\ call' \in [Threads -> CallState]
          /\ begun' \in [Threads -> 0..MaxCalls]
          /\ readers' \in Nat /\ lost' \in Nat /\ auxLostBy' \subseteq AllOps
      BY <3>1, ClosingType
    <3> QED
      BY <1>5, <3>2 DEF AskChain, TypeOK, fileVars
  <2> QED
    BY <1>5, <2>1, <2>2 DEF AskChain
<1>6. CASE Route(t)
  BY <1>6, MoveType DEF Route
<1>7. CASE Build(t)
  BY <1>7, MoveType, FailType DEF Build
<1> QED
  BY <1>1, <1>2, <1>3, <1>4, <1>5, <1>6, <1>7 DEF Before

\* An answer that is read keeps the types.
LEMMA ReadType ==
  ASSUME TypeOK, NEW t \in Threads, Read(t)
  PROVE  TypeOK'
<1> DEFINE Parts == /\ pc' \in [Threads -> PCs]
                    /\ call' \in [Threads -> CallState]
                    /\ begun' \in [Threads -> 0..MaxCalls]
                    /\ readers' \in Nat /\ lost' \in Nat
                    /\ auxLostBy' \subseteq AllOps
<1>1. ASSUME NEW sent \in Contents, ReadStrict(t, sent)
      PROVE  Parts
  BY <1>1, ClosingType DEF ReadStrict, Results
<1>2. ASSUME NEW sent \in Contents, ReadTolerant(t, sent)
      PROVE  Parts
  <2>1. PICK result \in Results : Closing(t, sent, result)
    BY <1>2 DEF ReadTolerant, Results, Contents
  <2> QED
    BY <2>1, ClosingType
<1>3. ASSUME NEW sent \in Contents, ReadUnclosed(t, sent)
      PROVE  Parts
  BY <1>3, UnclosedType, ClosingType DEF ReadUnclosed, Results
<1>4. ASSUME ReadHeader(t) PROVE Parts
  BY <1>4, HandedOverType, ClosingType DEF ReadHeader, Results
<1>5. Parts
  <2> HIDE DEF Parts
  <2> QED
    BY <1>1, <1>2, <1>3, <1>4 DEF Read
<1>6. exists' \in BOOLEAN /\ file' \in Seq({"whole", "cut"}) /\ auxRaced' \in BOOLEAN
  BY DEF Read, TypeOK, fileVars
<1> QED
  BY <1>5, <1>6 DEF TypeOK, PCs

\* Sending and receiving keep the types.
LEMMA ExchangeType ==
  ASSUME TypeOK, NEW t \in Threads, Send(t) \/ RequestFails(t) \/ Receive(t)
  PROVE  TypeOK'
<1>1. CASE Send(t)
  <2>1. [call[t] EXCEPT !.body = TRUE] \in CallState
    BY DEF TypeOK, CallState
  <2>2. call' \in [Threads -> CallState]
    BY <1>1, <2>1 DEF Send, TypeOK
  <2>3. pc' \in [Threads -> PCs]
    BY <1>1 DEF Send, TypeOK, PCs
  <2> QED
    BY <1>1, <2>2, <2>3 DEF Send, TypeOK, PCs, connVars, fileVars
<1>2. CASE RequestFails(t) \/ AnswerIsError(t)
  BY <1>2, FailType DEF RequestFails, AnswerIsError
<1>3. CASE Answer(t)
  <2>1. CASE Closing(t, "whole", "whole")
    <3>1. "whole" \in Results /\ "whole" \in Contents \cup {"nothing"}
      BY DEF Results, Contents
    <3>2. /\ pc' \in [Threads -> PCs]
          /\ call' \in [Threads -> CallState]
          /\ begun' \in [Threads -> 0..MaxCalls]
          /\ readers' \in Nat /\ lost' \in Nat /\ auxLostBy' \subseteq AllOps
      BY <2>1, <3>1, ClosingType
    <3> QED
      BY <1>3, <3>2 DEF Answer, TypeOK, PCs, fileVars
  <2>2. CASE Goto(t, "read") /\ UNCHANGED connVars
    BY <1>3, <2>2, MoveType DEF Answer, PCs
  <2> QED
    BY <1>3, <2>1, <2>2 DEF Answer
<1>4. CASE Read(t)
  BY <1>4, ReadType
<1>5. CASE ReadFileHeader(t)
  BY <1>5, FailType, MoveType DEF ReadFileHeader, PCs
<1>6. ASSUME NEW sent \in {"whole", "cut"}, CopyFile(t, sent)
      PROVE  TypeOK'
  <2>1. PICK result \in Results : Closing(t, sent, result)
    BY <1>6 DEF CopyFile, Results
  <2>2. sent \in Contents \cup {"nothing"}
    BY DEF Contents
  <2>3. /\ pc' \in [Threads -> PCs]
        /\ call' \in [Threads -> CallState]
        /\ begun' \in [Threads -> 0..MaxCalls]
        /\ readers' \in Nat /\ lost' \in Nat /\ auxLostBy' \subseteq AllOps
    BY <2>1, <2>2, ClosingType
  <2>4. file' \in Seq({"whole", "cut"})
    BY <1>6 DEF CopyFile, TypeOK
  <2> QED
    BY <1>6, <2>3, <2>4 DEF CopyFile, TypeOK, PCs
<1> QED
  BY <1>1, <1>2, <1>3, <1>4, <1>5, <1>6 DEF Receive

\* The state of every call, connection and file stays in its type, whatever
\* threads interleave and whatever the SPs answer.
THEOREM TypeCorrect == Spec => []TypeOK
<1>1. Init => TypeOK
  <2> SUFFICES ASSUME Init PROVE TypeOK
    OBVIOUS
  <2>1. Idle \in CallState
    BY DEF Idle, CallState, AllOps, Contents, Results
  <2>2. file \in Seq({"whole", "cut"})
    BY DEF Init
  <2>3. begun \in [Threads -> 0..MaxCalls]
    BY BoundsAssumption DEF Init
  <2>4. pc \in [Threads -> PCs] /\ call \in [Threads -> CallState]
    BY <2>1 DEF Init, PCs
  <2>5. /\ readers \in Nat /\ lost \in Nat /\ auxLostBy \subseteq AllOps
        /\ exists \in BOOLEAN /\ auxRaced \in BOOLEAN
    BY DEF Init
  <2> QED
    BY <2>2, <2>3, <2>4, <2>5 DEF TypeOK, PCs
<1>2. TypeOK /\ [Next]_vars => TypeOK'
  <2> SUFFICES ASSUME TypeOK, [Next]_vars PROVE TypeOK'
    OBVIOUS
  <2>1. ASSUME NEW t \in Threads, Step(t) PROVE TypeOK'
    BY <2>1, BeginType, BeforeType, ExchangeType DEF Step
  <2>2. CASE CloseReader
    BY <2>2 DEF CloseReader, TypeOK, callVars, fileVars
  <2>3. CASE UNCHANGED vars
    BY <2>3 DEF vars, callVars, connVars, fileVars, TypeOK
  <2> QED
    BY <2>1, <2>2, <2>3 DEF Next, Step
<1> QED
  BY <1>1, <1>2, PTL DEF Spec

-----------------------------------------------------------------------------
(* One call: its body, its result and the places FGetObject alone visits.   *)

Local(t) ==
  /\ call[t].body <=> pc[t] \in {"wait", "read", "copy"}
  /\ pc[t] # "idle" => call[t].result = "none"
  /\ pc[t] \in {"stat", "open", "names", "copy"} => call[t].op = FGetObject
  /\ pc[t] = "chain" => call[t].op # FGetObject
  /\ call[t].result = "whole" => call[t].sent = "whole"
  /\ call[t].result = "part" =>
       call[t].sent = "garbled" /\ call[t].op.reads = "tolerant"

\* The two ways a step changes the call of a thread, spelled out.
LEMMA EndsAt ==
  ASSUME TypeOK, NEW t \in Threads, NEW sent, NEW result, End(t, sent, result)
  PROVE  /\ pc'[t] = "idle"
         /\ call'[t].op = call[t].op /\ ~call'[t].body
         /\ call'[t].sent = sent /\ call'[t].result = result
         /\ \A u \in Threads \ {t} : pc'[u] = pc[u] /\ call'[u] = call[u]
  BY DEF End, TypeOK

\* A call that moves on is the same call at another place.
LEMMA GoesTo ==
  ASSUME TypeOK, NEW t \in Threads, NEW where, Goto(t, where)
  PROVE  /\ pc'[t] = where /\ call' = call
         /\ \A u \in Threads \ {t} : pc'[u] = pc[u]
  BY DEF Goto, TypeOK

\* A call ends well for itself when what it reports is what it was sent.
LEMMA EndLocal ==
  ASSUME TypeOK, NEW t \in Threads, NEW sent, NEW result, End(t, sent, result),
         result = "whole" => sent = "whole",
         result = "part" => sent = "garbled" /\ call[t].op.reads = "tolerant"
  PROVE  Local(t)'
  BY EndsAt DEF Local

\* No other operation reads its answer like FGetObject, and the ones that lose
\* connections are two.
LEMMA OpsApart ==
  ASSUME NEW op \in AllOps
  PROVE  /\ op.reads = "file" => op = FGetObject
         /\ op.reads = "unclosed" =>
              op \in {GetRecommendedVirtualGroupFamilyIDBySPID, GetChallengeInfoV2}
  BY DEF AllOps, Op, Strict, Tolerant, ListBuckets, ListBucketReadRecord,
     GetBucketReadQuota, ListBucketsByBucketID, ListBucketsByPaymentAccount,
     GetBucketMigrationProgress, GetRecommendedVirtualGroupFamilyIDBySPID,
     GetObject, FGetObject, ListObjects, GetObjectUploadProgress,
     ListObjectsByObjectID, ListObjectPolicies, DelegateCreateFolder,
     ListGroup, ListGroupMembers, ListGroupsByAccount, ListGroupsByOwner,
     ListGroupsByGroupID, GetChallengeInfo, GetChallengeInfoV2,
     ListUserPaymentAccounts, Approval, GetCreateBucketApproval,
     GetMigrateBucketApproval, GetCreateObjectApproval

\* FGetObject reads its answer into the file.
LEMMA FileOp == FGetObject.reads = "file"
  BY DEF FGetObject, Op

\* A step of one thread leaves the calls of the others alone.
LEMMA OthersStay ==
  ASSUME TypeOK, NEW t \in Threads, Step(t)
  PROVE  \A u \in Threads \ {t} : pc'[u] = pc[u] /\ call'[u] = call[u]
<1>1. CASE \E op \in Ops : Begin(t, op)
  BY <1>1 DEF Begin, TypeOK
<1>2. CASE \E op \in Ops, result \in {"error", "empty"} : Refuse(t, op, result)
  BY <1>2 DEF Refuse, TypeOK
<1>3. CASE \E where : Goto(t, where)
  BY <1>3, GoesTo
<1>4. CASE \E sent, result : End(t, sent, result)
  BY <1>4, EndsAt
<1>5. CASE Send(t)
  BY <1>5 DEF Send, TypeOK
<1>6. ASSUME Before(t) \/ RequestFails(t) \/ Receive(t)
      PROVE  (\E where : Goto(t, where)) \/ (\E sent, result : End(t, sent, result))
  BY <1>6 DEF Before, Stat, StatRefuses, OpenFile, OpenFileFails, CheckNames,
     AskChain, Route, RouteFails, Build, RequestFails, Receive, AnswerIsError,
     Answer, Read, ReadStrict, ReadTolerant, ReadUnclosed,
     ReadHeader, ReadFileHeader, CopyFile, Fail, Closing, Unclosed, HandedOver
<1> QED
  BY <1>1, <1>2, <1>3, <1>4, <1>5, <1>6 DEF Step

\* The steps of a call keep it in order.
LEMMA LocalStep ==
  ASSUME TypeOK, NEW t \in Threads, Local(t), Step(t)
  PROVE  Local(t)'
<1>1. ASSUME NEW op \in Ops, Begin(t, op) PROVE Local(t)'
  <2>1. call'[t] = [op |-> op, body |-> FALSE,
                    sent |-> "nothing", result |-> "none"]
    BY <1>1 DEF Begin, TypeOK, Idle
  <2>2. \/ pc'[t] \in {"chain", "route"}
        \/ pc'[t] = "stat" /\ op = FGetObject
    BY <1>1 DEF Begin, TypeOK
  <2>3. CASE op = FGetObject
    <3>1. ~op.asks
      BY <2>3 DEF FGetObject, Op
    <3>2. pc'[t] = "stat"
      BY <1>1, <2>3, <3>1 DEF Begin, TypeOK
    <3> QED
      BY <2>1, <2>3, <3>2 DEF Local
  <2>4. CASE op # FGetObject
    BY <2>1, <2>2, <2>4 DEF Local
  <2> QED
    BY <2>3, <2>4
<1>2. ASSUME NEW op \in Ops, NEW result \in {"error", "empty"},
             Refuse(t, op, result)
      PROVE  Local(t)'
  <2>1. call'[t] = [op |-> op, body |-> FALSE,
                    sent |-> "nothing", result |-> result]
    BY <1>2 DEF Refuse, TypeOK, Idle
  <2>2. pc'[t] = "idle"
    BY <1>2 DEF Refuse
  <2> QED
    BY <2>1, <2>2 DEF Local
<1>3. ASSUME Fail(t) PROVE Local(t)'
  <2>1. End(t, "nothing", "error")
    BY <1>3 DEF Fail, Closing
  <2> QED
    BY <2>1, EndLocal
<1>4. CASE Before(t)
  <2>1. CASE Stat(t) \/ OpenFile(t)
    BY <2>1, GoesTo DEF Stat, OpenFile, Local
  <2>2. CASE CheckNames(t) \/ Route(t) \/ Build(t)
    BY <2>2, <1>3, GoesTo DEF CheckNames, Route, Build, Local
  <2>3. CASE AskChain(t)
    <3>1. CASE \E result \in {"error", "status"} : Closing(t, "nothing", result)
      BY <3>1, EndLocal DEF Closing
    <3>2. CASE Goto(t, "route")
      BY <2>3, <3>2, GoesTo DEF AskChain, Local
    <3> QED
      BY <2>3, <3>1, <3>2 DEF AskChain
  <2> QED
    BY <1>3, <1>4, <2>1, <2>2, <2>3
    DEF Before, StatRefuses, OpenFileFails, RouteFails
<1>5. CASE Send(t)
  BY <1>5 DEF Send, TypeOK, CallState, Local
<1>6. CASE Answer(t)
  <2>1. CASE Closing(t, "whole", "whole")
    BY <2>1, EndLocal DEF Closing
  <2>2. CASE Goto(t, "read")
    BY <1>6, <2>2, GoesTo DEF Answer, Local
  <2> QED
    BY <1>6, <2>1, <2>2 DEF Answer
<1>7. CASE Read(t)
  <2>1. PICK sent, result : /\ End(t, sent, result)
                            /\ result = "whole" => sent = "whole"
                            /\ result = "part" => /\ sent = "garbled"
                                                  /\ call[t].op.reads = "tolerant"
    <3>1. CASE ReadHeader(t)
      BY <3>1 DEF ReadHeader, Closing, HandedOver
    <3>2. ASSUME NEW sent \in Contents, ReadStrict(t, sent)
          PROVE  End(t, sent, IF sent = "whole" THEN "whole" ELSE "error")
      BY <3>2 DEF ReadStrict, Closing
    <3>3. ASSUME NEW sent \in Contents, ReadTolerant(t, sent)
          PROVE  \E result : /\ End(t, sent, result)
                             /\ result = "whole" => sent = "whole"
                             /\ result = "part" => /\ sent = "garbled"
                                                   /\ call[t].op.reads = "tolerant"
      BY <3>3 DEF ReadTolerant, Closing, Contents
    <3>4. ASSUME NEW sent \in Contents, ReadUnclosed(t, sent)
          PROVE  End(t, sent, IF sent = "whole" THEN "whole" ELSE "error")
      BY <3>4 DEF ReadUnclosed, Unclosed, Closing
    <3> QED
      BY <1>7, <3>1, <3>2, <3>3, <3>4 DEF Read
  <2> QED
    BY <2>1, EndLocal
<1>8. CASE ReadFileHeader(t)
  BY <1>3, <1>8, GoesTo DEF ReadFileHeader, Local
<1>9. ASSUME NEW sent \in {"whole", "cut"}, CopyFile(t, sent)
      PROVE  Local(t)'
  BY <1>9, EndLocal DEF CopyFile, Closing
<1> QED
  BY <1>1, <1>2, <1>3, <1>4, <1>5, <1>6, <1>7, <1>8, <1>9
  DEF Step, Receive, RequestFails, AnswerIsError

-----------------------------------------------------------------------------
(* The three invariants.                                                    *)

\* Every call of every thread is in order.
LEMMA LocalCorrect == Spec => [](TypeOK /\ \A t \in Threads : Local(t))
<1> DEFINE AllLocal == \A t \in Threads : Local(t)
<1>1. Init => AllLocal
  BY DEF Init, Idle, Local
<1>2. TypeOK /\ AllLocal /\ [Next]_vars => AllLocal'
  <2> SUFFICES ASSUME TypeOK, AllLocal, [Next]_vars PROVE AllLocal'
    OBVIOUS
  <2>1. ASSUME NEW t \in Threads, Step(t) PROVE AllLocal'
    <3>1. Local(t)'
      BY <2>1, LocalStep
    <3>2. ASSUME NEW u \in Threads \ {t} PROVE Local(u)'
      BY <2>1, <3>2, OthersStay DEF Local
    <3> QED
      BY <3>1, <3>2
  <2>2. CASE UNCHANGED callVars
    BY <2>2 DEF callVars, Local
  <2> QED
    BY <2>1, <2>2 DEF Next, Step, CloseReader, vars
<1> QED
  BY <1>1, <1>2, TypeCorrect, PTL DEF Spec

\* An answer reported as complete was complete, in every run.
THEOREM AnswersAreWhole == Spec => []AnswerIsWhole
<1>1. TypeOK /\ (\A t \in Threads : Local(t)) => AnswerIsWhole
  BY DEF AnswerIsWhole, Local
<1> QED
  BY <1>1, LocalCorrect, PTL

\* Only two operations ever lose a connection.
THEOREM BodiesAreReturned == Spec => []BodiesReturned
<1> DEFINE LostBy ==
      /\ auxLostBy \subseteq {GetRecommendedVirtualGroupFamilyIDBySPID,
                              GetChallengeInfoV2}
      /\ lost > 0 => auxLostBy # {}
<1>1. Init => LostBy
  BY DEF Init
<1>2. TypeOK /\ LostBy /\ [Next]_vars => LostBy'
  <2> SUFFICES ASSUME TypeOK, LostBy, [Next]_vars PROVE LostBy'
    OBVIOUS
  <2>1. ASSUME NEW t \in Threads, NEW sent \in Contents, ReadUnclosed(t, sent)
        PROVE  LostBy'
    <3>1. call[t].op \in AllOps
      BY DEF TypeOK, CallState
    <3>2. call[t].op \in {GetRecommendedVirtualGroupFamilyIDBySPID,
                          GetChallengeInfoV2}
      BY <2>1, <3>1, OpsApart DEF ReadUnclosed
    <3> QED
      BY <2>1, <3>2 DEF ReadUnclosed, Unclosed, Closing, connVars
  <2>2. CASE UNCHANGED <<lost, auxLostBy>>
    BY <2>2
  <2>3. ASSUME NEW t \in Threads, Step(t)
        PROVE  \/ UNCHANGED <<lost, auxLostBy>>
               \/ \E sent \in Contents : ReadUnclosed(t, sent)
    BY <2>3 DEF Step, Begin, Refuse, Before, Stat, StatRefuses, OpenFile,
       OpenFileFails, CheckNames, AskChain, Route, RouteFails, Build,
       RequestFails, Send, Receive, AnswerIsError, Answer, Read, ReadStrict,
       ReadTolerant, ReadHeader, ReadFileHeader, CopyFile, Fail, Closing,
       HandedOver, connVars
  <2>4. CASE CloseReader \/ UNCHANGED vars
    BY <2>4 DEF CloseReader, vars, connVars
  <2> HIDE DEF LostBy
  <2> QED
    BY <2>1, <2>2, <2>3, <2>4 DEF Next, Step
<1>3. TypeOK /\ (\A t \in Threads : Local(t)) /\ LostBy => BodiesReturned
  BY DEF BodiesReturned, Local
<1> QED
  BY <1>1, <1>2, <1>3, LocalCorrect, PTL DEF Spec

\* The threads that opened the destination and have not written to it yet.
Writers ==
  {t \in Threads : /\ call[t].op = FGetObject
                   /\ pc[t] \in {"names", "route", "build", "send",
                                 "wait", "read", "copy"}}

\* While no call raced another for the destination, at most one writes to it,
\* and nothing is in it before that one is done.
OneWriter ==
  ~auxRaced =>
    /\ ~exists => file = <<>> /\ Writers = {}
    /\ \A t, u \in Writers : t = u
    /\ Writers # {} => file = <<>>
    /\ FileIsWhole

\* Only two steps of a call touch the destination.
LEMMA FileStep ==
  ASSUME NEW t \in Threads, Step(t)
  PROVE  \/ UNCHANGED fileVars
         \/ OpenFile(t)
         \/ \E sent \in {"whole", "cut"} : CopyFile(t, sent)
  BY DEF Step, Begin, Refuse, Before, Stat, StatRefuses, OpenFileFails,
     CheckNames, AskChain, Route, RouteFails, Build, RequestFails, Send,
     Receive, AnswerIsError, Answer, Read, ReadFileHeader, Fail

\* A step that leaves the destination alone neither makes its thread a writer
\* nor lets FGetObject succeed.
LEMMA OtherStep ==
  ASSUME TypeOK, NEW t \in Threads, Local(t), Step(t), ~OpenFile(t),
         \A sent \in {"whole", "cut"} : ~CopyFile(t, sent)
  PROVE  /\ t \in Writers' => t \in Writers
         /\ call'[t].op = FGetObject => call'[t].result # "whole"
<1>1. ASSUME NEW op \in Ops, Begin(t, op)
      PROVE  t \notin Writers' /\ call'[t].result = "none"
  BY <1>1 DEF Begin, TypeOK, Idle, Writers
<1>2. ASSUME NEW op \in Ops, NEW result \in {"error", "empty"},
             Refuse(t, op, result)
      PROVE  t \notin Writers' /\ call'[t].result = result
  BY <1>2 DEF Refuse, TypeOK, Idle, Writers
<1>3. ASSUME NEW sent, NEW result, End(t, sent, result)
      PROVE  /\ t \notin Writers'
             /\ call'[t].op = call[t].op /\ call'[t].result = result
  BY <1>3, EndsAt DEF Writers
<1>4. ASSUME NEW where, Goto(t, where), pc[t] # "idle"
      PROVE  /\ call'[t] = call[t] /\ call[t].result = "none"
             /\ pc'[t] = where
  BY <1>4, GoesTo DEF Local
<1>5. ASSUME Fail(t)
      PROVE  t \notin Writers' /\ call'[t].result = "error"
  BY <1>3, <1>5 DEF Fail, Closing
<1>6. CASE Before(t)
  <2>1. CASE Stat(t)
    BY <1>4, <2>1 DEF Stat, Writers
  <2>2. CASE CheckNames(t) \/ Route(t) \/ Build(t)
    BY <1>4, <1>5, <2>2 DEF CheckNames, Route, Build, Writers
  <2>3. CASE AskChain(t)
    BY <1>3, <1>4, <2>3 DEF AskChain, Closing, Local, Writers
  <2> QED
    BY <1>5, <1>6, <2>1, <2>2, <2>3
    DEF Before, StatRefuses, OpenFileFails, RouteFails
<1>7. CASE Send(t)
  BY <1>7 DEF Send, TypeOK, CallState, Local, Writers
<1>8. CASE Answer(t)
  <2>1. CASE ClosedByDoAPI(t)
    <3>1. call[t].op # FGetObject
      BY <2>1, FileOp DEF ClosedByDoAPI
    <3>2. End(t, "whole", "whole")
      BY <1>8, <2>1 DEF Answer, Closing
    <3> QED
      BY <1>3, <3>1, <3>2
  <2>2. CASE ~ClosedByDoAPI(t)
    <3>1. Goto(t, "read") /\ pc[t] = "wait"
      BY <1>8, <2>2 DEF Answer
    <3> QED
      BY <1>4, <3>1 DEF Writers
  <2> QED
    BY <2>1, <2>2
<1>9. CASE Read(t)
  <2>1. call[t].op # FGetObject
    BY <1>9, FileOp DEF Read, ReadStrict, ReadTolerant, ReadUnclosed,
       ReadHeader
  <2>2. \E sent, result : End(t, sent, result)
    BY <1>9 DEF Read, ReadStrict, ReadTolerant, ReadUnclosed,
       ReadHeader, Closing, Unclosed, HandedOver
  <2> QED
    BY <1>3, <2>1, <2>2
<1>10. CASE ReadFileHeader(t)
  BY <1>4, <1>5, <1>10 DEF ReadFileHeader, Writers
<1> QED
  BY <1>1, <1>2, <1>5, <1>6, <1>7, <1>8, <1>9, <1>10
  DEF Step, Receive, RequestFails, AnswerIsError

\* FGetObject's result is the whole object, in every run without a race.
THEOREM FilesAreWhole == Spec => []FileIsWhole
<1> DEFINE Locals == TypeOK /\ \A t \in Threads : Local(t)
<1>1. Init => OneWriter
  BY DEF Init, Idle, OneWriter, Writers, FileIsWhole
<1>2. Locals /\ OneWriter /\ [Next]_vars => OneWriter'
  <2> SUFFICES ASSUME Locals, OneWriter, [Next]_vars, ~auxRaced' PROVE OneWriter'
    BY DEF OneWriter
  <2>1. ASSUME NEW t \in Threads, OpenFile(t) PROVE OneWriter'
    <3>1. ~auxRaced /\ ~exists
      BY <2>1 DEF OpenFile
    <3>2. exists' /\ file' = <<>> /\ Writers = {}
      BY <2>1, <3>1 DEF OpenFile, OneWriter
    <3>3. call' = call /\ \A u \in Threads \ {t} : pc'[u] = pc[u]
      BY <2>1, GoesTo DEF OpenFile
    <3>4. \A u \in Writers' : u = t
      BY <3>2, <3>3 DEF Writers
    <3>5. \A u \in Threads :
            ~(call[u].op = FGetObject /\ call[u].result = "whole")
      BY <3>1, <3>2 DEF OneWriter, FileIsWhole
    <3> QED
      BY <3>2, <3>3, <3>4, <3>5 DEF OneWriter, FileIsWhole
  <2>2. ASSUME NEW t \in Threads, NEW sent \in {"whole", "cut"}, CopyFile(t, sent)
        PROVE  OneWriter'
    <3>1. ~auxRaced /\ exists' = exists
      BY <2>2 DEF CopyFile
    <3>2. t \in Writers
      BY <2>2 DEF CopyFile, Local, Writers
    <3>3. exists /\ file = <<>> /\ \A u \in Writers : u = t
      BY <3>1, <3>2 DEF OneWriter, TypeOK
    <3>4. /\ pc'[t] = "idle"
          /\ call'[t].result = IF sent = "whole" THEN "whole" ELSE "error"
          /\ \A u \in Threads \ {t} : pc'[u] = pc[u] /\ call'[u] = call[u]
      BY <2>2, EndsAt DEF CopyFile, Closing
    <3>5. file' = <<sent>>
      BY <2>2, <3>3 DEF CopyFile
    <3>6. Writers' = {}
      BY <3>3, <3>4 DEF Writers
    <3>7. \A u \in Threads \ {t} :
            ~(call'[u].op = FGetObject /\ call'[u].result = "whole")
      BY <3>1, <3>3, <3>4 DEF OneWriter, FileIsWhole
    <3>8. FileIsWhole'
      BY <3>4, <3>5, <3>7 DEF FileIsWhole
    <3> QED
      BY <3>1, <3>3, <3>6, <3>8 DEF OneWriter
  <2>3. ASSUME NEW t \in Threads, Step(t), ~OpenFile(t),
               \A sent \in {"whole", "cut"} : ~CopyFile(t, sent)
        PROVE  OneWriter'
    <3>1. UNCHANGED fileVars
      BY <2>3, FileStep
    <3>2. /\ t \in Writers' => t \in Writers
          /\ call'[t].op = FGetObject => call'[t].result # "whole"
      BY <2>3, OtherStep
    <3>3. \A u \in Threads \ {t} : pc'[u] = pc[u] /\ call'[u] = call[u]
      BY <2>3, OthersStay
    <3>4. Writers' \subseteq Writers
      BY <3>2, <3>3 DEF Writers
    <3>5. ~auxRaced
      BY <3>1 DEF fileVars
    <3>6. FileIsWhole'
      BY <3>1, <3>2, <3>3, <3>5 DEF OneWriter, FileIsWhole, fileVars
    <3> QED
      BY <3>1, <3>4, <3>5, <3>6 DEF OneWriter, fileVars
  <2>4. CASE CloseReader \/ UNCHANGED vars
    BY <2>4 DEF CloseReader, vars, callVars, fileVars, OneWriter, Writers,
       FileIsWhole
  <2> QED
    BY <2>1, <2>2, <2>3, <2>4 DEF Next, Step
<1>3. OneWriter => FileIsWhole
  BY DEF OneWriter, FileIsWhole
<1> QED
  BY <1>1, <1>2, <1>3, LocalCorrect, PTL DEF Spec

=============================================================================

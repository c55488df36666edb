------------------------------- MODULE SpQuery -------------------------------
(***************************************************************************)
(* Reading from storage providers: the calls of client/ that send one      *)
(* request with sendReq and decode the answer, and FGetObject, which       *)
(* copies it to a file.                                                    *)
(*                                                                         *)
(* The threads share the connections of the client's http.Client.  doAPI   *)
(* closes the body of a response itself, unless disableCloseBody is set:   *)
(* then the caller of sendReq has to, or hands the body to its own caller. *)
(* A connection whose body nobody closes is never used again.              *)
(*                                                                         *)
(* Which provider is asked is the subject of SpRouting and left out here:  *)
(* finding the endpoint succeeds or fails.  The content of an answer is    *)
(* whole, or cut off in the middle, or arrives but does not decode.        *)
(***************************************************************************)
EXTENDS Naturals, Sequences, FiniteSets

CONSTANTS
  Threads,   \* the goroutines that use the client
  Ops,       \* the operations they call
  MaxConns,  \* connections the transport and the system allow
  MaxCalls   \* bound: calls of one thread

VARIABLES
  pc,       \* where the call of each thread is
  call,     \* its operation, whether it holds a body, what the SP sent, its result
  begun,    \* calls each thread has begun
  readers,  \* bodies handed to callers and not closed yet
  lost,     \* connections whose body nobody will close
  exists,   \* the destination of FGetObject exists
  file      \* what each call appended to it, the whole object or one cut off

\* History; no guard reads it.
VARIABLES
  auxLostBy,  \* the operations that lost a connection
  auxRaced    \* a call opened the destination that another had created meanwhile

callVars == <<pc, call, begun>>
connVars == <<readers, lost, auxLostBy>>
fileVars == <<exists, file, auxRaced>>
vars == <<callVars, connVars, fileVars>>

-----------------------------------------------------------------------------
(* The operations.  refuses: what wrong arguments, or no default account,  *)
(* give before anything is sent, an error or an empty answer and no error. *)
(* asks: the chain is asked first.  reads: what becomes of the answer.     *)

Op(name, refuses, asks, reads) ==
  [name |-> name, refuses |-> refuses, asks |-> asks, reads |-> reads]

\* Decoded as a whole or an error; the body is closed.
Strict(name, refuses, asks) == Op(name, refuses, asks, "strict")

\* What was decoded before an error is returned without it.
Tolerant(name, refuses) == Op(name, refuses, FALSE, "tolerant")

ListBuckets == Strict("ListBuckets", {"error"}, FALSE)
ListBucketReadRecord == Strict("ListBucketReadRecord", {"error"}, FALSE)
GetBucketReadQuota == Strict("GetBucketReadQuota", {"error"}, FALSE)
ListBucketsByBucketID == Tolerant("ListBucketsByBucketID", {"empty"})
ListBucketsByPaymentAccount ==
  Strict("ListBucketsByPaymentAccount", {"error"}, FALSE)
GetBucketMigrationProgress == Strict("GetBucketMigrationProgress", {}, TRUE)
GetRecommendedVirtualGroupFamilyIDBySPID ==
  Op("GetRecommendedVirtualGroupFamilyIDBySPID", {}, FALSE, "unclosed")
GetObject == Op("GetObject", {"error"}, FALSE, "reader")
FGetObject == Op("FGetObject", {"error"}, FALSE, "file")
ListObjects == Tolerant("ListObjects", {"error"})
GetObjectUploadProgress == Strict("GetObjectUploadProgress", {}, TRUE)
ListObjectsByObjectID == Tolerant("ListObjectsByObjectID", {"empty"})
ListObjectPolicies == Strict("ListObjectPolicies", {}, FALSE)
DelegateCreateFolder == Op("DelegateCreateFolder", {"error"}, FALSE, "nothing")
ListGroup == Strict("ListGroup", {"empty"}, FALSE)
ListGroupMembers == Strict("ListGroupMembers", {}, FALSE)
ListGroupsByAccount == Strict("ListGroupsByAccount", {"error"}, FALSE)
ListGroupsByOwner == Strict("ListGroupsByOwner", {"error"}, FALSE)
ListGroupsByGroupID == Tolerant("ListGroupsByGroupID", {"empty"})
GetChallengeInfo == Op("GetChallengeInfo", {"error"}, TRUE, "reader")
GetChallengeInfoV2 == Op("GetChallengeInfoV2", {"error"}, TRUE, "unclosed")
ListUserPaymentAccounts == Strict("ListUserPaymentAccounts", {"error"}, FALSE)

\* Of an approval only the header is read: the message, signed by the SP.
Approval(name) == Op(name, {}, FALSE, "nothing")

GetCreateBucketApproval == Approval("GetCreateBucketApproval")
GetMigrateBucketApproval == Approval("GetMigrateBucketApproval")
GetCreateObjectApproval == Approval("GetCreateObjectApproval")

AllOps ==
  {ListBuckets, ListBucketReadRecord, GetBucketReadQuota,
   ListBucketsByBucketID, ListBucketsByPaymentAccount,
   GetBucketMigrationProgress, GetRecommendedVirtualGroupFamilyIDBySPID,
   GetObject, FGetObject, ListObjects, GetObjectUploadProgress,
   ListObjectsByObjectID, ListObjectPolicies, DelegateCreateFolder,
   ListGroup, ListGroupMembers, ListGroupsByAccount, ListGroupsByOwner,
   ListGroupsByGroupID, GetChallengeInfo, GetChallengeInfoV2,
   ListUserPaymentAccounts, GetCreateBucketApproval, GetMigrateBucketApproval,
   GetCreateObjectApproval}

\* The body of an answer: all of it, the part before the connection broke, or
\* all of one that does not decode.
Contents == {"whole", "cut", "garbled"}

ASSUME OpsAssumption == Ops \subseteq AllOps
ASSUME BoundsAssumption == MaxConns \in Nat /\ MaxCalls \in Nat

-----------------------------------------------------------------------------

Idle == [op |-> ListBuckets, body |-> FALSE,
         sent |-> "nothing", result |-> "none"]

Init ==
  /\ pc = [t \in Threads |-> "idle"]
  /\ call = [t \in Threads |-> Idle]
  /\ begun = [t \in Threads |-> 0]
  /\ readers = 0
  /\ lost = 0
  /\ exists = FALSE
  /\ file = <<>>
  /\ auxLostBy = {}
  /\ auxRaced = FALSE

\* Threads whose call holds a connection.
Holding == {t \in Threads : call[t].body}

\* Connections in use.
Used == Cardinality(Holding) + readers + lost

\* disableCloseBody is not set: doAPI closes the body before it returns.
ClosedByDoAPI(t) == call[t].op.reads = "nothing"

Goto(t, where) == pc' = [pc EXCEPT ![t] = where] /\ UNCHANGED <<call, begun>>

\* The call ends, with what the SP sent it, and lets go of its body.
End(t, sent, result) ==
  /\ pc' = [pc EXCEPT ![t] = "idle"]
  /\ call' = [call EXCEPT ![t] = [op |-> @.op, body |-> FALSE,
                                  sent |-> sent, result |-> result]]
  /\ UNCHANGED begun

\* Its body, if it has one, is closed (CloseResponse).
Closing(t, sent, result) == End(t, sent, result) /\ UNCHANGED connVars

\* Its body stays open and nobody else has it.
Unclosed(t, sent, result) ==
  /\ End(t, sent, result)
  /\ lost' = lost + 1
  /\ auxLostBy' = auxLostBy \cup {call[t].op}
  /\ UNCHANGED readers

\* Its body goes to the caller, who is to close it.
HandedOver(t) ==
  /\ End(t, "nothing", "reader")
  /\ readers' = readers + 1
  /\ UNCHANGED <<lost, auxLostBy>>

Fail(t) == Closing(t, "nothing", "error") /\ UNCHANGED fileVars

-----------------------------------------------------------------------------
(* Before the request.                                                      *)

\* A call whose arguments are in order.
Begin(t, op) ==
  /\ pc[t] = "idle"
  /\ begun[t] < MaxCalls
  /\ begun' = [begun EXCEPT ![t] = @ + 1]
  /\ call' = [call EXCEPT ![t] = [Idle EXCEPT !.op = op]]
  /\ pc' = [pc EXCEPT ![t] =
              CASE op = FGetObject -> "stat"
                [] op.asks -> "chain"
                [] OTHER -> "route"]
  /\ UNCHANGED <<connVars, fileVars>>

\* A call that returns before it asks anybody: an error, or an empty answer.
Refuse(t, op, result) ==
  /\ pc[t] = "idle"
  /\ begun[t] < MaxCalls
  /\ op # FGetObject
  /\ result \in op.refuses
  /\ begun' = [begun EXCEPT ![t] = @ + 1]
  /\ call' = [call EXCEPT ![t] = [Idle EXCEPT !.op = op, !.result = result]]
  /\ UNCHANGED <<pc, connVars, fileVars>>

\* FGetObject looks for the destination and refuses one that is there.
Stat(t) ==
  /\ pc[t] = "stat"
  /\ ~exists
  /\ Goto(t, "open")
  /\ UNCHANGED <<connVars, fileVars>>

StatRefuses(t) == pc[t] = "stat" /\ exists /\ Fail(t)

\* It opens the destination to append, and creates it if it is not there.
OpenFile(t) ==
  /\ pc[t] = "open"
  /\ exists' = TRUE
  /\ auxRaced' = (auxRaced \/ exists)
  /\ Goto(t, "names")
  /\ UNCHANGED <<connVars, file>>

OpenFileFails(t) == pc[t] = "open" /\ Fail(t)

\* GetObject, when called by FGetObject, checks the names only now.
CheckNames(t) ==
  /\ pc[t] = "names"
  /\ \/ Fail(t)
     \/ Goto(t, "route") /\ UNCHANGED <<connVars, fileVars>>

\* HeadBucket, HeadObject or the parameters of the chain.
AskChain(t) ==
  /\ pc[t] = "chain"
  /\ \/ Goto(t, "route") /\ UNCHANGED connVars
     \/ Closing(t, "nothing", "error")
     \/ /\ call[t].op = GetObjectUploadProgress
        /\ Closing(t, "nothing", "status")
  /\ UNCHANGED fileVars

Route(t) ==
  /\ pc[t] = "route"
  /\ Goto(t, "build")
  /\ UNCHANGED <<connVars, fileVars>>

RouteFails(t) == pc[t] = "route" /\ Fail(t)

-----------------------------------------------------------------------------
(* The request.                                                             *)

\* newRequest: a URL or a body that cannot be made, or a signature that cannot,
\* ends the call.
Build(t) ==
  /\ pc[t] = "build"
  /\ \/ Fail(t)
     \/ Goto(t, "send") /\ UNCHANGED <<connVars, fileVars>>

\* No connection is made, or the context is cancelled while the call waits.
RequestFails(t) == pc[t] = "send" /\ Fail(t)

\* doAPI gets a connection and sends.
Send(t) ==
  /\ pc[t] = "send"
  /\ Used < MaxConns
  /\ call' = [call EXCEPT ![t] = [@ EXCEPT !.body = TRUE]]
  /\ pc' = [pc EXCEPT ![t] = "wait"]
  /\ UNCHANGED <<begun, connVars, fileVars>>

\* The body of an error answer is not closed by anybody.
AnswerIsError_BodyLeftOpen(t) ==
  /\ pc[t] = "wait"
  /\ Fail(t) \/ (Unclosed(t, "nothing", "error") /\ UNCHANGED fileVars)

\* The call returns and keeps its connection.
AnswerIsError_KeepsBody(t) ==
  /\ pc[t] = "wait"
  /\ pc' = [pc EXCEPT ![t] = "idle"]
  /\ UNCHANGED <<call, begun, connVars, fileVars>>

\* The connection breaks, or the SP answers with an error status, whose text
\* is read, or an approval's header is missing or does not decode; each way the
\* connection is given back before the call fails.
AnswerIsError(t) == pc[t] = "wait" /\ Fail(t)

\* The SP answers with a good status; the body is still to come.
Answer(t) ==
  /\ pc[t] = "wait"
  /\ IF ClosedByDoAPI(t)
     THEN Closing(t, "whole", "whole")
     ELSE Goto(t, "read") /\ UNCHANGED connVars
  /\ UNCHANGED fileVars

-----------------------------------------------------------------------------
(* The answer.                                                              *)

\* Decoded, with the body closed on every way out.
ReadStrict(t, sent) ==
  /\ call[t].op.reads = "strict"
  /\ Closing(t, sent, IF sent = "whole" THEN "whole" ELSE "error")

\* The error of the copy is ignored.
ReadTolerant_IgnoresCut(t, sent) ==
  /\ call[t].op.reads = "tolerant"
  /\ \E result \in IF sent = "whole" THEN {"whole"} ELSE {"part", "error"} :
       Closing(t, sent, result)

\* The body is copied first, so one that is cut off is an error; one that
\* decodes only in part is an error if nothing was decoded.
ReadTolerant(t, sent) ==
  /\ call[t].op.reads = "tolerant"
  /\ \E result \in CASE sent = "whole" -> {"whole"}
                     [] sent = "cut" -> {"error"}
                     [] sent = "garbled" -> {"part", "error"} :
       Closing(t, sent, result)

\* Nobody closes the body once it is decoded: neither the family recommended by
\* an SP, nor the second version of the challenge, which is closed only when it
\* does not decode or a field is empty.  The connection is lost, unless the
\* decoder met the end of the body by itself, or the place where it broke.
ReadUnclosed(t, sent) ==
  /\ call[t].op.reads = "unclosed"
  /\ LET result == IF sent = "whole" THEN "whole" ELSE "error"
     IN  \/ sent # "cut" /\ Unclosed(t, sent, result)
         \/ Closing(t, sent, result)

\* The header is read, and the body becomes the caller's reader.
ReadHeader(t) ==
  /\ call[t].op.reads = "reader"
  /\ \/ Closing(t, "nothing", "error")
     \/ HandedOver(t)

Read(t) ==
  /\ pc[t] = "read"
  /\ \/ \E sent \in Contents : \/ ReadStrict(t, sent)
                               \/ ReadTolerant(t, sent)
                               \/ ReadUnclosed(t, sent)
     \/ ReadHeader(t)
  /\ UNCHANGED fileVars

\* GetObject inside FGetObject: a header that does not parse closes the body.
ReadFileHeader(t) ==
  /\ pc[t] = "read"
  /\ call[t].op = FGetObject
  /\ \/ Fail(t)
     \/ Goto(t, "copy") /\ UNCHANGED <<connVars, fileVars>>

\* The error of the copy is ignored.
CopyFile_IgnoresCut(t, sent) ==
  /\ pc[t] = "copy"
  /\ file' = Append(file, sent)
  /\ Closing(t, sent, "whole")
  /\ UNCHANGED <<exists, auxRaced>>

\* FGetObject appends the body, or what came of it, and closes file and body.
CopyFile(t, sent) ==
  /\ pc[t] = "copy"
  /\ file' = Append(file, sent)
  /\ Closing(t, sent, IF sent = "whole" THEN "whole" ELSE "error")
  /\ UNCHANGED <<exists, auxRaced>>

\* A reader may be closed twice.
CloseReader_Twice ==
  /\ readers' = readers - 1
  /\ UNCHANGED <<callVars, lost, auxLostBy, fileVars>>

\* The caller closes a reader it was given.
CloseReader ==
  /\ readers > 0
  /\ readers' = readers - 1
  /\ UNCHANGED <<callVars, lost, auxLostBy, fileVars>>

-----------------------------------------------------------------------------

Before(t) ==
  \/ Stat(t)
  \/ StatRefuses(t)
  \/ OpenFile(t)
  \/ OpenFileFails(t)
  \/ CheckNames(t)
  \/ AskChain(t)
  \/ Route(t)
  \/ RouteFails(t)
  \/ Build(t)

Receive(t) ==
  \/ AnswerIsError(t)
  \/ Answer(t)
  \/ Read(t)
  \/ ReadFileHeader(t)
  \/ \E sent \in {"whole", "cut"} : CopyFile(t, sent)

Next ==
  \/ \E t \in Threads :
       \/ \E op \in Ops : Begin(t, op)
       \/ \E op \in Ops, result \in {"error", "empty"} : Refuse(t, op, result)
       \/ Before(t)
       \/ Send(t)
       \/ RequestFails(t)
       \/ Receive(t)
  \/ CloseReader

\* A thread runs, a free connection is given to a call that waits for one, and
\* an SP answers or its connection breaks.  Nobody has to begin a call, to close
\* a reader or to cancel.
Fairness ==
  \A t \in Threads : WF_vars(Before(t)) /\ WF_vars(Send(t)) /\ WF_vars(Receive(t))

Spec == Init /\ [][Next]_vars /\ Fairness

-----------------------------------------------------------------------------
(* Properties.                                                              *)

Results == {"none", "error", "empty", "status", "whole", "part", "reader"}

CallState == [op : AllOps, body : BOOLEAN,
              sent : Contents \cup {"nothing"}, result : Results]

\* The state stays in its types, and the connections within their bound.
TypeOK ==
  /\ pc \in [Threads -> {"idle", "stat", "open", "names", "chain", "route",
                         "build", "send", "wait", "read", "copy"}]
  /\ call \in [Threads -> CallState]
  /\ begun \in [Threads -> 0..MaxCalls]
  /\ readers \in Nat
  /\ lost \in Nat
  /\ exists \in BOOLEAN
  /\ file \in Seq({"whole", "cut"})
  /\ auxLostBy \subseteq AllOps
  /\ auxRaced \in BOOLEAN

\* A connection that no call holds and no caller was given is lost by one of
\* two operations: the recommended family, whose body nobody closes
\* (getRecommendedVirtualGroupFamilyIDBySPEndpoint), and the second version of
\* the challenge, which copies the piece and leaves the body open.  On every
\* other way out, errors included, a body is closed or handed over.
BodiesReturned ==
  /\ \A t \in Threads : call[t].body <=> pc[t] \in {"wait", "read", "copy"}
  /\ auxLostBy \subseteq {GetRecommendedVirtualGroupFamilyIDBySPID,
                          GetChallengeInfoV2}
  /\ lost > 0 => auxLostBy # {}

\* A call that reports a complete answer got one: an answer that was cut off
\* in the middle is always an error, and one that decodes only in part is an
\* error too or, in the operations written to tolerate it, a shorter list.
AnswerIsWhole ==
  \A t \in Threads :
    /\ call[t].result = "whole" => call[t].sent = "whole"
    /\ call[t].result = "part" =>
         call[t].sent = "garbled" /\ call[t].op.reads = "tolerant"

\* FGetObject succeeds only with the whole object, and nothing else, in its
\* file, unless another call opened the file between this one's look and its
\* creation: then both append to it and both succeed.
FileIsWhole ==
  \A t \in Threads :
    call[t].op = FGetObject /\ call[t].result = "whole" =>
      file = <<"whole">> \/ auxRaced

\* A call ends, or waits for ever for a connection because each one is lost or
\* in the hands of a caller who does not close it.
CallEnds ==
  \A t \in Threads :
    pc[t] # "idle" ~> pc[t] = "idle" \/ readers + lost = MaxConns

=============================================================================

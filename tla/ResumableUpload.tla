--------------------------- MODULE ResumableUpload ---------------------------
(***************************************************************************)
(* Client.PutObject and DelegatePutObject: the second stage of creating an *)
(* object, the upload of its payload to the storage provider (SP).  A      *)
(* payload larger than a part is posted part by part, each with its offset *)
(* and a flag on the last one; a call that finds an earlier upload at the  *)
(* SP skips the parts the SP has.                                          *)
(*                                                                         *)
(* The payload is the bytes 0..Size-1.  Several calls may upload the same  *)
(* object at once, each from a reader of its own that delivers a beginning *)
(* of the payload and then EOF or an error.  The SP and the chain are      *)
(* modelled from what the calls send and from the answers they handle.     *)
(***************************************************************************)
EXTENDS Integers, FiniteSets

CONSTANTS
  Clients,      \* the calls in flight, one per client
  Size,         \* objectSize: the payload size on chain
  PartSizes,    \* part sizes callers ask for (PutObjectOptions.PartSize)
  SegmentSize,  \* MaxSegmentSize of the storage module's parameters
  Sources,      \* the readers callers pass: [len, fails]
  Kinds,        \* which PutObjectOptions: [delegated, single]
  MaxFaults     \* bound: how many requests, hooks and processes fail

Source == [len : 0..Size, fails : BOOLEAN]
Kind == [delegated : BOOLEAN, single : BOOLEAN]

ASSUME SizeAssumption == Size \in Nat \ {0}
ASSUME PartSizesAssumption == PartSizes \subseteq Nat \ {0}
ASSUME SegmentAssumption == SegmentSize \in Nat \ {0}
ASSUME SourcesAssumption == Sources \subseteq Source
ASSUME KindsAssumption == Kinds \subseteq Kind
ASSUME FaultsAssumption == MaxFaults \in Nat

MaxHeadTryTime == 4

VARIABLES
  known,     \* has the SP seen the object on chain yet?
  status,    \* the object's status on chain: "CREATED" or "SEALED"
  stored,    \* what the SP holds: payload byte at each offset it was sent
  received,  \* has the SP taken the payload as complete?
  pc,        \* where the call of each client is
  call,      \* its locals
  result,    \* how the last call of each client ended
  faults     \* faults so far

\* History of calls that returned without an error; no guard reads it.
VARIABLE
  auxOk      \* for each client: bytes read, and what excuses an incomplete upload

spVars == <<known, status, stored, received>>
callVars == <<pc, call, result, auxOk>>
vars == <<spVars, callVars, faults>>

Excuse == {"reader", "allStored"}
CallState == [part : Nat \ {0}, kind : Kind, source : Source,
              tries : 0..MaxHeadTryTime, start : Nat \ {0}, partNumber : Nat \ {0},
              pos : 0..Size, totalUploadedSize : 0..Size,
              length : 0..Size, eof : BOOLEAN]

Lesser(a, b) == IF a <= b THEN a ELSE b

-----------------------------------------------------------------------------
(* The storage provider.                                                    *)

\* All bytes of the payload.
Complete(content) == \A o \in 0..Size-1 : o \in DOMAIN content

\* Bytes from the beginning without a hole.
Contiguous(content) ==
  CHOOSE n \in 0..Size :
    /\ \A o \in 0..n-1 : o \in DOMAIN content
    /\ n = Size \/ n \notin DOMAIN content

\* The SP resumes at whole segments.
WholeSegments(n) ==
  IF n = Size THEN n ELSE (n \div SegmentSize) * SegmentSize

\* n bytes of a body that begins at byte pos of the reader, stored at offset.
Write(content, offset, pos, n) ==
  [o \in DOMAIN content \union offset..offset+n-1 |->
     IF o \in offset..offset+n-1 THEN pos + (o - offset) ELSE content[o]]

\* How much of a body of n bytes the SP may have stored when it is cut off.
CutAt(n) == {k \in 0..n : k % SegmentSize = 0 \/ k = n}

-----------------------------------------------------------------------------
(* Reading from the caller's reader.                                        *)

ReadLength(c) == Lesser(call[c].part, call[c].source.len - call[c].pos)

\* utils.ReadFull: what is read, and how the read ends.
ReadFull(c) ==
  LET n == ReadLength(c)
  IN  CASE n = call[c].part -> "nil"
        [] n < call[c].part /\ call[c].source.fails -> "error"
        [] n < call[c].part /\ ~call[c].source.fails /\ n = 0 -> "EOF"
        [] OTHER -> "UnexpectedEOF"

\* SplitPartInfo
totalPartsCount(c) == (Size + call[c].part - 1) \div call[c].part

\* Part numbers start with 1; the part that holds the offset is sent again.
StartPart_RoundsUp(offset, part) == (offset + part - 1) \div part + 1

StartPart(offset, part) == offset \div part + 1

-----------------------------------------------------------------------------
NewCall(part, kind, source) ==
  [part |-> part, kind |-> kind, source |-> source, tries |-> 0, start |-> 1,
   partNumber |-> 1, pos |-> 0, totalUploadedSize |-> 0, length |-> 0,
   eof |-> FALSE]

Idle == NewCall(1, [delegated |-> FALSE, single |-> FALSE],
                [len |-> 0, fails |-> FALSE])

Init ==
  /\ known = FALSE
  /\ status = "CREATED"
  /\ stored = [o \in {} |-> o]
  /\ received = FALSE
  /\ pc = [c \in Clients |-> "idle"]
  /\ call = [c \in Clients |-> Idle]
  /\ result = [c \in Clients |-> "none"]
  /\ faults = 0
  /\ auxOk = [c \in Clients |-> [read |-> 0, excuses |-> {}]]

Goto(c, where) == pc' = [pc EXCEPT ![c] = where]

Fault == faults < MaxFaults /\ faults' = faults + 1

\* The call ends with an error, or its process dies.
Fail(c, r) ==
  /\ Goto(c, "idle")
  /\ call' = [call EXCEPT ![c] = Idle]
  /\ result' = [result EXCEPT ![c] = r]
  /\ auxOk' = auxOk

\* The call returns nil after reading total bytes of the payload.
Succeed(c, total) ==
  LET s == call[c].source
  IN
  /\ Goto(c, "idle")
  /\ call' = [call EXCEPT ![c] = Idle]
  /\ result' = [result EXCEPT ![c] = "ok"]
  /\ auxOk' = [auxOk EXCEPT ![c] =
       [read |-> total,
        excuses |-> {x \in Excuse :
          \/ x = "reader" /\ (s.fails \/ s.len < Size)
          \/ x = "allStored" /\ call[c].start > totalPartsCount(c)}]]

\* PutObject and DelegatePutObject: the checks and the choice of the way.
PutObject(c, part, kind, source) ==
  /\ pc[c] = "idle"
  /\ part % SegmentSize = 0
  /\ LET single == kind.single \/ Size <= part
     IN  /\ call' = [call EXCEPT ![c] =
                       NewCall(part, [kind EXCEPT !.single = single], source)]
         /\ Goto(c, IF ~kind.delegated THEN "head"
                    ELSE IF single THEN "put" ELSE "loop")
  /\ UNCHANGED <<spVars, result, auxOk, faults>>

\* "part size should be an integer multiple of the segment size"
RejectPartSize(c, part) ==
  /\ pc[c] = "idle"
  /\ part % SegmentSize # 0
  /\ Fail(c, "error")
  /\ UNCHANGED <<spVars, faults>>

(***************************************************************************)
(* headSPObjectInfo: the SP may not have seen the object yet.  Only that   *)
(* answer is tried again, any other error is ignored.                      *)
(***************************************************************************)
HeadDone(c) ==
  /\ Goto(c, IF call[c].kind.single THEN "put" ELSE "offset")
  /\ UNCHANGED <<spVars, call, result, auxOk>>

HeadFound(c) ==
  /\ pc[c] = "head"
  /\ known
  /\ HeadDone(c)
  /\ UNCHANGED faults

HeadErrorIgnored(c) ==
  /\ pc[c] = "head"
  /\ Fault
  /\ HeadDone(c)

HeadAgain_NoLimit(c) ==
  /\ pc[c] = "head"
  /\ ~known
  /\ UNCHANGED <<spVars, callVars, faults>>

HeadAgain(c) ==
  /\ pc[c] = "head"
  /\ ~known
  /\ call[c].tries + 1 < MaxHeadTryTime
  /\ call' = [call EXCEPT ![c].tries = @ + 1]
  /\ UNCHANGED <<spVars, pc, result, auxOk, faults>>

HeadGivesUp(c) ==
  /\ pc[c] = "head"
  /\ ~known
  /\ call[c].tries + 1 = MaxHeadTryTime
  /\ Fail(c, "error")
  /\ UNCHANGED <<spVars, faults>>

(***************************************************************************)
(* getObjectResumableUploadOffset: the SP is asked only while the status   *)
(* on chain is CREATED, and has no uploading record before the first part  *)
(* and, perhaps, after it took the payload.                                *)
(***************************************************************************)
QueryOffset(c) ==
  /\ pc[c] = "offset"
  /\ \E offset \in IF status = "CREATED"
                   THEN {WholeSegments(Contiguous(stored))}
                          \union (IF received THEN {0} ELSE {})
                   ELSE {0} :
       LET start == StartPart(offset, call[c].part)
       IN  /\ call' = [call EXCEPT ![c].start = start]
           /\ Goto(c, IF start > 1 THEN "skip" ELSE "loop")
  /\ UNCHANGED <<spVars, result, auxOk, faults>>

SkipPart_OnlyCounts(c) ==
  /\ pc[c] = "skip"
  /\ call' = [call EXCEPT ![c].totalUploadedSize = @ + ReadLength(c),
                          ![c].partNumber = @ + 1]
  /\ Goto(c, IF call[c].partNumber + 1 < call[c].start THEN "skip" ELSE "loop")
  /\ UNCHANGED <<spVars, result, auxOk, faults>>

\* The reader is wound forward; its errors, EOF excepted, go unnoticed.
SkipPart(c) ==
  /\ pc[c] = "skip"
  /\ IF ReadFull(c) = "EOF" /\ call[c].partNumber > 1
     THEN Goto(c, "loop") /\ call' = call
     ELSE /\ call' = [call EXCEPT ![c].pos = @ + ReadLength(c),
                                  ![c].totalUploadedSize = @ + ReadLength(c),
                                  ![c].partNumber = @ + 1]
          /\ Goto(c, IF call[c].partNumber + 1 < call[c].start
                     THEN "skip" ELSE "loop")
  /\ UNCHANGED <<spVars, result, auxOk, faults>>

MoreParts_DropsLast(c) == call[c].partNumber < totalPartsCount(c)

MoreParts(c) == call[c].partNumber <= totalPartsCount(c)

\* The loop ended after the last part.
AllPartsSent(c) ==
  /\ pc[c] = "loop"
  /\ ~MoreParts(c)
  /\ Succeed(c, call[c].totalUploadedSize)
  /\ UNCHANGED <<spVars, faults>>

\* The next part is read and posted.
ReadPart(c) ==
  /\ pc[c] = "loop"
  /\ MoreParts(c)
  /\ ReadFull(c) \in {"nil", "UnexpectedEOF"}
       \/ (ReadFull(c) = "EOF" /\ call[c].partNumber = 1)
  /\ call' = [call EXCEPT ![c].length = ReadLength(c),
                          ![c].pos = @ + ReadLength(c),
                          ![c].eof = (ReadFull(c) = "EOF")]
  /\ Goto(c, "post")
  /\ UNCHANGED <<spVars, result, auxOk, faults>>

(***************************************************************************)
(* The reader has no more: a break out of the loop at EOF, and after an    *)
(* error "return err", where err is the nil the hook returned.             *)
(***************************************************************************)
ReadEndsCall(c) ==
  /\ pc[c] = "loop"
  /\ MoreParts(c)
  /\ ReadFull(c) = "error" \/ (ReadFull(c) = "EOF" /\ call[c].partNumber > 1)
  /\ Succeed(c, call[c].totalUploadedSize)
  /\ UNCHANGED <<spVars, faults>>

IsLast_First(c) == call[c].partNumber = 1

\* The "complete" flag of the request.
IsLast(c) == call[c].partNumber = totalPartsCount(c)

\* Does the SP take a request for this object?
Accepts(c) == (known \/ call[c].kind.delegated) /\ ~received

\* n bytes of the body of the request arrive.
Arrive(c, n) ==
  stored' = Write(stored, call[c].totalUploadedSize,
                  call[c].pos - call[c].length, n)

\* The SP stores the part, and takes the payload when the last one completes it.
StorePart(c) ==
  /\ pc[c] = "post"
  /\ Accepts(c)
  /\ Arrive(c, call[c].length)
  /\ IsLast(c) => Complete(stored')
  /\ received' = IsLast(c)
  /\ known' = TRUE
  /\ UNCHANGED status

\* The SP answers: the call goes on with the next part.
PostPart(c) ==
  /\ StorePart(c)
  /\ LET total == call[c].totalUploadedSize + call[c].length
     IN  IF call[c].eof
         THEN Succeed(c, total)
         ELSE /\ call' = [call EXCEPT ![c].totalUploadedSize = total,
                                      ![c].partNumber = @ + 1,
                                      ![c].length = 0]
              /\ Goto(c, "loop")
              /\ UNCHANGED <<result, auxOk>>
  /\ UNCHANGED faults

\* The part was stored, its answer is lost.
PostAnswerLost(c) ==
  /\ StorePart(c)
  /\ Fault
  /\ Fail(c, "error")

\* The request breaks off before the SP has all of it or has dealt with it.
PostCut(c) ==
  /\ pc[c] = "post"
  /\ Accepts(c)
  /\ Fault
  /\ \E n \in CutAt(call[c].length) : Arrive(c, n)
  /\ Fail(c, "error")
  /\ UNCHANGED <<known, status, received>>

\* The SP refuses: unknown or received object, or parts are missing at the end.
PostRefused(c) ==
  /\ pc[c] = "post"
  /\ \/ ~Accepts(c) /\ UNCHANGED stored
     \/ /\ Accepts(c) /\ IsLast(c)
        /\ Arrive(c, call[c].length)
        /\ ~Complete(stored')
  /\ Fail(c, "error")
  /\ UNCHANGED <<known, status, received, faults>>

\* putObject: the whole payload in one request, if the reader has all of it.
PutWhole(c) ==
  /\ pc[c] = "put"
  /\ Accepts(c)
  /\ call[c].source.len = Size /\ ~call[c].source.fails
  /\ stored' = Write(stored, 0, 0, Size)
  /\ received' = TRUE
  /\ known' = TRUE
  /\ \/ Succeed(c, Size) /\ UNCHANGED faults
     \/ Fault /\ Fail(c, "error")
  /\ UNCHANGED status

\* The request breaks off, or the body ends before its Content-Length.
PutCut(c) ==
  /\ pc[c] = "put"
  /\ \/ Fault
     \/ call[c].source.len < Size /\ UNCHANGED faults
     \/ call[c].source.fails /\ UNCHANGED faults
  /\ IF Accepts(c)
     THEN \E n \in CutAt(call[c].source.len) : stored' = Write(stored, 0, 0, n)
     ELSE UNCHANGED stored
  /\ Fail(c, "error")
  /\ UNCHANGED <<known, status, received>>

PutRefused(c) ==
  /\ pc[c] = "put"
  /\ ~Accepts(c)
  /\ Fail(c, "error")
  /\ UNCHANGED <<spVars, faults>>

(***************************************************************************)
(* A failed chain query, an SP that cannot be asked for the offset, the    *)
(* hook's error, no route to the SP; or the process dies.                  *)
(***************************************************************************)
Abort(c) ==
  /\ pc[c] # "idle"
  /\ Fault
  /\ \/ pc[c] \in {"offset", "loop", "put", "post"} /\ Fail(c, "error")
     \/ Fail(c, "crash")
  /\ UNCHANGED spVars

\* The SP sees the object's creation on chain.
SpLearns ==
  /\ ~known
  /\ known' = TRUE
  /\ UNCHANGED <<status, stored, received, callVars, faults>>

\* The SP seals the object it has received.
Seal ==
  /\ received /\ status = "CREATED"
  /\ status' = "SEALED"
  /\ UNCHANGED <<known, stored, received, callVars, faults>>

\* The steps of a call that has been made.
CallStep(c) ==
  \/ HeadFound(c) \/ HeadErrorIgnored(c) \/ HeadAgain(c) \/ HeadGivesUp(c)
  \/ QueryOffset(c) \/ SkipPart(c)
  \/ AllPartsSent(c) \/ ReadPart(c) \/ ReadEndsCall(c)
  \/ PostPart(c) \/ PostAnswerLost(c) \/ PostCut(c) \/ PostRefused(c)
  \/ PutWhole(c) \/ PutCut(c) \/ PutRefused(c)
  \/ Abort(c)

MakeCall(c) ==
  \E part \in PartSizes, kind \in Kinds, source \in Sources :
    PutObject(c, part, kind, source)

Next ==
  \/ \E c \in Clients :
       \/ MakeCall(c)
       \/ \E part \in PartSizes : RejectPartSize(c, part)
       \/ CallStep(c)
  \/ SpLearns
  \/ Seal

Spec == Init /\ [][Next]_vars

\* A call that was made runs on.
CallsRun == \A c \in Clients : WF_vars(CallStep(c))

FairSpec == Spec /\ CallsRun

\* The SP follows the chain, and a caller tries again.
RetrySpec ==
  Spec /\ CallsRun /\ WF_vars(SpLearns) /\ \A c \in Clients : WF_vars(MakeCall(c))

-----------------------------------------------------------------------------
(* What the upload promises.                                                *)

\* The variables hold values of their types.
TypeOK ==
  /\ known \in BOOLEAN
  /\ status \in {"CREATED", "SEALED"}
  /\ DOMAIN stored \subseteq 0..Size-1
  /\ \A o \in DOMAIN stored : stored[o] \in 0..Size-1
  /\ received \in BOOLEAN
  /\ pc \in [Clients -> {"idle", "head", "offset", "skip", "loop", "post", "put"}]
  /\ call \in [Clients -> CallState]
  /\ result \in [Clients -> {"none", "ok", "error", "crash"}]
  /\ faults \in 0..MaxFaults
  /\ auxOk \in [Clients -> [read : 0..Size, excuses : SUBSET Excuse]]

(***************************************************************************)
(* Whoever uploads, with whatever part sizes, and however often uploads    *)
(* are resumed: the SP gets each byte of the payload at its own offset.    *)
(***************************************************************************)
StoredInPlace == \A o \in DOMAIN stored : stored[o] = o

\* The SP is never sent a part whose predecessors it does not have.
StoredWithoutHole == DOMAIN stored = 0..Contiguous(stored)-1

(***************************************************************************)
(* A call that returns no error leaves a payload the SP has received; but  *)
(* for a reader that did not deliver it, and a resumption that finds all   *)
(* parts stored and does not send the last one, the one with the flag.     *)
(***************************************************************************)
SuccessMeansReceived ==
  \A c \in Clients :
    result[c] = "ok" /\ auxOk[c].excuses = {} => received

\* The storage provider's side, as ObjectUpload promises it.
Promise == INSTANCE ObjectUpload WITH
  content <- stored,
  done <- received,
  acked <- {c \in Clients : result[c] = "ok" /\ auxOk[c].excuses = {}}

(***************************************************************************)
(* Every upload, in parts or whole, resumed or concurrent, does what       *)
(* ObjectUpload says: the payload grows from its beginning, is taken only  *)
(* when it is whole, and is reported only when it was taken.               *)
(***************************************************************************)
ImplementsPromise == Promise!Spec

\* A call returns, also while the SP does not know the object.
CallReturns == \A c \in Clients : (pc[c] # "idle") ~> (pc[c] = "idle")

(***************************************************************************)
(* A caller that tries again after each failure gets the object received:  *)
(* but if the SP has all parts and never took them as complete, because    *)
(* the last request broke off after its last byte, and parts of the size   *)
(* asked for end where the object ends, the call sends no part, and so no  *)
(* flag, and returns nil.  Every later one with parts of that size does.   *)
(***************************************************************************)
NothingLeftToSend(c) == result[c] = "ok" /\ "allStored" \in auxOk[c].excuses

RetriesComplete ==
  <>(received \/ (Complete(stored) /\ \E c \in Clients : NothingLeftToSend(c)))

-----------------------------------------------------------------------------
(* Why: the invariant the proofs in ResumableUpload_proofs are about.      *)

\* What the SP holds is a beginning of the payload, and all of it at the end.
StoredPrefix ==
  /\ Contiguous(stored) \in 0..Size
  /\ stored = [o \in 0..Contiguous(stored)-1 |-> o]
  /\ received => Contiguous(stored) = Size

(***************************************************************************)
(* Where a call stands.  The reader is at the offset of the next part,     *)
(* which is a whole number of parts unless the reader has ended, and no    *)
(* part is posted beyond what the SP has.                                  *)
(***************************************************************************)
Progress(c) ==
  /\ call[c].pos = call[c].totalUploadedSize + call[c].length
  /\ call[c].totalUploadedSize =
       Lesser(call[c].part * (call[c].partNumber - 1), call[c].source.len)
  /\ pc[c] # "post" => call[c].length = 0
  /\ pc[c] \in {"head", "offset"} => call[c].partNumber = 1
  /\ pc[c] = "skip" =>
       /\ call[c].partNumber < call[c].start
       /\ call[c].part * (call[c].start - 1) <= Contiguous(stored)
  /\ pc[c] \in {"loop", "post"} => call[c].totalUploadedSize <= Contiguous(stored)
  /\ pc[c] = "loop" =>
       MoreParts(c) \/ received \/ call[c].start > totalPartsCount(c)
  /\ pc[c] = "post" =>
       /\ MoreParts(c)
       /\ call[c].length =
            Lesser(call[c].part, call[c].source.len - call[c].totalUploadedSize)
       /\ call[c].eof => call[c].source.len = 0

IInv ==
  /\ TypeOK
  /\ StoredPrefix
  /\ \A c \in Clients : Progress(c)
  /\ SuccessMeansReceived

(***************************************************************************)
(* "Total data read and written to server. should be equal to 'size' at    *)
(* the end of the call."                                                   *)
(***************************************************************************)
TotalIsSize == \A c \in Clients : result[c] = "ok" => auxOk[c].read = Size

=============================================================================

-------------------------- MODULE ResumableDownload --------------------------
(***************************************************************************)
(* Client.FGetObjectResumable: an object, or a byte range of it, is        *)
(* downloaded part by part into a temporary file, and the temporary file   *)
(* is renamed to the destination when the loop over the parts ends.  A     *)
(* call that fails, or a process that dies, leaves the temporary file      *)
(* behind; the next call finds it with os.Stat, cuts it back to whole      *)
(* parts and goes on from there.                                           *)
(*                                                                         *)
(* A file is the sequence of its bytes and a byte is known by where it     *)
(* came from: the version of the object and the offset in its payload.     *)
(* One caller uses the temporary file, with one range; the part size may   *)
(* differ from call to call (the file name does not depend on it).         *)
(***************************************************************************)
EXTENDS Integers, Sequences

CONSTANTS
  Sizes,        \* payload sizes the object may have
  PartSizes,    \* part sizes callers ask for (GetObjectOptions.PartSize)
  SegmentSize,  \* MaxSegmentSize of the storage module's parameters
  Requests,     \* what ParseRange makes of GetObjectOptions.Range
  MaxUpdates    \* bound: how often the object's content is replaced

Request == [isRange : BOOLEAN, start : Int, end : Int]

ASSUME SizesAssumption == Sizes \subseteq Nat
ASSUME PartSizesAssumption == PartSizes \subseteq Nat \ {0}
ASSUME SegmentAssumption == SegmentSize \in Nat \ {0}
ASSUME RequestsAssumption ==
  Requests \subseteq {r \in Request : r.isRange => r.start \in Nat}
ASSUME UpdatesAssumption == MaxUpdates \in Nat

VARIABLES
  object,      \* the object on chain and on the SP: [ver, size]
  req,         \* the range requested, the same in every call
  tempExists,  \* is there a temporary file?
  temp,        \* its bytes (<<>> when there is none)
  finalExists, \* is there a file under the destination's name?
  final,       \* its bytes
  pc,          \* where the current call is
  call,        \* the locals of the current call
  result       \* how the last call ended

(***************************************************************************)
(* History of what the code gives no guarantee for; no guard reads it.     *)
(***************************************************************************)
VARIABLES
  auxFlaws,    \* what happened to the temporary file: "mixed", "misplaced"
  auxDone      \* at the last rename: the object, the flaws, the last byte lost

dlVars == <<object, req, tempExists, temp, finalExists, final, pc, call, result>>
vars == <<dlVars, auxFlaws, auxDone>>

Byte == [ver : Nat, off : Int]
Flaw == {"mixed", "misplaced"}
ObjectState == [ver : Nat, size : Sizes]
DoneState == [object : ObjectState, flaws : SUBSET Flaw, short : BOOLEAN]
CallState == [part : Nat \ {0}, startOffset : Int, endOffset : Int,
              partStart : Int, fdOpen : BOOLEAN, ver : Nat, got : Nat]

\* n bytes of version v of the payload, from offset s on.
Slice(v, s, n) == [i \in 1..n |-> [ver |-> v, off |-> s + i - 1]]

Lesser(a, b) == IF a <= b THEN a ELSE b

-----------------------------------------------------------------------------
(* Offsets: all bounds are inclusive, as in the HTTP Range header.          *)

\* Where the requested bytes begin and end in a payload of the given size.
RangeStart == IF req.isRange THEN req.start ELSE 0

RangeEnd(size) ==
  IF req.isRange /\ req.end \in 0..size-1 THEN req.end ELSE size - 1

\* Size of the first part of a range that is aligned to the parts.
FirstSegSize(part) ==
  IF req.isRange THEN part - (req.start % part) ELSE part

getSegmentEnd(begin, total, per) ==
  IF begin + per > total THEN total - 1 ELSE begin + per - 1

TruncateOffset_CutsFirstPart(fileSize, part) ==
  LET first == FirstSegSize(part)
  IN  IF fileSize > first
      THEN ((fileSize - first) \div part) * part
      ELSE 0

(***************************************************************************)
(* What a call makes of a temporary file of the given size: where it cuts  *)
(* the file and at which offset of the payload it goes on.                 *)
(***************************************************************************)
TruncateOffset(fileSize, part) ==
  LET first == FirstSegSize(part)
  IN  IF fileSize > first
      THEN ((fileSize - first) \div part) * part + first
      ELSE 0

ResumeOffset_CountsPartialPart(fileSize, part) ==
  LET first == FirstSegSize(part)
  IN  IF fileSize > first
      THEN ((fileSize - first) \div part) * part + 2 * part
      ELSE 0

ResumeOffset(fileSize, part) ==
  LET first == FirstSegSize(part)
  IN  IF fileSize > first
      THEN ((fileSize - first) \div part) * part + part
      ELSE 0

NeedsTruncate(fileSize, part) == (fileSize - FirstSegSize(part)) % part # 0

(***************************************************************************)
(* The shapes of a temporary file that ResumeOffset places wrongly: it     *)
(* holds exactly the first part, which is kept and then fetched again; or  *)
(* a range that does not begin at byte 0 holds no whole first part, and is *)
(* fetched from byte 0; or the range begins beyond the first part, whose   *)
(* bytes ResumeOffset counts as downloaded.                                *)
(***************************************************************************)
MisplacedResume(fileSize, part) ==
  \/ fileSize = FirstSegSize(part)
  \/ RangeStart > 0 /\ fileSize < FirstSegSize(part)
  \/ RangeStart >= part

\* The loop stops before the last byte when that byte is a part of its own.
LosesLastByte(c) ==
  c.startOffset <= c.endOffset /\ (c.endOffset - c.startOffset) % c.part = 0

-----------------------------------------------------------------------------
NewCall(part, startOffset, endOffset) ==
  [part |-> part, startOffset |-> startOffset, endOffset |-> endOffset,
   partStart |-> 0, fdOpen |-> FALSE, ver |-> 0, got |-> 0]

Idle == NewCall(1, 0, 0)

Init ==
  /\ object \in [ver : {0}, size : Sizes]
  /\ req \in Requests
  /\ tempExists = FALSE /\ temp = <<>>
  /\ finalExists = FALSE /\ final = <<>>
  /\ pc = "idle" /\ call = Idle /\ result = "none"
  /\ auxFlaws = {}
  /\ auxDone = [object |-> object, flaws |-> {}, short |-> FALSE]

Return(r) ==
  /\ pc' = "idle"
  /\ call' = Idle
  /\ result' = r

\* HeadObject, GetParams, the part size check and ParseRange.
Start(part) ==
  /\ pc = "idle"
  /\ part % SegmentSize = 0
  /\ pc' = "stat"
  /\ call' = NewCall(part, RangeStart, RangeEnd(object.size))
  /\ UNCHANGED <<object, req, tempExists, temp, finalExists, final, result,
                 auxFlaws, auxDone>>

\* "part size should be an integer multiple of the segment size"
RejectPartSize(part) ==
  /\ pc = "idle"
  /\ part % SegmentSize # 0
  /\ Return("error")
  /\ UNCHANGED <<object, req, tempExists, temp, finalExists, final,
                 auxFlaws, auxDone>>

\* os.Stat finds no file: the offsets of the request stand.
NoTempFile ==
  /\ pc = "stat"
  /\ ~tempExists
  /\ pc' = "open"
  /\ UNCHANGED <<object, req, tempExists, temp, finalExists, final, call,
                 result, auxFlaws, auxDone>>

\* os.Stat finds a file: choose where to go on, and cut it to whole parts.
FoundTempFile ==
  LET size == Len(temp)
      part == call.part
  IN
  /\ pc = "stat"
  /\ tempExists
  /\ call' = [call EXCEPT !.startOffset = ResumeOffset(size, part)]
  /\ temp' = IF NeedsTruncate(size, part)
             THEN SubSeq(temp, 1, TruncateOffset(size, part))
             ELSE temp
  /\ auxFlaws' = IF MisplacedResume(size, part)
                 THEN auxFlaws \union {"misplaced"}
                 ELSE auxFlaws
  /\ pc' = "open"
  /\ UNCHANGED <<object, req, tempExists, finalExists, final, result, auxDone>>

\* O_WRONLY|O_CREATE|O_APPEND; the Seek has no effect on a file opened so.
OpenTemp ==
  /\ pc = "open"
  /\ tempExists' = TRUE
  /\ call' = [call EXCEPT !.partStart = call.startOffset, !.fdOpen = TRUE]
  /\ pc' = "loop"
  /\ UNCHANGED <<object, req, temp, finalExists, final, result,
                 auxFlaws, auxDone>>

MoreParts == call.partStart < call.endOffset

RequestPart_PastTheEnd ==
  LET partEnd == getSegmentEnd(call.partStart, call.endOffset + 1, call.part)
  IN
  /\ pc = "loop"
  /\ call.fdOpen
  /\ call' = [call EXCEPT
       !.ver = object.ver,
       !.got = Lesser(partEnd + 1, object.size) - call.partStart]
  /\ pc' = "copy"
  /\ UNCHANGED <<object, req, tempExists, temp, finalExists, final, result,
                 auxFlaws, auxDone>>

(***************************************************************************)
(* One GetObject with a Range header: the SP serves what its current       *)
(* version of the object has of those bytes.                               *)
(***************************************************************************)
RequestPart ==
  LET partEnd == getSegmentEnd(call.partStart, call.endOffset + 1, call.part)
  IN
  /\ pc = "loop"
  /\ MoreParts
  /\ call.partStart < object.size
  /\ call' = [call EXCEPT
       !.ver = object.ver,
       !.got = Lesser(partEnd + 1, object.size) - call.partStart]
  /\ pc' = "copy"
  /\ UNCHANGED <<object, req, tempExists, temp, finalExists, final, result,
                 auxFlaws, auxDone>>

\* io.Copy wrote all of the response.
CopyPart ==
  /\ pc = "copy"
  /\ call.fdOpen
  /\ temp' = temp \o Slice(call.ver, call.partStart, call.got)
  /\ call' = [call EXCEPT !.partStart = @ + call.part]
  /\ pc' = "loop"
  /\ UNCHANGED <<object, req, tempExists, finalExists, final, result,
                 auxFlaws, auxDone>>

CopyPartFails_IgnoresError ==
  /\ pc = "copy"
  /\ call.fdOpen
  /\ \E n \in 0..call.got-1 :
       temp' = temp \o Slice(call.ver, call.partStart, n)
  /\ call' = [call EXCEPT !.partStart = @ + call.part]
  /\ pc' = "loop"
  /\ UNCHANGED <<object, req, tempExists, finalExists, final, result,
                 auxFlaws, auxDone>>

(***************************************************************************)
(* io.Copy stopped after n bytes.  The error is logged, the file is closed *)
(* and the loop goes on to the next part all the same.                     *)
(***************************************************************************)
CopyPartFails ==
  /\ pc = "copy"
  /\ call.fdOpen
  /\ \E n \in 0..call.got-1 :
       temp' = temp \o Slice(call.ver, call.partStart, n)
  /\ call' = [call EXCEPT !.fdOpen = FALSE, !.partStart = @ + call.part]
  /\ pc' = "loop"
  /\ UNCHANGED <<object, req, tempExists, finalExists, final, result,
                 auxFlaws, auxDone>>

CopyToClosedFile_SamePart ==
  /\ pc = "copy"
  /\ ~call.fdOpen
  /\ pc' = "loop"
  /\ UNCHANGED <<object, req, tempExists, temp, finalExists, final, call,
                 result, auxFlaws, auxDone>>

\* After such an error nothing more can be written through the closed file.
CopyToClosedFile ==
  /\ pc = "copy"
  /\ ~call.fdOpen
  /\ call' = [call EXCEPT !.partStart = @ + call.part]
  /\ pc' = "loop"
  /\ UNCHANGED <<object, req, tempExists, temp, finalExists, final, result,
                 auxFlaws, auxDone>>

(***************************************************************************)
(* A call ends with an error and leaves the files as they are: a failed    *)
(* query, Stat, Truncate, Open or request, a cancelled context, or         *)
(* DownloadSegmentHooker.                                                  *)
(***************************************************************************)
ReturnError ==
  /\ pc \in {"stat", "open"} \/ (pc = "loop" /\ MoreParts)
  /\ Return("error")
  /\ UNCHANGED <<object, req, tempExists, temp, finalExists, final,
                 auxFlaws, auxDone>>

\* The loop is over; closing a file that is closed already is an error.
CloseTemp ==
  /\ pc = "loop"
  /\ ~MoreParts
  /\ call.fdOpen
  /\ pc' = "rename"
  /\ UNCHANGED <<object, req, tempExists, temp, finalExists, final, call,
                 result, auxFlaws, auxDone>>

CloseTempFails ==
  /\ pc = "loop"
  /\ ~MoreParts
  /\ Return("error")
  /\ UNCHANGED <<object, req, tempExists, temp, finalExists, final,
                 auxFlaws, auxDone>>

\* os.Rename replaces whatever the destination was.
RenameTemp ==
  /\ pc = "rename"
  /\ finalExists' = TRUE
  /\ final' = temp
  /\ tempExists' = FALSE
  /\ temp' = <<>>
  /\ auxDone' = [object |-> object, flaws |-> auxFlaws,
                 short |-> LosesLastByte(call)]
  /\ auxFlaws' = {}
  /\ Return("ok")
  /\ UNCHANGED <<object, req>>

RenameFails ==
  /\ pc = "rename"
  /\ Return("error")
  /\ UNCHANGED <<object, req, tempExists, temp, finalExists, final,
                 auxFlaws, auxDone>>

\* The process dies; its files stay.
Crash ==
  /\ pc # "idle"
  /\ Return("crash")
  /\ UNCHANGED <<object, req, tempExists, temp, finalExists, final,
                 auxFlaws, auxDone>>

\* Somebody replaces the object's content (UpdateObjectContent).
UpdateObject ==
  /\ object.ver < MaxUpdates
  /\ \E size \in Sizes : object' = [ver |-> object.ver + 1, size |-> size]
  /\ auxFlaws' = IF tempExists \/ pc # "idle"
                 THEN auxFlaws \union {"mixed"}
                 ELSE auxFlaws
  /\ UNCHANGED <<req, tempExists, temp, finalExists, final, pc, call, result,
                 auxDone>>

\* The steps of a call that has been made.
CallStep ==
  \/ NoTempFile \/ FoundTempFile \/ OpenTemp
  \/ RequestPart \/ CopyPart \/ CopyPartFails \/ CopyToClosedFile
  \/ ReturnError \/ CloseTemp \/ CloseTempFails
  \/ RenameTemp \/ RenameFails

Next ==
  \/ \E part \in PartSizes : Start(part) \/ RejectPartSize(part)
  \/ CallStep
  \/ Crash
  \/ UpdateObject

Spec == Init /\ [][Next]_vars

\* A call that was made runs on: its goroutine is scheduled, and each request
\* and each system call returns, with or without an error.
FairSpec == Spec /\ WF_vars(CallStep)

-----------------------------------------------------------------------------
(* What the download promises.                                             *)

\* The variables hold values of their types.
TypeOK ==
  /\ object \in ObjectState
  /\ req \in Requests
  /\ tempExists \in BOOLEAN
  /\ temp \in Seq(Byte)
  /\ finalExists \in BOOLEAN
  /\ final \in Seq(Byte)
  /\ pc \in {"idle", "stat", "open", "loop", "copy", "rename"}
  /\ call \in CallState
  /\ result \in {"none", "ok", "error", "crash"}
  /\ auxFlaws \in SUBSET Flaw
  /\ auxDone \in DoneState

\* How many bytes are requested of a payload of the given size.
Wanted(size) ==
  IF RangeEnd(size) < RangeStart THEN 0 ELSE RangeEnd(size) - RangeStart + 1

(***************************************************************************)
(* Whatever fails, and however often the download is resumed, the          *)
(* temporary file is a contiguous beginning of the bytes requested, unless *)
(* the object changed under it or a call resumed it in one of the shapes   *)
(* of MisplacedResume.                                                     *)
(***************************************************************************)
TempIsPrefix ==
  auxFlaws = {} =>
    /\ Len(temp) <= Wanted(object.size)
    /\ temp = Slice(object.ver, RangeStart, Len(temp))

(***************************************************************************)
(* A file that the call renamed to the destination, reporting success,     *)
(* holds exactly the bytes requested, of one version of the object; only   *)
(* its last byte is missing when that byte was a part of its own.          *)
(***************************************************************************)
FinalIsExact ==
  finalExists /\ auxDone.flaws = {} =>
    LET o == auxDone.object
    IN  final = Slice(o.ver, RangeStart,
                      Wanted(o.size) - (IF auxDone.short THEN 1 ELSE 0))

(***************************************************************************)
(* Resuming throws less than one part of the downloaded bytes away, and    *)
(* nothing else ever shortens the temporary file but its renaming.         *)
(***************************************************************************)
ResumeKeepsWholeParts ==
  [][tempExists' => Len(temp') > Len(temp) - call.part]_vars

\* A call returns, also when a part fails and the rest is still requested.
CallReturns == (pc # "idle") ~> (pc = "idle")

(***************************************************************************)
(* Why the two invariants above hold: where a call stands between its      *)
(* steps, as long as nothing on the list of auxFlaws happened.             *)
(***************************************************************************)
CallProgress ==
  /\ ~tempExists => temp = <<>>
  /\ pc \in {"loop", "copy", "rename"} => tempExists
  /\ pc = "stat" => call.startOffset = RangeStart
  /\ auxFlaws = {} =>
       /\ pc # "idle" => call.endOffset = RangeEnd(object.size)
       /\ pc = "open" => call.startOffset = RangeStart + Len(temp)
       /\ pc \in {"loop", "copy"} /\ call.fdOpen =>
            /\ RangeStart <= call.startOffset
            /\ call.startOffset <= call.partStart
            /\ (call.partStart - call.startOffset) % call.part = 0
            /\ \/ call.partStart = call.startOffset
               \/ call.partStart - call.part < call.endOffset
            /\ Len(temp) = Lesser(call.partStart - RangeStart,
                                  Wanted(object.size))
       /\ pc = "copy" =>
            LET partEnd ==
                  getSegmentEnd(call.partStart, call.endOffset + 1, call.part)
            IN  /\ MoreParts
                /\ call.ver = object.ver
                /\ call.got = Lesser(partEnd + 1, object.size) - call.partStart
       /\ pc = "rename" =>
            Len(temp) = Wanted(object.size) - (IF LosesLastByte(call) THEN 1 ELSE 0)

IInv == TypeOK /\ CallProgress /\ TempIsPrefix /\ FinalIsExact

(***************************************************************************)
(* What the end-to-end test expects of an interrupted download: after a    *)
(* successful call the file is the one FGetObject fetches.                 *)
(***************************************************************************)
DownloadedAsRequested ==
  result = "ok" =>
    final = Slice(auxDone.object.ver, RangeStart, Wanted(auxDone.object.size))

=============================================================================

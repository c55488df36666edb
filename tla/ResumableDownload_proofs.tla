----------------------- MODULE ResumableDownload_proofs -----------------------
(***************************************************************************)
(* Proofs about ResumableDownload, for every set of payload sizes, part    *)
(* sizes, requested ranges and every number of updates.                    *)
(***************************************************************************)
EXTENDS ResumableDownload, SequenceTheorems, TLAPS

-----------------------------------------------------------------------------
(***************************************************************************)
(* Arithmetic of parts: a payload is cut into parts of p bytes, offsets    *)
(* are compared with multiples of p, and no solver proves these facts for  *)
(* a symbolic p unaided.                                                   *)
(***************************************************************************)

\* Division with remainder, for the divisor that a part size is.
LEMMA DivMod ==
  ASSUME NEW a \in Int, NEW p \in Nat \ {0}
  PROVE  /\ a = p * (a \div p) + (a % p)
         /\ a % p \in 0..p-1
         /\ a \div p \in Int
OBVIOUS

\* A positive number of parts is at least one part long.
LEMMA PartsMonotone ==
  ASSUME NEW d \in Int, NEW p \in Nat \ {0}, d >= 1
  PROVE  p * d >= p
OBVIOUS

\* A multiple of p leaves no remainder, however it is written.
LEMMA NoRemainder ==
  ASSUME NEW p \in Nat \ {0}, NEW k \in Int, NEW j \in Int, NEW r \in 0..p-1,
         p * j = p * k + r
  PROVE  r = 0
<1>1. p * (j - k) = r
  OBVIOUS
<1>2. ~(j - k >= 1)
  BY <1>1, PartsMonotone
<1>3. j - k <= -1 => p * (k - j) >= p
  BY PartsMonotone
<1>4. p * (k - j) = -r
  BY <1>1
<1> QED
  BY <1>1, <1>2, <1>3, <1>4

\* Whole parts leave no remainder.
LEMMA MultipleMod ==
  ASSUME NEW p \in Nat \ {0}, NEW j \in Int, NEW x \in Int, x = p * j
  PROVE  x % p = 0
<1>1. PICK k \in Int, r \in 0..p-1 : x = p * k + r /\ r = x % p
  BY DivMod
<1> QED
  BY <1>1, NoRemainder

\* One part more is still a whole number of parts.
LEMMA ModStep ==
  ASSUME NEW a \in Int, NEW p \in Nat \ {0}, a % p = 0
  PROVE  (a + p) % p = 0
<1>1. a = p * (a \div p) /\ a \div p \in Int
  BY DivMod
<1>2. PICK k \in Int : a = p * k
  BY <1>1
<1>3. a + p = p * (k + 1) /\ a + p \in Int /\ k + 1 \in Int
  BY <1>2
<1> HIDE <1>2
<1>4. \A x \in Int, j \in Int : x = p * j => x % p = 0
  BY MultipleMod
<1> QED
  BY <1>3, <1>4

\* Two whole numbers of parts that differ by less than a part are equal.
LEMMA ModUnique ==
  ASSUME NEW a \in Int, NEW b \in Int, NEW p \in Nat \ {0},
         a % p = 0, b % p = 0, a <= b, b < a + p
  PROVE  a = b
<1>1. a = p * (a \div p) /\ a \div p \in Int
  BY DivMod
<1>2. b = p * (b \div p) /\ b \div p \in Int
  BY DivMod
<1>3. CASE (b \div p) - (a \div p) >= 1
  <2>1. p * ((b \div p) - (a \div p)) >= p
    BY <1>1, <1>2, <1>3, PartsMonotone
  <2>2. p * ((b \div p) - (a \div p)) = b - a
    BY <1>1, <1>2
  <2> QED
    BY <2>1, <2>2
<1>4. CASE (a \div p) - (b \div p) >= 1
  <2>1. p * ((a \div p) - (b \div p)) >= p
    BY <1>1, <1>2, <1>4, PartsMonotone
  <2>2. p * ((a \div p) - (b \div p)) = a - b
    BY <1>1, <1>2
  <2> QED
    BY <2>1, <2>2
<1> QED
  BY <1>1, <1>2, <1>3, <1>4

\* An offset inside the first part is its own remainder.
LEMMA SmallMod ==
  ASSUME NEW a \in Nat, NEW p \in Nat \ {0}, a < p
  PROVE  a % p = a
OBVIOUS

-----------------------------------------------------------------------------
(* Slices of a payload.                                                     *)

\* A slice is a sequence of bytes of the length asked for.
LEMMA SliceType ==
  ASSUME NEW v \in Nat, NEW s \in Int, NEW n \in Nat
  PROVE  Slice(v, s, n) \in Seq(Byte) /\ Len(Slice(v, s, n)) = n
BY DEF Slice, Byte

\* Adjacent slices make one slice.
LEMMA SliceConcat ==
  ASSUME NEW v \in Nat, NEW s \in Int, NEW m \in Nat, NEW n \in Nat
  PROVE  Slice(v, s, m) \o Slice(v, s + m, n) = Slice(v, s, m + n)
BY DEF Slice

\* A beginning of a slice is a slice.
LEMMA SlicePrefix ==
  ASSUME NEW v \in Nat, NEW s \in Int, NEW m \in Nat, NEW n \in 0..m
  PROVE  SubSeq(Slice(v, s, m), 1, n) = Slice(v, s, n)
BY DEF Slice

\* Cutting a file leaves a file of the length asked for.
LEMMA CutType ==
  ASSUME NEW f \in Seq(Byte), NEW n \in 0..Len(f)
  PROVE  SubSeq(f, 1, n) \in Seq(Byte) /\ Len(SubSeq(f, 1, n)) = n
OBVIOUS

\* Writing to a file lengthens it.
LEMMA AppendType ==
  ASSUME NEW f \in Seq(Byte), NEW g \in Seq(Byte)
  PROVE  f \o g \in Seq(Byte) /\ Len(f \o g) = Len(f) + Len(g)
OBVIOUS

-----------------------------------------------------------------------------
(* Offsets.                                                                 *)

\* The offsets of a request in the payload are integers.
LEMMA RequestOffsets ==
  ASSUME req \in Requests, NEW size \in Nat
  PROVE  /\ RangeStart \in Nat
         /\ RangeEnd(size) \in Int
         /\ RangeEnd(size) <= size - 1
         /\ Wanted(size) \in Nat
BY RequestsAssumption DEF RangeStart, RangeEnd, Wanted, Request

\* The first part of a range has between one byte and a whole part.
LEMMA FirstSegBounds ==
  ASSUME req \in Requests, NEW part \in Nat \ {0}
  PROVE  FirstSegSize(part) \in 1..part
<1>1. CASE req.isRange
  <2>1. req.start \in Nat
    BY <1>1, RequestsAssumption
  <2>2. \A a \in Int : a % part \in 0..part-1
    BY DivMod
  <2>3. req.start % part \in 0..part-1
    BY <2>1, <2>2
  <2> QED
    BY <1>1, <2>3 DEF FirstSegSize
<1>2. CASE ~req.isRange
  BY <1>2 DEF FirstSegSize
<1> QED
  BY <1>1, <1>2

\* The cut keeps a beginning of the file, and all of it but less than a part.
LEMMA TruncateBounds ==
  ASSUME req \in Requests, NEW part \in Nat \ {0}, NEW size \in Nat
  PROVE  /\ TruncateOffset(size, part) \in 0..size
         /\ NeedsTruncate(size, part) => TruncateOffset(size, part) > size - part
         /\ ResumeOffset(size, part) \in Int
<1> DEFINE first == FirstSegSize(part)
           q == (size - first) \div part
<1>1. first \in 1..part
  BY FirstSegBounds
<1>2. /\ size - first = part * q + ((size - first) % part)
      /\ (size - first) % part \in 0..part-1
      /\ q \in Int
  <2>1. size - first \in Int
    BY <1>1
  <2> HIDE DEF first
  <2> QED
    BY <2>1, DivMod
<1>3. CASE size > first
  <2> HIDE DEF q
  <2>1. part * q > -part
    BY <1>1, <1>2, <1>3
  <2>2. q >= 0
    <3>1. -q >= 1 => part * (-q) >= part
      BY <1>2, PartsMonotone
    <3>2. part * (-q) = -(part * q)
      BY <1>2
    <3> QED
      BY <1>2, <2>1, <3>1, <3>2
  <2>3. part * q >= 0
    BY <2>2, <1>2
  <2>4. q * part = part * q
    BY <1>2
  <2> DEFINE whole == q * part
             r == (size - first) % part
  <2>5. /\ TruncateOffset(size, part) = whole + first
        /\ ResumeOffset(size, part) = whole + part
    BY <1>3 DEF TruncateOffset, ResumeOffset, q
  <2>6. whole \in Nat /\ size - first = whole + r /\ r \in 0..part-1
    BY <1>2, <2>3, <2>4
  <2> HIDE DEF whole, first, r
  <2>7. /\ whole + first \in 0..size /\ whole + first > size - part
        /\ whole + part \in Int
    BY <1>1, <2>6
  <2> QED
    BY <2>5, <2>7
<1>4. CASE ~(size > first)
  <2>1. size = part => (size - first) % part = 0 \/ size > first
    BY <1>1, <1>4 
  <2> QED
    BY <1>1, <1>4, <2>1 DEF TruncateOffset, ResumeOffset, NeedsTruncate
<1> QED
  BY <1>3, <1>4

(***************************************************************************)
(* Outside the shapes of MisplacedResume, the loop goes on exactly at the  *)
(* end of what is kept of the temporary file.                              *)
(***************************************************************************)
LEMMA ResumeMeetsEnd ==
  ASSUME req \in Requests, NEW part \in Nat \ {0}, NEW size \in Nat,
         ~MisplacedResume(size, part)
  PROVE  ResumeOffset(size, part) =
           RangeStart + (IF NeedsTruncate(size, part)
                         THEN TruncateOffset(size, part) ELSE size)
<1> DEFINE first == FirstSegSize(part)
           q == (size - first) \div part
<1>1. first \in 1..part /\ RangeStart \in Nat
  BY FirstSegBounds, RequestOffsets
<1>2. first = part - RangeStart
  <2>1. RangeStart < part
    BY <1>1 DEF MisplacedResume
  <2> QED
    BY <2>1, <1>1, SmallMod DEF FirstSegSize, RangeStart
<1>3. /\ size - first = part * q + ((size - first) % part)
      /\ (size - first) % part \in 0..part-1
      /\ q \in Int
      /\ q * part = part * q
  <2>1. size - first \in Int
    BY <1>1
  <2> HIDE DEF first
  <2>2. /\ size - first = part * q + ((size - first) % part)
        /\ (size - first) % part \in 0..part-1
        /\ q \in Int
    BY <2>1, DivMod
  <2>3. \A k \in Int : k * part = part * k
    OBVIOUS
  <2> QED
    BY <2>2, <2>3
<1>4. CASE size > first
  BY <1>1, <1>2, <1>3, <1>4 DEF ResumeOffset, TruncateOffset, NeedsTruncate
<1>5. CASE size < first
  <2>1. RangeStart = 0 /\ first = part
    BY <1>1, <1>2, <1>5 DEF MisplacedResume
  <2>2. ~NeedsTruncate(size, part) => size = 0
    <3> SUFFICES ASSUME (size - part) % part = 0, size # 0
                 PROVE FALSE
      BY <2>1 DEF NeedsTruncate
    <3>1. part * 0 = 0 /\ 0 % part = 0
      BY MultipleMod
    <3>2. (size - part) + part = size /\ size - part \in Int
      OBVIOUS
    <3>3. size % part = 0
      BY <3>2, ModStep
    <3>4. size % part = size
      BY <1>5, <2>1, SmallMod
    <3> QED
      BY <3>3, <3>4
  <2> QED
    BY <1>5, <2>1, <2>2 DEF ResumeOffset, TruncateOffset
<1> QED
  BY <1>1, <1>4, <1>5 DEF MisplacedResume

-----------------------------------------------------------------------------
(* Type correctness.                                                        *)

\* A call starts, and goes on to the next part, in a well-typed state.
LEMMA CallTypes ==
  /\ Idle \in CallState
  /\ \A part \in Nat \ {0}, s \in Int, e \in Int :
       NewCall(part, s, e) \in CallState
  /\ \A c \in CallState, s \in Int :
       /\ [c EXCEPT !.startOffset = s] \in CallState
       /\ [c EXCEPT !.partStart = c.startOffset, !.fdOpen = TRUE] \in CallState
  /\ \A c \in CallState, v \in Nat, n \in Nat :
       [c EXCEPT !.ver = v, !.got = n] \in CallState
  /\ \A c \in CallState :
       /\ [c EXCEPT !.partStart = @ + c.part] \in CallState
       /\ [c EXCEPT !.fdOpen = FALSE, !.partStart = @ + c.part] \in CallState
<1>1. Idle \in CallState
  BY DEF Idle, NewCall, CallState
<1>2. \A part \in Nat \ {0}, s \in Int, e \in Int :
       NewCall(part, s, e) \in CallState
  BY DEF NewCall, CallState
<1>3. ASSUME NEW c \in CallState
      PROVE  /\ \A s \in Int : [c EXCEPT !.startOffset = s] \in CallState
             /\ [c EXCEPT !.partStart = c.startOffset, !.fdOpen = TRUE]
                  \in CallState
  BY DEF CallState
<1>4. ASSUME NEW c \in CallState, NEW v \in Nat, NEW n \in Nat
      PROVE  [c EXCEPT !.ver = v, !.got = n] \in CallState
  BY DEF CallState
<1>5. ASSUME NEW c \in CallState
      PROVE  /\ [c EXCEPT !.partStart = @ + c.part] \in CallState
             /\ [c EXCEPT !.fdOpen = FALSE, !.partStart = @ + c.part]
                  \in CallState
  <2>1. c.partStart + c.part \in Int
    BY DEF CallState
  <2> QED
    BY <2>1 DEF CallState
<1> QED
  BY <1>1, <1>2, <1>3, <1>4, <1>5

\* What TypeOK says of the parts of records, and of lengths.
LEMMA Fields ==
  ASSUME TypeOK
  PROVE  /\ req \in Requests
         /\ object \in ObjectState
         /\ object.ver \in Nat /\ object.size \in Nat
         /\ call \in CallState
         /\ call.part \in Nat \ {0}
         /\ call.startOffset \in Int /\ call.endOffset \in Int
         /\ call.partStart \in Int
         /\ call.fdOpen \in BOOLEAN
         /\ call.ver \in Nat /\ call.got \in Nat
         /\ temp \in Seq(Byte) /\ Len(temp) \in Nat
<1>1. /\ req \in Requests /\ temp \in Seq(Byte) /\ call \in CallState
      /\ object \in ObjectState
  BY DEF TypeOK
<1>2. object.ver \in Nat /\ object.size \in Nat
  BY <1>1, SizesAssumption DEF ObjectState
<1>3. Len(temp) \in Nat
  BY <1>1, LenProperties
<1> QED
  BY <1>1, <1>2, <1>3 DEF CallState

\* The offsets of the request in the object as it is now.
LEMMA ObjectOffsets ==
  ASSUME TypeOK
  PROVE  /\ RangeStart \in Nat
         /\ RangeEnd(object.size) \in Int
         /\ RangeEnd(object.size) <= object.size - 1
         /\ Wanted(object.size) \in Nat
<1> DEFINE size == object.size
<1>1. size \in Nat /\ req \in Requests
  BY Fields
<1> HIDE DEF size
<1>2. /\ RangeStart \in Nat /\ RangeEnd(size) \in Int
      /\ RangeEnd(size) <= size - 1 /\ Wanted(size) \in Nat
  BY <1>1, RequestOffsets
<1> QED
  BY <1>2 DEF size

\* The types hold when nothing has been downloaded yet.
LEMMA InitType ==
  ASSUME Init
  PROVE  TypeOK
<1>1. object \in ObjectState
  BY DEF Init, ObjectState
<1>2. auxDone \in DoneState
  BY <1>1 DEF Init, DoneState
<1>3. temp \in Seq(Byte) /\ final \in Seq(Byte)
  BY EmptySeq DEF Init
<1>4. auxFlaws \in SUBSET Flaw
  BY DEF Init
<1>5. call \in CallState
  BY CallTypes DEF Init
<1> QED
  BY <1>1, <1>2, <1>3, <1>4, <1>5 DEF Init, TypeOK

\* Every step keeps the types.
LEMMA NextType ==
  ASSUME TypeOK, [Next]_vars
  PROVE  TypeOK'
<1>0. /\ req \in Requests
      /\ object \in ObjectState
      /\ object.ver \in Nat /\ object.size \in Nat
      /\ call \in CallState
      /\ call.part \in Nat \ {0}
      /\ call.startOffset \in Int /\ call.endOffset \in Int
      /\ call.partStart \in Int
      /\ call.ver \in Nat /\ call.got \in Nat
      /\ temp \in Seq(Byte) /\ Len(temp) \in Nat
  BY Fields
<1>1. ASSUME NEW part \in PartSizes, Start(part)
      PROVE  TypeOK'
  <2>1. RangeStart \in Int /\ RangeEnd(object.size) \in Int
    BY ObjectOffsets
  <2>2. part \in Nat \ {0}
    BY PartSizesAssumption
  <2>3. call' \in CallState
    BY <1>1, <2>1, <2>2, CallTypes DEF Start
  <2> QED
    BY <1>1, <2>3 DEF Start, TypeOK
<1>2. ASSUME NEW part \in PartSizes, RejectPartSize(part)
      PROVE  TypeOK'
  BY <1>2, CallTypes DEF RejectPartSize, Return, TypeOK
<1>3. CASE NoTempFile
  BY <1>3 DEF NoTempFile, TypeOK
<1>4. CASE FoundTempFile
  <2> DEFINE size == Len(temp)
  <2>1. /\ TruncateOffset(size, call.part) \in 0..size
        /\ ResumeOffset(size, call.part) \in Int
    BY <1>0, TruncateBounds
  <2>2. temp' \in Seq(Byte)
    BY <1>0, <1>4, <2>1, CutType DEF FoundTempFile
  <2>3. call' \in CallState
    BY <1>0, <1>4, <2>1, CallTypes DEF FoundTempFile
  <2>4. auxFlaws' \in SUBSET Flaw
    BY <1>4 DEF FoundTempFile, Flaw, TypeOK
  <2> QED
    BY <1>4, <2>2, <2>3, <2>4 DEF FoundTempFile, TypeOK
<1>5. CASE OpenTemp
  <2>1. call' \in CallState
    BY <1>0, <1>5, CallTypes DEF OpenTemp
  <2> QED
    BY <1>5, <2>1 DEF OpenTemp, TypeOK
<1>6. CASE RequestPart
  <2> DEFINE partEnd == getSegmentEnd(call.partStart, call.endOffset + 1, call.part)
  <2>1. partEnd \in Int /\ partEnd >= call.partStart
    BY <1>0, <1>6 DEF RequestPart, MoreParts, getSegmentEnd
  <2>2. Lesser(partEnd + 1, object.size) - call.partStart \in Nat
    BY <1>0, <1>6, <2>1 DEF RequestPart, Lesser
  <2>3. call' \in CallState
    BY <1>0, <1>6, <2>2, CallTypes DEF RequestPart
  <2> QED
    BY <1>6, <2>3 DEF RequestPart, TypeOK
<1>7. CASE CopyPart
  <2>1. Slice(call.ver, call.partStart, call.got) \in Seq(Byte)
    BY <1>0, SliceType
  <2>2. temp' \in Seq(Byte)
    BY <1>0, <1>7, <2>1, AppendType DEF CopyPart
  <2>3. call' \in CallState
    BY <1>0, <1>7, CallTypes DEF CopyPart
  <2> QED
    BY <1>7, <2>2, <2>3 DEF CopyPart, TypeOK
<1>8. CASE CopyPartFails
  <2>1. PICK n \in 0..call.got-1 :
          temp' = temp \o Slice(call.ver, call.partStart, n)
    BY <1>8 DEF CopyPartFails
  <2>2. Slice(call.ver, call.partStart, n) \in Seq(Byte)
    <3>1. n \in Nat
      BY <1>0
    <3> QED
      BY <1>0, <3>1, SliceType
  <2>3. temp' \in Seq(Byte)
    BY <1>0, <2>1, <2>2, AppendType
  <2>4. call' \in CallState
    BY <1>0, <1>8, CallTypes DEF CopyPartFails
  <2> QED
    BY <1>8, <2>3, <2>4 DEF CopyPartFails, TypeOK
<1>9. CASE CopyToClosedFile
  <2>1. call' \in CallState
    BY <1>0, <1>9, CallTypes DEF CopyToClosedFile
  <2> QED
    BY <1>9, <2>1 DEF CopyToClosedFile, TypeOK
<1>10. CASE ReturnError
  BY <1>10, CallTypes DEF ReturnError, Return, TypeOK
<1>11. CASE CloseTemp
  BY <1>11 DEF CloseTemp, TypeOK
<1>12. CASE CloseTempFails
  BY <1>12, CallTypes DEF CloseTempFails, Return, TypeOK
<1>13. CASE RenameTemp
  <2>1. LosesLastByte(call) \in BOOLEAN
    BY Zenon DEF LosesLastByte
  <2>2. PICK b \in BOOLEAN : b = LosesLastByte(call)
    BY <2>1
  <2>3. auxDone' = [object |-> object, flaws |-> auxFlaws, short |-> b]
    BY <1>13, <2>2, Zenon DEF RenameTemp
  <2>4. auxDone' \in DoneState
    BY <1>0, <2>2, <2>3 DEF DoneState, TypeOK
  <2>5. temp' \in Seq(Byte) /\ final' \in Seq(Byte)
    BY <1>0, <1>13, EmptySeq DEF RenameTemp
  <2>6. call' \in CallState
    BY <1>13, CallTypes DEF RenameTemp, Return
  <2> QED
    BY <1>13, <2>4, <2>5, <2>6 DEF RenameTemp, Return, TypeOK
<1>14. CASE RenameFails
  BY <1>14, CallTypes DEF RenameFails, Return, TypeOK
<1>15. CASE Crash
  BY <1>15, CallTypes DEF Crash, Return, TypeOK
<1>16. CASE UpdateObject
  <2>1. object' \in ObjectState
    BY <1>0, <1>16 DEF UpdateObject, ObjectState
  <2>2. auxFlaws' \in SUBSET Flaw
    BY <1>16 DEF UpdateObject, Flaw, TypeOK
  <2> QED
    BY <1>16, <2>1, <2>2 DEF UpdateObject, TypeOK
<1>17. CASE UNCHANGED vars
  BY <1>17 DEF vars, dlVars, TypeOK
<1> QED
  BY <1>1, <1>2, <1>3, <1>4, <1>5, <1>6, <1>7, <1>8, <1>9, <1>10, <1>11,
     <1>12, <1>13, <1>14, <1>15, <1>16, <1>17 DEF Next, CallStep

(***************************************************************************)
(* Every variable always holds a value of its type; in particular no part  *)
(* has a negative length and no file is cut behind its end.                *)
(***************************************************************************)
THEOREM TypeCorrect == Spec => []TypeOK
<1>1. Init => TypeOK
  BY InitType
<1>2. TypeOK /\ [Next]_vars => TypeOK'
  BY NextType
<1> QED
  BY <1>1, <1>2, PTL DEF Spec

-----------------------------------------------------------------------------
(* The temporary file is a beginning of the request, and the final file is  *)
(* the request: the inductive invariant IInv.                               *)

\* The request and what depends on it alone are the same in the next state.
LEMMA SameRequest ==
  ASSUME req' = req
  PROVE  /\ RangeStart' = RangeStart
         /\ \A size : Wanted(size)' = Wanted(size)
         /\ \A size : RangeEnd(size)' = RangeEnd(size)
BY DEF RangeStart, RangeEnd, Wanted

\* Until the next rename the final file stays what it is.
LEMMA FinalStable ==
  ASSUME FinalIsExact, UNCHANGED <<req, finalExists, final, auxDone>>
  PROVE  FinalIsExact'
BY DEF FinalIsExact, Wanted, RangeStart, RangeEnd

\* While the object and the temporary file stay, so does TempIsPrefix.
LEMMA PrefixStable ==
  ASSUME TempIsPrefix, UNCHANGED <<req, object, temp>>,
         auxFlaws' = {} => auxFlaws = {}
  PROVE  TempIsPrefix'
BY DEF TempIsPrefix, Wanted, RangeStart, RangeEnd

\* A call that returns, or dies, leaves files that satisfy the invariant.
LEMMA ReturnSafe ==
  ASSUME CallProgress, TempIsPrefix, FinalIsExact, pc' = "idle",
         UNCHANGED <<object, req, tempExists, temp, finalExists, final,
                     auxFlaws, auxDone>>
  PROVE  CallProgress' /\ TempIsPrefix' /\ FinalIsExact'
<1>1. TempIsPrefix' /\ FinalIsExact'
  BY PrefixStable, FinalStable
<1> QED
  BY <1>1 DEF CallProgress

\* The temporary file found is cut to a beginning of the request.
LEMMA FoundSafe ==
  ASSUME IInv, FoundTempFile
  PROVE  CallProgress' /\ TempIsPrefix'
<1> DEFINE size == Len(temp)
           cut == TruncateOffset(size, call.part)
           kept == IF NeedsTruncate(size, call.part) THEN cut ELSE size
<1>0. /\ req \in Requests
      /\ object.ver \in Nat /\ object.size \in Nat
      /\ call \in CallState /\ call.part \in Nat \ {0}
      /\ temp \in Seq(Byte) /\ size \in Nat
  BY Fields DEF IInv
<1>1. cut \in 0..size /\ kept \in 0..size
  <2>1. cut \in 0..size
    BY <1>0, TruncateBounds
  <2> QED
    BY <1>0, <2>1
<1>2. /\ RangeStart' = RangeStart /\ (\A n : Wanted(n)' = Wanted(n))
      /\ (\A n : RangeEnd(n)' = RangeEnd(n))
  BY SameRequest DEF FoundTempFile
<1>3. ASSUME auxFlaws' = {}
      PROVE  auxFlaws = {} /\ ~MisplacedResume(size, call.part)
  BY <1>3 DEF FoundTempFile
<1>4. ASSUME auxFlaws' = {}
      PROVE  temp' = Slice(object.ver, RangeStart, kept) /\ Len(temp') = kept
             /\ kept <= Wanted(object.size)
  <2>1. temp = Slice(object.ver, RangeStart, size) /\ size <= Wanted(object.size)
    BY <1>3, <1>4 DEF IInv, TempIsPrefix
  <2>2. RangeStart \in Int /\ Wanted(object.size) \in Nat
    BY ObjectOffsets DEF IInv
  <2>3. SubSeq(Slice(object.ver, RangeStart, size), 1, cut)
          = Slice(object.ver, RangeStart, cut)
    BY <1>0, <1>1, <2>2, SlicePrefix
  <2>4. temp' = Slice(object.ver, RangeStart, kept)
    BY <2>1, <2>3 DEF FoundTempFile
  <2>5. Len(Slice(object.ver, RangeStart, kept)) = kept
    <3> HIDE DEF kept
    <3>1. kept \in Nat
      BY <1>0, <1>1
    <3> QED
      BY <1>0, <2>2, <3>1, SliceType
  <2> QED
    BY <1>0, <1>1, <2>1, <2>2, <2>4, <2>5
<1>5. TempIsPrefix'
  BY <1>2, <1>4 DEF TempIsPrefix, FoundTempFile
<1>6. ASSUME auxFlaws' = {}
      PROVE  call'.startOffset = RangeStart + Len(temp')
  <2>1. ResumeOffset(size, call.part) = RangeStart + kept
    BY <1>0, <1>3, <1>6, ResumeMeetsEnd
  <2> QED
    BY <1>0, <1>4, <1>6, <2>1 DEF FoundTempFile, CallState
<1>7. ASSUME auxFlaws' = {}
      PROVE  call'.endOffset = RangeEnd(object.size)
  BY <1>0, <1>3, <1>7 DEF IInv, CallProgress, FoundTempFile, CallState
<1>8. pc' = "open" /\ tempExists' /\ object' = object
  BY DEF FoundTempFile
<1> QED
  BY <1>2, <1>5, <1>6, <1>7, <1>8 DEF CallProgress

\* A new call stands at the beginning of its request.
LEMMA StartSafe ==
  ASSUME IInv, NEW part \in PartSizes, Start(part)
  PROVE  CallProgress' /\ TempIsPrefix'
<1>1. RangeStart' = RangeStart /\ (\A n : RangeEnd(n)' = RangeEnd(n))
  BY SameRequest DEF Start
<1>2. /\ call'.startOffset = RangeStart
      /\ call'.endOffset = RangeEnd(object.size)
  BY DEF Start, NewCall
<1>3. TempIsPrefix'
  BY PrefixStable DEF Start, IInv
<1> QED
  BY <1>1, <1>2, <1>3 DEF Start, IInv, CallProgress

\* Without a temporary file the call goes on at the beginning.
LEMMA NoTempSafe ==
  ASSUME IInv, NoTempFile
  PROVE  CallProgress' /\ TempIsPrefix'
<1>1. RangeStart' = RangeStart /\ (\A n : RangeEnd(n)' = RangeEnd(n))
  BY SameRequest DEF NoTempFile
<1>2. temp = <<>> /\ Len(temp) = 0 /\ RangeStart \in Nat
  <2>1. temp = <<>>
    BY DEF NoTempFile, IInv, CallProgress
  <2> QED
    BY <2>1, EmptySeq, ObjectOffsets DEF IInv
<1>3. TempIsPrefix'
  BY PrefixStable DEF NoTempFile, IInv
<1> QED
  BY <1>1, <1>2, <1>3 DEF NoTempFile, IInv, CallProgress

\* The loop begins where the temporary file ends.
LEMMA OpenSafe ==
  ASSUME IInv, OpenTemp
  PROVE  CallProgress' /\ TempIsPrefix'
<1>0. /\ call \in CallState /\ call.part \in Nat \ {0}
      /\ call.startOffset \in Int
      /\ temp \in Seq(Byte) /\ Len(temp) \in Nat
  BY Fields DEF IInv
<1>1. /\ RangeStart' = RangeStart /\ (\A n : RangeEnd(n)' = RangeEnd(n))
      /\ (\A n : Wanted(n)' = Wanted(n))
  BY SameRequest DEF OpenTemp
<1>2. TempIsPrefix'
  BY PrefixStable DEF OpenTemp, IInv
<1>3. /\ call'.part = call.part
      /\ call'.startOffset = call.startOffset
      /\ call'.endOffset = call.endOffset
      /\ call'.partStart = call.startOffset
  BY <1>0 DEF OpenTemp, CallState
<1>4. (call.startOffset - call.startOffset) % call.part = 0
  <2>1. call.part * 0 = 0 /\ 0 \in Int
    BY <1>0
  <2>2. 0 % call.part = 0
    BY <1>0, <2>1, MultipleMod
  <2> QED
    BY <1>0, <2>2
<1>5. ASSUME auxFlaws = {}
      PROVE  /\ RangeStart <= call.startOffset
             /\ Len(temp) = Lesser(call.startOffset - RangeStart,
                                   Wanted(object.size))
  <2>1. call.startOffset = RangeStart + Len(temp)
    BY <1>5 DEF OpenTemp, IInv, CallProgress
  <2>2. Len(temp) <= Wanted(object.size)
    BY <1>5 DEF IInv, TempIsPrefix
  <2>3. RangeStart \in Nat /\ Wanted(object.size) \in Nat
    BY ObjectOffsets DEF IInv
  <2> QED
    BY <1>0, <2>1, <2>2, <2>3 DEF Lesser
<1>6. /\ pc = "open" /\ pc' = "loop" /\ tempExists'
      /\ object' = object /\ temp' = temp /\ auxFlaws' = auxFlaws
  BY DEF OpenTemp
<1>7. auxFlaws = {} => call.endOffset = RangeEnd(object.size)
  BY <1>6 DEF IInv, CallProgress
<1>8. call.startOffset <= call.startOffset
  BY <1>0
<1> QED
  BY <1>1, <1>2, <1>3, <1>4, <1>5, <1>6, <1>7, <1>8 DEF CallProgress

\* A request for the next part changes no file.
LEMMA RequestSafe ==
  ASSUME IInv, RequestPart
  PROVE  CallProgress' /\ TempIsPrefix'
<1>0. call \in CallState
  BY Fields DEF IInv
<1>1. /\ RangeStart' = RangeStart /\ (\A n : RangeEnd(n)' = RangeEnd(n))
      /\ (\A n : Wanted(n)' = Wanted(n))
  BY SameRequest DEF RequestPart
<1>2. TempIsPrefix'
  BY PrefixStable DEF RequestPart, IInv
<1>3. /\ call'.part = call.part
      /\ call'.startOffset = call.startOffset
      /\ call'.endOffset = call.endOffset
      /\ call'.partStart = call.partStart
      /\ call'.fdOpen = call.fdOpen
      /\ call'.ver = object.ver
      /\ call'.got =
           Lesser(getSegmentEnd(call.partStart, call.endOffset + 1, call.part) + 1,
                  object.size) - call.partStart
  BY <1>0 DEF RequestPart, CallState
<1>4. /\ pc = "loop" /\ pc' = "copy" /\ tempExists' = tempExists
      /\ object' = object /\ temp' = temp /\ auxFlaws' = auxFlaws
      /\ MoreParts
  BY DEF RequestPart
<1>5. MoreParts'
  BY <1>3, <1>4 DEF MoreParts
<1>6. tempExists /\ (auxFlaws = {} => call.endOffset = RangeEnd(object.size))
  BY <1>4 DEF IInv, CallProgress
<1>7. ASSUME auxFlaws = {}, call.fdOpen
      PROVE  /\ RangeStart <= call.startOffset
             /\ call.startOffset <= call.partStart
             /\ (call.partStart - call.startOffset) % call.part = 0
             /\ \/ call.partStart = call.startOffset
                \/ call.partStart - call.part < call.endOffset
             /\ Len(temp) = Lesser(call.partStart - RangeStart,
                                   Wanted(object.size))
  BY <1>4, <1>7 DEF IInv, CallProgress
<1>8. LET partEnd ==
            getSegmentEnd(call.partStart, call.endOffset + 1, call.part)
      IN  call'.got = Lesser(partEnd + 1, object.size) - call.partStart
  BY <1>3
<1> QED
  BY <1>1, <1>2, <1>3, <1>4, <1>5, <1>6, <1>7, <1>8 DEF CallProgress

(***************************************************************************)
(* While a part is being copied into an open file, the file ends where the *)
(* part begins, and the response is the next bytes of the request.         *)
(***************************************************************************)
LEMMA CopyMeetsEnd ==
  ASSUME IInv, pc = "copy", call.fdOpen, auxFlaws = {}
  PROVE  /\ Len(temp) = call.partStart - RangeStart
         /\ call.ver = object.ver
         /\ Len(temp) + call.got = Lesser((call.partStart + call.part) - RangeStart,
                                          Wanted(object.size))
         /\ call.partStart < call.endOffset
<1> DEFINE size == object.size
           P == call.partStart
           E == call.endOffset
           p == call.part
           partEnd == getSegmentEnd(P, E + 1, p)
<1>1. /\ size \in Nat /\ P \in Int /\ E \in Int /\ p \in Nat \ {0}
      /\ call.startOffset \in Int
  BY Fields DEF IInv
<1>2. /\ RangeStart \in Nat /\ RangeEnd(size) \in Int
      /\ RangeEnd(size) <= size - 1
  BY ObjectOffsets DEF IInv
<1>3. /\ E = RangeEnd(size)
      /\ RangeStart <= call.startOffset /\ call.startOffset <= P
      /\ Len(temp) = Lesser(P - RangeStart, Wanted(size))
      /\ P < E
      /\ call.ver = object.ver
      /\ call.got = Lesser(partEnd + 1, size) - P
  BY DEF IInv, CallProgress, MoreParts
<1>4. Wanted(size) = E - RangeStart + 1
  <2>1. RangeStart < RangeEnd(size)
    BY <1>1, <1>2, <1>3
  <2> QED
    BY <1>2, <1>3, <2>1 DEF Wanted
<1>5. Len(temp) = P - RangeStart
  BY <1>1, <1>2, <1>3, <1>4 DEF Lesser
<1>6. call.got = Lesser(P + p, E + 1) - P
  <2>1. E + 1 <= size /\ call.got = Lesser(partEnd + 1, size) - P
    BY <1>1, <1>2, <1>3
  <2>2. partEnd = IF P + p > E + 1 THEN E ELSE P + p - 1
    BY <1>1 DEF getSegmentEnd
  <2> HIDE DEF size, P, E, p, partEnd
  <2>3. partEnd + 1 = Lesser(P + p, E + 1) /\ Lesser(P + p, E + 1) <= size
    BY <1>1, <2>1, <2>2 DEF Lesser
  <2> QED
    BY <1>1, <2>1, <2>3 DEF Lesser
<1>7. Len(temp) + call.got = Lesser((P + p) - RangeStart, Wanted(size))
  <2> HIDE DEF size, P, E, p, partEnd
  <2> QED
    BY <1>1, <1>2, <1>4, <1>5, <1>6 DEF Lesser
<1> QED
  BY <1>3, <1>5, <1>7

(***************************************************************************)
(* Writing n bytes of the response, all of it or not, leaves a beginning   *)
(* of the request in the file.                                             *)
(***************************************************************************)
LEMMA WriteSafe ==
  ASSUME IInv, pc = "copy", call.fdOpen, NEW n \in 0..call.got,
         temp' = temp \o Slice(call.ver, call.partStart, n),
         UNCHANGED <<req, object, auxFlaws>>
  PROVE  /\ TempIsPrefix'
         /\ auxFlaws = {} => Len(temp') = Len(temp) + n
<1>0. /\ object.ver \in Nat /\ call.ver \in Nat /\ call.got \in Nat
      /\ call.partStart \in Int /\ call.part \in Nat \ {0}
      /\ temp \in Seq(Byte) /\ Len(temp) \in Nat
  BY Fields DEF IInv
<1>1. n \in Nat /\ n <= call.got
  BY <1>0
<1>2. /\ Slice(call.ver, call.partStart, n) \in Seq(Byte)
      /\ Len(Slice(call.ver, call.partStart, n)) = n
  BY <1>0, <1>1, SliceType
<1>3. Len(temp') = Len(temp) + n
  BY <1>0, <1>2, AppendType
<1>4. RangeStart \in Nat /\ Wanted(object.size) \in Nat
  BY ObjectOffsets DEF IInv
<1>5. ASSUME auxFlaws = {}
      PROVE  /\ Len(temp') <= Wanted(object.size)
             /\ temp' = Slice(object.ver, RangeStart, Len(temp'))
  <2>1. /\ Len(temp) = call.partStart - RangeStart
        /\ call.ver = object.ver
        /\ Len(temp) + call.got <= Wanted(object.size)
    BY <1>0, <1>4, <1>5, CopyMeetsEnd DEF Lesser
  <2>2. temp = Slice(object.ver, RangeStart, Len(temp))
    BY <1>5 DEF IInv, TempIsPrefix
  <2>3. Slice(object.ver, RangeStart, Len(temp))
          \o Slice(object.ver, RangeStart + Len(temp), n)
          = Slice(object.ver, RangeStart, Len(temp) + n)
    <3> DEFINE v == object.ver
               s == RangeStart
               m == Len(temp)
    <3>1. v \in Nat /\ s \in Int /\ m \in Nat
      BY <1>0, <1>4
    <3> HIDE DEF v, s, m
    <3>2. Slice(v, s, m) \o Slice(v, s + m, n) = Slice(v, s, m + n)
      BY <1>1, <3>1, SliceConcat
    <3> QED
      BY <3>2 DEF v, s, m
  <2>4. RangeStart + Len(temp) = call.partStart
    BY <1>0, <1>4, <2>1
  <2>5. temp' = Slice(object.ver, RangeStart, Len(temp) + n)
    BY <2>1, <2>2, <2>3, <2>4
  <2>6. Len(temp') <= Wanted(object.size)
    BY <1>0, <1>1, <1>3, <1>4, <2>1
  <2> QED
    BY <1>3, <2>5, <2>6
<1>6. TempIsPrefix'
  <2>1. RangeStart' = RangeStart /\ (\A k : Wanted(k)' = Wanted(k))
    BY SameRequest
  <2> QED
    BY <1>5, <2>1 DEF TempIsPrefix
<1> QED
  BY <1>3, <1>6

\* After a whole part the file ends where the next part begins.
LEMMA CopySafe ==
  ASSUME IInv, CopyPart
  PROVE  CallProgress' /\ TempIsPrefix'
<1>0. /\ call \in CallState /\ call.part \in Nat \ {0}
      /\ call.startOffset \in Int /\ call.partStart \in Int
      /\ call.endOffset \in Int /\ call.got \in Nat
  BY Fields DEF IInv
<1>1. /\ RangeStart' = RangeStart /\ (\A n : RangeEnd(n)' = RangeEnd(n))
      /\ (\A n : Wanted(n)' = Wanted(n))
  BY SameRequest DEF CopyPart
<1>2. /\ pc = "copy" /\ call.fdOpen /\ pc' = "loop"
      /\ tempExists' = tempExists /\ object' = object /\ auxFlaws' = auxFlaws
  BY DEF CopyPart
<1>3. /\ TempIsPrefix'
      /\ auxFlaws = {} => Len(temp') = Len(temp) + call.got
  <2>1. call.got \in 0..call.got
    BY <1>0
  <2> QED
    BY <1>2, <2>1, WriteSafe DEF CopyPart
<1>4. /\ call'.part = call.part
      /\ call'.startOffset = call.startOffset
      /\ call'.endOffset = call.endOffset
      /\ call'.partStart = call.partStart + call.part
  BY <1>0 DEF CopyPart, CallState
<1>5. tempExists /\ (auxFlaws = {} => call.endOffset = RangeEnd(object.size))
  BY <1>2 DEF IInv, CallProgress
<1>6. ASSUME auxFlaws = {}
      PROVE  /\ RangeStart <= call.startOffset
             /\ call.startOffset <= call.partStart
             /\ (call.partStart - call.startOffset) % call.part = 0
  BY <1>2, <1>6 DEF IInv, CallProgress
<1>7. ASSUME auxFlaws = {}
      PROVE  (call'.partStart - call'.startOffset) % call'.part = 0
  <2>1. call.partStart - call.startOffset \in Int
    BY <1>0
  <2>2. ((call.partStart - call.startOffset) + call.part) % call.part = 0
    BY <1>0, <1>6, <1>7, <2>1, ModStep
  <2>3. call'.partStart - call'.startOffset
          = (call.partStart - call.startOffset) + call.part
    BY <1>0, <1>4
  <2> QED
    BY <1>4, <2>2, <2>3
<1>8. ASSUME auxFlaws = {}
      PROVE  /\ Len(temp') = Lesser(call'.partStart - RangeStart,
                                    Wanted(object.size))
             /\ call'.startOffset <= call'.partStart
             /\ call'.partStart - call'.part < call'.endOffset
  <2>1. /\ Len(temp) + call.got = Lesser((call.partStart + call.part) - RangeStart,
                                         Wanted(object.size))
        /\ call.partStart < call.endOffset
    BY <1>2, <1>8, CopyMeetsEnd
  <2>2. Len(temp') = Lesser((call.partStart + call.part) - RangeStart,
                            Wanted(object.size))
    BY <1>3, <1>8, <2>1
  <2>3. /\ call.startOffset <= call.partStart + call.part
        /\ (call.partStart + call.part) - call.part < call.endOffset
    BY <1>0, <1>6, <1>8, <2>1
  <2>4. Len(temp') = Lesser(call'.partStart - RangeStart, Wanted(object.size))
    BY <1>4, <2>2, Zenon
  <2>5. /\ call'.startOffset <= call'.partStart
        /\ call'.partStart - call'.part < call'.endOffset
    BY <1>4, <2>3, Zenon
  <2> QED
    BY <2>4, <2>5
<1> QED
  BY <1>1, <1>2, <1>3, <1>4, <1>5, <1>6, <1>7, <1>8 DEF CallProgress

\* After a failed copy the file is closed and stays a beginning.
LEMMA CopyFailsSafe ==
  ASSUME IInv, CopyPartFails
  PROVE  CallProgress' /\ TempIsPrefix'
<1>0. call \in CallState /\ call.got \in Nat
  BY Fields DEF IInv
<1>1. /\ RangeStart' = RangeStart /\ (\A n : RangeEnd(n)' = RangeEnd(n))
      /\ (\A n : Wanted(n)' = Wanted(n))
  BY SameRequest DEF CopyPartFails
<1>2. /\ pc = "copy" /\ call.fdOpen /\ pc' = "loop"
      /\ tempExists' = tempExists /\ object' = object /\ auxFlaws' = auxFlaws
      /\ req' = req
  BY DEF CopyPartFails
<1>3. TempIsPrefix'
  <2>1. PICK n \in 0..call.got-1 :
          temp' = temp \o Slice(call.ver, call.partStart, n)
    BY DEF CopyPartFails
  <2>2. n \in 0..call.got
    BY <1>0
  <2> QED
    BY <1>2, <2>1, <2>2, WriteSafe
<1>4. ~call'.fdOpen /\ call'.endOffset = call.endOffset
  BY <1>0 DEF CopyPartFails, CallState
<1>5. tempExists /\ (auxFlaws = {} => call.endOffset = RangeEnd(object.size))
  BY <1>2 DEF IInv, CallProgress
<1> QED
  BY <1>1, <1>2, <1>3, <1>4, <1>5 DEF CallProgress

(***************************************************************************)
(* When the loop is over on a file that is still open, the whole request   *)
(* is in it, but for a last byte that was a part of its own.               *)
(***************************************************************************)
LEMMA CloseSafe ==
  ASSUME IInv, CloseTemp
  PROVE  CallProgress' /\ TempIsPrefix'
<1> DEFINE S == call.startOffset
           P == call.partStart
           E == call.endOffset
           p == call.part
           W == Wanted(object.size)
<1>0. /\ S \in Int /\ P \in Int /\ E \in Int /\ p \in Nat \ {0}
      /\ RangeStart \in Nat /\ RangeEnd(object.size) \in Int
  BY Fields, ObjectOffsets DEF IInv
<1>1. /\ RangeStart' = RangeStart /\ (\A n : RangeEnd(n)' = RangeEnd(n))
      /\ (\A n : Wanted(n)' = Wanted(n))
  BY SameRequest DEF CloseTemp
<1>2. /\ pc = "loop" /\ call.fdOpen /\ ~(P < E) /\ pc' = "rename"
      /\ UNCHANGED <<object, req, tempExists, temp, call, auxFlaws>>
  BY DEF CloseTemp, MoreParts
<1>3. TempIsPrefix'
  BY PrefixStable DEF CloseTemp, IInv
<1>4. ASSUME auxFlaws = {}
      PROVE  /\ E = RangeEnd(object.size)
             /\ RangeStart <= S /\ S <= P
             /\ (P - S) % p = 0
             /\ P = S \/ P - p < E
             /\ Len(temp) = Lesser(P - RangeStart, W)
  BY <1>2, <1>4 DEF IInv, CallProgress
<1>5. ASSUME auxFlaws = {}
      PROVE  Len(temp) = W - (IF LosesLastByte(call) THEN 1 ELSE 0)
  <2>1. CASE P = E
    <3>1. LosesLastByte(call)
      BY <1>0, <1>4, <1>5, <2>1 DEF LosesLastByte
    <3>2. W = (E - RangeStart) + 1
      BY <1>0, <1>4, <1>5, <2>1 DEF Wanted
    <3> QED
      BY <1>0, <1>4, <1>5, <2>1, <3>1, <3>2 DEF Lesser
  <2>2. CASE P > E
    <3>1. ~LosesLastByte(call)
      <4> SUFFICES ASSUME S <= E, (E - S) % p = 0
                   PROVE  FALSE
        BY DEF LosesLastByte
      <4>1. P - p < E
        BY <1>0, <1>4, <1>5, <2>2
      <4>2. E - S = P - S
        <5>1. E - S \in Int /\ P - S \in Int
          BY <1>0
        <5>2. E - S <= P - S /\ P - S < (E - S) + p
          BY <1>0, <2>2, <4>1
        <5> HIDE DEF S, P, E, p
        <5> QED
          BY <1>0, <1>4, <1>5, <5>1, <5>2, ModUnique
      <4> QED
        BY <1>0, <2>2, <4>2
    <3>2. W <= P - RangeStart
      BY <1>0, <1>4, <1>5, <2>2 DEF Wanted
    <3>3. W \in Nat
      BY ObjectOffsets DEF IInv
    <3> QED
      BY <1>0, <1>4, <1>5, <3>1, <3>2, <3>3 DEF Lesser
  <2> QED
    BY <1>0, <1>2, <2>1, <2>2
<1>6. LosesLastByte(call)' = LosesLastByte(call)
  BY <1>2 DEF LosesLastByte
<1>7. tempExists
  BY <1>2 DEF IInv, CallProgress
<1> HIDE DEF S, P, E, p
<1> QED
  BY <1>1, <1>2, <1>3, <1>4, <1>5, <1>6, <1>7 DEF CallProgress, E

\* The file renamed to the destination holds the request.
LEMMA RenameSafe ==
  ASSUME IInv, RenameTemp
  PROVE  CallProgress' /\ TempIsPrefix' /\ FinalIsExact'
<1>1. /\ RangeStart' = RangeStart /\ (\A n : Wanted(n)' = Wanted(n))
  BY SameRequest DEF RenameTemp
<1>2. /\ RangeStart \in Nat /\ Wanted(object.size) \in Nat
      /\ object.ver \in Nat
  BY ObjectOffsets, Fields DEF IInv
<1>3. /\ pc = "rename" /\ pc' = "idle" /\ final' = temp /\ temp' = <<>>
      /\ ~tempExists' /\ object' = object
      /\ auxDone'.object = object /\ auxDone'.flaws = auxFlaws
      /\ auxDone'.short = LosesLastByte(call)
  BY DEF RenameTemp, Return
<1>4. TempIsPrefix'
  <2>1. Slice(object.ver, RangeStart, 0) = <<>>
    BY <1>2 DEF Slice
  <2>2. Len(temp') = 0
    BY <1>3, EmptySeq
  <2> QED
    BY <1>1, <1>2, <1>3, <2>1, <2>2 DEF TempIsPrefix
<1>5. FinalIsExact'
  <2>1. ASSUME auxFlaws = {}
        PROVE  temp = Slice(object.ver, RangeStart,
                            Wanted(object.size)
                              - (IF LosesLastByte(call) THEN 1 ELSE 0))
    BY <1>3, <2>1 DEF IInv, TempIsPrefix, CallProgress
  <2> QED
    BY <1>1, <1>3, <2>1 DEF FinalIsExact
<1> QED
  BY <1>3, <1>4, <1>5 DEF CallProgress

\* An update finds no temporary file, or is a flaw of it.
LEMMA UpdateSafe ==
  ASSUME IInv, UpdateObject
  PROVE  CallProgress' /\ TempIsPrefix'
<1>1. RangeStart' = RangeStart /\ (\A n : Wanted(n)' = Wanted(n))
  BY SameRequest DEF UpdateObject
<1>2. ASSUME auxFlaws' = {}
      PROVE  pc = "idle" /\ ~tempExists /\ temp = <<>>
  BY <1>2 DEF UpdateObject, IInv, CallProgress
<1>3. UNCHANGED <<req, tempExists, temp, pc, call>>
  BY DEF UpdateObject
<1>4. RangeStart \in Nat /\ Wanted(object'.size) \in Nat /\ object'.ver \in Nat
  <2>1. object'.size \in Nat /\ object'.ver \in Nat /\ req \in Requests
    BY Fields, SizesAssumption DEF UpdateObject, IInv
  <2> DEFINE size == object'.size
  <2>2. size \in Nat
    BY <2>1
  <2> HIDE DEF size
  <2>3. RangeStart \in Nat /\ Wanted(size) \in Nat
    BY <2>1, <2>2, RequestOffsets
  <2> QED
    BY <2>1, <2>3 DEF size
<1>5. TempIsPrefix'
  <2>1. Slice(object'.ver, RangeStart, 0) = <<>>
    BY <1>4 DEF Slice
  <2> QED
    BY <1>1, <1>2, <1>3, <1>4, <2>1, EmptySeq DEF TempIsPrefix
<1>6. /\ ~tempExists => temp = <<>>
      /\ pc \in {"loop", "copy", "rename"} => tempExists
      /\ pc = "stat" => call.startOffset = RangeStart
  BY DEF IInv, CallProgress
<1> QED
  BY <1>1, <1>2, <1>3, <1>5, <1>6 DEF CallProgress

\* Every step keeps the invariant.
THEOREM Inductive == Spec => []IInv
<1>1. Init => IInv
  <2> SUFFICES ASSUME Init
               PROVE  IInv
    OBVIOUS
  <2>1. TypeOK
    BY InitType
  <2>2. Len(temp) = 0 /\ temp = <<>>
    BY EmptySeq DEF Init
  <2>3. RangeStart \in Nat /\ Wanted(object.size) \in Nat /\ object.ver \in Nat
    BY <2>1, ObjectOffsets, Fields
  <2>4. Slice(object.ver, RangeStart, 0) = <<>>
    BY <2>3 DEF Slice
  <2>5. TempIsPrefix
    BY <2>2, <2>3, <2>4 DEF TempIsPrefix
  <2>6. FinalIsExact /\ CallProgress
    BY DEF Init, FinalIsExact, CallProgress
  <2> QED
    BY <2>1, <2>5, <2>6 DEF IInv
<1>2. IInv /\ [Next]_vars => IInv'
  <2> SUFFICES ASSUME IInv, [Next]_vars
               PROVE  CallProgress' /\ TempIsPrefix' /\ FinalIsExact'
    BY NextType DEF IInv
  <2>0. CallProgress /\ TempIsPrefix /\ FinalIsExact
    BY DEF IInv
  <2>1. ASSUME NEW part \in PartSizes, Start(part)
        PROVE  CallProgress' /\ TempIsPrefix' /\ FinalIsExact'
    <3>1. FinalIsExact'
      BY <2>0, <2>1, FinalStable DEF Start
    <3> QED
      BY <2>1, <3>1, StartSafe
  <2>2. ASSUME NEW part \in PartSizes, RejectPartSize(part)
        PROVE  CallProgress' /\ TempIsPrefix' /\ FinalIsExact'
    BY <2>0, <2>2, ReturnSafe DEF RejectPartSize, Return
  <2>3. CASE NoTempFile
    BY <2>0, <2>3, NoTempSafe, FinalStable DEF NoTempFile
  <2>4. CASE FoundTempFile
    BY <2>0, <2>4, FoundSafe, FinalStable DEF FoundTempFile
  <2>5. CASE OpenTemp
    BY <2>0, <2>5, OpenSafe, FinalStable DEF OpenTemp
  <2>6. CASE RequestPart
    BY <2>0, <2>6, RequestSafe, FinalStable DEF RequestPart
  <2>7. CASE CopyPart
    BY <2>0, <2>7, CopySafe, FinalStable DEF CopyPart
  <2>8. CASE CopyPartFails
    BY <2>0, <2>8, CopyFailsSafe, FinalStable DEF CopyPartFails
  <2>9. CASE CopyToClosedFile
    <3>1. TempIsPrefix' /\ FinalIsExact'
      BY <2>0, <2>9, PrefixStable, FinalStable DEF CopyToClosedFile
    <3>2. ~call'.fdOpen /\ call'.endOffset = call.endOffset
      BY <2>9, Fields DEF CopyToClosedFile, CallState, IInv
    <3>3. RangeStart' = RangeStart /\ (\A n : RangeEnd(n)' = RangeEnd(n))
      BY <2>9, SameRequest DEF CopyToClosedFile
    <3> QED
      BY <2>0, <2>9, <3>1, <3>2, <3>3 DEF CopyToClosedFile, CallProgress
  <2>10. CASE ReturnError
    BY <2>0, <2>10, ReturnSafe DEF ReturnError, Return
  <2>11. CASE CloseTemp
    BY <2>0, <2>11, CloseSafe, FinalStable DEF CloseTemp
  <2>12. CASE CloseTempFails
    BY <2>0, <2>12, ReturnSafe DEF CloseTempFails, Return
  <2>13. CASE RenameTemp
    BY <2>13, RenameSafe
  <2>14. CASE RenameFails
    BY <2>0, <2>14, ReturnSafe DEF RenameFails, Return
  <2>15. CASE Crash
    BY <2>0, <2>15, ReturnSafe DEF Crash, Return
  <2>16. CASE UpdateObject
    BY <2>0, <2>16, UpdateSafe, FinalStable DEF UpdateObject
  <2>17. CASE UNCHANGED vars
    BY <2>0, <2>17, PrefixStable, FinalStable DEF vars, dlVars, CallProgress,
       MoreParts, LosesLastByte, RangeStart, RangeEnd, Wanted
  <2> QED
    BY <2>1, <2>2, <2>3, <2>4, <2>5, <2>6, <2>7, <2>8, <2>9, <2>10, <2>11,
       <2>12, <2>13, <2>14, <2>15, <2>16, <2>17 DEF Next, CallStep
<1> QED
  BY <1>1, <1>2, PTL DEF Spec

(***************************************************************************)
(* The temporary file is always a contiguous beginning of the request, for *)
(* all payload sizes, part sizes, ranges and interruptions.                *)
(***************************************************************************)
THEOREM PrefixCorrect == Spec => []TempIsPrefix
<1>1. IInv => TempIsPrefix
  BY DEF IInv
<1> QED
  BY <1>1, Inductive, PTL

\* The file renamed to the destination is always exactly what was requested.
THEOREM FinalCorrect == Spec => []FinalIsExact
<1>1. IInv => FinalIsExact
  BY DEF IInv
<1> QED
  BY <1>1, Inductive, PTL

\* A step that keeps a temporary file shortens it by less than a part.
LEMMA StepKeeps ==
  ASSUME TypeOK, [Next]_vars, tempExists'
  PROVE  Len(temp') > Len(temp) - call.part
<1>0. /\ req \in Requests
      /\ call.part \in Nat \ {0} /\ call.ver \in Nat /\ call.got \in Nat
      /\ call.partStart \in Int
      /\ temp \in Seq(Byte) /\ Len(temp) \in Nat
  BY Fields
<1>1. CASE temp' = temp
  BY <1>0, <1>1
<1>2. CASE FoundTempFile /\ temp' # temp
  <2> DEFINE size == Len(temp)
             cut == TruncateOffset(size, call.part)
  <2>1. NeedsTruncate(size, call.part) /\ temp' = SubSeq(temp, 1, cut)
    BY <1>2 DEF FoundTempFile
  <2>2. cut \in 0..size /\ cut > size - call.part
    BY <1>0, <2>1, TruncateBounds
  <2>3. Len(temp') = cut
    BY <1>0, <2>1, <2>2, CutType
  <2> QED
    BY <2>2, <2>3
<1>3. CASE CopyPart
  <2>1. /\ Slice(call.ver, call.partStart, call.got) \in Seq(Byte)
        /\ Len(Slice(call.ver, call.partStart, call.got)) = call.got
    BY <1>0, SliceType
  <2>2. Len(temp') = Len(temp) + call.got
    BY <1>0, <1>3, <2>1, AppendType DEF CopyPart
  <2> QED
    BY <1>0, <2>2
<1>4. CASE CopyPartFails
  <2>1. PICK n \in 0..call.got-1 :
          temp' = temp \o Slice(call.ver, call.partStart, n)
    BY <1>4 DEF CopyPartFails
  <2>2. n \in Nat
    BY <1>0
  <2>3. /\ Slice(call.ver, call.partStart, n) \in Seq(Byte)
        /\ Len(Slice(call.ver, call.partStart, n)) = n
    BY <1>0, <2>2, SliceType
  <2>4. Len(temp') = Len(temp) + n
    BY <1>0, <2>1, <2>3, AppendType
  <2> QED
    BY <1>0, <2>2, <2>4
<1> QED
  BY <1>1, <1>2, <1>3, <1>4 DEF Next, CallStep, Start, RejectPartSize,
     NoTempFile, OpenTemp, RequestPart, CopyToClosedFile, ReturnError,
     CloseTemp, CloseTempFails, RenameTemp, RenameFails, Crash, UpdateObject,
     vars, dlVars

(***************************************************************************)
(* Resuming never throws a whole part of the downloaded bytes away, and    *)
(* nothing but the rename takes bytes from the temporary file.             *)
(***************************************************************************)
THEOREM KeepsWholeParts == Spec => ResumeKeepsWholeParts
<1>1. TypeOK /\ [Next]_vars
        => [tempExists' => Len(temp') > Len(temp) - call.part]_vars
  BY StepKeeps
<1> QED
  BY <1>1, TypeCorrect, PTL DEF Spec, ResumeKeepsWholeParts

=============================================================================

------------------------ MODULE ResumableUpload_proofs ------------------------
(***************************************************************************)
(* Proofs about ResumableUpload, for every payload size, all part sizes,   *)
(* readers and options, and any number of callers and failures.            *)
(***************************************************************************)
EXTENDS ResumableUpload, TLAPS

-----------------------------------------------------------------------------
(***************************************************************************)
(* Arithmetic of parts: a payload is cut into parts of p bytes, offsets    *)
(* are compared with multiples of p, and no solver proves these facts for  *)
(* a symbolic p unaided.                                                   *)
(***************************************************************************)

\* Division with remainder, for the divisor that a part size is.
LEMMA DivMod ==
  ASSUME NEW a \in Int, NEW p \in Nat \ {0}
  PROVE  /\ a = p * (a \div p) + (a % p)
         /\ a % p \in 0..p-1
         /\ a \div p \in Int
OBVIOUS

\* A positive number of parts is at least one part long.
LEMMA PartsMonotone ==
  ASSUME NEW d \in Int, NEW p \in Nat \ {0}, d >= 1
  PROVE  p * d >= p
OBVIOUS

-----------------------------------------------------------------------------
(* Parts of the payload.                                                    *)

\* A part more is a part size more.
LEMMA NextPart ==
  ASSUME NEW p \in Nat \ {0}, NEW n \in Nat \ {0}
  PROVE  /\ p * (n - 1) \in Nat
         /\ p * ((n + 1) - 1) = p * (n - 1) + p
OBVIOUS

\* Later parts begin later.
LEMMA LaterPart ==
  ASSUME NEW p \in Nat \ {0}, NEW m \in Int, NEW n \in Int, m <= n
  PROVE  p * m <= p * n
<1>1. CASE m = n
  BY <1>1
<1>2. CASE n - m >= 1
  <2>1. p * (n - m) >= p
    BY <1>2, PartsMonotone
  <2>2. p * (n - m) = p * n - p * m
    OBVIOUS
  <2>3. p * m \in Int /\ p * n \in Int
    OBVIOUS
  <2> QED BY <2>1, <2>2, <2>3
<1> QED BY <1>1, <1>2

\* SplitPartInfo counts at least one part, and the last one is not empty.
LEMMA PartsCount ==
  ASSUME NEW p \in Nat \ {0}
  PROVE  LET n == (Size + p - 1) \div p
         IN  /\ n \in Nat \ {0}
             /\ p * (n - 1) < Size
<1> DEFINE a == Size + p - 1
           n == a \div p
<1>1. a \in Int /\ a >= p
  BY SizeAssumption
<1>2. a = p * n + (a % p) /\ a % p \in 0..p-1 /\ n \in Int
  BY <1>1, DivMod
<1> HIDE DEF n
<1>3. n >= 1
  <2>1. SUFFICES ASSUME n <= 0 PROVE FALSE
    BY <1>2
  <2>2. p * n <= p * 0
    BY <2>1, <1>2, LaterPart
  <2>3. p * 0 = 0 /\ p * n \in Int
    BY <1>2
  <2> HIDE DEF a
  <2> QED BY <1>1, <1>2, <2>2, <2>3
<1>4. p * (n - 1) = p * n - p /\ p * n \in Int
  BY <1>2
<1>5. p * (n - 1) < Size
  BY <1>2, <1>4, SizeAssumption
<1> QED BY <1>2, <1>3, <1>5 DEF n

\* Whole units of u bytes do not reach beyond n bytes.
LEMMA WholeUnits ==
  ASSUME NEW n \in Nat, NEW u \in Nat \ {0}
  PROVE  /\ u * (n \div u) \in 0..n
         /\ n \div u \in Nat
<1>1. n = u * (n \div u) + (n % u) /\ n % u \in 0..u-1 /\ n \div u \in Int
  BY DivMod
<1> DEFINE q == n \div u
<1> HIDE DEF q
<1>2. q >= 0
  <2>1. SUFFICES ASSUME q <= -1 PROVE FALSE
    BY <1>1 DEF q
  <2>2. u * q <= u * (-1)
    BY <2>1, <1>1, LaterPart DEF q
  <2>3. u * (-1) = -u /\ u * q \in Int
    BY <1>1 DEF q
  <2>4. n = u * q + (n % u) /\ n % u \in 0..u-1
    BY <1>1 DEF q
  <2> QED BY <2>2, <2>3, <2>4
<1>3. u * q >= u * 0 /\ u * 0 = 0 /\ u * q \in Int
  BY <1>1, <1>2, LaterPart DEF q
<1>4. n = u * q + (n % u) /\ n % u \in 0..u-1 /\ q \in Int
  BY <1>1 DEF q
<1>5. u * q \in 0..n /\ q \in Nat
  BY <1>2, <1>3, <1>4
<1> QED BY <1>5 DEF q

\* The part at which an upload goes on begins with bytes the SP has.
LEMMA StartPartBounds ==
  ASSUME NEW offset \in Nat, NEW p \in Nat \ {0}
  PROVE  /\ StartPart(offset, p) \in Nat \ {0}
         /\ p * (StartPart(offset, p) - 1) <= offset
<1> DEFINE q == offset \div p
<1>1. q \in Nat /\ p * q \in 0..offset
  BY WholeUnits
<1>2. StartPart(offset, p) = q + 1
  BY DEF StartPart
<1> HIDE DEF q
<1>3. (q + 1) - 1 = q
  BY <1>1
<1> QED BY <1>1, <1>2, <1>3

\* The SP's offset is not beyond what it has.
LEMMA SegmentBounds ==
  ASSUME NEW n \in 0..Size
  PROVE  WholeSegments(n) \in 0..n
<1>1. n \in Nat
  BY SizeAssumption
<1> DEFINE q == n \div SegmentSize
<1>2. q \in Nat /\ SegmentSize * q \in 0..n
  BY <1>1, WholeUnits, SegmentAssumption
<1>3. WholeSegments(n) = IF n = Size THEN n ELSE q * SegmentSize
  BY DEF WholeSegments
<1> HIDE DEF q
<1>4. q * SegmentSize = SegmentSize * q
  BY <1>2, SegmentAssumption
<1> QED BY <1>1, <1>2, <1>3, <1>4

-----------------------------------------------------------------------------
(* What the SP holds.                                                       *)

\* A beginning of n bytes has no hole before n.
LEMMA PrefixContiguous ==
  ASSUME NEW n \in 0..Size
  PROVE  Contiguous([o \in 0..n-1 |-> o]) = n
<1> DEFINE content == [o \in 0..n-1 |-> o]
           P(m) == /\ \A o \in 0..m-1 : o \in DOMAIN content
                   /\ m = Size \/ m \notin DOMAIN content
<1>1. P(n)
  BY SizeAssumption
<1>2. \A m \in 0..Size : P(m) => m = n
  BY SizeAssumption
<1>3. Contiguous(content) = CHOOSE m \in 0..Size : P(m)
  BY DEF Contiguous
<1> HIDE DEF P
<1> QED BY <1>1, <1>2, <1>3

\* A body that begins where it belongs makes the beginning longer.
LEMMA WritePrefix ==
  ASSUME NEW have \in 0..Size, NEW offset \in 0..have, NEW n \in Nat,
         offset + n <= Size
  PROVE  LET more == IF have <= offset + n THEN offset + n ELSE have
         IN  Write([o \in 0..have-1 |-> o], offset, offset, n)
               = [o \in 0..more-1 |-> o]
<1> DEFINE more == IF have <= offset + n THEN offset + n ELSE have
<1>1. have \in Nat /\ offset \in Nat /\ Size \in Nat
  BY SizeAssumption
<1>2. (0..have-1) \union (offset..offset+n-1) = 0..more-1
  BY <1>1
<1>3. \A o \in offset..offset+n-1 : offset + (o - offset) = o
  BY <1>1
<1> QED BY <1>1, <1>2, <1>3 DEF Write

-----------------------------------------------------------------------------
(* Steps that end a call, or move it on.                                    *)

\* What the SP has only grows, and stays a beginning of the payload.
SpGrows ==
  /\ StoredPrefix'
  /\ Contiguous(stored) <= Contiguous(stored')
  /\ received => received'
  /\ known' \in BOOLEAN /\ received' \in BOOLEAN
  /\ status' \in {"CREATED", "SEALED"}
  /\ faults' \in 0..MaxFaults

Places == {"idle", "head", "offset", "skip", "loop", "post", "put"}

\* The locals of a call have their types.
LEMMA CallTypes ==
  ASSUME TypeOK, NEW c \in Clients
  PROVE  /\ call[c] \in CallState
         /\ call[c].part \in Nat \ {0} /\ call[c].partNumber \in Nat \ {0}
         /\ call[c].start \in Nat \ {0}
         /\ call[c].source \in Source /\ call[c].source.len \in 0..Size
         /\ call[c].source.fails \in BOOLEAN
         /\ call[c].kind \in Kind
         /\ call[c].pos \in 0..Size /\ call[c].totalUploadedSize \in 0..Size
         /\ call[c].length \in 0..Size /\ call[c].eof \in BOOLEAN
         /\ Size \in Nat \ {0}
<1>1. call[c] \in CallState
  BY DEF TypeOK
<1>2. call[c].source \in Source
  BY <1>1 DEF CallState
<1> QED BY <1>1, <1>2, SizeAssumption DEF CallState, Source

\* A fault is counted.
LEMMA FaultType ==
  ASSUME TypeOK, UNCHANGED faults \/ Fault
  PROVE  faults' \in 0..MaxFaults
BY FaultsAssumption DEF TypeOK, Fault

\* Nothing happened to the SP.
LEMMA SpStays ==
  ASSUME IInv, UNCHANGED spVars, UNCHANGED faults \/ Fault
  PROVE  SpGrows
<1>1. faults' \in 0..MaxFaults
  BY FaultType DEF IInv
<1>2. Contiguous(stored') = Contiguous(stored) /\ Contiguous(stored) \in 0..Size
  BY DEF IInv, StoredPrefix, spVars
<1>3. StoredPrefix'
  BY <1>2 DEF IInv, StoredPrefix, spVars
<1> QED
  BY <1>1, <1>2, <1>3, SizeAssumption DEF SpGrows, IInv, TypeOK, spVars

\* A beginning of the payload has the type of what the SP holds.
LEMMA PrefixType ==
  ASSUME NEW n \in 0..Size, NEW content, content = [o \in 0..n-1 |-> o]
  PROVE  /\ DOMAIN content \subseteq 0..Size-1
         /\ \A o \in DOMAIN content : content[o] \in 0..Size-1
BY SizeAssumption

\* The steps of another call and of the SP leave a call where it stands.
LEMMA OtherProgress ==
  ASSUME IInv, SpGrows, NEW c \in Clients, pc'[c] = pc[c], call'[c] = call[c]
  PROVE  Progress(c)'
<1>1. Progress(c)
  BY DEF IInv
<1>2. call[c].part * (call[c].start - 1) \in Int /\ call[c].totalUploadedSize \in Nat
  BY CallTypes DEF IInv
<1>3. /\ Contiguous(stored) \in Nat /\ Contiguous(stored') \in Nat
      /\ Contiguous(stored) <= Contiguous(stored')
      /\ received => received'
  BY SizeAssumption DEF IInv, SpGrows, StoredPrefix
<1> DEFINE first == call[c].part * (call[c].start - 1)
<1>4. first \in Int
  BY <1>2
<1>5. MoreParts(c)' = MoreParts(c) /\ totalPartsCount(c)' = totalPartsCount(c)
  BY DEF MoreParts, totalPartsCount
<1>6. pc[c] = "skip" => first <= Contiguous(stored')
  <2>1. pc[c] = "skip" => first <= Contiguous(stored)
    BY <1>1 DEF Progress
  <2> HIDE DEF first
  <2> QED BY <1>3, <1>4, <2>1
<1>7. pc[c] \in {"loop", "post"} => call[c].totalUploadedSize <= Contiguous(stored')
  <2>1. pc[c] \in {"loop", "post"} => call[c].totalUploadedSize <= Contiguous(stored)
    BY <1>1 DEF Progress
  <2> QED BY <1>2, <1>3, <2>1
<1> QED
  BY <1>1, <1>3, <1>5, <1>6, <1>7 DEF Progress, Lesser

\* A call goes on, with other locals.
LEMMA GoesOn ==
  ASSUME IInv, SpGrows, NEW c \in Clients, NEW where \in Places,
         NEW locals \in CallState,
         pc' = [pc EXCEPT ![c] = where], call' = [call EXCEPT ![c] = locals],
         UNCHANGED <<result, auxOk>>,
         Progress(c)'
  PROVE  IInv'
<1>1. TypeOK'
  <2>1. pc' \in [Clients -> Places] /\ call' \in [Clients -> CallState]
    BY DEF IInv, TypeOK, Places
  <2>2. /\ DOMAIN stored' \subseteq 0..Size-1
        /\ \A o \in DOMAIN stored' : stored'[o] \in 0..Size-1
    BY PrefixType DEF SpGrows, StoredPrefix
  <2> QED BY <2>1, <2>2 DEF IInv, TypeOK, SpGrows, Places
<1>2. StoredPrefix'
  BY DEF SpGrows
<1>3. \A d \in Clients : Progress(d)'
  <2> SUFFICES ASSUME NEW d \in Clients \ {c} PROVE Progress(d)'
    OBVIOUS
  <2>1. pc'[d] = pc[d] /\ call'[d] = call[d]
    BY DEF IInv, TypeOK
  <2> QED BY <2>1, OtherProgress
<1>4. SuccessMeansReceived'
  BY DEF IInv, SuccessMeansReceived, SpGrows
<1> QED BY <1>1, <1>2, <1>3, <1>4 DEF IInv

\* The locals of no call.
LEMMA IdleProgress ==
  ASSUME NEW c \in Clients, pc'[c] = "idle", call'[c] = Idle
  PROVE  Idle \in CallState /\ Progress(c)'
<1>1. Idle = [part |-> 1, kind |-> [delegated |-> FALSE, single |-> FALSE],
              source |-> [len |-> 0, fails |-> FALSE], tries |-> 0, start |-> 1,
              partNumber |-> 1, pos |-> 0, totalUploadedSize |-> 0,
              length |-> 0, eof |-> FALSE]
  BY DEF Idle, NewCall
<1>2. Idle \in CallState
  BY <1>1, SizeAssumption DEF CallState, Kind, Source, MaxHeadTryTime
<1>3. Progress(c)'
  BY <1>1 DEF Progress, Lesser
<1> QED BY <1>2, <1>3

\* A call ends: an error, a crash, or a success of a received payload.
LEMMA Ends ==
  ASSUME IInv, SpGrows, NEW c \in Clients,
         NEW r \in {"ok", "error", "crash"},
         NEW ok \in [read : 0..Size, excuses : SUBSET Excuse],
         pc' = [pc EXCEPT ![c] = "idle"], call' = [call EXCEPT ![c] = Idle],
         result' = [result EXCEPT ![c] = r],
         auxOk' = [auxOk EXCEPT ![c] = ok],
         r = "ok" /\ ok.excuses = {} => received'
  PROVE  IInv'
<1>1. pc'[c] = "idle" /\ call'[c] = Idle /\ result'[c] = r /\ auxOk'[c] = ok
  BY DEF IInv, TypeOK
<1>2. Idle \in CallState /\ Progress(c)'
  BY <1>1, IdleProgress
<1>3. TypeOK'
  <2>1. pc' \in [Clients -> Places] /\ call' \in [Clients -> CallState]
    BY <1>2 DEF IInv, TypeOK, Places
  <2>2. /\ DOMAIN stored' \subseteq 0..Size-1
        /\ \A o \in DOMAIN stored' : stored'[o] \in 0..Size-1
    BY PrefixType DEF SpGrows, StoredPrefix
  <2>3. /\ result' \in [Clients -> {"none", "ok", "error", "crash"}]
        /\ auxOk' \in [Clients -> [read : 0..Size, excuses : SUBSET Excuse]]
    BY DEF IInv, TypeOK
  <2> QED BY <2>1, <2>2, <2>3 DEF TypeOK, SpGrows, Places
<1>4. StoredPrefix'
  BY DEF SpGrows
<1>5. \A d \in Clients : Progress(d)'
  <2> SUFFICES ASSUME NEW d \in Clients \ {c} PROVE Progress(d)'
    BY <1>2
  <2>1. pc'[d] = pc[d] /\ call'[d] = call[d]
    BY DEF IInv, TypeOK
  <2> QED BY <2>1, OtherProgress
<1>6. SuccessMeansReceived'
  <2>1. \A d \in Clients \ {c} : result'[d] = result[d] /\ auxOk'[d] = auxOk[d]
    BY DEF IInv, TypeOK
  <2> QED BY <1>1, <2>1 DEF IInv, SuccessMeansReceived, SpGrows
<1> QED BY <1>3, <1>4, <1>5, <1>6 DEF IInv

\* An error or a crash.
LEMMA FailEnds ==
  ASSUME IInv, SpGrows, NEW c \in Clients, NEW r \in {"error", "crash"}, Fail(c, r)
  PROVE  IInv'
<1>1. auxOk[c] \in [read : 0..Size, excuses : SUBSET Excuse]
  BY DEF IInv, TypeOK
<1>2. auxOk' = [auxOk EXCEPT ![c] = auxOk[c]]
  BY DEF IInv, TypeOK, Fail
<1> QED
  BY <1>1, <1>2, Ends DEF Fail, Goto

\* What excuses a success in which the payload was not received.
Excused(c) ==
  \/ call[c].source.fails \/ call[c].source.len < Size
  \/ call[c].start > totalPartsCount(c)

\* A success.
LEMMA SucceedEnds ==
  ASSUME IInv, SpGrows, NEW c \in Clients, NEW total \in 0..Size,
         Succeed(c, total), received' \/ Excused(c)
  PROVE  IInv'
<1> DEFINE s == call[c].source
           ok == [read |-> total,
                  excuses |-> {x \in Excuse :
                    \/ x = "reader" /\ (s.fails \/ s.len < Size)
                    \/ x = "allStored" /\ call[c].start > totalPartsCount(c)}]
<1>1. ok \in [read : 0..Size, excuses : SUBSET Excuse]
  OBVIOUS
<1>2. Excused(c) => ok.excuses # {}
  BY DEF Excused, Excuse
<1>3. /\ pc' = [pc EXCEPT ![c] = "idle"] /\ call' = [call EXCEPT ![c] = Idle]
      /\ result' = [result EXCEPT ![c] = "ok"] /\ auxOk' = [auxOk EXCEPT ![c] = ok]
  BY DEF Succeed, Goto
<1> HIDE DEF ok
<1> QED BY <1>1, <1>2, <1>3, Ends

-----------------------------------------------------------------------------
(* The actions, one by one.                                                 *)

\* A call begins: the reader is at the first byte.
LEMMA PutObjectInv ==
  ASSUME IInv, NEW c \in Clients, NEW part \in PartSizes, NEW kind \in Kinds,
         NEW source \in Sources, PutObject(c, part, kind, source)
  PROVE  IInv'
<1> DEFINE single == kind.single \/ Size <= part
           locals == NewCall(part, [kind EXCEPT !.single = single], source)
           where == IF ~kind.delegated THEN "head"
                    ELSE IF single THEN "put" ELSE "loop"
<1>1. /\ part \in Nat \ {0} /\ source \in Source /\ source.len \in 0..Size
      /\ kind \in Kind
  BY PartSizesAssumption, SourcesAssumption, KindsAssumption DEF Source
<1>2. /\ locals.part = part /\ locals.source = source /\ locals.start = 1
      /\ locals.partNumber = 1 /\ locals.pos = 0 /\ locals.length = 0
      /\ locals.totalUploadedSize = 0
  BY DEF NewCall
<1>3. locals \in CallState
  <2>1. [kind EXCEPT !.single = single] \in Kind
    BY <1>1 DEF Kind
  <2> QED BY <1>1, <2>1, SizeAssumption DEF NewCall, CallState, MaxHeadTryTime
<1>4. where \in {"head", "put", "loop"}
  OBVIOUS
<1>5. SpGrows
  BY SpStays DEF PutObject
<1>6. /\ pc' = [pc EXCEPT ![c] = where] /\ call' = [call EXCEPT ![c] = locals]
      /\ UNCHANGED <<result, auxOk>>
  BY DEF PutObject, Goto
<1> HIDE DEF locals, where
<1>7. pc'[c] = where /\ call'[c] = locals
  BY <1>6 DEF IInv, TypeOK
<1>8. Progress(c)'
  <2>1. part * (1 - 1) = 0
    BY <1>1
  <2>2. (Size + part - 1) \div part \in Nat \ {0}
    BY <1>1, PartsCount
  <2>3. MoreParts(c)'
    BY <1>2, <1>7, <2>2 DEF MoreParts, totalPartsCount
  <2>4. Contiguous(stored') \in Nat
    BY <1>5, SizeAssumption DEF SpGrows, StoredPrefix
  <2> QED BY <1>1, <1>2, <1>4, <1>7, <2>1, <2>3, <2>4 DEF Progress, Lesser
<1> QED BY <1>3, <1>4, <1>5, <1>6, <1>8, GoesOn DEF Places

\* headSPObjectInfo: the call stands where it stood.
LEMMA HeadDoneInv ==
  ASSUME IInv, NEW c \in Clients, pc[c] = "head", HeadDone(c),
         UNCHANGED faults \/ Fault
  PROVE  IInv'
<1> DEFINE where == IF call[c].kind.single THEN "put" ELSE "offset"
<1>1. SpGrows
  BY SpStays DEF HeadDone
<1>2. /\ pc' = [pc EXCEPT ![c] = where] /\ call' = [call EXCEPT ![c] = call[c]]
      /\ UNCHANGED <<result, auxOk>>
  BY DEF HeadDone, Goto, IInv, TypeOK
<1>3. pc'[c] = where /\ call'[c] = call[c]
  BY <1>2 DEF IInv, TypeOK
<1>4. Progress(c)'
  BY <1>3 DEF IInv, Progress, Lesser
<1> QED BY <1>1, <1>2, <1>4, CallTypes, GoesOn DEF IInv, Places

\* headSPObjectInfo tries again, nothing but the count of its tries has changed.
LEMMA HeadAgainInv ==
  ASSUME IInv, NEW c \in Clients, HeadAgain(c)
  PROVE  IInv'
<1> DEFINE locals == [call[c] EXCEPT !.tries = @ + 1]
<1>1. SpGrows
  BY SpStays DEF HeadAgain
<1>2. call[c] \in CallState
  BY CallTypes DEF IInv
<1>3. locals \in CallState
  BY <1>2 DEF HeadAgain, CallState, MaxHeadTryTime
<1>4. /\ pc' = [pc EXCEPT ![c] = "head"] /\ call' = [call EXCEPT ![c] = locals]
      /\ UNCHANGED <<result, auxOk>>
  BY DEF HeadAgain, IInv, TypeOK
<1>5. pc'[c] = "head" /\ call'[c] = locals /\ pc[c] = "head"
  BY <1>4 DEF IInv, TypeOK, HeadAgain
<1>6. Progress(c)'
  <2>1. Progress(c)
    BY DEF IInv
  <2>2. /\ locals.part = call[c].part /\ locals.source = call[c].source
        /\ locals.partNumber = call[c].partNumber /\ locals.pos = call[c].pos
        /\ locals.totalUploadedSize = call[c].totalUploadedSize
        /\ locals.length = call[c].length
    BY <1>2 DEF CallState
  <2> HIDE DEF locals
  <2> QED BY <1>5, <2>1, <2>2 DEF Progress, Lesser
<1> QED BY <1>1, <1>3, <1>4, <1>6, GoesOn DEF Places

\* The offset: the call goes on with a part that begins in what the SP has.
LEMMA QueryOffsetInv ==
  ASSUME IInv, NEW c \in Clients, QueryOffset(c)
  PROVE  IInv'
<1>1. SpGrows
  BY SpStays DEF QueryOffset
<1>2. /\ call[c] \in CallState /\ call[c].part \in Nat \ {0}
      /\ call[c].source.len \in 0..Size
  BY CallTypes DEF IInv
<1>3. PICK offset \in 0..Contiguous(stored) :
        LET start == StartPart(offset, call[c].part)
        IN  /\ call' = [call EXCEPT ![c].start = start]
            /\ Goto(c, IF start > 1 THEN "skip" ELSE "loop")
  <2>1. Contiguous(stored) \in 0..Size /\ Contiguous(stored) \in Nat
    BY SizeAssumption DEF IInv, StoredPrefix
  <2>2. WholeSegments(Contiguous(stored)) \in 0..Contiguous(stored)
    BY <2>1, SegmentBounds
  <2>3. 0 \in 0..Contiguous(stored)
    BY <2>1
  <2> QED BY <2>2, <2>3 DEF QueryOffset
<1> DEFINE start == StartPart(offset, call[c].part)
           locals == [call[c] EXCEPT !.start = start]
           where == IF start > 1 THEN "skip" ELSE "loop"
<1>4. /\ start \in Nat \ {0} /\ call[c].part * (start - 1) <= offset
      /\ offset \in Nat /\ offset <= Contiguous(stored)
      /\ Contiguous(stored) \in Nat
  <2>1. Contiguous(stored) \in 0..Size /\ Contiguous(stored) \in Nat
    BY SizeAssumption DEF IInv, StoredPrefix
  <2>2. offset \in Nat /\ offset <= Contiguous(stored)
    BY <2>1
  <2> QED BY <1>2, <2>1, <2>2, StartPartBounds
<1>5. /\ pc' = [pc EXCEPT ![c] = where] /\ call' = [call EXCEPT ![c] = locals]
      /\ UNCHANGED <<result, auxOk>> /\ stored' = stored
  BY <1>3 DEF QueryOffset, Goto, spVars
<1>6. /\ locals.part = call[c].part /\ locals.source = call[c].source
      /\ locals.partNumber = call[c].partNumber /\ locals.pos = call[c].pos
      /\ locals.totalUploadedSize = call[c].totalUploadedSize
      /\ locals.length = call[c].length /\ locals.start = start
      /\ locals \in CallState
  BY <1>2, <1>4 DEF CallState
<1>7. where \in {"skip", "loop"} /\ (where = "skip" => start > 1)
  OBVIOUS
<1> HIDE DEF start, locals, where
<1>8. pc'[c] = where /\ call'[c] = locals
  BY <1>5 DEF IInv, TypeOK
<1>9. Progress(c)'
  <2>1. Progress(c) /\ pc[c] = "offset"
    BY DEF IInv, QueryOffset
  <2>2. call[c].partNumber = 1 /\ call[c].part * (1 - 1) = 0
    BY <1>2, <2>1 DEF Progress
  <2>3. call[c].totalUploadedSize = 0 /\ call[c].length = 0
    BY <1>2, <2>1, <2>2 DEF Progress, Lesser
  <2>4. (Size + call[c].part - 1) \div call[c].part \in Nat \ {0}
    BY <1>2, PartsCount
  <2>5. MoreParts(c)'
    BY <1>6, <1>8, <2>2, <2>4 DEF MoreParts, totalPartsCount
  <2>6. call[c].part * (start - 1) <= Contiguous(stored)
    <3> DEFINE first == call[c].part * (start - 1)
    <3>1. first \in Int /\ first <= offset
      BY <1>2, <1>4
    <3> HIDE DEF first
    <3>2. first <= Contiguous(stored)
      BY <1>4, <3>1
    <3> QED BY <3>2 DEF first
  <2> QED
    BY <1>4, <1>5, <1>6, <1>7, <1>8, <2>1, <2>2, <2>3, <2>5, <2>6 DEF Progress, Lesser
<1> QED BY <1>1, <1>5, <1>6, <1>7, <1>9, GoesOn DEF Places


\* The reader of a call.
LEMMA Reading ==
  ASSUME IInv, NEW c \in Clients
  PROVE  LET t == call[c].totalUploadedSize
             n == Lesser(call[c].part, call[c].source.len - t)
             first == call[c].part * (call[c].partNumber - 1)
         IN  /\ t \in 0..call[c].source.len /\ n \in 0..call[c].part
             /\ t + n \in 0..call[c].source.len /\ t + n \in 0..Size
             /\ t <= first /\ first \in Nat
             /\ t + n = Lesser(call[c].part * ((call[c].partNumber + 1) - 1),
                               call[c].source.len)
             /\ n < call[c].part => t + n = call[c].source.len
             /\ pc[c] # "post" => call[c].pos = t /\ call[c].length = 0
                                  /\ ReadLength(c) = n
<1> DEFINE p == call[c].part
           k == call[c].partNumber
           len == call[c].source.len
           t == call[c].totalUploadedSize
           n == Lesser(p, len - t)
<1>1. /\ p \in Nat \ {0} /\ k \in Nat \ {0} /\ len \in 0..Size /\ t \in 0..Size
      /\ Size \in Nat /\ len \in Nat
  BY CallTypes DEF IInv
<1>2. /\ t = Lesser(p * (k - 1), len)
      /\ pc[c] # "post" => call[c].length = 0
      /\ call[c].pos = t + call[c].length
  BY DEF IInv, Progress
<1>3. pc[c] # "post" => call[c].pos = t /\ call[c].length = 0 /\ ReadLength(c) = n
  BY <1>1, <1>2 DEF ReadLength
<1>4. n = Lesser(p, len - t)
  OBVIOUS
<1> HIDE DEF p, k, len, t, n
<1>5. /\ t \in 0..len /\ n \in 0..p /\ t + n \in 0..len
      /\ t <= p * (k - 1) /\ p * (k - 1) \in Nat
      /\ t + n = Lesser(p * ((k + 1) - 1), len)
      /\ n < p => t + n = len
  <2> DEFINE first == p * (k - 1)
  <2>1. first \in Nat /\ p * ((k + 1) - 1) = first + p
    BY <1>1, NextPart
  <2>2. t = Lesser(first, len)
    BY <1>2
  <2> HIDE DEF first
  <2>3. /\ t \in 0..len /\ n \in 0..p /\ t + n \in 0..len /\ t <= first
        /\ t + n = Lesser(first + p, len)
        /\ n < p => t + n = len
    BY <1>1, <1>4, <2>1, <2>2 DEF Lesser
  <2> QED BY <2>1, <2>3 DEF first
<1>6. t + n \in 0..Size
  BY <1>1, <1>5
<1> QED BY <1>3, <1>5, <1>6 DEF p, k, len, t, n

\* The parts before the one the upload goes on with begin in what the SP has.
LEMMA SkipBounds ==
  ASSUME NEW p \in Nat \ {0}, NEW k \in Nat \ {0}, NEW start \in Nat \ {0},
         k <= start, NEW have \in Nat, p * (start - 1) <= have,
         NEW t \in Nat, t <= p * (k - 1)
  PROVE  t <= have
<1> DEFINE first == p * (k - 1)
           last == p * (start - 1)
<1>1. first <= last /\ first \in Int /\ last \in Int
  BY LaterPart
<1> HIDE DEF first, last
<1>2. t <= first /\ last <= have
  BY DEF first, last
<1> QED BY <1>1, <1>2

\* The reader is wound forward, at most to the end of what the SP has.
LEMMA SkipPartInv ==
  ASSUME IInv, NEW c \in Clients, SkipPart(c)
  PROVE  IInv'
<1> DEFINE p == call[c].part
           k == call[c].partNumber
           t == call[c].totalUploadedSize
           n == Lesser(p, call[c].source.len - t)
           have == Contiguous(stored)
<1>1. SpGrows
  BY SpStays DEF SkipPart
<1>2. /\ call[c] \in CallState /\ p \in Nat \ {0} /\ k \in Nat \ {0}
      /\ call[c].start \in Nat \ {0} /\ call[c].source.len \in 0..Size
      /\ t \in 0..Size /\ Size \in Nat
  BY CallTypes DEF IInv
<1>3. /\ pc[c] = "skip" /\ k < call[c].start
      /\ p * (call[c].start - 1) <= have
  BY DEF SkipPart, IInv, Progress
<1>4. have \in Nat /\ stored' = stored
  BY SizeAssumption DEF IInv, StoredPrefix, SkipPart, spVars
<1>5. /\ t \in Nat /\ t + n \in 0..Size /\ t <= p * (k - 1)
      /\ t + n = Lesser(p * ((k + 1) - 1), call[c].source.len)
      /\ t + n <= p * ((k + 1) - 1)
      /\ call[c].pos = t /\ call[c].length = 0 /\ ReadLength(c) = n
      /\ t = Lesser(p * (k - 1), call[c].source.len)
  <2>1. /\ t + n \in 0..Size /\ t <= p * (k - 1) /\ t \in Nat
        /\ t + n = Lesser(p * ((k + 1) - 1), call[c].source.len)
        /\ call[c].pos = t /\ call[c].length = 0 /\ ReadLength(c) = n
    BY <1>2, <1>3, Reading
  <2>2. p * ((k + 1) - 1) \in Nat
    BY <1>2
  <2> DEFINE next == p * ((k + 1) - 1)
  <2> HIDE DEF next
  <2>3. Lesser(next, call[c].source.len) <= next
    BY <1>2, <2>2 DEF Lesser, next
  <2> QED BY <2>1, <2>3 DEF next, IInv, Progress
<1>6. totalPartsCount(c) \in Int
  BY <1>2, PartsCount DEF totalPartsCount
<1>7. CASE ReadFull(c) = "EOF" /\ k > 1
  <2>1. /\ pc' = [pc EXCEPT ![c] = "loop"] /\ call' = [call EXCEPT ![c] = call[c]]
        /\ UNCHANGED <<result, auxOk>>
    BY <1>7 DEF SkipPart, Goto, IInv, TypeOK
  <2>2. pc'[c] = "loop" /\ call'[c] = call[c]
    BY <2>1 DEF IInv, TypeOK
  <2>3. t <= have
    BY <1>2, <1>3, <1>4, <1>5, SkipBounds
  <2>4. MoreParts(c)' \/ call[c].start > totalPartsCount(c)
    BY <1>2, <1>3, <1>6, <2>2 DEF MoreParts, totalPartsCount
  <2>5. totalPartsCount(c)' = totalPartsCount(c)
    BY <2>2 DEF totalPartsCount
  <2>6. Progress(c)'
    BY <1>4, <1>5, <2>2, <2>3, <2>4, <2>5 DEF Progress
  <2> QED BY <1>1, <1>2, <2>1, <2>6, GoesOn DEF Places
<1>8. CASE ~(ReadFull(c) = "EOF" /\ k > 1)
  <2> DEFINE total == t + n
             locals == [call[c] EXCEPT !.pos = total, !.totalUploadedSize = total,
                                       !.partNumber = k + 1]
             where == IF k + 1 < call[c].start THEN "skip" ELSE "loop"
  <2>1. /\ pc' = [pc EXCEPT ![c] = where] /\ call' = [call EXCEPT ![c] = locals]
        /\ UNCHANGED <<result, auxOk>>
    BY <1>5, <1>8 DEF SkipPart, Goto
  <2>2. /\ locals.part = p /\ locals.source = call[c].source
        /\ locals.start = call[c].start /\ locals.length = 0
        /\ locals.pos = t + n /\ locals.totalUploadedSize = t + n
        /\ locals.partNumber = k + 1 /\ locals \in CallState
    <3>1. total \in 0..Size /\ k + 1 \in Nat \ {0}
      BY <1>2, <1>5
    <3> HIDE DEF total
    <3>2. /\ locals.part = p /\ locals.source = call[c].source
          /\ locals.start = call[c].start /\ locals.length = call[c].length
          /\ locals.pos = total /\ locals.totalUploadedSize = total
          /\ locals.partNumber = k + 1 /\ locals \in CallState
      BY <1>2, <3>1 DEF CallState
    <3> QED BY <1>5, <3>2 DEF total
  <2>3. /\ where \in {"skip", "loop"}
        /\ where = "skip" => k + 1 < call[c].start
        /\ where = "loop" => k + 1 = call[c].start
    BY <1>2, <1>3
  <2> HIDE DEF locals, where
  <2>4. pc'[c] = where /\ call'[c] = locals
    BY <2>1 DEF IInv, TypeOK
  <2>5. t + n <= have
    <3>1. t + n \in Nat /\ k + 1 \in Nat \ {0} /\ k + 1 <= call[c].start
      BY <1>2, <1>3, <1>5
    <3> QED BY <1>2, <1>3, <1>4, <1>5, <3>1, SkipBounds
  <2>6. totalPartsCount(c)' = totalPartsCount(c)
    BY <2>2, <2>4 DEF totalPartsCount
  <2>7. where = "loop" => MoreParts(c)' \/ call[c].start > totalPartsCount(c)
    BY <1>2, <1>6, <2>2, <2>3, <2>4, <2>6 DEF MoreParts
  <2>8. t + n + 0 = t + n
    BY <1>5
  <2>9. Progress(c)'
    BY <1>3, <1>4, <1>5, <2>2, <2>3, <2>4, <2>5, <2>6, <2>7, <2>8 DEF Progress
  <2> QED BY <1>1, <2>1, <2>2, <2>3, <2>9, GoesOn DEF Places
<1> QED BY <1>7, <1>8

\* A part is read: it begins where the reader stood.
LEMMA ReadPartInv ==
  ASSUME IInv, NEW c \in Clients, ReadPart(c)
  PROVE  IInv'
<1> DEFINE p == call[c].part
           t == call[c].totalUploadedSize
           n == Lesser(p, call[c].source.len - t)
           eof == (ReadFull(c) = "EOF")
           locals == [call[c] EXCEPT !.length = n, !.pos = t + n, !.eof = eof]
<1>1. SpGrows
  BY SpStays DEF ReadPart
<1>2. /\ call[c] \in CallState /\ p \in Nat \ {0} /\ call[c].partNumber \in Nat \ {0}
      /\ call[c].source.len \in 0..Size /\ t \in 0..Size /\ Size \in Nat
      /\ call[c].eof \in BOOLEAN
  BY CallTypes DEF IInv
<1>3. /\ pc[c] = "loop" /\ MoreParts(c) /\ t <= Contiguous(stored)
      /\ t = Lesser(p * (call[c].partNumber - 1), call[c].source.len)
      /\ stored' = stored
  BY DEF ReadPart, IInv, Progress, spVars
<1>4. /\ t + n \in 0..Size /\ n \in 0..p /\ t + n \in 0..call[c].source.len
      /\ n < p => t + n = call[c].source.len
      /\ call[c].pos = t /\ ReadLength(c) = n
  BY <1>3, Reading
<1>5. n \in 0..Size
  BY <1>2, <1>4
<1>6. eof => call[c].source.len = 0
  <2>1. SUFFICES ASSUME eof PROVE call[c].source.len = 0
    OBVIOUS
  <2>2. n = 0 /\ call[c].partNumber = 1
    <3>1. ReadFull(c) = "EOF" => ReadLength(c) = 0
      BY DEF ReadFull
    <3> QED BY <1>4, <2>1, <3>1 DEF ReadPart
  <2>3. p * (1 - 1) = 0
    BY <1>2
  <2>4. t = 0
    BY <1>2, <1>3, <2>2, <2>3 DEF Lesser
  <2> HIDE DEF n
  <2> QED BY <1>2, <1>4, <2>2, <2>4
<1>7. /\ pc' = [pc EXCEPT ![c] = "post"] /\ call' = [call EXCEPT ![c] = locals]
      /\ UNCHANGED <<result, auxOk>>
  BY <1>4 DEF ReadPart, Goto
<1>8. /\ locals.part = p /\ locals.source = call[c].source
      /\ locals.start = call[c].start /\ locals.length = n
      /\ locals.pos = t + n /\ locals.totalUploadedSize = t
      /\ locals.partNumber = call[c].partNumber /\ locals.eof = eof
      /\ locals \in CallState
  BY <1>2, <1>4, <1>5 DEF CallState
<1> HIDE DEF locals, eof
<1>9. pc'[c] = "post" /\ call'[c] = locals
  BY <1>7 DEF IInv, TypeOK
<1>10. MoreParts(c)'
  BY <1>3, <1>8, <1>9 DEF MoreParts, totalPartsCount
<1>11. Progress(c)'
  BY <1>3, <1>6, <1>8, <1>9, <1>10 DEF Progress
<1> QED BY <1>1, <1>7, <1>8, <1>11, GoesOn DEF Places

\* The loop ends: the last part was taken, or there was no part left to send.
LEMMA AllPartsSentInv ==
  ASSUME IInv, NEW c \in Clients, AllPartsSent(c)
  PROVE  IInv'
<1>1. SpGrows
  BY SpStays DEF AllPartsSent
<1>2. received' \/ Excused(c)
  BY DEF AllPartsSent, IInv, Progress, Excused, spVars
<1>3. call[c].totalUploadedSize \in 0..Size
  BY CallTypes DEF IInv
<1> QED BY <1>1, <1>2, <1>3, SucceedEnds DEF AllPartsSent

\* The reader ends before the last part: it did not deliver the payload.
LEMMA ReadEndsCallInv ==
  ASSUME IInv, NEW c \in Clients, ReadEndsCall(c)
  PROVE  IInv'
<1> DEFINE p == call[c].part
           k == call[c].partNumber
           t == call[c].totalUploadedSize
           last == (Size + p - 1) \div p
<1>1. SpGrows
  BY SpStays DEF ReadEndsCall
<1>2. /\ p \in Nat \ {0} /\ k \in Nat \ {0} /\ call[c].source.len \in 0..Size
      /\ t \in 0..Size /\ Size \in Nat /\ call[c].source.fails \in BOOLEAN
  BY CallTypes DEF IInv
<1>3. pc[c] = "loop" /\ k <= last
  BY DEF ReadEndsCall, MoreParts, totalPartsCount
<1>4. CASE ReadFull(c) = "error"
  <2>1. call[c].source.fails
    BY <1>4 DEF ReadFull
  <2> QED BY <1>1, <1>2, <2>1, SucceedEnds DEF ReadEndsCall, Excused
<1>5. CASE ReadFull(c) = "EOF"
  <2>1. ReadLength(c) = 0
    BY <1>5 DEF ReadFull
  <2>2. t = call[c].source.len /\ t <= p * (k - 1)
    BY <1>2, <1>3, <2>1, Reading
  <2>3. t # Size
    <3>1. last \in Nat \ {0} /\ p * (last - 1) < Size
      BY <1>2, PartsCount
    <3> HIDE DEF last
    <3>2. p * (k - 1) <= p * (last - 1)
      BY <1>2, <1>3, <3>1, LaterPart
    <3>3. p * (k - 1) \in Int /\ p * (last - 1) \in Int
      BY <1>2, <3>1
    <3> DEFINE a == p * (k - 1)
               b == p * (last - 1)
    <3> HIDE DEF a, b
    <3>4. a \in Int /\ b \in Int /\ a <= b /\ b < Size /\ t <= a
      BY <2>2, <3>1, <3>2, <3>3 DEF a, b
    <3> QED BY <1>2, <3>4
  <2>4. Excused(c)
    BY <1>2, <2>2, <2>3 DEF Excused
  <2> QED BY <1>1, <1>2, <2>4, SucceedEnds DEF ReadEndsCall
<1> QED BY <1>4, <1>5 DEF ReadEndsCall

-----------------------------------------------------------------------------
(* Requests that reach the SP.                                              *)

\* All bytes of the payload are its beginning of Size bytes.
LEMMA WholePrefix ==
  ASSUME NEW n \in 0..Size, Complete([o \in 0..n-1 |-> o])
  PROVE  n = Size
BY SizeAssumption DEF Complete

\* A body whose first byte belongs where it is stored, and is no gap away.
LEMMA BodyStored ==
  ASSUME IInv, NEW offset \in 0..Contiguous(stored), NEW n \in Nat,
         offset + n <= Size, stored' = Write(stored, offset, offset, n)
  PROVE  /\ Contiguous(stored') \in 0..Size
         /\ Contiguous(stored') \in Contiguous(stored)..Size
         /\ offset + n <= Contiguous(stored')
         /\ stored' = [o \in 0..Contiguous(stored')-1 |-> o]
         /\ Complete(stored') => Contiguous(stored') = Size
<1> DEFINE have == Contiguous(stored)
           more == IF have <= offset + n THEN offset + n ELSE have
<1>1. have \in 0..Size /\ stored = [o \in 0..have-1 |-> o]
  BY DEF IInv, StoredPrefix
<1> HIDE DEF have
<1>2. Size \in Nat /\ have \in Nat /\ offset \in 0..have
  BY <1>1, SizeAssumption DEF have
<1>3. /\ more \in 0..Size /\ more \in have..Size /\ offset + n <= more
  BY <1>1, <1>2
<1>4. stored' = [o \in 0..more-1 |-> o]
  BY <1>1, <1>2, WritePrefix
<1> HIDE DEF more
<1>5. Contiguous(stored') = more
  BY <1>3, <1>4, PrefixContiguous
<1>6. Complete(stored') => more = Size
  BY <1>3, <1>4, WholePrefix
<1> QED BY <1>3, <1>4, <1>5, <1>6 DEF have

\* The SP stores what it was sent.
LEMMA SpStores ==
  ASSUME IInv, NEW offset \in 0..Contiguous(stored), NEW n \in Nat,
         offset + n <= Size, stored' = Write(stored, offset, offset, n),
         known' \in BOOLEAN, received' \in BOOLEAN, UNCHANGED status,
         received' => received \/ Complete(stored'),
         received => received',
         UNCHANGED faults \/ Fault
  PROVE  SpGrows
<1>1. /\ Contiguous(stored') \in 0..Size
      /\ Contiguous(stored') \in Contiguous(stored)..Size
      /\ stored' = [o \in 0..Contiguous(stored')-1 |-> o]
      /\ Complete(stored') => Contiguous(stored') = Size
  BY BodyStored
<1>2. Contiguous(stored) \in 0..Size /\ Size \in Nat
      /\ (received => Contiguous(stored) = Size)
  BY SizeAssumption DEF IInv, StoredPrefix
<1>3. Contiguous(stored) <= Contiguous(stored')
  BY <1>1, <1>2
<1>4. received => Contiguous(stored') = Size
  BY <1>1, <1>2
<1>5. StoredPrefix'
  BY <1>1, <1>4 DEF StoredPrefix
<1>6. faults' \in 0..MaxFaults
  BY FaultType DEF IInv
<1> QED BY <1>3, <1>5, <1>6 DEF SpGrows, IInv, TypeOK

\* A part is posted at the offset it was read from.
LEMMA ArrivesInPlace ==
  ASSUME IInv, NEW c \in Clients, pc[c] = "post",
         NEW n \in 0..call[c].length, Arrive(c, n)
  PROVE  LET t == call[c].totalUploadedSize
         IN  /\ t \in 0..Contiguous(stored) /\ n \in Nat /\ t + n <= Size
             /\ stored' = Write(stored, t, t, n)
             /\ call[c].length \in 0..Size /\ t + call[c].length \in 0..Size
<1> DEFINE t == call[c].totalUploadedSize
           read == Lesser(call[c].part, call[c].source.len - t)
<1>1. call[c].length = read /\ call[c].pos = t + call[c].length
      /\ t <= Contiguous(stored)
  BY DEF IInv, Progress
<1>2. t + read \in 0..Size
  BY Reading
<1>3. t \in 0..Size /\ call[c].length \in 0..Size /\ Size \in Nat
  BY CallTypes DEF IInv
<1>4. Contiguous(stored) \in Nat
  BY SizeAssumption DEF IInv, StoredPrefix
<1> HIDE DEF t, read
<1>5. /\ t \in 0..Contiguous(stored) /\ n \in Nat /\ t + n <= Size
      /\ t + call[c].length \in 0..Size /\ call[c].pos - call[c].length = t
  BY <1>1, <1>2, <1>3, <1>4
<1>6. stored' = Write(stored, t, t, n)
  BY <1>5 DEF Arrive, t
<1> QED BY <1>3, <1>5, <1>6 DEF t

\* The SP stores a part.
LEMMA StorePartGrows ==
  ASSUME IInv, NEW c \in Clients, StorePart(c), UNCHANGED faults \/ Fault
  PROVE  /\ SpGrows
         /\ call[c].totalUploadedSize + call[c].length \in 0..Size
         /\ call[c].totalUploadedSize + call[c].length <= Contiguous(stored')
         /\ received' = IsLast(c)
<1> DEFINE t == call[c].totalUploadedSize
           n == call[c].length
<1>1. n \in 0..n /\ n \in Nat
  <2>1. n \in 0..Size /\ Size \in Nat
    BY CallTypes DEF IInv
  <2> QED BY <2>1
<1>2. /\ t \in 0..Contiguous(stored) /\ t + n <= Size
      /\ stored' = Write(stored, t, t, n) /\ t + n \in 0..Size
  BY <1>1, ArrivesInPlace DEF StorePart
<1>3. ~received /\ received' = IsLast(c) /\ known' = TRUE /\ UNCHANGED status
      /\ (IsLast(c) => Complete(stored')) /\ IsLast(c) \in BOOLEAN
  BY DEF StorePart, Accepts, IsLast
<1> HIDE DEF t, n
<1>4. t + n <= Contiguous(stored')
  BY <1>1, <1>2, BodyStored
<1>5. SpGrows
  BY <1>1, <1>2, <1>3, SpStores
<1> QED BY <1>2, <1>3, <1>4, <1>5 DEF t, n

\* A part is taken, and the call goes on behind it.
LEMMA PostPartInv ==
  ASSUME IInv, NEW c \in Clients, PostPart(c)
  PROVE  IInv'
<1> DEFINE t == call[c].totalUploadedSize
           n == call[c].length
           k == call[c].partNumber
           locals == [call[c] EXCEPT !.totalUploadedSize = t + n,
                                     !.partNumber = k + 1, !.length = 0]
<1>1. /\ SpGrows /\ t + n \in 0..Size /\ t + n <= Contiguous(stored')
      /\ received' = IsLast(c)
  BY StorePartGrows DEF PostPart
<1>2. /\ call[c] \in CallState /\ k \in Nat \ {0} /\ call[c].part \in Nat \ {0}
      /\ Size \in Nat \ {0} /\ n \in 0..Size /\ t \in 0..Size
  BY CallTypes DEF IInv
<1>3. /\ pc[c] = "post" /\ call[c].pos = t + n /\ MoreParts(c)
      /\ n = Lesser(call[c].part, call[c].source.len - t)
      /\ call[c].eof => call[c].source.len = 0
  BY DEF PostPart, StorePart, IInv, Progress
<1>4. CASE call[c].eof
  <2>1. Excused(c)
    BY <1>2, <1>3, <1>4 DEF Excused
  <2> QED BY <1>1, <1>4, <2>1, SucceedEnds DEF PostPart
<1>5. CASE ~call[c].eof
  <2>1. /\ pc' = [pc EXCEPT ![c] = "loop"] /\ call' = [call EXCEPT ![c] = locals]
        /\ UNCHANGED <<result, auxOk>>
    BY <1>5 DEF PostPart, Goto
  <2>2. /\ locals.part = call[c].part /\ locals.source = call[c].source
        /\ locals.start = call[c].start /\ locals.length = 0
        /\ locals.pos = call[c].pos /\ locals.totalUploadedSize = t + n
        /\ locals.partNumber = k + 1 /\ locals \in CallState
    <3>1. k + 1 \in Nat \ {0} /\ 0 \in 0..Size
      BY <1>2
    <3> QED BY <1>1, <1>2, <3>1 DEF CallState
  <2>3. t + n = Lesser(call[c].part * ((k + 1) - 1), call[c].source.len)
    BY <1>3, Reading
  <2> HIDE DEF locals
  <2>4. pc'[c] = "loop" /\ call'[c] = locals
    BY <2>1 DEF IInv, TypeOK
  <2>5. MoreParts(c)' \/ received'
    <3>1. totalPartsCount(c) \in Int /\ totalPartsCount(c)' = totalPartsCount(c)
      BY <1>2, <2>2, <2>4, PartsCount DEF totalPartsCount
    <3>2. k <= totalPartsCount(c) /\ (received' <=> k = totalPartsCount(c))
      BY <1>1, <1>3 DEF MoreParts, IsLast
    <3>3. MoreParts(c)' <=> k + 1 <= totalPartsCount(c)
      BY <2>2, <2>4, <3>1 DEF MoreParts
    <3> HIDE DEF k
    <3> QED BY <1>2, <3>1, <3>2, <3>3
  <2>6. t + n + 0 = t + n
    BY <1>1
  <2>7. Progress(c)'
    BY <1>1, <1>3, <2>2, <2>3, <2>4, <2>5, <2>6 DEF Progress
  <2> QED BY <1>1, <2>1, <2>2, <2>7, GoesOn DEF Places
<1> QED BY <1>4, <1>5

\* The part was taken, the call does not know.
LEMMA PostAnswerLostInv ==
  ASSUME IInv, NEW c \in Clients, PostAnswerLost(c)
  PROVE  IInv'
<1>1. SpGrows
  BY StorePartGrows DEF PostAnswerLost
<1> QED BY <1>1, FailEnds DEF PostAnswerLost

\* A cut request leaves no hole: its body begins where the SP's bytes end, or before.
LEMMA PostCutInv ==
  ASSUME IInv, NEW c \in Clients, PostCut(c)
  PROVE  IInv'
<1> DEFINE t == call[c].totalUploadedSize
<1>1. PICK n \in CutAt(call[c].length) : Arrive(c, n)
  BY DEF PostCut
<1>2. n \in 0..call[c].length
  BY DEF CutAt
<1>3. /\ t \in 0..Contiguous(stored) /\ n \in Nat /\ t + n <= Size
      /\ stored' = Write(stored, t, t, n)
  BY <1>1, <1>2, ArrivesInPlace DEF PostCut
<1> HIDE DEF t
<1>4. SpGrows
  BY <1>3, SpStores DEF PostCut, IInv, TypeOK
<1> QED BY <1>4, FailEnds DEF PostCut

\* A refused part may have been stored.
LEMMA PostRefusedInv ==
  ASSUME IInv, NEW c \in Clients, PostRefused(c)
  PROVE  IInv'
<1> DEFINE t == call[c].totalUploadedSize
           n == call[c].length
<1>1. CASE UNCHANGED stored
  <2>1. SpGrows
    BY <1>1, SpStays DEF PostRefused, spVars
  <2> QED BY <2>1, FailEnds DEF PostRefused
<1>2. CASE Arrive(c, n)
  <2>1. n \in 0..n
    <3>1. n \in 0..Size /\ Size \in Nat
      BY CallTypes DEF IInv
    <3> QED BY <3>1
  <2>2. /\ t \in 0..Contiguous(stored) /\ n \in Nat /\ t + n <= Size
        /\ stored' = Write(stored, t, t, n)
    BY <1>2, <2>1, ArrivesInPlace DEF PostRefused
  <2> HIDE DEF t, n
  <2>3. SpGrows
    BY <2>2, SpStores DEF PostRefused, IInv, TypeOK
  <2> QED BY <2>3, FailEnds DEF PostRefused
<1> QED BY <1>1, <1>2 DEF PostRefused

\* A whole payload, or its beginning, is written at offset 0.
LEMMA WholeGrows ==
  ASSUME IInv, NEW n \in 0..Size, stored' = Write(stored, 0, 0, n),
         known' \in BOOLEAN, received' \in BOOLEAN, UNCHANGED status,
         received' => received \/ n = Size, received => received',
         UNCHANGED faults \/ Fault
  PROVE  SpGrows
<1>1. 0 \in 0..Contiguous(stored) /\ n \in Nat /\ 0 + n <= Size
      /\ Size \in Nat /\ n <= Size
  BY SizeAssumption DEF IInv, StoredPrefix
<1>2. n = Size => Complete(stored')
  BY <1>1 DEF Complete, Write
<1> QED BY <1>1, <1>2, SpStores

\* PutObject in one request: all of it is received.
LEMMA PutWholeInv ==
  ASSUME IInv, NEW c \in Clients, PutWhole(c)
  PROVE  IInv'
<1>1. Size \in 0..Size
  BY SizeAssumption
<1>2. SpGrows
  BY <1>1, WholeGrows DEF PutWhole
<1>3. CASE Succeed(c, Size)
  BY <1>1, <1>2, <1>3, SucceedEnds DEF PutWhole
<1>4. CASE Fail(c, "error")
  BY <1>2, <1>4, FailEnds
<1> QED BY <1>3, <1>4 DEF PutWhole

\* PutObject in one request: the beginning of the payload arrives, or nothing.
LEMMA PutCutInv ==
  ASSUME IInv, NEW c \in Clients, PutCut(c)
  PROVE  IInv'
<1>1. UNCHANGED faults \/ Fault
  BY DEF PutCut
<1>2. CASE Accepts(c)
  <2>1. PICK n \in CutAt(call[c].source.len) : stored' = Write(stored, 0, 0, n)
    BY <1>2 DEF PutCut
  <2>2. n \in 0..Size
    <3>1. call[c].source.len \in 0..Size /\ Size \in Nat
      BY CallTypes DEF IInv
    <3> QED BY <3>1 DEF CutAt
  <2>3. SpGrows
    BY <1>1, <2>1, <2>2, WholeGrows DEF PutCut, IInv, TypeOK
  <2> QED BY <2>3, FailEnds DEF PutCut
<1>3. CASE ~Accepts(c)
  <2>1. SpGrows
    BY <1>1, <1>3, SpStays DEF PutCut, spVars
  <2> QED BY <2>1, FailEnds DEF PutCut
<1> QED BY <1>2, <1>3

\* The calls that end without a request that reached the SP.
LEMMA EndsUnheard ==
  ASSUME IInv, NEW c \in Clients,
         \/ HeadGivesUp(c) \/ PutRefused(c) \/ Abort(c)
         \/ \E part \in PartSizes : RejectPartSize(c, part)
  PROVE  IInv'
<1>1. SpGrows
  BY SpStays DEF HeadGivesUp, PutRefused, Abort, RejectPartSize
<1>2. Fail(c, "error") \/ Fail(c, "crash")
  BY DEF HeadGivesUp, PutRefused, Abort, RejectPartSize
<1> QED BY <1>1, <1>2, FailEnds

\* The SP follows the chain, or nothing happens.
LEMMA NoCallInv ==
  ASSUME IInv, SpLearns \/ Seal \/ UNCHANGED vars
  PROVE  IInv'
<1>1. /\ UNCHANGED <<stored, received, callVars, faults>>
      /\ known' \in BOOLEAN /\ status' \in {"CREATED", "SEALED"}
  BY DEF SpLearns, Seal, vars, spVars, IInv, TypeOK
<1>2. SpGrows
  <2>1. Contiguous(stored) \in Nat
    BY SizeAssumption DEF IInv, StoredPrefix
  <2>2. StoredPrefix'
    BY <1>1 DEF IInv, StoredPrefix
  <2> QED BY <1>1, <2>1, <2>2 DEF SpGrows, IInv, TypeOK
<1>3. \A c \in Clients : Progress(c)'
  BY <1>1, <1>2, OtherProgress DEF callVars
<1>4. TypeOK'
  BY <1>1 DEF IInv, TypeOK, callVars
<1>5. SuccessMeansReceived'
  BY <1>1 DEF IInv, SuccessMeansReceived, callVars
<1> QED BY <1>2, <1>3, <1>4, <1>5 DEF IInv, SpGrows

\* In the initial states nothing is stored and no call is made.
LEMMA InitInv == Init => IInv
<1> SUFFICES ASSUME Init PROVE IInv
  OBVIOUS
<1>1. \A c \in Clients : pc[c] = "idle" /\ call[c] = Idle
  BY DEF Init
<1>2. Idle = [part |-> 1, kind |-> [delegated |-> FALSE, single |-> FALSE],
              source |-> [len |-> 0, fails |-> FALSE], tries |-> 0, start |-> 1,
              partNumber |-> 1, pos |-> 0, totalUploadedSize |-> 0,
              length |-> 0, eof |-> FALSE]
  BY DEF Idle, NewCall
<1>3. Idle \in CallState
  BY <1>2, SizeAssumption DEF CallState, Kind, Source, MaxHeadTryTime
<1>4. \A c \in Clients : Progress(c)
  BY <1>1, <1>2 DEF Progress, Lesser
<1>5. TypeOK
  <2>1. call \in [Clients -> CallState]
    BY <1>3 DEF Init
  <2>2. auxOk \in [Clients -> [read : 0..Size, excuses : SUBSET Excuse]]
    BY SizeAssumption DEF Init
  <2>3. pc \in [Clients -> Places] /\ result \in [Clients -> {"none", "ok", "error", "crash"}]
    BY DEF Init, Places
  <2>4. faults \in 0..MaxFaults
    BY FaultsAssumption DEF Init
  <2>5. DOMAIN stored = {} /\ known = FALSE /\ status = "CREATED" /\ received = FALSE
    BY DEF Init
  <2> QED BY <2>1, <2>2, <2>3, <2>4, <2>5 DEF TypeOK, Places
<1>6. StoredPrefix
  <2>1. stored = [o \in 0..0-1 |-> o] /\ 0 \in 0..Size /\ ~received
    BY SizeAssumption DEF Init
  <2>2. Contiguous(stored) = 0
    BY <2>1, PrefixContiguous
  <2> QED BY <2>1, <2>2 DEF StoredPrefix
<1>7. SuccessMeansReceived
  BY DEF Init, SuccessMeansReceived
<1> QED BY <1>4, <1>5, <1>6, <1>7 DEF IInv

\* Every step keeps the invariant.
LEMMA NextInv == IInv /\ [Next]_vars => IInv'
<1> SUFFICES ASSUME IInv, [Next]_vars PROVE IInv'
  OBVIOUS
<1>1. CASE SpLearns \/ Seal \/ UNCHANGED vars
  BY <1>1, NoCallInv
<1>2. ASSUME NEW c \in Clients, MakeCall(c)
      PROVE  IInv'
  BY <1>2, PutObjectInv DEF MakeCall
<1>3. ASSUME NEW c \in Clients, \E part \in PartSizes : RejectPartSize(c, part)
      PROVE  IInv'
  BY <1>3, EndsUnheard
<1>4. ASSUME NEW c \in Clients, CallStep(c)
      PROVE  IInv'
  <2>1. CASE HeadFound(c) \/ HeadErrorIgnored(c)
    BY <2>1, HeadDoneInv DEF HeadFound, HeadErrorIgnored
  <2>2. CASE HeadAgain(c)
    BY <2>2, HeadAgainInv
  <2>3. CASE QueryOffset(c)
    BY <2>3, QueryOffsetInv
  <2>4. CASE SkipPart(c)
    BY <2>4, SkipPartInv
  <2>5. CASE AllPartsSent(c)
    BY <2>5, AllPartsSentInv
  <2>6. CASE ReadPart(c)
    BY <2>6, ReadPartInv
  <2>7. CASE ReadEndsCall(c)
    BY <2>7, ReadEndsCallInv
  <2>8. CASE PostPart(c)
    BY <2>8, PostPartInv
  <2>9. CASE PostAnswerLost(c)
    BY <2>9, PostAnswerLostInv
  <2>10. CASE PostCut(c)
    BY <2>10, PostCutInv
  <2>11. CASE PostRefused(c)
    BY <2>11, PostRefusedInv
  <2>12. CASE PutWhole(c)
    BY <2>12, PutWholeInv
  <2>13. CASE PutCut(c)
    BY <2>13, PutCutInv
  <2>14. CASE HeadGivesUp(c) \/ PutRefused(c) \/ Abort(c)
    BY <2>14, EndsUnheard
  <2> QED
    BY <1>4, <2>1, <2>2, <2>3, <2>4, <2>5, <2>6, <2>7, <2>8, <2>9, <2>10, <2>11,
       <2>12, <2>13, <2>14 DEF CallStep
<1> QED BY <1>1, <1>2, <1>3, <1>4 DEF Next

-----------------------------------------------------------------------------
(* What follows.                                                            *)

\* The invariant of the upload.
THEOREM Invariance == Spec => []IInv
<1>1. Init => IInv
  BY InitInv
<1>2. IInv /\ [Next]_vars => IInv'
  BY NextInv
<1> QED BY <1>1, <1>2, PTL DEF Spec

\* The variables hold values of their types.
THEOREM TypeCorrect == Spec => []TypeOK
<1>1. IInv => TypeOK
  BY DEF IInv
<1> QED BY <1>1, Invariance, PTL

\* The SP gets each byte of the payload at its own offset.
THEOREM InPlace == Spec => []StoredInPlace
<1>1. IInv => StoredInPlace
  <2> SUFFICES ASSUME IInv PROVE StoredInPlace
    OBVIOUS
  <2> DEFINE n == Contiguous(stored)
  <2>1. stored = [o \in 0..n-1 |-> o]
    BY DEF IInv, StoredPrefix
  <2> HIDE DEF n
  <2> QED BY <2>1 DEF StoredInPlace
<1> QED BY <1>1, Invariance, PTL

\* The SP is never sent a part whose predecessors it does not have.
THEOREM WithoutHole == Spec => []StoredWithoutHole
<1>1. IInv => StoredWithoutHole
  BY DEF IInv, StoredPrefix, StoredWithoutHole
<1> QED BY <1>1, Invariance, PTL

(***************************************************************************)
(* A call that returns no error leaves a payload the SP has received, but  *)
(* for a reader that did not deliver it and an upload that found all parts *)
(* stored.                                                                 *)
(***************************************************************************)
THEOREM SuccessCorrect == Spec => []SuccessMeansReceived
<1>1. IInv => SuccessMeansReceived
  BY DEF IInv
<1> QED BY <1>1, Invariance, PTL

-----------------------------------------------------------------------------
(* The upload implements what ObjectUpload promises.                        *)

\* The clients that were told of a success nothing excuses.
Acked == {c \in Clients : result[c] = "ok" /\ auxOk[c].excuses = {}}

\* The end of a call: its client is answered.
LEMMA EndAnswers ==
  ASSUME TypeOK, SuccessMeansReceived', NEW c \in Clients, NEW r, NEW ok,
         result' = [result EXCEPT ![c] = r], auxOk' = [auxOk EXCEPT ![c] = ok]
  PROVE  Promise!Answer(c)
<1>1. /\ result'[c] = r /\ auxOk'[c] = ok
      /\ \A d \in Clients \ {c} : result'[d] = result[d] /\ auxOk'[d] = auxOk[d]
  BY DEF TypeOK
<1>2. CASE r = "ok" /\ ok.excuses = {}
  <2>1. received'
    BY <1>1, <1>2 DEF SuccessMeansReceived
  <2>2. Acked' = Acked \union {c}
    BY <1>1, <1>2 DEF Acked
  <2> QED BY <2>1, <2>2 DEF Promise!Answer, Acked
<1>3. CASE ~(r = "ok" /\ ok.excuses = {})
  <2>1. Acked' = Acked \ {c}
    BY <1>1, <1>3 DEF Acked
  <2> QED BY <2>1 DEF Promise!Answer, Acked
<1> QED BY <1>2, <1>3

\* The end of a call, as an error or a success.
LEMMA CallAnswered ==
  ASSUME TypeOK, SuccessMeansReceived', NEW c \in Clients,
         (\E r : Fail(c, r)) \/ (\E total : Succeed(c, total))
  PROVE  Promise!Answer(c)
<1>1. CASE \E r : Fail(c, r)
  <2>1. PICK r : Fail(c, r)
    BY <1>1
  <2>2. result' = [result EXCEPT ![c] = r] /\ auxOk' = [auxOk EXCEPT ![c] = auxOk[c]]
    BY <2>1 DEF Fail, TypeOK
  <2> QED BY <2>2, EndAnswers
<1>2. CASE \E total : Succeed(c, total)
  <2>1. PICK total : Succeed(c, total)
    BY <1>2
  <2>2. PICK ok : result' = [result EXCEPT ![c] = "ok"]
                  /\ auxOk' = [auxOk EXCEPT ![c] = ok]
    BY <2>1 DEF Succeed
  <2> QED BY <2>2, EndAnswers
<1> QED BY <1>1, <1>2

\* What a step does to the answers.
LEMMA Answers ==
  ASSUME TypeOK, SuccessMeansReceived', [Next]_vars
  PROVE  UNCHANGED <<result, auxOk>> \/ \E c \in Clients : Promise!Answer(c)
<1>1. CASE SpLearns \/ Seal \/ UNCHANGED vars
  BY <1>1 DEF SpLearns, Seal, vars, callVars
<1>2. ASSUME NEW c \in Clients, MakeCall(c) PROVE UNCHANGED <<result, auxOk>>
  BY <1>2 DEF MakeCall, PutObject
<1>3. ASSUME NEW c \in Clients, \E part \in PartSizes : RejectPartSize(c, part)
      PROVE  Promise!Answer(c)
  BY <1>3, CallAnswered DEF RejectPartSize
<1>4. ASSUME NEW c \in Clients, CallStep(c)
      PROVE  UNCHANGED <<result, auxOk>> \/ Promise!Answer(c)
  <2>1. CASE \/ HeadFound(c) \/ HeadErrorIgnored(c) \/ HeadAgain(c)
             \/ QueryOffset(c) \/ SkipPart(c) \/ ReadPart(c)
    BY <2>1 DEF HeadFound, HeadErrorIgnored, HeadDone, HeadAgain, QueryOffset,
                SkipPart, ReadPart
  <2>2. CASE AllPartsSent(c) \/ ReadEndsCall(c)
    BY <2>2, CallAnswered DEF AllPartsSent, ReadEndsCall
  <2>3. CASE PostPart(c)
    BY <2>3, CallAnswered DEF PostPart
  <2>4. CASE PutWhole(c)
    BY <2>4, CallAnswered DEF PutWhole
  <2>5. CASE \/ HeadGivesUp(c) \/ PostAnswerLost(c) \/ PostCut(c) \/ PostRefused(c)
             \/ PutCut(c) \/ PutRefused(c) \/ Abort(c)
    <3>1. Fail(c, "error") \/ Fail(c, "crash")
      BY <2>5 DEF HeadGivesUp, PostAnswerLost, PostCut, PostRefused, PutCut,
                  PutRefused, Abort
    <3> QED BY <3>1, CallAnswered
  <2> QED BY <1>4, <2>1, <2>2, <2>3, <2>4, <2>5 DEF CallStep
<1> QED BY <1>1, <1>2, <1>3, <1>4 DEF Next

\* What a step does to the SP.
LEMMA Stores ==
  ASSUME [Next]_vars
  PROVE  \/ UNCHANGED <<stored, received>>
         \/ ~received /\ DOMAIN stored \subseteq DOMAIN stored'
<1>1. CASE SpLearns \/ Seal \/ UNCHANGED vars
  BY <1>1 DEF SpLearns, Seal, vars, spVars
<1>2. ASSUME NEW c \in Clients,
             MakeCall(c) \/ \E part \in PartSizes : RejectPartSize(c, part)
      PROVE  UNCHANGED <<stored, received>>
  BY <1>2 DEF MakeCall, PutObject, RejectPartSize, spVars
<1>3. ASSUME NEW c \in Clients, CallStep(c)
      PROVE  \/ UNCHANGED <<stored, received>>
             \/ ~received /\ DOMAIN stored \subseteq DOMAIN stored'
  <2>1. CASE \/ HeadFound(c) \/ HeadErrorIgnored(c) \/ HeadAgain(c) \/ HeadGivesUp(c)
             \/ QueryOffset(c) \/ SkipPart(c) \/ ReadPart(c)
             \/ AllPartsSent(c) \/ ReadEndsCall(c) \/ PutRefused(c) \/ Abort(c)
    BY <2>1 DEF HeadFound, HeadErrorIgnored, HeadDone, HeadAgain, HeadGivesUp,
                QueryOffset, SkipPart, ReadPart, AllPartsSent, ReadEndsCall,
                PutRefused, Abort, spVars
  <2>2. CASE PostPart(c) \/ PostAnswerLost(c) \/ PostCut(c) \/ PostRefused(c)
    <3>1. \/ UNCHANGED <<stored, received>>
          \/ ~received /\ \E n : Arrive(c, n)
      BY <2>2 DEF PostPart, PostAnswerLost, PostCut, PostRefused, StorePart, Accepts
    <3> QED BY <3>1 DEF Arrive, Write
  <2>3. CASE PutWhole(c)
    BY <2>3 DEF PutWhole, Accepts, Write
  <2>4. CASE PutCut(c)
    <3>1. \/ UNCHANGED <<stored, received>>
          \/ ~received /\ \E n : stored' = Write(stored, 0, 0, n)
      BY <2>4 DEF PutCut, Accepts
    <3> QED BY <3>1 DEF Write
  <2> QED BY <1>3, <2>1, <2>2, <2>3, <2>4 DEF CallStep
<1> QED BY <1>1, <1>2, <1>3 DEF Next

\* Every step is one of the promise, or none.
LEMMA StepImplements ==
  IInv /\ IInv' /\ [Next]_vars => [Promise!Next]_(Promise!vars)
<1> SUFFICES ASSUME IInv, IInv', [Next]_vars PROVE [Promise!Next]_(Promise!vars)
  OBVIOUS
<1>1. UNCHANGED <<result, auxOk>> \/ \E c \in Clients : Promise!Answer(c)
  BY Answers DEF IInv
<1>2. UNCHANGED <<result, auxOk>> => Acked' = Acked
  BY DEF Acked
<1>3. CASE UNCHANGED <<stored, received>>
  <2>1. CASE UNCHANGED <<result, auxOk>>
    BY <1>2, <1>3, <2>1 DEF Promise!vars, Acked
  <2>2. CASE \E c \in Clients : Promise!Answer(c)
    BY <1>3, <2>2 DEF Promise!Next, Promise!Tell
  <2> QED BY <1>1, <2>1, <2>2
<1>4. CASE ~received /\ DOMAIN stored \subseteq DOMAIN stored'
  <2> DEFINE n == Contiguous(stored')
  <2>1. n \in 0..Size /\ stored' = [o \in 0..n-1 |-> o] /\ (received' => n = Size)
    BY DEF IInv, StoredPrefix
  <2>2. received' \in BOOLEAN
    BY DEF IInv, TypeOK
  <2> HIDE DEF n
  <2>3. DOMAIN stored \subseteq 0..n-1 /\ stored' = Promise!Prefix(n)
    BY <1>4, <2>1 DEF Promise!Prefix
  <2>4. Acked' = Acked \/ \E c \in Clients : Promise!Answer(c)
    BY <1>1, <1>2
  <2>5. Promise!Store
    BY <1>4, <2>1, <2>2, <2>3, <2>4 DEF Promise!Store, Acked
  <2> QED BY <2>5 DEF Promise!Next
<1> QED BY <1>3, <1>4, Stores

(***************************************************************************)
(* Every upload, in parts or whole, resumed or concurrent, does what       *)
(* ObjectUpload says: the payload grows from its beginning, is taken only  *)
(* when it is whole, and is reported only when it was taken.               *)
(***************************************************************************)
THEOREM UploadImplementsPromise == Spec => ImplementsPromise
<1>1. Init => Promise!Init
  BY DEF Init, Promise!Init, Promise!Prefix
<1>2. IInv /\ IInv' /\ [Next]_vars => [Promise!Next]_(Promise!vars)
  BY StepImplements
<1> QED
  BY <1>1, <1>2, Invariance, PTL DEF Spec, ImplementsPromise, Promise!Spec

=============================================================================

--------------------------- MODULE SpRouting_proofs ---------------------------
(***************************************************************************)
(* Theorems about SpRouting, for any callers, SPs, endpoints and changes on *)
(* chain.                                                                  *)
(***************************************************************************)
EXTENDS SpRouting, WellFoundedInduction, TLAPS

\* The parts of the invariant that are about one call.
OfCall(c) ==
  /\ \A id \in SPs : id \in Todo(c) => call[c].todo[id] \in auxEver[id]
  /\ client = "none" => pc[c] = "idle"
  /\ call[c].kind \in {"new", "direct"} => call[c].want = Absent
  /\ pc[c] \in {"bucket", "family", "again"} => ByBucket(c)
  /\ pc[c] = "family" => call[c].want \in Families
  /\ pc[c] \in {"list", "fill"} => ByBucket(c) \/ call[c].kind = "new"
  /\ ByBucket(c) /\ pc[c] \in {"lookup", "list", "fill", "again"} =>
       call[c].want \in SPs
  /\ pc[c] = "idle" /\ out[c].status = "ok" /\ call[c].want # Absent =>
       \E id \in SPs :
         /\ out[c].endpoint \in auxEver[id]
         /\ call[c].want = IF call[c].kind = "address" THEN Operator[id] ELSE id
         /\ ByBucket(c) => id \in auxHomes[c]
  /\ pc[c] \in {"bucket", "family"} => primary[family] \in auxHomes[c]
  /\ pc[c] = "family" => primary[call[c].want] \in auxHomes[c]
  /\ ByBucket(c) /\ pc[c] \in {"lookup", "list", "fill", "again"} =>
       call[c].want \in auxHomes[c]
  /\ pc[c] # "idle" /\ ByBucket(c) => Offline \subseteq auxGone[c]
  /\ ByBucket(c) /\ pc[c] \in {"fill", "again"} =>
       \/ call[c].want \in auxGone[c]
       \/ cache[call[c].want] # Absent
       \/ pc[c] = "fill" /\ call[c].want \in Todo(c)
  /\ pc[c] = "idle" /\ ByBucket(c) /\ out[c].status = "notOnChain" =>
       call[c].want \in auxGone[c]

\* Those that are about the map, and the refreshes that fill it.
MapInv ==
  /\ \A id \in SPs : OnChain(id) => chain[id] \in auxEver[id]
  /\ \A id \in SPs : cache[id] # Absent => cache[id] \in auxEver[id]
  /\ OnlyRefreshesAge /\ RefreshProgress /\ MapIsCurrent

\* The invariant is about types, the map and each call.
LEMMA IInvOfCalls ==
  IInv <=> TypeOK /\ MapInv /\ \A c \in Callers : OfCall(c)
  BY DEF IInv, MapInv, OfCall, KnownWasOnChain, CallProgress, RoutedToWanted,
         HomesAreNoted, GoneIsNoted, WantedIsListed, BucketMissIsTrue

\* The same, of the next state.
LEMMA NextOfCalls ==
  ASSUME TypeOK', MapInv', \A c \in Callers : OfCall(c)'
  PROVE  IInv'
  BY DEF IInv, MapInv, OfCall, KnownWasOnChain, CallProgress, RoutedToWanted,
         HomesAreNoted, GoneIsNoted, WantedIsListed, BucketMissIsTrue

-----------------------------------------------------------------------------
(* What a refresh lists.                                                    *)

\* A listing is a function of some of the SPs to their endpoints.
LEMMA TodosType ==
  \A todo : todo \in Todos <=>
    /\ DOMAIN todo \subseteq SPs
    /\ todo \in [DOMAIN todo -> Endpoints \union {Malformed}]
<1>1. ASSUME NEW todo \in Todos
      PROVE  /\ DOMAIN todo \subseteq SPs
             /\ todo \in [DOMAIN todo -> Endpoints \union {Malformed}]
  <2>1. PICK ids \in SUBSET SPs : todo \in [ids -> Endpoints \union {Malformed}]
    BY DEF Todos
  <2>2. QED
    BY <2>1
<1>2. ASSUME NEW todo, DOMAIN todo \subseteq SPs,
             todo \in [DOMAIN todo -> Endpoints \union {Malformed}]
      PROVE  todo \in Todos
  <2>1. DOMAIN todo \in SUBSET SPs
    BY <1>2
  <2>2. QED
    BY <2>1, <1>2 DEF Todos
<1>3. QED
  BY <1>1, <1>2

\* Nothing is a listing.
LEMMA NothingType == Nothing \in Todos /\ DOMAIN Nothing = {}
<1>1. DOMAIN Nothing = {} /\ Nothing \in [{} -> Endpoints \union {Malformed}]
  BY DEF Nothing
<1>2. QED
  BY <1>1, TodosType

\* The SPs of a listing have a first one.
LEMMA FirstOf ==
  ASSUME NEW ids \in SUBSET SPs, ids # {}
  PROVE  Min(ids) \in ids
<1>1. ids \subseteq Nat
  BY SPsAssumption
<1>2. PICK id \in ids : \A other \in ids : <<other, id>> \notin OpToRel(<, Nat)
  BY <1>1, NatLessThanWellFounded, WFMin
<1>3. \A other \in ids : ~(other < id)
  BY <1>1, <1>2 DEF OpToRel
<1>4. \E x \in ids : \A y \in ids : x =< y
  BY <1>1, <1>3
<1>5. QED
  BY <1>4 DEF Min

\* What is left of a listing when its first SP is in the map.
LEMMA RestOf ==
  ASSUME NEW todo \in Todos, DOMAIN todo # {}
  PROVE  /\ WithoutFirst(todo) \in Todos
         /\ DOMAIN WithoutFirst(todo) = DOMAIN todo \ {Min(DOMAIN todo)}
         /\ \A id \in DOMAIN WithoutFirst(todo) : WithoutFirst(todo)[id] = todo[id]
<1>1. /\ DOMAIN todo \subseteq SPs
      /\ todo \in [DOMAIN todo -> Endpoints \union {Malformed}]
  BY TodosType
<1> DEFINE ids == DOMAIN todo \ {Min(DOMAIN todo)}
<1>2. /\ DOMAIN WithoutFirst(todo) = ids
      /\ \A id \in ids : WithoutFirst(todo)[id] = todo[id]
      /\ WithoutFirst(todo) \in [ids -> Endpoints \union {Malformed}]
  BY <1>1 DEF WithoutFirst
<1>3. QED
  BY <1>1, <1>2, TodosType

-----------------------------------------------------------------------------
(* What a step of one call leaves alone.                                    *)

\* The types of one call's record.
LEMMA CallType ==
  ASSUME TypeOK, NEW c \in Callers
  PROVE  /\ call[c] \in CallState
         /\ call[c].todo \in Todos /\ Todo(c) \subseteq SPs
         /\ \A id \in Todo(c) : call[c].todo[id] \in Endpoints \union {Malformed}
<1>1. call[c] \in CallState /\ call[c].todo \in Todos
  BY DEF TypeOK, CallState
<1>2. QED
  BY <1>1, TodosType DEF Todo

\* Another call keeps its parts while the map keeps the entries it has.
LEMMA OthersStay ==
  ASSUME IInv, NEW d \in Callers,
         pc'[d] = pc[d], call'[d] = call[d], out'[d] = out[d],
         auxHomes'[d] = auxHomes[d], auxGone'[d] = auxGone[d],
         UNCHANGED <<chain, family, primary, auxEver>>,
         client' = "none" => client = "none",
         \A id \in SPs : cache[id] # Absent => cache'[id] # Absent
  PROVE  OfCall(d)'
<1>1. OfCall(d)
  BY IInvOfCalls
<1>2. Offline' = Offline /\ Todo(d)' = Todo(d) /\ (ByBucket(d)' <=> ByBucket(d))
  BY DEF Offline, OnChain, Todo, ByBucket
<1>3. ByBucket(d) /\ pc[d] \in {"fill", "again"} => call[d].want \in SPs
  BY <1>1 DEF OfCall
<1>4. QED
  BY <1>1, <1>2, <1>3 DEF OfCall

\* A step of a call that is not filling the map, and does not begin to.
LEMMA CallOnly ==
  ASSUME IInv, NEW c \in Callers, TypeOK', OfCall(c)',
         UNCHANGED <<chain, family, primary, cache, auxEver, auxSince, auxStale>>,
         client' = "none" => client = "none", pc[c] # "fill", pc'[c] # "fill",
         \A d \in Callers \ {c} :
           /\ pc'[d] = pc[d] /\ call'[d] = call[d] /\ out'[d] = out[d]
           /\ auxHomes'[d] = auxHomes[d] /\ auxGone'[d] = auxGone[d]
  PROVE  IInv'
<1>1. ASSUME NEW d \in Callers \ {c} PROVE OfCall(d)'
  BY OthersStay
<1>2. MapInv
  BY IInvOfCalls
<1>3. Dirty' = Dirty
  BY DEF Dirty
<1>4. OnlyRefreshesAge'
  BY <1>2 DEF MapInv, OnlyRefreshesAge
<1>5. RefreshProgress'
  BY <1>2, <1>3 DEF MapInv, RefreshProgress, Todo, OnChain
<1>6. MapIsCurrent'
  BY <1>2, <1>3 DEF MapInv, MapIsCurrent, OnChain
<1>7. MapInv'
  BY <1>2, <1>4, <1>5, <1>6 DEF MapInv, OnChain
<1>8. QED
  BY <1>1, <1>7, NextOfCalls

\* A call that begins.
LEMMA BeginType ==
  ASSUME TypeOK, NEW c \in Callers, NEW kind \in Kinds,
         NEW want \in SPs \union {Operator[id] : id \in SPs} \union Families \union {Absent},
         Begin(c, kind, want)
  PROVE  /\ call' \in [Callers -> CallState]
         /\ call'[c].kind = kind /\ call'[c].want = want /\ Todo(c)' = {}
         /\ auxHomes' \in [Callers -> SUBSET SPs]
         /\ auxHomes'[c] = IF kind = "bucket" THEN {primary[family]} ELSE {}
         /\ auxGone' \in [Callers -> SUBSET SPs]
         /\ auxGone'[c] = IF kind = "bucket" THEN Offline ELSE {}
         /\ \A d \in Callers \ {c} :
              /\ call'[d] = call[d]
              /\ auxHomes'[d] = auxHomes[d] /\ auxGone'[d] = auxGone[d]
<1> DEFINE new == [kind |-> kind, want |-> want, todo |-> Nothing]
<1>2. new \in CallState /\ new.kind = kind /\ new.want = want /\ DOMAIN new.todo = {}
  BY NothingType DEF CallState
<1>3. call' = [call EXCEPT ![c] = new]
  BY DEF Begin
<1> HIDE DEF new
<1>4. call' \in [Callers -> CallState] /\ call'[c] = new
  BY <1>2, <1>3 DEF TypeOK
<1>5. Todo(c)' = {}
  BY <1>2, <1>4 DEF Todo
<1> DEFINE homes == IF kind = "bucket" THEN {primary[family]} ELSE {}
           gone == IF kind = "bucket" THEN Offline ELSE {}
<1>6. homes \in SUBSET SPs /\ gone \in SUBSET SPs
  BY DEF Offline, TypeOK
<1>7. auxHomes' = [auxHomes EXCEPT ![c] = homes] /\ auxGone' = [auxGone EXCEPT ![c] = gone]
  BY DEF Begin
<1> HIDE DEF homes, gone
<1>8. /\ auxHomes' \in [Callers -> SUBSET SPs] /\ auxHomes'[c] = homes
      /\ auxGone' \in [Callers -> SUBSET SPs] /\ auxGone'[c] = gone
  BY <1>6, <1>7 DEF TypeOK
<1>9. \A d \in Callers \ {c} :
        /\ call'[d] = call[d]
        /\ auxHomes'[d] = auxHomes[d] /\ auxGone'[d] = auxGone[d]
  BY <1>3, <1>7 DEF TypeOK
<1>10. QED
  BY <1>2, <1>4, <1>5, <1>8, <1>9 DEF homes, gone

\* A call that returns, or enters, or goes on.
LEMMA ReturnType ==
  ASSUME TypeOK, NEW c \in Callers,
         NEW status \in {"none", "ok", "notOnChain", "error"},
         NEW endpoint \in Endpoints \union {Absent}, Return(c, status, endpoint)
  PROVE  /\ pc' \in [Callers -> {"idle", "bucket", "family", "lookup", "list", "fill", "again"}]
         /\ out' \in [Callers -> [status : {"none", "ok", "notOnChain", "error"},
                                  endpoint : Endpoints \union {Absent}]]
         /\ pc'[c] = "idle" /\ out'[c].status = status /\ out'[c].endpoint = endpoint
         /\ \A d \in Callers \ {c} : pc'[d] = pc[d] /\ out'[d] = out[d]
  BY DEF TypeOK, Return

LEMMA EnterType ==
  ASSUME TypeOK, NEW c \in Callers,
         NEW where \in {"bucket", "lookup", "list"}, Enter(c, where)
  PROVE  /\ pc' \in [Callers -> {"idle", "bucket", "family", "lookup", "list", "fill", "again"}]
         /\ out' \in [Callers -> [status : {"none", "ok", "notOnChain", "error"},
                                  endpoint : Endpoints \union {Absent}]]
         /\ pc'[c] = where
         /\ \A d \in Callers \ {c} : pc'[d] = pc[d] /\ out'[d] = out[d]
  BY DEF TypeOK, Enter, NoResult

LEMMA GotoType ==
  ASSUME TypeOK, NEW c \in Callers,
         NEW where \in {"family", "lookup", "list", "fill", "again"}, Goto(c, where)
  PROVE  /\ pc' \in [Callers -> {"idle", "bucket", "family", "lookup", "list", "fill", "again"}]
         /\ pc'[c] = where /\ out' = out
         /\ \A d \in Callers \ {c} : pc'[d] = pc[d]
  BY DEF TypeOK, Goto

-----------------------------------------------------------------------------
(* The calls.                                                               *)

\* New: the SPs are listed, unless downloads are forced to one endpoint.
LEMMA NewKeeps ==
  ASSUME IInv, NEW c \in Callers, New(c) PROVE IInv'
<1> USE DEF New
<1>1. TypeOK
  BY DEF IInv
<1>2. UNCHANGED <<chain, family, primary, changes, forced, cache, auxEver, auxSince, auxStale>>
  BY DEF chainVars
<1>3. CASE forced # Absent
  <2>1. /\ client' = IF forced = Malformed THEN "failed" ELSE "ready"
        /\ UNCHANGED <<pc, out, call, auxHomes, auxGone>>
    BY <1>3
  <2>2. TypeOK'
    BY <1>1, <1>2, <2>1 DEF TypeOK
  <2>3. \A d \in Callers : OfCall(d)'
    BY <1>2, <2>1, OthersStay
  <2>4. MapInv
    BY IInvOfCalls
  <2>5. MapInv'
    BY <1>2, <2>1, <2>4 DEF MapInv, OnlyRefreshesAge, RefreshProgress, MapIsCurrent,
                            Todo, OnChain, Dirty
  <2>6. QED
    BY <2>2, <2>3, <2>5, NextOfCalls
<1>4. CASE forced = Absent
  <2>1. client' = "new" /\ Begin(c, "new", Absent) /\ Enter(c, "list")
    BY <1>4
  <2>2. "new" \in Kinds
    BY DEF Kinds
  <2>3. TypeOK'
    BY <1>1, <1>2, <2>1, <2>2, BeginType, EnterType DEF TypeOK
  <2>4. /\ call'[c].kind = "new" /\ call'[c].want = Absent /\ Todo(c)' = {}
        /\ pc'[c] = "list"
        /\ \A d \in Callers \ {c} :
             /\ pc'[d] = pc[d] /\ call'[d] = call[d] /\ out'[d] = out[d]
             /\ auxHomes'[d] = auxHomes[d] /\ auxGone'[d] = auxGone[d]
    BY <1>1, <2>1, <2>2, BeginType, EnterType
  <2>6. OfCall(c)'
    BY <2>1, <2>4 DEF OfCall, ByBucket
  <2>7. pc[c] # "fill"
    BY IInvOfCalls DEF OfCall
  <2>8. QED
    BY <1>2, <2>3, <2>4, <2>6, <2>7, CallOnly
<1>5. QED
  BY <1>3, <1>4

\* A call that is routed begins where it is to look for its SP, or its endpoint.
LEMMA BeginKeeps ==
  ASSUME IInv, NEW c \in Callers, Idling(c),
         NEW kind \in Kinds \ {"new"},
         NEW want \in SPs \union {Operator[id] : id \in SPs} \union Families \union {Absent},
         kind \in {"bucket", "direct"} => want = Absent,
         Begin(c, kind, want),
         NEW where \in {"bucket", "lookup"},
         where = "bucket" <=> kind = "bucket",
         Enter(c, where),
         UNCHANGED <<chainVars, clientVars, auxEver, auxSince, auxStale>>
  PROVE  IInv'
<1>1. TypeOK /\ pc[c] = "idle" /\ client = "ready"
  BY DEF IInv, Idling
<1>2. UNCHANGED <<chain, family, primary, changes, forced, client, cache, auxEver, auxSince, auxStale>>
  BY DEF chainVars, clientVars
<1>3. TypeOK'
  BY <1>1, <1>2, BeginType, EnterType DEF TypeOK
<1>4. /\ call'[c].kind = kind /\ call'[c].want = want /\ Todo(c)' = {}
      /\ kind = "bucket" => auxHomes'[c] = {primary[family]} /\ auxGone'[c] = Offline
      /\ pc'[c] = where
      /\ \A d \in Callers \ {c} :
           /\ pc'[d] = pc[d] /\ call'[d] = call[d] /\ out'[d] = out[d]
           /\ auxHomes'[d] = auxHomes[d] /\ auxGone'[d] = auxGone[d]
  BY <1>1, BeginType, EnterType
<1>5. Offline' = Offline
  BY <1>2 DEF Offline, OnChain
<1>6. OfCall(c)'
  BY <1>1, <1>2, <1>4, <1>5 DEF OfCall, ByBucket
<1>7. QED
  BY <1>1, <1>2, <1>3, <1>4, <1>6, CallOnly

\* A call that is answered at once: by the forced endpoint, or the first in service.
LEMMA AnswerKeeps ==
  ASSUME IInv, NEW c \in Callers, Idling(c), Begin(c, "direct", Absent),
         NEW status \in {"ok", "error"},
         NEW endpoint \in Endpoints \union {Absent}, Return(c, status, endpoint),
         UNCHANGED <<chainVars, clientVars, auxEver, auxSince, auxStale>>
  PROVE  IInv'
<1>1. TypeOK /\ pc[c] = "idle" /\ "direct" \in Kinds
  BY DEF IInv, Idling, Kinds
<1>2. UNCHANGED <<chain, family, primary, changes, forced, client, cache, auxEver, auxSince, auxStale>>
  BY DEF chainVars, clientVars
<1>3. TypeOK'
  BY <1>1, <1>2, BeginType, ReturnType DEF TypeOK
<1>4. /\ call'[c].kind = "direct" /\ call'[c].want = Absent /\ Todo(c)' = {}
      /\ pc'[c] = "idle" /\ out'[c].status = status
      /\ \A d \in Callers \ {c} :
           /\ pc'[d] = pc[d] /\ call'[d] = call[d] /\ out'[d] = out[d]
           /\ auxHomes'[d] = auxHomes[d] /\ auxGone'[d] = auxGone[d]
  BY <1>1, BeginType, ReturnType
<1>5. OfCall(c)'
  BY <1>4 DEF OfCall, ByBucket
<1>6. QED
  BY <1>1, <1>2, <1>3, <1>4, <1>5, CallOnly

\* GetObject, and the other calls routed by the bucket.
LEMMA DownloadKeeps ==
  ASSUME IInv, ForcedIsURL, NEW c \in Callers, Download(c) PROVE IInv'
<1> USE DEF Download
<1>1. "bucket" \in Kinds \ {"new"}
  BY DEF Kinds
<1>2. CASE forced # Absent
  <2>1. forced \in Endpoints \union {Absent}
    BY ForcedAssumption DEF IInv, TypeOK, ForcedIsURL, Idling
  <2>2. Begin(c, "direct", Absent) /\ Return(c, "ok", forced)
    BY <1>2
  <2>3. QED
    BY <2>1, <2>2, AnswerKeeps
<1>3. CASE forced = Absent
  <2>1. Begin(c, "bucket", Absent) /\ Enter(c, "bucket")
    BY <1>3
  <2>2. QED
    BY <1>1, <2>1, BeginKeeps
<1>4. QED
  BY <1>2, <1>3

LEMMA UploadKeeps ==
  ASSUME IInv, NEW c \in Callers, Upload(c) PROVE IInv'
<1>1. "bucket" \in Kinds \ {"new"}
  BY DEF Kinds
<1>2. QED
  BY <1>1, BeginKeeps DEF Upload

\* getSPUrlByID and getSPUrlByAddr.
LEMMA RouteByKeeps ==
  ASSUME IInv, NEW c \in Callers, NEW id \in SPs,
         RouteByID(c, id) \/ RouteByAddr(c, Operator[id])
  PROVE  IInv'
<1>1. "id" \in Kinds \ {"new"} /\ "address" \in Kinds \ {"new"}
  BY DEF Kinds
<1>2. CASE RouteByID(c, id)
  BY <1>1, <1>2, BeginKeeps DEF RouteByID
<1>3. CASE RouteByAddr(c, Operator[id])
  BY <1>1, <1>3, BeginKeeps DEF RouteByAddr
<1>4. QED
  BY <1>2, <1>3

\* getInServiceSP.
LEMMA RouteToAnyKeeps ==
  ASSUME IInv, NEW c \in Callers, RouteToAny(c) PROVE IInv'
<1> USE DEF RouteToAny
<1>1. CASE Return(c, "error", Absent)
  BY <1>1, AnswerKeeps
<1>2. CASE \E id \in SPs \ Offline :
             chain[id] # Malformed /\ Return(c, "ok", chain[id])
  <2>1. PICK id \in SPs : chain[id] # Malformed /\ Return(c, "ok", chain[id])
    BY <1>2
  <2>2. chain[id] \in Endpoints \union {Absent}
    BY <2>1, RegisteredAssumption DEF IInv, TypeOK
  <2>3. QED
    BY <2>1, <2>2, AnswerKeeps
<1>3. QED
  BY <1>1, <1>2

\* pickStorageProviderByBucket reads what it wants: a family, then an SP.
LEMMA WantType ==
  ASSUME TypeOK, NEW c \in Callers, NEW want \in Families \union SPs
  PROVE  call' = [call EXCEPT ![c].want = want] =>
         /\ call' \in [Callers -> CallState]
         /\ call'[c].kind = call[c].kind /\ call'[c].want = want /\ Todo(c)' = Todo(c)
         /\ call'[c].todo = call[c].todo
         /\ \A d \in Callers \ {c} : call'[d] = call[d]
<1> DEFINE new == [call[c] EXCEPT !.want = want]
<1>1. /\ new \in CallState /\ new.kind = call[c].kind /\ new.want = want
      /\ new.todo = call[c].todo
  BY CallType DEF CallState
<1>2. [call EXCEPT ![c].want = want] = [call EXCEPT ![c] = new]
  OBVIOUS
<1> HIDE DEF new
<1>3. ASSUME call' = [call EXCEPT ![c] = new]
      PROVE  /\ call' \in [Callers -> CallState] /\ call'[c] = new
             /\ \A d \in Callers \ {c} : call'[d] = call[d]
  BY <1>1, <1>3 DEF TypeOK
<1>4. QED
  BY <1>1, <1>2, <1>3 DEF Todo

\* HeadBucket finds the bucket's family.
LEMMA ReadFamilyKeeps ==
  ASSUME IInv, NEW c \in Callers, ReadFamily(c) PROVE IInv'
<1>1. TypeOK /\ OfCall(c) /\ pc[c] = "bucket" /\ Goto(c, "family")
  BY IInvOfCalls DEF ReadFamily
<1>2. UNCHANGED <<chain, family, primary, changes, forced, client, cache,
                  auxEver, auxHomes, auxGone, auxSince, auxStale>>
  BY DEF ReadFamily, chainVars, clientVars, auxVars
<1>3. family \in Families /\ call' = [call EXCEPT ![c].want = family]
  BY <1>1 DEF ReadFamily, TypeOK
<1>4. TypeOK'
  BY <1>1, <1>2, <1>3, WantType, GotoType DEF TypeOK
<1>5. pc'[c] = "family" /\ out' = out /\ \A d \in Callers \ {c} : pc'[d] = pc[d]
  BY <1>1, GotoType
<1>6. /\ call'[c].kind = call[c].kind /\ call'[c].want = family /\ Todo(c)' = Todo(c)
      /\ call'[c].todo = call[c].todo /\ \A d \in Callers \ {c} : call'[d] = call[d]
  BY <1>1, <1>3, WantType
<1>7. Offline' = Offline /\ (ByBucket(c)' <=> ByBucket(c)) /\ ByBucket(c)
  BY <1>1, <1>2, <1>6 DEF Offline, OnChain, ByBucket, OfCall
<1>8. OfCall(c)'
  BY <1>1, <1>2, <1>3, <1>5, <1>6, <1>7 DEF OfCall, ByBucket
<1>9. QED
  BY <1>1, <1>2, <1>4, <1>5, <1>6, <1>8, CallOnly

\* The family's primary SP is wanted, whether or not the bucket is still in it.
LEMMA ReadPrimaryKeeps ==
  ASSUME IInv, NEW c \in Callers, ReadPrimary(c) PROVE IInv'
<1>1. TypeOK /\ OfCall(c) /\ pc[c] = "family" /\ Goto(c, "lookup")
  BY IInvOfCalls DEF ReadPrimary
<1>2. UNCHANGED <<chain, family, primary, changes, forced, client, cache,
                  auxEver, auxHomes, auxGone, auxSince, auxStale>>
  BY DEF ReadPrimary, chainVars, clientVars, auxVars
<1> DEFINE sp == primary[call[c].want]
<1>3. sp \in SPs /\ sp \in auxHomes[c]
  BY <1>1 DEF TypeOK, OfCall
<1>4. call' = [call EXCEPT ![c].want = sp]
  BY DEF ReadPrimary
<1> HIDE DEF sp
<1>5. TypeOK'
  BY <1>1, <1>2, <1>3, <1>4, WantType, GotoType DEF TypeOK
<1>6. pc'[c] = "lookup" /\ out' = out /\ \A d \in Callers \ {c} : pc'[d] = pc[d]
  BY <1>1, GotoType
<1>7. /\ call'[c].kind = call[c].kind /\ call'[c].want = sp /\ Todo(c)' = Todo(c)
      /\ call'[c].todo = call[c].todo /\ \A d \in Callers \ {c} : call'[d] = call[d]
  BY <1>1, <1>3, <1>4, WantType
<1>8. Offline' = Offline /\ (ByBucket(c)' <=> ByBucket(c)) /\ ByBucket(c)
  BY <1>1, <1>2, <1>7 DEF Offline, OnChain, ByBucket, OfCall
<1>9. OfCall(c)'
  BY <1>1, <1>2, <1>3, <1>6, <1>7, <1>8 DEF OfCall, ByBucket
<1>10. QED
  BY <1>1, <1>2, <1>5, <1>6, <1>7, <1>9, CallOnly

\* The hit of a lookup is an entry of the SP that is wanted.
LEMMA LookupHitKeeps ==
  ASSUME IInv, NEW c \in Callers, LookupHit(c) PROVE IInv'
<1>1. TypeOK /\ OfCall(c) /\ MapInv /\ pc[c] \in {"lookup", "again"}
  BY IInvOfCalls DEF LookupHit
<1>2. UNCHANGED <<chain, family, primary, changes, forced, client, cache, call,
                  auxEver, auxHomes, auxGone, auxSince, auxStale>>
  BY DEF LookupHit, chainVars, clientVars, auxVars
<1>3. PICK id \in Hits(c) : Return(c, "ok", cache[id])
  BY DEF LookupHit
<1>4. /\ id \in SPs /\ cache[id] # Absent
      /\ call[c].want = IF call[c].kind = "address" THEN Operator[id] ELSE id
      /\ ByBucket(c) => id \in auxHomes[c]
  BY <1>1, <1>3 DEF Hits, OfCall, ByBucket
<1>5. cache[id] \in Endpoints \union {Absent} /\ cache[id] \in auxEver[id]
  BY <1>1, <1>4 DEF TypeOK, MapInv
<1>6. /\ pc'[c] = "idle" /\ out'[c].status = "ok" /\ out'[c].endpoint = cache[id]
      /\ \A d \in Callers \ {c} : pc'[d] = pc[d] /\ out'[d] = out[d]
  BY <1>1, <1>3, <1>5, ReturnType
<1>7. TypeOK'
  BY <1>1, <1>2, <1>3, <1>5, ReturnType DEF TypeOK
<1>8. OfCall(c)'
  BY <1>1, <1>2, <1>4, <1>5, <1>6 DEF OfCall, ByBucket, Todo
<1>9. QED
  BY <1>1, <1>2, <1>6, <1>7, <1>8, CallOnly

\* A call routed by its bucket refreshes the map, any other one has missed.
LEMMA LookupMissKeeps ==
  ASSUME IInv, NEW c \in Callers, LookupMiss(c) PROVE IInv'
<1>1. TypeOK /\ OfCall(c) /\ pc[c] = "lookup"
  BY IInvOfCalls DEF LookupMiss
<1>2. UNCHANGED <<chain, family, primary, changes, forced, client, cache, call,
                  auxEver, auxHomes, auxGone, auxSince, auxStale>>
  BY DEF LookupMiss, chainVars, clientVars, auxVars
<1>3. Offline' = Offline /\ Todo(c)' = Todo(c) /\ (ByBucket(c)' <=> ByBucket(c))
  BY <1>2 DEF Offline, OnChain, Todo, ByBucket
<1>4. CASE ByBucket(c)
  <2>1. Goto(c, "list")
    BY <1>4 DEF LookupMiss
  <2>2. TypeOK'
    BY <1>1, <1>2, <2>1, GotoType DEF TypeOK
  <2>3. pc'[c] = "list" /\ out' = out /\ \A d \in Callers \ {c} : pc'[d] = pc[d]
    BY <1>1, <2>1, GotoType
  <2>4. OfCall(c)'
    BY <1>1, <1>2, <1>3, <1>4, <2>3 DEF OfCall
  <2>5. QED
    BY <1>1, <1>2, <2>2, <2>3, <2>4, CallOnly
<1>5. CASE ~ByBucket(c)
  <2>1. Return(c, "notOnChain", Absent)
    BY <1>5 DEF LookupMiss
  <2>2. TypeOK'
    BY <1>1, <1>2, <2>1, ReturnType DEF TypeOK
  <2>3. /\ pc'[c] = "idle" /\ out'[c].status = "notOnChain"
        /\ \A d \in Callers \ {c} : pc'[d] = pc[d] /\ out'[d] = out[d]
    BY <1>1, <2>1, ReturnType
  <2>4. OfCall(c)'
    BY <1>1, <1>2, <1>3, <1>5, <2>3 DEF OfCall
  <2>5. QED
    BY <1>1, <1>2, <2>2, <2>3, <2>4, CallOnly
<1>6. QED
  BY <1>4, <1>5

\* After a refresh the SP is in the map, unless it was not on chain.
LEMMA LookupAgainMissKeeps ==
  ASSUME IInv, NEW c \in Callers, LookupAgainMiss(c) PROVE IInv'
<1>1. /\ TypeOK /\ OfCall(c) /\ pc[c] = "again" /\ Hits(c) = {}
      /\ Return(c, "notOnChain", Absent)
  BY IInvOfCalls DEF LookupAgainMiss
<1>2. UNCHANGED <<chain, family, primary, changes, forced, client, cache, call,
                  auxEver, auxHomes, auxGone, auxSince, auxStale>>
  BY DEF LookupAgainMiss, chainVars, clientVars, auxVars
<1>3. Todo(c)' = Todo(c) /\ (ByBucket(c)' <=> ByBucket(c))
  BY <1>2 DEF Todo, ByBucket
<1>4. TypeOK'
  BY <1>1, <1>2, ReturnType DEF TypeOK
<1>5. /\ pc'[c] = "idle" /\ out'[c].status = "notOnChain"
      /\ \A d \in Callers \ {c} : pc'[d] = pc[d] /\ out'[d] = out[d]
  BY <1>1, ReturnType
<1>6. ByBucket(c) /\ call[c].want \in SPs /\ call[c].kind # "address"
  BY <1>1 DEF OfCall, ByBucket
<1>7. cache[call[c].want] = Absent
  BY <1>1, <1>6 DEF Hits
<1>8. call[c].want \in auxGone[c]
  BY <1>1, <1>6, <1>7 DEF OfCall
<1>9. OfCall(c)'
  BY <1>1, <1>2, <1>3, <1>5, <1>8 DEF OfCall
<1>10. QED
  BY <1>1, <1>2, <1>4, <1>5, <1>9, CallOnly

\* A call that fails is forgotten.
LEMMA CallFailsType ==
  ASSUME TypeOK, NEW c \in Callers, CallFails(c)
  PROVE  /\ UNCHANGED <<chain, family, primary, changes, forced, cache, auxEver>>
         /\ call' \in [Callers -> CallState]
         /\ auxHomes' \in [Callers -> SUBSET SPs] /\ auxGone' \in [Callers -> SUBSET SPs]
         /\ pc' \in [Callers ->
               {"idle", "bucket", "family", "lookup", "list", "fill", "again"}]
         /\ out' \in [Callers -> [status : {"none", "ok", "notOnChain", "error"},
                                  endpoint : Endpoints \union {Absent}]]
         /\ client' \in {client, "failed"}
         /\ pc'[c] = "idle" /\ out'[c].status = "error"
         /\ call'[c].kind = "direct" /\ call'[c].want = Absent /\ Todo(c)' = {}
         /\ \A d \in Callers \ {c} :
              /\ pc'[d] = pc[d] /\ call'[d] = call[d] /\ out'[d] = out[d]
              /\ auxHomes'[d] = auxHomes[d] /\ auxGone'[d] = auxGone[d]
<1>1. Begin(c, "direct", Absent) /\ Return(c, "error", Absent)
  BY DEF CallFails
<1>2. "direct" \in Kinds
  BY DEF Kinds
<1>3. UNCHANGED <<chain, family, primary, changes, forced, cache, auxEver>>
  BY DEF CallFails, chainVars
<1>4. client' \in {client, "failed"}
  BY DEF CallFails
<1>5. QED
  BY <1>1, <1>2, <1>3, <1>4, BeginType, ReturnType

\* A request fails, and the call with it; with New's, there is no client.
LEMMA RequestFailsKeeps ==
  ASSUME IInv, NEW c \in Callers, RequestFails(c) PROVE IInv'
<1>1. TypeOK /\ pc[c] \in {"bucket", "family", "list"} /\ CallFails(c)
  BY DEF RequestFails, IInv
<1>2. UNCHANGED <<auxSince, auxStale>>
  BY DEF RequestFails
<1>3. TypeOK'
  BY <1>1, <1>2, CallFailsType DEF TypeOK
<1>4. OfCall(c)'
  BY <1>1, CallFailsType DEF OfCall, ByBucket
<1>5. QED
  BY <1>1, <1>2, <1>3, <1>4, CallFailsType, CallOnly

-----------------------------------------------------------------------------
(* The refresh.                                                             *)

\* The SPs on chain are listed.
LEMMA ListSPsKeeps ==
  ASSUME IInv, NEW c \in Callers, ListSPs(c) PROVE IInv'
<1>1. /\ TypeOK /\ OfCall(c) /\ MapInv /\ pc[c] = "list" /\ Goto(c, "fill")
  BY IInvOfCalls DEF ListSPs
<1>2. UNCHANGED <<chain, family, primary, changes, forced, client, cache,
                  auxEver, auxHomes, auxGone, auxSince, auxStale>>
  BY DEF ListSPs, chainVars, clientVars, auxVars
<1> DEFINE listed == [id \in SPs \ Offline |-> chain[id]]
           new == [call[c] EXCEPT !.todo = listed]
<1>3. /\ DOMAIN listed = SPs \ Offline /\ DOMAIN listed \subseteq SPs
      /\ \A id \in DOMAIN listed : listed[id] = chain[id] /\ chain[id] # Absent
  BY DEF Offline, OnChain
<1>4. listed \in [DOMAIN listed -> Endpoints \union {Malformed}]
  BY <1>1, <1>3, RegisteredAssumption DEF TypeOK
<1> HIDE DEF listed
<1>5. listed \in Todos
  BY <1>3, <1>4, TodosType
<1>6. /\ new \in CallState /\ new.kind = call[c].kind /\ new.want = call[c].want
      /\ new.todo = listed
  BY <1>1, <1>5, CallType DEF CallState
<1>7. call' = [call EXCEPT ![c] = new]
  BY DEF ListSPs, listed
<1> HIDE DEF new
<1>8. /\ call' \in [Callers -> CallState] /\ call'[c] = new
      /\ \A d \in Callers \ {c} : call'[d] = call[d]
  BY <1>1, <1>6, <1>7 DEF TypeOK
<1>9. TypeOK'
  BY <1>1, <1>2, <1>8, GotoType DEF TypeOK
<1>10. pc'[c] = "fill" /\ out' = out /\ \A d \in Callers \ {c} : pc'[d] = pc[d]
  BY <1>1, GotoType
<1>11. Todo(c)' = SPs \ Offline /\ (ByBucket(c)' <=> ByBucket(c))
  BY <1>3, <1>6, <1>8 DEF Todo, ByBucket
<1>12. Offline' = Offline /\ Dirty' = Dirty
  BY <1>2 DEF Offline, OnChain, Dirty
<1>13. ASSUME NEW d \in Callers \ {c} PROVE OfCall(d)'
  BY <1>2, <1>8, <1>10, OthersStay
<1>14. \A id \in SPs \ Offline : chain[id] \in auxEver[id]
  BY <1>1 DEF MapInv, Offline
<1>15. OfCall(c)'
  BY <1>1, <1>2, <1>3, <1>6, <1>8, <1>10, <1>11, <1>12, <1>14 DEF OfCall
<1>16. OnlyRefreshesAge'
  BY <1>1, <1>2, <1>10 DEF MapInv, OnlyRefreshesAge
<1>17. RefreshProgress'
  <2>1. ASSUME NEW d \in Callers \ {c}, pc'[d] = "fill", NEW id \in (SPs \ auxSince[d])'
        PROVE  /\ id \in Todo(d)' => call'[d].todo[id] = chain'[id]
               /\ OnChain(id)' => id \in Todo(d)' \/ cache'[id] = chain'[id] \/ id \in Dirty'
    BY <2>1, <1>1, <1>2, <1>8, <1>10, <1>12 DEF MapInv, RefreshProgress, Todo, OnChain
  <2>2. ASSUME NEW id \in (SPs \ auxSince[c])'
        PROVE  /\ id \in Todo(c)' => call'[c].todo[id] = chain'[id]
               /\ OnChain(id)' => id \in Todo(c)'
    BY <1>2, <1>3, <1>6, <1>8, <1>11 DEF OnChain, Offline
  <2>3. QED
    BY <2>1, <2>2 DEF RefreshProgress
<1>18. MapIsCurrent'
  BY <1>1, <1>2, <1>12 DEF MapInv, MapIsCurrent, OnChain
<1>19. MapInv'
  BY <1>1, <1>2, <1>16, <1>17, <1>18 DEF MapInv, OnChain
<1>20. QED
  BY <1>9, <1>13, <1>15, <1>19, NextOfCalls

\* The first of what is listed is put into the map.
LEMMA FillKeeps ==
  ASSUME IInv, NEW c \in Callers, Fill(c) PROVE IInv'
<1> DEFINE first == Min(Todo(c))
           new == [call[c] EXCEPT !.todo = WithoutFirst(call[c].todo)]
<1>1. TypeOK /\ OfCall(c) /\ MapInv /\ pc[c] = "fill" /\ Todo(c) # {}
  BY IInvOfCalls DEF Fill
<1>2. UNCHANGED <<chain, family, primary, changes, forced, client, pc, out,
                  auxEver, auxHomes, auxGone, auxSince, auxStale>>
  BY DEF Fill, chainVars, auxVars
<1>3. /\ call[c].todo[first] # Malformed
      /\ cache' = [cache EXCEPT ![first] = call[c].todo[first]]
      /\ call' = [call EXCEPT ![c] = new]
  BY DEF Fill
<1>4. first \in Todo(c) /\ first \in SPs
  BY <1>1, CallType, FirstOf
<1>5. call[c].todo[first] \in Endpoints /\ call[c].todo[first] # Absent
  BY <1>1, <1>3, <1>4, CallType, AbsentAssumption
<1>6. /\ call[c] \in CallState /\ call[c].todo \in Todos
      /\ WithoutFirst(call[c].todo) \in Todos
      /\ DOMAIN WithoutFirst(call[c].todo) = Todo(c) \ {first}
      /\ \A id \in Todo(c) \ {first} : WithoutFirst(call[c].todo)[id] = call[c].todo[id]
  BY <1>1, CallType, RestOf DEF Todo
<1>7. /\ new \in CallState /\ new.kind = call[c].kind /\ new.want = call[c].want
      /\ new.todo = WithoutFirst(call[c].todo)
  BY <1>6 DEF CallState
<1> HIDE DEF new, first
<1>8. /\ call' \in [Callers -> CallState] /\ call'[c] = new
      /\ \A d \in Callers \ {c} : call'[d] = call[d]
  BY <1>1, <1>3, <1>7 DEF TypeOK
<1>9. /\ cache' \in [SPs -> Endpoints \union {Absent}]
      /\ cache'[first] = call[c].todo[first]
      /\ \A id \in SPs \ {first} : cache'[id] = cache[id]
  BY <1>1, <1>3, <1>4, <1>5 DEF TypeOK
<1>10. TypeOK'
  BY <1>1, <1>2, <1>8, <1>9 DEF TypeOK
<1>11. /\ Todo(c)' = Todo(c) \ {first} /\ (ByBucket(c)' <=> ByBucket(c))
       /\ \A id \in Todo(c)' : call'[c].todo[id] = call[c].todo[id]
  BY <1>6, <1>7, <1>8 DEF Todo, ByBucket
<1>12. Offline' = Offline /\ Dirty' = Dirty
  BY <1>2 DEF Offline, OnChain, Dirty
<1>13. \A id \in SPs : cache[id] # Absent => cache'[id] # Absent
  BY <1>5, <1>9
<1>14. ASSUME NEW d \in Callers \ {c} PROVE OfCall(d)'
  BY <1>2, <1>8, <1>13, OthersStay
<1>15. OfCall(c)'
  <2>1. ByBucket(c) => call[c].want \in SPs
    BY <1>1 DEF OfCall
  <2>2. ByBucket(c) =>
          \/ call[c].want \in auxGone[c]
          \/ cache'[call[c].want] # Absent
          \/ call[c].want \in Todo(c)'
    BY <1>1, <1>5, <1>9, <1>11, <1>13, <2>1 DEF OfCall
  <2>3. QED
    BY <1>1, <1>2, <1>7, <1>8, <1>11, <1>12, <2>2 DEF OfCall
<1>16. first \notin auxSince[c] => call[c].todo[first] = chain[first]
  BY <1>1, <1>4 DEF MapInv, RefreshProgress
<1>17. first \in Dirty \/ cache'[first] = chain[first]
  BY <1>4, <1>9, <1>16 DEF Dirty
<1>18. \A id \in SPs : cache'[id] # Absent => cache'[id] \in auxEver[id]
  BY <1>1, <1>4, <1>9 DEF MapInv, OfCall
<1>19. OnlyRefreshesAge'
  BY <1>1, <1>2 DEF MapInv, OnlyRefreshesAge
<1>20. RefreshProgress'
  <2>1. ASSUME NEW d \in Callers, pc[d] = "fill", NEW id \in SPs \ auxSince[d]
        PROVE  /\ id \in Todo(d)' => call'[d].todo[id] = chain[id]
               /\ OnChain(id) => id \in Todo(d)' \/ cache'[id] = chain[id] \/ id \in Dirty
    <3>1. /\ id \in Todo(d) => call[d].todo[id] = chain[id]
          /\ OnChain(id) => id \in Todo(d) \/ cache[id] = chain[id] \/ id \in Dirty
      BY <2>1, <1>1 DEF MapInv, RefreshProgress
    <3>2. d # c => Todo(d)' = Todo(d) /\ call'[d] = call[d]
      BY <1>8 DEF Todo
    <3>3. QED
      BY <3>1, <3>2, <1>9, <1>11, <1>17
  <2>2. QED
    BY <2>1, <1>2, <1>12 DEF RefreshProgress, OnChain
<1>21. MapIsCurrent'
  BY <1>1, <1>2, <1>9, <1>12, <1>17 DEF MapInv, MapIsCurrent, OnChain
<1>22. MapInv'
  BY <1>1, <1>2, <1>18, <1>19, <1>20, <1>21 DEF MapInv, OnChain
<1>23. QED
  BY <1>10, <1>14, <1>15, <1>22, NextOfCalls

\* A refresh that ends leaves what changed meanwhile to those it overlapped with.
LEMMA RefreshEndsSince ==
  ASSUME IInv, NEW c \in Callers, RefreshEnds(c)
  PROVE  /\ auxSince' \in [Callers -> SUBSET SPs] /\ auxSince'[c] = {}
         /\ \A d \in Callers \ {c} :
              /\ pc[d] = "fill" => auxSince'[d] = auxSince[d] \union auxSince[c]
              /\ pc[d] # "fill" => auxSince'[d] = {}
<1>1. auxSince \in [Callers -> SUBSET SPs] /\ OnlyRefreshesAge
  BY DEF IInv, TypeOK
<1>2. QED
  BY <1>1 DEF RefreshEnds, OnlyRefreshesAge

\* An SP that is not said to have changed since is as the map has it, once the
\* refresh of a call has ended, whichever way.
LEMMA RefreshEndsKeeps ==
  ASSUME IInv, NEW c \in Callers, pc[c] = "fill", pc'[c] # "fill",
         RefreshEnds(c), UNCHANGED <<chain, cache, auxEver>>,
         \A d \in Callers \ {c} : pc'[d] = pc[d] /\ call'[d] = call[d],
         \/ auxStale' = auxStale \union auxSince[c]
         \/ Todo(c) = {} /\ auxStale' = auxSince[c]
  PROVE  MapInv'
<1>1. MapInv
  BY IInvOfCalls
<1>2. /\ auxSince'[c] = {}
      /\ \A d \in Callers \ {c} :
           /\ pc[d] = "fill" => auxSince'[d] = auxSince[d] \union auxSince[c]
           /\ pc[d] # "fill" => auxSince'[d] = {}
  BY RefreshEndsSince
<1>3. OnlyRefreshesAge'
  BY <1>2 DEF OnlyRefreshesAge
<1>4. \A id \in Dirty : id \in auxSince[c] \/ id \in Dirty'
  <2> SUFFICES ASSUME NEW id \in SPs, NEW d \in Callers \ {c}, id \in auxSince[d]
               PROVE  id \in Dirty'
    BY DEF Dirty
  <2>1. pc[d] = "fill"
    BY <1>1 DEF MapInv, OnlyRefreshesAge
  <2>2. id \in auxSince'[d]
    BY <2>1, <1>2
  <2>3. QED
    BY <2>2 DEF Dirty
<1>5. RefreshProgress'
  <2> SUFFICES ASSUME NEW d \in Callers \ {c}, pc[d] = "fill",
                      NEW id \in SPs \ auxSince'[d]
               PROVE  /\ id \in Todo(d) => call[d].todo[id] = chain[id]
                      /\ OnChain(id) =>
                           id \in Todo(d) \/ cache[id] = chain[id] \/ id \in Dirty'
    BY DEF RefreshProgress, Todo, OnChain
  <2>1. id \notin auxSince[d] /\ id \notin auxSince[c]
    BY <1>2
  <2>2. /\ id \in Todo(d) => call[d].todo[id] = chain[id]
        /\ OnChain(id) => id \in Todo(d) \/ cache[id] = chain[id] \/ id \in Dirty
    BY <2>1, <1>1 DEF MapInv, RefreshProgress
  <2>3. QED
    BY <2>1, <2>2, <1>4
<1>6. MapIsCurrent'
  <2> SUFFICES ASSUME NEW id \in SPs, OnChain(id), cache[id] # Absent,
                      id \notin auxStale', id \notin Dirty'
               PROVE  chain[id] = cache[id]
    BY DEF MapIsCurrent, OnChain
  <2>1. id \notin auxSince[c] /\ id \notin Dirty
    BY <1>4
  <2>2. CASE id \notin auxStale
    BY <2>1, <2>2, <1>1 DEF MapInv, MapIsCurrent
  <2>3. CASE Todo(c) = {}
    BY <2>1, <2>3, <1>1 DEF MapInv, RefreshProgress
  <2>4. QED
    BY <2>2, <2>3
<1>7. QED
  BY <1>1, <1>3, <1>5, <1>6 DEF MapInv, OnChain

\* A malformed endpoint ends the refresh, and the call.
LEMMA FillFailsKeeps ==
  ASSUME IInv, NEW c \in Callers, FillFails(c) PROVE IInv'
<1>1. /\ TypeOK /\ pc[c] = "fill" /\ CallFails(c)
      /\ RefreshEnds(c) /\ auxStale' = auxStale \union auxSince[c]
  BY DEF FillFails, IInv
<1>2. auxStale' \subseteq SPs
  BY <1>1 DEF TypeOK
<1>3. TypeOK'
  BY <1>1, <1>2, CallFailsType, RefreshEndsSince DEF TypeOK
<1>4. ASSUME NEW d \in Callers \ {c} PROVE OfCall(d)'
  BY <1>1, CallFailsType, OthersStay
<1>5. OfCall(c)'
  BY <1>1, CallFailsType DEF OfCall, ByBucket
<1>6. MapInv'
  BY <1>1, CallFailsType, RefreshEndsKeeps
<1>7. QED
  BY <1>3, <1>4, <1>5, <1>6, NextOfCalls

\* All that was listed is in the map.
LEMMA FilledKeeps ==
  ASSUME IInv, NEW c \in Callers, Filled(c) PROVE IInv'
<1>1. /\ TypeOK /\ OfCall(c) /\ pc[c] = "fill" /\ Todo(c) = {}
      /\ RefreshEnds(c) /\ auxStale' = auxSince[c]
  BY IInvOfCalls DEF Filled
<1>2. UNCHANGED <<chain, family, primary, changes, forced, cache, call,
                  auxEver, auxHomes, auxGone>>
  BY DEF Filled, chainVars
<1>3. auxStale' \subseteq SPs
  BY <1>1 DEF TypeOK
<1>4. Todo(c)' = {} /\ (ByBucket(c)' <=> ByBucket(c)) /\ Offline' = Offline
  BY <1>1, <1>2 DEF Todo, ByBucket, Offline, OnChain
<1>5. CASE call[c].kind = "new"
  <2>1. client' = "ready" /\ Return(c, "ok", Absent)
    BY <1>5 DEF Filled
  <2>2. TypeOK'
    BY <1>1, <1>2, <1>3, <2>1, ReturnType, RefreshEndsSince DEF TypeOK
  <2>3. /\ pc'[c] = "idle" /\ out'[c].status = "ok"
        /\ \A d \in Callers \ {c} : pc'[d] = pc[d] /\ out'[d] = out[d]
    BY <1>1, <2>1, ReturnType
  <2>4. ASSUME NEW d \in Callers \ {c} PROVE OfCall(d)'
    BY <1>2, <2>1, <2>3, OthersStay
  <2>5. call[c].want = Absent
    BY <1>1, <1>5 DEF OfCall
  <2>6. OfCall(c)'
    BY <1>1, <1>2, <1>4, <2>1, <2>3, <2>5 DEF OfCall
  <2>7. MapInv'
    BY <1>1, <1>2, <2>3, RefreshEndsKeeps
  <2>8. QED
    BY <2>2, <2>4, <2>6, <2>7, NextOfCalls
<1>6. CASE call[c].kind # "new"
  <2>1. client' = client /\ Goto(c, "again")
    BY <1>6 DEF Filled
  <2>2. TypeOK'
    BY <1>1, <1>2, <1>3, <2>1, GotoType, RefreshEndsSince DEF TypeOK
  <2>3. /\ pc'[c] = "again" /\ out' = out
        /\ \A d \in Callers \ {c} : pc'[d] = pc[d]
    BY <1>1, <2>1, GotoType
  <2>4. ASSUME NEW d \in Callers \ {c} PROVE OfCall(d)'
    BY <1>2, <2>1, <2>3, OthersStay
  <2>5. OfCall(c)'
    BY <1>1, <1>2, <1>4, <1>6, <2>1, <2>3 DEF OfCall
  <2>6. MapInv'
    BY <1>1, <1>2, <2>3, RefreshEndsKeeps
  <2>7. QED
    BY <2>2, <2>4, <2>5, <2>6, NextOfCalls
<1>7. QED
  BY <1>5, <1>6

\* A process that dies has no calls and no map.
LEMMA MapRaceKeeps ==
  ASSUME IInv, MapRace PROVE IInv'
<1>1. TypeOK /\ MapInv
  BY IInvOfCalls
<1>2. /\ client' = "dead" /\ cache' = [id \in SPs |-> Absent]
      /\ pc' = [c \in Callers |-> "idle"] /\ call' = [c \in Callers |-> Idle]
      /\ out' = [c \in Callers |-> NoResult]
      /\ auxHomes' = [c \in Callers |-> {}]
      /\ auxGone' = [c \in Callers |-> {}] /\ auxSince' = [c \in Callers |-> {}]
      /\ UNCHANGED <<chain, family, primary, changes, forced, auxEver, auxStale>>
  BY DEF MapRace, chainVars
<1>3. /\ Idle \in CallState /\ Idle.kind = "direct" /\ Idle.want = Absent
      /\ DOMAIN Idle.todo = {}
  BY NothingType DEF Idle, CallState, Kinds
<1>4. TypeOK'
  BY <1>1, <1>2, <1>3 DEF TypeOK, NoResult
<1>5. \A c \in Callers : OfCall(c)'
  BY <1>2, <1>3 DEF OfCall, Todo, ByBucket, NoResult
<1>6. MapInv'
  BY <1>1, <1>2 DEF MapInv, OnlyRefreshesAge, RefreshProgress, MapIsCurrent, OnChain
<1>7. QED
  BY <1>4, <1>5, <1>6, NextOfCalls

-----------------------------------------------------------------------------
(* The chain.                                                               *)

\* An SP is registered, edited or leaves: what was listed before may be old.
LEMMA ChangeKeeps ==
  ASSUME IInv, NEW id \in SPs, NEW r \in Endpoints \union {Malformed, Absent},
         r \in Registered \union {Absent}, Change(id, r)
  PROVE  IInv'
<1>1. TypeOK /\ MapInv
  BY IInvOfCalls
<1>2. /\ changes < MaxChanges /\ changes' = changes + 1
      /\ chain' = [chain EXCEPT ![id] = r]
      /\ auxEver' = [auxEver EXCEPT ![id] =
                       IF r = Absent THEN auxEver[id] ELSE auxEver[id] \union {r}]
      /\ auxStale' = auxStale \union {id}
  BY DEF Change, ChainChanges
<1>3. /\ auxGone' = [c \in Callers |->
                       IF r = Absent /\ pc[c] # "idle" /\ ByBucket(c)
                       THEN auxGone[c] \union {id} ELSE auxGone[c]]
      /\ auxSince' = [c \in Callers |->
                        IF pc[c] = "fill"
                        THEN auxSince[c] \union {id} ELSE auxSince[c]]
  BY DEF Change
<1>4. UNCHANGED <<family, primary, forced, client, cache, pc, call, out, auxHomes>>
  BY DEF Change, clientVars, callVars
<1>5. changes' \in 0..MaxChanges
  BY <1>1, <1>2, BoundAssumption DEF TypeOK
<1>6. /\ chain' \in [SPs -> Registered \union {Absent}] /\ chain'[id] = r
      /\ \A other \in SPs \ {id} : chain'[other] = chain[other]
  BY <1>1, <1>2 DEF TypeOK
<1>7. /\ auxEver' \in [SPs -> SUBSET (Endpoints \union {Malformed})]
      /\ r # Absent => r \in auxEver'[id]
      /\ \A other \in SPs : auxEver[other] \subseteq auxEver'[other]
  BY <1>1, <1>2 DEF TypeOK
<1>8. /\ auxGone' \in [Callers -> SUBSET SPs]
      /\ \A c \in Callers : auxGone[c] \subseteq auxGone'[c]
      /\ \A c \in Callers : r = Absent /\ pc[c] # "idle" /\ ByBucket(c) => id \in auxGone'[c]
      /\ \A c \in Callers : pc[c] = "idle" => auxGone'[c] = auxGone[c] \/ r = Absent
  BY <1>1, <1>3 DEF TypeOK
<1>9. /\ auxSince' \in [Callers -> SUBSET SPs]
      /\ \A c \in Callers :
           auxSince'[c] = IF pc[c] = "fill" THEN auxSince[c] \union {id} ELSE auxSince[c]
  BY <1>1, <1>3 DEF TypeOK
<1>10. auxStale' \subseteq SPs
  BY <1>1, <1>2 DEF TypeOK
<1>11. TypeOK'
  BY <1>1, <1>4, <1>5, <1>6, <1>7, <1>8, <1>9, <1>10 DEF TypeOK
<1>12. ASSUME NEW c \in Callers PROVE OfCall(c)'
  <2>1. OfCall(c)
    BY IInvOfCalls
  <2>2. Todo(c)' = Todo(c) /\ (ByBucket(c)' <=> ByBucket(c)) /\ Todo(c) \subseteq SPs
    BY <1>1, <1>4, CallType DEF Todo, ByBucket
  <2>3. pc[c] # "idle" /\ ByBucket(c) => Offline' \subseteq auxGone'[c]
    BY <2>1, <1>6, <1>8 DEF OfCall, Offline, OnChain
  <2>4. QED
    BY <2>1, <2>2, <2>3, <1>4, <1>7, <1>8 DEF OfCall
<1>13. /\ \A other \in SPs : OnChain(other)' => chain'[other] \in auxEver'[other]
       /\ \A other \in SPs : cache'[other] # Absent => cache'[other] \in auxEver'[other]
  BY <1>1, <1>4, <1>6, <1>7 DEF MapInv, OnChain
<1>14. OnlyRefreshesAge'
  BY <1>1, <1>4, <1>9 DEF MapInv, OnlyRefreshesAge
<1>15. Dirty \subseteq Dirty'
  BY <1>9 DEF Dirty
<1>16. RefreshProgress'
  <2> SUFFICES ASSUME NEW c \in Callers, pc[c] = "fill",
                      NEW other \in SPs \ auxSince'[c]
               PROVE  /\ other \in Todo(c) => call[c].todo[other] = chain'[other]
                      /\ chain'[other] # Absent =>
                           \/ other \in Todo(c)
                           \/ cache[other] = chain'[other]
                           \/ other \in Dirty'
    BY <1>4 DEF RefreshProgress, Todo, OnChain
  <2>1. other # id /\ other \notin auxSince[c]
    BY <1>9
  <2>2. QED
    BY <2>1, <1>1, <1>6, <1>15 DEF MapInv, RefreshProgress, OnChain
<1>17. MapIsCurrent'
  BY <1>1, <1>2, <1>4, <1>6, <1>15 DEF MapInv, MapIsCurrent, OnChain
<1>18. MapInv'
  BY <1>13, <1>14, <1>16, <1>17 DEF MapInv
<1>19. QED
  BY <1>11, <1>12, <1>18, NextOfCalls

\* What is noted of the calls that have not read their SP, when the bucket moves or
\* its family, or the one they were told, gets another primary SP.
LEMMA HomesKeep ==
  ASSUME IInv, TypeOK', ChainChanges,
         UNCHANGED <<chain, forced, client, cache, pc, call, out,
                     auxEver, auxGone, auxSince, auxStale>>,
         \A c \in Callers :
           /\ auxHomes[c] \subseteq auxHomes'[c]
           /\ c \in Asking => primary'[family'] \in auxHomes'[c]
           /\ pc[c] = "family" => primary'[call[c].want] \in auxHomes'[c]
  PROVE  IInv'
<1>1. MapInv
  BY IInvOfCalls
<1>2. MapInv'
  BY <1>1 DEF MapInv, OnlyRefreshesAge, RefreshProgress, MapIsCurrent, Todo, OnChain, Dirty
<1>3. ASSUME NEW c \in Callers PROVE OfCall(c)'
  <2>1. OfCall(c)
    BY IInvOfCalls
  <2>2. /\ Todo(c)' = Todo(c) /\ (ByBucket(c)' <=> ByBucket(c)) /\ Offline' = Offline
        /\ pc[c] \in {"bucket", "family"} => c \in Asking
    BY DEF Todo, ByBucket, Offline, OnChain, Asking
  <2>3. QED
    BY <2>1, <2>2 DEF OfCall
<1>4. QED
  BY <1>2, <1>3, NextOfCalls

\* The bucket moves to another family.
LEMMA MigrateKeeps ==
  ASSUME IInv, NEW f \in Families, Migrate(f) PROVE IInv'
<1>1. TypeOK /\ ChainChanges /\ family' = f
  BY DEF IInv, Migrate
<1>2. auxHomes' = [c \in Callers |->
        IF c \in Asking THEN auxHomes[c] \union {primary[f]} ELSE auxHomes[c]]
  BY DEF Migrate
<1>3. UNCHANGED <<chain, primary, forced, client, cache, pc, call, out,
                  auxEver, auxGone, auxSince, auxStale>>
  BY DEF Migrate, clientVars, callVars
<1>4. changes' \in 0..MaxChanges
  BY <1>1, BoundAssumption DEF TypeOK, ChainChanges
<1>5. TypeOK'
  BY <1>1, <1>2, <1>3, <1>4 DEF TypeOK
<1>6. ASSUME NEW c \in Callers
      PROVE  /\ auxHomes[c] \subseteq auxHomes'[c]
             /\ c \in Asking => primary[f] \in auxHomes'[c]
             /\ pc[c] = "family" => primary[call[c].want] \in auxHomes'[c]
  BY <1>2, IInvOfCalls DEF OfCall
<1>7. QED
  BY <1>1, <1>3, <1>5, <1>6, HomesKeep

\* A family gets another primary SP.
LEMMA SwapPrimaryKeeps ==
  ASSUME IInv, NEW f \in Families, NEW id \in SPs, SwapPrimary(f, id) PROVE IInv'
<1>1. TypeOK /\ ChainChanges /\ primary' = [primary EXCEPT ![f] = id]
  BY DEF IInv, SwapPrimary
<1>2. auxHomes' = [c \in Callers |->
        IF c \in Asking /\ (f = family \/ f = call[c].want)
        THEN auxHomes[c] \union {id} ELSE auxHomes[c]]
  BY DEF SwapPrimary
<1>3. UNCHANGED <<chain, family, forced, client, cache, pc, call, out,
                  auxEver, auxGone, auxSince, auxStale>>
  BY DEF SwapPrimary, clientVars, callVars
<1>4. changes' \in 0..MaxChanges
  BY <1>1, BoundAssumption DEF TypeOK, ChainChanges
<1>5. /\ primary' \in [Families -> SPs] /\ primary'[f] = id
      /\ \A g \in Families \ {f} : primary'[g] = primary[g]
  BY <1>1 DEF TypeOK
<1>6. TypeOK'
  BY <1>1, <1>2, <1>3, <1>4, <1>5 DEF TypeOK
<1>7. ASSUME NEW c \in Callers
      PROVE  /\ auxHomes[c] \subseteq auxHomes'[c]
             /\ c \in Asking => primary'[family] \in auxHomes'[c]
             /\ pc[c] = "family" => primary'[call[c].want] \in auxHomes'[c]
  <2>1. OfCall(c) /\ family \in Families
    BY <1>1, IInvOfCalls DEF TypeOK
  <2>2. auxHomes[c] \subseteq auxHomes'[c]
    BY <1>2
  <2>3. ASSUME c \in Asking, NEW g \in Families, g = family \/ g = call[c].want,
               primary[g] \in auxHomes[c]
        PROVE  primary'[g] \in auxHomes'[c]
    <3>1. CASE g = f
      BY <2>3, <3>1, <1>2, <1>5
    <3>2. CASE g # f
      BY <2>2, <2>3, <3>2, <1>5
    <3>3. QED
      BY <3>1, <3>2
  <2>4. c \in Asking <=> pc[c] \in {"bucket", "family"}
    BY DEF Asking
  <2>5. QED
    BY <2>1, <2>2, <2>3, <2>4 DEF OfCall
<1>8. QED
  BY <1>1, <1>3, <1>6, <1>7, HomesKeep

-----------------------------------------------------------------------------
(* The theorems.                                                            *)

\* The invariant holds before New.
LEMMA InitIInv ==
  ASSUME Init PROVE IInv
<1> USE DEF Init
<1>1. /\ Idle \in CallState /\ Idle.kind = "direct" /\ Idle.want = Absent
      /\ DOMAIN Idle.todo = {}
  BY NothingType DEF Idle, CallState, Kinds
<1>2. auxEver \in [SPs -> SUBSET (Endpoints \union {Malformed})]
  BY RegisteredAssumption DEF OnChain
<1>3. TypeOK
  BY <1>1, <1>2, BoundAssumption DEF TypeOK, NoResult
<1>4. \A c \in Callers : OfCall(c)
  BY <1>1 DEF OfCall, Todo, ByBucket, NoResult
<1>5. MapInv
  BY DEF MapInv, OnlyRefreshesAge, RefreshProgress, MapIsCurrent, OnChain
<1>6. QED
  BY <1>3, <1>4, <1>5, IInvOfCalls

\* Every step keeps it.
LEMMA StepIInv ==
  ASSUME IInv, ForcedIsURL, [Next]_vars PROVE IInv'
<1>1. ASSUME NEW c \in Callers,
             New(c) \/ Download(c) \/ Upload(c) \/ RouteToAny(c)
      PROVE  IInv'
  BY <1>1, NewKeeps, DownloadKeeps, UploadKeeps, RouteToAnyKeeps
<1>2. ASSUME NEW c \in Callers, NEW id \in SPs,
             RouteByID(c, id) \/ RouteByAddr(c, Operator[id])
      PROVE  IInv'
  BY <1>2, RouteByKeeps
<1>3. ASSUME NEW c \in Callers, CallStep(c) PROVE IInv'
  BY <1>3, ReadPrimaryKeeps, LookupHitKeeps, LookupMissKeeps, LookupAgainMissKeeps,
     ListSPsKeeps, FillKeeps, ReadFamilyKeeps, FillFailsKeeps, FilledKeeps, RequestFailsKeeps
     DEF CallStep
<1>4. CASE MapRace
  BY <1>4, MapRaceKeeps
<1>5. ASSUME NEW id \in SPs, RegisterOrEdit(id) PROVE IInv'
  <2>1. PICK endpoint \in Registered : Change(id, endpoint)
    BY <1>5 DEF RegisterOrEdit
  <2>2. QED
    BY <2>1, RegisteredAssumption, ChangeKeeps
<1>6. ASSUME NEW id \in SPs, Exit(id) PROVE IInv'
  BY <1>6, ChangeKeeps DEF Exit
<1>7. ASSUME NEW f \in Families, Migrate(f) \/ \E id \in SPs : SwapPrimary(f, id)
      PROVE  IInv'
  BY <1>7, MigrateKeeps, SwapPrimaryKeeps
<1>8. CASE UNCHANGED vars
  <2>1. UNCHANGED <<chain, family, primary, changes, forced, client, cache, pc, call, out,
                    auxEver, auxHomes, auxGone, auxSince, auxStale>>
    BY <1>8 DEF vars, chainVars, clientVars, callVars, auxVars
  <2>2. TypeOK'
    BY <2>1 DEF IInv, TypeOK
  <2>3. \A d \in Callers : OfCall(d)'
    BY <2>1, OthersStay
  <2>4. MapInv'
    BY <2>1, IInvOfCalls DEF MapInv, OnlyRefreshesAge, RefreshProgress, MapIsCurrent,
                             Todo, OnChain, Dirty
  <2>5. QED
    BY <2>2, <2>3, <2>4, NextOfCalls
<1>9. QED
  BY <1>1, <1>2, <1>3, <1>4, <1>5, <1>6, <1>7, <1>8 DEF Next

\* New makes no client that is forced to a malformed endpoint.
LEMMA StepForced ==
  ASSUME ForcedIsURL, [Next]_vars PROVE ForcedIsURL'
<1> SUFFICES ASSUME forced' = Malformed PROVE
      client' \in {"none", "failed"} /\ \A c \in Callers : pc'[c] = "idle"
  BY DEF ForcedIsURL
<1>1. ASSUME NEW c \in Callers, New(c) PROVE forced' = forced /\ (forced # Absent =>
        client' = (IF forced = Malformed THEN "failed" ELSE "ready") /\ pc' = pc)
  BY <1>1 DEF New
<1>2. forced' = forced
  BY DEF Next, New, Download, Upload, RouteByID, RouteByAddr, RouteToAny, CallStep,
         ReadFamily, ReadPrimary, LookupHit, LookupMiss, LookupAgainMiss, ListSPs,
         Fill, FillFails, Filled, RequestFails, CallFails, MapRace, RegisterOrEdit,
         Exit, Change, Migrate, SwapPrimary, vars, clientVars
<1>3. client \in {"none", "failed"} /\ \A c \in Callers : pc[c] = "idle"
  BY <1>2 DEF ForcedIsURL
<1>4. ASSUME NEW c \in Callers
      PROVE  ~CallStep(c) /\ ~Idling(c)
  BY <1>3 DEF CallStep, ReadFamily, ReadPrimary, LookupHit, LookupMiss,
              LookupAgainMiss, ListSPs, Fill, FillFails, Filled, RequestFails, Idling
<1>5. ~Racing
  BY <1>3 DEF Racing, AtMap
<1>6. CASE \E c \in Callers : New(c)
  BY <1>1, <1>2, <1>3, <1>6, AbsentAssumption
<1>7. CASE UNCHANGED clientVars /\ UNCHANGED callVars
  BY <1>3, <1>7 DEF clientVars, callVars
<1>8. QED
  BY <1>4, <1>5, <1>6, <1>7
     DEF Next, Download, Upload, RouteByID, RouteByAddr, RouteToAny, MapRace,
         RegisterOrEdit, Exit, Change, Migrate, SwapPrimary, vars

\* The invariant, of every behaviour.
LEMMA Invariance == Spec => []IInv
<1>1. Init => IInv /\ ForcedIsURL
  BY InitIInv DEF Init, ForcedIsURL
<1>2. IInv /\ ForcedIsURL /\ [Next]_vars => IInv' /\ ForcedIsURL'
  BY StepIInv, StepForced
<1>3. QED
  BY <1>1, <1>2, PTL DEF Spec

\* The variables keep their types: a malformed endpoint never gets into the map.
THEOREM TypeCorrect == Spec => []TypeOK
<1>1. IInv => TypeOK
  BY DEF IInv
<1>2. QED
  BY <1>1, Invariance, PTL

\* A request goes to an endpoint that the wanted SP has or had, however many calls
\* refresh the map at once and however the SPs change.
THEOREM RoutedCorrect == Spec => []RoutedToWanted
<1>1. IInv => RoutedToWanted
  BY DEF IInv
<1>2. QED
  BY <1>1, Invariance, PTL

\* A bucket's SP that is reported missing was not on chain at some time of the call.
THEOREM MissesAreTrue == Spec => []BucketMissIsTrue
<1>1. IInv => BucketMissIsTrue
  BY DEF IInv
<1>2. QED
  BY <1>1, Invariance, PTL

\* When no refresh runs, an entry is out of date only for an SP that changed since
\* the last complete refresh, or one that overlapped with it, listed it.
THEOREM MapsAreCurrent == Spec => []RefreshIsCurrent
<1>1. IInv => RefreshIsCurrent
  <2> SUFFICES ASSUME IInv, \A c \in Callers : pc[c] # "fill", NEW id \in SPs,
                      OnChain(id), cache[id] # Absent, id \notin auxStale
               PROVE  chain[id] = cache[id]
    BY DEF RefreshIsCurrent
  <2>1. id \notin Dirty
    BY DEF IInv, OnlyRefreshesAge, Dirty
  <2>2. QED
    BY <2>1 DEF IInv, MapIsCurrent
<1>2. QED
  BY <1>1, Invariance, PTL

=============================================================================

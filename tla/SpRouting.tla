----------------------------- MODULE SpRouting -----------------------------
(***************************************************************************)
(* How a Client finds the endpoint of a storage provider (SP): the map     *)
(* storageProviders, filled from the chain by New and again when a bucket  *)
(* is routed to an SP the map does not have, and read without a lock by    *)
(* every thread that uses the client.                                      *)
(*                                                                         *)
(* Meanwhile the chain changes: SPs are registered, edited and leave, the  *)
(* bucket that calls are about moves to another family of virtual groups,  *)
(* and a family gets another primary SP (even one that is not registered:  *)
(* nothing is assumed of the chain's own rules).                           *)
(***************************************************************************)
EXTENDS Naturals, FiniteSetsExt

CONSTANTS
  Callers,     \* the goroutines that use the client
  SPs,         \* the ids SPs get
  Operator,    \* the operator address of each
  Endpoints,   \* their endpoints
  Malformed,   \* an endpoint that is no URL
  Absent,      \* no SP
  Registered,  \* the endpoints an SP may register with
  Families,    \* the families of virtual groups
  ForcedTo,    \* what clients are forced to for downloads, or Absent (no force)
  MaxChanges   \* bound: changes on chain

ASSUME SPsAssumption == SPs \subseteq Nat /\ SPs # {}
ASSUME AbsentAssumption ==
  Absent \notin Endpoints /\ Malformed \notin Endpoints /\ Absent # Malformed
ASSUME RegisteredAssumption == Registered \subseteq Endpoints \union {Malformed}
ASSUME ForcedAssumption == ForcedTo \subseteq Endpoints \union {Malformed, Absent}
ASSUME BoundAssumption == MaxChanges \in Nat

VARIABLES
  chain,    \* each SP's endpoint on chain, or Absent
  family,   \* the family the bucket is in
  primary,  \* the primary SP of each family
  forced,   \* the endpoint the client is forced to for downloads, or Absent
  client,   \* the client: "none", "new", "ready", "failed" or "dead"
  cache,    \* the map: the endpoint of each id, or Absent
  pc,       \* where the call of each caller is
  call,     \* its kind, arguments and locals
  out,      \* how the last call ended: [status, endpoint]
  changes

\* History; no guard reads it.
VARIABLES
  auxEver,  \* the endpoints each SP ever had on chain
  auxHomes, \* for each caller by bucket: the primary SPs its family had during the call
  auxGone,  \* for each of them: the SPs that were not on chain during the call
  auxSince, \* for each refresh: the SPs that changed since it listed them
  auxStale  \* the SPs that changed since the last complete refresh listed them

chainVars == <<chain, family, primary, changes>>
clientVars == <<forced, client, cache>>
callVars == <<pc, call, out>>
auxVars == <<auxEver, auxHomes, auxGone, auxSince, auxStale>>
vars == <<chainVars, clientVars, callVars, auxVars>>

OnChain(id) == chain[id] # Absent
Offline == {id \in SPs : ~OnChain(id)}

\* What a call looks for in the map; a "direct" one does not look there.
Kinds == {"new", "bucket", "id", "address", "direct"}
Nothing == [id \in {} |-> Absent]
Idle == [kind |-> "direct", want |-> Absent, todo |-> Nothing]
NoResult == [status |-> "none", endpoint |-> Absent]

Init ==
  /\ chain \in [SPs -> Registered \union {Absent}]
  /\ \A a, b \in SPs : OnChain(a) /\ OnChain(b) /\ Operator[a] = Operator[b] => a = b
  /\ family \in Families
  /\ primary \in [Families -> SPs]
  /\ forced \in ForcedTo
  /\ client = "none"
  /\ cache = [id \in SPs |-> Absent]
  /\ pc = [c \in Callers |-> "idle"]
  /\ call = [c \in Callers |-> Idle]
  /\ out = [c \in Callers |-> NoResult]
  /\ changes = 0
  /\ auxEver = [id \in SPs |->
                  IF OnChain(id) THEN {chain[id]} ELSE {}]
  /\ auxHomes = [c \in Callers |-> {}]
  /\ auxGone = [c \in Callers |-> {}]
  /\ auxSince = [c \in Callers |-> {}]
  /\ auxStale = {}

Goto(c, where) == pc' = [pc EXCEPT ![c] = where] /\ UNCHANGED out

Return(c, status, endpoint) ==
  /\ pc' = [pc EXCEPT ![c] = "idle"]
  /\ out' = [out EXCEPT ![c] = [status |-> status, endpoint |-> endpoint]]

\* The result of the call before is forgotten.
Enter(c, where) ==
  /\ pc' = [pc EXCEPT ![c] = where]
  /\ out' = [out EXCEPT ![c] = NoResult]

Begin(c, kind, want) ==
  /\ call' = [call EXCEPT ![c] = [kind |-> kind, want |-> want, todo |-> Nothing]]
  /\ auxHomes' = [auxHomes EXCEPT ![c] =
                    IF kind = "bucket" THEN {primary[family]} ELSE {}]
  /\ auxGone' = [auxGone EXCEPT ![c] = IF kind = "bucket" THEN Offline ELSE {}]

Idling(c) == client = "ready" /\ pc[c] = "idle"

-----------------------------------------------------------------------------
(* The calls.                                                               *)

\* New: the SPs are listed, unless downloads are forced to one endpoint.
New(c) ==
  /\ client = "none"
  /\ IF forced # Absent
     THEN /\ client' = IF forced = Malformed THEN "failed" ELSE "ready"
          /\ UNCHANGED <<pc, out, call, auxHomes, auxGone>>
     ELSE /\ client' = "new"
          /\ Begin(c, "new", Absent)
          /\ Enter(c, "list")
  /\ UNCHANGED <<chainVars, forced, cache, auxEver, auxSince, auxStale>>

\* GetObject, the only reader of the forced endpoint.
Download(c) ==
  /\ Idling(c)
  /\ IF forced # Absent
     THEN Begin(c, "direct", Absent) /\ Return(c, "ok", forced)
     ELSE Begin(c, "bucket", Absent) /\ Enter(c, "bucket")
  /\ UNCHANGED <<chainVars, clientVars, auxEver, auxSince, auxStale>>

\* putObject, putObjectResumable and the other calls routed by the bucket.
Upload(c) ==
  /\ Idling(c)
  /\ Begin(c, "bucket", Absent)
  /\ Enter(c, "bucket")
  /\ UNCHANGED <<chainVars, clientVars, auxEver, auxSince, auxStale>>

\* getSPUrlByID: approvals, migration progress, challenges.
RouteByID(c, id) ==
  /\ Idling(c)
  /\ Begin(c, "id", id)
  /\ Enter(c, "lookup")
  /\ UNCHANGED <<chainVars, clientVars, auxEver, auxSince, auxStale>>

\* getSPUrlByAddr: approvals, and calls whose options name an SP.
RouteByAddr(c, operator) ==
  /\ Idling(c)
  /\ Begin(c, "address", operator)
  /\ Enter(c, "lookup")
  /\ UNCHANGED <<chainVars, clientVars, auxEver, auxSince, auxStale>>

\* getInServiceSP: the first of the SPs in service, whichever these are.
RouteToAny(c) ==
  /\ Idling(c)
  /\ Begin(c, "direct", Absent)
  /\ \/ Return(c, "error", Absent)
     \/ \E id \in SPs \ Offline :
          chain[id] # Malformed /\ Return(c, "ok", chain[id])
  /\ UNCHANGED <<chainVars, clientVars, auxEver, auxSince, auxStale>>

\* pickStorageProviderByBucket: the bucket's family, then that family's primary SP.
ReadFamily(c) ==
  /\ pc[c] = "bucket"
  /\ call' = [call EXCEPT ![c].want = family]
  /\ Goto(c, "family")
  /\ UNCHANGED <<chainVars, clientVars, auxVars>>

ReadPrimary(c) ==
  /\ pc[c] = "family"
  /\ call' = [call EXCEPT ![c].want = primary[@]]
  /\ Goto(c, "lookup")
  /\ UNCHANGED <<chainVars, clientVars, auxVars>>

ByBucket(c) == call[c].kind = "bucket"

\* The ids in the map that answer the call.
Hits(c) ==
  {id \in SPs :
     /\ cache[id] # Absent
     /\ IF call[c].kind = "address"
        THEN Operator[id] = call[c].want
        ELSE id = call[c].want}

LookupMiss_NoRefresh(c) ==
  /\ pc[c] = "lookup" /\ Hits(c) = {}
  /\ Return(c, "notOnChain", Absent)
  /\ UNCHANGED <<chainVars, clientVars, call, auxVars>>

\* Only a call routed by its bucket refreshes the map.
LookupMiss(c) ==
  /\ pc[c] = "lookup" /\ Hits(c) = {}
  /\ IF ByBucket(c)
     THEN Goto(c, "list")
     ELSE Return(c, "notOnChain", Absent)
  /\ UNCHANGED <<chainVars, clientVars, call, auxVars>>

\* Of two SPs with one operator, the map's iteration finds either.
LookupHit(c) ==
  /\ pc[c] \in {"lookup", "again"}
  /\ \E id \in Hits(c) : Return(c, "ok", cache[id])
  /\ UNCHANGED <<chainVars, clientVars, call, auxVars>>

LookupAgainMiss(c) ==
  /\ pc[c] = "again" /\ Hits(c) = {}
  /\ Return(c, "notOnChain", Absent)
  /\ UNCHANGED <<chainVars, clientVars, call, auxVars>>

(***************************************************************************)
(* refreshStorageProviders: the SPs are listed in one request, then put    *)
(* into the map one by one; the first malformed endpoint ends it.          *)
(***************************************************************************)
ListSPs(c) ==
  /\ pc[c] = "list"
  /\ call' = [call EXCEPT ![c].todo =
       [id \in SPs \ Offline |-> chain[id]]]
  /\ Goto(c, "fill")
  /\ UNCHANGED <<chainVars, clientVars, auxVars>>

Todo(c) == DOMAIN call[c].todo

WithoutFirst(todo) == [id \in DOMAIN todo \ {Min(DOMAIN todo)} |-> todo[id]]

Fill_KeepsKnown(c) ==
  /\ pc[c] = "fill" /\ Todo(c) # {}
  /\ LET id == Min(Todo(c))
     IN  /\ call[c].todo[id] # Malformed
         /\ cache' = [cache EXCEPT ![id] =
                        IF @ = Absent THEN call[c].todo[id] ELSE @]
  /\ call' = [call EXCEPT ![c].todo = WithoutFirst(@)]
  /\ UNCHANGED <<chainVars, forced, client, pc, out, auxVars>>

Fill_TakesMalformed(c) ==
  /\ pc[c] = "fill" /\ Todo(c) # {}
  /\ LET id == Min(Todo(c))
     IN  cache' = [cache EXCEPT ![id] = call[c].todo[id]]
  /\ call' = [call EXCEPT ![c].todo = WithoutFirst(@)]
  /\ UNCHANGED <<chainVars, forced, client, pc, out, auxVars>>

Fill_LoopVariable(c) ==
  /\ pc[c] = "fill" /\ Todo(c) # {}
  /\ LET id == Min(Todo(c))
     IN  /\ call[c].todo[id] # Malformed
         /\ cache' = [cache EXCEPT ![id] = call[c].todo[Max(Todo(c))]]
  /\ call' = [call EXCEPT ![c].todo = WithoutFirst(@)]
  /\ UNCHANGED <<chainVars, forced, client, pc, out, auxVars>>

Fill(c) ==
  /\ pc[c] = "fill" /\ Todo(c) # {}
  /\ LET id == Min(Todo(c))
     IN  /\ call[c].todo[id] # Malformed
         /\ cache' = [cache EXCEPT ![id] = call[c].todo[id]]
  /\ call' = [call EXCEPT ![c].todo = WithoutFirst(@)]
  /\ UNCHANGED <<chainVars, forced, client, pc, out, auxVars>>

\* A refresh ends; others that overlap with it are as old as it is.
RefreshEnds(c) ==
  auxSince' = [d \in Callers |->
    IF d = c THEN {}
    ELSE IF pc[d] = "fill" THEN auxSince[d] \union auxSince[c]
    ELSE auxSince[d]]

\* A call fails and is forgotten, and with the first one there is no client.
CallFails(c) ==
  /\ Begin(c, "direct", Absent)
  /\ Return(c, "error", Absent)
  /\ client' = IF call[c].kind = "new" THEN "failed" ELSE client
  /\ UNCHANGED <<chainVars, forced, cache, auxEver>>

FillFails(c) ==
  /\ pc[c] = "fill" /\ Todo(c) # {}
  /\ call[c].todo[Min(Todo(c))] = Malformed
  /\ CallFails(c)
  /\ RefreshEnds(c)
  /\ auxStale' = auxStale \union auxSince[c]

Filled(c) ==
  /\ pc[c] = "fill" /\ Todo(c) = {}
  /\ IF call[c].kind = "new"
     THEN client' = "ready" /\ Return(c, "ok", Absent)
     ELSE client' = client /\ Goto(c, "again")
  /\ RefreshEnds(c)
  /\ auxStale' = auxSince[c]
  /\ UNCHANGED <<chainVars, forced, cache, call, auxEver, auxHomes, auxGone>>

RequestFails(c) ==
  /\ pc[c] \in {"bucket", "family", "list"}
  /\ CallFails(c)
  /\ UNCHANGED <<auxSince, auxStale>>

\* The callers that are about to read or write the map.
AtMap == {c \in Callers : pc[c] \in {"lookup", "again", "fill"}}
Racing == \E c \in AtMap, d \in AtMap : c # d /\ pc[c] = "fill" /\ Todo(c) # {}

\* Go's runtime kills a process that writes a map another thread uses.
MapRace ==
  /\ Racing
  /\ client' = "dead"
  /\ cache' = [id \in SPs |-> Absent]
  /\ pc' = [c \in Callers |-> "idle"]
  /\ call' = [c \in Callers |-> Idle]
  /\ out' = [c \in Callers |-> NoResult]
  /\ auxHomes' = [c \in Callers |-> {}]
  /\ auxGone' = [c \in Callers |-> {}]
  /\ auxSince' = [c \in Callers |-> {}]
  /\ UNCHANGED <<chainVars, forced, auxEver, auxStale>>

-----------------------------------------------------------------------------
(* The chain.                                                               *)

ChainChanges == changes < MaxChanges /\ changes' = changes + 1

\* The callers that have not read their SP yet.
Asking == {c \in Callers : pc[c] \in {"bucket", "family"}}

\* The endpoint of an SP becomes r; no two SPs on chain have one operator.
Change(id, r) ==
  /\ ChainChanges
  /\ r # chain[id]
  /\ chain' = [chain EXCEPT ![id] = r]
  /\ auxEver' = [auxEver EXCEPT ![id] =
                   IF r = Absent THEN @ ELSE @ \union {r}]
  /\ auxGone' = [c \in Callers |->
                   IF r = Absent /\ pc[c] # "idle" /\ ByBucket(c)
                   THEN auxGone[c] \union {id} ELSE auxGone[c]]
  /\ auxSince' = [c \in Callers |->
                    IF pc[c] = "fill"
                    THEN auxSince[c] \union {id} ELSE auxSince[c]]
  /\ auxStale' = auxStale \union {id}
  /\ UNCHANGED <<family, primary, clientVars, callVars, auxHomes>>

RegisterOrEdit(id) ==
  /\ \A other \in SPs \ {id} : OnChain(other) => Operator[other] # Operator[id]
  /\ \E endpoint \in Registered : Change(id, endpoint)

Exit(id) == Change(id, Absent)

\* The bucket is migrated to another family.
Migrate(f) ==
  /\ ChainChanges
  /\ f # family
  /\ family' = f
  /\ auxHomes' = [c \in Callers |->
       IF c \in Asking THEN auxHomes[c] \union {primary[f]} ELSE auxHomes[c]]
  /\ UNCHANGED <<chain, primary, clientVars, callVars,
                 auxEver, auxGone, auxSince, auxStale>>

\* A family gets another primary SP; callers that were told the family ask for it.
SwapPrimary(f, id) ==
  /\ ChainChanges
  /\ id # primary[f]
  /\ primary' = [primary EXCEPT ![f] = id]
  /\ auxHomes' = [c \in Callers |->
       IF c \in Asking /\ (f = family \/ f = call[c].want)
       THEN auxHomes[c] \union {id} ELSE auxHomes[c]]
  /\ UNCHANGED <<chain, family, clientVars, callVars,
                 auxEver, auxGone, auxSince, auxStale>>

CallStep(c) ==
  \/ ReadFamily(c) \/ ReadPrimary(c)
  \/ LookupHit(c) \/ LookupMiss(c) \/ LookupAgainMiss(c)
  \/ ListSPs(c) \/ Fill(c) \/ FillFails(c) \/ Filled(c)
  \/ RequestFails(c)

Next ==
  \/ \E c \in Callers :
       \/ New(c) \/ Download(c) \/ Upload(c) \/ RouteToAny(c)
       \/ \E id \in SPs : RouteByID(c, id) \/ RouteByAddr(c, Operator[id])
       \/ CallStep(c)
  \/ MapRace
  \/ \E id \in SPs : RegisterOrEdit(id) \/ Exit(id)
  \/ \E f \in Families : Migrate(f) \/ \E id \in SPs : SwapPrimary(f, id)

Spec == Init /\ [][Next]_vars

-----------------------------------------------------------------------------
(* What routing promises.                                                   *)

\* What the listing of the SPs may say.
Todos == UNION {[ids -> Endpoints \union {Malformed}] : ids \in SUBSET SPs}

CallState ==
  [kind : Kinds,
   want : SPs \union {Operator[id] : id \in SPs} \union Families \union {Absent},
   todo : Todos]

\* The variables hold values of their types: a malformed endpoint never gets
\* into the map.
TypeOK ==
  /\ chain \in [SPs -> Registered \union {Absent}]
  /\ family \in Families
  /\ primary \in [Families -> SPs]
  /\ forced \in ForcedTo
  /\ client \in {"none", "new", "ready", "failed", "dead"}
  /\ cache \in [SPs -> Endpoints \union {Absent}]
  /\ pc \in [Callers -> {"idle", "bucket", "family", "lookup", "list", "fill", "again"}]
  /\ call \in [Callers -> CallState]
  /\ out \in [Callers -> [status : {"none", "ok", "notOnChain", "error"},
                          endpoint : Endpoints \union {Absent}]]
  /\ changes \in 0..MaxChanges
  /\ auxEver \in [SPs -> SUBSET (Endpoints \union {Malformed})]
  /\ auxHomes \in [Callers -> SUBSET SPs]
  /\ auxGone \in [Callers -> SUBSET SPs]
  /\ auxSince \in [Callers -> SUBSET SPs]
  /\ auxStale \subseteq SPs

(***************************************************************************)
(* A request goes to an endpoint that the wanted SP has, or had once, and  *)
(* never to that of another SP.  The SP wanted for a bucket was, at some   *)
(* time of the call, the primary SP of its family, or of the family it was *)
(* in when the call asked and may have left since; so the call may go to   *)
(* an SP that never was the bucket's, but to none from before the call.    *)
(***************************************************************************)
RoutedToWanted ==
  \A c \in Callers :
    pc[c] = "idle" /\ out[c].status = "ok" /\ call[c].want # Absent =>
      \E id \in SPs :
        /\ out[c].endpoint \in auxEver[id]
        /\ call[c].want = IF call[c].kind = "address" THEN Operator[id] ELSE id
        /\ ByBucket(c) => id \in auxHomes[c]

(***************************************************************************)
(* A bucket's SP is reported as not on chain only if it was not there at   *)
(* some time of the call, though the map may be older than the SP.         *)
(***************************************************************************)
BucketMissIsTrue ==
  \A c \in Callers :
    pc[c] = "idle" /\ ByBucket(c) /\ out[c].status = "notOnChain"
      => call[c].want \in auxGone[c]

(***************************************************************************)
(* Between refreshes, the map's entry of an SP that is on chain is out of  *)
(* date only if the SP changed since the last complete refresh, or since   *)
(* one that overlapped with it.  (An SP that has left the chain keeps its  *)
(* entry: no refresh removes one.)                                         *)
(***************************************************************************)
RefreshIsCurrent ==
  (client = "ready" /\ \A c \in Callers : pc[c] # "fill") =>
    \A id \in SPs : OnChain(id) /\ cache[id] # Absent /\ id \notin auxStale
      => chain[id] = cache[id]

(***************************************************************************)
(* The inductive invariant that they follow from.                          *)
(***************************************************************************)

\* What is on chain, in the map, or listed by a refresh, was once on chain.
KnownWasOnChain ==
  \A id \in SPs :
    /\ OnChain(id) => chain[id] \in auxEver[id]
    /\ cache[id] # Absent => cache[id] \in auxEver[id]
    /\ \A c \in Callers : id \in Todo(c) => call[c].todo[id] \in auxEver[id]

\* Where the calls of each kind may be, and what they want.
CallProgress ==
  \A c \in Callers :
    /\ client = "none" => pc[c] = "idle"
    /\ call[c].kind \in {"new", "direct"} => call[c].want = Absent
    /\ pc[c] \in {"bucket", "family", "again"} => ByBucket(c)
    /\ pc[c] = "family" => call[c].want \in Families
    /\ pc[c] \in {"list", "fill"} => ByBucket(c) \/ call[c].kind = "new"
    /\ ByBucket(c) /\ pc[c] \in {"lookup", "list", "fill", "again"} =>
         call[c].want \in SPs

\* The primary SPs of the bucket's family, and of the family that a call was told, are
\* noted until it reads one of them.
HomesAreNoted ==
  \A c \in Callers :
    /\ pc[c] \in {"bucket", "family"} => primary[family] \in auxHomes[c]
    /\ pc[c] = "family" => primary[call[c].want] \in auxHomes[c]
    /\ ByBucket(c) /\ pc[c] \in {"lookup", "list", "fill", "again"} =>
         call[c].want \in auxHomes[c]

\* A client that is ready, or has calls, is not forced to a malformed endpoint.
ForcedIsURL ==
  forced = Malformed =>
    client \in {"none", "failed"} /\ \A c \in Callers : pc[c] = "idle"

\* An SP that is not on chain during a call by bucket is noted.
GoneIsNoted ==
  \A c \in Callers : pc[c] # "idle" /\ ByBucket(c) => Offline \subseteq auxGone[c]

\* The refresh of a call has listed the SP it wants, unless it was not on chain.
WantedIsListed ==
  \A c \in Callers :
    ByBucket(c) /\ pc[c] \in {"fill", "again"} =>
      \/ call[c].want \in auxGone[c]
      \/ cache[call[c].want] # Absent
      \/ pc[c] = "fill" /\ call[c].want \in Todo(c)

\* The SPs that changed while some refresh, which has listed them, runs.
Dirty == {id \in SPs : \E c \in Callers : id \in auxSince[c]}

OnlyRefreshesAge == \A c \in Callers : pc[c] # "fill" => auxSince[c] = {}

\* A refresh has what is on chain for the SPs that did not change since it listed
\* them, in what it is still to put into the map or in the map, where only another
\* refresh may have replaced it.
RefreshProgress ==
  \A c \in Callers : pc[c] = "fill" =>
    \A id \in SPs \ auxSince[c] :
      /\ id \in Todo(c) => call[c].todo[id] = chain[id]
      /\ OnChain(id) => id \in Todo(c) \/ cache[id] = chain[id] \/ id \in Dirty

MapIsCurrent ==
  \A id \in SPs :
    OnChain(id) /\ cache[id] # Absent /\ id \notin auxStale \union Dirty
      => chain[id] = cache[id]

IInv ==
  /\ TypeOK
  /\ KnownWasOnChain /\ CallProgress /\ RoutedToWanted
  /\ HomesAreNoted /\ GoneIsNoted /\ WantedIsListed /\ BucketMissIsTrue
  /\ OnlyRefreshesAge /\ RefreshProgress /\ MapIsCurrent

=============================================================================

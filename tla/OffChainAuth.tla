----------------------------- MODULE OffChainAuth -----------------------------
(***************************************************************************)
(* Off-chain authentication: New registers a client's public key at every  *)
(* storage provider, for the account and a domain, and the client signs    *)
(* its requests with that key instead of the account's.                    *)
(*                                                                         *)
(* In the first version an SP has one key of an account and domain, and a  *)
(* registration carries the SP's next nonce, read in a request before.  In *)
(* the second it has a set of keys, some of which a client may delete.     *)
(*                                                                         *)
(* The clients are programs, or windows, of one account and domain.  The   *)
(* SPs are external: they take a registration with the next nonce, forget  *)
(* keys that expire, go down, or keep their callers waiting.  Neither the  *)
(* status of an answer nor a failed registration is an error of New.       *)
(***************************************************************************)
EXTENDS Naturals

CONSTANTS
  Clients,    \* the programs that call New
  SPs,        \* the storage providers
  NoSP,       \* none of them
  Seeds,      \* seeds of keys
  NoKey,      \* no key
  Options,    \* what New may be called with
  MaxCalls,   \* bound: calls of one client after New
  MaxFaults   \* bound: SPs that stop answering, answers lost, keys expired

\* kind: OffChainAuthOption ("v1"), OffChainAuthOptionV2 ("v2") or neither;
\* register: ShouldRegisterPubKey; forced: the client has a fixed endpoint to
\* download from, and no list of SPs.
OptionType == [kind : {"v1", "v2", "account"}, seed : Seeds \cup {NoKey},
               register : BOOLEAN, forced : BOOLEAN]

ASSUME OptionsAssumption ==
  /\ Options \subseteq OptionType
  /\ \A o \in Options : o.kind = "account" <=> o.seed = NoKey
ASSUME NoneAssumption == NoKey \notin Seeds /\ NoSP \notin SPs
ASSUME BoundsAssumption == MaxCalls \in Nat /\ MaxFaults \in Nat

VARIABLES
  pc,      \* where each client is
  opt,     \* the option it calls New with
  todo,    \* the SPs New has not come to yet
  at,      \* the SP it registers its key at
  nonce,   \* the nonce the registration will carry
  calls,   \* its calls after New
  key,     \* each SP's key of the account, first version
  last,    \* the nonce it was registered with
  keys,    \* each SP's keys of the account, second version
  state,   \* each SP is up, down or silent
  faults   \* faults so far

\* History; no guard reads it: the SPs at which a client's key was replaced,
\* deleted or expired, or its last registration met a fault.
VARIABLE auxDisturbed

clientVars == <<pc, opt, todo, at, nonce, calls>>
spVars == <<key, last, keys>>
vars == <<clientVars, spVars, state, faults, auxDisturbed>>

-----------------------------------------------------------------------------

Init ==
  /\ pc = [c \in Clients |-> "idle"]
  /\ opt \in [Clients -> Options]
  /\ todo = [c \in Clients |-> {}]
  /\ at = [c \in Clients |-> NoSP]
  /\ nonce = [c \in Clients |-> 0]
  /\ calls = [c \in Clients |-> 0]
  /\ key = [s \in SPs |-> NoKey]
  /\ last = [s \in SPs |-> 0]
  /\ keys = [s \in SPs |-> {}]
  /\ state = [s \in SPs |-> "up"]
  /\ faults = 0
  /\ auxDisturbed = [c \in Clients |-> {}]

Goto(c, where) == pc' = [pc EXCEPT ![c] = where]

Fault == faults < MaxFaults /\ faults' = faults + 1

\* The client signs its requests with its key, or the account's if it has no
\* option: does s know it?
Accepted(c, s) ==
  /\ opt[c].kind = "v1" => key[s] = opt[c].seed
  /\ opt[c].kind = "v2" => opt[c].seed \in keys[s]

\* Clients lose their key at s.
Disturb(some, s) ==
  auxDisturbed' = [c \in Clients |-> IF c \in some THEN auxDisturbed[c] \cup {s}
                                     ELSE auxDisturbed[c]]

UsersOf(kind, seeds) == {c \in Clients : opt[c].kind = kind /\ opt[c].seed \in seeds}

\* A registration is over, whatever came of it: New goes on to the next SP, and a
\* call after New returns.
Return(c) ==
  /\ pc' = [pc EXCEPT ![c] = IF calls[c] = 0 THEN "loop" ELSE "ready"]
  /\ at' = [at EXCEPT ![c] = NoSP]
  /\ nonce' = [nonce EXCEPT ![c] = 0]
  /\ UNCHANGED <<opt, todo, calls>>

-----------------------------------------------------------------------------
(* New.                                                                     *)

\* It registers whether or not there is an option.
New_RegistersAlways(c) ==
  /\ pc[c] = "idle"
  /\ ~(opt[c].kind = "v1" /\ opt[c].forced)
  /\ todo' = [todo EXCEPT ![c] = IF opt[c].register THEN SPs ELSE {}]
  /\ Goto(c, "loop")
  /\ UNCHANGED <<opt, at, nonce, calls, spVars, state, faults, auxDisturbed>>

\* The SPs are listed, unless an endpoint is fixed, and the key is to be
\* registered at each of them.
New(c) ==
  /\ pc[c] = "idle"
  /\ ~(opt[c].kind = "v1" /\ opt[c].forced)
  /\ todo' = [todo EXCEPT ![c] =
                IF opt[c].kind # "account" /\ opt[c].register /\ ~opt[c].forced
                THEN SPs ELSE {}]
  /\ Goto(c, "loop")
  /\ UNCHANGED <<opt, at, nonce, calls, spVars, state, faults, auxDisturbed>>

\* The first version refuses a fixed endpoint; the second registers nowhere.
RefuseNew(c) ==
  /\ pc[c] = "idle"
  /\ opt[c].kind = "v1" /\ opt[c].forced
  /\ Goto(c, "refused")
  /\ UNCHANGED <<opt, todo, at, nonce, calls, spVars, state, faults, auxDisturbed>>

Start(c, s) ==
  /\ at' = [at EXCEPT ![c] = s]
  /\ Goto(c, IF opt[c].kind = "v1" THEN "nonce" ELSE "post")

\* The map of SPs has no order.
NextSP(c, s) ==
  /\ pc[c] = "loop"
  /\ s \in todo[c]
  /\ todo' = [todo EXCEPT ![c] = @ \ {s}]
  /\ Start(c, s)
  /\ UNCHANGED <<opt, nonce, calls, spVars, state, faults, auxDisturbed>>

NewReturn(c) ==
  /\ pc[c] = "loop"
  /\ todo[c] = {}
  /\ Goto(c, "ready")
  /\ UNCHANGED <<opt, todo, at, nonce, calls, spVars, state, faults, auxDisturbed>>

-----------------------------------------------------------------------------
(* RegisterEDDSAPublicKey and RegisterEDDSAPublicKeyV2.                     *)

\* A client that has its option may register its key at an SP again.
Register(c, s) ==
  /\ pc[c] = "ready"
  /\ opt[c].kind # "account"
  /\ calls[c] < MaxCalls
  /\ calls' = [calls EXCEPT ![c] = @ + 1]
  /\ Start(c, s)
  /\ UNCHANGED <<opt, todo, nonce, spVars, state, faults, auxDisturbed>>

\* The nonce of the key that is registered, not the next.
GetNextNonce_Current(c) ==
  /\ pc[c] = "nonce"
  /\ state[at[c]] = "up"
  /\ nonce' = [nonce EXCEPT ![c] = last[at[c]]]
  /\ auxDisturbed' = [auxDisturbed EXCEPT ![c] = @ \ {at[c]}]
  /\ Goto(c, "post")
  /\ UNCHANGED <<opt, todo, at, calls, spVars, state, faults>>

GetNextNonce(c) ==
  /\ pc[c] = "nonce"
  /\ state[at[c]] = "up"
  /\ nonce' = [nonce EXCEPT ![c] = last[at[c]] + 1]
  /\ auxDisturbed' = [auxDisturbed EXCEPT ![c] = @ \ {at[c]}]
  /\ Goto(c, "post")
  /\ UNCHANGED <<opt, todo, at, calls, spVars, state, faults>>

\* The SP answers with an error, whose status is not looked at: it does not
\* decode, or it decodes to no field, and nonce 0.
NonceIsError(c) ==
  /\ pc[c] = "nonce"
  /\ state[at[c]] = "up"
  /\ Fault
  /\ Disturb({c}, at[c])
  /\ \/ Return(c)
     \/ Goto(c, "post") /\ UNCHANGED <<opt, todo, at, nonce, calls>>
  /\ UNCHANGED <<spVars, state>>

\* The SP takes a registration of the first version with its next nonce, and
\* replaces the key it had.
Takes(c) == nonce[c] = last[at[c]] + 1

TakesV1(c) ==
  /\ opt[c].kind = "v1" /\ Takes(c)
  /\ key' = [key EXCEPT ![at[c]] = opt[c].seed]
  /\ last' = [last EXCEPT ![at[c]] = @ + 1]
  /\ UNCHANGED keys

\* A registration of the second version only adds to the keys.
TakesV2(c) ==
  /\ opt[c].kind # "v1"
  /\ keys' = [keys EXCEPT ![at[c]] = @ \cup {opt[c].seed}]
  /\ UNCHANGED <<key, last>>

\* The registration is posted and taken; the answer's text is returned.
Post(c) ==
  /\ pc[c] = "post"
  /\ state[at[c]] = "up"
  /\ \/ TakesV1(c) /\ Disturb(UsersOf("v1", Seeds \ {opt[c].seed}), at[c])
     \/ /\ TakesV2(c)
        /\ auxDisturbed' = [auxDisturbed EXCEPT ![c] = @ \ {at[c]}]
  /\ Return(c)
  /\ UNCHANGED <<state, faults>>

\* It is refused, and the text is returned just so.
PostRefused(c) ==
  /\ pc[c] = "post"
  /\ state[at[c]] = "up"
  /\ opt[c].kind = "v1" /\ ~Takes(c)
  /\ Return(c)
  /\ UNCHANGED <<spVars, state, faults, auxDisturbed>>

\* The connection breaks, after the SP took it or before.
PostLost(c) ==
  /\ pc[c] = "post"
  /\ state[at[c]] = "up"
  /\ Fault
  /\ \/ TakesV1(c) /\ Disturb(UsersOf("v1", Seeds \ {opt[c].seed}) \cup {c}, at[c])
     \/ TakesV2(c) /\ Disturb({c}, at[c])
     \/ UNCHANGED spVars /\ Disturb({c}, at[c])
  /\ Return(c)
  /\ UNCHANGED state

\* A failed registration is tried again.
RequestFails_TriesAgain(c) ==
  /\ pc[c] \in {"nonce", "post"}
  /\ state[at[c]] = "down"
  /\ Goto(c, IF opt[c].kind = "v1" THEN "nonce" ELSE "post")
  /\ auxDisturbed' = [auxDisturbed EXCEPT ![c] = @ \cup {at[c]}]
  /\ UNCHANGED <<opt, todo, at, nonce, calls, spVars, state, faults>>

\* There is no connection: New logs it, another caller gets the error.
RequestFails(c) ==
  /\ pc[c] \in {"nonce", "post"}
  /\ state[at[c]] = "down"
  /\ Disturb({c}, at[c])
  /\ Return(c)
  /\ UNCHANGED <<spVars, state, faults>>

\* A client deletes keys of the second version.  One whose signature the SP does
\* not accept is told "false" and no error, like one whose answer does not arrive.
DeleteUserPublicKeyV2(c, s, seeds) ==
  /\ pc[c] = "ready"
  /\ calls[c] < MaxCalls
  /\ calls' = [calls EXCEPT ![c] = @ + 1]
  /\ state[s] = "up" /\ Accepted(c, s)
  /\ keys' = [keys EXCEPT ![s] = @ \ seeds]
  /\ Disturb(UsersOf("v2", seeds), s)
  /\ UNCHANGED <<pc, opt, todo, at, nonce, key, last, state, faults>>

-----------------------------------------------------------------------------
(* The storage providers.                                                   *)

\* A day after its registration a key expires; no client registers it again by
\* itself.
Expire(s, seed) ==
  /\ Fault
  /\ \/ /\ key[s] = seed
        /\ key' = [key EXCEPT ![s] = NoKey]
        /\ Disturb(UsersOf("v1", {seed}), s)
        /\ UNCHANGED keys
     \/ /\ seed \in keys[s]
        /\ keys' = [keys EXCEPT ![s] = @ \ {seed}]
        /\ Disturb(UsersOf("v2", {seed}), s)
        /\ UNCHANGED key
  /\ UNCHANGED <<clientVars, last, state>>

\* An SP goes down, or is there and does not answer.
Stops(s, how) ==
  /\ Fault
  /\ state[s] = "up"
  /\ state' = [state EXCEPT ![s] = how]
  /\ UNCHANGED <<clientVars, spVars, auxDisturbed>>

Recovers(s) ==
  /\ state[s] # "up"
  /\ state' = [state EXCEPT ![s] = "up"]
  /\ UNCHANGED <<clientVars, spVars, faults, auxDisturbed>>

-----------------------------------------------------------------------------

\* What a registration or New does without being asked.
Step(c) ==
  \/ \E s \in SPs : NextSP(c, s)
  \/ NewReturn(c)
  \/ GetNextNonce(c)
  \/ NonceIsError(c)
  \/ Post(c)
  \/ PostRefused(c)
  \/ PostLost(c)
  \/ RequestFails(c)

Call(c) ==
  \/ New(c)
  \/ RefuseNew(c)
  \/ \E s \in SPs : Register(c, s)
  \/ \E s \in SPs, seeds \in SUBSET Seeds : DeleteUserPublicKeyV2(c, s, seeds)

Environment ==
  \E s \in SPs :
    \/ \E seed \in Seeds : Expire(s, seed)
    \/ \E how \in {"down", "silent"} : Stops(s, how)
    \/ Recovers(s)

Next == (\E c \in Clients : Step(c) \/ Call(c)) \/ Environment

\* A client that has begun goes on; an SP that is up answers.
Fairness == \A c \in Clients : WF_vars(Step(c))

Spec == Init /\ [][Next]_vars /\ Fairness

-----------------------------------------------------------------------------
(* Properties.                                                              *)

\* The state stays in its types: a client without an option registers nothing.
TypeOK ==
  /\ pc \in [Clients -> {"idle", "refused", "loop", "nonce", "post", "ready"}]
  /\ opt \in [Clients -> Options]
  /\ todo \in [Clients -> SUBSET SPs]
  /\ at \in [Clients -> SPs \cup {NoSP}]
  /\ \A c \in Clients : at[c] = NoSP <=> pc[c] \notin {"nonce", "post"}
  /\ nonce \in [Clients -> Nat]
  /\ calls \in [Clients -> 0..MaxCalls]
  /\ key \in [SPs -> Seeds \cup {NoKey}]
  /\ last \in [SPs -> Nat]
  /\ keys \in [SPs -> SUBSET Seeds]
  /\ state \in [SPs -> {"up", "down", "silent"}]
  /\ faults \in 0..MaxFaults
  /\ auxDisturbed \in [Clients -> SUBSET SPs]

\* A client that was to register its key is accepted at every SP, unless at that
\* SP a request of the registration went wrong, or the key expired, was deleted
\* or, in the first version, replaced by another client's after the nonce was
\* read: races of registrations, and what happens at other SPs, do no more harm.
AcceptedIfUndisturbed ==
  \A c \in Clients, s \in SPs :
    pc[c] = "ready" /\ opt[c].register /\ ~opt[c].forced =>
      Accepted(c, s) \/ s \in auxDisturbed[c]

\* The inductive invariant that AcceptedIfUndisturbed follows from: a client
\* without an option registers nothing, a nonce that was read is still the next
\* one, unless a fault or another client came between, and what New has behind it
\* is accepted or disturbed.
OnlyWithOption ==
  \A c \in Clients :
    /\ opt[c].kind = "account" => todo[c] = {} /\ at[c] = NoSP
    /\ pc[c] = "nonce" => opt[c].kind = "v1"

NonceIsNext ==
  \A c \in Clients :
    pc[c] = "post" /\ opt[c].kind = "v1" =>
      \/ at[c] \in auxDisturbed[c]
      \/ nonce[c] = last[at[c]] + 1
      \/ key[at[c]] = opt[c].seed

Done(c, s) ==
  /\ opt[c].register /\ ~opt[c].forced
  /\ pc[c] \notin {"idle", "refused"}
  /\ s \notin todo[c] /\ s # at[c]

DoneIsAccepted ==
  \A c \in Clients, s \in SPs :
    Done(c, s) => Accepted(c, s) \/ s \in auxDisturbed[c]

ReadyIsDone ==
  \A c \in Clients :
    /\ pc[c] = "ready" \/ calls[c] > 0 => todo[c] = {}
    /\ pc[c] = "idle" => calls[c] = 0

IInv ==
  TypeOK /\ OnlyWithOption /\ NonceIsNext /\ DoneIsAccepted /\ ReadyIsDone

\* New returns though SPs refuse, fail or are down, as long as none keeps it
\* waiting: its requests have no time limit.
NewReturns ==
  \A c \in Clients :
    pc[c] = "loop" ~> pc[c] = "ready" \/ \E s \in SPs : state[s] = "silent"

=============================================================================

------------------------- MODULE OffChainAuth_proofs -------------------------
(***************************************************************************)
(* Proofs about OffChainAuth, for every number of clients, storage         *)
(* providers and seeds, and any calls and faults.                          *)
(***************************************************************************)
EXTENDS OffChainAuth, TLAPS

-----------------------------------------------------------------------------
(* Helpers.                                                                 *)

\* A disturbance is recorded for the clients it is about, and for no SP but s.
LEMMA DisturbType ==
  ASSUME TypeOK, NEW some, NEW s \in SPs, Disturb(some, s)
  PROVE  auxDisturbed' \in [Clients -> SUBSET SPs]
  BY DEF TypeOK, Disturb

\* Nothing that was disturbed becomes undisturbed, and what is disturbed now is.
LEMMA DisturbAdds ==
  ASSUME TypeOK, NEW some, NEW s \in SPs, Disturb(some, s), NEW d \in Clients
  PROVE  /\ auxDisturbed[d] \subseteq auxDisturbed'[d]
         /\ d \in some => s \in auxDisturbed'[d]
  BY DEF TypeOK, Disturb

\* Returning from a registration keeps the types of the client's variables.
LEMMA ReturnType ==
  ASSUME TypeOK, NEW c \in Clients, Return(c)
  PROVE  /\ pc' \in [Clients -> {"idle", "refused", "loop", "nonce", "post", "ready"}]
         /\ opt' \in [Clients -> Options]
         /\ todo' \in [Clients -> SUBSET SPs]
         /\ at' \in [Clients -> SPs \cup {NoSP}]
         /\ \A d \in Clients : at'[d] = NoSP <=> pc'[d] \notin {"nonce", "post"}
         /\ nonce' \in [Clients -> Nat]
         /\ calls' \in [Clients -> 0..MaxCalls]
  BY DEF TypeOK, Return

\* A client that is in a registration has an SP, and a seed of its own.
LEMMA AtSP ==
  ASSUME TypeOK, NEW c \in Clients, pc[c] \in {"nonce", "post"}
  PROVE  at[c] \in SPs
  BY DEF TypeOK

\* Taking a registration keeps the types of the SPs' variables.
LEMMA TakesType ==
  ASSUME TypeOK, OnlyWithOption, NEW c \in Clients, pc[c] = "post",
         TakesV1(c) \/ TakesV2(c)
  PROVE  /\ key' \in [SPs -> Seeds \cup {NoKey}]
         /\ last' \in [SPs -> Nat]
         /\ keys' \in [SPs -> SUBSET Seeds]
<1>1. at[c] \in SPs
  BY AtSP
<1>2. opt[c] \in Options /\ at[c] # NoSP
  BY <1>1, NoneAssumption DEF TypeOK
<1>3. opt[c].seed \in Seeds
  BY <1>2, OptionsAssumption DEF OnlyWithOption, OptionType
<1>4. CASE TakesV1(c)
  BY <1>1, <1>3, <1>4 DEF TypeOK, TakesV1
<1>5. CASE TakesV2(c)
  BY <1>1, <1>3, <1>5 DEF TypeOK, TakesV2
<1> QED
  BY <1>4, <1>5

\* What an SP accepts depends on nothing but its keys.
LEMMA AcceptedSame ==
  ASSUME NEW d \in Clients, NEW r \in SPs, UNCHANGED <<opt, spVars>>
  PROVE  Accepted(d, r)' <=> Accepted(d, r)
  BY DEF Accepted, spVars

\* What changes in a client's registration does not concern the others.
LEMMA ReturnDone ==
  ASSUME TypeOK, ReadyIsDone, NEW c \in Clients, Return(c),
         pc[c] \in {"nonce", "post"},
         NEW d \in Clients, NEW r \in SPs, Done(d, r)'
  PROVE  Done(d, r) \/ (d = c /\ r = at[c])
  BY NoneAssumption DEF TypeOK, Return, Done, ReadyIsDone

\* A registration that ends, leaves what an SP has as it is and disturbs its own
\* client only leaves done what was done.
LEMMA ReturnKeepsDone ==
  ASSUME IInv, NEW c \in Clients, Return(c), pc[c] \in {"nonce", "post"},
         UNCHANGED spVars, Disturb({c}, at[c])
  PROVE  DoneIsAccepted'
<1> SUFFICES ASSUME NEW d \in Clients, NEW r \in SPs, Done(d, r)'
             PROVE  Accepted(d, r)' \/ r \in auxDisturbed'[d]
  BY DEF DoneIsAccepted
<1>1. at[c] \in SPs
  BY AtSP DEF IInv
<1>2. auxDisturbed[d] \subseteq auxDisturbed'[d] /\ (d = c => at[c] \in auxDisturbed'[d])
  BY <1>1, DisturbAdds DEF IInv
<1>3. CASE d = c /\ r = at[c]
  BY <1>2, <1>3
<1>4. CASE Done(d, r)
  <2>1. Accepted(d, r)' <=> Accepted(d, r)
    BY AcceptedSame DEF Return
  <2> QED
    BY <1>2, <1>4, <2>1 DEF IInv, DoneIsAccepted
<1> QED
  BY <1>3, <1>4, ReturnDone DEF IInv

\* A registration of the first version makes its client accepted; whoever loses
\* the key by it is disturbed.
LEMMA TakenV1Keeps ==
  ASSUME IInv, NEW c \in Clients, at[c] \in SPs, TakesV1(c), UNCHANGED opt,
         NEW more, UsersOf("v1", Seeds \ {opt[c].seed}) \subseteq more,
         Disturb(more, at[c]),
         NEW d \in Clients, NEW r \in SPs, Done(d, r) \/ (d = c /\ r = at[c])
  PROVE  Accepted(d, r)' \/ r \in auxDisturbed'[d]
<1>1. /\ key'[at[c]] = opt[c].seed
      /\ r # at[c] => key'[r] = key[r]
      /\ keys' = keys /\ opt' = opt
  BY DEF TakesV1, IInv, TypeOK
<1>2. /\ auxDisturbed[d] \subseteq auxDisturbed'[d]
      /\ d \in more => at[c] \in auxDisturbed'[d]
  BY DisturbAdds DEF IInv
<1>3. CASE d = c /\ r = at[c]
  BY <1>1, <1>3 DEF Accepted, TakesV1
<1>4. CASE Done(d, r)
  <2>1. Accepted(d, r) \/ r \in auxDisturbed[d]
    BY <1>4 DEF IInv, DoneIsAccepted
  <2>2. CASE opt[d].kind = "v1" /\ r = at[c]
    <3>1. opt[d].seed \in Seeds
      BY <2>2, OptionsAssumption DEF IInv, TypeOK, OptionType
    <3>2. CASE opt[d].seed = opt[c].seed
      BY <1>1, <2>2, <3>2 DEF Accepted
    <3>3. CASE opt[d].seed # opt[c].seed
      BY <1>2, <2>2, <3>1, <3>3 DEF UsersOf
    <3> QED
      BY <3>2, <3>3
  <2>3. CASE opt[d].kind # "v1" \/ r # at[c]
    BY <1>1, <1>2, <2>1, <2>3 DEF Accepted
  <2> QED
    BY <2>2, <2>3
<1> QED
  BY <1>3, <1>4

\* One of the second version makes its client accepted and takes nobody's key.
LEMMA TakenV2Keeps ==
  ASSUME IInv, NEW c \in Clients, at[c] \in SPs, TakesV2(c), UNCHANGED opt,
         NEW d \in Clients, NEW r \in SPs
  PROVE  /\ Accepted(d, r) => Accepted(d, r)'
         /\ d = c /\ r = at[c] => Accepted(d, r)'
<1>1. /\ keys[r] \subseteq keys'[r]
      /\ opt[c].seed \in keys'[at[c]]
      /\ key' = key /\ opt' = opt
  BY DEF TakesV2, IInv, TypeOK
<1>2. opt[c].kind = "v2"
  BY NoneAssumption, OptionsAssumption
     DEF TakesV2, IInv, OnlyWithOption, TypeOK, OptionType
<1> QED
  BY <1>1, <1>2 DEF Accepted

\* It leaves the nonces of other clients what they were, for those it does not
\* disturb.
LEMMA TakenV1Nonces ==
  ASSUME IInv, NEW c \in Clients, at[c] \in SPs, TakesV1(c),
         NEW more, UsersOf("v1", Seeds \ {opt[c].seed}) \subseteq more,
         Disturb(more, at[c]),
         NEW d \in Clients, pc[d] = "post", opt[d].kind = "v1"
  PROVE  \/ at[d] \in auxDisturbed'[d]
         \/ nonce[d] = last'[at[d]] + 1
         \/ key'[at[d]] = opt[d].seed
<1>1. /\ key'[at[c]] = opt[c].seed
      /\ at[d] # at[c] => key'[at[d]] = key[at[d]] /\ last'[at[d]] = last[at[d]]
  BY DEF TakesV1, IInv, TypeOK
<1>2. /\ auxDisturbed[d] \subseteq auxDisturbed'[d]
      /\ d \in more => at[c] \in auxDisturbed'[d]
  BY DisturbAdds DEF IInv
<1>3. CASE at[d] # at[c]
  BY <1>1, <1>2, <1>3 DEF IInv, NonceIsNext
<1>4. CASE at[d] = at[c]
  <2>1. opt[d].seed \in Seeds
    BY OptionsAssumption DEF IInv, TypeOK, OptionType
  <2>2. CASE opt[d].seed = opt[c].seed
    BY <1>1, <1>4, <2>2
  <2>3. CASE opt[d].seed # opt[c].seed
    BY <1>2, <1>4, <2>1, <2>3 DEF UsersOf
  <2> QED
    BY <2>2, <2>3
<1> QED
  BY <1>3, <1>4

-----------------------------------------------------------------------------
(* One lemma for each action.                                               *)

\* New's beginning keeps the invariant: nothing is registered yet.
LEMMA NewKeeps ==
  ASSUME IInv, NEW c \in Clients, New(c)
  PROVE  IInv'
<1>1. TypeOK'
  BY NoneAssumption DEF New, Goto, spVars, IInv, TypeOK
<1>2. OnlyWithOption'
  BY NoneAssumption DEF New, Goto, spVars, IInv, TypeOK, OnlyWithOption
<1>3. NonceIsNext'
  BY NoneAssumption DEF New, Goto, spVars, IInv, TypeOK, OnlyWithOption,
       NonceIsNext
<1>4. DoneIsAccepted'
  <2> SUFFICES ASSUME NEW d \in Clients, NEW r \in SPs, Done(d, r)'
               PROVE  Accepted(d, r)' \/ r \in auxDisturbed'[d]
    BY DEF DoneIsAccepted
  <2>1. Accepted(d, r)' <=> Accepted(d, r)
    BY AcceptedSame DEF New
  <2>2. CASE d # c
    BY <2>1, <2>2 DEF New, Goto, IInv, TypeOK, DoneIsAccepted, Done
  <2>3. CASE d = c
    BY <2>3 DEF New, Goto, IInv, TypeOK, Done, Accepted
  <2> QED
    BY <2>2, <2>3
<1>5. ReadyIsDone'
  BY DEF New, Goto, spVars, IInv, TypeOK, ReadyIsDone
<1> QED
  BY <1>1, <1>2, <1>3, <1>4, <1>5 DEF IInv

\* So does a New that is refused.
LEMMA RefuseNewKeeps ==
  ASSUME IInv, NEW c \in Clients, RefuseNew(c)
  PROVE  IInv'
<1>1. TypeOK'
  BY DEF RefuseNew, Goto, spVars, IInv, TypeOK
<1>2. OnlyWithOption'
  BY DEF RefuseNew, Goto, spVars, IInv, TypeOK, OnlyWithOption
<1>3. NonceIsNext'
  BY DEF RefuseNew, Goto, spVars, IInv, TypeOK, OnlyWithOption, NonceIsNext
<1>4. DoneIsAccepted'
  <2> SUFFICES ASSUME NEW d \in Clients, NEW r \in SPs, Done(d, r)'
               PROVE  Accepted(d, r)' \/ r \in auxDisturbed'[d]
    BY DEF DoneIsAccepted
  <2>1. Accepted(d, r)' <=> Accepted(d, r)
    BY AcceptedSame DEF RefuseNew
  <2>2. Done(d, r)
    BY DEF RefuseNew, Goto, Done, IInv, TypeOK, ReadyIsDone
  <2> QED
    BY <2>1, <2>2 DEF RefuseNew, IInv, DoneIsAccepted
<1>5. ReadyIsDone'
  BY DEF RefuseNew, Goto, spVars, IInv, TypeOK, ReadyIsDone
<1> QED
  BY <1>1, <1>2, <1>3, <1>4, <1>5 DEF IInv

\* The next SP is taken from those New has not come to, so nothing is done yet.
LEMMA NextSPKeeps ==
  ASSUME IInv, NEW c \in Clients, NEW s \in SPs, NextSP(c, s)
  PROVE  IInv'
<1>1. TypeOK'
  BY NoneAssumption DEF NextSP, Start, Goto, spVars, IInv, TypeOK
<1>2. OnlyWithOption'
  BY NoneAssumption DEF NextSP, Start, Goto, spVars, IInv, TypeOK,
       OnlyWithOption
<1>3. NonceIsNext'
  BY NoneAssumption DEF NextSP, Start, Goto, spVars, IInv, TypeOK,
       OnlyWithOption, NonceIsNext
<1>4. DoneIsAccepted'
  <2> SUFFICES ASSUME NEW d \in Clients, NEW r \in SPs, Done(d, r)'
               PROVE  Accepted(d, r)' \/ r \in auxDisturbed'[d]
    BY DEF DoneIsAccepted
  <2>1. Accepted(d, r)' <=> Accepted(d, r)
    BY AcceptedSame DEF NextSP
  <2>2. Done(d, r)
    BY NoneAssumption DEF NextSP, Start, Goto, Done, IInv, TypeOK, ReadyIsDone
  <2> QED
    BY <2>1, <2>2 DEF NextSP, IInv, DoneIsAccepted
<1>5. ReadyIsDone'
  BY DEF NextSP, Start, Goto, spVars, IInv, TypeOK, ReadyIsDone
<1> QED
  BY <1>1, <1>2, <1>3, <1>4, <1>5 DEF IInv

\* New returns when it has come to every SP.
LEMMA NewReturnKeeps ==
  ASSUME IInv, NEW c \in Clients, NewReturn(c)
  PROVE  IInv'
<1>1. TypeOK'
  BY DEF NewReturn, Goto, spVars, IInv, TypeOK
<1>2. OnlyWithOption'
  BY DEF NewReturn, Goto, spVars, IInv, TypeOK, OnlyWithOption
<1>3. NonceIsNext'
  BY DEF NewReturn, Goto, spVars, IInv, TypeOK, OnlyWithOption, NonceIsNext
<1>4. DoneIsAccepted'
  <2> SUFFICES ASSUME NEW d \in Clients, NEW r \in SPs, Done(d, r)'
               PROVE  Accepted(d, r)' \/ r \in auxDisturbed'[d]
    BY DEF DoneIsAccepted
  <2>1. Accepted(d, r)' <=> Accepted(d, r)
    BY AcceptedSame DEF NewReturn
  <2>2. Done(d, r)
    BY DEF NewReturn, Goto, Done, IInv, TypeOK, ReadyIsDone
  <2> QED
    BY <2>1, <2>2 DEF NewReturn, IInv, DoneIsAccepted
<1>5. ReadyIsDone'
  BY DEF NewReturn, Goto, spVars, IInv, TypeOK, ReadyIsDone
<1> QED
  BY <1>1, <1>2, <1>3, <1>4, <1>5 DEF IInv

\* A call after New starts like New does.
LEMMA RegisterKeeps ==
  ASSUME IInv, NEW c \in Clients, NEW s \in SPs, Register(c, s)
  PROVE  IInv'
<1>1. TypeOK'
  BY NoneAssumption, BoundsAssumption
     DEF Register, Start, Goto, spVars, IInv, TypeOK
<1>2. OnlyWithOption'
  BY NoneAssumption DEF Register, Start, Goto, spVars, IInv, TypeOK,
       OnlyWithOption
<1>3. NonceIsNext'
  BY NoneAssumption DEF Register, Start, Goto, spVars, IInv, TypeOK,
       OnlyWithOption, NonceIsNext
<1>4. DoneIsAccepted'
  <2> SUFFICES ASSUME NEW d \in Clients, NEW r \in SPs, Done(d, r)'
               PROVE  Accepted(d, r)' \/ r \in auxDisturbed'[d]
    BY DEF DoneIsAccepted
  <2>1. Accepted(d, r)' <=> Accepted(d, r)
    BY AcceptedSame DEF Register
  <2>2. Done(d, r)
    BY NoneAssumption DEF Register, Start, Goto, Done, IInv, TypeOK, ReadyIsDone
  <2> QED
    BY <2>1, <2>2 DEF Register, IInv, DoneIsAccepted
<1>5. ReadyIsDone'
  BY DEF Register, Start, Goto, spVars, IInv, TypeOK, ReadyIsDone
<1> QED
  BY <1>1, <1>2, <1>3, <1>4, <1>5 DEF IInv

\* A nonce that was read is the next one.
LEMMA GetNextNonceKeeps ==
  ASSUME IInv, NEW c \in Clients, GetNextNonce(c)
  PROVE  IInv'
<1>1. TypeOK'
  BY NoneAssumption DEF GetNextNonce, Goto, spVars, IInv, TypeOK
<1>2. OnlyWithOption'
  BY NoneAssumption DEF GetNextNonce, Goto, spVars, IInv, TypeOK,
       OnlyWithOption
<1>3. NonceIsNext'
  BY NoneAssumption DEF GetNextNonce, Goto, spVars, IInv, TypeOK,
       OnlyWithOption, NonceIsNext
<1>4. DoneIsAccepted'
  <2> SUFFICES ASSUME NEW d \in Clients, NEW r \in SPs, Done(d, r)'
               PROVE  Accepted(d, r)' \/ r \in auxDisturbed'[d]
    BY DEF DoneIsAccepted
  <2>1. Accepted(d, r)' <=> Accepted(d, r)
    BY AcceptedSame DEF GetNextNonce
  <2>2. Done(d, r)
    BY DEF GetNextNonce, Goto, Done, IInv, TypeOK
  <2>3. r \in auxDisturbed[d] => r \in auxDisturbed'[d]
    BY <2>2 DEF GetNextNonce, Done, IInv, TypeOK
  <2> QED
    BY <2>1, <2>2, <2>3 DEF IInv, DoneIsAccepted
<1>5. ReadyIsDone'
  BY DEF GetNextNonce, Goto, spVars, IInv, TypeOK, ReadyIsDone
<1> QED
  BY <1>1, <1>2, <1>3, <1>4, <1>5 DEF IInv

\* An error taken for a nonce, or ending the registration, is a fault of this client.
LEMMA NonceIsErrorKeeps ==
  ASSUME IInv, NEW c \in Clients, NonceIsError(c)
  PROVE  IInv'
<1>1. TypeOK'
  <2>1. at[c] \in SPs
    BY AtSP DEF NonceIsError, IInv
  <2>2. auxDisturbed' \in [Clients -> SUBSET SPs]
    BY <2>1, DisturbType DEF NonceIsError, IInv
  <2>3. faults' \in 0..MaxFaults
    BY BoundsAssumption DEF NonceIsError, Fault, IInv, TypeOK
  <2>4. CASE Return(c)
    BY <2>2, <2>3, <2>4, ReturnType DEF NonceIsError, IInv, TypeOK, spVars
  <2>5. CASE Goto(c, "post") /\ UNCHANGED <<opt, todo, at, nonce, calls>>
    BY <2>2, <2>3, <2>5 DEF NonceIsError, Goto, IInv, TypeOK, spVars
  <2> QED
    BY <2>4, <2>5 DEF NonceIsError
<1>2. OnlyWithOption'
  BY NoneAssumption DEF NonceIsError, Goto, Return, Disturb, Fault, spVars,
       IInv, TypeOK, OnlyWithOption
<1>3. NonceIsNext'
  BY NoneAssumption DEF NonceIsError, Goto, Return, Disturb, Fault, spVars,
       IInv, TypeOK, OnlyWithOption, NonceIsNext
<1>4. DoneIsAccepted'
  <2>1. CASE Return(c)
    BY <2>1, ReturnKeepsDone DEF NonceIsError
  <2>2. CASE Goto(c, "post") /\ UNCHANGED <<opt, todo, at, nonce, calls>>
    <3> SUFFICES ASSUME NEW d \in Clients, NEW r \in SPs, Done(d, r)'
                 PROVE  Accepted(d, r)' \/ r \in auxDisturbed'[d]
      BY DEF DoneIsAccepted
    <3>1. Accepted(d, r)' <=> Accepted(d, r)
      BY <2>2, AcceptedSame DEF NonceIsError
    <3>2. Done(d, r)
      BY <2>2 DEF NonceIsError, Goto, Done, IInv, TypeOK
    <3>3. at[c] \in SPs
      BY AtSP DEF NonceIsError, IInv
    <3>4. auxDisturbed[d] \subseteq auxDisturbed'[d]
      BY <3>3, DisturbAdds DEF NonceIsError, IInv
    <3> QED
      BY <3>1, <3>2, <3>4 DEF IInv, DoneIsAccepted
  <2> QED
    BY <2>1, <2>2 DEF NonceIsError
<1>5. ReadyIsDone'
  BY DEF NonceIsError, Goto, Return, Disturb, Fault, spVars, IInv, TypeOK,
       ReadyIsDone
<1> QED
  BY <1>1, <1>2, <1>3, <1>4, <1>5 DEF IInv

\* A registration that is taken makes its client accepted, and disturbs the others it replaces.
LEMMA PostKeeps ==
  ASSUME IInv, NEW c \in Clients, Post(c)
  PROVE  IInv'
<1>1. TypeOK'
  <2>1. at[c] \in SPs
    BY AtSP DEF Post, IInv
  <2>2. auxDisturbed' \in [Clients -> SUBSET SPs]
    <3>1. CASE Disturb(UsersOf("v1", Seeds \ {opt[c].seed}), at[c])
      BY <2>1, <3>1, DisturbType DEF IInv
    <3>2. CASE auxDisturbed' = [auxDisturbed EXCEPT ![c] = @ \ {at[c]}]
      BY <3>2 DEF IInv, TypeOK
    <3> QED
      BY <3>1, <3>2 DEF Post
  <2>3. /\ key' \in [SPs -> Seeds \cup {NoKey}]
        /\ last' \in [SPs -> Nat]
        /\ keys' \in [SPs -> SUBSET Seeds]
    BY TakesType DEF Post, IInv
  <2>4. Return(c) /\ UNCHANGED <<state, faults>>
    BY DEF Post
  <2> QED
    BY <2>2, <2>3, <2>4, ReturnType DEF IInv, TypeOK
<1>2. OnlyWithOption'
  BY NoneAssumption DEF Post, Return, Disturb, TakesV1, TakesV2, Takes,
       UsersOf, spVars, IInv, TypeOK, OnlyWithOption
<1>3. NonceIsNext'
  <2> SUFFICES ASSUME NEW d \in Clients, pc'[d] = "post", opt'[d].kind = "v1"
               PROVE  \/ at'[d] \in auxDisturbed'[d]
                      \/ nonce'[d] = last'[at'[d]] + 1
                      \/ key'[at'[d]] = opt'[d].seed
    BY DEF NonceIsNext
  <2>1. /\ pc[d] = "post" /\ d # c /\ opt' = opt
        /\ at'[d] = at[d] /\ nonce'[d] = nonce[d]
    BY DEF Post, Return, IInv, TypeOK
  <2>2. at[c] \in SPs /\ at[d] \in SPs
    BY <2>1, AtSP DEF Post, IInv
  <2>3. \/ at[d] \in auxDisturbed[d]
        \/ nonce[d] = last[at[d]] + 1
        \/ key[at[d]] = opt[d].seed
    BY <2>1 DEF IInv, NonceIsNext
  <2>4. CASE TakesV1(c) /\ Disturb(UsersOf("v1", Seeds \ {opt[c].seed}), at[c])
    BY <2>1, <2>2, <2>4, TakenV1Nonces
  <2>5. CASE TakesV2(c) /\ auxDisturbed' = [auxDisturbed EXCEPT ![c] = @ \ {at[c]}]
    BY <2>1, <2>3, <2>5 DEF TakesV2, IInv, TypeOK
  <2> QED
    BY <2>4, <2>5 DEF Post
<1>4. DoneIsAccepted'
  <2> SUFFICES ASSUME NEW d \in Clients, NEW r \in SPs, Done(d, r)'
               PROVE  Accepted(d, r)' \/ r \in auxDisturbed'[d]
    BY DEF DoneIsAccepted
  <2>1. at[c] \in SPs /\ Return(c) /\ UNCHANGED opt
    BY AtSP DEF Post, Return, IInv
  <2>2. Done(d, r) \/ (d = c /\ r = at[c])
    BY <2>1, ReturnDone DEF Post, IInv
  <2>3. CASE TakesV1(c) /\ Disturb(UsersOf("v1", Seeds \ {opt[c].seed}), at[c])
    BY <2>1, <2>2, <2>3, TakenV1Keeps
  <2>4. CASE TakesV2(c) /\ auxDisturbed' = [auxDisturbed EXCEPT ![c] = @ \ {at[c]}]
    <3>1. d = c /\ r = at[c] => Accepted(d, r)'
      BY <2>1, <2>4, TakenV2Keeps
    <3>2. ~(d = c /\ r = at[c]) => (r \in auxDisturbed'[d] <=> r \in auxDisturbed[d])
      BY <2>4 DEF IInv, TypeOK
    <3> QED
      BY <2>1, <2>2, <2>4, <3>1, <3>2, TakenV2Keeps DEF IInv, DoneIsAccepted
  <2> QED
    BY <2>3, <2>4 DEF Post
<1>5. ReadyIsDone'
  BY DEF Post, Return, Disturb, TakesV1, TakesV2, Takes, UsersOf, spVars,
       IInv, TypeOK, ReadyIsDone
<1> QED
  BY <1>1, <1>2, <1>3, <1>4, <1>5 DEF IInv

\* A registration is refused only if its nonce was overtaken.
LEMMA PostRefusedKeeps ==
  ASSUME IInv, NEW c \in Clients, PostRefused(c)
  PROVE  IInv'
<1>1. TypeOK'
  BY NoneAssumption DEF PostRefused, Return, Takes, spVars, IInv, TypeOK
<1>2. OnlyWithOption'
  BY NoneAssumption DEF PostRefused, Return, Takes, spVars, IInv, TypeOK,
       OnlyWithOption
<1>3. NonceIsNext'
  BY NoneAssumption DEF PostRefused, Return, Takes, spVars, IInv, TypeOK,
       OnlyWithOption, NonceIsNext
<1>4. DoneIsAccepted'
  <2> SUFFICES ASSUME NEW d \in Clients, NEW r \in SPs, Done(d, r)'
               PROVE  Accepted(d, r)' \/ r \in auxDisturbed'[d]
    BY DEF DoneIsAccepted
  <2>1. Accepted(d, r)' <=> Accepted(d, r)
    BY AcceptedSame DEF PostRefused, Return
  <2>2. CASE Done(d, r)
    BY <2>1, <2>2 DEF PostRefused, IInv, DoneIsAccepted
  <2>3. CASE d = c /\ r = at[c]
    BY <2>1, <2>3 DEF PostRefused, Takes, Accepted, IInv, NonceIsNext
  <2> QED
    BY <2>2, <2>3, ReturnDone DEF PostRefused, IInv
<1>5. ReadyIsDone'
  BY DEF PostRefused, Return, Takes, spVars, IInv, TypeOK, ReadyIsDone
<1> QED
  BY <1>1, <1>2, <1>3, <1>4, <1>5 DEF IInv

\* One whose answer is lost disturbs its client too.
LEMMA PostLostKeeps ==
  ASSUME IInv, NEW c \in Clients, PostLost(c)
  PROVE  IInv'
<1>1. TypeOK'
  <2>1. at[c] \in SPs
    BY AtSP DEF PostLost, IInv
  <2>2. auxDisturbed' \in [Clients -> SUBSET SPs]
    BY <2>1, DisturbType DEF PostLost, IInv
  <2>3. faults' \in 0..MaxFaults
    BY BoundsAssumption DEF PostLost, Fault, IInv, TypeOK
  <2>4. /\ key' \in [SPs -> Seeds \cup {NoKey}]
        /\ last' \in [SPs -> Nat]
        /\ keys' \in [SPs -> SUBSET Seeds]
    <3>1. CASE TakesV1(c) \/ TakesV2(c)
      BY <3>1, TakesType DEF PostLost, IInv
    <3>2. CASE UNCHANGED spVars
      BY <3>2 DEF IInv, TypeOK, spVars
    <3> QED
      BY <3>1, <3>2 DEF PostLost
  <2>5. Return(c) /\ UNCHANGED state
    BY DEF PostLost
  <2> QED
    BY <2>2, <2>3, <2>4, <2>5, ReturnType DEF IInv, TypeOK
<1>2. OnlyWithOption'
  BY NoneAssumption DEF PostLost, Return, Disturb, TakesV1, TakesV2, Takes,
       UsersOf, Fault, spVars, IInv, TypeOK, OnlyWithOption
<1>3. NonceIsNext'
  <2> SUFFICES ASSUME NEW d \in Clients, pc'[d] = "post", opt'[d].kind = "v1"
               PROVE  \/ at'[d] \in auxDisturbed'[d]
                      \/ nonce'[d] = last'[at'[d]] + 1
                      \/ key'[at'[d]] = opt'[d].seed
    BY DEF NonceIsNext
  <2>1. /\ pc[d] = "post" /\ d # c /\ opt' = opt
        /\ at'[d] = at[d] /\ nonce'[d] = nonce[d]
    BY DEF PostLost, Return, IInv, TypeOK
  <2>2. at[c] \in SPs /\ at[d] \in SPs
    BY <2>1, AtSP DEF PostLost, IInv
  <2>3. \/ at[d] \in auxDisturbed[d]
        \/ nonce[d] = last[at[d]] + 1
        \/ key[at[d]] = opt[d].seed
    BY <2>1 DEF IInv, NonceIsNext
  <2>4. CASE TakesV1(c)
             /\ Disturb(UsersOf("v1", Seeds \ {opt[c].seed}) \cup {c}, at[c])
    BY <2>1, <2>2, <2>4, TakenV1Nonces
  <2>5. CASE (TakesV2(c) \/ UNCHANGED spVars) /\ Disturb({c}, at[c])
    <3>1. auxDisturbed[d] \subseteq auxDisturbed'[d]
      BY <2>2, <2>5, DisturbAdds DEF IInv
    <3> QED
      BY <2>1, <2>3, <2>5, <3>1 DEF TakesV2, spVars
  <2> QED
    BY <2>4, <2>5 DEF PostLost
<1>4. DoneIsAccepted'
  <2>1. CASE UNCHANGED spVars /\ Disturb({c}, at[c])
    BY <2>1, ReturnKeepsDone DEF PostLost
  <2>2. CASE ~(UNCHANGED spVars /\ Disturb({c}, at[c]))
    <3> SUFFICES ASSUME NEW d \in Clients, NEW r \in SPs, Done(d, r)'
                 PROVE  Accepted(d, r)' \/ r \in auxDisturbed'[d]
      BY DEF DoneIsAccepted
    <3>1. at[c] \in SPs /\ Return(c) /\ UNCHANGED opt
      BY AtSP DEF PostLost, Return, IInv
    <3>2. Done(d, r) \/ (d = c /\ r = at[c])
      BY <3>1, ReturnDone DEF PostLost, IInv
    <3>3. CASE TakesV1(c) /\ Disturb(UsersOf("v1", Seeds \ {opt[c].seed}) \cup {c}, at[c])
      BY <3>1, <3>2, <3>3, TakenV1Keeps
    <3>4. CASE TakesV2(c) /\ Disturb({c}, at[c])
      <4>1. auxDisturbed[d] \subseteq auxDisturbed'[d]
        BY <3>1, <3>4, DisturbAdds DEF IInv
      <4> QED
        BY <3>1, <3>2, <3>4, <4>1, TakenV2Keeps DEF IInv, DoneIsAccepted
    <3> QED
      BY <2>2, <3>3, <3>4 DEF PostLost
  <2> QED
    BY <2>1, <2>2
<1>5. ReadyIsDone'
  BY DEF PostLost, Return, Disturb, TakesV1, TakesV2, Takes, UsersOf, Fault,
       spVars, IInv, TypeOK, ReadyIsDone
<1> QED
  BY <1>1, <1>2, <1>3, <1>4, <1>5 DEF IInv

\* A request that fails disturbs its client.
LEMMA RequestFailsKeeps ==
  ASSUME IInv, NEW c \in Clients, RequestFails(c)
  PROVE  IInv'
<1>1. TypeOK'
  BY NoneAssumption DEF RequestFails, Return, Disturb, spVars, IInv, TypeOK
<1>2. OnlyWithOption'
  BY NoneAssumption DEF RequestFails, Return, Disturb, spVars, IInv, TypeOK,
       OnlyWithOption
<1>3. NonceIsNext'
  BY NoneAssumption DEF RequestFails, Return, Disturb, spVars, IInv, TypeOK,
       OnlyWithOption, NonceIsNext
<1>4. DoneIsAccepted'
  BY ReturnKeepsDone DEF RequestFails
<1>5. ReadyIsDone'
  BY DEF RequestFails, Return, Disturb, spVars, IInv, TypeOK, ReadyIsDone
<1> QED
  BY <1>1, <1>2, <1>3, <1>4, <1>5 DEF IInv

\* A deletion disturbs the clients whose keys it names.
LEMMA DeleteUserPublicKeyV2Keeps ==
  ASSUME IInv, NEW c \in Clients, NEW s \in SPs, NEW seeds \in SUBSET Seeds,
         DeleteUserPublicKeyV2(c, s, seeds)
  PROVE  IInv'
<1>1. TypeOK'
  BY BoundsAssumption, DisturbType DEF DeleteUserPublicKeyV2, IInv, TypeOK
<1>2. OnlyWithOption'
  BY DEF DeleteUserPublicKeyV2, Disturb, UsersOf, Accepted, spVars, IInv,
       TypeOK, OnlyWithOption
<1>3. NonceIsNext'
  BY DEF DeleteUserPublicKeyV2, Disturb, UsersOf, Accepted, spVars, IInv,
       TypeOK, OnlyWithOption, NonceIsNext
<1>4. DoneIsAccepted'
  <2> SUFFICES ASSUME NEW d \in Clients, NEW r \in SPs, Done(d, r)'
               PROVE  Accepted(d, r)' \/ r \in auxDisturbed'[d]
    BY DEF DoneIsAccepted
  <2>1. Done(d, r)
    BY DEF DeleteUserPublicKeyV2, Done
  <2>2. /\ auxDisturbed[d] \subseteq auxDisturbed'[d]
        /\ d \in UsersOf("v2", seeds) => s \in auxDisturbed'[d]
    BY DisturbAdds DEF DeleteUserPublicKeyV2, IInv
  <2>3. Accepted(d, r) => Accepted(d, r)' \/ (r = s /\ d \in UsersOf("v2", seeds))
    <3>1. opt'[d] = opt[d] /\ key' = key
      BY DEF DeleteUserPublicKeyV2
    <3>2. keys'[r] = IF r = s THEN keys[r] \ seeds ELSE keys[r]
      BY DEF DeleteUserPublicKeyV2, IInv, TypeOK
    <3> QED
      BY <3>1, <3>2 DEF Accepted, UsersOf
  <2> QED
    BY <2>1, <2>2, <2>3 DEF IInv, DoneIsAccepted
<1>5. ReadyIsDone'
  BY DEF DeleteUserPublicKeyV2, Disturb, UsersOf, Accepted, spVars, IInv,
       TypeOK, ReadyIsDone
<1> QED
  BY <1>1, <1>2, <1>3, <1>4, <1>5 DEF IInv

\* A key that expires disturbs the clients that use it.
LEMMA ExpireKeeps ==
  ASSUME IInv, NEW s \in SPs, NEW seed \in Seeds, Expire(s, seed)
  PROVE  IInv'
<1>1. TypeOK'
  <2>1. auxDisturbed' \in [Clients -> SUBSET SPs]
    BY DisturbType DEF Expire, IInv
  <2>2. faults' \in 0..MaxFaults
    BY BoundsAssumption DEF Expire, Fault, IInv, TypeOK
  <2>3. key' \in [SPs -> Seeds \cup {NoKey}]
    BY DEF Expire, IInv, TypeOK
  <2>4. keys' \in [SPs -> SUBSET Seeds]
    BY DEF Expire, IInv, TypeOK
  <2>5. UNCHANGED <<clientVars, last, state>>
    BY DEF Expire
  <2> QED
    BY <2>1, <2>2, <2>3, <2>4, <2>5 DEF IInv, TypeOK, clientVars
<1>2. OnlyWithOption'
  BY DEF Expire, Disturb, UsersOf, Fault, spVars, clientVars, IInv, TypeOK,
       OnlyWithOption
<1>3. NonceIsNext'
  BY DEF Expire, Disturb, UsersOf, Fault, spVars, clientVars, IInv, TypeOK,
       OnlyWithOption, NonceIsNext
<1>4. DoneIsAccepted'
  <2> SUFFICES ASSUME NEW d \in Clients, NEW r \in SPs, Done(d, r)'
               PROVE  Accepted(d, r)' \/ r \in auxDisturbed'[d]
    BY DEF DoneIsAccepted
  <2>1. Done(d, r) /\ opt'[d] = opt[d]
    BY DEF Expire, Done, clientVars
  <2>2. CASE key[s] = seed /\ key' = [key EXCEPT ![s] = NoKey]
             /\ Disturb(UsersOf("v1", {seed}), s) /\ UNCHANGED keys
    <3>1. /\ auxDisturbed[d] \subseteq auxDisturbed'[d]
          /\ d \in UsersOf("v1", {seed}) => s \in auxDisturbed'[d]
      BY <2>2, DisturbAdds DEF IInv
    <3>2. r # s => key'[r] = key[r]
      BY <2>2 DEF IInv, TypeOK
    <3>3. Accepted(d, r) => Accepted(d, r)' \/ (r = s /\ d \in UsersOf("v1", {seed}))
      BY <2>1, <2>2, <3>2 DEF Accepted, UsersOf
    <3> QED
      BY <2>1, <3>1, <3>3 DEF IInv, DoneIsAccepted
  <2>3. CASE keys' = [keys EXCEPT ![s] = @ \ {seed}]
             /\ Disturb(UsersOf("v2", {seed}), s) /\ UNCHANGED key
    <3>1. /\ auxDisturbed[d] \subseteq auxDisturbed'[d]
          /\ d \in UsersOf("v2", {seed}) => s \in auxDisturbed'[d]
      BY <2>3, DisturbAdds DEF IInv
    <3>2. keys'[r] = IF r = s THEN keys[r] \ {seed} ELSE keys[r]
      BY <2>3 DEF IInv, TypeOK
    <3>3. Accepted(d, r) => Accepted(d, r)' \/ (r = s /\ d \in UsersOf("v2", {seed}))
      BY <2>1, <2>3, <3>2 DEF Accepted, UsersOf
    <3> QED
      BY <2>1, <3>1, <3>3 DEF IInv, DoneIsAccepted
  <2> QED
    BY <2>2, <2>3 DEF Expire
<1>5. ReadyIsDone'
  BY DEF Expire, Disturb, UsersOf, Fault, spVars, clientVars, IInv, TypeOK,
       ReadyIsDone
<1> QED
  BY <1>1, <1>2, <1>3, <1>4, <1>5 DEF IInv

\* An SP that stops answering forgets nothing.
LEMMA StopsKeeps ==
  ASSUME IInv, NEW s \in SPs, NEW how \in {"down", "silent"}, Stops(s, how)
  PROVE  IInv'
<1>1. TypeOK'
  BY BoundsAssumption DEF Stops, Fault, spVars, clientVars, IInv, TypeOK
<1>2. OnlyWithOption'
  BY DEF Stops, Fault, spVars, clientVars, IInv, TypeOK, OnlyWithOption
<1>3. NonceIsNext'
  BY DEF Stops, Fault, spVars, clientVars, IInv, TypeOK, OnlyWithOption,
       NonceIsNext
<1>4. DoneIsAccepted'
  <2> SUFFICES ASSUME NEW d \in Clients, NEW r \in SPs, Done(d, r)'
               PROVE  Accepted(d, r)' \/ r \in auxDisturbed'[d]
    BY DEF DoneIsAccepted
  <2>1. Accepted(d, r)' <=> Accepted(d, r)
    BY AcceptedSame DEF Stops, clientVars
  <2>2. Done(d, r)
    BY DEF Stops, clientVars, Done, IInv, TypeOK, ReadyIsDone
  <2> QED
    BY <2>1, <2>2 DEF Stops, IInv, DoneIsAccepted
<1>5. ReadyIsDone'
  BY DEF Stops, Fault, spVars, clientVars, IInv, TypeOK, ReadyIsDone
<1> QED
  BY <1>1, <1>2, <1>3, <1>4, <1>5 DEF IInv

\* Nor does one that comes back.
LEMMA RecoversKeeps ==
  ASSUME IInv, NEW s \in SPs, Recovers(s)
  PROVE  IInv'
<1>1. TypeOK'
  BY DEF Recovers, spVars, clientVars, IInv, TypeOK
<1>2. OnlyWithOption'
  BY DEF Recovers, spVars, clientVars, IInv, TypeOK, OnlyWithOption
<1>3. NonceIsNext'
  BY DEF Recovers, spVars, clientVars, IInv, TypeOK, OnlyWithOption,
       NonceIsNext
<1>4. DoneIsAccepted'
  <2> SUFFICES ASSUME NEW d \in Clients, NEW r \in SPs, Done(d, r)'
               PROVE  Accepted(d, r)' \/ r \in auxDisturbed'[d]
    BY DEF DoneIsAccepted
  <2>1. Accepted(d, r)' <=> Accepted(d, r)
    BY AcceptedSame DEF Recovers, clientVars
  <2>2. Done(d, r)
    BY DEF Recovers, clientVars, Done, IInv, TypeOK, ReadyIsDone
  <2> QED
    BY <2>1, <2>2 DEF Recovers, IInv, DoneIsAccepted
<1>5. ReadyIsDone'
  BY DEF Recovers, spVars, clientVars, IInv, TypeOK, ReadyIsDone
<1> QED
  BY <1>1, <1>2, <1>3, <1>4, <1>5 DEF IInv

-----------------------------------------------------------------------------
(* The theorems.                                                            *)

\* The initial states satisfy the invariant.
LEMMA InitIInv == Init => IInv
  BY NoneAssumption, BoundsAssumption
     DEF Init, IInv, TypeOK, OnlyWithOption, NonceIsNext, DoneIsAccepted, Done,
         ReadyIsDone

\* Every step keeps it.
LEMMA NextIInv == IInv /\ [Next]_vars => IInv'
<1> SUFFICES ASSUME IInv, [Next]_vars PROVE IInv'
  OBVIOUS
<1>1. ASSUME NEW c \in Clients, Step(c) PROVE IInv'
  BY <1>1, NextSPKeeps, NewReturnKeeps, GetNextNonceKeeps, NonceIsErrorKeeps,
     PostKeeps, PostRefusedKeeps, PostLostKeeps, RequestFailsKeeps DEF Step
<1>2. ASSUME NEW c \in Clients, Call(c) PROVE IInv'
  BY <1>2, NewKeeps, RefuseNewKeeps, RegisterKeeps, DeleteUserPublicKeyV2Keeps
     DEF Call
<1>3. CASE Environment
  BY <1>3, ExpireKeeps, StopsKeeps, RecoversKeeps DEF Environment
<1>4. CASE UNCHANGED vars
  BY <1>4 DEF vars, clientVars, spVars, IInv, TypeOK, OnlyWithOption, NonceIsNext,
     DoneIsAccepted, Done, Accepted, ReadyIsDone
<1> QED
  BY <1>1, <1>2, <1>3, <1>4 DEF Next

\* The invariant holds in every reachable state.
LEMMA Invariant == Spec => []IInv
<1>1. Init => IInv
  BY InitIInv
<1>2. IInv /\ [Next]_vars => IInv'
  BY NextIInv
<1> QED
  BY <1>1, <1>2, PTL DEF Spec

\* The variables keep their types: no key without a seed is registered, and a
\* client has an SP exactly while it registers there.
THEOREM TypeCorrect == Spec => []TypeOK
<1>1. IInv => TypeOK
  BY DEF IInv
<1> QED
  BY <1>1, Invariant, PTL

\* Whatever registrations race, a client New returned to is accepted at every SP,
\* unless its key or its registration there was disturbed.
THEOREM AcceptedCorrect == Spec => []AcceptedIfUndisturbed
<1>1. IInv => AcceptedIfUndisturbed
  <2> SUFFICES ASSUME IInv, NEW c \in Clients, NEW s \in SPs,
                      pc[c] = "ready", opt[c].register, ~opt[c].forced
               PROVE  Accepted(c, s) \/ s \in auxDisturbed[c]
    BY DEF AcceptedIfUndisturbed
  <2>1. todo[c] = {} /\ at[c] = NoSP
    BY DEF IInv, TypeOK, ReadyIsDone
  <2>2. Done(c, s)
    BY <2>1, NoneAssumption DEF Done
  <2> QED
    BY <2>2 DEF IInv, DoneIsAccepted
<1> QED
  BY <1>1, Invariant, PTL

=============================================================================

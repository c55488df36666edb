------------------------- MODULE Transactions_proofs -------------------------
(* Theorems about EvmSender, for any threads, accounts, calls and faults, and *)
(* about TxWait, for any operations and failed requests.  A transaction is    *)
(* sent as in the one and waited for as in the other; they share no state.    *)
EXTENDS EvmSender, TxWait, SequenceTheorems, TLAPS

\* The invariants that are not about types.
LogInv == LogIsTaken /\ NoneTwice /\ MainFirst /\ TagsHaveMain

-----------------------------------------------------------------------------
(* What the node does to the log.                                           *)

\* A transaction that is taken goes behind all the others of its account.
LEMMA AcceptLog ==
  ASSUME TypeOK, NEW t \in Threads, call[t].number > 0, Accept(t)
  PROVE  /\ Present(t) \in Entry
         /\ Signer(t) \in Accounts
         /\ log' \in [Accounts -> Seq(Entry)]
         /\ \A a \in Accounts \ {Signer(t)} : log'[a] = log[a]
         /\ Len(log'[Signer(t)]) = Len(log[Signer(t)]) + 1
         /\ \A i \in 1..Len(log[Signer(t)]) :
              log'[Signer(t)][i] = log[Signer(t)][i]
         /\ log'[Signer(t)][Len(log[Signer(t)]) + 1] = Present(t)
<1> DEFINE s == Signer(t)
<1>1. s \in Accounts
  BY KeyAssumption DEF TypeOK, Signer
<1>2. call[t] \in CallState
  BY DEF TypeOK
<1>3. Present(t) \in Entry
  BY <1>2, BoundsAssumption DEF Present, Entry, CallState
<1>4. log \in [Accounts -> Seq(Entry)]
  BY DEF TypeOK
<1>5. log[s] \in Seq(Entry)
  BY <1>1, <1>4
<1>6. log' = [log EXCEPT ![s] = Append(log[s], Present(t))]
  BY DEF Accept
<1> HIDE DEF s
<1>7. /\ Append(log[s], Present(t)) \in Seq(Entry)
      /\ Len(Append(log[s], Present(t))) = Len(log[s]) + 1
      /\ \A i \in 1..Len(log[s]) : Append(log[s], Present(t))[i] = log[s][i]
      /\ Append(log[s], Present(t))[Len(log[s]) + 1] = Present(t)
  BY <1>3, <1>5, AppendProperties
<1>8. log'[s] = Append(log[s], Present(t))
  BY <1>1, <1>4, <1>6
<1>9. log' \in [Accounts -> Seq(Entry)]
  BY <1>1, <1>4, <1>6, <1>7
<1>10. \A a \in Accounts \ {s} : log'[a] = log[a]
  BY <1>4, <1>6
<1>11. QED
  BY <1>1, <1>3, <1>7, <1>8, <1>9, <1>10 DEF s

\* An eviction leaves the transactions before it.
LEMMA EvictLog ==
  ASSUME TypeOK, NEW a \in Accounts, Evict(a)
  PROVE  /\ log' \in [Accounts -> Seq(Entry)]
         /\ \A b \in Accounts :
              /\ Len(log'[b]) <= Len(log[b])
              /\ \A i \in 1..Len(log'[b]) : log'[b][i] = log[b][i]
         /\ \A b \in Accounts : committed[b] <= Len(log'[b])
<1>1. PICK n \in committed[a]..Len(log[a])-1 : log' = [log EXCEPT ![a] = SubSeq(log[a], 1, n)]
  BY DEF Evict
<1>2. /\ log \in [Accounts -> Seq(Entry)]
      /\ committed \in [Accounts -> Nat]
      /\ \A b \in Accounts : committed[b] <= Len(log[b])
  BY DEF TypeOK
<1>3. log[a] \in Seq(Entry)
  BY <1>2
<1>4. Len(log[a]) \in Nat /\ committed[a] \in Nat
  BY <1>2, <1>3, LenProperties
<1>5. n \in Nat /\ n <= Len(log[a]) /\ committed[a] <= n
  BY <1>1, <1>4
<1>6. \A i \in 1..n : log[a][i] \in Entry
  BY <1>3, <1>4, <1>5, ElementOfSeq
<1>7. /\ SubSeq(log[a], 1, n) \in Seq(Entry)
      /\ Len(SubSeq(log[a], 1, n)) = IF 1 <= n THEN n - 1 + 1 ELSE 0
      /\ \A i \in 1..n - 1 + 1 : SubSeq(log[a], 1, n)[i] = log[a][1 + i - 1]
  <2>1. 1 \in Int /\ n \in Int
    BY <1>5
  <2>2. QED
    BY <1>6, <2>1, SubSeqProperties
<1>8. /\ Len(SubSeq(log[a], 1, n)) = n
      /\ \A i \in 1..n : SubSeq(log[a], 1, n)[i] = log[a][i]
  BY <1>5, <1>7
<1>9. log'[a] = SubSeq(log[a], 1, n) /\ \A b \in Accounts \ {a} : log'[b] = log[b]
  BY <1>1, <1>2
<1>10. log' \in [Accounts -> Seq(Entry)]
  BY <1>1, <1>2, <1>7
<1>11. \A b \in Accounts : Len(log[b]) \in Nat
  BY <1>2, LenProperties
<1>12. ASSUME NEW b \in Accounts
       PROVE  /\ Len(log'[b]) <= Len(log[b]) /\ committed[b] <= Len(log'[b])
              /\ \A i \in 1..Len(log'[b]) : log'[b][i] = log[b][i]
  <2>1. CASE b = a
    BY <2>1, <1>5, <1>8, <1>9
  <2>2. CASE b # a
    BY <2>2, <1>2, <1>9, <1>11
  <2>3. QED
    BY <2>1, <2>2
<1>13. QED
  BY <1>10, <1>12

-----------------------------------------------------------------------------
(* The log and what was taken.                                              *)

\* What was taken before is known of every transaction: the present one is new.
LEMMA AcceptTaken ==
  ASSUME NEW t \in Threads, Accept(t)
  PROVE  /\ \A u, n, stage : Taken(u, n, stage) => Taken(u, n, stage)'
         /\ Present(t) \in auxAccepted'
         /\ \A u, n, stage : Taken(u, n, stage)' =>
              \/ Taken(u, n, stage)
              \/ u = t /\ n = call[t].number /\ stage = call[t].stage
<1>1. auxAccepted' = auxAccepted \union {Present(t)}
  BY DEF Accept
<1>2. ASSUME NEW u, NEW n, NEW stage,
             [thread |-> u, number |-> n, stage |-> stage] = Present(t)
      PROVE  u = t /\ n = call[t].number /\ stage = call[t].stage
  BY <1>2 DEF Present
<1>3. Present(t) \in auxAccepted'
  BY <1>1
<1>4. QED
  BY <1>1, <1>2, <1>3 DEF Taken

\* A transaction that is taken while its call is under way keeps the order.
LEMMA AcceptKeeps ==
  ASSUME IInv, NEW t \in Threads, Accept(t)
  PROVE  LogInv' /\ auxAccepted' \subseteq Entry
<1> DEFINE s == Signer(t)
           e == Present(t)
           last == Len(log[s]) + 1
<1>1. /\ call[t].number > 0
      /\ ~Taken(t, call[t].number, call[t].stage)
      /\ ~Taken(t, call[t].number, "tag")
      /\ call[t].stage = "tag" => Taken(t, call[t].number, "main")
  BY DEF IInv, CallProgress, Accept
<1>2. /\ e \in Entry /\ s \in Accounts
      /\ \A a \in Accounts \ {s} : log'[a] = log[a]
      /\ Len(log'[s]) = last
      /\ \A i \in 1..Len(log[s]) : log'[s][i] = log[s][i]
      /\ log'[s][last] = e
  BY <1>1, AcceptLog DEF IInv
<1>3. Len(log[s]) \in Nat
  BY <1>2, LenProperties DEF IInv, TypeOK
<1>4. /\ auxAccepted' = auxAccepted \union {e}
      /\ e \notin auxAccepted
  <2>1. auxAccepted' = auxAccepted \union {e}
    BY DEF Accept
  <2>2. e \notin auxAccepted
    BY <1>1 DEF Taken, Present
  <2>3. QED
    BY <2>1, <2>2
<1>5. /\ e.thread = t /\ e.number = call[t].number /\ e.stage = call[t].stage
  BY DEF Present
<1>6. auxAccepted \subseteq Entry
  BY DEF IInv, TypeOK
<1>7. \A f \in auxAccepted :
        f.thread = t /\ f.number = call[t].number => f.stage # "tag"
  <2> SUFFICES ASSUME NEW f \in auxAccepted, f.thread = t,
                      f.number = call[t].number, f.stage = "tag"
               PROVE  FALSE
    OBVIOUS
  <2>1. f = [thread |-> t, number |-> call[t].number, stage |-> "tag"]
    BY <1>6 DEF Entry
  <2>2. QED
    BY <2>1, <1>1 DEF Taken
<1>8. \A i \in 1..Len(log[s]) : log[s][i] \in auxAccepted
  BY <1>2 DEF IInv, LogIsTaken
<1> HIDE DEF s, e
<1>9. \A i \in 1..last : i \in 1..Len(log[s]) \/ i = last
  BY <1>3
<1>10. LogIsTaken'
  <2> SUFFICES ASSUME NEW a \in Accounts, NEW i \in 1..Len(log'[a])
               PROVE  log'[a][i] \in auxAccepted'
    BY DEF LogIsTaken
  <2>1. CASE a = s
    BY <2>1, <1>2, <1>4, <1>8, <1>9
  <2>2. CASE a # s
    BY <2>2, <1>2, <1>4 DEF IInv, LogIsTaken
  <2>3. QED
    BY <2>1, <2>2
<1>11. NoneTwice'
  <2> SUFFICES ASSUME NEW a \in Accounts, NEW i \in 1..Len(log'[a]),
                      NEW j \in 1..Len(log'[a]), log'[a][i] = log'[a][j]
               PROVE  i = j
    BY DEF NoneTwice
  <2>1. CASE a = s
    <3>1. \A k, l \in 1..Len(log[s]) : log[s][k] = log[s][l] => k = l
      BY <1>2 DEF IInv, NoneTwice
    <3>2. \A k \in 1..Len(log[s]) : log'[s][k] # e
      BY <1>2, <1>4, <1>8
    <3>3. QED
      BY <2>1, <3>1, <3>2, <1>2, <1>9
  <2>2. CASE a # s
    BY <2>2, <1>2 DEF IInv, NoneTwice
  <2>3. QED
    BY <2>1, <2>2
<1>12. MainFirst'
  <2> SUFFICES ASSUME NEW a \in Accounts, NEW i \in 1..Len(log'[a]),
                      NEW j \in 1..Len(log'[a]),
                      log'[a][i].thread = log'[a][j].thread,
                      log'[a][i].number = log'[a][j].number,
                      log'[a][i].stage = "tag", log'[a][j].stage = "main"
               PROVE  j < i
    BY DEF MainFirst
  <2>1. CASE a = s
    <3>1. CASE j = last
      <4>1. log'[a][i].thread = t /\ log'[a][i].number = call[t].number
        BY <2>1, <3>1, <1>2, <1>5
      <4>2. i # last
        BY <2>1, <3>1
      <4>3. log'[a][i] \in auxAccepted
        BY <2>1, <4>2, <1>2, <1>8, <1>9
      <4>4. QED
        BY <4>1, <4>3, <1>7
    <3>2. CASE j # last /\ i = last
      BY <2>1, <3>2, <1>2, <1>3, <1>9
    <3>3. CASE j # last /\ i # last
      <4>1. i \in 1..Len(log[s]) /\ j \in 1..Len(log[s])
        BY <2>1, <3>3, <1>2, <1>9
      <4>2. log'[a][i] = log[s][i] /\ log'[a][j] = log[s][j]
        BY <2>1, <4>1, <1>2
      <4>3. QED
        BY <4>1, <4>2, <1>2 DEF IInv, MainFirst
    <3>4. QED
      BY <3>1, <3>2, <3>3
  <2>2. CASE a # s
    BY <2>2, <1>2 DEF IInv, MainFirst
  <2>3. QED
    BY <2>1, <2>2
<1>13. TagsHaveMain'
  <2> SUFFICES ASSUME NEW f \in auxAccepted', f.stage = "tag"
               PROVE  Taken(f.thread, f.number, "main")'
    BY DEF TagsHaveMain
  <2>1. CASE f \in auxAccepted
    BY <2>1, AcceptTaken DEF IInv, TagsHaveMain
  <2>2. CASE f = e
    <3>1. Taken(f.thread, f.number, "main")
      BY <2>2, <1>1, <1>5
    <3>2. QED
      BY <3>1, AcceptTaken
  <2>3. QED
    BY <2>1, <2>2, <1>4
<1>14. QED
  BY <1>2, <1>4, <1>6, <1>10, <1>11, <1>12, <1>13 DEF LogInv

-----------------------------------------------------------------------------
(* The steps.                                                               *)

\* No transaction of a later call has been taken.
LEMMA TakenBound ==
  ASSUME IInv, NEW t \in Threads, NEW n, NEW stage, Taken(t, n, stage)
  PROVE  n <= call[t].number
<1> DEFINE e == [thread |-> t, number |-> n, stage |-> stage]
<1>1. e \in auxAccepted /\ e.thread = t /\ e.number = n
  BY DEF Taken
<1> HIDE DEF e
<1>2. QED
  BY <1>1 DEF IInv, CallProgress

\* What a step leaves alone stays as it was.
LEMMA SameLog ==
  ASSUME IInv, UNCHANGED <<log, auxAccepted>>
  PROVE  LogInv'
  BY DEF IInv, LogInv, LogIsTaken, NoneTwice, MainFirst, TagsHaveMain, Taken

\* The parts of the invariant are about one thread each: those of which a step
\* changes nothing keep them.
OfThread(t) ==
  /\ \A e \in auxAccepted : e.thread = t => e.number <= call[t].number
  /\ call[t].stage = "tag" => Taken(t, call[t].number, "main")
  /\ pc[t] # "idle" =>
       /\ call[t].number > 0
       /\ ~Taken(t, call[t].number, call[t].stage)
       /\ ~Taken(t, call[t].number, "tag")
  /\ pc[t] = "send" /\ call[t].op.session \in {"storage", "transfer"} =>
       call[t].nonce = Len(log[KeyAccount]) \/ t \in auxDisturbed
  /\ out[t] = "ok" /\ pc[t] = "idle" =>
       /\ Taken(t, call[t].number, "main")
       /\ call[t].op.tagged => Taken(t, call[t].number, "tag")
  /\ pc[t] = "idle" /\ out[t] = "refused"
     /\ call[t].op.session \in {"storage", "transfer"}
     => t \in auxDisturbed

\* The invariant is about types, the log and each thread.
LEMMA IInvOfThreads ==
  IInv <=> TypeOK /\ LogInv /\ \A t \in Threads : OfThread(t)
  BY DEF IInv, LogInv, CallProgress, NonceIsPending, OkIsTaken,
         RefusedOnlyIfDisturbed, OfThread

\* The same, of the next state.
LEMMA NextOfThreads ==
  ASSUME TypeOK', LogInv', \A t \in Threads : OfThread(t)'
  PROVE  IInv'
  BY DEF IInv, LogInv, CallProgress, NonceIsPending, OkIsTaken,
         RefusedOnlyIfDisturbed, OfThread

\* A step of one thread, by which the node takes nothing, does not concern others.
LEMMA OthersStay ==
  ASSUME IInv, NEW t \in Threads, NEW u \in Threads \ {t},
         UNCHANGED <<log, auxAccepted>>,
         pc'[u] = pc[u], call'[u] = call[u], out'[u] = out[u],
         u \in auxDisturbed => u \in auxDisturbed'
  PROVE  OfThread(u)'
<1>1. OfThread(u)
  BY IInvOfThreads
<1>2. QED
  BY <1>1 DEF OfThread, Taken

\* Init: nothing was sent.
LEMMA InitIInv ==
  ASSUME Init PROVE IInv
<1> USE DEF Init
<1>1. Idle \in CallState
  BY BoundsAssumption DEF Idle, CallState, AllOps, SetTag, Storage, MaxNonceRetryTime
<1>2. call \in [Threads -> CallState]
  BY <1>1
<1>3. log \in [Accounts -> Seq(Entry)] /\ \A a \in Accounts : Len(log[a]) = 0
  BY EmptySeq
<1>4. TypeOK
  BY <1>2, <1>3, KeyAssumption, BoundsAssumption DEF TypeOK
<1>5. LogInv
  BY <1>3 DEF LogInv, LogIsTaken, NoneTwice, MainFirst, TagsHaveMain
<1>6. ASSUME NEW t \in Threads PROVE OfThread(t)
  BY DEF OfThread, Idle
<1>7. QED
  BY <1>4, <1>5, <1>6, IInvOfThreads

\* SetDefaultAccount changes no transaction and no call.
LEMMA SetDefaultAccountKeeps ==
  ASSUME IInv, NEW a \in Accounts, SetDefaultAccount(a) PROVE IInv'
<1> USE DEF SetDefaultAccount, nodeVars, threadVars
<1>1. TypeOK'
  BY DEF IInv, TypeOK
<1>2. LogInv'
  BY SameLog
<1>3. ASSUME NEW u \in Threads PROVE OfThread(u)'
  BY IInvOfThreads DEF OfThread, Taken
<1>4. QED
  BY <1>1, <1>2, <1>3, NextOfThreads

\* Call: the new call has a number of its own, so nothing of it was taken.
LEMMA CallKeeps ==
  ASSUME IInv, NEW t \in Threads, NEW op \in Ops, Call(t, op) PROVE IInv'
<1> DEFINE new == [op |-> op, number |-> call[t].number + 1, stage |-> "main",
                   nonce |-> 0, retry |-> 0]
<1>1. call \in [Threads -> CallState] /\ call[t] \in CallState
  BY DEF IInv, TypeOK
<1>2. call[t].number \in 0..MaxCalls /\ call[t].number < MaxCalls
  BY <1>1 DEF CallState, Call
<1>3. new \in CallState
  BY <1>2, OpsAssumption, BoundsAssumption DEF CallState, MaxNonceRetryTime
<1>4. call' = [call EXCEPT ![t] = new]
  BY DEF Call
<1>5. /\ pc' = [pc EXCEPT ![t] = "nonce"]
      /\ UNCHANGED <<default, log, committed, auxAccepted, out, faults, auxDisturbed>>
  BY DEF Call, Goto, nodeVars
<1>6. /\ new.number = call[t].number + 1 /\ new.stage = "main"
  OBVIOUS
<1> HIDE DEF new
<1>7. TypeOK'
  BY <1>1, <1>3, <1>4, <1>5 DEF IInv, TypeOK
<1>8. call'[t] = new /\ pc'[t] = "nonce"
  BY <1>1, <1>4, <1>5 DEF IInv, TypeOK
<1>9. \A stage : ~Taken(t, new.number, stage)
  BY <1>2, <1>6, TakenBound
<1>10. \A e \in auxAccepted : e.thread = t => e.number <= new.number
  <2>1. \A e \in auxAccepted : e.thread = t => e.number <= call[t].number
    BY DEF IInv, CallProgress
  <2>2. \A e \in auxAccepted : e.number \in Nat
    BY BoundsAssumption DEF IInv, TypeOK, Entry
  <2>3. QED
    BY <2>1, <2>2, <1>2, <1>6
<1>11. OfThread(t)'
  BY <1>2, <1>5, <1>6, <1>8, <1>9, <1>10 DEF OfThread, Taken
<1>12. ASSUME NEW u \in Threads \ {t} PROVE OfThread(u)'
  <2>1. pc'[u] = pc[u] /\ call'[u] = call[u]
    BY <1>1, <1>4, <1>5 DEF IInv, TypeOK
  <2>2. QED
    BY <2>1, <1>5, OthersStay
<1>13. QED
  BY <1>5, <1>7, <1>11, <1>12, SameLog, NextOfThreads

\* ReadNonce: the nonce is the pending one, but for payments and Cosmos messages.
LEMMA ReadNonceKeeps ==
  ASSUME IInv, NEW t \in Threads, ReadNonce(t) PROVE IInv'
<1> DEFINE n == IF call[t].op.session \in {"storage", "transfer"}
                THEN Len(log[KeyAccount]) ELSE committed[default]
           new == [call[t] EXCEPT !.nonce = n]
<1>1. call \in [Threads -> CallState] /\ call[t] \in CallState
  BY DEF IInv, TypeOK
<1>2. n \in Nat
  <2>1. Len(log[KeyAccount]) \in Nat
    BY KeyAssumption, LenProperties DEF IInv, TypeOK
  <2>2. committed[default] \in Nat
    BY DEF IInv, TypeOK
  <2>3. QED
    BY <2>1, <2>2
<1>3. call' = [call EXCEPT ![t] = new]
  BY DEF ReadNonce
<1>4. /\ pc' = [pc EXCEPT ![t] = "send"] /\ pc[t] = "nonce"
      /\ UNCHANGED <<default, log, committed, auxAccepted, out, faults>>
      /\ auxDisturbed' = auxDisturbed \ {t}
  BY DEF ReadNonce, Goto, nodeVars
<1>5. call[t].op.session \in {"storage", "transfer"} => n = Len(log[KeyAccount])
  OBVIOUS
<1> HIDE DEF n
<1>6. /\ new \in CallState /\ new.op = call[t].op /\ new.number = call[t].number
      /\ new.stage = call[t].stage /\ new.nonce = n
  BY <1>1, <1>2 DEF CallState
<1> HIDE DEF new
<1>7. TypeOK'
  BY <1>1, <1>3, <1>4, <1>6 DEF IInv, TypeOK
<1>8. call'[t] = new /\ pc'[t] = "send"
  BY <1>1, <1>3, <1>4 DEF IInv, TypeOK
<1>9. OfThread(t)
  BY IInvOfThreads
<1>10. OfThread(t)'
  BY <1>4, <1>5, <1>6, <1>8, <1>9 DEF OfThread, Taken
<1>11. ASSUME NEW u \in Threads \ {t} PROVE OfThread(u)'
  <2>1. pc'[u] = pc[u] /\ call'[u] = call[u]
    BY <1>1, <1>3, <1>4 DEF IInv, TypeOK
  <2>2. QED
    BY <2>1, <1>4, OthersStay
<1>12. QED
  BY <1>4, <1>7, <1>10, <1>11, SameLog, NextOfThreads

\* A failed request ends the call with an error.
LEMMA SessionFailsKeeps ==
  ASSUME IInv, NEW t \in Threads, SessionFails(t) PROVE IInv'
<1>1. /\ pc' = [pc EXCEPT ![t] = "idle"] /\ out' = [out EXCEPT ![t] = "error"]
      /\ UNCHANGED <<default, log, committed, auxAccepted, call, auxDisturbed>>
      /\ faults < MaxFaults /\ faults' = faults + 1
  BY DEF SessionFails, Return, Fault, nodeVars
<1>2. TypeOK'
  BY <1>1, BoundsAssumption DEF IInv, TypeOK
<1>3. pc'[t] = "idle" /\ out'[t] = "error"
  BY <1>1 DEF IInv, TypeOK
<1>4. OfThread(t)
  BY IInvOfThreads
<1>5. OfThread(t)'
  BY <1>1, <1>3, <1>4 DEF OfThread, Taken
<1>6. ASSUME NEW u \in Threads \ {t} PROVE OfThread(u)'
  <2>1. pc'[u] = pc[u] /\ out'[u] = out[u]
    BY <1>1 DEF IInv, TypeOK
  <2>2. QED
    BY <2>1, <1>1, OthersStay
<1>7. QED
  BY <1>1, <1>2, <1>5, <1>6, SameLog, NextOfThreads

\* A transaction that is taken keeps the types of the log.
LEMMA AcceptTypes ==
  ASSUME IInv, NEW t \in Threads, Accept(t)
  PROVE  /\ default' \in Accounts
         /\ log' \in [Accounts -> Seq(Entry)]
         /\ committed' \in [Accounts -> Nat]
         /\ \A a \in Accounts : committed'[a] <= Len(log'[a])
         /\ auxAccepted' \subseteq Entry /\ auxDisturbed' \subseteq Threads
<1>1. call[t].number > 0
  BY DEF IInv, CallProgress, Accept
<1>2. /\ Signer(t) \in Accounts /\ log' \in [Accounts -> Seq(Entry)]
      /\ \A a \in Accounts \ {Signer(t)} : log'[a] = log[a]
      /\ Len(log'[Signer(t)]) = Len(log[Signer(t)]) + 1
  BY <1>1, AcceptLog DEF IInv
<1>3. /\ committed' = committed /\ default' = default
      /\ auxDisturbed' = auxDisturbed \union (SendingFrom(Signer(t)) \ {t})
      /\ SendingFrom(Signer(t)) \subseteq Threads
  BY DEF Accept, DisturbAllBut, SendingFrom
<1>4. \A a \in Accounts : committed'[a] <= Len(log'[a])
  <2> SUFFICES ASSUME NEW a \in Accounts PROVE committed[a] <= Len(log'[a])
    BY <1>3
  <2>1. committed[a] \in Nat /\ Len(log[a]) \in Nat /\ committed[a] <= Len(log[a])
    BY LenProperties DEF IInv, TypeOK
  <2>2. CASE a = Signer(t)
    BY <2>1, <2>2, <1>2
  <2>3. CASE a # Signer(t)
    BY <2>1, <2>3, <1>2
  <2>4. QED
    BY <2>2, <2>3
<1>5. auxAccepted' \subseteq Entry
  BY AcceptKeeps
<1>6. QED
  BY <1>2, <1>3, <1>4, <1>5 DEF IInv, TypeOK

\* The other threads that were to send are disturbed by it.
LEMMA AcceptOthers ==
  ASSUME IInv, NEW t \in Threads, Accept(t), NEW u \in Threads \ {t},
         pc'[u] = pc[u], call'[u] = call[u], out'[u] = out[u]
  PROVE  OfThread(u)'
<1>1. OfThread(u)
  BY IInvOfThreads
<1>2. /\ \A n, stage : Taken(u, n, stage)' => Taken(u, n, stage)
      /\ \A n, stage : Taken(u, n, stage) => Taken(u, n, stage)'
  BY AcceptTaken
<1>3. \A e \in auxAccepted' : e.thread = u => e \in auxAccepted
  BY DEF Accept, Present
<1>4. /\ u \in auxDisturbed => u \in auxDisturbed'
      /\ pc[u] = "send" /\ call[u].op.session \in {"storage", "transfer"} =>
           log'[KeyAccount] = log[KeyAccount] \/ u \in auxDisturbed'
  <2>1. auxDisturbed' = auxDisturbed \union (SendingFrom(Signer(t)) \ {t})
    BY DEF Accept, DisturbAllBut
  <2>2. call[t].number > 0
    BY DEF IInv, CallProgress, Accept
  <2>3. KeyAccount # Signer(t) => log'[KeyAccount] = log[KeyAccount]
    BY <2>2, AcceptLog, KeyAssumption DEF IInv
  <2>4. ASSUME pc[u] = "send", call[u].op.session \in {"storage", "transfer"},
               KeyAccount = Signer(t)
        PROVE  u \in auxDisturbed'
    <3>1. Signer(u) = KeyAccount
      BY <2>4 DEF Signer
    <3>2. u \in SendingFrom(Signer(t))
      BY <2>4, <3>1 DEF SendingFrom
    <3>3. QED
      BY <2>1, <3>2
  <2>5. QED
    BY <2>1, <2>3, <2>4
<1>5. \A e \in auxAccepted' : e.thread = u => e.number <= call'[u].number
  BY <1>1, <1>3 DEF OfThread
<1>6. /\ ([thread |-> u, number |-> call[u].number, stage |-> "main"] \in auxAccepted')
           <=> Taken(u, call[u].number, "main")
      /\ ([thread |-> u, number |-> call[u].number, stage |-> "tag"] \in auxAccepted')
           <=> Taken(u, call[u].number, "tag")
      /\ ([thread |-> u, number |-> call[u].number, stage |-> call[u].stage]
            \in auxAccepted')
           <=> Taken(u, call[u].number, call[u].stage)
  BY <1>2 DEF Taken
<1>7. call'[u] = call[u] /\ pc'[u] = pc[u] /\ out'[u] = out[u]
  OBVIOUS
<1>8. QED
  BY <1>1, <1>4, <1>5, <1>6, <1>7 DEF OfThread, Taken

\* What is known of the thread whose transaction was taken.
LEMMA AcceptOwn ==
  ASSUME IInv, NEW t \in Threads, Accept(t)
  PROVE  /\ pc[t] = "send" /\ call[t].number > 0
         /\ Present(t) \in auxAccepted'
         /\ \A e \in auxAccepted' : e.thread = t => e.number <= call[t].number
         /\ [thread |-> t, number |-> call[t].number, stage |-> "main"]
              \in auxAccepted'
         /\ call[t].stage = "main" =>
              [thread |-> t, number |-> call[t].number, stage |-> "tag"]
                \notin auxAccepted'
<1>1. OfThread(t) /\ pc[t] = "send"
  BY IInvOfThreads DEF Accept
<1>2. auxAccepted' = auxAccepted \union {Present(t)}
  BY DEF Accept
<1>3. /\ Present(t).thread = t /\ Present(t).number = call[t].number
      /\ Present(t).stage = call[t].stage
      /\ call[t].stage = "main" =>
           Present(t) = [thread |-> t, number |-> call[t].number, stage |-> "main"]
  BY DEF Present
<1>4. call[t].stage \in {"main", "tag"} /\ call[t].number \in Nat
  BY BoundsAssumption DEF IInv, TypeOK, CallState
<1>5. call[t].stage = "tag" => Taken(t, call[t].number, "main")
  BY <1>1 DEF OfThread
<1>6. call[t].number > 0 /\ ~Taken(t, call[t].number, "tag")
  BY <1>1 DEF OfThread
<1>7. [thread |-> t, number |-> call[t].number, stage |-> "main"] \in auxAccepted'
  BY <1>2, <1>3, <1>4, <1>5 DEF Taken
<1>8. ASSUME call[t].stage = "main"
      PROVE  [thread |-> t, number |-> call[t].number, stage |-> "tag"]
               \notin auxAccepted'
  <2>1. [thread |-> t, number |-> call[t].number, stage |-> "tag"] # Present(t)
    BY <1>3, <1>8
  <2>2. QED
    BY <2>1, <1>2, <1>6 DEF Taken
<1>9. \A e \in auxAccepted' : e.thread = t => e.number <= call[t].number
  BY <1>1, <1>2, <1>3, <1>4 DEF OfThread
<1>10. QED
  BY <1>1, <1>2, <1>6, <1>7, <1>8, <1>9

\* SendAccepted: a creation goes on to its tags, any other call returns.
LEMMA SendAcceptedKeeps ==
  ASSUME IInv, NEW t \in Threads, SendAccepted(t) PROVE IInv'
<1> DEFINE new == [call[t] EXCEPT !.stage = "tag"]
<1>1. Accept(t) /\ faults' = faults
  BY DEF SendAccepted
<1>2. call \in [Threads -> CallState] /\ call[t] \in CallState
  BY DEF IInv, TypeOK
<1>3. /\ new \in CallState /\ new.stage = "tag" /\ new.op = call[t].op
      /\ new.number = call[t].number
  BY <1>2 DEF CallState
<1> HIDE DEF new
<1>4. call[t].stage \in {"main", "tag"}
  BY <1>2 DEF CallState
<1>5. CASE call[t].op.tagged /\ call[t].stage = "main"
  <2>1. /\ pc' = [pc EXCEPT ![t] = "nonce"] /\ call' = [call EXCEPT ![t] = new]
        /\ out' = out
    BY <1>5 DEF SendAccepted, Goto, new
  <2>2. TypeOK'
    BY <2>1, <1>1, <1>2, <1>3, AcceptTypes DEF IInv, TypeOK
  <2>3. pc'[t] = "nonce" /\ call'[t] = new
    BY <2>1, <1>2 DEF IInv, TypeOK
  <2>4. OfThread(t)'
    BY <2>3, <1>1, <1>3, <1>5, AcceptOwn DEF OfThread, Taken
  <2>5. ASSUME NEW u \in Threads \ {t} PROVE OfThread(u)'
    <3>1. pc'[u] = pc[u] /\ call'[u] = call[u] /\ out'[u] = out[u]
      BY <2>1, <1>2 DEF IInv, TypeOK
    <3>2. QED
      BY <3>1, <1>1, AcceptOthers
  <2>6. QED
    BY <2>2, <2>4, <2>5, <1>1, AcceptKeeps, NextOfThreads
<1>6. CASE ~(call[t].op.tagged /\ call[t].stage = "main")
  <2>1. /\ pc' = [pc EXCEPT ![t] = "idle"] /\ out' = [out EXCEPT ![t] = "ok"]
        /\ call' = call
    BY <1>6 DEF SendAccepted, Return
  <2>2. TypeOK'
    BY <2>1, <1>1, <1>2, AcceptTypes DEF IInv, TypeOK
  <2>3. pc'[t] = "idle" /\ out'[t] = "ok"
    BY <2>1 DEF IInv, TypeOK
  <2>4. call[t].op.tagged =>
          [thread |-> t, number |-> call[t].number, stage |-> "tag"] \in auxAccepted'
    BY <1>1, <1>4, <1>6, AcceptOwn DEF Present
  <2>5. OfThread(t)'
    BY <2>1, <2>3, <2>4, <1>1, AcceptOwn DEF OfThread, Taken
  <2>6. ASSUME NEW u \in Threads \ {t} PROVE OfThread(u)'
    <3>1. pc'[u] = pc[u] /\ call'[u] = call[u] /\ out'[u] = out[u]
      BY <2>1 DEF IInv, TypeOK
    <3>2. QED
      BY <3>1, <1>1, AcceptOthers
  <2>7. QED
    BY <2>2, <2>5, <2>6, <1>1, AcceptKeeps, NextOfThreads
<1>7. QED
  BY <1>5, <1>6

\* SendAnswerLost: the call ends with an error, though the node has it.
LEMMA SendAnswerLostKeeps ==
  ASSUME IInv, NEW t \in Threads, SendAnswerLost(t) PROVE IInv'
<1>1. /\ Accept(t) /\ call' = call
      /\ pc' = [pc EXCEPT ![t] = "idle"] /\ out' = [out EXCEPT ![t] = "error"]
      /\ faults < MaxFaults /\ faults' = faults + 1
  BY DEF SendAnswerLost, Return, Fault
<1>2. TypeOK'
  BY <1>1, AcceptTypes, BoundsAssumption DEF IInv, TypeOK
<1>3. pc'[t] = "idle" /\ out'[t] = "error"
  BY <1>1 DEF IInv, TypeOK
<1>4. OfThread(t)'
  BY <1>1, <1>3, AcceptOwn DEF OfThread, Taken
<1>5. ASSUME NEW u \in Threads \ {t} PROVE OfThread(u)'
  <2>1. pc'[u] = pc[u] /\ call'[u] = call[u] /\ out'[u] = out[u]
    BY <1>1 DEF IInv, TypeOK
  <2>2. QED
    BY <2>1, <1>1, AcceptOthers
<1>6. QED
  BY <1>1, <1>2, <1>4, <1>5, AcceptKeeps, NextOfThreads

\* SendRefused: the nonce was not the next one; the tags are tried again.
LEMMA SendRefusedKeeps ==
  ASSUME IInv, NEW t \in Threads, SendRefused(t) PROVE IInv'
<1> DEFINE new == [call[t] EXCEPT !.retry = call[t].retry + 1]
<1>1. /\ pc[t] = "send" /\ call[t].nonce # Len(log[Signer(t)])
      /\ UNCHANGED <<default, log, committed, auxAccepted, faults, auxDisturbed>>
  BY DEF SendRefused, nodeVars
<1>2. call \in [Threads -> CallState] /\ call[t] \in CallState
  BY DEF IInv, TypeOK
<1>3. OfThread(t)
  BY IInvOfThreads
<1>4. CASE IsSetTag(t) /\ call[t].retry + 1 < MaxNonceRetryTime
  <2>1. /\ pc' = [pc EXCEPT ![t] = "nonce"] /\ call' = [call EXCEPT ![t] = new]
        /\ out' = out
    BY <1>4 DEF SendRefused, Goto
  <2>2. call[t].retry + 1 \in 0..MaxNonceRetryTime-1
    BY <1>2, <1>4 DEF CallState, MaxNonceRetryTime
  <2>3. /\ new \in CallState /\ new.stage = call[t].stage /\ new.op = call[t].op
        /\ new.number = call[t].number
    BY <2>2, <1>2 DEF CallState
  <2> HIDE DEF new
  <2>4. TypeOK'
    BY <2>1, <2>3, <1>1, <1>2 DEF IInv, TypeOK
  <2>5. pc'[t] = "nonce" /\ call'[t] = new
    BY <2>1, <1>2 DEF IInv, TypeOK
  <2>6. OfThread(t)'
    BY <2>3, <2>5, <1>1, <1>3 DEF OfThread, Taken
  <2>7. ASSUME NEW u \in Threads \ {t} PROVE OfThread(u)'
    <3>1. pc'[u] = pc[u] /\ call'[u] = call[u] /\ out'[u] = out[u]
      BY <2>1, <1>2 DEF IInv, TypeOK
    <3>2. QED
      BY <3>1, <1>1, OthersStay
  <2>8. QED
    BY <2>4, <2>6, <2>7, <1>1, SameLog, NextOfThreads
<1>5. CASE ~(IsSetTag(t) /\ call[t].retry + 1 < MaxNonceRetryTime)
  <2>1. /\ pc' = [pc EXCEPT ![t] = "idle"] /\ out' = [out EXCEPT ![t] = "refused"]
        /\ call' = call
    BY <1>5 DEF SendRefused, Return
  <2>2. TypeOK'
    BY <2>1, <1>1 DEF IInv, TypeOK
  <2>3. pc'[t] = "idle" /\ out'[t] = "refused"
    BY <2>1 DEF IInv, TypeOK
  <2>4. call[t].op.session \in {"storage", "transfer"} => t \in auxDisturbed
    BY <1>1, <1>3 DEF OfThread, Signer
  <2>5. OfThread(t)'
    BY <2>1, <2>3, <2>4, <1>1, <1>3 DEF OfThread, Taken
  <2>6. ASSUME NEW u \in Threads \ {t} PROVE OfThread(u)'
    <3>1. pc'[u] = pc[u] /\ call'[u] = call[u] /\ out'[u] = out[u]
      BY <2>1 DEF IInv, TypeOK
    <3>2. QED
      BY <3>1, <1>1, OthersStay
  <2>7. QED
    BY <2>2, <2>5, <2>6, <1>1, SameLog, NextOfThreads
<1>6. QED
  BY <1>4, <1>5

\* Commit: a block takes transactions of the log.
LEMMA CommitKeeps ==
  ASSUME IInv, NEW a \in Accounts, Commit(a) PROVE IInv'
<1>1. PICK n \in committed[a]+1..Len(log[a]) : committed' = [committed EXCEPT ![a] = n]
  BY DEF Commit
<1>2. UNCHANGED <<default, log, auxAccepted, pc, call, out, faults, auxDisturbed>>
  BY DEF Commit, threadVars
<1>3. /\ committed \in [Accounts -> Nat]
      /\ \A b \in Accounts : Len(log[b]) \in Nat /\ committed[b] <= Len(log[b])
  BY LenProperties DEF IInv, TypeOK
<1>4. n \in Nat /\ n <= Len(log[a])
  BY <1>1, <1>3
<1>5. /\ committed' \in [Accounts -> Nat]
      /\ \A b \in Accounts : committed'[b] <= Len(log[b])
  BY <1>1, <1>3, <1>4
<1>6. TypeOK'
  BY <1>2, <1>5 DEF IInv, TypeOK
<1>7. ASSUME NEW u \in Threads PROVE OfThread(u)'
  BY <1>2, IInvOfThreads DEF OfThread, Taken
<1>8. QED
  BY <1>2, <1>6, <1>7, SameLog, NextOfThreads

\* Evict: the log is a beginning of what it was, and who was to send is disturbed.
LEMMA EvictKeeps ==
  ASSUME IInv, NEW a \in Accounts, Evict(a) PROVE IInv'
<1>1. /\ log' \in [Accounts -> Seq(Entry)]
      /\ \A b \in Accounts :
           /\ Len(log'[b]) <= Len(log[b])
           /\ \A i \in 1..Len(log'[b]) : log'[b][i] = log[b][i]
      /\ \A b \in Accounts : committed[b] <= Len(log'[b])
  BY EvictLog DEF IInv
<1>2. /\ UNCHANGED <<default, committed, auxAccepted, pc, call, out>>
      /\ faults < MaxFaults /\ faults' = faults + 1
      /\ auxDisturbed' = auxDisturbed \union SendingFrom(a)
      /\ SendingFrom(a) \subseteq Threads
  BY DEF Evict, Fault, threadVars, SendingFrom
<1>3. TypeOK'
  BY <1>1, <1>2, BoundsAssumption DEF IInv, TypeOK
<1>4. \A b \in Accounts : Len(log[b]) \in Nat /\ Len(log'[b]) \in Nat
  BY <1>1, LenProperties DEF IInv, TypeOK
<1>5. \A b \in Accounts : \A i \in 1..Len(log'[b]) : i \in 1..Len(log[b])
  BY <1>1, <1>4
<1>6. LogIsTaken'
  BY <1>1, <1>2, <1>5 DEF IInv, LogIsTaken
<1>7. NoneTwice'
  BY <1>1, <1>5 DEF IInv, NoneTwice
<1>8. MainFirst'
  BY <1>1, <1>5 DEF IInv, MainFirst
<1>9. TagsHaveMain'
  BY <1>2 DEF IInv, TagsHaveMain, Taken
<1>10. ASSUME NEW u \in Threads PROVE OfThread(u)'
  <2>1. OfThread(u)
    BY IInvOfThreads
  <2>2. u \in auxDisturbed => u \in auxDisturbed'
    BY <1>2
  <2>3. KeyAccount # a => log'[KeyAccount] = log[KeyAccount]
    BY KeyAssumption DEF Evict, IInv, TypeOK
  <2>4. ASSUME pc[u] = "send", call[u].op.session \in {"storage", "transfer"},
               KeyAccount = a
        PROVE  u \in auxDisturbed'
    BY <1>2, <2>4 DEF SendingFrom, Signer
  <2>5. QED
    BY <2>1, <2>2, <2>3, <2>4, <1>2 DEF OfThread, Taken
<1>11. QED
  BY <1>3, <1>6, <1>7, <1>8, <1>9, <1>10, NextOfThreads DEF LogInv

\* Every step keeps the invariant.
LEMMA NextIInv ==
  ASSUME IInv, [Next]_vars PROVE IInv'
<1>1. CASE \E a \in Accounts : SetDefaultAccount(a)
  BY <1>1, SetDefaultAccountKeeps
<1>2. CASE \E a \in Accounts : Commit(a)
  BY <1>2, CommitKeeps
<1>3. CASE \E a \in Accounts : Evict(a)
  BY <1>3, EvictKeeps
<1>4. CASE \E t \in Threads, op \in Ops : Call(t, op)
  BY <1>4, CallKeeps
<1>5. CASE \E t \in Threads : ReadNonce(t)
  BY <1>5, ReadNonceKeeps
<1>6. CASE \E t \in Threads : SessionFails(t)
  BY <1>6, SessionFailsKeeps
<1>7. CASE \E t \in Threads : SendAccepted(t)
  BY <1>7, SendAcceptedKeeps
<1>8. CASE \E t \in Threads : SendAnswerLost(t)
  BY <1>8, SendAnswerLostKeeps
<1>9. CASE \E t \in Threads : SendRefused(t)
  BY <1>9, SendRefusedKeeps
<1>10. CASE UNCHANGED vars
  <2>1. UNCHANGED <<default, log, committed, auxAccepted, pc, call, out, faults,
                    auxDisturbed>>
    BY <1>10 DEF vars, nodeVars, threadVars
  <2>2. TypeOK'
    BY <2>1 DEF IInv, TypeOK
  <2>3. ASSUME NEW u \in Threads PROVE OfThread(u)'
    BY <2>1, IInvOfThreads DEF OfThread, Taken
  <2>4. QED
    BY <2>1, <2>2, <2>3, SameLog, NextOfThreads
<1>11. QED
  BY <1>1, <1>2, <1>3, <1>4, <1>5, <1>6, <1>7, <1>8, <1>9, <1>10 DEF Next

-----------------------------------------------------------------------------
(* The theorems about sending.                                              *)

\* The invariant holds always.
LEMMA Invariance == Spec => []IInv
<1>1. Init => IInv
  BY InitIInv
<1>2. IInv /\ [Next]_vars => IInv'
  BY NextIInv
<1>3. QED
  BY <1>1, <1>2, PTL DEF Spec

\* The variables keep their types: tags are tried three times at most, and no block
\* takes what the mempool does not have.
THEOREM TypeCorrect == Spec => []TypeOK
<1>1. IInv => TypeOK
  BY DEF IInv
<1>2. QED
  BY <1>1, Invariance, PTL

\* However many threads send at once, and whatever answers are lost, each
\* transaction of a call is taken at most once, and was taken if a hash is returned.
THEOREM TakenOnce == Spec => []EachTakenOnce
<1>1. IInv => EachTakenOnce
  <2> SUFFICES ASSUME IInv PROVE EachTakenOnce
    OBVIOUS
  <2>1. ASSUME NEW a \in Accounts, NEW t \in Threads, NEW n \in 1..MaxCalls,
               NEW stage \in {"main", "tag"},
               NEW i \in SentAt(a, t, n, stage), NEW j \in SentAt(a, t, n, stage)
        PROVE  i = j
    <3>1. i \in 1..Len(log[a]) /\ j \in 1..Len(log[a])
      BY DEF SentAt
    <3>2. log[a][i] \in Entry /\ log[a][j] \in Entry
      BY <3>1, ElementOfSeq DEF IInv, TypeOK
    <3>3. /\ log[a][i].thread = log[a][j].thread
          /\ log[a][i].number = log[a][j].number
          /\ log[a][i].stage = log[a][j].stage
      BY DEF SentAt
    <3>4. log[a][i] = log[a][j]
      BY <3>2, <3>3 DEF Entry
    <3>5. QED
      BY <3>1, <3>4 DEF IInv, NoneTwice
  <2>2. OkIsTaken
    BY DEF IInv
  <2>3. QED
    BY <2>1, <2>2 DEF EachTakenOnce
<1>2. QED
  BY <1>1, Invariance, PTL

\* Tags are only ever set on what the node took, behind it in the mempool.
THEOREM TagsFollow == Spec => []TagAfterCreation
<1>1. IInv => TagAfterCreation
  <2> SUFFICES ASSUME IInv, NEW a \in Accounts, NEW t \in Threads,
                      NEW n \in 1..MaxCalls, NEW i \in SentAt(a, t, n, "tag")
               PROVE  /\ Taken(t, n, "main")
                      /\ \A j \in SentAt(a, t, n, "main") : j < i
    BY DEF TagAfterCreation
  <2>1. /\ i \in 1..Len(log[a]) /\ log[a][i].thread = t /\ log[a][i].number = n
        /\ log[a][i].stage = "tag"
    BY DEF SentAt
  <2>2. Taken(t, n, "main")
    BY <2>1 DEF IInv, LogIsTaken, TagsHaveMain
  <2>3. \A j \in SentAt(a, t, n, "main") : j < i
    BY <2>1 DEF IInv, MainFirst, SentAt
  <2>4. QED
    BY <2>2, <2>3
<1>2. QED
  BY <1>1, Invariance, PTL

\* A storage operation or a transfer is refused only when others sent, or lost,
\* something between its two requests.
THEOREM RefusalsHaveCause == Spec => []RefusedOnlyIfDisturbed
<1>1. IInv => RefusedOnlyIfDisturbed
  BY DEF IInv
<1>2. QED
  BY <1>1, Invariance, PTL

-----------------------------------------------------------------------------
(* Waiting for a transaction.                                               *)

\* The invariant holds before the transaction is sent.
LEMMA WaitInitInv ==
  ASSUME WaitInit PROVE WaitInv
<1> USE DEF WaitInit
<1>1. answer \in Outcome
  BY DEF Outcome
<1>2. togo \in 0..1 /\ failures \in 0..MaxFailures
  BY FailuresAssumption
<1>3. WaitTypeOK
  BY <1>1, <1>2 DEF WaitTypeOK
<1>4. AnswerIsTrue /\ AsksOncePerBlock /\ IndexedIsIncluded /\ NotSentYet
      /\ NoAnswerYet /\ BlockIsNew
  BY DEF AnswerIsTrue, AsksOncePerBlock, IndexedIsIncluded, NotSentYet, NoAnswerYet,
         BlockIsNew
<1>5. QED
  BY <1>3, <1>4 DEF WaitInv

\* Every step of the call, the chain and its endpoints keeps the invariant.
LEMMA WaitNextInv ==
  ASSUME WaitInv, [WaitNext]_waitVars PROVE WaitInv'
<1> USE WaitOpsAssumption, FailuresAssumption
    DEF WaitInv, WaitTypeOK, AnswerIsTrue, AsksOncePerBlock, IndexedIsIncluded,
        NoAnswerYet, NotSentYet, BlockIsNew, Outcome, chainVars, AllWaitOps
<1>1. CASE Broadcast
  BY <1>1 DEF Broadcast, GoOn
<1>2. CASE BroadcastAsync
  BY <1>2 DEF BroadcastAsync, Answer
<1>3. CASE BroadcastFails
  BY <1>3 DEF BroadcastFails, Answer
<1>4. CASE WaitForSent
  BY <1>4 DEF WaitForSent, GoOn, IsEvm
<1>5. CASE tryWaitForTx
  <2>1. answer' \in Outcome
    BY <1>5 DEF tryWaitForTx, GoOn, Answer, AnswerFound
  <2>2. WaitTypeOK'
    BY <1>5, <2>1 DEF tryWaitForTx, GoOn, Answer, AnswerFound
  <2>3. AnswerIsTrue' /\ IndexedIsIncluded'
    BY <1>5 DEF tryWaitForTx, GoOn, Answer, AnswerFound
  <2>4. AsksOncePerBlock' /\ NotSentYet' /\ NoAnswerYet' /\ BlockIsNew'
    BY <1>5 DEF tryWaitForTx, GoOn, Answer, AnswerFound
  <2>5. QED
    BY <2>2, <2>3, <2>4
<1>6. CASE tryWaitForEvmTx
  BY <1>6 DEF tryWaitForEvmTx, GoOn
<1>7. CASE TransactionReceipt
  <2>1. answer' \in Outcome
    BY <1>7 DEF TransactionReceipt, GoOn, Answer, AnswerFound
  <2>2. WaitTypeOK'
    BY <1>7, <2>1 DEF TransactionReceipt, GoOn, Answer, AnswerFound
  <2>3. AnswerIsTrue' /\ IndexedIsIncluded'
    BY <1>7 DEF TransactionReceipt, GoOn, Answer, AnswerFound
  <2>4. AsksOncePerBlock' /\ NotSentYet' /\ NoAnswerYet' /\ BlockIsNew'
    BY <1>7 DEF TransactionReceipt, GoOn, Answer, AnswerFound
  <2>5. QED
    BY <2>2, <2>3, <2>4
<1>8. CASE WaitForNextBlock
  BY <1>8 DEF WaitForNextBlock, GoOn
<1>9. CASE PollHeight
  BY <1>9 DEF PollHeight, GoOn
<1>10. CASE PollHeightFails
  BY <1>10 DEF PollHeightFails, GoOn, RequestFails
<1>11. CASE Tick
  BY <1>11 DEF Tick, GoOn
<1>12. CASE DeadlineEndsCall
  BY <1>12 DEF DeadlineEndsCall, Answer
<1>13. CASE RequestEndsCall
  BY <1>13 DEF RequestEndsCall, Answer, RequestFails
<1>14. CASE NewBlock
  <2>1. togo' \in 0..1 /\ auxAsked' = FALSE
    BY <1>14 DEF NewBlock
  <2>2. tx' \in {tx, "committed", "failed"} /\ (tx # "mempool" => tx' = tx)
    BY <1>14 DEF NewBlock
  <2>3. UNCHANGED <<chainHas, evmHas, at, operation, expired, answer, failures>>
    BY <1>14 DEF NewBlock
  <2>4. WaitTypeOK'
    BY <2>1, <2>2, <2>3
  <2>5. AnswerIsTrue' /\ IndexedIsIncluded'
    BY <2>2, <2>3
  <2>6. tx = "none" => tx' = "none"
    BY <2>2
  <2>7. AsksOncePerBlock' /\ NotSentYet' /\ NoAnswerYet' /\ BlockIsNew'
    BY <2>1, <2>3, <2>6
  <2>8. QED
    BY <2>4, <2>5, <2>7
<1>15. CASE Drop
  BY <1>15 DEF Drop
<1>16. CASE ChainIndexes
  BY <1>16 DEF ChainIndexes
<1>17. CASE EvmIndexes
  BY <1>17 DEF EvmIndexes
<1>18. CASE Expire
  BY <1>18 DEF Expire, Waiting
<1>19. CASE UNCHANGED waitVars
  BY <1>19 DEF waitVars
<1>20. QED
  BY <1>1, <1>2, <1>3, <1>4, <1>5, <1>6, <1>7, <1>8, <1>9, <1>10, <1>11, <1>12,
     <1>13, <1>14, <1>15, <1>16, <1>17, <1>18, <1>19
     DEF WaitNext, WaitStep, Environment

\* The invariant holds always.
LEMMA WaitInvariance == WaitSpec => []WaitInv
<1>1. WaitInit => WaitInv
  BY WaitInitInv
<1>2. WaitInv /\ [WaitNext]_waitVars => WaitInv'
  BY WaitNextInv
<1>3. QED
  BY <1>1, <1>2, PTL DEF WaitSpec

\* The variables keep their types: a wait is never for more than one block.
THEOREM WaitTypeCorrect == WaitSpec => []WaitTypeOK
<1>1. WaitInv => WaitTypeOK
  BY DEF WaitInv
<1>2. QED
  BY <1>1, WaitInvariance, PTL

\* WaitForTx says that a transaction was executed, or that it failed, only when
\* it was, whichever endpoint indexes it when and whatever requests fail.
THEOREM AnswerTrue == WaitSpec => []AnswerIsTrue
<1>1. WaitInv => AnswerIsTrue
  BY DEF WaitInv
<1>2. QED
  BY <1>1, WaitInvariance, PTL

\* WaitForTx asks for the transaction at most once between two blocks, whatever
\* requests for the height fail or are answered with 0.
THEOREM AskedOncePerBlock == WaitSpec => []AsksOncePerBlock
<1>1. WaitInv => AsksOncePerBlock
  BY DEF WaitInv
<1>2. QED
  BY <1>1, WaitInvariance, PTL

=============================================================================

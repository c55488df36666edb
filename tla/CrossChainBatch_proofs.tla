------------------------ MODULE CrossChainBatch_proofs ------------------------
(***************************************************************************)
(* Theorems about CrossChainBatch, for any callers, accounts, fees, batches *)
(* and messages.                                                           *)
(***************************************************************************)
EXTENDS CrossChainBatch, FiniteSetTheorems, WellFoundedInduction, TLAPS

-----------------------------------------------------------------------------
(* Naturals and sums.                                                       *)

\* Naturals have a least one.
LEMMA LeastNatural ==
  ASSUME NEW T \in SUBSET Nat, T # {}
  PROVE  \E x \in T : \A y \in T : x <= y
<1>1. PICK x \in T : \A y \in T : <<y, x>> \notin OpToRel(<, Nat)
  BY NatLessThanWellFounded, WFMin
<1>2. \A y \in T : ~(y < x)
  BY <1>1 DEF OpToRel
<1>3. QED
  BY <1>2

\* The sums of the first numbers, which Total takes the last of.
Sums(numbers, m, f) ==
  f = [n \in 0..m |-> IF n = 0 THEN 0 ELSE f[n - 1] + numbers[n]]

\* Numbers have sums, up to each of them.
LEMMA SumsExist ==
  ASSUME NEW m \in Nat, NEW numbers \in [1..m -> Nat]
  PROVE  \E f \in [0..m -> Nat] : Sums(numbers, m, f)
<1> DEFINE Good(n) == \E f \in [0..n -> Nat] : Sums(numbers, n, f)
           Bad == {n \in 0..m : ~Good(n)}
<1>1. Good(0)
  <2>1. Sums(numbers, 0, [i \in 0..0 |-> 0])
    BY DEF Sums
  <2>2. [i \in 0..0 |-> 0] \in [0..0 -> Nat]
    OBVIOUS
  <2>3. QED
    BY <2>1, <2>2
<1>2. ASSUME NEW n \in 1..m, Good(n - 1) PROVE Good(n)
  <2>1. PICK f \in [0..(n - 1) -> Nat] : Sums(numbers, n - 1, f)
    BY <1>2
  <2> DEFINE g == [i \in 0..n |-> IF i = n THEN f[n - 1] + numbers[n] ELSE f[i]]
  <2>2. g \in [0..n -> Nat]
    BY <2>1
  <2>3. \A i \in 0..(n - 1) : f[i] = IF i = 0 THEN 0 ELSE f[i - 1] + numbers[i]
    BY <2>1 DEF Sums
  <2>4. ASSUME NEW i \in 0..n
        PROVE  g[i] = IF i = 0 THEN 0 ELSE g[i - 1] + numbers[i]
    <3>1. CASE i = n
      BY <3>1
    <3>2. CASE i # n
      BY <2>3, <3>2
    <3>3. QED
      BY <3>1, <3>2
  <2>5. g = [i \in 0..n |-> IF i = 0 THEN 0 ELSE g[i - 1] + numbers[i]]
    BY <2>2, <2>4
  <2>6. Sums(numbers, n, g)
    BY <2>5 DEF Sums
  <2>7. QED
    BY <2>2, <2>6
<1>3. ASSUME Bad # {} PROVE FALSE
  <2>1. Bad \in SUBSET Nat
    OBVIOUS
  <2>2. PICK n \in Bad : \A k \in Bad : n <= k
    BY <1>3, <2>1, LeastNatural
  <2> HIDE DEF Good
  <2>3. n \in 1..m
    BY <1>1, <2>2
  <2>4. Good(n - 1)
    BY <2>2, <2>3
  <2>5. QED
    BY <1>2, <2>2, <2>3, <2>4
<1>4. Good(m)
  <2> HIDE DEF Good
  <2>1. QED
    BY <1>3
<1>5. QED
  BY <1>4

\* The total of the numbers of a sequence is the last of their sums.
LEMMA TotalIsSum ==
  ASSUME NEW m \in Nat, NEW numbers \in [1..m -> Nat]
  PROVE  \E f \in [0..m -> Nat] :
           /\ Total(numbers) = f[m] /\ f[0] = 0
           /\ \A n \in 1..m : f[n] = f[n - 1] + numbers[n]
<1>1. Len(numbers) = m
  OBVIOUS
<1> DEFINE s == CHOOSE f : Sums(numbers, m, f)
<1>2. PICK f \in [0..m -> Nat] : Sums(numbers, m, f)
  BY SumsExist
<1>3. Sums(numbers, m, s)
  BY <1>2
<1>4. Total(numbers) = s[m]
  BY <1>1 DEF Total, Sums
<1> HIDE DEF s
<1>5. s[0] = 0 /\ \A n \in 1..m : s[n] = s[n - 1] + numbers[n]
  BY <1>3 DEF Sums
<1> DEFINE Bad == {n \in 0..m : s[n] \notin Nat}
<1>6. Bad \in SUBSET Nat /\ 0 \notin Bad
  BY <1>5
<1>7. Bad = {}
  <2>1. SUFFICES ASSUME Bad # {} PROVE FALSE
    OBVIOUS
  <2>2. PICK n \in Bad : \A k \in Bad : n <= k
    BY <1>6, <2>1, LeastNatural
  <2>3. n \in 1..m /\ n - 1 \in 0..m /\ n - 1 \notin Bad
    BY <1>6, <2>2
  <2>4. QED
    BY <1>5, <2>2, <2>3
<1>8. s \in [0..m -> Nat]
  BY <1>3, <1>7 DEF Sums
<1>9. QED
  BY <1>4, <1>5, <1>8

\* What pays for each pays for all.
LEMMA TotalsInOrder ==
  ASSUME NEW m \in Nat, NEW more \in [1..m -> Nat], NEW less \in [1..m -> Nat],
         \A i \in 1..m : more[i] >= less[i]
  PROVE  Total(more) >= Total(less)
<1>1. PICK f \in [0..m -> Nat] :
        /\ Total(more) = f[m] /\ f[0] = 0
        /\ \A n \in 1..m : f[n] = f[n - 1] + more[n]
  BY TotalIsSum
<1>2. PICK g \in [0..m -> Nat] :
        /\ Total(less) = g[m] /\ g[0] = 0
        /\ \A n \in 1..m : g[n] = g[n - 1] + less[n]
  BY TotalIsSum
<1> DEFINE Bad == {n \in 0..m : ~(f[n] >= g[n])}
<1>3. Bad \in SUBSET Nat /\ 0 \notin Bad
  BY <1>1, <1>2
<1>4. Bad = {}
  <2>1. SUFFICES ASSUME Bad # {} PROVE FALSE
    OBVIOUS
  <2>2. PICK n \in Bad : \A k \in Bad : n <= k
    BY <1>3, <2>1, LeastNatural
  <2>3. n \in 1..m /\ n - 1 \in 0..m /\ n - 1 \notin Bad
    BY <1>3, <2>2
  <2>4. f[n - 1] >= g[n - 1] /\ f[n] = f[n - 1] + more[n] /\ g[n] = g[n - 1] + less[n]
    BY <1>1, <1>2, <2>3
  <2>5. f[n - 1] \in Nat /\ g[n - 1] \in Nat /\ more[n] \in Nat /\ less[n] \in Nat
    BY <2>3
  <2>6. more[n] >= less[n]
    BY <2>3
  <2>7. f[n] >= g[n]
    <3> DEFINE a == f[n - 1]
               b == g[n - 1]
               c == more[n]
               d == less[n]
    <3>1. a \in Nat /\ b \in Nat /\ c \in Nat /\ d \in Nat /\ a >= b /\ c >= d
      BY <2>4, <2>5, <2>6
    <3>2. f[n] = a + c /\ g[n] = b + d
      BY <2>4
    <3> HIDE DEF a, b, c, d, Bad
    <3>3. QED
      BY <3>1, <3>2
  <2>8. QED
    BY <2>2, <2>7
<1>5. ASSUME NEW n \in 0..m PROVE f[n] >= g[n]
  BY <1>4
<1>6. f[m] >= g[m]
  BY <1>5
<1>7. QED
  BY <1>1, <1>2, <1>6

-----------------------------------------------------------------------------
(* Messages and what they pay.                                              *)

\* A product of naturals is one.
LEMMA NatTimes == ASSUME NEW m \in Nat, NEW n \in Nat PROVE m * n \in Nat
  OBVIOUS

\* What a caller asks for, and the fee it is read as.
LEMMA ArgsType ==
  ASSUME NEW op, NEW arg \in Args(op), NEW table \in Table
  PROVE  /\ arg \in Arg
         /\ arg.gas \in Nat /\ arg.amount \in Nat
         /\ AckFee(table, arg) \in Nat
         /\ op.pays # "callback" => arg.gas = 0
         /\ op.pays # "amount" => arg.amount = 0
<1>1. /\ arg.gas \in IF op.pays = "callback" THEN GasLimits ELSE {0}
      /\ arg.ack \in Acks \cup {NoAck}
      /\ arg.amount \in IF op.pays = "amount" THEN Amounts ELSE {0}
      /\ arg = [gas |-> arg.gas, ack |-> arg.ack, amount |-> arg.amount]
  BY DEF Args
<1>2. GasLimits \subseteq Nat /\ Amounts \subseteq Nat /\ Acks \subseteq Nat
  BY FeesAssumption
<1>3. arg.gas \in GasLimits \cup {0} /\ arg.amount \in Amounts \cup {0}
  BY <1>1
<1>4. arg \in Arg
  BY <1>1, <1>3 DEF Arg
<1>5. AckFee(table, arg) \in Nat
  BY <1>1, <1>2 DEF AckFee, Table
<1>6. QED
  BY <1>1, <1>2, <1>3, <1>4, <1>5

\* The value of a message is a natural.
LEMMA FeeType ==
  ASSUME NEW op, NEW arg \in Args(op), NEW table \in Table
  PROVE  Fee(op, arg, table) \in Nat
<1>1. arg.gas * table.price \in Nat
  BY ArgsType, NatTimes DEF Table
<1>2. QED
  BY <1>1, ArgsType DEF Fee, calculateCallBackFee, Table

\* Only the executor's messages pay nothing.
LEMMA MessageOpsPay ==
  \A op \in MessageOps : op.pays # "nothing"
  BY DEF MessageOps, Op, Plain, WithCallBack, CreateBucket, CreateBucketCallBack,
         DeleteBucket, DeleteBucketCallBack, DeleteObject, DeleteObjectCallBack,
         CreateGroup, CreateGroupCallBack, DeleteGroup, DeleteGroupCallBack,
         UpdateGroup, UpdateGroupCallBack, CreatePolicy, CreatePolicyCallBack,
         DeletePolicy, DeletePolicyCallBack, TransferOut

\* A message pays for itself unless its AckRelayFee is below the minimum.
LEMMA FeeIsOwed ==
  ASSUME NEW op \in MessageOps, NEW arg \in Args(op), NEW table \in Table
  PROVE  \/ Fee(op, arg, table) >= Owed(arg, table)
         \/ arg.ack # NoAck /\ arg.ack < table.minAck
<1>1. SUFFICES ASSUME arg.ack # NoAck => ~(arg.ack < table.minAck)
               PROVE  Fee(op, arg, table) >= Owed(arg, table)
  OBVIOUS
<1>2. AckFee(table, arg) >= table.minAck
  <2>1. arg.ack \in Acks \cup {NoAck} /\ Acks \subseteq Nat
    BY FeesAssumption DEF Args
  <2>2. table.minAck \in Nat
    BY DEF Table
  <2>3. CASE arg.ack = NoAck
    BY <2>2, <2>3 DEF AckFee
  <2>4. CASE arg.ack # NoAck
    <3>1. arg.ack \in Nat /\ ~(arg.ack < table.minAck) /\ AckFee(table, arg) = arg.ack
      BY <1>1, <2>1, <2>4 DEF AckFee
    <3>2. QED
      BY <2>2, <3>1
  <2>5. QED
    BY <2>3, <2>4
<1>3. arg.gas * table.price \in Nat
  BY ArgsType, NatTimes DEF Table
<1>4. op.pays # "callback" => arg.gas * table.price = 0
  <2>1. 0 * table.price = 0
    BY DEF Table
  <2>2. QED
    BY <2>1, ArgsType
<1>5. op.pays # "nothing"
  BY MessageOpsPay
<1>6. QED
  BY <1>2, <1>3, <1>4, <1>5, ArgsType
     DEF Fee, calculateCallBackFee, Owed, Table

\* What is appended is a message.
LEMMA MessageTyped ==
  ASSUME NEW op \in Ops, NEW arg \in Args(op), NEW table \in Table
  PROVE  Message(op, arg, table) \in MessageType
<1>1. op \in MessageOps \cup ExecutorOps
  BY OpsAssumption
<1>2. arg \in Arg /\ Fee(op, arg, table) \in Nat
  BY ArgsType, FeeType
<1>3. QED
  BY <1>1, <1>2 DEF Message, MessageType

\* What is owed for a message is a natural.
LEMMA OwedType ==
  ASSUME NEW arg \in Arg, NEW table \in Table
  PROVE  Owed(arg, table) \in Nat
<1>1. arg.gas \in Nat /\ arg.amount \in Nat
  <2>1. arg.gas \in GasLimits \cup {0} /\ arg.amount \in Amounts \cup {0}
    BY DEF Arg
  <2>2. GasLimits \cup {0} \subseteq Nat /\ Amounts \cup {0} \subseteq Nat
    BY FeesAssumption
  <2>3. QED
    BY <2>1, <2>2
<1>2. arg.gas * table.price \in Nat
  BY <1>1, NatTimes DEF Table
<1>3. QED
  BY <1>1, <1>2 DEF Owed, Table

\* A batch of messages that pay for themselves does not revert.
LEMMA PricedPays ==
  ASSUME NEW tx \in TxType, tx.kind = "multi", tx.messages # <<>>,
         \A i \in DOMAIN tx.messages :
           tx.messages[i].value >= Owed(tx.messages[i].data.arg, tx.table)
  PROVE  Pays(tx, tx.table)
<1> DEFINE m == Len(tx.messages)
           more == [i \in 1..m |-> tx.messages[i].value]
           less == [i \in 1..m |-> Owed(tx.messages[i].data.arg, tx.table)]
<1>1. m \in Nat /\ DOMAIN tx.messages = 1..m /\ tx.table \in Table
  BY DEF TxType
<1>2. \A i \in 1..m : tx.messages[i] \in MessageType
  BY DEF TxType
<1>3. more \in [1..m -> Nat]
  BY <1>2 DEF MessageType
<1>4. less \in [1..m -> Nat]
  <2>1. \A i \in 1..m : tx.messages[i].data.arg \in Arg
    BY <1>2 DEF MessageType
  <2>2. \A i \in 1..m : Owed(tx.messages[i].data.arg, tx.table) \in Nat
    BY <1>1, <2>1, OwedType
  <2>3. QED
    BY <2>2
<1>5. \A i \in 1..m : more[i] >= less[i]
  BY <1>1
<1>6. Total(more) >= Total(less)
  <2> HIDE DEF m, more, less
  <2>1. QED
    BY <1>1, <1>3, <1>4, <1>5, TotalsInOrder
<1>7. QED
  BY <1>6 DEF Pays, ValueSent

\* A transaction that does not pay has a cause.
LEMMA RevertHasCause ==
  ASSUME NEW tx \in TxType, Priced(tx.kind, tx.table, tx.messages),
         NEW table \in FeeTables, ~Pays(tx, table)
  PROVE  IF tx.kind = "executor" THEN tx.table.relay # table.relay
         ELSE \/ tx.messages = <<>>
              \/ tx.table # table
              \/ \E j \in DOMAIN tx.messages :
                   LET ack == tx.messages[j].data.arg.ack
                   IN  ack # NoAck /\ ack < tx.table.minAck
<1>1. CASE tx.kind = "executor"
  BY <1>1, FeesAssumption DEF Pays, ValueSent, TxType, Table
<1>2. CASE tx.kind # "executor"
  <2>1. tx.kind = "multi"
    BY <1>2 DEF TxType
  <2>2. SUFFICES ASSUME tx.messages # <<>>, tx.table = table,
                        \A j \in DOMAIN tx.messages :
                          ~(/\ tx.messages[j].data.arg.ack # NoAck
                            /\ tx.messages[j].data.arg.ack < tx.table.minAck)
                 PROVE  FALSE
    BY <1>2
  <2>3. \A i \in DOMAIN tx.messages :
          tx.messages[i].value >= Owed(tx.messages[i].data.arg, tx.table)
    BY <2>1, <2>2 DEF Priced
  <2>4. QED
    BY <2>1, <2>2, <2>3, PricedPays
<1>3. QED
  BY <1>1, <1>2

-----------------------------------------------------------------------------
(* What a step does to the node and to a caller.                            *)

NodeKept == UNCHANGED <<committed, pool, executed>>

\* The node takes a caller's transaction, and the caller, if it goes on, knows.
Enters(c) ==
  /\ At(c, "submit") /\ Takes(Tx(c)) /\ Enter(Tx(c))
  /\ UNCHANGED <<committed, executed>>
  /\ alive' => /\ pc'[c] = "sent"
               /\ call'[c].nonce = call[c].nonce /\ call'[c].again = call[c].again

Stays(c) == pc'[c] = pc[c] /\ call'[c] = call[c] /\ begun'[c] = begun[c]

\* The steps of a caller that do not end the process.
Acts(c) ==
  \/ \E kind \in {"multi", "executor"} : Begin(c, kind)
  \/ GetMinAckRelayFee(c) \/ GetCallbackGasPrice(c)
  \/ \E op \in Ops : \E arg \in Args(op) : AppendMessage(c, op, arg)
  \/ Send(c) \/ SendAgain(c) \/ ReadNonce(c) \/ Sign(c) \/ Submit(c)
  \/ At(c, "submit") /\ SubmitRefused(c) /\ call[c].again
  \/ SendRequestFails(c) /\ call[c].again
  \/ CheckTxStatus(c)

\* A caller's transaction has its type.
LEMMA TxTyped ==
  ASSUME TypeOK, NEW c \in Callers
  PROVE  Tx(c) \in TxType
  BY DEF TypeOK, CallType, TxType, Tx

\* What can happen to the node.
LEMMA NodeSteps ==
  ASSUME TypeOK, [Next]_vars
  PROVE  \/ NodeKept
         \/ \E c \in Callers : Enters(c)
         \/ \E tx \in pool : Commit(tx)
<1>1. CASE UNCHANGED vars
  BY <1>1 DEF vars, chainVars, NodeKept
<1>2. ASSUME NEW c \in Callers, Building(c)
      PROVE  NodeKept
  BY <1>2 DEF Building, Begin, GetMinAckRelayFee, GetCallbackGasPrice, FeesFail,
              AppendMessage, chainVars, NodeKept
<1>3. ASSUME NEW c \in Callers, Sending(c)
      PROVE  NodeKept \/ Enters(c)
  <2>1. CASE Send(c) \/ SendAgain(c) \/ ReadNonce(c) \/ Sign(c) \/ SubmitRefused(c)
    BY <2>1 DEF Send, SendAgain, ReadNonce, Sign, SubmitRefused, chainVars, NodeKept
  <2>2. CASE Submit(c)
    <3>1. pc'[c] = "sent"
      BY <2>2 DEF Submit, Goto, TypeOK
    <3>2. call'[c].nonce = call[c].nonce /\ call'[c].again = call[c].again
      BY <2>2 DEF Submit, TypeOK, CallType
    <3>3. QED
      BY <2>2, <3>1, <3>2 DEF Submit, Enters
  <2>3. CASE SendRequestFails(c)
    <3>1. alive' => pc'[c] = "sent" /\ call' = call
      BY <2>3 DEF SendRequestFails, SendFails, Fatal, Goto, TypeOK
    <3>2. CASE UNCHANGED pool
      BY <2>3, <3>2 DEF SendRequestFails, NodeKept
    <3>3. CASE pc[c] = "submit" /\ Takes(Tx(c)) /\ Enter(Tx(c))
      BY <2>3, <3>1, <3>3 DEF SendRequestFails, Enters, At
    <3>4. QED
      BY <2>3, <3>2, <3>3 DEF SendRequestFails
  <2>4. QED
    BY <1>3, <2>1, <2>2, <2>3 DEF Sending
<1>4. ASSUME NEW c \in Callers, CheckTxStatus(c) \/ CheckFails(c)
      PROVE  NodeKept
  BY <1>4 DEF CheckTxStatus, CheckFails, chainVars, NodeKept
<1>5. ASSUME NEW a \in Accounts, SetDefaultAccount(a)
      PROVE  NodeKept
  BY <1>5 DEF SetDefaultAccount, chainVars, NodeKept
<1>6. ASSUME NEW table \in FeeTables, ChangeFees(table)
      PROVE  NodeKept
  BY <1>6 DEF ChangeFees, NodeKept
<1>7. QED
  BY <1>1, <1>2, <1>3, <1>4, <1>5, <1>6 DEF Next

\* What can happen to a caller.
LEMMA CallerSteps ==
  ASSUME TypeOK, [Next]_vars, NEW d \in Callers
  PROVE  Fatal \/ Stays(d) \/ Acts(d)
<1>1. CASE UNCHANGED vars
  BY <1>1 DEF vars, callerVars, Stays
<1>2. ASSUME NEW c \in Callers, Building(c)
      PROVE  Fatal \/ Stays(d) \/ Acts(d)
  <2>1. CASE c = d
    BY <1>2, <2>1 DEF Building, FeesFail, Acts
  <2>2. CASE c # d
    BY <1>2, <2>2 DEF Building, Begin, GetMinAckRelayFee, GetCallbackGasPrice,
                      FeesFail, AppendMessage, Goto, Stays, TypeOK
  <2>3. QED
    BY <2>1, <2>2
<1>3. ASSUME NEW c \in Callers, Sending(c)
      PROVE  Fatal \/ Stays(d) \/ Acts(d)
  <2>1. CASE c = d
    BY <1>3, <2>1 DEF Sending, SubmitRefused, SendRequestFails, SendFails, Acts
  <2>2. CASE c # d
    BY <1>3, <2>2 DEF Sending, Send, SendAgain, ReadNonce, Sign, Submit, SubmitRefused,
                      SendRequestFails, SendFails, Goto, Stays, TypeOK
  <2>3. QED
    BY <2>1, <2>2
<1>4. ASSUME NEW c \in Callers, CheckTxStatus(c) \/ CheckFails(c)
      PROVE  Fatal \/ Stays(d) \/ Acts(d)
  <2>1. CASE c = d
    BY <1>4, <2>1 DEF CheckFails, Acts
  <2>2. CASE c # d
    BY <1>4, <2>2 DEF CheckTxStatus, CheckFails, Goto, Stays, TypeOK
  <2>3. QED
    BY <2>1, <2>2
<1>5. ASSUME NEW a \in Accounts, SetDefaultAccount(a)
      PROVE  Stays(d)
  BY <1>5 DEF SetDefaultAccount, callerVars, Stays
<1>6. ASSUME NEW table \in FeeTables, ChangeFees(table)
      PROVE  Stays(d)
  BY <1>6 DEF ChangeFees, callerVars, Stays
<1>7. ASSUME NEW tx \in pool, Commit(tx)
      PROVE  Stays(d)
  BY <1>7 DEF Commit, callerVars, Stays
<1>8. QED
  BY <1>1, <1>2, <1>3, <1>4, <1>5, <1>6, <1>7 DEF Next

\* A transaction that a block takes goes from the pool to the end of what was
\* executed, and the next nonce is its successor.
LEMMA CommitEffect ==
  ASSUME TypeOK, NEW tx \in pool, Commit(tx)
  PROVE  /\ DOMAIN executed = 1..Len(executed)
         /\ DOMAIN executed' = 1..(Len(executed) + 1) /\ Len(executed) \in Nat
         /\ \A i \in 1..Len(executed) : executed'[i] = executed[i]
         /\ executed'[Len(executed) + 1]
              = [tx |-> tx, ok |-> Pays(tx, fees), fees |-> fees]
         /\ tx \in TxType /\ tx.from \in Accounts
         /\ committed[tx.from] = tx.nonce /\ committed'[tx.from] = tx.nonce + 1
         /\ \A a \in Accounts : a # tx.from => committed'[a] = committed[a]
         /\ pool' = pool \ {tx}
<1>1. tx \in TxType /\ tx.from \in Accounts
  BY DEF TypeOK, TxType
<1>2. executed \in Seq([tx : TxType, ok : BOOLEAN, fees : FeeTables])
  BY DEF TypeOK
<1>3. executed' = Append(executed, [tx |-> tx, ok |-> Pays(tx, fees), fees |-> fees])
  BY DEF Commit
<1>4. /\ DOMAIN executed = 1..Len(executed)
      /\ DOMAIN executed' = 1..(Len(executed) + 1) /\ Len(executed) \in Nat
      /\ \A i \in 1..Len(executed) : executed'[i] = executed[i]
      /\ executed'[Len(executed) + 1]
           = [tx |-> tx, ok |-> Pays(tx, fees), fees |-> fees]
  BY <1>2, <1>3
<1>5. /\ committed[tx.from] = tx.nonce /\ committed'[tx.from] = tx.nonce + 1
      /\ \A a \in Accounts : a # tx.from => committed'[a] = committed[a]
      /\ pool' = pool \ {tx}
  BY <1>1 DEF Commit, TypeOK
<1>6. QED
  BY <1>1, <1>4, <1>5

\* What the node ever took and kept.
LEMMA TakenKept == NodeKept => Taken' = Taken
  BY DEF NodeKept, Taken

LEMMA TakenEnters ==
  ASSUME NEW c \in Callers, Enters(c)
  PROVE  Taken' \subseteq Taken \cup {Tx(c)}
  BY DEF Enters, Enter, Taken

LEMMA TakenCommit ==
  ASSUME TypeOK, NEW tx \in pool, Commit(tx)
  PROVE  Taken' \subseteq Taken
<1>1. pool' \subseteq pool
  BY CommitEffect
<1>2. ASSUME NEW i \in DOMAIN executed'
      PROVE  executed'[i].tx \in Taken
  <2>1. CASE i \in 1..Len(executed)
    <3>1. executed'[i] = executed[i] /\ i \in DOMAIN executed
      BY <2>1, CommitEffect
    <3>2. QED
      BY <3>1 DEF Taken
  <2>2. CASE i = Len(executed) + 1
    <3>1. executed'[i] = [tx |-> tx, ok |-> Pays(tx, fees), fees |-> fees]
      BY <2>2, CommitEffect
    <3>2. executed'[i].tx = tx
      BY <3>1
    <3>3. tx \in Taken
      BY DEF Taken
    <3>4. QED
      BY <3>2, <3>3
  <2>3. Len(executed) \in Nat /\ i \in 1..(Len(executed) + 1)
    BY CommitEffect
  <2>4. i \in 1..Len(executed) \/ i = Len(executed) + 1
    BY <2>3
  <2>5. QED
    BY <2>1, <2>2, <2>4
<1>3. QED
  BY <1>1, <1>2 DEF Taken

\* In each step: what is taken was taken, or a caller enters.
LEMMA TakenSteps ==
  ASSUME TypeOK, [Next]_vars, NEW tx \in Taken'
  PROVE  tx \in Taken \/ \E c \in Callers : Enters(c) /\ tx = Tx(c)
  BY NodeSteps, TakenKept, TakenEnters, TakenCommit

\* Everything taken is a transaction.
LEMMA TakenTyped == TypeOK => Taken \subseteq TxType
<1>1. ASSUME TypeOK, NEW i \in DOMAIN executed
      PROVE  executed[i].tx \in TxType
  <2> DEFINE Entries == [tx : TxType, ok : BOOLEAN, fees : FeeTables]
  <2>1. executed \in Seq(Entries)
    BY <1>1 DEF TypeOK
  <2>2. executed[i] \in Entries
    <3> HIDE DEF Entries
    <3>1. QED
      BY <1>1, <2>1
  <2>3. QED
    BY <2>2
<1>2. QED
  BY <1>1 DEF TypeOK, Taken

-----------------------------------------------------------------------------
(* The node takes the nonces of each account in their order.                *)

\* The fields of a caller's transaction.
LEMMA TxFields ==
  ASSUME NEW c
  PROVE  /\ Tx(c).by = c /\ Tx(c).batch = begun[c] /\ Tx(c).from = call[c].from
         /\ Tx(c).nonce = call[c].nonce /\ Tx(c).again = call[c].again
         /\ Tx(c).kind = call[c].kind /\ Tx(c).table = call[c].table
         /\ Tx(c).messages = call[c].messages
  BY DEF Tx

\* What is in the pool after a transaction has entered.
LEMMA EnterEffect ==
  ASSUME TypeOK, NEW c \in Callers, Enters(c)
  PROVE  /\ pool' \subseteq pool \cup {Tx(c)} /\ Tx(c) \in pool'
         /\ \A tx \in pool' : tx.from = Tx(c).from /\ tx.nonce = Tx(c).nonce => tx = Tx(c)
         /\ \A tx \in pool : \E other \in pool' :
              other.from = tx.from /\ other.nonce = tx.nonce
         /\ Tx(c).nonce >= committed[Tx(c).from]
  BY DEF Enters, Enter, Takes

\* The pool's part of the order.
LEMMA InOrderPool ==
  ASSUME TypeOK, InOrder, [Next]_vars
  PROVE  /\ IsFiniteSet(pool')
         /\ \A tx \in pool' : tx.nonce >= committed'[tx.from]
         /\ \A tx, other \in pool' :
              tx.from = other.from /\ tx.nonce = other.nonce => tx = other
<1>1. CASE NodeKept
  BY <1>1 DEF NodeKept, InOrder
<1>2. ASSUME NEW c \in Callers, Enters(c)
      PROVE  /\ IsFiniteSet(pool')
             /\ \A tx \in pool' : tx.nonce >= committed'[tx.from]
             /\ \A tx, other \in pool' :
                  tx.from = other.from /\ tx.nonce = other.nonce => tx = other
  <2>1. IsFiniteSet(pool')
    <3>1. IsFiniteSet(pool \cup {Tx(c)})
      BY FS_AddElement DEF InOrder
    <3>2. QED
      BY <1>2, <3>1, EnterEffect, FS_Subset
  <2>2. \A tx \in pool' : tx.nonce >= committed'[tx.from]
    BY <1>2, EnterEffect DEF InOrder, Enters
  <2>3. \A tx, other \in pool' :
          tx.from = other.from /\ tx.nonce = other.nonce => tx = other
    <3>1. TAKE tx, other \in pool'
    <3>2. CASE tx = Tx(c) \/ other = Tx(c)
      BY <1>2, <3>2, EnterEffect
    <3>3. CASE tx # Tx(c) /\ other # Tx(c)
      BY <1>2, <3>3, EnterEffect DEF InOrder
    <3>4. QED
      BY <3>2, <3>3
  <2>4. QED
    BY <2>1, <2>2, <2>3
<1>3. ASSUME NEW tx \in pool, Commit(tx)
      PROVE  /\ IsFiniteSet(pool')
             /\ \A other \in pool' : other.nonce >= committed'[other.from]
             /\ \A one, other \in pool' :
                  one.from = other.from /\ one.nonce = other.nonce => one = other
  <2>1. IsFiniteSet(pool')
    BY <1>3, CommitEffect, FS_RemoveElement DEF InOrder
  <2>2. ASSUME NEW other \in pool'
        PROVE  other.nonce >= committed'[other.from]
    <3>1. other \in pool /\ other # tx
      BY <1>3, CommitEffect
    <3>2. other.nonce \in Nat /\ other.from \in Accounts
      BY <3>1 DEF TypeOK, TxType
    <3>3. other.nonce >= committed[other.from]
      BY <3>1 DEF InOrder
    <3>4. CASE other.from = tx.from
      <4>1. other.nonce # tx.nonce
        BY <3>1, <3>4 DEF InOrder
      <4>2. committed[other.from] = tx.nonce /\ committed'[other.from] = tx.nonce + 1
        BY <1>3, <3>4, CommitEffect
      <4>3. tx.nonce \in Nat
        BY DEF TypeOK, TxType
      <4>4. QED
        BY <3>2, <3>3, <4>1, <4>2, <4>3
    <3>5. CASE other.from # tx.from
      BY <1>3, <3>2, <3>3, <3>5, CommitEffect
    <3>6. QED
      BY <3>4, <3>5
  <2>3. \A one, other \in pool' :
          one.from = other.from /\ one.nonce = other.nonce => one = other
    BY <1>3, CommitEffect DEF InOrder
  <2>4. QED
    BY <2>1, <2>2, <2>3
<1>4. QED
  BY <1>1, <1>2, <1>3, NodeSteps

\* The blocks' part.
LEMMA InOrderBlocks ==
  ASSUME TypeOK, InOrder, [Next]_vars
  PROVE  /\ \A i \in DOMAIN executed' :
              executed'[i].tx.nonce < committed'[executed'[i].tx.from]
         /\ \A i, j \in DOMAIN executed' :
              i < j /\ executed'[i].tx.from = executed'[j].tx.from
                => executed'[i].tx.nonce < executed'[j].tx.nonce
<1>1. CASE UNCHANGED <<committed, executed>>
  BY <1>1 DEF InOrder
<1>2. ASSUME NEW tx \in pool, Commit(tx)
      PROVE  /\ \A i \in DOMAIN executed' :
                  executed'[i].tx.nonce < committed'[executed'[i].tx.from]
             /\ \A i, j \in DOMAIN executed' :
                  i < j /\ executed'[i].tx.from = executed'[j].tx.from
                    => executed'[i].tx.nonce < executed'[j].tx.nonce
  <2> DEFINE last == Len(executed) + 1
  <2>1. /\ DOMAIN executed = 1..Len(executed) /\ Len(executed) \in Nat
        /\ DOMAIN executed' = 1..last
        /\ tx.nonce \in Nat /\ tx.from \in Accounts
        /\ committed[tx.from] = tx.nonce /\ committed'[tx.from] = tx.nonce + 1
        /\ \A a \in Accounts : a # tx.from => committed'[a] = committed[a]
    BY <1>2, CommitEffect DEF TxType
  <2>2. executed'[last].tx = tx
    <3>1. executed'[last] = [tx |-> tx, ok |-> Pays(tx, fees), fees |-> fees]
      BY <1>2, CommitEffect
    <3>2. QED
      BY <3>1
  <2>3. ASSUME NEW i \in 1..Len(executed)
        PROVE  /\ i \in DOMAIN executed /\ executed'[i].tx = executed[i].tx
               /\ executed[i].tx.nonce \in Nat /\ executed[i].tx.from \in Accounts
               /\ executed[i].tx.nonce < committed[executed[i].tx.from]
    <3>1. i \in DOMAIN executed /\ executed'[i] = executed[i]
      BY <1>2, CommitEffect
    <3>2. executed[i].tx \in Taken
      BY <3>1 DEF Taken
    <3>3. executed[i].tx \in TxType
      BY <3>2, TakenTyped
    <3>4. QED
      BY <3>1, <3>3 DEF InOrder, TxType
  <2>4. \A i \in 1..last : i \in 1..Len(executed) \/ i = last
    BY <2>1
  <2> HIDE DEF last
  <2>5. ASSUME NEW i \in DOMAIN executed'
        PROVE  executed'[i].tx.nonce < committed'[executed'[i].tx.from]
    <3>1. CASE i = last
      BY <2>1, <2>2, <3>1
    <3>2. CASE i \in 1..Len(executed)
      <4>1. CASE executed[i].tx.from = tx.from
        BY <2>1, <2>3, <3>2, <4>1
      <4>2. CASE executed[i].tx.from # tx.from
        BY <2>1, <2>3, <3>2, <4>2
      <4>3. QED
        BY <4>1, <4>2
    <3>3. QED
      BY <2>1, <2>4, <3>1, <3>2
  <2>6. ASSUME NEW i \in DOMAIN executed', NEW j \in DOMAIN executed',
               i < j, executed'[i].tx.from = executed'[j].tx.from
        PROVE  executed'[i].tx.nonce < executed'[j].tx.nonce
    <3>1. i \in 1..Len(executed)
      BY <2>1, <2>6 DEF last
    <3>2. CASE j = last
      BY <2>1, <2>2, <2>3, <2>6, <3>1, <3>2
    <3>3. CASE j \in 1..Len(executed)
      <4>1. executed'[i].tx = executed[i].tx /\ executed'[j].tx = executed[j].tx
        BY <2>3, <3>1, <3>3
      <4>2. QED
        BY <2>1, <2>6, <3>1, <3>3, <4>1 DEF InOrder
    <3>4. QED
      BY <2>1, <2>4, <3>2, <3>3
  <2>7. QED
    BY <2>5, <2>6
<1>3. QED
  BY <1>1, <1>2, NodeSteps DEF NodeKept, Enters

\* The order stays.
LEMMA InOrderStep ==
  ASSUME TypeOK, InOrder, [Next]_vars
  PROVE  InOrder'
  BY InOrderPool, InOrderBlocks DEF InOrder

\* A nonce that is used stays so.
LEMMA UsedStays ==
  ASSUME TypeOK, InOrder, [Next]_vars, NEW a \in Accounts, NEW n \in Nat, Used(a, n)
  PROVE  n < committed'[a] \/ \E tx \in pool' : tx.from = a /\ tx.nonce = n
<1>1. CASE NodeKept
  BY <1>1 DEF NodeKept, Used
<1>2. ASSUME NEW c \in Callers, Enters(c)
      PROVE  n < committed'[a] \/ \E tx \in pool' : tx.from = a /\ tx.nonce = n
  <2>1. committed' = committed
    BY <1>2 DEF Enters
  <2>2. QED
    BY <1>2, <2>1, EnterEffect DEF Used
<1>3. ASSUME NEW tx \in pool, Commit(tx)
      PROVE  n < committed'[a] \/ \E other \in pool' : other.from = a /\ other.nonce = n
  <2>1. committed[a] \in Nat /\ tx.nonce \in Nat
    BY DEF TypeOK, TxType
  <2>2. CASE a = tx.from
    <3>1. committed[a] = tx.nonce /\ committed'[a] = tx.nonce + 1
      BY <1>3, <2>2, CommitEffect
    <3>2. n < committed[a] \/ n = tx.nonce => n < committed'[a]
      BY <2>1, <3>1
    <3>3. QED
      BY <1>3, <3>2, CommitEffect DEF Used
  <2>3. CASE a # tx.from
    <3>1. committed'[a] = committed[a]
      BY <1>3, <2>3, CommitEffect
    <3>2. QED
      BY <1>3, <2>3, <3>1, CommitEffect DEF Used
  <2>4. QED
    BY <2>2, <2>3
<1>4. QED
  BY <1>1, <1>2, <1>3, NodeSteps

\* What is taken is used.
LEMMA TakenIsUsed ==
  ASSUME TypeOK, InOrder, NEW tx \in Taken
  PROVE  Used(tx.from, tx.nonce)
  BY DEF Taken, InOrder, Used

\* PendingNonceAt gives the account a nonce that is not used.
LEMMA PendingIsFree ==
  ASSUME TypeOK, InOrder, NEW a \in Accounts
  PROVE  Pending(a) \in Nat /\ ~Used(a, Pending(a))
<1> DEFINE own == {t \in pool : t.from = a}
           taken == {tx.nonce : tx \in own}
           all == committed[a]..(committed[a] + Cardinality(taken))
           nonceOf == [t \in own |-> t.nonce]
           Free == all \ taken
           IsNext(n) == /\ n \notin taken
                        /\ \A k \in committed[a]..(n - 1) : k \in taken
<1>1. committed[a] \in Nat /\ taken \subseteq Nat
  BY DEF TypeOK, TxType
<1>2. IsFiniteSet(own)
  BY FS_Subset DEF InOrder
<1>3. nonceOf \in Surjection(own, taken)
  BY DEF Surjection
<1>4. IsFiniteSet(taken) /\ Cardinality(taken) \in Nat
  <2> HIDE DEF own, taken, nonceOf
  <2>1. IsFiniteSet(taken)
    BY <1>2, <1>3, FS_Surjection
  <2>2. QED
    BY <2>1, FS_CardinalityType
<1>5. Free # {} /\ Free \in SUBSET Nat
  <2>1. Cardinality(all) = Cardinality(taken) + 1
    <3> DEFINE m == Cardinality(taken)
    <3>1. m \in Nat
      BY <1>4
    <3> HIDE DEF m
    <3>2. Cardinality(committed[a]..(committed[a] + m)) = m + 1
      <4>1. committed[a] \in Int /\ committed[a] + m \in Int /\ ~(committed[a] > committed[a] + m)
        BY <1>1, <3>1
      <4>2. Cardinality(committed[a]..(committed[a] + m)) = (committed[a] + m) - committed[a] + 1
        BY <4>1, FS_Interval
      <4>3. QED
        BY <1>1, <3>1, <4>2
    <3>3. QED
      BY <3>2 DEF m
  <2>2. ~(all \subseteq taken)
    <3> HIDE DEF all, taken
    <3>1. QED
      BY <1>4, <2>1, FS_Subset
  <2>3. all \subseteq Nat
    BY <1>1, <1>4
  <2>4. QED
    BY <2>2, <2>3
<1>6. PICK n \in Free : \A k \in Free : n <= k
  <2> HIDE DEF Free
  <2>1. QED
    BY <1>5, LeastNatural
<1>7. n \in all /\ IsNext(n)
  <2>1. n \in Nat /\ n \in all /\ n \notin taken
    BY <1>5, <1>6
  <2>2. ASSUME NEW k \in committed[a]..(n - 1)
        PROVE  k \in taken
    <3> DEFINE m == Cardinality(taken)
    <3>1. m \in Nat /\ n \in committed[a]..(committed[a] + m)
      BY <1>4, <2>1
    <3> HIDE DEF m
    <3>2. k \in committed[a]..(committed[a] + m) /\ ~(n <= k)
      BY <1>1, <2>1, <3>1
    <3>3. k \in all
      BY <3>2 DEF m
    <3>4. QED
      BY <1>6, <3>2, <3>3
  <2>3. QED
    BY <2>1, <2>2
<1>8. Pending(a) \in all /\ Pending(a) \notin taken
  <2>1. Pending(a) = CHOOSE k \in all : IsNext(k)
    BY DEF Pending
  <2> HIDE DEF all
  <2>2. Pending(a) \in all /\ IsNext(Pending(a))
    BY <1>7, <2>1
  <2>3. QED
    BY <2>2
<1>9. Pending(a) \in Nat /\ Pending(a) >= committed[a]
  <2> DEFINE m == Cardinality(taken)
  <2>1. m \in Nat /\ Pending(a) \in committed[a]..(committed[a] + m)
    BY <1>4, <1>8
  <2> HIDE DEF m
  <2>2. QED
    BY <1>1, <2>1
<1>10. \A tx \in pool : tx.from = a => tx.nonce # Pending(a)
  BY <1>8
<1>11. QED
  BY <1>1, <1>9, <1>10 DEF Used

-----------------------------------------------------------------------------
(* The types.                                                               *)

\* A caller that does nothing is in its type.
LEMMA IdleTyped == TypeOK => Idle \in CallType
<1>1. ASSUME TypeOK PROVE NoAccount \in Accounts
  BY <1>1 DEF TypeOK, NoAccount
<1>2. NoTable \in Table
  BY FeesAssumption DEF NoTable
<1>3. <<>> \in Seq(MessageType)
  OBVIOUS
<1>4. QED
  BY <1>1, <1>2, <1>3 DEF Idle, CallType

\* The node's variables.
LEMMA NodeTyped ==
  ASSUME TypeOK, InOrder, [Next]_vars
  PROVE  /\ committed' \in [Accounts -> Nat]
         /\ pool' \subseteq TxType
         /\ executed' \in Seq([tx : TxType, ok : BOOLEAN, fees : FeeTables])
<1>1. CASE NodeKept
  BY <1>1 DEF NodeKept, TypeOK
<1>2. ASSUME NEW c \in Callers, Enters(c)
      PROVE  /\ committed' \in [Accounts -> Nat]
             /\ pool' \subseteq TxType
             /\ executed' \in Seq([tx : TxType, ok : BOOLEAN, fees : FeeTables])
  <2>1. pool' \subseteq TxType
    BY <1>2, EnterEffect, TxTyped DEF TypeOK
  <2>2. QED
    BY <1>2, <2>1 DEF Enters, TypeOK
<1>3. ASSUME NEW tx \in pool, Commit(tx)
      PROVE  /\ committed' \in [Accounts -> Nat]
             /\ pool' \subseteq TxType
             /\ executed' \in Seq([tx : TxType, ok : BOOLEAN, fees : FeeTables])
  <2>1. tx \in TxType /\ tx.from \in Accounts /\ committed[tx.from] \in Nat
    BY DEF TypeOK, TxType
  <2>2. committed' \in [Accounts -> Nat]
    BY <1>3, <2>1 DEF Commit, TypeOK
  <2>3. pool' \subseteq TxType
    BY <1>3, CommitEffect DEF TypeOK
  <2> DEFINE Entries == [tx : TxType, ok : BOOLEAN, fees : FeeTables]
             entry == [tx |-> tx, ok |-> Pays(tx, fees), fees |-> fees]
  <2>4. Pays(tx, fees) \in BOOLEAN
    <3>1. CASE tx.kind = "executor"
      BY <3>1 DEF Pays
    <3>2. CASE tx.kind # "executor"
      BY <3>2 DEF Pays
    <3>3. QED
      BY <3>1, <3>2
  <2>5. entry \in Entries
    BY <2>1, <2>4 DEF TypeOK
  <2>6. executed \in Seq(Entries) /\ executed' = Append(executed, entry)
    BY <1>3 DEF Commit, TypeOK
  <2>7. executed' \in Seq(Entries)
    <3> HIDE DEF Entries, entry
    <3>1. QED
      BY <2>5, <2>6
  <2>8. QED
    BY <2>2, <2>3, <2>7
<1>4. QED
  BY <1>1, <1>2, <1>3, NodeSteps

\* The callers' variables: what a caller does.
CallersTyped ==
  /\ pc \in [Callers -> {"idle", "fees", "price", "append", "nonce", "sign",
                         "submit", "sent"}]
  /\ call \in [Callers -> CallType]
  /\ begun \in [Callers -> 0..MaxWork]

\* The end of the process.
LEMMA FatalTyped ==
  ASSUME TypeOK, Fatal
  PROVE  CallersTyped'
<1>1. call' \in [Callers -> CallType]
  BY IdleTyped DEF Fatal
<1>2. pc' \in [Callers -> {"idle", "fees", "price", "append", "nonce", "sign",
                           "submit", "sent"}]
  BY DEF Fatal
<1>3. begun' \in [Callers -> 0..MaxWork]
  BY BoundsAssumption DEF Fatal
<1>4. QED
  BY <1>1, <1>2, <1>3 DEF CallersTyped

\* Building a batch.
LEMMA BuildingTyped ==
  ASSUME TypeOK, CallProgress, NEW c \in Callers, Building(c)
  PROVE  CallersTyped'
<1>1. CASE \E kind \in {"multi", "executor"} : Begin(c, kind)
  <2>1. PICK kind \in {"multi", "executor"} : Begin(c, kind)
    BY <1>1
  <2>2. [Idle EXCEPT !.kind = kind] \in CallType
    BY IdleTyped DEF CallType
  <2>3. call' \in [Callers -> CallType]
    BY <2>1, <2>2 DEF Begin, TypeOK
  <2>4. begun[c] + 1 \in 0..MaxWork
    <3>1. begun[c] \in 0..MaxWork /\ work \in 0..MaxWork
      BY DEF TypeOK
    <3>2. begun[c] <= work /\ work < MaxWork
      BY <2>1 DEF Begin, Works, CallProgress
    <3>3. QED
      BY <3>1, <3>2, BoundsAssumption
  <2>5. begun' \in [Callers -> 0..MaxWork]
    BY <2>1, <2>4 DEF Begin, TypeOK
  <2>6. QED
    BY <2>1, <2>3, <2>5 DEF Begin, Goto, CallersTyped, TypeOK
<1>2. CASE GetMinAckRelayFee(c)
  <2>1. fees \in Table
    BY FeesAssumption DEF TypeOK
  <2> DEFINE table == [relay |-> fees.relay, minAck |-> fees.minAck,
                       price |-> call[c].table.price]
  <2>2. table \in Table
    BY <2>1 DEF TypeOK, CallType, Table
  <2>3. call' \in [Callers -> CallType]
    <3>1. call' = [call EXCEPT ![c] = [@ EXCEPT !.table = table]]
      BY <1>2 DEF GetMinAckRelayFee
    <3> HIDE DEF table
    <3>2. [call[c] EXCEPT !.table = table] \in CallType
      BY <2>2 DEF TypeOK, CallType
    <3>3. QED
      BY <3>1, <3>2 DEF TypeOK
  <2>4. QED
    BY <1>2, <2>3 DEF GetMinAckRelayFee, Goto, CallersTyped, TypeOK
<1>3. CASE GetCallbackGasPrice(c)
  <2>1. fees \in Table
    BY FeesAssumption DEF TypeOK
  <2> DEFINE table == [relay |-> call[c].table.relay, minAck |-> call[c].table.minAck,
                       price |-> fees.price]
  <2>2. table \in Table
    BY <2>1 DEF TypeOK, CallType, Table
  <2>3. call' \in [Callers -> CallType]
    <3>1. call' = [call EXCEPT ![c] = [@ EXCEPT !.table = table]]
      BY <1>3 DEF GetCallbackGasPrice
    <3> HIDE DEF table
    <3>2. [call[c] EXCEPT !.table = table] \in CallType
      BY <2>2 DEF TypeOK, CallType
    <3>3. QED
      BY <3>1, <3>2 DEF TypeOK
  <2>4. QED
    BY <1>3, <2>3 DEF GetCallbackGasPrice, Goto, CallersTyped, TypeOK
<1>4. CASE FeesFail(c)
  BY <1>4, FatalTyped DEF FeesFail
<1>5. CASE \E op \in Ops : \E arg \in Args(op) : AppendMessage(c, op, arg)
  <2>1. PICK op \in Ops : \E arg \in Args(op) : AppendMessage(c, op, arg)
    BY <1>5
  <2>2. PICK arg \in Args(op) : AppendMessage(c, op, arg)
    BY <2>1
  <2>3. CASE Refused(op, arg, call[c].table)
    BY <2>2, <2>3, FatalTyped DEF AppendMessage
  <2>4. CASE ~Refused(op, arg, call[c].table)
    <3> DEFINE message == Message(op, arg, call[c].table)
    <3>1. call[c].messages \in Seq(MessageType) /\ call[c].table \in Table
      BY DEF TypeOK, CallType
    <3>2. message \in MessageType
      BY <3>1, MessageTyped
    <3>3. Append(call[c].messages, message) \in Seq(MessageType)
      <4> HIDE DEF message
      <4>1. QED
        BY <3>1, <3>2
    <3>4. call' = [call EXCEPT ![c] =
                     [@ EXCEPT !.messages = Append(call[c].messages, message)]]
      BY <2>2, <2>4 DEF AppendMessage
    <3>5. call' \in [Callers -> CallType]
      <4> HIDE DEF message
      <4>1. QED
        BY <3>3, <3>4 DEF TypeOK, CallType
    <3>6. QED
      BY <2>2, <2>4, <3>5 DEF AppendMessage, CallersTyped, TypeOK
  <2>5. QED
    BY <2>3, <2>4
<1>6. QED
  BY <1>1, <1>2, <1>3, <1>4, <1>5 DEF Building

\* Sending it.
LEMMA SendingTyped ==
  ASSUME TypeOK, InOrder, NEW c \in Callers, Sending(c)
  PROVE  CallersTyped'
<1>1. CASE Send(c)
  BY <1>1 DEF Send, Goto, CallersTyped, TypeOK
<1>2. CASE SendAgain(c)
  <2>1. call' \in [Callers -> CallType]
    <3> DEFINE next == [call[c] EXCEPT !.given = call[c].nonce, !.again = TRUE]
    <3>1. call' = [call EXCEPT ![c] = next]
      BY <1>2, Zenon DEF SendAgain
    <3>2. next \in CallType
      BY DEF TypeOK, CallType
    <3> HIDE DEF next
    <3>3. QED
      BY <3>1, <3>2 DEF TypeOK
  <2>2. QED
    BY <1>2, <2>1 DEF SendAgain, Goto, CallersTyped, TypeOK
<1>3. CASE ReadNonce(c)
  <2>1. Pending(account) \in Nat
    BY PendingIsFree DEF TypeOK
  <2> DEFINE n == IF call[c].given = 0 THEN Pending(account) ELSE call[c].given
  <2>2. n \in Nat
    BY <2>1 DEF TypeOK, CallType
  <2>3. call' \in [Callers -> CallType]
    <3>1. call' = [call EXCEPT ![c] = [@ EXCEPT !.nonce = n]]
      BY <1>3 DEF ReadNonce
    <3> HIDE DEF n
    <3>2. QED
      BY <2>2, <3>1 DEF TypeOK, CallType
  <2>4. QED
    BY <1>3, <2>3 DEF ReadNonce, Goto, CallersTyped, TypeOK
<1>4. CASE Sign(c)
  <2>1. call' \in [Callers -> CallType]
    BY <1>4 DEF Sign, TypeOK, CallType
  <2>2. QED
    BY <1>4, <2>1 DEF Sign, Goto, CallersTyped, TypeOK
<1>5. CASE Submit(c)
  <2>1. [call[c] EXCEPT !.hash = call[c].again] \in CallType
    <3>1. call[c].again \in BOOLEAN
      BY DEF TypeOK, CallType
    <3>2. QED
      BY <3>1 DEF TypeOK, CallType
  <2>2. call' \in [Callers -> CallType]
    <3> DEFINE next == [call[c] EXCEPT !.hash = call[c].again]
    <3>1. call' = [call EXCEPT ![c] = next]
      BY <1>5, Zenon DEF Submit
    <3>2. next \in CallType
      BY <2>1
    <3> HIDE DEF next
    <3>3. QED
      BY <3>1, <3>2 DEF TypeOK
  <2>3. QED
    BY <1>5, <2>2 DEF Submit, Goto, CallersTyped, TypeOK
<1>6. CASE SubmitRefused(c) \/ SendRequestFails(c)
  BY <1>6, FatalTyped DEF SubmitRefused, SendRequestFails, SendFails, Goto,
                          CallersTyped, TypeOK
<1>7. QED
  BY <1>1, <1>2, <1>3, <1>4, <1>5, <1>6 DEF Sending

\* All their steps.
LEMMA CallersTypedStep ==
  ASSUME TypeOK, InOrder, CallProgress, [Next]_vars
  PROVE  CallersTyped'
<1>1. CASE UNCHANGED callerVars
  BY <1>1 DEF callerVars, CallersTyped, TypeOK
<1>2. ASSUME NEW c \in Callers, CheckTxStatus(c)
      PROVE  CallersTyped'
  BY <1>2, IdleTyped DEF CheckTxStatus, Goto, CallersTyped, TypeOK
<1>3. ASSUME NEW c \in Callers, CheckFails(c)
      PROVE  CallersTyped'
  BY <1>3, FatalTyped DEF CheckFails
<1>4. QED
  BY <1>1, <1>2, <1>3, BuildingTyped, SendingTyped
     DEF Next, vars, SetDefaultAccount, ChangeFees, Commit

\* The client's account, the fees, and what is counted.
LEMMA RestTyped ==
  ASSUME TypeOK, [Next]_vars
  PROVE  /\ account' \in Accounts /\ alive' \in BOOLEAN /\ fees' \in FeeTables
         /\ work' \in 0..MaxWork
         /\ auxDisturbed' \in BOOLEAN /\ auxSwitched' \in BOOLEAN
<1> USE DEF TypeOK, clientVars, chainVars, auxVars
<1>1. CASE UNCHANGED vars
  BY <1>1 DEF vars
<1>2. ASSUME NEW c \in Callers, Building(c)
      PROVE  /\ account' \in Accounts /\ alive' \in BOOLEAN /\ fees' \in FeeTables
             /\ work' \in 0..MaxWork
             /\ auxDisturbed' \in BOOLEAN /\ auxSwitched' \in BOOLEAN
  <2>1. CASE \E kind \in {"multi", "executor"} : Begin(c, kind)
    BY <2>1, BoundsAssumption DEF Begin, Works
  <2>2. CASE GetMinAckRelayFee(c) \/ GetCallbackGasPrice(c)
    BY <2>2 DEF GetMinAckRelayFee, GetCallbackGasPrice
  <2>3. CASE FeesFail(c)
    BY <2>3 DEF FeesFail, Fatal
  <2>4. CASE \E op \in Ops : \E arg \in Args(op) : AppendMessage(c, op, arg)
    <3>0. PICK op \in Ops : \E arg \in Args(op) : AppendMessage(c, op, arg)
      BY <2>4
    <3>1. PICK arg \in Args(op) : AppendMessage(c, op, arg)
      BY <3>0
    <3>2. work' \in 0..MaxWork
      BY <3>1, BoundsAssumption DEF AppendMessage, Works
    <3>3. CASE Refused(op, arg, call[c].table)
      BY <3>1, <3>2, <3>3 DEF AppendMessage, Fatal
    <3>4. CASE ~Refused(op, arg, call[c].table)
      BY <3>1, <3>2, <3>4 DEF AppendMessage
    <3>5. QED
      BY <3>3, <3>4
  <2>5. QED
    BY <1>2, <2>1, <2>2, <2>3, <2>4 DEF Building
<1>3. ASSUME NEW c \in Callers, Sending(c)
      PROVE  /\ account' \in Accounts /\ alive' \in BOOLEAN /\ fees' \in FeeTables
             /\ work' \in 0..MaxWork
             /\ auxDisturbed' \in BOOLEAN /\ auxSwitched' \in BOOLEAN
  <2>1. CASE ReadNonce(c)
    <3>1. auxDisturbed' \in BOOLEAN
      BY <2>1 DEF ReadNonce
    <3>2. QED
      BY <2>1, <3>1 DEF ReadNonce
  <2>2. CASE SubmitRefused(c) \/ SendRequestFails(c)
    BY <2>2 DEF SubmitRefused, SendRequestFails, SendFails, Fatal
  <2>3. CASE Send(c) \/ SendAgain(c) \/ Sign(c) \/ Submit(c)
    BY <2>3 DEF Send, SendAgain, Sign, Submit
  <2>4. QED
    BY <1>3, <2>1, <2>2, <2>3 DEF Sending
<1>4. ASSUME NEW c \in Callers, CheckTxStatus(c) \/ CheckFails(c)
      PROVE  /\ account' \in Accounts /\ alive' \in BOOLEAN /\ fees' \in FeeTables
             /\ work' \in 0..MaxWork
             /\ auxDisturbed' \in BOOLEAN /\ auxSwitched' \in BOOLEAN
  <2>1. CASE CheckTxStatus(c)
    BY <2>1 DEF CheckTxStatus
  <2>2. CASE CheckFails(c)
    BY <2>2 DEF CheckFails, Fatal
  <2>3. QED
    BY <1>4, <2>1, <2>2
<1>5. ASSUME NEW a \in Accounts, SetDefaultAccount(a)
      PROVE  /\ account' \in Accounts /\ alive' \in BOOLEAN /\ fees' \in FeeTables
             /\ work' \in 0..MaxWork
             /\ auxDisturbed' \in BOOLEAN /\ auxSwitched' \in BOOLEAN
  BY <1>5, BoundsAssumption DEF SetDefaultAccount, Works
<1>6. ASSUME NEW table \in FeeTables, ChangeFees(table)
      PROVE  /\ account' \in Accounts /\ alive' \in BOOLEAN /\ fees' \in FeeTables
             /\ work' \in 0..MaxWork
             /\ auxDisturbed' \in BOOLEAN /\ auxSwitched' \in BOOLEAN
  BY <1>6, BoundsAssumption DEF ChangeFees, Works
<1>7. ASSUME NEW tx \in pool, Commit(tx)
      PROVE  /\ account' \in Accounts /\ alive' \in BOOLEAN /\ fees' \in FeeTables
             /\ work' \in 0..MaxWork
             /\ auxDisturbed' \in BOOLEAN /\ auxSwitched' \in BOOLEAN
  BY <1>7 DEF Commit
<1>8. QED
  BY <1>1, <1>2, <1>3, <1>4, <1>5, <1>6, <1>7 DEF Next

\* The types stay.
LEMMA TypeStep ==
  ASSUME TypeOK, InOrder, CallProgress, [Next]_vars
  PROVE  TypeOK'
  BY NodeTyped, CallersTypedStep, RestTyped DEF TypeOK, CallersTyped

-----------------------------------------------------------------------------
(* What each caller has sent.                                               *)

\* The invariant's part about a caller's batch.
Progress(c) ==
  /\ begun[c] <= work
  /\ ~call[c].again => call[c].given = 0
  /\ pc[c] \in {"fees", "price", "append"} => ~call[c].again
  /\ pc[c] \in {"fees", "price"} => call[c].messages = <<>>
  /\ pc[c] \in {"sign", "submit"} /\ call[c].given # 0
       => call[c].nonce = call[c].given

\* Work is done, never undone; who begins a batch does some.
LEMMA WorkGrows ==
  ASSUME TypeOK, [Next]_vars
  PROVE  work' >= work
<1>1. work \in Nat
  BY DEF TypeOK
<1>2. work' = work \/ work' = work + 1
  BY DEF Next, vars, Building, Begin, GetMinAckRelayFee, GetCallbackGasPrice, FeesFail,
         AppendMessage, Sending, Send, SendAgain, ReadNonce, Sign, Submit, SubmitRefused,
         SendRequestFails, CheckTxStatus, CheckFails, SetDefaultAccount, ChangeFees,
         Commit, Works
<1>3. QED
  BY <1>1, <1>2

\* A caller that acts keeps it.
LEMMA ActsProgress ==
  ASSUME TypeOK, NEW c \in Callers, Progress(c), Acts(c),
         work' \in Nat, work' >= work
  PROVE  Progress(c)'
<1>1. /\ pc[c] \in {"idle", "fees", "price", "append", "nonce", "sign", "submit", "sent"}
      /\ call[c] \in CallType /\ begun[c] \in Nat /\ work \in Nat
  BY DEF TypeOK
<1>2. begun' = begun => begun'[c] <= work'
  <2>1. begun[c] <= work
    BY DEF Progress
  <2>2. QED
    BY <1>1, <2>1
<1>3. CASE \E kind \in {"multi", "executor"} : Begin(c, kind)
  <2>1. PICK kind \in {"multi", "executor"} : Begin(c, kind)
    BY <1>3
  <2>2. /\ pc'[c] = "fees" /\ begun'[c] = begun[c] + 1 /\ work' = work + 1
        /\ call'[c] = [Idle EXCEPT !.kind = kind]
    BY <2>1 DEF Begin, Works, Goto, TypeOK
  <2>3. call'[c].again = FALSE /\ call'[c].given = 0 /\ call'[c].messages = <<>>
    BY <2>2 DEF Idle
  <2>4. begun'[c] <= work'
    BY <1>1, <2>2 DEF Progress
  <2>5. QED
    BY <2>2, <2>3, <2>4 DEF Progress
<1>4. CASE GetMinAckRelayFee(c) \/ GetCallbackGasPrice(c)
  <2>1. pc[c] \in {"fees", "price"} /\ pc'[c] \in {"price", "append"} /\ begun' = begun
    BY <1>4 DEF GetMinAckRelayFee, GetCallbackGasPrice, At, Goto, TypeOK
  <2>2. /\ call'[c].again = call[c].again /\ call'[c].given = call[c].given
        /\ call'[c].messages = call[c].messages
    BY <1>4 DEF GetMinAckRelayFee, GetCallbackGasPrice, TypeOK, CallType
  <2>3. QED
    BY <1>2, <2>1, <2>2 DEF Progress
<1>5. CASE \E op \in Ops : \E arg \in Args(op) : AppendMessage(c, op, arg)
  <2>1. PICK op \in Ops : \E arg \in Args(op) : AppendMessage(c, op, arg)
    BY <1>5
  <2>2. PICK arg \in Args(op) : AppendMessage(c, op, arg)
    BY <2>1
  <2>3. CASE Refused(op, arg, call[c].table)
    <3>1. pc'[c] = "idle" /\ call'[c] = Idle /\ begun'[c] = 0
      BY <2>2, <2>3 DEF AppendMessage, Fatal
    <3>2. begun'[c] <= work'
      BY <1>1, <2>2, <3>1 DEF AppendMessage, Works
    <3>3. QED
      BY <3>1, <3>2 DEF Progress, Idle
  <2>4. CASE ~Refused(op, arg, call[c].table)
    <3>1. pc[c] = "append" /\ pc' = pc /\ begun' = begun
      BY <2>2, <2>4 DEF AppendMessage, At
    <3>2. call'[c].again = call[c].again /\ call'[c].given = call[c].given
      BY <2>2, <2>4 DEF AppendMessage, TypeOK, CallType
    <3>3. QED
      BY <1>2, <3>1, <3>2 DEF Progress
  <2>5. QED
    BY <2>3, <2>4
<1>6. CASE Send(c)
  <2>1. pc'[c] = "nonce" /\ begun' = begun /\ call' = call
    BY <1>6 DEF Send, Goto, TypeOK
  <2>2. QED
    BY <1>2, <2>1 DEF Progress
<1>7. CASE SendAgain(c)
  <2>1. pc'[c] = "nonce" /\ begun' = begun /\ call'[c].again = TRUE
    BY <1>7 DEF SendAgain, Goto, TypeOK, CallType
  <2>2. QED
    BY <1>2, <2>1 DEF Progress
<1>8. CASE ReadNonce(c)
  <2>1. /\ pc'[c] = "sign" /\ begun' = begun
        /\ call'[c].again = call[c].again /\ call'[c].given = call[c].given
        /\ call[c].given # 0 => call'[c].nonce = call[c].given
    BY <1>8 DEF ReadNonce, Goto, TypeOK, CallType
  <2>2. QED
    BY <1>2, <2>1 DEF Progress
<1>9. CASE Sign(c)
  <2>1. /\ pc[c] = "sign" /\ pc'[c] = "submit" /\ begun' = begun
        /\ call'[c].again = call[c].again /\ call'[c].given = call[c].given
        /\ call'[c].nonce = call[c].nonce
    BY <1>9 DEF Sign, At, Goto, TypeOK, CallType
  <2>2. QED
    BY <1>2, <2>1 DEF Progress
<1>10. CASE Submit(c)
  <2>1. pc'[c] = "sent" /\ begun' = begun
    BY <1>10 DEF Submit, Goto, TypeOK
  <2>2. call'[c].again = call[c].again /\ call'[c].given = call[c].given
    BY <1>10 DEF Submit, TypeOK, CallType
  <2>3. QED
    BY <1>2, <2>1, <2>2 DEF Progress
<1>11. CASE (SubmitRefused(c) \/ SendRequestFails(c)) /\ call[c].again
  <2>1. pc'[c] = "sent" /\ begun' = begun /\ call' = call
    BY <1>11 DEF SubmitRefused, SendRequestFails, SendFails, Goto, TypeOK
  <2>2. QED
    BY <1>2, <2>1 DEF Progress
<1>12. CASE CheckTxStatus(c)
  <2>1. pc'[c] = "idle" /\ begun' = begun /\ call'[c] = Idle
    BY <1>12 DEF CheckTxStatus, Goto, TypeOK
  <2>2. QED
    BY <1>2, <2>1 DEF Progress, Idle
<1>13. QED
  BY <1>3, <1>4, <1>5, <1>6, <1>7, <1>8, <1>9, <1>10, <1>11, <1>12 DEF Acts

\* Every step keeps it.
LEMMA CallProgressStep ==
  ASSUME TypeOK, TypeOK', CallProgress, [Next]_vars
  PROVE  CallProgress'
<1>1. SUFFICES ASSUME NEW c \in Callers PROVE Progress(c)'
  BY DEF CallProgress, Progress
<1>2. work' >= work /\ work \in Nat /\ work' \in Nat /\ begun[c] \in Nat
  BY WorkGrows DEF TypeOK
<1>3. Progress(c)
  BY DEF CallProgress, Progress
<1>4. CASE Fatal
  <2>1. pc'[c] = "idle" /\ call'[c] = Idle /\ begun'[c] = 0
    BY <1>4 DEF Fatal
  <2>2. QED
    BY <1>2, <2>1 DEF Progress, Idle
<1>5. CASE Stays(c)
  <2>1. begun'[c] <= work'
    BY <1>2, <1>3, <1>5 DEF Stays, Progress
  <2>2. QED
    BY <1>3, <1>5, <2>1 DEF Stays, Progress
<1>6. CASE Acts(c)
  BY <1>2, <1>3, <1>6, ActsProgress
<1>7. QED
  BY <1>4, <1>5, <1>6, CallerSteps

-----------------------------------------------------------------------------
(* A batch has one nonce.                                                   *)

\* What is known of a transaction of the caller's present batch.
SoFar(c, nonce) ==
  /\ pc[c] \notin {"fees", "price", "append"}
  /\ pc[c] \in {"nonce", "sign", "submit"}
       => call[c].again /\ nonce = call[c].given
  /\ pc[c] = "sent" /\ ~call[c].again => nonce = call[c].nonce

\* A caller that goes on with its batch keeps what is known.
LEMMA ActsSoFar ==
  ASSUME TypeOK, CallProgress, NEW c \in Callers, Acts(c), NEW n,
         alive', begun'[c] = begun[c], SoFar(c, n)
  PROVE  SoFar(c, n)'
<1>1. begun[c] \in Nat /\ call[c] \in CallType
  BY DEF TypeOK
<1>2. CASE \E kind \in {"multi", "executor"} : Begin(c, kind)
  BY <1>1, <1>2 DEF Begin, TypeOK
<1>3. CASE GetMinAckRelayFee(c) \/ GetCallbackGasPrice(c)
  BY <1>3 DEF GetMinAckRelayFee, GetCallbackGasPrice, At, SoFar
<1>4. CASE \E op \in Ops : \E arg \in Args(op) : AppendMessage(c, op, arg)
  BY <1>4 DEF AppendMessage, At, SoFar
<1>5. CASE Send(c)
  BY <1>5 DEF Send, At, SoFar
<1>6. CASE SendAgain(c)
  <2>1. /\ pc[c] = "sent" /\ ~call[c].again /\ pc'[c] = "nonce"
        /\ call'[c].again = TRUE /\ call'[c].given = call[c].nonce
    BY <1>6 DEF SendAgain, At, Goto, TypeOK, CallType
  <2>2. QED
    BY <2>1 DEF SoFar
<1>7. CASE ReadNonce(c)
  <2>1. /\ pc[c] = "nonce" /\ pc'[c] = "sign"
        /\ call'[c].again = call[c].again /\ call'[c].given = call[c].given
    BY <1>7 DEF ReadNonce, At, Goto, TypeOK, CallType
  <2>2. QED
    BY <2>1 DEF SoFar
<1>8. CASE Sign(c)
  <2>1. /\ pc[c] = "sign" /\ pc'[c] = "submit"
        /\ call'[c].again = call[c].again /\ call'[c].given = call[c].given
    BY <1>8 DEF Sign, At, Goto, TypeOK, CallType
  <2>2. QED
    BY <2>1 DEF SoFar
<1>9. CASE Submit(c)
  <2>1. pc[c] = "submit" /\ pc'[c] = "sent" /\ call'[c].again = call[c].again
    BY <1>9 DEF Submit, At, Goto, TypeOK, CallType
  <2>2. QED
    BY <2>1 DEF SoFar
<1>10. CASE At(c, "submit") /\ SubmitRefused(c) /\ call[c].again
  <2>1. pc'[c] = "sent" /\ call' = call
    BY <1>10 DEF SubmitRefused, SendFails, Goto, TypeOK
  <2>2. QED
    BY <1>10, <2>1 DEF SoFar
<1>11. CASE SendRequestFails(c) /\ call[c].again
  <2>1. pc'[c] = "sent" /\ call' = call
    BY <1>11 DEF SendRequestFails, SendFails, Goto, TypeOK
  <2>2. QED
    BY <1>11, <2>1 DEF SoFar
<1>12. CASE CheckTxStatus(c)
  <2>1. pc'[c] = "idle"
    BY <1>12 DEF CheckTxStatus, Goto, TypeOK
  <2>2. QED
    BY <2>1 DEF SoFar
<1>13. QED
  BY <1>2, <1>3, <1>4, <1>5, <1>6, <1>7, <1>8, <1>9, <1>10, <1>11, <1>12 DEF Acts

\* Who acts goes on with its batch or begins the next one.
LEMMA ActsBegun ==
  ASSUME TypeOK, NEW c \in Callers, Acts(c), alive'
  PROVE  begun'[c] = begun[c] \/ begun'[c] = begun[c] + 1
<1>1. CASE \E kind \in {"multi", "executor"} : Begin(c, kind)
  BY <1>1 DEF Begin, TypeOK
<1>2. CASE \E op \in Ops : \E arg \in Args(op) : AppendMessage(c, op, arg)
  BY <1>2 DEF AppendMessage, Fatal
<1>3. QED
  BY <1>1, <1>2
     DEF Acts, GetMinAckRelayFee, GetCallbackGasPrice, Send, SendAgain, ReadNonce, Sign,
         Submit, SubmitRefused, SendRequestFails, SendFails, CheckTxStatus

\* No step makes a process run again.
LEMMA StaysDead ==
  ASSUME [Next]_vars, alive'
  PROVE  alive
BY DEF Next, vars, clientVars, Building, Begin, GetMinAckRelayFee, GetCallbackGasPrice,
       FeesFail, AppendMessage, Sending, Send, SendAgain, ReadNonce, Sign, Submit,
       SubmitRefused, SendRequestFails, SendFails, CheckTxStatus, CheckFails,
       SetDefaultAccount, ChangeFees, Commit, At, Fatal

\* What is taken follows the callers' progress.
LEMMA BatchProgressStep ==
  ASSUME TypeOK, CallProgress, BatchProgress, [Next]_vars
  PROVE  BatchProgress'
<1>1. SUFFICES ASSUME NEW tx \in Taken', alive'
               PROVE  /\ tx.batch <= begun'[tx.by]
                      /\ tx.batch = begun'[tx.by] => SoFar(tx.by, tx.nonce)'
  BY DEF BatchProgress, SoFar
<1>2. alive
  BY <1>1, StaysDead
<1>3. ASSUME NEW c \in Callers, Enters(c), tx = Tx(c)
      PROVE  /\ tx.batch <= begun'[tx.by]
             /\ tx.batch = begun'[tx.by] => SoFar(tx.by, tx.nonce)'
  <2>1. tx.by = c /\ tx.batch = begun[c] /\ tx.nonce = call[c].nonce
    BY <1>3, TxFields
  <2>2. pc'[c] = "sent" /\ call'[c].nonce = call[c].nonce
    BY <1>1, <1>3 DEF Enters
  <2>3. begun[c] \in Nat
    BY DEF TypeOK
  <2>4. begun'[c] = begun[c] \/ begun'[c] = begun[c] + 1
    <3>1. ~Fatal
      BY <1>1 DEF Fatal
    <3>2. CASE Stays(c)
      BY <3>2 DEF Stays
    <3>3. CASE Acts(c)
      BY <1>1, <3>3, ActsBegun
    <3>4. QED
      BY <3>1, <3>2, <3>3, CallerSteps
  <2>5. tx.batch <= begun'[c]
    BY <2>1, <2>3, <2>4
  <2>6. SoFar(c, tx.nonce)'
    BY <2>1, <2>2 DEF SoFar
  <2>7. QED
    BY <2>1, <2>5, <2>6
<1>4. CASE tx \in Taken
  <2> DEFINE c == tx.by
  <2>1. tx \in TxType /\ c \in Callers /\ tx.batch \in Nat /\ begun[c] \in Nat
    BY <1>4, TakenTyped DEF TxType, TypeOK
  <2>2. tx.batch <= begun[c] /\ (tx.batch = begun[c] => SoFar(c, tx.nonce))
    BY <1>2, <1>4 DEF BatchProgress, SoFar
  <2> HIDE DEF c
  <2>3. ~Fatal
    BY <1>1 DEF Fatal
  <2>4. CASE Stays(c)
    BY <2>2, <2>4 DEF Stays, SoFar, c
  <2>5. CASE Acts(c)
    <3>1. CASE begun'[c] = begun[c] + 1
      BY <2>1, <2>2, <3>1 DEF c
    <3>2. CASE begun'[c] = begun[c]
      <4>1. ASSUME tx.batch = begun[c]
            PROVE  SoFar(c, tx.nonce)'
        BY <1>1, <2>1, <2>2, <2>5, <3>2, <4>1, ActsSoFar
      <4>2. QED
        BY <2>2, <3>2, <4>1 DEF c
    <3>3. QED
      BY <1>1, <2>1, <2>5, <3>1, <3>2, ActsBegun
  <2>6. QED
    BY <2>1, <2>3, <2>4, <2>5, CallerSteps
<1>5. QED
  BY <1>3, <1>4, TakenSteps

\* A batch that is sent again is sent with its nonce.
LEMMA OneNonceStep ==
  ASSUME TypeOK, CallProgress, BatchProgress, OneNonce, [Next]_vars
  PROVE  OneNonce'
<1>1. ASSUME NEW c \in Callers, Enters(c), NEW tx \in Taken,
             tx.by = c, tx.batch = begun[c]
      PROVE  tx.nonce = call[c].nonce \/ tx.nonce = 0
  <2>1. call[c].again /\ tx.nonce = call[c].given
    BY <1>1 DEF Enters, At, BatchProgress
  <2>2. call[c].given # 0 => call[c].nonce = call[c].given
    BY <1>1 DEF Enters, At, CallProgress
  <2>3. QED
    BY <2>1, <2>2
<1>2. SUFFICES ASSUME NEW tx \in Taken', NEW other \in Taken',
                      tx.by = other.by, tx.batch = other.batch
               PROVE  tx.nonce = other.nonce \/ tx.nonce = 0 \/ other.nonce = 0
  BY DEF OneNonce
<1>3. CASE tx \in Taken /\ other \in Taken
  BY <1>2, <1>3 DEF OneNonce
<1>4. ASSUME NEW c \in Callers, Enters(c), tx = Tx(c), other \in Taken
      PROVE  tx.nonce = other.nonce \/ tx.nonce = 0 \/ other.nonce = 0
  BY <1>1, <1>2, <1>4, TxFields
<1>5. ASSUME NEW c \in Callers, Enters(c), other = Tx(c), tx \in Taken
      PROVE  tx.nonce = other.nonce \/ tx.nonce = 0 \/ other.nonce = 0
  BY <1>1, <1>2, <1>5, TxFields
<1>6. ASSUME NEW c \in Callers, tx = Tx(c), NEW d \in Callers, other = Tx(d)
      PROVE  tx.nonce = other.nonce
  BY <1>2, <1>6, TxFields
<1>7. QED
  BY <1>2, <1>3, <1>4, <1>5, <1>6, TakenSteps

-----------------------------------------------------------------------------
(* Why a nonce may be refused.                                              *)

\* Once the account is switched, or a caller disturbed, it remains so.
LEMMA HistoryStays ==
  ASSUME TypeOK, [Next]_vars
  PROVE  /\ ~auxSwitched' => ~auxSwitched /\ account' = account
         /\ ~auxDisturbed' => ~auxDisturbed
<1> USE DEF clientVars, auxVars
<1>1. ASSUME NEW c, Building(c)
      PROVE  /\ auxSwitched' = auxSwitched /\ account' = account
             /\ ~auxDisturbed' => ~auxDisturbed
  <2>1. ASSUME NEW op, NEW arg, AppendMessage(c, op, arg)
        PROVE  /\ auxSwitched' = auxSwitched /\ account' = account
               /\ ~auxDisturbed' => ~auxDisturbed
    <3>1. CASE Refused(op, arg, call[c].table)
      BY <2>1, <3>1 DEF AppendMessage, Fatal
    <3>2. CASE ~Refused(op, arg, call[c].table)
      BY <2>1, <3>2 DEF AppendMessage
    <3>3. QED
      BY <3>1, <3>2
  <2>2. CASE FeesFail(c)
    BY <2>2 DEF FeesFail, Fatal
  <2>3. CASE \/ \E kind \in {"multi", "executor"} : Begin(c, kind)
             \/ GetMinAckRelayFee(c) \/ GetCallbackGasPrice(c)
    BY <2>3 DEF Begin, GetMinAckRelayFee, GetCallbackGasPrice
  <2>4. QED
    BY <1>1, <2>1, <2>2, <2>3 DEF Building
<1>2. ASSUME NEW c, Sending(c)
      PROVE  /\ auxSwitched' = auxSwitched /\ account' = account
             /\ ~auxDisturbed' => ~auxDisturbed
  <2>1. CASE ReadNonce(c)
    <3>1. ~auxDisturbed' => ~auxDisturbed
      BY <2>1 DEF ReadNonce
    <3>2. QED
      BY <2>1, <3>1 DEF ReadNonce
  <2>2. CASE SubmitRefused(c) \/ SendRequestFails(c)
    BY <2>2 DEF SubmitRefused, SendRequestFails, SendFails, Fatal
  <2>3. CASE Send(c) \/ SendAgain(c) \/ Sign(c) \/ Submit(c)
    BY <2>3 DEF Send, SendAgain, Sign, Submit
  <2>4. QED
    BY <1>2, <2>1, <2>2, <2>3 DEF Sending
<1>3. ASSUME NEW c, CheckTxStatus(c) \/ CheckFails(c)
      PROVE  /\ auxSwitched' = auxSwitched /\ account' = account
             /\ ~auxDisturbed' => ~auxDisturbed
  <2>1. CASE CheckTxStatus(c)
    BY <2>1 DEF CheckTxStatus
  <2>2. CASE CheckFails(c)
    BY <2>2 DEF CheckFails, Fatal
  <2>3. QED
    BY <1>3, <2>1, <2>2
<1>4. ASSUME NEW a, SetDefaultAccount(a)
      PROVE  auxSwitched' /\ auxDisturbed' = auxDisturbed
  BY <1>4 DEF SetDefaultAccount
<1>5. ASSUME \/ \E table \in FeeTables : ChangeFees(table)
             \/ \E tx \in pool : Commit(tx)
             \/ UNCHANGED vars
      PROVE  UNCHANGED <<account, auxSwitched, auxDisturbed>>
  BY <1>5 DEF ChangeFees, Commit, vars
<1>6. QED
  BY <1>1, <1>2, <1>3, <1>4, <1>5 DEF Next

\* Only log.Fatal ends the process.
LEMMA DiesByFatal ==
  ASSUME [Next]_vars, alive, ~alive'
  PROVE  Fatal
  BY DEF Next, vars, clientVars, Building, Begin, GetMinAckRelayFee,
         GetCallbackGasPrice, FeesFail, AppendMessage, Sending, Send, SendAgain,
         ReadNonce, Sign, Submit, SubmitRefused, SendRequestFails, SendFails,
         CheckTxStatus, CheckFails, SetDefaultAccount, ChangeFees, Commit

\* Where the steps of a caller lead to.
LEMMA ActsTo ==
  ASSUME TypeOK, CallProgress, NEW c \in Callers, Acts(c)
  PROVE  \/ pc'[c] \notin {"nonce", "sign", "submit", "sent"}
         \/ Send(c) /\ pc'[c] = "nonce" /\ ~call'[c].again
         \/ /\ SendAgain(c) /\ pc'[c] = "nonce" /\ pc[c] = "sent" /\ ~call[c].again
            /\ call'[c].again /\ call'[c].given = call[c].nonce
         \/ /\ ReadNonce(c) /\ pc'[c] = "sign" /\ pc[c] = "nonce"
            /\ call'[c].again = call[c].again /\ call'[c].given = call[c].given
         \/ /\ Sign(c) /\ pc'[c] = "submit" /\ pc[c] = "sign"
            /\ call'[c].again = call[c].again /\ call'[c].given = call[c].given
            /\ call'[c].nonce = call[c].nonce /\ call'[c].from = account
         \/ /\ Submit(c) /\ pc'[c] = "sent" /\ call'[c].nonce = call[c].nonce
         \/ pc'[c] = "sent" /\ call'[c].again
<1>1. CASE \/ \E kind \in {"multi", "executor"} : Begin(c, kind)
           \/ GetMinAckRelayFee(c) \/ GetCallbackGasPrice(c) \/ CheckTxStatus(c)
  <2>1. pc'[c] \in {"fees", "price", "append", "idle"}
    BY <1>1 DEF Begin, GetMinAckRelayFee, GetCallbackGasPrice, CheckTxStatus, Goto, TypeOK
  <2>2. QED
    BY <2>1
<1>2. CASE \E op \in Ops : \E arg \in Args(op) : AppendMessage(c, op, arg)
  <2>1. pc'[c] \in {"append", "idle"}
    BY <1>2 DEF AppendMessage, At, Fatal
  <2>2. QED
    BY <2>1
<1>3. CASE Send(c)
  <2>1. pc'[c] = "nonce" /\ call' = call /\ ~call[c].again
    BY <1>3 DEF Send, At, Goto, TypeOK, CallProgress
  <2>2. QED
    BY <1>3, <2>1
<1>4. CASE SendAgain(c)
  <2>1. /\ pc'[c] = "nonce" /\ pc[c] = "sent" /\ ~call[c].again
        /\ call'[c].again /\ call'[c].given = call[c].nonce
    BY <1>4 DEF SendAgain, At, Goto, TypeOK, CallType
  <2>2. QED
    BY <1>4, <2>1
<1>5. CASE ReadNonce(c)
  <2>1. /\ pc'[c] = "sign" /\ pc[c] = "nonce"
        /\ call'[c].again = call[c].again /\ call'[c].given = call[c].given
    BY <1>5 DEF ReadNonce, At, Goto, TypeOK, CallType
  <2>2. QED
    BY <1>5, <2>1
<1>6. CASE Sign(c)
  <2>1. /\ pc'[c] = "submit" /\ pc[c] = "sign"
        /\ call'[c].again = call[c].again /\ call'[c].given = call[c].given
        /\ call'[c].nonce = call[c].nonce /\ call'[c].from = account
    BY <1>6 DEF Sign, At, Goto, TypeOK, CallType
  <2>2. QED
    BY <1>6, <2>1
<1>7. CASE Submit(c)
  <2>1. pc'[c] = "sent" /\ call'[c].nonce = call[c].nonce
    BY <1>7 DEF Submit, Goto, TypeOK, CallType
  <2>2. QED
    BY <1>7, <2>1
<1>8. CASE (SubmitRefused(c) \/ SendRequestFails(c)) /\ call[c].again
  <2>1. pc'[c] = "sent" /\ call' = call
    BY <1>8 DEF SubmitRefused, SendRequestFails, SendFails, Goto, TypeOK
  <2>2. QED
    BY <1>8, <2>1
<1>9. QED
  BY <1>1, <1>2, <1>3, <1>4, <1>5, <1>6, <1>7, <1>8 DEF Acts

\* One account signs what is taken and what is about to be sent.
LEMMA OneAccountStep ==
  ASSUME TypeOK, CallProgress, OneAccount, [Next]_vars
  PROVE  OneAccount'
<1>1. SUFFICES ASSUME ~auxSwitched'
               PROVE  /\ \A tx \in Taken' : tx.from = account'
                      /\ \A c \in Callers : pc'[c] = "submit" => call'[c].from = account'
  BY DEF OneAccount
<1>2. ~auxSwitched /\ account' = account
  BY <1>1, HistoryStays
<1>3. ASSUME NEW tx \in Taken'
      PROVE  tx.from = account
  <2>1. CASE tx \in Taken
    BY <1>2, <2>1 DEF OneAccount
  <2>2. ASSUME NEW c \in Callers, Enters(c), tx = Tx(c)
        PROVE  tx.from = account
    BY <1>2, <2>2, TxFields DEF Enters, At, OneAccount
  <2>3. QED
    BY <2>1, <2>2, TakenSteps
<1>4. ASSUME NEW c \in Callers, pc'[c] = "submit"
      PROVE  call'[c].from = account
  <2>1. ~Fatal
    BY <1>4 DEF Fatal
  <2>2. CASE Stays(c)
    BY <1>2, <1>4, <2>2 DEF Stays, OneAccount
  <2>3. CASE Acts(c)
    BY <1>4, <2>3, ActsTo
  <2>4. QED
    BY <2>1, <2>2, <2>3, CallerSteps
<1>5. QED
  BY <1>2, <1>3, <1>4

\* The nonce of what was sent is used.
LEMMA SentIsUsedStep ==
  ASSUME TypeOK, InOrder, CallProgress, OneAccount, SentIsUsed, [Next]_vars
  PROVE  SentIsUsed'
<1>1. SUFFICES ASSUME ~auxSwitched', NEW c \in Callers
               PROVE  /\ pc'[c] = "sent" /\ ~call'[c].again
                           => Used(account, call[c].nonce)'
                      /\ pc'[c] \in {"nonce", "sign", "submit"} /\ call'[c].again
                           => Used(account, call[c].given)'
  BY DEF SentIsUsed
<1>2. ~auxSwitched /\ account' = account
  BY <1>1, HistoryStays
<1>3. account \in Accounts /\ call[c].nonce \in Nat /\ call[c].given \in Nat
  BY DEF TypeOK, CallType
<1>4. ASSUME NEW n \in Nat, Used(account, n)
      PROVE  n < committed'[account'] \/ \E tx \in pool' : tx.from = account' /\ tx.nonce = n
  BY <1>2, <1>3, <1>4, UsedStays
<1>5. /\ pc[c] = "sent" /\ ~call[c].again => Used(account, call[c].nonce)
      /\ pc[c] \in {"nonce", "sign", "submit"} /\ call[c].again
           => Used(account, call[c].given)
  BY <1>2 DEF SentIsUsed
<1>6. CASE Fatal
  <2>1. pc'[c] = "idle"
    BY <1>6 DEF Fatal
  <2>2. QED
    BY <2>1
<1>7. CASE Stays(c)
  BY <1>3, <1>4, <1>5, <1>7 DEF Stays, Used
<1>8. CASE Acts(c)
  <2>1. CASE \/ pc'[c] \notin {"nonce", "sign", "submit", "sent"}
             \/ Send(c) /\ pc'[c] = "nonce" /\ ~call'[c].again
    BY <2>1
  <2>2. CASE /\ pc'[c] = "nonce" /\ pc[c] = "sent" /\ ~call[c].again
             /\ call'[c].again /\ call'[c].given = call[c].nonce
    BY <1>3, <1>4, <1>5, <2>2 DEF Used
  <2>3. CASE /\ \/ pc'[c] = "sign" /\ pc[c] = "nonce"
                \/ pc'[c] = "submit" /\ pc[c] = "sign"
             /\ call'[c].again = call[c].again /\ call'[c].given = call[c].given
    BY <1>3, <1>4, <1>5, <2>3 DEF Used
  <2>4. CASE Submit(c) /\ pc'[c] = "sent" /\ call'[c].nonce = call[c].nonce
    <3>1. Tx(c) \in pool' /\ Tx(c).nonce = call[c].nonce /\ Tx(c).from = call[c].from
      BY <2>4, TxFields DEF Submit, Enter
    <3>2. call[c].from = account
      BY <1>2, <2>4 DEF Submit, At, OneAccount
    <3>3. QED
      BY <1>2, <2>4, <3>1, <3>2 DEF Used
  <2>5. CASE pc'[c] = "sent" /\ call'[c].again
    BY <2>5
  <2>6. QED
    BY <1>8, <2>1, <2>2, <2>3, <2>4, <2>5, ActsTo
<1>9. QED
  BY <1>6, <1>7, <1>8, CallerSteps

\* A nonce gets used only by a transaction that has it.
LEMMA UsedBySending ==
  ASSUME TypeOK, InOrder, [Next]_vars, NEW a \in Accounts, NEW n \in Nat,
         n < committed'[a] \/ \E tx \in pool' : tx.from = a /\ tx.nonce = n
  PROVE  \/ Used(a, n)
         \/ \E c \in Callers : Enters(c) /\ Tx(c).from = a /\ Tx(c).nonce = n
<1>1. CASE NodeKept
  BY <1>1 DEF NodeKept, Used
<1>2. ASSUME NEW c \in Callers, Enters(c)
      PROVE  \/ Used(a, n)
             \/ Enters(c) /\ Tx(c).from = a /\ Tx(c).nonce = n
  <2>1. committed' = committed
    BY <1>2 DEF Enters
  <2>2. QED
    BY <1>2, <2>1, EnterEffect DEF Used
<1>3. ASSUME NEW tx \in pool, Commit(tx)
      PROVE  Used(a, n)
  <2>1. committed[a] \in Nat /\ tx.nonce \in Nat
    BY DEF TypeOK, TxType
  <2>2. CASE a = tx.from
    <3>1. committed[a] = tx.nonce /\ committed'[a] = tx.nonce + 1
      BY <1>3, <2>2, CommitEffect
    <3>2. n < committed'[a] => n < committed[a] \/ n = tx.nonce
      BY <2>1, <3>1
    <3>3. QED
      BY <1>3, <2>2, <3>2, CommitEffect DEF Used
  <2>3. CASE a # tx.from
    <3>1. committed'[a] = committed[a]
      BY <1>3, <2>3, CommitEffect
    <3>2. QED
      BY <1>3, <3>1, CommitEffect DEF Used
  <2>4. QED
    BY <2>2, <2>3
<1>4. QED
  BY <1>1, <1>2, <1>3, NodeSteps

\* Who holds a nonce in the next state holds it, or has just read it.
LEMMA HoldingSteps ==
  ASSUME TypeOK, CallProgress, [Next]_vars, NEW c \in Callers,
         pc'[c] \in {"sign", "submit"}, call'[c].given = 0
  PROVE  \/ c \in Holding(account) /\ call'[c].nonce = call[c].nonce
         \/ ReadNonce(c)
<1>1. ~Fatal
  BY DEF Fatal
<1>2. CASE Stays(c)
  BY <1>2 DEF Stays, Holding
<1>3. CASE Acts(c)
  BY <1>3, ActsTo DEF Holding
<1>4. QED
  BY <1>1, <1>2, <1>3, CallerSteps

\* The nonce a caller holds stays free.
LEMMA HeldIsFreeStep ==
  ASSUME TypeOK, InOrder, CallProgress, OneAccount, SentIsUsed, HeldIsFree, [Next]_vars
  PROVE  HeldIsFree'
<1>1. SUFFICES ASSUME ~auxDisturbed', ~auxSwitched'
               PROVE  /\ \A c \in Holding(account)' : ~Used(account, call[c].nonce)'
                      /\ \A c, d \in Holding(account)' : c = d
  BY DEF HeldIsFree
<1>2. ~auxDisturbed /\ ~auxSwitched /\ account' = account /\ account \in Accounts
  BY <1>1, HistoryStays DEF TypeOK
<1>3. ASSUME NEW c \in Holding(account)'
      PROVE  /\ c \in Callers /\ pc'[c] \in {"sign", "submit"} /\ call'[c].given = 0
             /\ \/ c \in Holding(account) /\ call'[c].nonce = call[c].nonce
                \/ ReadNonce(c)
  <2>1. c \in Callers /\ pc'[c] \in {"sign", "submit"} /\ call'[c].given = 0
    BY <1>3 DEF Holding
  <2>2. QED
    BY <2>1, HoldingSteps
<1>4. ASSUME NEW c \in Holding(account)', Used(account, call[c].nonce)'
      PROVE  FALSE
  <2>1. CASE ReadNonce(c)
    <3>1. call'[c].given = call[c].given
      BY <1>3, <2>1 DEF ReadNonce, TypeOK, CallType
    <3>2. call'[c].nonce = Pending(account)
      <4> DEFINE n == IF call[c].given = 0 THEN Pending(account) ELSE call[c].given
      <4>1. n = Pending(account)
        BY <1>3, <3>1
      <4>2. call' = [call EXCEPT ![c] = [@ EXCEPT !.nonce = n]]
        BY <2>1 DEF ReadNonce
      <4> HIDE DEF n
      <4>3. QED
        BY <1>3, <4>1, <4>2 DEF TypeOK, CallType
    <3>3. UNCHANGED <<committed, pool>>
      BY <2>1 DEF ReadNonce, chainVars
    <3>4. ~Used(account, Pending(account))
      BY <1>2, PendingIsFree
    <3>5. QED
      BY <1>2, <1>4, <3>2, <3>3, <3>4 DEF Used
  <2>2. CASE c \in Holding(account) /\ call'[c].nonce = call[c].nonce
    <3> DEFINE n == call[c].nonce
    <3>1. ~Used(account, n)
      BY <1>2, <2>2 DEF HeldIsFree
    <3>2. n \in Nat
      BY <2>2 DEF Holding, TypeOK, CallType
    <3>3. n < committed'[account] \/ \E tx \in pool' : tx.from = account /\ tx.nonce = n
      BY <1>2, <1>4, <2>2 DEF Used
    <3>4. PICK e \in Callers : Enters(e) /\ Tx(e).nonce = n
      <4> HIDE DEF n
      <4>1. QED
        BY <1>2, <3>1, <3>2, <3>3, UsedBySending
    <3>5. pc[e] = "submit" /\ call[e].nonce = n /\ alive
      BY <3>4, TxFields DEF Enters, At
    <3>6. alive'
      <4>1. SUFFICES ASSUME ~alive' PROVE FALSE
        OBVIOUS
      <4>2. pc'[c] = "idle"
        BY <1>3, <3>5, <4>1, DiesByFatal DEF Fatal
      <4>3. QED
        BY <1>3, <4>2
    <3>7. e # c
      BY <1>3, <3>4, <3>6 DEF Enters
    <3>8. call[e].given # 0
      <4>1. SUFFICES ASSUME call[e].given = 0 PROVE FALSE
        OBVIOUS
      <4>2. e \in Holding(account)
        BY <3>5, <4>1 DEF Holding
      <4>3. QED
        BY <1>2, <2>2, <3>7, <4>2 DEF HeldIsFree
    <3>9. call[e].again /\ call[e].nonce = call[e].given
      BY <3>5, <3>8 DEF CallProgress
    <3>10. Used(account, call[e].given)
      BY <1>2, <3>5, <3>9 DEF SentIsUsed
    <3>11. QED
      BY <3>1, <3>5, <3>9, <3>10
  <2>3. QED
    BY <1>3, <2>1, <2>2
<1>5. ASSUME NEW c \in Holding(account)', NEW d \in Holding(account)'
      PROVE  c = d
  <2>1. ASSUME NEW x, ReadNonce(x) PROVE Holding(account) = {}
    BY <1>1, <2>1 DEF ReadNonce
  <2>2. CASE ReadNonce(c) /\ ReadNonce(d)
    <3>1. pc[c] = "nonce" /\ pc'[c] = "sign"
      BY <1>3, <2>2 DEF ReadNonce, At, Goto, TypeOK
    <3>2. c # d => pc'[c] = pc[c]
      BY <1>3, <2>2 DEF ReadNonce, Goto, TypeOK
    <3>3. QED
      BY <3>1, <3>2
  <2>3. CASE c \in Holding(account) /\ d \in Holding(account)
    BY <1>2, <2>3 DEF HeldIsFree
  <2>4. QED
    BY <1>3, <2>1, <2>2, <2>3
<1>6. QED
  BY <1>4, <1>5

\* The process ends for a cause.
LEMMA FatalHasCauseStep ==
  ASSUME TypeOK, CallProgress, OneAccount, HeldIsFree, FatalHasCause, [Next]_vars
  PROVE  FatalHasCause'
<1>1. SUFFICES ASSUME ~alive', ~auxDisturbed', ~auxSwitched' PROVE FALSE
  BY DEF FatalHasCause
<1>2. ~auxDisturbed /\ ~auxSwitched /\ account \in Accounts
  BY <1>1, HistoryStays DEF TypeOK
<1>3. alive
  BY <1>2 DEF FatalHasCause
<1>4. ASSUME NEW c \in Callers, SubmitRefused(c), ~call[c].again
      PROVE  FALSE
  <2>1. pc[c] = "submit" /\ call[c].given = 0 /\ ~Takes(Tx(c))
    BY <1>4 DEF SubmitRefused, At, CallProgress
  <2>2. ~Used(account, call[c].nonce)
    BY <1>2, <2>1 DEF HeldIsFree, Holding
  <2>3. call[c].from = account
    BY <1>2, <2>1 DEF OneAccount
  <2>4. call[c].nonce \in Nat /\ committed[account] \in Nat
    BY <1>2 DEF TypeOK, CallType
  <2>5. call[c].nonce >= committed[account]
    BY <2>2, <2>4 DEF Used
  <2>6. Takes(Tx(c))
    BY <2>2, <2>3, <2>5, TxFields DEF Takes, Used
  <2>7. QED
    BY <2>1, <2>6
<1>5. ASSUME NEW c \in Callers, Building(c) PROVE FALSE
  BY <1>1, <1>3, <1>5
     DEF Building, Begin, GetMinAckRelayFee, GetCallbackGasPrice, FeesFail,
         AppendMessage, clientVars
<1>6. ASSUME NEW c \in Callers, Sending(c) PROVE FALSE
  BY <1>1, <1>3, <1>4, <1>6
     DEF Sending, Send, SendAgain, ReadNonce, Sign, Submit, SubmitRefused,
         SendRequestFails, SendFails, clientVars
<1>7. ASSUME NEW c \in Callers, CheckTxStatus(c) \/ CheckFails(c) PROVE FALSE
  BY <1>1, <1>3, <1>7 DEF CheckTxStatus, CheckFails, clientVars
<1>8. QED
  BY <1>1, <1>3, <1>5, <1>6, <1>7
     DEF Next, vars, clientVars, SetDefaultAccount, ChangeFees, Commit

-----------------------------------------------------------------------------
(* What a batch is worth.                                                   *)

\* A batch without messages.
LEMMA EmptyPriced == ASSUME NEW kind, NEW table PROVE Priced(kind, table, <<>>)
  BY DEF Priced

\* One more message that pays for itself.
LEMMA AppendPriced ==
  ASSUME NEW op \in Ops, NEW arg \in Args(op), NEW table \in Table, NEW kind,
         (op \in ExecutorOps) <=> (kind = "executor"),
         NEW messages \in Seq(MessageType), Priced(kind, table, messages)
  PROVE  Priced(kind, table, Append(messages, Message(op, arg, table)))
<1>1. SUFFICES ASSUME kind = "multi"
               PROVE  Priced(kind, table, Append(messages, Message(op, arg, table)))
  BY DEF Priced
<1> DEFINE message == Message(op, arg, table)
           Fair(m) == \/ m.value >= Owed(m.data.arg, table)
                      \/ m.data.arg.ack # NoAck /\ m.data.arg.ack < table.minAck
<1>2. op \in MessageOps
  BY <1>1, OpsAssumption
<1>3. message.value = Fee(op, arg, table) /\ message.data.arg = arg
  BY DEF Message
<1>4. Fair(message)
  BY <1>2, <1>3, FeeIsOwed
<1>5. \A i \in DOMAIN messages : Fair(messages[i])
  BY <1>1 DEF Priced
<1>6. message \in MessageType
  BY MessageTyped
<1>7. ASSUME NEW i \in DOMAIN Append(messages, message)
      PROVE  Fair(Append(messages, message)[i])
  <2> HIDE DEF message, Fair
  <2>1. CASE i \in DOMAIN messages
    BY <1>5, <1>6, <2>1
  <2>2. CASE i \notin DOMAIN messages
    <3>1. Append(messages, message)[i] = message
      BY <1>6, <1>7, <2>2
    <3>2. QED
      BY <1>4, <3>1
  <2>3. QED
    BY <2>1, <2>2
<1>8. QED
  BY <1>7 DEF Priced

\* A caller's batch stays priced by the fees it was built with.
LEMMA CallPricedStep ==
  ASSUME TypeOK, CallProgress, [Next]_vars, NEW c \in Callers,
         Priced(call[c].kind, call[c].table, call[c].messages)
  PROVE  Priced(call[c].kind, call[c].table, call[c].messages)'
<1>1. CASE call'[c] = Idle
  BY <1>1, EmptyPriced DEF Idle
<1>2. CASE /\ call'[c].kind = call[c].kind /\ call'[c].table = call[c].table
           /\ call'[c].messages = call[c].messages
  <2>1. Priced(call'[c].kind, call'[c].table, call'[c].messages)
    BY <1>2
  <2>2. QED
    BY <2>1 DEF Priced, Owed
<1>3. CASE call'[c].messages = <<>>
  BY <1>3 DEF Priced
<1>4. CASE Fatal
  BY <1>1, <1>4 DEF Fatal
<1>5. CASE Stays(c)
  BY <1>2, <1>5 DEF Stays
<1>6. CASE Acts(c)
  <2>1. CASE \E kind \in {"multi", "executor"} : Begin(c, kind)
    BY <1>3, <2>1 DEF Begin, Idle, TypeOK
  <2>2. CASE GetMinAckRelayFee(c) \/ GetCallbackGasPrice(c)
    <3>1. call[c].messages = <<>>
      BY <2>2 DEF GetMinAckRelayFee, GetCallbackGasPrice, At, CallProgress
    <3>2. call'[c].messages = call[c].messages
      BY <2>2 DEF GetMinAckRelayFee, GetCallbackGasPrice, TypeOK, CallType
    <3>3. QED
      BY <1>3, <3>1, <3>2
  <2>3. CASE \E op \in Ops : \E arg \in Args(op) : AppendMessage(c, op, arg)
    <3>1. PICK op \in Ops : \E arg \in Args(op) : AppendMessage(c, op, arg)
      BY <2>3
    <3>2. PICK arg \in Args(op) : AppendMessage(c, op, arg)
      BY <3>1
    <3>3. CASE Refused(op, arg, call[c].table)
      BY <1>1, <3>2, <3>3 DEF AppendMessage, Fatal
    <3>4. CASE ~Refused(op, arg, call[c].table)
      <4> DEFINE more == Append(call[c].messages, Message(op, arg, call[c].table))
      <4>1. call' = [call EXCEPT ![c] = [@ EXCEPT !.messages = more]]
        BY <3>2, <3>4 DEF AppendMessage
      <4>2. Priced(call[c].kind, call[c].table, more)
        <5>1. call[c].messages \in Seq(MessageType) /\ call[c].table \in Table
          BY DEF TypeOK, CallType
        <5>2. (op \in ExecutorOps) <=> (call[c].kind = "executor")
          BY <3>2 DEF AppendMessage
        <5>3. QED
          BY <5>1, <5>2, AppendPriced
      <4> HIDE DEF more
      <4>3. /\ call'[c].kind = call[c].kind /\ call'[c].table = call[c].table
            /\ call'[c].messages = more
        BY <4>1 DEF TypeOK, CallType
      <4>4. Priced(call'[c].kind, call'[c].table, call'[c].messages)
        BY <4>2, <4>3
      <4>5. QED
        BY <4>4 DEF Priced, Owed
    <3>5. QED
      BY <3>3, <3>4
  <2>4. CASE Send(c) \/ SendAgain(c) \/ ReadNonce(c) \/ Sign(c) \/ Submit(c)
    <3>1. /\ call'[c].kind = call[c].kind /\ call'[c].table = call[c].table
          /\ call'[c].messages = call[c].messages
      <4>1. CASE Send(c)
        BY <4>1 DEF Send
      <4>2. CASE SendAgain(c)
        BY <4>2 DEF SendAgain, TypeOK, CallType
      <4>3. CASE ReadNonce(c)
        BY <4>3 DEF ReadNonce, TypeOK, CallType
      <4>4. CASE Sign(c)
        BY <4>4 DEF Sign, TypeOK, CallType
      <4>5. CASE Submit(c)
        BY <4>5 DEF Submit, TypeOK, CallType
      <4>6. QED
        BY <2>4, <4>1, <4>2, <4>3, <4>4, <4>5
    <3>2. QED
      BY <1>2, <3>1
  <2>5. CASE (SubmitRefused(c) \/ SendRequestFails(c)) /\ call[c].again
    BY <1>2, <2>5 DEF SubmitRefused, SendRequestFails, SendFails
  <2>6. CASE CheckTxStatus(c)
    BY <1>1, <2>6 DEF CheckTxStatus, TypeOK
  <2>7. QED
    BY <1>6, <2>1, <2>2, <2>3, <2>4, <2>5, <2>6 DEF Acts
<1>7. QED
  BY <1>4, <1>5, <1>6, CallerSteps

\* Every batch stays priced.
LEMMA BatchesPricedStep ==
  ASSUME TypeOK, CallProgress, BatchesPriced, [Next]_vars
  PROVE  BatchesPriced'
<1>1. ASSUME NEW c \in Callers
      PROVE  Priced(call[c].kind, call[c].table, call[c].messages)'
  BY CallPricedStep DEF BatchesPriced
<1>2. ASSUME NEW tx \in Taken'
      PROVE  Priced(tx.kind, tx.table, tx.messages)
  <2>1. CASE tx \in Taken
    BY <2>1 DEF BatchesPriced
  <2>2. ASSUME NEW c \in Callers, tx = Tx(c)
        PROVE  Priced(tx.kind, tx.table, tx.messages)
    BY <2>2, TxFields DEF BatchesPriced
  <2>3. QED
    BY <2>1, <2>2, TakenSteps
<1>3. QED
  BY <1>1, <1>2 DEF BatchesPriced

\* A block reverts a batch for a cause only.
LEMMA RevertsForCauseStep ==
  ASSUME TypeOK, BatchesPriced, RevertsForCause, [Next]_vars
  PROVE  RevertsForCause'
<1> DEFINE Cause(e) ==
      ~e.ok =>
        IF e.tx.kind = "executor" THEN e.tx.table.relay # e.fees.relay
        ELSE \/ e.tx.messages = <<>>
             \/ e.tx.table # e.fees
             \/ \E j \in DOMAIN e.tx.messages :
                  LET ack == e.tx.messages[j].data.arg.ack
                  IN  ack # NoAck /\ ack < e.tx.table.minAck
<1>1. SUFFICES ASSUME NEW i \in DOMAIN executed' PROVE Cause(executed'[i])
  BY DEF RevertsForCause
<1>2. \A k \in DOMAIN executed : Cause(executed[k])
  BY DEF RevertsForCause
<1>3. CASE executed' = executed
  <2> HIDE DEF Cause
  <2>1. QED
    BY <1>2, <1>3
<1>4. ASSUME NEW tx \in pool, Commit(tx)
      PROVE  Cause(executed'[i])
  <2> DEFINE entry == [tx |-> tx, ok |-> Pays(tx, fees), fees |-> fees]
  <2>1. /\ DOMAIN executed = 1..Len(executed) /\ Len(executed) \in Nat
        /\ DOMAIN executed' = 1..(Len(executed) + 1)
        /\ \A k \in 1..Len(executed) : executed'[k] = executed[k]
        /\ executed'[Len(executed) + 1] = entry
    BY <1>4, CommitEffect
  <2>2. tx \in TxType /\ fees \in FeeTables /\ Priced(tx.kind, tx.table, tx.messages)
    BY DEF TypeOK, BatchesPriced, Taken
  <2>3. Cause(entry)
    <3>1. CASE Pays(tx, fees)
      BY <3>1
    <3>2. CASE ~Pays(tx, fees)
      BY <2>2, <3>2, RevertHasCause
    <3>3. QED
      BY <3>1, <3>2
  <2> HIDE DEF Cause, entry
  <2>4. CASE i \in 1..Len(executed)
    BY <1>2, <2>1, <2>4
  <2>5. CASE i = Len(executed) + 1
    BY <2>1, <2>3, <2>5
  <2>6. i \in 1..Len(executed) \/ i = Len(executed) + 1
    BY <2>1
  <2>7. QED
    BY <2>4, <2>5, <2>6
<1>5. QED
  BY <1>3, <1>4, NodeSteps DEF NodeKept, Enters

-----------------------------------------------------------------------------
(* The theorems.                                                            *)

\* At first nothing is sent.
LEMMA InitIInv == Init => IInv
<1>1. SUFFICES ASSUME Init PROVE IInv
  OBVIOUS
<1>2. account \in Accounts /\ fees \in FeeTables
  BY <1>1 DEF Init
<1>3. Idle \in CallType
  <2>1. NoAccount \in Accounts
    BY <1>2 DEF NoAccount
  <2>2. NoTable \in Table
    BY FeesAssumption DEF NoTable
  <2>3. <<>> \in Seq(MessageType)
    OBVIOUS
  <2>4. QED
    BY <2>1, <2>2, <2>3 DEF Idle, CallType
<1>4. call \in [Callers -> CallType]
  BY <1>1, <1>3 DEF Init
<1>5. TypeOK
  <2>1. /\ pc \in [Callers -> {"idle", "fees", "price", "append", "nonce", "sign",
                               "submit", "sent"}]
        /\ begun \in [Callers -> 0..MaxWork] /\ work \in 0..MaxWork
        /\ committed \in [Accounts -> Nat] /\ pool \subseteq TxType
    BY <1>1, BoundsAssumption DEF Init
  <2>2. executed \in Seq([tx : TxType, ok : BOOLEAN, fees : FeeTables])
    BY <1>1 DEF Init
  <2>3. alive \in BOOLEAN /\ auxDisturbed \in BOOLEAN /\ auxSwitched \in BOOLEAN
    BY <1>1 DEF Init
  <2>4. QED
    BY <1>2, <1>4, <2>1, <2>2, <2>3 DEF TypeOK
<1>6. pool = {} /\ executed = <<>> /\ DOMAIN executed = {} /\ Taken = {}
  BY <1>1 DEF Init, Taken
<1>7. InOrder
  BY <1>6, FS_EmptySet DEF InOrder
<1>8. \A c \in Callers : pc[c] = "idle" /\ call[c] = Idle /\ begun[c] = 0
  BY <1>1 DEF Init
<1>9. CallProgress
  BY <1>1, <1>8 DEF CallProgress, Init, Idle
<1>10. BatchProgress /\ OneNonce
  BY <1>6 DEF BatchProgress, OneNonce
<1>11. OneAccount /\ SentIsUsed
  BY <1>6, <1>8 DEF OneAccount, SentIsUsed
<1>12. HeldIsFree /\ FatalHasCause
  BY <1>1, <1>8 DEF HeldIsFree, Holding, FatalHasCause, Init
<1>13. BatchesPriced
  BY <1>6, <1>8, EmptyPriced DEF BatchesPriced, Idle
<1>14. RevertsForCause
  BY <1>6 DEF RevertsForCause
<1>15. QED
  BY <1>5, <1>7, <1>9, <1>10, <1>11, <1>12, <1>13, <1>14 DEF IInv

\* Every step keeps the invariant.
LEMMA StepIInv == IInv /\ [Next]_vars => IInv'
<1>1. SUFFICES ASSUME IInv, [Next]_vars PROVE IInv'
  OBVIOUS
<1>2. /\ TypeOK /\ InOrder /\ CallProgress /\ BatchProgress /\ OneNonce
      /\ OneAccount /\ SentIsUsed /\ HeldIsFree /\ FatalHasCause
      /\ BatchesPriced /\ RevertsForCause
  BY <1>1 DEF IInv
<1>3. TypeOK' /\ InOrder'
  BY <1>1, <1>2, TypeStep, InOrderStep
<1>4. CallProgress' /\ BatchProgress' /\ OneNonce'
  BY <1>1, <1>2, <1>3, CallProgressStep, BatchProgressStep, OneNonceStep
<1>5. OneAccount' /\ SentIsUsed' /\ HeldIsFree' /\ FatalHasCause'
  BY <1>1, <1>2, OneAccountStep, SentIsUsedStep, HeldIsFreeStep, FatalHasCauseStep
<1>6. BatchesPriced' /\ RevertsForCause'
  BY <1>1, <1>2, BatchesPricedStep, RevertsForCauseStep
<1>7. QED
  BY <1>3, <1>4, <1>5, <1>6 DEF IInv

\* The inductive invariant holds in every execution.
LEMMA Invariance == Spec => []IInv
<1>1. Init => IInv
  BY InitIInv
<1>2. IInv /\ [Next]_vars => IInv'
  BY StepIInv
<1>3. QED
  BY <1>1, <1>2, PTL DEF Spec

\* A batch that is sent again is executed once: nonces grow along the blocks.
LEMMA OnceInOrder ==
  ASSUME IInv
  PROVE  ExecutedOnce
<1>1. TypeOK /\ InOrder /\ OneNonce /\ OneAccount
  BY DEF IInv
<1>2. SUFFICES ASSUME NEW i \in DOMAIN executed, NEW j \in DOMAIN executed, i < j,
                      executed[i].tx.by = executed[j].tx.by,
                      executed[i].tx.batch = executed[j].tx.batch, ~auxSwitched
               PROVE  executed[i].tx.nonce = 0
  BY DEF ExecutedOnce
<1>3. executed[i].tx \in Taken /\ executed[j].tx \in Taken
  BY DEF Taken
<1>4. executed[i].tx.nonce \in Nat /\ executed[j].tx.nonce \in Nat
  BY <1>1, <1>3, TakenTyped DEF TxType
<1>5. executed[i].tx.from = executed[j].tx.from
  BY <1>1, <1>2, <1>3 DEF OneAccount
<1>6. executed[i].tx.nonce < executed[j].tx.nonce
  BY <1>1, <1>2, <1>5 DEF InOrder
<1>7. \/ executed[i].tx.nonce = executed[j].tx.nonce
      \/ executed[i].tx.nonce = 0 \/ executed[j].tx.nonce = 0
  BY <1>1, <1>2, <1>3 DEF OneNonce
<1>8. QED
  BY <1>4, <1>6, <1>7

\* The variables keep their types: every nonce is a natural.
THEOREM TypeCorrect == Spec => []TypeOK
<1>1. IInv => TypeOK
  BY DEF IInv
<1>2. QED
  BY <1>1, Invariance, PTL

\* SendTx: what is sent again with its nonce is executed once.
THEOREM SentAgainOnce == Spec => []ExecutedOnce
<1>1. IInv => ExecutedOnce
  BY OnceInOrder
<1>2. QED
  BY <1>1, Invariance, PTL

\* A batch reverts only if it is empty, the fees changed, or an AckRelayFee is below
\* the minimum: the builders' sums are what the contracts ask for.
THEOREM RevertsCorrect == Spec => []RevertsForCause
<1>1. IInv => RevertsForCause
  BY DEF IInv
<1>2. QED
  BY <1>1, Invariance, PTL

\* log.Fatal ends the process for a refused nonce only if callers or accounts got in
\* each other's way.
THEOREM FatalsHaveCause == Spec => []FatalHasCause
<1>1. IInv => FatalHasCause
  BY DEF IInv
<1>2. QED
  BY <1>1, Invariance, PTL

=============================================================================

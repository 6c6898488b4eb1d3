--------------------------- MODULE GatewayProofs ---------------------------
(***************************************************************************)
(* Proofs about Gateway, for any number of nodes, any message groups and   *)
(* any number of writes and faults.                                        *)
(***************************************************************************)
EXTENDS Gateway, TLAPS, SequenceTheorems

-----------------------------------------------------------------------------
(* Facts about partial maps from properties to values. *)

LEMMA ValsIntro ==
  ASSUME NEW S \in SUBSET Props, NEW f, f \in [S -> Val]
  PROVE  f \in Vals /\ DOMAIN f = S
BY DEF Vals

LEMMA ValsElim ==
  ASSUME NEW f \in Vals
  PROVE  /\ DOMAIN f \in SUBSET Props
         /\ f \in [DOMAIN f -> Val]
         /\ \A p \in DOMAIN f : f[p] \in Val
BY DEF Vals

LEMMA NoValsType == NoVals \in Vals /\ DOMAIN NoVals = {}
BY DEF Vals, NoVals

LEMMA OnlyType ==
  ASSUME NEW f \in Vals, NEW S
  PROVE  /\ Only(f, S) \in Vals
         /\ DOMAIN Only(f, S) = DOMAIN f \cap S
         /\ \A p \in DOMAIN f \cap S : Only(f, S)[p] = f[p]
<1>1. /\ DOMAIN f \cap S \in SUBSET Props
      /\ Only(f, S) \in [DOMAIN f \cap S -> Val]
  BY ValsElim DEF Only
<1> QED
  BY <1>1, ValsIntro DEF Only

LEMMA ValType ==
  ASSUME NEW v \in Val
  PROVE  /\ v # Unset
         /\ v.timestamp \in 0 .. MaxWrites
         /\ v.timestamp \in Int
         /\ v.value \in Values
BY UnsetAssumption, BoundAssumption DEF Val

\* The worker has at most one batch, and where the poll thread can be.
PollShape ==
  /\ \A n \in Nodes : Len(sending[n]) \in {0, 1}
  /\ poll.pc = "forwarding" =>
       /\ poll.node \in Nodes
       /\ poll.msg \in 0 .. Len(Messages[poll.node])
  /\ poll.pc # "forwarding" => poll.msg = 0

LEMMA IdleType ==
  Idle \in PollStates
BY NoValsType, NodeAssumption DEF Idle, PollStates

LEMMA NextNodeType ==
  ASSUME TypeOK, PollShape, poll.pc = "forwarding",
         NEW n \in Nodes, poll.node = n
  PROVE  /\ NextNode(n) \in PollStates
         /\ NextNode(n).msg = 0
         /\ NextNode(n).pc = "forwarding" =>
              NextNode(n).node \in Nodes /\ NextNode(n).vals = poll.vals
<1>1. CASE n = NodeCount
  BY <1>1, IdleType DEF NextNode, Idle
<1>2. CASE n # NodeCount
  <2>1. n + 1 \in 0 .. NodeCount /\ n + 1 \in Nodes
    BY <1>2, NodeAssumption DEF Nodes
  <2> QED
    BY <1>2, <2>1 DEF NextNode, TypeOK, PollStates
<1> QED
  BY <1>1, <1>2

-----------------------------------------------------------------------------
(* Type correctness *)

LEMMA EnqueueType ==
  ASSUME TypeOK, PollShape, NEW n \in Nodes, Locked(n)
  PROVE  /\ poll.pc = "forwarding" /\ poll.node = n
         /\ poll.msg \in DOMAIN Messages[n]
         /\ poll.msg \in 1 .. Len(Messages[n])
         /\ Messages[n][poll.msg] \subseteq Props
         /\ Only(poll.vals, Messages[n][poll.msg]) \in Vals
<1>1. Messages[n] \in Seq(SUBSET Props)
  BY MessageAssumption
<1>2. poll.vals \in Vals /\ poll.msg \in Nat
  BY DEF TypeOK, PollStates
<1>3. poll.msg \in 1 .. Len(Messages[n])
  BY <1>1, <1>2 DEF Locked, PollShape
<1>4. Messages[n][poll.msg] \in SUBSET Props /\ DOMAIN Messages[n] = 1 .. Len(Messages[n])
  BY <1>1, <1>3
<1>5. Only(poll.vals, Messages[n][poll.msg]) \in Vals
  BY <1>2, OnlyType
<1> QED
  BY <1>3, <1>4, <1>5 DEF Locked

LEMMA DeliverType ==
  ASSUME TypeOK, NEW n \in Nodes, sending[n] # <<>>,
         NEW S, S \subseteq DOMAIN sending[n][1]
  PROVE  /\ sending[n][1] \in Vals
         /\ Deliver(n, S) \in [Nodes -> [Props -> Val \cup {Unset}]]
         /\ \A m \in Nodes : m # n => Deliver(n, S)[m] = remote[m]
         /\ \A p \in Props : Deliver(n, S)[n][p] =
              IF p \in S THEN sending[n][1][p] ELSE remote[n][p]
<1>1. sending[n] \in Seq(Vals) /\ sending[n][1] \in Vals
  BY DEF TypeOK
<1>2. \A p \in S : sending[n][1][p] \in Val
  BY <1>1, ValsElim
<1>3. remote \in [Nodes -> [Props -> Val \cup {Unset}]]
  BY DEF TypeOK
<1>4. [p \in Props |-> IF p \in S THEN sending[n][1][p] ELSE remote[n][p]]
        \in [Props -> Val \cup {Unset}]
  BY <1>2, <1>3
<1> QED
  BY <1>1, <1>3, <1>4 DEF Deliver

\* Types of poll after a cycle is started or a property is read.
LEMMA ReadType ==
  ASSUME TypeOK, NEW p \in Props, ReadValue(p)
  PROVE  /\ poll'.vals \in Vals
         /\ DOMAIN poll'.vals = DOMAIN poll.vals \cup {p}
         /\ poll'.vals[p] = local[p]
         /\ \A q \in DOMAIN poll.vals : q # p => poll'.vals[q] = poll.vals[q]
<1> DEFINE S == DOMAIN poll.vals \cup {p}
           f == [q \in S |-> IF q = p THEN local[p] ELSE poll.vals[q]]
<1>1. poll.vals \in Vals /\ local[p] \in Val
  BY DEF TypeOK, PollStates
<1>2. S \in SUBSET Props /\ f \in [S -> Val]
  BY <1>1, ValsElim
<1>3. poll'.vals = f
  BY DEF ReadValue, TypeOK, PollStates
<1>4. f \in Vals /\ DOMAIN f = S
  BY <1>2, ValsIntro
<1> QED
  BY <1>3, <1>4

LEMMA TypeStep ==
  ASSUME TypeOK, PollShape, [Next]_vars
  PROVE  TypeOK' /\ PollShape'
<1> USE NodeAssumption, BoundAssumption
<1>1. CASE \E p \in Props, v \in Values : WriteLocal(p, v)
  <2> PICK p \in Props, v \in Values : WriteLocal(p, v)
    BY <1>1
  <2>1. [value |-> v, timestamp |-> clock + 1] \in Val
    BY DEF WriteLocal, TypeOK, Val
  <2> QED
    BY <2>1 DEF WriteLocal, TypeOK, PollShape
<1>2. CASE StartPoll
  BY <1>2, IdleType DEF StartPoll, TypeOK, PollShape, Idle, PollStates
<1>3. CASE \E p \in Props : ReadValue(p)
  <2> PICK p \in Props : ReadValue(p)
    BY <1>3
  <2>1. poll' \in PollStates
    BY ReadType DEF ReadValue, TypeOK, PollStates
  <2> QED
    BY <2>1 DEF ReadValue, TypeOK, PollShape
<1>4. CASE \E p \in Props : ReadFails(p)
  <2> PICK p \in Props : ReadFails(p)
    BY <1>4
  <2>1. poll' \in PollStates /\ poll'.pc = "reading" /\ poll'.msg = poll.msg
    BY DEF ReadFails, TypeOK, PollStates
  <2>2. readFaults' \in 0 .. MaxReadFaults
    BY DEF ReadFails, TypeOK
  <2> QED
    BY <2>1, <2>2 DEF ReadFails, TypeOK, PollShape
<1>5. CASE SkipCycle
  BY <1>5, IdleType DEF SkipCycle, TypeOK, PollShape, Idle
<1>6. CASE CollectChanges
  <2>1. Changed(poll.vals) \subseteq DOMAIN poll.vals /\ poll.vals \in Vals
    BY DEF Changed, TypeOK, PollStates
  <2>2. /\ \A p \in Changed(poll.vals) : poll.vals[p] \in Val
        /\ Only(poll.vals, Changed(poll.vals)) \in Vals
    BY <2>1, ValsElim, OnlyType
  <2>3. mPreviousValues' \in [Props -> Val \cup {Unset}]
    BY <1>6, <2>2 DEF CollectChanges, TypeOK
  <2>4. poll' \in PollStates
    <3>1. CASE poll' = Idle
      BY <3>1, IdleType
    <3>2. CASE /\ NodeCount # 0
               /\ poll' = [poll EXCEPT !.pc = "forwarding", !.node = 1,
                              !.vals = Only(@, Changed(poll.vals))]
      <4>1. 1 \in 0 .. NodeCount /\ poll \in PollStates
        BY <3>2 DEF TypeOK
      <4> QED
        BY <3>2, <4>1, <2>2 DEF PollStates
    <3> QED
      BY <1>6, <3>1, <3>2 DEF CollectChanges
  <2>5. PollShape'
    <3>1. NodeCount # 0 => 1 \in Nodes /\ Len(Messages[1]) \in Nat
      BY MessageAssumption DEF Nodes
    <3> QED
      BY <1>6, <3>1 DEF CollectChanges, PollShape, TypeOK, Idle, PollStates
  <2> QED
    BY <1>6, <2>3, <2>4, <2>5 DEF CollectChanges, TypeOK
<1>7. CASE \E n \in Nodes : Forward(n)
  <2> PICK n \in Nodes : Forward(n)
    BY <1>7
  <2>1. poll.pc = "forwarding" /\ poll.node = n
    BY DEF Forward
  <2>2. DOMAIN poll.vals \cap PropIds(n) # {} => Len(Messages[n]) >= 1
    <3>1. Messages[n] \in Seq(SUBSET Props)
      BY MessageAssumption
    <3> QED
      BY <3>1 DEF PropIds
  <2>3. \A m \in Nodes : Len(Messages[m]) \in Nat
    BY MessageAssumption
  <2>4. /\ NextNode(n) \in PollStates /\ NextNode(n).msg = 0
        /\ NextNode(n).pc = "forwarding" => NextNode(n).node \in Nodes
    BY <2>1, NextNodeType
  <2>5. CASE poll' = NextNode(n)
    <3>1. TypeOK'
      BY <2>4, <2>5 DEF Forward, TypeOK
    <3>2. PollShape'
      <4>1. poll'.msg = 0 /\ (poll'.pc = "forwarding" => poll'.node \in Nodes)
        BY <2>4, <2>5
      <4>2. \A m \in Nodes : 0 \in 0 .. Len(Messages[m])
        BY <2>3
      <4>3. sending' = sending
        BY DEF Forward
      <4> QED
        BY <4>1, <4>2, <4>3 DEF PollShape
    <3> QED
      BY <3>1, <3>2
  <2>6. CASE /\ DOMAIN poll.vals \cap PropIds(n) # {}
             /\ poll' = [poll EXCEPT !.msg = 1]
    <3>1. /\ poll' \in PollStates /\ poll'.msg = 1
          /\ poll'.pc = "forwarding" /\ poll'.node = n
      BY <2>1, <2>6 DEF TypeOK, PollStates
    <3>2. TypeOK'
      BY <3>1 DEF Forward, TypeOK
    <3>3. PollShape'
      BY <2>2, <2>3, <2>6, <3>1 DEF Forward, PollShape
    <3> QED
      BY <3>2, <3>3
  <2> QED
    BY <2>5, <2>6 DEF Forward
<1>8. CASE \E n \in Nodes : EnqueueBatch(n)
  <2> PICK n \in Nodes : EnqueueBatch(n)
    BY <1>8
  <2> DEFINE batch == Only(poll.vals, Messages[n][poll.msg])
  <2>1. /\ poll.pc = "forwarding" /\ poll.node = n
        /\ poll.msg \in 1 .. Len(Messages[n])
        /\ batch \in Vals
    BY EnqueueType DEF EnqueueBatch
  <2>2. mQueue' \in [Nodes -> Seq(Vals)]
    <3>1. Append(mQueue[n], batch) \in Seq(Vals)
      BY <2>1 DEF TypeOK
    <3> QED
      BY <3>1 DEF EnqueueBatch, TypeOK
  <2>3. \A m \in Nodes : Len(Messages[m]) \in Nat
    BY MessageAssumption
  <2>4. /\ NextNode(n) \in PollStates /\ NextNode(n).msg = 0
        /\ NextNode(n).pc = "forwarding" => NextNode(n).node \in Nodes
    BY <2>1, NextNodeType
  <2>5. CASE poll' = NextNode(n)
    <3>1. TypeOK'
      BY <2>2, <2>4, <2>5 DEF EnqueueBatch, TypeOK
    <3>2. PollShape'
      <4>1. poll'.msg = 0 /\ (poll'.pc = "forwarding" => poll'.node \in Nodes)
        BY <2>4, <2>5
      <4>2. \A m \in Nodes : 0 \in 0 .. Len(Messages[m])
        BY <2>3
      <4>3. sending' = sending
        BY DEF EnqueueBatch
      <4> QED
        BY <4>1, <4>2, <4>3 DEF PollShape
    <3> QED
      BY <3>1, <3>2
  <2>6. CASE /\ poll.msg # Len(Messages[n])
             /\ poll' = [poll EXCEPT !.msg = @ + 1]
    <3>1. /\ poll' \in PollStates /\ poll'.msg = poll.msg + 1
          /\ poll'.pc = "forwarding" /\ poll'.node = n
      <4>1. poll.msg + 1 \in Nat /\ poll \in PollStates
        BY DEF TypeOK, PollStates
      <4> QED
        BY <2>1, <2>6, <4>1 DEF PollStates
    <3>2. TypeOK'
      BY <2>2, <3>1 DEF EnqueueBatch, TypeOK
    <3>3. PollShape'
      BY <2>1, <2>3, <2>6, <3>1 DEF EnqueueBatch, PollShape
    <3> QED
      BY <3>2, <3>3
  <2> QED
    BY <2>5, <2>6 DEF EnqueueBatch
<1>9. CASE \E n \in Nodes : TakeBatch(n)
  <2> PICK n \in Nodes : TakeBatch(n)
    BY <1>9
  <2>1. /\ mQueue[n] \in Seq(Vals) /\ mQueue[n] # <<>>
        /\ Head(mQueue[n]) \in Vals /\ Tail(mQueue[n]) \in Seq(Vals)
    BY DEF TakeBatch, TypeOK
  <2>2. <<Head(mQueue[n])>> \in Seq(Vals) /\ Len(<<Head(mQueue[n])>>) = 1
    BY <2>1
  <2> QED
    BY <2>1, <2>2 DEF TakeBatch, TypeOK, PollShape
<1>10. CASE \E n \in Nodes : SendSucceeds(n)
  <2> PICK n \in Nodes : SendSucceeds(n)
    BY <1>10
  <2>1. remote' \in [Nodes -> [Props -> Val \cup {Unset}]]
    BY DeliverType DEF SendSucceeds
  <2> QED
    BY <2>1 DEF SendSucceeds, TypeOK, PollShape
<1>11. CASE \E n \in Nodes, S \in SUBSET Props : SendFails(n, S)
  <2> PICK n \in Nodes, S \in SUBSET Props : SendFails(n, S)
    BY <1>11
  <2>1. remote' \in [Nodes -> [Props -> Val \cup {Unset}]]
    BY DeliverType DEF SendFails
  <2>2. sendFaults' \in 0 .. MaxSendFaults
    BY DEF SendFails, TypeOK
  <2>3. TypeOK'
    <3>1. sending' \in [Nodes -> Seq(Vals)]
      BY DEF SendFails, TypeOK
    <3>2. UNCHANGED <<clock, local, mPreviousValues, poll, mQueue, readFaults>>
      BY DEF SendFails
    <3> QED
      BY <2>1, <2>2, <3>1, <3>2 DEF TypeOK
  <2>4. PollShape'
    BY DEF SendFails, TypeOK, PollShape
  <2> QED
    BY <2>3, <2>4
<1>12. CASE UNCHANGED vars
  BY <1>12 DEF vars, TypeOK, PollShape
<1> QED
  BY <1>1, <1>2, <1>3, <1>4, <1>5, <1>6, <1>7, <1>8, <1>9, <1>10, <1>11, <1>12
  DEF Next, PollThread, Worker, Environment

LEMMA TypeInit == Init => TypeOK /\ PollShape
<1> SUFFICES ASSUME Init PROVE TypeOK /\ PollShape
  OBVIOUS
<1>1. local \in [Props -> Val]
  BY BoundAssumption DEF Init, Val
<1> QED
  BY <1>1, IdleType, BoundAssumption DEF Init, TypeOK, PollShape, Idle

\* The variables keep their types: in particular poll.node and poll.msg never
\* leave the configured nodes and message groups (pollOnce, forward).
THEOREM GatewayTypeCorrect == Spec => [](TypeOK /\ PollShape)
<1>1. Init => TypeOK /\ PollShape
  BY TypeInit
<1>2. TypeOK /\ PollShape /\ [Next]_vars => (TypeOK /\ PollShape)'
  BY TypeStep
<1> QED
  BY <1>1, <1>2, PTL DEF Spec

-----------------------------------------------------------------------------
(* A remote node never goes back *)

\* w is not older than v.
Upto(v, w) == v # Unset => (w # Unset /\ v.timestamp <= w.timestamp)

LEMMA UptoRefl ==
  ASSUME NEW v \in Val \cup {Unset} PROVE Upto(v, v)
BY ValType DEF Upto

LEMMA UptoTrans ==
  ASSUME NEW u \in Val \cup {Unset}, NEW v \in Val \cup {Unset},
         NEW w \in Val \cup {Unset}, Upto(u, v), Upto(v, w)
  PROVE  Upto(u, w)
BY ValType DEF Upto

\* What pollOnce remembers, has read and could read now is in this order.
ReadOrder(p) ==
  /\ local[p].timestamp <= clock
  /\ Upto(mPreviousValues[p], local[p])
  /\ p \in DOMAIN poll.vals =>
       /\ Upto(poll.vals[p], local[p])
       /\ poll.pc = "reading" => Upto(mPreviousValues[p], poll.vals[p])
       /\ poll.pc = "forwarding" => poll.vals[p] = mPreviousValues[p]

\* The worker of node n is busy with a value of property p.
SendingOf(n, p) == sending[n] # <<>> /\ p \in DOMAIN sending[n][1]

\* remote, the batch being sent, the queue from front to back, and
\* mPreviousValues hold values of p from older to newer.
PipeOrder(n, p) ==
  /\ Upto(remote[n][p], mPreviousValues[p])
  /\ SendingOf(n, p) => /\ Upto(remote[n][p], sending[n][1][p])
                        /\ Upto(sending[n][1][p], mPreviousValues[p])
  /\ \A i \in DOMAIN mQueue[n] : p \in DOMAIN mQueue[n][i] =>
       /\ Upto(remote[n][p], mQueue[n][i][p])
       /\ Upto(mQueue[n][i][p], mPreviousValues[p])
       /\ SendingOf(n, p) => Upto(sending[n][1][p], mQueue[n][i][p])
       /\ \A j \in DOMAIN mQueue[n] :
            j > i /\ p \in DOMAIN mQueue[n][j] =>
              Upto(mQueue[n][i][p], mQueue[n][j][p])

OrderInv == \A p \in Props : /\ ReadOrder(p)
                             /\ \A n \in Nodes : PipeOrder(n, p)

\* The values a pipeline carries are values.
LEMMA PipeTypes ==
  ASSUME TypeOK, NEW n \in Nodes, NEW p \in Props
  PROVE  /\ remote[n][p] \in Val \cup {Unset}
         /\ mPreviousValues[p] \in Val \cup {Unset}
         /\ local[p] \in Val
         /\ p \in DOMAIN poll.vals => poll.vals[p] \in Val
         /\ SendingOf(n, p) => sending[n][1][p] \in Val
         /\ \A i \in DOMAIN mQueue[n] :
              p \in DOMAIN mQueue[n][i] => mQueue[n][i][p] \in Val
<1>1. poll.vals \in Vals
  BY DEF TypeOK, PollStates
<1>2. sending[n] # <<>> => sending[n][1] \in Vals
  BY DEF TypeOK
<1>3. \A i \in DOMAIN mQueue[n] : mQueue[n][i] \in Vals
  <2>1. mQueue[n] \in Seq(Vals)
    BY DEF TypeOK
  <2> QED
    BY <2>1
<1>4. \A f \in Vals : p \in DOMAIN f => f[p] \in Val
  BY ValsElim
<1>5. /\ remote[n][p] \in Val \cup {Unset}
      /\ mPreviousValues[p] \in Val \cup {Unset}
      /\ local[p] \in Val
  BY DEF TypeOK
<1> QED
  BY <1>1, <1>2, <1>3, <1>4, <1>5 DEF SendingOf

\* Newer values in mPreviousValues leave a pipeline in order.
LEMMA PipeKept ==
  ASSUME TypeOK, TypeOK', NEW n \in Nodes, NEW p \in Props, PipeOrder(n, p),
         remote'[n][p] = remote[n][p],
         sending'[n] = sending[n], mQueue'[n] = mQueue[n],
         Upto(mPreviousValues[p], mPreviousValues'[p])
  PROVE  PipeOrder(n, p)'
<1> DEFINE old == mPreviousValues[p]
           new == mPreviousValues'[p]
<1>1. old \in Val \cup {Unset} /\ new \in Val \cup {Unset}
  BY DEF TypeOK
<1>2. \A v \in Val \cup {Unset} : Upto(v, old) => Upto(v, new)
  BY <1>1, UptoTrans
<1>3. SendingOf(n, p)' <=> SendingOf(n, p)
  BY DEF SendingOf
<1> QED
  BY <1>2, <1>3, PipeTypes DEF PipeOrder

LEMMA PipeEnqueue ==
  ASSUME TypeOK, PollShape, OrderInv, NEW n \in Nodes, EnqueueBatch(n),
         NEW p \in Props
  PROVE  PipeOrder(n, p)'
<1> DEFINE batch == Only(poll.vals, Messages[n][poll.msg])
           q == mQueue[n]
           old == mPreviousValues[p]
<1>1. /\ poll.pc = "forwarding" /\ batch \in Vals /\ poll.vals \in Vals
      /\ mPreviousValues' = mPreviousValues /\ remote' = remote
      /\ sending' = sending
  BY EnqueueType DEF EnqueueBatch, TypeOK, PollStates
<1>2. p \in DOMAIN batch => batch[p] = old
  <2>1. p \in DOMAIN batch => p \in DOMAIN poll.vals /\ batch[p] = poll.vals[p]
    BY <1>1 DEF Only
  <2> QED
    BY <1>1, <2>1 DEF OrderInv, ReadOrder
<1>3. SendingOf(n, p)' <=> SendingOf(n, p)
  BY <1>1 DEF SendingOf
<1>4. PipeOrder(n, p)
  BY DEF OrderInv
<1>5. CASE mQueue' = mQueue
  BY <1>1, <1>3, <1>4, <1>5 DEF PipeOrder
<1>6. CASE mQueue' = [mQueue EXCEPT ![n] = Append(@, batch)]
  <2>1. /\ q \in Seq(Vals) /\ mQueue'[n] = Append(q, batch)
    BY <1>6 DEF TypeOK
  <2>2. /\ DOMAIN q = 1 .. Len(q) /\ Len(q) \in Nat
        /\ DOMAIN mQueue'[n] = 1 .. Len(q) + 1
        /\ \A i \in 1 .. Len(q) : mQueue'[n][i] = q[i]
        /\ mQueue'[n][Len(q) + 1] = batch
    BY <1>1, <2>1
  <2>3. \A i \in DOMAIN mQueue'[n] : p \in DOMAIN mQueue'[n][i] =>
          /\ Upto(remote[n][p], mQueue'[n][i][p])
          /\ Upto(mQueue'[n][i][p], old)
          /\ SendingOf(n, p) => Upto(sending[n][1][p], mQueue'[n][i][p])
    <3> TAKE i \in DOMAIN mQueue'[n]
    <3>1. CASE i \in 1 .. Len(q)
      BY <1>4, <2>2, <3>1 DEF PipeOrder
    <3>2. CASE i = Len(q) + 1
      BY <1>2, <1>4, <2>2, <3>2, PipeTypes, UptoRefl DEF PipeOrder
    <3> QED
      BY <2>2, <3>1, <3>2
  <2>4. \A i, j \in DOMAIN mQueue'[n] :
          /\ j > i
          /\ p \in DOMAIN mQueue'[n][i] /\ p \in DOMAIN mQueue'[n][j]
          => Upto(mQueue'[n][i][p], mQueue'[n][j][p])
    <3> TAKE i, j \in DOMAIN mQueue'[n]
    <3> HAVE /\ j > i
             /\ p \in DOMAIN mQueue'[n][i] /\ p \in DOMAIN mQueue'[n][j]
    <3>1. i \in 1 .. Len(q)
      BY <2>2
    <3>2. CASE j \in 1 .. Len(q)
      BY <1>4, <2>2, <3>1, <3>2 DEF PipeOrder
    <3>3. CASE j = Len(q) + 1
      BY <1>2, <1>4, <2>2, <3>1, <3>3 DEF PipeOrder
    <3> QED
      BY <2>2, <3>2, <3>3
  <2> QED
    BY <1>1, <1>3, <1>4, <2>3, <2>4 DEF PipeOrder
<1> QED
  BY <1>5, <1>6 DEF EnqueueBatch

LEMMA PipeTake ==
  ASSUME TypeOK, NEW n \in Nodes, TakeBatch(n), NEW p \in Props,
         PipeOrder(n, p)
  PROVE  PipeOrder(n, p)'
<1> DEFINE q == mQueue[n]
<1>1. /\ mPreviousValues' = mPreviousValues /\ remote' = remote
      /\ q \in Seq(Vals) /\ q # <<>>
      /\ sending'[n] = <<Head(q)>> /\ mQueue'[n] = Tail(q)
  BY DEF TakeBatch, TypeOK
<1>2. /\ DOMAIN q = 1 .. Len(q) /\ Len(q) \in Nat /\ 1 \in DOMAIN q
      /\ DOMAIN mQueue'[n] = 1 .. Len(q) - 1
      /\ \A i \in 1 .. Len(q) - 1 : mQueue'[n][i] = q[i + 1]
      /\ sending'[n][1] = q[1] /\ sending'[n] # <<>>
  BY <1>1
<1>3. SendingOf(n, p)' <=> p \in DOMAIN q[1]
  BY <1>2 DEF SendingOf
<1>4. \A i \in DOMAIN mQueue'[n] :
        i + 1 \in DOMAIN q /\ i + 1 > 1 /\ mQueue'[n][i] = q[i + 1]
  BY <1>2
<1>5. \A i, j \in DOMAIN mQueue'[n] : j > i => j + 1 > i + 1
  BY <1>2
<1> HIDE DEF q
<1> QED
  BY <1>1, <1>2, <1>3, <1>4, <1>5 DEF PipeOrder, q

LEMMA PipeDeliver ==
  ASSUME TypeOK, NEW n \in Nodes, sending[n] # <<>>,
         NEW S, S \subseteq DOMAIN sending[n][1],
         remote' = Deliver(n, S), sending' = [sending EXCEPT ![n] = <<>>],
         mQueue' = mQueue, mPreviousValues' = mPreviousValues,
         NEW m \in Nodes, NEW p \in Props, PipeOrder(m, p)
  PROVE  /\ PipeOrder(m, p)'
         /\ Upto(remote[m][p], remote'[m][p])
<1>1. CASE m # n
  <2>1. remote'[m] = remote[m] /\ sending'[m] = sending[m]
    <3>1. remote'[m] = remote[m]
      BY <1>1, DeliverType
    <3>2. sending'[m] = sending[m]
      BY <1>1 DEF TypeOK
    <3> QED
      BY <3>1, <3>2
  <2>2. SendingOf(m, p)' <=> SendingOf(m, p)
    BY <2>1 DEF SendingOf
  <2> QED
    BY <2>1, <2>2, PipeTypes, UptoRefl DEF PipeOrder
<1>2. CASE m = n
  <2>1. remote'[n][p] = IF p \in S THEN sending[n][1][p] ELSE remote[n][p]
    BY DeliverType
  <2>2. p \in S => SendingOf(n, p)
    BY DEF SendingOf
  <2>3. sending'[n] = <<>> /\ ~SendingOf(n, p)'
    BY DEF SendingOf, TypeOK
  <2>4. CASE p \in S
    BY <1>2, <2>1, <2>2, <2>3, <2>4 DEF PipeOrder
  <2>5. CASE p \notin S
    BY <1>2, <2>1, <2>3, <2>5, PipeTypes, UptoRefl DEF PipeOrder
  <2> QED
    BY <2>4, <2>5
<1> QED
  BY <1>1, <1>2

\* pollOnce only ever remembers something newer.
LEMMA CollectOrder ==
  ASSUME TypeOK, OrderInv, CollectChanges, NEW p \in Props
  PROVE  /\ Upto(mPreviousValues[p], mPreviousValues'[p])
         /\ ReadOrder(p)'
<1> DEFINE changed == Changed(poll.vals)
<1>1. /\ poll.pc = "reading" /\ poll.vals \in Vals
      /\ local' = local /\ clock' = clock
      /\ mPreviousValues'[p] = IF p \in changed THEN poll.vals[p]
                                                ELSE mPreviousValues[p]
      /\ changed \subseteq DOMAIN poll.vals
  BY DEF CollectChanges, TypeOK, PollStates, Changed
<1>2. ReadOrder(p) /\ mPreviousValues[p] \in Val \cup {Unset}
  BY DEF OrderInv, TypeOK
<1>3. Upto(mPreviousValues[p], mPreviousValues'[p])
  BY <1>1, <1>2, UptoRefl DEF ReadOrder
<1>4. Upto(mPreviousValues'[p], local'[p]) /\ local'[p].timestamp <= clock'
  BY <1>1, <1>2 DEF ReadOrder
<1>5. CASE poll' = Idle
  <2>1. p \notin DOMAIN poll'.vals
    BY <1>5, NoValsType DEF Idle
  <2> QED
    BY <1>3, <1>4, <2>1 DEF ReadOrder
<1>6. CASE poll' = [poll EXCEPT !.pc = "forwarding", !.node = 1,
                                !.vals = Only(@, changed)]
  <2>1. poll'.vals = Only(poll.vals, changed) /\ poll'.pc = "forwarding"
    BY <1>6 DEF TypeOK, PollStates
  <2>2. p \in DOMAIN poll'.vals =>
          p \in changed /\ p \in DOMAIN poll.vals /\ poll'.vals[p] = poll.vals[p]
    BY <2>1 DEF Only
  <2> QED
    BY <1>1, <1>2, <1>3, <1>4, <2>1, <2>2 DEF ReadOrder
<1> QED
  BY <1>5, <1>6 DEF CollectChanges

\* The other steps of the poll thread keep what it holds or drop it.
LEMMA ReadKept ==
  ASSUME OrderInv, NEW p \in Props,
         UNCHANGED <<clock, local, mPreviousValues>>,
         \/ poll' = poll
         \/ DOMAIN poll'.vals = {}
         \/ poll'.pc = poll.pc /\ poll'.vals = poll.vals
  PROVE  ReadOrder(p)'
BY DEF OrderInv, ReadOrder

LEMMA OrderStep ==
  ASSUME TypeOK, PollShape, OrderInv, TypeOK', [Next]_vars
  PROVE  /\ OrderInv'
         /\ \A n \in Nodes, p \in Props : Upto(remote[n][p], remote'[n][p])
<1>0. \A p \in Props : Upto(mPreviousValues[p], mPreviousValues[p])
  BY UptoRefl DEF TypeOK
<1>r. \A n \in Nodes, p \in Props : Upto(remote[n][p], remote[n][p])
  BY UptoRefl, PipeTypes
<1>p. ASSUME UNCHANGED <<mPreviousValues, mQueue, sending, remote>>
      PROVE  \A p \in Props, n \in Nodes : PipeOrder(n, p)'
  BY <1>0, <1>p, PipeKept DEF OrderInv
<1>1. CASE \E p \in Props, v \in Values : WriteLocal(p, v)
  <2> PICK p \in Props, v \in Values : WriteLocal(p, v)
    BY <1>1
  <2>1. UNCHANGED <<mPreviousValues, mQueue, sending, remote, poll>>
    BY DEF WriteLocal
  <2>2. ASSUME NEW q \in Props PROVE ReadOrder(q)'
    <3>1. /\ clock \in Int /\ clock' = clock + 1
          /\ local[q] \in Val /\ local'[q] \in Val
          /\ mPreviousValues[q] \in Val \cup {Unset}
      BY DEF WriteLocal, TypeOK
    <3>2. local'[q].timestamp <= clock' /\ Upto(local[q], local'[q])
      <4>1. local[q].timestamp <= clock /\ local[q].timestamp \in Int
        BY <3>1, ValType DEF OrderInv, ReadOrder
      <4>2. CASE q = p
        <5>1. local'[q].timestamp = clock + 1
          BY <4>2 DEF WriteLocal, TypeOK
        <5> QED
          BY <3>1, <4>1, <5>1, ValType DEF Upto
      <4>3. CASE q # p
        BY <3>1, <4>1, <4>3, UptoRefl DEF WriteLocal, TypeOK
      <4> QED
        BY <4>2, <4>3
    <3>3. \A v_1 \in Val \cup {Unset} : Upto(v_1, local[q]) => Upto(v_1, local'[q])
      BY <3>1, <3>2, UptoTrans
    <3>4. q \in DOMAIN poll.vals => poll.vals[q] \in Val
      BY ValsElim DEF TypeOK, PollStates
    <3> QED
      BY <2>1, <3>1, <3>2, <3>3, <3>4 DEF OrderInv, ReadOrder
  <2> QED
    BY <2>1, <2>2, <1>p, <1>r DEF OrderInv
<1>2. CASE \/ StartPoll \/ SkipCycle
           \/ \E p \in Props : ReadFails(p)
  <2>1. UNCHANGED <<clock, local, mPreviousValues, mQueue, sending, remote>>
    BY <1>2 DEF StartPoll, SkipCycle, ReadFails
  <2>2. \/ DOMAIN poll'.vals = {}
        \/ poll'.pc = poll.pc /\ poll'.vals = poll.vals
    <3>1. CASE StartPoll
      BY <3>1, NoValsType DEF StartPoll, Idle
    <3>2. CASE SkipCycle
      BY <3>2, NoValsType DEF SkipCycle, Idle
    <3>3. CASE \E p \in Props : ReadFails(p)
      BY <3>3 DEF ReadFails, TypeOK, PollStates
    <3> QED
      BY <1>2, <3>1, <3>2, <3>3
  <2>3. \A p \in Props : ReadOrder(p)'
    BY <2>1, <2>2, ReadKept
  <2> QED
    BY <2>1, <2>3, <1>p, <1>r DEF OrderInv
<1>3. CASE \E p \in Props : ReadValue(p)
  <2> PICK p \in Props : ReadValue(p)
    BY <1>3
  <2>1. /\ UNCHANGED <<clock, local, mPreviousValues, mQueue, sending, remote>>
        /\ poll.pc = "reading" /\ poll'.pc = "reading"
    BY DEF ReadValue, TypeOK, PollStates
  <2>2. ASSUME NEW q \in Props PROVE ReadOrder(q)'
    BY <2>1, ReadType, UptoRefl DEF OrderInv, ReadOrder, TypeOK
  <2> QED
    BY <2>1, <2>2, <1>p, <1>r DEF OrderInv
<1>4. CASE CollectChanges
  <2>1. UNCHANGED <<mQueue, sending, remote>>
    BY <1>4 DEF CollectChanges
  <2>2. \A p \in Props : /\ Upto(mPreviousValues[p], mPreviousValues'[p])
                         /\ ReadOrder(p)'
    BY <1>4, CollectOrder
  <2>3. \A p \in Props, n \in Nodes : PipeOrder(n, p)'
    BY <2>1, <2>2, PipeKept DEF OrderInv
  <2> QED
    BY <2>1, <2>2, <2>3, <1>r DEF OrderInv
<1>5. CASE \E n \in Nodes : Forward(n)
  <2> PICK n \in Nodes : Forward(n)
    BY <1>5
  <2>1. UNCHANGED <<clock, local, mPreviousValues, mQueue, sending, remote>>
    BY DEF Forward
  <2>2. \/ DOMAIN poll'.vals = {}
        \/ poll'.pc = poll.pc /\ poll'.vals = poll.vals
    BY NoValsType DEF Forward, NextNode, Idle, TypeOK, PollStates
  <2>3. \A p \in Props : ReadOrder(p)'
    BY <2>1, <2>2, ReadKept
  <2> QED
    BY <2>1, <2>3, <1>p, <1>r DEF OrderInv
<1>6. CASE \E n \in Nodes : EnqueueBatch(n)
  <2> PICK n \in Nodes : EnqueueBatch(n)
    BY <1>6
  <2>1. UNCHANGED <<clock, local, mPreviousValues, sending, remote>>
    BY DEF EnqueueBatch
  <2>2. \/ DOMAIN poll'.vals = {}
        \/ poll'.pc = poll.pc /\ poll'.vals = poll.vals
    BY NoValsType DEF EnqueueBatch, NextNode, Idle, TypeOK, PollStates
  <2>3. \A p \in Props : ReadOrder(p)'
    BY <2>1, <2>2, ReadKept
  <2>4. ASSUME NEW m \in Nodes, NEW p \in Props PROVE PipeOrder(m, p)'
    <3>1. CASE m = n
      BY <3>1, PipeEnqueue
    <3>2. CASE m # n
      <4>1. mQueue'[m] = mQueue[m]
        BY <3>2 DEF EnqueueBatch, TypeOK
      <4> QED
        BY <2>1, <4>1, <1>0, PipeKept DEF OrderInv
    <3> QED
      BY <3>1, <3>2
  <2> QED
    BY <2>1, <2>3, <2>4, <1>r DEF OrderInv
<1>7. CASE \E n \in Nodes : TakeBatch(n)
  <2> PICK n \in Nodes : TakeBatch(n)
    BY <1>7
  <2>1. UNCHANGED <<clock, local, mPreviousValues, poll, remote>>
    BY DEF TakeBatch
  <2>2. \A p \in Props : ReadOrder(p)'
    BY <2>1, ReadKept
  <2>3. ASSUME NEW m \in Nodes, NEW p \in Props PROVE PipeOrder(m, p)'
    <3>1. CASE m = n
      BY <3>1, PipeTake DEF OrderInv
    <3>2. CASE m # n
      <4>1. mQueue'[m] = mQueue[m] /\ sending'[m] = sending[m]
        BY <3>2 DEF TakeBatch, TypeOK
      <4> QED
        BY <2>1, <4>1, <1>0, PipeKept DEF OrderInv
    <3> QED
      BY <3>1, <3>2
  <2> QED
    BY <2>1, <2>2, <2>3, <1>r DEF OrderInv
<1>8. CASE \/ \E n \in Nodes : SendSucceeds(n)
           \/ \E n \in Nodes, S \in SUBSET Props : SendFails(n, S)
  <2>1. PICK n, S :
          /\ n \in Nodes
          /\ sending[n] # <<>> /\ S \subseteq DOMAIN sending[n][1]
          /\ remote' = Deliver(n, S)
          /\ sending' = [sending EXCEPT ![n] = <<>>]
          /\ UNCHANGED <<clock, local, mPreviousValues, poll, mQueue>>
    BY <1>8 DEF SendSucceeds, SendFails
  <2>2. \A p \in Props : ReadOrder(p)'
    BY <2>1, ReadKept
  <2>3. ASSUME NEW m \in Nodes, NEW p \in Props
        PROVE  PipeOrder(m, p)' /\ Upto(remote[m][p], remote'[m][p])
    <3>1. PipeOrder(m, p)
      BY DEF OrderInv
    <3> QED
      BY <2>1, <3>1, PipeDeliver
  <2> QED
    BY <2>2, <2>3 DEF OrderInv
<1>9. CASE UNCHANGED vars
  <2>1. UNCHANGED <<clock, local, mPreviousValues, poll, mQueue, sending, remote>>
    BY <1>9 DEF vars
  <2>2. \A p \in Props : ReadOrder(p)'
    BY <2>1, ReadKept
  <2> QED
    BY <2>1, <2>2, <1>p, <1>r DEF OrderInv
<1> QED
  BY <1>1, <1>2, <1>3, <1>4, <1>5, <1>6, <1>7, <1>8, <1>9
  DEF Next, PollThread, Worker, Environment

LEMMA OrderInit == Init => OrderInv
<1> SUFFICES ASSUME Init, NEW p \in Props
             PROVE  ReadOrder(p) /\ \A n \in Nodes : PipeOrder(n, p)
  BY DEF OrderInv
<1>1. ReadOrder(p)
  BY NoValsType DEF Init, ReadOrder, Upto, Idle
<1>2. \A n \in Nodes : PipeOrder(n, p)
  BY DEF Init, PipeOrder, SendingOf, Upto
<1> QED
  BY <1>1, <1>2

\* A remote node never goes back to an older value, however polls and SetValues
\* calls fail and message groups overlap (pollOnce, forward, workerLoop).
THEOREM RemoteInOrder == Spec => RemoteNeverGoesBack
<1> DEFINE Inv == TypeOK /\ PollShape /\ OrderInv
<1>1. Init => Inv
  BY TypeInit, OrderInit
<1>2. Inv /\ [Next]_vars => Inv'
  BY TypeStep, OrderStep
<1>3. Inv /\ [Next]_vars =>
        [\A n \in Nodes, p \in Props : remote[n][p] # Unset =>
           /\ remote'[n][p] # Unset
           /\ remote'[n][p].timestamp >= remote[n][p].timestamp]_vars
  <2> SUFFICES ASSUME Inv, [Next]_vars, NEW n \in Nodes, NEW p \in Props,
                      remote[n][p] # Unset
               PROVE  /\ remote'[n][p] # Unset
                      /\ remote'[n][p].timestamp >= remote[n][p].timestamp
    OBVIOUS
  <2>1. Upto(remote[n][p], remote'[n][p]) /\ TypeOK'
    BY TypeStep, OrderStep
  <2>2. /\ remote[n][p] \in Val \cup {Unset}
        /\ remote'[n][p] \in Val \cup {Unset}
    BY <2>1 DEF TypeOK
  <2> QED
    BY <2>1, <2>2, ValType DEF Upto
<1> QED
  BY <1>1, <1>2, <1>3, PTL DEF Spec, RemoteNeverGoesBack

-----------------------------------------------------------------------------
(* No change is dropped on the way *)

LEMMA PropIdsType == \A n \in Nodes : PropIds(n) \subseteq Props
<1>1. \A n \in Nodes : Messages[n] \in Seq(SUBSET Props)
  BY MessageAssumption
<1> QED
  BY <1>1 DEF PropIds

\* p is still to be enqueued for the nodes behind the one that is done.
LEMMA StillNext ==
  ASSUME TypeOK, NEW m \in Nodes, poll.pc = "forwarding", poll.node = m,
         poll' = NextNode(m), NEW n \in Nodes, n > m,
         NEW p \in PropIds(n), p \in DOMAIN poll.vals
  PROVE  StillToEnqueue(n, p)' /\ poll'.vals = poll.vals
<1>1. m # NodeCount /\ m + 1 \in Nodes /\ m \in Int /\ n \in Int
  BY NodeAssumption DEF Nodes
<1>2. /\ poll'.pc = "forwarding" /\ poll'.node = m + 1 /\ poll'.msg = 0
      /\ poll'.vals = poll.vals
  BY <1>1 DEF NextNode, TypeOK, PollStates
<1>3. \E i \in DOMAIN Messages[n] : i >= 0 /\ p \in Messages[n][i]
  <2>1. Messages[n] \in Seq(SUBSET Props)
    BY MessageAssumption
  <2> QED
    BY <2>1 DEF PropIds
<1> QED
  BY <1>1, <1>2, <1>3 DEF StillToEnqueue

LEMMA StillInProps ==
  ASSUME NEW n \in Nodes, NEW p, StillToEnqueue(n, p)
  PROVE  p \in PropIds(n) /\ p \in DOMAIN poll.vals /\ poll.pc = "forwarding"
BY DEF StillToEnqueue, PropIds

\* A step that leaves the pipeline of node n alone and does not forget that
\* p is to be enqueued.
LEMMA LatestKept ==
  ASSUME NEW n \in Nodes, NEW p \in Props, LatestUnderWay(n, p),
         mPreviousValues'[p] = mPreviousValues[p], mQueue'[n] = mQueue[n],
         sending'[n] = sending[n], remote'[n][p] = remote[n][p],
         StillToEnqueue(n, p) =>
           StillToEnqueue(n, p)' /\ poll'.vals[p] = poll.vals[p]
  PROVE  LatestUnderWay(n, p)'
<1>1. \A i : NoneBehind(n, p, i) => NoneBehind(n, p, i)'
  BY DEF NoneBehind
<1> QED
  BY <1>1 DEF LatestUnderWay

LEMMA LatestForward ==
  ASSUME TypeOK, PollShape, NEW m \in Nodes, Forward(m),
         NEW n \in Nodes, NEW p \in PropIds(n), LatestUnderWay(n, p)
  PROVE  LatestUnderWay(n, p)'
<1>1. /\ poll.pc = "forwarding" /\ poll.node = m /\ poll.msg = 0
      /\ UNCHANGED <<mPreviousValues, mQueue, sending, remote>>
  BY DEF Forward
<1>2. m \in Int /\ n \in Int /\ p \in Props
  BY PropIdsType, NodeAssumption DEF Nodes
<1>3. ASSUME StillToEnqueue(n, p)
      PROVE  StillToEnqueue(n, p)' /\ poll'.vals = poll.vals
  <2>1. p \in DOMAIN poll.vals /\ m <= n
    BY <1>1, <1>2, <1>3 DEF StillToEnqueue
  <2>2. CASE DOMAIN poll.vals \cap PropIds(m) = {}
    <3>1. poll' = NextNode(m) /\ n > m
      BY <1>2, <2>1, <2>2 DEF Forward
    <3> QED
      BY <1>1, <2>1, <3>1, StillNext
  <2>3. CASE DOMAIN poll.vals \cap PropIds(m) # {}
    <3>1. /\ poll'.pc = "forwarding" /\ poll'.node = m /\ poll'.msg = 1
          /\ poll'.vals = poll.vals
      BY <1>1, <2>3 DEF Forward, TypeOK, PollStates
    <3>2. \A i \in DOMAIN Messages[n] : i >= 1
      <4>1. Messages[n] \in Seq(SUBSET Props)
        BY MessageAssumption
      <4> QED
        BY <4>1
    <3> QED
      BY <1>1, <1>3, <3>1, <3>2 DEF StillToEnqueue
  <2> QED
    BY <2>2, <2>3
<1> QED
  BY <1>1, <1>2, <1>3, LatestKept

LEMMA LatestEnqueue ==
  ASSUME TypeOK, PollShape, OrderInv, NEW m \in Nodes, EnqueueBatch(m),
         NEW n \in Nodes, NEW p \in PropIds(n), LatestUnderWay(n, p)
  PROVE  LatestUnderWay(n, p)'
<1> DEFINE batch == Only(poll.vals, Messages[m][poll.msg])
           q == mQueue[m]
<1>1. /\ poll.pc = "forwarding" /\ poll.node = m
      /\ poll.msg \in 1 .. Len(Messages[m]) /\ Len(Messages[m]) \in Nat
      /\ DOMAIN Messages[m] = 1 .. Len(Messages[m])
      /\ batch \in Vals /\ q \in Seq(Vals)
      /\ UNCHANGED <<mPreviousValues, sending, remote>>
  <2>1. Messages[m] \in Seq(SUBSET Props)
    BY MessageAssumption
  <2>2. Len(Messages[m]) \in Nat /\ DOMAIN Messages[m] = 1 .. Len(Messages[m])
    BY <2>1
  <2>3. q \in Seq(Vals)
    BY DEF TypeOK
  <2> QED
    BY <2>2, <2>3, EnqueueType DEF EnqueueBatch
<1>2. m \in Int /\ n \in Int /\ p \in Props
  BY PropIdsType, NodeAssumption DEF Nodes
<1>3. CASE n # m
  <2>1. mQueue'[n] = mQueue[n]
    BY <1>3 DEF EnqueueBatch, TypeOK
  <2>2. ASSUME StillToEnqueue(n, p)
        PROVE  StillToEnqueue(n, p)' /\ poll'.vals = poll.vals
    <3>1. n > m /\ p \in DOMAIN poll.vals
      BY <1>1, <1>2, <1>3, <2>2 DEF StillToEnqueue
    <3>2. CASE poll' = NextNode(m)
      BY <1>1, <3>1, <3>2, StillNext
    <3>3. CASE poll' = [poll EXCEPT !.msg = @ + 1]
      <4>1. /\ poll'.pc = poll.pc /\ poll'.node = poll.node
            /\ poll'.vals = poll.vals
        BY <3>3 DEF TypeOK, PollStates
      <4> QED
        BY <1>1, <1>2, <2>2, <3>1, <4>1 DEF StillToEnqueue
    <3> QED
      BY <3>2, <3>3 DEF EnqueueBatch
  <2> QED
    BY <1>1, <1>2, <2>1, <2>2, LatestKept
<1>4. CASE n = m /\ p \in DOMAIN batch
  <2>1. /\ batch[p] = poll.vals[p] /\ p \in DOMAIN poll.vals
    BY <1>4 DEF Only
  <2>2. poll.vals[p] = mPreviousValues[p]
    BY <1>1, <1>2, <2>1 DEF OrderInv, ReadOrder
  <2>3. mQueue'[n] = Append(q, batch)
    BY <1>1, <1>4 DEF EnqueueBatch, TypeOK
  <2>4. PICK k \in Nat : DOMAIN mQueue'[n] = 1 .. k /\ k >= 1
                         /\ mQueue'[n][k] = batch
    BY <1>1, <2>3
  <2>5. NoneBehind(n, p, k)'
    BY <2>4 DEF NoneBehind
  <2>6. /\ k \in DOMAIN mQueue'[n] /\ p \in DOMAIN mQueue'[n][k]
        /\ mQueue'[n][k][p] = mPreviousValues'[p]
    BY <1>1, <1>4, <2>1, <2>2, <2>4
  <2> QED
    BY <2>5, <2>6 DEF LatestUnderWay
<1>5. CASE n = m /\ p \notin DOMAIN batch
  <2>1. ASSUME StillToEnqueue(n, p)
        PROVE  StillToEnqueue(n, p)' /\ poll'.vals = poll.vals
    <3>1. p \in DOMAIN poll.vals
      BY <2>1 DEF StillToEnqueue
    <3>2. p \notin Messages[m][poll.msg]
      BY <1>5, <3>1 DEF Only
    <3>3. PICK i \in DOMAIN Messages[n] : i >= poll.msg /\ p \in Messages[n][i]
      BY <1>1, <1>2, <1>5, <2>1 DEF StillToEnqueue
    <3>4. i >= poll.msg + 1 /\ poll.msg # Len(Messages[m])
      BY <1>1, <1>5, <3>2, <3>3
    <3>5. poll' = [poll EXCEPT !.msg = @ + 1]
      BY <3>4 DEF EnqueueBatch
    <3>6. /\ poll'.pc = "forwarding" /\ poll'.node = n
          /\ poll'.msg = poll.msg + 1 /\ poll'.vals = poll.vals
      BY <1>1, <1>5, <3>5 DEF TypeOK, PollStates
    <3> QED
      BY <3>1, <3>3, <3>4, <3>6 DEF StillToEnqueue
  <2>2. CASE mQueue' = mQueue
    BY <1>1, <1>2, <2>1, <2>2, LatestKept
  <2>3. CASE mQueue' = [mQueue EXCEPT ![m] = Append(@, batch)]
    <3>1. mQueue'[n] = Append(q, batch)
      BY <1>5, <2>3 DEF TypeOK
    <3>2. /\ DOMAIN q = 1 .. Len(q) /\ Len(q) \in Nat
          /\ DOMAIN mQueue'[n] = 1 .. Len(q) + 1
          /\ \A i \in DOMAIN q : mQueue'[n][i] = q[i] /\ i \in DOMAIN mQueue'[n]
          /\ mQueue'[n][Len(q) + 1] = batch
      BY <1>1, <3>1
    <3>3. \A i : NoneBehind(n, p, i) => NoneBehind(n, p, i)'
      BY <1>5, <3>2 DEF NoneBehind
    <3>4. \A i \in DOMAIN mQueue[n] :
            mQueue'[n][i] = mQueue[n][i] /\ i \in DOMAIN mQueue'[n]
      BY <1>5, <3>2
    <3> QED
      BY <1>1, <2>1, <3>3, <3>4 DEF LatestUnderWay
  <2> QED
    BY <2>2, <2>3 DEF EnqueueBatch
<1> QED
  BY <1>3, <1>4, <1>5

LEMMA LatestTake ==
  ASSUME TypeOK, NEW m \in Nodes, TakeBatch(m),
         NEW n \in Nodes, NEW p \in Props, LatestUnderWay(n, p)
  PROVE  LatestUnderWay(n, p)'
<1> DEFINE q == mQueue[n]
<1>1. UNCHANGED <<mPreviousValues, poll, remote>>
  BY DEF TakeBatch
<1>2. StillToEnqueue(n, p) => StillToEnqueue(n, p)'
  BY <1>1 DEF StillToEnqueue
<1>3. CASE n # m
  <2>1. mQueue'[n] = mQueue[n] /\ sending'[n] = sending[n]
    BY <1>3 DEF TakeBatch, TypeOK
  <2> QED
    BY <1>1, <1>2, <2>1, LatestKept
<1>4. CASE n = m
  <2>1. /\ q \in Seq(Vals) /\ q # <<>> /\ sending[n] = <<>>
        /\ sending'[n] = <<Head(q)>> /\ mQueue'[n] = Tail(q)
    BY <1>4 DEF TakeBatch, TypeOK
  <2>2. /\ DOMAIN q = 1 .. Len(q) /\ Len(q) \in Nat /\ 1 \in DOMAIN q
        /\ DOMAIN mQueue'[n] = 1 .. Len(q) - 1
        /\ \A i \in 1 .. Len(q) - 1 : mQueue'[n][i] = q[i + 1]
        /\ sending'[n][1] = q[1] /\ sending'[n] # <<>>
    BY <2>1
  <2>3. \A i \in DOMAIN mQueue'[n] : i + 1 \in DOMAIN q /\ i + 1 > 1 /\ i > 0
    BY <2>2
  <2>4. CASE StillToEnqueue(n, p) /\ poll.vals[p] = mPreviousValues[p]
    BY <1>1, <1>2, <2>4 DEF LatestUnderWay
  <2>5. CASE \E i \in DOMAIN q : /\ p \in DOMAIN q[i]
                                 /\ q[i][p] = mPreviousValues[p]
                                 /\ NoneBehind(n, p, i)
    <3>1. PICK i \in DOMAIN q : /\ p \in DOMAIN q[i]
                                /\ q[i][p] = mPreviousValues[p]
                                /\ NoneBehind(n, p, i)
      BY <2>5
    <3>2. CASE i = 1
      <4>1. NoneBehind(n, p, 0)'
        BY <2>2, <2>3, <3>1, <3>2 DEF NoneBehind
      <4> QED
        BY <1>1, <2>2, <3>1, <3>2, <4>1 DEF LatestUnderWay
    <3>3. CASE i # 1
      <4>1. i - 1 \in DOMAIN mQueue'[n] /\ mQueue'[n][i - 1] = q[i]
        BY <2>2, <3>1, <3>3
      <4>2. NoneBehind(n, p, i - 1)'
        <5>1. \A j \in DOMAIN mQueue'[n] : j > i - 1 => j + 1 > i
          BY <2>2, <3>1
        <5> QED
          BY <2>2, <2>3, <3>1, <5>1 DEF NoneBehind
      <4> QED
        BY <1>1, <3>1, <4>1, <4>2 DEF LatestUnderWay
    <3> QED
      BY <3>2, <3>3
  <2>6. CASE NoneBehind(n, p, 0) /\ remote[n][p] = mPreviousValues[p]
    <3>1. \A i \in DOMAIN q : p \notin DOMAIN q[i]
      BY <2>2, <2>6 DEF NoneBehind
    <3>2. NoneBehind(n, p, 0)' /\ p \notin DOMAIN sending'[n][1]
      BY <2>2, <2>3, <3>1 DEF NoneBehind
    <3> QED
      BY <1>1, <2>6, <3>2 DEF LatestUnderWay
  <2> QED
    BY <2>1, <2>4, <2>5, <2>6 DEF LatestUnderWay
<1> QED
  BY <1>3, <1>4

LEMMA LatestSend ==
  ASSUME TypeOK, NEW m \in Nodes, SendSucceeds(m),
         NEW n \in Nodes, NEW p \in Props, LatestUnderWay(n, p)
  PROVE  LatestUnderWay(n, p)'
<1>1. /\ UNCHANGED <<mPreviousValues, poll, mQueue>>
      /\ sending[m] # <<>>
      /\ remote' = Deliver(m, DOMAIN sending[m][1])
  BY DEF SendSucceeds
<1>2. StillToEnqueue(n, p) => StillToEnqueue(n, p)'
  BY <1>1 DEF StillToEnqueue
<1>3. \A i : NoneBehind(n, p, i) => NoneBehind(n, p, i)'
  BY <1>1 DEF NoneBehind
<1>4. CASE n # m
  <2>1. remote'[n] = remote[n]
    BY <1>1, <1>4, DeliverType
  <2>2. sending'[n] = sending[n]
    BY <1>4 DEF SendSucceeds, TypeOK
  <2> QED
    BY <1>1, <1>2, <2>1, <2>2, LatestKept
<1>5. CASE n = m
  <2>1. remote'[n][p] = IF p \in DOMAIN sending[n][1] THEN sending[n][1][p]
                                                      ELSE remote[n][p]
    BY <1>1, <1>5, DeliverType
  <2>2. sending'[n] = <<>>
    BY <1>5 DEF SendSucceeds, TypeOK
  <2> QED
    BY <1>1, <1>2, <1>3, <1>5, <2>1, <2>2 DEF LatestUnderWay
<1> QED
  BY <1>4, <1>5

LEMMA LatestCollect ==
  ASSUME TypeOK, PollShape, CollectChanges,
         NEW n \in Nodes, NEW p \in PropIds(n),
         mPreviousValues[p] # Unset => LatestUnderWay(n, p),
         mPreviousValues'[p] # Unset
  PROVE  LatestUnderWay(n, p)'
<1> DEFINE changed == Changed(poll.vals)
<1>1. /\ poll.pc = "reading" /\ changed \subseteq DOMAIN poll.vals
      /\ UNCHANGED <<mQueue, sending, remote>>
  BY DEF CollectChanges, Changed
<1>2. p \in Props /\ n \in Int /\ n >= 1 /\ NodeCount # 0
  BY PropIdsType, NodeAssumption DEF Nodes
<1>3. mPreviousValues'[p] = IF p \in changed THEN poll.vals[p]
                                             ELSE mPreviousValues[p]
  BY <1>2 DEF CollectChanges
<1>4. CASE p \in changed
  <2>1. poll' = [poll EXCEPT !.pc = "forwarding", !.node = 1,
                             !.vals = Only(@, changed)]
    BY <1>2, <1>4 DEF CollectChanges
  <2>2. /\ poll'.pc = "forwarding" /\ poll'.node = 1 /\ poll'.msg = poll.msg
        /\ poll'.vals = Only(poll.vals, changed) /\ poll.msg \in Nat
    BY <2>1 DEF TypeOK, PollStates
  <2>3. p \in DOMAIN poll'.vals /\ poll'.vals[p] = poll.vals[p]
    BY <1>1, <1>4, <2>2 DEF Only
  <2>4. \E i \in DOMAIN Messages[n] : i >= 0 /\ p \in Messages[n][i]
    <3>1. Messages[n] \in Seq(SUBSET Props)
      BY MessageAssumption
    <3> QED
      BY <3>1 DEF PropIds
  <2>5. poll'.msg = 0
    BY <1>1, <2>2 DEF PollShape
  <2>6. StillToEnqueue(n, p)'
    BY <1>2, <2>2, <2>3, <2>4, <2>5 DEF StillToEnqueue
  <2> QED
    BY <1>3, <1>4, <2>3, <2>6 DEF LatestUnderWay
<1>5. CASE p \notin changed
  <2>1. ~StillToEnqueue(n, p)
    BY <1>1 DEF StillToEnqueue
  <2> QED
    BY <1>1, <1>2, <1>3, <1>5, <2>1, LatestKept
<1> QED
  BY <1>4, <1>5

LEMMA LatestStep ==
  ASSUME TypeOK, PollShape, OrderInv, LatestIsUnderWay, [Next]_vars,
         sendFaults' = 0, NEW n \in Nodes, NEW p \in PropIds(n),
         mPreviousValues'[p] # Unset
  PROVE  LatestUnderWay(n, p)'
<1>1. p \in Props
  BY PropIdsType
<1>2. sendFaults = 0 => (mPreviousValues[p] # Unset => LatestUnderWay(n, p))
  BY DEF LatestIsUnderWay
\* Steps that leave the pipelines alone while nothing is being forwarded.
<1>3. ASSUME UNCHANGED <<mPreviousValues, mQueue, sending, remote, sendFaults>>,
             poll' = poll \/ poll.pc # "forwarding"
      PROVE  LatestUnderWay(n, p)'
  <2>1. StillToEnqueue(n, p) =>
          StillToEnqueue(n, p)' /\ poll'.vals[p] = poll.vals[p]
    BY <1>3 DEF StillToEnqueue
  <2> QED
    BY <1>1, <1>2, <1>3, <2>1, LatestKept
<1>4. CASE \/ \E q \in Props, v \in Values : WriteLocal(q, v)
           \/ StartPoll \/ SkipCycle \/ UNCHANGED vars
           \/ \E q \in Props : ReadValue(q) \/ ReadFails(q)
  <2>1. /\ UNCHANGED <<mPreviousValues, mQueue, sending, remote, sendFaults>>
        /\ poll' = poll \/ poll.pc # "forwarding"
    BY <1>4 DEF WriteLocal, StartPoll, SkipCycle, ReadValue, ReadFails, vars
  <2> QED
    BY <1>3, <2>1
<1>5. CASE CollectChanges
  <2>1. sendFaults' = sendFaults
    BY <1>5 DEF CollectChanges
  <2> QED
    BY <1>2, <1>5, <2>1, LatestCollect
<1>6. CASE \E m \in Nodes : Forward(m)
  <2> PICK m \in Nodes : Forward(m)
    BY <1>6
  <2>1. UNCHANGED <<sendFaults, mPreviousValues>>
    BY DEF Forward
  <2> QED
    BY <1>2, <2>1, LatestForward
<1>7. CASE \E m \in Nodes : EnqueueBatch(m)
  <2> PICK m \in Nodes : EnqueueBatch(m)
    BY <1>7
  <2>1. UNCHANGED <<sendFaults, mPreviousValues>>
    BY DEF EnqueueBatch
  <2> QED
    BY <1>2, <2>1, LatestEnqueue
<1>8. CASE \E m \in Nodes : TakeBatch(m)
  <2> PICK m \in Nodes : TakeBatch(m)
    BY <1>8
  <2>1. UNCHANGED <<sendFaults, mPreviousValues>>
    BY DEF TakeBatch
  <2> QED
    BY <1>1, <1>2, <2>1, LatestTake
<1>9. CASE \E m \in Nodes : SendSucceeds(m)
  <2> PICK m \in Nodes : SendSucceeds(m)
    BY <1>9
  <2>1. UNCHANGED <<sendFaults, mPreviousValues>>
    BY DEF SendSucceeds
  <2> QED
    BY <1>1, <1>2, <2>1, LatestSend
<1>10. CASE \E m \in Nodes, S \in SUBSET Props : SendFails(m, S)
  BY <1>10, BoundAssumption DEF SendFails, TypeOK
<1> QED
  BY <1>4, <1>5, <1>6, <1>7, <1>8, <1>9, <1>10
  DEF Next, PollThread, Worker, Environment

\* As long as no SetValues call failed, no change is dropped between the poll
\* thread and the remote nodes (pollOnce, forward, workerLoop).
THEOREM NothingDropped == Spec => []LatestIsUnderWay
<1> DEFINE Inv == TypeOK /\ PollShape /\ OrderInv
<1>1. Init => Inv
  BY TypeInit, OrderInit
<1>2. Inv /\ [Next]_vars => Inv'
  BY TypeStep, OrderStep
<1>3. Init => LatestIsUnderWay
  BY PropIdsType DEF Init, LatestIsUnderWay
<1>4. Inv /\ LatestIsUnderWay /\ [Next]_vars => LatestIsUnderWay'
  <2> SUFFICES ASSUME Inv, LatestIsUnderWay, [Next]_vars, sendFaults' = 0,
                      NEW n \in Nodes, NEW p \in PropIds(n),
                      mPreviousValues'[p] # Unset
               PROVE  LatestUnderWay(n, p)'
    BY DEF LatestIsUnderWay, PropIds
  <2> QED
    BY LatestStep
<1> HIDE DEF Inv
<1> QED
  BY <1>1, <1>2, <1>3, <1>4, PTL DEF Spec
=============================================================================

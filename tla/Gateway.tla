------------------------------ MODULE Gateway ------------------------------
(***************************************************************************)
(* vhal-gateway: VhalGateway polls the properties of the local vhal-core   *)
(* and hands what changed to one NodeForwarder per remote node, whose      *)
(* worker thread sends it with SetValues, one message group at a time.     *)
(* One poll thread, one worker per node, and a mutex per queue.            *)
(***************************************************************************)
EXTENDS Integers, Sequences, FiniteSets

CONSTANTS NodeCount,      \* number of gatewayNodes in the configuration
          Props,          \* property IDs that occur in the configuration
          Values,         \* the "value" field of a VehiclePropValue
          Messages,       \* mMessages of every node: sequences of sets of IDs
          MaxWrites,      \* bound: writes to the local VHAL
          MaxReadFaults,  \* bound: failed GetValues calls and results
          MaxSendFaults,  \* bound: SetValues calls that are not (all) applied
          Unset           \* no value yet

Nodes == 1 .. NodeCount

Val == [value : Values, timestamp : 0 .. MaxWrites]

\* What a GetValues answer or a batch carries: at most one value per property.
Vals == UNION {[S -> Val] : S \in SUBSET Props}

ASSUME NodeAssumption == NodeCount \in Nat
ASSUME MessageAssumption == Messages \in [Nodes -> Seq(SUBSET Props)]
ASSUME BoundAssumption == /\ MaxWrites \in Nat
                          /\ MaxReadFaults \in Nat
                          /\ MaxSendFaults \in Nat
ASSUME UnsetAssumption == Unset \notin Val

VARIABLES
  clock,            \* elapsedRealtimeNano of the local vhal-core, in writes
  local,            \* values of the local vhal-core
  mPreviousValues,  \* VhalGateway::mPreviousValues
  poll,             \* the poll thread: where it is and its locals
  mQueue,           \* NodeForwarder::mQueue, per node
  sending,          \* batches the worker took and has no answer for: 0 or 1
  remote,           \* values of the remote vhal-core, as far as forwarded
  readFaults, sendFaults

vars == <<clock, local, mPreviousValues, poll, mQueue, sending, remote,
          readFaults, sendFaults>>

\* The poll thread: what pollOnce has yet to read, the results or
\* changedValues, and the indices of its loops over nodes and messages.
PollStates == [pc : {"idle", "reading", "forwarding"}, todo : SUBSET Props,
               vals : Vals, node : 0 .. NodeCount, msg : Nat]

NoVals == [p \in {} |-> Unset]

Idle == [pc |-> "idle", todo |-> {}, vals |-> NoVals, node |-> 0, msg |-> 0]

\* mAllPropIds of a NodeForwarder.
PropIds(n) == UNION {Messages[n][i] : i \in DOMAIN Messages[n]}

-----------------------------------------------------------------------------
\* The part of vals that is about the properties in S.
Only(vals, S) == [p \in DOMAIN vals \cap S |-> vals[p]]

\* Mutant: a property without a previous value is not a change.
ChangedSincePrevious(vals) ==
  {p \in DOMAIN vals : /\ mPreviousValues[p] # Unset
                       /\ mPreviousValues[p].value # vals[p].value}

\* The test of pollOnce: first value, or another "value" field than last time.
Changed(vals) ==
  {p \in DOMAIN vals : \/ mPreviousValues[p] = Unset
                       \/ mPreviousValues[p].value # vals[p].value}

\* forward() holds mQueueMutex while it walks over the message groups.
Locked(n) == poll.pc = "forwarding" /\ poll.node = n /\ poll.msg > 0

Init ==
  /\ clock = 0
  /\ local \in [Props -> [value : Values, timestamp : {0}]]
  /\ mPreviousValues = [p \in Props |-> Unset]
  /\ poll = Idle
  /\ mQueue = [n \in Nodes |-> <<>>]
  /\ sending = [n \in Nodes |-> <<>>]
  /\ remote = [n \in Nodes |-> [p \in Props |-> Unset]]
  /\ readFaults = 0
  /\ sendFaults = 0

\* A client of the local vhal-core writes a property, maybe with its old value.
WriteLocal(p, v) ==
  /\ clock < MaxWrites
  /\ clock' = clock + 1
  /\ local' = [local EXCEPT ![p] = [value |-> v, timestamp |-> clock']]
  /\ UNCHANGED <<mPreviousValues, poll, mQueue, sending, remote,
                 readFaults, sendFaults>>

-----------------------------------------------------------------------------
(* VhalGateway::pollOnce *)

StartPoll ==
  /\ poll.pc = "idle"
  /\ poll' = [Idle EXCEPT !.pc = "reading", !.todo = Props]
  /\ UNCHANGED <<clock, local, mPreviousValues, mQueue, sending, remote,
                 readFaults, sendFaults>>

\* GetValues reads the properties one after the other, in any order.
ReadValue(p) ==
  /\ poll.pc = "reading" /\ p \in poll.todo
  /\ poll' = [poll EXCEPT
       !.todo = @ \ {p},
       !.vals = [q \in DOMAIN poll.vals \cup {p} |->
                   IF q = p THEN local[p] ELSE poll.vals[q]]]
  /\ UNCHANGED <<clock, local, mPreviousValues, mQueue, sending, remote,
                 readFaults, sendFaults>>

\* A result whose status is not OK, or without a value.
ReadFails(p) ==
  /\ poll.pc = "reading" /\ p \in poll.todo
  /\ readFaults < MaxReadFaults
  /\ readFaults' = readFaults + 1
  /\ poll' = [poll EXCEPT !.todo = @ \ {p}]
  /\ UNCHANGED <<clock, local, mPreviousValues, mQueue, sending, remote,
                 sendFaults>>

\* getValues returned another status than OK: the cycle is skipped.
SkipCycle ==
  /\ poll.pc = "reading"
  /\ readFaults < MaxReadFaults
  /\ readFaults' = readFaults + 1
  /\ poll' = Idle
  /\ UNCHANGED <<clock, local, mPreviousValues, mQueue, sending, remote,
                 sendFaults>>

\* The loop over the results: what changed is remembered and collected.
CollectChanges ==
  /\ poll.pc = "reading" /\ poll.todo = {}
  /\ LET changed == Changed(poll.vals) IN
       /\ mPreviousValues' = [p \in Props |-> IF p \in changed
                                              THEN poll.vals[p]
                                              ELSE mPreviousValues[p]]
       /\ poll' = IF changed = {} \/ NodeCount = 0
                  THEN Idle
                  ELSE [poll EXCEPT !.pc = "forwarding", !.node = 1,
                                    !.vals = Only(@, changed)]
  /\ UNCHANGED <<clock, local, mQueue, sending, remote, readFaults,
                 sendFaults>>

\* Mutant: the loop over mForwarders runs one step too far.
NextNodeLate(n) == IF n = NodeCount + 1
                   THEN Idle
                   ELSE [poll EXCEPT !.node = n + 1, !.msg = 0]

\* The poll thread is done with node n.
NextNode(n) == IF n = NodeCount
               THEN Idle
               ELSE [poll EXCEPT !.node = n + 1, !.msg = 0]

\* NodeForwarder::forward, the fast path and taking the mutex.
Forward(n) ==
  /\ poll.pc = "forwarding" /\ poll.node = n /\ poll.msg = 0
  /\ poll' = IF DOMAIN poll.vals \cap PropIds(n) = {}
             THEN NextNode(n)
             ELSE [poll EXCEPT !.msg = 1]
  /\ UNCHANGED <<clock, local, mPreviousValues, mQueue, sending, remote,
                 readFaults, sendFaults>>

\* Mutant: the last message group is left out.
EnqueueBatchButLast(n) ==
  /\ Locked(n)
  /\ LET batch == Only(poll.vals, Messages[n][poll.msg]) IN
       mQueue' = IF DOMAIN batch = {} \/ poll.msg = Len(Messages[n])
                 THEN mQueue
                 ELSE [mQueue EXCEPT ![n] = Append(@, batch)]
  /\ poll' = IF poll.msg = Len(Messages[n])
             THEN NextNode(n)
             ELSE [poll EXCEPT !.msg = @ + 1]
  /\ UNCHANGED <<clock, local, mPreviousValues, sending, remote,
                 readFaults, sendFaults>>

\* forward: one turn of the loop over the message groups.
EnqueueBatch(n) ==
  /\ Locked(n)
  /\ LET batch == Only(poll.vals, Messages[n][poll.msg]) IN
       mQueue' = IF DOMAIN batch = {} THEN mQueue
                 ELSE [mQueue EXCEPT ![n] = Append(@, batch)]
  /\ poll' = IF poll.msg = Len(Messages[n])
             THEN NextNode(n)
             ELSE [poll EXCEPT !.msg = @ + 1]
  /\ UNCHANGED <<clock, local, mPreviousValues, sending, remote,
                 readFaults, sendFaults>>

-----------------------------------------------------------------------------
(* NodeForwarder::workerLoop *)

\* Mutant: the worker takes the newest batch first.
TakeNewestBatch(n) ==
  /\ sending[n] = <<>> /\ mQueue[n] # <<>> /\ ~Locked(n)
  /\ sending' = [sending EXCEPT ![n] = <<mQueue[n][Len(mQueue[n])]>>]
  /\ mQueue' = [mQueue EXCEPT ![n] = SubSeq(@, 1, Len(@) - 1)]
  /\ UNCHANGED <<clock, local, mPreviousValues, poll, remote, readFaults,
                 sendFaults>>

\* The worker takes the front of the queue and unlocks.
TakeBatch(n) ==
  /\ sending[n] = <<>> /\ mQueue[n] # <<>> /\ ~Locked(n)
  /\ sending' = [sending EXCEPT ![n] = <<Head(mQueue[n])>>]
  /\ mQueue' = [mQueue EXCEPT ![n] = Tail(@)]
  /\ UNCHANGED <<clock, local, mPreviousValues, poll, remote, readFaults,
                 sendFaults>>

\* The values of the batch in S arrive at the remote vhal-core.
Deliver(n, S) ==
  [remote EXCEPT ![n] = [p \in Props |-> IF p \in S THEN sending[n][1][p]
                                                    ELSE remote[n][p]]]

\* SetValues returns OK and every value was set.
SendSucceeds(n) ==
  /\ sending[n] # <<>>
  /\ remote' = Deliver(n, DOMAIN sending[n][1])
  /\ sending' = [sending EXCEPT ![n] = <<>>]
  /\ UNCHANGED <<clock, local, mPreviousValues, poll, mQueue, readFaults,
                 sendFaults>>

\* SetValues fails, or some of its results do: the worker logs the former,
\* does not look at the latter, and goes on with the next batch.  S is what the
\* remote vhal-core applied all the same: its requests are handled in order, so
\* a value it applies late still comes before the next batch.
SendFails(n, S) ==
  /\ sending[n] # <<>> /\ S \subseteq DOMAIN sending[n][1]
  /\ sendFaults < MaxSendFaults
  /\ sendFaults' = sendFaults + 1
  /\ remote' = Deliver(n, S)
  /\ sending' = [sending EXCEPT ![n] = <<>>]
  /\ UNCHANGED <<clock, local, mPreviousValues, poll, mQueue, readFaults>>

-----------------------------------------------------------------------------
PollThread ==
  \/ StartPoll
  \/ \E p \in Props : ReadValue(p)
  \/ CollectChanges
  \/ \E n \in Nodes : Forward(n) \/ EnqueueBatch(n)

Worker(n) == TakeBatch(n) \/ SendSucceeds(n)

Environment ==
  \/ \E p \in Props, v \in Values : WriteLocal(p, v)
  \/ \E p \in Props : ReadFails(p)
  \/ SkipCycle
  \/ \E n \in Nodes, S \in SUBSET Props : SendFails(n, S)

Next == PollThread \/ (\E n \in Nodes : Worker(n)) \/ Environment

Spec == Init /\ [][Next]_vars

\* The threads run, and every SetValues call is answered.
Fairness == WF_vars(PollThread) /\ \A n \in Nodes : WF_vars(Worker(n))

FairSpec == Spec /\ Fairness

-----------------------------------------------------------------------------
\* Every variable has its type, and pollOnce's loop over mForwarders stays
\* within the nodes.
TypeOK ==
  /\ clock \in 0 .. MaxWrites
  /\ local \in [Props -> Val]
  /\ mPreviousValues \in [Props -> Val \cup {Unset}]
  /\ poll \in PollStates
  /\ mQueue \in [Nodes -> Seq(Vals)]
  /\ sending \in [Nodes -> Seq(Vals)]
  /\ remote \in [Nodes -> [Props -> Val \cup {Unset}]]
  /\ readFaults \in 0 .. MaxReadFaults
  /\ sendFaults \in 0 .. MaxSendFaults

\* forward() will still put property p into a batch for node n in this cycle.
StillToEnqueue(n, p) ==
  /\ poll.pc = "forwarding" /\ p \in DOMAIN poll.vals
  /\ \/ poll.node < n /\ p \in PropIds(n)
     \/ /\ poll.node = n
        /\ \E i \in DOMAIN Messages[n] : i >= poll.msg /\ p \in Messages[n][i]

\* No batch of node n behind position i of its queue has property p.
NoneBehind(n, p, i) ==
  \A j \in DOMAIN mQueue[n] : j > i => p \notin DOMAIN mQueue[n][j]

\* The newest value of p on its way to node n is the one in mPreviousValues.
LatestUnderWay(n, p) ==
  \/ StillToEnqueue(n, p) /\ poll.vals[p] = mPreviousValues[p]
  \/ \E i \in DOMAIN mQueue[n] : /\ p \in DOMAIN mQueue[n][i]
                                 /\ mQueue[n][i][p] = mPreviousValues[p]
                                 /\ NoneBehind(n, p, i)
  \/ /\ NoneBehind(n, p, 0)
     /\ sending[n] # <<>> /\ p \in DOMAIN sending[n][1]
     /\ sending[n][1][p] = mPreviousValues[p]
  \/ /\ NoneBehind(n, p, 0)
     /\ sending[n] # <<>> => p \notin DOMAIN sending[n][1]
     /\ remote[n][p] = mPreviousValues[p]

\* As long as every SetValues call succeeded, what node n will hold of property
\* p once everything on its way has arrived is what pollOnce remembers in
\* mPreviousValues: no change is dropped between the poll thread, the message
\* groups, the queue and the worker; comparing with mPreviousValues is enough.
LatestIsUnderWay ==
  sendFaults = 0 =>
    \A n \in Nodes : \A p \in PropIds(n) :
      mPreviousValues[p] # Unset => LatestUnderWay(n, p)

\* A remote node never goes back to an older value of the local vhal-core,
\* whatever polls and SetValues calls fail and however message groups overlap.
RemoteNeverGoesBack ==
  [][\A n \in Nodes, p \in Props : remote[n][p] # Unset =>
       /\ remote'[n][p] # Unset
       /\ remote'[n][p].timestamp >= remote[n][p].timestamp]_vars

\* The local vhal-core is written finitely often here, so in the end every
\* remote node holds the value of every property configured for it: the
\* gateway "forwards matching properties to each configured remote node on
\* change" (pollOnce, forward, workerLoop).
Converges ==
  \A n \in Nodes : \A p \in PropIds(n) :
    <>[](remote[n][p] # Unset /\ remote[n][p].value = local[p].value)

\* Failed polls and skipped cycles do not prevent that; pollOnce catches up.
ConvergesUnlessSendFails == [](sendFaults = 0) => Converges
=============================================================================

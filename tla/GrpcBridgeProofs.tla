-------------------------- MODULE GrpcBridgeProofs --------------------------
(***************************************************************************)
(* Proofs about GrpcBridge, for any number of keys, connections and calls. *)
(***************************************************************************)
EXTENDS GrpcBridge, TLAPS, SequenceTheorems, FiniteSetTheorems

-----------------------------------------------------------------------------
(* Sequences. *)

LEMMA MapIsSeq ==
  ASSUME NEW S, NEW T, NEW q \in Seq(S), NEW f,
         f = [i \in DOMAIN q |-> f[i]], \A i \in DOMAIN q : f[i] \in T
  PROVE  f \in Seq(T) /\ Len(f) = Len(q) /\ DOMAIN f = DOMAIN q
<1>1. DOMAIN f = DOMAIN q /\ DOMAIN q = 1 .. Len(q) /\ Len(q) \in Nat
  BY LenProperties
<1>2. f \in [1 .. Len(q) -> T]
  BY <1>1
<1> QED
  BY <1>1, <1>2, IsASeq, LenProperties

LEMMA SeqElements ==
  ASSUME NEW S, NEW q \in Seq(S)
  PROVE  /\ Len(q) \in Nat /\ DOMAIN q = 1 .. Len(q)
         /\ \A i \in DOMAIN q : q[i] \in S
BY LenProperties, ElementOfSeq

LEMMA ConcatElements ==
  ASSUME NEW S, NEW T, NEW p \in Seq(S), NEW q \in Seq(T)
  PROVE  /\ Len(p \o q) = Len(p) + Len(q)
         /\ \A i \in DOMAIN p : (p \o q)[i] = p[i]
         /\ \A i \in DOMAIN (p \o q) \ DOMAIN p : (p \o q)[i] \in T
<1>1. p \in Seq(S \cup T) /\ q \in Seq(S \cup T)
  BY SeqMonotonic
<1>2. /\ Len(p \o q) = Len(p) + Len(q) /\ p \o q \in Seq(S \cup T)
      /\ \A i \in 1 .. Len(p) + Len(q) :
            (p \o q)[i] = IF i =< Len(p) THEN p[i] ELSE q[i - Len(p)]
  BY <1>1, ConcatProperties
<1>3. /\ Len(p) \in Nat /\ DOMAIN p = 1 .. Len(p)
      /\ Len(q) \in Nat /\ DOMAIN q = 1 .. Len(q) /\ \A i \in DOMAIN q : q[i] \in T
      /\ DOMAIN (p \o q) = 1 .. Len(p \o q)
  BY <1>2, SeqElements
<1> QED
  BY <1>2, <1>3

-----------------------------------------------------------------------------
(* Types. *)

Events == Keys \X Nat
Msgs == Events \cup {"changed"}
Stamps == [external : Nat, android : Nat]
Conns == [stream : Streams, pc : {"entering", "waiting", "returned"},
          shut : BOOLEAN, broken : BOOLEAN, wire : Seq(Msgs), due : SUBSET Events]
PollStates == [pc : {"check", "insert", "start", "reading", "stamp", "hand", "finish",
                     "ended"}, conn : Nat]
Vals == [key : Keys, version : Nat, time : Nat, after : Nat]

HardwareType ==
  /\ budget \in [Inputs -> Nat] /\ budget["keys"] =< NumKeys
  /\ hw \in [Keys -> Nat] /\ raised \subseteq Events

EventsType ==
  /\ queue \in [Streams -> Seq(Msgs)] /\ batch \in [Streams -> Seq(Msgs)]
  /\ queue["values"] \in Seq(Events) /\ batch["values"] \in Seq(Events)

\* What the connections are: their lists and the polling threads that hold them
\* are of the stream of the connection.
StreamsType ==
  /\ conns \in Seq(Conns)
  /\ \A c \in DOMAIN conns : conns[c].stream = "values" => conns[c].wire \in Seq(Events)
  /\ listed \in [Streams -> SUBSET Nat]
  /\ \A s \in Streams : \A c \in listed[s] : c \in DOMAIN conns /\ conns[c].stream = s

PollType ==
  /\ poll \in [Streams -> PollStates]
  /\ \A s \in Streams : poll[s].conn # 0 =>
        poll[s].conn \in DOMAIN conns /\ conns[poll[s].conn].stream = s

ValuesType ==
  /\ clock \in Nat
  /\ mLatestUpdateTimestamps \in [Keys -> Stamps \cup {None}]
  /\ handed \in Seq(Vals)
  /\ inHand \in Vals \cup {None}
  /\ poll["values"].pc \in {"stamp", "hand"} => inHand \in Vals

RoundType ==
  /\ round \in [results : Seq(Vals), again : SUBSET Keys, inHand : Vals \cup {None},
                after : Nat]
  /\ get.pc # "answered" => round.again = {} /\ round.inHand = None

\* A key of a get is asked for, answered, being stamped, to be asked for again or
\* done, and only one of these.
GetType ==
  /\ get \in [pc : {"idle", "wire", "answered", "returned", "failed"},
              ask : SUBSET Keys, got : SUBSET (Keys \X {0}),
              answer : SUBSET (Keys \X (Nat \cup {None}))]
  /\ \A a, b \in get.answer : a[1] = b[1] => a = b
  /\ get.pc = "wire" => /\ \A a \in get.answer : a[1] \in get.ask
                        /\ \A k \in get.ask : <<k, 0>> \notin get.got
  /\ \A a \in get.answer : <<a[1], 0>> \notin get.got /\ a[1] \notin round.again
  /\ \A k \in round.again : <<k, 0>> \notin get.got
  /\ round.inHand # None =>
        /\ <<round.inHand.key, 0>> \notin get.got
        /\ round.inHand.key \notin round.again
        /\ \A a \in get.answer : a[1] # round.inHand.key

TypeInv == /\ HardwareType /\ EventsType /\ StreamsType /\ PollType
           /\ ValuesType /\ RoundType /\ GetType

-----------------------------------------------------------------------------
(* Which actions touch which variables.  The actions are listed in the order   *)
(* of Next.                                                                    *)

\* The calls that are neither a get nor a set.
UnaryCall ==
  \/ subscribe \/ unsubscribe \/ updateSampleRate \/ checkHealth \/ dump
  \/ \E n \in {1, NumKeys} : \/ getMinMaxSupportedValues(n)
                              \/ getSupportedValuesLists(n)
                              \/ getAllPropertyConfigs(n)

LEMMA NextActions ==
  ASSUME Next
  PROVE  \/ \E k \in Used : change(k)
         \/ \E e \in raised : OnVehiclePropChange(e)
         \/ OnSupportedValuesChange
         \/ eventWriterLoop \/ (\E s \in Streams : writeToStream(s)) \/ writerRound
         \/ \E c \in DOMAIN conns : startStream(c) \/ streamLost(c) \/ disconnect(c)
         \/ Shutdown \/ shutdownConnections \/ Wait
         \/ \E s \in Streams : \/ pollingLoop(s) \/ insertContext(s) \/ pollValue(s)
                               \/ readStream(s) \/ leaveStream(s) \/ finishStream(s)
         \/ stampEvent \/ handEvent \/ registerOnPropertyChangeEvent
         \/ close \/ join
         \/ \E ks \in SUBSET Used : getValues(ks) \/ setValues(ks)
         \/ \E k \in Keys : GetValues(k) \/ hardwareSets(k) \/ SetValues(k)
         \/ (\E a \in get.answer : getResult(a)) \/ stampResult
         \/ getValuesWithRetry \/ getValuesFailed \/ getValuesReturns
         \/ setValuesFailed \/ setValuesReturns
         \/ UnaryCall
<1> QED
  BY DEF Next, Writer, Handler, Poll, Stop, Get, Set, UnaryCall

LEMMA UnaryFrame ==
  ASSUME UnaryCall
  PROVE  /\ client = "alive" /\ Spend("call")
         /\ UNCHANGED <<hw, raised, events, streams, polling, values, get, round, set>>
BY DEF UnaryCall, subscribe, unsubscribe, updateSampleRate, checkHealth, dump,
       getMinMaxSupportedValues, getSupportedValuesLists, getAllPropertyConfigs,
       Unary, Unimplemented, Tell

LEMMA ValuesFrame ==
  ASSUME Next
  PROVE  \/ UNCHANGED values
         \/ (\E s \in Streams : readStream(s)) \/ stampEvent \/ handEvent
         \/ registerOnPropertyChangeEvent
         \/ (\E a \in get.answer : getResult(a)) \/ stampResult \/ getValuesReturns
BY NextActions, UnaryFrame
   DEF change, OnVehiclePropChange, OnSupportedValuesChange, eventWriterLoop,
       writeToStream, writerRound, startStream, streamLost, disconnect, Shutdown,
       shutdownConnections, Wait, pollingLoop, insertContext, pollValue, leaveStream,
       finishStream, close, join, getValues, setValues, GetValues, hardwareSets,
       SetValues, getValuesWithRetry, getValuesFailed, setValuesFailed, setValuesReturns

LEMMA QueuesFrame ==
  ASSUME Next
  PROVE  \/ UNCHANGED <<queue, batch, writer>>
         \/ (\E e \in raised : OnVehiclePropChange(e)) \/ OnSupportedValuesChange
         \/ eventWriterLoop \/ (\E s \in Streams : writeToStream(s)) \/ writerRound
BY NextActions, UnaryFrame
   DEF stampEvent, handEvent, registerOnPropertyChangeEvent, getResult, stampResult,
       events, change, startStream, streamLost, disconnect, Shutdown,
       shutdownConnections, Wait, pollingLoop, insertContext, pollValue, readStream,
       leaveStream, finishStream, close, join, getValues, setValues, GetValues,
       hardwareSets, SetValues, getValuesWithRetry, getValuesFailed, getValuesReturns,
       setValuesFailed, setValuesReturns

LEMMA ConnsFrame ==
  ASSUME Next
  PROVE  \/ UNCHANGED <<conns, listed>>
         \/ \E e \in raised : OnVehiclePropChange(e)
         \/ \E s \in Streams : writeToStream(s) \/ pollValue(s) \/ readStream(s)
         \/ \E c \in DOMAIN conns : startStream(c) \/ streamLost(c) \/ disconnect(c)
         \/ shutdownConnections \/ close
BY NextActions, UnaryFrame
   DEF stampEvent, handEvent, registerOnPropertyChangeEvent, getResult, stampResult,
       streams, change, OnSupportedValuesChange, eventWriterLoop, writerRound, Shutdown,
       Wait, pollingLoop, insertContext, leaveStream, finishStream, join, getValues,
       setValues, GetValues, hardwareSets, SetValues, getValuesWithRetry,
       getValuesFailed, getValuesReturns, setValuesFailed, setValuesReturns

LEMMA PollFrame ==
  ASSUME Next
  PROVE  \/ UNCHANGED poll
         \/ \E s \in Streams : \/ pollingLoop(s) \/ insertContext(s) \/ pollValue(s)
                               \/ readStream(s) \/ leaveStream(s) \/ finishStream(s)
         \/ stampEvent \/ handEvent
BY NextActions, UnaryFrame
   DEF registerOnPropertyChangeEvent, getResult, stampResult,
       polling, change, OnVehiclePropChange, OnSupportedValuesChange, eventWriterLoop,
       writeToStream, writerRound, startStream, streamLost, disconnect, Shutdown,
       shutdownConnections, Wait, close, join, getValues, setValues,
       GetValues, hardwareSets, SetValues, getValuesWithRetry, getValuesFailed,
       getValuesReturns, setValuesFailed, setValuesReturns

LEMMA GetFrame ==
  ASSUME Next
  PROVE  \/ UNCHANGED <<get, round>>
         \/ \E ks \in SUBSET Used : getValues(ks)
         \/ \E k \in Keys : GetValues(k)
         \/ (\E a \in get.answer : getResult(a)) \/ stampResult
         \/ getValuesWithRetry \/ getValuesFailed \/ getValuesReturns
BY NextActions, UnaryFrame
   DEF stampEvent, handEvent, registerOnPropertyChangeEvent,
       calls, change, OnVehiclePropChange, OnSupportedValuesChange, eventWriterLoop,
       writeToStream, writerRound, startStream, streamLost, disconnect, Shutdown,
       shutdownConnections, Wait, pollingLoop, insertContext, pollValue, readStream,
       leaveStream, finishStream, close, join, setValues, hardwareSets, SetValues,
       setValuesFailed, setValuesReturns

LEMMA SetFrame ==
  ASSUME Next
  PROVE  \/ UNCHANGED set
         \/ \E ks \in SUBSET Used : setValues(ks)
         \/ \E k \in Keys : hardwareSets(k) \/ SetValues(k)
         \/ setValuesFailed \/ setValuesReturns
BY NextActions, UnaryFrame
   DEF stampEvent, handEvent, registerOnPropertyChangeEvent, getResult, stampResult,
       calls, change, OnVehiclePropChange, OnSupportedValuesChange, eventWriterLoop,
       writeToStream, writerRound, startStream, streamLost, disconnect, Shutdown,
       shutdownConnections, Wait, pollingLoop, insertContext, pollValue, readStream,
       leaveStream, finishStream, close, join, getValues, GetValues,
       getValuesWithRetry, getValuesFailed, getValuesReturns

LEMMA ToldFrame ==
  ASSUME Next
  PROVE  UNCHANGED <<told, subscribed>> \/ UnaryCall
BY NextActions
   DEF stampEvent, handEvent, registerOnPropertyChangeEvent, getResult, stampResult,
       calls, hardware, change, OnVehiclePropChange, OnSupportedValuesChange,
       eventWriterLoop, writeToStream, writerRound, startStream, streamLost, disconnect,
       Shutdown, shutdownConnections, Wait, pollingLoop, insertContext, pollValue,
       readStream, leaveStream, finishStream, close, join, getValues, setValues,
       GetValues, hardwareSets, SetValues, getValuesWithRetry, getValuesFailed,
       getValuesReturns, setValuesFailed, setValuesReturns

LEMMA BudgetFrame ==
  ASSUME Next
  PROVE  UNCHANGED budget \/ \E op \in Inputs \ {"keys", "legacy"} : Spend(op)
BY NextActions, UnaryFrame
   DEF stampEvent, handEvent, registerOnPropertyChangeEvent, getResult, stampResult,
       Inputs, change, OnVehiclePropChange, OnSupportedValuesChange,
       eventWriterLoop, writeToStream, writerRound, startStream, streamLost, disconnect,
       Shutdown, shutdownConnections, Wait, pollingLoop, insertContext, pollValue,
       readStream, leaveStream, finishStream, close, join, getValues, setValues,
       GetValues, hardwareSets, SetValues, getValuesWithRetry, getValuesFailed,
       getValuesReturns, setValuesFailed, setValuesReturns

LEMMA HardwareFrame ==
  ASSUME Next
  PROVE  \/ UNCHANGED <<hw, raised>>
         \/ \E k \in Used : change(k)
         \/ \E e \in raised : OnVehiclePropChange(e)
         \/ \E k \in Keys : hardwareSets(k)
BY NextActions, UnaryFrame
   DEF stampEvent, handEvent, registerOnPropertyChangeEvent, getResult, stampResult,
       hardware, OnSupportedValuesChange, eventWriterLoop, writeToStream, writerRound,
       startStream, streamLost, disconnect, Shutdown, shutdownConnections, Wait,
       pollingLoop, insertContext, pollValue, readStream, leaveStream, finishStream,
       close, join, getValues, setValues, GetValues, SetValues, getValuesWithRetry,
       getValuesFailed, getValuesReturns, setValuesFailed, setValuesReturns

-----------------------------------------------------------------------------
(* Types are preserved. *)

LEMMA TypeInit == Init => TypeInv
<1> SUFFICES ASSUME Init PROVE TypeInv
  OBVIOUS
<1> USE DEF Init
<1>1. HardwareType
  <2>1. budget \in [Inputs -> Nat] /\ budget["keys"] =< NumKeys
    BY BudgetsKnown
  <2> QED
    BY <2>1 DEF HardwareType
<1>2. EventsType
  BY DEF EventsType, Streams
<1>3. StreamsType
  BY DEF StreamsType
<1>4. PollType
  BY DEF PollType, PollStates
<1>5. ValuesType
  BY DEF ValuesType, Streams
<1>6. RoundType /\ GetType
  BY DEF RoundType, GetType, NoCall, NoRound
<1> QED
  BY <1>1, <1>2, <1>3, <1>4, <1>5, <1>6 DEF TypeInv

LEMMA HardwareTypeStep ==
  ASSUME HardwareType, Next
  PROVE  HardwareType'
<1>1. budget' \in [Inputs -> Nat] /\ budget'["keys"] =< NumKeys
  <2>1. CASE UNCHANGED budget
    BY <2>1 DEF HardwareType
  <2>2. CASE \E op \in Inputs \ {"keys", "legacy"} : Spend(op)
    BY <2>2 DEF HardwareType, Spend, Inputs
  <2> QED
    BY <2>1, <2>2, BudgetFrame
<1>2. Used \subseteq Keys
  BY NumKeysIsNat DEF HardwareType, Used, Keys, Inputs
<1>3. hw' \in [Keys -> Nat] /\ raised' \subseteq Events
  <2>1. CASE UNCHANGED <<hw, raised>>
    BY <2>1 DEF HardwareType
  <2>2. CASE \E k \in Used : change(k)
    BY <1>2, <2>2 DEF HardwareType, change, Events
  <2>3. CASE \E e \in raised : OnVehiclePropChange(e)
    BY <2>3 DEF HardwareType, OnVehiclePropChange
  <2>4. CASE \E k \in Keys : hardwareSets(k)
    BY <2>4 DEF HardwareType, hardwareSets, Events
  <2> QED
    BY <2>1, <2>2, <2>3, <2>4, HardwareFrame
<1> QED
  BY <1>1, <1>3 DEF HardwareType

LEMMA EventsTypeStep ==
  ASSUME HardwareType, EventsType, Next
  PROVE  EventsType'
<1> USE DEF EventsType, Streams
<1>1. CASE UNCHANGED <<queue, batch, writer>>
  BY <1>1
<1>2. CASE \E e \in raised : OnVehiclePropChange(e)
  <2>1. PICK e \in raised : OnVehiclePropChange(e)
    BY <1>2
  <2>2. e \in Events /\ e \in Msgs
    BY DEF HardwareType, Msgs
  <2> QED
    BY <2>1, <2>2, AppendProperties DEF OnVehiclePropChange
<1>3. CASE OnSupportedValuesChange
  BY <1>3, AppendProperties DEF OnSupportedValuesChange, Msgs
<1>4. CASE eventWriterLoop
  BY <1>4 DEF eventWriterLoop
<1>5. CASE \E s \in Streams : writeToStream(s)
  BY <1>5, HeadTailProperties DEF writeToStream
<1>6. CASE writerRound
  BY <1>6 DEF writerRound
<1> QED
  BY <1>1, <1>2, <1>3, <1>4, <1>5, <1>6, QueuesFrame

\* Connections that are changed one by one keep their place and their stream.
LEMMA ConnsChanged ==
  ASSUME StreamsType, NEW f, f = [c \in DOMAIN conns |-> f[c]],
         \A c \in DOMAIN conns :
            /\ f[c] \in Conns /\ f[c].stream = conns[c].stream
            /\ conns[c].stream = "values" => f[c].wire \in Seq(Events)
  PROVE  /\ f \in Seq(Conns) /\ DOMAIN f = DOMAIN conns
         /\ \A c \in DOMAIN f : f[c].stream = "values" => f[c].wire \in Seq(Events)
<1>1. conns \in Seq(Conns)
  BY DEF StreamsType
<1>2. \A c \in DOMAIN conns : f[c] \in Conns
  OBVIOUS
<1>3. f \in Seq(Conns) /\ DOMAIN f = DOMAIN conns
  BY <1>1, <1>2, MapIsSeq
<1> QED
  BY <1>3

LEMMA ConnType ==
  ASSUME StreamsType, NEW c \in DOMAIN conns
  PROVE  conns[c] \in Conns
BY ElementOfSeq DEF StreamsType

\* A connection whose thread, or whose two ends, moved on.
LEMMA ConnUpdates ==
  ASSUME NEW r \in Conns
  PROVE  /\ \A p \in {"entering", "waiting", "returned"} :
               /\ [r EXCEPT !.pc = p] \in Conns
               /\ [r EXCEPT !.pc = p].stream = r.stream
               /\ [r EXCEPT !.pc = p].wire = r.wire
         /\ [r EXCEPT !.shut = TRUE] \in Conns
         /\ [r EXCEPT !.shut = TRUE].stream = r.stream
         /\ [r EXCEPT !.shut = TRUE].wire = r.wire
         /\ \A w \in Seq(Msgs) :
               /\ [r EXCEPT !.broken = TRUE, !.wire = w] \in Conns
               /\ [r EXCEPT !.broken = TRUE, !.wire = w].stream = r.stream
               /\ [r EXCEPT !.broken = TRUE, !.wire = w].wire = w
BY DEF Conns

LEMMA StreamsTypeStep ==
  ASSUME HardwareType, EventsType, StreamsType, PollType, Next
  PROVE  StreamsType'
<1> DEFINE Kept == /\ conns' = [c \in DOMAIN conns |-> conns'[c]]
                   /\ \A c \in DOMAIN conns :
                        /\ conns'[c] \in Conns /\ conns'[c].stream = conns[c].stream
                        /\ conns[c].stream = "values" => conns'[c].wire \in Seq(Events)
           ListedKept == /\ listed' \in [Streams -> SUBSET Nat]
                         /\ \A s \in Streams : \A c \in listed'[s] :
                              c \in DOMAIN conns /\ conns[c].stream = s
<1>1. ASSUME Kept, ListedKept PROVE StreamsType'
  BY <1>1, ConnsChanged DEF StreamsType
<1>2. UNCHANGED listed => ListedKept
  BY DEF StreamsType
<1>3. \A c \in DOMAIN conns : conns[c] \in Conns
  BY ConnType
<1>4. \A c \in DOMAIN conns : conns[c].stream = "values" => conns[c].wire \in Seq(Events)
  BY DEF StreamsType
<1>13. <<>> \in Seq(Msgs) /\ <<>> \in Seq(Events)
  OBVIOUS
<1>5. CASE UNCHANGED <<conns, listed>>
  BY <1>5 DEF StreamsType
<1>6. CASE \E e \in raised : OnVehiclePropChange(e)
  <2>1. PICK e \in raised : OnVehiclePropChange(e)
    BY <1>6
  <2>2. e \in Events
    BY DEF HardwareType
  <2>3. Kept /\ UNCHANGED listed
    BY <1>3, <1>4, <2>1, <2>2 DEF OnVehiclePropChange, Conns
  <2> QED
    BY <1>1, <1>2, <2>3
<1>7. CASE \E s \in Streams : writeToStream(s)
  <2>1. PICK s \in Streams : writeToStream(s)
    BY <1>7
  <2>2. /\ batch[s] # <<>> /\ batch[s] \in Seq(Msgs) /\ Head(batch[s]) \in Msgs
        /\ s = "values" => Head(batch[s]) \in Events
    BY <2>1, HeadTailProperties DEF writeToStream, EventsType
  <2>3. ListedKept
    BY <2>1 DEF writeToStream, StreamsType
  <2>4. \A c \in DOMAIN conns : \/ conns'[c] = conns[c]
                                \/ conns'[c] = [conns[c] EXCEPT !.shut = TRUE]
                                \/ /\ conns[c].stream = s
                                   /\ conns'[c] = [conns[c] EXCEPT !.wire = Append(@, Head(batch[s]))]
    BY <2>1 DEF writeToStream, StreamsType
  <2>5. \A c \in DOMAIN conns :
            /\ conns'[c] \in Conns /\ conns'[c].stream = conns[c].stream
            /\ conns[c].stream = "values" => conns'[c].wire \in Seq(Events)
    <3> SUFFICES ASSUME NEW c \in DOMAIN conns
                 PROVE  /\ conns'[c] \in Conns /\ conns'[c].stream = conns[c].stream
                        /\ conns[c].stream = "values" => conns'[c].wire \in Seq(Events)
      OBVIOUS
    <3>1. CASE conns'[c] = conns[c] \/ conns'[c] = [conns[c] EXCEPT !.shut = TRUE]
      BY <1>3, <1>4, <3>1 DEF Conns
    <3>2. CASE /\ conns[c].stream = s
               /\ conns'[c] = [conns[c] EXCEPT !.wire = Append(@, Head(batch[s]))]
      <4>1. conns[c].wire \in Seq(Msgs)
        BY <1>3 DEF Conns
      <4>2. Append(conns[c].wire, Head(batch[s])) \in Seq(Msgs)
        BY <2>2, <4>1, AppendProperties
      <4>3. s = "values" => Append(conns[c].wire, Head(batch[s])) \in Seq(Events)
        BY <1>4, <2>2, <3>2, AppendProperties
      <4> QED
        BY <1>3, <3>2, <4>2, <4>3 DEF Conns
    <3> QED
      BY <2>4, <3>1, <3>2
  <2>6. Kept
    BY <2>1, <2>5 DEF writeToStream
  <2> QED
    BY <1>1, <2>3, <2>6
<1>8. CASE \E s \in Streams : pollValue(s)
  <2>1. PICK s \in Streams : pollValue(s)
    BY <1>8
  <2>2. CASE UNCHANGED conns
    BY <2>1, <2>2, <1>5 DEF pollValue
  <2>3. CASE conns' = Append(conns, Connection(s, "entering"))
    <3>1. Connection(s, "entering") \in Conns /\ Connection(s, "entering").wire = <<>>
      BY DEF Connection, Conns
    <3>2. /\ conns' \in Seq(Conns) /\ Len(conns') = Len(conns) + 1
          /\ \A i \in 1 .. Len(conns) : conns'[i] = conns[i]
          /\ conns'[Len(conns) + 1] = Connection(s, "entering")
      BY <2>3, <3>1, AppendProperties DEF StreamsType
    <3>3. UNCHANGED listed /\ Len(conns) \in Nat
      BY <2>1 DEF pollValue, StreamsType
    <3>4. DOMAIN conns = 1 .. Len(conns) /\ DOMAIN conns' = 1 .. Len(conns) + 1
      BY <3>2, <3>3 DEF StreamsType
    <3>5. \A c \in DOMAIN conns' : conns'[c].stream = "values" => conns'[c].wire \in Seq(Events)
      <4> SUFFICES ASSUME NEW c \in DOMAIN conns', conns'[c].stream = "values"
                 PROVE  conns'[c].wire \in Seq(Events)
        OBVIOUS
    <4>1. c \in DOMAIN conns \/ c = Len(conns) + 1
      BY <3>3, <3>4
    <4>2. CASE c \in DOMAIN conns
      BY <1>4, <3>2, <3>4, <4>2
    <4>3. CASE c = Len(conns) + 1
      BY <1>13, <3>1, <3>2, <4>3
    <4> QED
      BY <4>1, <4>2, <4>3
    <3>6. \A t \in Streams : \A c \in listed'[t] : c \in DOMAIN conns' /\ conns'[c].stream = t
      <4> SUFFICES ASSUME NEW t \in Streams, NEW c \in listed[t]
                   PROVE  c \in DOMAIN conns' /\ conns'[c].stream = t
        BY <3>3
      <4>1. c \in 1 .. Len(conns) /\ conns[c].stream = t
        BY <3>4 DEF StreamsType
      <4>2. c \in 1 .. Len(conns) + 1
        BY <3>3, <4>1
      <4> QED
        BY <3>2, <3>4, <4>1, <4>2
    <3> QED
      BY <3>2, <3>3, <3>5, <3>6 DEF StreamsType
  <2> QED
    BY <2>1, <2>2, <2>3 DEF pollValue
<1>9. CASE \E s \in Streams : readStream(s)
  <2>1. PICK s \in Streams : readStream(s)
    BY <1>9
  <2> DEFINE c == poll[s].conn
  <2>2. c # 0 /\ Conn(s) = conns[c]
    BY <2>1 DEF readStream, Conn, Connection
  <2>3. c \in DOMAIN conns /\ conns[c].wire # <<>>
    BY <2>1, <2>2 DEF readStream, PollType
  <2>4. /\ conns[c].wire \in Seq(Msgs)
        /\ Tail(conns[c].wire) \in Seq(Msgs)
        /\ conns[c].stream = "values" => Tail(conns[c].wire) \in Seq(Events)
    BY <1>3, <1>4, <2>3, HeadTailProperties DEF Conns
  <2>5. Kept /\ UNCHANGED listed
    BY <1>3, <1>4, <2>1, <2>3, <2>4 DEF readStream, Conns
  <2> QED
    BY <1>1, <1>2, <2>5
<1>10. CASE \E c \in DOMAIN conns : startStream(c)
  <2>1. PICK c \in DOMAIN conns : startStream(c)
    BY <1>10
  <2>2. Kept
    BY <1>3, <1>4, <2>1 DEF startStream, Conns
  <2>3. c \in Nat
    BY DEF StreamsType
  <2>4. ListedKept
    BY <1>3, <2>1, <2>3 DEF startStream, StreamsType, Conns
  <2> QED
    BY <1>1, <2>2, <2>4
<1>11. CASE \E c \in DOMAIN conns : streamLost(c)
  <2>1. PICK c \in DOMAIN conns : streamLost(c)
    BY <1>11
  <2> DEFINE r == [conns[c] EXCEPT !.pc = "returned"]
  <2>2. conns' = [conns EXCEPT ![c] = r]
    BY <2>1 DEF streamLost
  <2>4. r \in Conns /\ r.stream = conns[c].stream /\ r.wire = conns[c].wire
    BY <1>3, ConnUpdates
  <2> HIDE DEF r
  <2>3. Kept
    BY <1>3, <1>4, <2>2, <2>4
  <2> QED
    BY <1>1, <1>2, <2>1, <2>3 DEF streamLost
<1>12. CASE \E c \in DOMAIN conns : disconnect(c)
  <2>1. PICK c \in DOMAIN conns : disconnect(c)
    BY <1>12
  <2> DEFINE r == [conns[c] EXCEPT !.broken = TRUE, !.wire = <<>>]
  <2>2. conns' = [conns EXCEPT ![c] = r]
    BY <2>1 DEF disconnect
  <2>4. r \in Conns /\ r.stream = conns[c].stream /\ r.wire = <<>>
    BY <1>3, <1>13, ConnUpdates
  <2> HIDE DEF r
  <2>3. Kept
    BY <1>3, <1>4, <1>13, <2>2, <2>4
  <2> QED
    BY <1>1, <1>2, <2>1, <2>3 DEF disconnect
<1>14. CASE shutdownConnections
  <2>1. Kept /\ UNCHANGED listed
    BY <1>3, <1>4, <1>14 DEF shutdownConnections, Conns
  <2> QED
    BY <1>1, <1>2, <2>1
<1>15. CASE close
  <2>1. /\ conns' = [c \in DOMAIN conns |-> conns'[c]]
        /\ \A c \in DOMAIN conns :
             \/ conns'[c] = conns[c]
             \/ conns'[c] = [conns[c] EXCEPT !.broken = TRUE, !.wire = <<>>]
    BY <1>15 DEF close
  <2>2. ASSUME NEW c \in DOMAIN conns
        PROVE  /\ conns'[c] \in Conns /\ conns'[c].stream = conns[c].stream
               /\ conns[c].stream = "values" => conns'[c].wire \in Seq(Events)
    <3> DEFINE r == [conns[c] EXCEPT !.broken = TRUE, !.wire = <<>>]
    <3>1. r \in Conns /\ r.stream = conns[c].stream /\ r.wire = <<>>
      BY <1>3, <1>13, ConnUpdates
    <3>2. conns'[c] = conns[c] \/ conns'[c] = r
      BY <2>1
    <3> HIDE DEF r
    <3> QED
      BY <1>3, <1>4, <1>13, <3>1, <3>2
  <2>3. UNCHANGED listed
    BY <1>15 DEF close
  <2> QED
    BY <1>1, <1>2, <2>1, <2>2, <2>3
<1> QED
  BY <1>5, <1>6, <1>7, <1>8, <1>9, <1>10, <1>11, <1>12, <1>14, <1>15, ConnsFrame

\* Connections come, and keep their stream; none goes.
LEMMA ConnsStay ==
  ASSUME HardwareType, EventsType, StreamsType, PollType, Next
  PROVE  \A c \in DOMAIN conns : c \in DOMAIN conns' /\ conns'[c].stream = conns[c].stream
<1>1. \A c \in DOMAIN conns : conns[c] \in Conns
  BY ConnType
<1>2. CASE UNCHANGED <<conns, listed>>
  BY <1>2
<1>3. CASE \E e \in raised : OnVehiclePropChange(e)
  BY <1>1, <1>3 DEF OnVehiclePropChange, Conns
<1>4. CASE \E s \in Streams : writeToStream(s)
  BY <1>1, <1>4 DEF writeToStream, Conns
<1>5. CASE \E s \in Streams : pollValue(s)
  <2>1. PICK s \in Streams : pollValue(s)
    BY <1>5
  <2>2. CASE UNCHANGED conns
    BY <2>2
  <2>3. CASE conns' = Append(conns, Connection(s, "entering"))
    BY <2>3 DEF StreamsType
  <2> QED
    BY <2>1, <2>2, <2>3 DEF pollValue
<1>6. CASE \E s \in Streams : readStream(s)
  BY <1>1, <1>6 DEF readStream, Conns
<1>7. CASE \E c \in DOMAIN conns : startStream(c)
  BY <1>1, <1>7 DEF startStream, Conns
<1>8. CASE \E c \in DOMAIN conns : streamLost(c)
  BY <1>1, <1>8 DEF streamLost, Conns
<1>9. CASE \E c \in DOMAIN conns : disconnect(c)
  BY <1>1, <1>9 DEF disconnect, Conns
<1>10. CASE shutdownConnections
  BY <1>1, <1>10 DEF shutdownConnections, Conns
<1>11. CASE close
  BY <1>1, <1>11 DEF close, Conns
<1> QED
  BY <1>2, <1>3, <1>4, <1>5, <1>6, <1>7, <1>8, <1>9, <1>10, <1>11, ConnsFrame

\* Where the polling thread is after it has read, or stamped, an event.
LEMMA ReadPoll ==
  ASSUME NEW s \in Streams, readStream(s)
  PROVE  \/ s = "supported" /\ UNCHANGED <<poll, clock, inHand>>
         \/ s = "values" /\ poll' = [poll EXCEPT !["values"].pc = "stamp"]
BY DEF readStream, Goto, Streams

LEMMA StampPoll ==
  ASSUME stampEvent
  PROVE  /\ poll["values"].pc = "stamp"
         /\ \/ /\ Stamp(inHand) = None /\ inHand' = None
               /\ poll' = [poll EXCEPT !["values"].pc = "reading"]
            \/ /\ Stamp(inHand) # None
               /\ poll' = [poll EXCEPT !["values"].pc = "hand"]
BY DEF stampEvent, Goto, At

LEMMA PollTypeStep ==
  ASSUME HardwareType, EventsType, StreamsType, PollType, Next
  PROVE  PollType'
<1> DEFINE Moved == /\ poll' \in [Streams -> PollStates]
                    /\ \A s \in Streams : poll'[s].conn = poll[s].conn
<1>1. ASSUME Moved PROVE PollType'
  BY <1>1, ConnsStay DEF PollType
<1>2. CASE UNCHANGED poll
  BY <1>1, <1>2 DEF PollType
<1>3. CASE \E s \in Streams : pollingLoop(s) \/ insertContext(s) \/ leaveStream(s)
  <2>1. Moved
    BY <1>3 DEF PollType, PollStates, pollingLoop, insertContext, leaveStream, Goto
  <2> QED
    BY <1>1, <2>1
<1>4. CASE \E s \in Streams : finishStream(s)
  <2>1. Moved
    BY <1>4 DEF PollType, PollStates, finishStream, Goto
  <2> QED
    BY <1>1, <2>1
<1>5. CASE \E s \in Streams : pollValue(s)
  <2>1. PICK s \in Streams : pollValue(s)
    BY <1>5
  <2>2. CASE poll' = [poll EXCEPT ![s] = [pc |-> "reading", conn |-> 0]]
    BY <2>2, ConnsStay DEF PollType, PollStates
  <2>3. CASE /\ conns' = Append(conns, Connection(s, "entering"))
             /\ poll' = [poll EXCEPT ![s] = [pc |-> "reading", conn |-> Len(conns')]]
    <3>1. /\ Len(conns') \in Nat /\ Len(conns') \in DOMAIN conns'
          /\ conns'[Len(conns')] = Connection(s, "entering")
      BY <2>3 DEF StreamsType
    <3>2. poll' \in [Streams -> PollStates]
      BY <2>3, <3>1 DEF PollType, PollStates
    <3>3. Connection(s, "entering").stream = s
      BY DEF Connection
    <3>4. ASSUME NEW t \in Streams, poll'[t].conn # 0
          PROVE  poll'[t].conn \in DOMAIN conns' /\ conns'[poll'[t].conn].stream = t
      <4>1. CASE t = s
        BY <2>3, <3>1, <3>3, <4>1 DEF PollType
      <4>2. CASE t # s
        BY <2>3, <3>4, <4>2, ConnsStay DEF PollType
      <4> QED
        BY <4>1, <4>2
    <3> QED
      BY <3>2, <3>4 DEF PollType
  <2> QED
    BY <2>1, <2>2, <2>3 DEF pollValue
<1>6. CASE \/ \E s \in Streams : readStream(s)
           \/ stampEvent \/ handEvent
  <2>1. Moved
    <3>1. \/ UNCHANGED poll
          \/ \E pc \in {"stamp", "hand", "reading"} :
                poll' = [poll EXCEPT !["values"].pc = pc]
      BY <1>6, ReadPoll, StampPoll DEF handEvent, Goto
    <3> QED
      BY <3>1 DEF PollType, PollStates, Streams
  <2> QED
    BY <1>1, <2>1
<1> QED
  BY <1>2, <1>3, <1>4, <1>5, <1>6, PollFrame

\* How the polling thread comes to hold an event.
LEMMA HoldFrame ==
  ASSUME PollType, Next, poll'["values"].pc \in {"stamp", "hand"}
  PROVE  poll'["values"].pc = poll["values"].pc \/ readStream("values") \/ stampEvent
<1>1. CASE UNCHANGED poll
  BY <1>1
<1>2. ASSUME NEW s \in Streams, NEW pc, pc \notin {"stamp", "hand"},
             poll' = [poll EXCEPT ![s].pc = pc]
      PROVE  poll'["values"].pc = poll["values"].pc
  <2>1. s # "values"
    BY <1>2 DEF PollType, PollStates
  <2> QED
    BY <1>2, <2>1 DEF PollType, Streams
<1>3. CASE \E s \in Streams : pollingLoop(s) \/ insertContext(s) \/ leaveStream(s)
  <2>1. PICK s \in Streams, pc \in {"ended", "insert", "start", "finish"} :
           poll' = [poll EXCEPT ![s].pc = pc]
    BY <1>3 DEF pollingLoop, insertContext, leaveStream, Goto
  <2>2. pc \notin {"stamp", "hand"}
    OBVIOUS
  <2> QED
    BY <1>2, <2>1, <2>2
<1>4. CASE \E s \in Streams : finishStream(s)
  BY <1>2, <1>4 DEF finishStream, Goto
<1>5. CASE \E s \in Streams : pollValue(s)
  <2>1. PICK s \in Streams, c \in {0, Len(conns')} :
           poll' = [poll EXCEPT ![s] = [pc |-> "reading", conn |-> c]]
    BY <1>5 DEF pollValue
  <2>2. s # "values"
    BY <2>1 DEF PollType
  <2> QED
    BY <2>1, <2>2 DEF PollType, Streams
<1>6. CASE \E s \in Streams : readStream(s)
  BY <1>6, ReadPoll
<1>7. CASE stampEvent \/ handEvent
  <2>1. CASE handEvent
    <3>1. "values" \in Streams /\ poll' = [poll EXCEPT !["values"].pc = "reading"]
      BY <2>1 DEF handEvent, Goto, Streams
    <3> QED
      BY <1>2, <3>1
  <2> QED
    BY <1>7, <2>1
<1> QED
  BY <1>1, <1>3, <1>4, <1>5, <1>6, <1>7, PollFrame

\* The head of what a polling thread reads.
LEMMA ReadHead ==
  ASSUME StreamsType, PollType, NEW s \in Streams, readStream(s)
  PROVE  /\ poll[s].conn \in DOMAIN conns /\ Conn(s) = conns[poll[s].conn]
         /\ s = "values" => /\ Conn(s).wire \in Seq(Events)
                            /\ Head(Conn(s).wire) \in Events
<1>1. poll[s].conn # 0 /\ Conn(s) = conns[poll[s].conn] /\ Conn(s).wire # <<>>
  BY DEF readStream, Conn, Connection
<1>2. poll[s].conn \in DOMAIN conns /\ conns[poll[s].conn].stream = s
  BY <1>1 DEF PollType
<1> QED
  BY <1>1, <1>2, HeadTailProperties DEF StreamsType

\* The time of a value that is not outdated: its own if the value was seen before,
\* otherwise the current one.
LEMMA StampCases ==
  ASSUME NEW k, NEW v, NEW latest, NEW now,
         setAndroidTimestamp(k, v, latest, now) # None
  PROVE  LET t == setAndroidTimestamp(k, v, latest, now)
         IN  \/ /\ latest[k] = None \/ v > latest[k].external
                /\ t = [external |-> v, android |-> now]
             \/ latest[k] # None /\ v = latest[k].external /\ t = latest[k]
BY DEF setAndroidTimestamp

LEMMA StampType ==
  ASSUME ValuesType, NEW k \in Keys, NEW v \in Nat, NEW now \in Nat,
         setAndroidTimestamp(k, v, mLatestUpdateTimestamps, now) # None
  PROVE  LET t == setAndroidTimestamp(k, v, mLatestUpdateTimestamps, now)
         IN  t \in Stamps /\ t.external = v
<1> DEFINE t == setAndroidTimestamp(k, v, mLatestUpdateTimestamps, now)
<1>1. mLatestUpdateTimestamps[k] \in Stamps \cup {None}
  BY DEF ValuesType
<1>2. CASE t = [external |-> v, android |-> now]
  BY <1>2 DEF Stamps
<1>3. CASE /\ mLatestUpdateTimestamps[k] # None /\ t = mLatestUpdateTimestamps[k]
           /\ v = mLatestUpdateTimestamps[k].external
  BY <1>1, <1>3
<1> QED
  BY <1>2, <1>3, StampCases

LEMMA StampFacts ==
  ASSUME ValuesType, NEW v \in Vals, Stamp(v) # None
  PROVE  LET t == Stamp(v)
             latest == mLatestUpdateTimestamps[v.key]
         IN  /\ t \in Stamps /\ t.external = v.version
             /\ latest # None => /\ latest.external =< v.version
                                 /\ latest.external = v.version => t = latest
<1> DEFINE t == Stamp(v)
           latest == mLatestUpdateTimestamps[v.key]
<1>1. v.key \in Keys /\ v.version \in Nat /\ v.time \in Nat
  BY DEF Vals
<1>2. t \in Stamps /\ t.external = v.version
  BY <1>1, StampType DEF Stamp
<1>3. \/ (latest = None \/ v.version > latest.external)
      \/ latest # None /\ v.version = latest.external /\ t = latest
  BY StampCases DEF Stamp
<1>4. latest # None => latest.external \in Nat
  BY <1>1 DEF ValuesType, Stamps
<1> QED
  BY <1>1, <1>2, <1>3, <1>4

\* A value with the time it was given.
LEMMA StampedType ==
  ASSUME NEW v \in Vals, NEW t \in Stamps
  PROVE  LET w == [v EXCEPT !.time = t.android]
         IN  /\ w \in Vals /\ w.key = v.key /\ w.version = v.version
             /\ w.time = t.android /\ w.after = v.after
BY DEF Vals, Stamps

LEMMA ValueType ==
  ASSUME ValuesType, NEW k \in Keys, NEW version \in Nat, NEW after \in Nat
  PROVE  Value(k, version, after) \in Vals /\ clock + 1 \in Nat
BY DEF ValuesType, Value, Vals

LEMMA ValuesTypeStep ==
  ASSUME StreamsType, PollType, ValuesType, RoundType, GetType, Next
  PROVE  ValuesType'
<1> DEFINE Typed == /\ clock' \in Nat
                    /\ mLatestUpdateTimestamps' \in [Keys -> Stamps \cup {None}]
                    /\ handed' \in Seq(Vals)
                    /\ inHand' \in Vals \cup {None}
           Held == poll'["values"].pc \in {"stamp", "hand"} => inHand' \in Vals
<1>1. ASSUME Typed, Held PROVE ValuesType'
  BY <1>1 DEF ValuesType
<1>2. ASSUME UNCHANGED inHand, ~stampEvent, ~readStream("values") PROVE Held
  BY <1>2, HoldFrame DEF ValuesType
<1>3. CASE UNCHANGED values
  <2>1. Typed
    BY <1>3 DEF ValuesType, values
  <2>2. ASSUME poll'["values"].pc \in {"stamp", "hand"} PROVE inHand' \in Vals
    <3>1. CASE stampEvent
      BY <1>3, <3>1 DEF stampEvent, At, ValuesType, values
    <3>2. CASE readStream("values")
      <4>1. clock' = clock + 1 /\ clock' = clock /\ clock \in Nat
        BY <1>3, <3>2 DEF readStream, values, ValuesType
      <4> QED
        BY <4>1
    <3> QED
      BY <1>3, <2>2, <3>1, <3>2, HoldFrame DEF ValuesType, values
  <2> QED
    BY <1>1, <2>1, <2>2
<1>4. CASE \E s \in Streams : readStream(s)
  <2>1. PICK s \in Streams : readStream(s)
    BY <1>4
  <2>2. CASE s = "values"
    <3> DEFINE e == Head(Conn(s).wire)
    <3>1. e[1] \in Keys /\ e[2] \in Nat /\ Len(handed) \in Nat
      BY <2>1, <2>2, ReadHead DEF Events, ValuesType
    <3>2. Value(e[1], e[2], Len(handed)) \in Vals /\ clock + 1 \in Nat
      BY <3>1, ValueType
    <3>3. /\ inHand' \in Vals /\ clock' \in Nat
          /\ UNCHANGED <<mLatestUpdateTimestamps, handed>>
      BY <2>1, <2>2, <3>2 DEF readStream
    <3> QED
      BY <1>1, <3>3 DEF ValuesType
  <2>3. CASE s = "supported"
    <3>1. UNCHANGED <<poll, clock, inHand, mLatestUpdateTimestamps, handed>>
      BY <2>1, <2>3 DEF readStream
    <3> QED
      BY <3>1 DEF ValuesType
  <2> QED
    BY <2>2, <2>3 DEF Streams
<1>5. CASE stampEvent
  <2>1. inHand \in Vals
    BY <1>5 DEF stampEvent, At, ValuesType
  <2>2. CASE Stamp(inHand) = None
    <3>1. poll'["values"].pc = "reading" /\ inHand' = None
      <4>1. poll' = [poll EXCEPT !["values"].pc = "reading"] /\ inHand' = None
        BY <1>5, <2>2, StampPoll
      <4> QED
        BY <4>1 DEF PollType, Streams
    <3>2. UNCHANGED <<clock, mLatestUpdateTimestamps, handed>>
      BY <1>5, <2>2, Zenon DEF stampEvent
    <3> QED
      BY <1>1, <3>1, <3>2 DEF ValuesType
  <2>3. CASE Stamp(inHand) # None
    <3>1. Stamp(inHand) \in Stamps
      BY <2>1, <2>3, StampFacts
    <3>2. [inHand EXCEPT !.time = Stamp(inHand).android] \in Vals
      BY <2>1, <3>1, StampedType
    <3>3. /\ inHand' = [inHand EXCEPT !.time = Stamp(inHand).android]
          /\ mLatestUpdateTimestamps' =
                [mLatestUpdateTimestamps EXCEPT ![inHand.key] = Stamp(inHand)]
          /\ UNCHANGED <<clock, handed>>
      BY <1>5, <2>3 DEF stampEvent
    <3>4. inHand' \in Vals
      BY <3>2, <3>3
    <3>5. mLatestUpdateTimestamps' \in [Keys -> Stamps \cup {None}]
      BY <3>1, <3>3 DEF ValuesType
    <3> QED
      BY <1>1, <3>3, <3>4, <3>5 DEF ValuesType
  <2> QED
    BY <2>2, <2>3
<1>6. CASE handEvent
  <2>1. inHand \in Vals
    BY <1>6 DEF handEvent, At, ValuesType
  <2>2. handed' \in Seq(Vals)
    BY <1>6, <2>1, AppendProperties DEF handEvent, ValuesType
  <2>3. poll'["values"].pc = "reading" /\ inHand' = None
    BY <1>6 DEF handEvent, Goto, PollType, Streams
  <2>4. UNCHANGED <<clock, mLatestUpdateTimestamps>>
    BY <1>6 DEF handEvent
  <2> QED
    BY <1>1, <2>2, <2>3, <2>4 DEF ValuesType
<1>7. CASE registerOnPropertyChangeEvent
  <2>1. UNCHANGED <<poll, clock, inHand, mLatestUpdateTimestamps, handed>>
    BY <1>7 DEF registerOnPropertyChangeEvent, polling
  <2> QED
    BY <2>1 DEF ValuesType
<1>8. CASE \E a \in get.answer : getResult(a)
  <2>1. UNCHANGED <<poll, inHand, mLatestUpdateTimestamps, handed>>
    BY <1>8 DEF getResult, polling
  <2>2. clock' \in Nat
    BY <1>8 DEF getResult, ValuesType
  <2> QED
    BY <2>1, <2>2 DEF ValuesType
<1>9. CASE stampResult
  <2> DEFINE v == round.inHand
  <2>1. v \in Vals
    BY <1>9 DEF stampResult, RoundType
  <2>2. UNCHANGED <<poll, clock, inHand, handed>>
    BY <1>9 DEF stampResult, polling
  <2>3. CASE Stamp(v) = None
    <3>1. UNCHANGED mLatestUpdateTimestamps
      BY <1>9, <2>3 DEF stampResult
    <3> QED
      BY <2>2, <3>1 DEF ValuesType
  <2>4. CASE Stamp(v) # None
    <3>1. Stamp(v) \in Stamps
      BY <2>1, <2>4, StampFacts
    <3>2. mLatestUpdateTimestamps' =
            [mLatestUpdateTimestamps EXCEPT ![v.key] = Stamp(v)]
      BY <1>9, <2>4 DEF stampResult
    <3>3. mLatestUpdateTimestamps' \in [Keys -> Stamps \cup {None}]
      BY <3>1, <3>2 DEF ValuesType
    <3> QED
      BY <2>2, <3>3 DEF ValuesType
  <2> QED
    BY <2>3, <2>4
<1>10. CASE getValuesReturns
  <2>1. UNCHANGED <<poll, clock, inHand, mLatestUpdateTimestamps>>
    BY <1>10 DEF getValuesReturns, polling
  <2>2. handed' \in Seq(Vals)
    BY <1>10, ConcatProperties DEF getValuesReturns, ValuesType, RoundType
  <2> QED
    BY <2>1, <2>2 DEF ValuesType
<1> QED
  BY <1>3, <1>4, <1>5, <1>6, <1>7, <1>8, <1>9, <1>10, ValuesFrame

-----------------------------------------------------------------------------
(* The rounds of a get.                                                        *)

\* One more result, of a key that has none.
LEMMA GotOne ==
  ASSUME GetType, NEW k \in Keys, <<k, 0>> \notin get.got
  PROVE  Got(k) = get.got \cup {<<k, 0>>}
<1>1. \A g \in get.got : g[2] = 0 /\ g = <<g[1], g[2]>>
  BY DEF GetType
<1>2. {g \in get.got : g[1] = k} = {}
  BY <1>1
<1>3. Cardinality({g \in get.got : g[1] = k}) = 0
  BY <1>2, FS_EmptySet
<1> QED
  BY <1>3, Zenon DEF Got

LEMMA GetTypeStep ==
  ASSUME HardwareType, ValuesType, RoundType, GetType, Next
  PROVE  RoundType' /\ GetType'
<1>1. CASE UNCHANGED <<get, round>>
  BY <1>1 DEF GetType, RoundType
<1>2. CASE \E ks \in SUBSET Used : getValues(ks)
  <2>1. Used \subseteq Keys
    BY NumKeysIsNat DEF HardwareType, Used, Keys, Inputs
  <2>2. PICK ks \in SUBSET Used : getValues(ks)
    BY <1>2
  <2>3. get' = [pc |-> "wire", ask |-> ks, got |-> {}, answer |-> {}]
    BY <2>2 DEF getValues, NoCall
  <2>4. round' = [results |-> <<>>, again |-> {}, inHand |-> None, after |-> Len(handed)]
    BY <2>2 DEF getValues, NoRound
  <2>5. Len(handed) \in Nat
    BY DEF ValuesType
  <2> QED
    BY <2>1, <2>3, <2>4, <2>5 DEF GetType, RoundType
<1>3. CASE \E k \in Keys : GetValues(k)
  <2>0. PICK k \in Keys : GetValues(k)
    BY <1>3
  <2>1. PICK v \in {hw[k], None} :
           /\ k \in get.ask \ {a[1] : a \in get.answer}
           /\ get' = [get EXCEPT !.answer = @ \cup {<<k, v>>},
                              !.pc = IF Cardinality(get.answer) + 1
                                          = Cardinality(get.ask)
                                     THEN "answered" ELSE "wire"]
    BY <2>0 DEF GetValues
  <2>2. v \in Nat \cup {None}
    BY DEF HardwareType
  <2> DEFINE pc == IF Cardinality(get.answer) + 1 = Cardinality(get.ask)
                   THEN "answered" ELSE "wire"
             more == get.answer \cup {<<k, v>>}
  <2>3. pc \in {"answered", "wire"} /\ more \subseteq Keys \X (Nat \cup {None})
    BY <2>2 DEF GetType
  <2>4. get' = [get EXCEPT !.answer = more, !.pc = pc]
    BY <2>1
  <2> HIDE DEF pc
  <2>5. /\ get' \in [pc : {"idle", "wire", "answered", "returned", "failed"},
                     ask : SUBSET Keys, got : SUBSET (Keys \X {0}),
                     answer : SUBSET (Keys \X (Nat \cup {None}))]
        /\ get'.answer = get.answer \cup {<<k, v>>} /\ get'.ask = get.ask
        /\ get'.got = get.got
    BY <2>3, <2>4 DEF GetType
  <2>6. /\ get.pc = "wire" /\ UNCHANGED round
        /\ round.again = {} /\ round.inHand = None
    BY <2>0 DEF GetValues, RoundType
  <2>7. \A a \in get.answer : a[1] # k
    BY <2>1
  <2>8. \A a, b \in get'.answer : a[1] = b[1] => a = b
    BY <2>5, <2>7 DEF GetType
  <2>9. /\ \A a \in get'.answer : a[1] \in get'.ask /\ <<a[1], 0>> \notin get'.got
        /\ \A x \in get'.ask : <<x, 0>> \notin get'.got
    BY <2>1, <2>5, <2>6 DEF GetType
  <2>10. GetType'
    BY <2>5, <2>6, <2>8, <2>9 DEF GetType
  <2>11. RoundType'
    BY <2>6 DEF RoundType
  <2> QED
    BY <2>10, <2>11
<1>4. CASE \E a \in get.answer : getResult(a)
  <2>1. PICK a \in get.answer : getResult(a)
    BY <1>4
  <2>2. /\ get.pc = "answered" /\ round.inHand = None /\ a[1] \in Keys
        /\ <<a[1], 0>> \notin get.got /\ a[1] \notin round.again
        /\ \A b \in get.answer \ {a} : b[1] # a[1]
    BY <2>1 DEF getResult, GetType
  <2>3. CASE a[2] = None
    <3>1. /\ get' = [get EXCEPT !.answer = @ \ {a}, !.got = @ \cup {<<a[1], 0>>}]
          /\ UNCHANGED round
      BY <2>1, <2>2, <2>3, GotOne DEF getResult
    <3>2. /\ get' \in [pc : {"idle", "wire", "answered", "returned", "failed"},
                     ask : SUBSET Keys, got : SUBSET (Keys \X {0}),
                     answer : SUBSET (Keys \X (Nat \cup {None}))]
          /\ get'.pc = "answered" /\ get'.answer = get.answer \ {a}
          /\ get'.got = get.got \cup {<<a[1], 0>>}
      <4>1. <<a[1], 0>> \in Keys \X {0} /\ get.answer \ {a} \subseteq Keys \X (Nat \cup {None})
        BY <2>2 DEF GetType
      <4> DEFINE got == get.got \cup {<<a[1], 0>>}
                 rest == get.answer \ {a}
      <4>2. got \subseteq Keys \X {0} /\ rest \subseteq Keys \X (Nat \cup {None})
        BY <4>1 DEF GetType
      <4>3. get' = [get EXCEPT !.answer = rest, !.got = got]
        BY <3>1
      <4> HIDE DEF got, rest
      <4>4. /\ get' \in [pc : {"idle", "wire", "answered", "returned", "failed"},
                     ask : SUBSET Keys, got : SUBSET (Keys \X {0}),
                     answer : SUBSET (Keys \X (Nat \cup {None}))]
            /\ get'.pc = "answered" /\ get'.answer = rest /\ get'.got = got
        BY <2>2, <4>2, <4>3 DEF GetType
      <4> QED
        BY <4>4 DEF got, rest
    <3>3. RoundType'
      BY <3>1, <3>2 DEF RoundType
    <3>4. \A x : <<x, 0>> \in get'.got => <<x, 0>> \in get.got \/ x = a[1]
      BY <3>2
    <3>5. GetType'
      BY <2>2, <3>1, <3>2, <3>4 DEF GetType
    <3> QED
      BY <3>3, <3>5
  <2>4. CASE a[2] # None
    <3> DEFINE v == Value(a[1], a[2], round.after)
    <3>1. /\ get' = [get EXCEPT !.answer = @ \ {a}]
          /\ round' = [round EXCEPT !.inHand = v]
      BY <2>1, <2>4 DEF getResult
    <3>2. v \in Vals
      BY <2>2, <2>4, ValueType DEF GetType, RoundType
    <3>3. v.key = a[1]
      BY DEF Value
    <3> HIDE DEF v
    <3>4. /\ get' \in [pc : {"idle", "wire", "answered", "returned", "failed"},
                     ask : SUBSET Keys, got : SUBSET (Keys \X {0}),
                     answer : SUBSET (Keys \X (Nat \cup {None}))]
          /\ get'.pc = "answered" /\ get'.answer = get.answer \ {a}
          /\ get'.got = get.got
      BY <2>2, <3>1 DEF GetType
    <3>5. RoundType' /\ round'.inHand = v /\ round'.again = round.again
      BY <3>1, <3>2, <3>4 DEF RoundType
    <3>6. GetType'
      BY <2>2, <3>3, <3>4, <3>5 DEF GetType
    <3> QED
      BY <3>5, <3>6
  <2> QED
    BY <2>3, <2>4
<1>5. CASE stampResult
  <2> DEFINE v == round.inHand
  <2>1. /\ get.pc = "answered" /\ v # None /\ v \in Vals /\ v.key \in Keys
        /\ <<v.key, 0>> \notin get.got /\ v.key \notin round.again
        /\ \A a \in get.answer : a[1] # v.key
    BY <1>5 DEF stampResult, GetType, RoundType, Vals
  <2>2. CASE Stamp(v) = None
    <3>1. /\ round' = [round EXCEPT !.inHand = None, !.again = @ \cup {v.key}]
          /\ UNCHANGED get
      BY <1>5, <2>2 DEF stampResult
    <3>2. /\ RoundType' /\ round'.inHand = None /\ round'.again = round.again \cup {v.key}
      BY <2>1, <3>1 DEF RoundType
    <3>3. GetType'
      BY <2>1, <3>1, <3>2 DEF GetType
    <3> QED
      BY <3>2, <3>3
  <2>3. CASE Stamp(v) # None
    <3> DEFINE w == [v EXCEPT !.time = Stamp(v).android]
    <3>1. w \in Vals
      <4>1. Stamp(v) \in Stamps
        BY <2>1, <2>3, StampFacts
      <4> QED
        BY <2>1, <4>1, StampedType
    <3>2. /\ round' = [round EXCEPT !.inHand = None, !.results = Append(@, w)]
          /\ get' = [get EXCEPT !.got = @ \cup {<<v.key, 0>>}]
      BY <1>5, <2>1, <2>3, GotOne DEF stampResult
    <3> HIDE DEF w
    <3>3. Append(round.results, w) \in Seq(Vals)
      BY <3>1, AppendProperties DEF RoundType
    <3>4. /\ get' \in [pc : {"idle", "wire", "answered", "returned", "failed"},
                     ask : SUBSET Keys, got : SUBSET (Keys \X {0}),
                     answer : SUBSET (Keys \X (Nat \cup {None}))]
          /\ get'.pc = "answered" /\ get'.answer = get.answer
          /\ get'.got = get.got \cup {<<v.key, 0>>}
      BY <2>1, <3>2 DEF GetType
    <3>5. RoundType' /\ round'.inHand = None /\ round'.again = round.again
      BY <3>2, <3>3, <3>4 DEF RoundType
    <3>6. \A x : <<x, 0>> \in get'.got => <<x, 0>> \in get.got \/ x = v.key
      BY <3>4
    <3>7. GetType'
      BY <2>1, <3>4, <3>5, <3>6 DEF GetType
    <3> QED
      BY <3>5, <3>7
  <2> QED
    BY <2>2, <2>3
<1>6. CASE getValuesWithRetry
  <2>1. /\ get.pc = "answered" /\ get.answer = {} /\ round.inHand = None
        /\ round' = [round EXCEPT !.again = {}]
    BY <1>6 DEF getValuesWithRetry
  <2>2. RoundType' /\ round'.inHand = None /\ round'.again = {}
    BY <2>1 DEF RoundType
  <2>3. CASE get' = [get EXCEPT !.pc = "returned"]
    BY <2>1, <2>2, <2>3 DEF GetType
  <2>4. CASE get' = [get EXCEPT !.pc = "wire", !.ask = round.again]
    <3>1. round.again \subseteq Keys
      BY DEF RoundType
    <3> QED
      BY <2>1, <2>2, <2>4, <3>1 DEF GetType
  <2> QED
    BY <1>6, <2>3, <2>4 DEF getValuesWithRetry
<1>7. CASE getValuesFailed \/ getValuesReturns
  <2>1. /\ get' = NoCall \/ get' = [NoCall EXCEPT !.pc = "failed"]
        /\ round' = NoRound
    BY <1>7 DEF getValuesFailed, getValuesReturns
  <2>2. RoundType' /\ round'.inHand = None /\ round'.again = {}
    BY <2>1 DEF RoundType, NoRound
  <2>3. CASE get' = NoCall
    BY <2>2, <2>3 DEF GetType, NoCall
  <2>4. CASE get' = [NoCall EXCEPT !.pc = "failed"]
    BY <2>2, <2>4 DEF GetType, NoCall
  <2> QED
    BY <2>1, <2>3, <2>4
<1> QED
  BY <1>1, <1>2, <1>3, <1>4, <1>5, <1>6, <1>7, GetFrame

LEMMA TypeStep ==
  ASSUME TypeInv, [Next]_vars
  PROVE  TypeInv'
<1>1. CASE Next
  BY <1>1, HardwareTypeStep, EventsTypeStep, StreamsTypeStep, PollTypeStep,
     ValuesTypeStep, GetTypeStep DEF TypeInv
<1>2. CASE UNCHANGED vars
  BY <1>2 DEF TypeInv, HardwareType, EventsType, StreamsType, PollType, ValuesType,
     RoundType, GetType, vars, hardware, events, streams, polling, values, calls
<1> QED
  BY <1>1, <1>2

THEOREM TypeCorrect == Spec => []TypeInv
BY TypeInit, TypeStep, PTL DEF Spec

-----------------------------------------------------------------------------
(* Order and times of what the VHAL is given.                                  *)

\* The values that have their time: given to the VHAL, results of the get that is
\* under way, and the event the polling thread is about to hand on.
Stamped == Range(handed) \cup Range(round.results)
           \cup (IF poll["values"].pc = "hand" THEN {inHand} ELSE {})

\* No stamped value is newer than the latest stamp of its key, and if it is as new
\* it has that time.
StampedKnown ==
  \A v \in Stamped :
    LET latest == mLatestUpdateTimestamps[v.key]
    IN  /\ latest # None /\ v.version =< latest.external
        /\ v.version = latest.external => v.time = latest.android

StampedOnce ==
  \A v, w \in Stamped : v.key = w.key /\ v.version = w.version => v.time = w.time

\* A stamped value is not older than what the VHAL had when the value was asked for
\* or read.
StampedLater ==
  \A v \in Stamped : \A i \in 1 .. v.after :
    i \in DOMAIN handed /\ (handed[i].key = v.key => handed[i].version =< v.version)

\* What a call that is under way remembers was there.
AfterInv ==
  /\ round.after =< Len(handed)
  /\ round.inHand # None => round.inHand.after =< Len(handed)
  /\ poll["values"].pc = "stamp" => inHand.after =< Len(handed)

OrderInv == StampedKnown /\ StampedOnce /\ StampedLater /\ AfterInv

LEMMA RangeAppend ==
  ASSUME NEW S, NEW q \in Seq(S), NEW x \in S
  PROVE  Range(Append(q, x)) = Range(q) \cup {x}
<1>1. /\ Append(q, x) \in Seq(S) /\ Len(Append(q, x)) = Len(q) + 1
      /\ \A i \in 1 .. Len(q) : Append(q, x)[i] = q[i]
      /\ Append(q, x)[Len(q) + 1] = x
  BY AppendProperties
<1>2. Len(q) \in Nat /\ DOMAIN q = 1 .. Len(q) /\ DOMAIN Append(q, x) = 1 .. Len(q) + 1
  BY <1>1, SeqElements
<1> QED
  BY <1>1, <1>2 DEF Range

LEMMA RangeTail ==
  ASSUME NEW S, NEW q \in Seq(S), q # <<>>
  PROVE  Range(q) = Range(Tail(q)) \cup {Head(q)}
<1>1. /\ Tail(q) \in Seq(S) /\ Len(Tail(q)) = Len(q) - 1 /\ Head(q) = q[1]
      /\ \A i \in 1 .. Len(q) - 1 : Tail(q)[i] = q[i + 1]
  BY HeadTailProperties
<1>2. /\ Len(q) \in Nat /\ Len(q) # 0 /\ DOMAIN q = 1 .. Len(q)
      /\ DOMAIN Tail(q) = 1 .. Len(q) - 1
  BY <1>1, SeqElements, EmptySeq, LenProperties
<1>3. \A i \in 1 .. Len(q) : i = 1 \/ (i - 1 \in 1 .. Len(q) - 1 /\ Tail(q)[i - 1] = q[i])
  BY <1>1, <1>2
<1>4. \A i \in 1 .. Len(q) - 1 : i + 1 \in 1 .. Len(q)
  BY <1>2
<1>5. ASSUME NEW x \in Range(q) PROVE x \in Range(Tail(q)) \cup {Head(q)}
  <2>1. PICK i \in 1 .. Len(q) : x = q[i]
    BY <1>2 DEF Range
  <2>2. CASE i = 1
    BY <1>1, <2>1, <2>2
  <2>3. CASE i - 1 \in DOMAIN Tail(q) /\ Tail(q)[i - 1] = x
    BY <2>3 DEF Range
  <2> QED
    BY <1>2, <1>3, <2>1, <2>2, <2>3
<1>6. ASSUME NEW x \in Range(Tail(q)) PROVE x \in Range(q)
  <2>1. PICK i \in 1 .. Len(q) - 1 : x = Tail(q)[i]
    BY <1>2 DEF Range
  <2> QED
    BY <1>1, <1>2, <1>4, <2>1 DEF Range
<1>7. Head(q) \in Range(q)
  BY <1>1, <1>2 DEF Range
<1> QED
  BY <1>5, <1>6, <1>7

LEMMA RangeConcat ==
  ASSUME NEW S, NEW p \in Seq(S), NEW q \in Seq(S)
  PROVE  Range(p \o q) \subseteq Range(p) \cup Range(q)
<1>1. p \in Seq(Range(p)) /\ q \in Seq(Range(q))
  <2>1. /\ Len(p) \in Nat /\ DOMAIN p = 1 .. Len(p) /\ p \in [1 .. Len(p) -> S]
        /\ Len(q) \in Nat /\ DOMAIN q = 1 .. Len(q) /\ q \in [1 .. Len(q) -> S]
    BY LenProperties
  <2>2. p \in [1 .. Len(p) -> Range(p)] /\ q \in [1 .. Len(q) -> Range(q)]
    BY <2>1 DEF Range
  <2> QED
    BY <2>1, <2>2, IsASeq
<1>2. /\ \A i \in DOMAIN p : (p \o q)[i] = p[i]
      /\ \A i \in DOMAIN (p \o q) \ DOMAIN p : (p \o q)[i] \in Range(q)
  BY <1>1, ConcatElements
<1> QED
  BY <1>2 DEF Range

LEMMA StampedVals ==
  ASSUME ValuesType, RoundType
  PROVE  Stamped \subseteq Vals
<1>1. Range(handed) \subseteq Vals
  <2>1. handed \in Seq(Vals)
    BY DEF ValuesType
  <2> QED
    BY <2>1, SeqElements DEF Range
<1>2. Range(round.results) \subseteq Vals
  <2>1. round.results \in Seq(Vals)
    BY DEF RoundType
  <2> QED
    BY <2>1, SeqElements DEF Range
<1>3. poll["values"].pc = "hand" => inHand \in Vals
  BY DEF ValuesType
<1> QED
  BY <1>1, <1>2, <1>3 DEF Stamped

\* Values that have their time go from hand to hand.
LEMMA StampedMoves ==
  ASSUME ValuesType, ValuesType', RoundType, OrderInv,
         Stamped' \subseteq Stamped, UNCHANGED mLatestUpdateTimestamps,
         Len(handed) =< Len(handed'), \A i \in DOMAIN handed : handed'[i] = handed[i]
  PROVE  StampedKnown' /\ StampedOnce' /\ StampedLater'
<1>1. /\ DOMAIN handed = 1 .. Len(handed) /\ Len(handed) \in Nat
      /\ DOMAIN handed' = 1 .. Len(handed') /\ Len(handed') \in Nat
  BY SeqElements DEF ValuesType
<1>2. StampedKnown'
  BY DEF OrderInv, StampedKnown
<1>3. StampedOnce'
  BY DEF OrderInv, StampedOnce
<1>4. DOMAIN handed \subseteq DOMAIN handed'
  BY <1>1
<1>5. StampedLater'
  BY <1>4 DEF OrderInv, StampedLater
<1> QED
  BY <1>2, <1>3, <1>5

\* A value is given its time.
LEMMA StampedGrows ==
  ASSUME ValuesType, RoundType, OrderInv, NEW v \in Vals, Stamp(v) # None,
         v.after =< Len(handed), UNCHANGED handed,
         Stamped' \subseteq Stamped \cup {[v EXCEPT !.time = Stamp(v).android]},
         mLatestUpdateTimestamps' = [mLatestUpdateTimestamps EXCEPT ![v.key] = Stamp(v)]
  PROVE  StampedKnown' /\ StampedOnce' /\ StampedLater'
<1> DEFINE L == mLatestUpdateTimestamps
           t == Stamp(v)
           w == [v EXCEPT !.time = t.android]
<1>1. /\ t \in Stamps /\ t # None /\ t.external = v.version
      /\ L[v.key] # None => /\ L[v.key].external =< v.version
                            /\ L[v.key].external = v.version => t = L[v.key]
  BY StampFacts
<1>2. /\ w \in Vals /\ w.key = v.key /\ w.version = v.version
      /\ w.time = t.android /\ w.after = v.after
  BY <1>1, StampedType
<1>3. \A u \in Stamped : u \in Vals
  BY StampedVals
<1>4. /\ \A u \in Vals : u.key \in Keys /\ u.version \in Nat /\ u.after \in Nat
      /\ \A u \in Stamps : u.external \in Nat
  BY DEF Vals, Stamps
<1>5. L'[v.key] = t /\ \A k \in Keys : k # v.key => L'[k] = L[k]
  BY <1>4 DEF ValuesType
<1>6. \A k \in Keys : L[k] # None => L[k].external \in Nat
  BY <1>4 DEF ValuesType
<1>7. Stamped' \subseteq Stamped \cup {w}
  OBVIOUS
<1> HIDE DEF w, t
<1>8. ASSUME NEW u \in Stamped, u.key = v.key
      PROVE  /\ u.version =< v.version
             /\ u.version = v.version => u.time = t.android
  <2>1. /\ L[u.key] # None /\ u.version =< L[u.key].external
        /\ u.version = L[u.key].external => u.time = L[u.key].android
    BY DEF OrderInv, StampedKnown
  <2>2. u.version \in Nat /\ v.version \in Nat /\ L[v.key].external \in Nat
    BY <1>3, <1>4, <1>6, <1>8, <2>1
  <2> QED
    BY <1>1, <1>8, <2>1, <2>2
<1>9. StampedKnown'
  <2> SUFFICES ASSUME NEW u \in Stamped'
               PROVE  /\ L'[u.key] # None /\ u.version =< L'[u.key].external
                      /\ u.version = L'[u.key].external => u.time = L'[u.key].android
    BY DEF StampedKnown
  <2>1. CASE u = w
    BY <1>1, <1>2, <1>4, <1>5, <2>1
  <2>2. CASE u \in Stamped /\ u.key = v.key
    BY <1>1, <1>5, <1>8, <2>2
  <2>3. CASE u \in Stamped /\ u.key # v.key
    <3>1. L'[u.key] = L[u.key]
      BY <1>3, <1>4, <1>5, <2>3
    <3> QED
      BY <2>3, <3>1 DEF OrderInv, StampedKnown
  <2> QED
    BY <1>7, <2>1, <2>2, <2>3
<1>10. StampedOnce'
  <2> SUFFICES ASSUME NEW x \in Stamped', NEW y \in Stamped', x.key = y.key,
                      x.version = y.version
               PROVE  x.time = y.time
    BY DEF StampedOnce
  <2>1. CASE x \in Stamped /\ y \in Stamped
    BY <2>1 DEF OrderInv, StampedOnce
  <2>2. CASE x = w
    BY <1>2, <1>7, <1>8, <2>2
  <2>3. CASE y = w
    BY <1>2, <1>7, <1>8, <2>3
  <2> QED
    BY <1>7, <2>1, <2>2, <2>3
<1>11. StampedLater'
  <2> SUFFICES ASSUME NEW u \in Stamped', NEW i \in 1 .. u.after
               PROVE  /\ i \in DOMAIN handed
                      /\ handed[i].key = u.key => handed[i].version =< u.version
    BY DEF StampedLater
  <2>1. CASE u \in Stamped
    BY <2>1 DEF OrderInv, StampedLater
  <2>2. CASE u = w
    <3>1. DOMAIN handed = 1 .. Len(handed) /\ Len(handed) \in Nat /\ v.after \in Nat
      BY <1>4, SeqElements DEF ValuesType
    <3>2. i \in DOMAIN handed
      BY <1>2, <2>2, <3>1
    <3>3. handed[i] \in Stamped
      BY <3>2 DEF Stamped, Range
    <3> QED
      BY <1>2, <1>8, <2>2, <3>2, <3>3
  <2> QED
    BY <1>7, <2>1, <2>2
<1> QED
  BY <1>9, <1>10, <1>11

LEMMA OrderStep ==
  ASSUME TypeInv, TypeInv', OrderInv, Next
  PROVE  OrderInv'
<1> USE DEF TypeInv
<1>1. /\ handed \in Seq(Vals) /\ Len(handed) \in Nat /\ DOMAIN handed = 1 .. Len(handed)
      /\ round.results \in Seq(Vals) /\ round.after \in Nat
  BY SeqElements DEF ValuesType, RoundType
<1> DEFINE Same == UNCHANGED <<handed, inHand, mLatestUpdateTimestamps>>
<1>2. ASSUME Same, ~stampEvent, Range(round'.results) \subseteq Range(round.results)
      PROVE  StampedKnown' /\ StampedOnce' /\ StampedLater'
  <2>1. poll'["values"].pc = "hand" => poll["values"].pc = "hand"
    <3> SUFFICES ASSUME poll'["values"].pc = "hand", poll["values"].pc # "hand"
                 PROVE FALSE
      OBVIOUS
    <3>1. readStream("values")
      BY <1>2, HoldFrame
    <3>2. poll' = [poll EXCEPT !["values"].pc = "stamp"]
      BY <3>1, ReadPoll DEF Streams
    <3> QED
      BY <3>2 DEF PollType, Streams
  <2>2. Stamped' \subseteq Stamped
    BY <1>2, <2>1 DEF Stamped
  <2> QED
    BY <1>1, <1>2, <2>2, StampedMoves
<1>3. ASSUME Same, UNCHANGED round, ~stampEvent, ~readStream("values") PROVE OrderInv'
  <2>1. poll'["values"].pc = "stamp" => poll["values"].pc = "stamp"
    BY <1>3, HoldFrame
  <2> QED
    BY <1>2, <1>3, <2>1 DEF OrderInv, AfterInv
<1>4. CASE stampEvent
  <2>1. /\ poll["values"].pc = "stamp" /\ inHand \in Vals /\ UNCHANGED <<handed, round>>
        /\ inHand.after =< Len(handed)
    BY <1>4, StampPoll DEF stampEvent, calls, ValuesType, OrderInv, AfterInv
  <2>2. CASE Stamp(inHand) = None
    <3>1. /\ poll' = [poll EXCEPT !["values"].pc = "reading"]
          /\ UNCHANGED mLatestUpdateTimestamps
      BY <1>4, <2>2, StampPoll, Zenon DEF stampEvent
    <3>2. poll'["values"].pc = "reading"
      BY <3>1 DEF PollType, Streams
    <3>3. Stamped' \subseteq Stamped
      BY <2>1, <3>2 DEF Stamped
    <3>4. StampedKnown' /\ StampedOnce' /\ StampedLater'
      BY <1>1, <2>1, <3>1, <3>3, StampedMoves
    <3> QED
      BY <2>1, <3>2, <3>4 DEF OrderInv, AfterInv
  <2>3. CASE Stamp(inHand) # None
    <3>1. /\ poll' = [poll EXCEPT !["values"].pc = "hand"]
          /\ inHand' = [inHand EXCEPT !.time = Stamp(inHand).android]
          /\ mLatestUpdateTimestamps' =
               [mLatestUpdateTimestamps EXCEPT ![inHand.key] = Stamp(inHand)]
      BY <1>4, <2>3, StampPoll DEF stampEvent
    <3>2. poll'["values"].pc = "hand"
      BY <3>1 DEF PollType, Streams
    <3>3. Stamped' \subseteq Stamped \cup {[inHand EXCEPT !.time = Stamp(inHand).android]}
      BY <2>1, <3>1, <3>2 DEF Stamped
    <3>4. StampedKnown' /\ StampedOnce' /\ StampedLater'
      BY <2>1, <2>3, <3>1, <3>3, StampedGrows
    <3> QED
      BY <2>1, <3>2, <3>4 DEF OrderInv, AfterInv
  <2> QED
    BY <2>2, <2>3
<1>5. CASE handEvent
  <2>1. /\ poll["values"].pc = "hand" /\ inHand \in Vals
        /\ UNCHANGED <<round, mLatestUpdateTimestamps>>
        /\ handed' = handed \/ handed' = Append(handed, inHand)
        /\ poll' = [poll EXCEPT !["values"].pc = "reading"]
    BY <1>5 DEF handEvent, At, Goto, calls, ValuesType
  <2>2. poll'["values"].pc = "reading"
    BY <2>1 DEF PollType, Streams
  <2>3. /\ Range(handed') \subseteq Range(handed) \cup {inHand}
        /\ Len(handed') \in Nat /\ Len(handed) =< Len(handed')
        /\ \A i \in DOMAIN handed : handed'[i] = handed[i]
    <3>1. CASE handed' = handed
      BY <1>1, <3>1
    <3>2. CASE handed' = Append(handed, inHand)
      <4>1. Range(Append(handed, inHand)) = Range(handed) \cup {inHand}
        BY <1>1, <2>1, RangeAppend
      <4> QED
        BY <1>1, <2>1, <3>2, <4>1, AppendProperties
    <3> QED
      BY <2>1, <3>1, <3>2
  <2>4. Stamped' \subseteq Stamped
    BY <2>1, <2>2, <2>3 DEF Stamped
  <2>5. StampedKnown' /\ StampedOnce' /\ StampedLater'
    BY <2>1, <2>3, <2>4, StampedMoves
  <2>6. AfterInv'
    <3>1. round.inHand # None => round.inHand.after \in Nat
      BY DEF RoundType, Vals
    <3> QED
      BY <1>1, <2>1, <2>2, <2>3, <3>1 DEF OrderInv, AfterInv
  <2> QED
    BY <2>5, <2>6 DEF OrderInv
<1>6. CASE \E s \in Streams : readStream(s)
  <2>1. PICK s \in Streams : readStream(s)
    BY <1>6
  <2>2. UNCHANGED <<handed, mLatestUpdateTimestamps, round>>
    BY <2>1 DEF readStream, calls
  <2>3. CASE s = "supported"
    <3>1. UNCHANGED <<poll, inHand>>
      BY <2>1, <2>3, ReadPoll
    <3> QED
      BY <2>2, <3>1 DEF OrderInv, AfterInv, StampedKnown, StampedOnce, StampedLater, Stamped
  <2>4. CASE s = "values"
    <3>1. poll' = [poll EXCEPT !["values"].pc = "stamp"]
      BY <2>1, <2>4, ReadPoll
    <3>2. poll'["values"].pc = "stamp"
      BY <3>1 DEF PollType, Streams
    <3>3. inHand'.after = Len(handed)
      BY <2>1, <2>4 DEF readStream, Value
    <3>4. Stamped' \subseteq Stamped
      BY <2>2, <3>2 DEF Stamped
    <3>5. StampedKnown' /\ StampedOnce' /\ StampedLater'
      BY <1>1, <2>2, <3>4, StampedMoves
    <3> QED
      BY <1>1, <2>2, <3>2, <3>3, <3>5 DEF OrderInv, AfterInv
  <2> QED
    BY <2>3, <2>4 DEF Streams
<1>7. CASE registerOnPropertyChangeEvent
  BY <1>7 DEF registerOnPropertyChangeEvent, polling, calls, OrderInv, AfterInv, StampedKnown,
     StampedOnce, StampedLater, Stamped
<1>8. CASE \E ks \in SUBSET Used : getValues(ks)
  <2>1. /\ UNCHANGED <<handed, inHand, mLatestUpdateTimestamps, poll>>
        /\ round' = [NoRound EXCEPT !.after = Len(handed)]
    BY <1>8 DEF getValues, values, polling
  <2>2. round'.results = <<>> /\ round'.after = Len(handed) /\ round'.inHand = None
    BY <2>1 DEF NoRound
  <2>3. Stamped' \subseteq Stamped
    BY <2>1, <2>2 DEF Stamped, Range
  <2>4. StampedKnown' /\ StampedOnce' /\ StampedLater'
    BY <1>1, <2>1, <2>3, StampedMoves
  <2> QED
    BY <1>1, <2>1, <2>2, <2>4 DEF OrderInv, AfterInv
<1>9. CASE \E a \in get.answer : getResult(a)
  <2>1. PICK a \in get.answer : getResult(a)
    BY <1>9
  <2>2. /\ UNCHANGED <<handed, inHand, mLatestUpdateTimestamps, poll>>
        /\ \/ UNCHANGED round
           \/ round' = [round EXCEPT !.inHand = Value(a[1], a[2], round.after)]
    BY <2>1 DEF getResult, polling
  <2>3. /\ round'.results = round.results /\ round'.after = round.after
        /\ round'.inHand = round.inHand \/ round'.inHand.after = round.after
    BY <2>2 DEF RoundType, Value
  <2>4. Stamped' \subseteq Stamped
    BY <2>2, <2>3 DEF Stamped
  <2>5. StampedKnown' /\ StampedOnce' /\ StampedLater'
    BY <1>1, <2>2, <2>4, StampedMoves
  <2> QED
    BY <2>2, <2>3, <2>5 DEF OrderInv, AfterInv
<1>10. CASE stampResult
  <2> DEFINE v == round.inHand
             w == [v EXCEPT !.time = Stamp(v).android]
  <2>1. /\ v \in Vals /\ v.after =< Len(handed)
        /\ UNCHANGED <<handed, inHand, poll>>
    BY <1>10 DEF stampResult, RoundType, OrderInv, AfterInv, polling
  <2>2. CASE Stamp(v) = None
    <3>1. /\ round' = [round EXCEPT !.inHand = None, !.again = @ \cup {v.key}]
          /\ UNCHANGED mLatestUpdateTimestamps
      BY <1>10, <2>2 DEF stampResult
    <3>2. /\ round'.results = round.results /\ round'.after = round.after
          /\ round'.inHand = None
      BY <3>1 DEF RoundType
    <3>3. Stamped' \subseteq Stamped
      BY <2>1, <3>2 DEF Stamped
    <3>4. StampedKnown' /\ StampedOnce' /\ StampedLater'
      BY <1>1, <2>1, <3>1, <3>3, StampedMoves
    <3> QED
      BY <2>1, <3>2, <3>4 DEF OrderInv, AfterInv
  <2>3. CASE Stamp(v) # None
    <3>1. /\ round' = [round EXCEPT !.inHand = None, !.results = Append(@, w)]
          /\ mLatestUpdateTimestamps' =
               [mLatestUpdateTimestamps EXCEPT ![v.key] = Stamp(v)]
      BY <1>10, <2>3 DEF stampResult
    <3>2. w \in Vals
      <4>1. Stamp(v) \in Stamps
        BY <2>1, <2>3, StampFacts
      <4> QED
        BY <2>1, <4>1, StampedType
    <3>3. Range(Append(round.results, w)) = Range(round.results) \cup {w}
      <4> HIDE DEF w
      <4> QED
        BY <1>1, <3>2, RangeAppend
    <3>4. /\ round'.results = Append(round.results, w) /\ round'.after = round.after
          /\ round'.inHand = None
      <4> HIDE DEF w
      <4> QED
        BY <3>1 DEF RoundType
    <3>5. Stamped' \subseteq Stamped \cup {w}
      <4> HIDE DEF w
      <4> QED
        BY <2>1, <3>3, <3>4 DEF Stamped
    <3>6. StampedKnown' /\ StampedOnce' /\ StampedLater'
      BY <2>1, <2>3, <3>1, <3>5, StampedGrows
    <3> QED
      BY <2>1, <3>4, <3>6 DEF OrderInv, AfterInv
  <2> QED
    BY <2>2, <2>3
<1>11. CASE getValuesWithRetry \/ getValuesFailed
  <2>1. /\ UNCHANGED <<handed, inHand, mLatestUpdateTimestamps, poll>>
        /\ round' = [round EXCEPT !.again = {}] \/ round' = NoRound
    BY <1>11 DEF getValuesWithRetry, getValuesFailed, values, polling
  <2>2. /\ round'.results = round.results \/ round'.results = <<>>
        /\ round'.after = round.after \/ round'.after = 0
        /\ round'.inHand = round.inHand \/ round'.inHand = None
    BY <2>1 DEF RoundType, NoRound
  <2>3. Stamped' \subseteq Stamped
    BY <2>1, <2>2 DEF Stamped, Range
  <2>4. StampedKnown' /\ StampedOnce' /\ StampedLater'
    BY <1>1, <2>1, <2>3, StampedMoves
  <2> QED
    BY <1>1, <2>1, <2>2, <2>4 DEF OrderInv, AfterInv
<1>12. CASE getValuesReturns
  <2>1. /\ UNCHANGED <<inHand, mLatestUpdateTimestamps, poll>>
        /\ handed' = handed \o round.results /\ round' = NoRound
    BY <1>12 DEF getValuesReturns, polling
  <2>2. round'.results = <<>> /\ round'.after = 0 /\ round'.inHand = None
    BY <2>1 DEF NoRound
  <2>3. /\ Range(handed') \subseteq Range(handed) \cup Range(round.results)
        /\ Len(handed') \in Nat /\ Len(handed) =< Len(handed')
        /\ \A i \in DOMAIN handed : handed'[i] = handed[i]
    <3>1. Range(handed \o round.results) \subseteq Range(handed) \cup Range(round.results)
      BY <1>1, RangeConcat
    <3>2. /\ Len(handed \o round.results) = Len(handed) + Len(round.results)
          /\ \A i \in DOMAIN handed : (handed \o round.results)[i] = handed[i]
      BY <1>1, ConcatElements
    <3>3. Len(round.results) \in Nat
      BY <1>1, SeqElements
    <3> QED
      BY <1>1, <2>1, <3>1, <3>2, <3>3
  <2>4. Stamped' \subseteq Stamped
    BY <2>1, <2>2, <2>3 DEF Stamped, Range
  <2>5. StampedKnown' /\ StampedOnce' /\ StampedLater'
    BY <2>1, <2>3, <2>4, StampedMoves
  <2>6. AfterInv'
    <3>1. poll["values"].pc = "stamp" => inHand.after \in Nat
      BY DEF ValuesType, Vals
    <3> QED
      BY <1>1, <2>1, <2>2, <2>3, <3>1 DEF OrderInv, AfterInv
  <2> QED
    BY <2>5, <2>6 DEF OrderInv
<1>13. CASE UNCHANGED values /\ (UNCHANGED <<get, round>> \/ \E k \in Keys : GetValues(k))
  <2>1. UNCHANGED <<handed, inHand, mLatestUpdateTimestamps, round>>
    BY <1>13 DEF values, GetValues
  <2>2. CASE stampEvent \/ readStream("values")
    BY <1>4, <1>6, <2>2 DEF Streams
  <2> QED
    BY <1>3, <2>1, <2>2
<1> QED
  BY <1>4, <1>5, <1>6, <1>7, <1>8, <1>9, <1>10, <1>11, <1>12, <1>13, ValuesFrame, GetFrame

\* What reaches the VHAL through the events' callback and through getValues does not
\* go back, as far as a caller can tell, and a change has one time, whatever the two
\* threads do between reading the clock, taking the mutex of
\* mLatestUpdateTimestamps and calling back.
THEOREM OrderCorrect == Spec => []HandedInOrder
<1> DEFINE Inv == TypeInv /\ OrderInv
<1>1. Init => Inv
  <2> SUFFICES ASSUME Init PROVE OrderInv
    BY TypeInit
  <2>1. Stamped = {}
    BY DEF Init, Stamped, NoRound, Range, Streams
  <2>2. AfterInv
    BY DEF Init, AfterInv, NoRound, Streams
  <2> QED
    BY <2>1, <2>2 DEF OrderInv, StampedKnown, StampedOnce, StampedLater
<1>2. Inv /\ [Next]_vars => Inv'
  <2> SUFFICES ASSUME Inv, [Next]_vars PROVE Inv'
    OBVIOUS
  <2>1. CASE Next
    BY <2>1, TypeStep, OrderStep
  <2>2. CASE UNCHANGED vars
    BY <2>2, TypeStep
       DEF vars, values, calls, polling, OrderInv, AfterInv, StampedKnown, StampedOnce,
           StampedLater, Stamped
  <2> QED
    BY <2>1, <2>2
<1>3. Inv => HandedInOrder
  <2> SUFFICES ASSUME Inv PROVE HandedInOrder
    OBVIOUS
  <2>1. \A i \in DOMAIN handed : handed[i] \in Stamped
    BY DEF Stamped, Range
  <2> QED
    BY <2>1 DEF OrderInv, StampedOnce, StampedLater, HandedInOrder, NothingGoesBack,
       OneTimePerChange
<1> QED
  BY <1>1, <1>2, <1>3, PTL DEF Spec

-----------------------------------------------------------------------------
(* Calls.                                                                      *)

\* A set is answered after it was carried out, and returns with its last answer.
SetInv ==
  /\ set \in [pc : {"idle", "wire", "abandoned", "returned"}, ask : SUBSET Keys,
              got : SUBSET Keys, answer : SUBSET Keys]
  /\ set.answer \subseteq set.got /\ set.got \subseteq set.ask
  /\ SetAnswerComplete

LEMMA SetStep ==
  ASSUME HardwareType, SetInv, Next
  PROVE  SetInv'
<1> USE DEF SetInv, SetAnswerComplete
<1>1. CASE UNCHANGED set
  BY <1>1
<1>2. CASE \E ks \in SUBSET Used : setValues(ks)
  <2>1. Used \subseteq Keys
    BY NumKeysIsNat DEF HardwareType, Used, Keys, Inputs
  <2>2. PICK ks \in SUBSET Used : setValues(ks)
    BY <1>2
  <2>3. set' = [pc |-> "wire", ask |-> ks, got |-> {}, answer |-> {}]
    BY <2>2 DEF setValues, NoCall
  <2> QED
    BY <2>1, <2>3
<1>3. CASE \E k \in Keys : hardwareSets(k)
  BY <1>3 DEF hardwareSets
<1>4. CASE \E k \in Keys : SetValues(k)
  <2>1. PICK k \in Keys : SetValues(k)
    BY <1>4
  <2> DEFINE pc == IF set.pc = "wire" /\ set.answer \cup {k} = set.ask
                   THEN "returned" ELSE set.pc
  <2>2. /\ set.pc \in {"wire", "abandoned"} /\ k \in set.got
        /\ set' = [set EXCEPT !.answer = @ \cup {k}, !.pc = pc]
    BY <2>1 DEF SetValues
  <2>3. /\ pc \in {"wire", "abandoned", "returned"}
        /\ pc = "returned" => set.answer \cup {k} = set.ask
    BY <2>2
  <2> HIDE DEF pc
  <2> QED
    BY <2>2, <2>3
<1>5. CASE setValuesFailed
  BY <1>5 DEF setValuesFailed
<1>6. CASE setValuesReturns
  BY <1>6 DEF setValuesReturns, NoCall
<1> QED
  BY <1>1, <1>2, <1>3, <1>4, <1>5, <1>6, SetFrame

LEMMA ToldStep ==
  ASSUME HardwareType, ToldIsTrue, Next
  PROVE  ToldIsTrue'
<1>1. Legacy' = Legacy
  <2>1. budget'["legacy"] = budget["legacy"]
    <3>1. CASE UNCHANGED budget
      BY <3>1
    <3>2. CASE \E op \in Inputs \ {"keys", "legacy"} : Spend(op)
      BY <3>2 DEF HardwareType, Spend, Inputs
    <3> QED
      BY <3>1, <3>2, BudgetFrame
  <2> QED
    BY <2>1 DEF Legacy
<1>2. CASE UNCHANGED <<told, subscribed>>
  BY <1>1, <1>2 DEF ToldIsTrue
<1>3. ASSUME NEW op, NEW m, NEW n, Unary(op, m, n),
             op \notin {"subscribe", "unsubscribe"}
      PROVE  ToldIsTrue'
  <2>1. told'.op = op
    BY <1>3 DEF Unary, Tell
  <2> QED
    BY <1>3, <2>1 DEF ToldIsTrue
<1>4. CASE subscribe \/ unsubscribe
  <2>1. CASE Legacy
    BY <1>1, <2>1 DEF ToldIsTrue
  <2>2. CASE ~Legacy
    <3>1. PICK op \in {"subscribe", "unsubscribe"} : Unary(op, 0, 0)
      BY <1>4, <2>2 DEF subscribe, unsubscribe, Unimplemented
    <3>2. CASE told'.status # "OK"
      BY <3>2 DEF ToldIsTrue
    <3>3. CASE told'.status = "OK"
      <4>1. serve(op) /\ told'.op = op
        BY <3>1, <3>3 DEF Unary, Tell
      <4>2. subscribed' = (op = "subscribe")
        BY <4>1 DEF serve
      <4> QED
        BY <4>1, <4>2 DEF ToldIsTrue
    <3> QED
      BY <3>2, <3>3
  <2> QED
    BY <2>1, <2>2
<1>5. CASE updateSampleRate \/ checkHealth \/ dump
  BY <1>3, <1>5 DEF updateSampleRate, checkHealth, dump
<1>6. CASE \E n \in {1, NumKeys} : getMinMaxSupportedValues(n) \/ getSupportedValuesLists(n)
  BY <1>3, <1>6 DEF getMinMaxSupportedValues, getSupportedValuesLists
<1>7. CASE \E n \in {1, NumKeys} : getAllPropertyConfigs(n)
  <2>1. told'.op = "getAllPropertyConfigs"
    BY <1>7 DEF getAllPropertyConfigs, Tell
  <2> QED
    BY <2>1 DEF ToldIsTrue
<1> QED
  BY <1>2, <1>4, <1>5, <1>6, <1>7, ToldFrame DEF UnaryCall

\* A call over the bridge that succeeds did what it says, whatever was lost, timed
\* out or asked again: each get is reported once, each set was carried out, and the
\* hardware is subscribed as the VHAL was told.
THEOREM AnswersCorrect == Spec => []AnswersAreTrue
<1> DEFINE Inv == TypeInv /\ SetInv /\ ToldIsTrue
<1>1. Init => Inv
  <2> SUFFICES ASSUME Init PROVE Inv
    OBVIOUS
  <2>1. SetInv
    BY DEF Init, SetInv, SetAnswerComplete, NoCall
  <2>2. ToldIsTrue
    BY DEF Init, ToldIsTrue
  <2> QED
    BY <2>1, <2>2, TypeInit
<1>2. Inv /\ [Next]_vars => Inv'
  <2> SUFFICES ASSUME Inv, [Next]_vars PROVE Inv'
    OBVIOUS
  <2>1. CASE Next
    BY <2>1, TypeStep, SetStep, ToldStep DEF TypeInv
  <2>2. CASE UNCHANGED vars
    BY <2>2, TypeStep DEF vars, hardware, calls, SetInv, SetAnswerComplete, ToldIsTrue,
       Legacy
  <2> QED
    BY <2>1, <2>2
<1>3. Inv => AnswersAreTrue
  <2> SUFFICES ASSUME Inv PROVE AnswersAreTrue
    OBVIOUS
  <2>1. EveryGetOnce
    BY DEF TypeInv, GetType, EveryGetOnce
  <2> QED
    BY <2>1 DEF SetInv, AnswersAreTrue
<1> QED
  BY <1>1, <1>2, <1>3, PTL DEF Spec

-----------------------------------------------------------------------------
(* Delivery.                                                                   *)

\* A value stream is in the list from the time its handler waits until it is shut
\* down, and is owed nothing before; an idle writer has nothing in its hands.
ListedInv ==
  /\ \A c \in DOMAIN conns : conns[c].stream = "values" =>
        /\ conns[c].pc = "waiting" /\ ~conns[c].shut => c \in listed["values"]
        /\ conns[c].pc = "entering" => conns[c].due = {} /\ c \notin listed["values"]
  /\ writer = "idle" => batch["values"] = <<>>

Seen(e) ==
  /\ mLatestUpdateTimestamps[e[1]] # None
  /\ mLatestUpdateTimestamps[e[1]].external >= e[2]

Delivering(c) == /\ conns[c].stream = "values" /\ conns[c].pc = "waiting"
                 /\ ~conns[c].broken /\ ~conns[c].shut

OnTheWay(c, e) == \/ e \in Range(queue["values"]) \/ e \in Range(batch["values"])
                  \/ e \in Range(conns[c].wire)

\* The polling thread has it in hand, or has taken it into account.
Received(e) ==
  \/ poll["values"].pc = "stamp" /\ e = <<inHand.key, inHand.version>>
  \/ Seen(e)

\* What a stream is owed is queued, in the writer's hands, on the wire, or received.
OwedInv ==
  \A c \in DOMAIN conns : Delivering(c) =>
    \A e \in conns[c].due : OnTheWay(c, e) \/ Received(e)

\* A stamp is only replaced by a later one.
LEMMA SeenStays ==
  ASSUME TypeInv, Next, NEW e \in Events, Seen(e)
  PROVE  Seen(e)'
<1> USE DEF TypeInv
<1> DEFINE L == mLatestUpdateTimestamps
<1>1. e[1] \in Keys /\ e[2] \in Nat /\ L[e[1]] \in Stamps /\ L[e[1]] # None /\ Len(handed) \in Nat
  BY DEF Events, Seen, ValuesType
<1>2. ASSUME NEW v \in Vals, Stamp(v) # None, L' = [L EXCEPT ![v.key] = Stamp(v)]
      PROVE  Seen(e)'
  <2>1. /\ v.key \in Keys /\ v.version \in Nat /\ Stamp(v).external = v.version
        /\ L[v.key] # None => L[v.key].external =< v.version
    BY <1>2, StampFacts DEF Vals
  <2>2. CASE v.key = e[1]
    <3>1. L'[e[1]] = Stamp(v)
      BY <1>1, <1>2, <2>2 DEF ValuesType
    <3> QED
      BY <1>1, <1>2, <2>1, <2>2, <3>1 DEF Seen, Stamps
  <2>3. CASE v.key # e[1]
    <3>1. L'[e[1]] = L[e[1]]
      BY <1>1, <1>2, <2>3 DEF ValuesType
    <3> QED
      BY <3>1 DEF Seen
  <2> QED
    BY <2>2, <2>3
<1>3. CASE UNCHANGED mLatestUpdateTimestamps
  BY <1>3 DEF Seen
<1>4. CASE stampEvent
  <2>1. inHand \in Vals
    BY <1>4, StampPoll DEF ValuesType
  <2> QED
    BY <1>2, <1>3, <1>4, <2>1 DEF stampEvent
<1>5. CASE stampResult
  <2>1. round.inHand \in Vals
    BY <1>5 DEF stampResult, RoundType
  <2> QED
    BY <1>2, <1>3, <1>5, <2>1 DEF stampResult
<1>6. CASE \/ \E s \in Streams : readStream(s)
           \/ handEvent \/ registerOnPropertyChangeEvent
           \/ \E a \in get.answer : getResult(a)
           \/ getValuesReturns
  BY <1>3, <1>6 DEF readStream, handEvent, registerOnPropertyChangeEvent, getResult,
     getValuesReturns
<1> QED
  BY <1>3, <1>4, <1>5, <1>6, ValuesFrame DEF values

\* An event is stamped after it was read, unless something newer was seen.
LEMMA ReceivedStays ==
  ASSUME TypeInv, Next, NEW e \in Events, Received(e)
  PROVE  Received(e)'
<1> USE DEF TypeInv
<1>1. CASE Seen(e)
  BY <1>1, SeenStays DEF Received
<1>2. CASE poll["values"].pc = "stamp" /\ e = <<inHand.key, inHand.version>>
  <2>1. inHand \in Vals /\ inHand.key \in Keys /\ inHand.version \in Nat
    BY <1>2 DEF ValuesType, Vals
  <2>2. CASE stampEvent
    <3> DEFINE L == mLatestUpdateTimestamps
    <3>1. CASE Stamp(inHand) = None
      <4>1. UNCHANGED L
        BY <2>2, <3>1, Zenon DEF stampEvent
      <4>2. L[inHand.key] # None /\ ~(inHand.version > L[inHand.key].external)
        <5>1. [external |-> inHand.version, android |-> inHand.time] # None
          BY <2>1, NoneIsNoStamp DEF Vals
        <5> QED
          BY <3>1, <5>1 DEF Stamp, setAndroidTimestamp
      <4>3. L[inHand.key].external \in Nat
        BY <2>1, <4>2 DEF ValuesType, Stamps
      <4>4. L[e[1]] # None /\ L[e[1]].external >= e[2]
        BY <1>2, <2>1, <4>2, <4>3
      <4> QED
        BY <4>1, <4>4 DEF Received, Seen
    <3>2. CASE Stamp(inHand) # None
      <4>1. Stamp(inHand).external = inHand.version
        BY <2>1, <3>2, StampFacts
      <4>2. L' = [L EXCEPT ![inHand.key] = Stamp(inHand)]
        BY <2>2, <3>2 DEF stampEvent
      <4>3. L'[inHand.key] = Stamp(inHand)
        BY <2>1, <4>2 DEF ValuesType
      <4>4. L'[e[1]] # None /\ L'[e[1]].external >= e[2]
        BY <1>2, <2>1, <3>2, <4>1, <4>3
      <4> QED
        BY <4>4 DEF Received, Seen
    <3> QED
      BY <3>1, <3>2
  <2>3. CASE ~stampEvent
    <3>1. ~handEvent /\ ~readStream("values")
      BY <1>2 DEF handEvent, readStream, At
    <3>2. poll'["values"] = poll["values"]
      <4>1. CASE UNCHANGED poll
        BY <4>1
      <4>2. ASSUME NEW s \in Streams, NEW p, poll[s].pc # "stamp", poll' = [poll EXCEPT ![s] = p]
            PROVE  poll'["values"] = poll["values"]
        BY <1>2, <4>2 DEF PollType, Streams
      <4>3. CASE \E s \in Streams : \/ pollingLoop(s) \/ insertContext(s) \/ leaveStream(s)
                                    \/ finishStream(s) \/ pollValue(s)
        <5>1. PICK s \in Streams : \/ pollingLoop(s) \/ insertContext(s) \/ leaveStream(s)
                                   \/ finishStream(s) \/ pollValue(s)
          BY <4>3
        <5>2. poll[s].pc # "stamp"
          BY <5>1 DEF pollingLoop, insertContext, leaveStream, finishStream, pollValue, At
        <5>3. \E p : poll' = [poll EXCEPT ![s] = p]
          BY <5>1 DEF pollingLoop, insertContext, leaveStream, finishStream, pollValue, Goto
        <5> QED
          BY <4>2, <5>2, <5>3
      <4>4. CASE \E s \in Streams : readStream(s)
        BY <3>1, <4>1, <4>4, ReadPoll
      <4> QED
        BY <2>3, <3>1, <4>1, <4>3, <4>4, PollFrame
    <3>3. UNCHANGED inHand
      <4>1. CASE \E s \in Streams : readStream(s)
        BY <3>1, <4>1, ReadPoll
      <4>2. CASE \/ registerOnPropertyChangeEvent
                 \/ \E a \in get.answer : getResult(a)
                 \/ stampResult \/ getValuesReturns
        BY <4>2 DEF registerOnPropertyChangeEvent, getResult, stampResult, getValuesReturns
      <4> QED
        BY <2>3, <3>1, <4>1, <4>2, ValuesFrame DEF values
    <3> QED
      BY <1>2, <3>2, <3>3 DEF Received
  <2> QED
    BY <2>2, <2>3
<1> QED
  BY <1>1, <1>2 DEF Received

\* The steps that touch neither the connections nor the queues.
LEMMA DeliveryFrame ==
  ASSUME Next
  PROVE  \/ UNCHANGED <<conns, listed, queue, batch, writer>>
         \/ (\E e \in raised : OnVehiclePropChange(e)) \/ OnSupportedValuesChange
         \/ eventWriterLoop \/ (\E s \in Streams : writeToStream(s)) \/ writerRound
         \/ \E s \in Streams : pollValue(s) \/ readStream(s)
         \/ \E c \in DOMAIN conns : startStream(c) \/ streamLost(c) \/ disconnect(c)
         \/ shutdownConnections \/ close
BY ConnsFrame, QueuesFrame

\* A stream that goes on delivering did so before, or has just been opened.
\* Nothing it is owed is lost while events move from one place to the next.
LEMMA OwedMoves ==
  ASSUME TypeInv, OwedInv, Next,
         \A c \in DOMAIN conns' : Delivering(c)' =>
            \/ conns'[c].due = {}
            \/ /\ c \in DOMAIN conns /\ Delivering(c)
               /\ \A e \in conns'[c].due : \/ e \in conns[c].due
                                           \/ OnTheWay(c, e)' \/ Received(e)'
               /\ \A e \in Events : OnTheWay(c, e) => OnTheWay(c, e)' \/ Received(e)'
  PROVE  OwedInv'
<1> SUFFICES ASSUME NEW c \in DOMAIN conns', Delivering(c)', NEW e \in conns'[c].due
             PROVE  OnTheWay(c, e)' \/ Received(e)'
  BY DEF OwedInv
<1>1. /\ c \in DOMAIN conns /\ Delivering(c)
      /\ \/ e \in conns[c].due
         \/ OnTheWay(c, e)' \/ Received(e)'
      /\ \A x \in Events : OnTheWay(c, x) => OnTheWay(c, x)' \/ Received(x)'
  OBVIOUS
<1>2. CASE e \in conns[c].due
  <2>1. e \in Events
    BY <1>1, <1>2, ConnType DEF TypeInv, Conns
  <2>2. OnTheWay(c, e) \/ Received(e)
    BY <1>1, <1>2 DEF OwedInv
  <2> QED
    BY <1>1, <2>1, <2>2, ReceivedStays
<1> QED
  BY <1>1, <1>2

\* What a thread reads it has in hand.
LEMMA ReadIsReceived ==
  ASSUME TypeInv, readStream("values"), NEW e, e = Head(Conn("values").wire)
  PROVE  Received(e)'
<1>1. e \in Events /\ e = <<e[1], e[2]>>
  BY ReadHead DEF TypeInv, Events, Streams
<1>2. poll' = [poll EXCEPT !["values"].pc = "stamp"]
  BY ReadPoll DEF Streams
<1>3. poll'["values"].pc = "stamp"
  BY <1>2 DEF TypeInv, PollType, Streams
<1>4. inHand' = Value(e[1], e[2], Len(handed))
  BY DEF readStream
<1>5. inHand'.key = e[1] /\ inHand'.version = e[2]
  BY <1>4 DEF Value
<1> QED
  BY <1>1, <1>3, <1>5 DEF Received

\* The end of a stream, seen from either side.
LEMMA ConnsEnd ==
  ASSUME StreamsType,
         \/ \E c \in DOMAIN conns : streamLost(c) \/ disconnect(c)
         \/ shutdownConnections \/ close
  PROVE  \A c \in DOMAIN conns :
          /\ conns'[c].stream = conns[c].stream /\ conns'[c].due = conns[c].due
          /\ conns'[c].pc = conns[c].pc \/ conns'[c].pc = "returned"
          /\ conns'[c].shut = conns[c].shut \/ conns'[c].shut = TRUE
          /\ \/ conns'[c].broken = conns[c].broken /\ conns'[c].wire = conns[c].wire
             \/ conns'[c].broken = TRUE
<1>1. \A c \in DOMAIN conns : conns[c] \in Conns
  BY ConnType
<1>2. CASE \E c \in DOMAIN conns : streamLost(c)
  BY <1>1, <1>2 DEF streamLost, Conns
<1>3. CASE \E c \in DOMAIN conns : disconnect(c)
  <2>1. PICK d \in DOMAIN conns : disconnect(d)
    BY <1>3
  <2> DEFINE r == [conns[d] EXCEPT !.broken = TRUE, !.wire = <<>>]
  <2>2. conns' = [conns EXCEPT ![d] = r]
    BY <2>1 DEF disconnect
  <2>3. /\ r.stream = conns[d].stream /\ r.due = conns[d].due /\ r.pc = conns[d].pc
        /\ r.shut = conns[d].shut /\ r.broken = TRUE
    BY <1>1 DEF Conns
  <2> HIDE DEF r
  <2> QED
    BY <2>2, <2>3
<1>4. CASE shutdownConnections
  BY <1>1, <1>4 DEF shutdownConnections, Conns
<1>5. CASE close
  BY <1>1, <1>5 DEF close, Conns
<1> QED
  BY <1>2, <1>3, <1>4, <1>5

LEMMA DeliveryStep ==
  ASSUME TypeInv, TypeInv', ListedInv, OwedInv, Next
  PROVE  ListedInv' /\ OwedInv'
<1> USE DEF TypeInv
<1> DEFINE ConnsListed ==
             \A c \in DOMAIN conns' : conns'[c].stream = "values" =>
               /\ conns'[c].pc = "waiting" /\ ~conns'[c].shut => c \in listed'["values"]
               /\ conns'[c].pc = "entering" => conns'[c].due = {} /\ c \notin listed'["values"]
           HandsEmpty == writer' = "idle" => batch'["values"] = <<>>
           Moves == \A c \in DOMAIN conns' : Delivering(c)' =>
             \/ conns'[c].due = {}
             \/ /\ c \in DOMAIN conns /\ Delivering(c)
                /\ \A e \in conns'[c].due : \/ e \in conns[c].due
                                            \/ OnTheWay(c, e)' \/ Received(e)'
                /\ \A e \in Events : OnTheWay(c, e) => OnTheWay(c, e)' \/ Received(e)'
<1>1. ASSUME ConnsListed, HandsEmpty, Moves PROVE ListedInv' /\ OwedInv'
  BY <1>1, OwedMoves DEF ListedInv
<1>2. \A c \in DOMAIN conns : conns[c] \in Conns
  BY ConnType
<1>3. UNCHANGED <<conns, listed>> => ConnsListed
  BY DEF ListedInv
<1>4. UNCHANGED <<batch, writer>> => HandsEmpty
  BY DEF ListedInv
<1>5. CASE UNCHANGED <<conns, listed, queue, batch, writer>>
  <2>1. Moves
    BY <1>5 DEF Delivering, OnTheWay
  <2> QED
    BY <1>1, <1>3, <1>4, <1>5, <2>1
<1>6. CASE \E e \in raised : OnVehiclePropChange(e)
  <2>1. PICK e \in raised : OnVehiclePropChange(e)
    BY <1>6
  <2>2. \A c \in DOMAIN conns :
           /\ conns'[c].stream = conns[c].stream /\ conns'[c].pc = conns[c].pc
           /\ conns'[c].shut = conns[c].shut /\ conns'[c].broken = conns[c].broken
           /\ conns'[c].wire = conns[c].wire
           /\ conns'[c].due = IF c \in listed["values"] THEN conns[c].due \cup {e}
                              ELSE conns[c].due
    BY <1>2, <2>1 DEF OnVehiclePropChange, Conns
  <2>3. DOMAIN conns' = DOMAIN conns /\ UNCHANGED <<listed, batch, writer>>
    BY <2>1 DEF OnVehiclePropChange
  <2>4. Range(queue'["values"]) = Range(queue["values"]) \cup {e}
    <3>1. queue'["values"] = Append(queue["values"], e)
      BY <2>1 DEF OnVehiclePropChange, EventsType, Streams
    <3>2. queue["values"] \in Seq(Events) /\ e \in Events
      BY DEF EventsType, HardwareType
    <3> QED
      BY <3>1, <3>2, RangeAppend
  <2>5. ConnsListed
    BY <2>2, <2>3 DEF ListedInv
  <2>6. Moves
    BY <2>2, <2>3, <2>4 DEF Delivering, OnTheWay
  <2> QED
    BY <1>1, <1>4, <2>3, <2>5, <2>6
<1>7. CASE OnSupportedValuesChange
  <2>1. UNCHANGED <<conns, listed, batch, writer>> /\ queue'["values"] = queue["values"]
    BY <1>7 DEF OnSupportedValuesChange, streams, EventsType, Streams
  <2>2. Moves
    BY <2>1 DEF Delivering, OnTheWay
  <2> QED
    BY <1>1, <1>3, <1>4, <2>1, <2>2
<1>8. CASE eventWriterLoop
  <2>1. /\ UNCHANGED <<conns, listed>> /\ batch'["values"] = queue["values"]
        /\ batch["values"] = <<>> /\ writer' # "idle"
    BY <1>8 DEF eventWriterLoop, streams, ListedInv
  <2>2. Range(batch["values"]) = {}
    BY <2>1 DEF Range
  <2>3. Moves
    BY <2>1, <2>2 DEF Delivering, OnTheWay
  <2> QED
    BY <1>1, <1>3, <2>1, <2>3
<1>9. CASE writerRound
  <2>1. UNCHANGED <<conns, listed, queue, batch>> /\ batch["values"] = <<>>
    BY <1>9 DEF writerRound, streams, Streams
  <2>2. Moves
    BY <2>1 DEF Delivering, OnTheWay
  <2> QED
    BY <1>1, <1>3, <2>1, <2>2
<1>10. CASE \E s \in Streams : writeToStream(s)
  <2>1. PICK s \in Streams : writeToStream(s)
    BY <1>10
  <2>2. /\ DOMAIN conns' = DOMAIN conns /\ UNCHANGED <<queue, writer>>
        /\ writer # "idle"
    BY <2>1 DEF writeToStream
  <2>3. \A c \in DOMAIN conns :
          /\ conns'[c].stream = conns[c].stream /\ conns'[c].pc = conns[c].pc
          /\ conns'[c].broken = conns[c].broken /\ conns'[c].due = conns[c].due
          /\ c \notin listed[s] => conns'[c] = conns[c]
          /\ c \in listed[s] /\ Write(c) =>
                conns'[c].shut = conns[c].shut
                /\ conns'[c].wire = Append(conns[c].wire, Head(batch[s]))
          /\ c \in listed[s] /\ ~Write(c) => conns'[c].shut
    BY <1>2, <2>1 DEF writeToStream, Conns
  <2>4. listed'[s] = {c \in listed[s] : Write(c)} /\ \A t \in Streams : t # s => listed'[t] = listed[t]
    BY <2>1 DEF writeToStream, StreamsType
  <2>5. CASE s = "values"
    <3>1. ConnsListed
      BY <2>2, <2>3, <2>4, <2>5 DEF ListedInv, Write
    <3>2. /\ batch["values"] \in Seq(Events) /\ batch["values"] # <<>>
          /\ batch'["values"] = Tail(batch["values"])
      BY <2>1, <2>5 DEF writeToStream, EventsType
    <3>3. Range(batch["values"]) = Range(batch'["values"]) \cup {Head(batch["values"])}
      BY <3>2, RangeTail
    <3>4. Head(batch["values"]) \in Events
      BY <3>2, HeadTailProperties
    <3>5. ASSUME NEW c \in DOMAIN conns, Delivering(c)'
          PROVE  /\ Delivering(c)
                 /\ Range(conns'[c].wire) = Range(conns[c].wire) \cup {Head(batch["values"])}
      <4>1. conns[c].stream = "values" /\ conns[c].pc = "waiting" /\ ~conns'[c].shut
        BY <2>3, <3>5 DEF Delivering
      <4>2. c \in listed["values"] /\ Write(c)
        BY <2>3, <2>5, <4>1 DEF ListedInv
      <4>3. conns[c].wire \in Seq(Events)
        BY <4>1 DEF StreamsType
      <4>4. Range(conns'[c].wire) = Range(conns[c].wire) \cup {Head(batch["values"])}
        <5>1. conns'[c].wire = Append(conns[c].wire, Head(batch["values"]))
          BY <2>3, <2>5, <4>2
        <5> QED
          BY <3>4, <4>3, <5>1, RangeAppend
      <4> QED
        BY <4>1, <4>2, <4>4 DEF Delivering, Write
    <3>6. Moves
      BY <2>2, <2>3, <3>3, <3>5 DEF OnTheWay
    <3> QED
      BY <1>1, <2>2, <3>1, <3>6
  <2>6. CASE s = "supported"
    <3>1. batch'["values"] = batch["values"] /\ listed'["values"] = listed["values"]
      BY <2>1, <2>4, <2>6 DEF writeToStream, EventsType, Streams
    <3>2. \A c \in DOMAIN conns : conns[c].stream = "values" => conns'[c] = conns[c]
      BY <2>3, <2>6 DEF StreamsType
    <3>3. ConnsListed
      BY <2>2, <2>3, <3>1, <3>2 DEF ListedInv
    <3>4. Moves
      BY <2>2, <2>3, <3>1, <3>2 DEF Delivering, OnTheWay
    <3> QED
      BY <1>1, <2>2, <3>3, <3>4
  <2> QED
    BY <2>5, <2>6 DEF Streams
<1>11. CASE \E s \in Streams : pollValue(s)
  <2>1. PICK s \in Streams : pollValue(s)
    BY <1>11
  <2>2. UNCHANGED <<listed, queue, batch, writer>>
    BY <2>1 DEF pollValue, events
  <2>3. CASE UNCHANGED conns
    BY <1>5, <2>2, <2>3
  <2>4. CASE conns' = Append(conns, Connection(s, "entering"))
    <3>1. \A c \in DOMAIN conns' : \/ c \in DOMAIN conns /\ conns'[c] = conns[c]
                                   \/ /\ c \notin DOMAIN conns
                                      /\ conns'[c] = Connection(s, "entering")
      BY <2>4 DEF StreamsType
    <3>2. \A c \in listed["values"] : c \in DOMAIN conns
      BY DEF StreamsType, Streams
    <3>3. /\ Connection(s, "entering").pc = "entering"
          /\ Connection(s, "entering").due = {}
      BY DEF Connection
    <3>4. ConnsListed
      BY <2>2, <3>1, <3>2, <3>3 DEF ListedInv
    <3>5. Moves
      BY <2>2, <3>1, <3>3 DEF Delivering, OnTheWay
    <3> QED
      BY <1>1, <1>4, <2>2, <3>4, <3>5
  <2> QED
    BY <2>1, <2>3, <2>4 DEF pollValue
<1>12. CASE \E s \in Streams : readStream(s)
  <2>1. PICK s \in Streams : readStream(s)
    BY <1>12
  <2> DEFINE d == poll[s].conn
  <2>2. d \in DOMAIN conns /\ conns[d].stream = s /\ conns[d].wire # <<>>
    BY <2>1, ReadHead DEF readStream, PollType, Conn, Connection
  <2>3. UNCHANGED <<listed, queue, batch, writer>> /\ DOMAIN conns' = DOMAIN conns
    BY <2>1 DEF readStream, events
  <2>4. \A c \in DOMAIN conns :
          /\ conns'[c].stream = conns[c].stream /\ conns'[c].pc = conns[c].pc
          /\ conns'[c].broken = conns[c].broken /\ conns'[c].due = conns[c].due
          /\ conns'[c].shut = conns[c].shut
          /\ conns'[c].wire = IF c = d THEN Tail(conns[c].wire) ELSE conns[c].wire
    BY <1>2, <2>1, <2>2 DEF readStream, Conns
  <2>5. ConnsListed
    BY <2>3, <2>4 DEF ListedInv
  <2>6. ASSUME conns[d].stream = "values"
        PROVE  Range(conns[d].wire) = Range(conns'[d].wire) \cup {Head(conns[d].wire)}
    BY <2>2, <2>4, <2>6, RangeTail DEF StreamsType
  <2>7. ASSUME conns[d].stream = "values", NEW e, e = Head(conns[d].wire)
        PROVE  Received(e)'
    <3>1. s = "values" /\ e = Head(Conn("values").wire)
      BY <2>1, <2>2, <2>7, ReadHead
    <3> QED
      BY <2>1, <3>1, ReadIsReceived
  <2>8. Moves
    <3> SUFFICES ASSUME NEW c \in DOMAIN conns', Delivering(c)'
                 PROVE  /\ c \in DOMAIN conns /\ Delivering(c)
                        /\ conns'[c].due = conns[c].due
                        /\ \A e \in Events : OnTheWay(c, e) => OnTheWay(c, e)' \/ Received(e)'
      OBVIOUS
    <3>1. c \in DOMAIN conns /\ Delivering(c) /\ conns'[c].due = conns[c].due
      BY <2>3, <2>4 DEF Delivering
    <3>2. ASSUME NEW e \in Events, OnTheWay(c, e), ~OnTheWay(c, e)'
          PROVE  Received(e)'
      <4>1. c = d /\ conns[d].stream = "values"
        BY <2>3, <2>4, <3>1, <3>2 DEF OnTheWay, Delivering
      <4>2. e \in Range(conns[d].wire) /\ e \notin Range(conns'[d].wire)
        BY <2>3, <3>2, <4>1 DEF OnTheWay
      <4> QED
        BY <2>6, <2>7, <4>1, <4>2
    <3> QED
      BY <3>1, <3>2
  <2> QED
    BY <1>1, <1>4, <2>3, <2>5, <2>8
<1>13. CASE \E c \in DOMAIN conns : startStream(c)
  <2>1. PICK c \in DOMAIN conns : startStream(c)
    BY <1>13
  <2>2. UNCHANGED <<queue, batch, writer>> /\ DOMAIN conns' = DOMAIN conns
    BY <2>1 DEF startStream, events
  <2>3. /\ \A d \in DOMAIN conns : d # c => conns'[d] = conns[d]
        /\ conns[c].pc = "entering" /\ conns'[c].pc = "waiting"
        /\ conns'[c].stream = conns[c].stream /\ conns'[c].due = conns[c].due
    BY <1>2, <2>1 DEF startStream, Conns
  <2>4. /\ conns[c].stream \in Streams
        /\ listed' = [listed EXCEPT ![conns[c].stream] = @ \cup {c}]
    BY <1>2, <2>1 DEF startStream, Conns
  <2>5. \A d \in DOMAIN conns : d \in listed'["values"] <=>
           d \in listed["values"] \/ (d = c /\ conns[c].stream = "values")
    BY <2>4 DEF StreamsType, Streams
  <2>6. ConnsListed
    BY <2>2, <2>3, <2>5 DEF ListedInv
  <2>7. Moves
    BY <2>2, <2>3 DEF ListedInv, Delivering, OnTheWay
  <2> QED
    BY <1>1, <1>4, <2>2, <2>6, <2>7
<1>14. CASE \/ \E c \in DOMAIN conns : streamLost(c) \/ disconnect(c)
            \/ shutdownConnections \/ close
  <2>1. UNCHANGED <<listed, queue, batch, writer>> /\ DOMAIN conns' = DOMAIN conns
    BY <1>14 DEF streamLost, disconnect, shutdownConnections, close, events
  <2>2. \A c \in DOMAIN conns :
          /\ conns'[c].stream = conns[c].stream /\ conns'[c].due = conns[c].due
          /\ conns'[c].pc = conns[c].pc \/ conns'[c].pc = "returned"
          /\ conns'[c].shut = conns[c].shut \/ conns'[c].shut = TRUE
          /\ \/ conns'[c].broken = conns[c].broken /\ conns'[c].wire = conns[c].wire
             \/ conns'[c].broken = TRUE
    BY <1>14, ConnsEnd
  <2>3. ConnsListed
    BY <2>1, <2>2 DEF ListedInv
  <2>4. Moves
    BY <2>1, <2>2 DEF Delivering, OnTheWay
  <2> QED
    BY <1>1, <1>4, <2>1, <2>3, <2>4
<1> QED
  BY <1>5, <1>6, <1>7, <1>8, <1>9, <1>10, <1>11, <1>12, <1>13, <1>14, DeliveryFrame

\* A client that stays connected gets, or gets something newer than, every event
\* that the server queued while its stream was listed: none is lost between the
\* hardware's callback, the queue, the writer and the stream, in whatever order
\* these run and whatever other streams and calls are used.
THEOREM DeliveryCorrect == Spec => []ConnectedSeesEvents
<1> DEFINE Inv == TypeInv /\ ListedInv /\ OwedInv
<1>1. Init => Inv
  BY TypeInit DEF Init, ListedInv, OwedInv, Streams
<1>2. Inv /\ [Next]_vars => Inv'
  <2> SUFFICES ASSUME Inv, [Next]_vars PROVE Inv'
    OBVIOUS
  <2>1. CASE Next
    BY <2>1, TypeStep, DeliveryStep
  <2>2. CASE UNCHANGED vars
    BY <2>2, TypeStep DEF vars, events, streams, values, ListedInv, OwedInv, Delivering,
       OnTheWay, Received, Seen, polling
  <2> QED
    BY <2>1, <2>2
<1>3. Inv => ConnectedSeesEvents
  <2> DEFINE c == poll["values"].conn
  <2> SUFFICES ASSUME Inv, c # 0, At("values", "reading"), conns[c].pc = "waiting",
                      ~conns[c].broken, ~conns[c].shut, queue["values"] = <<>>,
                      batch["values"] = <<>>, conns[c].wire = <<>>,
                      NEW e \in conns[c].due
               PROVE  /\ mLatestUpdateTimestamps[e[1]] # None
                      /\ mLatestUpdateTimestamps[e[1]].external >= e[2]
    BY DEF ConnectedSeesEvents
  <2>1. c \in DOMAIN conns /\ Delivering(c)
    BY DEF TypeInv, PollType, Streams, Delivering
  <2>2. ~OnTheWay(c, e)
    BY DEF OnTheWay, Range
  <2> QED
    BY <2>1, <2>2 DEF OwedInv, Received, Seen, At
<1> QED
  BY <1>1, <1>2, <1>3, PTL DEF Spec
=============================================================================

---------------------- MODULE SpecialPropertiesProofs ----------------------
(***************************************************************************)
(* Proofs about SpecialProperties, for every set of areas, features and    *)
(* scenarios, and any number of requests.                                  *)
(***************************************************************************)
EXTENDS SpecialProperties, TLAPS, SequenceTheorems, FiniteSetTheorems

----------------------------------------------------------------------------
(* Where a request is.                                                     *)

\* A request as Record keeps it.
Made == LET all == UNION Scenarios
        IN  [op : {r.op : r \in all}, prop : {r.prop : r \in all},
             area : {r.area : r \in all}, value : {r.value : r \in all},
             seen : SUBSET Ids]

\* Requests are numbered in the order in which they were made.
AskedType ==
    /\ scenario \in Scenarios
    /\ asked \in Seq(Made) /\ Len(asked) =< MaxRequests
    /\ \A i \in 1 .. Len(asked) : Known(asked[i])

\* The requests of handler h that were made.
RequestsOf(h) == {i \in 1 .. Len(asked) : asked[i].op = h}

\* What is queued or at work belongs to the handler, what is queued is not
\* at work yet, and only what was made is answered, with a result.
QueuesInv ==
    /\ DOMAIN queue = Handlers /\ DOMAIN batch = Handlers /\ DOMAIN result = Ids
    /\ \A i \in answered : i \in 1 .. Len(asked) /\ result[i] # NoValue
    /\ \A h \in Handlers :
          /\ queue[h] \in Seq(Ids) /\ batch[h] \in Seq(Ids)
          /\ Range(queue[h]) \subseteq RequestsOf(h)
          /\ Range(batch[h]) \subseteq RequestsOf(h)
          /\ Range(queue[h]) \cap (Range(batch[h]) \cup answered) = {}

PlaceInv == AskedType /\ QueuesInv /\ NoRequestForgotten

\* Requests that were made keep their number and what they ask for.
LEMMA Recorded ==
    ASSUME AskedType, QueuesInv, NEW r \in scenario,
           Len(asked) < MaxRequests, Record(r), UNCHANGED scenario
    PROVE  /\ AskedType'
           /\ Len(asked') = Len(asked) + 1
           /\ \A i \in 1 .. Len(asked) : asked'[i] = asked[i]
           /\ asked'[Len(asked) + 1].op = r.op
           /\ asked'[Len(asked) + 1].seen = answered
           /\ asked'[Len(asked) + 1].prop = r.prop
           /\ asked'[Len(asked) + 1].area = r.area
           /\ asked'[Len(asked) + 1].value = r.value
<1> USE BoundsKnown
<1> DEFINE made == [op |-> r.op, prop |-> r.prop, area |-> r.area,
                    value |-> r.value, seen |-> answered]
<1>1. asked \in Seq(Made) /\ Len(asked) \in Nat
  BY DEF AskedType
<1>2. answered \in SUBSET Ids
  BY <1>1 DEF QueuesInv, Ids
<1>3. made \in Made
  BY <1>2 DEF Made, AskedType
<1>4. asked' = Append(asked, made)
  BY DEF Record
<1>5. /\ asked' \in Seq(Made) /\ Len(asked') = Len(asked) + 1
      /\ \A i \in 1 .. Len(asked) : asked'[i] = asked[i]
      /\ asked'[Len(asked) + 1] = made
  <2> HIDE DEF made
  <2> QED
    BY <1>1, <1>3, <1>4, AppendProperties
<1>6. Known(made)
  <2>1. Known(r)
    BY RequestsKnown DEF AskedType
  <2> QED
    BY <2>1 DEF Known
<1> HIDE DEF made
<1>7. \A i \in 1 .. Len(asked') : Known(asked'[i])
  BY <1>1, <1>5, <1>6 DEF AskedType
<1>8. AskedType'
  BY <1>1, <1>5, <1>7 DEF AskedType
<1> QED
  BY <1>5, <1>8 DEF made

\* The steps of a thread leave the requests and the queues alone; only its
\* last one makes a result.
LEMMA RunFrame ==
    ASSUME NEW t \in Threads, Run(t)
    PROVE  /\ UNCHANGED <<scenario, asked, queue, batch, active, answered>>
           /\ \/ UNCHANGED result
              \/ result' = [result EXCEPT ![thread[t].id] =
                     [status |-> thread[t].status, value |-> thread[t].value,
                      sent |-> thread[t].sent]]
<1> USE DEF readOnly, queues
<1>1. CASE \/ check(t) \/ fail(t) \/ stamp(t) \/ writeValue(t) \/ finish(t)
  BY <1>1 DEF check, fail, stamp, writeValue, finish
<1>2. CASE \/ sendHvacPropertiesCurrentValues(t)
           \/ getSyncedAreaIdIfHvacDualOn(t) \/ synchronizeHvacTemp(t)
           \/ read(t) \/ removeValue(t)
  BY <1>2 DEF sendHvacPropertiesCurrentValues, getSyncedAreaIdIfHvacDualOn,
       synchronizeHvacTemp, read, removeValue
<1>3. CASE \/ removeValuesForProperty(t) \/ getObd2DtcInfo(t)
           \/ setUserHalProp(t) \/ getUserHalProp(t)
           \/ getPowerPropFromExternalService(t) \/ save(t) \/ restore(t)
  BY <1>3 DEF removeValuesForProperty, getObd2DtcInfo, setUserHalProp,
       getUserHalProp, getPowerPropFromExternalService, save, restore
<1> QED
  BY <1>1, <1>2, <1>3 DEF Run

LEMMA RangeAppend ==
    ASSUME NEW S, NEW s \in Seq(S), NEW e \in S
    PROVE  Append(s, e) \in Seq(S) /\ Range(Append(s, e)) = Range(s) \cup {e}
<1>1. /\ Append(s, e) \in Seq(S) /\ Len(Append(s, e)) = Len(s) + 1 /\ Len(s) \in Nat
      /\ \A i \in 1 .. Len(s) : Append(s, e)[i] = s[i]
      /\ Append(s, e)[Len(s) + 1] = e
  BY AppendProperties
<1>2. DOMAIN s = 1 .. Len(s) /\ DOMAIN Append(s, e) = 1 .. Len(s) + 1
  BY <1>1
<1> QED
  BY <1>1, <1>2 DEF Range

LEMMA PlaceStep ==
    ASSUME "status" \notin DOMAIN NoValue,
           PlaceInv, [Next]_vars
    PROVE  PlaceInv'
<1> USE BoundsKnown DEF PlaceInv
<1>1. Len(asked) \in Nat
  BY DEF AskedType
<1>2. CASE /\ UNCHANGED <<scenario, asked, queue, batch, answered>>
           /\ DOMAIN result' = DOMAIN result
           /\ \A i \in Ids : result[i] # NoValue => result'[i] # NoValue
  <2>1. AskedType'
    BY <1>2 DEF AskedType
  <2>2. \A i \in answered : result'[i] # NoValue
    BY <1>1, <1>2 DEF AskedType, QueuesInv, Ids
  <2>3. QueuesInv'
    BY <1>2, <2>2 DEF QueuesInv, RequestsOf
  <2> QED
    BY <1>2, <2>1, <2>2, <2>3 DEF NoRequestForgotten
<1>3. CASE \E r \in scenario : addRequest(r)
  <2>1. PICK r \in scenario : addRequest(r)
    BY <1>3
  <2> DEFINE n == Len(asked) + 1
  <2>2. /\ AskedType' /\ Len(asked') = n
        /\ \A i \in 1 .. Len(asked) : asked'[i] = asked[i]
        /\ asked'[n].op = r.op /\ r.op \in Handlers /\ n \in Ids
    <3>1. Record(r) /\ UNCHANGED scenario /\ Len(asked) < MaxRequests /\ r.op \in Handlers
      BY <2>1 DEF addRequest
    <3>2. n \in Ids
      BY <1>1, <3>1 DEF Ids
    <3> HIDE DEF PlaceInv
    <3> QED
      BY <3>1, <3>2, Recorded DEF PlaceInv
  <2> HIDE DEF n
  <2>3. /\ UNCHANGED <<batch, answered, result>>
        /\ queue' = [queue EXCEPT ![r.op] = Append(@, n)]
    BY <2>1, <2>2 DEF addRequest, n
  <2>4. \A h \in Handlers : RequestsOf(h)' = RequestsOf(h) \cup (IF h = r.op THEN {n} ELSE {})
    BY <1>1, <2>2 DEF RequestsOf, n
  <2>5. n \notin 1 .. Len(asked)
    BY <1>1 DEF n
  <2>6. ASSUME NEW h \in Handlers
        PROVE  /\ queue'[h] \in Seq(Ids)
               /\ Range(queue'[h]) = Range(queue[h]) \cup (IF h = r.op THEN {n} ELSE {})
    <3>1. CASE h = r.op
      <4>1. queue'[h] = Append(queue[h], n) /\ queue[h] \in Seq(Ids)
        BY <2>3, <3>1 DEF QueuesInv
      <4> QED
        BY <2>2, <3>1, <4>1, RangeAppend
    <3>2. CASE h # r.op
      BY <2>3, <3>2 DEF QueuesInv
    <3> QED
      BY <3>1, <3>2
  <2>7. QueuesInv'
    <3>1. \A h \in Handlers : n \notin Range(batch[h]) /\ n \notin Range(queue[h])
      BY <2>5 DEF QueuesInv, RequestsOf
    <3>2. n \notin answered
      BY <2>5 DEF QueuesInv
    <3>3. \A i \in answered : i \in 1 .. Len(asked')
      BY <1>1, <2>2 DEF QueuesInv, n
    <3> QED
      BY <2>3, <2>4, <2>6, <3>1, <3>2, <3>3 DEF QueuesInv
  <2>8. NoRequestForgotten'
    <3> SUFFICES ASSUME NEW i \in 1 .. Len(asked'), asked'[i].op \in Handlers
                 PROVE  LET h == asked'[i].op
                        IN  /\ \/ i \in Range(queue'[h]) /\ i \notin Range(batch[h]) \cup answered
                               \/ i \in Range(batch[h]) \ answered
                               \/ i \in answered /\ result[i] # NoValue
                            /\ i \in answered => result[i] # NoValue
      BY <2>3 DEF NoRequestForgotten
    <3>1. CASE i = n
      <4>1. n \notin answered /\ n \notin Range(batch[r.op]) /\ n \in Range(queue'[r.op])
        BY <2>2, <2>5, <2>6 DEF QueuesInv, RequestsOf
      <4> QED
        BY <2>2, <3>1, <4>1
    <3>2. CASE i # n
      <4>1. i \in 1 .. Len(asked) /\ asked'[i] = asked[i]
        BY <1>1, <2>2, <3>2 DEF n
      <4> QED
        BY <2>6, <4>1 DEF NoRequestForgotten
    <3> QED
      BY <3>1, <3>2
  <2> QED
    BY <2>2, <2>7, <2>8
<1>4. CASE \E r \in scenario : dump(r)
  <2>1. PICK r \in scenario : dump(r)
    BY <1>4
  <2> DEFINE n == Len(asked) + 1
  <2>2. /\ AskedType' /\ Len(asked') = n
        /\ \A i \in 1 .. Len(asked) : asked'[i] = asked[i]
        /\ asked'[n].op = r.op /\ r.op \notin Handlers
    <3>1. Record(r) /\ UNCHANGED scenario /\ Len(asked) < MaxRequests /\ r.op \notin Handlers
      BY <2>1 DEF dump
    <3> HIDE DEF PlaceInv
    <3> QED
      BY <3>1, Recorded DEF PlaceInv
  <2> HIDE DEF n
  <2>3. UNCHANGED <<queue, batch, answered, result>>
    BY <2>1 DEF dump, queues
  <2>4. \A h \in Handlers : RequestsOf(h)' = RequestsOf(h)
    BY <1>1, <2>2 DEF RequestsOf, n
  <2>5. \A i \in 1 .. Len(asked) : i \in 1 .. Len(asked')
    BY <1>1, <2>2 DEF n
  <2>6. QueuesInv'
    BY <2>3, <2>4, <2>5 DEF QueuesInv
  <2>7. \A i \in 1 .. Len(asked') : asked'[i].op \in Handlers =>
           i \in 1 .. Len(asked) /\ asked'[i] = asked[i]
    BY <1>1, <2>2 DEF n
  <2> QED
    BY <2>2, <2>3, <2>6, <2>7 DEF NoRequestForgotten
<1>5. CASE \E h \in Handlers : flush(h)
  <2>1. PICK h \in Handlers : flush(h)
    BY <1>5
  <2>2. /\ UNCHANGED <<scenario, asked, answered, result>>
        /\ batch[h] = <<>> /\ batch'[h] = queue[h] /\ queue'[h] = <<>>
        /\ DOMAIN queue' = Handlers /\ DOMAIN batch' = Handlers
        /\ \A k \in Handlers \ {h} : batch'[k] = batch[k] /\ queue'[k] = queue[k]
    BY <2>1 DEF flush, QueuesInv
  <2>3. Range(<<>>) = {}
    BY DEF Range
  <2>4. AskedType' /\ \A k \in Handlers : RequestsOf(k)' = RequestsOf(k)
    BY <2>2 DEF AskedType, RequestsOf
  <2>5. QueuesInv'
    BY <2>2, <2>3, <2>4 DEF QueuesInv
  <2>6. NoRequestForgotten'
    BY <2>2, <2>3 DEF NoRequestForgotten, QueuesInv
  <2> QED
    BY <2>4, <2>5, <2>6
<1>6. CASE \E h \in Handlers : handleRequest(h) \/ stop(h)
  BY <1>2, <1>6 DEF handleRequest, stop, queues
<1>7. CASE \E h \in Handlers : callback(h)
  <2>1. PICK h \in Handlers : callback(h)
    BY <1>7
  <2>2. PICK i \in Range(batch[h]) \ answered :
           /\ answered' = answered \cup {i}
           /\ batch' = [batch EXCEPT ![h] = IF Range(@) \subseteq answered' THEN <<>> ELSE @]
    BY <2>1 DEF callback
  <2>3. /\ UNCHANGED <<scenario, asked, queue, result>>
        /\ \A j \in Range(batch[h]) : result[j] # NoValue
    BY <2>1 DEF callback
  <2>4. /\ DOMAIN batch' = Handlers
        /\ \A k \in Handlers \ {h} : batch'[k] = batch[k]
        /\ batch'[h] = batch[h] \/ (batch'[h] = <<>> /\ Range(batch[h]) \subseteq answered')
    BY <2>2 DEF QueuesInv
  <2>5. Range(<<>>) = {} /\ <<>> \in Seq(Ids)
    BY DEF Range
  <2>6. AskedType' /\ \A k \in Handlers : RequestsOf(k)' = RequestsOf(k)
    BY <2>3 DEF AskedType, RequestsOf
  <2>7. /\ i \in 1 .. Len(asked) /\ asked[i].op = h /\ result[i] # NoValue
        /\ \A k \in Handlers : i \notin Range(queue[k])
    BY <2>3 DEF QueuesInv, RequestsOf
  <2>8. QueuesInv'
    BY <2>2, <2>3, <2>4, <2>5, <2>6, <2>7 DEF QueuesInv
  <2>9. NoRequestForgotten'
    BY <2>2, <2>3, <2>4, <2>7 DEF NoRequestForgotten
  <2> QED
    BY <2>6, <2>8, <2>9
<1>8. CASE \E t \in Threads : Run(t)
  <2>1. PICK t \in Threads : Run(t)
    BY <1>8
  <2>2. \A s, v, e : [status |-> s, value |-> v, sent |-> e] # NoValue
    <3> SUFFICES ASSUME NEW s, NEW v, NEW e,
                        [status |-> s, value |-> v, sent |-> e] = NoValue
                 PROVE  FALSE
      OBVIOUS
    <3>1. DOMAIN [status |-> s, value |-> v, sent |-> e] = {"status", "value", "sent"}
      OBVIOUS
    <3> QED
      BY <3>1
  <2> DEFINE made == [status |-> thread[t].status, value |-> thread[t].value,
                      sent |-> thread[t].sent]
  <2>3. made # NoValue
    BY <2>2
  <2> HIDE DEF made
  <2>4. /\ UNCHANGED <<scenario, asked, queue, batch, answered>>
        /\ UNCHANGED result \/ result' = [result EXCEPT ![thread[t].id] = made]
    BY <2>1, RunFrame DEF made
  <2>5. /\ DOMAIN result' = DOMAIN result
        /\ \A i \in Ids : result[i] # NoValue => result'[i] # NoValue
    BY <2>3, <2>4 DEF QueuesInv
  <2> QED
    BY <1>2, <2>4, <2>5
<1>9. CASE UNCHANGED vars
  BY <1>2, <1>9 DEF vars, queues
<1> QED
  BY <1>3, <1>4, <1>5, <1>6, <1>7, <1>8, <1>9 DEF Next, Handle

LEMMA PlaceInit ==
    ASSUME Init
    PROVE  PlaceInv
<1> USE BoundsKnown
<1>1. asked = <<>> /\ asked \in Seq(Made) /\ Len(asked) = 0 /\ scenario \in Scenarios
  BY DEF Init
<1>2. Range(<<>>) = {} /\ <<>> \in Seq(Ids)
  BY DEF Range
<1>3. AskedType
  BY <1>1 DEF AskedType
<1>4. QueuesInv
  BY <1>1, <1>2 DEF Init, QueuesInv
<1>5. NoRequestForgotten
  BY <1>1 DEF NoRequestForgotten
<1> QED
  BY <1>3, <1>4, <1>5 DEF PlaceInv

\* However the two handlers, the callers, the dump command and the destructor
\* interleave, a get or set that PendingRequestHandler::addRequest took is in
\* its queue, in the batch that handleRequestsOnce works on, or answered with
\* a result, and in one of them only.  NoValue is no result.
THEOREM NothingForgotten ==
    ASSUME "status" \notin DOMAIN NoValue
    PROVE  Spec => []NoRequestForgotten
<1>1. Init => PlaceInv
  BY PlaceInit
<1>2. PlaceInv /\ [Next]_vars => PlaceInv'
  BY PlaceStep
<1>3. PlaceInv => NoRequestForgotten
  BY DEF PlaceInv
<1> QED
  BY <1>1, <1>2, <1>3, PTL DEF Spec

----------------------------------------------------------------------------
(* Sequences of steps.                                                     *)

IsSeq(s) == s \in Seq(Range(s))

LEMMA SeqIsSeq ==
    ASSUME NEW S, NEW s \in Seq(S)
    PROVE  IsSeq(s) /\ Range(s) \subseteq S
<1>1. s \in [1 .. Len(s) -> S] /\ Len(s) \in Nat /\ DOMAIN s = 1 .. Len(s)
  OBVIOUS
<1>2. s \in [1 .. Len(s) -> Range(s)] /\ Range(s) \subseteq S
  BY <1>1 DEF Range
<1> QED
  BY <1>1, <1>2 DEF IsSeq

LEMMA FunIsSeq ==
    ASSUME NEW n \in Nat, NEW f, DOMAIN f = 1 .. n, f = [i \in DOMAIN f |-> f[i]]
    PROVE  IsSeq(f) /\ Range(f) = {f[i] : i \in 1 .. n}
<1>1. f \in [1 .. n -> Range(f)]
  BY DEF Range
<1> QED
  BY <1>1 DEF IsSeq, Range

LEMMA NothingInSeq ==
    ASSUME NEW s, s = <<>>
    PROVE  IsSeq(s) /\ Range(s) = {}
<1>1. DOMAIN s = {}
  OBVIOUS
<1>2. Range(s) = {}
  BY <1>1 DEF Range
<1> QED
  BY <1>2 DEF IsSeq

LEMMA OneSeq ==
    ASSUME NEW x
    PROVE  IsSeq(<<x>>) /\ Range(<<x>>) = {x} /\ <<x>> # <<>>
<1>1. Range(<<x>>) = {x}
  BY DEF Range
<1> QED
  BY <1>1 DEF IsSeq

LEMMA TwoSeq ==
    ASSUME NEW x, NEW y
    PROVE  IsSeq(<<x, y>>) /\ Range(<<x, y>>) = {x, y}
<1>1. Range(<<x, y>>) = {x, y}
  <2>1. DOMAIN <<x, y>> = {1, 2} /\ <<x, y>>[1] = x /\ <<x, y>>[2] = y
    OBVIOUS
  <2> QED
    BY <2>1 DEF Range
<1>2. <<x, y>> \in Seq({x, y})
  OBVIOUS
<1> QED
  BY <1>1, <1>2 DEF IsSeq

LEMMA HeadTail ==
    ASSUME NEW s, IsSeq(s), s # <<>>
    PROVE  /\ IsSeq(Tail(s)) /\ Head(s) \in Range(s)
           /\ Range(s) = {Head(s)} \cup Range(Tail(s))
           /\ IsSeq(<<Last(s)>>) /\ Last(s) \in Range(s)
<1> DEFINE S == Range(s)
<1>1. s \in Seq(S) /\ Len(s) \in Nat /\ Len(s) > 0 /\ DOMAIN s = 1 .. Len(s)
  BY NothingInSeq DEF IsSeq
<1> HIDE DEF S
<1>2. Head(s) = s[1] /\ Tail(s) \in Seq(S) /\ Len(Tail(s)) = Len(s) - 1
      /\ \A i \in 1 .. Len(s) - 1 : Tail(s)[i] = s[i + 1]
  BY <1>1
<1>3. IsSeq(Tail(s)) /\ DOMAIN Tail(s) = 1 .. Len(s) - 1
  <2>1. \A T, u : u \in Seq(T) => IsSeq(u) /\ DOMAIN u = 1 .. Len(u)
    BY SeqIsSeq
  <2> QED
    BY <1>2, <2>1
<1>4. \A i \in 1 .. Len(s) : i = 1 \/ (i - 1 \in 1 .. Len(s) - 1 /\ s[i] = Tail(s)[i - 1])
  BY <1>1, <1>2
<1>5. Range(s) = {Head(s)} \cup Range(Tail(s))
  <2>1. Range(s) \subseteq {Head(s)} \cup Range(Tail(s))
    <3> SUFFICES ASSUME NEW i \in 1 .. Len(s) PROVE s[i] \in {Head(s)} \cup Range(Tail(s))
      BY <1>1 DEF Range
    <3>1. CASE i = 1
      BY <1>2, <3>1
    <3>2. CASE i # 1
      <4>1. i - 1 \in 1 .. Len(s) - 1 /\ s[i] = Tail(s)[i - 1]
        BY <1>4, <3>2
      <4> QED
        BY <1>3, <4>1 DEF Range
    <3> QED
      BY <3>1, <3>2
  <2>2. Head(s) \in Range(s) /\ Range(Tail(s)) \subseteq Range(s)
    BY <1>1, <1>2, <1>3 DEF Range
  <2> QED
    BY <2>1, <2>2
<1>6. Last(s) \in Range(s)
  BY <1>1 DEF Last, Range
<1> QED
  BY <1>3, <1>5, <1>6, OneSeq

LEMMA Joined ==
    ASSUME NEW s, NEW t, IsSeq(s), IsSeq(t)
    PROVE  IsSeq(s \o t) /\ Range(s \o t) = Range(s) \cup Range(t)
<1> DEFINE S == Range(s) \cup Range(t)
<1>1. s \in Seq(S) /\ t \in Seq(S)
  BY DEF IsSeq
<1> HIDE DEF S
<1>2. /\ s \o t \in Seq(S) /\ Len(s \o t) = Len(s) + Len(t)
      /\ Len(s) \in Nat /\ Len(t) \in Nat
      /\ DOMAIN s = 1 .. Len(s) /\ DOMAIN t = 1 .. Len(t)
      /\ DOMAIN (s \o t) = 1 .. Len(s) + Len(t)
      /\ \A i \in 1 .. Len(s) : (s \o t)[i] = s[i]
      /\ \A i \in 1 .. Len(t) : (s \o t)[Len(s) + i] = t[i]
  BY <1>1, ConcatProperties
<1>3. IsSeq(s \o t) /\ Range(s \o t) \subseteq S
  BY <1>2, SeqIsSeq
<1>4. Range(s) \subseteq Range(s \o t)
  BY <1>2 DEF Range
<1>5. Range(t) \subseteq Range(s \o t)
  <2> SUFFICES ASSUME NEW i \in 1 .. Len(t) PROVE t[i] \in Range(s \o t)
    BY <1>2 DEF Range
  <2>1. Len(s) + i \in 1 .. Len(s) + Len(t) /\ (s \o t)[Len(s) + i] = t[i]
    BY <1>2
  <2> QED
    BY <1>2, <2>1 DEF Range
<1> QED
  BY <1>3, <1>4, <1>5 DEF S

\* Short lists of steps.
LEMMA Tuples ==
    \A a, b, c :
       /\ <<a>> \o <<b>> = <<a, b>> /\ <<a>> \o <<b, c>> = <<a, b, c>>
       /\ <<>> \o <<b>> = <<b>> /\ <<>> \o <<a, b>> = <<a, b>> /\ <<>> \o <<>> = <<>>
       /\ Tail(<<a>>) = <<>> /\ Tail(<<a, b>>) = <<b>> /\ Tail(<<a, b, c>>) = <<b, c>>
       /\ Head(<<a>>) = a /\ Head(<<a, b>>) = a /\ Head(<<a, b, c>>) = a
<1> TAKE a, b, c
<1> DEFINE S == {a, b, c}
<1>1. /\ <<>> \in Seq(S) /\ <<a>> \in Seq(S) /\ <<b>> \in Seq(S) /\ <<b, c>> \in Seq(S)
      /\ <<a, b>> \in Seq(S)
  OBVIOUS
<1>2. <<a>> \o <<b>> = <<a, b>>
  <2> DEFINE s == <<a>>
             t == <<b>>
  <2>1. s \in Seq(S) /\ t \in Seq(S) /\ Len(s) = 1 /\ Len(t) = 1 /\ s[1] = a /\ t[1] = b
    OBVIOUS
  <2> HIDE DEF s, t, S
  <2>2. /\ s \o t \in Seq(S) /\ Len(s \o t) = 2
        /\ (s \o t)[1] = a /\ (s \o t)[2] = b
    BY <2>1, ConcatProperties
  <2> DEFINE u == s \o t
  <2> HIDE DEF u
  <2>3. u \in Seq(S) /\ Len(u) = 2 /\ u[1] = a /\ u[2] = b
    BY <2>2 DEF u
  <2>4. u = <<a, b>>
    BY <2>3
  <2> QED
    BY <2>4 DEF s, t, u
<1>3. <<a>> \o <<b, c>> = <<a, b, c>>
  <2> DEFINE s == <<a>>
             t == <<b, c>>
  <2>1. /\ s \in Seq(S) /\ t \in Seq(S) /\ Len(s) = 1 /\ Len(t) = 2 /\ s[1] = a
        /\ t[1] = b /\ t[2] = c
    OBVIOUS
  <2> HIDE DEF s, t, S
  <2>2. /\ s \o t \in Seq(S) /\ Len(s \o t) = 3
        /\ (s \o t)[1] = a /\ (s \o t)[2] = b /\ (s \o t)[3] = c
    BY <2>1, ConcatProperties
  <2> DEFINE u == s \o t
  <2> HIDE DEF u
  <2>3. u \in Seq(S) /\ Len(u) = 3 /\ u[1] = a /\ u[2] = b /\ u[3] = c
    BY <2>2 DEF u
  <2>4. u = <<a, b, c>>
    BY <2>3
  <2> QED
    BY <2>4 DEF s, t, u
<1>4. <<>> \o <<b>> = <<b>> /\ <<>> \o <<a, b>> = <<a, b>> /\ <<>> \o <<>> = <<>>
  BY <1>1, ConcatEmptySeq
<1>5. Tail(<<a>>) = <<>> /\ Tail(<<a, b>>) = <<b>> /\ Tail(<<a, b, c>>) = <<b, c>>
  OBVIOUS
<1>6. Head(<<a>>) = a /\ Head(<<a, b>>) = a /\ Head(<<a, b, c>>) = a
  OBVIOUS
<1> QED
  BY <1>2, <1>3, <1>4, <1>5, <1>6

\* The elements of a finite set, one after the other.
LEMMA SetInSeq ==
    ASSUME NEW S, IsFiniteSet(S)
    PROVE  /\ SetToSeq(S) \in Seq(S) /\ Range(SetToSeq(S)) = S
           /\ Len(SetToSeq(S)) \in Nat /\ DOMAIN SetToSeq(S) = 1 .. Len(SetToSeq(S))
<1> DEFINE n == Cardinality(S)
           f == SetToSeq(S)
<1>1. n \in Nat /\ ExistsBijection(1 .. n, S)
  BY FS_CardinalityType
<1>2. \E g \in [1 .. n -> S] : IsInjective(g)
  BY <1>1 DEF ExistsBijection, Bijection, Injection
<1>3. f \in [1 .. n -> S] /\ IsInjective(f)
  BY <1>2 DEF SetToSeq
<1>4. IsFiniteSet(1 .. n) /\ Cardinality(1 .. n) = n
  BY <1>1, FS_Interval
<1> HIDE DEF n, f
<1>5. f \in Surjection(1 .. n, S)
  <2>1. f \in Injection(1 .. n, S)
    BY <1>3 DEF Injection
  <2> QED
    BY <1>4, <2>1, FS_Injection DEF n
<1>6. Range(f) = S
  BY <1>3, <1>5 DEF Range, Surjection
<1> QED
  BY <1>1, <1>3, <1>6 DEF f

----------------------------------------------------------------------------
(* What the threads still have to do.                                      *)

Fields == {"id", "steps", "stamp", "status", "value", "sent"}
Writers == {"set", "dump"}
WriteOps == {"set", "dumpSet"}

\* The properties that a request may write.
Writes(r) ==
    IF r.op \in WriteOps
    THEN {r.prop} \cup (IF r.prop \in DOMAIN Assists THEN Assists[r.prop]
                        ELSE IF r.prop \in hvacProps THEN {"HVAC_TEMPERATURE_SET"}
                        ELSE {"AP_POWER_STATE_REQ"})
    ELSE IF r.op \in {"restore", "inject"} THEN {r.prop} ELSE {}

Temp(x) == <<"HVAC_TEMPERATURE_SET", x>>
Switch(a) == <<"HVAC_POWER_ON", a>>
StatusFor(v) == IF v # 0 THEN "AVAILABLE" ELSE "UNAVAILABLE"

HvacSteps == {"sendHvacPropertiesCurrentValues", "getSyncedAreaIdIfHvacDualOn",
              "synchronizeHvacTemp"}

GetSteps == {"getPowerPropFromExternalService", "getUserHalProp", "getObd2DtcInfo"}

\* Step s may be one of request r's.
StepFits(r, s) ==
    /\ s.do = "write" => s.key[1] \in Writes(r)
    /\ s.do = "removeValue" => s.key[1] = "OBD2_FREEZE_FRAME"
    /\ s.do \in HvacSteps => r.op \in WriteOps /\ r.prop \in hvacProps
    /\ s.do = "setUserHalProp" => r.op \in WriteOps
    /\ s.do = "restore" => r.op = "restore"
    /\ s.do \in GetSteps => r.op \in {"get", "dumpGet"}
    /\ s.do = "fail" => s.status # "OK"
    /\ s.do = "read" => s.missing # "OK"

\* What a thread may be given to do.
FitSteps(r, steps) == IsSeq(steps) /\ \A s \in Range(steps) : StepFits(r, s)

\* A thread works on a request that it may work on, with steps that fit it.
Fits(t) ==
    /\ DOMAIN thread[t] = Fields
    /\ Busy(t) =>
          /\ thread[t].id \in 1 .. Len(asked)
          /\ IF t = "dump" THEN Request(t).op \notin Handlers ELSE Request(t).op = t
          /\ FitSteps(Request(t), thread[t].steps)

ThreadsInv == DOMAIN thread = Threads /\ \A t \in Threads : Fits(t)

\* No time is ahead of the clock.
ClockInv ==
    /\ clock \in Nat /\ DOMAIN store = Keys
    /\ \A k \in Keys : store[k] = NoValue \/ store[k].timestamp \in 0 .. clock
    /\ \A t \in Threads : thread[t].stamp = NoStamp \/ thread[t].stamp \in 0 .. clock

\* Thread t sets a property of a coupled group.
Owns(t) == Busy(t) /\ Request(t).op \in WriteOps /\ Coupled(Request(t).prop)

\* While no requests ran against each other, one thread at most writes to the
\* coupled properties, and what it stamped is not older than what is stored.
OwnInv ==
    ~overlapped =>
        /\ \A t \in Threads : Busy(t) /\ Request(t).op \in {"restore", "inject"} =>
              ~Coupled(Request(t).prop)
        /\ ~(Owns("set") /\ Owns("dump"))
        /\ \A t \in Writers : Owns(t) /\ thread[t].stamp # NoStamp =>
              \A k \in Keys : Coupled(k[1]) =>
                  store[k] = NoValue \/ store[k].timestamp =< thread[t].stamp

WorkInv == PlaceInv /\ ThreadsInv /\ ClockInv /\ OwnInv

----------------------------------------------------------------------------
(* The steps that a request begins with.                                   *)

LEMMA StepKinds ==
    ASSUME NEW r
    PROVE  /\ \A key, value, status, mode, locked, onError : key[1] \in Writes(r) =>
                 StepFits(r, Write(key, value, status, mode, locked, onError))
           /\ \A key, value, locked : key[1] \in Writes(r) =>
                 /\ StepFits(r, Plain(key, value))
                 /\ StepFits(r, [Plain(key, value) EXCEPT !.locked = locked])
                 /\ StepFits(r, [Plain(key, value) EXCEPT !.locked = locked,
                                                          !.onError = "ignore"])
           /\ \A key, value, onError : key[1] \in Writes(r) =>
                 StepFits(r, Forced(key, value, onError))
           /\ \A what, p, area : StepFits(r, Check(what, p, area))
           /\ \A key, missing : missing # "OK" => StepFits(r, Read(key, missing))
           /\ \A status : status # "OK" => StepFits(r, Fail(status))
           /\ \A name : name \notin HvacSteps \cup GetSteps \cup
                    {"fail", "read", "write", "removeValue", "setUserHalProp", "restore"} =>
                 StepFits(r, Step(name))
<1> USE DEF StepFits
<1>1. \A key, value, status, mode, locked, onError : key[1] \in Writes(r) =>
         StepFits(r, Write(key, value, status, mode, locked, onError))
  BY DEF Write, HvacSteps, GetSteps
<1>2. \A key, value, locked : key[1] \in Writes(r) =>
         /\ StepFits(r, Plain(key, value))
         /\ StepFits(r, [Plain(key, value) EXCEPT !.locked = locked])
         /\ StepFits(r, [Plain(key, value) EXCEPT !.locked = locked, !.onError = "ignore"])
  <2> SUFFICES ASSUME NEW key, NEW value, NEW locked, key[1] \in Writes(r)
               PROVE  /\ StepFits(r, Plain(key, value))
                      /\ StepFits(r, [Plain(key, value) EXCEPT !.locked = locked])
                      /\ StepFits(r, [Plain(key, value) EXCEPT !.locked = locked,
                                                               !.onError = "ignore"])
    BY Zenon
  <2> DEFINE w == Plain(key, value)
             x == [w EXCEPT !.locked = locked]
             y == [w EXCEPT !.locked = locked, !.onError = "ignore"]
  <2>1. /\ w.do = "write" /\ w.key = key
        /\ DOMAIN w = {"do", "key", "value", "status", "mode", "locked", "onError"}
    BY DEF Plain, Write
  <2> HIDE DEF w
  <2>2. x.do = "write" /\ x.key = key /\ y.do = "write" /\ y.key = key
    BY <2>1
  <2> HIDE DEF x, y
  <2>3. StepFits(r, w) /\ StepFits(r, x) /\ StepFits(r, y)
    BY <2>1, <2>2 DEF HvacSteps, GetSteps
  <2> QED
    BY <2>3 DEF w, x, y
<1>3. \A key, value, onError : key[1] \in Writes(r) =>
         StepFits(r, Forced(key, value, onError))
  BY DEF Forced, Write, HvacSteps, GetSteps
<1>4. /\ \A what, p, area : StepFits(r, Check(what, p, area))
      /\ \A key, missing : missing # "OK" => StepFits(r, Read(key, missing))
      /\ \A status : status # "OK" => StepFits(r, Fail(status))
  BY DEF Check, Read, Fail, HvacSteps, GetSteps
<1>5. \A name : name \notin HvacSteps \cup GetSteps \cup
                {"fail", "read", "write", "removeValue", "setUserHalProp", "restore"} =>
         StepFits(r, Step(name))
  BY DEF Step
<1> QED
  BY <1>1, <1>2, <1>3, <1>4, <1>5

LEMMA FitShapes ==
    ASSUME NEW r
    PROVE  /\ FitSteps(r, <<>>)
           /\ \A x : StepFits(r, x) => FitSteps(r, <<x>>)
           /\ \A x, y : StepFits(r, x) /\ StepFits(r, y) => FitSteps(r, <<x, y>>)
           /\ \A s, t : FitSteps(r, s) /\ FitSteps(r, t) => FitSteps(r, s \o t)
           /\ \A s : FitSteps(r, s) /\ s # <<>> =>
                 FitSteps(r, Tail(s)) /\ FitSteps(r, <<Last(s)>>)
<1> USE DEF FitSteps
<1>1. FitSteps(r, <<>>)
  BY NothingInSeq
<1>2. \A x : StepFits(r, x) => FitSteps(r, <<x>>)
  <2> SUFFICES ASSUME NEW x, StepFits(r, x) PROVE FitSteps(r, <<x>>)
    BY Zenon
  <2>1. IsSeq(<<x>>) /\ Range(<<x>>) = {x}
    BY OneSeq
  <2> QED
    BY <2>1, Zenon
<1>3. \A x, y : StepFits(r, x) /\ StepFits(r, y) => FitSteps(r, <<x, y>>)
  BY TwoSeq
<1>4. \A s, t : FitSteps(r, s) /\ FitSteps(r, t) => FitSteps(r, s \o t)
  BY Joined
<1>5. \A s : FitSteps(r, s) /\ s # <<>> => FitSteps(r, Tail(s)) /\ FitSteps(r, <<Last(s)>>)
  BY HeadTail, <1>2
<1> QED
  BY <1>1, <1>2, <1>3, <1>4, <1>5

\* The state of a state property.
StateFor(on, p) == IF ~on THEN Disabled
                   ELSE IF p = "CRUISE_CONTROL_TYPE" THEN ADAPTIVE ELSE 1

\* The state properties of a feature are written, each with the new state.
LEMMA AdasSteps ==
    ASSUME NEW e \in DOMAIN Assists, NEW on \in BOOLEAN
    PROVE  /\ IsSeq(sendAdasPropertiesState(e, on))
           /\ Range(sendAdasPropertiesState(e, on)) =
                {Forced(<<p, Global>>, StateFor(on, p), "ignore") : p \in Assists[e]}
<1> DEFINE props == SetToSeq(Assists[e])
           step(p) == Forced(<<p, Global>>, StateFor(on, p), "ignore")
           steps == [i \in 1 .. Len(props) |-> step(props[i])]
<1>1. /\ Len(props) \in Nat /\ DOMAIN props = 1 .. Len(props)
      /\ Range(props) = Assists[e]
  BY AssistsKnown, SetInSeq
<1>2. sendAdasPropertiesState(e, on) = steps
  BY DEF sendAdasPropertiesState, StateFor
<1> HIDE DEF props, step
<1>3. /\ DOMAIN steps = 1 .. Len(props) /\ steps = [i \in DOMAIN steps |-> steps[i]]
      /\ \A i \in 1 .. Len(props) : steps[i] = step(props[i])
  OBVIOUS
<1>4. IsSeq(steps) /\ Range(steps) = {steps[i] : i \in 1 .. Len(props)}
  <2> HIDE DEF steps
  <2> QED
    BY <1>1, <1>3, FunIsSeq
<1>5. Range(steps) = {step(p) : p \in Assists[e]}
  BY <1>1, <1>3, <1>4 DEF Range
<1> QED
  BY <1>2, <1>4, <1>5 DEF step

LEMMA CruiseFits ==
    ASSUME NEW r, NEW standardRefused \in BOOLEAN
    PROVE  FitSteps(r, cruiseControlChecks(standardRefused))
<1> DEFINE a == Check("adas", "CRUISE_CONTROL_STATE", Global)
           b == Check("adas", "CRUISE_CONTROL_TYPE", Global)
           c == Check("standard", "CRUISE_CONTROL_TYPE", Global)
<1>1. StepFits(r, a) /\ StepFits(r, b) /\ StepFits(r, c)
  BY StepKinds
<1>2. cruiseControlChecks(standardRefused) =
        <<a, b>> \o (IF standardRefused THEN <<c>> ELSE <<>>)
  BY DEF cruiseControlChecks
<1> HIDE DEF a, b, c
<1>3. FitSteps(r, <<a, b>>) /\ FitSteps(r, <<c>>) /\ FitSteps(r, <<>>)
  BY <1>1, FitShapes
<1> QED
  BY <1>2, <1>3, FitShapes

LEMMA ClearFits ==
    ASSUME NEW r, NEW stamps, stamps \in Seq(Range(stamps))
    PROVE  FitSteps(r, clearObd2FreezeFrames(stamps))
<1> DEFINE key(i) == <<"OBD2_FREEZE_FRAME", stamps[(i + 1) \div 2]>>
           step(i) == IF i % 2 = 1 THEN Read(key(i), "INVALID_ARG")
                      ELSE [do |-> "removeValue", key |-> key(i)]
           steps == [i \in 1 .. 2 * Len(stamps) |-> step(i)]
<1>1. StepFits(r, Step("removeValuesForProperty"))
  BY StepKinds DEF HvacSteps, GetSteps
<1>2. \A i : StepFits(r, step(i))
  <2> SUFFICES ASSUME NEW i PROVE StepFits(r, step(i))
    OBVIOUS
  <2>1. StepFits(r, Read(key(i), "INVALID_ARG"))
    BY StepKinds
  <2>2. StepFits(r, [do |-> "removeValue", key |-> key(i)])
    BY DEF StepFits, HvacSteps, GetSteps
  <2> QED
    BY <2>1, <2>2
<1>3. FitSteps(r, <<Step("removeValuesForProperty")>>)
  BY <1>1, FitShapes
<1>4. FitSteps(r, steps)
  <2> HIDE DEF step
  <2>0. Len(stamps) \in Nat
    OBVIOUS
  <2>1. /\ 2 * Len(stamps) \in Nat /\ DOMAIN steps = 1 .. 2 * Len(stamps)
        /\ steps = [i \in DOMAIN steps |-> steps[i]]
        /\ \A i \in 1 .. 2 * Len(stamps) : steps[i] = step(i)
    BY <2>0
  <2> HIDE DEF steps
  <2>2. IsSeq(steps) /\ Range(steps) = {steps[i] : i \in 1 .. 2 * Len(stamps)}
    BY <2>1, FunIsSeq
  <2> QED
    BY <1>2, <2>1, <2>2 DEF FitSteps
<1>5. clearObd2FreezeFrames(stamps) =
        IF stamps = <<>> THEN <<Step("removeValuesForProperty")>> ELSE steps
  BY DEF clearObd2FreezeFrames
<1> QED
  BY <1>3, <1>4, <1>5

\* The steps of a set, whatever its property is.
LEMMA SetFits ==
    ASSUME NEW r, Known(r), r.op \in WriteOps, NEW plain, StepFits(r, plain)
    PROVE  FitSteps(r, maybeSetSpecialValue(r.prop, r.area, r.value, plain))
<1> DEFINE p == r.prop
           v == r.value
           steps == maybeSetSpecialValue(r.prop, r.area, r.value, plain)
           sync == [do |-> "synchronizeHvacTemp", area |-> r.area,
                    temp |-> NoValue, onError |-> "skip"]
<1>1. FitSteps(r, <<plain>>) /\ FitSteps(r, <<>>) /\ \A x : x # "OK" => FitSteps(r, <<Fail(x)>>)
  BY FitShapes, StepKinds
<1>2. p \in DOMAIN Assists => FitSteps(r, sendAdasPropertiesState(p, v = 1))
  <2> SUFFICES ASSUME p \in DOMAIN Assists
               PROVE  FitSteps(r, sendAdasPropertiesState(p, v = 1))
    OBVIOUS
  <2>1. \A q \in Assists[p] : \A x : StepFits(r, Forced(<<q, Global>>, x, "ignore"))
    <3>1. \A q \in Assists[p] : q \in Writes(r)
      BY DEF Writes
    <3> QED
      BY <3>1, StepKinds
  <2>2. (v = 1) \in BOOLEAN
    OBVIOUS
  <2> HIDE DEF p, v
  <2>3. /\ IsSeq(sendAdasPropertiesState(p, v = 1))
        /\ Range(sendAdasPropertiesState(p, v = 1)) =
             {Forced(<<q, Global>>, StateFor(v = 1, q), "ignore") : q \in Assists[p]}
    BY <2>2, AdasSteps
  <2> QED
    BY <2>1, <2>3 DEF FitSteps
<1>3. FitSteps(r, setApPowerStateReport(<<p, r.area>>, v)) \/ p # "AP_POWER_STATE_REPORT"
  <2> SUFFICES ASSUME p = "AP_POWER_STATE_REPORT"
               PROVE  FitSteps(r, setApPowerStateReport(<<p, r.area>>, v))
    OBVIOUS
  <2> DEFINE req == <<"AP_POWER_STATE_REQ", Global>>
             w == Write(<<p, r.area>>, v, "KEEP", "ON_VALUE_CHANGE", FALSE, "fail")
             a == Forced(req, "ON", "fail")
             b == Write(req, "FINISHED", "AVAILABLE", "ON_VALUE_CHANGE", FALSE, "fail")
  <2>1. {p, "AP_POWER_STATE_REQ"} \subseteq Writes(r)
    BY AssistsKnown DEF Writes, OtherProps, hvacProps
  <2>2. StepFits(r, w) /\ StepFits(r, a) /\ StepFits(r, b)
    BY <2>1, StepKinds
  <2>3. \E rest \in {<<a>>, <<b>>, <<>>} : setApPowerStateReport(<<p, r.area>>, v) = <<w>> \o rest
    BY DEF setApPowerStateReport
  <2> HIDE DEF w, a, b
  <2>4. FitSteps(r, <<w>>) /\ FitSteps(r, <<a>>) /\ FitSteps(r, <<b>>)
    BY <2>2, FitShapes
  <2> QED
    BY <1>1, <2>3, <2>4, FitShapes
<1>4. FitSteps(r, setApPowerStateReqShutdown(v)) \/ p # "SHUTDOWN_REQUEST"
  <2> SUFFICES ASSUME p = "SHUTDOWN_REQUEST"
               PROVE  FitSteps(r, setApPowerStateReqShutdown(v))
    OBVIOUS
  <2>1. "AP_POWER_STATE_REQ" \in Writes(r)
    BY AssistsKnown DEF Writes, OtherProps, hvacProps
  <2>2. StepFits(r, Forced(<<"AP_POWER_STATE_REQ", Global>>, "SHUTDOWN_PREPARE", "fail"))
    BY <2>1, StepKinds
  <2> QED
    BY <1>1, <2>2, FitShapes DEF setApPowerStateReqShutdown
<1>5. FitSteps(r, clearObd2FreezeFrames(v)) \/ p # "OBD2_FREEZE_FRAME_CLEAR"
  BY ClearFits DEF Known, WriteOps
<1>6. FitSteps(r, <<Step("setUserHalProp")>>)
  <2>1. StepFits(r, Step("setUserHalProp"))
    BY DEF StepFits, Step, HvacSteps, GetSteps
  <2> QED
    BY <2>1, FitShapes
<1>7. p \in hvacProps =>
        /\ FitSteps(r, <<Step("getSyncedAreaIdIfHvacDualOn"), plain>>)
        /\ FitSteps(r, <<Step("sendHvacPropertiesCurrentValues"), plain>>)
        /\ FitSteps(r, <<sync, plain>>)
  <2>1. p \in hvacProps =>
          /\ StepFits(r, Step("getSyncedAreaIdIfHvacDualOn"))
          /\ StepFits(r, Step("sendHvacPropertiesCurrentValues"))
          /\ StepFits(r, sync)
    BY DEF StepFits, Step, HvacSteps, GetSteps
  <2> HIDE DEF sync
  <2> QED
    BY <2>1, FitShapes
<1>8. \A what, q, area, x : FitSteps(r, <<Check(what, q, area)>>)
  BY FitShapes, StepKinds
<1>9. \A what, q, area : FitSteps(r, <<Check(what, q, area), plain>>)
  BY FitShapes, StepKinds
<1>10. \A x \in BOOLEAN : FitSteps(r, cruiseControlChecks(x) \o <<plain>>)
  BY <1>1, CruiseFits, FitShapes
<1>11. \/ steps \in {<<>>, <<plain>>, <<Step("setUserHalProp")>>, <<Fail("INVALID_ARG")>>,
                     <<Fail("VENDOR_ERROR_CODE")>>,
                     <<Check("adas", "LANE_CENTERING_ASSIST_STATE", Global), plain>>}
       \/ /\ p = "HVAC_TEMPERATURE_SET"
          /\ steps \in {<<Check("hvac", p, r.area)>> \o <<Fail("INVALID_ARG")>>,
                        <<Check("hvac", p, r.area)>> \o
                            <<Step("getSyncedAreaIdIfHvacDualOn"), plain>>}
       \/ p \in DOMAIN Assists /\ steps = sendAdasPropertiesState(p, v = 1) \o <<plain>>
       \/ p = "AP_POWER_STATE_REPORT" /\ steps = setApPowerStateReport(<<p, r.area>>, v)
       \/ p = "SHUTDOWN_REQUEST" /\ steps = setApPowerStateReqShutdown(v)
       \/ p = "OBD2_FREEZE_FRAME_CLEAR" /\ steps = clearObd2FreezeFrames(v)
       \/ p = "HVAC_POWER_ON" /\ steps = <<Step("sendHvacPropertiesCurrentValues"), plain>>
       \/ p = "HVAC_DUAL_ON" /\ steps = <<sync, plain>>
       \/ \E x \in BOOLEAN : steps = cruiseControlChecks(x) \o <<plain>>
  <2> USE AssistsKnown DEF OtherProps, hvacProps, UserProps, OneShotProps, isSupported
  <2>1. CASE p \in {"VENDOR_TEST", "VEHICLE_MAP_SERVICE"} \/ isSupported(p)
    <3>1. steps = <<>> \/ steps = <<Step("setUserHalProp")>>
      BY <2>1 DEF maybeSetSpecialValue
    <3> QED
      BY <3>1
  <2>2. CASE p = "HVAC_TEMPERATURE_SET"
    BY <2>2 DEF maybeSetSpecialValue
  <2>3. CASE p \in DOMAIN Assists /\ v # Malformed
    BY <2>3 DEF maybeSetSpecialValue
  <2>4. CASE p = "HVAC_POWER_ON"
    BY <2>4 DEF maybeSetSpecialValue
  <2>5. CASE p = "HVAC_DUAL_ON"
    BY <2>5 DEF maybeSetSpecialValue
  <2>6. CASE p \in {"AP_POWER_STATE_REPORT", "SHUTDOWN_REQUEST", "OBD2_FREEZE_FRAME_CLEAR",
                    "VENDOR_ERROR"}
    BY <2>6 DEF maybeSetSpecialValue
  <2>7. CASE p \in {"LANE_CENTERING_ASSIST_COMMAND", "CRUISE_CONTROL_COMMAND",
                    "ADAPTIVE_CRUISE_CONTROL_TARGET_TIME_GAP"}
    BY <2>7 DEF maybeSetSpecialValue
  <2>8. CASE /\ p \notin {"VENDOR_TEST", "VEHICLE_MAP_SERVICE", "HVAC_TEMPERATURE_SET",
                 "HVAC_POWER_ON", "HVAC_DUAL_ON", "AP_POWER_STATE_REPORT",
                 "SHUTDOWN_REQUEST", "OBD2_FREEZE_FRAME_CLEAR", "VENDOR_ERROR",
                 "LANE_CENTERING_ASSIST_COMMAND", "CRUISE_CONTROL_COMMAND",
                 "ADAPTIVE_CRUISE_CONTROL_TARGET_TIME_GAP"}
             /\ ~isSupported(p) /\ ~(p \in DOMAIN Assists /\ v # Malformed)
    <3>1. steps = <<plain>>
      BY <2>8 DEF maybeSetSpecialValue
    <3> QED
      BY <3>1
  <2> QED
    BY <2>1, <2>2, <2>3, <2>4, <2>5, <2>6, <2>7, <2>8
<1>12. /\ FitSteps(r, <<Check("hvac", p, r.area)>> \o <<Fail("INVALID_ARG")>>)
       /\ p \in hvacProps => FitSteps(r, <<Check("hvac", p, r.area)>> \o
                                           <<Step("getSyncedAreaIdIfHvacDualOn"), plain>>)
       /\ p \in DOMAIN Assists => FitSteps(r, sendAdasPropertiesState(p, v = 1) \o <<plain>>)
  BY <1>1, <1>2, <1>7, <1>8, FitShapes
<1> HIDE DEF steps, p, v, sync
<1> QED
  BY <1>1, <1>3, <1>4, <1>5, <1>6, <1>7, <1>9, <1>10, <1>11, <1>12 DEF hvacProps, steps, p, v

\* The steps of a get only read.
LEMMA GetFits ==
    ASSUME NEW r, r.op \in {"get", "dumpGet"}
    PROVE  FitSteps(r, maybeGetSpecialValue(r.prop, r.area, r.value))
<1> DEFINE p == r.prop
           v == r.value
           steps == maybeGetSpecialValue(r.prop, r.area, r.value)
           get == Read(<<p, r.area>>, "NOT_AVAILABLE")
           frame == Read(<<p, v>>, "INVALID_ARG")
<1>0. \A name \in GetSteps : StepFits(r, Step(name))
  BY DEF StepFits, Step, HvacSteps, GetSteps
<1>1. /\ StepFits(r, get) /\ StepFits(r, frame)
      /\ StepFits(r, Step("getPowerPropFromExternalService"))
      /\ StepFits(r, Step("getUserHalProp")) /\ StepFits(r, Step("getObd2DtcInfo"))
      /\ \A what, q, area : StepFits(r, Check(what, q, area))
      /\ \A x : x # "OK" => StepFits(r, Fail(x))
  BY <1>0, StepKinds DEF GetSteps
<1>2. \/ steps \in {<<>>, <<get>>, <<Step("getPowerPropFromExternalService")>>,
                    <<Step("getUserHalProp")>>, <<Step("getObd2DtcInfo")>>,
                    <<Fail("INVALID_ARG")>>, <<Fail("VENDOR_ERROR_CODE")>>,
                    <<Check("hvac", p, r.area), get>>, <<Check("frames", p, r.area), frame>>,
                    <<Check("adas", "CRUISE_CONTROL_STATE", Global), get>>}
      \/ steps = cruiseControlChecks(TRUE) \o <<get>>
  <2> USE DEF UserProps, OneShotProps, isSupported, hvacPowerDependentProps, mPowerPropIds
  <2>1. CASE PowerController /\ p \in mPowerPropIds
    BY <2>1 DEF maybeGetSpecialValue
  <2>2. CASE ~(PowerController /\ p \in mPowerPropIds)
    <3>1. CASE p = "VENDOR_TEST" \/ isSupported(p) \/ p \in hvacPowerDependentProps
      BY <2>2, <3>1 DEF maybeGetSpecialValue
    <3>2. CASE p \in {"OBD2_FREEZE_FRAME", "OBD2_FREEZE_FRAME_INFO", "VENDOR_ERROR"}
      BY <2>2, <3>2 DEF maybeGetSpecialValue
    <3>3. CASE p \in {"CRUISE_CONTROL_TARGET_SPEED", "ADAPTIVE_CRUISE_CONTROL_TARGET_TIME_GAP"}
      BY <2>2, <3>3 DEF maybeGetSpecialValue
    <3>4. CASE /\ p \notin {"VENDOR_TEST", "OBD2_FREEZE_FRAME", "OBD2_FREEZE_FRAME_INFO",
                            "VENDOR_ERROR", "CRUISE_CONTROL_TARGET_SPEED",
                            "ADAPTIVE_CRUISE_CONTROL_TARGET_TIME_GAP"}
               /\ ~isSupported(p) /\ p \notin hvacPowerDependentProps
      <4>1. steps = <<get>>
        BY <2>2, <3>4 DEF maybeGetSpecialValue
      <4> QED
        BY <4>1
    <3> QED
      BY <3>1, <3>2, <3>3, <3>4
  <2> QED
    BY <2>1, <2>2
<1> HIDE DEF steps, p, v, get, frame
<1>3. /\ FitSteps(r, <<>>)
      /\ \A x : StepFits(r, x) => FitSteps(r, <<x>>)
      /\ \A what, q, area, x : StepFits(r, x) => FitSteps(r, <<Check(what, q, area), x>>)
  BY <1>1, FitShapes
<1>4. FitSteps(r, cruiseControlChecks(TRUE) \o <<get>>)
  BY <1>1, <1>3, CruiseFits, FitShapes
<1> QED
  BY <1>1, <1>2, <1>3, <1>4 DEF steps

LEMMA StepsOfFit ==
    ASSUME NEW r, Known(r)
    PROVE  FitSteps(r, StepsOf(r))
<1> DEFINE k == <<r.prop, r.area>>
           plain == Plain(k, r.value)
           stamped == [plain EXCEPT !.locked = FALSE]
           event == [plain EXCEPT !.locked = FALSE, !.onError = "ignore"]
<1>1. CASE r.op \in WriteOps
  <2>1. StepFits(r, plain) /\ StepFits(r, stamped)
    <3>1. k[1] \in Writes(r)
      BY <1>1 DEF Writes
    <3> HIDE DEF k
    <3> QED
      BY <3>1, StepKinds
  <2>2. \E w \in {plain, stamped} :
           StepsOf(r) = maybeSetSpecialValue(r.prop, r.area, r.value, w)
    BY <1>1 DEF StepsOf, WriteOps
  <2> HIDE DEF plain, stamped
  <2> QED
    BY <1>1, <2>1, <2>2, SetFits
<1>2. CASE r.op \in {"get", "dumpGet"}
  <2>1. StepsOf(r) = maybeGetSpecialValue(r.prop, r.area, r.value)
    BY <1>2 DEF StepsOf
  <2> QED
    BY <1>2, <2>1, GetFits
<1>3. CASE r.op = "save"
  <2>1. StepsOf(r) = <<Read(k, "NOT_AVAILABLE"), Step("save")>>
    BY <1>3 DEF StepsOf
  <2>2. StepFits(r, Read(k, "NOT_AVAILABLE")) /\ StepFits(r, Step("save"))
    BY StepKinds DEF HvacSteps, GetSteps
  <2> QED
    BY <2>1, <2>2, FitShapes
<1>4. CASE r.op = "restore"
  <2>1. StepsOf(r) = <<Step("restore")>>
    BY <1>4 DEF StepsOf
  <2>2. StepFits(r, Step("restore"))
    BY <1>4 DEF StepFits, Step, HvacSteps, GetSteps
  <2> QED
    BY <2>1, <2>2, FitShapes
<1>5. CASE r.op = "inject"
  <2>1. StepsOf(r) = <<event>>
    BY <1>5 DEF StepsOf, dumpInjectEvent
  <2>2. StepFits(r, event)
    <3>1. k[1] \in Writes(r)
      BY <1>5 DEF Writes, WriteOps
    <3> HIDE DEF k
    <3> QED
      BY <3>1, StepKinds
  <2> HIDE DEF event
  <2> QED
    BY <2>1, <2>2, FitShapes
<1> QED
  BY <1>1, <1>2, <1>3, <1>4, <1>5 DEF Known, WriteOps

----------------------------------------------------------------------------
(* How a thread goes on.                                                   *)

\* Thread t goes on with these steps, the others are left alone.
Moved(t, steps) ==
    /\ DOMAIN thread' = Threads /\ \A u \in Threads \ {t} : thread'[u] = thread[u]
    /\ DOMAIN thread'[t] = Fields
    /\ thread'[t].id = thread[t].id /\ thread'[t].steps = steps

LEMMA Moves ==
    ASSUME DOMAIN thread = Threads, NEW t \in Threads, DOMAIN thread[t] = Fields
    PROVE  /\ \A first : thread' = Continue(t, first) =>
                 /\ Moved(t, first \o Tail(thread[t].steps))
                 /\ thread'[t].stamp = thread[t].stamp
           /\ \A status : thread' = Failed(t, status) =>
                 Moved(t, <<>>) /\ thread'[t].stamp = thread[t].stamp
           /\ \A key, record : thread' = Returned(t, key, record) =>
                 Moved(t, Tail(thread[t].steps)) /\ thread'[t].stamp = thread[t].stamp
           /\ \A steps : thread' = [thread EXCEPT ![t].steps = steps] =>
                 Moved(t, steps) /\ thread'[t].stamp = thread[t].stamp
<1> USE DEF Moved, Fields
<1>1. ASSUME NEW first, thread' = Continue(t, first)
      PROVE  /\ Moved(t, first \o Tail(thread[t].steps))
             /\ thread'[t].stamp = thread[t].stamp
  BY <1>1 DEF Continue
<1>2. ASSUME NEW status, thread' = Failed(t, status)
      PROVE  Moved(t, <<>>) /\ thread'[t].stamp = thread[t].stamp
  BY <1>2 DEF Failed
<1>3. ASSUME NEW key, NEW record, thread' = Returned(t, key, record)
      PROVE  Moved(t, Tail(thread[t].steps)) /\ thread'[t].stamp = thread[t].stamp
  BY <1>3 DEF Returned
<1>4. ASSUME NEW steps, thread' = [thread EXCEPT ![t].steps = steps]
      PROVE  Moved(t, steps) /\ thread'[t].stamp = thread[t].stamp
  BY <1>4
<1> QED
  BY <1>1, <1>2, <1>3, <1>4

\* A write is accepted and the thread goes on, or it is refused.
LEMMA WriteMoves ==
    ASSUME DOMAIN thread = Threads, NEW t \in Threads, DOMAIN thread[t] = Fields,
           DOMAIN store = Keys, writeValue(t)
    PROVE  LET s == Now(t)
               ts == IF s.locked THEN clock + 1 ELSE thread[t].stamp
               old == store[s.key]
               new == store'[s.key]
           IN  /\ Doing(t, "write") /\ (s.locked \/ thread[t].stamp # NoStamp)
               /\ clock' = IF s.locked THEN ts ELSE clock
               /\ UNCHANGED <<scenario, asked, mSavedProps, userHal, queue, batch,
                              active, answered, result, overlapped>>
               /\ thread'[t].stamp = NoStamp
               /\ DOMAIN store' = Keys
               /\ \A k \in Keys : k # s.key => store'[k] = store[k]
               /\ \/ /\ s.key \in Keys /\ accepts(old, ts)
                     /\ Moved(t, Tail(thread[t].steps))
                     /\ new = [value |-> s.value, timestamp |-> ts,
                               status |-> IF s.status # "KEEP" THEN s.status
                                          ELSE IF old = NoValue THEN "AVAILABLE"
                                          ELSE old.status]
                  \/ /\ ~(s.key \in Keys /\ accepts(old, ts))
                     /\ UNCHANGED store
                     /\ \/ s.onError = "fail" /\ Moved(t, <<>>)
                        \/ s.onError = "skip" /\ Moved(t, <<Last(thread[t].steps)>>)
                        \/ s.onError \notin {"fail", "skip"} /\ Moved(t, Tail(thread[t].steps))
<1> DEFINE s == Now(t)
           ts == IF s.locked THEN clock + 1 ELSE thread[t].stamp
           old == store[s.key]
           status == IF s.status # "KEEP" THEN s.status
                     ELSE IF old = NoValue THEN "AVAILABLE" ELSE old.status
           new == [value |-> s.value, status |-> status, timestamp |-> ts]
           taken == s.key \in Keys /\ accepts(old, ts)
<1>1. /\ Doing(t, "write") /\ (s.locked \/ thread[t].stamp # NoStamp)
      /\ clock' = IF s.locked THEN ts ELSE clock
      /\ UNCHANGED <<scenario, asked, mSavedProps, userHal, queue, batch, active,
                     answered, result, overlapped>>
  BY DEF writeValue, queues
<1>2. CASE taken
  <2>1. store' = [store EXCEPT ![s.key] = new]
    BY <1>2 DEF writeValue
  <2>2. PICK sent : thread' = [Returned(t, s.key, new) EXCEPT ![t].stamp = NoStamp,
                                                             ![t].sent = sent]
    BY <1>2 DEF writeValue
  <2> HIDE DEF new, taken
  <2>3. Moved(t, Tail(thread[t].steps)) /\ thread'[t].stamp = NoStamp
    BY <2>2 DEF Moved, Fields, Returned
  <2>4. DOMAIN store' = Keys /\ store'[s.key] = new
        /\ \A k \in Keys : k # s.key => store'[k] = store[k]
    BY <1>2, <2>1 DEF taken
  <2> QED
    BY <1>1, <1>2, <2>3, <2>4 DEF new, taken
<1>3. CASE ~taken
  <2>1. thread' = AfterRefusal(t) /\ UNCHANGED store
    BY <1>3 DEF writeValue
  <2>2. /\ thread'[t].stamp = NoStamp
        /\ \/ s.onError = "fail" /\ Moved(t, <<>>)
           \/ s.onError = "skip" /\ Moved(t, <<Last(thread[t].steps)>>)
           \/ s.onError \notin {"fail", "skip"} /\ Moved(t, Tail(thread[t].steps))
    BY <2>1 DEF AfterRefusal, Moved, Fields
  <2> QED
    BY <1>1, <1>3, <2>1, <2>2
<1> QED
  BY <1>2, <1>3

\* A write leaves the store as it is or puts a whole value, with the time of the write.
LEMMA WriteStores ==
    ASSUME DOMAIN thread = Threads, NEW t \in Threads, DOMAIN thread[t] = Fields,
           DOMAIN store = Keys, writeValue(t)
    PROVE  LET s == Now(t)
               ts == IF s.locked THEN clock + 1 ELSE thread[t].stamp
           IN  \/ UNCHANGED store
               \/ \E st : store'[s.key] = [value |-> s.value, timestamp |-> ts, status |-> st]
<1> DEFINE s == Now(t)
           ts == IF s.locked THEN clock + 1 ELSE thread[t].stamp
           old == store[s.key]
           st == IF s.status # "KEEP" THEN s.status
                 ELSE IF old = NoValue THEN "AVAILABLE" ELSE old.status
           new(z) == [value |-> s.value, timestamp |-> ts, status |-> z]
<1>1. UNCHANGED store \/ store'[s.key] = new(st)
  <2>1. CASE s.key \in Keys /\ accepts(old, ts)
    <3>1. store' = [store EXCEPT ![s.key] = new(st)]
      BY <2>1 DEF writeValue
    <3> HIDE DEF new
    <3> QED
      BY <2>1, <3>1
  <2>2. CASE ~(s.key \in Keys /\ accepts(old, ts))
    BY <2>2 DEF writeValue
  <2> QED
    BY <2>1, <2>2
<1> HIDE DEF st
<1> QED
  BY <1>1, Zenon

\* One step for each element of a finite set.
LEMMA EachOf ==
    ASSUME NEW S, IsFiniteSet(S), NEW f, DOMAIN f = S
    PROVE  LET order == SetToSeq(S)
               steps == [i \in 1 .. Len(order) |-> f[order[i]]]
           IN  IsSeq(steps) /\ Range(steps) = {f[k] : k \in S}
<1> DEFINE order == SetToSeq(S)
           steps == [i \in 1 .. Len(order) |-> f[order[i]]]
<1>1. /\ Len(order) \in Nat /\ DOMAIN order = 1 .. Len(order) /\ Range(order) = S
  BY SetInSeq
<1> HIDE DEF order
<1>2. /\ DOMAIN steps = 1 .. Len(order) /\ steps = [i \in DOMAIN steps |-> steps[i]]
      /\ \A i \in 1 .. Len(order) : steps[i] = f[order[i]]
  OBVIOUS
<1>3. IsSeq(steps) /\ Range(steps) = {steps[i] : i \in 1 .. Len(order)}
  <2> HIDE DEF steps
  <2> QED
    BY <1>1, <1>2, FunIsSeq
<1>4. Range(steps) = {f[k] : k \in S}
  BY <1>1, <1>2, <1>3 DEF Range
<1> QED
  BY <1>3, <1>4 DEF order

\* There is a temperature for each of its areas, and their number is finite.
LEMMA TempKeys ==
    /\ \A k \in Keys : k[1] = "HVAC_TEMPERATURE_SET" => \E x \in TempAreas : k = Temp(x)
    /\ \A x \in TempAreas : Temp(x) \in Keys
    /\ \A S : S \subseteq {Temp(x) : x \in TempAreas} => IsFiniteSet(S)
<1>1. \A k \in Keys : k[1] = "HVAC_TEMPERATURE_SET" => \E x \in TempAreas : k = Temp(x)
  BY AssistsKnown DEF Keys, Temp, OtherProps, hvacProps, UserProps, OneShotProps
<1>2. \A x \in TempAreas : Temp(x) \in Keys
  BY DEF Keys, Temp
<1>3. IsFiniteSet({Temp(x) : x \in TempAreas})
  <2> DEFINE f == [x \in TempAreas |-> Temp(x)]
             T == {Temp(x) : x \in TempAreas}
  <2>1. f \in Surjection(TempAreas, T)
    BY DEF Surjection
  <2> QED
    BY <2>1, AreasKnown, FS_Surjection
<1>4. \A S : S \subseteq {Temp(x) : x \in TempAreas} => IsFiniteSet(S)
  BY <1>3, FS_Subset
<1> QED
  BY <1>1, <1>2, <1>4

\* The status of the temperatures in the area that is switched is sent.
LEMMA SendMoves ==
    ASSUME ThreadsInv, NEW t \in Threads, sendHvacPropertiesCurrentValues(t)
    PROVE  LET r == Request(t)
               send(k) == Write(k, store[k].value, StatusFor(r.value), "ALWAYS",
                                FALSE, "ignore")
               S == {k \in Keys : /\ k[1] = "HVAC_TEMPERATURE_SET" /\ store[k] # NoValue
                                  /\ k[2] \subseteq r.area}
           IN  \E first : /\ IsSeq(first) /\ Range(first) = {send(k) : k \in S}
                          /\ Moved(t, first \o Tail(thread[t].steps))
                          /\ thread'[t].stamp = thread[t].stamp
<1> DEFINE r == Request(t)
           send(k) == Write(k, store[k].value, StatusFor(r.value), "ALWAYS", FALSE, "ignore")
           S == {k \in Keys : /\ k[1] = "HVAC_TEMPERATURE_SET" /\ store[k] # NoValue
                              /\ k[2] \subseteq r.area}
           f == [k \in S |-> send(k)]
           order == SetToSeq(S)
           first == [i \in 1 .. Len(order) |-> f[order[i]]]
<1>1. S = {k \in UNION {readValuesForProperty(p) : p \in hvacPowerDependentProps} :
              k[2] \subseteq r.area}
  BY DEF readValuesForProperty, hvacPowerDependentProps
<1>2. IsFiniteSet(S)
  BY TempKeys
<1>3. IsSeq(first) /\ Range(first) = {f[k] : k \in S}
  <2> HIDE DEF S
  <2>1. DOMAIN f = S
    OBVIOUS
  <2> HIDE DEF f
  <2> QED
    BY <1>2, <2>1, EachOf
<1>4. Range(first) = {send(k) : k \in S}
  BY <1>3
<1>5. thread' = Continue(t, first)
  <2>1. thread' = Continue(t, [i \in 1 .. Len(order) |-> send(order[i])])
    BY <1>1 DEF sendHvacPropertiesCurrentValues, StatusFor
  <2>2. \A i \in 1 .. Len(order) : order[i] \in S
    <3> HIDE DEF S
    <3>1. order \in Seq(S)
      BY <1>2, SetInSeq
    <3> QED
      BY <3>1
  <2> HIDE DEF send, order, S
  <2>3. first = [i \in 1 .. Len(order) |-> send(order[i])]
    BY <2>2
  <2> QED
    BY <2>1, <2>3
<1>6. Moved(t, first \o Tail(thread[t].steps)) /\ thread'[t].stamp = thread[t].stamp
  <2> HIDE DEF first
  <2> QED
    BY <1>5, Moves DEF ThreadsInv, Fits
<1> HIDE DEF first
<1> QED
  BY <1>3, <1>4, <1>6

Seats(area) == {k \in Keys : /\ k[1] = "HVAC_TEMPERATURE_SET" /\ store[k] # NoValue
                             /\ k[2] \subseteq area /\ store[k].status = "AVAILABLE"}

\* Thread t goes on with writing a temperature to the seats S of area, the others
\* have it already.
SyncsTo(t, area, first, temp, S) ==
    /\ IsSeq(first) /\ Range(first) = {Forced(k, temp, Now(t).onError) : k \in S}
    /\ Moved(t, first \o Tail(thread[t].steps)) /\ thread'[t].stamp = thread[t].stamp
    /\ \A k \in Seats(area) \ S : store[k].value = temp
    /\ \A x : (x \in loose') = (x \in loose) \/ \E k \in Seats(area) : k[2] = x

\* Temperatures are written to seats that are available now, to all of them or to
\* all but the one whose temperature is taken.
LEMMA SyncMoves ==
    ASSUME ThreadsInv, NEW t \in Threads, synchronizeHvacTemp(t)
    PROVE  \E first, temp : \E S \in SUBSET Seats(Now(t).area) :
              SyncsTo(t, Now(t).area, first, temp, S)
<1> DEFINE s == Now(t)
           seats == Seats(s.area)
           coupled(S, temp) == LET order == SetToSeq(S)
                               IN  [i \in 1 .. Len(order) |->
                                       Forced(order[i], temp, s.onError)]
           Frame == \A x : (x \in loose') = (x \in loose) \/ \E k \in seats : k[2] = x
           Rest(S, temp) == \A k \in seats \ S : store[k].value = temp
<1>1. seats = {k \in readValuesForProperty("HVAC_TEMPERATURE_SET") :
                  k[2] \subseteq s.area /\ store[k].status = "AVAILABLE"}
  BY DEF readValuesForProperty, Seats
<1>2. \/ thread' = Continue(t, <<>>) /\ Rest({}, 0) /\ Frame
      \/ \E S \in SUBSET seats : \E temp : /\ thread' = Continue(t, coupled(S, temp))
                                           /\ Rest(S, temp) /\ Frame
  <2> DEFINE pick == \E k \in seats : /\ thread' = Continue(t, coupled(seats \ {k}, store[k].value))
                                      /\ loose' = loose \ {k[2]}
  <2>1. IF s.temp # NoValue
        THEN thread' = Continue(t, coupled(seats, s.temp)) /\ loose' = loose
        ELSE IF seats = {} THEN thread' = Continue(t, <<>>) /\ loose' = loose
        ELSE pick
    BY <1>1, Zenon DEF synchronizeHvacTemp
  <2> HIDE DEF coupled, seats
  <2>2. CASE s.temp # NoValue
    <3>1. thread' = Continue(t, coupled(seats, s.temp)) /\ loose' = loose
      BY <2>1, <2>2
    <3>2. Rest(seats, s.temp) /\ Frame /\ seats \in SUBSET seats
      BY <3>1
    <3> QED
      BY <3>1, <3>2, Zenon
  <2>3. CASE s.temp = NoValue /\ seats = {}
    BY <2>1, <2>3
  <2>4. CASE s.temp = NoValue /\ seats # {}
    <3>1. PICK k \in seats : /\ thread' = Continue(t, coupled(seats \ {k}, store[k].value))
                             /\ loose' = loose \ {k[2]}
      BY <2>1, <2>4
    <3>2. Rest(seats \ {k}, store[k].value) /\ Frame /\ seats \ {k} \in SUBSET seats
      BY <3>1
    <3> QED
      BY <3>1, <3>2, Zenon
  <2> QED
    BY <2>2, <2>3, <2>4
<1>3. \A S \in SUBSET seats : IsFiniteSet(S)
  BY TempKeys DEF Seats
<1>4. DOMAIN thread = Threads /\ DOMAIN thread[t] = Fields
  BY DEF ThreadsInv, Fits
<1> HIDE DEF seats, s, Frame, Rest
<1>5. CASE thread' = Continue(t, <<>>) /\ Rest({}, 0) /\ Frame
  <2>1. Moved(t, <<>> \o Tail(thread[t].steps)) /\ thread'[t].stamp = thread[t].stamp
    BY <1>4, <1>5, Moves
  <2>2. IsSeq(<<>>) /\ Range(<<>>) = {Forced(k, 0, s.onError) : k \in {}}
    BY NothingInSeq
  <2>3. SyncsTo(t, s.area, <<>>, 0, {})
    BY <1>5, <2>1, <2>2 DEF SyncsTo, Frame, Rest, seats, s
  <2> QED
    BY <2>3 DEF s
<1>6. CASE \E S \in SUBSET seats : \E temp : /\ thread' = Continue(t, coupled(S, temp))
                                            /\ Rest(S, temp) /\ Frame
  <2>0. PICK S \in SUBSET seats : \E temp : /\ thread' = Continue(t, coupled(S, temp))
                                           /\ Rest(S, temp) /\ Frame
    BY <1>6
  <2>1. PICK temp : thread' = Continue(t, coupled(S, temp)) /\ Rest(S, temp) /\ Frame
    BY <2>0
  <2> DEFINE f == [k \in S |-> Forced(k, temp, s.onError)]
             order == SetToSeq(S)
             first == [i \in 1 .. Len(order) |-> f[order[i]]]
  <2>2. order \in Seq(S)
    BY <1>3, SetInSeq
  <2>3. IsSeq(first) /\ Range(first) = {f[k] : k \in S}
    <3>1. DOMAIN f = S /\ IsFiniteSet(S)
      BY <1>3
    <3> HIDE DEF f
    <3> QED
      BY <3>1, EachOf
  <2>4. Range(first) = {Forced(k, temp, s.onError) : k \in S}
    BY <2>3
  <2>5. first = coupled(S, temp)
    <3>1. \A i \in 1 .. Len(order) : order[i] \in S
      BY <2>2
    <3> HIDE DEF order
    <3>2. first = [i \in 1 .. Len(order) |-> Forced(order[i], temp, s.onError)]
      BY <3>1
    <3> QED
      BY <3>2 DEF order
  <2> HIDE DEF first
  <2>6. Moved(t, first \o Tail(thread[t].steps)) /\ thread'[t].stamp = thread[t].stamp
    BY <1>4, <2>1, <2>5, Moves
  <2>7. SyncsTo(t, s.area, first, temp, S)
    BY <2>1, <2>3, <2>4, <2>6 DEF SyncsTo, Frame, Rest, seats, s
  <2> QED
    BY <2>7 DEF s, seats
<1> QED
  BY <1>2, <1>5, <1>6

\* What the step that is next says of the request.
LEMMA HvacWrites ==
    ASSUME NEW t, thread[t].steps # <<>>, FitSteps(Request(t), thread[t].steps)
    PROVE  /\ FitSteps(Request(t), Tail(thread[t].steps))
           /\ Now(t).do \in HvacSteps =>
                 /\ Request(t).op \in WriteOps /\ Request(t).prop \in hvacProps
                 /\ "HVAC_TEMPERATURE_SET" \in Writes(Request(t))
           /\ Now(t).do = "setUserHalProp" => Request(t).op \in WriteOps
           /\ Now(t).do = "restore" => Request(t).op = "restore"
           /\ Now(t).do = "write" => Now(t).key[1] \in Writes(Request(t))
           /\ Now(t).do = "removeValue" => Now(t).key[1] = "OBD2_FREEZE_FRAME"
           /\ Now(t).do \in GetSteps => Request(t).op \in {"get", "dumpGet"}
           /\ Now(t).do = "fail" => Now(t).status # "OK"
           /\ Now(t).do = "read" => Now(t).missing # "OK"
<1> DEFINE r == Request(t)
<1>1. FitSteps(r, Tail(thread[t].steps))
  BY FitShapes
<1>2. StepFits(r, Now(t))
  BY HeadTail DEF FitSteps, Now
<1>3. r.op \in WriteOps /\ r.prop \in hvacProps => "HVAC_TEMPERATURE_SET" \in Writes(r)
  BY AssistsKnown DEF Writes, OtherProps
<1> QED
  BY <1>1, <1>2, <1>3 DEF StepFits

\* Whatever thread t does, its next steps fit its request.
LEMMA RunMoves ==
    ASSUME ThreadsInv, DOMAIN store = Keys, NEW t \in Threads, Run(t)
    PROVE  /\ Busy(t)
           /\ \/ finish(t)
              \/ /\ \E steps : Moved(t, steps) /\ FitSteps(Request(t), steps)
                 /\ \/ thread'[t].stamp \in {thread[t].stamp, NoStamp}
                    \/ stamp(t) /\ thread'[t].stamp = clock'
<1> DEFINE r == Request(t)
           now == thread[t].steps
<1>1. /\ DOMAIN thread = Threads /\ DOMAIN thread[t] = Fields
      /\ Busy(t) => FitSteps(r, now)
  BY DEF ThreadsInv, Fits
<1>2. CASE finish(t)
  BY <1>2 DEF finish
<1> DEFINE Fine == /\ \E steps : Moved(t, steps) /\ FitSteps(r, steps)
                   /\ \/ thread'[t].stamp \in {thread[t].stamp, NoStamp}
                      \/ stamp(t) /\ thread'[t].stamp = clock'
<1>3. ASSUME Busy(t), now # <<>>,
             \/ \E status : thread' = Failed(t, status)
             \/ \E key, record : thread' = Returned(t, key, record)
             \/ \E first : FitSteps(r, first) /\ thread' = Continue(t, first)
             \/ \E steps : FitSteps(r, steps) /\ thread' = [thread EXCEPT ![t].steps = steps]
      PROVE  Fine
  <2>1. FitSteps(r, now) /\ FitSteps(r, Tail(now)) /\ FitSteps(r, <<>>)
    BY <1>1, <1>3, FitShapes
  <2>2. \A first : FitSteps(r, first) => FitSteps(r, first \o Tail(now))
    BY <2>1, FitShapes
  <2> HIDE DEF r, now
  <2>3. CASE \E status : thread' = Failed(t, status)
    BY <1>1, <2>1, <2>3, Moves DEF now
  <2>4. CASE \E key, record : thread' = Returned(t, key, record)
    BY <1>1, <2>1, <2>4, Moves DEF now
  <2>5. CASE \E first : FitSteps(r, first) /\ thread' = Continue(t, first)
    BY <1>1, <2>2, <2>5, Moves DEF now
  <2>6. CASE \E steps : FitSteps(r, steps) /\ thread' = [thread EXCEPT ![t].steps = steps]
    BY <1>1, <2>6, Moves DEF now
  <2> QED
    BY <1>3, <2>3, <2>4, <2>5, <2>6
<1>4. FitSteps(r, <<>>)
  BY FitShapes
<1>5. CASE check(t) \/ fail(t)
  BY <1>3, <1>4, <1>5, Zenon DEF check, fail, Doing
<1>6. CASE stamp(t)
  <2>1. /\ Busy(t) /\ clock' = clock + 1
        /\ thread' = [thread EXCEPT ![t].stamp = clock']
    BY <1>6 DEF stamp, Doing
  <2>2. Moved(t, now) /\ thread'[t].stamp = clock'
    BY <1>1, <2>1 DEF Moved, Fields
  <2> QED
    BY <1>1, <1>6, <2>1, <2>2
<1>7. CASE writeValue(t)
  <2>1. Busy(t) /\ now # <<>>
    BY <1>7 DEF writeValue, Doing
  <2>2. FitSteps(r, Tail(now)) /\ FitSteps(r, <<Last(now)>>)
    BY <1>1, <2>1, FitShapes
  <2>3. /\ thread'[t].stamp = NoStamp
        /\ Moved(t, <<>>) \/ Moved(t, <<Last(now)>>) \/ Moved(t, Tail(now))
    BY <1>1, <1>7, WriteMoves
  <2> QED
    BY <1>4, <2>1, <2>2, <2>3
<1>8. CASE sendHvacPropertiesCurrentValues(t)
  <2>1. Busy(t) /\ now # <<>> /\ Now(t).do \in HvacSteps
    BY <1>8 DEF sendHvacPropertiesCurrentValues, Doing, HvacSteps, Now
  <2>2. FitSteps(r, Tail(now)) /\ "HVAC_TEMPERATURE_SET" \in Writes(r)
    BY <1>1, <2>1, HvacWrites
  <2> DEFINE send(k) == Write(k, store[k].value, StatusFor(r.value), "ALWAYS", FALSE, "ignore")
             S == {k \in Keys : /\ k[1] = "HVAC_TEMPERATURE_SET" /\ store[k] # NoValue
                                /\ k[2] \subseteq r.area}
  <2>3. PICK first : /\ IsSeq(first) /\ Range(first) = {send(k) : k \in S}
                     /\ Moved(t, first \o Tail(now)) /\ thread'[t].stamp = thread[t].stamp
    BY <1>8, SendMoves
  <2>4. FitSteps(r, first)
    <3>1. \A k \in S : k[1] = "HVAC_TEMPERATURE_SET"
      OBVIOUS
    <3>2. \A k \in S : StepFits(r, send(k))
      <4> HIDE DEF S
      <4> QED
        BY <2>2, <3>1, StepKinds
    <3> HIDE DEF send, S
    <3> QED
      BY <2>3, <3>2 DEF FitSteps
  <2>5. FitSteps(r, first \o Tail(now))
    BY <2>2, <2>4, FitShapes
  <2> QED
    BY <2>1, <2>3, <2>5
<1>9. CASE synchronizeHvacTemp(t)
  <2>1. Busy(t) /\ now # <<>> /\ Now(t).do \in HvacSteps
    BY <1>9 DEF synchronizeHvacTemp, Doing, HvacSteps, Now
  <2>2. FitSteps(r, Tail(now)) /\ "HVAC_TEMPERATURE_SET" \in Writes(r)
    BY <1>1, <2>1, HvacWrites
  <2> DEFINE seats == Seats(Now(t).area)
  <2>0. PICK first, temp : \E S \in SUBSET seats : SyncsTo(t, Now(t).area, first, temp, S)
    BY <1>9, SyncMoves
  <2>3. /\ IsSeq(first) /\ Moved(t, first \o Tail(now)) /\ thread'[t].stamp = thread[t].stamp
        /\ \E S \in SUBSET seats : Range(first) = {Forced(k, temp, Now(t).onError) : k \in S}
    BY <2>0 DEF SyncsTo
  <2>4. FitSteps(r, first)
    <3>1. \A k \in seats : k[1] = "HVAC_TEMPERATURE_SET"
      BY DEF Seats
    <3> HIDE DEF seats
    <3>2. \A k \in seats : StepFits(r, Forced(k, temp, Now(t).onError))
      BY <2>2, <3>1, StepKinds
    <3> QED
      BY <2>3, <3>2 DEF FitSteps
  <2>5. FitSteps(r, first \o Tail(now))
    BY <2>2, <2>4, FitShapes
  <2> QED
    BY <2>1, <2>3, <2>5
<1>10. CASE getSyncedAreaIdIfHvacDualOn(t)
  <2>1. Busy(t) /\ now # <<>> /\ Now(t).do \in HvacSteps
    BY <1>10 DEF getSyncedAreaIdIfHvacDualOn, Doing, HvacSteps, Now
  <2>2. r.op \in WriteOps /\ r.prop \in hvacProps
    BY <1>1, <2>1, HvacWrites
  <2>3. \A area, temp : FitSteps(r, <<[do |-> "synchronizeHvacTemp", area |-> area,
                                       temp |-> temp, onError |-> "fail"]>>)
    <3>1. \A area, temp : StepFits(r, [do |-> "synchronizeHvacTemp", area |-> area,
                                       temp |-> temp, onError |-> "fail"])
      BY <2>2 DEF StepFits, HvacSteps, GetSteps
    <3> QED
      BY <3>1, FitShapes
  <2>4. \/ thread' = Continue(t, <<>>)
        \/ \E area, temp : thread' = [thread EXCEPT ![t].steps =
               <<[do |-> "synchronizeHvacTemp", area |-> area, temp |-> temp,
                  onError |-> "fail"]>>]
    BY <1>10, Zenon DEF getSyncedAreaIdIfHvacDualOn
  <2> QED
    BY <1>3, <1>4, <2>1, <2>3, <2>4, Zenon
<1>11. CASE \/ read(t) \/ removeValue(t) \/ removeValuesForProperty(t) \/ getObd2DtcInfo(t)
            \/ getUserHalProp(t) \/ getPowerPropFromExternalService(t) \/ save(t)
  <2>1. Busy(t) /\ now # <<>>
    BY <1>11 DEF read, removeValue, removeValuesForProperty, getObd2DtcInfo,
         getUserHalProp, getPowerPropFromExternalService, save, Doing
  <2>2. \/ \E status : thread' = Failed(t, status)
        \/ \E key, record : thread' = Returned(t, key, record)
        \/ thread' = Continue(t, <<>>)
    BY <1>11, Zenon DEF read, removeValue, removeValuesForProperty, getObd2DtcInfo,
         getUserHalProp, getPowerPropFromExternalService, save
  <2> QED
    BY <1>3, <1>4, <2>1, <2>2, Zenon
<1>12. CASE setUserHalProp(t)
  <2>1. Busy(t) /\ now # <<>> /\ Now(t).do = "setUserHalProp"
    BY <1>12 DEF setUserHalProp, Doing, Now
  <2>2. r.op \in WriteOps
    BY <1>1, <2>1, HvacWrites
  <2>3. \A reply : FitSteps(r, <<Forced(<<r.prop, Global>>, reply, "fail")>>)
    <3>1. r.prop \in Writes(r)
      BY <2>2 DEF Writes
    <3> QED
      BY <3>1, StepKinds, FitShapes
  <2>4. \/ \E status : thread' = Failed(t, status)
        \/ thread' = Continue(t, <<>>)
        \/ \E reply : thread' = Continue(t, <<Forced(<<r.prop, Global>>, reply, "fail")>>)
    BY <1>12 DEF setUserHalProp
  <2> QED
    BY <1>3, <1>4, <2>1, <2>3, <2>4, Zenon
<1>13. CASE restore(t)
  <2>1. Busy(t) /\ now # <<>> /\ Now(t).do = "restore"
    BY <1>13 DEF restore, Doing, Now
  <2>2. r.op = "restore"
    BY <1>1, <2>1, HvacWrites
  <2>3. \A value : FitSteps(r, <<[Plain(<<r.prop, r.area>>, value) EXCEPT !.locked = FALSE]>>)
    <3>1. r.prop \in Writes(r)
      BY <2>2 DEF Writes, WriteOps
    <3> QED
      BY <3>1, StepKinds, FitShapes
  <2>4. \/ \E status : thread' = Failed(t, status)
        \/ \E value : thread' = Continue(t,
               <<[Plain(<<r.prop, r.area>>, value) EXCEPT !.locked = FALSE]>>)
    BY <1>13, Zenon DEF restore
  <2> QED
    BY <1>3, <2>1, <2>3, <2>4, Zenon
<1> QED
  BY <1>2, <1>5, <1>6, <1>7, <1>8, <1>9, <1>10, <1>11, <1>12, <1>13 DEF Run

\* What is stored changes where a value is written or a frame removed.
LEMMA StoreMoves ==
    ASSUME ThreadsInv, DOMAIN store = Keys, clock \in Nat, NEW t \in Threads, Run(t)
    PROVE  /\ DOMAIN store' = Keys
           /\ \A k \in Keys : \/ store'[k] = store[k]
                              \/ k[1] = "OBD2_FREEZE_FRAME" /\ store'[k] = NoValue
                              \/ writeValue(t) /\ k = Now(t).key
           /\ clock' = clock \/ (clock' = clock + 1 /\ (writeValue(t) \/ stamp(t)))
           /\ UNCHANGED <<asked, overlapped>>
<1> USE DEF readOnly, queues, ghosts
<1>0. DOMAIN thread[t] = Fields /\ DOMAIN thread = Threads
  BY DEF ThreadsInv, Fits
<1>1. CASE check(t) \/ fail(t) \/ stamp(t) \/ finish(t) \/ read(t) \/ getObd2DtcInfo(t)
  BY <1>1 DEF check, fail, stamp, finish, read, getObd2DtcInfo
<1>2. CASE \/ sendHvacPropertiesCurrentValues(t) \/ getSyncedAreaIdIfHvacDualOn(t)
           \/ synchronizeHvacTemp(t)
  BY <1>2 DEF sendHvacPropertiesCurrentValues, getSyncedAreaIdIfHvacDualOn,
       synchronizeHvacTemp
<1>3. CASE \/ setUserHalProp(t) \/ getUserHalProp(t)
           \/ getPowerPropFromExternalService(t) \/ save(t) \/ restore(t)
  BY <1>3 DEF setUserHalProp, getUserHalProp, getPowerPropFromExternalService, save, restore
<1>4. CASE writeValue(t)
  <2>1. /\ DOMAIN store' = Keys /\ \A k \in Keys : k # Now(t).key => store'[k] = store[k]
        /\ clock' = IF Now(t).locked THEN clock + 1 ELSE clock
        /\ UNCHANGED <<asked, overlapped>>
    BY <1>0, <1>4, WriteMoves
  <2> QED
    BY <1>4, <2>1
<1>5. CASE removeValue(t)
  <2>1. /\ Doing(t, "removeValue") /\ store' = [store EXCEPT ![Now(t).key] = NoValue]
        /\ UNCHANGED <<asked, overlapped, clock>>
    BY <1>5 DEF removeValue
  <2>2. Now(t).key[1] = "OBD2_FREEZE_FRAME"
    BY <2>1, HvacWrites DEF ThreadsInv, Fits, Doing, Now
  <2> QED
    BY <2>1, <2>2
<1>6. CASE removeValuesForProperty(t)
  BY <1>6 DEF removeValuesForProperty
<1> QED
  BY <1>1, <1>2, <1>3, <1>4, <1>5, <1>6 DEF Run

----------------------------------------------------------------------------
(* Three kinds of steps: a request begins, a thread goes on, or neither.    *)

\* Requests that were made stay as they are.
Kept ==
    /\ Len(asked) \in Nat /\ Len(asked') \in Nat /\ Len(asked) =< Len(asked')
    /\ \A i \in 1 .. Len(asked) : asked'[i] = asked[i]

Quiet == Kept /\ UNCHANGED <<thread, store, clock, overlapped, loose, result>>

Same(q, r) == q.op = r.op /\ q.prop = r.prop /\ q.area = r.area /\ q.value = r.value

\* Thread t begins with request r, which is number id.
Begins(t, r, id, ts) ==
    /\ Kept /\ ~Busy(t) /\ id \in 1 .. Len(asked') /\ Same(asked'[id], r) /\ Known(r)
    /\ IF t = "dump" THEN r.op \notin Handlers ELSE r.op = t
    /\ ts = NoStamp \/ (r.op = "inject" /\ ts \in {0, clock})
    /\ thread' = [thread EXCEPT ![t] = [Idle EXCEPT !.id = id, !.stamp = ts,
                                                   !.steps = StepsOf(r)]]
    /\ overlapped' = (overlapped \/ Overlaps(t, r))
    /\ id \in 1 .. Len(asked) => asked[id] = r /\ result[id] = NoValue
    /\ UNCHANGED <<store, clock, loose, result>>

LEMMA NextCases ==
    ASSUME PlaceInv, [Next]_vars
    PROVE  \/ Quiet
           \/ \E t \in Threads : \E r, id, ts : Begins(t, r, id, ts)
           \/ Kept /\ \E t \in Threads : Run(t)
<1> USE BoundsKnown DEF PlaceInv
<1>0. Len(asked) \in Nat /\ (UNCHANGED asked => Kept)
  BY DEF AskedType, Kept
<1>1. CASE \E r \in scenario : addRequest(r)
  <2>1. PICK r \in scenario : addRequest(r)
    BY <1>1
  <2>2. /\ Record(r) /\ UNCHANGED <<scenario, thread, store, clock, overlapped, loose, result>>
        /\ Len(asked) < MaxRequests
    BY <2>1 DEF addRequest, ghosts
  <2>3. Len(asked') = Len(asked) + 1 /\ \A i \in 1 .. Len(asked) : asked'[i] = asked[i]
    BY <2>2, Recorded
  <2> QED
    BY <1>0, <2>2, <2>3 DEF Quiet, Kept
<1>2. CASE \E r \in scenario : dump(r)
  <2>1. PICK r \in scenario : dump(r)
    BY <1>2
  <2>2. /\ Record(r) /\ UNCHANGED <<scenario, store, clock, loose, result>> /\ r.op \notin Handlers
        /\ Len(asked) < MaxRequests
    BY <2>1 DEF dump
  <2>3. /\ Len(asked') = Len(asked) + 1 /\ \A i \in 1 .. Len(asked) : asked'[i] = asked[i]
        /\ Same(asked'[Len(asked')], r)
    BY <2>2, Recorded DEF Same
  <2>4. Kept /\ Len(asked') \in 1 .. Len(asked')
    BY <1>0, <2>3 DEF Kept
  <2>5. PICK ts \in IF r.op = "inject" THEN {0, clock} ELSE {NoStamp} :
           begin("dump", Len(asked'), r, ts)
    BY <2>1 DEF dump
  <2>6. Known(r)
    BY RequestsKnown DEF AskedType
  <2>7. Len(asked') \notin 1 .. Len(asked)
    BY <1>0, <2>3
  <2>8. Begins("dump", r, Len(asked'), ts)
    BY <2>2, <2>3, <2>4, <2>5, <2>6, <2>7 DEF Begins, begin
  <2> QED
    BY <2>8 DEF Threads
<1>3. CASE \E h \in Handlers : handleRequest(h)
  <2>1. PICK h \in Handlers : handleRequest(h)
    BY <1>3
  <2>2. PICK i \in 1 .. Len(batch[h]) : /\ begin(h, batch[h][i], asked[batch[h][i]], NoStamp)
                                        /\ UNCHANGED <<asked, store, clock, loose, result>>
                                        /\ result[batch[h][i]] = NoValue
    BY <2>1 DEF handleRequest
  <2> DEFINE id == batch[h][i]
  <2>3. id \in 1 .. Len(asked) /\ asked[id].op = h
    <3>1. id \in Range(batch[h])
      BY DEF QueuesInv, Range
    <3> QED
      BY <3>1 DEF QueuesInv, RequestsOf
  <2>4. Known(asked[id]) /\ h \in Threads /\ h # "dump"
    BY <2>3 DEF AskedType, Threads, Handlers
  <2>5. Begins(h, asked[id], id, NoStamp)
    BY <1>0, <2>2, <2>3, <2>4 DEF Begins, begin, Same
  <2> QED
    BY <2>4, <2>5
<1>4. CASE \E h \in Handlers : flush(h) \/ callback(h) \/ stop(h)
  BY <1>0, <1>4 DEF flush, callback, stop, Quiet, ghosts
<1>5. CASE \E t \in Threads : Run(t)
  BY <1>0, <1>5, RunFrame
<1>6. CASE UNCHANGED vars
  BY <1>0, <1>6 DEF vars, Quiet, ghosts
<1> QED
  BY <1>1, <1>2, <1>3, <1>4, <1>5, <1>6 DEF Next, Handle

----------------------------------------------------------------------------
(* One writer at a time.                                                   *)

LEMMA SameFit ==
    ASSUME NEW q, NEW r, Same(q, r), NEW steps, FitSteps(r, steps)
    PROVE  FitSteps(q, steps)
<1>1. Writes(q) = Writes(r)
  BY DEF Writes, Same
<1>2. \A s : StepFits(r, s) => StepFits(q, s)
  BY <1>1 DEF StepFits, Same
<1> QED
  BY <1>2 DEF FitSteps

\* A thread that does nothing keeps its request.
LEMMA KeptRequest ==
    ASSUME Kept, NEW u \in Threads, Fits(u), thread'[u] = thread[u]
    PROVE  Fits(u)' /\ Busy(u)' = Busy(u) /\ (Busy(u) => Request(u)' = Request(u))
<1>1. Busy(u)' = Busy(u)
  BY DEF Busy
<1>2. Busy(u) => Request(u)' = Request(u) /\ thread[u].id \in 1 .. Len(asked')
  BY DEF Fits, Kept, Request
<1> QED
  BY <1>1, <1>2 DEF Fits

\* A thread that goes on does so with the request it has.
LEMMA MovedRequest ==
    ASSUME ThreadsInv, Kept, NEW t \in Threads, Busy(t), NEW steps,
           Moved(t, steps), FitSteps(Request(t), steps)
    PROVE  Fits(t)' /\ Busy(t)' /\ Request(t)' = Request(t)
<1>1. Fits(t) /\ thread'[t].id = thread[t].id
  BY DEF ThreadsInv, Moved
<1>2. Busy(t)' /\ Request(t)' = Request(t) /\ thread'[t].id \in 1 .. Len(asked')
  BY <1>1 DEF Fits, Busy, Kept, Request
<1> QED
  BY <1>1, <1>2 DEF Fits, Moved

\* The thread that begins, and what it begins with.
LEMMA BegunRequest ==
    ASSUME ThreadsInv, NEW t \in Threads, NEW r, NEW id, NEW ts, Begins(t, r, id, ts)
    PROVE  /\ Fits(t)' /\ Busy(t)' /\ Same(Request(t)', r)
           /\ thread'[t].steps = StepsOf(r) /\ thread'[t].stamp = ts
           /\ DOMAIN thread' = Threads /\ \A u \in Threads \ {t} : thread'[u] = thread[u]
<1> DEFINE new == [Idle EXCEPT !.id = id, !.stamp = ts, !.steps = StepsOf(r)]
<1>1. /\ DOMAIN new = Fields /\ new.id = id /\ new.steps = StepsOf(r) /\ new.stamp = ts
  BY DEF Idle, Fields
<1>2. thread' = [thread EXCEPT ![t] = new]
  BY DEF Begins
<1> HIDE DEF new
<1>3. /\ thread'[t] = new /\ DOMAIN thread' = Threads
      /\ \A u \in Threads \ {t} : thread'[u] = thread[u]
  BY <1>2 DEF ThreadsInv
<1>4. id \in 1 .. Len(asked') /\ id # 0 /\ Same(asked'[id], r)
  BY DEF Begins, Kept
<1>5. FitSteps(asked'[id], StepsOf(r))
  BY <1>4, StepsOfFit, SameFit DEF Begins
<1>6. IF t = "dump" THEN asked'[id].op \notin Handlers ELSE asked'[id].op = t
  BY <1>4 DEF Begins, Same
<1> QED
  BY <1>1, <1>3, <1>4, <1>5, <1>6 DEF Fits, Busy, Request

LEMMA FinishedThread ==
    ASSUME ThreadsInv, NEW t \in Threads, finish(t)
    PROVE  /\ Fits(t)' /\ ~Busy(t)' /\ thread'[t] = Idle /\ UNCHANGED store
           /\ DOMAIN thread' = Threads /\ \A u \in Threads \ {t} : thread'[u] = thread[u]
<1>1. /\ thread'[t] = Idle /\ DOMAIN thread' = Threads /\ UNCHANGED store
      /\ \A u \in Threads \ {t} : thread'[u] = thread[u]
  BY DEF finish, ThreadsInv
<1>2. DOMAIN Idle = Fields /\ Idle.id = 0
  BY DEF Idle, Fields
<1> QED
  BY <1>1, <1>2 DEF Fits, Busy

LEMMA ThreadsStep ==
    ASSUME PlaceInv, ThreadsInv, DOMAIN store = Keys, [Next]_vars
    PROVE  ThreadsInv'
<1>1. CASE Quiet
  BY <1>1, KeptRequest DEF ThreadsInv, Quiet
<1>2. CASE \E t \in Threads : \E r, id, ts : Begins(t, r, id, ts)
  <2>0. PICK t \in Threads : \E r, id, ts : Begins(t, r, id, ts)
    BY <1>2
  <2>1. PICK r, id, ts : Begins(t, r, id, ts)
    BY <2>0
  <2>2. /\ Fits(t)' /\ DOMAIN thread' = Threads
        /\ \A u \in Threads \ {t} : thread'[u] = thread[u]
    BY <2>1, BegunRequest
  <2>3. Kept
    BY <2>1 DEF Begins
  <2>4. \A u \in Threads \ {t} : Fits(u)'
    BY <2>2, <2>3, KeptRequest DEF ThreadsInv
  <2> QED
    BY <2>2, <2>4 DEF ThreadsInv
<1>3. CASE Kept /\ \E t \in Threads : Run(t)
  <2>1. PICK t \in Threads : Run(t)
    BY <1>3
  <2>2. /\ Fits(t)' /\ DOMAIN thread' = Threads
        /\ \A u \in Threads \ {t} : thread'[u] = thread[u]
    <3>1. CASE finish(t)
      BY <3>1, FinishedThread
    <3>2. CASE \E steps : Moved(t, steps) /\ FitSteps(Request(t), steps)
      BY <1>3, <2>1, <3>2, RunMoves, MovedRequest DEF Moved
    <3> QED
      BY <2>1, <3>1, <3>2, RunMoves
  <2>3. \A u \in Threads \ {t} : Fits(u)'
    BY <1>3, <2>2, KeptRequest DEF ThreadsInv
  <2> QED
    BY <2>2, <2>3 DEF ThreadsInv
<1> QED
  BY <1>1, <1>2, <1>3, NextCases

LEMMA ClockStep ==
    ASSUME PlaceInv, ThreadsInv, ClockInv, [Next]_vars
    PROVE  ClockInv'
<1> DEFINE Fine(c, st) == st = NoStamp \/ st \in 0 .. c
<1>1. ASSUME clock' \in {clock, clock + 1},
             \A u \in Threads : thread'[u].stamp = thread[u].stamp \/ Fine(clock', thread'[u].stamp)
      PROVE  clock' \in Nat /\ \A u \in Threads : Fine(clock', thread'[u].stamp)
  BY <1>1 DEF ClockInv
<1>2. CASE Quiet
  BY <1>2 DEF ClockInv, Quiet
<1>3. CASE \E t \in Threads : \E r, id, ts : Begins(t, r, id, ts)
  <2>0. PICK t \in Threads : \E r, id, ts : Begins(t, r, id, ts)
    BY <1>3
  <2>1. PICK r, id, ts : Begins(t, r, id, ts)
    BY <2>0
  <2>2. thread'[t].stamp = ts /\ \A u \in Threads \ {t} : thread'[u] = thread[u]
    BY <2>1, BegunRequest
  <2>3. UNCHANGED <<store, clock>> /\ Fine(clock, ts)
    BY <2>1 DEF Begins, ClockInv
  <2> QED
    BY <1>1, <2>2, <2>3 DEF ClockInv
<1>4. CASE \E t \in Threads : Run(t)
  <2>1. PICK t \in Threads : Run(t)
    BY <1>4
  <2>2. /\ DOMAIN store' = Keys
        /\ \A k \in Keys : \/ store'[k] = store[k] \/ store'[k] = NoValue
                           \/ writeValue(t) /\ k = Now(t).key
        /\ clock' \in {clock, clock + 1}
    BY <2>1, StoreMoves DEF ClockInv
  <2>3. \A u \in Threads : thread'[u].stamp = thread[u].stamp \/ Fine(clock', thread'[u].stamp)
    <3>1. CASE finish(t)
      BY <3>1, FinishedThread DEF Idle
    <3>2. CASE /\ \E steps : Moved(t, steps)
               /\ thread'[t].stamp \in {thread[t].stamp, NoStamp, clock'}
      BY <2>2, <3>2 DEF Moved, ClockInv
    <3> QED
      BY <2>1, <3>1, <3>2, RunMoves DEF ClockInv
  <2>4. clock' \in Nat /\ \A u \in Threads : Fine(clock', thread'[u].stamp)
    BY <1>1, <2>2, <2>3
  <2>5. ASSUME NEW k \in Keys
        PROVE  store'[k] = NoValue \/ store'[k].timestamp \in 0 .. clock'
    <3>1. CASE store'[k] = store[k] \/ store'[k] = NoValue
      BY <2>2, <3>1 DEF ClockInv
    <3>2. CASE writeValue(t) /\ k = Now(t).key /\ store'[k] # store[k]
      <4> DEFINE ts == IF Now(t).locked THEN clock + 1 ELSE thread[t].stamp
      <4>0. DOMAIN thread = Threads /\ DOMAIN thread[t] = Fields /\ DOMAIN store = Keys
        BY DEF ThreadsInv, Fits, ClockInv
      <4>1. /\ Now(t).locked \/ thread[t].stamp # NoStamp
            /\ clock' = IF Now(t).locked THEN ts ELSE clock
            /\ store'[k].timestamp = ts
        <5>1. /\ Now(t).locked \/ thread[t].stamp # NoStamp
              /\ clock' = IF Now(t).locked THEN ts ELSE clock
          BY <3>2, <4>0, WriteMoves
        <5>2. \/ UNCHANGED store
              \/ \E st : store'[Now(t).key] = [value |-> Now(t).value, timestamp |-> ts,
                                               status |-> st]
          BY <3>2, <4>0, WriteStores
        <5>3. PICK st : store'[k] = [value |-> Now(t).value, timestamp |-> ts, status |-> st]
          BY <3>2, <5>2
        <5> QED
          BY <5>1, <5>3
      <4>2. ts \in 0 .. clock'
        BY <4>1 DEF ClockInv
      <4> QED
        BY <4>1, <4>2
    <3> QED
      BY <2>2, <3>1, <3>2
  <2> QED
    BY <2>2, <2>4, <2>5 DEF ClockInv
<1> QED
  BY <1>2, <1>3, <1>4, NextCases

\* Coupled properties are written by the thread that has them.
LEMMA WriterOwns ==
    ASSUME ThreadsInv, OwnInv, ~overlapped, NEW t \in Threads,
           Doing(t, "write"), Coupled(Now(t).key[1])
    PROVE  t \in Writers /\ Owns(t)
<1> DEFINE r == Request(t)
           p == Now(t).key[1]
<1>1. /\ Busy(t) /\ p \in Writes(r)
      /\ IF t = "dump" THEN r.op \notin Handlers ELSE r.op = t
  BY HvacWrites DEF ThreadsInv, Fits, Doing, Now
<1>2. r.op \in {"restore", "inject"} => ~Coupled(r.prop)
  BY <1>1 DEF OwnInv
<1>3. ~Coupled("AP_POWER_STATE_REQ")
  BY AssistsKnown DEF Coupled, OtherProps, hvacProps
<1>4. \A q \in DOMAIN Assists \cup hvacProps : Coupled(q)
  BY DEF Coupled
<1> HIDE DEF r, p
<1>5. r.op \in WriteOps /\ Coupled(r.prop)
  BY <1>1, <1>2, <1>3, <1>4 DEF Writes, p
<1>6. t # "get"
  BY <1>1, <1>5 DEF WriteOps
<1> QED
  BY <1>1, <1>5, <1>6 DEF Owns, Writers, Threads, Handlers, r

\* A thread that sets coupled properties is not refused by the store.
LEMMA NeverRefused ==
    ASSUME ThreadsInv, ClockInv, OwnInv, ~overlapped, NEW t \in Threads, writeValue(t),
           Coupled(Now(t).key[1]), Now(t).key \in Keys
    PROVE  /\ Moved(t, Tail(thread[t].steps))
           /\ accepts(store[Now(t).key],
                      IF Now(t).locked THEN clock + 1 ELSE thread[t].stamp)
           /\ LET s == Now(t)
                  old == store[s.key]
              IN  store'[s.key] =
                    [value |-> s.value,
                     timestamp |-> IF s.locked THEN clock + 1 ELSE thread[t].stamp,
                     status |-> IF s.status # "KEEP" THEN s.status
                                ELSE IF old = NoValue THEN "AVAILABLE" ELSE old.status]
<1> DEFINE s == Now(t)
           ts == IF s.locked THEN clock + 1 ELSE thread[t].stamp
<1>1. /\ DOMAIN thread = Threads /\ DOMAIN thread[t] = Fields /\ DOMAIN store = Keys
  BY DEF ThreadsInv, Fits, ClockInv
<1>2. Doing(t, "write") /\ (s.locked \/ thread[t].stamp # NoStamp)
  BY <1>1, WriteMoves
<1>3. t \in Writers /\ Owns(t)
  BY <1>2, WriterOwns
<1>4. accepts(store[s.key], ts)
  <2>1. CASE s.locked
    BY <2>1 DEF ClockInv, accepts
  <2>2. CASE ~s.locked
    <3>1. store[s.key] = NoValue \/ store[s.key].timestamp =< thread[t].stamp
      BY <1>2, <1>3, <2>2 DEF OwnInv
    <3> QED
      BY <2>2, <3>1 DEF accepts
  <2> QED
    BY <2>1, <2>2
<1> QED
  BY <1>1, <1>4, WriteMoves

LEMMA OwnStep ==
    ASSUME PlaceInv, ThreadsInv, ClockInv, OwnInv, [Next]_vars
    PROVE  OwnInv'
<1>0. SUFFICES ASSUME ~overlapped' PROVE OwnInv'
  BY DEF OwnInv
<1> DEFINE Fine(u) == \A k \in Keys : Coupled(k[1]) =>
                store[k] = NoValue \/ store[k].timestamp =< thread[u].stamp
\* A thread that does nothing.
<1>1. ASSUME NEW u \in Threads, Kept, thread'[u] = thread[u]
      PROVE  /\ Busy(u)' = Busy(u) /\ Owns(u)' = Owns(u)
             /\ Busy(u) => Request(u)' = Request(u)
  <2>1. Busy(u)' = Busy(u) /\ (Busy(u) => Request(u)' = Request(u))
    BY <1>1, KeptRequest DEF ThreadsInv
  <2> QED
    BY <2>1 DEF Owns, Coupled
<1>2. CASE Quiet
  <2>1. /\ UNCHANGED <<thread, store, overlapped>>
        /\ \A u \in Threads : /\ Busy(u)' = Busy(u) /\ Owns(u)' = Owns(u)
                              /\ Busy(u) => Request(u)' = Request(u)
    BY <1>1, <1>2 DEF Quiet
  <2>2. Writers \subseteq Threads /\ "set" \in Threads /\ "dump" \in Threads
    BY DEF Writers, Threads, Handlers
  <2> QED
    BY <1>0, <2>1, <2>2 DEF OwnInv, Coupled
<1>3. CASE \E t \in Threads : \E r, id, ts : Begins(t, r, id, ts)
  <2>0. PICK t \in Threads : \E r, id, ts : Begins(t, r, id, ts)
    BY <1>3
  <2>1. PICK r, id, ts : Begins(t, r, id, ts)
    BY <2>0
  <2>2. /\ Busy(t)' /\ Same(Request(t)', r) /\ thread'[t].stamp = ts
        /\ \A u \in Threads \ {t} : thread'[u] = thread[u]
    BY <2>1, BegunRequest
  <2>3. /\ Kept /\ UNCHANGED store /\ ~overlapped /\ ~Overlaps(t, r)
        /\ ts = NoStamp \/ r.op = "inject"
        /\ IF t = "dump" THEN r.op \notin Handlers ELSE r.op = t
    BY <1>0, <2>1 DEF Begins
  <2>4. \A u \in Threads \ {t} : /\ Busy(u)' = Busy(u) /\ Owns(u)' = Owns(u)
                                 /\ Busy(u) => Request(u)' = Request(u)
    BY <1>1, <2>2, <2>3
  <2>5. Owns(t)' = (r.op \in WriteOps /\ Coupled(r.prop))
    BY <2>2 DEF Owns, Same, Coupled
  <2>6. r.op \in {"restore", "inject"} => ~Coupled(r.prop)
    BY <2>3 DEF Overlaps
  <2>7. Request(t)'.op = r.op /\ Request(t)'.prop = r.prop
    BY <2>2 DEF Same
  <2>8. \A u \in Threads : Busy(u)' /\ Request(u)'.op \in {"restore", "inject"} =>
           ~Coupled(Request(u)'.prop)
    BY <2>3, <2>4, <2>6, <2>7 DEF OwnInv
  <2>9. ~(Owns("set")' /\ Owns("dump")')
    <3>1. "set" \in Threads /\ "dump" \in Threads /\ Writers = {"set", "dump"}
      BY DEF Writers, Threads, Handlers
    <3>2. ~(Owns("set") /\ Owns("dump"))
      BY <2>3 DEF OwnInv
    <3>3. CASE t \notin Writers
      BY <2>4, <3>1, <3>2, <3>3
    <3>4. CASE t \in Writers /\ r.op \in WriteOps /\ Coupled(r.prop)
      <4>1. \A u \in {"set", "dump"} \ {t} : ~(Busy(u) /\ Coupled(Request(u).prop))
        BY <2>3, <3>4 DEF Overlaps, WriteOps
      <4> QED
        BY <2>4, <3>1, <3>4, <4>1 DEF Owns
    <3> QED
      BY <2>5, <3>1, <3>3, <3>4
  <2>10. ASSUME NEW u \in Writers, Owns(u)', thread'[u].stamp # NoStamp
         PROVE  Fine(u)'
    <3>1. u # t
      BY <2>2, <2>3, <2>5, <2>10 DEF WriteOps
    <3>2. u \in Threads /\ thread'[u] = thread[u] /\ Owns(u)
      BY <2>2, <2>4, <2>10, <3>1 DEF Writers, Threads, Handlers
    <3>3. Fine(u)
      BY <2>3, <2>10, <3>2 DEF OwnInv
    <3> QED
      BY <2>3, <3>2, <3>3
  <2> QED
    BY <2>8, <2>9, <2>10 DEF OwnInv, Coupled
<1>4. CASE Kept /\ \E t \in Threads : Run(t)
  <2>1. PICK t \in Threads : Run(t)
    BY <1>4
  <2>2. /\ DOMAIN store' = Keys
        /\ \A k \in Keys : \/ store'[k] = store[k]
                           \/ k[1] = "OBD2_FREEZE_FRAME" /\ store'[k] = NoValue
                           \/ writeValue(t) /\ k = Now(t).key
        /\ UNCHANGED <<asked, overlapped>>
    BY <2>1, StoreMoves DEF ClockInv
  <2>3. /\ \A u \in Threads \ {t} : thread'[u] = thread[u]
        /\ \/ ~Busy(t)'
           \/ /\ Busy(t)' /\ Busy(t) /\ Request(t)' = Request(t)
              /\ \/ thread'[t].stamp \in {thread[t].stamp, NoStamp}
                 \/ stamp(t) /\ thread'[t].stamp = clock'
    <3>1. CASE finish(t)
      BY <3>1, FinishedThread
    <3>2. CASE ~finish(t)
      BY <1>4, <2>1, <3>2, RunMoves, MovedRequest DEF Moved, ClockInv
    <3> QED
      BY <3>1, <3>2
  <2>4. \A u \in Threads : Busy(u)' => Busy(u) /\ Request(u)' = Request(u)
    BY <1>1, <1>4, <2>3
  <2>5. \A u \in Threads : Owns(u)' => Owns(u)
    BY <2>4 DEF Owns, Coupled
  <2>6. "set" \in Threads /\ "dump" \in Threads /\ Writers = {"set", "dump"} /\ ~overlapped
    BY <1>0, <2>2 DEF Writers, Threads, Handlers
  <2>7. ASSUME NEW u \in Writers, Owns(u)', thread'[u].stamp # NoStamp,
               NEW k \in Keys, Coupled(k[1])
        PROVE  store'[k] = NoValue \/ store'[k].timestamp =< thread'[u].stamp
    <3>1. CASE store'[k] = NoValue
      BY <3>1
    <3>2. CASE writeValue(t) /\ k = Now(t).key
      <4>1. Doing(t, "write") /\ thread'[t].stamp = NoStamp
        BY <3>2, WriteMoves DEF ThreadsInv, Fits, ClockInv
      <4>2. t \in Writers /\ Owns(t)
        BY <2>6, <2>7, <3>2, <4>1, WriterOwns
      <4> QED
        BY <2>5, <2>6, <2>7, <4>1, <4>2 DEF OwnInv
    <3>3. CASE store'[k] = store[k] /\ thread'[u].stamp = thread[u].stamp
      BY <2>5, <2>6, <2>7, <3>3 DEF OwnInv
    <3>4. CASE store'[k] = store[k] /\ u = t /\ stamp(t) /\ thread'[t].stamp = clock'
      <4>1. clock' = clock + 1
        BY <3>4 DEF stamp
      <4> QED
        BY <3>4, <4>1 DEF ClockInv
    <3>5. u \in Threads /\ Busy(u)'
      BY <2>6, <2>7 DEF Owns
    <3>6. store'[k] = store[k] => \/ thread'[u].stamp = thread[u].stamp
                                  \/ u = t /\ stamp(t) /\ thread'[t].stamp = clock'
      BY <2>3, <2>7, <3>5
    <3> QED
      BY <2>2, <3>1, <3>2, <3>3, <3>4, <3>6
  <2>8. \A u \in Threads : Busy(u)' /\ Request(u)'.op \in {"restore", "inject"} =>
           ~Coupled(Request(u)'.prop)
    BY <2>4, <2>6 DEF OwnInv
  <2>9. ~(Owns("set")' /\ Owns("dump")')
    BY <2>5, <2>6 DEF OwnInv
  <2> QED
    BY <2>7, <2>8, <2>9 DEF OwnInv, Coupled
<1> QED
  BY <1>2, <1>3, <1>4, NextCases

LEMMA WorkStep ==
    ASSUME "status" \notin DOMAIN NoValue, WorkInv, [Next]_vars
    PROVE  WorkInv'
<1>1. PlaceInv'
  BY PlaceStep DEF WorkInv
<1>2. ThreadsInv'
  BY ThreadsStep DEF WorkInv, ClockInv
<1>3. ClockInv' /\ OwnInv'
  BY ClockStep, OwnStep DEF WorkInv
<1> QED
  BY <1>1, <1>2, <1>3 DEF WorkInv

LEMMA WorkInit ==
    ASSUME Init
    PROVE  WorkInv
<1>1. DOMAIN Idle = Fields /\ Idle.id = 0 /\ Idle.stamp = NoStamp
  BY DEF Idle, Fields
<1>2. thread = [t \in Threads |-> Idle] /\ clock = 0
      /\ store = [k \in Keys |-> storePropInitialValue(k)]
  BY DEF Init
<1>3. \A t \in Threads : thread[t] = Idle /\ ~Busy(t)
  BY <1>1, <1>2 DEF Busy
<1>4. ThreadsInv
  BY <1>1, <1>2, <1>3 DEF ThreadsInv, Fits
<1>5. ClockInv
  <2>1. \A k \in Keys : store[k] = NoValue \/ store[k].timestamp = 0
    BY <1>2 DEF storePropInitialValue
  <2> QED
    BY <1>1, <1>2, <1>3, <2>1 DEF ClockInv
<1>6. OwnInv
  BY <1>3 DEF OwnInv, Owns, Writers, Threads, Handlers
<1> QED
  BY <1>4, <1>5, <1>6, PlaceInit DEF WorkInv

----------------------------------------------------------------------------
(* Driver assistance.                                                      *)

ToWrite(t, k) == \E s \in Range(thread[t].steps) : s.do = "write" /\ s.key = k
Shows(p) == store[<<p, Global>>].value # Disabled
On(e) == store[<<e, Global>>].value = 1
Touched == {r.prop : r \in Range(asked)}

Setting(t, e) == Busy(t) /\ Request(t).op \in WriteOps /\ Request(t).prop = e

\* A thread that sets feature e has its states and its value still to write
\* or has written them.
FeatureInv(t, e) ==
    LET v == Request(t).value
    IN  /\ \A s \in Range(thread[t].steps) :
              /\ s.do = "write"
              /\ \/ s.key = <<e, Global>> /\ s.value = v
                 \/ /\ \E p \in Assists[e] : s.key = <<p, Global>>
                    /\ (s.value # Disabled) = (v = 1)
        /\ \A p \in Assists[e] : ToWrite(t, <<p, Global>>) \/ Shows(p) = (v = 1)
        /\ ToWrite(t, <<e, Global>>) \/ store[<<e, Global>>].value = v

AdasInv ==
    ~overlapped =>
        /\ \A t \in Writers, e \in DOMAIN Assists : Setting(t, e) => FeatureInv(t, e)
        /\ \A p \in AssistStates \ Touched : \E e \in DOMAIN Assists :
              /\ p \in Assists[e]
              /\ Shows(p) = On(e) \/ \E t \in Writers : Setting(t, e)

Settings == DOMAIN Assists \cup AssistStates

LEMMA AdasKeys ==
    /\ \A q \in Settings : <<q, Global>> \in Keys /\ Coupled(q) /\ q \notin OtherProps
    /\ \A e \in DOMAIN Assists : e \notin AssistStates /\ Assists[e] \subseteq AssistStates
<1>1. \A q \in Settings : <<q, Global>> \in Keys
  BY DEF Keys, Settings
<1>2. \A q \in Settings : Coupled(q)
  BY DEF Coupled, Settings
<1>3. \A q \in Settings : q \notin OtherProps
  BY AssistsKnown DEF Settings
<1>4. \A e \in DOMAIN Assists : e \notin AssistStates /\ Assists[e] \subseteq AssistStates
  BY AssistsKnown DEF AssistStates
<1> QED
  BY <1>1, <1>2, <1>3, <1>4

\* A thread that has only writes to do, or nothing.
LEMMA RunOfWrites ==
    ASSUME NEW t \in Threads, Run(t), IsSeq(thread[t].steps),
           \A s \in Range(thread[t].steps) : s.do = "write"
    PROVE  finish(t) \/ (thread[t].steps # <<>> /\ (stamp(t) \/ writeValue(t)))
<1>1. CASE thread[t].steps = <<>>
  <2>1. \A name : ~Doing(t, name)
    BY <1>1 DEF Doing
  <2> QED
    BY <2>1, Zenon DEF Run, check, fail, stamp, writeValue, sendHvacPropertiesCurrentValues,
       getSyncedAreaIdIfHvacDualOn, synchronizeHvacTemp, read, removeValue,
       removeValuesForProperty, getObd2DtcInfo, setUserHalProp, getUserHalProp,
       getPowerPropFromExternalService, save, restore
<1>2. CASE thread[t].steps # <<>>
  <2>1. Head(thread[t].steps).do = "write"
    BY <1>2, HeadTail
  <2>2. \A name : name # "write" => ~Doing(t, name)
    BY <2>1 DEF Doing
  <2>3. /\ ~Doing(t, "check") /\ ~Doing(t, "fail") /\ ~Doing(t, "read")
        /\ ~Doing(t, "sendHvacPropertiesCurrentValues")
        /\ ~Doing(t, "getSyncedAreaIdIfHvacDualOn") /\ ~Doing(t, "synchronizeHvacTemp")
        /\ ~Doing(t, "removeValue") /\ ~Doing(t, "removeValuesForProperty")
        /\ ~Doing(t, "getObd2DtcInfo") /\ ~Doing(t, "setUserHalProp")
        /\ ~Doing(t, "getUserHalProp") /\ ~Doing(t, "getPowerPropFromExternalService")
        /\ ~Doing(t, "save") /\ ~Doing(t, "restore")
    BY <2>2
  <2> QED
    BY <1>2, <2>3, Zenon DEF Run, check, fail, sendHvacPropertiesCurrentValues,
       getSyncedAreaIdIfHvacDualOn, synchronizeHvacTemp, read, removeValue,
       removeValuesForProperty, getObd2DtcInfo, setUserHalProp, getUserHalProp,
       getPowerPropFromExternalService, save, restore
<1> QED
  BY <1>1, <1>2

\* The steps that a feature is set with: first its states, then its value.
LEMMA FeatureBegins ==
    ASSUME NEW r, Known(r), r.op \in WriteOps, NEW e \in DOMAIN Assists, r.prop = e
    PROVE  /\ IsSeq(StepsOf(r))
           /\ \A s \in Range(StepsOf(r)) :
                 /\ s.do = "write"
                 /\ \/ s.key = <<e, Global>> /\ s.value = r.value
                    \/ /\ \E p \in Assists[e] : s.key = <<p, Global>>
                       /\ (s.value # Disabled) = (r.value = 1)
           /\ \A p \in Assists[e] \cup {e} :
                 \E s \in Range(StepsOf(r)) : s.do = "write" /\ s.key = <<p, Global>>
<1> DEFINE v == r.value
           plain == Plain(<<e, r.area>>, v)
           stamped == [plain EXCEPT !.locked = FALSE]
           state(p) == Forced(<<p, Global>>, StateFor(v = 1, p), "ignore")
           first == sendAdasPropertiesState(e, v = 1)
<1>1. v # Malformed /\ r.area = Global
  BY DEF Known, WriteOps
<1>2. /\ plain.do = "write" /\ plain.key = <<e, Global>> /\ plain.value = v
      /\ stamped.do = "write" /\ stamped.key = <<e, Global>> /\ stamped.value = v
  <2>1. /\ plain.do = "write" /\ plain.key = <<e, r.area>> /\ plain.value = v
        /\ DOMAIN plain = {"do", "key", "value", "status", "mode", "locked", "onError"}
    BY DEF Plain, Write
  <2> HIDE DEF plain
  <2> QED
    BY <1>1, <2>1
<1>3. \A p : /\ state(p).do = "write" /\ state(p).key = <<p, Global>>
             /\ (state(p).value # Disabled) = (v = 1)
  BY DEF Forced, Write, StateFor, Disabled, ADAPTIVE
<1>4. PICK w \in {plain, stamped} : StepsOf(r) = first \o <<w>>
  <2>1. \E w \in {plain, stamped} : StepsOf(r) = maybeSetSpecialValue(e, r.area, v, w)
    BY DEF StepsOf, WriteOps
  <2>2. e \notin OtherProps
    BY AdasKeys DEF Settings
  <2>3. \A w : maybeSetSpecialValue(e, r.area, v, w) = first \o <<w>>
    BY <1>1, <2>2 DEF maybeSetSpecialValue, OtherProps, hvacProps, UserProps, OneShotProps,
       isSupported
  <2> HIDE DEF plain, stamped, first
  <2> QED
    BY <2>1, <2>3
<1>5. IsSeq(first) /\ Range(first) = {state(p) : p \in Assists[e]}
  <2>1. (v = 1) \in BOOLEAN
    OBVIOUS
  <2> QED
    BY <2>1, AdasSteps
<1>6. w.do = "write" /\ w.key = <<e, Global>> /\ w.value = v
  <2> HIDE DEF plain, stamped
  <2> QED
    BY <1>2
<1> HIDE DEF first, state, plain, stamped
<1>7. IsSeq(StepsOf(r)) /\ Range(StepsOf(r)) = {state(p) : p \in Assists[e]} \cup {w}
  BY <1>4, <1>5, OneSeq, Joined
<1> QED
  BY <1>3, <1>6, <1>7

\* While a thread goes on, all threads keep their requests.
LEMMA RunKeeps ==
    ASSUME WorkInv, Kept, NEW t \in Threads, Run(t)
    PROVE  /\ \A u \in Threads \ {t} : thread'[u] = thread[u]
           /\ \A u \in Threads : Busy(u)' => Busy(u) /\ Request(u)' = Request(u)
           /\ \A u \in Threads : Busy(u) /\ ~Busy(u)' => u = t /\ finish(t)
           /\ Busy(t) /\ UNCHANGED overlapped
<1>1. ThreadsInv /\ DOMAIN store = Keys /\ clock \in Nat /\ Busy(t)
  BY RunMoves DEF WorkInv, ClockInv
<1>2. UNCHANGED overlapped
  BY <1>1, StoreMoves
<1>3. \A u \in Threads : thread'[u] = thread[u] =>
         Busy(u)' = Busy(u) /\ (Busy(u) => Request(u)' = Request(u))
  BY <1>1, KeptRequest DEF ThreadsInv
<1>4. CASE finish(t)
  <2>1. ~Busy(t)' /\ \A u \in Threads \ {t} : thread'[u] = thread[u]
    BY <1>1, <1>4, FinishedThread
  <2> QED
    BY <1>1, <1>2, <1>3, <1>4, <2>1
<1>5. CASE ~finish(t)
  <2>1. PICK steps : Moved(t, steps) /\ FitSteps(Request(t), steps)
    BY <1>1, <1>5, RunMoves
  <2>2. Busy(t)' /\ Request(t)' = Request(t)
    BY <1>1, <2>1, MovedRequest
  <2>3. \A u \in Threads \ {t} : thread'[u] = thread[u]
    BY <2>1 DEF Moved
  <2> QED
    BY <1>1, <1>2, <1>3, <2>2, <2>3
<1> QED
  BY <1>4, <1>5

\* Thread t writes a coupled property.
CoupledWrite(t) == writeValue(t) /\ Now(t).key \in Keys /\ Coupled(Now(t).key[1])

\* Without such a write, coupled properties keep their values.  The write is
\* accepted, and no other thread sets a coupled property meanwhile.
LEMMA CoupledStore ==
    ASSUME WorkInv, ~overlapped, NEW t \in Threads, Run(t)
    PROVE  /\ \A k \in Keys : Coupled(k[1]) =>
                 store'[k] = store[k] \/ (CoupledWrite(t) /\ k = Now(t).key)
           /\ CoupledWrite(t) =>
                 /\ Doing(t, "write") /\ t \in Writers /\ Owns(t)
                 /\ \A u \in Writers \ {t} : ~Owns(u)
                 /\ Moved(t, Tail(thread[t].steps))
                 /\ store'[Now(t).key].value = Now(t).value
                 /\ store'[Now(t).key] # NoValue \/ "status" \in DOMAIN NoValue
                 /\ store'[Now(t).key].status =
                       IF Now(t).status # "KEEP" THEN Now(t).status
                       ELSE IF store[Now(t).key] = NoValue THEN "AVAILABLE"
                       ELSE store[Now(t).key].status
<1>1. ThreadsInv /\ ClockInv /\ OwnInv /\ DOMAIN store = Keys /\ clock \in Nat
  BY DEF WorkInv, ClockInv
<1>2. ~Coupled("OBD2_FREEZE_FRAME")
  BY AssistsKnown DEF Coupled, OtherProps, hvacProps
<1>3. \A k \in Keys : Coupled(k[1]) =>
         store'[k] = store[k] \/ (CoupledWrite(t) /\ k = Now(t).key)
  BY <1>1, <1>2, StoreMoves DEF CoupledWrite
<1>4. ASSUME CoupledWrite(t)
      PROVE  /\ Doing(t, "write") /\ t \in Writers /\ Owns(t)
             /\ \A u \in Writers \ {t} : ~Owns(u)
             /\ Moved(t, Tail(thread[t].steps))
             /\ store'[Now(t).key].value = Now(t).value
             /\ store'[Now(t).key] # NoValue \/ "status" \in DOMAIN NoValue
             /\ store'[Now(t).key].status =
                   IF Now(t).status # "KEEP" THEN Now(t).status
                   ELSE IF store[Now(t).key] = NoValue THEN "AVAILABLE"
                   ELSE store[Now(t).key].status
  <2>1. Doing(t, "write")
    BY <1>4 DEF CoupledWrite, writeValue
  <2>2. t \in Writers /\ Owns(t)
    BY <1>1, <1>4, <2>1, WriterOwns DEF CoupledWrite
  <2>3. \A u \in Writers \ {t} : ~Owns(u)
    BY <1>1, <2>2 DEF OwnInv, Writers
  <2> DEFINE s == Now(t)
             ts == IF s.locked THEN clock + 1 ELSE thread[t].stamp
             st == IF s.status # "KEEP" THEN s.status
                   ELSE IF store[s.key] = NoValue THEN "AVAILABLE" ELSE store[s.key].status
             new == [value |-> s.value, timestamp |-> ts, status |-> st]
  <2>4. Moved(t, Tail(thread[t].steps)) /\ store'[s.key] = new
    BY <1>1, <1>4, NeverRefused DEF CoupledWrite
  <2> HIDE DEF s, ts, st
  <2>5. new.value = s.value /\ new.status = st /\ "status" \in DOMAIN new
    OBVIOUS
  <2> HIDE DEF new
  <2> QED
    BY <2>1, <2>2, <2>3, <2>4, <2>5 DEF s, st
<1> QED
  BY <1>3, <1>4

\* A thread that does nothing keeps setting what it sets.
LEMMA SettingKept ==
    ASSUME ThreadsInv, Kept, NEW u \in Threads, thread'[u] = thread[u], NEW e
    PROVE  Setting(u, e)' = Setting(u, e)
<1>1. Busy(u)' = Busy(u) /\ (Busy(u) => Request(u)' = Request(u))
  BY KeptRequest DEF ThreadsInv
<1> QED
  BY <1>1 DEF Setting

\* ... and what is left of it, as long as its properties are left alone.
LEMMA FeatureKept ==
    ASSUME ThreadsInv, Kept, NEW u \in Threads, NEW e \in DOMAIN Assists, Setting(u, e),
           FeatureInv(u, e), Request(u)' = Request(u), thread'[u].steps = thread[u].steps,
           \A k \in Keys : Coupled(k[1]) => store'[k] = store[k]
    PROVE  FeatureInv(u, e)'
<1>1. \A p \in Assists[e] \cup {e} : <<p, Global>> \in Keys /\ Coupled(p)
  BY AdasKeys DEF Settings
<1>2. \A p \in Assists[e] \cup {e} : store'[<<p, Global>>] = store[<<p, Global>>]
  BY <1>1
<1>3. \A k : ToWrite(u, k)' = ToWrite(u, k)
  BY DEF ToWrite
<1> QED
  BY <1>2, <1>3 DEF FeatureInv, Shows

\* A thread that sets a feature has written the value that was next.
LEMMA FeatureWritten ==
    ASSUME WorkInv, ~overlapped, Kept, NEW t \in Threads, Run(t), CoupledWrite(t),
           NEW e \in DOMAIN Assists, Setting(t, e), FeatureInv(t, e)
    PROVE  FeatureInv(t, e)'
<1> DEFINE steps == thread[t].steps
           s == Now(t)
           v == Request(t).value
<1>1. /\ Doing(t, "write") /\ Moved(t, Tail(steps)) /\ store'[s.key].value = s.value
      /\ \A k \in Keys : Coupled(k[1]) => store'[k] = store[k] \/ k = s.key
  BY CoupledStore
<1>2. steps # <<>> /\ IsSeq(steps)
  BY <1>1 DEF Doing, WorkInv, ThreadsInv, Fits, FitSteps
<1>3. s \in Range(steps) /\ Range(steps) = {s} \cup Range(Tail(steps))
  BY <1>2, HeadTail DEF Now
<1>4. Request(t)' = Request(t)
  <2>1. \A x \in Range(steps) : x.do = "write"
    BY DEF FeatureInv
  <2>2. Busy(t) /\ ~finish(t)
    BY <1>1, <1>2 DEF Doing, finish
  <2> QED
    BY <2>2, RunKeeps
<1>5. thread'[t].steps = Tail(steps)
  BY <1>1 DEF Moved
<1>6. \A p \in Assists[e] \cup {e} : <<p, Global>> \in Keys /\ Coupled(p)
  BY AdasKeys DEF Settings
<1>7. \A p \in Assists[e] \cup {e} :
         store'[<<p, Global>>] = store[<<p, Global>>] \/ s.key = <<p, Global>>
  BY <1>1, <1>6
<1>8. \A k : ToWrite(t, k) => ToWrite(t, k)' \/ s.key = k
  BY <1>3, <1>5 DEF ToWrite
<1>9. e \notin Assists[e]
  BY AdasKeys
<1> HIDE DEF steps, s, v
<1>10. \A x \in Range(steps) :
           /\ x.do = "write"
           /\ \/ x.key = <<e, Global>> /\ x.value = v
              \/ /\ \E p \in Assists[e] : x.key = <<p, Global>>
                 /\ (x.value # Disabled) = (v = 1)
  BY DEF FeatureInv, steps, v
<1>11. \A p \in Assists[e] : ToWrite(t, <<p, Global>>)' \/ Shows(p)' = (v = 1)
  <2> SUFFICES ASSUME NEW p \in Assists[e] PROVE ToWrite(t, <<p, Global>>)' \/ Shows(p)' = (v = 1)
    OBVIOUS
  <2>1. CASE s.key = <<p, Global>>
    <3>1. (s.value # Disabled) = (v = 1)
      BY <1>3, <1>9, <1>10, <2>1
    <3> QED
      BY <1>1, <2>1, <3>1 DEF Shows
  <2>2. CASE s.key # <<p, Global>>
    <3>1. ToWrite(t, <<p, Global>>) \/ Shows(p) = (v = 1)
      BY DEF FeatureInv, v
    <3> QED
      BY <1>7, <1>8, <2>2, <3>1 DEF Shows
  <2> QED
    BY <2>1, <2>2
<1>12. ToWrite(t, <<e, Global>>)' \/ store'[<<e, Global>>].value = v
  <2>1. CASE s.key = <<e, Global>>
    <3>1. s.value = v
      BY <1>3, <1>9, <1>10, <2>1
    <3> QED
      BY <1>1, <2>1, <3>1
  <2>2. CASE s.key # <<e, Global>>
    <3>1. ToWrite(t, <<e, Global>>) \/ store[<<e, Global>>].value = v
      BY DEF FeatureInv, v
    <3> QED
      BY <1>7, <1>8, <2>2, <3>1
  <2> QED
    BY <2>1, <2>2
<1> QED
  BY <1>3, <1>4, <1>5, <1>10, <1>11, <1>12 DEF FeatureInv, v

LEMMA TouchedGrows ==
    ASSUME AskedType, AskedType', Kept
    PROVE  Touched \subseteq Touched'
<1>1. /\ DOMAIN asked = 1 .. Len(asked) /\ DOMAIN asked' = 1 .. Len(asked')
      /\ Len(asked) \in Nat /\ Len(asked') \in Nat
  BY DEF AskedType
<1>2. Range(asked) \subseteq Range(asked')
  BY <1>1 DEF Kept, Range
<1> QED
  BY <1>2 DEF Touched

LEMMA AdasStep ==
    ASSUME WorkInv, WorkInv', AdasInv, [Next]_vars
    PROVE  AdasInv'
<1>0. SUFFICES ASSUME ~overlapped' PROVE AdasInv'
  BY DEF AdasInv
<1>1. ThreadsInv /\ OwnInv /\ PlaceInv /\ AskedType /\ AskedType' /\ Writers \subseteq Threads
  BY DEF WorkInv, PlaceInv, Writers, Threads, Handlers
<1> DEFINE Holds(p, e) == /\ p \in Assists[e]
                          /\ Shows(p) = On(e) \/ \E t \in Writers : Setting(t, e)
           A == \A t \in Writers, e \in DOMAIN Assists : Setting(t, e) => FeatureInv(t, e)
           B == \A p \in AssistStates \ Touched : \E e \in DOMAIN Assists : Holds(p, e)
<1>2. \A q \in Settings : <<q, Global>> \in Keys /\ Coupled(q)
  BY AdasKeys
\* When the properties are left alone.
<1>3. ASSUME \A k \in Keys : Coupled(k[1]) => store'[k] = store[k]
      PROVE  /\ \A p \in AssistStates : Shows(p)' = Shows(p)
             /\ \A e \in DOMAIN Assists : On(e)' = On(e)
  <2>1. \A q \in Settings : store'[<<q, Global>>] = store[<<q, Global>>]
    BY <1>2, <1>3
  <2> QED
    BY <2>1 DEF Shows, On, Settings
<1>4. CASE Quiet
  <2>1. /\ Kept /\ ~overlapped /\ UNCHANGED <<thread, store>>
    BY <1>0, <1>4 DEF Quiet
  <2>2. \A u \in Writers, e \in DOMAIN Assists : Setting(u, e)' = Setting(u, e)
    BY <1>1, <2>1, SettingKept
  <2>3. \A u \in Writers : Busy(u) => Request(u)' = Request(u)
    BY <1>1, <2>1, KeptRequest DEF ThreadsInv
  <2>4. A'
    <3> SUFFICES ASSUME NEW u \in Writers, NEW e \in DOMAIN Assists, Setting(u, e)'
                 PROVE  FeatureInv(u, e)'
      OBVIOUS
    <3>1. Setting(u, e) /\ FeatureInv(u, e) /\ Request(u)' = Request(u)
      BY <2>1, <2>2, <2>3 DEF AdasInv, Setting
    <3> QED
      BY <1>1, <2>1, <3>1, FeatureKept
  <2>5. B'
    <3>1. B
      BY <2>1 DEF AdasInv
    <3>2. Touched \subseteq Touched'
      BY <1>1, <2>1, TouchedGrows
    <3>3. /\ \A p \in AssistStates : Shows(p)' = Shows(p)
          /\ \A e \in DOMAIN Assists : On(e)' = On(e)
      BY <1>3, <2>1
    <3> QED
      BY <2>2, <3>1, <3>2, <3>3
  <2> QED
    BY <2>4, <2>5 DEF AdasInv
<1>5. CASE \E t \in Threads : \E r, id, ts : Begins(t, r, id, ts)
  <2>0. PICK t \in Threads : \E r, id, ts : Begins(t, r, id, ts)
    BY <1>5
  <2>1. PICK r, id, ts : Begins(t, r, id, ts)
    BY <2>0
  <2>2. /\ Kept /\ ~Busy(t) /\ Known(r) /\ UNCHANGED store /\ ~overlapped
    BY <1>0, <2>1 DEF Begins
  <2>3. /\ Busy(t)' /\ Same(Request(t)', r) /\ thread'[t].steps = StepsOf(r)
        /\ \A u \in Threads \ {t} : thread'[u] = thread[u]
    BY <1>1, <2>1, BegunRequest
  <2>4. \A u \in Threads \ {t} : \A e \in DOMAIN Assists : Setting(u, e)' = Setting(u, e)
    BY <1>1, <2>2, <2>3, SettingKept
  <2>5. \A u \in Threads \ {t} : Busy(u) => Request(u)' = Request(u)
    BY <1>1, <2>2, <2>3, KeptRequest DEF ThreadsInv
  <2>6. A'
    <3> SUFFICES ASSUME NEW u \in Writers, NEW e \in DOMAIN Assists, Setting(u, e)'
                 PROVE  FeatureInv(u, e)'
      OBVIOUS
    <3>1. CASE u = t
      <4>1. r.op \in WriteOps /\ r.prop = e /\ Request(t)'.value = r.value
        BY <2>3, <3>1 DEF Setting, Same
      <4>2. /\ \A s \in Range(StepsOf(r)) :
                  /\ s.do = "write"
                  /\ \/ s.key = <<e, Global>> /\ s.value = r.value
                     \/ /\ \E p \in Assists[e] : s.key = <<p, Global>>
                        /\ (s.value # Disabled) = (r.value = 1)
            /\ \A p \in Assists[e] \cup {e} :
                  \E s \in Range(StepsOf(r)) : s.do = "write" /\ s.key = <<p, Global>>
        BY <2>2, <4>1, FeatureBegins
      <4>3. \A p \in Assists[e] \cup {e} : ToWrite(t, <<p, Global>>)'
        BY <2>3, <4>2 DEF ToWrite
      <4> QED
        BY <2>3, <3>1, <4>1, <4>2, <4>3 DEF FeatureInv
    <3>2. CASE u # t
      <4>1. u \in Threads /\ thread'[u] = thread[u] /\ Setting(u, e) /\ Busy(u)
        BY <1>1, <2>3, <2>4, <3>2 DEF Setting
      <4>2. FeatureInv(u, e) /\ Request(u)' = Request(u)
        BY <2>2, <2>5, <3>2, <4>1 DEF AdasInv
      <4> QED
        BY <1>1, <2>2, <4>1, <4>2, FeatureKept
    <3> QED
      BY <3>1, <3>2
  <2>7. B'
    <3>1. B
      BY <2>2 DEF AdasInv
    <3>2. Touched \subseteq Touched'
      BY <1>1, <2>2, TouchedGrows
    <3>3. /\ \A p \in AssistStates : Shows(p)' = Shows(p)
          /\ \A e \in DOMAIN Assists : On(e)' = On(e)
      BY <1>3, <2>2
    <3>4. \A u \in Writers, e \in DOMAIN Assists : Setting(u, e) => Setting(u, e)'
      BY <1>1, <2>2, <2>4 DEF Setting
    <3> QED
      BY <3>1, <3>2, <3>3, <3>4
  <2> QED
    BY <2>6, <2>7 DEF AdasInv
<1>6. CASE Kept /\ \E t \in Threads : Run(t)
  <2>1. PICK t \in Threads : Run(t)
    BY <1>6
  <2>2. /\ \A u \in Threads \ {t} : thread'[u] = thread[u]
        /\ \A u \in Threads : Busy(u)' => Busy(u) /\ Request(u)' = Request(u)
        /\ \A u \in Threads : Busy(u) /\ ~Busy(u)' => u = t /\ finish(t)
        /\ Busy(t) /\ ~overlapped
    BY <1>0, <1>6, <2>1, RunKeeps
  <2>3. A /\ B /\ Touched \subseteq Touched'
    BY <1>1, <1>6, <2>2, TouchedGrows DEF AdasInv
  <2>4. /\ \A u \in Threads, e \in DOMAIN Assists : Setting(u, e)' => Setting(u, e)
        /\ \A u \in Threads, e \in DOMAIN Assists : Setting(u, e) /\ ~Setting(u, e)' =>
              u = t /\ finish(t)
    BY <2>2 DEF Setting
  <2>5. \A k \in Keys : Coupled(k[1]) =>
           store'[k] = store[k] \/ (CoupledWrite(t) /\ k = Now(t).key)
    BY <2>1, <2>2, CoupledStore
  \* A thread that sets a feature only writes.
  <2>6. ASSUME NEW e \in DOMAIN Assists, t \in Writers, Setting(t, e)
        PROVE  /\ FeatureInv(t, e)
               /\ \/ finish(t)
                  \/ stamp(t)
                  \/ CoupledWrite(t) /\ \E p \in Assists[e] \cup {e} : Now(t).key = <<p, Global>>
    <3>1. FeatureInv(t, e) /\ IsSeq(thread[t].steps)
      BY <1>1, <2>2, <2>3, <2>6 DEF ThreadsInv, Fits, FitSteps
    <3>2. finish(t) \/ (thread[t].steps # <<>> /\ (stamp(t) \/ writeValue(t)))
      BY <2>1, <3>1, RunOfWrites DEF FeatureInv
    <3>3. CASE thread[t].steps # <<>> /\ writeValue(t)
      <4>1. Now(t) \in Range(thread[t].steps)
        BY <3>1, <3>3, HeadTail DEF Now
      <4>2. PICK p \in Assists[e] \cup {e} : Now(t).key = <<p, Global>>
        BY <3>1, <4>1 DEF FeatureInv
      <4>3. p \in Settings
        BY AdasKeys DEF Settings
      <4> QED
        BY <1>2, <3>1, <3>3, <4>2, <4>3 DEF CoupledWrite
    <3> QED
      BY <3>1, <3>2, <3>3
  <2>7. A'
    <3> SUFFICES ASSUME NEW u \in Writers, NEW e \in DOMAIN Assists, Setting(u, e)'
                 PROVE  FeatureInv(u, e)'
      OBVIOUS
    <3>1. /\ u \in Threads /\ Setting(u, e) /\ FeatureInv(u, e)
          /\ Busy(u)' /\ Request(u)' = Request(u)
      BY <1>1, <2>2, <2>3, <2>4 DEF Setting
    <3>2. CASE u # t
      <4>1. Owns(u)
        BY <1>2, <3>1 DEF Owns, Setting, Settings
      <4>2. ~CoupledWrite(t)
        BY <2>1, <2>2, <3>2, <4>1, CoupledStore
      <4> QED
        BY <1>1, <1>6, <2>2, <2>5, <3>1, <3>2, <4>2, FeatureKept
    <3>3. CASE u = t
      <4>1. ~finish(t)
        BY <1>1, <3>1, <3>3, FinishedThread
      <4>2. CASE stamp(t)
        <5>1. ~CoupledWrite(t)
          BY <4>2 DEF stamp, CoupledWrite, writeValue
        <5>2. thread'[t].steps = thread[t].steps
          BY <1>1, <4>2 DEF stamp, ThreadsInv, Fits, Fields
        <5> QED
          BY <1>1, <1>6, <2>5, <3>1, <3>3, <5>1, <5>2, FeatureKept
      <4>3. CASE CoupledWrite(t)
        BY <1>6, <2>1, <2>2, <3>1, <3>3, <4>3, FeatureWritten
      <4> QED
        BY <2>6, <3>1, <3>3, <4>1, <4>2, <4>3
    <3> QED
      BY <3>2, <3>3
  <2>8. B'
    <3> SUFFICES ASSUME NEW p \in AssistStates, p \notin Touched'
                 PROVE  \E e \in DOMAIN Assists : Holds(p, e)'
      OBVIOUS
    <3>1. PICK e \in DOMAIN Assists : Holds(p, e)
      BY <2>3
    <3>2. CASE ~CoupledWrite(t)
      <4>1. Shows(p)' = Shows(p) /\ On(e)' = On(e)
        BY <1>3, <2>5, <3>2
      <4>2. CASE Shows(p) = On(e)
        BY <3>1, <4>1, <4>2
      <4>3. CASE \E u \in Writers : Setting(u, e) /\ Setting(u, e)'
        BY <3>1, <4>3
      <4>4. CASE \E u \in Writers : Setting(u, e) /\ ~Setting(u, e)'
        <5>1. t \in Writers /\ Setting(t, e) /\ finish(t)
          BY <1>1, <2>4, <4>4
        <5>2. FeatureInv(t, e) /\ thread[t].steps = <<>>
          BY <2>3, <5>1 DEF finish
        <5>3. \A k : ~ToWrite(t, k)
          BY <5>2, NothingInSeq DEF ToWrite
        <5>4. Shows(p) = On(e)
          BY <3>1, <5>2, <5>3 DEF FeatureInv, On
        <5> QED
          BY <3>1, <4>1, <5>4
      <4> QED
        BY <3>1, <4>2, <4>3, <4>4
    <3>3. CASE CoupledWrite(t)
      <4>1. t \in Writers /\ Owns(t) /\ Doing(t, "write")
        BY <2>1, <2>2, <3>3, CoupledStore
      <4>2. ~finish(t)
        BY <4>1 DEF Doing, finish
      <4>3. CASE \E d \in DOMAIN Assists : Setting(t, d)
        <5>1. PICK d \in DOMAIN Assists : Setting(t, d)
          BY <4>3
        <5>2. Setting(t, d)'
          BY <2>4, <4>2, <5>1
        <5>3. CASE p \in Assists[d]
          BY <4>1, <5>2, <5>3
        <5>4. CASE p \notin Assists[d]
          <6>1. e \notin Assists[d] \cup {d} /\ p \notin Assists[d] \cup {d}
            BY <3>1, <5>4, AdasKeys
          <6>2. \E q \in Assists[d] \cup {d} : Now(t).key = <<q, Global>>
            <7>1. ~stamp(t)
              BY <3>3 DEF stamp, CoupledWrite, writeValue
            <7> QED
              BY <2>6, <4>1, <4>2, <5>1, <7>1
          <6>3. Now(t).key # <<p, Global>> /\ Now(t).key # <<e, Global>>
            BY <6>1, <6>2
          <6>4. store'[<<p, Global>>] = store[<<p, Global>>] /\ store'[<<e, Global>>] = store[<<e, Global>>]
            BY <1>2, <2>5, <6>3 DEF Settings
          <6>5. \A u \in Writers : Setting(u, e) => Setting(u, e)'
            BY <1>1, <2>4, <4>2
          <6> QED
            BY <3>1, <6>4, <6>5 DEF Shows, On
        <5> QED
          BY <5>3, <5>4
      <4>4. CASE \A d \in DOMAIN Assists : ~Setting(t, d)
        <5> DEFINE q == Request(t).prop
        <5>1. /\ q \in hvacProps \cup AssistStates /\ Request(t).op \in WriteOps
              /\ q \notin DOMAIN Assists
          BY <4>1, <4>4 DEF Owns, Coupled, Setting
        <5>2. Now(t).key[1] \in Writes(Request(t))
          BY <1>1, <2>2, <4>1, HvacWrites DEF ThreadsInv, Fits, Doing, Now
        <5>3. Now(t).key[1] \in {q, "HVAC_TEMPERATURE_SET", "AP_POWER_STATE_REQ"}
          BY <5>1, <5>2 DEF Writes
        <5>4. q \in Touched
          <6>1. thread[t].id \in 1 .. Len(asked) /\ DOMAIN asked = 1 .. Len(asked)
            BY <1>1, <2>2 DEF ThreadsInv, Fits, AskedType
          <6> QED
            BY <6>1 DEF Touched, Request, Range
        <5>5. e \notin OtherProps /\ p \notin OtherProps
          BY AdasKeys DEF Settings
        <5>6. Now(t).key[1] # p /\ Now(t).key[1] # e
          <6>1. q # p /\ q # e
            BY <2>3, <5>1, <5>4
          <6> QED
            BY <5>3, <5>5, <6>1 DEF OtherProps, hvacProps
        <5>7. Now(t).key # <<p, Global>> /\ Now(t).key # <<e, Global>>
          BY <5>6
        <5>8. store'[<<p, Global>>] = store[<<p, Global>>] /\ store'[<<e, Global>>] = store[<<e, Global>>]
          BY <1>2, <2>5, <5>7 DEF Settings
        <5>9. \A u \in Writers : Setting(u, e) => Setting(u, e)'
          BY <1>1, <2>4, <4>2
        <5> QED
          BY <3>1, <5>8, <5>9 DEF Shows, On
      <4> QED
        BY <4>3, <4>4
    <3> QED
      BY <3>2, <3>3
  <2> QED
    BY <2>7, <2>8 DEF AdasInv
<1> QED
  BY <1>1, <1>4, <1>5, <1>6, NextCases

LEMMA AdasInit ==
    ASSUME Init
    PROVE  AdasInv
<1>1. \A t \in Writers : ~Busy(t)
  <2>1. thread = [t \in Threads |-> Idle] /\ Idle.id = 0 /\ Writers \subseteq Threads
    BY DEF Init, Idle, Writers, Threads, Handlers
  <2> QED
    BY <2>1 DEF Busy
<1>2. \A q \in Settings : store[<<q, Global>>] = storePropInitialValue(<<q, Global>>)
  BY AdasKeys DEF Init
<1>3. \A e \in DOMAIN Assists : On(e)
  <2> SUFFICES ASSUME NEW e \in DOMAIN Assists PROVE On(e)
    OBVIOUS
  <2> DEFINE k == <<e, Global>>
  <2>1. k[1] = e
    OBVIOUS
  <2>2. e \notin OtherProps /\ e \notin AssistStates /\ store[k] = storePropInitialValue(k)
    BY <1>2, AssistsKnown DEF Settings
  <2> HIDE DEF k
  <2>3. InitialValue(k) = 1
    BY <2>1, <2>2 DEF InitialValue, OtherProps, hvacProps
  <2>4. k[1] # "OBD2_FREEZE_FRAME"
    BY <2>1, <2>2 DEF OtherProps
  <2>5. store[k] = [value |-> 1, status |-> "AVAILABLE", timestamp |-> 0]
    BY <2>2, <2>3, <2>4, NoValueKnown DEF storePropInitialValue
  <2> QED
    BY <2>5 DEF On, k
<1>4. \A p \in AssistStates : Shows(p)
  <2> SUFFICES ASSUME NEW p \in AssistStates PROVE Shows(p)
    OBVIOUS
  <2>1. p \notin DOMAIN Assists /\ p \notin OtherProps
    BY AssistsKnown
  <2> DEFINE k == <<p, Global>>
  <2>2. k[1] = p /\ store[k] = storePropInitialValue(k)
    BY <1>2 DEF Settings
  <2> HIDE DEF k
  <2>3. InitialValue(k) \in {1, ADAPTIVE}
    <3>1. CASE p = "CRUISE_CONTROL_TYPE"
      BY <2>1, <2>2, <3>1 DEF InitialValue, OtherProps, hvacProps
    <3>2. CASE p # "CRUISE_CONTROL_TYPE"
      BY <2>1, <2>2, <3>2 DEF InitialValue, OtherProps, hvacProps
    <3> QED
      BY <3>1, <3>2
  <2>4. k[1] # "OBD2_FREEZE_FRAME"
    BY <2>1, <2>2 DEF OtherProps
  <2>5. store[k] = [value |-> InitialValue(k), status |-> "AVAILABLE", timestamp |-> 0]
    BY <2>2, <2>3, <2>4, NoValueKnown DEF storePropInitialValue
  <2> QED
    BY <2>3, <2>5 DEF Shows, Disabled, ADAPTIVE, k
<1>5. \A p \in AssistStates : \E e \in DOMAIN Assists : p \in Assists[e]
  BY DEF AssistStates
<1> QED
  BY <1>1, <1>3, <1>4, <1>5 DEF AdasInv, Setting

\* Whenever no request is at work and none ran against another, a driver
\* assistance state that clients never set themselves shows a state exactly if
\* a feature it belongs to is enabled: sendAdasPropertiesState wrote all states
\* of the feature before the feature itself, the store refused none of these
\* writes, and no other request wrote in between.
THEOREM AdasCorrect ==
    ASSUME "status" \notin DOMAIN NoValue
    PROVE  Spec => []AdasFollowsEnabled
<1>1. Init => WorkInv /\ AdasInv
  BY WorkInit, AdasInit
<1>2. WorkInv /\ AdasInv /\ [Next]_vars => WorkInv' /\ AdasInv'
  <2> SUFFICES ASSUME WorkInv, AdasInv, [Next]_vars PROVE WorkInv' /\ AdasInv'
    OBVIOUS
  <2>1. WorkInv'
    BY WorkStep
  <2> QED
    BY <2>1, AdasStep
<1>3. AdasInv => AdasFollowsEnabled
  <2> SUFFICES ASSUME AdasInv, Undisturbed, NEW p \in AssistStates \ Touched
               PROVE  LET on == {store[<<e, Global>>].value = 1 :
                                    e \in {e \in DOMAIN Assists : p \in Assists[e]}}
                      IN  (store[<<p, Global>>].value # Disabled) \in on
    BY DEF AdasFollowsEnabled, Touched
  <2>1. PICK e \in DOMAIN Assists : p \in Assists[e] /\ Shows(p) = On(e)
    BY DEF AdasInv, Undisturbed, Setting, Writers, Threads, Handlers
  <2> QED
    BY <2>1 DEF Shows, On
<1> QED
  BY <1>1, <1>2, <1>3, PTL DEF Spec

----------------------------------------------------------------------------
(* Power of the seats.                                                     *)

Powering(t) == /\ Setting(t, "HVAC_POWER_ON")
               /\ Request(t).value # Malformed

\* A thread that switches the power of an area has the status of its
\* temperatures and the switch still to write or has written them.
PowerInv(t) ==
    LET a == Request(t).area
        v == Request(t).value
    IN  /\ \A s \in Range(thread[t].steps) :
              \/ s.do = "sendHvacPropertiesCurrentValues"
              \/ s.do = "write" /\ s.key = Switch(a) /\ s.status = "KEEP" /\ s.value = v
              \/ /\ s.do = "write" /\ s.status = StatusFor(v)
                 /\ \E x \in TempAreas : x \subseteq a /\ s.key = Temp(x)
        /\ \A x \in TempAreas : x \subseteq a =>
              \/ \E s \in Range(thread[t].steps) : s.do = "sendHvacPropertiesCurrentValues"
              \/ ToWrite(t, Temp(x))
              \/ store[Temp(x)].status = StatusFor(v)
        /\ ToWrite(t, Switch(a)) \/ store[Switch(a)].value = v

\* A temperature or the coupling of seats is set: only seats that have power
\* are written to.
SyncSteps == {"check", "fail", "getSyncedAreaIdIfHvacDualOn", "synchronizeHvacTemp", "write"}

SyncInv(t) ==
    \A s \in Range(thread[t].steps) :
        /\ s.do \in SyncSteps
        /\ s.do = "write" /\ s.key[1] = "HVAC_TEMPERATURE_SET" /\ s.status # "KEEP" =>
              /\ s.key \in Keys /\ s.status = "AVAILABLE"
              /\ store[s.key].status = "AVAILABLE"

Syncing(t) == Setting(t, "HVAC_TEMPERATURE_SET") \/ Setting(t, "HVAC_DUAL_ON")

\* The temperatures of area a have the status that its switch says.
Agrees(a, x) == (store[Temp(x)].status = "AVAILABLE") = (store[Switch(a)].value # 0)

TempsThere == \A x \in TempAreas : store[Temp(x)] # NoValue

PowersInv == \A t \in Writers : Powering(t) => PowerInv(t)
RefusedInv == \A t \in Writers : Setting(t, "HVAC_POWER_ON") /\ ~Powering(t) =>
                 \A s \in Range(thread[t].steps) : s.do = "fail"
SyncsInv == \A t \in Writers : Syncing(t) => SyncInv(t)
AgreesInv == \A a \in PowerAreas, x \in TempAreas : x \subseteq a =>
                Agrees(a, x) \/ \E t \in Writers : Powering(t) /\ Request(t).area = a

HvacInv == TempsThere /\ (~overlapped => PowersInv /\ RefusedInv /\ SyncsInv /\ AgreesInv)

\* The steps that a set of an HVAC property begins with.
LEMMA HvacBegins ==
    ASSUME NEW r, r.op \in WriteOps, r.prop \in hvacProps
    PROVE  /\ r.prop = "HVAC_POWER_ON" /\ r.value = Malformed =>
                 \A s \in Range(StepsOf(r)) : s.do = "fail"
           /\ r.prop = "HVAC_POWER_ON" /\ r.value # Malformed =>
                 \E w : /\ Range(StepsOf(r)) = {Step("sendHvacPropertiesCurrentValues"), w}
                        /\ w.do = "write" /\ w.key = Switch(r.area)
                        /\ w.status = "KEEP" /\ w.value = r.value
           /\ r.prop # "HVAC_POWER_ON" =>
                 \A s \in Range(StepsOf(r)) :
                    s.do \in SyncSteps /\ (s.do = "write" => s.status = "KEEP")
<1> DEFINE p == r.prop
           v == r.value
           plain == Plain(<<p, r.area>>, v)
           stamped == [plain EXCEPT !.locked = FALSE]
           sync == [do |-> "synchronizeHvacTemp", area |-> r.area,
                    temp |-> NoValue, onError |-> "skip"]
           send == Step("sendHvacPropertiesCurrentValues")
           synced == Step("getSyncedAreaIdIfHvacDualOn")
           look == Check("hvac", p, r.area)
           bad == Fail("INVALID_ARG")
<1>1. \A w \in {plain, stamped} : /\ w.do = "write" /\ w.key = <<p, r.area>>
                                  /\ w.status = "KEEP" /\ w.value = v
  <2>1. /\ plain.do = "write" /\ plain.key = <<p, r.area>> /\ plain.value = v
        /\ plain.status = "KEEP"
        /\ DOMAIN plain = {"do", "key", "value", "status", "mode", "locked", "onError"}
    BY DEF Plain, Write
  <2> HIDE DEF plain
  <2> QED
    BY <2>1
<1>2. /\ bad.do = "fail" /\ look.do = "check" /\ sync.do = "synchronizeHvacTemp"
      /\ synced.do = "getSyncedAreaIdIfHvacDualOn"
  BY DEF Fail, Check, Step
<1>3. PICK w \in {plain, stamped} : StepsOf(r) = maybeSetSpecialValue(p, r.area, v, w)
  BY DEF StepsOf, WriteOps
<1> HIDE DEF plain, stamped
<1>4. w.do = "write" /\ w.key = <<p, r.area>> /\ w.status = "KEEP" /\ w.value = v
  BY <1>1
<1>5. p \notin DOMAIN Assists /\ ~isSupported(p)
  BY AssistsKnown DEF OtherProps, hvacProps, isSupported, UserProps, OneShotProps
<1>6. CASE p = "HVAC_POWER_ON"
  <2>1. StepsOf(r) = IF v = Malformed THEN <<bad>> ELSE <<send, w>>
    BY <1>3, <1>5, <1>6 DEF maybeSetSpecialValue
  <2> HIDE DEF bad, send, v
  <2>2. Range(StepsOf(r)) = IF v = Malformed THEN {bad} ELSE {send, w}
    BY <2>1, OneSeq, TwoSeq
  <2>3. w.key = Switch(r.area)
    BY <1>4, <1>6 DEF Switch
  <2> QED
    BY <1>2, <1>4, <1>6, <2>2, <2>3 DEF v, send
<1>7. CASE p = "HVAC_TEMPERATURE_SET"
  <2>1. StepsOf(r) = <<look>> \o (IF v = Malformed THEN <<bad>> ELSE <<synced, w>>)
    BY <1>3, <1>5, <1>7 DEF maybeSetSpecialValue
  <2> HIDE DEF bad, look, synced, v
  <2>2. Range(StepsOf(r)) \subseteq {look, bad, synced, w}
    <3>1. IsSeq(<<look>>) /\ Range(<<look>>) = {look} /\ IsSeq(<<bad>>) /\ Range(<<bad>>) = {bad}
          /\ IsSeq(<<synced, w>>) /\ Range(<<synced, w>>) = {synced, w}
      BY OneSeq, TwoSeq
    <3> DEFINE one == <<look>>
               rest == IF v = Malformed THEN <<bad>> ELSE <<synced, w>>
    <3>2. /\ IsSeq(one) /\ Range(one) = {look}
          /\ IsSeq(rest) /\ Range(rest) \subseteq {bad, synced, w}
      BY <3>1
    <3>3. StepsOf(r) = one \o rest
      BY <2>1
    <3> HIDE DEF one, rest
    <3> QED
      BY <3>2, <3>3, Joined
  <2> QED
    BY <1>2, <1>4, <1>7, <2>2 DEF SyncSteps
<1>8. CASE p = "HVAC_DUAL_ON"
  <2>1. StepsOf(r) = CASE v = Malformed -> <<bad>>
                       [] v = 1 -> <<sync, w>>
                       [] OTHER -> <<w>>
    BY <1>3, <1>5, <1>8 DEF maybeSetSpecialValue
  <2> HIDE DEF bad, sync, v
  <2>2. \/ StepsOf(r) \in {<<bad>>, <<sync, w>>, <<w>>}
    BY <2>1
  <2>3. Range(StepsOf(r)) \subseteq {bad, sync, w}
    BY <2>2, OneSeq, TwoSeq
  <2> QED
    BY <1>2, <1>4, <1>8, <2>3 DEF SyncSteps
<1> QED
  BY <1>6, <1>7, <1>8 DEF hvacProps

LEMMA HvacKeys ==
    /\ \A a \in PowerAreas : Switch(a) \in Keys
    /\ \A a : Switch(a)[1] = "HVAC_POWER_ON" /\ \A b : Switch(a) = Switch(b) => a = b
    /\ \A x : Temp(x)[1] = "HVAC_TEMPERATURE_SET" /\ \A y : Temp(x) = Temp(y) => x = y
    /\ \A a, x : Switch(a) # Temp(x)
    /\ \A p \in hvacProps : Coupled(p) /\ p \notin Settings
    /\ "HVAC_POWER_ON" \in hvacProps /\ "HVAC_TEMPERATURE_SET" \in hvacProps
<1>1. \A a \in PowerAreas : Switch(a) \in Keys
  BY DEF Keys, Switch
<1>2. /\ \A a : Switch(a)[1] = "HVAC_POWER_ON" /\ \A b : Switch(a) = Switch(b) => a = b
      /\ \A x : Temp(x)[1] = "HVAC_TEMPERATURE_SET" /\ \A y : Temp(x) = Temp(y) => x = y
  BY DEF Switch, Temp
<1>3. \A a, x : Switch(a) # Temp(x)
  BY DEF Switch, Temp
<1>4. \A p \in hvacProps : Coupled(p) /\ p \notin Settings
  BY AssistsKnown DEF Coupled, Settings, OtherProps
<1>5. "HVAC_POWER_ON" \in hvacProps /\ "HVAC_TEMPERATURE_SET" \in hvacProps
  BY DEF hvacProps
<1> QED
  BY <1>1, <1>2, <1>3, <1>4, <1>5

\* The next step of a thread says what the thread does.
LEMMA DoesNext ==
    ASSUME NEW t \in Threads, Run(t), ~finish(t)
    PROVE  /\ Busy(t) /\ thread[t].steps # <<>>
           /\ Now(t).do = "write" => stamp(t) \/ writeValue(t)
           /\ Now(t).do = "check" => check(t)
           /\ Now(t).do = "fail" => fail(t)
           /\ Now(t).do = "sendHvacPropertiesCurrentValues" => sendHvacPropertiesCurrentValues(t)
           /\ Now(t).do = "getSyncedAreaIdIfHvacDualOn" => getSyncedAreaIdIfHvacDualOn(t)
           /\ Now(t).do = "synchronizeHvacTemp" => synchronizeHvacTemp(t)
           /\ Now(t).do = "read" => read(t)
           /\ Now(t).do = "removeValue" => removeValue(t)
           /\ Now(t).do = "removeValuesForProperty" => removeValuesForProperty(t)
           /\ Now(t).do = "getObd2DtcInfo" => getObd2DtcInfo(t)
<1> DEFINE Does(name) == Busy(t) /\ thread[t].steps # <<>> /\ Now(t).do = name
<1>1. \A name : Doing(t, name) => Does(name)
  BY DEF Doing, Now
<1>2. /\ check(t) => Does("check")
      /\ fail(t) => Does("fail")
  BY <1>1 DEF check, fail
<1>3. /\ stamp(t) => Does("write")
      /\ writeValue(t) => Does("write")
      /\ sendHvacPropertiesCurrentValues(t) => Does("sendHvacPropertiesCurrentValues")
      /\ getSyncedAreaIdIfHvacDualOn(t) => Does("getSyncedAreaIdIfHvacDualOn")
      /\ synchronizeHvacTemp(t) => Does("synchronizeHvacTemp")
  BY <1>1, Zenon DEF stamp, writeValue, sendHvacPropertiesCurrentValues,
       getSyncedAreaIdIfHvacDualOn, synchronizeHvacTemp
<1>4. /\ read(t) => Does("read")
      /\ removeValue(t) => Does("removeValue")
      /\ removeValuesForProperty(t) => Does("removeValuesForProperty")
      /\ getObd2DtcInfo(t) => Does("getObd2DtcInfo")
      /\ setUserHalProp(t) => Does("setUserHalProp")
      /\ getUserHalProp(t) => Does("getUserHalProp")
      /\ getPowerPropFromExternalService(t) => Does("getPowerPropFromExternalService")
      /\ save(t) => Does("save")
      /\ restore(t) => Does("restore")
  BY <1>1, Zenon DEF read, removeValue, removeValuesForProperty, getObd2DtcInfo,
       setUserHalProp, getUserHalProp, getPowerPropFromExternalService, save, restore
<1> QED
  BY <1>2, <1>3, <1>4 DEF Run

\* A value is not removed, unless it is a freeze frame.
LEMMA StaysThere ==
    ASSUME "status" \notin DOMAIN NoValue, WorkInv, [Next]_vars,
           NEW k \in Keys, k[1] # "OBD2_FREEZE_FRAME", store[k] # NoValue
    PROVE  store'[k] # NoValue
<1>1. PlaceInv /\ ThreadsInv /\ DOMAIN store = Keys /\ clock \in Nat
  BY DEF WorkInv, ClockInv
<1>2. CASE \E t \in Threads : Run(t)
  <2>1. PICK t \in Threads : Run(t)
    BY <1>2
  <2>2. store'[k] = store[k] \/ (writeValue(t) /\ k = Now(t).key)
    BY <1>1, <2>1, StoreMoves
  <2>3. CASE writeValue(t) /\ k = Now(t).key
    <3>1. DOMAIN thread = Threads /\ DOMAIN thread[t] = Fields
      BY <1>1 DEF ThreadsInv, Fits
    <3> DEFINE s == Now(t)
               ts == IF s.locked THEN clock + 1 ELSE thread[t].stamp
    <3>2. \/ UNCHANGED store
          \/ \E st : store'[s.key] = [value |-> s.value, timestamp |-> ts, status |-> st]
      BY <1>1, <2>3, <3>1, WriteStores
    <3> HIDE DEF ts
    <3>3. \A st : "status" \in DOMAIN [value |-> s.value, timestamp |-> ts, status |-> st]
      OBVIOUS
    <3> QED
      BY <2>3, <3>2, <3>3
  <2> QED
    BY <2>2, <2>3
<1> QED
  BY <1>1, <1>2, NextCases DEF Quiet, Begins

LEMMA TempsStep ==
    ASSUME "status" \notin DOMAIN NoValue, WorkInv, TempsThere, [Next]_vars
    PROVE  TempsThere'
<1>1. \A x \in TempAreas : Temp(x) \in Keys /\ Temp(x)[1] # "OBD2_FREEZE_FRAME"
  BY TempKeys, HvacKeys
<1> QED
  BY <1>1, StaysThere DEF TempsThere

\* The area of a switch that is set is one of its areas.
LEMMA PowerArea ==
    ASSUME WorkInv, NEW t \in Threads, Setting(t, "HVAC_POWER_ON")
    PROVE  Request(t).area \in PowerAreas
<1>1. thread[t].id \in 1 .. Len(asked)
  BY DEF WorkInv, ThreadsInv, Fits, Setting
<1>2. Known(Request(t))
  BY <1>1 DEF WorkInv, PlaceInv, AskedType, Request
<1> QED
  BY <1>2 DEF Known, Setting, WriteOps

LEMMA PowerKept ==
    ASSUME NEW u, PowerInv(u), Request(u).area \in PowerAreas,
           Request(u)' = Request(u), thread'[u].steps = thread[u].steps,
           \A k \in Keys : Coupled(k[1]) => store'[k] = store[k]
    PROVE  PowerInv(u)'
<1> DEFINE a == Request(u).area
<1>1. \A k : ToWrite(u, k)' = ToWrite(u, k)
  BY DEF ToWrite
<1>2. store'[Switch(a)] = store[Switch(a)]
  BY HvacKeys
<1>3. \A x \in TempAreas : store'[Temp(x)] = store[Temp(x)]
  BY HvacKeys, TempKeys
<1> QED
  BY <1>1, <1>2, <1>3 DEF PowerInv

LEMMA SyncKept ==
    ASSUME NEW u, SyncInv(u), thread'[u].steps = thread[u].steps,
           \A k \in Keys : Coupled(k[1]) => store'[k] = store[k]
    PROVE  SyncInv(u)'
<1>1. Coupled("HVAC_TEMPERATURE_SET")
  BY HvacKeys
<1> QED
  BY <1>1 DEF SyncInv

\* A thread that switches power goes on: the values are sent, or written.
LEMMA PowerGoes ==
    ASSUME WorkInv, TempsThere, ~overlapped, Kept, NEW t \in Threads, Run(t), ~finish(t),
           Powering(t), PowerInv(t)
    PROVE  /\ PowerInv(t)'
           /\ CoupledWrite(t) =>
                 \/ Now(t).key = Switch(Request(t).area)
                 \/ \E x \in TempAreas : x \subseteq Request(t).area /\ Now(t).key = Temp(x)
<1> DEFINE steps == thread[t].steps
           s == Now(t)
           a == Request(t).area
           v == Request(t).value
           Sends(x) == x.do = "sendHvacPropertiesCurrentValues"
           Status(x) == /\ x.do = "write" /\ x.status = StatusFor(v)
                        /\ \E y \in TempAreas : y \subseteq a /\ x.key = Temp(y)
           Power(x) == /\ x.do = "write" /\ x.key = Switch(a)
                       /\ x.status = "KEEP" /\ x.value = v
<1>1. /\ Busy(t) /\ steps # <<>>
      /\ s.do = "write" => stamp(t) \/ writeValue(t)
      /\ Sends(s) => sendHvacPropertiesCurrentValues(t)
  BY DoesNext
<1>2. /\ ThreadsInv /\ IsSeq(steps) /\ a \in PowerAreas
      /\ DOMAIN thread = Threads /\ DOMAIN thread[t] = Fields
  BY <1>1, PowerArea DEF WorkInv, ThreadsInv, Fits, FitSteps, Powering
<1>3. s \in Range(steps) /\ Range(steps) = {s} \cup Range(Tail(steps))
  BY <1>1, <1>2, HeadTail DEF Now
<1>4. IsSeq(Tail(steps))
  BY <1>1, <1>2, HeadTail
<1>5. Request(t)' = Request(t)
  BY <1>1, RunKeeps
<1>6. /\ \A x \in Range(steps) : Sends(x) \/ Power(x) \/ Status(x)
      /\ \A y \in TempAreas : y \subseteq a =>
            \/ \E x \in Range(steps) : Sends(x)
            \/ \E x \in Range(steps) : x.do = "write" /\ x.key = Temp(y)
            \/ store[Temp(y)].status = StatusFor(v)
      /\ \/ \E x \in Range(steps) : x.do = "write" /\ x.key = Switch(a)
         \/ store[Switch(a)].value = v
  BY DEF PowerInv, ToWrite
<1>7. \A k \in Keys : Coupled(k[1]) => store'[k] = store[k] \/ (CoupledWrite(t) /\ k = s.key)
  BY CoupledStore
<1>8. SUFFICES
        /\ \A x \in Range(thread'[t].steps) : Sends(x) \/ Power(x) \/ Status(x)
        /\ \A y \in TempAreas : y \subseteq a =>
              \/ \E x \in Range(thread'[t].steps) : Sends(x)
              \/ \E x \in Range(thread'[t].steps) : x.do = "write" /\ x.key = Temp(y)
              \/ store'[Temp(y)].status = StatusFor(v)
        /\ \/ \E x \in Range(thread'[t].steps) : x.do = "write" /\ x.key = Switch(a)
           \/ store'[Switch(a)].value = v
        /\ CoupledWrite(t) =>
              s.key = Switch(a) \/ \E x \in TempAreas : x \subseteq a /\ s.key = Temp(x)
  BY <1>5 DEF PowerInv, ToWrite
<1>9. Switch(a) \in Keys /\ Coupled(Switch(a)[1])
  BY <1>2, HvacKeys
<1>10. \A y \in TempAreas : Temp(y) \in Keys /\ Coupled(Temp(y)[1])
  BY HvacKeys, TempKeys
<1> HIDE DEF a, v, s, steps
<1>11. CASE Sends(s)
  <2> DEFINE send(k) == Write(k, store[k].value, StatusFor(v), "ALWAYS", FALSE, "ignore")
             S == {k \in Keys : /\ k[1] = "HVAC_TEMPERATURE_SET" /\ store[k] # NoValue
                                /\ k[2] \subseteq a}
  <2>1. PICK first : /\ IsSeq(first) /\ Range(first) = {send(k) : k \in S}
                     /\ Moved(t, first \o Tail(steps))
    BY <1>1, <1>2, <1>11, SendMoves DEF a, v, steps
  <2>2. Range(thread'[t].steps) = Range(first) \cup Range(Tail(steps))
    BY <1>4, <2>1, Joined DEF Moved
  <2>3. \A k : send(k).do = "write" /\ send(k).key = k /\ send(k).status = StatusFor(v)
    BY DEF Write
  <2>4. \A k \in S : \E y \in TempAreas : y \subseteq a /\ k = Temp(y)
    BY TempKeys DEF Temp
  <2>5. \A y \in TempAreas : y \subseteq a => Temp(y) \in S
    <3>1. \A y : Temp(y)[2] = y
      BY DEF Temp
    <3> QED
      BY <1>10, <3>1, HvacKeys DEF TempsThere
  <2> HIDE DEF send, S
  <2>6. \A x \in Range(first) : Status(x)
    BY <2>1, <2>3, <2>4
  <2>7. \A y \in TempAreas : y \subseteq a =>
           \E x \in Range(first) : x.do = "write" /\ x.key = Temp(y)
    BY <2>1, <2>3, <2>5
  <2>8. ~CoupledWrite(t)
    BY <1>11 DEF CoupledWrite, writeValue, Doing, Now, s
  <2>9. store'[Switch(a)] = store[Switch(a)]
    BY <1>7, <1>9, <2>8
  <2>10. \A x \in Range(steps) : x.do = "write" => x \in Range(Tail(steps))
    BY <1>3, <1>11
  <2> QED
    BY <1>3, <1>6, <2>2, <2>6, <2>7, <2>8, <2>9, <2>10
<1>12. CASE stamp(t)
  <2>1. thread'[t].steps = steps
    BY <1>2, <1>12 DEF stamp, steps, Fields
  <2>2. ~CoupledWrite(t)
    BY <1>12 DEF stamp, CoupledWrite, writeValue
  <2>3. store'[Switch(a)] = store[Switch(a)] /\ \A y \in TempAreas : store'[Temp(y)] = store[Temp(y)]
    BY <1>7, <1>9, <1>10, <2>2
  <2> QED
    BY <1>6, <2>1, <2>2, <2>3
<1>13. CASE writeValue(t) /\ s.do = "write"
  <2>1. s.key \in Keys /\ Coupled(s.key[1]) /\ (Power(s) \/ Status(s))
    BY <1>3, <1>6, <1>9, <1>10, <1>13
  <2>2. CoupledWrite(t)
    BY <1>13, <2>1 DEF CoupledWrite, s
  <2>3. /\ thread'[t].steps = Tail(steps) /\ store'[s.key].value = s.value
        /\ s.status # "KEEP" => store'[s.key].status = s.status
    BY <2>2, CoupledStore DEF Moved, s, steps
  <2>4. \A k \in Keys : Coupled(k[1]) => store'[k] = store[k] \/ k = s.key
    BY <1>7
  <2>5. CASE Power(s)
    <3>1. store'[Switch(a)].value = v
      BY <2>3, <2>5
    <3>2. \A y \in TempAreas : store'[Temp(y)] = store[Temp(y)] /\ s.key # Temp(y)
      BY <1>10, <2>4, <2>5, HvacKeys
    <3>3. \A x \in Range(steps) : Sends(x) => x \in Range(Tail(steps))
      BY <1>3, <1>13
    <3>4. \A y \in TempAreas, x \in Range(steps) : x.key = Temp(y) => x \in Range(Tail(steps))
      BY <1>3, <3>2
    <3> QED
      BY <1>3, <1>6, <2>3, <2>5, <3>1, <3>2, <3>3, <3>4
  <2>6. CASE Status(s)
    <3>1. PICK y \in TempAreas : y \subseteq a /\ s.key = Temp(y)
      BY <2>6
    <3>2. store'[Temp(y)].status = StatusFor(v)
      BY <2>3, <2>6, <3>1 DEF StatusFor
    <3>3. store'[Switch(a)] = store[Switch(a)] /\ s.key # Switch(a)
      BY <1>9, <2>4, <3>1, HvacKeys
    <3>4. \A z \in TempAreas : z # y => store'[Temp(z)] = store[Temp(z)] /\ s.key # Temp(z)
      BY <1>10, <2>4, <3>1, HvacKeys
    <3>5. \A x \in Range(steps) : x = s \/ x \in Range(Tail(steps))
      BY <1>3
    <3>6. ~Sends(s)
      BY <1>13
    <3>7. \A z \in TempAreas : z \subseteq a =>
              \/ \E x \in Range(Tail(steps)) : Sends(x)
              \/ \E x \in Range(Tail(steps)) : x.do = "write" /\ x.key = Temp(z)
              \/ store'[Temp(z)].status = StatusFor(v)
      BY <1>6, <3>2, <3>4, <3>5, <3>6
    <3>8. \/ \E x \in Range(Tail(steps)) : x.do = "write" /\ x.key = Switch(a)
          \/ store'[Switch(a)].value = v
      BY <1>6, <3>3, <3>5
    <3> QED
      BY <1>3, <1>6, <2>3, <3>1, <3>7, <3>8
  <2> QED
    BY <2>1, <2>5, <2>6
<1> QED
  BY <1>1, <1>3, <1>6, <1>11, <1>12, <1>13

\* A thread that couples temperatures goes on, and no status changes.
LEMMA SyncGoes ==
    ASSUME WorkInv, TempsThere, ~overlapped, Kept, NEW t \in Threads, Run(t), ~finish(t),
           Syncing(t), SyncInv(t)
    PROVE  /\ SyncInv(t)'
           /\ CoupledWrite(t) =>
                 /\ Now(t).key[1] # "HVAC_POWER_ON"
                 /\ Now(t).key[1] = "HVAC_TEMPERATURE_SET" =>
                       store'[Now(t).key].status = store[Now(t).key].status
<1> DEFINE steps == thread[t].steps
           s == Now(t)
           TempKey(x) == x.do = "write" /\ x.key[1] = "HVAC_TEMPERATURE_SET" /\ x.status # "KEEP"
<1>1. /\ Busy(t) /\ steps # <<>>
      /\ s.do = "write" => stamp(t) \/ writeValue(t)
      /\ s.do = "check" => check(t)
      /\ s.do = "fail" => fail(t)
      /\ s.do = "getSyncedAreaIdIfHvacDualOn" => getSyncedAreaIdIfHvacDualOn(t)
      /\ s.do = "synchronizeHvacTemp" => synchronizeHvacTemp(t)
  BY DoesNext
<1>2. /\ ThreadsInv /\ IsSeq(steps) /\ DOMAIN thread = Threads /\ DOMAIN thread[t] = Fields
      /\ FitSteps(Request(t), steps)
  BY <1>1 DEF WorkInv, ThreadsInv, Fits, FitSteps
<1>3. /\ s \in Range(steps) /\ Range(steps) = {s} \cup Range(Tail(steps))
      /\ IsSeq(Tail(steps))
  BY <1>1, <1>2, HeadTail DEF Now
<1>4. \A x \in Range(steps) :
         /\ x.do \in SyncSteps
         /\ TempKey(x) => /\ x.key \in Keys /\ x.status = "AVAILABLE"
                          /\ store[x.key].status = "AVAILABLE"
  BY DEF SyncInv
<1>5. \A k \in Keys : Coupled(k[1]) => store'[k] = store[k] \/ (CoupledWrite(t) /\ k = s.key)
  BY CoupledStore
<1>6. Coupled("HVAC_TEMPERATURE_SET")
  BY HvacKeys
<1>7. SUFFICES
        /\ \A x \in Range(thread'[t].steps) :
              /\ x.do \in SyncSteps
              /\ TempKey(x) => /\ x.key \in Keys /\ x.status = "AVAILABLE"
                               /\ store'[x.key].status = "AVAILABLE"
        /\ CoupledWrite(t) =>
              /\ s.key[1] # "HVAC_POWER_ON"
              /\ s.key[1] = "HVAC_TEMPERATURE_SET" =>
                    store'[s.key].status = store[s.key].status
  BY DEF SyncInv
<1> HIDE DEF s, steps
\* Steps that write nothing.
<1>8. ASSUME ~CoupledWrite(t),
             \A x \in Range(thread'[t].steps) :
                \/ x \in Range(steps)
                \/ x.do = "synchronizeHvacTemp"
                \/ /\ x.do = "write" /\ x.key \in Keys /\ x.status = "AVAILABLE"
                   /\ store[x.key].status = "AVAILABLE"
                   /\ x.key[1] = "HVAC_TEMPERATURE_SET"
      PROVE  \A x \in Range(thread'[t].steps) :
                /\ x.do \in SyncSteps
                /\ TempKey(x) => /\ x.key \in Keys /\ x.status = "AVAILABLE"
                                 /\ store'[x.key].status = "AVAILABLE"
  <2>1. \A k \in Keys : k[1] = "HVAC_TEMPERATURE_SET" => store'[k] = store[k]
    BY <1>5, <1>6, <1>8
  <2> QED
    BY <1>4, <1>8, <2>1 DEF SyncSteps
<1>9. CASE s.do # "write"
  <2>1. ~CoupledWrite(t)
    BY <1>9 DEF CoupledWrite, writeValue, Doing, Now, s
  <2>2. \/ check(t) \/ fail(t) \/ getSyncedAreaIdIfHvacDualOn(t) \/ synchronizeHvacTemp(t)
    BY <1>1, <1>3, <1>4, <1>9 DEF SyncSteps
  <2>3. ASSUME thread' = Continue(t, <<>>)
        PROVE  Range(thread'[t].steps) = Range(Tail(steps))
    <3>1. Moved(t, <<>> \o Tail(steps))
      BY <1>2, <2>3, Moves DEF steps
    <3>2. IsSeq(<<>>) /\ Range(<<>>) = {}
      BY NothingInSeq
    <3> QED
      BY <1>3, <3>1, <3>2, Joined DEF Moved
  <2>4. ASSUME NEW status, thread' = Failed(t, status)
        PROVE  Range(thread'[t].steps) = {}
    <3>1. Moved(t, <<>>)
      BY <1>2, <2>4, Moves
    <3> QED
      BY <3>1, NothingInSeq DEF Moved
  <2>5. CASE check(t) \/ fail(t)
    <3>1. thread' = Continue(t, <<>>) \/ \E status : thread' = Failed(t, status)
      BY <2>5 DEF check, fail
    <3> QED
      BY <1>3, <1>8, <2>1, <2>3, <2>4, <3>1
  <2>6. CASE getSyncedAreaIdIfHvacDualOn(t)
    <3> DEFINE sync(area, temp) == [do |-> "synchronizeHvacTemp", area |-> area, temp |-> temp,
                                    onError |-> "fail"]
    <3>1. \/ thread' = Continue(t, <<>>)
          \/ \E area, temp : thread' = [thread EXCEPT ![t].steps = <<sync(area, temp)>>]
      BY <2>6, Zenon DEF getSyncedAreaIdIfHvacDualOn
    <3>2. CASE \E area, temp : thread' = [thread EXCEPT ![t].steps = <<sync(area, temp)>>]
      <4>1. PICK area, temp : thread' = [thread EXCEPT ![t].steps = <<sync(area, temp)>>]
        BY <3>2
      <4>2. sync(area, temp).do = "synchronizeHvacTemp"
        OBVIOUS
      <4> HIDE DEF sync
      <4>3. thread'[t].steps = <<sync(area, temp)>>
        BY <1>2, <4>1, Moves DEF Moved
      <4> QED
        BY <1>8, <2>1, <4>2, <4>3, OneSeq
    <3> QED
      BY <1>3, <1>8, <2>1, <2>3, <3>1, <3>2
  <2>7. CASE synchronizeHvacTemp(t)
    <3>0. PICK first, temp : \E S \in SUBSET Seats(s.area) : SyncsTo(t, s.area, first, temp, S)
      BY <1>2, <2>7, SyncMoves DEF s
    <3>1. /\ IsSeq(first) /\ Moved(t, first \o Tail(steps))
          /\ \E S \in SUBSET Seats(s.area) :
                Range(first) = {Forced(k, temp, s.onError) : k \in S}
      BY <3>0 DEF SyncsTo, steps, s
    <3>2. Range(thread'[t].steps) = Range(first) \cup Range(Tail(steps))
      BY <1>3, <3>1, Joined DEF Moved
    <3>3. \A k : LET x == Forced(k, temp, s.onError)
                 IN  x.do = "write" /\ x.key = k /\ x.status = "AVAILABLE"
      BY DEF Forced, Write
    <3>4. \A x \in Range(first) :
             /\ x.do = "write" /\ x.key \in Keys /\ x.status = "AVAILABLE"
             /\ store[x.key].status = "AVAILABLE"
             /\ x.key[1] = "HVAC_TEMPERATURE_SET"
      BY <3>1, <3>3 DEF Seats
    <3> QED
      BY <1>3, <1>8, <2>1, <3>2, <3>4
  <2> QED
    BY <2>2, <2>5, <2>6, <2>7
<1>10. CASE stamp(t)
  <2>1. thread'[t].steps = steps
    BY <1>2, <1>10 DEF stamp, steps, Fields
  <2>2. ~CoupledWrite(t)
    BY <1>10 DEF stamp, CoupledWrite, writeValue
  <2> QED
    BY <1>8, <2>1, <2>2
<1>11. CASE writeValue(t) /\ s.do = "write" /\ ~CoupledWrite(t)
  <2>1. DOMAIN store = Keys
    BY DEF WorkInv, ClockInv
  <2>2. Moved(t, <<>>) \/ Moved(t, <<Last(steps)>>) \/ Moved(t, Tail(steps))
    BY <1>2, <1>11, <2>1, WriteMoves DEF steps
  <2>3. Last(steps) \in Range(steps) /\ Range(<<Last(steps)>>) = {Last(steps)} /\ Range(<<>>) = {}
    BY <1>1, <1>2, HeadTail, OneSeq, NothingInSeq
  <2>4. \A x \in Range(thread'[t].steps) : x \in Range(steps)
    BY <1>3, <2>2, <2>3 DEF Moved
  <2> QED
    BY <1>8, <1>11, <2>4
<1>12. CASE CoupledWrite(t)
  <2>1. /\ thread'[t].steps = Tail(steps) /\ s.key \in Keys
        /\ store'[s.key].status = IF s.status # "KEEP" THEN s.status
                                  ELSE IF store[s.key] = NoValue THEN "AVAILABLE"
                                  ELSE store[s.key].status
        /\ s.do = "write"
    BY <1>12, CoupledStore DEF Moved, s, steps, CoupledWrite, Doing, Now
  <2>2. s.key[1] # "HVAC_POWER_ON"
    <3>1. s.key[1] \in Writes(Request(t))
      BY <1>1, <1>2, <2>1, HvacWrites DEF s, steps
    <3>2. Request(t).prop \notin DOMAIN Assists
      BY HvacKeys DEF Syncing, Setting, hvacProps, Settings
    <3> QED
      BY <3>1, <3>2 DEF Writes, Syncing, Setting, WriteOps, hvacProps
  <2>3. s.key[1] = "HVAC_TEMPERATURE_SET" => store'[s.key].status = store[s.key].status
    <3> SUFFICES ASSUME s.key[1] = "HVAC_TEMPERATURE_SET"
                 PROVE  store'[s.key].status = store[s.key].status
      OBVIOUS
    <3>1. store[s.key] # NoValue
      BY <2>1, TempKeys DEF TempsThere
    <3>2. s.status # "KEEP" => s.status = store[s.key].status
      BY <1>3, <1>4, <2>1
    <3> QED
      BY <2>1, <3>1, <3>2
  <2>4. \A k \in Keys : k[1] = "HVAC_TEMPERATURE_SET" => store'[k].status = store[k].status
    BY <1>5, <1>6, <2>3
  <2> QED
    BY <1>3, <1>4, <2>1, <2>2, <2>3, <2>4
<1> QED
  BY <1>1, <1>9, <1>10, <1>11, <1>12

\* What thread u is at depends on its request alone.
LEMMA SameWork ==
    ASSUME NEW u, Busy(u)' = Busy(u), Busy(u) => Request(u)' = Request(u)
    PROVE  /\ \A e : Setting(u, e)' = Setting(u, e)
           /\ Powering(u)' = Powering(u) /\ Syncing(u)' = Syncing(u)
<1>1. \A e : Setting(u, e)' = Setting(u, e)
  BY DEF Setting
<1>2. Powering(u)' = Powering(u)
  BY DEF Powering, Setting
<1>3. Syncing(u)' = Syncing(u)
  BY <1>1 DEF Syncing
<1> QED
  BY <1>1, <1>2, <1>3

\* A thread that does nothing, while coupled properties are left alone.
LEMMA HvacKept ==
    ASSUME WorkInv, Kept, NEW u \in Writers, thread'[u] = thread[u],
           \A k \in Keys : Coupled(k[1]) => store'[k] = store[k],
           PowersInv, RefusedInv, SyncsInv
    PROVE  /\ Powering(u)' => PowerInv(u)'
           /\ Setting(u, "HVAC_POWER_ON")' /\ ~Powering(u)' =>
                 \A s \in Range(thread'[u].steps) : s.do = "fail"
           /\ Syncing(u)' => SyncInv(u)'
           /\ Powering(u)' = Powering(u) /\ (Powering(u) => Request(u)' = Request(u))
<1>1. u \in Threads /\ Busy(u)' = Busy(u) /\ (Busy(u) => Request(u)' = Request(u))
  BY KeptRequest DEF WorkInv, ThreadsInv, Writers, Threads, Handlers
<1>2. /\ \A e : Setting(u, e)' = Setting(u, e)
      /\ Powering(u)' = Powering(u) /\ Syncing(u)' = Syncing(u)
  BY <1>1, SameWork
<1>3. Powering(u) => Busy(u) /\ Setting(u, "HVAC_POWER_ON")
  BY DEF Powering, Setting
<1>4. ASSUME Powering(u) PROVE PowerInv(u)'
  <2>1. PowerInv(u) /\ Request(u).area \in PowerAreas
    BY <1>1, <1>3, <1>4, PowerArea DEF PowersInv
  <2> QED
    BY <1>1, <1>3, <1>4, <2>1, PowerKept
<1>5. ASSUME Syncing(u) PROVE SyncInv(u)'
  BY <1>5, SyncKept DEF SyncsInv
<1> QED
  BY <1>1, <1>2, <1>3, <1>4, <1>5 DEF RefusedInv

LEMMA AgreesKept ==
    ASSUME NEW a \in PowerAreas, NEW x \in TempAreas,
           \A k \in {Switch(a), Temp(x)} : store'[k] = store[k]
    PROVE  Agrees(a, x)' = Agrees(a, x)
  BY DEF Agrees

\* A request begins.
LEMMA HvacStart ==
    ASSUME WorkInv, PowersInv, RefusedInv, SyncsInv, AgreesInv,
           NEW t \in Threads, NEW r, NEW id, NEW ts, Begins(t, r, id, ts)
    PROVE  PowersInv' /\ RefusedInv' /\ SyncsInv' /\ AgreesInv'
<1>1. /\ Kept /\ ~Busy(t) /\ Known(r) /\ UNCHANGED store
  BY DEF Begins
<1>2. /\ Busy(t)' /\ Same(Request(t)', r) /\ thread'[t].steps = StepsOf(r)
      /\ \A u \in Threads \ {t} : thread'[u] = thread[u]
  BY BegunRequest DEF WorkInv
<1>3. Writers \subseteq Threads
  BY DEF Writers, Threads, Handlers
<1>4. \A u \in Writers \ {t} :
        /\ Powering(u)' => PowerInv(u)'
        /\ Setting(u, "HVAC_POWER_ON")' /\ ~Powering(u)' =>
              \A s \in Range(thread'[u].steps) : s.do = "fail"
        /\ Syncing(u)' => SyncInv(u)'
        /\ Powering(u)' = Powering(u) /\ (Powering(u) => Request(u)' = Request(u))
  BY <1>1, <1>2, <1>3, HvacKept
<1>5. /\ Request(t)'.op = r.op /\ Request(t)'.prop = r.prop
      /\ Request(t)'.value = r.value /\ Request(t)'.area = r.area
  BY <1>2 DEF Same
<1>6. \A e : Setting(t, e)' = (r.op \in WriteOps /\ r.prop = e)
  BY <1>2, <1>5 DEF Setting
<1>7. Powering(t)' = (Setting(t, "HVAC_POWER_ON")' /\ r.value # Malformed)
  BY <1>2, <1>5 DEF Powering, Setting
<1>8. ASSUME Powering(t)' PROVE PowerInv(t)'
  <2>1. r.op \in WriteOps /\ r.prop = "HVAC_POWER_ON" /\ r.value # Malformed
    BY <1>6, <1>7, <1>8
  <2> DEFINE send == Step("sendHvacPropertiesCurrentValues")
  <2>2. PICK w : /\ Range(StepsOf(r)) = {send, w}
                 /\ w.do = "write" /\ w.key = Switch(r.area)
                 /\ w.status = "KEEP" /\ w.value = r.value
    BY <2>1, HvacKeys, HvacBegins
  <2>3. send.do = "sendHvacPropertiesCurrentValues"
    BY DEF Step
  <2> HIDE DEF send
  <2>4. Range(thread'[t].steps) = {send, w}
    BY <1>2, <2>2
  <2>5. ToWrite(t, Switch(r.area))'
    BY <2>2, <2>4 DEF ToWrite
  <2> QED
    BY <1>5, <2>2, <2>3, <2>4, <2>5 DEF PowerInv
<1>9. ASSUME Setting(t, "HVAC_POWER_ON")', ~Powering(t)'
      PROVE  \A s \in Range(thread'[t].steps) : s.do = "fail"
  <2>1. r.op \in WriteOps /\ r.prop = "HVAC_POWER_ON" /\ r.value = Malformed
    BY <1>6, <1>7, <1>9
  <2> QED
    BY <1>2, <2>1, HvacKeys, HvacBegins
<1>10. ASSUME Syncing(t)' PROVE SyncInv(t)'
  <2>1. /\ r.op \in WriteOps /\ r.prop \in hvacProps /\ r.prop # "HVAC_POWER_ON"
    BY <1>6, <1>10 DEF Syncing, hvacProps
  <2>2. \A s \in Range(thread'[t].steps) :
           s.do \in SyncSteps /\ (s.do = "write" => s.status = "KEEP")
    BY <1>2, <2>1, HvacBegins
  <2> QED
    BY <2>2 DEF SyncInv
<1>11. ~Powering(t)
  BY <1>1 DEF Powering, Setting
<1>12. AgreesInv'
  <2> SUFFICES ASSUME NEW a \in PowerAreas, NEW x \in TempAreas, x \subseteq a
               PROVE  Agrees(a, x)' \/ \E u \in Writers : Powering(u)' /\ Request(u)'.area = a
    BY DEF AgreesInv
  <2>1. Agrees(a, x)' = Agrees(a, x)
    BY <1>1, AgreesKept
  <2> QED
    BY <1>4, <1>11, <2>1 DEF AgreesInv
<1>13. PowersInv'
  BY <1>4, <1>8 DEF PowersInv
<1>14. RefusedInv'
  BY <1>4, <1>9 DEF RefusedInv
<1>15. SyncsInv'
  BY <1>4, <1>10 DEF SyncsInv
<1> QED
  BY <1>12, <1>13, <1>14, <1>15

\* A thread that sets neither power nor temperatures does not write them.
LEMMA OthersWrite ==
    ASSUME WorkInv, NEW t \in Threads, Owns(t), Doing(t, "write"),
           Request(t).prop \notin hvacProps
    PROVE  Now(t).key[1] \notin hvacProps
<1> DEFINE r == Request(t)
<1>1. Now(t).key[1] \in Writes(r)
  BY HvacWrites DEF WorkInv, ThreadsInv, Fits, Doing, Now
<1>2. r.op \in WriteOps /\ r.prop \in Settings
  BY DEF Owns, Coupled, Settings
<1>3. r.prop \in DOMAIN Assists => Assists[r.prop] \subseteq Settings
  BY AdasKeys DEF Settings
<1>4. \A p \in hvacProps : p \notin Settings /\ p # "AP_POWER_STATE_REQ"
  BY HvacKeys DEF hvacProps
<1> QED
  BY <1>1, <1>2, <1>3, <1>4 DEF Writes

\* A thread goes on.
LEMMA HvacRun ==
    ASSUME WorkInv, ~overlapped, TempsThere, PowersInv, RefusedInv, SyncsInv, AgreesInv,
           Kept, NEW t \in Threads, Run(t)
    PROVE  PowersInv' /\ RefusedInv' /\ SyncsInv' /\ AgreesInv'
<1>1. /\ \A u \in Threads \ {t} : thread'[u] = thread[u]
      /\ \A u \in Threads : Busy(u)' => Busy(u) /\ Request(u)' = Request(u)
      /\ \A u \in Threads : Busy(u) /\ ~Busy(u)' => u = t /\ finish(t)
      /\ Busy(t)
  BY RunKeeps
<1>2. \A k \in Keys : Coupled(k[1]) =>
         store'[k] = store[k] \/ (CoupledWrite(t) /\ k = Now(t).key)
  BY CoupledStore
<1>3. /\ Writers \subseteq Threads
      /\ \A u : Powering(u) => Setting(u, "HVAC_POWER_ON")
  BY DEF Writers, Threads, Handlers, Powering
<1>4. \A u, p : Setting(u, p) /\ p \in hvacProps => Owns(u)
  BY HvacKeys DEF Setting, Owns
<1>5. \A u : Syncing(u) \/ Setting(u, "HVAC_POWER_ON") => Owns(u)
  BY <1>4 DEF Syncing, hvacProps
<1>6. ASSUME NEW u \in Writers, u # t \/ ~finish(t)
      PROVE  /\ \A e : Setting(u, e)' = Setting(u, e)
             /\ Powering(u)' = Powering(u) /\ Syncing(u)' = Syncing(u)
             /\ Busy(u) => Request(u)' = Request(u)
  <2>1. Busy(u)' = Busy(u) /\ (Busy(u) => Request(u)' = Request(u))
    BY <1>1, <1>3, <1>6 DEF Busy
  <2> QED
    BY <2>1, SameWork
<1>7. finish(t) => ~Busy(t)' /\ ~CoupledWrite(t)
  BY FinishedThread DEF WorkInv, finish, CoupledWrite, writeValue, Doing
<1>8. ASSUME NEW u \in Writers
      PROVE  /\ Powering(u)' => PowerInv(u)'
             /\ Setting(u, "HVAC_POWER_ON")' /\ ~Powering(u)' =>
                   \A s \in Range(thread'[u].steps) : s.do = "fail"
             /\ Syncing(u)' => SyncInv(u)'
  <2>1. CASE u # t /\ ~CoupledWrite(t)
    <3>1. thread'[u] = thread[u] /\ \A k \in Keys : Coupled(k[1]) => store'[k] = store[k]
      BY <1>1, <1>2, <1>3, <2>1
    <3> QED
      BY <3>1, HvacKept
  <2>2. CASE u # t /\ CoupledWrite(t)
    <3>1. ~Owns(u)
      BY <2>2, CoupledStore
    <3> QED
      BY <1>3, <1>5, <1>6, <2>2, <3>1
  <2>3. CASE u = t /\ finish(t)
    BY <1>7, <2>3 DEF Powering, Syncing, Setting
  <2>4. CASE u = t /\ ~finish(t)
    <3>1. /\ Setting(t, "HVAC_POWER_ON")' = Setting(t, "HVAC_POWER_ON")
          /\ Powering(t)' = Powering(t) /\ Syncing(t)' = Syncing(t)
      BY <1>6, <2>4
    <3>2. ASSUME Powering(t) PROVE PowerInv(t)'
      BY <2>4, <3>2, PowerGoes DEF PowersInv
    <3>3. ASSUME Syncing(t) PROVE SyncInv(t)'
      BY <2>4, <3>3, SyncGoes DEF SyncsInv
    <3>4. ASSUME Setting(t, "HVAC_POWER_ON"), ~Powering(t)
          PROVE  \A s \in Range(thread'[t].steps) : s.do = "fail"
      <4>1. \A s \in Range(thread[t].steps) : s.do = "fail"
        BY <2>4, <3>4 DEF RefusedInv
      <4>2. IsSeq(thread[t].steps) /\ thread[t].steps # <<>>
            /\ DOMAIN thread = Threads /\ DOMAIN thread[t] = Fields
        BY <1>1, <2>4, DoesNext DEF WorkInv, ThreadsInv, Fits, FitSteps
      <4>3. fail(t)
        BY <2>4, <4>1, <4>2, DoesNext, HeadTail DEF Now
      <4>4. thread'[t].steps = <<>>
        BY <4>2, <4>3, Moves DEF fail, Moved
      <4> QED
        BY <4>4, NothingInSeq
    <3> QED
      BY <2>4, <3>1, <3>2, <3>3, <3>4
  <2> QED
    BY <2>1, <2>2, <2>3, <2>4
<1>9. AgreesInv'
  <2> SUFFICES ASSUME NEW a \in PowerAreas, NEW x \in TempAreas, x \subseteq a
               PROVE  Agrees(a, x)' \/ \E u \in Writers : Powering(u)' /\ Request(u)'.area = a
    BY DEF AgreesInv
  <2>1. /\ Switch(a) \in Keys /\ Coupled(Switch(a)[1])
        /\ Temp(x) \in Keys /\ Coupled(Temp(x)[1])
    BY HvacKeys, TempKeys
  <2>2. Agrees(a, x) \/ \E u \in Writers : Powering(u) /\ Request(u).area = a
    BY DEF AgreesInv
  <2>3. ASSUME NEW u \in Writers, Powering(u), Request(u).area = a, u # t \/ ~finish(t)
        PROVE  Powering(u)' /\ Request(u)'.area = a
    <3>1. Busy(u)
      BY <2>3 DEF Powering, Setting
    <3> QED
      BY <1>6, <2>3, <3>1
  <2>4. ASSUME Agrees(a, x)' = Agrees(a, x), ~finish(t)
        PROVE  Agrees(a, x)' \/ \E u \in Writers : Powering(u)' /\ Request(u)'.area = a
    BY <2>2, <2>3, <2>4
  <2>5. CASE ~CoupledWrite(t)
    <3>1. Agrees(a, x)' = Agrees(a, x)
      BY <1>2, <2>1, <2>5, AgreesKept
    <3>2. CASE finish(t)
      <4>1. ASSUME t \in Writers, Powering(t), Request(t).area = a PROVE Agrees(a, x)
        <5>1. PowerInv(t) /\ thread[t].steps = <<>>
          BY <3>2, <4>1 DEF PowersInv, finish
        <5>2. Range(thread[t].steps) = {} /\ \A k : ~ToWrite(t, k)
          BY <5>1, NothingInSeq DEF ToWrite
        <5>3. /\ store[Temp(x)].status = StatusFor(Request(t).value)
              /\ store[Switch(a)].value = Request(t).value
          BY <4>1, <5>1, <5>2 DEF PowerInv
        <5> QED
          BY <5>3 DEF Agrees, StatusFor
      <4> QED
        BY <2>2, <2>3, <3>1, <4>1
    <3> QED
      BY <2>4, <3>1, <3>2
  <2>6. CASE CoupledWrite(t)
    <3>1. t \in Writers /\ Owns(t) /\ Doing(t, "write") /\ ~finish(t)
      BY <1>7, <2>6, CoupledStore
    <3>2. CASE Powering(t)
      <4> DEFINE b == Request(t).area
      <4>1. CASE a = b
        BY <2>3, <3>1, <3>2, <4>1
      <4>2. CASE a # b
        <5>1. Now(t).key = Switch(b) \/ \E y \in TempAreas : y \subseteq b /\ Now(t).key = Temp(y)
          BY <2>6, <3>1, <3>2, PowerGoes DEF PowersInv
        <5>2. b \in PowerAreas
          BY <1>3, <3>2, PowerArea
        <5>3. ~(x \subseteq b)
          <6>1. \A y \in TempAreas : \A c, d \in PowerAreas : y \subseteq c \cap d => c = d
            BY AreasKnown
          <6>2. x \subseteq b => x \subseteq a \cap b
            OBVIOUS
          <6> QED
            BY <4>2, <5>2, <6>1, <6>2
        <5> HIDE DEF b
        <5>4. Now(t).key # Switch(a) /\ Now(t).key # Temp(x)
          BY <4>2, <5>1, <5>3, HvacKeys
        <5> QED
          BY <1>2, <2>1, <2>4, <3>1, <5>4, AgreesKept
      <4> QED
        BY <4>1, <4>2
    <3>3. CASE Setting(t, "HVAC_POWER_ON") /\ ~Powering(t)
      <4>1. \A s \in Range(thread[t].steps) : s.do = "fail"
        BY <3>1, <3>3 DEF RefusedInv
      <4>2. IsSeq(thread[t].steps) /\ thread[t].steps # <<>> /\ Head(thread[t].steps).do = "write"
        BY <1>1, <3>1 DEF WorkInv, ThreadsInv, Fits, FitSteps, Doing
      <4> QED
        BY <4>1, <4>2, HeadTail
    <3>4. CASE Syncing(t)
      <4>1. /\ Now(t).key[1] # "HVAC_POWER_ON"
            /\ Now(t).key[1] = "HVAC_TEMPERATURE_SET" =>
                  store'[Now(t).key].status = store[Now(t).key].status
        BY <2>6, <3>1, <3>4, SyncGoes DEF SyncsInv
      <4>2. store'[Switch(a)] = store[Switch(a)] /\ store'[Temp(x)].status = store[Temp(x)].status
        BY <1>2, <2>1, <4>1, HvacKeys
      <4> QED
        BY <2>4, <3>1, <4>2 DEF Agrees
    <3>5. CASE ~Syncing(t) /\ ~Setting(t, "HVAC_POWER_ON")
      <4>1. Request(t).prop \notin hvacProps
        BY <3>1, <3>5 DEF Syncing, Setting, Owns, hvacProps
      <4>2. Now(t).key[1] \notin hvacProps
        BY <3>1, <4>1, OthersWrite
      <4>3. Now(t).key # Switch(a) /\ Now(t).key # Temp(x)
        BY <4>2, HvacKeys
      <4> QED
        BY <1>2, <2>1, <2>4, <3>1, <4>3, AgreesKept
    <3> QED
      BY <3>2, <3>3, <3>4, <3>5
  <2> QED
    BY <2>5, <2>6
<1>10. PowersInv' /\ RefusedInv' /\ SyncsInv'
  BY <1>8 DEF PowersInv, RefusedInv, SyncsInv
<1> QED
  BY <1>9, <1>10

LEMMA HvacStep ==
    ASSUME "status" \notin DOMAIN NoValue, WorkInv, HvacInv, [Next]_vars
    PROVE  HvacInv'
<1>1. TempsThere'
  BY TempsStep DEF HvacInv
<1>2. SUFFICES ASSUME ~overlapped'
               PROVE  PowersInv' /\ RefusedInv' /\ SyncsInv' /\ AgreesInv'
  BY <1>1 DEF HvacInv
<1>3. CASE Quiet
  <2>1. Kept /\ ~overlapped /\ UNCHANGED <<thread, store>>
    BY <1>2, <1>3 DEF Quiet
  <2>2. PowersInv /\ RefusedInv /\ SyncsInv /\ AgreesInv
    BY <2>1 DEF HvacInv
  <2>3. \A u \in Writers :
        /\ Powering(u)' => PowerInv(u)'
        /\ Setting(u, "HVAC_POWER_ON")' /\ ~Powering(u)' =>
              \A s \in Range(thread'[u].steps) : s.do = "fail"
        /\ Syncing(u)' => SyncInv(u)'
        /\ Powering(u)' = Powering(u) /\ (Powering(u) => Request(u)' = Request(u))
    BY <2>1, <2>2, HvacKept
  <2>4. \A a \in PowerAreas, x \in TempAreas : Agrees(a, x)' = Agrees(a, x)
    BY <2>1, AgreesKept
  <2>5. AgreesInv'
    BY <2>2, <2>3, <2>4 DEF AgreesInv
  <2> QED
    BY <2>3, <2>5 DEF PowersInv, RefusedInv, SyncsInv
<1>4. CASE \E t \in Threads : \E r, id, ts : Begins(t, r, id, ts)
  <2>0. PICK t \in Threads : \E r, id, ts : Begins(t, r, id, ts)
    BY <1>4
  <2>1. PICK r, id, ts : Begins(t, r, id, ts)
    BY <2>0
  <2>2. ~overlapped
    BY <1>2, <2>1 DEF Begins
  <2> QED
    BY <2>1, <2>2, HvacStart DEF HvacInv
<1>5. CASE Kept /\ \E t \in Threads : Run(t)
  <2>1. PICK t \in Threads : Run(t)
    BY <1>5
  <2>2. ~overlapped
    BY <1>2, <1>5, <2>1, RunKeeps
  <2> QED
    BY <1>5, <2>1, <2>2, HvacRun DEF HvacInv
<1> QED
  BY <1>3, <1>4, <1>5, NextCases DEF WorkInv

LEMMA HvacInit ==
    ASSUME "status" \notin DOMAIN NoValue, Init
    PROVE  HvacInv
<1>1. \A t \in Writers : ~Busy(t)
  <2>1. thread = [t \in Threads |-> Idle] /\ Idle.id = 0 /\ Writers \subseteq Threads
    BY DEF Init, Idle, Writers, Threads, Handlers
  <2> QED
    BY <2>1 DEF Busy
<1>2. \A k \in Keys : store[k] = storePropInitialValue(k)
  BY DEF Init
<1>3. "HVAC_POWER_ON" \notin Settings /\ "HVAC_TEMPERATURE_SET" \notin Settings
  BY HvacKeys
<1>4. ASSUME NEW x \in TempAreas
      PROVE  store[Temp(x)] = [value |-> 0, status |-> "AVAILABLE", timestamp |-> 0]
  <2> DEFINE k == Temp(x)
  <2>1. k \in Keys /\ k[1] = "HVAC_TEMPERATURE_SET"
    BY HvacKeys, TempKeys
  <2> HIDE DEF k
  <2>2. InitialValue(k) = 0
    BY <1>3, <2>1 DEF InitialValue, Settings
  <2> QED
    BY <1>2, <2>1, <2>2, NoValueKnown DEF storePropInitialValue, k
<1>5. ASSUME NEW a \in PowerAreas PROVE store[Switch(a)].value = 1
  <2> DEFINE k == Switch(a)
  <2>1. k \in Keys /\ k[1] = "HVAC_POWER_ON"
    BY HvacKeys
  <2> HIDE DEF k
  <2>2. InitialValue(k) = 1
    BY <1>3, <2>1 DEF InitialValue, Settings
  <2>3. store[k] = [value |-> 1, status |-> "AVAILABLE", timestamp |-> 0]
    BY <1>2, <2>1, <2>2, NoValueKnown DEF storePropInitialValue
  <2> QED
    BY <2>3 DEF k
<1>6. TempsThere
  <2>1. "status" \in DOMAIN [value |-> 0, status |-> "AVAILABLE", timestamp |-> 0]
    OBVIOUS
  <2> QED
    BY <1>4, <2>1 DEF TempsThere
<1>7. AgreesInv
  BY <1>4, <1>5 DEF AgreesInv, Agrees
<1>8. PowersInv /\ RefusedInv /\ SyncsInv
  BY <1>1 DEF PowersInv, RefusedInv, SyncsInv, Powering, Syncing, Setting
<1> QED
  BY <1>6, <1>7, <1>8 DEF HvacInv

\* Whenever no request is at work and none ran against another, a temperature
\* is available exactly if the switch of its area is on: the set of
\* HVAC_POWER_ON wrote the status of every temperature of its area, from a
\* list that it read before, and then the switch, and setting or coupling
\* temperatures changes no status.
THEOREM HvacCorrect ==
    ASSUME "status" \notin DOMAIN NoValue
    PROVE  Spec => []HvacStatusFollowsPower
<1>1. Init => WorkInv /\ HvacInv
  BY WorkInit, HvacInit
<1>2. WorkInv /\ HvacInv /\ [Next]_vars => WorkInv' /\ HvacInv'
  BY WorkStep, HvacStep
<1>3. HvacInv => HvacStatusFollowsPower
  <2> SUFFICES ASSUME HvacInv, Undisturbed, NEW a \in PowerAreas, NEW k \in Temps(a)
               PROVE  (store[k].status = "AVAILABLE") =
                         (store[<<"HVAC_POWER_ON", a>>].value # 0)
    BY DEF HvacStatusFollowsPower
  <2>1. k \in Keys /\ k[1] = "HVAC_TEMPERATURE_SET" /\ k[2] \subseteq a
    BY DEF Temps, readValuesForProperty
  <2>2. PICK x \in TempAreas : k = Temp(x)
    BY <2>1, TempKeys
  <2>3. x \subseteq a
    BY <2>1, <2>2 DEF Temp
  <2>4. \A u \in Writers : ~Powering(u)
    BY DEF Undisturbed, Powering, Setting, Writers, Threads, Handlers
  <2>5. Agrees(a, x)
    BY <2>3, <2>4 DEF HvacInv, AgreesInv, Undisturbed
  <2> QED
    BY <2>2, <2>5 DEF Agrees, Switch
<1> QED
  BY <1>1, <1>2, <1>3, PTL DEF Spec

----------------------------------------------------------------------------
(* Temperatures that move together.                                        *)

Dual(d) == <<"HVAC_DUAL_ON", d>>
DualOn(d) == store[Dual(d)].value = 1
Powered(x) == store[Temp(x)].status = "AVAILABLE"

\* The seats of area d that have power have one temperature.
CoupledOn(d) ==
    \E v : \A x \in TempAreas :
        x \subseteq d /\ Powered(x) /\ x \notin loose => store[Temp(x)].value = v

TempWrite(s) == s.do = "write" /\ s.key[1] = "HVAC_TEMPERATURE_SET"

\* Thread t has only writes left that couple area d: each seat that has power is
\* still to be written or has the temperature.
Writing(t, d) ==
    /\ \A s \in Range(thread[t].steps) :
          \/ TempWrite(s) /\ s.status # "KEEP" /\ s.key[2] \subseteq d
          \/ s.do = "write" /\ s.key = Dual(d)
    /\ \E v : /\ \A s \in Range(thread[t].steps) : TempWrite(s) => s.value = v
              /\ \A x \in TempAreas : x \subseteq d /\ Powered(x) =>
                    ToWrite(t, Temp(x)) \/ store[Temp(x)].value = v

\* The write of the value of a request itself.
OwnWrites(r) == LET w == Plain(<<r.prop, r.area>>, r.value)
                IN  {w, [w EXCEPT !.locked = FALSE]}

SyncStep(d, temp, onError) == [do |-> "synchronizeHvacTemp", area |-> d, temp |-> temp,
                               onError |-> onError]

\* How far a thread is that sets a temperature or the coupling of an area.
Stage(t) ==
    LET r == Request(t)
        steps == thread[t].steps
        look == Check("hvac", r.prop, r.area)
        bad == Fail("INVALID_ARG")
        synced == Step("getSyncedAreaIdIfHvacDualOn")
    IN  \E w \in OwnWrites(r) :
          \/ steps \in {<<>>, <<bad>>}
          \/ /\ r.prop = "HVAC_TEMPERATURE_SET"
             /\ \/ steps \in {<<look, synced, w>>, <<look, bad>>, <<synced, w>>}
                \/ steps = <<w>> /\ \A d \in DualAreas : r.area \subseteq d => ~DualOn(d)
                \/ \E d \in DualAreas : steps = <<SyncStep(d, r.value, "fail")>>
          \/ /\ r.prop = "HVAC_DUAL_ON"
             /\ \/ steps = <<SyncStep(r.area, NoValue, "skip"), w>>
                \/ steps = <<w>> /\ r.value # 1
          \/ \E d \in DualAreas : Writing(t, d)

\* A thread that switches power writes the temperatures that are stored.
Sends(t) ==
    \A s \in Range(thread[t].steps) : TempWrite(s) =>
        s.value = store[s.key].value /\ s.mode = "ALWAYS" /\ s.onError = "ignore"

StatusInv == \A x \in TempAreas : store[Temp(x)].status \in {"AVAILABLE", "UNAVAILABLE"}
SendsInv == \A t \in Writers : Powering(t) => Sends(t)
StagesInv == \A t \in Writers : Syncing(t) => Stage(t)
CouplesInv == \A d \in DualAreas : DualOn(d) =>
                 CoupledOn(d) \/ \E t \in Writers : Syncing(t) /\ Writing(t, d)
DualsThere == \A d \in DualAreas : store[Dual(d)] # NoValue

CoupleInv == DualsThere /\ (~overlapped => StatusInv /\ SendsInv /\ StagesInv /\ CouplesInv)

----------------------------------------------------------------------------
\* Who sets an HVAC property is one of the two threads that write.
LEMMA HvacWriter ==
    ASSUME WorkInv, NEW t \in Threads, Syncing(t) \/ Setting(t, "HVAC_POWER_ON")
    PROVE  t \in Writers /\ Owns(t) /\ Busy(t)
<1>1. Busy(t) /\ Request(t).op \in WriteOps /\ Coupled(Request(t).prop)
  BY HvacKeys DEF Syncing, Setting, hvacProps
<1>2. IF t = "dump" THEN Request(t).op \notin Handlers ELSE Request(t).op = t
  BY <1>1 DEF WorkInv, ThreadsInv, Fits
<1> QED
  BY <1>1, <1>2 DEF Owns, Writers, WriteOps, Threads, Handlers

\* The ghost changes with a coupled write, or with the choice of a temperature.
LEMMA LooseMoves ==
    ASSUME WorkInv, ~overlapped, NEW t \in Threads, Run(t), ~synchronizeHvacTemp(t)
    PROVE  /\ ~CoupledWrite(t) => loose' = loose
           /\ CoupledWrite(t) =>
                 loose' = LooseAfter(Now(t), store[Now(t).key], store'[Now(t).key].status)
<1>1. CASE writeValue(t)
  <2> DEFINE s == Now(t)
             k == s.key
             old == store[k]
             ts == IF s.locked THEN clock + 1 ELSE thread[t].stamp
             status == IF s.status # "KEEP" THEN s.status
                       ELSE IF old = NoValue THEN "AVAILABLE" ELSE old.status
             taken == k \in Keys /\ accepts(old, ts)
  <2>1. IF taken THEN loose' = LooseAfter(s, old, status) ELSE loose' = loose
    BY <1>1 DEF writeValue
  <2>2. ASSUME CoupledWrite(t) PROVE taken /\ store'[k].status = status
    <3>1. taken
      BY <2>2, NeverRefused DEF CoupledWrite, WorkInv
    <3> QED
      BY <2>2, <3>1, CoupledStore
  <2>3. ASSUME ~CoupledWrite(t), taken PROVE LooseAfter(s, old, status) = loose
    <3>1. k[1] # "HVAC_TEMPERATURE_SET"
      BY <1>1, <2>3, HvacKeys DEF CoupledWrite
    <3> QED
      BY <3>1 DEF LooseAfter
  <2> HIDE DEF taken, status
  <2> QED
    BY <2>1, <2>2, <2>3
<1>2. CASE ~writeValue(t)
  <2>1. ~CoupledWrite(t)
    BY <1>2 DEF CoupledWrite
  <2>2. loose' = loose
    BY <1>2 DEF Run, check, fail, stamp, sendHvacPropertiesCurrentValues,
       getSyncedAreaIdIfHvacDualOn, read, removeValue, removeValuesForProperty,
       getObd2DtcInfo, setUserHalProp, getUserHalProp, getPowerPropFromExternalService,
       save, restore, finish, readOnly, ghosts
  <2> QED
    BY <2>1, <2>2
<1> QED
  BY <1>1, <1>2

\* Seats stay coupled while none of them changes or gets free.
LEMMA CoupledKept ==
    ASSUME NEW d, CoupledOn(d),
           \A x \in TempAreas : x \subseteq d =>
              /\ store'[Temp(x)].value = store[Temp(x)].value
              /\ Powered(x)' /\ x \notin loose' => Powered(x) /\ x \notin loose
    PROVE  CoupledOn(d)'
BY DEF CoupledOn

LEMMA WritingKept ==
    ASSUME NEW u, NEW d, Writing(u, d), thread'[u].steps = thread[u].steps,
           \A x \in TempAreas : store'[Temp(x)] = store[Temp(x)]
    PROVE  Writing(u, d)'
<1>1. /\ \A x \in TempAreas : Powered(x)' = Powered(x)
      /\ \A k : ToWrite(u, k)' = ToWrite(u, k)
  BY DEF Powered, ToWrite
<1> QED
  BY <1>1 DEF Writing

LEMMA DualKeys ==
    /\ \A d \in DualAreas : Dual(d) \in Keys
    /\ \A d : Dual(d)[1] = "HVAC_DUAL_ON" /\ \A e : Dual(d) = Dual(e) => d = e
    /\ \A d, x : Dual(d) # Temp(x) /\ Dual(d) # Switch(x)
    /\ \A k \in Keys : k[1] = "HVAC_DUAL_ON" => \E d \in DualAreas : k = Dual(d)
    /\ Coupled("HVAC_DUAL_ON")
<1>1. \A d \in DualAreas : Dual(d) \in Keys
  BY DEF Keys, Dual
<1>2. \A d : Dual(d)[1] = "HVAC_DUAL_ON" /\ \A e : Dual(d) = Dual(e) => d = e
  BY DEF Dual
<1>3. \A d, x : Dual(d) # Temp(x) /\ Dual(d) # Switch(x)
  BY DEF Dual, Temp, Switch
<1>4. \A k \in Keys : k[1] = "HVAC_DUAL_ON" => \E d \in DualAreas : k = Dual(d)
  BY AssistsKnown DEF Keys, Dual, OtherProps, hvacProps, UserProps, OneShotProps
<1>5. Coupled("HVAC_DUAL_ON")
  BY DEF Coupled, hvacProps
<1> QED
  BY <1>1, <1>2, <1>3, <1>4, <1>5

\* A seat belongs to one coupling.
LEMMA OneDual ==
    ASSUME NEW x \in TempAreas, NEW d \in DualAreas, NEW e \in DualAreas,
           x \subseteq d, x \subseteq e
    PROVE  d = e
<1>1. x \subseteq d \cap e
  OBVIOUS
<1> QED
  BY <1>1, AreasKnown

\* A thread that has only the writes of a coupling left goes on with them.
LEMMA WritingGoes ==
    ASSUME WorkInv, TempsThere, ~overlapped, Kept, NEW t \in Threads, Run(t), ~finish(t),
           Syncing(t), SyncInv(t), NEW d \in DualAreas, Writing(t, d)
    PROVE  /\ Writing(t, d)' /\ ~synchronizeHvacTemp(t)
           /\ CoupledWrite(t) => \/ Now(t).key = Dual(d)
                                 \/ \E x \in TempAreas : x \subseteq d /\ Now(t).key = Temp(x)
<1> DEFINE steps == thread[t].steps
           s == Now(t)
<1>1. /\ Busy(t) /\ steps # <<>>
      /\ s.do = "write" => stamp(t) \/ writeValue(t)
  BY DoesNext
<1>2. /\ ThreadsInv /\ IsSeq(steps) /\ DOMAIN thread = Threads /\ DOMAIN thread[t] = Fields
  BY <1>1 DEF WorkInv, ThreadsInv, Fits, FitSteps
<1>3. s \in Range(steps) /\ Range(steps) = {s} \cup Range(Tail(steps))
  BY <1>1, <1>2, HeadTail DEF Now
<1>4. PICK v : /\ \A z \in Range(steps) : TempWrite(z) => z.value = v
               /\ \A x \in TempAreas : x \subseteq d /\ Powered(x) =>
                     ToWrite(t, Temp(x)) \/ store[Temp(x)].value = v
  BY DEF Writing
<1>5. \A z \in Range(steps) :
         \/ TempWrite(z) /\ z.status # "KEEP" /\ z.key[2] \subseteq d
         \/ z.do = "write" /\ z.key = Dual(d)
  BY DEF Writing
<1>6. \A z \in Range(steps) : TempWrite(z) /\ z.status # "KEEP" =>
         z.key \in Keys /\ z.status = "AVAILABLE"
  BY DEF SyncInv, TempWrite
<1>7. \A k \in Keys : Coupled(k[1]) => store'[k] = store[k] \/ (CoupledWrite(t) /\ k = s.key)
  BY CoupledStore
<1>8. \A x \in TempAreas : Temp(x) \in Keys /\ Coupled(Temp(x)[1])
  BY HvacKeys, TempKeys
<1> HIDE DEF s, steps
<1>9. s.do = "write" /\ s.key \in Keys /\ Coupled(s.key[1])
  BY <1>3, <1>5, <1>6, DualKeys, HvacKeys DEF TempWrite
<1>10. \/ s.key = Dual(d)
       \/ \E x \in TempAreas : x \subseteq d /\ s.key = Temp(x)
  <2>1. CASE TempWrite(s) /\ s.key[2] \subseteq d
    <3>1. PICK x \in TempAreas : s.key = Temp(x)
      BY <1>9, <2>1, TempKeys DEF TempWrite
    <3> QED
      BY <2>1, <3>1 DEF Temp
  <2> QED
    BY <1>3, <1>5, <2>1
<1>11. ~synchronizeHvacTemp(t)
  BY <1>9 DEF synchronizeHvacTemp, Doing, Now, s
<1>12. Writing(t, d)'
  <2>1. CASE stamp(t)
    <3>1. thread'[t].steps = steps
      BY <1>2, <2>1 DEF stamp, steps, Fields
    <3>2. ~CoupledWrite(t)
      BY <2>1 DEF stamp, CoupledWrite, writeValue
    <3>3. \A x \in TempAreas : store'[Temp(x)] = store[Temp(x)]
      BY <1>7, <1>8, <3>2
    <3> QED
      BY <3>1, <3>3, WritingKept DEF steps
  <2>2. CASE writeValue(t)
    <3>1. CoupledWrite(t)
      BY <1>9, <2>2 DEF CoupledWrite, s
    <3>2. thread'[t].steps = Tail(steps) /\ store'[s.key].value = s.value
      BY <3>1, CoupledStore DEF Moved, s, steps
    <3>3. \A z \in Range(thread'[t].steps) : z \in Range(steps)
      BY <1>3, <3>2
    <3>4. ASSUME NEW x \in TempAreas, x \subseteq d, Powered(x)'
          PROVE  ToWrite(t, Temp(x))' \/ store'[Temp(x)].value = v
      <4>1. CASE Temp(x) = s.key
        <5>1. TempWrite(s)
          BY <1>9, <4>1, HvacKeys DEF TempWrite
        <5> QED
          BY <1>3, <1>4, <3>2, <4>1, <5>1
      <4>2. CASE Temp(x) # s.key
        <5>1. store'[Temp(x)] = store[Temp(x)]
          BY <1>7, <1>8, <4>2
        <5>2. ToWrite(t, Temp(x)) => ToWrite(t, Temp(x))'
          <6>1. \A z \in Range(steps) : z.key = Temp(x) => z \in Range(thread'[t].steps)
            BY <1>3, <3>2, <4>2
          <6> QED
            BY <6>1 DEF ToWrite, steps
        <5> QED
          BY <1>4, <3>4, <5>1, <5>2 DEF Powered
      <4> QED
        BY <4>1, <4>2
    <3>5. \A z \in Range(thread'[t].steps) :
             /\ \/ TempWrite(z) /\ z.status # "KEEP" /\ z.key[2] \subseteq d
                \/ z.do = "write" /\ z.key = Dual(d)
             /\ TempWrite(z) => z.value = v
      BY <1>4, <1>5, <3>3
    <3> QED
      BY <3>4, <3>5 DEF Writing
  <2> QED
    BY <1>1, <1>9, <2>1, <2>2
<1> QED
  BY <1>10, <1>11, <1>12 DEF s

\* The steps that a set of a temperature or of a coupling begins with.
LEMMA StageBegins ==
    ASSUME NEW r, r.op \in WriteOps, r.prop \in {"HVAC_TEMPERATURE_SET", "HVAC_DUAL_ON"}
    PROVE  LET look == Check("hvac", r.prop, r.area)
               bad == Fail("INVALID_ARG")
               synced == Step("getSyncedAreaIdIfHvacDualOn")
           IN  \E w \in OwnWrites(r) :
                 \/ StepsOf(r) = <<bad>>
                 \/ /\ r.prop = "HVAC_TEMPERATURE_SET"
                    /\ StepsOf(r) \in {<<look, synced, w>>, <<look, bad>>}
                 \/ /\ r.prop = "HVAC_DUAL_ON"
                    /\ \/ StepsOf(r) = <<SyncStep(r.area, NoValue, "skip"), w>>
                       \/ StepsOf(r) = <<w>> /\ r.value # 1
<1> DEFINE p == r.prop
           v == r.value
           look == Check("hvac", p, r.area)
           bad == Fail("INVALID_ARG")
           synced == Step("getSyncedAreaIdIfHvacDualOn")
           sync == SyncStep(r.area, NoValue, "skip")
<1>1. PICK w \in OwnWrites(r) : StepsOf(r) = maybeSetSpecialValue(p, r.area, v, w)
  BY DEF StepsOf, WriteOps, OwnWrites
<1>2. p \notin DOMAIN Assists /\ ~isSupported(p)
  BY AssistsKnown DEF OtherProps, hvacProps, isSupported, UserProps, OneShotProps
<1>3. CASE p = "HVAC_TEMPERATURE_SET"
  <2>1. StepsOf(r) = <<look>> \o (IF v = Malformed THEN <<bad>> ELSE <<synced, w>>)
    BY <1>1, <1>2, <1>3 DEF maybeSetSpecialValue
  <2> HIDE DEF look, bad, synced
  <2>2. <<look>> \o <<bad>> = <<look, bad>> /\ <<look>> \o <<synced, w>> = <<look, synced, w>>
    BY Tuples
  <2>3. StepsOf(r) \in {<<look, synced, w>>, <<look, bad>>}
    BY <2>1, <2>2
  <2> QED
    BY <1>3, <2>3 DEF look, bad, synced
<1>4. CASE p = "HVAC_DUAL_ON"
  <2>1. StepsOf(r) = CASE v = Malformed -> <<bad>>
                       [] v = 1 -> <<sync, w>>
                       [] OTHER -> <<w>>
    BY <1>1, <1>2, <1>4 DEF maybeSetSpecialValue, SyncStep
  <2> HIDE DEF bad, sync
  <2>2. \/ StepsOf(r) \in {<<bad>>, <<sync, w>>}
        \/ StepsOf(r) = <<w>> /\ v # 1
    BY <2>1
  <2> QED
    BY <1>4, <2>2 DEF bad, sync
<1> QED
  BY <1>3, <1>4

LEMMA DualsStep ==
    ASSUME "status" \notin DOMAIN NoValue, WorkInv, DualsThere, [Next]_vars
    PROVE  DualsThere'
<1>1. \A d \in DualAreas : Dual(d) \in Keys /\ Dual(d)[1] # "OBD2_FREEZE_FRAME"
  BY DualKeys
<1> QED
  BY <1>1, StaysThere DEF DualsThere

\* An area stays as it is while none of its seats and not its switch is written.
LEMMA AreaLeftAlone ==
    ASSUME WorkInv, ~overlapped, NEW t \in Threads, Run(t), ~synchronizeHvacTemp(t),
           NEW d \in DualAreas,
           CoupledWrite(t) => /\ Now(t).key # Dual(d)
                              /\ \A x \in TempAreas : x \subseteq d => Now(t).key # Temp(x)
    PROVE  DualOn(d)' = DualOn(d) /\ (CoupledOn(d) => CoupledOn(d)')
<1>1. \A k \in Keys : Coupled(k[1]) =>
         store'[k] = store[k] \/ (CoupledWrite(t) /\ k = Now(t).key)
  BY CoupledStore
<1>2. store'[Dual(d)] = store[Dual(d)]
  BY <1>1, DualKeys
<1>3. ASSUME NEW x \in TempAreas, x \subseteq d
      PROVE  store'[Temp(x)] = store[Temp(x)] /\ (x \in loose') = (x \in loose)
  <2>1. Temp(x) \in Keys /\ Coupled(Temp(x)[1]) /\ Temp(x)[2] = x
    BY HvacKeys, TempKeys DEF Temp
  <2>2. store'[Temp(x)] = store[Temp(x)]
    BY <1>1, <1>3, <2>1
  <2>3. CASE CoupledWrite(t)
    <3> DEFINE s == Now(t)
               st == store'[s.key].status
    <3>1. loose' = LooseAfter(s, store[s.key], st) /\ s.key # Temp(x) /\ s.key \in Keys
      BY <1>3, <2>3, LooseMoves DEF CoupledWrite
    <3>2. s.key[1] = "HVAC_TEMPERATURE_SET" => s.key[2] # x
      <4>1. ASSUME s.key[1] = "HVAC_TEMPERATURE_SET" PROVE s.key[2] # x
        <5>1. PICK y \in TempAreas : s.key = Temp(y)
          BY <3>1, <4>1, TempKeys
        <5> QED
          BY <3>1, <5>1 DEF Temp
      <4> QED
        BY <4>1
    <3> HIDE DEF s, st
    <3> QED
      BY <2>2, <3>1, <3>2 DEF LooseAfter
  <2>4. CASE ~CoupledWrite(t)
    BY <2>2, <2>4, LooseMoves
  <2> QED
    BY <2>3, <2>4
<1>4. DualOn(d)' = DualOn(d)
  BY <1>2 DEF DualOn
<1>5. CoupledOn(d) => CoupledOn(d)'
  BY <1>3, CoupledKept DEF Powered
<1> QED
  BY <1>4, <1>5

\* Coupling an area begins: its seats are to be written or have the temperature.
LEMMA SyncCouples ==
    ASSUME WorkInv, TempsThere, ~overlapped, NEW t \in Threads, synchronizeHvacTemp(t),
           NEW d \in DualAreas, Now(t).area = d, IsSeq(Tail(thread[t].steps)),
           \A s \in Range(Tail(thread[t].steps)) : s.do = "write" /\ s.key = Dual(d)
    PROVE  /\ Writing(t, d)'
           /\ \A e \in DualAreas \ {d} :
                 DualOn(e)' = DualOn(e) /\ (CoupledOn(e) => CoupledOn(e)')
<1> DEFINE steps == thread[t].steps
           onError == Now(t).onError
<1>0. UNCHANGED store
  BY DEF synchronizeHvacTemp
<1>1. PICK first, temp : \E S \in SUBSET Seats(d) : SyncsTo(t, d, first, temp, S)
  BY SyncMoves DEF WorkInv
<1>2. PICK S \in SUBSET Seats(d) : SyncsTo(t, d, first, temp, S)
  BY <1>1
<1>3. /\ IsSeq(first) /\ Range(first) = {Forced(k, temp, onError) : k \in S}
      /\ thread'[t].steps = first \o Tail(steps)
      /\ \A k \in Seats(d) \ S : store[k].value = temp
      /\ \A x : (x \in loose') = (x \in loose) \/ \E k \in Seats(d) : k[2] = x
  BY <1>2 DEF SyncsTo, Moved
<1>4. Range(thread'[t].steps) = Range(first) \cup Range(Tail(steps))
  BY <1>3, Joined
<1>5. \A k : LET x == Forced(k, temp, onError)
             IN  /\ x.do = "write" /\ x.key = k /\ x.status # "KEEP" /\ x.value = temp
  BY DEF Forced, Write
<1>6. \A k \in Seats(d) : k[1] = "HVAC_TEMPERATURE_SET" /\ k[2] \subseteq d /\ k \in Keys
  BY DEF Seats
<1>7. \A s \in Range(first) : TempWrite(s) /\ s.status # "KEEP" /\ s.key[2] \subseteq d
                              /\ s.value = temp
  BY <1>3, <1>5, <1>6 DEF TempWrite
<1>8. \A s \in Range(Tail(steps)) : ~TempWrite(s)
  BY DualKeys DEF TempWrite
<1>9. ASSUME NEW x \in TempAreas, x \subseteq d, Powered(x)'
      PROVE  ToWrite(t, Temp(x))' \/ store'[Temp(x)].value = temp
  <2>1. Temp(x) \in Seats(d)
    BY <1>0, <1>9, TempKeys, HvacKeys DEF Seats, Powered, Temp, TempsThere
  <2>2. CASE Temp(x) \in S
    <3>1. \E s \in Range(thread'[t].steps) : s.do = "write" /\ s.key = Temp(x)
      BY <1>3, <1>4, <1>5, <2>2
    <3> QED
      BY <3>1 DEF ToWrite
  <2> QED
    BY <1>0, <1>3, <2>1, <2>2
<1>10. Writing(t, d)'
  <2>1. \A s \in Range(thread'[t].steps) :
           /\ \/ TempWrite(s) /\ s.status # "KEEP" /\ s.key[2] \subseteq d
              \/ s.do = "write" /\ s.key = Dual(d)
           /\ TempWrite(s) => s.value = temp
    BY <1>4, <1>7, <1>8
  <2> QED
    BY <1>9, <2>1 DEF Writing
<1>11. ASSUME NEW e \in DualAreas \ {d}
       PROVE  DualOn(e)' = DualOn(e) /\ (CoupledOn(e) => CoupledOn(e)')
  <2>1. DualOn(e)' = DualOn(e)
    BY <1>0 DEF DualOn
  <2>2. ASSUME NEW x \in TempAreas, x \subseteq e PROVE (x \in loose') = (x \in loose)
    <3>1. ASSUME NEW k \in Seats(d), k[2] = x PROVE FALSE
      BY <1>6, <2>2, <3>1, OneDual
    <3> QED
      BY <1>3, <3>1
  <2>3. CoupledOn(e) => CoupledOn(e)'
    BY <1>0, <2>2, CoupledKept DEF Powered
  <2> QED
    BY <2>1, <2>3
<1> QED
  BY <1>10, <1>11

\* Where area d is coupled, its seats are or thread t is at it.
Held(t, d) == DualOn(d) => CoupledOn(d) \/ Writing(t, d)

\* The fields of the write of the value itself.
LEMMA OwnWrite ==
    ASSUME NEW r, NEW w \in OwnWrites(r)
    PROVE  /\ w.do = "write" /\ w.key = <<r.prop, r.area>> /\ w.status = "KEEP"
           /\ w.value = r.value /\ w.onError = "fail"
<1> DEFINE plain == Plain(<<r.prop, r.area>>, r.value)
<1>1. /\ plain.do = "write" /\ plain.key = <<r.prop, r.area>> /\ plain.value = r.value
      /\ plain.status = "KEEP" /\ plain.onError = "fail"
      /\ DOMAIN plain = {"do", "key", "value", "status", "mode", "locked", "onError"}
  BY DEF Plain, Write
<1>2. w \in {plain, [plain EXCEPT !.locked = FALSE]}
  BY DEF OwnWrites
<1> HIDE DEF plain
<1> QED
  BY <1>1, <1>2

\* The area of a coupling that is set is one of its areas.
LEMMA DualArea ==
    ASSUME WorkInv, NEW t \in Threads, Setting(t, "HVAC_DUAL_ON")
    PROVE  Request(t).area \in DualAreas
<1>1. thread[t].id \in 1 .. Len(asked)
  BY DEF WorkInv, ThreadsInv, Fits, Setting
<1>2. Known(Request(t))
  BY <1>1 DEF WorkInv, PlaceInv, AskedType, Request
<1> QED
  BY <1>2 DEF Known, Setting, WriteOps

\* The stages one by one: only the writes of a coupling are left.
LEMMA StageWrites ==
    ASSUME WorkInv, TempsThere, ~overlapped, Kept, NEW t \in Threads, Run(t), ~finish(t),
           Syncing(t), SyncInv(t), NEW d \in DualAreas, Writing(t, d),
           NEW e \in DualAreas, Held(t, e)
    PROVE  Writing(t, d)' /\ Held(t, e)'
<1>1. /\ Writing(t, d)' /\ ~synchronizeHvacTemp(t)
      /\ CoupledWrite(t) => \/ Now(t).key = Dual(d)
                            \/ \E x \in TempAreas : x \subseteq d /\ Now(t).key = Temp(x)
  BY WritingGoes
<1>2. CASE Writing(t, e)
  <2>1. Writing(t, e)'
    BY <1>2, WritingGoes
  <2> QED
    BY <1>1, <2>1 DEF Held
<1>3. CASE ~Writing(t, e)
  <2>1. e # d
    BY <1>3
  <2>2. CoupledWrite(t) => /\ Now(t).key # Dual(e)
                           /\ \A x \in TempAreas : x \subseteq e => Now(t).key # Temp(x)
    BY <1>1, <2>1, OneDual, DualKeys, HvacKeys
  <2>3. DualOn(e)' = DualOn(e) /\ (CoupledOn(e) => CoupledOn(e)')
    BY <1>1, <2>2, AreaLeftAlone
  <2> QED
    BY <1>1, <1>3, <2>3 DEF Held
<1> QED
  BY <1>2, <1>3

\* The coupling of an area begins.
LEMMA StageSyncs ==
    ASSUME WorkInv, TempsThere, ~overlapped, NEW t \in Threads, Run(t), ~finish(t),
           NEW d \in DualAreas, NEW temp, NEW onError,
           \/ thread[t].steps = <<SyncStep(d, temp, onError)>>
           \/ \E w : /\ w.do = "write" /\ w.key = Dual(d)
                     /\ thread[t].steps = <<SyncStep(d, temp, onError), w>>,
           NEW e \in DualAreas, Held(t, e)
    PROVE  Writing(t, d)' /\ Held(t, e)'
<1> DEFINE steps == thread[t].steps
           sync == SyncStep(d, temp, onError)
<1>1. sync.do = "synchronizeHvacTemp" /\ sync.area = d
  BY DEF SyncStep
<1> HIDE DEF sync
<1>2. /\ Head(steps) = sync /\ IsSeq(Tail(steps)) /\ sync \in Range(steps)
      /\ \A s \in Range(Tail(steps)) : s.do = "write" /\ s.key = Dual(d)
  <2>1. CASE steps = <<sync>>
    BY <2>1, Tuples, NothingInSeq, OneSeq
  <2>2. CASE \E w : w.do = "write" /\ w.key = Dual(d) /\ steps = <<sync, w>>
    <3>1. PICK w : w.do = "write" /\ w.key = Dual(d) /\ steps = <<sync, w>>
      BY <2>2
    <3> HIDE DEF steps
    <3>2. Head(steps) = sync /\ Tail(steps) = <<w>> /\ Range(steps) = {sync, w}
      BY <3>1, Tuples, TwoSeq
    <3>3. IsSeq(<<w>>) /\ Range(<<w>>) = {w}
      BY OneSeq
    <3> QED
      BY <3>1, <3>2, <3>3
  <2> QED
    BY <2>1, <2>2 DEF sync
<1>3. synchronizeHvacTemp(t) /\ Now(t).area = d
  BY <1>1, <1>2, DoesNext DEF Now
<1>4. /\ Writing(t, d)'
      /\ \A f \in DualAreas \ {d} :
            DualOn(f)' = DualOn(f) /\ (CoupledOn(f) => CoupledOn(f)')
  BY <1>2, <1>3, SyncCouples
<1>5. ~Writing(t, e)
  BY <1>1, <1>2 DEF Writing, TempWrite
<1> QED
  BY <1>4, <1>5 DEF Held

\* Something is looked at before the value is written.
LEMMA StageLooks ==
    ASSUME WorkInv, DualsThere, ~overlapped, Kept, NEW t \in Threads, Run(t), ~finish(t),
           NEW w \in OwnWrites(Request(t)),
           LET look == Check("hvac", Request(t).prop, Request(t).area)
               bad == Fail("INVALID_ARG")
               synced == Step("getSyncedAreaIdIfHvacDualOn")
           IN  \/ thread[t].steps = <<bad>>
               \/ /\ Request(t).prop = "HVAC_TEMPERATURE_SET"
                  /\ thread[t].steps \in {<<look, synced, w>>, <<look, bad>>, <<synced, w>>}
    PROVE  Stage(t)' /\ \A e \in DualAreas : Held(t, e) => Held(t, e)'
<1> DEFINE steps == thread[t].steps
           r == Request(t)
           look == Check("hvac", r.prop, r.area)
           bad == Fail("INVALID_ARG")
           synced == Step("getSyncedAreaIdIfHvacDualOn")
           Goes(next) ==
              \/ next \in {<<>>, <<bad>>}
              \/ /\ r.prop = "HVAC_TEMPERATURE_SET"
                 /\ \/ next = <<synced, w>>
                    \/ next = <<w>> /\ \A d \in DualAreas : r.area \subseteq d => ~DualOn(d)
                    \/ \E d \in DualAreas : next = <<SyncStep(d, r.value, "fail")>>
<1>1. /\ look.do = "check" /\ bad.do = "fail"
      /\ synced.do = "getSyncedAreaIdIfHvacDualOn"
  BY DEF Check, Fail, Step
<1>2. /\ DOMAIN thread = Threads /\ DOMAIN thread[t] = Fields /\ Request(t)' = r
      /\ steps # <<>> /\ IsSeq(steps)
  BY DoesNext, RunKeeps DEF WorkInv, ThreadsInv, Fits, FitSteps
<1>3. /\ Now(t).do = "check" => check(t)
      /\ Now(t).do = "fail" => fail(t)
      /\ Now(t).do = "getSyncedAreaIdIfHvacDualOn" => getSyncedAreaIdIfHvacDualOn(t)
  BY DoesNext
<1> HIDE DEF look, bad, synced
<1>4. \/ steps = <<bad>>
      \/ /\ r.prop = "HVAC_TEMPERATURE_SET"
         /\ steps \in {<<look, synced, w>>, <<look, bad>>, <<synced, w>>}
  BY DEF look, bad, synced
<1>5. /\ steps = <<bad>> => Now(t) = bad
      /\ steps \in {<<look, synced, w>>, <<look, bad>>} => Now(t) = look
      /\ steps = <<synced, w>> => Now(t) = synced /\ Tail(steps) = <<w>>
      /\ steps = <<look, synced, w>> => Tail(steps) = <<synced, w>>
      /\ steps = <<look, bad>> => Tail(steps) = <<bad>>
  <2>1. Now(t) = Head(steps)
    BY DEF Now
  <2> HIDE DEF steps
  <2>2. ASSUME steps = <<bad>> PROVE Head(steps) = bad
    BY <2>2
  <2>3. ASSUME steps = <<synced, w>> PROVE Head(steps) = synced /\ Tail(steps) = <<w>>
    BY <2>3
  <2>4. ASSUME steps = <<look, synced, w>>
        PROVE  Head(steps) = look /\ Tail(steps) = <<synced, w>>
    BY <2>4
  <2>5. ASSUME steps = <<look, bad>> PROVE Head(steps) = look /\ Tail(steps) = <<bad>>
    BY <2>5
  <2> QED
    BY <2>1, <2>2, <2>3, <2>4, <2>5
<1>6. Now(t).do # "write" /\ Now(t).do # "synchronizeHvacTemp"
  BY <1>1, <1>4, <1>5
<1>7. ~CoupledWrite(t) /\ ~synchronizeHvacTemp(t)
  BY <1>6 DEF CoupledWrite, writeValue, synchronizeHvacTemp, Doing, Now
<1>8. \A d \in DualAreas : DualOn(d)' = DualOn(d) /\ (CoupledOn(d) => CoupledOn(d)')
  BY <1>7, AreaLeftAlone
<1>9. \A d : ~Writing(t, d)
  <2>1. Now(t) \in Range(steps)
    BY <1>2, HeadTail DEF Now
  <2> QED
    BY <1>6, <2>1 DEF Writing, TempWrite
<1>10. \A d \in DualAreas : Held(t, d) => Held(t, d)'
  BY <1>8, <1>9 DEF Held
<1>11. \A first : thread' = Continue(t, first) => thread'[t].steps = first \o Tail(steps)
  BY <1>2, Moves DEF Moved
<1>12. \A status : thread' = Failed(t, status) => thread'[t].steps = <<>>
  BY <1>2, Moves DEF Moved
<1>13. Goes(thread'[t].steps)
  <2>1. CASE steps = <<bad>>
    BY <1>1, <1>3, <1>5, <1>12, <2>1 DEF fail
  <2>2. CASE r.prop = "HVAC_TEMPERATURE_SET" /\ steps \in {<<look, synced, w>>, <<look, bad>>}
    <3>1. check(t)
      BY <1>1, <1>3, <1>5, <2>2
    <3>2. thread' = Continue(t, <<>>) \/ \E status : thread' = Failed(t, status)
      BY <3>1 DEF check
    <3>3. Tail(steps) \in {<<synced, w>>, <<bad>>}
      BY <1>5, <2>2
    <3>4. thread'[t].steps = <<>> \/ thread'[t].steps = Tail(steps)
      <4>1. <<>> \o <<synced, w>> = <<synced, w>> /\ <<>> \o <<bad>> = <<bad>>
        BY Tuples
      <4> QED
        BY <1>11, <1>12, <3>2, <3>3, <4>1
    <3> QED
      BY <2>2, <3>3, <3>4
  <2>3. CASE r.prop = "HVAC_TEMPERATURE_SET" /\ steps = <<synced, w>>
    <3>1. getSyncedAreaIdIfHvacDualOn(t)
      BY <1>1, <1>3, <1>5, <2>3
    <3> DEFINE dual == {k \in readValuesForProperty("HVAC_DUAL_ON") :
                          r.area \subseteq k[2] /\ store[k].value = 1}
    <3>2. \/ dual = {} /\ thread' = Continue(t, <<>>)
          \/ \E k \in dual : thread' = [thread EXCEPT ![t].steps =
                                          <<SyncStep(k[2], r.value, "fail")>>]
      BY <3>1, Zenon DEF getSyncedAreaIdIfHvacDualOn, SyncStep
    <3>3. CASE dual = {} /\ thread' = Continue(t, <<>>)
      <4>1. thread'[t].steps = <<w>>
        <5>1. thread'[t].steps = <<>> \o <<w>>
          BY <1>5, <1>11, <2>3, <3>3
        <5> QED
          BY <5>1, Tuples
      <4>2. ASSUME NEW d \in DualAreas, r.area \subseteq d, DualOn(d) PROVE FALSE
        <5>1. Dual(d) \in Keys /\ Dual(d)[1] = "HVAC_DUAL_ON" /\ Dual(d)[2] = d
          BY DualKeys DEF Dual
        <5>2. Dual(d) \in dual
          BY <4>2, <5>1 DEF readValuesForProperty, DualsThere, DualOn
        <5> QED
          BY <3>3, <5>2
      <4> QED
        BY <2>3, <4>1, <4>2
    <3>4. CASE \E k \in dual : thread' = [thread EXCEPT ![t].steps =
                                            <<SyncStep(k[2], r.value, "fail")>>]
      <4>1. PICK k \in dual : thread' = [thread EXCEPT ![t].steps =
                                            <<SyncStep(k[2], r.value, "fail")>>]
        BY <3>4
      <4>2. PICK d \in DualAreas : k = Dual(d)
        BY DualKeys DEF readValuesForProperty
      <4>3. thread'[t].steps = <<SyncStep(d, r.value, "fail")>>
        BY <1>2, <4>1, <4>2, Moves DEF Moved, Dual
      <4> QED
        BY <2>3, <4>3
    <3> QED
      BY <3>2, <3>3, <3>4
  <2> QED
    BY <1>4, <2>1, <2>2, <2>3
<1> HIDE DEF r
<1>14. Stage(t)'
  <2> DEFINE next == thread'[t].steps
  <2>1. \/ next \in {<<>>, <<bad>>}
        \/ /\ r.prop = "HVAC_TEMPERATURE_SET"
           /\ \/ next = <<synced, w>>
              \/ next = <<w>> /\ \A d \in DualAreas : r.area \subseteq d => ~DualOn(d)'
              \/ \E d \in DualAreas : next = <<SyncStep(d, r.value, "fail")>>
    BY <1>8, <1>13
  <2>2. w \in OwnWrites(r)
    BY DEF r
  <2> QED
    BY <1>2, <2>1, <2>2 DEF Stage, bad, synced, r
<1> QED
  BY <1>10, <1>14

\* The value itself is written: a temperature that is not coupled, or the end of
\* a coupling.
LEMMA StagePlain ==
    ASSUME WorkInv, ~overlapped, Kept, NEW t \in Threads, Run(t), ~finish(t), Syncing(t),
           NEW w \in OwnWrites(Request(t)), thread[t].steps = <<w>>,
           \/ /\ Request(t).prop = "HVAC_TEMPERATURE_SET"
              /\ \A d \in DualAreas : Request(t).area \subseteq d => ~DualOn(d)
           \/ Request(t).prop = "HVAC_DUAL_ON" /\ Request(t).value # 1,
           \A e \in DualAreas : DualOn(e) => CoupledOn(e)
    PROVE  Stage(t)' /\ \A e \in DualAreas : Held(t, e)'
<1> DEFINE r == Request(t)
<1>1. /\ w.do = "write" /\ w.key = <<r.prop, r.area>> /\ w.value = r.value
      /\ w.onError = "fail"
  BY OwnWrite
<1>2. /\ DOMAIN thread = Threads /\ DOMAIN thread[t] = Fields /\ Request(t)' = r
      /\ DOMAIN store = Keys
  BY DoesNext, RunKeeps DEF WorkInv, ThreadsInv, Fits, ClockInv
<1>3. Now(t) = w /\ Tail(thread[t].steps) = <<>>
  BY Tuples DEF Now
<1>4. (stamp(t) \/ writeValue(t)) /\ ~synchronizeHvacTemp(t)
  BY <1>1, <1>3, DoesNext DEF synchronizeHvacTemp, Doing, Now
<1>5. ASSUME r.prop = "HVAC_DUAL_ON" PROVE r.area \in DualAreas /\ w.key = Dual(r.area)
  BY <1>1, <1>5, DualArea DEF Setting, Syncing, Dual
<1>6. ASSUME r.prop = "HVAC_TEMPERATURE_SET" PROVE w.key = Temp(r.area)
  BY <1>1, <1>6 DEF Temp
<1> HIDE DEF r
<1>7. CASE stamp(t)
  <2>1. ~CoupledWrite(t)
    BY <1>7 DEF stamp, CoupledWrite, writeValue
  <2>2. \A d \in DualAreas : DualOn(d)' = DualOn(d) /\ (CoupledOn(d) => CoupledOn(d)')
    BY <1>4, <2>1, AreaLeftAlone
  <2>3. thread'[t].steps = <<w>>
    BY <1>2, <1>7 DEF stamp, Fields
  <2>4. \A e \in DualAreas : Held(t, e)'
    BY <2>2 DEF Held
  <2>5. \/ /\ r.prop = "HVAC_TEMPERATURE_SET"
           /\ \A d \in DualAreas : r.area \subseteq d => ~DualOn(d)'
        \/ r.prop = "HVAC_DUAL_ON" /\ r.value # 1
    BY <2>2 DEF r
  <2>6. w \in OwnWrites(r)
    BY DEF r
  <2>7. Stage(t)'
    BY <1>2, <2>3, <2>5, <2>6 DEF Stage
  <2> QED
    BY <2>4, <2>7
<1>8. CASE writeValue(t)
  <2>1. thread'[t].steps = <<>>
    <3>1. Moved(t, <<>>)
      BY <1>1, <1>2, <1>3, <1>8, WriteMoves
    <3> QED
      BY <3>1 DEF Moved
  <2>2. Stage(t)'
    <3>1. w \in OwnWrites(Request(t)')
      BY <1>2 DEF r
    <3> QED
      BY <2>1, <3>1 DEF Stage
  <2>3. ASSUME NEW e \in DualAreas PROVE Held(t, e)'
    <3>1. CASE CoupledWrite(t) /\ r.prop = "HVAC_DUAL_ON" /\ e = r.area
      <4>1. store'[Dual(e)].value = r.value
        BY <1>1, <1>3, <1>5, <3>1, CoupledStore
      <4> QED
        BY <3>1, <4>1 DEF Held, DualOn, r
    <3>2. CASE CoupledWrite(t) /\ r.prop = "HVAC_TEMPERATURE_SET" /\ r.area \subseteq e
      <4>1. ~DualOn(e)
        BY <3>2 DEF r
      <4>2. store'[Dual(e)] = store[Dual(e)]
        BY <1>3, <1>6, <3>2, CoupledStore, DualKeys
      <4> QED
        BY <4>1, <4>2 DEF Held, DualOn
    <3>3. CASE /\ ~(CoupledWrite(t) /\ r.prop = "HVAC_DUAL_ON" /\ e = r.area)
               /\ ~(CoupledWrite(t) /\ r.prop = "HVAC_TEMPERATURE_SET" /\ r.area \subseteq e)
      <4>1. CoupledWrite(t) => /\ w.key # Dual(e)
                               /\ \A x \in TempAreas : x \subseteq e => w.key # Temp(x)
        <5>1. r.prop = "HVAC_DUAL_ON" \/ r.prop = "HVAC_TEMPERATURE_SET"
          BY DEF r
        <5> QED
          BY <1>5, <1>6, <3>3, <5>1, DualKeys, HvacKeys
      <4>2. DualOn(e)' = DualOn(e) /\ (CoupledOn(e) => CoupledOn(e)')
        BY <1>3, <1>4, <4>1, AreaLeftAlone
      <4> QED
        BY <4>2 DEF Held
    <3> QED
      BY <3>1, <3>2, <3>3
  <2> QED
    BY <2>2, <2>3
<1> QED
  BY <1>4, <1>7, <1>8

\* A thread that sets a temperature or a coupling goes on.
LEMMA StageGoes ==
    ASSUME WorkInv, TempsThere, DualsThere, ~overlapped, Kept, NEW t \in Threads, Run(t),
           ~finish(t), Syncing(t), SyncInv(t), Stage(t), \A e \in DualAreas : Held(t, e)
    PROVE  Stage(t)' /\ \A e \in DualAreas : Held(t, e)'
<1> DEFINE r == Request(t)
           steps == thread[t].steps
           look == Check("hvac", r.prop, r.area)
           bad == Fail("INVALID_ARG")
           synced == Step("getSyncedAreaIdIfHvacDualOn")
<1>1. steps # <<>> /\ Request(t)' = r
  BY DoesNext, RunKeeps
<1>2. PICK w \in OwnWrites(r) :
          \/ steps \in {<<>>, <<bad>>}
          \/ /\ r.prop = "HVAC_TEMPERATURE_SET"
             /\ \/ steps \in {<<look, synced, w>>, <<look, bad>>, <<synced, w>>}
                \/ steps = <<w>> /\ \A d \in DualAreas : r.area \subseteq d => ~DualOn(d)
                \/ \E d \in DualAreas : steps = <<SyncStep(d, r.value, "fail")>>
          \/ /\ r.prop = "HVAC_DUAL_ON"
             /\ \/ steps = <<SyncStep(r.area, NoValue, "skip"), w>>
                \/ steps = <<w>> /\ r.value # 1
          \/ \E d \in DualAreas : Writing(t, d)
  BY DEF Stage
<1>3. ASSUME NEW d \in DualAreas, Writing(t, d)' PROVE Stage(t)'
  <2>1. w \in OwnWrites(Request(t)')
    BY <1>1
  <2> QED
    BY <1>3, <2>1 DEF Stage
<1> HIDE DEF look, bad, synced
<1>4. CASE \E d \in DualAreas : Writing(t, d)
  <2>1. PICK d \in DualAreas : Writing(t, d)
    BY <1>4
  <2>2. \A e \in DualAreas : Writing(t, d)' /\ Held(t, e)'
    BY <2>1, StageWrites
  <2> QED
    BY <1>3, <2>2
<1>5. CASE \/ steps = <<bad>>
           \/ /\ r.prop = "HVAC_TEMPERATURE_SET"
              /\ steps \in {<<look, synced, w>>, <<look, bad>>, <<synced, w>>}
  BY <1>5, StageLooks DEF look, bad, synced
<1>6. CASE \E d \in DualAreas : steps = <<SyncStep(d, r.value, "fail")>>
  <2>1. PICK d \in DualAreas : steps = <<SyncStep(d, r.value, "fail")>>
    BY <1>6
  <2>2. \A e \in DualAreas : Writing(t, d)' /\ Held(t, e)'
    BY <2>1, StageSyncs
  <2> QED
    BY <1>3, <2>2
<1>7. CASE r.prop = "HVAC_DUAL_ON" /\ steps = <<SyncStep(r.area, NoValue, "skip"), w>>
  <2>1. PICK d \in DualAreas : d = r.area
    BY <1>7, DualArea DEF Syncing, Setting
  <2>2. w.do = "write" /\ w.key = Dual(d)
    BY <1>7, <2>1, OwnWrite DEF Dual
  <2>3. \E z : /\ z.do = "write" /\ z.key = Dual(d)
               /\ steps = <<SyncStep(d, NoValue, "skip"), z>>
    BY <1>7, <2>1, <2>2
  <2>4. \A e \in DualAreas : Writing(t, d)' /\ Held(t, e)'
    BY <2>3, StageSyncs
  <2> QED
    BY <1>3, <2>4
<1>8. CASE /\ steps = <<w>> /\ ~\E d \in DualAreas : Writing(t, d)
           /\ \/ /\ r.prop = "HVAC_TEMPERATURE_SET"
                 /\ \A d \in DualAreas : r.area \subseteq d => ~DualOn(d)
              \/ r.prop = "HVAC_DUAL_ON" /\ r.value # 1
  BY <1>8, StagePlain DEF Held
<1> QED
  BY <1>1, <1>2, <1>4, <1>5, <1>6, <1>7, <1>8

\* A thread that switches power changes no temperature, and a seat that gets its
\* power back is free.
LEMMA PowerCouples ==
    ASSUME WorkInv, TempsThere, ~overlapped, Kept, NEW t \in Threads, Run(t), ~finish(t),
           Powering(t), PowerInv(t), Sends(t), StatusInv,
           \A d \in DualAreas : DualOn(d) => CoupledOn(d)
    PROVE  /\ Sends(t)' /\ StatusInv'
           /\ \A d \in DualAreas : DualOn(d)' => CoupledOn(d)'
<1> DEFINE steps == thread[t].steps
           s == Now(t)
           a == Request(t).area
           v == Request(t).value
<1>1. /\ Busy(t) /\ steps # <<>>
      /\ s.do = "write" => stamp(t) \/ writeValue(t)
      /\ s.do = "sendHvacPropertiesCurrentValues" => sendHvacPropertiesCurrentValues(t)
  BY DoesNext
<1>2. /\ ThreadsInv /\ IsSeq(steps) /\ a \in PowerAreas
      /\ DOMAIN thread = Threads /\ DOMAIN thread[t] = Fields
  BY <1>1, PowerArea DEF WorkInv, ThreadsInv, Fits, FitSteps, Powering
<1>3. /\ s \in Range(steps) /\ Range(steps) = {s} \cup Range(Tail(steps))
      /\ IsSeq(Tail(steps))
  BY <1>1, <1>2, HeadTail DEF Now
<1>4. \A z \in Range(steps) :
         \/ z.do = "sendHvacPropertiesCurrentValues"
         \/ z.do = "write" /\ z.key = Switch(a)
         \/ /\ z.do = "write" /\ z.status = StatusFor(v)
            /\ \E x \in TempAreas : x \subseteq a /\ z.key = Temp(x)
  BY DEF PowerInv
<1>5. \A z \in Range(steps) : TempWrite(z) =>
         /\ \E x \in TempAreas : z.key = Temp(x)
         /\ z.status = StatusFor(v)
         /\ z.value = store[z.key].value /\ z.mode = "ALWAYS" /\ z.onError = "ignore"
  BY <1>4, HvacKeys DEF Sends, TempWrite
<1>6. \A k \in Keys : Coupled(k[1]) => store'[k] = store[k] \/ (CoupledWrite(t) /\ k = s.key)
  BY CoupledStore
<1>7. \A x \in TempAreas : Temp(x) \in Keys /\ Coupled(Temp(x)[1]) /\ Temp(x)[2] = x
  BY HvacKeys, TempKeys DEF Temp
<1>8. ~synchronizeHvacTemp(t) /\ (s.do # "write" => ~CoupledWrite(t))
  BY <1>3, <1>4 DEF synchronizeHvacTemp, CoupledWrite, writeValue, Doing, Now
<1> HIDE DEF s, steps, a, v
<1>9. ASSUME ~CoupledWrite(t)
      PROVE  /\ \A x \in TempAreas : store'[Temp(x)] = store[Temp(x)]
             /\ StatusInv' /\ \A d \in DualAreas : DualOn(d)' => CoupledOn(d)'
  <2>1. \A x \in TempAreas : store'[Temp(x)] = store[Temp(x)]
    BY <1>6, <1>7, <1>9
  <2>2. \A d \in DualAreas : DualOn(d)' = DualOn(d) /\ (CoupledOn(d) => CoupledOn(d)')
    BY <1>8, <1>9, AreaLeftAlone
  <2> QED
    BY <2>1, <2>2 DEF StatusInv
<1>10. CASE s.do = "sendHvacPropertiesCurrentValues"
  <2> DEFINE send(k) == Write(k, store[k].value, StatusFor(v), "ALWAYS", FALSE, "ignore")
             S == {k \in Keys : /\ k[1] = "HVAC_TEMPERATURE_SET" /\ store[k] # NoValue
                                /\ k[2] \subseteq a}
  <2>1. PICK first : /\ IsSeq(first) /\ Range(first) = {send(k) : k \in S}
                     /\ Moved(t, first \o Tail(steps))
    BY <1>1, <1>2, <1>10, SendMoves DEF a, v, steps
  <2>2. Range(thread'[t].steps) = Range(first) \cup Range(Tail(steps))
    BY <1>3, <2>1, Joined DEF Moved
  <2>3. \A k : /\ send(k).key = k /\ send(k).value = store[k].value
               /\ send(k).mode = "ALWAYS" /\ send(k).onError = "ignore"
    BY DEF Write
  <2>4. \A k \in S : \E x \in TempAreas : k = Temp(x)
    BY TempKeys
  <2> HIDE DEF send, S
  <2>5. \A z \in Range(first) : /\ \E x \in TempAreas : z.key = Temp(x)
                                /\ z.value = store[z.key].value
                                /\ z.mode = "ALWAYS" /\ z.onError = "ignore"
    BY <2>1, <2>3, <2>4
  <2>6. ~CoupledWrite(t)
    BY <1>8, <1>10
  <2>7. \A z \in Range(thread'[t].steps) : TempWrite(z) =>
           /\ \E x \in TempAreas : z.key = Temp(x)
           /\ z.value = store[z.key].value /\ z.mode = "ALWAYS" /\ z.onError = "ignore"
    BY <1>3, <1>5, <2>2, <2>5
  <2>8. Sends(t)'
    BY <1>9, <2>6, <2>7 DEF Sends
  <2> QED
    BY <1>9, <2>6, <2>8
<1>11. CASE stamp(t)
  <2>1. thread'[t].steps = steps
    BY <1>2, <1>11 DEF stamp, steps, Fields
  <2>2. ~CoupledWrite(t)
    BY <1>11 DEF stamp, CoupledWrite, writeValue
  <2>3. Sends(t)'
    BY <1>5, <1>9, <2>1, <2>2 DEF Sends
  <2> QED
    BY <1>9, <2>2, <2>3
<1>12. CASE writeValue(t) /\ s.do = "write"
  <2>1. CoupledWrite(t)
    <3>1. s.key \in Keys /\ Coupled(s.key[1])
      BY <1>2, <1>3, <1>4, <1>7, <1>12, HvacKeys
    <3> QED
      BY <1>12, <3>1 DEF CoupledWrite, s
  <2>2. /\ thread'[t].steps = Tail(steps) /\ store'[s.key].value = s.value
        /\ s.status # "KEEP" => store'[s.key].status = s.status
        /\ loose' = LooseAfter(s, store[s.key], store'[s.key].status)
    BY <1>8, <2>1, CoupledStore, LooseMoves DEF Moved, s, steps
  <2>3. ASSUME NEW x \in TempAreas
        PROVE  /\ store'[Temp(x)].value = store[Temp(x)].value
               /\ store'[Temp(x)].status \in {"AVAILABLE", "UNAVAILABLE"}
               /\ Powered(x)' /\ x \notin loose' => Powered(x) /\ x \notin loose
    <3>1. store[Temp(x)].status \in {"AVAILABLE", "UNAVAILABLE"}
      BY DEF StatusInv
    <3>2. CASE s.key[1] # "HVAC_TEMPERATURE_SET"
      <4>1. store'[Temp(x)] = store[Temp(x)] /\ loose' = loose
        BY <1>6, <1>7, <2>2, <3>2, HvacKeys DEF LooseAfter
      <4> QED
        BY <3>1, <4>1 DEF Powered
    <3>3. CASE s.key[1] = "HVAC_TEMPERATURE_SET"
      <4>1. TempWrite(s)
        BY <1>12, <3>3 DEF TempWrite
      <4>2. PICK y \in TempAreas : s.key = Temp(y)
        BY <1>3, <1>5, <4>1
      <4>3. /\ store'[Temp(y)].value = store[Temp(y)].value
            /\ store'[Temp(y)].status = StatusFor(v)
            /\ loose' = IF /\ store[Temp(y)].status = "UNAVAILABLE"
                           /\ StatusFor(v) = "AVAILABLE"
                        THEN loose \cup {y} ELSE loose
        <5>1. /\ s.value = store[s.key].value /\ s.status = StatusFor(v)
              /\ s.mode = "ALWAYS" /\ s.onError = "ignore" /\ s.status # "KEEP"
          BY <1>3, <1>5, <4>1 DEF StatusFor
        <5> QED
          BY <1>7, <2>2, <3>3, <4>2, <5>1 DEF LooseAfter
      <4>4. StatusFor(v) \in {"AVAILABLE", "UNAVAILABLE"}
        BY DEF StatusFor
      <4>5. CASE x = y
        BY <3>1, <4>3, <4>4, <4>5 DEF Powered
      <4>6. CASE x # y
        <5>1. store'[Temp(x)] = store[Temp(x)]
          BY <1>6, <1>7, <4>2, <4>6, HvacKeys
        <5> QED
          BY <3>1, <4>3, <4>6, <5>1 DEF Powered
      <4> QED
        BY <4>5, <4>6
    <3> QED
      BY <3>2, <3>3
  <2>4. StatusInv'
    BY <2>3 DEF StatusInv
  <2>5. Sends(t)'
    <3>1. \A z \in Range(thread'[t].steps) : z \in Range(steps)
      BY <1>3, <2>2
    <3> QED
      BY <1>5, <2>3, <3>1 DEF Sends
  <2>6. ASSUME NEW d \in DualAreas, DualOn(d)' PROVE CoupledOn(d)'
    <3>1. s.key # Dual(d)
      BY <1>3, <1>4, <1>12, DualKeys
    <3>2. store'[Dual(d)] = store[Dual(d)]
      BY <1>6, <3>1, DualKeys
    <3>3. CoupledOn(d)
      BY <2>6, <3>2 DEF DualOn
    <3> QED
      BY <2>3, <3>3, CoupledKept
  <2> QED
    BY <2>4, <2>5, <2>6
<1> QED
  BY <1>1, <1>3, <1>4, <1>10, <1>11, <1>12

\* Temperatures, couplings and the ghost are left alone.
HvacFrame ==
    /\ \A x \in TempAreas : store'[Temp(x)] = store[Temp(x)]
    /\ \A d \in DualAreas : store'[Dual(d)] = store[Dual(d)]
    /\ loose' = loose

\* They are by a thread that sets none of them.
LEMMA Bystander ==
    ASSUME WorkInv, ~overlapped, RefusedInv, NEW t \in Threads, Run(t),
           finish(t) \/ (~Syncing(t) /\ ~Powering(t))
    PROVE  HvacFrame
<1>1. \A k \in Keys : Coupled(k[1]) =>
         store'[k] = store[k] \/ (CoupledWrite(t) /\ k = Now(t).key)
  BY CoupledStore
<1>2. ASSUME Doing(t, "write") \/ Doing(t, "synchronizeHvacTemp"),
             Request(t).op \in WriteOps
      PROVE  Request(t).prop \notin hvacProps
  <2>1. /\ Busy(t) /\ thread[t].steps # <<>> /\ ~finish(t) /\ IsSeq(thread[t].steps)
        /\ Head(thread[t].steps).do # "fail"
    BY <1>2 DEF Doing, finish, WorkInv, ThreadsInv, Fits, FitSteps
  <2>2. ASSUME Setting(t, "HVAC_POWER_ON") PROVE FALSE
    <3>1. t \in Writers
      BY <2>2, HvacWriter
    <3>2. \A s \in Range(thread[t].steps) : s.do = "fail"
      BY <2>1, <2>2, <3>1 DEF RefusedInv
    <3> QED
      BY <2>1, <3>2, HeadTail
  <2> QED
    BY <1>2, <2>1, <2>2 DEF Syncing, Setting, hvacProps
<1>3. CoupledWrite(t) => Now(t).key[1] \notin hvacProps
  <2>1. ASSUME CoupledWrite(t) PROVE Now(t).key[1] \notin hvacProps
    <3>1. Doing(t, "write") /\ Owns(t)
      BY <2>1, CoupledStore
    <3>2. Request(t).prop \notin hvacProps
      BY <1>2, <3>1 DEF Owns
    <3> QED
      BY <3>1, <3>2, OthersWrite
  <2> QED
    BY <2>1
<1>4. ~synchronizeHvacTemp(t)
  <2>1. ASSUME synchronizeHvacTemp(t) PROVE FALSE
    <3>1. Doing(t, "synchronizeHvacTemp")
      BY <2>1, Zenon DEF synchronizeHvacTemp
    <3>2. Request(t).op \in WriteOps /\ Request(t).prop \in hvacProps
      BY <3>1, HvacWrites DEF Doing, Now, HvacSteps, WorkInv, ThreadsInv, Fits
    <3> QED
      BY <1>2, <3>1, <3>2
  <2> QED
    BY <2>1
<1>5. loose' = loose
  BY <1>3, <1>4, LooseMoves, HvacKeys DEF LooseAfter
<1>6. \A x \in TempAreas : store'[Temp(x)] = store[Temp(x)]
  BY <1>1, <1>3, HvacKeys, TempKeys
<1>7. \A d \in DualAreas : store'[Dual(d)] = store[Dual(d)]
  BY <1>1, <1>3, DualKeys DEF hvacProps
<1> QED
  BY <1>5, <1>6, <1>7 DEF HvacFrame

\* A thread that does nothing stays at its stage.
LEMMA StageKept ==
    ASSUME HvacFrame, NEW u, thread'[u] = thread[u], Request(u)' = Request(u), Stage(u)
    PROVE  Stage(u)'
<1> DEFINE r == Request(u)
           steps == thread[u].steps
           look == Check("hvac", r.prop, r.area)
           bad == Fail("INVALID_ARG")
           synced == Step("getSyncedAreaIdIfHvacDualOn")
<1>1. \A d \in DualAreas : DualOn(d)' = DualOn(d) /\ (Writing(u, d) => Writing(u, d)')
  BY WritingKept DEF HvacFrame, DualOn
<1>2. PICK w \in OwnWrites(r) :
          \/ steps \in {<<>>, <<bad>>}
          \/ /\ r.prop = "HVAC_TEMPERATURE_SET"
             /\ \/ steps \in {<<look, synced, w>>, <<look, bad>>, <<synced, w>>}
                \/ steps = <<w>> /\ \A d \in DualAreas : r.area \subseteq d => ~DualOn(d)
                \/ \E d \in DualAreas : steps = <<SyncStep(d, r.value, "fail")>>
          \/ /\ r.prop = "HVAC_DUAL_ON"
             /\ \/ steps = <<SyncStep(r.area, NoValue, "skip"), w>>
                \/ steps = <<w>> /\ r.value # 1
          \/ \E d \in DualAreas : Writing(u, d)
  BY DEF Stage
<1>3. w \in OwnWrites(Request(u)')
  OBVIOUS
<1>4. CASE \E d \in DualAreas : Writing(u, d)
  BY <1>1, <1>3, <1>4 DEF Stage
<1>5. CASE ~\E d \in DualAreas : Writing(u, d)
  <2> HIDE DEF look, bad, synced
  <2>1. \/ steps \in {<<>>, <<bad>>}
        \/ /\ r.prop = "HVAC_TEMPERATURE_SET"
           /\ \/ steps \in {<<look, synced, w>>, <<look, bad>>, <<synced, w>>}
              \/ steps = <<w>> /\ \A d \in DualAreas : r.area \subseteq d => ~DualOn(d)'
              \/ \E d \in DualAreas : steps = <<SyncStep(d, r.value, "fail")>>
        \/ /\ r.prop = "HVAC_DUAL_ON"
           /\ \/ steps = <<SyncStep(r.area, NoValue, "skip"), w>>
              \/ steps = <<w>> /\ r.value # 1
    BY <1>1, <1>2, <1>5
  <2> QED
    BY <1>3, <2>1 DEF Stage, look, bad, synced
<1> QED
  BY <1>4, <1>5

\* Nothing is written, and each thread does nothing, begins, ends or sets
\* something else.
LEMMA CoupleFrame ==
    ASSUME WorkInv, Kept, HvacFrame, PowersInv, StatusInv, SendsInv, StagesInv, CouplesInv,
           \A u \in Writers :
              \/ thread'[u] = thread[u]
              \/ /\ Syncing(u)' => Stage(u)'
                 /\ Powering(u)' => Sends(u)'
                 /\ \A d \in DualAreas : Syncing(u) /\ Writing(u, d) => CoupledOn(d)
    PROVE  StatusInv' /\ SendsInv' /\ StagesInv' /\ CouplesInv'
<1>1. StatusInv'
  BY DEF StatusInv, HvacFrame
<1>2. \A d \in DualAreas : DualOn(d)' = DualOn(d) /\ (CoupledOn(d) => CoupledOn(d)')
  BY CoupledKept DEF HvacFrame, DualOn, Powered
<1>3. ASSUME NEW u \in Writers, thread'[u] = thread[u]
      PROVE  /\ Powering(u)' = Powering(u) /\ Syncing(u)' = Syncing(u)
             /\ Busy(u) => Request(u)' = Request(u)
  <2>1. Busy(u)' = Busy(u) /\ (Busy(u) => Request(u)' = Request(u))
    BY <1>3, KeptRequest DEF WorkInv, ThreadsInv, Writers, Threads, Handlers
  <2> QED
    BY <2>1, SameWork
<1>4. ASSUME NEW u \in Writers, Powering(u)' PROVE Sends(u)'
  <2>1. CASE thread'[u] = thread[u]
    <3>1. Powering(u) /\ Sends(u) /\ PowerInv(u)
      BY <1>3, <1>4, <2>1 DEF SendsInv, PowersInv
    <3>2. \A z \in Range(thread[u].steps) : TempWrite(z) => \E x \in TempAreas : z.key = Temp(x)
      BY <3>1, HvacKeys DEF PowerInv, TempWrite
    <3> QED
      BY <2>1, <3>1, <3>2 DEF Sends, HvacFrame
  <2> QED
    BY <1>4, <2>1
<1>5. ASSUME NEW u \in Writers, Syncing(u)' PROVE Stage(u)'
  <2>1. CASE thread'[u] = thread[u]
    <3>1. Syncing(u) /\ Stage(u) /\ Request(u)' = Request(u)
      BY <1>3, <1>5, <2>1 DEF StagesInv, Syncing, Setting
    <3> QED
      BY <2>1, <3>1, StageKept
  <2> QED
    BY <1>5, <2>1
<1>6. CouplesInv'
  <2> SUFFICES ASSUME NEW d \in DualAreas, DualOn(d)'
               PROVE  CoupledOn(d)' \/ \E u \in Writers : Syncing(u)' /\ Writing(u, d)'
    BY DEF CouplesInv
  <2>1. CoupledOn(d) \/ \E u \in Writers : Syncing(u) /\ Writing(u, d)
    BY <1>2 DEF CouplesInv
  <2>2. ASSUME NEW u \in Writers, Syncing(u), Writing(u, d), ~CoupledOn(d)
        PROVE  Syncing(u)' /\ Writing(u, d)'
    <3>1. thread'[u] = thread[u]
      BY <2>2
    <3>2. Writing(u, d)'
      BY <2>2, <3>1, WritingKept DEF HvacFrame
    <3> QED
      BY <1>3, <2>2, <3>1, <3>2
  <2> QED
    BY <1>2, <2>1, <2>2
<1> QED
  BY <1>1, <1>4, <1>5, <1>6 DEF SendsInv, StagesInv

\* A request begins.
LEMMA CoupleStart ==
    ASSUME WorkInv, PowersInv, StatusInv, SendsInv, StagesInv, CouplesInv,
           NEW t \in Threads, NEW r, NEW id, NEW ts, Begins(t, r, id, ts)
    PROVE  StatusInv' /\ SendsInv' /\ StagesInv' /\ CouplesInv'
<1>1. Kept /\ ~Busy(t) /\ UNCHANGED <<store, loose>>
  BY DEF Begins
<1>2. /\ Busy(t)' /\ Same(Request(t)', r) /\ thread'[t].steps = StepsOf(r)
      /\ \A u \in Threads \ {t} : thread'[u] = thread[u]
  BY BegunRequest DEF WorkInv
<1>3. HvacFrame
  BY <1>1 DEF HvacFrame
<1> DEFINE q == Request(t)'
<1>4. q.op = r.op /\ q.prop = r.prop /\ q.value = r.value /\ q.area = r.area
  BY <1>2 DEF Same
<1>5. \A e : Setting(t, e)' = (r.op \in WriteOps /\ r.prop = e)
  BY <1>2, <1>4 DEF Setting
<1>6. ASSUME Syncing(t)' PROVE Stage(t)'
  <2>1. r.op \in WriteOps /\ r.prop \in {"HVAC_TEMPERATURE_SET", "HVAC_DUAL_ON"}
    BY <1>5, <1>6 DEF Syncing
  <2> DEFINE look == Check("hvac", r.prop, r.area)
             bad == Fail("INVALID_ARG")
             synced == Step("getSyncedAreaIdIfHvacDualOn")
  <2>2. PICK w \in OwnWrites(r) :
           \/ StepsOf(r) = <<bad>>
           \/ /\ r.prop = "HVAC_TEMPERATURE_SET"
              /\ StepsOf(r) \in {<<look, synced, w>>, <<look, bad>>}
           \/ /\ r.prop = "HVAC_DUAL_ON"
              /\ \/ StepsOf(r) = <<SyncStep(r.area, NoValue, "skip"), w>>
                 \/ StepsOf(r) = <<w>> /\ r.value # 1
    BY <2>1, StageBegins
  <2>3. w \in OwnWrites(q) /\ look = Check("hvac", q.prop, q.area)
    BY <1>4 DEF OwnWrites
  <2> HIDE DEF q, look, bad, synced
  <2>4. \/ thread'[t].steps = <<bad>>
        \/ /\ q.prop = "HVAC_TEMPERATURE_SET"
           /\ thread'[t].steps \in {<<look, synced, w>>, <<look, bad>>, <<synced, w>>}
        \/ /\ q.prop = "HVAC_DUAL_ON"
           /\ \/ thread'[t].steps = <<SyncStep(q.area, NoValue, "skip"), w>>
              \/ thread'[t].steps = <<w>> /\ q.value # 1
    BY <1>2, <1>4, <2>2
  <2> QED
    BY <2>3, <2>4 DEF Stage, q, bad, synced
<1>7. ASSUME Powering(t)' PROVE Sends(t)'
  <2>1. r.op \in WriteOps /\ r.prop = "HVAC_POWER_ON" /\ r.value # Malformed
    BY <1>4, <1>5, <1>7 DEF Powering
  <2> DEFINE send == Step("sendHvacPropertiesCurrentValues")
  <2>2. PICK w : /\ Range(StepsOf(r)) = {send, w}
                 /\ w.do = "write" /\ w.key = Switch(r.area)
    BY <2>1, HvacKeys, HvacBegins
  <2>3. send.do = "sendHvacPropertiesCurrentValues"
    BY DEF Step
  <2> HIDE DEF send
  <2>4. \A s \in Range(thread'[t].steps) : ~TempWrite(s)
    BY <1>2, <2>2, <2>3, HvacKeys DEF TempWrite
  <2> QED
    BY <2>4 DEF Sends
<1>8. ~Syncing(t) /\ Writers \subseteq Threads
  BY <1>1 DEF Syncing, Setting, Writers, Threads, Handlers
<1>9. \A u \in Writers :
         \/ thread'[u] = thread[u]
         \/ /\ Syncing(u)' => Stage(u)'
            /\ Powering(u)' => Sends(u)'
            /\ \A d \in DualAreas : Syncing(u) /\ Writing(u, d) => CoupledOn(d)
  BY <1>2, <1>6, <1>7, <1>8
<1> QED
  BY <1>1, <1>3, <1>9, CoupleFrame

\* A thread goes on.
LEMMA CoupleRun ==
    ASSUME WorkInv, ~overlapped, TempsThere, DualsThere, PowersInv, RefusedInv, SyncsInv,
           StatusInv, SendsInv, StagesInv, CouplesInv, Kept, NEW t \in Threads, Run(t)
    PROVE  StatusInv' /\ SendsInv' /\ StagesInv' /\ CouplesInv'
<1>1. /\ \A u \in Threads \ {t} : thread'[u] = thread[u]
      /\ \A u \in Threads : Busy(u)' => Busy(u) /\ Request(u)' = Request(u)
      /\ \A u \in Threads : Busy(u) /\ ~Busy(u)' => u = t /\ finish(t)
      /\ Busy(t)
  BY RunKeeps
<1>2. Writers \subseteq Threads /\ \A u : Powering(u) => Setting(u, "HVAC_POWER_ON")
  BY DEF Writers, Threads, Handlers, Powering
<1>3. \A u \in Threads : u # t \/ ~finish(t) =>
         Powering(u)' = Powering(u) /\ Syncing(u)' = Syncing(u)
  <2> SUFFICES ASSUME NEW u \in Threads, u # t \/ ~finish(t)
               PROVE  Powering(u)' = Powering(u) /\ Syncing(u)' = Syncing(u)
    OBVIOUS
  <2>1. Busy(u)' = Busy(u) /\ (Busy(u) => Request(u)' = Request(u))
    BY <1>1 DEF Busy
  <2> QED
    BY <2>1, SameWork
\* Who sets something of this kind is alone.
<1>4. ASSUME Syncing(t) \/ Powering(t)
      PROVE  t \in Writers /\ \A u \in Writers \ {t} : ~Syncing(u) /\ ~Powering(u)
  <2>1. \A u \in Threads : Syncing(u) \/ Powering(u) => u \in Writers /\ Owns(u)
    BY <1>2, HvacWriter
  <2>2. ~(Owns("set") /\ Owns("dump"))
    BY DEF WorkInv, OwnInv
  <2> QED
    BY <1>2, <1>4, <2>1, <2>2 DEF Writers
<1>5. Syncing(t) => ~Powering(t)
  BY DEF Syncing, Powering, Setting
<1>6. CASE Syncing(t) /\ ~finish(t)
  <2>1. SyncInv(t) /\ Stage(t) /\ t \in Writers
    BY <1>4, <1>6 DEF SyncsInv, StagesInv
  <2>2. \A d \in DualAreas : Held(t, d)
    BY <1>4, <1>6 DEF Held, CouplesInv
  <2>3. \A d \in DualAreas : Held(t, d)'
    BY <1>6, <2>1, <2>2, StageGoes
  <2>4. Stage(t)'
    BY <1>6, <2>1, <2>2, StageGoes
  <2>5. StatusInv'
    <3>1. CoupledWrite(t) /\ Now(t).key[1] = "HVAC_TEMPERATURE_SET" =>
             store'[Now(t).key].status = store[Now(t).key].status
      BY <1>6, <2>1, SyncGoes
    <3>2. \A x \in TempAreas : store'[Temp(x)].status = store[Temp(x)].status
      BY <3>1, CoupledStore, HvacKeys, TempKeys
    <3> QED
      BY <3>2 DEF StatusInv
  <2>6. CouplesInv'
    BY <1>3, <1>6, <2>1, <2>3 DEF CouplesInv, Held
  <2>7. StagesInv' /\ SendsInv'
    BY <1>2, <1>3, <1>4, <1>5, <1>6, <2>4 DEF StagesInv, SendsInv
  <2> QED
    BY <2>5, <2>6, <2>7
<1>7. CASE Powering(t) /\ ~finish(t)
  <2>1. PowerInv(t) /\ Sends(t) /\ t \in Writers /\ \A u \in Writers : ~Syncing(u)
    BY <1>4, <1>5, <1>7 DEF PowersInv, SendsInv
  <2>2. \A d \in DualAreas : DualOn(d) => CoupledOn(d)
    BY <2>1 DEF CouplesInv
  <2>3. /\ Sends(t)' /\ StatusInv'
        /\ \A d \in DualAreas : DualOn(d)' => CoupledOn(d)'
    BY <1>7, <2>1, <2>2, PowerCouples
  <2>4. StagesInv' /\ SendsInv'
    BY <1>2, <1>3, <1>4, <1>7, <2>1, <2>3 DEF StagesInv, SendsInv
  <2> QED
    BY <2>3, <2>4 DEF CouplesInv
<1>8. CASE finish(t) \/ (~Syncing(t) /\ ~Powering(t))
  <2>1. HvacFrame
    BY <1>8, Bystander
  <2>2. CASE finish(t)
    <3>1. ~Busy(t)' /\ Range(thread[t].steps) = {}
      BY <2>2, FinishedThread, NothingInSeq DEF WorkInv, finish
    <3>2. ~Syncing(t)' /\ ~Powering(t)'
      BY <3>1 DEF Syncing, Powering, Setting
    <3>3. ASSUME NEW d \in DualAreas, Writing(t, d) PROVE CoupledOn(d)
      <4>1. \A x : ~ToWrite(t, Temp(x))
        BY <3>1 DEF ToWrite
      <4> QED
        BY <3>3, <4>1 DEF Writing, CoupledOn
    <3>4. \A u \in Writers :
             \/ thread'[u] = thread[u]
             \/ /\ Syncing(u)' => Stage(u)'
                /\ Powering(u)' => Sends(u)'
                /\ \A d \in DualAreas : Syncing(u) /\ Writing(u, d) => CoupledOn(d)
      BY <1>1, <1>2, <3>2, <3>3
    <3> QED
      BY <2>1, <3>4, CoupleFrame
  <2>3. CASE ~finish(t) /\ ~Syncing(t) /\ ~Powering(t)
    <3>1. \A u \in Writers :
             \/ thread'[u] = thread[u]
             \/ /\ Syncing(u)' => Stage(u)'
                /\ Powering(u)' => Sends(u)'
                /\ \A d \in DualAreas : Syncing(u) /\ Writing(u, d) => CoupledOn(d)
      BY <1>1, <1>2, <1>3, <2>3
    <3> QED
      BY <2>1, <3>1, CoupleFrame
  <2> QED
    BY <1>8, <2>2, <2>3
<1> QED
  BY <1>6, <1>7, <1>8

LEMMA CoupleStep ==
    ASSUME "status" \notin DOMAIN NoValue, WorkInv, HvacInv, CoupleInv, [Next]_vars
    PROVE  CoupleInv'
<1>1. DualsThere'
  BY DualsStep DEF CoupleInv
<1>2. SUFFICES ASSUME ~overlapped'
               PROVE  StatusInv' /\ SendsInv' /\ StagesInv' /\ CouplesInv'
  BY <1>1 DEF CoupleInv
<1>3. CASE Quiet
  <2>1. Kept /\ ~overlapped /\ UNCHANGED <<thread, store, loose>>
    BY <1>2, <1>3 DEF Quiet
  <2>2. PowersInv /\ StatusInv /\ SendsInv /\ StagesInv /\ CouplesInv
    BY <2>1 DEF HvacInv, CoupleInv
  <2>3. HvacFrame
    BY <2>1 DEF HvacFrame
  <2> QED
    BY <2>1, <2>2, <2>3, CoupleFrame
<1>4. CASE \E t \in Threads : \E r, id, ts : Begins(t, r, id, ts)
  <2>0. PICK t \in Threads : \E r, id, ts : Begins(t, r, id, ts)
    BY <1>4
  <2>1. PICK r, id, ts : Begins(t, r, id, ts)
    BY <2>0
  <2>2. ~overlapped
    BY <1>2, <2>1 DEF Begins
  <2> QED
    BY <2>1, <2>2, CoupleStart DEF HvacInv, CoupleInv
<1>5. CASE Kept /\ \E t \in Threads : Run(t)
  <2>1. PICK t \in Threads : Run(t)
    BY <1>5
  <2>2. ~overlapped
    BY <1>2, <1>5, <2>1, RunKeeps
  <2> QED
    BY <1>5, <2>1, <2>2, CoupleRun DEF HvacInv, CoupleInv
<1> QED
  BY <1>3, <1>4, <1>5, NextCases DEF WorkInv

LEMMA CoupleInit ==
    ASSUME "status" \notin DOMAIN NoValue, Init
    PROVE  CoupleInv
<1>1. \A t \in Writers : ~Busy(t)
  <2>1. thread = [t \in Threads |-> Idle] /\ Idle.id = 0 /\ Writers \subseteq Threads
    BY DEF Init, Idle, Writers, Threads, Handlers
  <2> QED
    BY <2>1 DEF Busy
<1>2. \A k \in Keys : store[k] = storePropInitialValue(k)
  BY DEF Init
<1> DEFINE zero == [value |-> 0, status |-> "AVAILABLE", timestamp |-> 0]
<1>3. "HVAC_DUAL_ON" \notin Settings /\ "HVAC_TEMPERATURE_SET" \notin Settings
  BY HvacKeys DEF hvacProps
<1>4. ASSUME NEW k \in Keys, k[1] \in {"HVAC_TEMPERATURE_SET", "HVAC_DUAL_ON"}
      PROVE  store[k] = zero
  <2>1. InitialValue(k) = 0
    BY <1>3, <1>4 DEF InitialValue, Settings
  <2> QED
    BY <1>2, <1>4, <2>1, NoValueKnown DEF storePropInitialValue
<1>5. zero.value = 0 /\ zero.status = "AVAILABLE" /\ zero # NoValue
  OBVIOUS
<1> HIDE DEF zero
<1>6. \A x \in TempAreas : store[Temp(x)] = zero
  BY <1>4, TempKeys, HvacKeys
<1>7. \A d \in DualAreas : store[Dual(d)] = zero
  BY <1>4, DualKeys
<1>8. StatusInv /\ DualsThere
  BY <1>5, <1>6, <1>7 DEF StatusInv, DualsThere
<1>9. CouplesInv
  BY <1>5, <1>7 DEF CouplesInv, DualOn
<1>10. SendsInv /\ StagesInv
  BY <1>1 DEF SendsInv, StagesInv, Powering, Syncing, Setting
<1> QED
  BY <1>8, <1>9, <1>10 DEF CoupleInv

\* Whenever no request is at work and none ran against another, the seats of a
\* coupled area that have power have one temperature, but for those that got
\* their power back since: a set of a temperature writes all seats that were
\* available when it looked, one after the other, coupling an area writes the
\* temperature of one seat to the others before HVAC_DUAL_ON is stored, and
\* switching power writes back the temperatures that it read before.
THEOREM CouplingCorrect ==
    ASSUME "status" \notin DOMAIN NoValue
    PROVE  Spec => []TempsCoupled
<1> DEFINE Inv == WorkInv /\ HvacInv /\ CoupleInv
<1>1. Init => Inv
  BY WorkInit, HvacInit, CoupleInit
<1>2. Inv /\ [Next]_vars => Inv'
  BY WorkStep, HvacStep, CoupleStep
<1>3. Inv => TempsCoupled
  <2> SUFFICES ASSUME CoupleInv, Undisturbed, NEW d \in DualAreas,
                      store[<<"HVAC_DUAL_ON", d>>].value = 1,
                      NEW j \in Temps(d), NEW k \in Temps(d),
                      store[j].status = "AVAILABLE", j[2] \notin loose,
                      store[k].status = "AVAILABLE", k[2] \notin loose
               PROVE  store[j].value = store[k].value
    BY DEF TempsCoupled
  <2>1. \A u \in Writers : ~Syncing(u)
    BY DEF Undisturbed, Syncing, Setting, Writers, Threads, Handlers
  <2>2. CoupledOn(d)
    BY <2>1 DEF CoupleInv, CouplesInv, Undisturbed, DualOn, Dual
  <2>3. \A i \in Temps(d) : /\ i \in Keys /\ i[1] = "HVAC_TEMPERATURE_SET"
                            /\ i[2] \subseteq d
    BY DEF Temps, readValuesForProperty
  <2>4. \A i \in Temps(d) : \E x \in TempAreas : i = Temp(x) /\ i[2] = x
    BY <2>3, TempKeys DEF Temp
  <2> QED
    BY <2>2, <2>3, <2>4 DEF CoupledOn, Powered
<1> HIDE DEF Inv
<1> QED
  BY <1>1, <1>2, <1>3, PTL DEF Spec

----------------------------------------------------------------------------
(* What an answer promised.                                                *)

Frame(f) == <<"OBD2_FREEZE_FRAME", f>>
Gone(f) == Frame(f) \in Keys => store[Frame(f)] = NoValue
Cleared(v) == IF v = <<>> THEN Frames ELSE Range(v)

\* Requests that promise more than the value they write.
Awaits(r) == r.prop = "AP_POWER_STATE_REPORT" /\ r.value = "WAIT_FOR_VHAL"
Clears(r) == r.prop = "OBD2_FREEZE_FRAME_CLEAR"
OnEvent == <<"AP_POWER_STATE_REQ", "ON">>
OnStep == Forced(<<"AP_POWER_STATE_REQ", Global>>, "ON", "fail")

\* What the set handler wrote, or something newer, is stored.
Floor(v) ==
    /\ v.timestamp \in 0 .. clock
    /\ \/ v.timestamp = 0
       \/ /\ v.key \in Keys /\ store[v.key] # NoValue
          /\ v.timestamp =< store[v.key].timestamp

\* What is still to be done for frame f to be gone.
Removes(s, f) == \/ s.do = "removeValue" /\ s.key = Frame(f)
                 \/ s.do = "removeValuesForProperty"

\* The set handler has done, or will do, what an answer with OK promises.
Promises(r, o, steps) ==
    /\ o.value # NoValue => Floor(o.value)
    /\ o.status = "OK" =>
          /\ Awaits(r) =>
                /\ \A s \in Range(steps) : s.do = "write" /\ s.onError = "fail"
                /\ OnEvent \in o.sent \/ OnStep \in Range(steps)
          /\ Clears(r) =>
                /\ \A s \in Range(steps) :
                      s.do \in {"read", "removeValue", "removeValuesForProperty"}
                /\ \A f \in Cleared(r.value) :
                      Gone(f) \/ \E s \in Range(steps) : Removes(s, f)

\* A value that was got is not older than what was seen to be set.
NotStale(v, seen) ==
    \A i \in seen : Done(i, "set") /\ result[i].value # NoValue /\ result[i].value.key = v.key
                    => result[i].value.timestamp =< v.timestamp

\* Frame f was seen to be cleared.
SeenGone(r, f) == \E i \in r.seen : /\ Done(i, "set") /\ Clears(asked[i])
                                     /\ f \in Cleared(asked[i].value)

\* What a get returns, or will return, respects what was answered before.
Respects(r, o, steps) ==
    /\ o.value # NoValue => NotStale(o.value, r.seen)
    /\ o.status = "OK" =>
          /\ r.prop = "OBD2_FREEZE_FRAME" =>
                /\ \A s \in Range(steps) : \/ s.do = "read" /\ s.key = Frame(r.value)
                                           \/ s.do \in {"check", "fail"}
                /\ \/ ~SeenGone(r, r.value)
                   \/ \E s \in Range(steps) : s.do \in {"read", "fail"}
          /\ r.prop = "OBD2_FREEZE_FRAME_INFO" =>
                /\ \A s \in Range(steps) : s.do = "getObd2DtcInfo"
                /\ steps = <<>> => \A f \in o.value.value : ~SeenGone(r, f)

\* Only what was made has a result, not what is in hand, and who made a
\* request had seen answers only.
FreshInv ==
    /\ \A i \in Ids \ (1 .. Len(asked)) : result[i] = NoValue
    /\ \A t \in Threads : Busy(t) => result[thread[t].id] = NoValue
    /\ \A i \in 1 .. Len(asked) : asked[i].seen \subseteq answered

\* Frames are never written.
FramesInv == \A k \in Keys : k[1] = "OBD2_FREEZE_FRAME" =>
                store[k] = NoValue \/ store[k].timestamp = 0

SetsInv ==
    /\ Busy("set") => Promises(Request("set"), thread["set"], thread["set"].steps)
    /\ \A i \in RequestsOf("set") : result[i] # NoValue => Promises(asked[i], result[i], <<>>)
GetsInv ==
    /\ Busy("get") => Respects(Request("get"), thread["get"], thread["get"].steps)
    /\ \A i \in RequestsOf("get") : result[i] # NoValue => Respects(asked[i], result[i], <<>>)

PromiseInv == FreshInv /\ FramesInv /\ SetsInv /\ GetsInv

\* How the value that a thread is to return comes about.
ReadNow(t) ==
    /\ Now(t).do = "read" /\ Now(t).key \in Keys /\ store[Now(t).key] # NoValue
    /\ thread'[t].value.key = Now(t).key
    /\ thread'[t].value.timestamp = store[Now(t).key].timestamp
WroteNow(t) ==
    /\ Now(t).do = "write" /\ Now(t).key \in Keys
    /\ thread'[t].value.key = Now(t).key
    /\ thread'[t].value.timestamp = store'[Now(t).key].timestamp
    /\ store'[Now(t).key] # NoValue
GotNow(t) == Now(t).do \in GetSteps /\ thread'[t].value.timestamp = clock

LEMMA ValueMoves ==
    ASSUME DOMAIN thread = Threads, NEW t \in Threads, DOMAIN thread[t] = Fields
    PROVE  /\ \A first : thread' = Continue(t, first) =>
                 thread'[t].value = thread[t].value /\ thread'[t].status = thread[t].status
           /\ \A status : thread' = Failed(t, status) =>
                 thread'[t].value = thread[t].value /\ thread'[t].status = status
           /\ \A key, record : thread' = Returned(t, key, record) =>
                 /\ thread'[t].value.key = key /\ thread'[t].value.value = record.value
                 /\ thread'[t].value.timestamp = record.timestamp
                 /\ thread'[t].status = thread[t].status
           /\ \A steps : thread' = [thread EXCEPT ![t].steps = steps] =>
                 thread'[t].value = thread[t].value /\ thread'[t].status = thread[t].status
<1> USE DEF Fields
<1>1. ASSUME NEW first, thread' = Continue(t, first)
      PROVE  thread'[t].value = thread[t].value /\ thread'[t].status = thread[t].status
  BY <1>1 DEF Continue
<1>2. ASSUME NEW status, thread' = Failed(t, status)
      PROVE  thread'[t].value = thread[t].value /\ thread'[t].status = status
  BY <1>2 DEF Failed
<1>3. ASSUME NEW key, NEW record, thread' = Returned(t, key, record)
      PROVE  /\ thread'[t].value.key = key /\ thread'[t].value.value = record.value
             /\ thread'[t].value.timestamp = record.timestamp
             /\ thread'[t].status = thread[t].status
  BY <1>3 DEF Returned
<1>4. ASSUME NEW steps, thread' = [thread EXCEPT ![t].steps = steps]
      PROVE  thread'[t].value = thread[t].value /\ thread'[t].status = thread[t].status
  BY <1>4
<1> QED
  BY <1>1, <1>2, <1>3, <1>4

\* A write that is accepted is what the thread returns; one that is refused
\* does not count.
LEMMA WriteReturns ==
    ASSUME "status" \notin DOMAIN NoValue, DOMAIN thread = Threads, NEW t \in Threads,
           DOMAIN thread[t] = Fields, DOMAIN store = Keys, writeValue(t)
    PROVE  LET s == Now(t)
               ts == IF s.locked THEN clock + 1 ELSE thread[t].stamp
           IN  \/ /\ WroteNow(t) /\ accepts(store[s.key], ts) /\ store'[s.key].timestamp = ts
                  /\ thread'[t].status = thread[t].status
                  /\ s.mode = "ALWAYS" => <<s.key[1], s.value>> \in thread'[t].sent
                  /\ thread'[t].steps = Tail(thread[t].steps)
                  /\ thread[t].sent \subseteq thread'[t].sent
               \/ /\ UNCHANGED store /\ thread'[t].value = thread[t].value
                  /\ thread'[t].sent = thread[t].sent
                  /\ thread'[t].status \in {thread[t].status, "INVALID_ARG"}
                  /\ s.onError = "fail" => thread'[t].status = "INVALID_ARG"
<1> DEFINE s == Now(t)
           ts == IF s.locked THEN clock + 1 ELSE thread[t].stamp
           old == store[s.key]
           status == IF s.status # "KEEP" THEN s.status
                     ELSE IF old = NoValue THEN "AVAILABLE" ELSE old.status
           new == [value |-> s.value, status |-> status, timestamp |-> ts]
           event == \/ s.mode = "ALWAYS"
                    \/ old = NoValue
                    \/ old.value # s.value \/ old.status # status
           taken == s.key \in Keys /\ accepts(old, ts)
           sent == IF event THEN thread[t].sent \cup {<<s.key[1], s.value>>} ELSE thread[t].sent
<1>0. s.do = "write"
  BY DEF writeValue, Doing, Now
<1>1. CASE taken
  <2>1. store' = [store EXCEPT ![s.key] = new]
    BY <1>1 DEF writeValue
  <2>2. thread' = [Returned(t, s.key, new) EXCEPT ![t].stamp = NoStamp,
                       ![t].sent = IF event THEN @ \cup {<<s.key[1], s.value>>} ELSE @]
    BY <1>1 DEF writeValue
  <2>3. new.timestamp = ts /\ new # NoValue
    <3>1. "status" \in DOMAIN new
      OBVIOUS
    <3> QED
      BY <3>1
  <2>4. event \in BOOLEAN /\ (s.mode = "ALWAYS" => event)
    OBVIOUS
  <2> HIDE DEF new, taken, event
  <2>5. Returned(t, s.key, new)[t].sent = thread[t].sent
    BY DEF Returned, Fields
  <2>6. /\ thread'[t].value.key = s.key /\ thread'[t].value.timestamp = new.timestamp
        /\ thread'[t].status = thread[t].status
        /\ thread'[t].steps = Tail(thread[t].steps)
        /\ thread'[t].sent = sent
    BY <2>2, <2>5 DEF Returned, Fields
  <2>7. store'[s.key] = new
    BY <1>1, <2>1 DEF taken
  <2>8. /\ s.mode = "ALWAYS" => <<s.key[1], s.value>> \in sent
        /\ thread[t].sent \subseteq sent
    BY <2>4
  <2> HIDE DEF sent
  <2> QED
    BY <1>0, <1>1, <2>3, <2>6, <2>7, <2>8 DEF WroteNow, taken
<1>2. CASE ~taken
  <2>1. thread' = AfterRefusal(t) /\ UNCHANGED store
    BY <1>2 DEF writeValue
  <2>2. /\ thread'[t].value = thread[t].value /\ thread'[t].sent = thread[t].sent
        /\ thread'[t].status = IF s.onError = "fail" THEN "INVALID_ARG" ELSE thread[t].status
    BY <2>1 DEF AfterRefusal, Fields
  <2> QED
    BY <2>1, <2>2
<1> QED
  BY <1>1, <1>2

\* Whatever thread t does, an error stays, and the value it is to return is
\* read from the store, written to it, or got from elsewhere.
LEMMA RunReturns ==
    ASSUME "status" \notin DOMAIN NoValue, ThreadsInv, ClockInv,
           NEW t \in Threads, Run(t), ~finish(t)
    PROVE  /\ UNCHANGED <<result, asked, answered>>
           /\ thread'[t].status = "OK" => thread[t].status = "OK"
           /\ \/ thread'[t].value = thread[t].value
              \/ ReadNow(t) /\ UNCHANGED <<store, clock>>
              \/ WroteNow(t)
              \/ GotNow(t) /\ UNCHANGED <<store, clock>>
<1> USE DEF readOnly, queues, ghosts
<1> DEFINE Fine == /\ UNCHANGED <<result, asked, answered>>
                   /\ thread'[t].status = "OK" => thread[t].status = "OK"
                   /\ \/ thread'[t].value = thread[t].value
                      \/ ReadNow(t) /\ UNCHANGED <<store, clock>>
                      \/ WroteNow(t)
                      \/ GotNow(t) /\ UNCHANGED <<store, clock>>
<1> SUFFICES Fine
  OBVIOUS
<1>0. DOMAIN thread = Threads /\ DOMAIN thread[t] = Fields /\ DOMAIN store = Keys
  BY DEF ThreadsInv, Fits, ClockInv
<1>1. ASSUME UNCHANGED <<result, asked, answered>>,
             \/ \E status : status # "OK" /\ thread' = Failed(t, status)
             \/ \E first : thread' = Continue(t, first)
             \/ \E steps : thread' = [thread EXCEPT ![t].steps = steps]
      PROVE  Fine
  <2>1. \/ thread'[t].value = thread[t].value /\ thread'[t].status = thread[t].status
        \/ thread'[t].value = thread[t].value /\ thread'[t].status # "OK"
    BY <1>0, <1>1, ValueMoves
  <2> QED
    BY <1>1, <2>1
<1>2. ASSUME UNCHANGED <<result, asked, answered, store, clock>>, Now(t).do \in GetSteps,
             NEW key, NEW record, record.timestamp = clock, thread' = Returned(t, key, record)
      PROVE  Fine
  <2>1. thread'[t].value.timestamp = clock /\ thread'[t].status = thread[t].status
    BY <1>0, <1>2, ValueMoves
  <2> QED
    BY <1>2, <2>1 DEF GotNow
<1>3. Busy(t) /\ thread[t].steps # <<>> /\ FitSteps(Request(t), thread[t].steps)
  BY DoesNext DEF ThreadsInv, Fits
<1>4. /\ Now(t).do = "fail" => Now(t).status # "OK"
      /\ Now(t).do = "read" => Now(t).missing # "OK"
  BY <1>3, HvacWrites
<1> HIDE DEF Fine
<1>5. CASE check(t)
  <2> DEFINE refusal == Refusal(Now(t))
  <2>1. /\ thread' = IF refusal = "OK" THEN Continue(t, <<>>) ELSE Failed(t, refusal)
        /\ UNCHANGED <<result, asked, answered>>
    BY <1>5 DEF check
  <2> HIDE DEF refusal
  <2> QED
    BY <1>1, <2>1
<1>6. CASE fail(t)
  <2>1. Now(t).do = "fail" /\ thread' = Failed(t, Now(t).status)
        /\ UNCHANGED <<result, asked, answered>>
    BY <1>6 DEF fail, Doing, Now
  <2> QED
    BY <1>1, <1>4, <2>1
<1>7. CASE stamp(t)
  <2>1. thread' = [thread EXCEPT ![t].stamp = clock'] /\ UNCHANGED <<result, asked, answered>>
    BY <1>7 DEF stamp
  <2>2. thread'[t].value = thread[t].value /\ thread'[t].status = thread[t].status
    BY <1>0, <2>1 DEF Fields
  <2> QED
    BY <2>1, <2>2 DEF Fine
<1>8. CASE writeValue(t)
  <2>1. UNCHANGED <<result, asked, answered>>
    BY <1>8 DEF writeValue
  <2> QED
    BY <1>0, <1>8, <2>1, WriteReturns DEF Fine
<1>9. CASE sendHvacPropertiesCurrentValues(t)
  <2>1. UNCHANGED <<result, asked, answered>> /\ \E first : thread' = Continue(t, first)
    BY <1>9, Zenon DEF sendHvacPropertiesCurrentValues
  <2> QED
    BY <1>1, <2>1
<1>10. CASE getSyncedAreaIdIfHvacDualOn(t)
  <2>1. /\ UNCHANGED <<result, asked, answered>>
        /\ \/ \E first : thread' = Continue(t, first)
           \/ \E steps : thread' = [thread EXCEPT ![t].steps = steps]
    BY <1>10, Zenon DEF getSyncedAreaIdIfHvacDualOn
  <2> QED
    BY <1>1, <2>1
<1>11. CASE synchronizeHvacTemp(t)
  <2>1. UNCHANGED <<result, asked, answered>> /\ \E first : thread' = Continue(t, first)
    BY <1>11, Zenon DEF synchronizeHvacTemp
  <2> QED
    BY <1>1, <2>1
<1>12. CASE read(t)
  <2>1. /\ Now(t).do = "read" /\ UNCHANGED <<result, asked, answered, store, clock>>
        /\ \/ thread' = Failed(t, "INVALID_ARG") \/ thread' = Failed(t, Now(t).missing)
           \/ /\ Now(t).key \in Keys /\ store[Now(t).key] # NoValue
              /\ thread' = Returned(t, Now(t).key, store[Now(t).key])
    BY <1>12 DEF read, Doing, Now
  <2>2. CASE /\ Now(t).key \in Keys /\ store[Now(t).key] # NoValue
             /\ thread' = Returned(t, Now(t).key, store[Now(t).key])
    <3>1. /\ thread'[t].value.key = Now(t).key /\ thread'[t].status = thread[t].status
          /\ thread'[t].value.timestamp = store[Now(t).key].timestamp
      BY <1>0, <2>2, ValueMoves
    <3> QED
      BY <2>1, <2>2, <3>1 DEF Fine, ReadNow
  <2> QED
    BY <1>1, <1>4, <2>1, <2>2
<1>13. CASE removeValue(t) \/ removeValuesForProperty(t) \/ save(t)
  <2>1. UNCHANGED <<result, asked, answered>> /\ \E first : thread' = Continue(t, first)
    BY <1>13, Zenon DEF removeValue, removeValuesForProperty, save
  <2> QED
    BY <1>1, <2>1
<1>14. CASE getObd2DtcInfo(t)
  <2>1. /\ Now(t).do \in GetSteps /\ UNCHANGED <<result, asked, answered, store, clock>>
        /\ \E x : thread' = Returned(t, <<"OBD2_FREEZE_FRAME_INFO", Global>>,
                                     [value |-> x, timestamp |-> clock])
    BY <1>14, Zenon DEF getObd2DtcInfo, Doing, Now, GetSteps
  <2> QED
    BY <1>2, <2>1
<1>15. CASE setUserHalProp(t)
  <2>1. /\ UNCHANGED <<result, asked, answered>>
        /\ \/ \E first : thread' = Continue(t, first)
           \/ \E status : status # "OK" /\ thread' = Failed(t, status)
    BY <1>15 DEF setUserHalProp
  <2> QED
    BY <1>1, <2>1
<1>16. CASE getUserHalProp(t)
  <2> DEFINE outcome == onGetProperty(userHal, Request(t).prop, Request(t).value.id,
                                      Request(t).value.type)
  <2>1. /\ Now(t).do \in GetSteps /\ UNCHANGED <<result, asked, answered, store, clock>>
        /\ \/ outcome.status # "OK" /\ thread' = Failed(t, outcome.status)
           \/ thread' = Returned(t, <<Request(t).prop, Global>>,
                                 [value |-> outcome.reply, timestamp |-> clock])
    BY <1>16 DEF getUserHalProp, Doing, Now, GetSteps
  <2> HIDE DEF outcome
  <2> QED
    BY <1>1, <1>2, <2>1
<1>17. CASE getPowerPropFromExternalService(t)
  <2>1. /\ Now(t).do \in GetSteps /\ UNCHANGED <<result, asked, answered, store, clock>>
        /\ \/ thread' = Failed(t, "TRY_AGAIN")
           \/ thread' = Returned(t, <<Request(t).prop, Global>>,
                                 [value |-> "EXTERNAL", timestamp |-> clock])
    BY <1>17 DEF getPowerPropFromExternalService, Doing, Now, GetSteps
  <2> QED
    BY <1>1, <1>2, <2>1
<1>18. CASE restore(t)
  <2>1. /\ UNCHANGED <<result, asked, answered>>
        /\ \/ \E first : thread' = Continue(t, first)
           \/ thread' = Failed(t, "NOTHING_SAVED")
    BY <1>18, Zenon DEF restore
  <2> QED
    BY <1>1, <2>1
<1> QED
  BY <1>5, <1>6, <1>7, <1>8, <1>9, <1>10, <1>11, <1>12, <1>13, <1>14, <1>15, <1>16, <1>17,
     <1>18 DEF Run

\* Freeze frames are not written.
LEMMA NoFrameWritten ==
    ASSUME PlaceInv, ThreadsInv, NEW t \in Threads, Busy(t), thread[t].steps # <<>>,
           Now(t).do = "write"
    PROVE  Now(t).key[1] # "OBD2_FREEZE_FRAME"
<1> DEFINE r == Request(t)
<1>1. Now(t).key[1] \in Writes(r)
  BY HvacWrites DEF ThreadsInv, Fits
<1>2. Known(r)
  BY DEF PlaceInv, AskedType, ThreadsInv, Fits, Request
<1>3. "OBD2_FREEZE_FRAME" \notin AssistStates
  BY AssistsKnown DEF OtherProps
<1>4. \A e \in DOMAIN Assists : "OBD2_FREEZE_FRAME" \notin Assists[e]
  BY <1>3 DEF AssistStates
<1>5. r.op \in WriteOps \cup {"restore", "inject"} => r.prop # "OBD2_FREEZE_FRAME"
  BY <1>2 DEF Known, WriteOps
<1> QED
  BY <1>1, <1>4, <1>5 DEF Writes

\* A value in the store gives way to one that is not older; frames go only.
LEMMA StoreGrows ==
    ASSUME "status" \notin DOMAIN NoValue, PlaceInv, ThreadsInv, ClockInv,
           NEW t \in Threads, Run(t), NEW k \in Keys
    PROVE  /\ \/ store'[k] = store[k]
              \/ k[1] = "OBD2_FREEZE_FRAME" /\ store'[k] = NoValue
              \/ /\ k[1] # "OBD2_FREEZE_FRAME" /\ store'[k] # NoValue
                 /\ store[k] = NoValue \/ store[k].timestamp =< store'[k].timestamp
           /\ clock' \in Nat /\ clock =< clock'
<1>0. DOMAIN thread = Threads /\ DOMAIN thread[t] = Fields /\ DOMAIN store = Keys /\ clock \in Nat
  BY DEF ThreadsInv, Fits, ClockInv
<1>1. /\ \/ store'[k] = store[k]
         \/ k[1] = "OBD2_FREEZE_FRAME" /\ store'[k] = NoValue
         \/ writeValue(t) /\ k = Now(t).key
      /\ clock' \in Nat /\ clock =< clock'
  BY <1>0, StoreMoves
<1>2. CASE writeValue(t) /\ k = Now(t).key /\ store'[k] # store[k]
  <2>1. Busy(t) /\ thread[t].steps # <<>> /\ Now(t).do = "write"
    BY <1>2 DEF writeValue, Doing, Now
  <2> DEFINE ts == IF Now(t).locked THEN clock + 1 ELSE thread[t].stamp
  <2>2. WroteNow(t) /\ accepts(store[k], ts) /\ store'[k].timestamp = ts
    BY <1>0, <1>2, WriteReturns
  <2> HIDE DEF ts
  <2>3. k[1] # "OBD2_FREEZE_FRAME"
    BY <1>2, <2>1, NoFrameWritten
  <2> QED
    BY <1>1, <1>2, <2>2, <2>3 DEF WroteNow, accepts
<1> QED
  BY <1>1, <1>2

\* Two threads do not work on the same request.
LEMMA IdsDiffer ==
    ASSUME ThreadsInv, NEW t \in Threads, NEW u \in Threads \ {t}, Busy(t), Busy(u)
    PROVE  thread[t].id # thread[u].id
<1>1. /\ IF t = "dump" THEN Request(t).op \notin Handlers ELSE Request(t).op = t
      /\ IF u = "dump" THEN Request(u).op \notin Handlers ELSE Request(u).op = u
  BY DEF ThreadsInv, Fits
<1>2. Request(t).op # Request(u).op
  BY <1>1 DEF Threads
<1> QED
  BY <1>2 DEF Request

\* Answers stay, and a new request has seen the answers there are.
LEMMA SeenStep ==
    ASSUME PlaceInv, [Next]_vars, \A i \in 1 .. Len(asked) : asked[i].seen \subseteq answered
    PROVE  /\ \A i \in 1 .. Len(asked') : asked'[i].seen \subseteq answered'
           /\ answered \subseteq answered'
<1>0. Len(asked) \in Nat /\ AskedType /\ QueuesInv
  BY DEF PlaceInv, AskedType
<1>1. CASE UNCHANGED asked /\ answered \subseteq answered'
  BY <1>1
<1>2. CASE \E r \in scenario : /\ Record(r) /\ UNCHANGED <<scenario, answered>>
                               /\ Len(asked) < MaxRequests
  <2>1. PICK r \in scenario : /\ Record(r) /\ UNCHANGED <<scenario, answered>>
                              /\ Len(asked) < MaxRequests
    BY <1>2
  <2>2. /\ Len(asked') = Len(asked) + 1
        /\ \A i \in 1 .. Len(asked) : asked'[i] = asked[i]
        /\ asked'[Len(asked) + 1].seen = answered
    BY <1>0, <2>1, Recorded
  <2>3. \A i \in 1 .. Len(asked') : i \in 1 .. Len(asked) \/ i = Len(asked) + 1
    BY <1>0, <2>2
  <2> QED
    BY <2>1, <2>2, <2>3
<1>3. CASE \E r \in scenario : addRequest(r) \/ dump(r)
  BY <1>2, <1>3 DEF addRequest, dump, queues
<1>4. CASE \E h \in Handlers : Handle(h) \/ stop(h)
  BY <1>1, <1>4 DEF Handle, flush, handleRequest, callback, stop, queues
<1>5. CASE \E t \in Threads : Run(t)
  BY <1>1, <1>5, RunFrame
<1>6. CASE UNCHANGED vars
  BY <1>1, <1>6 DEF vars, queues
<1> QED
  BY <1>3, <1>4, <1>5, <1>6 DEF Next

\* The thread that is done has the result it made; nothing else changes.
LEMMA Finishes ==
    ASSUME PlaceInv, ThreadsInv, NEW t \in Threads, finish(t)
    PROVE  LET id == thread[t].id
           IN  /\ Busy(t) /\ thread[t].steps = <<>> /\ id \in 1 .. Len(asked) /\ id \in Ids
               /\ result'[id].status = thread[t].status /\ result'[id].value = thread[t].value
               /\ result'[id].sent = thread[t].sent
               /\ \A i \in Ids \ {id} : result'[i] = result[i]
               /\ UNCHANGED <<asked, store, clock, answered>>
               /\ thread'[t] = Idle /\ ~Busy(t)'
               /\ \A u \in Threads \ {t} : thread'[u] = thread[u]
<1> DEFINE id == thread[t].id
<1>1. Busy(t) /\ thread[t].steps = <<>> /\ UNCHANGED <<asked, store, clock, answered>>
  BY DEF finish, queues
<1>2. id \in 1 .. Len(asked) /\ id \in Ids
  BY <1>1, BoundsKnown DEF ThreadsInv, Fits, PlaceInv, AskedType, Ids
<1>3. result' = [result EXCEPT ![id] = [status |-> thread[t].status, value |-> thread[t].value,
                                        sent |-> thread[t].sent]]
  BY DEF finish
<1> HIDE DEF id
<1>4. /\ result'[id].status = thread[t].status /\ result'[id].value = thread[t].value
      /\ result'[id].sent = thread[t].sent
      /\ \A i \in Ids \ {id} : result'[i] = result[i]
  BY <1>2, <1>3 DEF PlaceInv, QueuesInv
<1>5. /\ thread'[t] = Idle /\ ~Busy(t)' /\ \A u \in Threads \ {t} : thread'[u] = thread[u]
  BY FinishedThread
<1> QED
  BY <1>1, <1>2, <1>4, <1>5 DEF id

LEMMA FreshStep ==
    ASSUME "status" \notin DOMAIN NoValue, PlaceInv, ThreadsInv, ClockInv, FreshInv, [Next]_vars
    PROVE  FreshInv'
<1>0. PlaceInv' /\ DOMAIN store = Keys /\ Len(asked) \in Nat
  BY PlaceStep DEF ClockInv, PlaceInv, AskedType
<1>1. \A i \in 1 .. Len(asked') : asked'[i].seen \subseteq answered'
  BY SeenStep DEF FreshInv
<1>2. CASE Quiet
  <2>1. UNCHANGED <<thread, result>> /\ \A i \in 1 .. Len(asked) : i \in 1 .. Len(asked')
    BY <1>2 DEF Quiet, Kept
  <2> QED
    BY <1>1, <2>1 DEF FreshInv, Busy
<1>3. CASE \E t \in Threads : \E r, id, ts : Begins(t, r, id, ts)
  <2>0. PICK t \in Threads : \E r, id, ts : Begins(t, r, id, ts)
    BY <1>3
  <2>1. PICK r, id, ts : Begins(t, r, id, ts)
    BY <2>0
  <2>2. /\ UNCHANGED result /\ id \in 1 .. Len(asked')
        /\ id \in 1 .. Len(asked) => result[id] = NoValue
        /\ \A i \in 1 .. Len(asked) : i \in 1 .. Len(asked')
    BY <2>1 DEF Begins, Kept
  <2>3. thread'[t].id = id /\ \A u \in Threads \ {t} : thread'[u] = thread[u]
    BY <2>1 DEF Begins, Idle, ThreadsInv
  <2>4. id \in Ids
    BY <1>0, <2>1, <2>2, BoundsKnown DEF PlaceInv, AskedType, Ids, Begins, Kept
  <2>5. result[id] = NoValue
    BY <2>2, <2>4 DEF FreshInv
  <2> QED
    BY <1>1, <2>2, <2>3, <2>5 DEF FreshInv, Busy
<1>4. CASE \E t \in Threads : Run(t) /\ ~finish(t)
  <2>1. PICK t \in Threads : Run(t) /\ ~finish(t)
    BY <1>4
  <2>2. UNCHANGED <<result, asked>>
    BY <2>1, RunReturns
  <2>3. thread'[t].id = thread[t].id /\ \A u \in Threads \ {t} : thread'[u] = thread[u]
    BY <1>0, <2>1, RunMoves DEF Moved
  <2> QED
    BY <1>1, <2>2, <2>3 DEF FreshInv, Busy
<1>5. CASE \E t \in Threads : finish(t)
  <2>1. PICK t \in Threads : finish(t)
    BY <1>5
  <2> DEFINE id == thread[t].id
  <2>2. /\ Busy(t) /\ id \in 1 .. Len(asked) /\ \A i \in Ids \ {id} : result'[i] = result[i]
        /\ UNCHANGED asked /\ ~Busy(t)' /\ \A u \in Threads \ {t} : thread'[u] = thread[u]
    BY <2>1, Finishes
  <2>3. \A i \in 1 .. Len(asked) : i \in Ids
    BY BoundsKnown DEF PlaceInv, AskedType, Ids
  <2>4. ASSUME NEW u \in Threads, Busy(u)'
        PROVE  result'[thread'[u].id] = NoValue
    <3>1. u # t /\ thread'[u] = thread[u] /\ Busy(u)
      BY <2>2, <2>4 DEF Busy
    <3>2. thread[u].id # id /\ thread[u].id \in 1 .. Len(asked)
      BY <2>2, <3>1, IdsDiffer DEF ThreadsInv, Fits
    <3>3. result'[thread[u].id] = result[thread[u].id]
      BY <2>2, <2>3, <3>2
    <3> QED
      BY <3>1, <3>3 DEF FreshInv
  <2>5. \A i \in Ids \ (1 .. Len(asked')) : result'[i] = NoValue
    BY <2>2 DEF FreshInv
  <2> QED
    BY <1>1, <2>4, <2>5 DEF FreshInv
<1> QED
  BY <1>2, <1>3, <1>4, <1>5, NextCases

LEMMA FramesStep ==
    ASSUME "status" \notin DOMAIN NoValue, PlaceInv, ThreadsInv, ClockInv, FramesInv, [Next]_vars
    PROVE  FramesInv'
<1>1. CASE Quiet \/ \E t \in Threads : \E r, id, ts : Begins(t, r, id, ts)
  <2>1. UNCHANGED store
    BY <1>1 DEF Quiet, Begins
  <2> QED
    BY <2>1 DEF FramesInv
<1>2. CASE \E t \in Threads : Run(t)
  <2>1. PICK t \in Threads : Run(t)
    BY <1>2
  <2>2. \A k \in Keys : k[1] = "OBD2_FREEZE_FRAME" => store'[k] \in {store[k], NoValue}
    BY <2>1, StoreGrows
  <2> QED
    BY <2>2 DEF FramesInv
<1> QED
  BY <1>1, <1>2, NextCases

\* What is newer stays newer, and what is gone stays gone.
LEMMA PromisesStay ==
    ASSUME "status" \notin DOMAIN NoValue, PlaceInv, ThreadsInv, ClockInv, FramesInv, [Next]_vars
    PROVE  /\ \A v : Floor(v) => Floor(v)'
           /\ \A f : Gone(f) => Gone(f)'
<1>0. clock \in Nat /\ \A k \in Keys : store[k] = NoValue \/ store[k].timestamp \in 0 .. clock
  BY DEF ClockInv
<1>1. CASE Quiet \/ \E t \in Threads : \E r, id, ts : Begins(t, r, id, ts)
  <2>1. UNCHANGED <<store, clock>>
    BY <1>1 DEF Quiet, Begins
  <2> QED
    BY <2>1 DEF Floor, Gone
<1>2. CASE \E t \in Threads : Run(t)
  <2>1. PICK t \in Threads : Run(t)
    BY <1>2
  <2>2. \A k \in Keys :
           /\ \/ store'[k] = store[k]
              \/ k[1] = "OBD2_FREEZE_FRAME" /\ store'[k] = NoValue
              \/ /\ k[1] # "OBD2_FREEZE_FRAME" /\ store'[k] # NoValue
                 /\ store[k] = NoValue \/ store[k].timestamp =< store'[k].timestamp
           /\ clock' \in Nat /\ clock =< clock'
    BY <2>1, StoreGrows
  <2>3. clock' \in Nat /\ clock =< clock'
    BY <1>0, <2>1, StoreMoves DEF ClockInv
  <2>4. ClockInv'
    BY ClockStep
  <2>5. ASSUME NEW v, Floor(v)
        PROVE  Floor(v)'
    <3>1. v.timestamp \in 0 .. clock'
      BY <1>0, <2>3, <2>5 DEF Floor
    <3>2. CASE v.timestamp = 0
      BY <3>1, <3>2 DEF Floor
    <3>3. CASE v.timestamp # 0
      <4>1. /\ v.key \in Keys /\ store[v.key] # NoValue /\ v.timestamp =< store[v.key].timestamp
            /\ store[v.key].timestamp \in 0 .. clock /\ v.timestamp \in 0 .. clock
        BY <1>0, <2>5, <3>3 DEF Floor
      <4>2. v.key[1] # "OBD2_FREEZE_FRAME"
        BY <1>0, <3>3, <4>1 DEF FramesInv
      <4>3. store'[v.key] = NoValue \/ store'[v.key].timestamp \in 0 .. clock'
        BY <2>4, <4>1 DEF ClockInv
      <4> QED
        BY <1>0, <2>2, <2>3, <3>1, <4>1, <4>2, <4>3 DEF Floor
    <3> QED
      BY <3>2, <3>3
  <2>6. ASSUME NEW f, Gone(f)
        PROVE  Gone(f)'
    <3>1. Frame(f)[1] = "OBD2_FREEZE_FRAME"
      BY DEF Frame
    <3> QED
      BY <2>2, <2>6, <3>1 DEF Gone
  <2> QED
    BY <2>5, <2>6
<1> QED
  BY <1>1, <1>2, NextCases

LEMMA PromisesKept ==
    ASSUME "status" \notin DOMAIN NoValue, PlaceInv, ThreadsInv, ClockInv, FramesInv, [Next]_vars
    PROVE  \A r, o, steps : Promises(r, o, steps) => Promises(r, o, steps)'
<1>1. /\ \A v : Floor(v) => Floor(v)'
      /\ \A f : Gone(f) => Gone(f)'
  BY PromisesStay
<1>2. ASSUME NEW r, NEW o, NEW steps, Promises(r, o, steps)
      PROVE  Promises(r, o, steps)'
  BY <1>1, <1>2 DEF Promises
<1> QED
  BY <1>2

\* The step at an even position of the cleared frames removes a frame of its own.
LEMMA EvenIndex ==
    ASSUME NEW n \in Nat, NEW j \in 1 .. n
    PROVE  2 * j \in 1 .. 2 * n /\ (2 * j) % 2 # 1 /\ (2 * j + 1) \div 2 = j
  <1>1. j \in Nat /\ j >= 1 /\ j <= n
    OBVIOUS
  <1>2. 2 * j \in 1 .. 2 * n
    BY <1>1
  <1>3. (2 * j) % 2 = 0
    BY <1>1
  <1>4. (2 * j + 1) \div 2 = j
    BY <1>1
  <1> QED
    BY <1>2, <1>3, <1>4

\* A set begins with the steps that keep what its answer will promise.
LEMMA SetBegins ==
    ASSUME NEW r, Known(r), r.op = "set"
    PROVE  /\ Awaits(r) =>
                 /\ OnStep \in Range(StepsOf(r))
                 /\ \A s \in Range(StepsOf(r)) : s.do = "write" /\ s.onError = "fail"
           /\ Clears(r) =>
                 /\ \A s \in Range(StepsOf(r)) :
                       s.do \in {"read", "removeValue", "removeValuesForProperty"}
                 /\ \A f \in Cleared(r.value) : \E s \in Range(StepsOf(r)) : Removes(s, f)
<1> DEFINE k == <<r.prop, r.area>>
           plain == Plain(k, r.value)
<1>1. StepsOf(r) = maybeSetSpecialValue(r.prop, r.area, r.value, plain)
  BY DEF StepsOf
<1>2. ASSUME Awaits(r)
      PROVE  /\ OnStep \in Range(StepsOf(r))
             /\ \A s \in Range(StepsOf(r)) : s.do = "write" /\ s.onError = "fail"
  <2> DEFINE w == Write(k, r.value, "KEEP", "ON_VALUE_CHANGE", FALSE, "fail")
  <2>1. maybeSetSpecialValue(r.prop, r.area, r.value, plain) = setApPowerStateReport(k, r.value)
    BY <1>2, AssistsKnown DEF maybeSetSpecialValue, Awaits, isSupported, UserProps,
         OneShotProps, OtherProps
  <2>2. setApPowerStateReport(k, r.value) = <<w>> \o <<OnStep>>
    BY <1>2 DEF setApPowerStateReport, Awaits, OnStep
  <2>3. /\ w.do = "write" /\ w.onError = "fail"
        /\ OnStep.do = "write" /\ OnStep.onError = "fail"
    BY DEF Write, OnStep, Forced
  <2> HIDE DEF w
  <2>4. Range(<<w>> \o <<OnStep>>) = {w, OnStep}
    BY OneSeq, Joined
  <2> QED
    BY <1>1, <2>1, <2>2, <2>3, <2>4
<1>3. ASSUME Clears(r)
      PROVE  /\ \A s \in Range(StepsOf(r)) :
                   s.do \in {"read", "removeValue", "removeValuesForProperty"}
             /\ \A f \in Cleared(r.value) : \E s \in Range(StepsOf(r)) : Removes(s, f)
  <2> DEFINE v == r.value
             key(i) == Frame(v[(i + 1) \div 2])
             step(i) == IF i % 2 = 1 THEN Read(key(i), "INVALID_ARG")
                        ELSE [do |-> "removeValue", key |-> key(i)]
             steps == [i \in 1 .. 2 * Len(v) |-> step(i)]
             all == Step("removeValuesForProperty")
  <2>1. maybeSetSpecialValue(r.prop, r.area, r.value, plain) = clearObd2FreezeFrames(v)
    BY <1>3, AssistsKnown DEF maybeSetSpecialValue, Clears, isSupported, UserProps,
         OneShotProps, OtherProps
  <2>2. clearObd2FreezeFrames(v) = IF v = <<>> THEN <<all>> ELSE steps
    BY DEF clearObd2FreezeFrames, Frame
  <2>3. CASE v = <<>>
    <3>1. all.do = "removeValuesForProperty"
      BY DEF Step
    <3>2. StepsOf(r) = <<all>>
      BY <1>1, <2>1, <2>2, <2>3
    <3> HIDE DEF all
    <3>3. Range(<<all>>) = {all}
      BY OneSeq
    <3> QED
      BY <3>1, <3>2, <3>3 DEF Removes
  <2>4. CASE v # <<>>
    <3>1. v \in Seq(Range(v)) /\ Len(v) \in Nat /\ DOMAIN v = 1 .. Len(v)
      BY <1>3 DEF Known, Clears
    <3>2. StepsOf(r) = steps
      BY <1>1, <2>1, <2>2, <2>4
    <3>3. \A i : step(i).do \in {"read", "removeValue"}
      BY DEF Read
    <3>4. ASSUME NEW f \in Range(v)
          PROVE  \E i \in 1 .. 2 * Len(v) : step(i).do = "removeValue" /\ step(i).key = Frame(f)
      <4>1. PICK j \in 1 .. Len(v) : f = v[j]
        BY <3>1, <3>4 DEF Range
      <4>2. 2 * j \in 1 .. 2 * Len(v) /\ (2 * j) % 2 # 1 /\ (2 * j + 1) \div 2 = j
        BY <3>1, EvenIndex
      <4>3. step(2 * j) = [do |-> "removeValue", key |-> Frame(f)]
        BY <4>1, <4>2
      <4>4. step(2 * j).do = "removeValue" /\ step(2 * j).key = Frame(f)
        BY <4>3
      <4> HIDE DEF step
      <4> QED
        BY <4>2, <4>4
    <3> HIDE DEF step
    <3>5. /\ DOMAIN steps = 1 .. 2 * Len(v)
          /\ \A i \in 1 .. 2 * Len(v) : steps[i] = step(i)
      OBVIOUS
    <3> HIDE DEF steps
    <3>6. Range(steps) = {step(i) : i \in 1 .. 2 * Len(v)}
      BY <3>5 DEF Range
    <3>7. Cleared(v) = Range(v)
      BY <2>4 DEF Cleared
    <3> QED
      BY <3>2, <3>3, <3>4, <3>6, <3>7 DEF Removes
  <2> QED
    BY <2>3, <2>4
<1> QED
  BY <1>2, <1>3

\* A step that is done leaves the others.
LEMMA TailGoes ==
    ASSUME DOMAIN thread = Threads, NEW t \in Threads, DOMAIN thread[t] = Fields,
           IsSeq(thread[t].steps), thread[t].steps # <<>>
    PROVE  /\ thread' = Continue(t, <<>>) => thread'[t].steps = Tail(thread[t].steps)
           /\ \A status : thread' = Failed(t, status) => thread'[t].steps = <<>>
           /\ \A key, record : thread' = Returned(t, key, record) =>
                 thread'[t].steps = Tail(thread[t].steps)
<1> DEFINE s == Tail(thread[t].steps)
<1>1. s \in Seq(Range(s))
  BY HeadTail DEF IsSeq
<1>2. <<>> \o s = s
  BY <1>1, ConcatEmptySeq
<1>3. ASSUME thread' = Continue(t, <<>>)
      PROVE  thread'[t].steps = s
  <2>1. Moved(t, <<>> \o Tail(thread[t].steps))
    BY <1>3, Moves
  <2> QED
    BY <1>2, <2>1 DEF Moved
<1>4. ASSUME NEW status, thread' = Failed(t, status)
      PROVE  thread'[t].steps = <<>>
  BY <1>4, Moves DEF Moved
<1>5. ASSUME NEW key, NEW record, thread' = Returned(t, key, record)
      PROVE  thread'[t].steps = s
  BY <1>5, Moves DEF Moved
<1> QED
  BY <1>3, <1>4, <1>5, Zenon

\* The set handler goes on doing what its answer will promise.
LEMMA SetGoes ==
    ASSUME "status" \notin DOMAIN NoValue, WorkInv, FramesInv, [Next]_vars, Kept,
           Run("set"), ~finish("set"),
           Promises(Request("set"), thread["set"], thread["set"].steps)
    PROVE  Promises(Request("set"), thread["set"], thread["set"].steps)'
<1> DEFINE r == Request("set")
           old == thread["set"]
           new == thread'["set"]
<1>0. /\ PlaceInv /\ ThreadsInv /\ ClockInv /\ ClockInv' /\ "set" \in Threads
      /\ DOMAIN thread = Threads /\ DOMAIN old = Fields /\ DOMAIN store = Keys
  BY ClockStep DEF WorkInv, ThreadsInv, Fits, ClockInv, Threads, Handlers
<1>1. /\ Busy("set") /\ old.steps # <<>> /\ FitSteps(r, old.steps) /\ r.op = "set"
      /\ IsSeq(old.steps)
  BY <1>0, DoesNext DEF ThreadsInv, Fits, FitSteps
<1>2. Request("set")' = r
  BY <1>0, <1>1, RunMoves, MovedRequest
<1>3. Range(old.steps) = {Now("set")} \cup Range(Tail(old.steps))
  BY <1>1, HeadTail DEF Now
<1>4. /\ new.status = "OK" => old.status = "OK"
      /\ \/ new.value = old.value
         \/ ReadNow("set") /\ UNCHANGED <<store, clock>>
         \/ WroteNow("set")
         \/ GotNow("set")
  BY <1>0, RunReturns
<1>5. /\ \A v : Floor(v) => Floor(v)'
      /\ \A f : Gone(f) => Gone(f)'
  BY <1>0, PromisesStay
<1>6. (thread["set"].value # NoValue => Floor(thread["set"].value))'
  <2>1. CASE new.value = old.value
    BY <1>5, <2>1 DEF Promises
  <2>2. CASE ReadNow("set") /\ UNCHANGED <<store, clock>>
    BY <1>0, <2>2 DEF ReadNow, Floor, ClockInv
  <2>3. CASE WroteNow("set")
    BY <1>0, <2>3 DEF WroteNow, Floor, ClockInv
  <2>4. ~GotNow("set")
    BY <1>1, HvacWrites DEF GotNow
  <2> QED
    BY <1>4, <2>1, <2>2, <2>3, <2>4
<1>7. ASSUME new.status = "OK", Awaits(r)
      PROVE  /\ \A s \in Range(new.steps) : s.do = "write" /\ s.onError = "fail"
             /\ OnEvent \in new.sent \/ OnStep \in Range(new.steps)
  <2>1. /\ \A s \in Range(old.steps) : s.do = "write" /\ s.onError = "fail"
        /\ OnEvent \in old.sent \/ OnStep \in Range(old.steps)
    BY <1>4, <1>7 DEF Promises
  <2>2. Now("set").do = "write" /\ Now("set").onError = "fail"
    BY <1>3, <2>1
  <2>3. CASE stamp("set")
    <3>1. new.steps = old.steps /\ new.sent = old.sent
      BY <1>0, <2>3 DEF stamp, Fields
    <3> QED
      BY <2>1, <3>1
  <2>4. CASE writeValue("set")
    <3>1. /\ Now("set").mode = "ALWAYS" => <<Now("set").key[1], Now("set").value>> \in new.sent
          /\ new.steps = Tail(old.steps) /\ old.sent \subseteq new.sent
      BY <1>0, <1>7, <2>2, <2>4, WriteReturns
    <3>2. /\ OnStep.mode = "ALWAYS" /\ OnStep.value = "ON"
          /\ OnStep.key[1] = "AP_POWER_STATE_REQ"
      BY DEF OnStep, Forced, Write
    <3>3. Now("set") = OnStep => OnEvent \in new.sent
      BY <3>1, <3>2 DEF OnEvent
    <3> QED
      BY <1>3, <2>1, <3>1, <3>3
  <2> QED
    BY <1>0, <2>2, <2>3, <2>4, DoesNext
<1>8. ASSUME new.status = "OK", Clears(r)
      PROVE  /\ \A s \in Range(new.steps) :
                   s.do \in {"read", "removeValue", "removeValuesForProperty"}
             /\ \A f \in Cleared(r.value) :
                   Gone(f)' \/ \E s \in Range(new.steps) : Removes(s, f)
  <2>1. /\ \A s \in Range(old.steps) :
              s.do \in {"read", "removeValue", "removeValuesForProperty"}
        /\ \A f \in Cleared(r.value) :
              Gone(f) \/ \E s \in Range(old.steps) : Removes(s, f)
    BY <1>4, <1>8 DEF Promises
  <2>2. Now("set").do \in {"read", "removeValue", "removeValuesForProperty"}
    BY <1>3, <2>1
  <2>3. ASSUME new.steps = Tail(old.steps), \A f : Removes(Now("set"), f) => Gone(f)'
        PROVE  /\ \A s \in Range(new.steps) :
                   s.do \in {"read", "removeValue", "removeValuesForProperty"}
               /\ \A f \in Cleared(r.value) :
                     Gone(f)' \/ \E s \in Range(new.steps) : Removes(s, f)
    BY <1>3, <1>5, <2>1, <2>3
  <2>4. CASE read("set")
    <3>1. /\ Now("set").do = "read" /\ Now("set").missing # "OK"
      BY <1>1, <2>4, HvacWrites DEF read, Doing, Now
    <3>2. \/ \E status : status # "OK" /\ thread' = Failed("set", status)
          \/ \E key, record : thread' = Returned("set", key, record)
      BY <2>4, <3>1 DEF read
    <3>3. new.steps = Tail(old.steps)
      BY <1>0, <1>1, <1>8, <3>2, ValueMoves, TailGoes
    <3> QED
      BY <2>3, <3>1, <3>3 DEF Removes
  <2>5. CASE removeValue("set")
    <3>1. /\ Now("set").do = "removeValue" /\ thread' = Continue("set", <<>>)
          /\ store' = [store EXCEPT ![Now("set").key] = NoValue]
      BY <2>5 DEF removeValue, Doing, Now
    <3>2. new.steps = Tail(old.steps)
      BY <1>0, <1>1, <3>1, TailGoes
    <3>3. \A f : Removes(Now("set"), f) => Gone(f)'
      BY <1>0, <3>1 DEF Removes, Gone
    <3> QED
      BY <2>3, <3>2, <3>3
  <2>6. CASE removeValuesForProperty("set")
    <3>1. /\ thread' = Continue("set", <<>>)
          /\ store' = [k \in Keys |-> IF k[1] = "OBD2_FREEZE_FRAME" THEN NoValue ELSE store[k]]
      BY <2>6 DEF removeValuesForProperty
    <3>2. new.steps = Tail(old.steps)
      BY <1>0, <1>1, <3>1, TailGoes
    <3>3. \A f : Gone(f)'
      BY <3>1 DEF Gone, Frame
    <3> QED
      BY <2>3, <3>2, <3>3
  <2> QED
    BY <1>0, <2>2, <2>4, <2>5, <2>6, DoesNext
<1> QED
  BY <1>2, <1>6, <1>7, <1>8 DEF Promises

LEMMA SetsStep ==
    ASSUME "status" \notin DOMAIN NoValue, WorkInv, PromiseInv, [Next]_vars
    PROVE  SetsInv'
<1>0. /\ PlaceInv /\ ThreadsInv /\ ClockInv /\ FreshInv /\ FramesInv /\ SetsInv
      /\ "set" \in Threads /\ Len(asked) \in Nat
      /\ PlaceInv'
  BY PlaceStep DEF WorkInv, PromiseInv, Threads, Handlers, PlaceInv, AskedType
<1>1. \A r, o, steps : Promises(r, o, steps) => Promises(r, o, steps)'
  BY <1>0, PromisesKept
<1>2. ASSUME Kept, thread'["set"] = thread["set"]
      PROVE  (Busy("set") => Promises(Request("set"), thread["set"], thread["set"].steps))'
  <2>1. Busy("set")' = Busy("set") /\ (Busy("set") => Request("set")' = Request("set"))
    BY <1>0, <1>2, KeptRequest DEF ThreadsInv
  <2> QED
    BY <1>0, <1>1, <1>2, <2>1 DEF SetsInv
<1>3. ASSUME Kept, NEW i \in RequestsOf("set")', result'[i] # NoValue, result'[i] = result[i]
      PROVE  Promises(asked[i], result[i], <<>>)'
  <2>1. i \in 1 .. Len(asked') /\ asked'[i].op = "set" /\ i \in Ids
    BY <1>0, BoundsKnown DEF RequestsOf, PlaceInv, AskedType, Ids
  <2>2. i \in 1 .. Len(asked)
    BY <1>0, <1>3, <2>1 DEF FreshInv
  <2>3. asked'[i] = asked[i]
    BY <1>3, <2>2 DEF Kept
  <2>4. Promises(asked[i], result[i], <<>>)
    BY <1>0, <1>3, <2>1, <2>2, <2>3 DEF SetsInv, RequestsOf
  <2> QED
    BY <1>1, <1>3, <2>3, <2>4
<1>4. CASE Quiet
  BY <1>2, <1>3, <1>4 DEF Quiet, SetsInv
<1>5. CASE \E t \in Threads : \E r, id, ts : Begins(t, r, id, ts)
  <2>0. PICK t \in Threads : \E r, id, ts : Begins(t, r, id, ts)
    BY <1>5
  <2>1. PICK r, id, ts : Begins(t, r, id, ts)
    BY <2>0
  <2>2. Kept /\ UNCHANGED result /\ Known(r)
    BY <2>1 DEF Begins
  <2>3. CASE t = "set"
    <3>1. Same(Request("set")', r) /\ thread'["set"].steps = StepsOf(r)
      BY <1>0, <2>1, <2>3, BegunRequest
    <3>2. thread'["set"].value = NoValue /\ r.op = "set"
      BY <1>0, <2>1, <2>3 DEF Begins, Idle, ThreadsInv
    <3>3. /\ Awaits(r) =>
                 /\ OnStep \in Range(StepsOf(r))
                 /\ \A s \in Range(StepsOf(r)) : s.do = "write" /\ s.onError = "fail"
          /\ Clears(r) =>
                 /\ \A s \in Range(StepsOf(r)) :
                       s.do \in {"read", "removeValue", "removeValuesForProperty"}
                 /\ \A f \in Cleared(r.value) : \E s \in Range(StepsOf(r)) : Removes(s, f)
      BY <2>2, <3>2, SetBegins
    <3>4. Awaits(Request("set")') = Awaits(r) /\ Clears(Request("set")') = Clears(r)
          /\ Request("set")'.value = r.value
      BY <3>1 DEF Same, Awaits, Clears
    <3>5. Promises(Request("set"), thread["set"], thread["set"].steps)'
      BY <3>1, <3>2, <3>3, <3>4 DEF Promises
    <3> QED
      BY <1>3, <2>2, <3>5 DEF SetsInv
  <2>4. CASE t # "set"
    <3>1. thread'["set"] = thread["set"]
      BY <1>0, <2>1, <2>4, BegunRequest
    <3> QED
      BY <1>2, <1>3, <2>2, <3>1 DEF SetsInv
  <2> QED
    BY <2>3, <2>4
<1>6. CASE Kept /\ \E t \in Threads : Run(t) /\ ~finish(t)
  <2>1. PICK t \in Threads : Run(t) /\ ~finish(t)
    BY <1>6
  <2>2. UNCHANGED result /\ Busy(t)
    BY <1>0, <2>1, RunReturns, DoesNext
  <2>3. CASE t = "set"
    BY <1>0, <1>3, <1>6, <2>1, <2>2, <2>3, SetGoes DEF SetsInv
  <2>4. CASE t # "set"
    <3>1. thread'["set"] = thread["set"]
      BY <1>0, <2>1, <2>4, RunMoves DEF Moved, ClockInv
    <3> QED
      BY <1>2, <1>3, <1>6, <2>2, <3>1 DEF SetsInv
  <2> QED
    BY <2>3, <2>4
<1>7. CASE Kept /\ \E t \in Threads : finish(t)
  <2>1. PICK t \in Threads : finish(t)
    BY <1>7
  <2> DEFINE id == thread[t].id
  <2>2. /\ Busy(t) /\ thread[t].steps = <<>> /\ id \in 1 .. Len(asked)
        /\ result'[id].status = thread[t].status /\ result'[id].value = thread[t].value
        /\ result'[id].sent = thread[t].sent
        /\ \A i \in Ids \ {id} : result'[i] = result[i]
        /\ UNCHANGED asked /\ ~Busy(t)' /\ \A u \in Threads \ {t} : thread'[u] = thread[u]
    BY <1>0, <2>1, Finishes
  <2>3. (Busy("set") => Promises(Request("set"), thread["set"], thread["set"].steps))'
    BY <1>0, <1>2, <1>7, <2>2
  <2>4. ASSUME NEW i \in RequestsOf("set")', result'[i] # NoValue
        PROVE  Promises(asked[i], result[i], <<>>)'
    <3>1. CASE i # id
      <4>1. i \in Ids
        BY <1>0, BoundsKnown DEF RequestsOf, PlaceInv, AskedType, Ids
      <4> QED
        BY <1>3, <1>7, <2>2, <2>4, <3>1, <4>1
    <3>2. CASE i = id
      <4>1. asked[id].op = "set"
        BY <2>2, <3>2 DEF RequestsOf
      <4>2. t = "set"
        BY <1>0, <2>2, <4>1 DEF ThreadsInv, Fits, Request, Threads, Handlers
      <4>3. Promises(asked[id], thread["set"], <<>>)
        BY <1>0, <2>2, <4>2 DEF SetsInv, Request
      <4>4. Promises(asked[id], result'[id], <<>>)
        BY <2>2, <4>2, <4>3 DEF Promises
      <4> QED
        BY <1>1, <2>2, <3>2, <4>4
    <3> QED
      BY <3>1, <3>2
  <2> QED
    BY <2>3, <2>4 DEF SetsInv
<1> QED
  BY <1>0, <1>4, <1>5, <1>6, <1>7, NextCases

\* What was answered stays as it was.
LEMMA AnswersStay ==
    ASSUME "status" \notin DOMAIN NoValue, PlaceInv, ThreadsInv, ClockInv, FreshInv, [Next]_vars
    PROVE  \A i \in answered : /\ result'[i] = result[i] /\ asked'[i] = asked[i]
                               /\ Done(i, "set")' = Done(i, "set")
<1>0. /\ Len(asked) \in Nat /\ DOMAIN store = Keys
      /\ \A i \in answered : i \in 1 .. Len(asked) /\ i \in Ids /\ result[i] # NoValue
  BY BoundsKnown DEF PlaceInv, AskedType, QueuesInv, ClockInv, Ids
<1>1. Kept
  BY NextCases DEF Quiet, Begins
<1>2. ASSUME NEW i \in answered, result'[i] = result[i]
      PROVE  /\ result'[i] = result[i] /\ asked'[i] = asked[i]
             /\ Done(i, "set")' = Done(i, "set")
  <2>1. i \in 1 .. Len(asked) /\ i \in 1 .. Len(asked') /\ asked'[i] = asked[i]
    BY <1>0, <1>1 DEF Kept
  <2> QED
    BY <1>2, <2>1 DEF Done
<1>3. CASE UNCHANGED result
  BY <1>2, <1>3
<1>4. CASE \E t \in Threads : finish(t)
  <2>1. PICK t \in Threads : finish(t)
    BY <1>4
  <2>2. Busy(t) /\ \A i \in Ids \ {thread[t].id} : result'[i] = result[i]
    BY <2>1, Finishes
  <2>3. \A i \in answered : i # thread[t].id
    BY <1>0, <2>2 DEF FreshInv
  <2> QED
    BY <1>0, <1>2, <2>2, <2>3
<1>5. CASE \E t \in Threads : Run(t) /\ ~finish(t)
  BY <1>3, <1>5, RunReturns
<1> QED
  BY <1>3, <1>4, <1>5, NextCases DEF Quiet, Begins

LEMMA RespectsKept ==
    ASSUME "status" \notin DOMAIN NoValue, PlaceInv, ThreadsInv, ClockInv, FreshInv, [Next]_vars
    PROVE  /\ \A v, seen : seen \subseteq answered /\ NotStale(v, seen) => NotStale(v, seen)'
           /\ \A r, f : r.seen \subseteq answered /\ ~SeenGone(r, f) => ~SeenGone(r, f)'
           /\ \A r, o, steps : r.seen \subseteq answered /\ Respects(r, o, steps)
                               => Respects(r, o, steps)'
<1>1. \A i \in answered : /\ result'[i] = result[i] /\ asked'[i] = asked[i]
                          /\ Done(i, "set")' = Done(i, "set")
  BY AnswersStay
<1>2. ASSUME NEW v, NEW seen, seen \subseteq answered, NotStale(v, seen)
      PROVE  NotStale(v, seen)'
  BY <1>1, <1>2 DEF NotStale
<1>3. ASSUME NEW r, NEW f, r.seen \subseteq answered, ~SeenGone(r, f)
      PROVE  ~SeenGone(r, f)'
  BY <1>1, <1>3 DEF SeenGone
<1>4. ASSUME NEW r, NEW o, NEW steps, r.seen \subseteq answered, Respects(r, o, steps)
      PROVE  Respects(r, o, steps)'
  BY <1>2, <1>3, <1>4 DEF Respects
<1> QED
  BY <1>2, <1>3, <1>4

\* The steps that a get of freeze frames begins with.
LEMMA GetBegins ==
    ASSUME NEW r, r.op = "get"
    PROVE  /\ r.prop = "OBD2_FREEZE_FRAME" =>
                 /\ \A s \in Range(StepsOf(r)) : \/ s.do = "read" /\ s.key = Frame(r.value)
                                                 \/ s.do \in {"check", "fail"}
                 /\ \E s \in Range(StepsOf(r)) : s.do \in {"read", "fail"}
           /\ r.prop = "OBD2_FREEZE_FRAME_INFO" =>
                 /\ \A s \in Range(StepsOf(r)) : s.do = "getObd2DtcInfo"
                 /\ StepsOf(r) # <<>>
<1> USE DEF isSupported, UserProps, OneShotProps, mPowerPropIds, hvacPowerDependentProps
<1>1. StepsOf(r) = maybeGetSpecialValue(r.prop, r.area, r.value)
  BY DEF StepsOf
<1>2. CASE r.prop = "OBD2_FREEZE_FRAME"
  <2> DEFINE a == Fail("INVALID_ARG")
             b == Check("frames", r.prop, r.area)
             c == Read(Frame(r.value), "INVALID_ARG")
  <2>1. StepsOf(r) = IF r.value = Malformed THEN <<a>> ELSE <<b, c>>
    BY <1>1, <1>2 DEF maybeGetSpecialValue, Frame
  <2>2. a.do = "fail" /\ b.do = "check" /\ c.do = "read" /\ c.key = Frame(r.value)
    BY DEF Fail, Check, Read
  <2> HIDE DEF a, b, c
  <2>3. Range(<<a>>) = {a} /\ Range(<<b, c>>) = {b, c}
    BY OneSeq, TwoSeq
  <2> QED
    BY <1>2, <2>1, <2>2, <2>3
<1>3. CASE r.prop = "OBD2_FREEZE_FRAME_INFO"
  <2> DEFINE a == Step("getObd2DtcInfo")
  <2>1. StepsOf(r) = <<a>>
    BY <1>1, <1>3 DEF maybeGetSpecialValue
  <2>2. a.do = "getObd2DtcInfo"
    BY DEF Step
  <2> HIDE DEF a
  <2>3. Range(<<a>>) = {a} /\ <<a>> # <<>>
    BY OneSeq
  <2> QED
    BY <1>3, <2>1, <2>2, <2>3
<1> QED
  BY <1>2, <1>3

LEMMA FrameKeys ==
    \A k \in Keys : k[1] = "OBD2_FREEZE_FRAME" => k = Frame(k[2])
<1>1. "OBD2_FREEZE_FRAME" \notin DOMAIN Assists \cup AssistStates
  BY AssistsKnown DEF OtherProps
<1> QED
  BY <1>1 DEF Keys, Frame, UserProps, OneShotProps

\* What was seen to be set is a floor for what is read now, and frames that
\* were seen to be cleared are gone.
LEMMA SeenHolds ==
    ASSUME SetsInv
    PROVE  /\ \A i : Done(i, "set") /\ result[i].value # NoValue => Floor(result[i].value)
           /\ \A r, f : SeenGone(r, f) => Gone(f)
<1>1. ASSUME NEW i, Done(i, "set")
      PROVE  Promises(asked[i], result[i], <<>>) /\ result[i].status = "OK"
  BY <1>1 DEF Done, SetsInv, RequestsOf
<1>2. Range(<<>>) = {}
  BY NothingInSeq
<1> QED
  BY <1>1, <1>2 DEF Promises, SeenGone

\* The get handler goes on respecting what was seen when its request was made.
LEMMA GetGoes ==
    ASSUME "status" \notin DOMAIN NoValue, WorkInv, PromiseInv, [Next]_vars, Kept,
           Run("get"), ~finish("get"),
           Respects(Request("get"), thread["get"], thread["get"].steps)
    PROVE  Respects(Request("get"), thread["get"], thread["get"].steps)'
<1> DEFINE r == Request("get")
           old == thread["get"]
           new == thread'["get"]
<1>0. /\ PlaceInv /\ ThreadsInv /\ ClockInv /\ FreshInv /\ SetsInv /\ "get" \in Threads
      /\ DOMAIN thread = Threads /\ DOMAIN old = Fields /\ DOMAIN store = Keys
  BY DEF WorkInv, PromiseInv, ThreadsInv, Fits, ClockInv, Threads, Handlers
<1>1. /\ Busy("get") /\ old.steps # <<>> /\ FitSteps(r, old.steps) /\ r.op = "get"
      /\ IsSeq(old.steps) /\ r.seen \subseteq answered
  BY <1>0, DoesNext DEF ThreadsInv, Fits, FitSteps, FreshInv, Request
<1>2. Request("get")' = r
  BY <1>0, <1>1, RunMoves, MovedRequest
<1>3. Range(old.steps) = {Now("get")} \cup Range(Tail(old.steps))
  BY <1>1, HeadTail DEF Now
<1>4. /\ new.status = "OK" => old.status = "OK"
      /\ \/ new.value = old.value
         \/ ReadNow("get")
         \/ WroteNow("get")
         \/ GotNow("get")
  BY <1>0, RunReturns
<1>5. /\ \A i : Done(i, "set") /\ result[i].value # NoValue => Floor(result[i].value)
      /\ \A f : SeenGone(r, f) => Gone(f)
  BY <1>0, SeenHolds
<1>6. /\ \A v : NotStale(v, r.seen) => NotStale(v, r.seen)'
      /\ \A f : ~SeenGone(r, f) => ~SeenGone(r, f)'
  <2>1. /\ \A v, seen : seen \subseteq answered /\ NotStale(v, seen) => NotStale(v, seen)'
        /\ \A q, f : q.seen \subseteq answered /\ ~SeenGone(q, f) => ~SeenGone(q, f)'
    BY <1>0, RespectsKept
  <2>2. r.seen' = r.seen
    BY <1>2
  <2>3. ASSUME NEW v, NotStale(v, r.seen)
        PROVE  NotStale(v, r.seen)'
    BY <1>1, <2>1, <2>2, <2>3 DEF NotStale
  <2>4. ASSUME NEW f, ~SeenGone(r, f)
        PROVE  ~SeenGone(r, f)'
    BY <1>1, <1>2, <2>1, <2>4 DEF SeenGone
  <2> QED
    BY <2>3, <2>4
<1>7. new.value # NoValue => NotStale(new.value, r.seen)
  <2>1. CASE new.value = old.value
    BY <2>1 DEF Respects
  <2>2. CASE ReadNow("get") \/ GotNow("get")
    <3>1. \A v : /\ v.key = new.value.key /\ Floor(v) => v.timestamp =< new.value.timestamp
      BY <1>0, <2>2 DEF Floor, ReadNow, GotNow, ClockInv
    <3> QED
      BY <1>5, <3>1 DEF NotStale
  <2>3. ~WroteNow("get")
    <3>1. Writes(r) = {}
      BY <1>1 DEF Writes, WriteOps
    <3> QED
      BY <1>1, <3>1, HvacWrites DEF WroteNow
  <2> QED
    BY <1>4, <2>1, <2>2, <2>3
<1>8. ASSUME new.status = "OK", r.prop = "OBD2_FREEZE_FRAME"
      PROVE  /\ \A s \in Range(new.steps) : \/ s.do = "read" /\ s.key = Frame(r.value)
                                            \/ s.do \in {"check", "fail"}
             /\ \/ ~SeenGone(r, r.value)
                \/ \E s \in Range(new.steps) : s.do \in {"read", "fail"}
  <2>1. /\ \A s \in Range(old.steps) : \/ s.do = "read" /\ s.key = Frame(r.value)
                                       \/ s.do \in {"check", "fail"}
        /\ \/ ~SeenGone(r, r.value)
           \/ \E s \in Range(old.steps) : s.do \in {"read", "fail"}
    BY <1>4, <1>8 DEF Respects
  <2>2. \/ Now("get").do = "read" /\ Now("get").key = Frame(r.value)
        \/ Now("get").do \in {"check", "fail"}
    BY <1>3, <2>1
  <2>3. CASE check("get")
    <3>1. Now("get").do = "check"
      BY <2>3 DEF check, Doing, Now
    <3>2. \/ \E status : status # "OK" /\ thread' = Failed("get", status)
          \/ thread' = Continue("get", <<>>)
      BY <2>3 DEF check
    <3>3. new.steps = Tail(old.steps)
      BY <1>0, <1>1, <1>8, <3>2, ValueMoves, TailGoes
    <3> QED
      BY <1>3, <2>1, <3>1, <3>3
  <2>4. ~fail("get")
    <3>1. ASSUME fail("get")
          PROVE  FALSE
      <4>1. Now("get").status # "OK" /\ thread' = Failed("get", Now("get").status)
        BY <1>1, <3>1, HvacWrites DEF fail, Doing, Now
      <4> QED
        BY <1>0, <1>8, <4>1, ValueMoves
    <3> QED
      BY <3>1
  <2>5. CASE read("get")
    <3>1. Now("get").do = "read" /\ Now("get").missing # "OK"
      BY <1>1, <2>5, HvacWrites DEF read, Doing, Now
    <3>2. \/ \E status : status # "OK" /\ thread' = Failed("get", status)
          \/ /\ Now("get").key \in Keys /\ store[Now("get").key] # NoValue
             /\ thread' = Returned("get", Now("get").key, store[Now("get").key])
      BY <2>5, <3>1 DEF read
    <3>3. /\ Now("get").key \in Keys /\ store[Now("get").key] # NoValue
          /\ new.steps = Tail(old.steps)
      BY <1>0, <1>1, <1>8, <3>2, ValueMoves, TailGoes
    <3>4. ~SeenGone(r, r.value)
      BY <1>5, <2>2, <3>1, <3>3 DEF Gone
    <3> QED
      BY <1>3, <2>1, <3>3, <3>4
  <2> QED
    BY <1>0, <2>2, <2>3, <2>4, <2>5, DoesNext
<1>9. ASSUME new.status = "OK", r.prop = "OBD2_FREEZE_FRAME_INFO"
      PROVE  /\ \A s \in Range(new.steps) : s.do = "getObd2DtcInfo"
             /\ \A f \in new.value.value : ~SeenGone(r, f)
  <2>1. \A s \in Range(old.steps) : s.do = "getObd2DtcInfo"
    BY <1>4, <1>9 DEF Respects
  <2>2. getObd2DtcInfo("get")
    BY <1>0, <1>3, <2>1, DoesNext
  <2> DEFINE found == {k[2] : k \in readValuesForProperty("OBD2_FREEZE_FRAME")}
             record == [value |-> found, timestamp |-> clock]
  <2>3. thread' = Returned("get", <<"OBD2_FREEZE_FRAME_INFO", Global>>, record)
    BY <2>2 DEF getObd2DtcInfo
  <2>4. record.value = found
    OBVIOUS
  <2> HIDE DEF record
  <2>5. new.steps = Tail(old.steps) /\ new.value.value = found
    BY <1>0, <1>1, <2>3, <2>4, ValueMoves, TailGoes
  <2>6. \A f \in found : ~Gone(f)
    BY FrameKeys DEF readValuesForProperty, Gone
  <2> QED
    BY <1>3, <1>5, <2>1, <2>5, <2>6
<1> QED
  BY <1>2, <1>6, <1>7, <1>8, <1>9 DEF Respects

LEMMA GetsStep ==
    ASSUME "status" \notin DOMAIN NoValue, WorkInv, PromiseInv, [Next]_vars
    PROVE  GetsInv'
<1>0. /\ PlaceInv /\ ThreadsInv /\ ClockInv /\ FreshInv /\ GetsInv
      /\ "get" \in Threads /\ Len(asked) \in Nat /\ PlaceInv'
      /\ \A i \in 1 .. Len(asked) : asked[i].seen \subseteq answered
  BY PlaceStep DEF WorkInv, PromiseInv, FreshInv, Threads, Handlers, PlaceInv, AskedType
<1>1. \A r, o, steps : r.seen \subseteq answered /\ Respects(r, o, steps)
                       => Respects(r, o, steps)'
  BY <1>0, RespectsKept
<1>2. ASSUME Kept, thread'["get"] = thread["get"]
      PROVE  (Busy("get") => Respects(Request("get"), thread["get"], thread["get"].steps))'
  <2>1. Busy("get")' = Busy("get") /\ (Busy("get") => Request("get")' = Request("get"))
    BY <1>0, <1>2, KeptRequest DEF ThreadsInv
  <2>2. Busy("get") => Request("get").seen \subseteq answered
    BY <1>0 DEF ThreadsInv, Fits, Request
  <2> QED
    BY <1>0, <1>1, <1>2, <2>1, <2>2 DEF GetsInv
<1>3. ASSUME Kept, NEW i \in RequestsOf("get")', result'[i] # NoValue, result'[i] = result[i]
      PROVE  Respects(asked[i], result[i], <<>>)'
  <2>1. i \in 1 .. Len(asked') /\ asked'[i].op = "get" /\ i \in Ids
    BY <1>0, BoundsKnown DEF RequestsOf, PlaceInv, AskedType, Ids
  <2>2. i \in 1 .. Len(asked)
    BY <1>0, <1>3, <2>1 DEF FreshInv
  <2>3. asked'[i] = asked[i] /\ asked[i].seen \subseteq answered
    BY <1>0, <1>3, <2>2 DEF Kept
  <2>4. Respects(asked[i], result[i], <<>>)
    BY <1>0, <1>3, <2>1, <2>2, <2>3 DEF GetsInv, RequestsOf
  <2> QED
    BY <1>1, <1>3, <2>3, <2>4
<1>4. CASE Quiet
  BY <1>2, <1>3, <1>4 DEF Quiet, GetsInv
<1>5. CASE \E t \in Threads : \E r, id, ts : Begins(t, r, id, ts)
  <2>0. PICK t \in Threads : \E r, id, ts : Begins(t, r, id, ts)
    BY <1>5
  <2>1. PICK r, id, ts : Begins(t, r, id, ts)
    BY <2>0
  <2>2. Kept /\ UNCHANGED result /\ Known(r)
    BY <2>1 DEF Begins
  <2>3. CASE t = "get"
    <3>1. Same(Request("get")', r) /\ thread'["get"].steps = StepsOf(r)
      BY <1>0, <2>1, <2>3, BegunRequest
    <3>2. thread'["get"].value = NoValue /\ r.op = "get"
      BY <1>0, <2>1, <2>3 DEF Begins, Idle, ThreadsInv
    <3>3. /\ r.prop = "OBD2_FREEZE_FRAME" =>
                /\ \A s \in Range(StepsOf(r)) : \/ s.do = "read" /\ s.key = Frame(r.value)
                                                \/ s.do \in {"check", "fail"}
                /\ \E s \in Range(StepsOf(r)) : s.do \in {"read", "fail"}
          /\ r.prop = "OBD2_FREEZE_FRAME_INFO" =>
                /\ \A s \in Range(StepsOf(r)) : s.do = "getObd2DtcInfo"
                /\ StepsOf(r) # <<>>
      BY <3>2, GetBegins
    <3>4. Request("get")'.prop = r.prop /\ Request("get")'.value = r.value
      BY <3>1 DEF Same
    <3>5. Respects(Request("get"), thread["get"], thread["get"].steps)'
      BY <3>1, <3>2, <3>3, <3>4 DEF Respects
    <3> QED
      BY <1>3, <2>2, <3>5 DEF GetsInv
  <2>4. CASE t # "get"
    <3>1. thread'["get"] = thread["get"]
      BY <1>0, <2>1, <2>4, BegunRequest
    <3> QED
      BY <1>2, <1>3, <2>2, <3>1 DEF GetsInv
  <2> QED
    BY <2>3, <2>4
<1>6. CASE Kept /\ \E t \in Threads : Run(t) /\ ~finish(t)
  <2>1. PICK t \in Threads : Run(t) /\ ~finish(t)
    BY <1>6
  <2>2. UNCHANGED result /\ Busy(t)
    BY <1>0, <2>1, RunReturns, DoesNext
  <2>3. CASE t = "get"
    BY <1>0, <1>3, <1>6, <2>1, <2>2, <2>3, GetGoes DEF GetsInv
  <2>4. CASE t # "get"
    <3>1. thread'["get"] = thread["get"]
      BY <1>0, <2>1, <2>4, RunMoves DEF Moved, ClockInv
    <3> QED
      BY <1>2, <1>3, <1>6, <2>2, <3>1 DEF GetsInv
  <2> QED
    BY <2>3, <2>4
<1>7. CASE Kept /\ \E t \in Threads : finish(t)
  <2>1. PICK t \in Threads : finish(t)
    BY <1>7
  <2> DEFINE id == thread[t].id
  <2>2. /\ Busy(t) /\ thread[t].steps = <<>> /\ id \in 1 .. Len(asked)
        /\ result'[id].status = thread[t].status /\ result'[id].value = thread[t].value
        /\ result'[id].sent = thread[t].sent
        /\ \A i \in Ids \ {id} : result'[i] = result[i]
        /\ UNCHANGED asked /\ ~Busy(t)' /\ \A u \in Threads \ {t} : thread'[u] = thread[u]
    BY <1>0, <2>1, Finishes
  <2>3. (Busy("get") => Respects(Request("get"), thread["get"], thread["get"].steps))'
    BY <1>0, <1>2, <1>7, <2>2
  <2>4. ASSUME NEW i \in RequestsOf("get")', result'[i] # NoValue
        PROVE  Respects(asked[i], result[i], <<>>)'
    <3>1. CASE i # id
      <4>1. i \in Ids
        BY <1>0, BoundsKnown DEF RequestsOf, PlaceInv, AskedType, Ids
      <4> QED
        BY <1>3, <1>7, <2>2, <2>4, <3>1, <4>1
    <3>2. CASE i = id
      <4>1. asked[id].op = "get"
        BY <2>2, <3>2 DEF RequestsOf
      <4>2. t = "get"
        BY <1>0, <2>2, <4>1 DEF ThreadsInv, Fits, Request, Threads, Handlers
      <4>3. Respects(asked[id], thread["get"], <<>>)
        BY <1>0, <2>2, <4>2 DEF GetsInv, Request
      <4>4. Respects(asked[id], result'[id], <<>>)
        BY <2>2, <4>2, <4>3 DEF Respects
      <4> QED
        BY <1>0, <1>1, <2>2, <3>2, <4>4
    <3> QED
      BY <3>1, <3>2
  <2> QED
    BY <2>3, <2>4 DEF GetsInv
<1> QED
  BY <1>0, <1>4, <1>5, <1>6, <1>7, NextCases

LEMMA PromiseInit ==
    ASSUME Init
    PROVE  PromiseInv
<1>1. \A t \in Threads : ~Busy(t)
  <2>1. thread = [t \in Threads |-> Idle] /\ Idle.id = 0
    BY DEF Init, Idle
  <2> QED
    BY <2>1 DEF Busy
<1>2. Len(asked) = 0 /\ 1 .. Len(asked) = {} /\ "set" \in Threads /\ "get" \in Threads
  BY DEF Init, Threads, Handlers
<1>3. FreshInv
  BY <1>1, <1>2 DEF Init, FreshInv
<1>4. FramesInv
  <2>1. \A k \in Keys : store[k] = storePropInitialValue(k)
    BY DEF Init
  <2>2. \A k : storePropInitialValue(k) # NoValue =>
           storePropInitialValue(k).timestamp = 0
    BY DEF storePropInitialValue
  <2> QED
    BY <2>1, <2>2 DEF FramesInv
<1>5. SetsInv /\ GetsInv
  BY <1>1, <1>2 DEF SetsInv, GetsInv, RequestsOf
<1> QED
  BY <1>3, <1>4, <1>5 DEF PromiseInv

\* What a handler answered is done, however the two handlers and the dump
\* command interleave: a report of WAIT_FOR_VHAL that was answered with OK has
\* sent ON, a get that was made after a set was answered does not return what
\* was there before it, because the store takes no value that is older than
\* what it has, and a freeze frame that was cleared is neither returned nor
\* listed by a get that was made afterwards.
THEOREM AnswersCorrect ==
    ASSUME "status" \notin DOMAIN NoValue
    PROVE  Spec => []AnsweredIsDone
<1> DEFINE Inv == WorkInv /\ PromiseInv
<1>1. Init => Inv
  BY WorkInit, PromiseInit
<1>2. Inv /\ [Next]_vars => Inv'
  BY WorkStep, FreshStep, FramesStep, SetsStep, GetsStep DEF WorkInv, PromiseInv
<1>3. Inv => AnsweredIsDone
  <2> SUFFICES ASSUME Inv
               PROVE  AnsweredIsDone
    OBVIOUS
  <2>0. SetsInv /\ GetsInv /\ Range(<<>>) = {}
    BY NothingInSeq DEF PromiseInv
  <2>1. WaitForVhalAnswered
    BY <2>0 DEF WaitForVhalAnswered, SetsInv, RequestsOf, Promises, Awaits, OnEvent
  <2>2. ASSUME NEW j, Done(j, "get")
        PROVE  Respects(asked[j], result[j], <<>>) /\ result[j].status = "OK"
    BY <2>0, <2>2 DEF Done, GetsInv, RequestsOf
  <2>3. GetIsNotStale
    BY <2>2 DEF GetIsNotStale, Respects, NotStale
  <2>4. ClearedFramesStayGone
    <3> SUFFICES ASSUME NEW i \in Ids, NEW j \in Ids, Done(i, "set"), Clears(asked[i]),
                        Done(j, "get"), i \in asked[j].seen
                 PROVE  /\ asked[j].prop = "OBD2_FREEZE_FRAME" =>
                              asked[j].value \notin Cleared(asked[i].value)
                        /\ asked[j].prop = "OBD2_FREEZE_FRAME_INFO" =>
                              result[j].value.value \cap Cleared(asked[i].value) = {}
      BY DEF ClearedFramesStayGone, Clears, Cleared
    <3>1. \A f \in Cleared(asked[i].value) : SeenGone(asked[j], f)
      BY DEF SeenGone
    <3> QED
      BY <2>0, <2>2, <3>1 DEF Respects
  <2> QED
    BY <2>1, <2>3, <2>4 DEF AnsweredIsDone
<1> HIDE DEF Inv
<1> QED
  BY <1>1, <1>2, <1>3, PTL DEF Spec
============================================================================

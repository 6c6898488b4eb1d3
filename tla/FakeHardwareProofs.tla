------------------------- MODULE FakeHardwareProofs -------------------------
(***************************************************************************)
(* For any properties, values, rates and number of writes: the refresh     *)
(* tables agree with the timers, and the newest event of a subscribed      *)
(* [propId, areaId] carries the value of the store.                        *)
(***************************************************************************)
EXTENDS FakeHardware, TLAPS

\* A callback has at most one value of a [propId, areaId].
OneEach ==
    \A t \in Threads : \A e, f \in inFlight[t] : e.prop = f.prop => e = f

\* A thread that has something to write has no callback to make.
OneThingAtATime ==
    /\ bus # Nothing => inFlight["bus"] = {}
    /\ refreshing # Nothing => inFlight["timer"] = {}

OwedIsSubscribed == \A p \in owed : Subscribed(p)

ReceivedOfProp ==
    \A p \in PropIdAreaIds : received[p] # Nothing => received[p].prop = p

\* Nothing else gets the timestamp of the event that is on the bus.
BusTimeIsUnique ==
    bus # Nothing =>
        /\ bus.timestamp =< clock /\ bus.timestamp =< MaxClock
        /\ \A p \in PropIdAreaIds :
              /\ store[p].timestamp # bus.timestamp
              /\ \A e \in EventsOf(p) : e.timestamp # bus.timestamp

\* An event is a copy of what the store once held.
EventsAreOfStore ==
    \A p \in PropIdAreaIds : \A e \in EventsOf(p) :
        /\ e.timestamp =< store[p].timestamp
        /\ e.timestamp = store[p].timestamp => SameValue(e, store[p])

TimeTellsValue ==
    \A p \in PropIdAreaIds : \A e, f \in EventsOf(p) :
        e.timestamp = f.timestamp => SameValue(e, f)

Shape == OneEach /\ OneThingAtATime /\ OwedIsSubscribed /\ ReceivedOfProp

EventOrder == BusTimeIsUnique /\ EventsAreOfStore /\ TimeTellsValue
                /\ NewestEventIsCurrent

Inv == TypeOK /\ RefreshBooksAgree /\ Shape /\ EventOrder

----------------------------------------------------------------------------
USE FakeHardwareAssumption, NothingAssumption

\* What writeValue leaves behind has its type.
LEMMA WriteType ==
    ASSUME TypeOK, NEW t \in Threads, NEW new \in PropValues,
           writeValue(t, new)
    PROVE  /\ store' \in [PropIdAreaIds -> PropValues]
           /\ inFlight' \in [Threads -> SUBSET PropValues]
           /\ owed' \subseteq PropIdAreaIds
           /\ \A p \in PropIdAreaIds : store'[p].prop = p
           /\ \A p \in PropIdAreaIds : \/ store'[p] = store[p]
                                       \/ store'[p].timestamp = new.timestamp
<1>1. new.prop \in PropIdAreaIds
  BY DEF PropValues
<1>2. CASE store[new.prop].timestamp > new.timestamp
  BY <1>2 DEF TypeOK, writeValue
<1>3. CASE ~(store[new.prop].timestamp > new.timestamp)
  <2>1. /\ store' = [store EXCEPT ![new.prop] = new]
        /\ inFlight' = [inFlight EXCEPT ![t] = IF ~SameValue(store[new.prop], new)
                                               THEN {new} ELSE {}]
        /\ owed' \subseteq owed \cup {new.prop}
    BY <1>3 DEF writeValue
  <2>2. QED
    BY <1>1, <2>1 DEF TypeOK
<1>4. QED
  BY <1>2, <1>3

LEMMA TypeInit == Init => TypeOK
<1> SUFFICES ASSUME Init PROVE TypeOK
  OBVIOUS
<1>1. /\ store \in [PropIdAreaIds -> PropValues]
      /\ \A p \in PropIdAreaIds : store[p].prop = p /\ store[p].timestamp =< clock
  BY DEF Init
<1>2. /\ refreshing \in {Nothing} \cup
                           UNION {[S -> EventModes] : S \in SUBSET Continuous}
      /\ stuck \in BOOLEAN
  BY DEF Init
<1>3. QED
  BY <1>1, <1>2 DEF Init, TypeOK

\* The tables of registerRefreshLocked and unregisterRefreshLocked agree after
\* a step; the timer thread's copy of them needs that for its type.
LEMMA BooksStep == TypeOK /\ RefreshBooksAgree /\ [Next]_vars => RefreshBooksAgree'
<1> SUFFICES ASSUME TypeOK, RefreshBooksAgree, [Next]_vars
             PROVE  RefreshBooksAgree'
  OBVIOUS
<1>1. ASSUME NEW p \in Continuous, NEW mode \in EventModes, NEW i \in Intervals,
             subscribeContinuous(p, mode, i)
      PROVE  RefreshBooksAgree'
  <2>1. [eventMode |-> mode, intervalInNanos |-> i] \in RefreshInfos
    BY DEF RefreshInfos
  <2> DEFINE info == [eventMode |-> mode, intervalInNanos |-> i]
  <2>2. info # Nothing /\ info.intervalInNanos = i
    BY <2>1
  <2>3. /\ mRefreshInfoByPropIdAreaId' =
              [mRefreshInfoByPropIdAreaId EXCEPT ![p] = info]
        /\ mActionByIntervalInNanos' =
              [j \in Intervals |-> IF j = i
                                   THEN (mActionByIntervalInNanos[j] \ {p}) \cup {p}
                                   ELSE mActionByIntervalInNanos[j] \ {p}]
        /\ timers' = {j \in timers : mActionByIntervalInNanos[j] \ {p} # {}}
                        \cup {i}
    <3>1. \A j \in timers : unregisterRefreshLocked(p)[j] =
                              mActionByIntervalInNanos[j] \ {p}
      BY DEF unregisterRefreshLocked, TypeOK
    <3>2. QED
      BY <1>1, <3>1 DEF subscribeContinuous, registerRefreshLocked,
         unregisterRefreshLocked
  <2> HIDE DEF info
  <2>4. \A q \in Continuous, j \in Intervals :
           q \in mActionByIntervalInNanos'[j]
             <=> /\ mRefreshInfoByPropIdAreaId'[q] # Nothing
                 /\ mRefreshInfoByPropIdAreaId'[q].intervalInNanos = j
    BY <2>2, <2>3 DEF RefreshBooksAgree, TypeOK
  <2>5. timers' = {j \in Intervals : mActionByIntervalInNanos'[j] # {}}
    BY <2>3 DEF RefreshBooksAgree, TypeOK
  <2>6. QED
    BY <2>4, <2>5 DEF RefreshBooksAgree
<1>2. ASSUME NEW p \in PropIdAreaIds, unsubscribe(p)
      PROVE  RefreshBooksAgree'
  BY <1>2 DEF unsubscribe, unregisterRefreshLocked, RefreshBooksAgree, TypeOK
<1>3. ASSUME UNCHANGED <<mRefreshInfoByPropIdAreaId, mActionByIntervalInNanos,
                         timers>>
      PROVE  RefreshBooksAgree'
  BY <1>3 DEF RefreshBooksAgree
<1>4. QED
  BY <1>1, <1>2, <1>3 DEF Next, vars, subscriptions, setValue, nextEvent,
     eventFromVehicleBus, refreshTimestampForInterval, refreshTimestamps,
     onValuesChangeCallback, subscribeOnChange

LEMMA TypeStep == TypeOK /\ RefreshBooksAgree /\ [Next]_vars => TypeOK'
<1> SUFFICES ASSUME TypeOK, RefreshBooksAgree, [Next]_vars PROVE TypeOK'
  OBVIOUS
<1> USE DEF TypeOK
<1>0. /\ Continuous \subseteq PropIdAreaIds
      /\ \A p \in PropIdAreaIds : /\ store[p] \in PropValues
                                  /\ store[p].value \in Values
                                  /\ store[p].timestamp \in 0 .. MaxClock + 1
      /\ bus # Nothing => bus.timestamp \in Nat
  BY DEF PropIdAreaIds, PropValues
<1>1. ASSUME NEW p \in PropIdAreaIds, NEW v \in Values, setValue(p, v)
      PROVE  TypeOK'
  <2> DEFINE new == [store[p] EXCEPT !.value = v, !.timestamp = clock']
  <2>0. clock' \in 0 .. MaxClock + 1 /\ clock' > clock
    BY <1>1 DEF setValue
  <2>1. new \in PropValues
    <3>1. [store[p] EXCEPT !.value = v] \in PropValues
      BY <1>0 DEF PropValues
    <3>2. QED
      BY <2>0, <3>1 DEF PropValues
  <2>2. writeValue("set", new)
    BY <1>1 DEF setValue
  <2>3. new.timestamp = clock'
    BY <1>0 DEF PropValues
  <2>4. QED
    <3> HIDE DEF new
    <3>1. "set" \in Threads
      BY DEF Threads
    <3>2. /\ store' \in [PropIdAreaIds -> PropValues]
          /\ inFlight' \in [Threads -> SUBSET PropValues]
          /\ owed' \subseteq PropIdAreaIds
          /\ \A q \in PropIdAreaIds : /\ store'[q].prop = q
                                      /\ \/ store'[q] = store[q]
                                         \/ store'[q].timestamp = new.timestamp
      BY <2>1, <2>2, <3>1, WriteType
    <3> QED BY <1>0, <1>1, <2>0, <2>3, <3>2 DEF setValue, subscriptions, history
<1>2. ASSUME NEW p \in PropIdAreaIds, NEW v \in Values, nextEvent(p, v)
      PROVE  TypeOK'
  BY <1>0, <1>2 DEF nextEvent, PropValues, subscriptions, history
<1>3. CASE eventFromVehicleBus
  <2>1. bus \in PropValues /\ writeValue("bus", bus)
    BY <1>3 DEF eventFromVehicleBus
  <2>2. "bus" \in Threads
    BY DEF Threads
  <2>3. /\ store' \in [PropIdAreaIds -> PropValues]
        /\ inFlight' \in [Threads -> SUBSET PropValues]
        /\ owed' \subseteq PropIdAreaIds
        /\ \A q \in PropIdAreaIds : /\ store'[q].prop = q
                                    /\ \/ store'[q] = store[q]
                                       \/ store'[q].timestamp = bus.timestamp
    BY <2>1, <2>2, WriteType
  <2>4. QED
    BY <1>0, <1>3, <2>3 DEF eventFromVehicleBus, subscriptions, history
<1>4. ASSUME NEW i \in Intervals, refreshTimestampForInterval(i)
      PROVE  TypeOK'
  <2>1. \A p \in mActionByIntervalInNanos[i] :
           mRefreshInfoByPropIdAreaId[p].eventMode \in EventModes
    BY DEF RefreshBooksAgree, RefreshInfos
  <2>2. refreshing' \in [mActionByIntervalInNanos[i] -> EventModes]
    BY <1>4, <2>1 DEF refreshTimestampForInterval
  <2>3. QED
    BY <1>4, <2>2 DEF refreshTimestampForInterval, subscriptions, history
<1>5. CASE refreshTimestamps
  <2>1. clock' \in 0 .. MaxClock + 1 /\ clock' >= clock
    BY <1>5 DEF refreshTimestamps
  <2>2. \A p \in PropIdAreaIds :
           [store[p] EXCEPT !.timestamp = clock'] \in PropValues
    BY <1>0, <2>1 DEF PropValues
  <2>3. \A p \in PropIdAreaIds :
           /\ [store[p] EXCEPT !.timestamp = clock'].prop = p
           /\ [store[p] EXCEPT !.timestamp = clock'].timestamp = clock'
    BY <1>0 DEF PropValues
  <2>4. store' \in [PropIdAreaIds -> PropValues]
    BY <1>5, <2>2 DEF refreshTimestamps
  <2>5. inFlight' \in [Threads -> SUBSET PropValues]
    <3>1. refreshing # Nothing /\ DOMAIN refreshing \subseteq PropIdAreaIds
      BY <1>0, <1>5 DEF refreshTimestamps
    <3>2. {store'[p] : p \in {q \in DOMAIN refreshing :
                                 refreshing[q] = "ALWAYS"}} \subseteq PropValues
      BY <2>4, <3>1
    <3>3. QED
      BY <1>5, <3>2 DEF refreshTimestamps
  <2>6. \A p \in PropIdAreaIds : /\ store'[p].prop = p
                                 /\ store'[p].timestamp =< clock'
    BY <1>0, <1>5, <2>1, <2>3 DEF refreshTimestamps
  <2>7. bus' # Nothing => bus'.timestamp =< clock'
    BY <1>5, <2>1 DEF refreshTimestamps, PropValues
  <2>8. QED
    BY <1>5, <2>1, <2>4, <2>5, <2>6, <2>7
       DEF refreshTimestamps, subscriptions, history
<1>6. ASSUME NEW t \in Threads, onValuesChangeCallback(t)
      PROVE  TypeOK'
  BY <1>6 DEF onValuesChangeCallback, subscriptions, passedOn
<1>7. ASSUME NEW p \in OnChange, subscribeOnChange(p)
      PROVE  TypeOK'
  BY <1>7 DEF subscribeOnChange, history
<1>8. ASSUME NEW p \in Continuous, NEW mode \in EventModes, NEW i \in Intervals,
             subscribeContinuous(p, mode, i)
      PROVE  TypeOK'
  BY <1>8 DEF subscribeContinuous, registerRefreshLocked,
              unregisterRefreshLocked, RefreshInfos, history
<1>9. ASSUME NEW p \in PropIdAreaIds, unsubscribe(p)
      PROVE  TypeOK'
  BY <1>9 DEF unsubscribe, unregisterRefreshLocked, history
<1>10. CASE UNCHANGED vars
  BY <1>10 DEF vars, subscriptions, history
<1>11. QED
  BY <1>1, <1>2, <1>3, <1>4, <1>5, <1>6, <1>7, <1>8, <1>9, <1>10 DEF Next

LEMMA BooksInit == Init => RefreshBooksAgree
BY DEF Init, RefreshBooksAgree

\* Every variable of the fake hardware has its type and no timestamp of the
\* store lies in the future, and the tables of what is refreshed how often
\* agree with each other and with the timers that run, for any number of
\* properties, rates and writes.
THEOREM RefreshBooksCorrect == Spec => [](TypeOK /\ RefreshBooksAgree)
<1>1. Init => TypeOK /\ RefreshBooksAgree
  BY TypeInit, BooksInit
<1>2. TypeOK /\ RefreshBooksAgree /\ [Next]_vars => (TypeOK /\ RefreshBooksAgree)'
  BY TypeStep, BooksStep
<1>3. QED
  BY <1>1, <1>2, PTL DEF Spec

----------------------------------------------------------------------------
(* The order of events.                                                    *)

LEMMA EventType ==
    ASSUME TypeOK, ReceivedOfProp, NEW p \in PropIdAreaIds, NEW e \in EventsOf(p)
    PROVE  e \in PropValues /\ e.prop = p /\ e.timestamp \in Nat
<1>1. e \in PropValues /\ e.prop = p
  BY DEF EventsOf, TypeOK, ReceivedOfProp
<1>2. QED
  BY <1>1 DEF PropValues

\* A thread that had no callback to make gets one: nothing else changes.
LEMMA EventsAdded ==
    ASSUME TypeOK, NEW t \in Threads, inFlight[t] = {}, NEW S,
           inFlight' = [inFlight EXCEPT ![t] = S], received' = received,
           NEW p \in PropIdAreaIds
    PROVE  EventsOf(p)' = EventsOf(p) \cup {e \in S : e.prop = p}
BY DEF EventsOf, TypeOK

\* The events after writeValue.
LEMMA EventsWritten ==
    ASSUME TypeOK, NEW t \in Threads, inFlight[t] = {}, NEW new \in PropValues,
           writeValue(t, new), received' = received, NEW p \in PropIdAreaIds
    PROVE  \/ store'[p] = store[p] /\ EventsOf(p)' = EventsOf(p)
           \/ /\ p = new.prop /\ store'[p] = new
              /\ store[p].timestamp =< new.timestamp
              /\ SameValue(store[p], new)
              /\ EventsOf(p)' = EventsOf(p)
           \/ /\ p = new.prop /\ store'[p] = new
              /\ store[p].timestamp =< new.timestamp
              /\ EventsOf(p)' = EventsOf(p) \cup {new}
<1>1. new.prop \in PropIdAreaIds /\ new.timestamp \in Nat
      /\ store[new.prop].timestamp \in Nat
  BY DEF PropValues, TypeOK
<1>2. CASE store[new.prop].timestamp > new.timestamp
  <2>1. UNCHANGED <<store, inFlight>>
    BY <1>2 DEF writeValue
  <2>2. EventsOf(p)' = EventsOf(p)
    BY <2>1 DEF EventsOf
  <2>3. QED
    BY <2>1, <2>2
<1>3. CASE ~(store[new.prop].timestamp > new.timestamp)
  <2> DEFINE S == IF ~SameValue(store[new.prop], new) THEN {new} ELSE {}
  <2>1. store' = [store EXCEPT ![new.prop] = new]
        /\ inFlight' = [inFlight EXCEPT ![t] = S]
    BY <1>3 DEF writeValue
  <2>2. EventsOf(p)' = EventsOf(p) \cup {e \in S : e.prop = p}
    <3> HIDE DEF S
    <3> QED BY <2>1, EventsAdded
  <2>3. store[new.prop].timestamp =< new.timestamp
    BY <1>1, <1>3
  <2>4. CASE p # new.prop
    BY <2>1, <2>2, <2>4, <1>1 DEF TypeOK
  <2>5. CASE p = new.prop
    BY <2>1, <2>2, <2>3, <2>5, <1>1 DEF TypeOK
  <2>6. QED
    BY <2>4, <2>5
<1>4. QED
  BY <1>2, <1>3

\* writeValue with a timestamp that nothing else has keeps the order.
LEMMA WriteOrder ==
    ASSUME TypeOK, Shape, EventsAreOfStore, TimeTellsValue,
           NewestEventIsCurrent,
           NEW t \in Threads, inFlight[t] = {}, NEW new \in PropValues,
           writeValue(t, new), received' = received,
           store[new.prop].timestamp # new.timestamp
    PROVE  EventsAreOfStore' /\ TimeTellsValue' /\ NewestEventIsCurrent'
<1> USE DEF Shape
<1>0. new.prop \in PropIdAreaIds /\ new.timestamp \in Nat
      /\ \A p \in PropIdAreaIds : store[p].timestamp \in Nat
  BY DEF PropValues, TypeOK
<1>1. \A p \in PropIdAreaIds : \A e \in EventsOf(p) :
         e.timestamp \in Nat /\ e.timestamp =< store[p].timestamp
  BY EventType DEF EventsAreOfStore
<1>2. owed' \subseteq PropIdAreaIds
  BY WriteType
<1>3. ASSUME NEW p \in PropIdAreaIds
      PROVE  /\ \A e \in EventsOf(p)' :
                   /\ e.timestamp =< store'[p].timestamp
                   /\ e.timestamp = store'[p].timestamp => SameValue(e, store'[p])
             /\ \A e, f \in EventsOf(p)' :
                   e.timestamp = f.timestamp => SameValue(e, f)
             /\ p \in owed' =>
                   \E e \in EventsOf(p)' :
                      /\ SameValue(e, store'[p])
                      /\ \A f \in EventsOf(p)' : f.timestamp =< e.timestamp
  <2>0. p \in owed' => p \in owed \/ (p = new.prop /\ ~SameValue(store[p], new)
                                      /\ ~(store[p].timestamp > new.timestamp))
    BY DEF writeValue
  <2>1. /\ \A e \in EventsOf(p) :
              /\ e.timestamp =< store[p].timestamp
              /\ e.timestamp = store[p].timestamp => SameValue(e, store[p])
        /\ \A e, f \in EventsOf(p) :
              e.timestamp = f.timestamp => SameValue(e, f)
        /\ p \in owed => \E e \in EventsOf(p) :
                           /\ SameValue(e, store[p])
                           /\ \A f \in EventsOf(p) : f.timestamp =< e.timestamp
    BY DEF EventsAreOfStore, TimeTellsValue, NewestEventIsCurrent
  <2>2. CASE store'[p] = store[p] /\ EventsOf(p)' = EventsOf(p)
    <3>1. p \in owed' => p \in owed
      BY <1>0, <2>0, <2>2 DEF writeValue, TypeOK, SameValue
    <3>2. QED
      BY <2>1, <2>2, <3>1
  <2>3. CASE /\ p = new.prop /\ store'[p] = new
             /\ store[p].timestamp =< new.timestamp
             /\ SameValue(store[p], new)
             /\ EventsOf(p)' = EventsOf(p)
    <3>1. p \in owed' => p \in owed
      BY <2>0, <2>3
    <3>2. \A e \in EventsOf(p) : e.timestamp < new.timestamp
      BY <1>0, <1>1, <2>3
    <3>3. QED
      BY <1>0, <1>1, <2>1, <2>3, <3>1, <3>2 DEF SameValue
  <2>4. CASE /\ p = new.prop /\ store'[p] = new
             /\ store[p].timestamp =< new.timestamp
             /\ EventsOf(p)' = EventsOf(p) \cup {new}
    <3>1. \A e \in EventsOf(p) : e.timestamp < new.timestamp
      BY <1>0, <1>1, <2>4
    <3>2. SameValue(new, new)
      BY DEF SameValue
    <3>3. QED
      BY <1>0, <1>1, <2>1, <2>4, <3>1, <3>2
  <2>5. QED
    BY <2>2, <2>3, <2>4, EventsWritten
<1>4. EventsAreOfStore'
  BY <1>3 DEF EventsAreOfStore, SameValue
<1>5. TimeTellsValue'
  BY <1>3 DEF TimeTellsValue, SameValue
<1>6. NewestEventIsCurrent'
  BY <1>2, <1>3 DEF NewestEventIsCurrent, SameValue
<1>7. QED
  BY <1>4, <1>5, <1>6

\* writeValue touches the callback of its own thread only.
LEMMA WriteShape ==
    ASSUME TypeOK, Shape, NEW t \in Threads, NEW new \in PropValues,
           writeValue(t, new), received' = received,
           UNCHANGED <<mSubOnChangePropIdAreaIds, mRefreshInfoByPropIdAreaId>>
    PROVE  /\ OneEach' /\ OwedIsSubscribed' /\ ReceivedOfProp'
           /\ \A u \in Threads : u # t => inFlight'[u] = inFlight[u]
<1> DEFINE S == IF ~SameValue(store[new.prop], new) THEN {new} ELSE {}
<1>1. inFlight' = inFlight \/ inFlight' = [inFlight EXCEPT ![t] = S]
  BY DEF writeValue
<1>2. OneEach' /\ \A u \in Threads : u # t => inFlight'[u] = inFlight[u]
  <2>1. \A e, f \in S : e = f
    OBVIOUS
  <2> HIDE DEF S
  <2>2. QED
    BY <1>1, <2>1 DEF OneEach, Shape, TypeOK
<1>3. \A p \in owed' : p \in owed \/ Subscribed(p)
  BY DEF writeValue
<1>4. OwedIsSubscribed'
  BY <1>3 DEF OwedIsSubscribed, Shape, Subscribed
<1>5. ReceivedOfProp'
  BY DEF ReceivedOfProp, Shape
<1>6. QED
  BY <1>2, <1>4, <1>5

LEMMA ShapeStep == TypeOK /\ Shape /\ [Next]_vars => Shape'
<1> SUFFICES ASSUME TypeOK, Shape, [Next]_vars PROVE Shape'
  OBVIOUS
<1>0. /\ "set" \in Threads /\ "bus" \in Threads /\ "timer" \in Threads
      /\ "set" # "bus" /\ "set" # "timer" /\ "bus" # "timer"
  BY DEF Threads
<1>1. ASSUME NEW p \in PropIdAreaIds, NEW v \in Values, setValue(p, v)
      PROVE  Shape'
  <2> DEFINE new == [store[p] EXCEPT !.value = v, !.timestamp = clock']
  <2>1. clock' \in 0 .. MaxClock + 1 /\ store[p] \in PropValues
    BY <1>1 DEF setValue, TypeOK
  <2>2. new \in PropValues
    <3>1. [store[p] EXCEPT !.value = v] \in PropValues
      BY <2>1 DEF PropValues
    <3>2. QED
      BY <2>1, <3>1 DEF PropValues
  <2>3. writeValue("set", new) /\ UNCHANGED <<received, bus, refreshing,
             mSubOnChangePropIdAreaIds, mRefreshInfoByPropIdAreaId>>
    BY <1>1 DEF setValue, subscriptions, history
  <2> HIDE DEF new
  <2>4. /\ OneEach' /\ OwedIsSubscribed' /\ ReceivedOfProp'
        /\ inFlight'["bus"] = inFlight["bus"]
        /\ inFlight'["timer"] = inFlight["timer"]
    BY <1>0, <2>2, <2>3, WriteShape
  <2>5. QED
    BY <2>3, <2>4 DEF Shape, OneThingAtATime
<1>2. ASSUME NEW p \in PropIdAreaIds, NEW v \in Values, nextEvent(p, v)
      PROVE  Shape'
  BY <1>2 DEF nextEvent, Shape, OneEach, OneThingAtATime, OwedIsSubscribed,
     ReceivedOfProp, Subscribed, subscriptions, history
<1>3. CASE eventFromVehicleBus
  <2>1. /\ bus \in PropValues /\ writeValue("bus", bus) /\ bus' = Nothing
        /\ UNCHANGED <<received, refreshing, mSubOnChangePropIdAreaIds,
                       mRefreshInfoByPropIdAreaId>>
    BY <1>3 DEF eventFromVehicleBus, TypeOK, subscriptions, history
  <2>2. /\ OneEach' /\ OwedIsSubscribed' /\ ReceivedOfProp'
        /\ inFlight'["timer"] = inFlight["timer"]
    BY <1>0, <2>1, WriteShape
  <2>3. QED
    BY <2>1, <2>2 DEF Shape, OneThingAtATime
<1>4. ASSUME NEW i \in Intervals, refreshTimestampForInterval(i)
      PROVE  Shape'
  BY <1>4 DEF refreshTimestampForInterval, Shape, OneEach, OneThingAtATime,
     OwedIsSubscribed, ReceivedOfProp, Subscribed, subscriptions, history
<1>5. CASE refreshTimestamps
  <2>1. \A p \in PropIdAreaIds : store'[p].prop = p
    BY <1>5 DEF refreshTimestamps, TypeOK, PropValues
  <2>2. DOMAIN refreshing \subseteq PropIdAreaIds
    BY <1>5 DEF refreshTimestamps, TypeOK, PropIdAreaIds
  <2>3. OneEach'
    <3> DEFINE S == {store'[p] : p \in {q \in DOMAIN refreshing :
                                           refreshing[q] = "ALWAYS"}}
    <3>1. \A e, f \in S : e.prop = f.prop => e = f
      BY <2>1, <2>2
    <3>2. inFlight' = [inFlight EXCEPT !["timer"] = S]
      BY <1>5 DEF refreshTimestamps
    <3> HIDE DEF S
    <3>3. QED
      BY <1>0, <3>1, <3>2 DEF OneEach, Shape, TypeOK
  <2>4. OneThingAtATime'
    BY <1>0, <1>5 DEF refreshTimestamps, OneThingAtATime, Shape, TypeOK
  <2>5. OwedIsSubscribed' /\ ReceivedOfProp'
    BY <1>5 DEF refreshTimestamps, OwedIsSubscribed, ReceivedOfProp, Shape,
       Subscribed, subscriptions, history
  <2>6. QED
    BY <2>3, <2>4, <2>5 DEF Shape
<1>6. ASSUME NEW t \in Threads, onValuesChangeCallback(t)
      PROVE  Shape'
  <2>1. OneEach' /\ OneThingAtATime'
    BY <1>0, <1>6 DEF onValuesChangeCallback, OneEach, OneThingAtATime, Shape,
       TypeOK
  <2>2. OwedIsSubscribed'
    BY <1>6 DEF onValuesChangeCallback, OwedIsSubscribed, Shape, Subscribed,
       subscriptions
  <2>3. ReceivedOfProp'
    BY <1>6 DEF onValuesChangeCallback, ReceivedOfProp, Shape, TypeOK
  <2>4. QED
    BY <2>1, <2>2, <2>3 DEF Shape
<1>7. ASSUME NEW p \in OnChange, subscribeOnChange(p)
      PROVE  Shape'
  BY <1>7 DEF subscribeOnChange, Shape, OneEach, OneThingAtATime,
     OwedIsSubscribed, ReceivedOfProp, Subscribed, history
<1>8. ASSUME NEW p \in Continuous, NEW mode \in EventModes, NEW i \in Intervals,
             subscribeContinuous(p, mode, i)
      PROVE  Shape'
  <2>1. OneEach' /\ OneThingAtATime' /\ ReceivedOfProp'
    BY <1>8 DEF subscribeContinuous, OneEach, OneThingAtATime, ReceivedOfProp,
       Shape, history
  <2>2. OwedIsSubscribed'
    <3>1. [eventMode |-> mode, intervalInNanos |-> i] # Nothing
      BY DEF RefreshInfos
    <3>2. QED
      BY <1>8, <3>1 DEF subscribeContinuous, registerRefreshLocked,
         OwedIsSubscribed, Shape, Subscribed, TypeOK
  <2>3. QED
    BY <2>1, <2>2 DEF Shape
<1>9. ASSUME NEW p \in PropIdAreaIds, unsubscribe(p)
      PROVE  Shape'
  BY <1>9 DEF unsubscribe, Shape, OneEach, OneThingAtATime, OwedIsSubscribed,
     ReceivedOfProp, Subscribed, history, TypeOK
<1>10. CASE UNCHANGED vars
  BY <1>10 DEF vars, Shape, OneEach, OneThingAtATime, OwedIsSubscribed,
     ReceivedOfProp, Subscribed, subscriptions, history
<1>11. QED
  BY <1>1, <1>2, <1>3, <1>4, <1>5, <1>6, <1>7, <1>8, <1>9, <1>10 DEF Next

\* A callback makes no event, and loses one of a subscribed [propId, areaId]
\* only for one that is as new.
LEMMA CallbackEvents ==
    ASSUME TypeOK, Shape, NEW t \in Threads, onValuesChangeCallback(t),
           NEW p \in PropIdAreaIds
    PROVE  /\ EventsOf(p)' \subseteq EventsOf(p)
           /\ Subscribed(p) =>
                 \A e \in EventsOf(p) : \E f \in EventsOf(p)' :
                     f.timestamp >= e.timestamp
<1> DEFINE events == passedOn(inFlight[t])
           eventOf(q) == CHOOSE e \in events : e.prop = q
           props == {e.prop : e \in events}
           newer == {q \in props : \/ received[q] = Nothing
                                   \/ received[q].timestamp =< eventOf(q).timestamp}
<1>1. /\ inFlight' = [inFlight EXCEPT ![t] = {}]
      /\ received' = [q \in PropIdAreaIds |->
                         IF q \in newer THEN eventOf(q) ELSE received[q]]
  BY DEF onValuesChangeCallback
<1>2. events \subseteq inFlight[t]
      /\ \A e \in inFlight[t] : Subscribed(e.prop) => e \in events
  BY DEF passedOn
<1>3. \A q \in props : eventOf(q) \in events /\ eventOf(q).prop = q
  OBVIOUS
<1>4. \A e \in events : e = eventOf(e.prop)
  BY <1>2, <1>3 DEF Shape, OneEach
<1>5. \A q \in newer : q \in props /\ (\/ received[q] = Nothing
                          \/ received[q].timestamp =< eventOf(q).timestamp)
  OBVIOUS
<1>6. \A q \in props : q \notin newer =>
         /\ received[q] # Nothing
         /\ ~(received[q].timestamp =< eventOf(q).timestamp)
  OBVIOUS
<1>7. \A e \in events : e.prop \in props
  OBVIOUS
<1>8. \A e \in EventsOf(p) : e.timestamp \in Nat
  BY EventType DEF Shape
<1>9. \A e \in inFlight[t] : e.prop = p => e \in EventsOf(p)
  BY DEF EventsOf
<1> HIDE DEF events, eventOf, props, newer
<1>10. p \in newer => /\ received'[p] = eventOf(p) /\ eventOf(p) # Nothing
                      /\ eventOf(p) \in inFlight[t] /\ eventOf(p).prop = p
  BY <1>1, <1>2, <1>3, <1>5 DEF TypeOK
<1>11. p \notin newer => received'[p] = received[p]
  BY <1>1
<1>12. EventsOf(p)' \subseteq EventsOf(p)
  BY <1>1, <1>10, <1>11 DEF EventsOf, TypeOK
<1>13. ASSUME Subscribed(p), NEW e \in EventsOf(p)
       PROVE  \E f \in EventsOf(p)' : f.timestamp >= e.timestamp
  <2>1. CASE \E u \in Threads : u # t /\ e \in inFlight[u]
    <3>1. e \in EventsOf(p)'
      BY <1>1, <2>1, EventType DEF EventsOf, TypeOK, Shape
    <3>2. QED
      BY <1>8, <3>1
  <2>2. CASE e \in inFlight[t]
    <3>1. e.prop = p
      BY EventType DEF Shape
    <3>2. e = eventOf(p) /\ p \in props
      BY <1>2, <1>4, <1>7, <1>13, <2>2, <3>1
    <3>3. CASE p \in newer
      <4>1. e \in EventsOf(p)'
        BY <1>10, <3>2, <3>3 DEF EventsOf
      <4>2. QED
        BY <1>8, <4>1
    <3>4. CASE p \notin newer
      <4>1. /\ received[p] # Nothing /\ ~(received[p].timestamp =< e.timestamp)
        BY <1>6, <3>2, <3>4
      <4>2. received[p] \in EventsOf(p) /\ received[p] \in EventsOf(p)'
        BY <1>11, <3>4, <4>1 DEF EventsOf
      <4>3. QED
        BY <1>8, <4>1, <4>2
    <3>5. QED
      BY <3>3, <3>4
  <2>3. CASE e = received[p] /\ e # Nothing
    <3>1. CASE p \in newer
      <4>1. eventOf(p) \in EventsOf(p) /\ eventOf(p) \in EventsOf(p)'
        BY <1>9, <1>10, <3>1 DEF EventsOf
      <4>2. e.timestamp =< eventOf(p).timestamp
        BY <1>5, <2>3, <3>1
      <4>3. QED
        BY <1>8, <4>1, <4>2
    <3>2. CASE p \notin newer
      <4>1. e \in EventsOf(p)'
        BY <1>11, <2>3, <3>2 DEF EventsOf
      <4>2. QED
        BY <1>8, <4>1
    <3>3. QED
      BY <3>1, <3>2
  <2>4. QED
    BY <2>1, <2>2, <2>3 DEF EventsOf
<1>14. QED
  BY <1>12, <1>13

\* A step that changes neither the store nor the events keeps their order.
LEMMA QuietOrder ==
    ASSUME TypeOK, EventOrder, UNCHANGED <<store, inFlight, received>>,
           owed' \subseteq owed
    PROVE  /\ EventsAreOfStore' /\ TimeTellsValue' /\ NewestEventIsCurrent'
           /\ clock' \in Nat /\ clock' >= clock /\ bus' = bus => BusTimeIsUnique'
<1>1. \A p \in PropIdAreaIds : EventsOf(p)' = EventsOf(p)
  BY DEF EventsOf
<1>2. EventsAreOfStore' /\ TimeTellsValue'
  BY <1>1 DEF EventOrder, EventsAreOfStore, TimeTellsValue, SameValue
<1>3. NewestEventIsCurrent'
  BY <1>1 DEF EventOrder, NewestEventIsCurrent, SameValue, TypeOK
<1>4. clock' \in Nat /\ clock' >= clock /\ bus' = bus => BusTimeIsUnique'
  BY <1>1 DEF EventOrder, BusTimeIsUnique, TypeOK, PropValues
<1>5. QED
  BY <1>2, <1>3, <1>4

LEMMA OrderInit == Init => Shape /\ EventOrder
<1> SUFFICES ASSUME Init PROVE Shape /\ EventOrder
  OBVIOUS
<1>1. \A p \in PropIdAreaIds : EventsOf(p) = {}
  BY DEF Init, EventsOf
<1>2. Shape
  BY DEF Init, Shape, OneEach, OneThingAtATime, OwedIsSubscribed, ReceivedOfProp
<1>3. EventOrder
  BY <1>1 DEF Init, EventOrder, BusTimeIsUnique, EventsAreOfStore,
     TimeTellsValue, NewestEventIsCurrent
<1>4. QED
  BY <1>2, <1>3

\* setValue stamps the value with a time that nothing has yet.
LEMMA SetOrder ==
    ASSUME TypeOK, Shape, EventOrder, NEW p \in PropIdAreaIds, NEW v \in Values,
           setValue(p, v)
    PROVE  EventOrder'
<1> DEFINE new == [store[p] EXCEPT !.value = v, !.timestamp = clock']
<1>1. /\ clock \in Nat /\ clock' = clock + 1 /\ clock' \in 0 .. MaxClock + 1
      /\ bus' = bus /\ received' = received
      /\ inFlight["set"] = {} /\ "set" \in Threads
  BY DEF setValue, TypeOK, history, Threads
<1>2. new \in PropValues /\ new.prop = p /\ new.timestamp = clock'
  <2>1. store[p] \in PropValues /\ store[p].prop = p
    BY DEF TypeOK
  <2>2. [store[p] EXCEPT !.value = v] \in PropValues
    BY <2>1 DEF PropValues
  <2>3. QED
    BY <1>1, <2>1, <2>2 DEF PropValues
<1>3. writeValue("set", new)
  BY DEF setValue
<1> HIDE DEF new
<1>4. \A q \in PropIdAreaIds : store[q].timestamp \in Nat
                               /\ store[q].timestamp =< clock
  BY DEF TypeOK, PropValues
<1>5. EventsAreOfStore' /\ TimeTellsValue' /\ NewestEventIsCurrent'
  <2>1. store[new.prop].timestamp # new.timestamp
    BY <1>1, <1>2, <1>4
  <2>2. QED
    BY <1>1, <1>2, <1>3, <2>1, WriteOrder DEF EventOrder
<1>6. BusTimeIsUnique'
  <2> SUFFICES ASSUME bus # Nothing PROVE BusTimeIsUnique'
    BY <1>1 DEF BusTimeIsUnique
  <2>1. /\ bus.timestamp \in Nat /\ bus.timestamp =< clock
        /\ bus.timestamp =< MaxClock
        /\ \A q \in PropIdAreaIds :
              /\ store[q].timestamp # bus.timestamp
              /\ \A e \in EventsOf(q) : e.timestamp # bus.timestamp
    BY DEF EventOrder, BusTimeIsUnique, TypeOK, PropValues
  <2>2. ASSUME NEW q \in PropIdAreaIds
        PROVE  /\ store'[q].timestamp # bus.timestamp
               /\ \A e \in EventsOf(q)' : e.timestamp # bus.timestamp
    <3>1. /\ store'[q] = store[q] \/ store'[q] = new
          /\ EventsOf(q)' \subseteq EventsOf(q) \cup {new}
      BY <1>1, <1>2, <1>3, EventsWritten
    <3>2. QED
      BY <1>1, <1>2, <2>1, <3>1
  <2>3. QED
    BY <1>1, <2>1, <2>2 DEF BusTimeIsUnique
<1>7. QED
  BY <1>5, <1>6 DEF EventOrder

\* A refresh changes no value, and its timestamp is as new as any.
LEMMA RefreshOrder ==
    ASSUME TypeOK, Shape, EventOrder, refreshTimestamps
    PROVE  EventOrder'
<1> DEFINE S == {store'[p] : p \in {q \in DOMAIN refreshing :
                                       refreshing[q] = "ALWAYS"}}
<1>1. /\ clock \in Nat /\ clock' \in Nat /\ clock =< clock'
      /\ clock' = clock + 1 \/ clock' > MaxClock
      /\ bus' = bus /\ received' = received /\ owed' = owed
      /\ inFlight["timer"] = {} /\ "timer" \in Threads
      /\ inFlight' = [inFlight EXCEPT !["timer"] = S]
  BY DEF refreshTimestamps, TypeOK, history, Threads, Shape, OneThingAtATime
<1>2. \A p \in PropIdAreaIds :
         /\ store[p].timestamp \in Nat /\ store[p].timestamp =< clock
         /\ \A e \in EventsOf(p) :
               e.timestamp \in Nat /\ e.timestamp =< store[p].timestamp
  BY EventType DEF TypeOK, PropValues, EventOrder, EventsAreOfStore, Shape
<1>3. \A p \in PropIdAreaIds :
         /\ store'[p].prop = p
         /\ SameValue(store'[p], store[p])
         /\ p \in DOMAIN refreshing => store'[p].timestamp = clock'
         /\ p \notin DOMAIN refreshing => store'[p] = store[p]
  BY DEF refreshTimestamps, TypeOK, PropValues, SameValue
<1>4. DOMAIN refreshing \subseteq PropIdAreaIds
  BY DEF refreshTimestamps, TypeOK, PropIdAreaIds
<1>5. \A e \in S : \E q \in DOMAIN refreshing : e = store'[q]
  OBVIOUS
<1> HIDE DEF S
<1>6. \A p \in PropIdAreaIds :
         \/ EventsOf(p)' = EventsOf(p)
         \/ p \in DOMAIN refreshing /\ EventsOf(p)' = EventsOf(p) \cup {store'[p]}
  <2> TAKE p \in PropIdAreaIds
  <2>1. EventsOf(p)' = EventsOf(p) \cup {e \in S : e.prop = p}
    BY <1>1, EventsAdded
  <2>2. \A e \in S : e.prop = p => e = store'[p] /\ p \in DOMAIN refreshing
    BY <1>3, <1>4, <1>5
  <2>3. QED
    BY <2>1, <2>2
<1>7. ASSUME NEW p \in PropIdAreaIds
      PROVE  /\ \A e \in EventsOf(p)' :
                   /\ e.timestamp =< store'[p].timestamp
                   /\ e.timestamp = store'[p].timestamp => SameValue(e, store'[p])
             /\ \A e, f \in EventsOf(p)' :
                   e.timestamp = f.timestamp => SameValue(e, f)
             /\ p \in owed' =>
                   \E e \in EventsOf(p)' :
                      /\ SameValue(e, store'[p])
                      /\ \A f \in EventsOf(p)' : f.timestamp =< e.timestamp
  <2>1. /\ \A e \in EventsOf(p) :
              /\ e.timestamp =< store[p].timestamp
              /\ e.timestamp = store[p].timestamp => SameValue(e, store[p])
        /\ \A e, f \in EventsOf(p) :
              e.timestamp = f.timestamp => SameValue(e, f)
        /\ p \in owed => \E e \in EventsOf(p) :
                           /\ SameValue(e, store[p])
                           /\ \A f \in EventsOf(p) : f.timestamp =< e.timestamp
    BY DEF EventOrder, EventsAreOfStore, TimeTellsValue, NewestEventIsCurrent
  <2>2. \A e \in EventsOf(p) :
           /\ e.timestamp =< store'[p].timestamp
           /\ e.timestamp = store'[p].timestamp => SameValue(e, store'[p])
    BY <1>1, <1>2, <1>3, <2>1 DEF SameValue
  <2>3. store'[p].timestamp \in Nat /\ SameValue(store'[p], store'[p])
    BY <1>1, <1>2, <1>3 DEF SameValue
  <2>4. CASE EventsOf(p)' = EventsOf(p)
    BY <1>1, <1>3, <2>1, <2>2, <2>4 DEF SameValue
  <2>5. CASE EventsOf(p)' = EventsOf(p) \cup {store'[p]}
    BY <2>1, <2>2, <2>3, <2>5 DEF SameValue
  <2>6. QED
    BY <1>6, <2>4, <2>5
<1>8. BusTimeIsUnique'
  <2> SUFFICES ASSUME bus # Nothing PROVE BusTimeIsUnique'
    BY <1>1 DEF BusTimeIsUnique
  <2>1. /\ bus.timestamp \in Nat /\ bus.timestamp =< clock
        /\ bus.timestamp =< MaxClock
        /\ \A q \in PropIdAreaIds :
              /\ store[q].timestamp # bus.timestamp
              /\ \A e \in EventsOf(q) : e.timestamp # bus.timestamp
    BY DEF EventOrder, BusTimeIsUnique, TypeOK, PropValues
  <2>2. clock' # bus.timestamp /\ bus.timestamp =< clock'
    BY <1>1, <2>1
  <2>3. \A q \in PropIdAreaIds :
           /\ store'[q].timestamp # bus.timestamp
           /\ \A e \in EventsOf(q)' : e.timestamp # bus.timestamp
    BY <1>3, <1>6, <2>1, <2>2
  <2>4. QED
    BY <1>1, <2>1, <2>2, <2>3 DEF BusTimeIsUnique
<1>9. EventsAreOfStore' /\ TimeTellsValue'
  BY <1>7 DEF EventsAreOfStore, TimeTellsValue, SameValue
<1>10. NewestEventIsCurrent'
  BY <1>1, <1>7 DEF NewestEventIsCurrent, SameValue, TypeOK
<1>11. QED
  BY <1>8, <1>9, <1>10 DEF EventOrder

\* Of the events of a subscribed [propId, areaId], a callback leaves a newest.
LEMMA CallbackOrder ==
    ASSUME TypeOK, Shape, EventOrder, NEW t \in Threads, onValuesChangeCallback(t)
    PROVE  EventOrder'
<1>1. UNCHANGED <<clock, store, bus, owed>>
  BY DEF onValuesChangeCallback
<1>2. \A p \in PropIdAreaIds : EventsOf(p)' \subseteq EventsOf(p)
  BY CallbackEvents
<1>3. BusTimeIsUnique' /\ EventsAreOfStore' /\ TimeTellsValue'
  BY <1>1, <1>2 DEF EventOrder, BusTimeIsUnique, EventsAreOfStore,
     TimeTellsValue, SameValue
<1>4. ASSUME NEW p \in owed
      PROVE  \E f \in EventsOf(p)' :
                /\ SameValue(f, store[p])
                /\ \A g \in EventsOf(p)' : g.timestamp =< f.timestamp
  <2>1. p \in PropIdAreaIds /\ Subscribed(p)
    BY DEF TypeOK, Shape, OwedIsSubscribed
  <2>2. PICK e \in EventsOf(p) :
               /\ SameValue(e, store[p])
               /\ \A f \in EventsOf(p) : f.timestamp =< e.timestamp
    BY DEF EventOrder, NewestEventIsCurrent
  <2>3. PICK f \in EventsOf(p)' : f.timestamp >= e.timestamp
    BY <2>1, CallbackEvents
  <2>4. \A g \in EventsOf(p) : g.timestamp \in Nat
    BY <2>1, EventType DEF Shape
  <2>5. f \in EventsOf(p) /\ f.timestamp = e.timestamp
    BY <1>2, <2>1, <2>2, <2>3, <2>4
  <2>6. SameValue(f, store[p])
    BY <2>1, <2>2, <2>5 DEF EventOrder, TimeTellsValue, SameValue
  <2>7. QED
    BY <1>2, <2>1, <2>2, <2>5, <2>6
<1>5. NewestEventIsCurrent'
  BY <1>1, <1>4 DEF NewestEventIsCurrent, SameValue
<1>6. QED
  BY <1>3, <1>5 DEF EventOrder

LEMMA OrderStep == TypeOK /\ Shape /\ EventOrder /\ [Next]_vars => EventOrder'
<1> SUFFICES ASSUME TypeOK, Shape, EventOrder, [Next]_vars PROVE EventOrder'
  OBVIOUS
<1>1. ASSUME UNCHANGED <<clock, store, bus, inFlight, received>>, owed' \subseteq owed
      PROVE  EventOrder'
  <2>1. clock' \in Nat /\ clock' >= clock
    BY <1>1 DEF TypeOK
  <2>2. QED
    BY <1>1, <2>1, QuietOrder DEF EventOrder
<1>2. ASSUME NEW p \in PropIdAreaIds, NEW v \in Values, nextEvent(p, v)
      PROVE  EventOrder'
  <2>1. /\ clock \in Nat /\ clock' = clock + 1 /\ clock < MaxClock
        /\ UNCHANGED <<store, inFlight, received, owed>>
        /\ bus'.timestamp = clock'
    BY <1>2 DEF nextEvent, TypeOK, history
  <2>2. EventsAreOfStore' /\ TimeTellsValue' /\ NewestEventIsCurrent'
    BY <2>1, QuietOrder
  <2>3. \A q \in PropIdAreaIds :
           /\ store[q].timestamp \in Nat /\ store[q].timestamp =< clock
           /\ \A e \in EventsOf(q) : e.timestamp \in Nat /\ e.timestamp =< clock
    BY EventType DEF TypeOK, PropValues, EventOrder, EventsAreOfStore, Shape
  <2>4. \A q \in PropIdAreaIds : EventsOf(q)' = EventsOf(q)
    BY <2>1 DEF EventsOf
  <2>5. BusTimeIsUnique'
    BY <2>1, <2>3, <2>4 DEF BusTimeIsUnique
  <2>6. QED
    BY <2>2, <2>5 DEF EventOrder
<1>3. CASE eventFromVehicleBus
  <2>1. /\ bus # Nothing /\ bus \in PropValues /\ writeValue("bus", bus)
        /\ bus' = Nothing /\ received' = received
        /\ inFlight["bus"] = {} /\ "bus" \in Threads
    BY <1>3 DEF eventFromVehicleBus, TypeOK, history, Shape, OneThingAtATime,
       Threads
  <2>2. store[bus.prop].timestamp # bus.timestamp
    BY <2>1 DEF EventOrder, BusTimeIsUnique, PropValues
  <2>3. EventsAreOfStore' /\ TimeTellsValue' /\ NewestEventIsCurrent'
    BY <2>1, <2>2, WriteOrder DEF EventOrder
  <2>4. QED
    BY <2>1, <2>3 DEF EventOrder, BusTimeIsUnique
<1>4. CASE \E i \in Intervals : refreshTimestampForInterval(i)
  BY <1>1, <1>4 DEF refreshTimestampForInterval, history
<1>5. CASE \E p \in OnChange : subscribeOnChange(p)
  BY <1>1, <1>5 DEF subscribeOnChange, history
<1>6. CASE \E p \in Continuous, mode \in EventModes, i \in Intervals :
              subscribeContinuous(p, mode, i)
  BY <1>1, <1>6 DEF subscribeContinuous, history
<1>7. CASE \E p \in PropIdAreaIds : unsubscribe(p)
  BY <1>1, <1>7 DEF unsubscribe, history
<1>8. CASE UNCHANGED vars
  BY <1>1, <1>8 DEF vars, history
<1>9. QED
  BY <1>2, <1>3, <1>4, <1>5, <1>6, <1>7, <1>8, SetOrder, RefreshOrder,
     CallbackOrder DEF Next

\* However the callbacks of the three writing threads overtake each other:
\* the newest of the events of a subscribed [propId, areaId] that changed
\* carries what the store holds, for any number of properties and writes.
THEOREM NewestEventCorrect == Spec => []NewestEventIsCurrent
<1>1. Init => Inv
  BY TypeInit, BooksInit, OrderInit DEF Inv
<1>2. Inv /\ [Next]_vars => Inv'
  BY TypeStep, BooksStep, ShapeStep, OrderStep DEF Inv
<1>3. Inv => NewestEventIsCurrent
  BY DEF Inv, EventOrder
<1>4. QED
  BY <1>1, <1>2, <1>3, PTL DEF Spec
=============================================================================

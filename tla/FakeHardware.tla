---------------------------- MODULE FakeHardware ----------------------------
(***************************************************************************)
(* How a change in the VehiclePropertyStore of FakeVehicleHardware becomes *)
(* an event for the server above it.  Three threads write to the store:    *)
(* the one that handles setValue requests, the one that brings events from *)
(* the (fake) vehicle bus, and the RecurrentTimer's, which refreshes the   *)
(* continuous properties.  The store calls back outside of its lock, and   *)
(* the callback takes FakeVehicleHardware::mLock to see who is subscribed, *)
(* so events overtake each other.                                          *)
(***************************************************************************)
EXTENDS Naturals

CONSTANTS
    OnChange,       \* [propId, areaId]s whose change mode is ON_CHANGE
    Continuous,     \* [propId, areaId]s whose change mode is CONTINUOUS
    Values,         \* RawPropValues
    Intervals,      \* intervalInNanos of the sample rates that are asked for
    MaxClock,       \* bound: writes get timestamps up to this one
    LooperStub,     \* built with stubs/utils/Looper.h, not with Android's?
    Nothing

PropIdAreaIds == OnChange \cup Continuous

ASSUME FakeHardwareAssumption ==
    /\ OnChange \cap Continuous = {}
    /\ MaxClock \in Nat
    /\ LooperStub \in BOOLEAN

Threads == {"set", "bus", "timer"}

EventModes == {"ALWAYS", "ON_VALUE_CHANGE"}

\* VehiclePropValue.  The writers modelled here leave the status alone
\* (updateStatus is false).  A refresh may come after the last write.
PropValues == [prop : PropIdAreaIds, value : Values,
               timestamp : 0 .. MaxClock + 1]
RefreshInfos == [eventMode : EventModes, intervalInNanos : Intervals]

ASSUME NothingAssumption == Nothing \notin PropValues \cup RefreshInfos

VARIABLES
    clock,        \* elapsedRealtimeNano
    store,        \* the VehiclePropertyStore
    bus,          \* an event of a generator that is not yet in the store
    mSubOnChangePropIdAreaIds,
    mRefreshInfoByPropIdAreaId,
    mActionByIntervalInNanos,   \* propIdAreaIdsToRefresh of every interval
    timers,       \* intervals that are registered with the RecurrentTimer
    refreshing,   \* the timer thread's copy of what to refresh, or Nothing
    inFlight,     \* per thread, the values of the callback it is about to make
    stuck,        \* a thread waits for a mutex it holds, and holds mLock
    received,     \* the newest event of every [propId, areaId] passed on
    arrived,      \* the last event of every [propId, areaId] passed on
    owed          \* those that changed since they are subscribed

subscriptions == <<mSubOnChangePropIdAreaIds, mRefreshInfoByPropIdAreaId,
                   mActionByIntervalInNanos, timers, stuck>>
history == <<received, arrived>>
vars == <<clock, store, bus, subscriptions, refreshing, inFlight, history,
          owed>>

----------------------------------------------------------------------------
\* onValuesChangeCallback passes a value on if this holds.
Subscribed(p) == \/ p \in mSubOnChangePropIdAreaIds
                 \/ /\ p \in Continuous
                    /\ mRefreshInfoByPropIdAreaId[p] # Nothing

SameValue(e, f) == e.value = f.value

Init ==
    /\ clock = 0
    /\ store \in {s \in [PropIdAreaIds -> PropValues] :
                    \A p \in PropIdAreaIds : s[p].prop = p /\ s[p].timestamp = 0}
    /\ bus = Nothing
    /\ mSubOnChangePropIdAreaIds = {}
    /\ mRefreshInfoByPropIdAreaId = [p \in Continuous |-> Nothing]
    /\ mActionByIntervalInNanos = [i \in Intervals |-> {}]
    /\ timers = {}
    /\ refreshing = Nothing
    /\ inFlight = [t \in Threads |-> {}]
    /\ stuck = FALSE
    /\ received = [p \in PropIdAreaIds |-> Nothing]
    /\ arrived = [p \in PropIdAreaIds |-> Nothing]
    /\ owed = {}

----------------------------------------------------------------------------
(* VehiclePropertyStore.                                                   *)

\* Mutant: an outdated value overwrites a newer one.
writeValueUnchecked(t, new) ==
    LET old == store[new.prop]
        changed == ~SameValue(old, new)
    IN  /\ store' = [store EXCEPT ![new.prop] = new]
        /\ inFlight' = [inFlight EXCEPT ![t] = IF changed THEN {new} ELSE {}]
        /\ owed' = IF changed /\ Subscribed(new.prop)
                   THEN owed \cup {new.prop} ELSE owed

\* writeValue with EventMode ON_VALUE_CHANGE, under the store's lock.
writeValue(t, new) ==
    LET old == store[new.prop]
        changed == ~SameValue(old, new)
    IN  IF old.timestamp > new.timestamp
        THEN UNCHANGED <<store, inFlight, owed>>
        ELSE /\ store' = [store EXCEPT ![new.prop] = new]
             /\ inFlight' = [inFlight EXCEPT
                                ![t] = IF changed THEN {new} ELSE {}]
             /\ owed' = IF changed /\ Subscribed(new.prop)
                        THEN owed \cup {new.prop} ELSE owed

\* setValue of a property that maybeSetSpecialValue leaves alone: the store
\* takes the time under its lock.
setValue(p, v) ==
    /\ inFlight["set"] = {}
    /\ clock < MaxClock
    /\ clock' = clock + 1
    /\ writeValue("set", [store[p] EXCEPT !.value = v, !.timestamp = clock'])
    /\ UNCHANGED <<bus, subscriptions, refreshing, history>>

\* A generator makes an event; the hub waits for its time.
nextEvent(p, v) ==
    /\ bus = Nothing
    /\ inFlight["bus"] = {}
    /\ clock < MaxClock
    /\ clock' = clock + 1
    /\ bus' = [prop |-> p, value |-> v, timestamp |-> clock']
    /\ UNCHANGED <<store, subscriptions, refreshing, inFlight, history, owed>>

\* The event reaches the store, which may have newer values by now.
eventFromVehicleBus ==
    /\ bus # Nothing
    /\ bus' = Nothing
    /\ writeValue("bus", bus)
    /\ UNCHANGED <<clock, subscriptions, refreshing, history>>

\* The timer thread copies what to refresh under mLock.
refreshTimestampForInterval(i) ==
    /\ ~stuck
    /\ i \in timers
    /\ refreshing = Nothing /\ inFlight["timer"] = {}
    /\ refreshing' = [p \in mActionByIntervalInNanos[i] |->
                         mRefreshInfoByPropIdAreaId[p].eventMode]
    /\ UNCHANGED <<clock, store, bus, subscriptions, inFlight, history, owed>>

\* refreshTimestamps, under the store's lock: no look at the old timestamp.
refreshTimestamps ==
    /\ refreshing # Nothing
    /\ clock' = IF clock > MaxClock THEN clock ELSE clock + 1
    /\ store' = [p \in PropIdAreaIds |->
                    IF p \in DOMAIN refreshing
                    THEN [store[p] EXCEPT !.timestamp = clock'] ELSE store[p]]
    /\ inFlight' = [inFlight EXCEPT !["timer"] =
                       {store'[p] : p \in {q \in DOMAIN refreshing :
                                              refreshing[q] = "ALWAYS"}}]
    /\ refreshing' = Nothing
    /\ UNCHANGED <<bus, subscriptions, history, owed>>

\* Mutant: only the on-change subscriptions are looked at.
passedOnOnChange(values) == {e \in values : e.prop \in mSubOnChangePropIdAreaIds}

passedOn(values) == {e \in values : Subscribed(e.prop)}

\* A thread makes its callback, which takes mLock and passes on what is
\* subscribed.  A callback has at most one value of a [propId, areaId].
onValuesChangeCallback(t) ==
    /\ ~stuck
    /\ inFlight[t] # {}
    /\ inFlight' = [inFlight EXCEPT ![t] = {}]
    /\ LET events == passedOn(inFlight[t])
           eventOf(p) == CHOOSE e \in events : e.prop = p
           props == {e.prop : e \in events}
           newer == {p \in props :
                        \/ received[p] = Nothing
                        \/ received[p].timestamp =< eventOf(p).timestamp}
       IN  /\ arrived' = [p \in PropIdAreaIds |->
                             IF p \in props THEN eventOf(p) ELSE arrived[p]]
           /\ received' = [p \in PropIdAreaIds |->
                              IF p \in newer THEN eventOf(p) ELSE received[p]]
    /\ UNCHANGED <<clock, store, bus, subscriptions, refreshing, owed>>

----------------------------------------------------------------------------
(* Subscriptions: subscribePropIdAreaIdLocked and unsubscribe.             *)

\* The actions without p, whose interval loses its timer with its last p.
unregisterRefreshLocked(p) ==
    [i \in Intervals |-> mActionByIntervalInNanos[i] \ {p}]

\* Mutant: a new rate does not take p out of the old interval.
registerRefreshAgain(p, mode, i) ==
    /\ mRefreshInfoByPropIdAreaId' =
           [mRefreshInfoByPropIdAreaId EXCEPT
                ![p] = [eventMode |-> mode, intervalInNanos |-> i]]
    /\ mActionByIntervalInNanos' =
           [mActionByIntervalInNanos EXCEPT ![i] = @ \cup {p}]
    /\ timers' = timers \cup {i}
    /\ stuck' = (LooperStub /\ i \notin timers)

\* The first action of an interval registers a timer.  The Looper of the
\* Linux port delivers the timer's message at once, in the same thread, whose
\* handler takes the lock that registerTimerCallback holds.
registerRefreshLocked(p, mode, i) ==
    LET actions == unregisterRefreshLocked(p)
        kept == {j \in timers : actions[j] # {}}
        first == actions[i] = {}
    IN  /\ mRefreshInfoByPropIdAreaId' =
               [mRefreshInfoByPropIdAreaId EXCEPT
                    ![p] = [eventMode |-> mode, intervalInNanos |-> i]]
        /\ mActionByIntervalInNanos' = [actions EXCEPT ![i] = @ \cup {p}]
        /\ timers' = kept \cup {i}
        /\ stuck' = (LooperStub /\ first)

subscribeOnChange(p) ==
    /\ ~stuck
    /\ mSubOnChangePropIdAreaIds' = mSubOnChangePropIdAreaIds \cup {p}
    /\ UNCHANGED <<clock, store, bus, mRefreshInfoByPropIdAreaId,
                   mActionByIntervalInNanos, timers, stuck, refreshing,
                   inFlight, history, owed>>

subscribeContinuous(p, mode, i) ==
    /\ ~stuck
    /\ registerRefreshLocked(p, mode, i)
    /\ UNCHANGED <<clock, store, bus, mSubOnChangePropIdAreaIds, refreshing,
                   inFlight, history, owed>>

unsubscribe(p) ==
    /\ ~stuck
    /\ mSubOnChangePropIdAreaIds' = mSubOnChangePropIdAreaIds \ {p}
    /\ mRefreshInfoByPropIdAreaId' =
           [q \in Continuous |-> IF q = p THEN Nothing
                                 ELSE mRefreshInfoByPropIdAreaId[q]]
    /\ mActionByIntervalInNanos' = unregisterRefreshLocked(p)
    /\ timers' = {i \in timers : unregisterRefreshLocked(p)[i] # {}}
    /\ owed' = owed \ {p}
    /\ UNCHANGED <<clock, store, bus, stuck, refreshing, inFlight, history>>

----------------------------------------------------------------------------
Next ==
    \/ \E p \in PropIdAreaIds, v \in Values :
           setValue(p, v) \/ nextEvent(p, v)
    \/ eventFromVehicleBus
    \/ \E i \in Intervals : refreshTimestampForInterval(i)
    \/ refreshTimestamps
    \/ \E t \in Threads : onValuesChangeCallback(t)
    \/ \E p \in OnChange : subscribeOnChange(p)
    \/ \E p \in Continuous, mode \in EventModes, i \in Intervals :
           subscribeContinuous(p, mode, i)
    \/ \E p \in PropIdAreaIds : unsubscribe(p)

Spec == Init /\ [][Next]_vars

\* The three threads run.  The looper takes the messages of its timers in the
\* order of their time, so none is put off for ever by the others.
Fairness ==
    /\ WF_vars(eventFromVehicleBus)
    /\ \A i \in Intervals : SF_vars(refreshTimestampForInterval(i))
    /\ WF_vars(refreshTimestamps)
    /\ \A t \in Threads : WF_vars(onValuesChangeCallback(t))

FairSpec == Spec /\ Fairness

----------------------------------------------------------------------------
(* Properties.                                                             *)

\* Every variable has the type of its declaration, and a timestamp is never
\* later than now.
TypeOK ==
    /\ clock \in 0 .. MaxClock + 1
    /\ store \in [PropIdAreaIds -> PropValues]
    /\ bus \in PropValues \cup {Nothing}
    /\ mSubOnChangePropIdAreaIds \subseteq OnChange
    /\ mRefreshInfoByPropIdAreaId \in [Continuous -> RefreshInfos \cup {Nothing}]
    /\ mActionByIntervalInNanos \in [Intervals -> SUBSET Continuous]
    /\ timers \subseteq Intervals
    /\ refreshing \in {Nothing} \cup
                        UNION {[S -> EventModes] : S \in SUBSET Continuous}
    /\ inFlight \in [Threads -> SUBSET PropValues]
    /\ stuck \in BOOLEAN
    /\ received \in [PropIdAreaIds -> PropValues \cup {Nothing}]
    /\ arrived \in [PropIdAreaIds -> PropValues \cup {Nothing}]
    /\ owed \subseteq PropIdAreaIds
    /\ \A p \in PropIdAreaIds : store[p].prop = p /\ store[p].timestamp =< clock
    /\ bus # Nothing => bus.timestamp =< clock

\* The three tables of registerRefreshLocked and unregisterRefreshLocked
\* agree: a [propId, areaId] is refreshed in its own interval and in no
\* other, and exactly the intervals that have something to refresh have a
\* timer, whatever rates are asked for and given up in which order.
RefreshBooksAgree ==
    /\ \A p \in Continuous, i \in Intervals :
           p \in mActionByIntervalInNanos[i]
             <=> /\ mRefreshInfoByPropIdAreaId[p] # Nothing
                 /\ mRefreshInfoByPropIdAreaId[p].intervalInNanos = i
    /\ timers = {i \in Intervals : mActionByIntervalInNanos[i] # {}}

\* What has been passed on of p, or is still to be.
EventsOf(p) == {e \in UNION {inFlight[t] : t \in Threads} : e.prop = p}
                 \cup ({received[p]} \ {Nothing})

\* Events overtake each other, but their timestamps tell: once a value has
\* changed under a subscription, the newest event of all that were and will
\* be passed on carries the value that the store holds
\* (writeValue's check of the timestamp, and the order of its store's lock).
NewestEventIsCurrent ==
    \A p \in owed : \E e \in EventsOf(p) :
        /\ SameValue(e, store[p])
        /\ \A f \in EventsOf(p) : f.timestamp =< e.timestamp

\* Every callback that a thread is about to make returns: refreshing and
\* writing take their locks one at a time ("Invoke the callback outside the
\* lock to prevent dead-lock.", VehiclePropertyStore.cpp).
CallbacksReturn == \A t \in Threads : (inFlight[t] # {}) ~> (inFlight[t] = {})

\* A continuous [propId, areaId] that stays subscribed without VUR and at one
\* rate: the last event passed on is in the end the value of the store, even
\* if events of the writers came in the wrong order and however the others
\* that share its timer come and go; the refresh repairs that.
RefreshRepairsOrder ==
    \A p \in Continuous, i \in Intervals :
        <>[](mRefreshInfoByPropIdAreaId[p] =
                 [eventMode |-> "ALWAYS", intervalInNanos |-> i])
          => <>[](arrived[p] # Nothing /\ SameValue(arrived[p], store[p]))
============================================================================

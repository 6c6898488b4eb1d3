-------------------------- MODULE VhalServiceProofs --------------------------
(***************************************************************************)
(* Proofs about VhalService, for any clients, configurations and calls.    *)
(***************************************************************************)
EXTENDS VhalService, TLAPS, SequenceTheorems, FiniteSetTheorems, WellFoundedInduction

-----------------------------------------------------------------------------
(* The destructor: the stages after those at which a thread was joined. *)

ConsumerGone == {"consumerJoined", "managerReset", "destroyed"}
HandlerGone == ConsumerGone \union {"handlerJoined", "timerUnregistered", "queueInactive",
                                    "stopRequested"}
StageNames == HandlerGone \union {"running", "recipientDeleted", "eventsInactive"}

EndInv ==
  /\ life \in StageNames
  /\ life \in HandlerGone => inHand = <<>>
  /\ life \in ConsumerGone /\ mEventBatchingWindow => consumer = "done"

(* The binder library and the handler of its events, until the destructor runs. *)

InQueue(e) == e \in ToSet(mBinderEvents) \union ToSet(inHand)

\* Only a link whose death was reported is taken away, and its process is then
\* known to be dead: the client can never be linked again, so the unlink event that
\* waits for the handler erases a context nobody holds.
LinkInv ==
  /\ process \in [Clients -> {"alive", "dead", "told"}]
  /\ mBinderEvents \in Seq([died : BOOLEAN, client : Clients])
  /\ inHand \in Seq([died : BOOLEAN, client : Clients])
  /\ linked \subseteq mOnBinderDiedContexts /\ mOnBinderDiedContexts \subseteq Clients
  /\ notifying \subseteq linked
  /\ \A c \in linked : c \in notifying <=> process[c] = "told"
  /\ \A c \in mOnBinderDiedContexts : process[c] # "told" => c \in linked
  /\ \A c \in Clients : InQueue(Event(FALSE, c)) => c \notin linked /\ process[c] = "told"

Owns(c) == ~Unsubscribed(c) \/ c \in mGetValuesClients \union mSetValuesClients
Kept(c) == \/ c \in linked /\ c \notin notifying
           \/ InQueue(Event(TRUE, c))
           \/ c \in refused

BinderInv ==
  life = "running" =>
    /\ LinkInv
    /\ DOMAIN subscribed = Clients /\ DOMAIN watched = Clients
    /\ \A c \in Clients : Owns(c) => Kept(c)

(* Configurations and calls. *)

Supported == {p \in Props : isConfigSupportedForCurrentVhalVersion(p)}

ConfigInv ==
  /\ mConfigsByPropId \subseteq Supported
  /\ fetched \in [Threads -> {NULL} \union SUBSET Supported]
  /\ DOMAIN subscribed = Clients /\ DOMAIN watched = Clients
  /\ \A c \in Clients : \A key \in watched[c] : key[1] \in Supported

(* Events. *)

EventInv ==
  /\ emitted \in Nat
  /\ delivered \in Seq(Nat) /\ batch \in Seq(Nat) /\ mBatchedEventQueue \in Seq(Nat)
  /\ mEventBatchingWindow \in BOOLEAN
  /\ ~mEventBatchingWindow => consumer = "start" /\ mBatchedEventQueue = <<>>
  /\ consumer # "deliver" => batch = <<>>
  /\ life \in StageNames

-----------------------------------------------------------------------------
(* Stages. *)

LEMMA ReachedMeans ==
  ASSUME life \in StageNames
  PROVE  /\ Reached("eventsInactive") <=> life \notin {"running", "recipientDeleted"}
         /\ Reached("managerReset") <=> life \in {"managerReset", "destroyed"}
         /\ life \in {"running", "recipientDeleted", "eventsInactive", "handlerJoined",
                      "timerUnregistered"} => ~Reached("queueInactive")
BY DEF StageNames, HandlerGone, ConsumerGone, Reached, Stages

LEMMA StageMoves ==
  /\ Stage("running") => life = "running" /\ life' = "recipientDeleted"
  /\ Stage("recipientDeleted") => life = "recipientDeleted" /\ life' = "eventsInactive"
  /\ Stage("eventsInactive") => life = "eventsInactive" /\ life' = "handlerJoined"
  /\ Stage("handlerJoined") => life = "handlerJoined" /\ life' = "timerUnregistered"
  /\ Stage("timerUnregistered") => life = "timerUnregistered" /\ life' = "queueInactive"
  /\ Stage("queueInactive") => life = "queueInactive" /\ life' = "stopRequested"
  /\ Stage("stopRequested") => life = "stopRequested" /\ life' = "consumerJoined"
  /\ Stage("consumerJoined") => life = "consumerJoined" /\ life' = "managerReset"
  /\ Stage("managerReset") => life = "managerReset" /\ life' = "destroyed"
BY DEF Stage, Stages

\* What a step may change.
LEMMA Frames ==
  /\ ClientCalls \/ Queries => life = "running" /\ UNCHANGED <<life, inHand, configVars, eventVars>>
  /\ Queries => UNCHANGED <<binderVars, clientVars>>
  /\ ConfigThreads => UNCHANGED <<life, binderVars, clientVars, eventVars, answer>>
  /\ Binder => UNCHANGED <<life, inHand, clientVars, configVars, eventVars, answer>>
  /\ Handler => UNCHANGED <<life, configVars, eventVars, answer>>
  /\ propertyChange \/ Consumer \/ Heartbeat =>
       UNCHANGED <<life, binderVars, clientVars, configVars, answer>>
  /\ deleteRecipient => UNCHANGED <<inHand, clientVars, configVars, eventVars, answer>>
  /\ Destructor => UNCHANGED <<binderVars, clientVars, configVars, answer>>
<1> USE DEF binderVars, clientVars, configVars, eventVars
<1>0. ASSUME NEW c, monitorBinderLifeCycleLocked(c) PROVE UNCHANGED inHand
  BY <1>0 DEF monitorBinderLifeCycleLocked
<1>a. ASSUME ClientCalls PROVE life = "running" /\ UNCHANGED <<life, inHand, configVars, eventVars>>
  <2>1. ASSUME NEW c, NEW o, subscribe(c, o)
        PROVE  life = "running" /\ UNCHANGED <<life, inHand, configVars, eventVars>>
    BY <1>0, <2>1 DEF subscribe, Call
  <2>2. ASSUME NEW c, NEW o, unsubscribe(c, o)
        PROVE  life = "running" /\ UNCHANGED <<life, inHand, configVars, eventVars>>
    BY <2>2 DEF unsubscribe, Call
  <2>3. ASSUME NEW c, NEW q, registerSupportedValueChangeCallback(c, q)
        PROVE  life = "running" /\ UNCHANGED <<life, inHand, configVars, eventVars>>
    BY <1>0, <2>3 DEF registerSupportedValueChangeCallback, Call
  <2>4. ASSUME NEW c, NEW q, unregisterSupportedValueChangeCallback(c, q)
        PROVE  life = "running" /\ UNCHANGED <<life, inHand, configVars, eventVars>>
    BY <2>4 DEF unregisterSupportedValueChangeCallback, Call
  <2>5. ASSUME NEW c, NEW p, NEW a, getValues(c, p, a)
        PROVE  life = "running" /\ UNCHANGED <<life, inHand, configVars, eventVars>>
    BY <1>0, <2>5 DEF getValues, Call
  <2>6. ASSUME NEW c, NEW p, NEW a, NEW fits, setValues(c, p, a, fits)
        PROVE  life = "running" /\ UNCHANGED <<life, inHand, configVars, eventVars>>
    BY <1>0, <2>6 DEF setValues, Call
  <2> QED
    BY <1>a, <2>1, <2>2, <2>3, <2>4, <2>5, <2>6 DEF ClientCalls
<1>b. Queries => life = "running" /\ UNCHANGED <<life, inHand, configVars, eventVars>>
  BY DEF Queries, Call, subscribeRejected, getPropConfigs, getAllPropConfigs, getSupported
<1>1. ClientCalls \/ Queries => life = "running" /\ UNCHANGED <<life, inHand, configVars, eventVars>>
  BY <1>a, <1>b
<1>2. Queries => UNCHANGED <<binderVars, clientVars>>
  BY DEF Queries, subscribeRejected, getPropConfigs, getAllPropConfigs, getSupported
<1>3. ConfigThreads => UNCHANGED <<life, binderVars, clientVars, eventVars, answer>>
  BY DEF ConfigThreads, fetchConfigs, storeConfigs, dump
<1>4. Binder => UNCHANGED <<life, inHand, clientVars, configVars, eventVars, answer>>
  BY DEF Binder, die, onBinderDied, onBinderUnlinked
<1>5. Handler => UNCHANGED <<life, configVars, eventVars, answer>>
  BY DEF Handler, onBinderDiedUnlinkedHandler, onBinderDiedWithContext,
         onBinderUnlinkedWithContext
<1>6. propertyChange \/ Consumer \/ Heartbeat =>
       UNCHANGED <<life, binderVars, clientVars, configVars, answer>>
  BY DEF propertyChange, Consumer, consumerStarts, consumerChecks, waitForItems,
         consumerFlushes, handleBatchedPropertyEvents, Heartbeat, takeHeartbeat, checkHealth,
         ConsumerStep
<1>7. deleteRecipient => UNCHANGED <<inHand, clientVars, configVars, eventVars, answer>>
  BY DEF deleteRecipient
<1>8. Destructor => UNCHANGED <<binderVars, clientVars, configVars, answer>>
  BY DEF Destructor, DestructorStep, deactivateEvents, joinHandler, unregisterTimer,
         deactivateQueue, requestStop, waitStopped, resetManager, resetHardware
<1> QED
  BY <1>1, <1>2, <1>3, <1>4, <1>5, <1>6, <1>7, <1>8

LEMMA EndInit == Init => EndInv
BY DEF Init, EndInv, StageNames, HandlerGone, ConsumerGone

LEMMA EndStep ==
  ASSUME EndInv, [Next]_vars
  PROVE  EndInv'
<1> USE DEF binderVars, clientVars, configVars, eventVars
<1>1. CASE UNCHANGED <<life, inHand, mEventBatchingWindow, consumer>>
  BY <1>1 DEF EndInv
<1>2. CASE Handler
  <2>1. UNCHANGED <<life, mEventBatchingWindow, consumer>>
    BY <1>2, Frames
  <2>2. life \in HandlerGone => FALSE
    <3> SUFFICES ASSUME life \in HandlerGone PROVE FALSE
      OBVIOUS
    <3>1. inHand = <<>> /\ Reached("eventsInactive")
      BY ReachedMeans DEF EndInv, HandlerGone, ConsumerGone
    <3> QED
      BY <1>2, <3>1 DEF Handler, onBinderDiedUnlinkedHandler, onBinderDiedWithContext,
                        onBinderUnlinkedWithContext
  <2> QED
    BY <2>1, <2>2 DEF EndInv
<1>3. CASE Consumer
  <2>1. UNCHANGED <<life, inHand>>
    BY <1>3, Frames
  <2>2. UNCHANGED mEventBatchingWindow
    BY <1>3 DEF Consumer, consumerStarts, consumerChecks, waitForItems,
         consumerFlushes, handleBatchedPropertyEvents, ConsumerStep
  <2>3. consumer # "done"
    BY <1>3 DEF Consumer, consumerStarts, consumerChecks, waitForItems,
         consumerFlushes, handleBatchedPropertyEvents
  <2> QED
    BY <2>1, <2>2, <2>3 DEF EndInv
<1>4. CASE deleteRecipient
  BY <1>4, StageMoves, Frames DEF deleteRecipient, EndInv, StageNames, HandlerGone, ConsumerGone
<1>5. CASE Destructor
  <2>1. UNCHANGED <<inHand, mEventBatchingWindow, consumer>>
    BY <1>5, Frames DEF Destructor, deactivateEvents, joinHandler, unregisterTimer,
         deactivateQueue, requestStop, waitStopped, resetManager, resetHardware
  <2>2. /\ life' \in StageNames
        /\ life' \in HandlerGone => life \in HandlerGone \/ inHand = <<>>
        /\ life' \in ConsumerGone =>
             life \in ConsumerGone \/ (mEventBatchingWindow => consumer = "done")
    BY <1>5, StageMoves DEF Destructor, deactivateEvents, joinHandler, unregisterTimer,
         deactivateQueue, requestStop, waitStopped, resetManager, resetHardware,
         StageNames, HandlerGone, ConsumerGone
  <2> QED
    BY <2>1, <2>2 DEF EndInv
<1>6. CASE propertyChange \/ Heartbeat
  BY <1>1, <1>6, Frames DEF propertyChange, Heartbeat, takeHeartbeat, checkHealth
<1>7. CASE ClientCalls \/ Queries \/ ConfigThreads \/ Binder
  BY <1>1, <1>7, Frames
<1>8. CASE UNCHANGED vars
  BY <1>1, <1>8 DEF vars
<1> QED
  BY <1>2, <1>3, <1>4, <1>5, <1>6, <1>7, <1>8 DEF Next

-----------------------------------------------------------------------------
(* The events of the binder library. *)

Events == [died : BOOLEAN, client : Clients]

LEMMA Appended ==
  ASSUME NEW S, NEW s \in Seq(S), NEW e \in S
  PROVE  /\ Append(s, e) \in Seq(S)
         /\ ToSet(Append(s, e)) = ToSet(s) \union {e}
<1> DEFINE t == Append(s, e)
<1>1. /\ t \in Seq(S) /\ Len(t) = Len(s) + 1 /\ t[Len(s) + 1] = e
      /\ \A i \in 1..Len(s) : t[i] = s[i]
      /\ Len(s) \in Nat
  OBVIOUS
<1> HIDE DEF t
<1>2. DOMAIN s = 1..Len(s) /\ DOMAIN t = 1..Len(t)
  BY <1>1
<1>3. \A x : x \in ToSet(t) <=> x \in ToSet(s) \union {e}
  <2>1. ASSUME NEW x \in ToSet(t) PROVE x \in ToSet(s) \union {e}
    BY <1>1, <1>2 DEF ToSet
  <2>2. ASSUME NEW x \in ToSet(s) PROVE x \in ToSet(t)
    BY <1>1, <1>2 DEF ToSet
  <2>3. e \in ToSet(t)
    BY <1>1, <1>2 DEF ToSet
  <2> QED
    BY <2>1, <2>2, <2>3
<1> QED
  BY <1>1, <1>3 DEF t

LEMMA HeadTaken ==
  ASSUME NEW S, NEW s \in Seq(S), s # <<>>
  PROVE  /\ Head(s) \in S /\ Tail(s) \in Seq(S)
         /\ ToSet(s) = {Head(s)} \union ToSet(Tail(s))
<1>1. /\ Head(s) \in S /\ Tail(s) \in Seq(S) /\ Len(s) \in Nat \ {0}
      /\ Head(s) = s[1] /\ Len(Tail(s)) = Len(s) - 1
      /\ \A i \in 1..Len(Tail(s)) : Tail(s)[i] = s[i + 1]
  BY HeadTailProperties, EmptySeq
<1> DEFINE t == Tail(s)
<1> HIDE DEF t
<1>2. DOMAIN s = 1..Len(s) /\ DOMAIN t = 1..Len(t)
  BY <1>1 DEF t
<1>3. \A x : x \in ToSet(s) <=> x \in {Head(s)} \union ToSet(t)
  <2>1. ASSUME NEW i \in 1..Len(s) PROVE s[i] = Head(s) \/ s[i] \in ToSet(t)
    <3>1. CASE i = 1
      BY <1>1, <3>1
    <3>2. CASE i # 1
      <4>1. i - 1 \in 1..Len(t) /\ t[i - 1] = s[i]
        BY <1>1, <3>2 DEF t
      <4> QED
        BY <1>2, <4>1 DEF ToSet
    <3> QED
      BY <3>1, <3>2
  <2>2. ASSUME NEW i \in 1..Len(t) PROVE t[i] \in ToSet(s)
    <3>1. i + 1 \in 1..Len(s) /\ t[i] = s[i + 1]
      BY <1>1 DEF t
    <3> QED
      BY <1>2, <3>1 DEF ToSet
  <2>3. Head(s) \in ToSet(s)
    BY <1>1, <1>2 DEF ToSet
  <2> QED
    BY <1>2, <2>1, <2>2, <2>3 DEF ToSet
<1> QED
  BY <1>1, <1>3 DEF t

LEMMA EventFacts ==
  /\ \A c \in Clients : /\ Event(TRUE, c) \in Events /\ Event(FALSE, c) \in Events
                        /\ Event(TRUE, c).died /\ ~Event(FALSE, c).died
                        /\ Event(TRUE, c).client = c /\ Event(FALSE, c).client = c
  /\ \A c, d \in Clients : Event(TRUE, c) # Event(FALSE, d)
  /\ \A c, d \in Clients : Event(FALSE, c) = Event(FALSE, d) => c = d
  /\ \A c, d \in Clients : Event(TRUE, c) = Event(TRUE, d) => c = d
  /\ \A e \in Events : e.died \in BOOLEAN /\ e.client \in Clients /\ e = Event(e.died, e.client)
BY DEF Event, Events

\* While the service runs an event is queued.
LEMMA Queued ==
  ASSUME life = "running", LinkInv, NEW e \in Events,
         mBinderEvents' = Push(mBinderEvents, e), UNCHANGED inHand
  PROVE  /\ mBinderEvents' \in Seq(Events) /\ inHand' \in Seq(Events)
         /\ \A x : InQueue(x)' <=> InQueue(x) \/ x = e
<1>1. ~Reached("eventsInactive")
  BY ReachedMeans DEF StageNames
<1>2. mBinderEvents' = Append(mBinderEvents, e)
  BY <1>1 DEF Push
<1>3. mBinderEvents \in Seq(Events) /\ inHand \in Seq(Events)
  BY DEF LinkInv, Events
<1>4. mBinderEvents' \in Seq(Events) /\ ToSet(mBinderEvents') = ToSet(mBinderEvents) \union {e}
  BY <1>2, <1>3, Appended
<1>5. ASSUME NEW x PROVE InQueue(x)' <=> InQueue(x) \/ x = e
  BY <1>4 DEF InQueue, ToSet
<1> QED
  BY <1>3, <1>4, <1>5

\* monitorBinderLifeCycleLocked keeps the links in order; a client that it accepts is
\* linked, and its death is not being reported.
LEMMA MonitorEffect ==
  ASSUME life = "running", LinkInv, NEW c \in Clients, monitorBinderLifeCycleLocked(c)
  PROVE  /\ LinkInv'
         /\ monitored(c) => c \in linked' /\ c \notin notifying'
         /\ linked \subseteq linked' /\ notifying' = notifying
         /\ \A x : InQueue(x) => InQueue(x)'
<1>1. /\ mOnBinderDiedContexts' = mOnBinderDiedContexts \union {c}
      /\ UNCHANGED <<process, notifying, inHand>>
  BY DEF monitorBinderLifeCycleLocked
<1>2. CASE c \in mOnBinderDiedContexts \/ linkToDeath(c)
  <2>1. UNCHANGED mBinderEvents /\ linked' = IF c \in mOnBinderDiedContexts THEN linked ELSE linked \union {c}
    BY <1>2 DEF monitorBinderLifeCycleLocked
  <2>2. \A x : InQueue(x)' <=> InQueue(x)
    BY <1>1, <2>1 DEF InQueue, ToSet
  <2>3. LinkInv'
    BY <1>1, <1>2, <2>1, <2>2 DEF LinkInv, linkToDeath
  <2>4. monitored(c) => c \in linked' /\ c \notin notifying'
    BY <1>1, <1>2, <2>1 DEF LinkInv, monitored, linkToDeath, isAlive
  <2> QED
    BY <1>1, <2>1, <2>2, <2>3, <2>4
<1>3. CASE c \notin mOnBinderDiedContexts /\ ~linkToDeath(c)
  <2>1. mBinderEvents' = Push(mBinderEvents, Event(FALSE, c)) /\ UNCHANGED linked
    BY <1>3 DEF monitorBinderLifeCycleLocked
  <2>2. /\ mBinderEvents' \in Seq(Events) /\ inHand' \in Seq(Events)
        /\ \A x : InQueue(x)' <=> InQueue(x) \/ x = Event(FALSE, c)
    BY <1>1, <2>1, Queued, EventFacts
  <2>3. \A d \in Clients : InQueue(Event(FALSE, d))' => InQueue(Event(FALSE, d)) \/ d = c
    <3> SUFFICES ASSUME NEW d \in Clients
                 PROVE  InQueue(Event(FALSE, d))' => InQueue(Event(FALSE, d)) \/ d = c
      OBVIOUS
    <3>1. PICK x : x = Event(FALSE, d)
      OBVIOUS
    <3>2. InQueue(x)' => InQueue(x) \/ x = Event(FALSE, c)
      BY <2>2
    <3> QED
      BY <3>1, <3>2, EventFacts DEF Event
  <2>4. LinkInv'
    BY <1>1, <1>3, <2>1, <2>2, <2>3 DEF LinkInv, linkToDeath, Events
  <2>5. ~monitored(c)
    BY <1>3 DEF monitored
  <2> QED
    BY <1>1, <2>1, <2>2, <2>4, <2>5
<1> QED
  BY <1>2, <1>3

\* The library reports a death, and takes the link away.
LEMMA BinderEffect ==
  ASSUME life = "running", LinkInv, Binder
  PROVE  /\ LinkInv'
         /\ UNCHANGED clientVars
         /\ \A c \in Clients : Kept(c) => Kept(c)'
<1>0. UNCHANGED <<life, inHand, clientVars>>
  BY Frames
<1>a. UNCHANGED refused
  BY <1>0 DEF clientVars
<1>1. ASSUME NEW c \in Clients, die(c)
      PROVE  LinkInv' /\ \A d \in Clients : Kept(d) => Kept(d)'
  <2>1. /\ process[c] = "alive" /\ process' = [process EXCEPT ![c] = "dead"]
        /\ UNCHANGED <<linked, notifying, mOnBinderDiedContexts, mBinderEvents, inHand>>
    BY <1>1 DEF die
  <2>2. \A x : InQueue(x)' <=> InQueue(x)
    BY <2>1 DEF InQueue, ToSet
  <2>3. LinkInv'
    BY <2>1, <2>2 DEF LinkInv
  <2>4. \A d \in Clients : InQueue(Event(TRUE, d))' <=> InQueue(Event(TRUE, d))
    BY <2>1 DEF InQueue, ToSet, Event
  <2> QED
    BY <1>a, <2>1, <2>3, <2>4 DEF Kept
<1>2. ASSUME NEW c \in Clients, onBinderDied(c)
      PROVE  LinkInv' /\ \A d \in Clients : Kept(d) => Kept(d)'
  <2>1. /\ process[c] = "dead" /\ process' = [process EXCEPT ![c] = "told"]
        /\ UNCHANGED <<linked, mOnBinderDiedContexts, inHand>>
    BY <1>2 DEF onBinderDied
  <2>2. CASE c \in linked
    <3>1. mBinderEvents' = Push(mBinderEvents, Event(TRUE, c)) /\ notifying' = notifying \union {c}
      BY <1>2, <2>2 DEF onBinderDied
    <3>2. /\ mBinderEvents' \in Seq(Events) /\ inHand' \in Seq(Events)
          /\ \A x : InQueue(x)' <=> InQueue(x) \/ x = Event(TRUE, c)
      BY <2>1, <3>1, Queued, EventFacts
    <3>3. ASSUME NEW d \in Clients
          PROVE  /\ InQueue(Event(FALSE, d))' => InQueue(Event(FALSE, d))
                 /\ InQueue(Event(TRUE, d))' <=> InQueue(Event(TRUE, d)) \/ d = c
      <4>1. PICK x, y : x = Event(FALSE, d) /\ y = Event(TRUE, d)
        OBVIOUS
      <4>2. /\ InQueue(x)' => InQueue(x) \/ x = Event(TRUE, c)
            /\ InQueue(y)' <=> InQueue(y) \/ y = Event(TRUE, c)
        BY <3>2
      <4>3. x # Event(TRUE, c) /\ (y = Event(TRUE, c) <=> d = c)
        BY <4>1, EventFacts
      <4> QED
        BY <4>1, <4>2, <4>3 DEF Event
    <3>4. LinkInv'
      BY <2>1, <2>2, <3>1, <3>2, <3>3 DEF LinkInv, Events
    <3> QED
      BY <1>a, <2>1, <3>1, <3>3, <3>4 DEF Kept
  <2>3. CASE c \notin linked
    <3>1. UNCHANGED <<mBinderEvents, notifying>>
      BY <1>2, <2>3 DEF onBinderDied
    <3>2. \A x : InQueue(x)' <=> InQueue(x)
      BY <2>1, <3>1 DEF InQueue, ToSet
    <3>3. \A d \in Clients : /\ InQueue(Event(TRUE, d))' <=> InQueue(Event(TRUE, d))
                             /\ InQueue(Event(FALSE, d))' <=> InQueue(Event(FALSE, d))
      BY <2>1, <3>1 DEF InQueue, ToSet, Event
    <3>4. LinkInv'
      BY <2>1, <2>3, <3>1, <3>3 DEF LinkInv
    <3> QED
      BY <1>a, <2>1, <3>1, <3>3, <3>4 DEF Kept
  <2> QED
    BY <2>2, <2>3
<1>3. ASSUME NEW c \in Clients, onBinderUnlinked(c)
      PROVE  LinkInv' /\ \A d \in Clients : Kept(d) => Kept(d)'
  <2>1. /\ c \in notifying /\ notifying' = notifying \ {c} /\ linked' = linked \ {c}
        /\ mBinderEvents' = Push(mBinderEvents, Event(FALSE, c))
        /\ UNCHANGED <<process, mOnBinderDiedContexts, inHand>>
    BY <1>3 DEF onBinderUnlinked
  <2>2. /\ mBinderEvents' \in Seq(Events) /\ inHand' \in Seq(Events)
        /\ \A x : InQueue(x)' <=> InQueue(x) \/ x = Event(FALSE, c)
    BY <2>1, Queued, EventFacts
  <2>3. ASSUME NEW d \in Clients
        PROVE  /\ InQueue(Event(FALSE, d))' => InQueue(Event(FALSE, d)) \/ d = c
               /\ InQueue(Event(TRUE, d)) => InQueue(Event(TRUE, d))'
    <3>1. PICK x, y : x = Event(FALSE, d) /\ y = Event(TRUE, d)
      OBVIOUS
    <3>2. /\ InQueue(x)' => InQueue(x) \/ x = Event(FALSE, c)
          /\ InQueue(y) => InQueue(y)'
      BY <2>2
    <3>3. x = Event(FALSE, c) <=> d = c
      BY <3>1, EventFacts
    <3> QED
      BY <3>1, <3>2, <3>3 DEF Event
  <2>4. process[c] = "told" /\ c \in linked
    BY <2>1 DEF LinkInv
  <2>5. LinkInv'
    BY <2>1, <2>2, <2>3, <2>4 DEF LinkInv, Events
  <2> QED
    BY <1>a, <2>1, <2>3, <2>5 DEF Kept
<1> QED
  BY <1>0, <1>1, <1>2, <1>3 DEF Binder

\* The handler thread: an unlink event erases a context that is not linked; a death
\* event cleans up after its client.
LEMMA HandlerEffect ==
  ASSUME life = "running", BinderInv, Handler
  PROVE  BinderInv'
<1>0. LinkInv /\ UNCHANGED life
  BY Frames DEF BinderInv
<1>1. CASE onBinderDiedUnlinkedHandler
  <2>1. /\ inHand = <<>> /\ inHand' = mBinderEvents /\ mBinderEvents' = <<>>
        /\ UNCHANGED <<process, linked, notifying, mOnBinderDiedContexts, clientVars>>
    BY <1>1 DEF onBinderDiedUnlinkedHandler
  <2>2. \A d \in Clients : /\ InQueue(Event(TRUE, d))' <=> InQueue(Event(TRUE, d))
                           /\ InQueue(Event(FALSE, d))' <=> InQueue(Event(FALSE, d))
    BY <2>1 DEF InQueue, ToSet, Event
  <2>3. mBinderEvents' \in Seq(Events)
    BY <2>1
  <2>4. LinkInv'
    BY <1>0, <2>1, <2>2, <2>3 DEF LinkInv, Events
  <2> QED
    BY <2>1, <2>2, <2>4 DEF BinderInv, Owns, Kept, Unsubscribed, clientVars
<1>2. CASE onBinderDiedWithContext \/ onBinderUnlinkedWithContext
  <2> DEFINE h == Head(inHand)
  <2>1. /\ inHand # <<>> /\ inHand' = Tail(inHand)
        /\ UNCHANGED <<process, linked, notifying, mBinderEvents>>
    BY <1>2 DEF onBinderDiedWithContext, onBinderUnlinkedWithContext
  <2>2. inHand \in Seq(Events) /\ mBinderEvents \in Seq(Events)
    BY <1>0 DEF LinkInv, Events
  <2>3. /\ h \in Events /\ inHand' \in Seq(Events)
        /\ ToSet(inHand) = {h} \union ToSet(inHand')
    BY <2>1, <2>2, HeadTaken
  <2> HIDE DEF h
  <2>4. /\ h.client \in Clients /\ h.died \in BOOLEAN /\ h = Event(h.died, h.client)
    BY <2>3, EventFacts
  <2>5. ASSUME NEW x PROVE /\ InQueue(x) <=> InQueue(x)' \/ x = h
    BY <2>1, <2>3 DEF InQueue, ToSet
  <2>6. ASSUME NEW d \in Clients
        PROVE  /\ InQueue(Event(FALSE, d))' => InQueue(Event(FALSE, d))
               /\ InQueue(Event(TRUE, d)) => InQueue(Event(TRUE, d))' \/ (h.died /\ h.client = d)
    <3>1. PICK x, y : x = Event(FALSE, d) /\ y = Event(TRUE, d)
      OBVIOUS
    <3>2. (InQueue(x)' => InQueue(x)) /\ (InQueue(y) => InQueue(y)' \/ y = h)
      BY <2>5
    <3>3. y = h => h.died /\ h.client = d
      BY <3>1, EventFacts
    <3> QED
      BY <3>1, <3>2, <3>3 DEF Event
  <2>7. CASE onBinderDiedWithContext
    <3>1. h.died /\ UNCHANGED mOnBinderDiedContexts
      BY <2>7 DEF onBinderDiedWithContext, h
    <3>2. LinkInv'
      BY <1>0, <2>1, <2>2, <2>3, <2>6, <3>1 DEF LinkInv, Events
    <3>3. /\ mGetValuesClients' = mGetValuesClients \ {h.client}
          /\ mSetValuesClients' = mSetValuesClients \ {h.client}
      BY <2>7 DEF onBinderDiedWithContext, h
    <3>4. DOMAIN subscribed = Clients /\ DOMAIN watched = Clients
      BY DEF BinderInv
    <3>5. /\ DOMAIN subscribed' = Clients /\ DOMAIN watched' = Clients
          /\ \A d \in Clients \ {h.client} : subscribed'[d] = subscribed[d] /\ watched'[d] = watched[d]
          /\ refused \subseteq refused'
          /\ \/ h.client \in refused'
             \/ DOMAIN subscribed'[h.client] = {} /\ watched'[h.client] = {}
      BY <2>4, <2>7, <3>4 DEF onBinderDiedWithContext, h, Nothing
    <3>6. ASSUME NEW d \in Clients, Owns(d)'
          PROVE  Kept(d)'
      <4>1. CASE d = h.client
        BY <3>3, <3>5, <3>6, <4>1 DEF Owns, Kept, Unsubscribed
      <4>2. CASE d # h.client
        <5>1. Owns(d)
          BY <3>3, <3>5, <3>6, <4>2 DEF Owns, Unsubscribed
        <5>2. Kept(d)
          BY <5>1 DEF BinderInv
        <5> QED
          BY <2>1, <2>6, <3>5, <4>2, <5>2 DEF Kept
      <4> QED
        BY <4>1, <4>2
    <3> QED
      BY <3>2, <3>5, <3>6 DEF BinderInv
  <2>8. CASE onBinderUnlinkedWithContext
    <3>1. /\ ~h.died /\ mOnBinderDiedContexts' = mOnBinderDiedContexts \ {h.client}
          /\ UNCHANGED clientVars
      BY <2>8 DEF onBinderUnlinkedWithContext, h
    <3>2. h = Event(FALSE, h.client)
      BY <2>4, <3>1
    <3>3. InQueue(Event(FALSE, h.client))
      BY <2>5, <3>2
    <3>4. h.client \notin linked /\ process[h.client] = "told"
      BY <1>0, <2>4, <3>3 DEF LinkInv
    <3>5. LinkInv'
      BY <1>0, <2>1, <2>2, <2>3, <2>6, <3>1, <3>4 DEF LinkInv, Events
    <3>6. \A d \in Clients : Owns(d)' => Kept(d)'
      BY <2>1, <2>6, <3>1 DEF BinderInv, Owns, Kept, Unsubscribed, clientVars
    <3> QED
      BY <3>1, <3>5, <3>6 DEF BinderInv, clientVars
  <2> QED
    BY <1>2, <2>7, <2>8
<1> QED
  BY <1>1, <1>2 DEF Handler

\* A call of client c: what c gets by it, it gets as a client that is monitored.
LEMMA CallEffect ==
  ASSUME life = "running", BinderInv, ClientCalls
  PROVE  BinderInv'
<1>0. /\ LinkInv /\ UNCHANGED life
      /\ DOMAIN subscribed = Clients /\ DOMAIN watched = Clients
      /\ \A c \in Clients : Owns(c) => Kept(c)
  BY Frames DEF BinderInv
<1>1. ASSUME NEW c \in Clients, monitorBinderLifeCycleLocked(c), UNCHANGED refused,
             DOMAIN subscribed' = Clients, DOMAIN watched' = Clients,
             \A d \in Clients : Owns(d)' => Owns(d) \/ (d = c /\ monitored(c))
      PROVE  BinderInv'
  <2>1. /\ LinkInv'
        /\ monitored(c) => c \in linked' /\ c \notin notifying'
        /\ linked \subseteq linked' /\ notifying' = notifying
        /\ \A x : InQueue(x) => InQueue(x)'
    BY <1>0, <1>1, MonitorEffect
  <2>2. ASSUME NEW d \in Clients PROVE InQueue(Event(TRUE, d)) => InQueue(Event(TRUE, d))'
    <3>1. PICK x : x = Event(TRUE, d)
      OBVIOUS
    <3> QED
      BY <2>1, <3>1 DEF Event
  <2>3. \A d \in Clients : Kept(d) => Kept(d)'
    BY <1>1, <2>1, <2>2 DEF Kept
  <2>4. monitored(c) => Kept(c)'
    BY <2>1 DEF Kept
  <2> QED
    BY <1>0, <1>1, <2>1, <2>3, <2>4 DEF BinderInv
<1>2. ASSUME UNCHANGED <<binderVars, refused>>,
             DOMAIN subscribed' = Clients, DOMAIN watched' = Clients,
             \A d \in Clients : Owns(d)' => Owns(d)
      PROVE  BinderInv'
  <2>1. UNCHANGED <<process, linked, notifying, mOnBinderDiedContexts, mBinderEvents, inHand>>
    BY <1>2 DEF binderVars
  <2>2. \A d \in Clients : /\ InQueue(Event(TRUE, d))' <=> InQueue(Event(TRUE, d))
                           /\ InQueue(Event(FALSE, d))' <=> InQueue(Event(FALSE, d))
    BY <2>1 DEF InQueue, ToSet, Event
  <2>3. LinkInv'
    BY <1>0, <2>1, <2>2 DEF LinkInv
  <2>4. \A d \in Clients : Kept(d) => Kept(d)'
    BY <1>2, <2>1, <2>2 DEF Kept
  <2> QED
    BY <1>0, <1>2, <2>3, <2>4 DEF BinderInv
<1>3. ASSUME NEW c \in Clients, NEW options, subscribe(c, options)
      PROVE  BinderInv'
  <2>1. /\ monitorBinderLifeCycleLocked(c)
        /\ UNCHANGED <<mGetValuesClients, mSetValuesClients, watched, refused>>
    BY <1>3 DEF subscribe
  <2> DEFINE onChange == parseSubscribeOptions(options, "ON_CHANGE")
             all == Override(parseSubscribeOptions(options, "CONTINUOUS"), onChange)
             reached == {d \in SUBSET DOMAIN all :
                           DOMAIN onChange \subseteq d \/ d \subseteq DOMAIN onChange}
  <2>a. \E done \in IF ~monitored(c) THEN {{}}
                    ELSE IF mayRefuse THEN reached ELSE {DOMAIN all} :
          subscribed' = [subscribed EXCEPT ![c] = Override([k \in done |-> all[k]], @)]
    BY <1>3 DEF subscribe
  <2> HIDE DEF onChange, all, reached
  <2>2. PICK done : /\ subscribed' = [subscribed EXCEPT ![c] = Override([k \in done |-> all[k]], @)]
                    /\ ~monitored(c) => done = {}
    BY <2>a
  <2>3. /\ DOMAIN subscribed' = Clients
        /\ \A d \in Clients \ {c} : subscribed'[d] = subscribed[d]
        /\ DOMAIN subscribed'[c] = done \union DOMAIN subscribed[c]
    BY <1>0, <2>2 DEF Override
  <2>4. \A d \in Clients : Owns(d)' => Owns(d) \/ (d = c /\ monitored(c))
    BY <2>1, <2>2, <2>3 DEF Owns, Unsubscribed
  <2> QED
    BY <1>0, <1>1, <2>1, <2>3, <2>4
<1>4. ASSUME NEW c \in Clients, NEW props, unsubscribe(c, props)
      PROVE  BinderInv'
  <2>1. UNCHANGED <<binderVars, mGetValuesClients, mSetValuesClients, watched, refused>>
    BY <1>4 DEF unsubscribe
  <2>2. PICK done : subscribed' = [subscribed EXCEPT ![c] = [k \in DOMAIN @ \ done |-> @[k]]]
    BY <1>4 DEF unsubscribe
  <2>3. /\ DOMAIN subscribed' = Clients
        /\ \A d \in Clients \ {c} : subscribed'[d] = subscribed[d]
        /\ DOMAIN subscribed'[c] = DOMAIN subscribed[c] \ done
    BY <1>0, <2>2
  <2>4. \A d \in Clients : Owns(d)' => Owns(d)
    BY <2>1, <2>3 DEF Owns, Unsubscribed
  <2> QED
    BY <1>0, <1>2, <2>1, <2>3, <2>4
<1>5. ASSUME NEW c \in Clients, NEW query, registerSupportedValueChangeCallback(c, query)
      PROVE  BinderInv'
  <2> DEFINE keys == {query[i] : i \in {j \in 1..Len(query) :
                        getHasSupportedValueInfo(query[j][1], query[j][2]) # {}}}
  <2>1. UNCHANGED <<mGetValuesClients, mSetValuesClients, subscribed, refused>>
    BY <1>5 DEF registerSupportedValueChangeCallback
  <2>2. CASE keys = {}
    <3>1. UNCHANGED <<binderVars, watched>>
      BY <1>5, <2>2 DEF registerSupportedValueChangeCallback
    <3> QED
      BY <1>0, <1>2, <2>1, <3>1 DEF Owns, Unsubscribed
  <2>3. CASE keys # {}
    <3>1. /\ monitorBinderLifeCycleLocked(c)
          /\ \E done \in IF ~monitored(c) THEN {{}} ELSE IF mayRefuse THEN {keys, {}} ELSE {keys} :
                  watched' = [watched EXCEPT ![c] = @ \union done]
      BY <1>5, <2>3 DEF registerSupportedValueChangeCallback
    <3> HIDE DEF keys
    <3>2. PICK done : /\ watched' = [watched EXCEPT ![c] = @ \union done]
                      /\ ~monitored(c) => done = {}
      BY <3>1
    <3>3. /\ DOMAIN watched' = Clients
          /\ \A d \in Clients \ {c} : watched'[d] = watched[d]
          /\ watched'[c] = watched[c] \union done
      BY <1>0, <3>2
    <3>4. \A d \in Clients : Owns(d)' => Owns(d) \/ (d = c /\ monitored(c))
      BY <2>1, <3>2, <3>3 DEF Owns, Unsubscribed
    <3> QED
      BY <1>0, <1>1, <2>1, <3>1, <3>3, <3>4
  <2> QED
    BY <2>2, <2>3
<1>6. ASSUME NEW c \in Clients, NEW query, unregisterSupportedValueChangeCallback(c, query)
      PROVE  BinderInv'
  <2>1. UNCHANGED <<binderVars, mGetValuesClients, mSetValuesClients, subscribed, refused>>
    BY <1>6 DEF unregisterSupportedValueChangeCallback
  <2>2. PICK done : watched' = [watched EXCEPT ![c] = @ \ done]
    BY <1>6 DEF unregisterSupportedValueChangeCallback
  <2>3. /\ DOMAIN watched' = Clients
        /\ \A d \in Clients \ {c} : watched'[d] = watched[d]
        /\ watched'[c] = watched[c] \ done
    BY <1>0, <2>2
  <2>4. \A d \in Clients : Owns(d)' => Owns(d)
    BY <2>1, <2>3 DEF Owns, Unsubscribed
  <2> QED
    BY <1>0, <1>2, <2>1, <2>3, <2>4
<1>7. ASSUME NEW c \in Clients, NEW p, NEW a, getValues(c, p, a)
      PROVE  BinderInv'
  <2>1. /\ monitorBinderLifeCycleLocked(c)
        /\ mGetValuesClients' = IF monitored(c) THEN mGetValuesClients \union {c}
                                ELSE mGetValuesClients
        /\ UNCHANGED <<mSetValuesClients, subscribed, watched, refused>>
    BY <1>7 DEF getValues
  <2>2. \A d \in Clients : Owns(d)' => Owns(d) \/ (d = c /\ monitored(c))
    BY <2>1 DEF Owns, Unsubscribed
  <2> QED
    BY <1>0, <1>1, <2>1, <2>2
<1>8. ASSUME NEW c \in Clients, NEW p, NEW a, NEW fits, setValues(c, p, a, fits)
      PROVE  BinderInv'
  <2>1. /\ monitorBinderLifeCycleLocked(c)
        /\ mSetValuesClients' = IF monitored(c) THEN mSetValuesClients \union {c}
                                ELSE mSetValuesClients
        /\ UNCHANGED <<mGetValuesClients, subscribed, watched, refused>>
    BY <1>8 DEF setValues
  <2>2. \A d \in Clients : Owns(d)' => Owns(d) \/ (d = c /\ monitored(c))
    BY <2>1 DEF Owns, Unsubscribed
  <2> QED
    BY <1>0, <1>1, <2>1, <2>2
<1> QED
  BY <1>3, <1>4, <1>5, <1>6, <1>7, <1>8 DEF ClientCalls

LEMMA BinderInit == Init => BinderInv
<1> SUFFICES ASSUME Init PROVE BinderInv
  OBVIOUS
<1>1. /\ \A c \in Clients : ~InQueue(Event(FALSE, c))
      /\ mBinderEvents \in Seq(Events) /\ inHand \in Seq(Events)
  BY DEF Init, InQueue, ToSet
<1>2. LinkInv
  BY <1>1 DEF Init, LinkInv, Events
<1>3. \A c \in Clients : ~Owns(c)
  BY DEF Init, Owns, Unsubscribed, Nothing
<1> QED
  BY <1>2, <1>3 DEF Init, BinderInv

LEMMA BinderStep ==
  ASSUME EndInv, BinderInv, [Next]_vars
  PROVE  BinderInv'
<1>1. CASE UNCHANGED <<life, binderVars, clientVars>>
  <2>1. UNCHANGED <<life, process, linked, notifying, mOnBinderDiedContexts, mBinderEvents, inHand,
                    mGetValuesClients, mSetValuesClients, subscribed, watched, refused>>
    BY <1>1 DEF binderVars, clientVars
  <2>2. \A d \in Clients : /\ InQueue(Event(TRUE, d))' <=> InQueue(Event(TRUE, d))
                           /\ InQueue(Event(FALSE, d))' <=> InQueue(Event(FALSE, d))
    BY <2>1 DEF InQueue, ToSet, Event
  <2>3. LinkInv => LinkInv'
    BY <2>1, <2>2 DEF LinkInv
  <2>4. \A d \in Clients : (Kept(d)' <=> Kept(d)) /\ (Owns(d)' <=> Owns(d))
    BY <2>1, <2>2 DEF Kept, Owns, Unsubscribed
  <2> QED
    BY <2>1, <2>3, <2>4 DEF BinderInv
<1>2. CASE life' # "running"
  BY <1>2 DEF BinderInv
<1>3. CASE ClientCalls
  BY <1>3, CallEffect, Frames
<1>4. CASE Binder
  <2>1. CASE life = "running"
    <3>1. LinkInv' /\ UNCHANGED clientVars /\ \A c \in Clients : Kept(c) => Kept(c)'
      BY <1>4, <2>1, BinderEffect DEF BinderInv
    <3>2. \A c \in Clients : Owns(c)' <=> Owns(c)
      BY <3>1 DEF Owns, Unsubscribed, clientVars
    <3>3. UNCHANGED <<subscribed, watched>>
      BY <3>1 DEF clientVars
    <3> QED
      BY <2>1, <3>1, <3>2, <3>3 DEF BinderInv
  <2>2. CASE life # "running"
    BY <1>2, <1>4, <2>2, Frames
  <2> QED
    BY <2>1, <2>2
<1>5. CASE Handler
  <2>1. UNCHANGED life
    BY <1>5, Frames
  <2> QED
    BY <1>2, <1>5, <2>1, HandlerEffect
<1>6. CASE Queries \/ ConfigThreads \/ propertyChange \/ Consumer \/ Heartbeat
  BY <1>1, <1>6, Frames
<1>7. CASE deleteRecipient \/ Destructor
  <2>1. life' # "running"
    BY <1>7, StageMoves DEF deleteRecipient, Destructor, deactivateEvents, joinHandler,
         unregisterTimer, deactivateQueue, requestStop, waitStopped, resetManager, resetHardware
  <2> QED
    BY <1>2, <2>1
<1>8. CASE UNCHANGED vars
  BY <1>1, <1>8 DEF vars
<1> QED
  BY <1>3, <1>4, <1>5, <1>6, <1>7, <1>8 DEF Next

\* The binder library never holds the context of a client that was erased, and the
\* threads that use the subscription manager have ended when it goes.
THEOREM LifetimesCorrect == Spec => []NothingUsedAfterItsEnd
<1>1. Init => EndInv /\ BinderInv
  BY EndInit, BinderInit
<1>2. EndInv /\ BinderInv /\ [Next]_vars => EndInv' /\ BinderInv'
  BY EndStep, BinderStep
<1>3. EndInv /\ BinderInv => NothingUsedAfterItsEnd
  <2> SUFFICES ASSUME EndInv, BinderInv PROVE NothingUsedAfterItsEnd
    OBVIOUS
  <2>1. CookieIsAlive
    BY DEF BinderInv, LinkInv, CookieIsAlive
  <2>2. ThreadsEndFirst
    BY ReachedMeans DEF EndInv, HandlerGone, ConsumerGone, ThreadsEndFirst
  <2> QED
    BY <2>1, <2>2 DEF NothingUsedAfterItsEnd
<1> QED
  BY <1>1, <1>2, <1>3, PTL DEF Spec

\* A client that has subscriptions or a client object is watched for its death, or its
\* death waits for the handler thread: its calls and its death may come in any order.
THEOREM DeadClientsCorrect == Spec => []DeadLeaveNothing
<1>1. Init => EndInv /\ BinderInv
  BY EndInit, BinderInit
<1>2. EndInv /\ BinderInv /\ [Next]_vars => EndInv' /\ BinderInv'
  BY EndStep, BinderStep
<1>3. EndInv /\ BinderInv => DeadLeaveNothing
  BY DEF BinderInv, DeadLeaveNothing, Owns, Kept, InQueue
<1> QED
  BY <1>1, <1>2, <1>3, PTL DEF Spec

-----------------------------------------------------------------------------
(* Events of the hardware. *)

LEMMA Associative ==
  ASSUME NEW s \in Seq(Nat), NEW t \in Seq(Nat), NEW u \in Seq(Nat)
  PROVE  (s \o t) \o u = s \o (t \o u)
BY ConcatAssociative, SMTT(30)

LEMMA Concats ==
  ASSUME NEW s \in Seq(Nat), NEW t \in Seq(Nat), NEW u \in Seq(Nat), NEW e \in Nat
  PROVE  /\ s \o t \in Seq(Nat) /\ s \o t \o <<>> = s \o t
         /\ s \o <<>> = s /\ <<>> \o s = s /\ <<>> \in Seq(Nat)
         /\ Append(s, e) \in Seq(Nat)
         /\ (s \o t) \o u = s \o (t \o u)
         /\ s \o t \o Append(u, e) = Append(s \o t \o u, e)
<1>1. s \o t \in Seq(Nat) /\ <<>> \in Seq(Nat) /\ Append(s, e) \in Seq(Nat)
      /\ s \o <<>> = s /\ <<>> \o s = s
  BY ConcatEmptySeq, ConcatProperties
<1>2. (s \o t) \o <<>> = s \o t
  BY <1>1, ConcatEmptySeq
<1>3. (s \o t) \o u = s \o (t \o u)
  BY Associative
<1>4. s \o t \o Append(u, e) = Append(s \o t \o u, e)
  <2> DEFINE v == s \o t
             w == v \o u
             x == <<e>>
  <2>1. v \in Seq(Nat) /\ w \in Seq(Nat) /\ x \in Seq(Nat)
    BY <1>1, ConcatProperties
  <2>2. Append(u, e) = u \o x /\ Append(w, e) = w \o x
    BY <2>1, AppendIsConcat
  <2> HIDE DEF v, w, x
  <2>4. (v \o u) \o x = v \o (u \o x)
    BY <2>1, Associative, SMTT(30)
  <2> QED
    BY <2>2, <2>4 DEF v, w
<1> QED
  BY <1>1, <1>2, <1>3, <1>4

LEMMA CountGrows ==
  ASSUME NEW n \in Nat
  PROVE  Append([i \in 1..n |-> i], n + 1) = [i \in 1..(n + 1) |-> i]
<1> DEFINE s == [i \in 1..n |-> i]
           t == Append(s, n + 1)
<1>1. s \in Seq(Nat) /\ Len(s) = n
  OBVIOUS
<1>2. /\ t \in Seq(Nat) /\ Len(t) = n + 1 /\ t[n + 1] = n + 1
      /\ \A i \in 1..n : t[i] = s[i]
  BY <1>1
<1>3. \A i \in 1..(n + 1) : t[i] = i
  BY <1>2
<1>4. t = [i \in 1..Len(t) |-> t[i]]
  BY <1>2
<1> HIDE DEF t
<1> QED
  BY <1>2, <1>3, <1>4 DEF t

LEMMA OrderInit == Init => EventInv /\ EventsInOrder
<1> SUFFICES ASSUME Init PROVE EventInv /\ EventsInOrder
  OBVIOUS
<1>1. /\ emitted = 0 /\ delivered = <<>> /\ batch = <<>> /\ mBatchedEventQueue = <<>>
      /\ mEventBatchingWindow \in BOOLEAN /\ consumer = "start" /\ life = "running"
  BY DEF Init
<1>2. <<>> \o <<>> \o <<>> = <<>>
  BY ConcatEmptySeq
<1>3. <<>> = [i \in 1..0 |-> i]
  OBVIOUS
<1>4. EventInv
  BY <1>1 DEF EventInv, StageNames
<1> QED
  BY <1>1, <1>2, <1>3, <1>4 DEF EventsInOrder

LEMMA OrderStep ==
  ASSUME EventInv, EventsInOrder, [Next]_vars
  PROVE  EventInv' /\ EventsInOrder'
<1> USE DEF binderVars, clientVars, configVars, eventVars
<1>0. /\ emitted \in Nat /\ delivered \in Seq(Nat) /\ batch \in Seq(Nat)
      /\ mBatchedEventQueue \in Seq(Nat) /\ life \in StageNames
  BY DEF EventInv
<1>a. /\ Reached("managerReset") <=> life \in {"managerReset", "destroyed"}
      /\ life' \in StageNames =>
           (Reached("managerReset")' <=> life' \in {"managerReset", "destroyed"})
  <2>1. life' \in StageNames =>
           (Reached("managerReset")' <=> life' \in {"managerReset", "destroyed"})
    BY DEF StageNames, HandlerGone, ConsumerGone, Reached, Stages
  <2> QED
    BY <1>0, <2>1, ReachedMeans
<1>1. CASE /\ UNCHANGED <<mBatchedEventQueue, batch, emitted, delivered, mEventBatchingWindow, consumer>>
           /\ life' \in StageNames
           /\ life \in {"managerReset", "destroyed"} => life' \in {"managerReset", "destroyed"}
  BY <1>a, <1>1 DEF EventInv, EventsInOrder
<1>2. CASE propertyChange
  <2>0. /\ UNCHANGED <<life, consumer, batch, mEventBatchingWindow>>
        /\ mEventBatchingWindow \in BOOLEAN
    BY <1>2, Frames DEF propertyChange, EventInv
  <2>1. CASE mEventBatchingWindow
    <3>1. UNCHANGED delivered
      BY <1>2, <2>1 DEF propertyChange
    <3>2. CASE Reached("queueInactive")
      BY <1>0, <1>1, <1>2, <2>0, <2>1, <3>1, <3>2 DEF propertyChange
    <3>3. CASE ~Reached("queueInactive")
      <4>1. emitted' = emitted + 1 /\ mBatchedEventQueue' = Append(mBatchedEventQueue, emitted + 1)
        BY <1>2, <2>1, <3>3 DEF propertyChange
      <4>2. EventInv'
        BY <1>0, <2>0, <2>1, <3>1, <4>1, Concats DEF EventInv
      <4>3. ~Reached("managerReset") =>
               delivered' \o batch' \o mBatchedEventQueue' = [i \in 1..emitted' |-> i]
        <5>1. delivered \o batch \o Append(mBatchedEventQueue, emitted + 1) =
                Append(delivered \o batch \o mBatchedEventQueue, emitted + 1)
          <6>1. emitted + 1 \in Nat
            BY <1>0
          <6> QED
            BY <1>0, <6>1, Concats, SMTT(30)
        <5>2. Append([i \in 1..emitted |-> i], emitted + 1) = [i \in 1..(emitted + 1) |-> i]
          BY <1>0, CountGrows
        <5>3. delivered' \o batch' \o mBatchedEventQueue' =
                Append(delivered \o batch \o mBatchedEventQueue, emitted + 1)
          BY <2>0, <3>1, <4>1, <5>1
        <5> QED
          BY <4>1, <5>2, <5>3 DEF EventsInOrder
      <4> QED
        BY <1>0, <1>a, <2>0, <4>2, <4>3 DEF EventsInOrder
    <3> QED
      BY <3>2, <3>3
  <2>2. CASE ~mEventBatchingWindow
    <3>1. /\ emitted' = emitted + 1 /\ UNCHANGED mBatchedEventQueue
          /\ ~Reached("managerReset") => delivered' = Append(delivered, emitted + 1)
          /\ delivered' \in Seq(Nat)
      <4>1. /\ emitted' = emitted + 1 /\ UNCHANGED mBatchedEventQueue
            /\ delivered' = IF Reached("managerReset") THEN delivered
                            ELSE Append(delivered, emitted + 1)
        BY <1>2, <2>2 DEF propertyChange
      <4>2. Append(delivered, emitted + 1) \in Seq(Nat)
        BY <1>0
      <4> QED
        BY <1>0, <4>1, <4>2
    <3>2. EventInv'
      BY <1>0, <2>0, <2>2, <3>1 DEF EventInv
    <3>3. batch = <<>> /\ mBatchedEventQueue = <<>>
      BY <2>2 DEF EventInv
    <3>4. ~Reached("managerReset") =>
               delivered' \o batch' \o mBatchedEventQueue' = [i \in 1..emitted' |-> i]
      <4>1. delivered \o batch \o mBatchedEventQueue = delivered
        BY <1>0, <3>3, Concats
      <4>2. delivered' \o batch' \o mBatchedEventQueue' = delivered'
        BY <2>0, <3>1, <3>3, Concats
      <4> QED
        BY <1>0, <3>1, <4>1, <4>2, CountGrows DEF EventsInOrder
    <3> QED
      BY <1>0, <1>a, <2>0, <3>2, <3>4 DEF EventsInOrder
  <2> QED
    BY <2>0, <2>1, <2>2
<1>3. CASE Consumer
  <2>0. UNCHANGED <<life, emitted, mEventBatchingWindow>>
    BY <1>3, Frames DEF Consumer, consumerStarts, consumerChecks, waitForItems,
         consumerFlushes, handleBatchedPropertyEvents, ConsumerStep
  <2>1. CASE consumerStarts \/ waitForItems \/ consumerChecks("loop", "wait")
             \/ consumerChecks("woken", "slept") \/ consumerChecks("slept", "flush")
    <3>1. /\ UNCHANGED <<mBatchedEventQueue, batch, delivered>>
          /\ consumer # "deliver" /\ consumer' # "deliver"
          /\ ~mEventBatchingWindow => consumer # "start"
      BY <2>1 DEF consumerStarts, waitForItems, consumerChecks
    <3> QED
      BY <1>0, <1>a, <2>0, <3>1 DEF EventInv, EventsInOrder
  <2>2. CASE consumerFlushes
    <3>1. /\ consumer = "flush" /\ batch' = mBatchedEventQueue /\ mBatchedEventQueue' = <<>>
          /\ consumer' = IF batch' = <<>> THEN "loop" ELSE "deliver"
          /\ UNCHANGED delivered
      BY <2>2 DEF consumerFlushes
    <3>2. batch = <<>> /\ mEventBatchingWindow
      BY <3>1 DEF EventInv
    <3>3. EventInv'
      BY <1>0, <2>0, <3>1, <3>2 DEF EventInv
    <3>4. delivered' \o batch' \o mBatchedEventQueue' = delivered \o batch \o mBatchedEventQueue
      BY <1>0, <3>1, <3>2, Concats
    <3> QED
      BY <1>0, <1>a, <2>0, <3>3, <3>4 DEF EventsInOrder
  <2>3. CASE handleBatchedPropertyEvents
    <3>1. /\ consumer = "deliver" /\ delivered' = delivered \o batch /\ batch' = <<>>
          /\ consumer' = "loop" /\ UNCHANGED mBatchedEventQueue
      BY <2>3 DEF handleBatchedPropertyEvents
    <3>2. mEventBatchingWindow
      BY <3>1 DEF EventInv
    <3>3. EventInv'
      BY <1>0, <2>0, <3>1, <3>2, Concats DEF EventInv
    <3>4. delivered' \o batch' \o mBatchedEventQueue' = delivered \o batch \o mBatchedEventQueue
      BY <1>0, <3>1, Concats
    <3> QED
      BY <1>0, <1>a, <2>0, <3>3, <3>4 DEF EventsInOrder
  <2> QED
    BY <1>3, <2>1, <2>2, <2>3 DEF Consumer
<1>4. CASE deleteRecipient
  BY <1>1, <1>4, StageMoves, Frames DEF deleteRecipient, StageNames
<1>5. CASE Destructor
  <2>1. UNCHANGED <<mBatchedEventQueue, batch, emitted, delivered, mEventBatchingWindow, consumer>>
    BY <1>5 DEF Destructor, deactivateEvents, joinHandler, unregisterTimer,
         deactivateQueue, requestStop, waitStopped, resetManager, resetHardware
  <2>2. /\ life' \in StageNames
        /\ life \in {"managerReset", "destroyed"} => life' \in {"managerReset", "destroyed"}
    BY <1>5, StageMoves DEF Destructor, deactivateEvents, joinHandler, unregisterTimer,
         deactivateQueue, requestStop, waitStopped, resetManager, resetHardware,
         StageNames, HandlerGone, ConsumerGone
  <2> QED
    BY <1>1, <2>1, <2>2
<1>6. CASE Heartbeat
  BY <1>0, <1>1, <1>6, Frames DEF Heartbeat, takeHeartbeat, checkHealth
<1>7. CASE ClientCalls \/ Queries \/ ConfigThreads \/ Binder \/ Handler
  BY <1>0, <1>1, <1>7, Frames
<1>8. CASE UNCHANGED vars
  BY <1>0, <1>1, <1>8 DEF vars
<1> QED
  BY <1>2, <1>3, <1>4, <1>5, <1>6, <1>7, <1>8 DEF Next

\* Until the subscription manager is reset every event the service took was delivered
\* once and in its order, or waits in the batch or in the queue, whatever the batching
\* window, the calls, the deaths and the destructor do meanwhile.
THEOREM OrderCorrect == Spec => []EventsInOrder
<1>1. Init => EventInv /\ EventsInOrder
  BY OrderInit
<1>2. EventInv /\ EventsInOrder /\ [Next]_vars => (EventInv /\ EventsInOrder)'
  BY OrderStep
<1> QED
  BY <1>1, <1>2, PTL DEF Spec

-----------------------------------------------------------------------------
(* Configurations: what the checks and the parser of subscribe options promise. *)

LEMMA LeastIsThere ==
  ASSUME NEW S \in SUBSET Nat, S # {}
  PROVE  \E x \in S : \A y \in S : x =< y
<1>1. PICK x \in S : \A y \in S : ~(<<y, x>> \in OpToRel(<, Nat))
  BY NatLessThanWellFounded, WFMin
<1>2. ASSUME NEW y \in S PROVE x =< y
  <2>1. ~(y < x)
    BY <1>1 DEF OpToRel
  <2> QED
    BY <2>1
<1> QED
  BY <1>2

LEMMA MinIsThere ==
  ASSUME NEW S \in SUBSET Nat, S # {}
  PROVE  Min(S) \in S
<1>1. \E x \in S : \A y \in S : x =< y
  BY LeastIsThere
<1> QED
  BY <1>1 DEF Min

LEMMA MaxIsThere ==
  ASSUME NEW n \in Nat, NEW S \in SUBSET (1..n), S # {}
  PROVE  Max(S) \in S
<1> DEFINE T == {n - x : x \in S}
<1>1. T \in SUBSET Nat /\ T # {}
  OBVIOUS
<1>2. PICK t \in T : \A u \in T : t =< u
  BY <1>1, LeastIsThere
<1>3. PICK x \in S : t = n - x
  OBVIOUS
<1>4. ASSUME NEW y \in S PROVE x >= y
  <2>0. x \in 1..n /\ y \in 1..n
    OBVIOUS
  <2>1. n - y \in T
    OBVIOUS
  <2>2. n - x =< n - y
    BY <1>2, <1>3, <2>1
  <2> QED
    BY <2>0, <2>2
<1>5. \E z \in S : \A y \in S : z >= y
  BY <1>4
<1> QED
  BY <1>5 DEF Max

\* What SubscriptionsAllowed says of one subscription.
Allowed(key, options, configs) ==
  LET p == key[1]  config == Configs[p]  area == getAreaConfig(p, key[2])
  IN /\ p \in configs
     /\ config.global => key[2] = 0
     /\ key[2] \in DOMAIN config.areas \/ (DOMAIN config.areas = {} /\ key[2] = 0) \/ config.global
     /\ config.changeMode # "STATIC"
     /\ \/ config.access \in {"READ", "READ_WRITE"}
        \/ area # NULL /\ area.access \in {"READ", "READ_WRITE"}
     /\ config.changeMode = "CONTINUOUS" =>
          config.minSampleRate <= options.rate /\ options.rate <= config.maxSampleRate
     /\ config.changeMode = "CONTINUOUS" /\ options.vur => area # NULL /\ area.vur

LEMMA RateInLimits ==
  ASSUME NEW rate \in Nat, NEW min \in Nat, NEW max \in Nat, min <= max
  PROVE  /\ min <= getDefaultSampleRateHz(rate, min, max)
         /\ getDefaultSampleRateHz(rate, min, max) <= max
BY DEF getDefaultSampleRateHz

\* An option that passes the check is parsed into subscriptions that are allowed.
LEMMA ParsedAllowed ==
  ASSUME NEW o, NEW configs \in SUBSET Props, o.rate \in Nat,
         checkOption(o, configs) = "OK", NEW k \in DOMAIN parseOption(o)
  PROVE  Allowed(k, parseOption(o)[k], configs)
<1> DEFINE config == Configs[o.prop]
           listed == DOMAIN config.areas
           checked == IF o.areaIds = {} THEN listed ELSE o.areaIds \intersect listed
           areas == IF config.global THEN {0}
                    ELSE IF o.areaIds = {} THEN listed ELSE o.areaIds
           rate == getDefaultSampleRateHz(o.rate, config.minSampleRate, config.maxSampleRate)
           vur(a) == o.vur /\ getAreaConfig(o.prop, a) # NULL /\ getAreaConfig(o.prop, a).vur
<1>1. /\ o.prop \in configs
      /\ \A a \in o.areaIds : a \in listed \/ (a = 0 /\ listed = {})
      /\ config.changeMode \in {"ON_CHANGE", "CONTINUOUS"}
      /\ \/ hasRequiredAccess(config.access, "READ")
         \/ areaConfigsHaveRequiredAccess(o.prop, checked, "READ")
  BY DEF checkOption
<1>2. /\ config.minSampleRate \in Nat /\ config.maxSampleRate \in Nat
      /\ config.minSampleRate <= config.maxSampleRate
      /\ config.global => listed \subseteq {0}
      /\ \A a \in listed : config.areas[a] # NULL
  BY <1>1, ConfigsKnown DEF Props
<1>3. parseOption(o) = [key \in {o.prop} \X areas |->
        IF config.changeMode = "CONTINUOUS"
          THEN [rate |-> rate, vur |-> vur(key[2])]
          ELSE [rate |-> o.rate, vur |-> o.vur]]
  BY DEF parseOption
<1>4. k[1] = o.prop /\ k[2] \in areas
  BY <1>3
<1>5. /\ config.global => k[2] = 0
      /\ k[2] \in listed \/ (listed = {} /\ k[2] = 0) \/ config.global
  BY <1>1, <1>4
<1>6. \/ config.access \in {"READ", "READ_WRITE"}
      \/ /\ getAreaConfig(o.prop, k[2]) # NULL
         /\ getAreaConfig(o.prop, k[2]).access \in {"READ", "READ_WRITE"}
  <2>1. CASE hasRequiredAccess(config.access, "READ")
    BY <2>1 DEF hasRequiredAccess
  <2>2. CASE areaConfigsHaveRequiredAccess(o.prop, checked, "READ")
    <3> DEFINE area == IF config.global THEN 0 ELSE k[2]
    <3>1. checked # {} /\ \A a \in checked : config.areas[a].access \in {"READ", "READ_WRITE"}
      BY <2>2 DEF areaConfigsHaveRequiredAccess, hasRequiredAccess
    <3>2. area \in checked /\ checked \subseteq listed
      BY <1>1, <1>2, <1>4, <3>1
    <3>3. getAreaConfig(o.prop, k[2]) = config.areas[area]
      BY <3>2 DEF getAreaConfig
    <3> QED
      BY <1>2, <3>1, <3>2, <3>3
  <2> QED
    BY <1>1, <2>1, <2>2
<1>7. config.minSampleRate <= rate /\ rate <= config.maxSampleRate
  BY <1>2, RateInLimits
<1>8. config.changeMode = "CONTINUOUS" =>
         parseOption(o)[k].rate = rate /\ (parseOption(o)[k].vur => vur(k[2]))
  <2>1. parseOption(o)[k] = IF config.changeMode = "CONTINUOUS"
                              THEN [rate |-> rate, vur |-> vur(k[2])]
                              ELSE [rate |-> o.rate, vur |-> o.vur]
    BY <1>3, <1>4
  <2> HIDE DEF rate, vur, config
  <2>2. CASE config.changeMode = "CONTINUOUS"
    <3>1. parseOption(o)[k] = [rate |-> rate, vur |-> vur(k[2])]
      BY <2>1, <2>2
    <3>2. parseOption(o)[k].rate = rate
      BY <3>1
    <3>3. parseOption(o)[k].vur = vur(k[2])
      BY <3>1
    <3> QED
      BY <2>2, <3>2, <3>3
  <2> QED
    BY <2>2
<1> HIDE DEF rate
<1> QED
  BY <1>1, <1>4, <1>5, <1>6, <1>7, <1>8 DEF Allowed

LEMMA AllChecked ==
  ASSUME NEW options \in OptionLists, NEW configs, checkSubscribeOptions(options, configs) = "OK",
         NEW i \in 1..Len(options)
  PROVE  checkOption(options[i], configs) = "OK"
<1> DEFINE bad == {j \in 1..Len(options) : checkOption(options[j], configs) # "OK"}
<1>1. bad # {} => checkOption(options[Min(bad)], configs) = "OK"
  BY DEF checkSubscribeOptions
<1>2. bad # {} => Min(bad) \in bad
  <2>1. bad \in SUBSET Nat
    BY ConfigsKnown
  <2> HIDE DEF bad
  <2> QED
    BY <2>1, MinIsThere
<1>3. bad = {}
  BY <1>1, <1>2
<1> QED
  BY <1>3

\* Whatever the parser gives comes from one of the options.
LEMMA ParsedFrom ==
  ASSUME NEW options \in OptionLists, NEW mode, NEW k \in DOMAIN parseSubscribeOptions(options, mode)
  PROVE  \E i \in 1..Len(options) :
           /\ k \in DOMAIN parseOption(options[i])
           /\ parseSubscribeOptions(options, mode)[k] = parseOption(options[i])[k]
<1> DEFINE named(l) == {i \in 1..Len(options) : /\ Configs[options[i].prop].changeMode = mode
                                                /\ l \in DOMAIN parseOption(options[i])}
           keys == UNION {DOMAIN parseOption(options[i]) : i \in 1..Len(options)}
           parsed == [l \in {m \in keys : named(m) # {}} |-> parseOption(options[Max(named(l))])[l]]
<1>1. parseSubscribeOptions(options, mode) = parsed
  BY DEF parseSubscribeOptions
<1> HIDE DEF keys
<1>2. named(k) # {} /\ parsed[k] = parseOption(options[Max(named(k))])[k]
  BY <1>1
<1>3. Len(options) \in Nat /\ named(k) \in SUBSET (1..Len(options))
  BY ConfigsKnown
<1>4. Max(named(k)) \in named(k)
  <2> HIDE DEF named
  <2> QED
    BY <1>2, <1>3, MaxIsThere
<1> HIDE DEF parsed
<1> QED
  BY <1>1, <1>2, <1>4

-----------------------------------------------------------------------------
(* Configurations: every step keeps to them. *)

LEMMA ConfigShown ==
  ASSUME ConfigInv, NEW p, getConfig(p)
  PROVE  p \in Supported
BY DEF ConfigInv, getConfig, HardwareProps, Props, Supported

\* The list of all configurations holds nothing else.
LEMMA ListedSupported ==
  ASSUME ConfigInv
  PROVE  ToSet(SetToSeq(mConfigsByPropId)) \subseteq Supported
<1> DEFINE S == mConfigsByPropId
           n == Cardinality(S)
<1>1. S \subseteq Supported /\ Supported \subseteq Props /\ IsFiniteSet(Props)
  BY ConfigsKnown DEF ConfigInv, Supported, Props
<1>2. IsFiniteSet(S)
  BY <1>1, FS_Subset
<1> HIDE DEF S
<1>3. n \in Nat /\ ExistsBijection(1..n, S)
  BY <1>2, FS_CardinalityType
<1>4. \E f \in [1..n -> S] : IsInjective(f)
  BY <1>3 DEF ExistsBijection, Bijection, Injection
<1>5. SetToSeq(S) \in [1..n -> S]
  BY <1>4 DEF SetToSeq
<1>6. ToSet(SetToSeq(S)) \subseteq S
  BY <1>5 DEF ToSet
<1> QED
  BY <1>1, <1>6 DEF S

LEMMA AllowedMeans ==
  /\ SubscriptionsAllowed <=>
       \A c \in Clients : \A key \in DOMAIN subscribed[c] :
         Allowed(key, subscribed[c][key], mConfigsByPropId)
  /\ SubscriptionsAllowed' <=>
       \A c \in Clients : \A key \in DOMAIN subscribed'[c] :
         Allowed(key, subscribed'[c][key], mConfigsByPropId')
BY DEF SubscriptionsAllowed, Allowed

\* Known configurations are never taken away, so a subscription stays allowed.
LEMMA AllowedGrows ==
  ASSUME NEW key, NEW options, NEW configs, NEW more, configs \subseteq more,
         Allowed(key, options, configs)
  PROVE  Allowed(key, options, more)
BY DEF Allowed

\* What an accepted call of subscribe adds, whatever the hardware refuses, is allowed.
LEMMA SubscribeAllowed ==
  ASSUME ConfigInv, NEW c \in Clients, NEW options \in OptionLists, subscribe(c, options)
  PROVE  /\ DOMAIN subscribed' = Clients
         /\ \A d \in Clients : \A key \in DOMAIN subscribed'[d] :
              \/ key \in DOMAIN subscribed[d] /\ subscribed'[d][key] = subscribed[d][key]
              \/ Allowed(key, subscribed'[d][key], mConfigsByPropId)
<1> DEFINE onChange == parseSubscribeOptions(options, "ON_CHANGE")
           continuous == parseSubscribeOptions(options, "CONTINUOUS")
           all == Override(continuous, onChange)
           reached == {d \in SUBSET DOMAIN all :
                         DOMAIN onChange \subseteq d \/ d \subseteq DOMAIN onChange}
<1>1. \E done \in IF ~monitored(c) THEN {{}}
                  ELSE IF mayRefuse THEN reached ELSE {DOMAIN all} :
        subscribed' = [subscribed EXCEPT ![c] = Override([k \in done |-> all[k]], @)]
  BY DEF subscribe
<1>2. checkSubscribeOptions(options, mConfigsByPropId) = "OK"
  BY DEF subscribe
<1>3. mConfigsByPropId \in SUBSET Props /\ DOMAIN subscribed = Clients
  BY DEF ConfigInv, Supported
<1>4. ASSUME NEW mode, NEW k \in DOMAIN parseSubscribeOptions(options, mode)
      PROVE  Allowed(k, parseSubscribeOptions(options, mode)[k], mConfigsByPropId)
  <2>1. PICK i \in 1..Len(options) :
          /\ k \in DOMAIN parseOption(options[i])
          /\ parseSubscribeOptions(options, mode)[k] = parseOption(options[i])[k]
    BY <1>4, ParsedFrom
  <2>2. checkOption(options[i], mConfigsByPropId) = "OK" /\ options[i].rate \in Nat
    BY <1>2, AllChecked, ConfigsKnown
  <2>3. Allowed(k, parseOption(options[i])[k], mConfigsByPropId)
    BY <1>3, <2>1, <2>2, ParsedAllowed
  <2> QED
    BY <2>1, <2>3
<1>5. ASSUME NEW k \in DOMAIN all PROVE Allowed(k, all[k], mConfigsByPropId)
  <2> HIDE DEF onChange, continuous
  <2>1. \/ k \in DOMAIN continuous /\ all[k] = continuous[k]
        \/ k \in DOMAIN onChange /\ all[k] = onChange[k]
    BY DEF Override
  <2> HIDE DEF all
  <2>2. CASE k \in DOMAIN continuous /\ all[k] = continuous[k]
    BY <1>4, <2>2 DEF continuous
  <2>3. CASE k \in DOMAIN onChange /\ all[k] = onChange[k]
    BY <1>4, <2>3 DEF onChange
  <2> QED
    BY <2>1, <2>2, <2>3
<1>6. PICK done \in SUBSET DOMAIN all :
        subscribed' = [subscribed EXCEPT ![c] = Override([k \in done |-> all[k]], @)]
  <2> HIDE DEF onChange, continuous, all
  <2> QED
    BY <1>1
<1> HIDE DEF all, onChange, reached
<1>7. /\ DOMAIN subscribed' = Clients
      /\ \A d \in Clients \ {c} : subscribed'[d] = subscribed[d]
      /\ subscribed'[c] = Override([k \in done |-> all[k]], subscribed[c])
  BY <1>3, <1>6
<1>8. ASSUME NEW key \in DOMAIN subscribed'[c]
      PROVE  \/ key \in DOMAIN subscribed[c] /\ subscribed'[c][key] = subscribed[c][key]
             \/ key \in done /\ subscribed'[c][key] = all[key]
  BY <1>7 DEF Override
<1> QED
  BY <1>5, <1>6, <1>7, <1>8

\* Every other call, a death and the handler only take subscriptions away.
LEMMA OthersTakeAway ==
  ASSUME ConfigInv, [Next]_vars,
         ~\E c \in Clients, options \in OptionLists : subscribe(c, options)
  PROVE  /\ DOMAIN subscribed' = Clients
         /\ \A d \in Clients : \A key \in DOMAIN subscribed'[d] :
              key \in DOMAIN subscribed[d] /\ subscribed'[d][key] = subscribed[d][key]
<1> USE DEF binderVars, clientVars, configVars, eventVars
<1>0. DOMAIN subscribed = Clients
  BY DEF ConfigInv
<1>1. CASE UNCHANGED subscribed
  BY <1>0, <1>1
<1>2. CASE Handler
  <2>1. CASE onBinderDiedWithContext
    <3> DEFINE c == Head(inHand).client
    <3>1. \E left \in SUBSET DOMAIN subscribed[c] :
             \/ subscribed' = [subscribed EXCEPT ![c] = Nothing]
             \/ subscribed' = [subscribed EXCEPT ![c] = [k \in left |-> @[k]]]
      BY <2>1 DEF onBinderDiedWithContext
    <3> HIDE DEF c
    <3>2. PICK left \in SUBSET DOMAIN subscribed[c] :
             \/ subscribed' = [subscribed EXCEPT ![c] = Nothing]
             \/ subscribed' = [subscribed EXCEPT ![c] = [k \in left |-> @[k]]]
      BY <3>1
    <3> QED
      BY <1>0, <3>2 DEF Nothing
  <2>2. CASE onBinderDiedUnlinkedHandler \/ onBinderUnlinkedWithContext
    BY <1>1, <2>2 DEF onBinderDiedUnlinkedHandler, onBinderUnlinkedWithContext
  <2> QED
    BY <1>2, <2>1, <2>2 DEF Handler
<1>3. ASSUME NEW c \in Clients, NEW props, unsubscribe(c, props)
      PROVE  /\ DOMAIN subscribed' = Clients
             /\ \A d \in Clients : \A key \in DOMAIN subscribed'[d] :
                  key \in DOMAIN subscribed[d] /\ subscribed'[d][key] = subscribed[d][key]
  <2>1. PICK done : subscribed' = [subscribed EXCEPT ![c] = [k \in DOMAIN @ \ done |-> @[k]]]
    BY <1>3 DEF unsubscribe
  <2>2. /\ DOMAIN subscribed' = Clients
        /\ DOMAIN subscribed'[c] = DOMAIN subscribed[c] \ done
        /\ \A key \in DOMAIN subscribed[c] \ done : subscribed'[c][key] = subscribed[c][key]
        /\ \A d \in Clients \ {c} : subscribed'[d] = subscribed[d]
    BY <1>0, <2>1
  <2> QED
    BY <2>2
<1>4. CASE ClientCalls
  <2>1. ASSUME NEW c \in Clients, NEW query, NEW p, NEW a, NEW fits,
               \/ registerSupportedValueChangeCallback(c, query)
               \/ unregisterSupportedValueChangeCallback(c, query)
               \/ getValues(c, p, a)
               \/ setValues(c, p, a, fits)
        PROVE  UNCHANGED subscribed
    BY <2>1 DEF registerSupportedValueChangeCallback,
         unregisterSupportedValueChangeCallback, getValues, setValues
  <2> QED
    BY <1>1, <1>3, <1>4, <2>1 DEF ClientCalls
<1>5. CASE Queries \/ ConfigThreads \/ Binder \/ propertyChange \/ Consumer \/ Heartbeat
           \/ deleteRecipient \/ Destructor \/ UNCHANGED vars
  BY <1>1, <1>5, Frames DEF vars
<1> QED
  BY <1>2, <1>4, <1>5 DEF Next

\* What a step leaves in the watched keys.
LEMMA WatchedSupported ==
  ASSUME ConfigInv, [Next]_vars
  PROVE  /\ DOMAIN watched' = Clients
         /\ \A c \in Clients : \A key \in watched'[c] : key[1] \in Supported
<1> USE DEF binderVars, clientVars, configVars, eventVars
<1>0. /\ DOMAIN watched = Clients
      /\ \A c \in Clients : \A key \in watched[c] : key[1] \in Supported
  BY DEF ConfigInv
<1>1. CASE UNCHANGED watched
  BY <1>0, <1>1
<1>2. CASE Handler
  <2>1. UNCHANGED watched \/ watched' = [watched EXCEPT ![Head(inHand).client] = {}]
    BY <1>2 DEF Handler, onBinderDiedUnlinkedHandler, onBinderDiedWithContext,
                onBinderUnlinkedWithContext
  <2> DEFINE c == Head(inHand).client
  <2> HIDE DEF c
  <2>2. UNCHANGED watched \/ watched' = [watched EXCEPT ![c] = {}]
    BY <2>1 DEF c
  <2> QED
    BY <1>0, <2>2
<1>3. ASSUME NEW c \in Clients, NEW query, registerSupportedValueChangeCallback(c, query)
      PROVE  /\ DOMAIN watched' = Clients
             /\ \A d \in Clients : \A key \in watched'[d] : key[1] \in Supported
  <2> DEFINE keys == {query[i] : i \in {j \in 1..Len(query) :
                        getHasSupportedValueInfo(query[j][1], query[j][2]) # {}}}
  <2>1. \A i \in 1..Len(query) : getHasSupportedValueInfo(query[i][1], query[i][2]) # NULL
    BY <1>3 DEF registerSupportedValueChangeCallback
  <2>2. \A i \in 1..Len(query) : query[i][1] \in Supported
    BY <2>1, ConfigShown DEF getHasSupportedValueInfo
  <2>3. \A key \in keys : key[1] \in Supported
    BY <2>2
  <2>4. \/ UNCHANGED watched
        \/ \E done \in {{}, keys} : watched' = [watched EXCEPT ![c] = @ \union done]
    <3>1. CASE keys = {}
      BY <1>3, <3>1 DEF registerSupportedValueChangeCallback
    <3>2. CASE keys # {}
      <4>1. \E done \in IF ~monitored(c) THEN {{}} ELSE IF mayRefuse THEN {keys, {}} ELSE {keys} :
              watched' = [watched EXCEPT ![c] = @ \union done]
        BY <1>3, <3>2 DEF registerSupportedValueChangeCallback
      <4> HIDE DEF keys
      <4> QED
        BY <4>1
    <3> QED
      BY <3>1, <3>2
  <2> HIDE DEF keys
  <2> QED
    BY <1>0, <2>3, <2>4
<1>4. ASSUME NEW c \in Clients, NEW query, unregisterSupportedValueChangeCallback(c, query)
      PROVE  /\ DOMAIN watched' = Clients
             /\ \A d \in Clients : \A key \in watched'[d] : key[1] \in Supported
  <2>1. PICK done : watched' = [watched EXCEPT ![c] = @ \ done]
    BY <1>4 DEF unregisterSupportedValueChangeCallback
  <2> QED
    BY <1>0, <2>1
<1>5. CASE ClientCalls
  <2>1. ASSUME NEW c, NEW options, subscribe(c, options) PROVE UNCHANGED watched
    BY <2>1 DEF subscribe
  <2> QED
    BY <1>1, <1>3, <1>4, <1>5, <2>1 DEF ClientCalls, unsubscribe, getValues, setValues
<1>6. CASE Queries \/ ConfigThreads \/ Binder \/ propertyChange \/ Consumer \/ Heartbeat
           \/ deleteRecipient \/ Destructor \/ UNCHANGED vars
  BY <1>1, <1>6, Frames DEF vars
<1> QED
  BY <1>2, <1>5, <1>6 DEF Next

LEMMA ConfigInit == Init => ConfigInv /\ CallsRespectConfigs
<1> SUFFICES ASSUME Init PROVE ConfigInv /\ CallsRespectConfigs
  OBVIOUS
<1>1. /\ mConfigsByPropId = {} /\ fetched = [t \in Threads |-> NULL]
      /\ subscribed = [c \in Clients |-> Nothing] /\ watched = [c \in Clients |-> {}]
      /\ answer = [call |-> "none", asked |-> <<>>, results |-> <<>>]
  BY DEF Init
<1>2. \A c \in Clients : DOMAIN subscribed[c] = {} /\ watched[c] = {}
  BY <1>1 DEF Nothing
<1>3. ConfigInv
  BY <1>1 DEF ConfigInv
<1>4. answer.call = "none"
  BY <1>1
<1> QED
  BY <1>2, <1>3, <1>4
     DEF CallsRespectConfigs, SubscriptionsAllowed, ResultsMatchQueries, UnsupportedHidden

LEMMA ConfigStep ==
  ASSUME ConfigInv, SubscriptionsAllowed, [Next]_vars
  PROVE  ConfigInv' /\ SubscriptionsAllowed'
<1> USE DEF binderVars, clientVars, configVars, eventVars
<1>1. /\ mConfigsByPropId \subseteq mConfigsByPropId'
      /\ mConfigsByPropId' \subseteq Supported
      /\ fetched' \in [Threads -> {NULL} \union SUBSET Supported]
  <2>0. /\ mConfigsByPropId \subseteq Supported
        /\ fetched \in [Threads -> {NULL} \union SUBSET Supported]
    BY DEF ConfigInv
  <2>1. CASE UNCHANGED <<mConfigsByPropId, fetched>>
    BY <2>0, <2>1
  <2>2. ASSUME NEW t \in Threads, fetchConfigs(t)
        PROVE  /\ UNCHANGED mConfigsByPropId
               /\ fetched' \in [Threads -> {NULL} \union SUBSET Supported]
    <3> DEFINE now == {p \in HardwareProps : isConfigSupportedForCurrentVhalVersion(p)}
    <3>1. UNCHANGED mConfigsByPropId /\ fetched' = [fetched EXCEPT ![t] = now]
      BY <2>2 DEF fetchConfigs
    <3>2. now \in SUBSET Supported
      BY DEF HardwareProps, Supported, Props
    <3> HIDE DEF now
    <3> QED
      BY <2>0, <3>1, <3>2
  <2>3. ASSUME NEW t \in Threads, storeConfigs(t)
        PROVE  /\ mConfigsByPropId' = mConfigsByPropId \union fetched[t]
               /\ fetched[t] \in SUBSET Supported
               /\ fetched' \in [Threads -> {NULL} \union SUBSET Supported]
    BY <2>0, <2>3 DEF storeConfigs
  <2>4. ASSUME NEW t \in Threads, dump(t) PROVE UNCHANGED <<mConfigsByPropId, fetched>>
    BY <2>4 DEF dump
  <2>5. CASE ConfigThreads
    BY <2>0, <2>1, <2>2, <2>3, <2>4, <2>5 DEF ConfigThreads
  <2>6. CASE ClientCalls \/ Queries \/ Binder \/ Handler \/ propertyChange \/ Consumer
             \/ Heartbeat \/ deleteRecipient \/ Destructor \/ UNCHANGED vars
    BY <2>1, <2>6, Frames DEF vars
  <2> QED
    BY <2>5, <2>6 DEF Next
<1>2. /\ DOMAIN subscribed' = Clients
      /\ \A d \in Clients : \A key \in DOMAIN subscribed'[d] :
           \/ key \in DOMAIN subscribed[d] /\ subscribed'[d][key] = subscribed[d][key]
           \/ Allowed(key, subscribed'[d][key], mConfigsByPropId)
  <2>1. CASE \E c \in Clients, options \in OptionLists : subscribe(c, options)
    <3>1. PICK c \in Clients, options \in OptionLists : subscribe(c, options)
      BY <2>1
    <3> QED
      BY <3>1, SubscribeAllowed
  <2>2. CASE ~\E c \in Clients, options \in OptionLists : subscribe(c, options)
    BY <2>2, OthersTakeAway
  <2> QED
    BY <2>1, <2>2
<1>3. ConfigInv'
  <2>1. Supported' = Supported
    BY DEF Supported, Props, isConfigSupportedForCurrentVhalVersion
  <2> QED
    BY <1>1, <1>2, <2>1, WatchedSupported DEF ConfigInv
<1>4. \A c \in Clients : \A key \in DOMAIN subscribed'[c] :
        Allowed(key, subscribed'[c][key], mConfigsByPropId)
  <2>1. \A c \in Clients : \A key \in DOMAIN subscribed[c] :
          Allowed(key, subscribed[c][key], mConfigsByPropId)
    BY AllowedMeans
  <2> QED
    BY <1>2, <2>1
<1>5. \A c \in Clients : \A key \in DOMAIN subscribed'[c] :
        Allowed(key, subscribed'[c][key], mConfigsByPropId')
  BY <1>1, <1>4, AllowedGrows
<1> QED
  BY <1>3, <1>5, AllowedMeans

\* What CallsRespectConfigs says of the last answer.
TooNew == {p \in Props : ~isConfigSupportedForCurrentVhalVersion(p)}
Sound(given) ==
  /\ given.call = "supported" /\ given.results # <<>> =>
       /\ Len(given.results) = Len(given.asked)
       /\ \A i \in 1..Len(given.asked) : given.results[i].of = given.asked[i]
  /\ given.call = "configs" => ToSet(given.results) \intersect TooNew = {}
  /\ given.call \in {"get", "set"} /\ given.results = "OK" => given.asked[1] \notin TooNew

\* The results the hardware gave land at the places of their queries.
LEMMA Merged ==
  ASSUME NEW query, Len(query) \in Nat, NEW positions, NEW fromHardware,
         \A k \in 1..Len(positions) : fromHardware[k].of = query[positions[k]]
  PROVE  LET results == mergeResults(query, positions, fromHardware)
         IN /\ Len(results) = Len(query)
            /\ \A i \in 1..Len(query) : results[i].of = query[i]
<1> DEFINE results == mergeResults(query, positions, fromHardware)
<1>1. /\ results = [i \in 1..Len(query) |-> results[i]]
      /\ \A i \in 1..Len(query) : results[i] =
           IF \E k \in 1..Len(positions) : positions[k] = i
             THEN fromHardware[CHOOSE k \in 1..Len(positions) : positions[k] = i]
             ELSE [of |-> query[i],
                   status |-> IF getHasSupportedValueInfo(query[i][1], query[i][2]) = NULL
                                THEN "INVALID_ARG" ELSE "NONE"]
  BY DEF mergeResults
<1> HIDE DEF results
<1>2. Len(results) = Len(query)
  BY <1>1
<1>3. ASSUME NEW i \in 1..Len(query) PROVE results[i].of = query[i]
  <2>1. CASE \E k \in 1..Len(positions) : positions[k] = i
    <3> DEFINE place == CHOOSE k \in 1..Len(positions) : positions[k] = i
    <3>1. place \in 1..Len(positions) /\ positions[place] = i
      BY <2>1
    <3>2. results[i] = fromHardware[place]
      BY <1>1, <2>1
    <3> HIDE DEF place
    <3> QED
      BY <3>1, <3>2
  <2>2. CASE ~\E k \in 1..Len(positions) : positions[k] = i
    <3> DEFINE status == IF getHasSupportedValueInfo(query[i][1], query[i][2]) = NULL
                           THEN "INVALID_ARG" ELSE "NONE"
    <3>1. results[i] = [of |-> query[i], status |-> status]
      BY <1>1, <2>2
    <3> HIDE DEF status
    <3> QED
      BY <3>1
  <2> QED
    BY <2>1, <2>2
<1> QED
  BY <1>2, <1>3 DEF results

LEMMA AnswerSound ==
  ASSUME ConfigInv, Sound(answer), [Next]_vars
  PROVE  Sound(answer')
<1> USE DEF binderVars, clientVars, configVars, eventVars
<1>0. \A p \in Supported : p \notin TooNew
  BY DEF Supported, TooNew
<1>1. CASE UNCHANGED answer
  BY <1>1
<1>2. ASSUME NEW query \in QueryLists, NEW wanted, getSupported(query, wanted)
      PROVE  Sound(answer')
  <2> DEFINE positions == hardwarePositions(query, wanted)
             full == [k \in 1..Len(positions) |-> [of |-> query[positions[k]], status |-> "HW"]]
  <2>1. \E fromHardware \in {full, <<>>} :
          answer' = [call |-> "supported", asked |-> query,
                     results |-> IF Len(fromHardware) # Len(positions) THEN <<>>
                                 ELSE mergeResults(query, positions, fromHardware)]
    BY <1>2 DEF getSupported
  <2> HIDE DEF positions
  <2>2. \A k \in 1..Len(positions) : full[k].of = query[positions[k]]
    OBVIOUS
  <2> HIDE DEF full
  <2>3. PICK fromHardware \in {full, <<>>} :
          answer' = [call |-> "supported", asked |-> query,
                     results |-> IF Len(fromHardware) # Len(positions) THEN <<>>
                                 ELSE mergeResults(query, positions, fromHardware)]
    BY <2>1
  <2>4. answer'.call = "supported" /\ answer'.asked = query
    BY <2>3
  <2>5. CASE Len(fromHardware) # Len(positions)
    <3>1. answer'.results = <<>>
      BY <2>3, <2>5
    <3> QED
      BY <2>4, <3>1 DEF Sound
  <2>6. CASE Len(fromHardware) = Len(positions)
    <3> DEFINE results == mergeResults(query, positions, fromHardware)
    <3>1. answer'.results = results
      BY <2>3, <2>6
    <3>2. \A k \in 1..Len(positions) : fromHardware[k].of = query[positions[k]]
      <4>1. CASE fromHardware = full
        BY <2>2, <4>1
      <4>2. CASE fromHardware = <<>>
        <5>1. Len(positions) = 0
          BY <2>6, <4>2
        <5> QED
          BY <5>1
      <4> QED
        BY <4>1, <4>2
    <3>3. Len(query) \in Nat
      BY ConfigsKnown
    <3>4. /\ Len(results) = Len(query)
          /\ \A i \in 1..Len(query) : results[i].of = query[i]
      BY <3>2, <3>3, Merged
    <3> HIDE DEF results
    <3> QED
      BY <2>4, <3>1, <3>4 DEF Sound
  <2> QED
    BY <2>5, <2>6
<1>3. ASSUME NEW query \in QueryLists, getPropConfigs([i \in 1..Len(query) |-> query[i][1]])
      PROVE  Sound(answer')
  <2> DEFINE props == [i \in 1..Len(query) |-> query[i][1]]
  <2>1. Len(query) \in Nat
    BY ConfigsKnown
  <2>2. DOMAIN props = 1..Len(query) /\ Len(props) = Len(query)
    BY <2>1
  <2>a. getPropConfigs(props)
    BY <1>3
  <2> HIDE DEF props
  <2>3. /\ answer'.call = "configs"
        /\ answer'.results = IF \A i \in 1..Len(props) : getConfig(props[i]) THEN props ELSE <<>>
    BY <2>a DEF getPropConfigs
  <2>4. ToSet(answer'.results) \subseteq Supported
    <3>1. CASE \A i \in 1..Len(props) : getConfig(props[i])
      BY <2>2, <2>3, <3>1, ConfigShown DEF ToSet
    <3>2. CASE ~\A i \in 1..Len(props) : getConfig(props[i])
      BY <2>3, <3>2 DEF ToSet
    <3> QED
      BY <3>1, <3>2
  <2> QED
    BY <1>0, <2>3, <2>4 DEF Sound
<1>4. CASE getAllPropConfigs
  <2>1. answer'.call = "configs" /\ answer'.results = SetToSeq(mConfigsByPropId)
    BY <1>4 DEF getAllPropConfigs
  <2>2. ToSet(answer'.results) \subseteq Supported
    BY <2>1, ListedSupported
  <2> QED
    BY <1>0, <2>1, <2>2 DEF Sound
<1>5. ASSUME NEW options, subscribeRejected(options) PROVE Sound(answer')
  <2>1. answer'.call = "rejected"
    BY <1>5 DEF subscribeRejected
  <2> QED
    BY <2>1 DEF Sound
<1>6. ASSUME NEW c, NEW p, NEW a, getValues(c, p, a) PROVE Sound(answer')
  <2>1. /\ answer'.call = "get" /\ answer'.asked = <<p, a>>
        /\ answer'.results = checkPermissionHelper(p, a, "READ")
    BY <1>6 DEF getValues
  <2>2. answer'.results = "OK" => p \in Supported
    BY <2>1, ConfigShown DEF checkPermissionHelper
  <2> QED
    BY <1>0, <2>1, <2>2 DEF Sound
<1>7. ASSUME NEW c, NEW p, NEW a, NEW fits, setValues(c, p, a, fits) PROVE Sound(answer')
  <2>1. /\ answer'.call = "set" /\ answer'.asked = <<p, a>>
        /\ answer'.results = "OK" => checkPermissionHelper(p, a, "WRITE") = "OK"
    BY <1>7 DEF setValues
  <2>2. answer'.results = "OK" => p \in Supported
    BY <2>1, ConfigShown DEF checkPermissionHelper
  <2> QED
    BY <1>0, <2>1, <2>2 DEF Sound
<1>8. CASE Queries
  BY <1>2, <1>3, <1>4, <1>5, <1>8 DEF Queries
<1>9. CASE ClientCalls
  <2>1. ASSUME NEW c, NEW options, subscribe(c, options) PROVE UNCHANGED answer
    BY <2>1 DEF subscribe
  <2>2. ASSUME NEW c, NEW query, registerSupportedValueChangeCallback(c, query)
        PROVE  UNCHANGED answer
    BY <2>2 DEF registerSupportedValueChangeCallback
  <2>3. ASSUME NEW c, NEW query, unregisterSupportedValueChangeCallback(c, query)
        PROVE  UNCHANGED answer
    BY <2>3 DEF unregisterSupportedValueChangeCallback
  <2>4. ASSUME NEW c, NEW props, unsubscribe(c, props) PROVE UNCHANGED answer
    BY <2>4 DEF unsubscribe
  <2> QED
    BY <1>1, <1>6, <1>7, <1>9, <2>1, <2>2, <2>3, <2>4 DEF ClientCalls
<1>10. CASE ConfigThreads \/ Binder \/ Handler \/ propertyChange \/ Consumer \/ Heartbeat
            \/ deleteRecipient \/ Destructor \/ UNCHANGED vars
  BY <1>1, <1>10, Frames DEF vars
<1> QED
  BY <1>8, <1>9, <1>10 DEF Next

\* The parts of CallsRespectConfigs and their invariants say the same.
LEMMA CallsMeans ==
  /\ ConfigInv /\ SubscriptionsAllowed /\ Sound(answer) => CallsRespectConfigs
  /\ CallsRespectConfigs => SubscriptionsAllowed /\ Sound(answer)
<1>1. CallsRespectConfigs => SubscriptionsAllowed /\ Sound(answer)
  BY DEF CallsRespectConfigs, ResultsMatchQueries, UnsupportedHidden, Sound, TooNew
<1>2. ASSUME ConfigInv, SubscriptionsAllowed, Sound(answer) PROVE CallsRespectConfigs
  <2>1. \A c \in Clients : \A k \in DOMAIN subscribed[c] : k[1] \in Supported
    BY <1>2, AllowedMeans DEF Allowed, ConfigInv
  <2>2. \A c \in Clients : \A k \in DOMAIN subscribed[c] \union watched[c] : k[1] \notin TooNew
    BY <1>2, <2>1 DEF ConfigInv, Supported, TooNew
  <2>3. \A c \in Clients :
          {k[1] : k \in DOMAIN subscribed[c] \union watched[c]} \intersect TooNew = {}
    BY <2>2
  <2>4. UnsupportedHidden
    BY <1>2, <2>3 DEF UnsupportedHidden, Sound, TooNew
  <2>5. ResultsMatchQueries
    BY <1>2 DEF ResultsMatchQueries, Sound
  <2> QED
    BY <1>2, <2>4, <2>5 DEF CallsRespectConfigs
<1> QED
  BY <1>1, <1>2

\* Whatever threads fetch the configurations and whenever they change, subscriptions and
\* answers fit them: a client is subscribed only to what the checks let through, results
\* are at the places of their queries, and a property newer than the VHAL is never shown.
THEOREM ConfigsCorrect == Spec => []CallsRespectConfigs
<1> DEFINE CallInv == ConfigInv /\ SubscriptionsAllowed /\ Sound(answer)
<1>1. Init => CallInv
  BY ConfigInit, CallsMeans
<1>2. CallInv /\ [Next]_vars => CallInv'
  <2> SUFFICES ASSUME CallInv, [Next]_vars PROVE CallInv'
    OBVIOUS
  <2>1. Sound(answer)'
    BY AnswerSound DEF Sound, TooNew, Props, isConfigSupportedForCurrentVhalVersion, ToSet
  <2> QED
    BY <2>1, ConfigStep
<1>3. CallInv => CallsRespectConfigs
  BY CallsMeans
<1> HIDE DEF CallInv
<1> QED
  BY <1>1, <1>2, <1>3, PTL DEF Spec
=============================================================================

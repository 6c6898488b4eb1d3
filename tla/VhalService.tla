----------------------------- MODULE VhalService -----------------------------
(***************************************************************************)
(* DefaultVehicleHal without its value requests (those are in              *)
(* ValueRequests): the property configurations it caches, what it lets a   *)
(* client subscribe to, the life of a client's binder, the events of the   *)
(* hardware with and without a batching window, and its destructor.        *)
(*                                                                         *)
(* The SubscriptionManager is reduced to what each client is subscribed to *)
(* (SubscriptionManager.tla has its inside).  The binder library is        *)
(* external and modelled as the comments and the mock of the tests use it: *)
(* a link reports the death of a process once, onBinderDied first and      *)
(* onBinderUnlinked after it, and linkToDeath fails, with a call of        *)
(* onBinderUnlinked, once the death is known.  The stub of the Linux port  *)
(* (binder_ibinder.h) never reports a death.                               *)
(***************************************************************************)
EXTENDS Naturals, Sequences, FiniteSets, SequencesExt

CONSTANTS
  Clients,      \* callback binders
  Configs,      \* property |-> the configuration the hardware has of it
  TestProps,    \* those that only --genTestVendorConfigs adds
  Version,      \* the interface version of this VHAL
  Threads,      \* threads that may read the configurations at the same time
  OptionLists,  \* what subscribe may be called with
  QueryLists,   \* lists of [propId, areaId] the other calls are made with
  Budgets,      \* how often each kind of input may happen
  NULL          \* no value

ASSUME ConfigsKnown ==
  /\ IsFiniteSet(DOMAIN Configs) /\ TestProps \subseteq DOMAIN Configs /\ Version \in Nat
  /\ \A p \in DOMAIN Configs :
       LET config == Configs[p]
       IN /\ config.minSampleRate \in Nat /\ config.maxSampleRate \in Nat
          /\ config.minSampleRate <= config.maxSampleRate
          /\ config.global => DOMAIN config.areas \subseteq {0}
          /\ \A a \in DOMAIN config.areas : config.areas[a] # NULL
  /\ \A options \in OptionLists : /\ Len(options) \in Nat
                                 /\ \A i \in 1..Len(options) : options[i].rate \in Nat
  /\ \A query \in QueryLists : Len(query) \in Nat

VARIABLES
  process,      \* of each client: "alive", "dead", "told" (the library knows)
  linked,       \* clients the library watches for mDeathRecipient
  notifying,    \* those between onBinderDied and onBinderUnlinked
  mOnBinderDiedContexts, mBinderEvents, inHand,
  mGetValuesClients, mSetValuesClients,
  subscribed,   \* client |-> ([propId, areaId] |-> rate and VUR)
  watched,      \* client |-> [propId, areaId]s of supported value changes
  refused,      \* history: clients the hardware refused to unsubscribe
  hasTestConfigs, refreshing, fetched, mConfigInit, mConfigsByPropId,
  answer,       \* what the last call answered
  mEventBatchingWindow, mBatchedEventQueue, mState, consumer, batch,
  emitted, delivered,
  heartbeat,    \* "idle", or "taken" by the timer thread
  beats,        \* heart beat events that clients got
  life,         \* how far the destructor is
  budget

binderVars == <<process, linked, notifying, mOnBinderDiedContexts, mBinderEvents, inHand>>
clientVars == <<mGetValuesClients, mSetValuesClients, subscribed, watched, refused>>
configVars == <<hasTestConfigs, refreshing, fetched, mConfigInit, mConfigsByPropId>>
eventVars == <<mEventBatchingWindow, mBatchedEventQueue, mState, consumer, batch,
               emitted, delivered, heartbeat, beats>>
vars == <<binderVars, clientVars, configVars, eventVars, answer, life, budget>>

Props == DOMAIN Configs
Inputs == {"subscribe", "register", "unsubscribe", "values", "query", "dump",
           "fetch", "die", "refuse", "event", "window", "beat", "destroy"}
\* The steps of the destructor, in its order.
Stages == <<"running", "recipientDeleted", "eventsInactive", "handlerJoined",
            "timerUnregistered", "queueInactive", "stopRequested",
            "consumerJoined", "managerReset", "destroyed">>
Reached(stage) == \E i, j \in 1..Len(Stages) :
                    i <= j /\ Stages[i] = stage /\ Stages[j] = life
Nothing == [x \in {} |-> NULL]
\* The entries of f, and those of g that f does not replace.
Override(f, g) == [k \in DOMAIN f \union DOMAIN g |-> IF k \in DOMAIN f THEN f[k] ELSE g[k]]
Spend(op) == budget[op] > 0 /\ budget' = [budget EXCEPT ![op] = @ - 1]
\* A call of a client: the service is not destroyed while it is called.
Call(op) == life = "running" /\ Spend(op)

-----------------------------------------------------------------------------
(* Configurations *)

isConfigSupportedForCurrentVhalVersion(p) ==
  \/ ~Configs[p].system
  \/ Configs[p].version # NULL /\ Configs[p].version <= Version

\* What getPropertyConfig and getAllPropertyConfigs of the hardware give now.
HardwareProps == IF hasTestConfigs THEN Props ELSE Props \ TestProps

\* Before the first getAllPropertyConfigs the hardware is asked directly.
getConfig(p) ==
  p \in IF mConfigInit
          THEN mConfigsByPropId
          ELSE {q \in HardwareProps : isConfigSupportedForCurrentVhalVersion(q)}

\* The area of a global property is its only area configuration, if any.
getAreaConfig(p, a) ==
  LET areas == Configs[p].areas
      area == IF Configs[p].global THEN 0 ELSE a
  IN IF area \in DOMAIN areas THEN areas[area] ELSE NULL

hasRequiredAccess(access, required) == access \in {required, "READ_WRITE"}

areaConfigsHaveRequiredAccess(p, areas, required) ==
  areas # {} /\ \A a \in areas : hasRequiredAccess(Configs[p].areas[a].access, required)

checkPermissionHelper(p, a, access) ==
  IF ~getConfig(p) THEN "INVALID_ARG"
  ELSE LET area == getAreaConfig(p, a)
       IN IF area = NULL /\ ~Configs[p].global THEN "INVALID_ARG"
          ELSE IF \/ hasRequiredAccess(Configs[p].access, access)
                  \/ area # NULL /\ hasRequiredAccess(area.access, access)
            THEN "OK" ELSE "ACCESS_DENIED"

\* checkPropValue and checkValueRange are in VehicleUtils; here the value fits
\* its property or it does not.
checkProperty(p, a, fits) ==
  getConfig(p) /\ (Configs[p].global \/ getAreaConfig(p, a) # NULL) /\ fits

\* One thread inside getAllPropConfigsFromHardwareLocked: it reads the
\* configurations without a lock ...
fetchConfigs(t) ==
  /\ Call("fetch") /\ fetched[t] = NULL
  /\ t \in refreshing \/ ~mConfigInit
  /\ fetched' = [fetched EXCEPT ![t] =
                   {p \in HardwareProps : isConfigSupportedForCurrentVhalVersion(p)}]
  /\ UNCHANGED <<binderVars, clientVars, hasTestConfigs, refreshing, mConfigInit,
                 mConfigsByPropId, eventVars, answer, life>>

\* ... and merges them under mConfigLock into what is known already.  The large
\* parcelable of the Linux port is null, so mConfigFile stays null.
storeConfigs(t) ==
  /\ fetched[t] # NULL
  /\ mConfigsByPropId' = mConfigsByPropId \union fetched[t]
  /\ mConfigInit' = TRUE
  /\ fetched' = [fetched EXCEPT ![t] = NULL]
  /\ refreshing' = refreshing \ {t}
  /\ UNCHANGED <<binderVars, clientVars, hasTestConfigs, eventVars, answer, life, budget>>

\* dump with --genTestVendorConfigs or --restoreVendorConfigs: the hardware
\* changes its configurations and asks for a refresh, made by the same thread.
dump(t) ==
  /\ Call("dump") /\ t \notin refreshing /\ fetched[t] = NULL
  /\ hasTestConfigs' \in BOOLEAN
  /\ refreshing' = refreshing \union {t}
  /\ UNCHANGED <<binderVars, clientVars, fetched, mConfigInit, mConfigsByPropId,
                 eventVars, answer, life>>

\* The first unknown property of the list fails the whole call.
getPropConfigs(props) ==
  /\ Call("query")
  /\ answer' = [call |-> "configs", asked |-> props,
                results |-> IF \A i \in 1..Len(props) : getConfig(props[i])
                              THEN props ELSE <<>>]
  /\ UNCHANGED <<binderVars, clientVars, configVars, eventVars, life>>

getAllPropConfigs ==
  /\ mConfigInit /\ Call("query")
  /\ answer' = [call |-> "configs", asked |-> SetToSeq(mConfigsByPropId),
                results |-> SetToSeq(mConfigsByPropId)]
  /\ UNCHANGED <<binderVars, clientVars, configVars, eventVars, life>>

-----------------------------------------------------------------------------
(* Supported values *)

getHasSupportedValueInfo(p, a) ==
  IF ~getConfig(p) \/ getAreaConfig(p, a) = NULL THEN NULL ELSE getAreaConfig(p, a).info

\* Queries the configuration cannot answer go to the hardware in one list, and
\* come back in the order of that list.  Positions remembers whose they are.
hardwarePositions(query, wanted) ==
  LET asks(i) == LET info == getHasSupportedValueInfo(query[i][1], query[i][2])
                 IN info # NULL /\ info \intersect wanted # {}
  IN SelectSeq([i \in 1..Len(query) |-> i], asks)

mergeResults(query, positions, fromHardware) ==
  [i \in 1..Len(query) |->
     IF \E k \in 1..Len(positions) : positions[k] = i
       THEN fromHardware[CHOOSE k \in 1..Len(positions) : positions[k] = i]
       ELSE [of |-> query[i],
             status |-> IF getHasSupportedValueInfo(query[i][1], query[i][2]) = NULL
                          THEN "INVALID_ARG" ELSE "NONE"]]

\* getSupportedValuesLists and getMinMaxSupportedValue.  A hardware that does
\* not answer gives an empty list, which is an INTERNAL_ERROR.
getSupported(query, wanted) ==
  /\ Call("query")
  /\ LET positions == hardwarePositions(query, wanted)
         full == [k \in 1..Len(positions) |-> [of |-> query[positions[k]], status |-> "HW"]]
     IN \E fromHardware \in {full, <<>>} :
          answer' = [call |-> "supported", asked |-> query,
                     results |-> IF Len(fromHardware) # Len(positions) THEN <<>>
                                 ELSE mergeResults(query, positions, fromHardware)]
  /\ UNCHANGED <<binderVars, clientVars, configVars, eventVars, life>>

-----------------------------------------------------------------------------
(* Subscribe options *)

getDefaultSampleRateHz(rate, min, max) ==
  IF rate < min THEN min ELSE IF rate > max THEN max ELSE rate

checkOption(o, configs) ==
  LET config == Configs[o.prop]
      listed == DOMAIN config.areas
      areas == IF o.areaIds = {} THEN listed ELSE o.areaIds \intersect listed
      rate == getDefaultSampleRateHz(o.rate, config.minSampleRate, config.maxSampleRate)
  IN IF \/ o.prop \notin configs
        \/ \E a \in o.areaIds : a \notin listed /\ (a # 0 \/ listed # {})
        \/ config.changeMode \notin {"ON_CHANGE", "CONTINUOUS"}
       THEN "INVALID_ARG"
     ELSE IF /\ ~hasRequiredAccess(config.access, "READ")
             /\ ~areaConfigsHaveRequiredAccess(o.prop, areas, "READ")
       THEN "ACCESS_DENIED"
     ELSE IF config.changeMode = "CONTINUOUS" /\ (rate = 0 \/ ~o.validResolution)
       THEN "INVALID_ARG"
     ELSE "OK"

\* The status of the first option that is not acceptable.
checkSubscribeOptions(options, configs) ==
  LET bad == {i \in 1..Len(options) : checkOption(options[i], configs) # "OK"}
  IN IF bad = {} THEN "OK" ELSE checkOption(options[Min(bad)], configs)

\* Mutant: the client's wish for a variable update rate is not checked.
parseOptionKeepsVur(o) ==
  LET config == Configs[o.prop]
      areas == IF config.global THEN {0}
               ELSE IF o.areaIds = {} THEN DOMAIN config.areas ELSE o.areaIds
  IN [key \in {o.prop} \X areas |->
        [rate |-> getDefaultSampleRateHz(o.rate, config.minSampleRate, config.maxSampleRate),
         vur |-> o.vur]]

\* What one option subscribes to: all areas when it names none, area 0 of a
\* global property; of a continuous property the rate within the limits, and VUR
\* where it is supported.  SubscriptionManager uses neither of an on-change one.
parseOption(o) ==
  LET config == Configs[o.prop]
      continuous == config.changeMode = "CONTINUOUS"
      areas == IF config.global THEN {0}
               ELSE IF o.areaIds = {} THEN DOMAIN config.areas ELSE o.areaIds
      vur(a) == o.vur /\ getAreaConfig(o.prop, a) # NULL /\ getAreaConfig(o.prop, a).vur
  IN [key \in {o.prop} \X areas |->
        IF continuous
          THEN [rate |-> getDefaultSampleRateHz(o.rate, config.minSampleRate,
                                                config.maxSampleRate),
                vur |-> vur(key[2])]
          ELSE [rate |-> o.rate, vur |-> o.vur]]

\* The options of one change mode, a later one replacing an earlier one.
parseSubscribeOptions(options, mode) ==
  LET named(k) == {i \in 1..Len(options) : /\ Configs[options[i].prop].changeMode = mode
                                           /\ k \in DOMAIN parseOption(options[i])}
      keys == UNION {DOMAIN parseOption(options[i]) : i \in 1..Len(options)}
  IN [k \in {l \in keys : named(l) # {}} |-> parseOption(options[Max(named(k))])[k]]

-----------------------------------------------------------------------------
(* The life of a client's binder *)

Event(died, c) == [died |-> died, client |-> c]
Push(queue, e) == IF Reached("eventsInactive") THEN queue ELSE Append(queue, e)

isAlive(c) == process[c] # "told"
linkToDeath(c) == process[c] # "told"

\* Adds the context of a client seen for the first time and links to its death;
\* a link that fails has onBinderUnlinked called for the new context.
monitorBinderLifeCycleLocked(c) ==
  /\ mOnBinderDiedContexts' = mOnBinderDiedContexts \union {c}
  /\ IF c \in mOnBinderDiedContexts THEN UNCHANGED <<linked, mBinderEvents>>
     ELSE IF linkToDeath(c) THEN linked' = linked \union {c} /\ UNCHANGED mBinderEvents
     ELSE mBinderEvents' = Push(mBinderEvents, Event(FALSE, c)) /\ UNCHANGED linked
  /\ UNCHANGED <<process, notifying, inHand>>
monitored(c) == IF c \in mOnBinderDiedContexts THEN isAlive(c) ELSE linkToDeath(c)

\* The hardware refuses something only where the budget has refusals.
mayRefuse == budget["refuse"] > 0

\* Mutant: the answer of monitorBinderLifeCycleLocked is ignored.
subscribeUnmonitored(c, options) ==
  /\ mConfigInit /\ Call("subscribe")
  /\ checkSubscribeOptions(options, mConfigsByPropId) = "OK"
  /\ monitorBinderLifeCycleLocked(c)
  /\ subscribed' = [subscribed EXCEPT ![c] =
       Override(parseSubscribeOptions(options, "CONTINUOUS"),
                Override(parseSubscribeOptions(options, "ON_CHANGE"), @))]
  /\ UNCHANGED <<mGetValuesClients, mSetValuesClients, watched, refused, configVars,
                 eventVars, answer, life>>

\* Options are checked and parsed under mConfigLock; mLock is taken after that,
\* when the process of the client may be gone.  On-change subscriptions go
\* first.  SubscriptionManager::subscribe stops where the hardware refuses, and
\* what it and the call before it have added stays.
subscribe(c, options) ==
  /\ mConfigInit /\ Call("subscribe")
  /\ checkSubscribeOptions(options, mConfigsByPropId) = "OK"
  /\ monitorBinderLifeCycleLocked(c)
  /\ LET onChange == parseSubscribeOptions(options, "ON_CHANGE")
         all == Override(parseSubscribeOptions(options, "CONTINUOUS"), onChange)
         reached == {d \in SUBSET DOMAIN all :
                       DOMAIN onChange \subseteq d \/ d \subseteq DOMAIN onChange}
     IN \E done \in IF ~monitored(c) THEN {{}}
                    ELSE IF mayRefuse THEN reached ELSE {DOMAIN all} :
          subscribed' = [subscribed EXCEPT ![c] = Override([k \in done |-> all[k]], @)]
  /\ UNCHANGED <<mGetValuesClients, mSetValuesClients, watched, refused, configVars,
                 eventVars, answer, life>>

subscribeRejected(options) ==
  /\ mConfigInit /\ Call("subscribe")
  /\ checkSubscribeOptions(options, mConfigsByPropId) # "OK"
  /\ answer' = [call |-> "rejected", asked |-> options, results |-> <<>>]
  /\ UNCHANGED <<binderVars, clientVars, configVars, eventVars, life>>

\* unsubscribe takes no lock of this class.  A refusal leaves some of it.
unsubscribe(c, props) ==
  /\ Call("unsubscribe")
  /\ LET gone == {k \in DOMAIN subscribed[c] : k[1] \in props}
     IN \E done \in IF mayRefuse THEN SUBSET gone ELSE {gone} :
          subscribed' = [subscribed EXCEPT ![c] =
                           [k \in DOMAIN @ \ done |-> @[k]]]
  /\ UNCHANGED <<binderVars, mGetValuesClients, mSetValuesClients, watched, refused,
                 configVars, eventVars, answer, life>>

\* One [propId, areaId] without the information fails the whole call; those
\* that have no supported values at all are left out.
registerSupportedValueChangeCallback(c, query) ==
  LET info(i) == getHasSupportedValueInfo(query[i][1], query[i][2])
      keys == {query[i] : i \in {j \in 1..Len(query) : info(j) # {}}}
  IN /\ Call("register")
     /\ \A i \in 1..Len(query) : info(i) # NULL
     /\ IF keys = {} THEN UNCHANGED <<binderVars, watched>>
        ELSE /\ monitorBinderLifeCycleLocked(c)
             /\ \E done \in IF ~monitored(c) THEN {{}}
                            ELSE IF mayRefuse THEN {keys, {}} ELSE {keys} :
                  watched' = [watched EXCEPT ![c] = @ \union done]
     /\ UNCHANGED <<mGetValuesClients, mSetValuesClients, subscribed, refused,
                    configVars, eventVars, answer, life>>

unregisterSupportedValueChangeCallback(c, query) ==
  /\ Call("unsubscribe")
  /\ \E done \in IF mayRefuse THEN {ToSet(query), {}} ELSE {ToSet(query)} :
       watched' = [watched EXCEPT ![c] = @ \ done]
  /\ UNCHANGED <<binderVars, mGetValuesClients, mSetValuesClients, subscribed, refused,
                 configVars, eventVars, answer, life>>

\* getValues and setValues with one request: the check, and the client object
\* that is made when the binder can be monitored, whatever the check said.
getValues(c, p, a) ==
  /\ Call("values")
  /\ answer' = [call |-> "get", asked |-> <<p, a>>,
                results |-> checkPermissionHelper(p, a, "READ")]
  /\ monitorBinderLifeCycleLocked(c)
  /\ mGetValuesClients' = IF monitored(c) THEN mGetValuesClients \union {c}
                          ELSE mGetValuesClients
  /\ UNCHANGED <<mSetValuesClients, subscribed, watched, refused, configVars, eventVars, life>>

setValues(c, p, a, fits) ==
  /\ Call("values")
  /\ answer' = [call |-> "set", asked |-> <<p, a>>,
                results |-> IF checkPermissionHelper(p, a, "WRITE") # "OK"
                              THEN checkPermissionHelper(p, a, "WRITE")
                            ELSE IF checkProperty(p, a, fits) THEN "OK" ELSE "INVALID_ARG"]
  /\ monitorBinderLifeCycleLocked(c)
  /\ mSetValuesClients' = IF monitored(c) THEN mSetValuesClients \union {c}
                          ELSE mSetValuesClients
  /\ UNCHANGED <<mGetValuesClients, subscribed, watched, refused, configVars, eventVars, life>>

\* The process of a client ends; later the library learns of it.
die(c) ==
  /\ Spend("die") /\ process[c] = "alive"
  /\ process' = [process EXCEPT ![c] = "dead"]
  /\ UNCHANGED <<linked, notifying, mOnBinderDiedContexts, mBinderEvents, inHand,
                 clientVars, configVars, eventVars, answer, life>>

onBinderDied(c) ==
  /\ process[c] = "dead"
  /\ process' = [process EXCEPT ![c] = "told"]
  /\ IF c \in linked
       THEN /\ mBinderEvents' = Push(mBinderEvents, Event(TRUE, c))
            /\ notifying' = notifying \union {c}
       ELSE UNCHANGED <<mBinderEvents, notifying>>
  /\ UNCHANGED <<linked, mOnBinderDiedContexts, inHand, clientVars, configVars,
                 eventVars, answer, life, budget>>

onBinderUnlinked(c) ==
  /\ c \in notifying
  /\ notifying' = notifying \ {c} /\ linked' = linked \ {c}
  /\ mBinderEvents' = Push(mBinderEvents, Event(FALSE, c))
  /\ UNCHANGED <<process, mOnBinderDiedContexts, inHand, clientVars, configVars,
                 eventVars, answer, life, budget>>

\* Mutant: of the events that were flushed only the first is handled.
handlerTakesFirst ==
  /\ inHand = <<>> /\ mBinderEvents # <<>> /\ ~Reached("eventsInactive")
  /\ inHand' = <<Head(mBinderEvents)>> /\ mBinderEvents' = <<>>
  /\ UNCHANGED <<process, linked, notifying, mOnBinderDiedContexts, clientVars,
                 configVars, eventVars, answer, life, budget>>

\* mOnBinderDiedUnlinkedHandlerThread takes all events and handles them in turn.
onBinderDiedUnlinkedHandler ==
  /\ inHand = <<>> /\ mBinderEvents # <<>> /\ ~Reached("eventsInactive")
  /\ inHand' = mBinderEvents /\ mBinderEvents' = <<>>
  /\ UNCHANGED <<process, linked, notifying, mOnBinderDiedContexts, clientVars,
                 configVars, eventVars, answer, life, budget>>

\* Mutant: the context is deleted at once when the binder died.
onBinderDiedErasesContext ==
  /\ inHand # <<>> /\ Head(inHand).died
  /\ LET c == Head(inHand).client
     IN /\ mGetValuesClients' = mGetValuesClients \ {c}
        /\ mSetValuesClients' = mSetValuesClients \ {c}
        /\ subscribed' = [subscribed EXCEPT ![c] = Nothing]
        /\ watched' = [watched EXCEPT ![c] = {}]
        /\ mOnBinderDiedContexts' = mOnBinderDiedContexts \ {c}
  /\ inHand' = Tail(inHand)
  /\ UNCHANGED <<process, linked, notifying, mBinderEvents, refused,
                 configVars, eventVars, answer, life, budget>>

\* The result of SubscriptionManager::unsubscribe is ignored: when the hardware
\* refuses, some subscriptions of the dead client stay.
onBinderDiedWithContext ==
  /\ inHand # <<>> /\ Head(inHand).died
  /\ LET c == Head(inHand).client
     IN /\ mGetValuesClients' = mGetValuesClients \ {c}
        /\ mSetValuesClients' = mSetValuesClients \ {c}
        /\ \/ /\ subscribed' = [subscribed EXCEPT ![c] = Nothing]
              /\ watched' = [watched EXCEPT ![c] = {}]
              /\ UNCHANGED refused
           \/ /\ mayRefuse /\ refused' = refused \union {c}
              /\ \E left \in SUBSET DOMAIN subscribed[c] :
                   /\ subscribed' = [subscribed EXCEPT ![c] = [k \in left |-> @[k]]]
                   /\ left = {} => watched[c] # {}
              /\ UNCHANGED watched
  /\ inHand' = Tail(inHand)
  /\ UNCHANGED <<process, linked, notifying, mOnBinderDiedContexts, mBinderEvents,
                 configVars, eventVars, answer, life, budget>>

onBinderUnlinkedWithContext ==
  /\ inHand # <<>> /\ ~Head(inHand).died
  /\ mOnBinderDiedContexts' = mOnBinderDiedContexts \ {Head(inHand).client}
  /\ inHand' = Tail(inHand)
  /\ UNCHANGED <<process, linked, notifying, mBinderEvents, clientVars, configVars,
                 eventVars, answer, life, budget>>

-----------------------------------------------------------------------------
(* Events of the hardware *)

\* An event of the hardware: queued while the queue takes events, or handed to
\* the clients at once when there is no batching window.  The lookup of the clients
\* and the sending are one step: the hardware calls back from one thread, as the
\* polling thread of GRPCVehicleHardware does.
propertyChange ==
  /\ Spend("event") /\ life # "destroyed"
  /\ IF mEventBatchingWindow
       THEN /\ IF Reached("queueInactive") THEN UNCHANGED <<mBatchedEventQueue, emitted>>
               ELSE /\ emitted' = emitted + 1
                    /\ mBatchedEventQueue' = Append(mBatchedEventQueue, emitted + 1)
            /\ UNCHANGED delivered
       ELSE /\ emitted' = emitted + 1
            /\ delivered' = IF Reached("managerReset") THEN delivered
                            ELSE Append(delivered, emitted + 1)
            /\ UNCHANGED mBatchedEventQueue
  /\ UNCHANGED <<binderVars, clientVars, configVars, mEventBatchingWindow, mState,
                 consumer, batch, heartbeat, beats, answer, life>>

ConsumerStep == UNCHANGED <<binderVars, clientVars, configVars, mEventBatchingWindow,
                            emitted, heartbeat, beats, answer, life, budget>>
\* BatchingConsumer::runInternal, one action per step of its thread.
consumerStarts ==
  /\ mEventBatchingWindow /\ consumer = "start"
  /\ IF mState = "INIT" THEN mState' = "RUNNING" /\ consumer' = "loop"
                        ELSE mState' = "STOPPED" /\ consumer' = "done"
  /\ UNCHANGED <<mBatchedEventQueue, batch, delivered>> /\ ConsumerStep

\* The loop condition, and the two checks after a wait.
consumerChecks(from, to) ==
  /\ consumer = from
  /\ IF mState = "RUNNING" THEN consumer' = to /\ UNCHANGED mState
                           ELSE mState' = "STOPPED" /\ consumer' = "done"
  /\ UNCHANGED <<mBatchedEventQueue, batch, delivered>> /\ ConsumerStep

\* Mutant: deactivating the queue does not wake the thread that waits.
waitForItemsOnly ==
  /\ consumer = "wait" /\ mBatchedEventQueue # <<>>
  /\ consumer' = "woken"
  /\ UNCHANGED <<mBatchedEventQueue, mState, batch, delivered>> /\ ConsumerStep

waitForItems ==
  /\ consumer = "wait" /\ (mBatchedEventQueue # <<>> \/ Reached("queueInactive"))
  /\ consumer' = "woken"
  /\ UNCHANGED <<mBatchedEventQueue, mState, batch, delivered>> /\ ConsumerStep

consumerFlushes ==
  /\ consumer = "flush"
  /\ batch' = mBatchedEventQueue /\ mBatchedEventQueue' = <<>>
  /\ consumer' = IF batch' = <<>> THEN "loop" ELSE "deliver"
  /\ UNCHANGED <<mState, delivered>> /\ ConsumerStep

\* Mutant: only the newest event of a batch is delivered.
handleNewestPropertyEvent ==
  /\ consumer = "deliver"
  /\ delivered' = Append(delivered, batch[Len(batch)]) /\ batch' = <<>>
  /\ consumer' = "loop"
  /\ UNCHANGED <<mBatchedEventQueue, mState>> /\ ConsumerStep

handleBatchedPropertyEvents ==
  /\ consumer = "deliver"
  /\ delivered' = delivered \o batch /\ batch' = <<>>
  /\ consumer' = "loop"
  /\ UNCHANGED <<mBatchedEventQueue, mState>> /\ ConsumerStep

\* The timer thread takes the registered action under its lock, and runs it
\* without: checkHealth then asks the hardware.
takeHeartbeat ==
  /\ Spend("beat") /\ heartbeat = "idle" /\ ~Reached("timerUnregistered")
  /\ heartbeat' = "taken"
  /\ UNCHANGED <<binderVars, clientVars, configVars, mEventBatchingWindow,
                 mBatchedEventQueue, mState, consumer, batch, emitted, delivered,
                 beats, answer, life>>

\* An unhealthy hardware gives no heartbeat event; the event bypasses the batch.
checkHealth ==
  /\ heartbeat = "taken" /\ heartbeat' = "idle"
  /\ \/ UNCHANGED beats
     \/ ~Reached("managerReset") /\ beats' = beats + 1
  /\ UNCHANGED <<binderVars, clientVars, configVars, mEventBatchingWindow,
                 mBatchedEventQueue, mState, consumer, batch, emitted, delivered, answer,
                 life, budget>>

-----------------------------------------------------------------------------
(* The destructor *)

Stage(from) == life = from /\ life' = Stages[1 + CHOOSE i \in 1..Len(Stages) : Stages[i] = from]

\* No call of onBinderDied is under way, and none follows, once the recipient is
\* deleted; the library calls onBinderUnlinked for the links there were.
deleteRecipient ==
  /\ Spend("destroy") /\ Stage("running")
  /\ refreshing = {} /\ \A t \in Threads : fetched[t] = NULL
  /\ notifying = {}
  /\ linked' = {}
  /\ mBinderEvents' = mBinderEvents \o
       [i \in 1..Cardinality(linked) |-> Event(FALSE, SetToSeq(linked)[i])]
  /\ UNCHANGED <<process, notifying, mOnBinderDiedContexts, inHand, clientVars,
                 configVars, eventVars, answer>>

DestructorStep == UNCHANGED <<binderVars, clientVars, configVars, answer, budget>>
deactivateEvents ==
  Stage("recipientDeleted") /\ DestructorStep /\ UNCHANGED eventVars
\* join: the handler thread finishes what it has flushed, and ends.
joinHandler ==
  Stage("eventsInactive") /\ inHand = <<>> /\ DestructorStep /\ UNCHANGED eventVars
\* unregisterTimerCallback does not wait for an action that was taken.
unregisterTimer ==
  Stage("handlerJoined") /\ DestructorStep /\ UNCHANGED eventVars
deactivateQueue ==
  Stage("timerUnregistered") /\ DestructorStep /\ UNCHANGED eventVars
requestStop ==
  /\ Stage("queueInactive") /\ DestructorStep
  /\ mState' = IF mEventBatchingWindow THEN "STOP_REQUESTED" ELSE mState
  /\ UNCHANGED <<mEventBatchingWindow, mBatchedEventQueue, consumer, batch, emitted,
                 delivered, heartbeat, beats>>
waitStopped ==
  /\ Stage("stopRequested") /\ DestructorStep /\ UNCHANGED eventVars
  /\ mEventBatchingWindow => consumer = "done"
resetManager == Stage("consumerJoined") /\ DestructorStep /\ UNCHANGED eventVars
resetHardware == Stage("managerReset") /\ DestructorStep /\ UNCHANGED eventVars

-----------------------------------------------------------------------------
Init ==
  /\ process = [c \in Clients |-> "alive"] /\ linked = {} /\ notifying = {}
  /\ mOnBinderDiedContexts = {} /\ mBinderEvents = <<>> /\ inHand = <<>>
  /\ mGetValuesClients = {} /\ mSetValuesClients = {}
  /\ subscribed = [c \in Clients |-> Nothing] /\ watched = [c \in Clients |-> {}]
  /\ refused = {}
  /\ hasTestConfigs = FALSE /\ refreshing = {} /\ fetched = [t \in Threads |-> NULL]
  /\ mConfigInit = FALSE /\ mConfigsByPropId = {}
  /\ answer = [call |-> "none", asked |-> <<>>, results |-> <<>>]
  /\ budget \in Budgets
  /\ mEventBatchingWindow = (budget["window"] > 0) /\ mBatchedEventQueue = <<>> /\ mState = "INIT"
  /\ consumer = "start" /\ batch = <<>> /\ emitted = 0 /\ delivered = <<>>
  /\ heartbeat = "idle" /\ beats = 0 /\ life = "running"

ClientCalls ==
  \E c \in Clients :
    \/ \E options \in OptionLists : subscribe(c, options)
    \/ \E p \in Props : unsubscribe(c, {p})
    \/ \E query \in QueryLists : \/ registerSupportedValueChangeCallback(c, query)
                                 \/ unregisterSupportedValueChangeCallback(c, query)
    \/ \E p \in Props, a \in {0, 1} :
         getValues(c, p, a) \/ \E fits \in BOOLEAN : setValues(c, p, a, fits)

Queries ==
  \/ \E options \in OptionLists : subscribeRejected(options)
  \/ \E query \in QueryLists :
       \/ getPropConfigs([i \in 1..Len(query) |-> query[i][1]])
       \/ \E wanted \in {{"list"}, {"min", "max"}} : getSupported(query, wanted)
  \/ getAllPropConfigs

ConfigThreads == \E t \in Threads : fetchConfigs(t) \/ storeConfigs(t) \/ dump(t)

Binder == \E c \in Clients : die(c) \/ onBinderDied(c) \/ onBinderUnlinked(c)

Handler == \/ onBinderDiedUnlinkedHandler
           \/ onBinderDiedWithContext
           \/ onBinderUnlinkedWithContext

Consumer == \/ consumerStarts
            \/ consumerChecks("loop", "wait")
            \/ waitForItems
            \/ consumerChecks("woken", "slept")
            \/ consumerChecks("slept", "flush")
            \/ consumerFlushes
            \/ handleBatchedPropertyEvents

Heartbeat == takeHeartbeat \/ checkHealth

Destructor == \/ deactivateEvents \/ joinHandler \/ unregisterTimer
              \/ deactivateQueue \/ requestStop \/ waitStopped
              \/ resetManager \/ resetHardware

Next == \/ ClientCalls \/ Queries \/ ConfigThreads \/ Binder \/ Handler
        \/ propertyChange \/ Consumer \/ Heartbeat
        \/ deleteRecipient \/ Destructor

\* Threads that can run do: the binder library reports the deaths it knows of,
\* the handler and the consumer threads run, a destructor that began goes on.
Fairness ==
  /\ \A c \in Clients : WF_vars(onBinderDied(c)) /\ WF_vars(onBinderUnlinked(c))
  /\ WF_vars(Handler) /\ WF_vars(Consumer) /\ WF_vars(Destructor)

Spec == Init /\ [][Next]_vars /\ Fairness

-----------------------------------------------------------------------------
(* Properties *)

\* The cookie the binder library holds is a context that is still in
\* mOnBinderDiedContexts ("context must be alive when we use contextPtr"),
\* however often a client calls, dies and calls again.
CookieIsAlive ==
  life = "running" => linked \subseteq mOnBinderDiedContexts

Unsubscribed(c) == DOMAIN subscribed[c] = {} /\ watched[c] = {}

\* Somebody will clean up after a client: whoever has a subscription or a client
\* object is linked, or its death is waiting for the handler thread.  The only
\* exception are subscriptions the hardware refused to remove.
DeadLeaveNothing ==
  life = "running" =>
    \A c \in Clients :
      \/ /\ Unsubscribed(c)
         /\ c \notin mGetValuesClients \union mSetValuesClients
      \/ c \in linked /\ c \notin notifying
      \/ Event(TRUE, c) \in ToSet(mBinderEvents) \union ToSet(inHand)
      \/ c \in refused

\* Whatever a client is subscribed to is a supported property it may read at
\* that area; one that is continuous at a rate within the limits of the
\* configuration, with a variable update rate only where the area supports it.
SubscriptionsAllowed ==
  \A c \in Clients : \A key \in DOMAIN subscribed[c] :
    LET p == key[1]  config == Configs[p]  area == getAreaConfig(p, key[2])
        options == subscribed[c][key]
    IN /\ p \in mConfigsByPropId
       /\ config.global => key[2] = 0
       /\ key[2] \in DOMAIN config.areas \/ (DOMAIN config.areas = {} /\ key[2] = 0) \/ config.global
       /\ config.changeMode # "STATIC"
       /\ \/ config.access \in {"READ", "READ_WRITE"}
          \/ area # NULL /\ area.access \in {"READ", "READ_WRITE"}
       /\ config.changeMode = "CONTINUOUS" =>
            config.minSampleRate <= options.rate /\ options.rate <= config.maxSampleRate
       /\ config.changeMode = "CONTINUOUS" /\ options.vur => area # NULL /\ area.vur

\* A supported values call that succeeds answers every query at its own place:
\* with the hardware's result for that very [propId, areaId], or with a status
\* when the configuration settles it.
ResultsMatchQueries ==
  answer.call = "supported" /\ answer.results # <<>> =>
    /\ Len(answer.results) = Len(answer.asked)
    /\ \A i \in 1..Len(answer.asked) : answer.results[i].of = answer.asked[i]

\* A property that is newer than this VHAL is shown to nobody: no answer, no
\* subscription and no get or set that is let through names it, before and after
\* the configurations are cached.
UnsupportedHidden ==
  LET tooNew == {p \in Props : ~isConfigSupportedForCurrentVhalVersion(p)}
  IN /\ answer.call = "configs" => ToSet(answer.results) \intersect tooNew = {}
     /\ answer.call \in {"get", "set"} /\ answer.results = "OK" =>
          answer.asked[1] \notin tooNew
     /\ \A c \in Clients :
          {k[1] : k \in DOMAIN subscribed[c] \union watched[c]} \intersect tooNew = {}

\* Without a window or with one, every event the service took is delivered once
\* and in its order, or is still queued or in the batch of the consumer.
EventsInOrder ==
  ~Reached("managerReset") =>
    delivered \o batch \o mBatchedEventQueue = [i \in 1..emitted |-> i]

\* The threads that use the subscription manager have ended when it is reset
\* ("mPropertyChangeEventsBatchingConsumer uses mSubscriptionManager").
ThreadsEndFirst ==
  Reached("managerReset") =>
    inHand = <<>> /\ (mEventBatchingWindow => consumer = "done")

\* Nothing is used after its end: neither a context by the binder library nor the
\* subscription manager by a thread of the service.
NothingUsedAfterItsEnd == CookieIsAlive /\ ThreadsEndFirst

\* The heart beat does not ask a hardware that is gone ("mRecurrentAction uses
\* pointer to mVehicleHardware, so it has to be unregistered before").  The code
\* does not keep this: unregistering does not wait for an action that was taken.
HeartbeatEndsFirst == life = "destroyed" => heartbeat = "idle"

\* Subscriptions and answers fit the configurations, whichever thread fetched
\* them and whenever a dump command changed them.
CallsRespectConfigs ==
  SubscriptionsAllowed /\ ResultsMatchQueries /\ UnsupportedHidden

\* A client whose death is known is forgotten in the end, unless the service is
\* being destroyed or the hardware refuses.
DeadAreForgotten ==
  \A c \in Clients :
    process[c] = "told" ~>
      \/ Unsubscribed(c) /\ c \notin mOnBinderDiedContexts
      \/ c \in refused \/ life # "running"

\* The destructor ends: it never waits for a thread that waits for an event.
DestructorEnds == life = "recipientDeleted" ~> life = "destroyed"

=============================================================================

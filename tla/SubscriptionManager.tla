------------------------ MODULE SubscriptionManager ------------------------
(***************************************************************************)
(* The subscription manager of DefaultVehicleHal: which client has         *)
(* subscribed to which [propId, areaId], with which sample rate,           *)
(* resolution and variable-update-rate (VUR) option, and the calls it      *)
(* makes to the IVehicleHardware below it so that the hardware reports     *)
(* what the clients together need.                                         *)
(*                                                                         *)
(* Every public method holds mLock from its first to its last line, but it *)
(* treats its [propId, areaId]s one by one, each with hardware calls of    *)
(* its own that may fail; a failure returns at once and leaves what was    *)
(* done so far.  The variable `call' is the method that holds mLock and    *)
(* the [propId, areaId]s it has yet to treat.                              *)
(*                                                                         *)
(* A map whose key is present exactly when its value is non-empty is a     *)
(* total function here.  mContSubConfigsByPropIdArea is not such a map:    *)
(* operator[] inserts default entries, so its keys are a set of their own. *)
(***************************************************************************)
EXTENDS Naturals, FiniteSetsExt

CONSTANTS
    Clients,          \* binder clients; clientId and callback are one here
    OnChange,         \* [propId, areaId]s whose change mode is ON_CHANGE
    Continuous,       \* [propId, areaId]s whose change mode is CONTINUOUS
    PropIds,          \* property IDs
    propId,           \* the property ID of every [propId, areaId]
    SupportedProps,   \* [propId, areaId]s with dynamic supported values
    EventProps,       \* [propId, areaId]s the hardware reports events for
    Rates,            \* sample rates in Hz that clients ask for
    Resolutions,      \* resolutions that clients ask for, 0 is "as is"
    MaxResolution,    \* numeric_limits<float>::max()
    HwOutcomes,       \* what may become of a call to the hardware
    NoConfig          \* a client that has no SubConfig

PropIdAreaIds == OnChange \cup Continuous

(***************************************************************************)
(* "ok": applied and answered OK.  "rejected": answered with an error and  *)
(* not applied.  "replyLost": applied, but the answer got lost and the     *)
(* proxy reports an error.                                                 *)
(***************************************************************************)
Outcomes == {"ok", "rejected", "replyLost"}
Applied(outcome) == outcome # "rejected"

ASSUME SubscriptionAssumption ==
    /\ OnChange \cap Continuous = {}
    /\ propId \in [PropIdAreaIds -> PropIds]
    /\ SupportedProps \subseteq PropIdAreaIds
    /\ EventProps \subseteq PropIdAreaIds
    /\ HwOutcomes \subseteq Outcomes
    /\ Rates \subseteq Nat \ {0}
    /\ Resolutions \subseteq Nat
    /\ MaxResolution \in Nat
    /\ \A r \in Resolutions : r < MaxResolution

\* Sets of requested rates and resolutions have a largest and a smallest
\* element: floats are finitely many.
ASSUME BoundedOptions ==
    /\ \A S \in SUBSET (Rates \cup {0}) :
         S # {} => \E m \in S : \A x \in S : m >= x
    /\ \A S \in SUBSET (Resolutions \cup {MaxResolution}) :
         S # {} => \E m \in S : \A x \in S : m =< x

SubConfigs == [sampleRateHz : Rates, resolution : Resolutions,
               enableVur : BOOLEAN]

ASSUME NoConfigAssumption == NoConfig \notin SubConfigs

ContSubConfigs ==
    [configByClient : [Clients -> SubConfigs \cup {NoConfig}],
     maxSampleRateHz : Rates \cup {0},
     minRequiredResolution : Resolutions \cup {MaxResolution},
     enableVur : BOOLEAN]

\* What the hardware keeps of one [propId, areaId].
SubscribeOptions == [sampleRate : Rates \cup {0},
                     resolution : Resolutions \cup {0, MaxResolution},
                     enableVur : BOOLEAN]
HwStates == [subscribed : BOOLEAN, options : SubscribeOptions]

Idle == [op |-> "idle"]

Calls ==
    {Idle}
      \cup [op : {"subscribe"}, client : Clients,
            todo : (SUBSET OnChange) \cup (SUBSET Continuous),
            config : [Continuous -> SubConfigs]]
      \cup [op : {"unsubscribe", "unsubscribeAll"}, client : Clients,
            todo : SUBSET PropIdAreaIds]

VARIABLES
    mClientsByPropIdAreaId,
    mSubscribedPropsByClient,
    mContSubConfigsByPropIdArea,  \* a default value where there is no key
    contKeys,                     \* keys of mContSubConfigsByPropIdArea
    mSupportedValueChangeClientsByPropIdAreaId,
    mSupportedValueChangePropIdAreaIdsByClient,
    hw,                           \* what the hardware is subscribed to
    hwSupported,                  \* its supported-value subscriptions
    call                          \* the method that holds mLock

books == <<mClientsByPropIdAreaId, mSubscribedPropsByClient>>
configs == <<mContSubConfigsByPropIdArea, contKeys>>
supported == <<mSupportedValueChangeClientsByPropIdAreaId,
               mSupportedValueChangePropIdAreaIdsByClient, hwSupported>>
vars == <<books, configs, supported, hw, call>>

----------------------------------------------------------------------------
(* ContSubConfigs.                                                         *)

\* A value-initialised ContSubConfigs, as operator[] inserts it.
DefaultConfig ==
    [configByClient |-> [c \in Clients |-> NoConfig],
     maxSampleRateHz |-> 0,
     minRequiredResolution |-> MaxResolution,
     enableVur |-> FALSE]

\* Mutant: the rate starts at 1 Hz instead of 0.
refreshCombinedConfigFromOne(configByClient) ==
    LET subConfigs == {configByClient[c] : c \in Clients} \ {NoConfig}
    IN  [configByClient |-> configByClient,
         maxSampleRateHz |-> Max({s.sampleRateHz : s \in subConfigs} \cup {1}),
         minRequiredResolution |->
             Min({s.resolution : s \in subConfigs} \cup {MaxResolution}),
         enableVur |-> \A s \in subConfigs : s.enableVur]

refreshCombinedConfig(configByClient) ==
    LET subConfigs == {configByClient[c] : c \in Clients} \ {NoConfig}
    IN  [configByClient |-> configByClient,
         maxSampleRateHz |-> Max({s.sampleRateHz : s \in subConfigs} \cup {0}),
         minRequiredResolution |->
             Min({s.resolution : s \in subConfigs} \cup {MaxResolution}),
         enableVur |-> \A s \in subConfigs : s.enableVur]

addClient(config, c, subConfig) ==
    refreshCombinedConfig([config.configByClient EXCEPT ![c] = subConfig])

\* Mutant: the combined configuration is not refreshed.
removeClientNoRefresh(config, c) ==
    [config EXCEPT !.configByClient[c] = NoConfig]

removeClient(config, c) ==
    refreshCombinedConfig([config.configByClient EXCEPT ![c] = NoConfig])

----------------------------------------------------------------------------
(* The hardware, through IVehicleHardware.                                 *)

OnChangeOptions == [sampleRate |-> 0, resolution |-> 0, enableVur |-> FALSE]

OptionsOf(config) == [sampleRate |-> config.maxSampleRateHz,
                      resolution |-> config.minRequiredResolution,
                      enableVur |-> config.enableVur]

HwSubscribe(h, options, outcome) ==
    IF Applied(outcome)
    THEN [h EXCEPT !.subscribed = TRUE, !.options = options] ELSE h

HwUnsubscribe(h, outcome) ==
    IF Applied(outcome)
    THEN [h EXCEPT !.subscribed = FALSE, !.options = OnChangeOptions] ELSE h

----------------------------------------------------------------------------
(* The private methods, as functions of the state: what they return, and   *)
(* what they leave in the hardware and in the maps for [propId, areaId] p. *)

\* Mutant: a client that needs a finer resolution goes unnoticed.
sameRateAndVur(new, old) ==
    /\ new.maxSampleRateHz = old.maxSampleRateHz
    /\ new.enableVur = old.enableVur

sameCombined(new, old) ==
    /\ new.maxSampleRateHz = old.maxSampleRateHz
    /\ new.minRequiredResolution = old.minRequiredResolution
    /\ new.enableVur = old.enableVur

\* First updateSampleRate, whose outcome is o1, then subscribe or
\* unsubscribe; the configuration is stored only if both went well.  Hardware
\* that takes the rate from subscribe ignores the deprecated updateSampleRate,
\* which matters here by failing only.
updateContSubConfigsLocked(p, new, o1, o2) ==
    LET old == mContSubConfigsByPropIdArea[p]
        rateChanges == new.maxSampleRateHz # old.maxSampleRateHz
        after == IF new.maxSampleRateHz # 0
                 THEN HwSubscribe(hw[p], OptionsOf(new), o2)
                 ELSE HwUnsubscribe(hw[p], o2)
    IN  IF sameCombined(new, old)
          THEN [ok |-> TRUE, hw |-> hw[p], config |-> new]
        ELSE IF rateChanges /\ o1 # "ok"
          THEN [ok |-> FALSE, hw |-> hw[p], config |-> old]
        ELSE [ok |-> o2 = "ok", hw |-> after,
              config |-> IF o2 = "ok" THEN new ELSE old]

\* Mutant: size() > 2.
MoreThanTwo(S) == \E x, y, z \in S : x # y /\ y # z /\ x # z

\* size() > 1
Several(S) == \E x, y \in S : x # y

removeOnChangeSubscriberLocked(p, o) ==
    IF Several(mClientsByPropIdAreaId[p])
    THEN [ok |-> TRUE, hw |-> hw[p]]
    ELSE [ok |-> o = "ok", hw |-> HwUnsubscribe(hw[p], o)]

----------------------------------------------------------------------------
Init ==
    /\ mClientsByPropIdAreaId = [p \in PropIdAreaIds |-> {}]
    /\ mSubscribedPropsByClient = [c \in Clients |-> {}]
    /\ mContSubConfigsByPropIdArea = [p \in PropIdAreaIds |-> DefaultConfig]
    /\ contKeys = {}
    /\ mSupportedValueChangeClientsByPropIdAreaId =
           [p \in SupportedProps |-> {}]
    /\ mSupportedValueChangePropIdAreaIdsByClient = [c \in Clients |-> {}]
    /\ hw = [p \in PropIdAreaIds |->
                [subscribed |-> FALSE, options |-> OnChangeOptions]]
    /\ hwSupported = {}
    /\ call = Idle

----------------------------------------------------------------------------
(* subscribe(callback, options, isContinuousProperty).  Options that fail  *)
(* the validation loop return before anything changes.  An on-change       *)
(* subscription does not look at config.                                   *)

Subscribe(c, ps, config) ==
    /\ call = Idle
    /\ call' = [op |-> "subscribe", client |-> c, todo |-> ps,
                config |-> config]
    /\ UNCHANGED <<books, configs, supported, hw>>

\* The end of one iteration of subscribe's loop.
RecordSubscriber(p, ok) ==
    IF ok
    THEN /\ mSubscribedPropsByClient' =
                [mSubscribedPropsByClient EXCEPT ![call.client] = @ \cup {p}]
         /\ mClientsByPropIdAreaId' =
                [mClientsByPropIdAreaId EXCEPT ![p] = @ \cup {call.client}]
         /\ call' = [call EXCEPT !.todo = @ \ {p}]
    ELSE /\ call' = Idle
         /\ UNCHANGED books

addOnChangeSubscriberLocked(p, o) ==
    /\ call.op = "subscribe"
    /\ p \in call.todo \cap OnChange
    /\ LET already == mClientsByPropIdAreaId[p] # {}
       IN  /\ hw' = IF already THEN hw
                    ELSE [hw EXCEPT ![p] = HwSubscribe(@, OnChangeOptions, o)]
           /\ RecordSubscriber(p, already \/ o = "ok")
    /\ UNCHANGED <<configs, supported>>

addContinuousSubscriberLocked(p, o1, o2) ==
    /\ call.op = "subscribe"
    /\ p \in call.todo \cap Continuous
    /\ LET new == addClient(mContSubConfigsByPropIdArea[p], call.client,
                            call.config[p])
           update == updateContSubConfigsLocked(p, new, o1, o2)
       IN  /\ hw' = [hw EXCEPT ![p] = update.hw]
           /\ mContSubConfigsByPropIdArea' =
                  [mContSubConfigsByPropIdArea EXCEPT ![p] = update.config]
           /\ RecordSubscriber(p, update.ok)
    /\ contKeys' = contKeys \cup {p}
    /\ UNCHANGED supported

Return ==
    /\ call.op \in {"subscribe", "unsubscribe"}
    /\ call.todo = {}
    /\ call' = Idle
    /\ UNCHANGED <<books, configs, supported, hw>>

----------------------------------------------------------------------------
(* unsubscribe(client, propIds) and unsubscribe(client).                   *)

Unsubscribe(c, ids) ==
    /\ call = Idle
    /\ call' = [op |-> "unsubscribe", client |-> c,
                todo |-> {p \in mSubscribedPropsByClient[c] : propId[p] \in ids}]
    /\ UNCHANGED <<books, configs, supported, hw>>

\* Mutant: the client's list is moved out of the map before it is treated.
UnsubscribeAllMoved(c) ==
    /\ call = Idle
    /\ call' = [op |-> "unsubscribeAll", client |-> c,
                todo |-> mSubscribedPropsByClient[c]]
    /\ mSubscribedPropsByClient' = [mSubscribedPropsByClient EXCEPT ![c] = {}]
    /\ UNCHANGED <<mClientsByPropIdAreaId, configs, supported, hw>>

UnsubscribeAll(c) ==
    /\ call = Idle
    /\ call' = [op |-> "unsubscribeAll", client |-> c,
                todo |-> mSubscribedPropsByClient[c]]
    /\ UNCHANGED <<books, configs, supported, hw>>

\* unsubscribe(client, propIds) forgets each [propId, areaId] as it goes,
\* unsubscribe(client) only at its end.
ForgetSubscribedProp(p) ==
    IF call.op = "unsubscribe"
    THEN mSubscribedPropsByClient' =
             [mSubscribedPropsByClient EXCEPT ![call.client] = @ \ {p}]
    ELSE UNCHANGED mSubscribedPropsByClient

\* Erases the client, and the [propId, areaId] with its last client.
EraseClient(p, config) ==
    LET clients == mClientsByPropIdAreaId[p] \ {call.client}
    IN  /\ mClientsByPropIdAreaId' =
               [mClientsByPropIdAreaId EXCEPT ![p] = clients]
        /\ mContSubConfigsByPropIdArea' =
               [mContSubConfigsByPropIdArea EXCEPT
                    ![p] = IF clients = {} THEN DefaultConfig ELSE config]
        /\ contKeys' = IF clients = {} THEN contKeys \ {p} ELSE contKeys
        /\ ForgetSubscribedProp(p)
        /\ call' = [call EXCEPT !.todo = @ \ {p}]

unsubscribePropIdAreaIdLocked(p, o1, o2) ==
    /\ call.op \in {"unsubscribe", "unsubscribeAll"}
    /\ p \in call.todo
    /\ \/ /\ p \notin contKeys
          /\ mClientsByPropIdAreaId[p] = {}
          /\ ForgetSubscribedProp(p)
          /\ call' = [call EXCEPT !.todo = @ \ {p}]
          /\ UNCHANGED <<mClientsByPropIdAreaId, configs, hw>>
       \/ /\ p \in contKeys \/ mClientsByPropIdAreaId[p] # {}
          /\ LET old == mContSubConfigsByPropIdArea[p]
                 update == updateContSubConfigsLocked(
                               p, removeClient(old, call.client), o1, o2)
                 remove == removeOnChangeSubscriberLocked(p, o2)
                 ok == IF p \in contKeys THEN update.ok ELSE remove.ok
             IN  /\ hw' = [hw EXCEPT ![p] = IF p \in contKeys THEN update.hw
                                            ELSE remove.hw]
                 /\ \/ /\ ok
                       /\ EraseClient(p, IF p \in contKeys THEN update.config
                                         ELSE old)
                    \/ /\ ~ok
                       /\ call' = Idle
                       /\ UNCHANGED <<books, configs>>
    /\ UNCHANGED supported

----------------------------------------------------------------------------
(* Supported value changes: one hardware call for the whole list.          *)

subscribeSupportedValueChange(c, ps, o) ==
    /\ call = Idle
    /\ hwSupported' = IF Applied(o) THEN hwSupported \cup ps ELSE hwSupported
    /\ IF o = "ok"
       THEN /\ mSupportedValueChangeClientsByPropIdAreaId' =
                   [p \in SupportedProps |->
                       IF p \in ps
                       THEN mSupportedValueChangeClientsByPropIdAreaId[p]
                                \cup {c}
                       ELSE mSupportedValueChangeClientsByPropIdAreaId[p]]
            /\ mSupportedValueChangePropIdAreaIdsByClient' =
                   [mSupportedValueChangePropIdAreaIdsByClient EXCEPT
                        ![c] = @ \cup ps]
       ELSE UNCHANGED <<mSupportedValueChangeClientsByPropIdAreaId,
                        mSupportedValueChangePropIdAreaIdsByClient>>
    /\ UNCHANGED <<books, configs, hw, call>>

\* Mutant: the books are changed before the hardware is asked.
unsubscribeSupportedValueChangeUnchecked(c, ps, o) ==
    /\ hwSupported' =
           IF Applied(o)
           THEN hwSupported \ {p \in ps :
                    mSupportedValueChangeClientsByPropIdAreaId[p] = {c}}
           ELSE hwSupported
    /\ mSupportedValueChangeClientsByPropIdAreaId' =
           [p \in SupportedProps |->
               IF p \in ps
               THEN mSupportedValueChangeClientsByPropIdAreaId[p] \ {c}
               ELSE mSupportedValueChangeClientsByPropIdAreaId[p]]
    /\ mSupportedValueChangePropIdAreaIdsByClient' =
           [mSupportedValueChangePropIdAreaIdsByClient EXCEPT ![c] = @ \ ps]

unsubscribeSupportedValueChangeLocked(c, ps, o) ==
    LET gone == {p \in ps :
                     mSupportedValueChangeClientsByPropIdAreaId[p] = {c}}
    IN  /\ hwSupported' = IF Applied(o) THEN hwSupported \ gone
                          ELSE hwSupported
        /\ IF gone = {} \/ o = "ok"
           THEN /\ mSupportedValueChangeClientsByPropIdAreaId' =
                       [p \in SupportedProps |->
                           IF p \in ps
                           THEN mSupportedValueChangeClientsByPropIdAreaId[p]
                                    \ {c}
                           ELSE mSupportedValueChangeClientsByPropIdAreaId[p]]
                /\ mSupportedValueChangePropIdAreaIdsByClient' =
                       [mSupportedValueChangePropIdAreaIdsByClient EXCEPT
                            ![c] = @ \ ps]
           ELSE UNCHANGED <<mSupportedValueChangeClientsByPropIdAreaId,
                            mSupportedValueChangePropIdAreaIdsByClient>>

unsubscribeSupportedValueChange(c, ps, o) ==
    /\ call = Idle
    /\ unsubscribeSupportedValueChangeLocked(c, ps, o)
    /\ UNCHANGED <<books, configs, hw, call>>

\* unsubscribe(client) goes on with its supported value changes once every
\* [propId, areaId] of the client is unsubscribed.
UnsubscribeAllReturn(o) ==
    /\ call.op = "unsubscribeAll"
    /\ call.todo = {}
    /\ mSubscribedPropsByClient' =
           [mSubscribedPropsByClient EXCEPT ![call.client] = {}]
    /\ unsubscribeSupportedValueChangeLocked(
           call.client,
           mSupportedValueChangePropIdAreaIdsByClient[call.client], o)
    /\ call' = Idle
    /\ UNCHANGED <<mClientsByPropIdAreaId, configs, hw>>

----------------------------------------------------------------------------
\* getSubscribedClients for an updated value of p: reading the client's
\* configuration with operator[] leaves a key behind.  (What the client is
\* sent is the subject of module VurFilter.)
getSubscribedClients(p) ==
    /\ call = Idle
    /\ mClientsByPropIdAreaId[p] # {}
    /\ contKeys' = contKeys \cup {p}
    /\ UNCHANGED <<books, mContSubConfigsByPropIdArea, supported, hw, call>>

----------------------------------------------------------------------------
Next ==
    \/ \E c \in Clients :
           \E ps \in ((SUBSET OnChange) \cup (SUBSET Continuous)) \ {{}},
              config \in [Continuous -> SubConfigs] :
                  Subscribe(c, ps, config)
    \/ \E p \in OnChange, o \in HwOutcomes : addOnChangeSubscriberLocked(p, o)
    \/ \E p \in Continuous, o1, o2 \in HwOutcomes :
           addContinuousSubscriberLocked(p, o1, o2)
    \/ Return
    \/ \E c \in Clients : \/ \E ids \in SUBSET PropIds : Unsubscribe(c, ids)
                          \/ UnsubscribeAll(c)
    \/ \E p \in PropIdAreaIds, o1, o2 \in HwOutcomes :
           unsubscribePropIdAreaIdLocked(p, o1, o2)
    \/ \E o \in HwOutcomes : UnsubscribeAllReturn(o)
    \/ \E c \in Clients, ps \in (SUBSET SupportedProps) \ {{}},
          o \in HwOutcomes :
           \/ subscribeSupportedValueChange(c, ps, o)
           \/ unsubscribeSupportedValueChange(c, ps, o)
    \/ \E p \in EventProps : getSubscribedClients(p)

Spec == Init /\ [][Next]_vars

----------------------------------------------------------------------------
(* Properties.                                                             *)

\* Every variable has the type its C++ declaration gives it
\* (SubscriptionManager.h).
TypeOK ==
    /\ mClientsByPropIdAreaId \in [PropIdAreaIds -> SUBSET Clients]
    /\ mSubscribedPropsByClient \in [Clients -> SUBSET PropIdAreaIds]
    /\ mContSubConfigsByPropIdArea \in [PropIdAreaIds -> ContSubConfigs]
    /\ contKeys \in SUBSET PropIdAreaIds
    /\ mSupportedValueChangeClientsByPropIdAreaId
           \in [SupportedProps -> SUBSET Clients]
    /\ mSupportedValueChangePropIdAreaIdsByClient
           \in [Clients -> SUBSET SupportedProps]
    /\ hw \in [PropIdAreaIds -> HwStates]
    /\ hwSupported \in SUBSET SupportedProps
    /\ call \in Calls

\* A client that getSubscribedClients would send events to has the
\* [propId, areaId] in its own list, whatever hardware calls failed before:
\* unsubscribe(client), all that a dead client gets, finds every
\* subscription of the client through that list.
BooksCoverClients ==
    \A c \in Clients, p \in PropIdAreaIds :
        c \in mClientsByPropIdAreaId[p] => p \in mSubscribedPropsByClient[c]

\* For a continuous [propId, areaId] the hardware serves exactly what its
\* clients together need: the largest rate, the smallest resolution, and VUR
\* only if everybody wants it (ContSubConfigs::refreshCombinedConfig).  This
\* survives calls that the hardware rejects half way.
HwServesContinuousClients ==
    \A p \in Continuous : LET served == hw[p].options
                               clients == mClientsByPropIdAreaId[p]
                               config == mContSubConfigsByPropIdArea[p]
                                             .configByClient IN
        clients # {} =>
            /\ hw[p].subscribed
            /\ \A c \in clients :
                   /\ config[c] # NoConfig
                   /\ served.sampleRate >= config[c].sampleRateHz
                   /\ served.resolution =< config[c].resolution
                   /\ served.enableVur => config[c].enableVur
            /\ \E c \in clients : served.sampleRate = config[c].sampleRateHz
            /\ \E c \in clients : served.resolution = config[c].resolution
            /\ served.enableVur \/ \E c \in clients : ~config[c].enableVur

\* The hardware is not left subscribed to what no client wants any more
\* ("5. The second subscriber is removed, 'unsubscribe' is called",
\* IVehicleHardware.h).
NoOrphanHwSubscription ==
    \A p \in PropIdAreaIds :
        hw[p].subscribed => mClientsByPropIdAreaId[p] # {}

\* An on-change [propId, areaId] that has clients is subscribed in the
\* hardware as long as no event for it went through getSubscribedClients.
HwServesOnChangeClientsUntilEvent ==
    \A p \in OnChange \ contKeys :
        mClientsByPropIdAreaId[p] # {} => hw[p].subscribed

\* An on-change [propId, areaId] that has clients is subscribed in the
\* hardware: the last but one client that leaves must not take the hardware
\* subscription with it (comment in removeOnChangeSubscriberLocked).
HwServesOnChangeClients ==
    \A p \in OnChange : mClientsByPropIdAreaId[p] # {} => hw[p].subscribed

\* The two maps of supported-value-change clients are each other's inverse,
\* and the hardware is subscribed to exactly what some client registered
\* for, also after rejected calls and after a client died
\* (unsubscribeSupportedValueChangeLocked).
SupportedValueBooksAgree ==
    /\ \A c \in Clients, p \in SupportedProps :
           c \in mSupportedValueChangeClientsByPropIdAreaId[p]
             <=> p \in mSupportedValueChangePropIdAreaIdsByClient[c]
    /\ hwSupported = {p \in SupportedProps :
                         mSupportedValueChangeClientsByPropIdAreaId[p] # {}}

============================================================================

--------------------- MODULE SubscriptionManagerProofs ---------------------
(***************************************************************************)
(* Proofs about SubscriptionManager, for every set of clients, properties, *)
(* rates and resolutions.                                                  *)
(***************************************************************************)
EXTENDS SubscriptionManager, TLAPS

----------------------------------------------------------------------------
(* The combined configuration.                                             *)

\* The largest requested rate is one of the rates and bounds the others.
LEMMA MaxRate ==
    ASSUME NEW S \in SUBSET (Rates \cup {0}), S # {}
    PROVE  Max(S) \in S /\ \A x \in S : Max(S) >= x
<1>1. PICK m \in S : \A x \in S : m >= x
  BY BoundedOptions
<1>. QED
  BY <1>1 DEF Max

\* The smallest requested resolution is one of them and bounds the others.
LEMMA MinResolution ==
    ASSUME NEW S \in SUBSET (Resolutions \cup {MaxResolution}), S # {}
    PROVE  Min(S) \in S /\ \A x \in S : Min(S) =< x
<1>1. PICK m \in S : \A x \in S : m =< x
  BY BoundedOptions
<1>. QED
  BY <1>1 DEF Min

ConfigsByClient == [Clients -> SubConfigs \cup {NoConfig}]

\* What refreshCombinedConfig computes: the tightest configuration that
\* serves all clients, and rate 0 when there is none.
LEMMA Combined ==
    ASSUME NEW f \in ConfigsByClient
    PROVE  LET r == refreshCombinedConfig(f)
           IN  /\ r \in ContSubConfigs
               /\ r.configByClient = f
               /\ \A c \in Clients : f[c] # NoConfig =>
                     /\ r.maxSampleRateHz >= f[c].sampleRateHz
                     /\ r.minRequiredResolution =< f[c].resolution
                     /\ r.enableVur => f[c].enableVur
               /\ (\E c \in Clients : f[c] # NoConfig) =>
                     /\ r.maxSampleRateHz # 0
                     /\ \E c \in Clients :
                           /\ f[c] # NoConfig
                           /\ r.maxSampleRateHz = f[c].sampleRateHz
                     /\ \E c \in Clients :
                           /\ f[c] # NoConfig
                           /\ r.minRequiredResolution = f[c].resolution
                     /\ \/ r.enableVur
                        \/ \E c \in Clients : f[c] # NoConfig /\ ~f[c].enableVur
               /\ (\A c \in Clients : f[c] = NoConfig) =>
                     /\ r.maxSampleRateHz = 0
                     /\ r.minRequiredResolution = MaxResolution
                     /\ r.enableVur
<1>. DEFINE r == refreshCombinedConfig(f)
            T == {f[c] : c \in Clients} \ {NoConfig}
            rates == {s.sampleRateHz : s \in T} \cup {0}
            ress == {s.resolution : s \in T} \cup {MaxResolution}
<1>1. T \subseteq SubConfigs
  BY DEF ConfigsByClient
<1>2. /\ Rates \subseteq Nat \ {0} /\ Resolutions \subseteq Nat
      /\ MaxResolution \in Nat /\ \A x \in Resolutions : x < MaxResolution
  BY SubscriptionAssumption
<1>3. rates \in SUBSET (Rates \cup {0}) /\ rates # {}
  BY <1>1 DEF SubConfigs
<1>4. ress \in SUBSET (Resolutions \cup {MaxResolution}) /\ ress # {}
  BY <1>1 DEF SubConfigs
<1>5. r = [configByClient |-> f, maxSampleRateHz |-> Max(rates),
           minRequiredResolution |-> Min(ress),
           enableVur |-> \A s \in T : s.enableVur]
  BY DEF refreshCombinedConfig
<1>6. Max(rates) \in rates /\ \A x \in rates : Max(rates) >= x
  BY <1>3, MaxRate
<1>7. Min(ress) \in ress /\ \A x \in ress : Min(ress) =< x
  BY <1>4, MinResolution
<1>. HIDE DEF r, rates, ress
<1>8. r \in ContSubConfigs /\ r.configByClient = f
  <2>1. Max(rates) \in Rates \cup {0}
    BY <1>3, <1>6
  <2>2. Min(ress) \in Resolutions \cup {MaxResolution}
    BY <1>4, <1>7
  <2>. QED
    BY <1>5, <2>1, <2>2, Zenon DEF ContSubConfigs, ConfigsByClient
<1>9. /\ r.maxSampleRateHz = Max(rates)
      /\ r.minRequiredResolution = Min(ress)
      /\ r.enableVur = \A s \in T : s.enableVur
  BY <1>5
<1>10. ASSUME NEW c \in Clients, f[c] # NoConfig
       PROVE  /\ f[c] \in T
              /\ r.maxSampleRateHz >= f[c].sampleRateHz
              /\ r.minRequiredResolution =< f[c].resolution
              /\ r.enableVur => f[c].enableVur
  <2>1. f[c] \in T
    BY <1>10
  <2>2. f[c].sampleRateHz \in rates /\ f[c].resolution \in ress
    BY <2>1, Zenon DEF rates, ress
  <2>. QED
    BY <2>1, <2>2, <1>6, <1>7, <1>9
<1>11. ASSUME NEW d \in Clients, f[d] # NoConfig
       PROVE  /\ r.maxSampleRateHz # 0
              /\ \E c \in Clients : /\ f[c] # NoConfig
                                    /\ r.maxSampleRateHz = f[c].sampleRateHz
              /\ \E c \in Clients : /\ f[c] # NoConfig
                                    /\ r.minRequiredResolution = f[c].resolution
              /\ \/ r.enableVur
                 \/ \E c \in Clients : f[c] # NoConfig /\ ~f[c].enableVur
  <2>1. f[d] \in SubConfigs
    BY <1>11 DEF ConfigsByClient
  <2>2. f[d].sampleRateHz \in Nat \ {0} /\ f[d].resolution \in Resolutions
    BY <2>1, <1>2 DEF SubConfigs
  <2>3. r.maxSampleRateHz # 0
    <3>1. Max(rates) \in Rates \cup {0}
      BY <1>3, <1>6
    <3>2. Rates \cup {0} \subseteq Nat
      BY <1>2
    <3>3. Max(rates) \in Nat
      BY <3>1, <3>2, Zenon
    <3>. QED
      BY <3>3, <2>2, <1>9, <1>10, <1>11
  <2>4. r.minRequiredResolution # MaxResolution
    <3>1. Min(ress) \in Nat
      BY <1>2, <1>4, <1>7
    <3>2. Min(ress) =< f[d].resolution
      BY <1>9, <1>10, <1>11
    <3>3. f[d].resolution < MaxResolution /\ f[d].resolution \in Nat
      BY <2>2, <1>2
    <3>. QED
      BY <3>1, <3>2, <3>3, <1>2, <1>9
  <2>5. \E s \in T : r.maxSampleRateHz = s.sampleRateHz
    BY <1>6, <1>9, <2>3 DEF rates
  <2>6. \E s \in T : r.minRequiredResolution = s.resolution
    BY <1>7, <1>9, <2>4 DEF ress
  <2>7. r.enableVur \/ \E s \in T : ~s.enableVur
    BY <1>9
  <2>. QED
    BY <2>3, <2>5, <2>6, <2>7
<1>12. ASSUME \A c \in Clients : f[c] = NoConfig
       PROVE  /\ r.maxSampleRateHz = 0
              /\ r.minRequiredResolution = MaxResolution
              /\ r.enableVur
  <2>1. T = {}
    BY <1>12
  <2>2. rates = {0} /\ ress = {MaxResolution}
    BY <2>1 DEF rates, ress
  <2>. QED
    BY <2>1, <2>2, <1>6, <1>7, <1>9
<1>. QED
  BY <1>8, <1>10, <1>11, <1>12 DEF r

----------------------------------------------------------------------------
(* The hardware and updateContSubConfigsLocked.                            *)

\* The calls to the hardware keep its type.
LEMMA HwType ==
    ASSUME NEW h \in HwStates, NEW o \in Outcomes,
           NEW options \in SubscribeOptions
    PROVE  /\ HwSubscribe(h, options, o) \in HwStates
           /\ HwUnsubscribe(h, o) \in HwStates
<1>1. OnChangeOptions \in SubscribeOptions
  BY DEF OnChangeOptions, SubscribeOptions
<1>2. HwSubscribe(h, options, o) \in HwStates
  BY DEF HwSubscribe, HwStates
<1>3. HwUnsubscribe(h, o) \in HwStates
  BY <1>1 DEF HwUnsubscribe, HwStates
<1>. QED
  BY <1>2, <1>3

\* A success stores the new configuration and leaves the hardware serving
\* it; a failure keeps the old configuration, and a hardware that rejects
\* leaves the subscription as it was.
LEMMA UpdateResult ==
    ASSUME NEW p \in PropIdAreaIds, NEW new \in ContSubConfigs,
           NEW o1 \in Outcomes, NEW o2 \in Outcomes,
           hw[p] \in HwStates, mContSubConfigsByPropIdArea[p] \in ContSubConfigs
    PROVE  LET u == updateContSubConfigsLocked(p, new, o1, o2)
               old == mContSubConfigsByPropIdArea[p]
           IN  /\ u.ok \in BOOLEAN
               /\ u.hw \in HwStates
               /\ u.config = IF u.ok THEN new ELSE old
               /\ u.ok /\ sameCombined(new, old) => u.hw = hw[p]
               /\ u.ok /\ ~sameCombined(new, old) /\ new.maxSampleRateHz # 0
                    => u.hw.subscribed /\ u.hw.options = OptionsOf(new)
               /\ u.ok /\ ~sameCombined(new, old) /\ new.maxSampleRateHz = 0
                    => ~u.hw.subscribed
               /\ ~u.ok /\ o1 # "replyLost" /\ o2 # "replyLost"
                    => /\ u.hw.subscribed = hw[p].subscribed
                       /\ u.hw.options = hw[p].options
<1>. DEFINE u == updateContSubConfigsLocked(p, new, o1, o2)
            old == mContSubConfigsByPropIdArea[p]
            rateChanges == new.maxSampleRateHz # old.maxSampleRateHz
            after == IF new.maxSampleRateHz # 0
                     THEN HwSubscribe(hw[p], OptionsOf(new), o2)
                     ELSE HwUnsubscribe(hw[p], o2)
<1>1. OptionsOf(new) \in SubscribeOptions
  BY DEF OptionsOf, SubscribeOptions, ContSubConfigs
<1>2. after \in HwStates
  BY <1>1, HwType
<1>3. o2 = "ok" => IF new.maxSampleRateHz # 0
                   THEN after.subscribed /\ after.options = OptionsOf(new)
                   ELSE ~after.subscribed
  BY DEF HwSubscribe, HwUnsubscribe, Applied, HwStates
<1>4. o2 = "rejected" => after = hw[p]
  BY DEF HwSubscribe, HwUnsubscribe, Applied
<1>5. u = IF sameCombined(new, old)
            THEN [ok |-> TRUE, hw |-> hw[p], config |-> new]
          ELSE IF rateChanges /\ o1 # "ok"
            THEN [ok |-> FALSE, hw |-> hw[p], config |-> old]
          ELSE [ok |-> o2 = "ok", hw |-> after,
                config |-> IF o2 = "ok" THEN new ELSE old]
  BY DEF updateContSubConfigsLocked
<1>. HIDE DEF u, after, old, rateChanges
<1>6. CASE sameCombined(new, old)
  BY <1>5, <1>6 DEF u, old
<1>7. CASE ~sameCombined(new, old) /\ rateChanges /\ o1 # "ok"
  BY <1>5, <1>7 DEF u, old
<1>8. CASE ~sameCombined(new, old) /\ ~(rateChanges /\ o1 # "ok")
  <2>1. u = [ok |-> o2 = "ok", hw |-> after,
             config |-> IF o2 = "ok" THEN new ELSE old]
    BY <1>5, <1>8
  <2>2. CASE o2 = "ok"
    <3>1. u.ok /\ u.hw = after /\ u.config = new
      BY <2>1, <2>2
    <3>. QED
      BY <3>1, <2>2, <1>2, <1>3, <1>8 DEF u, old
  <2>3. CASE o2 # "ok"
    <3>1. o2 # "replyLost" => after = hw[p]
      BY <2>3, <1>4 DEF Outcomes
    <3>2. u.ok = FALSE /\ u.hw = after /\ u.config = old
      BY <2>1, <2>3
    <3>. QED
      BY <3>1, <3>2, <1>2, <1>8 DEF u, old
  <2>. QED
    BY <2>2, <2>3
<1>. QED
  BY <1>6, <1>7, <1>8

----------------------------------------------------------------------------
(* Types.                                                                  *)

\* A map's default value, and what adding or removing a client makes of an
\* entry, is a ContSubConfigs again.
LEMMA ConfigType ==
    ASSUME NEW config \in ContSubConfigs, NEW c \in Clients
    PROVE  /\ DefaultConfig \in ContSubConfigs
           /\ \A s \in SubConfigs :
                 /\ [config.configByClient EXCEPT ![c] = s] \in ConfigsByClient
                 /\ addClient(config, c, s) \in ContSubConfigs
           /\ [config.configByClient EXCEPT ![c] = NoConfig] \in ConfigsByClient
           /\ removeClient(config, c) \in ContSubConfigs
<1>1. DefaultConfig \in ContSubConfigs
  BY DEF DefaultConfig, ContSubConfigs
<1>2. config.configByClient \in ConfigsByClient
  BY DEF ContSubConfigs, ConfigsByClient
<1>3. \A s \in SubConfigs \cup {NoConfig} :
          [config.configByClient EXCEPT ![c] = s] \in ConfigsByClient
  BY <1>2 DEF ConfigsByClient
<1>. QED
  BY <1>1, <1>3, Combined DEF addClient, removeClient

\* A call that has treated a [propId, areaId] is a call still.
LEMMA CallType ==
    ASSUME call \in Calls, call.op # "idle", NEW p
    PROVE  /\ call.client \in Clients
           /\ call.todo \in SUBSET PropIdAreaIds
           /\ [call EXCEPT !.todo = @ \ {p}] \in Calls
           /\ call.op = "subscribe" => call.config \in [Continuous -> SubConfigs]
<1>1. CASE call \in [op : {"subscribe"}, client : Clients,
                     todo : (SUBSET OnChange) \cup (SUBSET Continuous),
                     config : [Continuous -> SubConfigs]]
  BY <1>1 DEF Calls, PropIdAreaIds
<1>2. CASE call \in [op : {"unsubscribe", "unsubscribeAll"}, client : Clients,
                     todo : SUBSET PropIdAreaIds]
  BY <1>2 DEF Calls
<1>. QED
  BY <1>1, <1>2 DEF Calls, Idle

\* Recording a subscriber keeps the types of the books.
LEMMA RecordType ==
    ASSUME TypeOK, NEW p \in PropIdAreaIds, NEW ok \in BOOLEAN,
           call.op # "idle", RecordSubscriber(p, ok)
    PROVE  /\ mClientsByPropIdAreaId' \in [PropIdAreaIds -> SUBSET Clients]
           /\ mSubscribedPropsByClient' \in [Clients -> SUBSET PropIdAreaIds]
           /\ call' \in Calls
<1>1. call.client \in Clients /\ [call EXCEPT !.todo = @ \ {p}] \in Calls
  BY CallType DEF TypeOK
<1>2. CASE ok
  <2>1. /\ mSubscribedPropsByClient' =
                [mSubscribedPropsByClient EXCEPT ![call.client] = @ \cup {p}]
        /\ mClientsByPropIdAreaId' =
                [mClientsByPropIdAreaId EXCEPT ![p] = @ \cup {call.client}]
        /\ call' = [call EXCEPT !.todo = @ \ {p}]
    BY <1>2 DEF RecordSubscriber
  <2>. QED
    BY <1>1, <2>1 DEF TypeOK
<1>3. CASE ~ok
  BY <1>3 DEF RecordSubscriber, TypeOK, books, Calls
<1>. QED
  BY <1>2, <1>3

\* The last part of unsubscribePropIdAreaIdLocked keeps the types.
LEMMA EraseType ==
    ASSUME TypeOK, NEW p \in PropIdAreaIds, NEW config \in ContSubConfigs,
           call.op # "idle", EraseClient(p, config)
    PROVE  /\ mClientsByPropIdAreaId' \in [PropIdAreaIds -> SUBSET Clients]
           /\ mSubscribedPropsByClient' \in [Clients -> SUBSET PropIdAreaIds]
           /\ mContSubConfigsByPropIdArea' \in [PropIdAreaIds -> ContSubConfigs]
           /\ contKeys' \in SUBSET PropIdAreaIds
           /\ call' \in Calls
<1>1. call.client \in Clients /\ [call EXCEPT !.todo = @ \ {p}] \in Calls
  BY CallType DEF TypeOK
<1>2. DefaultConfig \in ContSubConfigs
  BY <1>1, ConfigType
<1>3. mClientsByPropIdAreaId' \in [PropIdAreaIds -> SUBSET Clients]
  BY DEF EraseClient, TypeOK
<1>4. mContSubConfigsByPropIdArea' \in [PropIdAreaIds -> ContSubConfigs]
  BY <1>2 DEF EraseClient, TypeOK
<1>5. mSubscribedPropsByClient' \in [Clients -> SUBSET PropIdAreaIds]
  BY <1>1 DEF EraseClient, ForgetSubscribedProp, TypeOK
<1>. QED
  BY <1>1, <1>3, <1>4, <1>5 DEF EraseClient, TypeOK

\* So do the two actions on supported value changes.
LEMMA SupportedType ==
    ASSUME TypeOK, NEW c \in Clients, NEW ps \in SUBSET SupportedProps, NEW o,
           \/ subscribeSupportedValueChange(c, ps, o)
           \/ unsubscribeSupportedValueChangeLocked(c, ps, o)
    PROVE  /\ mSupportedValueChangeClientsByPropIdAreaId'
                  \in [SupportedProps -> SUBSET Clients]
           /\ mSupportedValueChangePropIdAreaIdsByClient'
                  \in [Clients -> SUBSET SupportedProps]
           /\ hwSupported' \in SUBSET SupportedProps
<1>1. CASE subscribeSupportedValueChange(c, ps, o)
  BY <1>1 DEF subscribeSupportedValueChange, TypeOK
<1>2. CASE unsubscribeSupportedValueChangeLocked(c, ps, o)
  BY <1>2 DEF unsubscribeSupportedValueChangeLocked, TypeOK
<1>. QED
  BY <1>1, <1>2

\* Every variable keeps its type (SubscriptionManager.h), whatever the
\* clients ask for and however the hardware answers.
THEOREM TypeCorrect == Spec => []TypeOK
<1>1. Init => TypeOK
  <2>. SUFFICES ASSUME Init PROVE TypeOK
    OBVIOUS
  <2>1. DefaultConfig \in ContSubConfigs
    BY DEF DefaultConfig, ContSubConfigs
  <2>2. [subscribed |-> FALSE, options |-> OnChangeOptions] \in HwStates
    BY DEF HwStates, OnChangeOptions, SubscribeOptions
  <2>. QED
    BY <2>1, <2>2 DEF Init, TypeOK, Calls
<1>2. TypeOK /\ [Next]_vars => TypeOK'
  <2>. SUFFICES ASSUME TypeOK, [Next]_vars PROVE TypeOK'
    OBVIOUS
  <2>. USE DEF books, configs, supported
  <2>0. HwOutcomes \subseteq Outcomes /\ SupportedProps \subseteq PropIdAreaIds
          /\ OnChange \subseteq PropIdAreaIds /\ Continuous \subseteq PropIdAreaIds
          /\ EventProps \subseteq PropIdAreaIds
    BY SubscriptionAssumption DEF PropIdAreaIds
  <2>1. ASSUME NEW c \in Clients,
               NEW ps \in (SUBSET OnChange) \cup (SUBSET Continuous),
               NEW config \in [Continuous -> SubConfigs],
               Subscribe(c, ps, config)
        PROVE  TypeOK'
    BY <2>1 DEF Subscribe, TypeOK, Calls
  <2>2. ASSUME NEW p \in OnChange, NEW o \in HwOutcomes,
               addOnChangeSubscriberLocked(p, o)
        PROVE  TypeOK'
    <3>. DEFINE already == mClientsByPropIdAreaId[p] # {}
    <3>1. p \in PropIdAreaIds /\ o \in Outcomes /\ call.op # "idle"
      BY <2>0, <2>2 DEF addOnChangeSubscriberLocked
    <3>2. RecordSubscriber(p, already \/ o = "ok")
      BY <2>2 DEF addOnChangeSubscriberLocked
    <3>3. OnChangeOptions \in SubscribeOptions
      BY DEF OnChangeOptions, SubscribeOptions
    <3>4. hw' \in [PropIdAreaIds -> HwStates]
      BY <3>1, <3>3, <2>2, HwType DEF addOnChangeSubscriberLocked, TypeOK
    <3>5. UNCHANGED <<configs, supported>>
      BY <2>2 DEF addOnChangeSubscriberLocked
    <3>. QED
      BY <3>1, <3>2, <3>4, <3>5, RecordType DEF TypeOK
  <2>3. ASSUME NEW p \in Continuous, NEW o1 \in HwOutcomes, NEW o2 \in HwOutcomes,
               addContinuousSubscriberLocked(p, o1, o2)
        PROVE  TypeOK'
    <3>. DEFINE old == mContSubConfigsByPropIdArea[p]
                new == addClient(old, call.client, call.config[p])
                update == updateContSubConfigsLocked(p, new, o1, o2)
    <3>1. /\ p \in PropIdAreaIds /\ o1 \in Outcomes /\ o2 \in Outcomes
          /\ call.op = "subscribe" /\ old \in ContSubConfigs /\ hw[p] \in HwStates
      BY <2>0, <2>3 DEF addContinuousSubscriberLocked, TypeOK
    <3>2. call.client \in Clients /\ call.config[p] \in SubConfigs
      BY <3>1, CallType DEF TypeOK
    <3>3. new \in ContSubConfigs
      BY <3>1, <3>2, ConfigType
    <3>4. /\ hw' = [hw EXCEPT ![p] = update.hw]
          /\ mContSubConfigsByPropIdArea' =
                 [mContSubConfigsByPropIdArea EXCEPT ![p] = update.config]
          /\ RecordSubscriber(p, update.ok)
          /\ contKeys' = contKeys \cup {p}
          /\ UNCHANGED supported
      BY <2>3 DEF addContinuousSubscriberLocked
    <3>. HIDE DEF new, old
    <3>5. /\ update.ok \in BOOLEAN
          /\ update.hw \in HwStates
          /\ update.config = IF update.ok THEN new ELSE old
      BY <3>1, <3>3, UpdateResult DEF old
    <3>. HIDE DEF update
    <3>. QED
      BY <3>1, <3>3, <3>4, <3>5, RecordType DEF TypeOK
  <2>4. ASSUME Return PROVE TypeOK'
    BY <2>4 DEF Return, TypeOK, Calls
  <2>5. ASSUME NEW c \in Clients, NEW ids \in SUBSET PropIds, Unsubscribe(c, ids)
        PROVE  TypeOK'
    BY <2>5 DEF Unsubscribe, TypeOK, Calls
  <2>6. ASSUME NEW c \in Clients, UnsubscribeAll(c) PROVE TypeOK'
    BY <2>6 DEF UnsubscribeAll, TypeOK, Calls
  <2>7. ASSUME NEW p \in PropIdAreaIds, NEW o1 \in HwOutcomes, NEW o2 \in HwOutcomes,
               unsubscribePropIdAreaIdLocked(p, o1, o2)
        PROVE  TypeOK'
    <3>. DEFINE old == mContSubConfigsByPropIdArea[p]
                new == removeClient(old, call.client)
                update == updateContSubConfigsLocked(p, new, o1, o2)
                remove == removeOnChangeSubscriberLocked(p, o2)
                ok == IF p \in contKeys THEN update.ok ELSE remove.ok
    <3>1. /\ o1 \in Outcomes /\ o2 \in Outcomes /\ call.op # "idle"
          /\ old \in ContSubConfigs /\ hw[p] \in HwStates
      BY <2>0, <2>7 DEF unsubscribePropIdAreaIdLocked, TypeOK
    <3>2. call.client \in Clients /\ [call EXCEPT !.todo = @ \ {p}] \in Calls
      BY <3>1, CallType DEF TypeOK
    <3>3. new \in ContSubConfigs
      BY <3>1, <3>2, ConfigType
    <3>4. UNCHANGED supported
      BY <2>7 DEF unsubscribePropIdAreaIdLocked
    <3>5. \/ /\ ForgetSubscribedProp(p)
             /\ call' = [call EXCEPT !.todo = @ \ {p}]
             /\ UNCHANGED <<mClientsByPropIdAreaId, configs, hw>>
          \/ /\ hw' = [hw EXCEPT ![p] = IF p \in contKeys THEN update.hw
                                         ELSE remove.hw]
             /\ \/ EraseClient(p, IF p \in contKeys THEN update.config ELSE old)
                \/ call' = Idle /\ UNCHANGED <<books, configs>>
      BY <2>7, Zenon DEF unsubscribePropIdAreaIdLocked
    <3>. HIDE DEF new, old
    <3>6. update.hw \in HwStates /\ update.config \in ContSubConfigs
      BY <3>1, <3>3, UpdateResult DEF old
    <3>7. remove.hw \in HwStates
      <4>1. OnChangeOptions \in SubscribeOptions
        BY DEF OnChangeOptions, SubscribeOptions
      <4>2. HwUnsubscribe(hw[p], o2) \in HwStates
        BY <3>1, <4>1, HwType
      <4>. QED
        BY <3>1, <4>2 DEF removeOnChangeSubscriberLocked
    <3>. HIDE DEF update, remove
    <3>8. CASE /\ ForgetSubscribedProp(p)
               /\ call' = [call EXCEPT !.todo = @ \ {p}]
               /\ UNCHANGED <<mClientsByPropIdAreaId, configs, hw>>
      BY <3>2, <3>4, <3>8 DEF ForgetSubscribedProp, TypeOK
    <3>9. CASE /\ hw' = [hw EXCEPT ![p] = IF p \in contKeys THEN update.hw
                                           ELSE remove.hw]
               /\ EraseClient(p, IF p \in contKeys THEN update.config ELSE old)
      BY <3>1, <3>4, <3>6, <3>7, <3>9, EraseType DEF TypeOK
    <3>10. CASE /\ hw' = [hw EXCEPT ![p] = IF p \in contKeys THEN update.hw
                                            ELSE remove.hw]
                /\ call' = Idle /\ UNCHANGED <<books, configs>>
      BY <3>4, <3>6, <3>7, <3>10 DEF TypeOK, Calls
    <3>. QED
      BY <3>5, <3>8, <3>9, <3>10
  <2>8. ASSUME NEW o \in HwOutcomes, UnsubscribeAllReturn(o) PROVE TypeOK'
    <3>. DEFINE ps == mSupportedValueChangePropIdAreaIdsByClient[call.client]
    <3>1. call.client \in Clients
      BY <2>8, CallType DEF UnsubscribeAllReturn, TypeOK
    <3>2. ps \in SUBSET SupportedProps
      BY <3>1 DEF TypeOK
    <3>3. unsubscribeSupportedValueChangeLocked(call.client, ps, o)
      BY <2>8 DEF UnsubscribeAllReturn
    <3>. HIDE DEF ps
    <3>. QED
      BY <3>1, <3>2, <3>3, <2>8, SupportedType DEF UnsubscribeAllReturn, TypeOK, Calls
  <2>9. ASSUME NEW c \in Clients, NEW ps \in SUBSET SupportedProps,
               NEW o \in HwOutcomes,
               \/ subscribeSupportedValueChange(c, ps, o)
               \/ unsubscribeSupportedValueChange(c, ps, o)
        PROVE  TypeOK'
    <3>1. UNCHANGED <<books, configs, hw, call>>
      BY <2>9 DEF subscribeSupportedValueChange, unsubscribeSupportedValueChange
    <3>. QED
      BY <3>1, <2>9, SupportedType DEF unsubscribeSupportedValueChange, TypeOK
  <2>10. ASSUME NEW p \in EventProps, getSubscribedClients(p) PROVE TypeOK'
    BY <2>0, <2>10 DEF getSubscribedClients, TypeOK
  <2>11. ASSUME UNCHANGED vars PROVE TypeOK'
    BY <2>11 DEF vars, TypeOK
  <2>. QED
    BY <2>1, <2>2, <2>3, <2>4, <2>5, <2>6, <2>7, <2>8, <2>9, <2>10, <2>11
       DEF Next
<1>. QED
  BY <1>1, <1>2, PTL DEF Spec

----------------------------------------------------------------------------
(* The books.                                                              *)

\* unsubscribe(client) clears the client's list at its end, which is right
\* because what it has yet to treat covers what the client is still a
\* client of.
UnsubscribeAllCovers ==
    call.op = "unsubscribeAll" =>
        \A p \in PropIdAreaIds :
            call.client \in mClientsByPropIdAreaId[p] => p \in call.todo

BooksInv == TypeOK /\ BooksCoverClients /\ UnsubscribeAllCovers

\* Whatever hardware calls fail half way, a client that events are sent to
\* has the [propId, areaId] in its own list, so that unsubscribe(client)
\* finds it.
THEOREM BooksCorrect == Spec => []BooksCoverClients
<1>1. Init => BooksCoverClients /\ UnsubscribeAllCovers
  BY DEF Init, BooksCoverClients, UnsubscribeAllCovers, Idle
<1>2. BooksInv /\ [Next]_vars => (BooksCoverClients /\ UnsubscribeAllCovers)'
  <2>. SUFFICES ASSUME BooksInv, [Next]_vars
                PROVE  (BooksCoverClients /\ UnsubscribeAllCovers)'
    OBVIOUS
  <2>. USE DEF BooksInv, books, configs, supported
  <2>0. OnChange \subseteq PropIdAreaIds /\ Continuous \subseteq PropIdAreaIds
    BY DEF PropIdAreaIds
  <2>1. ASSUME UNCHANGED books, call'.op # "unsubscribeAll" \/ UNCHANGED call
        PROVE  (BooksCoverClients /\ UnsubscribeAllCovers)'
    BY <2>1 DEF BooksCoverClients, UnsubscribeAllCovers
  <2>2. ASSUME NEW p \in PropIdAreaIds, NEW ok, call.op = "subscribe",
               RecordSubscriber(p, ok)
        PROVE  (BooksCoverClients /\ UnsubscribeAllCovers)'
    <3>1. call.client \in Clients
      BY <2>2, CallType DEF TypeOK
    <3>2. CASE ok
      <4>1. /\ mSubscribedPropsByClient' =
                  [mSubscribedPropsByClient EXCEPT ![call.client] = @ \cup {p}]
            /\ mClientsByPropIdAreaId' =
                  [mClientsByPropIdAreaId EXCEPT ![p] = @ \cup {call.client}]
            /\ call' = [call EXCEPT !.todo = @ \ {p}]
        BY <2>2, <3>2 DEF RecordSubscriber
      <4>2. call'.op = "subscribe"
        BY <2>2, <4>1 DEF TypeOK, Calls, Idle
      <4>. QED
        BY <3>1, <4>1, <4>2 DEF TypeOK, BooksCoverClients, UnsubscribeAllCovers
    <3>3. CASE ~ok
      BY <2>2, <3>3, <2>1 DEF RecordSubscriber, Idle
    <3>. QED
      BY <3>2, <3>3
  <2>3. ASSUME NEW p \in OnChange, NEW o \in HwOutcomes,
               addOnChangeSubscriberLocked(p, o)
        PROVE  (BooksCoverClients /\ UnsubscribeAllCovers)'
    BY <2>0, <2>2, <2>3 DEF addOnChangeSubscriberLocked
  <2>4. ASSUME NEW p \in Continuous, NEW o1 \in HwOutcomes, NEW o2 \in HwOutcomes,
               addContinuousSubscriberLocked(p, o1, o2)
        PROVE  (BooksCoverClients /\ UnsubscribeAllCovers)'
    BY <2>0, <2>2, <2>4 DEF addContinuousSubscriberLocked
  <2>5. ASSUME NEW c \in Clients, UnsubscribeAll(c)
        PROVE  (BooksCoverClients /\ UnsubscribeAllCovers)'
    BY <2>5 DEF UnsubscribeAll, BooksCoverClients, UnsubscribeAllCovers, TypeOK
  <2>6. ASSUME NEW p \in PropIdAreaIds, NEW o1 \in HwOutcomes, NEW o2 \in HwOutcomes,
               unsubscribePropIdAreaIdLocked(p, o1, o2)
        PROVE  (BooksCoverClients /\ UnsubscribeAllCovers)'
    <3>. DEFINE clients == mClientsByPropIdAreaId[p] \ {call.client}
    <3>1. /\ call.op \in {"unsubscribe", "unsubscribeAll"}
          /\ call.client \in Clients /\ p \in call.todo
      BY <2>6, CallType DEF unsubscribePropIdAreaIdLocked, TypeOK
    <3>2. \/ /\ mClientsByPropIdAreaId' =
                    [mClientsByPropIdAreaId EXCEPT ![p] = clients]
             /\ ForgetSubscribedProp(p)
             /\ call' = [call EXCEPT !.todo = @ \ {p}]
          \/ call' = Idle /\ UNCHANGED books
      <4>1. CASE p \notin contKeys /\ mClientsByPropIdAreaId[p] = {}
        <5>1. UNCHANGED mClientsByPropIdAreaId /\ clients = {}
                /\ ForgetSubscribedProp(p) /\ call' = [call EXCEPT !.todo = @ \ {p}]
          BY <2>6, <4>1 DEF unsubscribePropIdAreaIdLocked
        <5>. QED
          BY <5>1, <4>1 DEF TypeOK
      <4>2. CASE p \in contKeys \/ mClientsByPropIdAreaId[p] # {}
        BY <2>6, <4>2, Zenon DEF unsubscribePropIdAreaIdLocked, EraseClient
      <4>. QED
        BY <4>1, <4>2
    <3>3. CASE call' = Idle /\ UNCHANGED books
      BY <3>3, <2>1 DEF Idle
    <3>4. CASE /\ mClientsByPropIdAreaId' =
                      [mClientsByPropIdAreaId EXCEPT ![p] = clients]
               /\ ForgetSubscribedProp(p)
               /\ call' = [call EXCEPT !.todo = @ \ {p}]
      <4>1. \A c \in Clients, q \in PropIdAreaIds :
                q \in mSubscribedPropsByClient[c]
                  => \/ q \in mSubscribedPropsByClient'[c]
                     \/ c = call.client /\ q = p
        BY <3>1, <3>4 DEF ForgetSubscribedProp, TypeOK
      <4>2. \A c \in Clients, q \in PropIdAreaIds :
                c \in mClientsByPropIdAreaId'[q]
                  => /\ c \in mClientsByPropIdAreaId[q]
                     /\ ~(c = call.client /\ q = p)
        BY <3>4 DEF TypeOK
      <4>3. /\ call'.op = call.op /\ call'.client = call.client
            /\ call'.todo = call.todo \ {p}
        BY <3>1, <3>4 DEF TypeOK, Calls, Idle
      <4>4. BooksCoverClients'
        BY <4>1, <4>2 DEF BooksCoverClients
      <4>5. UnsubscribeAllCovers'
        BY <3>1, <4>2, <4>3 DEF UnsubscribeAllCovers
      <4>. QED
        BY <4>4, <4>5
    <3>. QED
      BY <3>2, <3>3, <3>4
  <2>7. ASSUME NEW o \in HwOutcomes, UnsubscribeAllReturn(o)
        PROVE  (BooksCoverClients /\ UnsubscribeAllCovers)'
    <3>1. \A p \in PropIdAreaIds : call.client \notin mClientsByPropIdAreaId[p]
      BY <2>7 DEF UnsubscribeAllReturn, UnsubscribeAllCovers
    <3>2. \A c \in Clients : c # call.client =>
              mSubscribedPropsByClient'[c] = mSubscribedPropsByClient[c]
      BY <2>7 DEF UnsubscribeAllReturn, TypeOK
    <3>3. call'.op # "unsubscribeAll" /\ UNCHANGED mClientsByPropIdAreaId
      BY <2>7 DEF UnsubscribeAllReturn, Idle
    <3>. QED
      BY <3>1, <3>2, <3>3 DEF BooksCoverClients, UnsubscribeAllCovers
  <2>8. ASSUME NEW c \in Clients, NEW ps, NEW config, Subscribe(c, ps, config)
        PROVE  (BooksCoverClients /\ UnsubscribeAllCovers)'
    BY <2>1, <2>8 DEF Subscribe
  <2>9. ASSUME NEW c \in Clients, NEW ids, Unsubscribe(c, ids)
        PROVE  (BooksCoverClients /\ UnsubscribeAllCovers)'
    BY <2>1, <2>9 DEF Unsubscribe
  <2>10. ASSUME Return PROVE (BooksCoverClients /\ UnsubscribeAllCovers)'
    BY <2>1, <2>10 DEF Return, Idle
  <2>11. ASSUME NEW c, NEW ps, NEW o,
                \/ subscribeSupportedValueChange(c, ps, o)
                \/ unsubscribeSupportedValueChange(c, ps, o)
         PROVE  (BooksCoverClients /\ UnsubscribeAllCovers)'
    BY <2>1, <2>11 DEF subscribeSupportedValueChange, unsubscribeSupportedValueChange
  <2>12. ASSUME NEW p, getSubscribedClients(p)
         PROVE  (BooksCoverClients /\ UnsubscribeAllCovers)'
    BY <2>1, <2>12 DEF getSubscribedClients
  <2>13. ASSUME UNCHANGED vars PROVE (BooksCoverClients /\ UnsubscribeAllCovers)'
    BY <2>1, <2>13 DEF vars
  <2>. QED
    BY <2>3, <2>4, <2>5, <2>6, <2>7, <2>8, <2>9, <2>10, <2>11, <2>12, <2>13
       DEF Next
<1>. QED
  BY <1>1, <1>2, TypeCorrect, PTL DEF Spec, BooksInv

----------------------------------------------------------------------------
(* What the hardware is subscribed to, compared with what the clients      *)
(* want, when a call that fails is a call that was not applied.            *)

\* What refreshCombinedConfig makes of no client at all.
EmptyConfig == refreshCombinedConfig([c \in Clients |-> NoConfig])

\* The stored configuration of a continuous [propId, areaId] is that of its
\* clients, and the hardware has its combination.
ContinuousServed(p) ==
    LET config == mContSubConfigsByPropIdArea[p]
        clients == mClientsByPropIdAreaId[p]
    IN  /\ \A c \in Clients :
              config.configByClient[c] # NoConfig <=> c \in clients
        /\ IF clients = {}
           THEN config = DefaultConfig /\ ~hw[p].subscribed
           ELSE /\ p \in contKeys
                /\ config = refreshCombinedConfig(config.configByClient)
                /\ hw[p].subscribed
                /\ hw[p].options = OptionsOf(config)

\* A key that getSubscribedClients leaves behind for an on-change
\* [propId, areaId] has the default value until a client unsubscribes; from
\* then on the hardware is unsubscribed.
OnChangeNotOrphaned(p) ==
    LET config == mContSubConfigsByPropIdArea[p]
        clients == mClientsByPropIdAreaId[p]
    IN  /\ \/ config = DefaultConfig
           \/ config = EmptyConfig /\ clients # {} /\ ~hw[p].subscribed
        /\ hw[p].subscribed => clients # {}

HwInv == /\ \A p \in Continuous : ContinuousServed(p)
         /\ \A p \in OnChange : OnChangeNotOrphaned(p)

----------------------------------------------------------------------------
(* Lemmas.                                                                 *)

\* A configuration without clients: the one operator[] makes and the one
\* refreshCombinedConfig makes differ in enableVur only.
LEMMA EmptyConfigs ==
    /\ EmptyConfig \in ContSubConfigs /\ DefaultConfig \in ContSubConfigs
    /\ EmptyConfig.maxSampleRateHz = 0 /\ DefaultConfig.maxSampleRateHz = 0
    /\ EmptyConfig.enableVur /\ ~DefaultConfig.enableVur
    /\ DefaultConfig.configByClient = [c \in Clients |-> NoConfig]
    /\ \A c \in Clients : /\ removeClient(DefaultConfig, c) = EmptyConfig
                          /\ removeClient(EmptyConfig, c) = EmptyConfig
<1>. DEFINE none == [c \in Clients |-> NoConfig]
<1>1. none \in ConfigsByClient
  BY DEF ConfigsByClient
<1>2. /\ EmptyConfig \in ContSubConfigs /\ EmptyConfig.configByClient = none
      /\ EmptyConfig.maxSampleRateHz = 0 /\ EmptyConfig.enableVur
  <2>1. \A c \in Clients : none[c] = NoConfig
    OBVIOUS
  <2>. HIDE DEF none
  <2>. QED
    BY <1>1, <2>1, Combined DEF EmptyConfig, none
<1>3. /\ DefaultConfig \in ContSubConfigs /\ DefaultConfig.configByClient = none
      /\ DefaultConfig.maxSampleRateHz = 0 /\ ~DefaultConfig.enableVur
  BY DEF DefaultConfig, ContSubConfigs
<1>4. \A c \in Clients : [none EXCEPT ![c] = NoConfig] = none
  OBVIOUS
<1>5. EmptyConfig = refreshCombinedConfig(none)
  BY DEF EmptyConfig
<1>. HIDE DEF none
<1>6. \A c \in Clients : /\ removeClient(DefaultConfig, c) = EmptyConfig
                         /\ removeClient(EmptyConfig, c) = EmptyConfig
  BY <1>2, <1>3, <1>4, <1>5 DEF removeClient
<1>. QED
  BY <1>2, <1>3, <1>6 DEF none

\* Configurations with the same combination need the same of the hardware.
LEMMA SameOptions ==
    ASSUME NEW new, NEW old, sameCombined(new, old)
    PROVE  OptionsOf(new) = OptionsOf(old)
             /\ new.maxSampleRateHz = old.maxSampleRateHz
             /\ new.enableVur = old.enableVur
  BY DEF sameCombined, OptionsOf

\* What a step does not touch stays as it is.
LEMMA Frame ==
    ASSUME NEW p \in PropIdAreaIds,
           mContSubConfigsByPropIdArea'[p] = mContSubConfigsByPropIdArea[p],
           mClientsByPropIdAreaId'[p] = mClientsByPropIdAreaId[p],
           hw'[p].subscribed = hw[p].subscribed,
           hw'[p].options = hw[p].options,
           p \in contKeys => p \in contKeys'
    PROVE  /\ ContinuousServed(p) => ContinuousServed(p)'
           /\ OnChangeNotOrphaned(p) => OnChangeNotOrphaned(p)'
<1>1. ContinuousServed(p) => ContinuousServed(p)'
  BY DEF ContinuousServed
<1>2. OnChangeNotOrphaned(p) => OnChangeNotOrphaned(p)'
  BY DEF OnChangeNotOrphaned
<1>. QED
  BY <1>1, <1>2

\* A served [propId, areaId] with clients has a rate, one without has not.
LEMMA ServedRate ==
    ASSUME NEW p \in Continuous, ContinuousServed(p),
           mContSubConfigsByPropIdArea[p] \in ContSubConfigs,
           mClientsByPropIdAreaId[p] \subseteq Clients
    PROVE  mContSubConfigsByPropIdArea[p].maxSampleRateHz # 0
             <=> mClientsByPropIdAreaId[p] # {}
<1>. DEFINE config == mContSubConfigsByPropIdArea[p]
<1>1. CASE mClientsByPropIdAreaId[p] = {}
  BY <1>1, EmptyConfigs DEF ContinuousServed
<1>2. CASE mClientsByPropIdAreaId[p] # {}
  <2>1. \E c \in Clients : config.configByClient[c] # NoConfig
    BY <1>2 DEF ContinuousServed
  <2>2. config = refreshCombinedConfig(config.configByClient)
    BY <1>2 DEF ContinuousServed
  <2>3. config.configByClient \in ConfigsByClient
    BY DEF ContSubConfigs, ConfigsByClient
  <2>. HIDE DEF config
  <2>. QED
    BY <2>1, <2>2, <2>3, <1>2, Combined DEF config
<1>. QED
  BY <1>1, <1>2
----------------------------------------------------------------------------
(* One step.                                                               *)

\* addContinuousSubscriberLocked leaves the hardware serving the client as
\* well, or, if the hardware rejects, everything as it was.
LEMMA AddContinuous ==
    ASSUME TypeOK, "replyLost" \notin HwOutcomes, NEW p \in Continuous,
           ContinuousServed(p), NEW o1 \in HwOutcomes, NEW o2 \in HwOutcomes,
           addContinuousSubscriberLocked(p, o1, o2)
    PROVE  ContinuousServed(p)'
<1>. DEFINE old == mContSubConfigsByPropIdArea[p]
            f == [old.configByClient EXCEPT ![call.client] = call.config[p]]
            new == refreshCombinedConfig(f)
            u == updateContSubConfigsLocked(p, new, o1, o2)
<1>1. /\ p \in PropIdAreaIds /\ o1 \in Outcomes /\ o2 \in Outcomes
      /\ o1 # "replyLost" /\ o2 # "replyLost"
      /\ call.op = "subscribe" /\ old \in ContSubConfigs /\ hw[p] \in HwStates
      /\ mClientsByPropIdAreaId[p] \subseteq Clients
  BY SubscriptionAssumption DEF addContinuousSubscriberLocked, TypeOK, PropIdAreaIds
<1>2. call.client \in Clients /\ call.config[p] \in SubConfigs
  BY <1>1, CallType DEF TypeOK
<1>3. f \in ConfigsByClient /\ new = addClient(old, call.client, call.config[p])
  BY <1>1, <1>2, ConfigType DEF addClient
<1>4. /\ new \in ContSubConfigs /\ new.configByClient = f
      /\ new.maxSampleRateHz # 0
  <2>1. old.configByClient \in ConfigsByClient
    BY <1>1 DEF ContSubConfigs, ConfigsByClient
  <2>2. f[call.client] # NoConfig
    BY <1>2, <2>1, NoConfigAssumption DEF ConfigsByClient
  <2>. HIDE DEF f
  <2>. QED
    BY <1>2, <1>3, <2>2, Combined
<1>5. \A c \in Clients :
         f[c] # NoConfig <=> c \in mClientsByPropIdAreaId[p] \cup {call.client}
  <2>1. old.configByClient \in ConfigsByClient
    BY <1>1 DEF ContSubConfigs, ConfigsByClient
  <2>. QED
    BY <1>2, <2>1, NoConfigAssumption DEF ContinuousServed, ConfigsByClient
<1>6. /\ hw' = [hw EXCEPT ![p] = u.hw]
      /\ mContSubConfigsByPropIdArea' =
             [mContSubConfigsByPropIdArea EXCEPT ![p] = u.config]
      /\ RecordSubscriber(p, u.ok)
      /\ contKeys' = contKeys \cup {p}
  BY <1>3 DEF addContinuousSubscriberLocked
<1>7. (old.maxSampleRateHz # 0) => /\ hw[p].subscribed
                                   /\ hw[p].options = OptionsOf(old)
  BY <1>1, ServedRate DEF ContinuousServed
<1>8. new = refreshCombinedConfig(new.configByClient)
  BY <1>4
<1>. HIDE DEF f, new
<1>9. /\ u.ok \in BOOLEAN /\ u.hw \in HwStates
      /\ u.config = IF u.ok THEN new ELSE old
      /\ u.ok /\ sameCombined(new, old) => u.hw = hw[p]
      /\ u.ok /\ ~sameCombined(new, old)
             => u.hw.subscribed /\ u.hw.options = OptionsOf(new)
      /\ ~u.ok => /\ u.hw.subscribed = hw[p].subscribed
                  /\ u.hw.options = hw[p].options
  BY <1>1, <1>4, UpdateResult
<1>. HIDE DEF u, old
<1>10. hw'[p] = u.hw /\ mContSubConfigsByPropIdArea'[p] = u.config
  BY <1>1, <1>6 DEF TypeOK
<1>11. CASE u.ok
  <2>1. u.hw.subscribed /\ u.hw.options = OptionsOf(new)
    BY <1>4, <1>7, <1>9, <1>11, SameOptions
  <2>2. mClientsByPropIdAreaId'[p] = mClientsByPropIdAreaId[p] \cup {call.client}
    BY <1>1, <1>6, <1>11 DEF RecordSubscriber, TypeOK
  <2>. QED
    BY <2>1, <2>2, <1>4, <1>5, <1>6, <1>8, <1>9, <1>10, <1>11 DEF ContinuousServed
<1>12. CASE ~u.ok
  <2>1. mClientsByPropIdAreaId' = mClientsByPropIdAreaId
    BY <1>6, <1>12 DEF RecordSubscriber, books
  <2>. QED
    BY <2>1, <1>1, <1>6, <1>9, <1>10, <1>12, Frame DEF old
<1>. QED
  BY <1>9, <1>11, <1>12

\* addOnChangeSubscriberLocked subscribes the hardware only together with
\* recording the client.
LEMMA AddOnChange ==
    ASSUME TypeOK, "replyLost" \notin HwOutcomes, NEW p \in OnChange,
           OnChangeNotOrphaned(p), NEW o \in HwOutcomes,
           addOnChangeSubscriberLocked(p, o)
    PROVE  OnChangeNotOrphaned(p)'
<1>. DEFINE already == mClientsByPropIdAreaId[p] # {}
<1>1. /\ p \in PropIdAreaIds /\ o \in Outcomes /\ o # "replyLost"
      /\ call.op = "subscribe" /\ hw[p] \in HwStates
  BY SubscriptionAssumption DEF addOnChangeSubscriberLocked, TypeOK, PropIdAreaIds
<1>2. /\ hw' = IF already THEN hw
               ELSE [hw EXCEPT ![p] = HwSubscribe(@, OnChangeOptions, o)]
      /\ RecordSubscriber(p, already \/ o = "ok")
      /\ UNCHANGED configs
  BY DEF addOnChangeSubscriberLocked
<1>3. CASE already \/ o = "ok"
  <2>1. mClientsByPropIdAreaId'[p] = mClientsByPropIdAreaId[p] \cup {call.client}
    BY <1>1, <1>2, <1>3 DEF RecordSubscriber, TypeOK
  <2>2. ~already => mContSubConfigsByPropIdArea[p] = DefaultConfig
    BY DEF OnChangeNotOrphaned
  <2>. QED
    BY <2>1, <2>2, <1>2 DEF OnChangeNotOrphaned, configs
<1>4. CASE ~already /\ o # "ok"
  <2>1. UNCHANGED mClientsByPropIdAreaId
    BY <1>2, <1>4 DEF RecordSubscriber, books
  <2>2. HwSubscribe(hw[p], OnChangeOptions, o) = hw[p]
    BY <1>1, <1>4 DEF HwSubscribe, Applied, Outcomes
  <2>3. hw'[p] = hw[p]
    BY <1>1, <1>2, <2>2 DEF TypeOK
  <2>. QED
    BY <2>1, <2>3, <1>1, <1>2, Frame DEF configs
<1>. QED
  BY <1>3, <1>4
\* unsubscribePropIdAreaIdLocked either leaves this [propId, areaId] as it
\* was, as far as the hardware's subscription goes, or removes the client
\* with one of two updates of the hardware.
LEMMA UnsubscribeCases ==
    ASSUME TypeOK, "replyLost" \notin HwOutcomes, NEW p \in PropIdAreaIds,
           NEW o1 \in HwOutcomes, NEW o2 \in HwOutcomes,
           unsubscribePropIdAreaIdLocked(p, o1, o2)
    PROVE  LET old == mContSubConfigsByPropIdArea[p]
               new == removeClient(old, call.client)
               clients == mClientsByPropIdAreaId[p] \ {call.client}
           IN  /\ call.client \in Clients
               /\ new \in ContSubConfigs
               /\ \/ /\ mContSubConfigsByPropIdArea'[p] = old
                     /\ mClientsByPropIdAreaId'[p] = mClientsByPropIdAreaId[p]
                     /\ hw'[p].subscribed = hw[p].subscribed
                     /\ hw'[p].options = hw[p].options
                     /\ p \in contKeys => p \in contKeys'
                  \/ /\ p \in contKeys
                     /\ mClientsByPropIdAreaId'[p] = clients
                     /\ mContSubConfigsByPropIdArea'[p] =
                            IF clients = {} THEN DefaultConfig ELSE new
                     /\ p \in contKeys' <=> clients # {}
                     /\ sameCombined(new, old) => hw'[p] = hw[p]
                     /\ ~sameCombined(new, old) /\ new.maxSampleRateHz # 0
                          => /\ hw'[p].subscribed
                             /\ hw'[p].options = OptionsOf(new)
                     /\ ~sameCombined(new, old) /\ new.maxSampleRateHz = 0
                          => ~hw'[p].subscribed
                  \/ /\ p \notin contKeys /\ mClientsByPropIdAreaId[p] # {}
                     /\ mClientsByPropIdAreaId'[p] = clients
                     /\ mContSubConfigsByPropIdArea'[p] =
                            IF clients = {} THEN DefaultConfig ELSE old
                     /\ \/ Several(mClientsByPropIdAreaId[p]) /\ hw'[p] = hw[p]
                        \/ ~hw'[p].subscribed
<1>. DEFINE old == mContSubConfigsByPropIdArea[p]
            new == removeClient(old, call.client)
            clients == mClientsByPropIdAreaId[p] \ {call.client}
            u == updateContSubConfigsLocked(p, new, o1, o2)
            r == removeOnChangeSubscriberLocked(p, o2)
<1>1. /\ o1 \in Outcomes /\ o2 \in Outcomes
      /\ o1 # "replyLost" /\ o2 # "replyLost"
      /\ call.op # "idle" /\ old \in ContSubConfigs /\ hw[p] \in HwStates
  BY SubscriptionAssumption DEF unsubscribePropIdAreaIdLocked, TypeOK
<1>2. call.client \in Clients
  BY <1>1, CallType DEF TypeOK
<1>3. new \in ContSubConfigs
  BY <1>1, <1>2, ConfigType
<1>4. \/ UNCHANGED <<mClientsByPropIdAreaId, configs, hw>>
      \/ /\ p \in contKeys \/ mClientsByPropIdAreaId[p] # {}
         /\ hw' = [hw EXCEPT ![p] = IF p \in contKeys THEN u.hw ELSE r.hw]
         /\ \/ /\ IF p \in contKeys THEN u.ok ELSE r.ok
               /\ EraseClient(p, IF p \in contKeys THEN u.config ELSE old)
            \/ /\ ~IF p \in contKeys THEN u.ok ELSE r.ok
               /\ UNCHANGED <<books, configs>>
  BY Zenon DEF unsubscribePropIdAreaIdLocked
<1>. HIDE DEF new, old
<1>5. /\ u.ok \in BOOLEAN /\ u.hw \in HwStates
      /\ u.config = IF u.ok THEN new ELSE old
      /\ u.ok /\ sameCombined(new, old) => u.hw = hw[p]
      /\ u.ok /\ ~sameCombined(new, old) /\ new.maxSampleRateHz # 0
             => u.hw.subscribed /\ u.hw.options = OptionsOf(new)
      /\ u.ok /\ ~sameCombined(new, old) /\ new.maxSampleRateHz = 0
             => ~u.hw.subscribed
      /\ ~u.ok => /\ u.hw.subscribed = hw[p].subscribed
                  /\ u.hw.options = hw[p].options
  BY <1>1, <1>3, UpdateResult DEF old
<1>6. /\ ~r.ok => r.hw = hw[p]
      /\ r.ok => \/ Several(mClientsByPropIdAreaId[p]) /\ r.hw = hw[p]
                 \/ ~r.hw.subscribed
  <2>. HIDE DEF r
  <2>1. CASE Several(mClientsByPropIdAreaId[p])
    BY <2>1 DEF r, removeOnChangeSubscriberLocked
  <2>2. CASE ~Several(mClientsByPropIdAreaId[p])
    <3>1. r = [ok |-> o2 = "ok", hw |-> HwUnsubscribe(hw[p], o2)]
      BY <2>2 DEF r, removeOnChangeSubscriberLocked
    <3>2. CASE o2 = "ok"
      <4>1. ~HwUnsubscribe(hw[p], o2).subscribed
        BY <3>2, <1>1 DEF HwUnsubscribe, Applied, HwStates
      <4>2. r.hw = HwUnsubscribe(hw[p], o2) /\ r.ok = TRUE
        BY <3>1, <3>2
      <4>. QED
        BY <4>1, <4>2, Zenon
    <3>3. CASE o2 = "rejected"
      <4>1. r.hw = hw[p] /\ r.ok = FALSE
        BY <3>1, <3>3 DEF HwUnsubscribe, Applied
      <4>. QED
        BY <4>1, Zenon
    <3>. QED
      BY <3>2, <3>3, <1>1 DEF Outcomes
  <2>. QED
    BY <2>1, <2>2
<1>. HIDE DEF u, r
<1>7. CASE UNCHANGED <<mClientsByPropIdAreaId, configs, hw>>
  BY <1>2, <1>3, <1>7 DEF old, new, configs
<1>8. CASE /\ hw' = [hw EXCEPT ![p] = IF p \in contKeys THEN u.hw ELSE r.hw]
           /\ ~IF p \in contKeys THEN u.ok ELSE r.ok
           /\ UNCHANGED <<books, configs>>
  <2>1. hw'[p] = IF p \in contKeys THEN u.hw ELSE r.hw
    BY <1>8 DEF TypeOK
  <2>2. hw'[p].subscribed = hw[p].subscribed /\ hw'[p].options = hw[p].options
    BY <2>1, <1>5, <1>6, <1>8
  <2>. QED
    BY <2>2, <1>2, <1>3, <1>8 DEF old, new, configs, books
<1>9. CASE /\ p \in contKeys \/ mClientsByPropIdAreaId[p] # {}
           /\ hw' = [hw EXCEPT ![p] = IF p \in contKeys THEN u.hw ELSE r.hw]
           /\ IF p \in contKeys THEN u.ok ELSE r.ok
           /\ EraseClient(p, IF p \in contKeys THEN u.config ELSE old)
  <2>1. /\ hw'[p] = IF p \in contKeys THEN u.hw ELSE r.hw
        /\ mClientsByPropIdAreaId'[p] = clients
        /\ mContSubConfigsByPropIdArea'[p] =
               IF clients = {} THEN DefaultConfig
               ELSE IF p \in contKeys THEN u.config ELSE old
        /\ contKeys' = IF clients = {} THEN contKeys \ {p} ELSE contKeys
    BY <1>9 DEF EraseClient, TypeOK
  <2>. HIDE DEF clients
  <2>2. CASE p \in contKeys
    <3>1. /\ sameCombined(new, old) => hw'[p] = hw[p]
          /\ ~sameCombined(new, old) /\ new.maxSampleRateHz # 0
                 => hw'[p].subscribed /\ hw'[p].options = OptionsOf(new)
          /\ ~sameCombined(new, old) /\ new.maxSampleRateHz = 0
                 => ~hw'[p].subscribed
      BY <2>1, <2>2, <1>5, <1>9
    <3>2. /\ mContSubConfigsByPropIdArea'[p] =
                 IF clients = {} THEN DefaultConfig ELSE new
          /\ p \in contKeys' <=> clients # {}
      BY <2>1, <2>2, <1>5, <1>9
    <3>. QED
      BY <3>1, <3>2, <2>1, <2>2, <1>2, <1>3 DEF old, new, clients
  <2>3. CASE p \notin contKeys
    <3>1. \/ Several(mClientsByPropIdAreaId[p]) /\ hw'[p] = hw[p]
          \/ ~hw'[p].subscribed
      BY <2>1, <2>3, <1>6, <1>9
    <3>. QED
      BY <3>1, <2>1, <2>3, <1>2, <1>3, <1>9 DEF old, new, clients
  <2>. QED
    BY <2>2, <2>3
<1>. QED
  BY <1>4, <1>7, <1>8, <1>9
\* Unsubscribing leaves the hardware serving the clients that remain, and
\* unsubscribed when none does.
LEMMA UnsubscribeContinuous ==
    ASSUME TypeOK, "replyLost" \notin HwOutcomes, NEW p \in Continuous,
           ContinuousServed(p), NEW o1 \in HwOutcomes, NEW o2 \in HwOutcomes,
           unsubscribePropIdAreaIdLocked(p, o1, o2)
    PROVE  ContinuousServed(p)'
<1>. DEFINE old == mContSubConfigsByPropIdArea[p]
            f == [old.configByClient EXCEPT ![call.client] = NoConfig]
            new == removeClient(old, call.client)
            clients == mClientsByPropIdAreaId[p] \ {call.client}
<1>1. /\ p \in PropIdAreaIds /\ old \in ContSubConfigs
      /\ mClientsByPropIdAreaId[p] \subseteq Clients
  BY DEF TypeOK, PropIdAreaIds
<1>2. \/ /\ mContSubConfigsByPropIdArea'[p] = old
         /\ mClientsByPropIdAreaId'[p] = mClientsByPropIdAreaId[p]
         /\ hw'[p].subscribed = hw[p].subscribed
         /\ hw'[p].options = hw[p].options
         /\ p \in contKeys => p \in contKeys'
      \/ /\ p \in contKeys
         /\ mClientsByPropIdAreaId'[p] = clients
         /\ mContSubConfigsByPropIdArea'[p] =
                IF clients = {} THEN DefaultConfig ELSE new
         /\ p \in contKeys' <=> clients # {}
         /\ sameCombined(new, old) => hw'[p] = hw[p]
         /\ ~sameCombined(new, old) /\ new.maxSampleRateHz # 0
              => hw'[p].subscribed /\ hw'[p].options = OptionsOf(new)
         /\ ~sameCombined(new, old) /\ new.maxSampleRateHz = 0
              => ~hw'[p].subscribed
  BY <1>1, UnsubscribeCases DEF ContinuousServed
<1>3. call.client \in Clients
  BY <1>1, UnsubscribeCases
<1>4. f \in ConfigsByClient /\ new = refreshCombinedConfig(f)
  BY <1>1, <1>3, ConfigType DEF removeClient
<1>5. \A c \in Clients : f[c] # NoConfig <=> c \in clients
  <2>1. old.configByClient \in ConfigsByClient
    BY <1>1 DEF ContSubConfigs, ConfigsByClient
  <2>. QED
    BY <1>3, <2>1 DEF ContinuousServed, ConfigsByClient
<1>6. /\ new.configByClient = f
      /\ clients # {} => new.maxSampleRateHz # 0
      /\ clients = {} => new.maxSampleRateHz = 0
  <2>1. clients \subseteq Clients
    BY <1>1
  <2>. HIDE DEF f, new, clients
  <2>2. clients # {} => \E c \in Clients : f[c] # NoConfig
    BY <2>1, <1>5
  <2>3. clients = {} => \A c \in Clients : f[c] = NoConfig
    BY <1>5
  <2>. QED
    BY <2>2, <2>3, <1>4, Combined
<1>7. old.maxSampleRateHz # 0 <=> mClientsByPropIdAreaId[p] # {}
  BY <1>1, ServedRate
<1>8. IF mClientsByPropIdAreaId[p] = {} THEN ~hw[p].subscribed
      ELSE hw[p].subscribed /\ hw[p].options = OptionsOf(old)
  BY DEF ContinuousServed
<1>9. CASE /\ mContSubConfigsByPropIdArea'[p] = old
           /\ mClientsByPropIdAreaId'[p] = mClientsByPropIdAreaId[p]
           /\ hw'[p].subscribed = hw[p].subscribed
           /\ hw'[p].options = hw[p].options
           /\ p \in contKeys => p \in contKeys'
  BY <1>1, <1>9, Frame
<1>10. CASE /\ p \in contKeys
            /\ mClientsByPropIdAreaId'[p] = clients
            /\ mContSubConfigsByPropIdArea'[p] =
                   IF clients = {} THEN DefaultConfig ELSE new
            /\ p \in contKeys' <=> clients # {}
            /\ sameCombined(new, old) => hw'[p] = hw[p]
            /\ ~sameCombined(new, old) /\ new.maxSampleRateHz # 0
                 => hw'[p].subscribed /\ hw'[p].options = OptionsOf(new)
            /\ ~sameCombined(new, old) /\ new.maxSampleRateHz = 0
                 => ~hw'[p].subscribed
  <2>. HIDE DEF new, f, clients, old
  <2>1. CASE clients = {}
    <3>1. ~hw'[p].subscribed
      BY <2>1, <1>6, <1>7, <1>8, <1>10, SameOptions
    <3>. QED
      BY <2>1, <3>1, <1>10, EmptyConfigs DEF ContinuousServed
  <2>2. CASE clients # {}
    <3>1. hw'[p].subscribed /\ hw'[p].options = OptionsOf(new)
      BY <2>2, <1>6, <1>7, <1>8, <1>10, SameOptions
    <3>2. mContSubConfigsByPropIdArea'[p] = new
      BY <2>2, <1>10
    <3>3. new = refreshCombinedConfig(new.configByClient)
      BY <1>4, <1>6
    <3>. QED
      BY <2>2, <3>1, <3>2, <3>3, <1>5, <1>6, <1>10 DEF ContinuousServed
  <2>. QED
    BY <2>1, <2>2
<1>. QED
  BY <1>2, <1>9, <1>10

\* The last client that leaves an on-change [propId, areaId] takes the
\* hardware's subscription with it.
LEMMA UnsubscribeOnChange ==
    ASSUME TypeOK, "replyLost" \notin HwOutcomes, NEW p \in OnChange,
           OnChangeNotOrphaned(p), NEW o1 \in HwOutcomes, NEW o2 \in HwOutcomes,
           unsubscribePropIdAreaIdLocked(p, o1, o2)
    PROVE  OnChangeNotOrphaned(p)'
<1>. DEFINE old == mContSubConfigsByPropIdArea[p]
            new == removeClient(old, call.client)
            clients == mClientsByPropIdAreaId[p] \ {call.client}
<1>1. p \in PropIdAreaIds
  BY DEF PropIdAreaIds
<1>2. call.client \in Clients
  BY <1>1, UnsubscribeCases
<1>3. /\ old = DefaultConfig \/ (old = EmptyConfig /\ ~hw[p].subscribed)
      /\ new = EmptyConfig
  <2>1. old = DefaultConfig \/ (old = EmptyConfig /\ ~hw[p].subscribed)
    BY DEF OnChangeNotOrphaned
  <2>2. /\ removeClient(DefaultConfig, call.client) = EmptyConfig
        /\ removeClient(EmptyConfig, call.client) = EmptyConfig
    BY <1>2, EmptyConfigs
  <2>. QED
    BY <2>1, <2>2, Zenon
<1>4. CASE /\ mContSubConfigsByPropIdArea'[p] = old
           /\ mClientsByPropIdAreaId'[p] = mClientsByPropIdAreaId[p]
           /\ hw'[p].subscribed = hw[p].subscribed
           /\ hw'[p].options = hw[p].options
           /\ p \in contKeys => p \in contKeys'
  BY <1>1, <1>4, Frame
<1>5. CASE /\ p \in contKeys
           /\ mClientsByPropIdAreaId'[p] = clients
           /\ mContSubConfigsByPropIdArea'[p] =
                  IF clients = {} THEN DefaultConfig ELSE new
           /\ sameCombined(new, old) => hw'[p] = hw[p]
           /\ ~sameCombined(new, old) /\ new.maxSampleRateHz = 0
                => ~hw'[p].subscribed
  <2>1. ~hw'[p].subscribed
    <3>1. sameCombined(new, old) => old = EmptyConfig
      BY <1>3, EmptyConfigs, SameOptions
    <3>2. new.maxSampleRateHz = 0
      BY <1>3, EmptyConfigs
    <3>. QED
      BY <3>1, <3>2, <1>3, <1>5, EmptyConfigs, SameOptions
  <2>. QED
    BY <2>1, <1>3, <1>5 DEF OnChangeNotOrphaned
<1>6. CASE /\ p \notin contKeys /\ mClientsByPropIdAreaId[p] # {}
           /\ mClientsByPropIdAreaId'[p] = clients
           /\ mContSubConfigsByPropIdArea'[p] =
                  IF clients = {} THEN DefaultConfig ELSE old
           /\ \/ Several(mClientsByPropIdAreaId[p]) /\ hw'[p] = hw[p]
              \/ ~hw'[p].subscribed
  <2>1. Several(mClientsByPropIdAreaId[p]) => clients # {}
    BY DEF Several
  <2>2. CASE clients = {}
    BY <2>1, <2>2, <1>6 DEF OnChangeNotOrphaned
  <2>3. CASE clients # {}
    BY <2>3, <1>3, <1>6 DEF OnChangeNotOrphaned
  <2>. QED
    BY <2>2, <2>3
<1>7. \/ /\ mContSubConfigsByPropIdArea'[p] = old
         /\ mClientsByPropIdAreaId'[p] = mClientsByPropIdAreaId[p]
         /\ hw'[p].subscribed = hw[p].subscribed
         /\ hw'[p].options = hw[p].options
         /\ p \in contKeys => p \in contKeys'
      \/ /\ p \in contKeys
         /\ mClientsByPropIdAreaId'[p] = clients
         /\ mContSubConfigsByPropIdArea'[p] =
                IF clients = {} THEN DefaultConfig ELSE new
         /\ sameCombined(new, old) => hw'[p] = hw[p]
         /\ ~sameCombined(new, old) /\ new.maxSampleRateHz = 0
              => ~hw'[p].subscribed
      \/ /\ p \notin contKeys /\ mClientsByPropIdAreaId[p] # {}
         /\ mClientsByPropIdAreaId'[p] = clients
         /\ mContSubConfigsByPropIdArea'[p] =
                IF clients = {} THEN DefaultConfig ELSE old
         /\ \/ Several(mClientsByPropIdAreaId[p]) /\ hw'[p] = hw[p]
            \/ ~hw'[p].subscribed
  BY <1>1, UnsubscribeCases
<1>. QED
  BY <1>4, <1>5, <1>6, <1>7
----------------------------------------------------------------------------
(* Theorems.                                                               *)

\* Every method keeps the hardware in line with the clients, [propId,
\* areaId] by [propId, areaId].
THEOREM HwInvariant ==
    ASSUME "replyLost" \notin HwOutcomes
    PROVE  Spec => []HwInv
<1>1. Init => HwInv
  <2>. SUFFICES ASSUME Init PROVE HwInv
    OBVIOUS
  <2>1. \A p \in PropIdAreaIds : /\ mClientsByPropIdAreaId[p] = {}
                                /\ mContSubConfigsByPropIdArea[p] = DefaultConfig
                                /\ ~hw[p].subscribed
    BY DEF Init
  <2>. QED
    BY <2>1, EmptyConfigs
       DEF HwInv, ContinuousServed, OnChangeNotOrphaned, PropIdAreaIds
<1>2. TypeOK /\ HwInv /\ [Next]_vars => HwInv'
  <2>. SUFFICES ASSUME TypeOK, HwInv, [Next]_vars PROVE HwInv'
    OBVIOUS
  <2>. USE DEF books, configs, supported
  <2>0. /\ OnChange \subseteq PropIdAreaIds /\ Continuous \subseteq PropIdAreaIds
        /\ \A p \in Continuous : p \notin OnChange
    BY SubscriptionAssumption DEF PropIdAreaIds
  <2>1. ASSUME NEW p \in PropIdAreaIds,
               p \in Continuous => ContinuousServed(p)',
               p \in OnChange => OnChangeNotOrphaned(p)',
               \A q \in PropIdAreaIds \ {p} :
                   /\ mContSubConfigsByPropIdArea'[q] =
                          mContSubConfigsByPropIdArea[q]
                   /\ mClientsByPropIdAreaId'[q] = mClientsByPropIdAreaId[q]
                   /\ hw'[q] = hw[q]
                   /\ q \in contKeys => q \in contKeys'
        PROVE  HwInv'
    <3>1. ASSUME NEW q \in Continuous PROVE ContinuousServed(q)'
      BY <2>0, <2>1, Frame DEF HwInv
    <3>2. ASSUME NEW q \in OnChange PROVE OnChangeNotOrphaned(q)'
      BY <2>0, <2>1, Frame DEF HwInv
    <3>. QED
      BY <3>1, <3>2 DEF HwInv
  <2>2. ASSUME UNCHANGED <<mClientsByPropIdAreaId, mContSubConfigsByPropIdArea, hw>>,
               contKeys \subseteq contKeys'
        PROVE  HwInv'
    BY <2>0, <2>2, Frame DEF HwInv
  <2>3. ASSUME NEW p \in OnChange, NEW o \in HwOutcomes,
               addOnChangeSubscriberLocked(p, o)
        PROVE  HwInv'
    <3>1. OnChangeNotOrphaned(p)'
      BY <2>3, AddOnChange DEF HwInv
    <3>2. \A q \in PropIdAreaIds \ {p} :
              /\ mClientsByPropIdAreaId'[q] = mClientsByPropIdAreaId[q]
              /\ hw'[q] = hw[q]
      BY <2>3 DEF addOnChangeSubscriberLocked, RecordSubscriber, TypeOK
    <3>3. UNCHANGED configs
      BY <2>3 DEF addOnChangeSubscriberLocked
    <3>. QED
      BY <2>0, <2>1, <3>1, <3>2, <3>3
  <2>4. ASSUME NEW p \in Continuous, NEW o1 \in HwOutcomes, NEW o2 \in HwOutcomes,
               addContinuousSubscriberLocked(p, o1, o2)
        PROVE  HwInv'
    <3>1. ContinuousServed(p)'
      BY <2>4, AddContinuous DEF HwInv
    <3>2. \A q \in PropIdAreaIds \ {p} :
              /\ mClientsByPropIdAreaId'[q] = mClientsByPropIdAreaId[q]
              /\ mContSubConfigsByPropIdArea'[q] = mContSubConfigsByPropIdArea[q]
              /\ hw'[q] = hw[q]
      BY <2>4 DEF addContinuousSubscriberLocked, RecordSubscriber, TypeOK
    <3>3. contKeys' = contKeys \cup {p}
      BY <2>4 DEF addContinuousSubscriberLocked
    <3>. QED
      BY <2>0, <2>1, <3>1, <3>2, <3>3
  <2>5. ASSUME NEW p \in PropIdAreaIds, NEW o1 \in HwOutcomes, NEW o2 \in HwOutcomes,
               unsubscribePropIdAreaIdLocked(p, o1, o2)
        PROVE  HwInv'
    <3>1. p \in Continuous => ContinuousServed(p)'
      BY <2>5, UnsubscribeContinuous DEF HwInv
    <3>2. p \in OnChange => OnChangeNotOrphaned(p)'
      BY <2>5, UnsubscribeOnChange DEF HwInv
    <3>3. \A q \in PropIdAreaIds \ {p} :
              /\ mClientsByPropIdAreaId'[q] = mClientsByPropIdAreaId[q]
              /\ mContSubConfigsByPropIdArea'[q] = mContSubConfigsByPropIdArea[q]
              /\ hw'[q] = hw[q]
              /\ q \in contKeys => q \in contKeys'
      BY <2>5 DEF unsubscribePropIdAreaIdLocked, EraseClient, TypeOK
    <3>. QED
      BY <2>1, <3>1, <3>2, <3>3
  <2>6. ASSUME NEW p, getSubscribedClients(p) PROVE HwInv'
    BY <2>2, <2>6 DEF getSubscribedClients
  <2>7. ASSUME NEW o, UnsubscribeAllReturn(o) PROVE HwInv'
    BY <2>2, <2>7 DEF UnsubscribeAllReturn
  <2>8. ASSUME NEW c, NEW ps, NEW o,
               \/ subscribeSupportedValueChange(c, ps, o)
               \/ unsubscribeSupportedValueChange(c, ps, o)
        PROVE  HwInv'
    BY <2>2, <2>8 DEF subscribeSupportedValueChange, unsubscribeSupportedValueChange
  <2>9. ASSUME UNCHANGED <<books, configs, supported, hw>> PROVE HwInv'
    BY <2>2, <2>9
  <2>10. ASSUME NEW c, NEW ps, NEW config, Subscribe(c, ps, config) PROVE HwInv'
    BY <2>9, <2>10 DEF Subscribe
  <2>11. ASSUME NEW c, NEW ids, Unsubscribe(c, ids) PROVE HwInv'
    BY <2>9, <2>11 DEF Unsubscribe
  <2>12. ASSUME NEW c, UnsubscribeAll(c) PROVE HwInv'
    BY <2>9, <2>12 DEF UnsubscribeAll
  <2>13. ASSUME Return PROVE HwInv'
    BY <2>9, <2>13 DEF Return
  <2>14. ASSUME UNCHANGED vars PROVE HwInv'
    BY <2>9, <2>14 DEF vars
  <2>. QED
    BY <2>3, <2>4, <2>5, <2>6, <2>7, <2>8, <2>10, <2>11, <2>12, <2>13, <2>14
       DEF Next
<1>. QED
  BY <1>1, <1>2, TypeCorrect, PTL DEF Spec

\* For a continuous [propId, areaId] the hardware serves exactly what its
\* clients together need, as long as a call that fails was not applied.
THEOREM ContinuousClientsServed ==
    ASSUME "replyLost" \notin HwOutcomes
    PROVE  Spec => []HwServesContinuousClients
<1>1. TypeOK /\ HwInv => HwServesContinuousClients
  <2>. SUFFICES ASSUME TypeOK, HwInv, NEW p \in Continuous,
                       mClientsByPropIdAreaId[p] # {}
                PROVE  LET served == hw[p].options
                           clients == mClientsByPropIdAreaId[p]
                           config == mContSubConfigsByPropIdArea[p].configByClient
                       IN  /\ hw[p].subscribed
                           /\ \A c \in clients :
                                 /\ config[c] # NoConfig
                                 /\ served.sampleRate >= config[c].sampleRateHz
                                 /\ served.resolution =< config[c].resolution
                                 /\ served.enableVur => config[c].enableVur
                           /\ \E c \in clients :
                                 served.sampleRate = config[c].sampleRateHz
                           /\ \E c \in clients :
                                 served.resolution = config[c].resolution
                           /\ \/ served.enableVur
                              \/ \E c \in clients : ~config[c].enableVur
    BY Zenon DEF HwServesContinuousClients
  <2>. DEFINE clients == mClientsByPropIdAreaId[p]
              m == mContSubConfigsByPropIdArea[p]
              f == m.configByClient
              served == hw[p].options
  <2>1. p \in PropIdAreaIds /\ clients \subseteq Clients /\ m \in ContSubConfigs
    BY DEF PropIdAreaIds, TypeOK
  <2>2. f \in ConfigsByClient
    BY <2>1 DEF ContSubConfigs, ConfigsByClient
  <2>3. /\ \A c \in Clients : f[c] # NoConfig <=> c \in clients
        /\ m = refreshCombinedConfig(f)
        /\ hw[p].subscribed
        /\ served = OptionsOf(m)
    BY DEF HwInv, ContinuousServed
  <2>4. /\ served.sampleRate = m.maxSampleRateHz
        /\ served.resolution = m.minRequiredResolution
        /\ served.enableVur = m.enableVur
    BY <2>3 DEF OptionsOf
  <2>5. \E c \in Clients : f[c] # NoConfig
    BY <2>1, <2>3
  <2>. HIDE DEF f
  <2>6. /\ \A c \in Clients : f[c] # NoConfig =>
               /\ m.maxSampleRateHz >= f[c].sampleRateHz
               /\ m.minRequiredResolution =< f[c].resolution
               /\ m.enableVur => f[c].enableVur
        /\ \E c \in Clients : f[c] # NoConfig /\ m.maxSampleRateHz = f[c].sampleRateHz
        /\ \E c \in Clients : f[c] # NoConfig /\ m.minRequiredResolution = f[c].resolution
        /\ m.enableVur \/ \E c \in Clients : f[c] # NoConfig /\ ~f[c].enableVur
    BY <2>2, <2>3, <2>5, Combined
  <2>. HIDE DEF m, served, clients
  <2>7. /\ \A c \in clients :
               /\ f[c] # NoConfig
               /\ served.sampleRate >= f[c].sampleRateHz
               /\ served.resolution =< f[c].resolution
               /\ served.enableVur => f[c].enableVur
        /\ \E c \in clients : served.sampleRate = f[c].sampleRateHz
        /\ \E c \in clients : served.resolution = f[c].resolution
        /\ served.enableVur \/ \E c \in clients : ~f[c].enableVur
    BY <2>1, <2>3, <2>4, <2>6
  <2>. QED
    BY <2>3, <2>7 DEF f, m, served, clients
<1>. QED
  BY <1>1, HwInvariant, TypeCorrect, PTL

\* The hardware is never left subscribed to what no client wants, as long
\* as a call that fails was not applied.
THEOREM NoOrphans ==
    ASSUME "replyLost" \notin HwOutcomes
    PROVE  Spec => []NoOrphanHwSubscription
<1>1. HwInv => NoOrphanHwSubscription
  BY DEF HwInv, NoOrphanHwSubscription, ContinuousServed, OnChangeNotOrphaned,
         PropIdAreaIds
<1>. QED
  BY <1>1, HwInvariant, PTL
\* The two maps of supported value changes stay each other's inverse and the
\* hardware stays in line with them, also when a client dies while calls are
\* rejected.
THEOREM SupportedValuesAgree ==
    ASSUME "replyLost" \notin HwOutcomes
    PROVE  Spec => []SupportedValueBooksAgree
<1>1. Init => SupportedValueBooksAgree
  BY DEF Init, SupportedValueBooksAgree
<1>2. TypeOK /\ SupportedValueBooksAgree /\ [Next]_vars
        => SupportedValueBooksAgree'
  <2>. SUFFICES ASSUME TypeOK, SupportedValueBooksAgree, [Next]_vars
                PROVE  SupportedValueBooksAgree'
    OBVIOUS
  <2>. USE DEF books, configs, supported
  <2>0. \A o \in HwOutcomes : Applied(o) <=> o = "ok"
    BY SubscriptionAssumption DEF Outcomes, Applied
  <2>1. ASSUME UNCHANGED supported PROVE SupportedValueBooksAgree'
    BY <2>1 DEF SupportedValueBooksAgree
  <2>2. ASSUME NEW c \in Clients, NEW ps \in SUBSET SupportedProps,
               NEW o \in HwOutcomes, subscribeSupportedValueChange(c, ps, o)
        PROVE  SupportedValueBooksAgree'
    <3>1. CASE o = "ok"
      <4>1. /\ mSupportedValueChangeClientsByPropIdAreaId' =
                  [p \in SupportedProps |->
                      IF p \in ps
                      THEN mSupportedValueChangeClientsByPropIdAreaId[p] \cup {c}
                      ELSE mSupportedValueChangeClientsByPropIdAreaId[p]]
            /\ mSupportedValueChangePropIdAreaIdsByClient' =
                  [mSupportedValueChangePropIdAreaIdsByClient EXCEPT
                       ![c] = @ \cup ps]
            /\ hwSupported' = hwSupported \cup ps
        BY <2>0, <2>2, <3>1 DEF subscribeSupportedValueChange
      <4>. QED
        BY <4>1 DEF SupportedValueBooksAgree, TypeOK
    <3>2. CASE o # "ok"
      BY <2>0, <2>1, <2>2, <3>2 DEF subscribeSupportedValueChange
    <3>. QED
      BY <3>1, <3>2
  <2>3. ASSUME NEW c \in Clients, NEW ps \in SUBSET SupportedProps,
               NEW o \in HwOutcomes,
               unsubscribeSupportedValueChangeLocked(c, ps, o)
        PROVE  SupportedValueBooksAgree'
    <3>. DEFINE gone == {p \in ps :
                            mSupportedValueChangeClientsByPropIdAreaId[p] = {c}}
    <3>1. CASE gone = {} \/ o = "ok"
      <4>1. /\ mSupportedValueChangeClientsByPropIdAreaId' =
                  [p \in SupportedProps |->
                      IF p \in ps
                      THEN mSupportedValueChangeClientsByPropIdAreaId[p] \ {c}
                      ELSE mSupportedValueChangeClientsByPropIdAreaId[p]]
            /\ mSupportedValueChangePropIdAreaIdsByClient' =
                  [mSupportedValueChangePropIdAreaIdsByClient EXCEPT ![c] = @ \ ps]
            /\ hwSupported' = hwSupported \ gone
        BY <2>0, <2>3, <3>1 DEF unsubscribeSupportedValueChangeLocked
      <4>2. \A d \in Clients, p \in SupportedProps :
                d \in mSupportedValueChangeClientsByPropIdAreaId'[p]
                  <=> p \in mSupportedValueChangePropIdAreaIdsByClient'[d]
        BY <4>1 DEF SupportedValueBooksAgree, TypeOK
      <4>3. hwSupported' =
                {p \in SupportedProps :
                    mSupportedValueChangeClientsByPropIdAreaId'[p] # {}}
        BY <4>1 DEF SupportedValueBooksAgree, TypeOK
      <4>. QED
        BY <4>2, <4>3 DEF SupportedValueBooksAgree
    <3>2. CASE ~(gone = {} \/ o = "ok")
      BY <2>0, <2>1, <2>3, <3>2 DEF unsubscribeSupportedValueChangeLocked
    <3>. QED
      BY <3>1, <3>2
  <2>4. ASSUME NEW c \in Clients, NEW ps \in SUBSET SupportedProps,
               NEW o \in HwOutcomes, unsubscribeSupportedValueChange(c, ps, o)
        PROVE  SupportedValueBooksAgree'
    BY <2>3, <2>4 DEF unsubscribeSupportedValueChange
  <2>5. ASSUME NEW o \in HwOutcomes, UnsubscribeAllReturn(o)
        PROVE  SupportedValueBooksAgree'
    <3>1. call.client \in Clients
      BY <2>5, CallType DEF UnsubscribeAllReturn, TypeOK
    <3>2. mSupportedValueChangePropIdAreaIdsByClient[call.client]
              \in SUBSET SupportedProps
      BY <3>1 DEF TypeOK
    <3>. QED
      BY <2>3, <2>5, <3>1, <3>2 DEF UnsubscribeAllReturn
  <2>6. ASSUME NEW p, NEW o1, NEW o2,
               \/ addOnChangeSubscriberLocked(p, o1)
               \/ addContinuousSubscriberLocked(p, o1, o2)
               \/ unsubscribePropIdAreaIdLocked(p, o1, o2)
               \/ getSubscribedClients(p)
        PROVE  SupportedValueBooksAgree'
    BY <2>1, <2>6, Zenon
       DEF addOnChangeSubscriberLocked, addContinuousSubscriberLocked,
           unsubscribePropIdAreaIdLocked, getSubscribedClients
  <2>7. ASSUME NEW c, NEW ps, NEW config,
               \/ Subscribe(c, ps, config)
               \/ Unsubscribe(c, ps)
               \/ UnsubscribeAll(c)
               \/ Return
        PROVE  SupportedValueBooksAgree'
    BY <2>1, <2>7 DEF Subscribe, Unsubscribe, UnsubscribeAll, Return
  <2>8. ASSUME UNCHANGED vars PROVE SupportedValueBooksAgree'
    BY <2>1, <2>8 DEF vars
  <2>. QED
    BY <2>2, <2>4, <2>5, <2>6, <2>7, <2>8 DEF Next
<1>. QED
  BY <1>1, <1>2, TypeCorrect, PTL DEF Spec
----------------------------------------------------------------------------
(* On-change clients, when the hardware does not fail.                     *)

\* What is left to unsubscribe belongs to the client; a client's list names
\* what it is subscribed to, but for the part of unsubscribe(client) that is
\* done, which is erased at the end only.
ListsInv ==
    /\ \A c \in Clients : \A p \in mSubscribedPropsByClient[c] :
          \/ c \in mClientsByPropIdAreaId[p]
          \/ call.op = "unsubscribeAll" /\ call.client = c /\ p \notin call.todo
    /\ call.op \in {"unsubscribe", "unsubscribeAll"} =>
          \A p \in call.todo : call.client \in mClientsByPropIdAreaId[p]

\* Recording a subscriber keeps the lists in line.
LEMMA RecordedLists ==
    ASSUME TypeOK, ListsInv, NEW p \in PropIdAreaIds, NEW ok,
           call.op = "subscribe", RecordSubscriber(p, ok)
    PROVE  /\ ListsInv'
           /\ \A q \in PropIdAreaIds \ {p} :
                 mClientsByPropIdAreaId'[q] = mClientsByPropIdAreaId[q]
<1>1. call.client \in Clients /\ call \in Calls
  BY CallType DEF TypeOK
<1>2. CASE ok
  <2>1. /\ mSubscribedPropsByClient' =
              [mSubscribedPropsByClient EXCEPT ![call.client] = @ \cup {p}]
        /\ mClientsByPropIdAreaId' =
              [mClientsByPropIdAreaId EXCEPT ![p] = @ \cup {call.client}]
        /\ call' = [call EXCEPT !.todo = @ \ {p}]
    BY <1>2 DEF RecordSubscriber
  <2>2. call'.op = "subscribe"
    BY <1>1, <2>1 DEF Calls, Idle
  <2>. QED
    BY <1>1, <2>1, <2>2 DEF ListsInv, TypeOK
<1>3. CASE ~ok
  <2>1. call' = Idle /\ UNCHANGED books
    BY <1>3 DEF RecordSubscriber
  <2>2. call'.op = "idle"
    BY <2>1 DEF Idle
  <2>. QED
    BY <2>1, <2>2 DEF ListsInv, books
<1>. QED
  BY <1>2, <1>3

\* Without failures unsubscribePropIdAreaIdLocked erases the client, and the
\* hardware's subscription only with the last one.
LEMMA UnsubscribedOnce ==
    ASSUME HwOutcomes = {"ok"}, TypeOK, ListsInv, NEW p \in PropIdAreaIds,
           NEW o1 \in HwOutcomes, NEW o2 \in HwOutcomes,
           unsubscribePropIdAreaIdLocked(p, o1, o2)
    PROVE  /\ ListsInv'
           /\ mClientsByPropIdAreaId' =
                 [mClientsByPropIdAreaId EXCEPT ![p] = @ \ {call.client}]
           /\ mClientsByPropIdAreaId'[p] # {} =>
                 (p \in contKeys' <=> p \in contKeys)
           /\ p \notin contKeys /\ mClientsByPropIdAreaId'[p] # {} => hw'[p] = hw[p]
           /\ \A q \in PropIdAreaIds \ {p} :
                 hw'[q] = hw[q] /\ (q \in contKeys' <=> q \in contKeys)
<1>. DEFINE old == mContSubConfigsByPropIdArea[p]
            update == updateContSubConfigsLocked(
                          p, removeClient(old, call.client), o1, o2)
            remove == removeOnChangeSubscriberLocked(p, o2)
            ok == IF p \in contKeys THEN update.ok ELSE remove.ok
            config == IF p \in contKeys THEN update.config ELSE old
<1>1. /\ call.op \in {"unsubscribe", "unsubscribeAll"} /\ p \in call.todo
      /\ o1 = "ok" /\ o2 = "ok"
  BY DEF unsubscribePropIdAreaIdLocked
<1>2. call.client \in Clients /\ call.client \in mClientsByPropIdAreaId[p]
  BY <1>1, CallType DEF TypeOK, ListsInv
<1>3. /\ hw' = [hw EXCEPT ![p] = IF p \in contKeys THEN update.hw ELSE remove.hw]
      /\ \/ ok /\ EraseClient(p, config)
         \/ ~ok
  <2>1. ~(p \notin contKeys /\ mClientsByPropIdAreaId[p] = {})
    BY <1>2
  <2>. QED
    BY <2>1, Zenon DEF unsubscribePropIdAreaIdLocked
<1>4. ok
  <2>1. remove.ok
    BY <1>1 DEF removeOnChangeSubscriberLocked
  <2>2. update.ok
    BY <1>1 DEF updateContSubConfigsLocked
  <2>. HIDE DEF remove, update
  <2>. QED
    BY <2>1, <2>2
<1>. HIDE DEF update, ok, config
<1>5. /\ mClientsByPropIdAreaId' =
            [mClientsByPropIdAreaId EXCEPT ![p] = @ \ {call.client}]
      /\ contKeys' = IF mClientsByPropIdAreaId[p] \ {call.client} = {}
                     THEN contKeys \ {p} ELSE contKeys
      /\ ForgetSubscribedProp(p)
      /\ call' = [call EXCEPT !.todo = @ \ {p}]
  BY <1>3, <1>4 DEF EraseClient
<1>6. /\ mClientsByPropIdAreaId'[p] = mClientsByPropIdAreaId[p] \ {call.client}
      /\ \A q \in PropIdAreaIds \ {p} : mClientsByPropIdAreaId'[q] = mClientsByPropIdAreaId[q]
  BY <1>5 DEF TypeOK
<1>7. p \notin contKeys /\ mClientsByPropIdAreaId'[p] # {} => hw'[p] = hw[p]
  <2>. SUFFICES ASSUME p \notin contKeys, mClientsByPropIdAreaId'[p] # {}
                PROVE  hw'[p] = hw[p]
    OBVIOUS
  <2>1. Several(mClientsByPropIdAreaId[p])
    BY <1>2, <1>6 DEF Several
  <2>2. remove.hw = hw[p]
    BY <2>1 DEF removeOnChangeSubscriberLocked
  <2>. HIDE DEF remove
  <2>. QED
    BY <1>3, <2>2 DEF TypeOK
<1>8. \A q \in PropIdAreaIds \ {p} :
          hw'[q] = hw[q] /\ (q \in contKeys' <=> q \in contKeys)
  BY <1>3, <1>5 DEF TypeOK
<1>9. ListsInv'
  <2>1. /\ call'.op = call.op /\ call'.client = call.client
        /\ call'.todo = call.todo \ {p}
    BY <1>1, <1>5 DEF TypeOK, Calls, Idle
  <2>2. \A c \in Clients : /\ c # call.client =>
                                 mSubscribedPropsByClient'[c] = mSubscribedPropsByClient[c]
                           /\ mSubscribedPropsByClient'[c] \subseteq mSubscribedPropsByClient[c]
                           /\ c = call.client /\ call.op = "unsubscribe" =>
                                 p \notin mSubscribedPropsByClient'[c]
    BY <1>2, <1>5 DEF ForgetSubscribedProp, TypeOK
  <2>3. \A c \in Clients : mSubscribedPropsByClient[c] \subseteq PropIdAreaIds
    BY DEF TypeOK
  <2>4. call.todo \subseteq PropIdAreaIds
    BY <1>1, CallType DEF TypeOK
  <2>5. ASSUME NEW c \in Clients, NEW q \in mSubscribedPropsByClient'[c]
        PROVE  \/ c \in mClientsByPropIdAreaId'[q]
               \/ call'.op = "unsubscribeAll" /\ call'.client = c /\ q \notin call'.todo
    <3>1. q \in mSubscribedPropsByClient[c] /\ q \in PropIdAreaIds
      BY <2>2, <2>3, <2>5
    <3>2. CASE c \in mClientsByPropIdAreaId[q]
      BY <1>1, <1>6, <2>1, <2>2, <2>5, <3>1, <3>2
    <3>3. CASE c \notin mClientsByPropIdAreaId[q]
      BY <2>1, <3>1, <3>3 DEF ListsInv
    <3>. QED
      BY <3>2, <3>3
  <2>6. ASSUME NEW q \in call'.todo PROVE call'.client \in mClientsByPropIdAreaId'[q]
    BY <1>1, <1>6, <2>1, <2>4, <2>6 DEF ListsInv
  <2>. QED
    BY <2>5, <2>6 DEF ListsInv
<1>. QED
  BY <1>5, <1>6, <1>7, <1>8, <1>9

\* With a hardware that does not fail, an on-change [propId, areaId] that has
\* clients is subscribed in the hardware until an event for it leaves a key
\* behind: a client that leaves takes the subscription with it only if it is
\* the last one.
THEOREM OnChangeClientsServed ==
    ASSUME HwOutcomes = {"ok"}
    PROVE  Spec => []HwServesOnChangeClientsUntilEvent
<1>. DEFINE Inv == ListsInv /\ HwServesOnChangeClientsUntilEvent
<1>1. Init => Inv
  BY DEF Init, ListsInv, HwServesOnChangeClientsUntilEvent, Idle, PropIdAreaIds
<1>2. TypeOK /\ Inv /\ [Next]_vars => Inv'
  <2>. SUFFICES ASSUME TypeOK, Inv, [Next]_vars PROVE Inv'
    OBVIOUS
  <2>. USE DEF books, configs, supported
  <2>0. /\ OnChange \subseteq PropIdAreaIds /\ Continuous \subseteq PropIdAreaIds
        /\ \A p \in Continuous : p \notin OnChange
    BY SubscriptionAssumption DEF PropIdAreaIds
  <2>1. ASSUME UNCHANGED <<mClientsByPropIdAreaId, hw>>, contKeys \subseteq contKeys'
        PROVE  HwServesOnChangeClientsUntilEvent'
    BY <2>1 DEF HwServesOnChangeClientsUntilEvent
  <2>2. ASSUME NEW p \in OnChange, NEW o \in HwOutcomes,
               addOnChangeSubscriberLocked(p, o)
        PROVE  Inv'
    <3>1. /\ call.op = "subscribe" /\ UNCHANGED configs
          /\ hw' = IF mClientsByPropIdAreaId[p] # {} THEN hw
                   ELSE [hw EXCEPT ![p] = HwSubscribe(@, OnChangeOptions, o)]
          /\ RecordSubscriber(p, mClientsByPropIdAreaId[p] # {} \/ o = "ok")
      BY <2>2 DEF addOnChangeSubscriberLocked
    <3>2. /\ ListsInv'
          /\ \A q \in PropIdAreaIds \ {p} :
                mClientsByPropIdAreaId'[q] = mClientsByPropIdAreaId[q]
      BY <2>0, <3>1, RecordedLists
    <3>3. HwSubscribe(hw[p], OnChangeOptions, o).subscribed
      BY <2>0 DEF HwSubscribe, Applied, TypeOK, HwStates
    <3>4. \A q \in OnChange : /\ q # p => hw'[q] = hw[q]
                              /\ q = p /\ mClientsByPropIdAreaId[p] # {} => hw'[q] = hw[q]
                              /\ q = p /\ mClientsByPropIdAreaId[p] = {} => hw'[q].subscribed
      BY <2>0, <3>1, <3>3 DEF TypeOK
    <3>5. HwServesOnChangeClientsUntilEvent'
      BY <2>0, <3>1, <3>2, <3>4 DEF HwServesOnChangeClientsUntilEvent
    <3>. QED
      BY <3>2, <3>5
  <2>3. ASSUME NEW p \in Continuous, NEW o1 \in HwOutcomes, NEW o2 \in HwOutcomes,
               addContinuousSubscriberLocked(p, o1, o2)
        PROVE  Inv'
    <3>1. /\ call.op = "subscribe" /\ contKeys' = contKeys \cup {p}
          /\ \A q \in OnChange : hw'[q] = hw[q]
          /\ \E ok : RecordSubscriber(p, ok)
      BY <2>0, <2>3 DEF addContinuousSubscriberLocked, TypeOK
    <3>2. /\ ListsInv'
          /\ \A q \in PropIdAreaIds \ {p} :
                mClientsByPropIdAreaId'[q] = mClientsByPropIdAreaId[q]
      BY <2>0, <3>1, RecordedLists
    <3>3. HwServesOnChangeClientsUntilEvent'
      BY <2>0, <3>1, <3>2 DEF HwServesOnChangeClientsUntilEvent
    <3>. QED
      BY <3>2, <3>3
  <2>4. ASSUME NEW p \in PropIdAreaIds, NEW o1 \in HwOutcomes, NEW o2 \in HwOutcomes,
               unsubscribePropIdAreaIdLocked(p, o1, o2)
        PROVE  Inv'
    <3>1. /\ ListsInv'
          /\ mClientsByPropIdAreaId' =
                [mClientsByPropIdAreaId EXCEPT ![p] = @ \ {call.client}]
          /\ mClientsByPropIdAreaId'[p] # {} => (p \in contKeys' <=> p \in contKeys)
          /\ p \notin contKeys /\ mClientsByPropIdAreaId'[p] # {} => hw'[p] = hw[p]
          /\ \A q \in PropIdAreaIds \ {p} :
                hw'[q] = hw[q] /\ (q \in contKeys' <=> q \in contKeys)
      BY <2>4, UnsubscribedOnce
    <3>2. \A q \in PropIdAreaIds : mClientsByPropIdAreaId'[q] # {} =>
                                       mClientsByPropIdAreaId[q] # {}
      BY <3>1 DEF TypeOK
    <3>3. HwServesOnChangeClientsUntilEvent'
      BY <2>0, <3>1, <3>2 DEF HwServesOnChangeClientsUntilEvent
    <3>. QED
      BY <3>1, <3>3
  <2>5. ASSUME NEW p, getSubscribedClients(p) PROVE Inv'
    BY <2>1, <2>5 DEF getSubscribedClients, ListsInv
  <2>6. ASSUME NEW o, UnsubscribeAllReturn(o) PROVE Inv'
    <3>1. /\ call.op = "unsubscribeAll" /\ call.todo = {} /\ call'.op = "idle"
          /\ mSubscribedPropsByClient' =
                [mSubscribedPropsByClient EXCEPT ![call.client] = {}]
          /\ UNCHANGED <<mClientsByPropIdAreaId, configs, hw>>
      BY <2>6 DEF UnsubscribeAllReturn, Idle
    <3>2. ListsInv'
      BY <3>1 DEF ListsInv, TypeOK
    <3>. QED
      BY <2>1, <3>1, <3>2
  <2>7. ASSUME NEW c, NEW ps, NEW o,
               \/ subscribeSupportedValueChange(c, ps, o)
               \/ unsubscribeSupportedValueChange(c, ps, o)
        PROVE  Inv'
    BY <2>1, <2>7 DEF subscribeSupportedValueChange, unsubscribeSupportedValueChange,
                      ListsInv
  <2>8. ASSUME NEW c, NEW ps, NEW config, Subscribe(c, ps, config) PROVE Inv'
    <3>1. /\ call.op = "idle" /\ call'.op = "subscribe" /\ UNCHANGED <<books, configs, hw>>
      BY <2>8 DEF Subscribe, Idle
    <3>. QED
      BY <2>1, <3>1 DEF ListsInv
  <2>9. ASSUME NEW c \in Clients, NEW ids, Unsubscribe(c, ids) PROVE Inv'
    <3>1. /\ call.op = "idle" /\ call'.op = "unsubscribe" /\ call'.client = c
          /\ call'.todo \subseteq mSubscribedPropsByClient[c]
          /\ UNCHANGED <<books, configs, hw>>
      BY <2>9 DEF Unsubscribe, Idle
    <3>. QED
      BY <2>1, <3>1 DEF ListsInv
  <2>10. ASSUME NEW c \in Clients, UnsubscribeAll(c) PROVE Inv'
    <3>1. /\ call.op = "idle" /\ call'.op = "unsubscribeAll" /\ call'.client = c
          /\ call'.todo = mSubscribedPropsByClient[c]
          /\ UNCHANGED <<books, configs, hw>>
      BY <2>10 DEF UnsubscribeAll, Idle
    <3>. QED
      BY <2>1, <3>1 DEF ListsInv
  <2>11. ASSUME Return PROVE Inv'
    <3>1. /\ call.op \in {"subscribe", "unsubscribe"} /\ call'.op = "idle"
          /\ UNCHANGED <<books, configs, hw>>
      BY <2>11 DEF Return, Idle
    <3>. QED
      BY <2>1, <3>1 DEF ListsInv
  <2>12. ASSUME UNCHANGED vars PROVE Inv'
    BY <2>1, <2>12 DEF vars, ListsInv
  <2>. QED
    BY <2>2, <2>3, <2>4, <2>5, <2>6, <2>7, <2>8, <2>9, <2>10, <2>11, <2>12 DEF Next
<1>3. Inv => HwServesOnChangeClientsUntilEvent
  OBVIOUS
<1>. HIDE DEF Inv
<1>. QED
  BY <1>1, <1>2, <1>3, TypeCorrect, PTL DEF Spec
============================================================================

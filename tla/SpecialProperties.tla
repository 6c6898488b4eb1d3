-------------------------- MODULE SpecialProperties --------------------------
(***************************************************************************)
(* How FakeVehicleHardware carries out get and set requests: two handler   *)
(* threads with a queue each, and the thread of a dump command, on one     *)
(* VehiclePropertyStore.  Special properties (HVAC, driver assistance,     *)
(* power state, users, OBD2) read and write several values.  Only each     *)
(* single access is under the store's lock, so a request is a sequence of  *)
(* steps between which the other threads run.                              *)
(***************************************************************************)
EXTENDS Integers, Sequences, FiniteSets, SequencesExt

CONSTANTS
    PowerAreas, TempAreas, DualAreas, \* area ids, each a set of seats
    Assists,        \* ADAS _ENABLED property -> its state properties
    Frames,         \* timestamps of the freeze frames
    PowerController,\* is an external power controller configured?
    Scenarios,      \* sets of requests; a behaviour draws from one of them
    MaxRequests,    \* bound: requests in a behaviour
    NoValue, Malformed

INSTANCE FakeUserHal WITH NoReply <- NoValue

Global == {}        \* area id 0
AssistStates == UNION {Assists[e] : e \in DOMAIN Assists}

\* [propId, areaId]s; a freeze frame is told by its timestamp (tokenFunction).
Keys == {<<"HVAC_POWER_ON", a>> : a \in PowerAreas}
     \cup {<<"HVAC_TEMPERATURE_SET", a>> : a \in TempAreas}
     \cup {<<"HVAC_DUAL_ON", a>> : a \in DualAreas}
     \cup {<<p, Global>> : p \in DOMAIN Assists \cup AssistStates \cup UserProps
             \cup {"CRUISE_CONTROL_COMMAND", "AP_POWER_STATE_REPORT",
                   "AP_POWER_STATE_REQ", "ADAPTIVE_CRUISE_CONTROL_TARGET_TIME_GAP",
                   "AP_POWER_BOOTUP_REASON", "CRUISE_CONTROL_TARGET_SPEED",
                   "LANE_CENTERING_ASSIST_COMMAND", "PLAIN"}}
     \cup {<<"OBD2_FREEZE_FRAME", f>> : f \in Frames}

hvacPowerDependentProps == {"HVAC_TEMPERATURE_SET"}
hvacProps == {"HVAC_POWER_ON", "HVAC_TEMPERATURE_SET", "HVAC_DUAL_ON"}
mPowerPropIds == {"VEHICLE_IN_USE", "AP_POWER_BOOTUP_REASON"}
Disabled == -1      \* ErrorState::NOT_AVAILABLE_DISABLED
STANDARD == 10      \* CruiseControlType
ADAPTIVE == 11

\* Properties that are special for another reason than being a driver
\* assistance feature or its state, or that stand for all others.
OtherProps == UserProps \cup hvacProps \cup
    {"AP_POWER_STATE_REPORT", "AP_POWER_STATE_REQ", "AP_POWER_BOOTUP_REASON",
     "SHUTDOWN_REQUEST", "OBD2_FREEZE_FRAME", "OBD2_FREEZE_FRAME_CLEAR",
     "OBD2_FREEZE_FRAME_INFO", "VENDOR_TEST", "VENDOR_ERROR", "VEHICLE_MAP_SERVICE",
     "LANE_CENTERING_ASSIST_COMMAND", "CRUISE_CONTROL_COMMAND", "PLAIN",
     "CRUISE_CONTROL_TARGET_SPEED", "ADAPTIVE_CRUISE_CONTROL_TARGET_TIME_GAP"}

ASSUME BoundsKnown == MaxRequests \in Nat

\* Where there is no value, none of those that are stored at first is meant.
ASSUME NoValueKnown == NoValue \notin {0, 1, ADAPTIVE}

\* A temperature belongs to one power switch and to one coupling at most: the
\* default configuration has a single HVAC_DUAL_ON, for all seats.
ASSUME AreasKnown ==
    /\ IsFiniteSet(TempAreas)
    /\ \A x \in TempAreas : \A a, b \in PowerAreas : x \subseteq a \cap b => a = b
    /\ \A x \in TempAreas : \A a, b \in DualAreas : x \subseteq a \cap b => a = b

\* In mAdasEnabledPropToAdasPropWithErrorState no feature is the state of
\* another one.
ASSUME AssistsKnown ==
    /\ \A e \in DOMAIN Assists : IsFiniteSet(Assists[e])
    /\ DOMAIN Assists \cap AssistStates = {}
    /\ (DOMAIN Assists \cup AssistStates) \cap OtherProps = {}

\* DefaultVehicleHal lets through what fits the property's configuration: a
\* global property has area 0, a switch one of its areas.  Who types a dump
\* command is expected to keep to that: the special properties are handled
\* before the store looks at the area.  Nobody writes freeze frames, which are
\* read-only and whose place in the store is their time.
Known(r) ==
    /\ r.op \in {"set", "get", "dumpSet", "dumpGet", "save", "restore", "inject"}
    /\ r.op \in {"set", "dumpSet", "restore", "inject"} => r.prop # "OBD2_FREEZE_FRAME"
    /\ r.op \in {"set", "dumpSet"} =>
          /\ r.prop = "OBD2_FREEZE_FRAME_CLEAR" => r.value \in Seq(Range(r.value))
          /\ r.prop \in DOMAIN Assists => r.area = Global /\ r.value # Malformed
          /\ r.prop = "HVAC_POWER_ON" => r.area \in PowerAreas
          /\ r.prop = "HVAC_DUAL_ON" => r.area \in DualAreas

ASSUME RequestsKnown == \A r \in UNION Scenarios : Known(r)

Handlers == {"set", "get"}
Threads == Handlers \cup {"dump"}
Ids == 1 .. MaxRequests

VARIABLES
    scenario, asked,   \* the requests made so far, in order
    clock,             \* elapsedRealtimeNano
    store,             \* [Keys -> value, status and timestamp, or NoValue]
    mSavedProps,       \* values that --save-prop put aside
    userHal,           \* what lshal stored for the user properties
    queue, batch,      \* per handler: mRequests, and what flush returned
    active,            \* per handler: mRequests is active, no stop() yet
    thread,            \* per thread: the request in hand and its steps
    result,            \* per request: its result, or NoValue
    answered,          \* requests whose callback was called
    overlapped,        \* ghost: two threads worked on coupled properties
    loose              \* ghost: seats powered on after the last coupling

ghosts == <<overlapped, loose>>
queues == <<queue, batch, active, answered>>
vars == <<scenario, asked, clock, store, mSavedProps, userHal, queues, thread,
          result, ghosts>>

----------------------------------------------------------------------------
NoStamp == -1
Idle == [id |-> 0, steps |-> <<>>, stamp |-> NoStamp, status |-> "OK",
         value |-> NoValue, sent |-> {}]
Busy(t) == thread[t].id # 0
Request(t) == asked[thread[t].id]

\* Steps of a request.  A write whose status is KEEP has updateStatus false;
\* one with locked takes its timestamp inside the store's lock.
Write(key, value, status, mode, locked, onError) ==
    [do |-> "write", key |-> key, value |-> value, status |-> status,
     mode |-> mode, locked |-> locked, onError |-> onError]
Plain(key, value) == Write(key, value, "KEEP", "ON_VALUE_CHANGE", TRUE, "fail")
Forced(key, value, onError) ==
    Write(key, value, "AVAILABLE", "ALWAYS", FALSE, onError)
Check(what, p, area) == [do |-> "check", what |-> what, prop |-> p, area |-> area]
Read(key, missing) == [do |-> "read", key |-> key, missing |-> missing]
Fail(status) == [do |-> "fail", status |-> status]
Step(name) == [do |-> name]

readValuesForProperty(p) == {k \in Keys : k[1] = p /\ store[k] # NoValue}

\* Initial values of the default configuration.
InitialValue(k) ==
    CASE k[1] \in {"HVAC_POWER_ON"} \cup DOMAIN Assists -> 1
      [] k[1] \in AssistStates ->
            IF k[1] = "CRUISE_CONTROL_TYPE" THEN ADAPTIVE ELSE 1
      [] k[1] \in {"HVAC_TEMPERATURE_SET", "HVAC_DUAL_ON", "PLAIN",
                   "ADAPTIVE_CRUISE_CONTROL_TARGET_TIME_GAP"} -> 0
      [] k[1] \in {"AP_POWER_STATE_REPORT", "AP_POWER_BOOTUP_REASON"} -> "DEFAULT"
      [] OTHER -> NoValue

storePropInitialValue(k) ==
    IF k[1] # "OBD2_FREEZE_FRAME" /\ InitialValue(k) = NoValue THEN NoValue
    ELSE [value |-> InitialValue(k), status |-> "AVAILABLE", timestamp |-> 0]

Init ==
    /\ scenario \in Scenarios
    /\ asked = <<>>
    /\ clock = 0
    /\ store = [k \in Keys |-> storePropInitialValue(k)]
    /\ mSavedProps = [k \in Keys |-> NoValue]
    /\ userHal = [p \in UserProps |-> 0]
    /\ queue = [h \in Handlers |-> <<>>]
    /\ batch = [h \in Handlers |-> <<>>]
    /\ active = [h \in Handlers |-> TRUE]
    /\ thread = [t \in Threads |-> Idle]
    /\ result = [i \in Ids |-> NoValue]
    /\ answered = {}
    /\ overlapped = FALSE
    /\ loose = {}

----------------------------------------------------------------------------
(* What a set and a get do: maybeSetSpecialValue and maybeGetSpecialValue. *)

\* The report is stored, then AP_POWER_STATE_REQ answers it.  ON is always an
\* event: car service waits for one, even if the state was ON already.
setApPowerStateReport(k, report) ==
    LET req == <<"AP_POWER_STATE_REQ", Global>>
    IN  <<Write(k, report, "KEEP", "ON_VALUE_CHANGE", FALSE, "fail")>> \o
        CASE report \in {"WAIT_FOR_VHAL", "SHUTDOWN_CANCELLED", "DEEP_SLEEP_EXIT",
                         "HIBERNATION_EXIT"} -> <<Forced(req, "ON", "fail")>>
          [] report \in {"SHUTDOWN_START", "DEEP_SLEEP_ENTRY",
                         "HIBERNATION_ENTRY"} ->
                <<Write(req, "FINISHED", "AVAILABLE", "ON_VALUE_CHANGE", FALSE,
                        "fail")>>
          [] OTHER -> <<>>

setApPowerStateReqShutdown(param) ==
    IF param = Malformed THEN <<Fail("INVALID_ARG")>>
    ELSE <<Forced(<<"AP_POWER_STATE_REQ", Global>>, "SHUTDOWN_PREPARE", "fail")>>

\* Mutant: only the first state property of a feature is written.
sendFirstAdasPropertyState(e, on) ==
    <<Forced(<<CHOOSE p \in Assists[e] : TRUE, Global>>,
            IF on THEN 1 ELSE Disabled, "ignore")>>

\* The state properties of a feature become 1 (the cruise control type
\* ADAPTIVE) or NOT_AVAILABLE_DISABLED.
sendAdasPropertiesState(e, on) ==
    LET state(p) == IF ~on THEN Disabled
                    ELSE IF p = "CRUISE_CONTROL_TYPE" THEN ADAPTIVE ELSE 1
        props == SetToSeq(Assists[e])
    IN  [i \in 1 .. Len(props) |->
            Forced(<<props[i], Global>>, state(props[i]), "ignore")]

cruiseControlChecks(standardRefused) ==
    <<Check("adas", "CRUISE_CONTROL_STATE", Global),
      Check("adas", "CRUISE_CONTROL_TYPE", Global)>>
      \o IF standardRefused
         THEN <<Check("standard", "CRUISE_CONTROL_TYPE", Global)>> ELSE <<>>

\* Each frame is looked up and removed.
clearObd2FreezeFrames(stamps) ==
    IF stamps = <<>> THEN <<Step("removeValuesForProperty")>>
    ELSE [i \in 1 .. 2 * Len(stamps) |->
            LET k == <<"OBD2_FREEZE_FRAME", stamps[(i + 1) \div 2]>>
            IN  IF i % 2 = 1 THEN Read(k, "INVALID_ARG")
                ELSE [do |-> "removeValue", key |-> k]]

\* The steps of a set.  The last one, plain, is the write of the value itself,
\* which the properties that are special through and through do not have.
maybeSetSpecialValue(p, area, v, plain) ==
    CASE p \in {"VENDOR_TEST", "VEHICLE_MAP_SERVICE"} -> <<>>
      [] isSupported(p) -> <<Step("setUserHalProp")>>
      [] p = "HVAC_TEMPERATURE_SET" ->
            <<Check("hvac", p, area)>> \o
               IF v = Malformed THEN <<Fail("INVALID_ARG")>>
               ELSE <<Step("getSyncedAreaIdIfHvacDualOn"), plain>>
      [] p \in DOMAIN Assists /\ v # Malformed ->
            sendAdasPropertiesState(p, v = 1) \o <<plain>>
      [] p = "AP_POWER_STATE_REPORT" -> setApPowerStateReport(<<p, area>>, v)
      [] p = "SHUTDOWN_REQUEST" -> setApPowerStateReqShutdown(v)
      [] p = "OBD2_FREEZE_FRAME_CLEAR" -> clearObd2FreezeFrames(v)
      [] p = "VENDOR_ERROR" -> <<Fail("VENDOR_ERROR_CODE")>>
      [] p = "HVAC_POWER_ON" ->
            IF v = Malformed THEN <<Fail("INVALID_ARG")>>
            ELSE <<Step("sendHvacPropertiesCurrentValues"), plain>>
      [] p = "HVAC_DUAL_ON" ->
            CASE v = Malformed -> <<Fail("INVALID_ARG")>>
              [] v = 1 -> <<[do |-> "synchronizeHvacTemp", area |-> area,
                             temp |-> NoValue, onError |-> "skip"], plain>>
              [] OTHER -> <<plain>>
      [] p = "LANE_CENTERING_ASSIST_COMMAND" ->
            <<Check("adas", "LANE_CENTERING_ASSIST_STATE", Global), plain>>
      [] p = "CRUISE_CONTROL_COMMAND" ->
            cruiseControlChecks(v = "TARGET_TIME_GAP") \o <<plain>>
      [] p = "ADAPTIVE_CRUISE_CONTROL_TARGET_TIME_GAP" ->
            cruiseControlChecks(TRUE) \o <<plain>>
      [] OTHER -> <<plain>>

\* The steps of a get.
maybeGetSpecialValue(p, area, v) ==
    LET read == Read(<<p, area>>, "NOT_AVAILABLE")
    IN  CASE PowerController /\ p \in mPowerPropIds ->
                <<Step("getPowerPropFromExternalService")>>
          [] p = "VENDOR_TEST" -> <<>>
          [] isSupported(p) -> <<Step("getUserHalProp")>>
          [] p \in hvacPowerDependentProps -> <<Check("hvac", p, area), read>>
          [] p = "OBD2_FREEZE_FRAME" ->
                IF v = Malformed THEN <<Fail("INVALID_ARG")>>
                ELSE <<Check("frames", p, area), Read(<<p, v>>, "INVALID_ARG")>>
          [] p = "OBD2_FREEZE_FRAME_INFO" -> <<Step("getObd2DtcInfo")>>
          [] p = "VENDOR_ERROR" -> <<Fail("VENDOR_ERROR_CODE")>>
          [] p = "CRUISE_CONTROL_TARGET_SPEED" ->
                <<Check("adas", "CRUISE_CONTROL_STATE", Global), read>>
          [] p = "ADAPTIVE_CRUISE_CONTROL_TARGET_TIME_GAP" ->
                cruiseControlChecks(TRUE) \o <<read>>
          [] OTHER -> <<read>>

\* The event reaches the store with the time it carries; that the store refuses
\* it goes unnoticed.
dumpInjectEvent(k, v) ==
    <<[Plain(k, v) EXCEPT !.locked = FALSE, !.onError = "ignore"]>>

\* The steps of a request.  dump --set stamps its value before the store does.
StepsOf(r) ==
    LET k == <<r.prop, r.area>>
    IN  CASE r.op = "set" ->
                maybeSetSpecialValue(r.prop, r.area, r.value, Plain(k, r.value))
          [] r.op = "dumpSet" ->
                maybeSetSpecialValue(r.prop, r.area, r.value,
                    [Plain(k, r.value) EXCEPT !.locked = FALSE])
          [] r.op \in {"get", "dumpGet"} -> maybeGetSpecialValue(r.prop, r.area, r.value)
          [] r.op = "save" -> <<Read(k, "NOT_AVAILABLE"), Step("save")>>
          [] r.op = "restore" -> <<Step("restore")>>
          [] r.op = "inject" -> dumpInjectEvent(k, r.value)

----------------------------------------------------------------------------
(* Requests: PendingRequestHandler and dump.                               *)

Coupled(p) == \/ p \in hvacProps
              \/ p \in DOMAIN Assists \cup AssistStates

\* A request in the hands of two threads, or past the special handling.
Overlaps(t, r) ==
    /\ Coupled(r.prop)
    /\ \/ r.op \in {"restore", "inject"}
       \/ /\ r.op \in {"set", "dumpSet"}
          /\ \E u \in {"set", "dump"} \ {t} : Busy(u) /\ Coupled(Request(u).prop)

begin(t, id, r, stamp) ==
    /\ ~Busy(t)
    /\ thread' = [thread EXCEPT ![t] = [Idle EXCEPT !.id = id, !.stamp = stamp,
                                                   !.steps = StepsOf(r)]]
    /\ overlapped' = (overlapped \/ Overlaps(t, r))

Record(r) == asked' = Append(asked, [op |-> r.op, prop |-> r.prop,
                                     area |-> r.area, value |-> r.value,
                                     seen |-> answered])

addRequest(r) ==
    /\ r.op \in Handlers
    /\ active[r.op]
    /\ Len(asked) < MaxRequests
    /\ Record(r)
    /\ queue' = [queue EXCEPT ![r.op] = Append(@, Len(asked'))]
    /\ UNCHANGED <<scenario, clock, store, mSavedProps, userHal, batch, active,
                   answered, thread, result, ghosts>>

\* The time of an injected event is what -t says, or 0.
dump(r) ==
    /\ r.op \notin Handlers
    /\ Len(asked) < MaxRequests
    /\ Record(r)
    /\ \E stamp \in IF r.op = "inject" THEN {0, clock} ELSE {NoStamp} :
           begin("dump", Len(asked'), r, stamp)
    /\ UNCHANGED <<scenario, clock, store, mSavedProps, userHal, queues, result,
                   loose>>

\* handleRequestsOnce takes all that is queued.
flush(h) ==
    /\ active[h]
    /\ batch[h] = <<>> /\ queue[h] # <<>>
    /\ batch' = [batch EXCEPT ![h] = queue[h]]
    /\ queue' = [queue EXCEPT ![h] = <<>>]
    /\ UNCHANGED <<scenario, asked, clock, store, mSavedProps, userHal, active,
                   answered, thread, result, ghosts>>

\* ... handles one request after the other ...
handleRequest(h) ==
    \E i \in 1 .. Len(batch[h]) :
        /\ result[batch[h][i]] = NoValue
        /\ \A j \in 1 .. i - 1 : result[batch[h][j]] # NoValue
        /\ begin(h, batch[h][i], asked[batch[h][i]], NoStamp)
        /\ UNCHANGED <<scenario, asked, clock, store, mSavedProps, userHal,
                       queues, result, loose>>

\* Mutant: the batch is dropped after the first callback.
callbackFirst(h) ==
    /\ batch[h] # <<>>
    /\ \A i \in Range(batch[h]) : result[i] # NoValue
    /\ answered' = answered \cup {Head(batch[h])}
    /\ batch' = [batch EXCEPT ![h] = <<>>]
    /\ UNCHANGED <<scenario, asked, clock, store, mSavedProps, userHal, queue,
                   active, thread, result, ghosts>>

\* ... and calls the callbacks, in no particular order, when all are done.
callback(h) ==
    /\ batch[h] # <<>>
    /\ \A i \in Range(batch[h]) : result[i] # NoValue
    /\ \E i \in Range(batch[h]) \ answered :
           /\ answered' = answered \cup {i}
           /\ batch' = [batch EXCEPT ![h] = IF Range(@) \subseteq answered'
                                            THEN <<>> ELSE @]
    /\ UNCHANGED <<scenario, asked, clock, store, mSavedProps, userHal, queue,
                   active, thread, result, ghosts>>

\* The destructor stops one handler after the other.  What is still queued is
\* not handled any more.
stop(h) ==
    /\ active[h]
    /\ h = "set" => /\ ~active["get"]
                    /\ batch["get"] = <<>>
    /\ active' = [active EXCEPT ![h] = FALSE]
    /\ UNCHANGED <<scenario, asked, clock, store, mSavedProps, userHal, queue,
                   batch, answered, thread, result, ghosts>>

----------------------------------------------------------------------------
(* The steps of thread t.                                                  *)

Doing(t, name) == /\ Busy(t)
                  /\ thread[t].steps # <<>>
                  /\ Head(thread[t].steps).do = name
Now(t) == Head(thread[t].steps)
Continue(t, first) == [thread EXCEPT ![t].steps = first \o Tail(@)]
Failed(t, status) == [thread EXCEPT ![t].steps = <<>>, ![t].status = status]
Returned(t, key, record) ==
    [thread EXCEPT ![t].steps = Tail(@),
                   ![t].value = [key |-> key, value |-> record.value,
                                 timestamp |-> record.timestamp]]

\* Everything that a step which only reads leaves alone.
readOnly == <<scenario, asked, store, mSavedProps, userHal, queues, result, loose,
              overlapped>>

isHvacPropAndHvacNotAvailable(area) ==
    \E k \in readValuesForProperty("HVAC_POWER_ON") :
        area \subseteq k[2] /\ store[k].value = 0

isAdasPropertyAvailable(p) == store[<<p, Global>>].value # Disabled

isCruiseControlTypeStandard ==
    store[<<"CRUISE_CONTROL_TYPE", Global>>].value = STANDARD

Refusal(s) ==
    CASE s.what = "hvac" /\ isHvacPropAndHvacNotAvailable(s.area) ->
            "NOT_AVAILABLE_DISABLED"
      [] s.what = "adas" /\ ~isAdasPropertyAvailable(s.prop) ->
            "NOT_AVAILABLE_DISABLED"
      [] s.what = "standard" /\ isCruiseControlTypeStandard ->
            "NOT_AVAILABLE_DISABLED"
      [] s.what = "frames" /\ readValuesForProperty(s.prop) = {} -> "NOT_AVAILABLE"
      [] OTHER -> "OK"

check(t) ==
    /\ Doing(t, "check")
    /\ thread' = LET refusal == Refusal(Now(t))
                 IN  IF refusal = "OK" THEN Continue(t, <<>>)
                     ELSE Failed(t, refusal)
    /\ UNCHANGED <<readOnly, clock>>

fail(t) ==
    /\ Doing(t, "fail")
    /\ thread' = Failed(t, Now(t).status)
    /\ UNCHANGED <<readOnly, clock>>

\* A value that is not stamped by the store is stamped by its writer before.
stamp(t) ==
    /\ Doing(t, "write") /\ ~Now(t).locked /\ thread[t].stamp = NoStamp
    /\ clock' = clock + 1
    /\ thread' = [thread EXCEPT ![t].stamp = clock']
    /\ UNCHANGED readOnly

\* What follows a write that the store refused: its error is returned, or
\* ignored, or it ends the synchronisation whose error is ignored and the
\* value itself is written.
AfterRefusal(t) ==
    LET onError == Now(t).onError
    IN  [thread EXCEPT ![t].stamp = NoStamp,
                       ![t].status = IF onError = "fail" THEN "INVALID_ARG" ELSE @,
                       ![t].steps =
                           CASE onError = "fail" -> <<>>
                             [] onError = "skip" -> <<Last(@)>>
                             [] OTHER -> Tail(@)]

\* Mutant: the timestamp of the value that is stored is not looked at.
acceptsAny(old, ts) == TRUE

\* The store drops a value that is older than what it has.
accepts(old, ts) == old = NoValue \/ old.timestamp <= ts

\* The ghost loose: seats that became available and are not coupled yet.
LooseAfter(step, old, status) ==
    IF step.key[1] # "HVAC_TEMPERATURE_SET" THEN loose
    ELSE IF old.status = "UNAVAILABLE" /\ status = "AVAILABLE"
    THEN loose \cup {step.key[2]}
    ELSE IF step.mode = "ALWAYS" /\ step.onError # "ignore"
    THEN loose \ {step.key[2]}
    ELSE loose

writeValue(t) ==
    LET s == Now(t)
        k == s.key
        old == store[k]
        ts == IF s.locked THEN clock + 1 ELSE thread[t].stamp
        status == IF s.status # "KEEP" THEN s.status
                  ELSE IF old = NoValue THEN "AVAILABLE" ELSE old.status
        new == [value |-> s.value, status |-> status, timestamp |-> ts]
        event == \/ s.mode = "ALWAYS"
                 \/ old = NoValue
                 \/ old.value # s.value \/ old.status # status
    IN  /\ Doing(t, "write") /\ (s.locked \/ thread[t].stamp # NoStamp)
        /\ clock' = IF s.locked THEN ts ELSE clock
        /\ IF k \in Keys /\ accepts(old, ts)
           THEN /\ store' = [store EXCEPT ![k] = new]
                /\ loose' = LooseAfter(s, old, status)
                /\ thread' = [Returned(t, k, new) EXCEPT
                       ![t].stamp = NoStamp,
                       ![t].sent = IF event THEN @ \cup {<<k[1], s.value>>} ELSE @]
           ELSE /\ thread' = AfterRefusal(t)
                /\ UNCHANGED <<store, loose>>
        /\ UNCHANGED <<scenario, asked, mSavedProps, userHal, queues, result,
                       overlapped>>

\* Mutant: the values are sent with the status they have.
sendHvacPropertiesUnchanged(t) ==
    /\ Doing(t, "sendHvacPropertiesCurrentValues")
    /\ thread' = Continue(t, <<>>)
    /\ UNCHANGED <<readOnly, clock>>

\* The values are read now and written back with their new status later.
sendHvacPropertiesCurrentValues(t) ==
    LET r == Request(t)
        status == IF r.value # 0 THEN "AVAILABLE" ELSE "UNAVAILABLE"
        dependent == SetToSeq({k \in UNION {readValuesForProperty(p) :
                                            p \in hvacPowerDependentProps} :
                               k[2] \subseteq r.area})
    IN  /\ Doing(t, "sendHvacPropertiesCurrentValues")
        /\ thread' = Continue(t, [i \in 1 .. Len(dependent) |->
              Write(dependent[i], store[dependent[i]].value, status, "ALWAYS",
                    FALSE, "ignore")])
        /\ UNCHANGED <<readOnly, clock>>

\* The area of HVAC_DUAL_ON whose temperatures move together with area's.
getSyncedAreaIdIfHvacDualOn(t) ==
    LET r == Request(t)
        dual == {k \in readValuesForProperty("HVAC_DUAL_ON") :
                     r.area \subseteq k[2] /\ store[k].value = 1}
    IN  /\ Doing(t, "getSyncedAreaIdIfHvacDualOn")
        /\ IF dual = {} THEN thread' = Continue(t, <<>>)
           ELSE \E k \in dual :
                  thread' = [thread EXCEPT ![t].steps =
                      <<[do |-> "synchronizeHvacTemp", area |-> k[2],
                         temp |-> r.value, onError |-> "fail"]>>]
        /\ UNCHANGED <<readOnly, clock>>

\* Mutant: only the seat that is set gets the temperature.
synchronizeOne(t) ==
    LET s == Now(t)
    IN  /\ Doing(t, "synchronizeHvacTemp")
        /\ thread' = Continue(t, IF s.temp = NoValue THEN <<>>
              ELSE <<Forced(<<"HVAC_TEMPERATURE_SET", Request(t).area>>, s.temp,
                           s.onError)>>)
        /\ UNCHANGED <<readOnly, clock>>

\* Without a temperature to set, that of the first seat in the unordered map
\* is taken.  Seats that are not available keep theirs.
synchronizeHvacTemp(t) ==
    LET s == Now(t)
        seats == {k \in readValuesForProperty("HVAC_TEMPERATURE_SET") :
                     k[2] \subseteq s.area /\ store[k].status = "AVAILABLE"}
        coupled(others, temp) ==
            LET order == SetToSeq(others)
            IN  [i \in 1 .. Len(order) |->
                    Forced(order[i], temp, s.onError)]
    IN  /\ Doing(t, "synchronizeHvacTemp")
        /\ IF s.temp # NoValue
           THEN /\ thread' = Continue(t, coupled(seats, s.temp))
                /\ UNCHANGED loose
           ELSE IF seats = {} THEN thread' = Continue(t, <<>>) /\ UNCHANGED loose
           ELSE \E k \in seats :
                  /\ thread' = Continue(t, coupled(seats \ {k}, store[k].value))
                  /\ loose' = loose \ {k[2]}
        /\ UNCHANGED <<scenario, asked, clock, store, mSavedProps, userHal, queues,
                       result, overlapped>>

read(t) ==
    LET s == Now(t)
        registered == \E k \in Keys : k[1] = s.key[1]
    IN  /\ Doing(t, "read")
        /\ thread' = IF ~registered THEN Failed(t, "INVALID_ARG")
                     ELSE IF s.key \notin Keys \/ store[s.key] = NoValue
                     THEN Failed(t, s.missing)
                     ELSE Returned(t, s.key, store[s.key])
        /\ UNCHANGED <<readOnly, clock>>

removeValue(t) ==
    /\ Doing(t, "removeValue")
    /\ store' = [store EXCEPT ![Now(t).key] = NoValue]
    /\ thread' = Continue(t, <<>>)
    /\ UNCHANGED <<scenario, asked, clock, mSavedProps, userHal, queues, result,
                   ghosts>>

removeValuesForProperty(t) ==
    /\ Doing(t, "removeValuesForProperty")
    /\ store' = [k \in Keys |-> IF k[1] = "OBD2_FREEZE_FRAME" THEN NoValue
                                ELSE store[k]]
    /\ thread' = Continue(t, <<>>)
    /\ UNCHANGED <<scenario, asked, clock, mSavedProps, userHal, queues, result,
                   ghosts>>

getObd2DtcInfo(t) ==
    /\ Doing(t, "getObd2DtcInfo")
    /\ thread' = Returned(t, <<"OBD2_FREEZE_FRAME_INFO", Global>>,
           [value |-> {k[2] : k \in readValuesForProperty("OBD2_FREEZE_FRAME")},
            timestamp |-> clock])
    /\ UNCHANGED <<readOnly, clock>>

\* The value of a request for a user property is its id and message type.
setUserHalProp(t) ==
    LET r == Request(t)
        outcome == onSetProperty(userHal, r.prop, r.value.area, r.value.id,
                                 r.value.type)
    IN  /\ Doing(t, "setUserHalProp")
        /\ userHal' = outcome.hal
        /\ thread' = CASE outcome.status # "OK" -> Failed(t, outcome.status)
                       [] outcome.reply = NoValue -> Continue(t, <<>>)
                       [] OTHER -> Continue(t,
                              <<Forced(<<r.prop, Global>>, outcome.reply, "fail")>>)
        /\ UNCHANGED <<scenario, asked, clock, store, mSavedProps, queues, result,
                       ghosts>>

getUserHalProp(t) ==
    LET r == Request(t)
        outcome == onGetProperty(userHal, r.prop, r.value.id, r.value.type)
    IN  /\ Doing(t, "getUserHalProp")
        /\ thread' = IF outcome.status # "OK" THEN Failed(t, outcome.status)
                     ELSE Returned(t, <<r.prop, Global>>,
                              [value |-> outcome.reply, timestamp |-> clock])
        /\ UNCHANGED <<readOnly, clock>>

\* The call to the power controller may fail.
getPowerPropFromExternalService(t) ==
    /\ Doing(t, "getPowerPropFromExternalService")
    /\ \/ thread' = Failed(t, "TRY_AGAIN")
       \/ thread' = Returned(t, <<Request(t).prop, Global>>,
                             [value |-> "EXTERNAL", timestamp |-> clock])
    /\ UNCHANGED <<readOnly, clock>>

save(t) ==
    LET k == <<Request(t).prop, Request(t).area>>
    IN  /\ Doing(t, "save")
        /\ mSavedProps' = [mSavedProps EXCEPT ![k] = thread[t].value]
        /\ thread' = Continue(t, <<>>)
        /\ UNCHANGED <<scenario, asked, clock, store, userHal, queues, result,
                       ghosts>>

\* What was saved is taken out, and lost if the store then refuses it.
restore(t) ==
    LET k == <<Request(t).prop, Request(t).area>>
    IN  /\ Doing(t, "restore")
        /\ mSavedProps' = [mSavedProps EXCEPT ![k] = NoValue]
        /\ thread' = IF mSavedProps[k] = NoValue THEN Failed(t, "NOTHING_SAVED")
              ELSE Continue(t, <<[Plain(k, mSavedProps[k].value)
                                     EXCEPT !.locked = FALSE]>>)
        /\ UNCHANGED <<scenario, asked, clock, store, userHal, queues, result,
                       ghosts>>

finish(t) ==
    /\ Busy(t)
    /\ thread[t].steps = <<>>
    /\ result' = [result EXCEPT ![thread[t].id] =
                     [status |-> thread[t].status, value |-> thread[t].value,
                      sent |-> thread[t].sent]]
    /\ thread' = [thread EXCEPT ![t] = Idle]
    /\ UNCHANGED <<scenario, asked, clock, store, mSavedProps, userHal, queues,
                   ghosts>>

Run(t) ==
    \/ check(t) \/ fail(t) \/ stamp(t) \/ writeValue(t)
    \/ sendHvacPropertiesCurrentValues(t)
    \/ getSyncedAreaIdIfHvacDualOn(t) \/ synchronizeHvacTemp(t)
    \/ read(t) \/ removeValue(t) \/ removeValuesForProperty(t)
    \/ getObd2DtcInfo(t)
    \/ setUserHalProp(t) \/ getUserHalProp(t)
    \/ getPowerPropFromExternalService(t)
    \/ save(t) \/ restore(t)
    \/ finish(t)

Handle(h) == flush(h) \/ handleRequest(h) \/ callback(h)

Next ==
    \/ \E r \in scenario : addRequest(r) \/ dump(r)
    \/ \E h \in Handlers : Handle(h) \/ stop(h)
    \/ \E t \in Threads : Run(t)

Spec == Init /\ [][Next]_vars

----------------------------------------------------------------------------

\* No thread is in the middle of a request, and none of those made so far ran
\* against another one on the same group of properties.
Undisturbed == ~overlapped /\ \A t \in Threads : ~Busy(t)

Temps(area) == {k \in readValuesForProperty("HVAC_TEMPERATURE_SET") :
                    k[2] \subseteq area}

\* A temperature is available exactly if its seat has power: the status that
\* sendHvacPropertiesCurrentValues wrote and the power state that was written
\* after it agree.
HvacStatusFollowsPower ==
    Undisturbed => \A a \in PowerAreas : \A k \in Temps(a) :
        (store[k].status = "AVAILABLE") = (store[<<"HVAC_POWER_ON", a>>].value # 0)

\* Where HVAC_DUAL_ON is on, the seats that have power have one temperature,
\* whichever of them was set last.  A seat that got its power back later keeps
\* its old temperature until the next set.
TempsCoupled ==
    Undisturbed => \A d \in DualAreas : store[<<"HVAC_DUAL_ON", d>>].value = 1 =>
        \A j, k \in {k \in Temps(d) : store[k].status = "AVAILABLE"
                                      /\ k[2] \notin loose} :
            store[j].value = store[k].value

\* A state property is disabled only if a feature it belongs to is off, and
\* shows a state only if one is on: two features share a property.  (A client
\* may set the cruise control type itself, whatever the state of the feature.)
AdasFollowsEnabled ==
    Undisturbed => \A p \in AssistStates \ {r.prop : r \in Range(asked)} :
        LET on == {store[<<e, Global>>].value = 1 :
                      e \in {e \in DOMAIN Assists : p \in Assists[e]}}
        IN  (store[<<p, Global>>].value # Disabled) \in on

\* Car service waits for an ON event after WAIT_FOR_VHAL, also when the power
\* state was ON all the time: a report answered with OK has sent it.
WaitForVhalAnswered ==
    \A i \in 1 .. Len(asked) :
        (/\ asked[i].prop = "AP_POWER_STATE_REPORT"
         /\ asked[i].op = "set" /\ asked[i].value = "WAIT_FOR_VHAL"
         /\ result[i] # NoValue /\ result[i].status = "OK")
        => <<"AP_POWER_STATE_REQ", "ON">> \in result[i].sent

Done(i, op) == /\ i \in 1 .. Len(asked) /\ asked[i].op = op
               /\ result[i] # NoValue /\ result[i].status = "OK"

\* A client whose set was answered with OK never gets an older value from a
\* get that it makes afterwards, though another thread handles it and injected
\* events carry times of their own.
GetIsNotStale ==
    \A i, j \in Ids :
        (/\ Done(i, "set") /\ Done(j, "get")
         /\ result[i].value # NoValue /\ result[j].value # NoValue
         /\ result[i].value.key = result[j].value.key
         /\ i \in asked[j].seen)
        => result[i].value.timestamp <= result[j].value.timestamp

\* The freeze frames that a clear names are gone when it is answered with OK,
\* for a get of a frame and for the list of frames.
ClearedFramesStayGone ==
    \A i, j \in Ids :
        (/\ Done(i, "set") /\ asked[i].prop = "OBD2_FREEZE_FRAME_CLEAR"
         /\ Done(j, "get") /\ i \in asked[j].seen)
        => LET cleared == IF asked[i].value = <<>> THEN Frames
                          ELSE Range(asked[i].value)
           IN  CASE asked[j].prop = "OBD2_FREEZE_FRAME" ->
                        asked[j].value \notin cleared
                 [] asked[j].prop = "OBD2_FREEZE_FRAME_INFO" ->
                        result[j].value.value \cap cleared = {}
                 [] OTHER -> TRUE

\* lshal prepares the answer to one request.  No more requests of Android get
\* a prepared answer than lshal prepared.
PreparedAnswerUsedOnce ==
    \A p \in OneShotProps :
        LET of(lshal) == {i \in 1 .. Len(asked) :
                /\ asked[i].prop = p
                /\ asked[i].op \in {"set", "dumpSet"}
                /\ (asked[i].value.area # 0) = lshal}
            odd(i) == /\ result[i] # NoValue
                      /\ asked[i].value.type \in MessageTypes
                      /\ \/ result[i].status # "OK"
                         \/ <<p, Reply(0, -asked[i].value.id)>> \in result[i].sent
        IN  Cardinality({i \in of(FALSE) : odd(i)}) <= Cardinality(of(TRUE))

\* What an answer with OK promised is kept: ON was sent, frames are gone, and
\* the value is there for later gets.
AnsweredIsDone == WaitForVhalAnswered /\ GetIsNotStale /\ ClearedFramesStayGone

\* A get or set is in one place: in its queue, in the batch at work or among
\* the answered ones, and it is answered with a result.  So a handler that goes
\* on answers everything it accepted.
NoRequestForgotten ==
    \A i \in 1 .. Len(asked) : asked[i].op \in Handlers =>
        LET h == asked[i].op
        IN  /\ \/ i \in Range(queue[h]) /\ i \notin Range(batch[h]) \cup answered
               \/ i \in Range(batch[h]) \ answered
               \/ i \in answered /\ result[i] # NoValue
            /\ i \in answered => result[i] # NoValue

============================================================================

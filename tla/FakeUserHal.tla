----------------------------- MODULE FakeUserHal -----------------------------
(***************************************************************************)
(* The emulated user HAL (userhal/src/FakeUserHal.cpp).  Android sets a    *)
(* user property and waits for a change event that carries the id of its   *)
(* request.  lshal stores a response beforehand by setting the property    *)
(* with an area id, which says what is to happen to the next request.      *)
(*                                                                         *)
(* A response from lshal is represented by its area id, none by 0.  Each   *)
(* operation runs under FakeUserHal::mLock and is an operator from what is *)
(* stored to what is stored afterwards, the status and the reply.          *)
(***************************************************************************)
EXTENDS Integers

CONSTANTS NoReply,      \* nullptr: no property is updated
          Malformed     \* a value without the int32Values that are needed

OneShotProps == {"INITIAL_USER_INFO", "SWITCH_USER", "CREATE_USER"}
UserProps == OneShotProps \cup {"REMOVE_USER", "USER_IDENTIFICATION_ASSOCIATION"}

isSupported(prop) == prop \in UserProps

\* SwitchUserMessageType, as verifyAndCast accepts it.
MessageTypes == {"UNKNOWN", "LEGACY_ANDROID_SWITCH", "ANDROID_SWITCH",
                 "VEHICLE_RESPONSE", "VEHICLE_REQUEST", "ANDROID_POST_SWITCH"}

Outcome(hal, status, reply) == [hal |-> hal, status |-> status, reply |-> reply]
Reply(area, id) == [area |-> area, id |-> id]

sendUserHalResponse(hal, area, id) ==
    CASE area = 1 -> Outcome(hal, "OK", Reply(0, id))
      [] area = 2 -> Outcome(hal, "OK", Reply(0, -id))
      [] area = 3 -> Outcome(hal, "NOT_AVAILABLE", NoReply)
      [] OTHER -> Outcome(hal, "INTERNAL_ERROR", NoReply)

\* Mutant: the stored response is copied.
replyKeptResponse(hal, prop, id, default) ==
    IF hal[prop] # 0 THEN sendUserHalResponse(hal, hal[prop], id) ELSE default

\* A stored response is moved out by the request that it answers.
replyOneShot(hal, prop, id, default) ==
    IF hal[prop] # 0
    THEN sendUserHalResponse([hal EXCEPT ![prop] = 0], hal[prop], id)
    ELSE default

Stored(hal, prop, area) == Outcome([hal EXCEPT ![prop] = area], "OK", NoReply)
Default(hal, id) == Outcome(hal, "OK", Reply(0, id))

onSetInitialUserInfoResponse(hal, area, id) ==
    IF area # 0 THEN Stored(hal, "INITIAL_USER_INFO", area)
    ELSE replyOneShot(hal, "INITIAL_USER_INFO", id, Default(hal, id))

onSetCreateUserResponse(hal, area, id) ==
    IF area # 0 THEN Stored(hal, "CREATE_USER", area)
    ELSE replyOneShot(hal, "CREATE_USER", id, Default(hal, id))

\* lshal may also play the vehicle and ask for a switch itself.  The events
\* that tell of a switch Android made anyway need no reply.
onSetSwitchUserResponse(hal, area, id, type) ==
    IF type \notin MessageTypes THEN Outcome(hal, "INVALID_ARG", NoReply)
    ELSE IF area # 0
    THEN IF type = "VEHICLE_REQUEST" THEN Outcome(hal, "OK", Reply(area, id))
         ELSE Stored(hal, "SWITCH_USER", area)
    ELSE replyOneShot(hal, "SWITCH_USER", id,
            IF type \in {"LEGACY_ANDROID_SWITCH", "ANDROID_POST_SWITCH"}
            THEN Outcome(hal, "OK", NoReply) ELSE Default(hal, id))

defaultUserIdentificationAssociation(hal) ==
    Outcome(hal, "NOT_AVAILABLE", NoReply)

\* This response is copied, so that it can be used again.
onSetUserIdentificationAssociation(hal, area, id) ==
    LET stored == hal["USER_IDENTIFICATION_ASSOCIATION"]
    IN  IF area # 0 THEN Stored(hal, "USER_IDENTIFICATION_ASSOCIATION", area)
        ELSE IF stored # 0 THEN sendUserHalResponse(hal, stored, id)
        ELSE defaultUserIdentificationAssociation(hal)

\* A get carries the id of its own request, whatever the area id that is
\* stored: the value returned keeps that area id.
onGetUserIdentificationAssociation(hal, id, type) ==
    LET stored == hal["USER_IDENTIFICATION_ASSOCIATION"]
    IN  IF stored = 0 THEN defaultUserIdentificationAssociation(hal)
        ELSE IF type = Malformed THEN Outcome(hal, "INVALID_ARG", NoReply)
        ELSE Outcome(hal, "OK", Reply(stored, id))

onSetProperty(hal, prop, area, id, type) ==
    IF prop = "REMOVE_USER" THEN Outcome(hal, "OK", NoReply)
    ELSE IF type = Malformed THEN Outcome(hal, "INVALID_ARG", NoReply)
    ELSE CASE prop = "INITIAL_USER_INFO" ->
                  onSetInitialUserInfoResponse(hal, area, id)
           [] prop = "SWITCH_USER" ->
                  onSetSwitchUserResponse(hal, area, id, type)
           [] prop = "CREATE_USER" ->
                  onSetCreateUserResponse(hal, area, id)
           [] prop = "USER_IDENTIFICATION_ASSOCIATION" ->
                  onSetUserIdentificationAssociation(hal, area, id)

onGetProperty(hal, prop, id, type) ==
    IF prop = "USER_IDENTIFICATION_ASSOCIATION"
    THEN onGetUserIdentificationAssociation(hal, id, type)
    ELSE Outcome(hal, "INVALID_ARG", NoReply)
==============================================================================

----------------------------- MODULE VurFilter -----------------------------
(***************************************************************************)
(* What one client of a continuous [propId, areaId] is sent.               *)
(* SubscriptionManager::getSubscribedClients rounds each value to the      *)
(* client's resolution and, when the client wants variable update rate     *)
(* (VUR) but the hardware cannot provide it because another client does    *)
(* not want it, drops the events that bring nothing new                    *)
(* (isValueUpdatedLocked).                                                 *)
(*                                                                         *)
(* Events arrive with any timestamp: the property store calls back outside *)
(* of its lock, so two writers may deliver in either order.                *)
(***************************************************************************)
EXTENDS Naturals

CONSTANTS
    Values,         \* raw values of the property
    Statuses,       \* VehiclePropertyStatus
    MaxTimestamp,   \* bound on timestamps
    ClientResolutions, \* resolutions the client may ask for
    Nothing         \* no event yet

Timestamps == 1 .. MaxTimestamp

VARIABLES
    stored,      \* the client's entry of mContSubValuesByCallback
    enableVur,   \* isVurEnabledForClient
    hwVur,       \* isVurEnabled: everybody, this client included, wants VUR
    resolution,  \* getResolutionForClient
    newest,      \* history: the newest event that came to the filter
    last         \* history: whether the last one was new, and whether it was sent

history == <<newest, last>>
vurVars == <<stored, enableVur, hwVur, resolution, history>>

----------------------------------------------------------------------------
\* std::round(value / resolution) * resolution
roundToNearestResolution(value, res) ==
    IF res = 0 THEN value ELSE ((2 * value + res) \div (2 * res)) * res

SameValue(e, f) == e.value = f.value /\ e.status = f.status

\* event brings something new to one who has seen before.
Changes(before, event) ==
    \/ before = Nothing
    \/ /\ before.timestamp =< event.timestamp
       /\ ~SameValue(before, event)

isValueUpdatedLocked(event) == Changes(stored, event)

\* unordered_set::insert keeps the element that is there: the set compares
\* [propId, areaId] only, so an entry once made is never replaced.
insert(event) == IF stored = Nothing THEN event ELSE stored

VurInit ==
    /\ stored = Nothing
    /\ enableVur \in BOOLEAN
    /\ hwVur \in {FALSE, enableVur}
    /\ resolution \in ClientResolutions
    /\ newest = Nothing
    /\ last = Nothing

Outdated(event) == newest # Nothing /\ newest.timestamp > event.timestamp

\* One iteration of the loops of getSubscribedClients.
getSubscribedClient(value, status, timestamp) ==
    LET event == [value |-> roundToNearestResolution(value, resolution),
                  status |-> status, timestamp |-> timestamp]
        filtered == enableVur /\ ~hwVur
    IN  /\ IF filtered
           THEN /\ stored' = insert(event)
                /\ newest' = IF Outdated(event) THEN newest ELSE event
                /\ last' = [new |-> Changes(newest, event),
                            sent |-> isValueUpdatedLocked(event)]
           ELSE UNCHANGED <<stored, newest, last>>
        /\ UNCHANGED <<enableVur, hwVur, resolution>>

\* The client subscribes again with other options (addClient).
Resubscribe(vur, res) ==
    /\ enableVur' = vur
    /\ resolution' = res
    /\ hwVur' \in {FALSE, vur}
    /\ UNCHANGED <<stored, history>>

\* Another client comes, goes or changes its options (refreshCombinedConfig).
OtherClientChanges ==
    /\ enableVur
    /\ hwVur' = ~hwVur
    /\ UNCHANGED <<stored, enableVur, resolution, history>>

VurNext ==
    \/ \E v \in Values, s \in Statuses, t \in Timestamps :
           getSubscribedClient(v, s, t)
    \/ \E vur \in BOOLEAN, res \in ClientResolutions : Resubscribe(vur, res)
    \/ OtherClientChanges

VurSpec == VurInit /\ [][VurNext]_vurVars

----------------------------------------------------------------------------
\* A client with VUR gets the changed values and only those: an event is sent if and
\* only if its value or status differs from the newest event before it, and it is not
\* older than that.  (The comment in isValueUpdatedLocked: the new event is stored even
\* if the value is the same, to update the timestamp.)
OnlyChangesAreSent == last # Nothing => (last.sent <=> last.new)
============================================================================

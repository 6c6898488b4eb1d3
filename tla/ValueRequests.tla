--------------------------- MODULE ValueRequests ---------------------------
(***************************************************************************)
(* The life of the requests of getValues and setValues in                  *)
(* DefaultVehicleHal: a binder thread registers them in the                *)
(* PendingRequestPool and hands them to the hardware; the hardware's       *)
(* callback finishes them in any order and in any grouping, or never; the  *)
(* pool's thread times them out.  Getting and setting take the same steps. *)
(*                                                                         *)
(* The pool knows a client by the address of its ConnectedClient object.   *)
(* The object is freed when its binder dies, but the hardware's callback   *)
(* and the pool keep the address.                                          *)
(*                                                                         *)
(* Times are kept as what is left until the timeout, so that they are      *)
(* bounded: timeoutTimestamp - elapsedRealtimeNano().                      *)
(***************************************************************************)
EXTENDS Integers, Sequences, FiniteSets

CONSTANTS
    Clients,        \* binder clients
    Requests,       \* GetValueRequests or SetValueRequests
    clientOf,       \* the client of every request
    idOf,           \* requestId of every request
    Addresses,      \* where ConnectedClient objects may be allocated
    ReuseAddresses, \* may the address of a freed object be used again?
    MaxPending,     \* MAX_PENDING_REQUEST_PER_CLIENT
    Timeout,        \* mTimeoutInNano, in clock ticks
    NoAddress

RequestsOf(c) == {r \in Requests : clientOf[r] = c}
Ids(R) == {idOf[r] : r \in R}

ASSUME ValueRequestsAssumption ==
    /\ IsFiniteSet(Requests)
    /\ clientOf \in [Requests -> Clients]
    /\ idOf \in [Requests -> Nat]
    /\ ReuseAddresses \in BOOLEAN
    /\ MaxPending \in Nat
    /\ Timeout \in Nat
    /\ NoAddress \notin Addresses

VARIABLES
    alive,      \* clients whose binder is alive
    object,     \* clients that have a ConnectedClient object
    address,    \* the address of that object, remembered by callbacks
    pool,       \* mPendingRequestsByClient, by address
    pushed,     \* how many pending requests were ever pushed to a list
    calls,      \* getValues/setValues calls that binder threads are in
    hardware,   \* requests the hardware accepted and has not answered
    finished,   \* results that passed tryFinishRequests, not yet sent
    expired,    \* timeoutRequests of checkTimeout, not yet called back
    issued, failed, answers,
    destroyed   \* the pool is destructed

client == <<alive, object, address>>
history == <<issued, failed, answers>>
vars == <<client, pool, pushed, calls, hardware, finished, expired, history,
          destroyed>>

----------------------------------------------------------------------------
(* PendingRequestPool.  A pending request keeps the requests whose IDs it  *)
(* holds: erasing an ID erases every request that has it.  The list of a   *)
(* client is a set of pending requests, each with its place in the list.   *)

PendingIn(entries) == UNION {e.reqs : e \in entries}

PendingIds(entries) == Ids(PendingIn(entries))

\* pendingRequestCount counts the IDs of each.
PendingCount(entries) ==
    Cardinality(UNION {{e.at} \X Ids(e.reqs) : e \in entries})

CanAdd(entries, R) ==
    /\ Ids(R) \cap PendingIds(entries) = {}
    /\ Cardinality(Ids(R)) =< MaxPending - PendingCount(entries)

\* Mutant: a push to the front of the list.
addRequestsInFront(entries, R) ==
    entries \cup {[reqs |-> R, left |-> Timeout, at |-> -pushed]}

addRequests(entries, R) ==
    entries \cup {[reqs |-> R, left |-> Timeout, at |-> pushed]}

\* Mutant: one finished ID removes the whole pending request.
tryFinishWhole(entries, ids) == {e \in entries : Ids(e.reqs) \cap ids = {}}

\* Removes the IDs, and with them the pending requests that become empty.
tryFinishRequests(entries, ids) ==
    LET without(e) == [e EXCEPT !.reqs = {r \in @ : idOf[r] \notin ids}]
    IN  {e \in {without(f) : f \in entries} : e.reqs # {}}

\* The loop of checkTimeout stops at the first that has not expired.
NotExpired(e) == e.left >= 0
Expired(entries) ==
    {e \in entries : \A f \in entries : NotExpired(f) => e.at < f.at}

----------------------------------------------------------------------------
Init ==
    /\ alive = Clients
    /\ object = {}
    /\ address = [c \in Clients |-> NoAddress]
    /\ pool = [a \in Addresses |-> {}]
    /\ pushed = 0
    /\ calls = {}
    /\ hardware = {}
    /\ finished = {}
    /\ expired = {}
    /\ issued = {}
    /\ failed = {}
    /\ answers = [r \in Requests |-> <<>>]
    /\ destroyed = FALSE

Answer(R, kind) ==
    answers' = [r \in Requests |-> IF r \in R THEN Append(answers[r], kind)
                                   ELSE answers[r]]

\* An address is free when no object lives there.  A call in progress keeps
\* its object alive (shared_ptr).
FreeAddresses ==
    Addresses \ {address[c] : c \in IF ReuseAddresses
                                    THEN object \cup {k.client : k \in calls}
                                    ELSE Clients}

\* getValues/setValues up to getOrCreateClient, under mLock.  The requests
\* in `bad' fail checkReadPermission, checkWritePermission or checkProperty.
GetOrCreateClient(c, R, bad) ==
    /\ ~destroyed
    /\ c \in alive
    /\ R \cap issued = {}
    /\ IF c \in object
       THEN UNCHANGED <<object, address>>
       ELSE /\ object' = object \cup {c}
            /\ \E a \in FreeAddresses : address' = [address EXCEPT ![c] = a]
    /\ issued' = issued \cup R
    /\ calls' = calls \cup {[client |-> c, reqs |-> R \ bad, bad |-> bad,
                             registered |-> FALSE]}
    /\ UNCHANGED <<alive, pool, pushed, hardware, finished, expired, failed,
                   answers, destroyed>>

\* client->addRequests, and the results of the bad requests.
AddRequests(k) ==
    LET a == address[k.client]
    IN  /\ k \in calls
        /\ ~k.registered
        /\ IF CanAdd(pool[a], k.reqs)
           THEN /\ pool' = [pool EXCEPT ![a] = addRequests(@, k.reqs)]
                /\ pushed' = pushed + 1
                /\ Answer(k.bad, "invalid")
                /\ calls' = IF k.reqs = {} THEN calls \ {k}
                            ELSE (calls \ {k})
                                   \cup {[k EXCEPT !.registered = TRUE]}
                /\ UNCHANGED failed
           ELSE /\ failed' = failed \cup k.reqs \cup k.bad
                /\ calls' = calls \ {k}
                /\ UNCHANGED <<pool, pushed, answers>>
        /\ UNCHANGED <<client, hardware, finished, expired, issued, destroyed>>

\* mVehicleHardware->getValues/setValues returns OK.
HardwareAccepts(k) ==
    /\ k \in calls
    /\ k.registered
    /\ hardware' = hardware \cup k.reqs
    /\ calls' = calls \ {k}
    /\ UNCHANGED <<client, pool, pushed, finished, expired, history, destroyed>>

\* It returns an error: the requests are finished and the call fails.
HardwareRejects(k) ==
    /\ k \in calls
    /\ k.registered
    /\ pool' = [pool EXCEPT ![address[k.client]] =
                    tryFinishRequests(@, Ids(k.reqs))]
    /\ failed' = failed \cup k.reqs
    /\ calls' = calls \ {k}
    /\ UNCHANGED <<client, pushed, hardware, finished, expired, issued, answers,
                   destroyed>>

\* Mutant: every result is sent, pending or not.
ResultCallbackUnfiltered(c, R) ==
    /\ R \subseteq hardware \cap RequestsOf(c)
    /\ hardware' = hardware \ R
    /\ pool' = [pool EXCEPT ![address[c]] = tryFinishRequests(@, Ids(R))]
    /\ finished' = finished \cup {R}
    /\ UNCHANGED <<client, pushed, calls, expired, history, destroyed>>

\* The hardware calls the result callback (getOrSetValuesCallback) with a
\* group of results of one client.
ResultCallback(c, R) ==
    LET a == address[c]
        found == Ids(R) \cap PendingIds(pool[a])
        kept == {r \in R : idOf[r] \in found}
    IN  /\ R \subseteq hardware \cap RequestsOf(c)
        /\ hardware' = hardware \ R
        /\ pool' = [pool EXCEPT ![a] = tryFinishRequests(@, Ids(R))]
        /\ finished' = IF kept = {} THEN finished ELSE finished \cup {kept}
        /\ UNCHANGED <<client, pushed, calls, expired, history, destroyed>>

SendResults(R) ==
    /\ R \in finished
    /\ finished' = finished \ {R}
    /\ Answer(R, "result")
    /\ UNCHANGED <<client, pool, pushed, calls, hardware, expired, issued,
                   failed, destroyed>>

----------------------------------------------------------------------------
\* checkTimeout under the lock: one thread, so the callbacks of the last
\* round are done.
checkTimeout ==
    /\ ~destroyed
    /\ expired = {}
    /\ \E a \in Addresses : Expired(pool[a]) # {}
    /\ expired' = {e.reqs : e \in UNION {Expired(pool[a]) : a \in Addresses}}
    /\ pool' = [a \in Addresses |-> pool[a] \ Expired(pool[a])]
    /\ UNCHANGED <<client, pushed, calls, hardware, finished, history, destroyed>>

\* checkTimeout calls onTimeout outside of the lock.
onTimeout(R) ==
    /\ R \in expired
    /\ expired' = expired \ {R}
    /\ Answer(R, "timeout")
    /\ UNCHANGED <<client, pool, pushed, calls, hardware, finished, issued,
                   failed, destroyed>>

Tick ==
    /\ \E a \in Addresses : \E e \in pool[a] : NotExpired(e)
    /\ pool' = [a \in Addresses |->
                   {[e EXCEPT !.left = IF @ < 0 THEN @ ELSE @ - 1] : e \in pool[a]}]
    /\ UNCHANGED <<client, pushed, calls, hardware, finished, expired, history,
                   destroyed>>

\* The pool goes when the vhal and every callback that the hardware holds
\* are gone.  Its thread is joined first; what is pending is timed out.
DestroyPool ==
    /\ ~destroyed
    /\ calls = {} /\ finished = {} /\ expired = {}
    /\ destroyed' = TRUE
    /\ hardware' = {}
    /\ Answer(UNION {PendingIn(pool[a]) : a \in Addresses}, "timeout")
    /\ pool' = [a \in Addresses |-> {}]
    /\ UNCHANGED <<client, pushed, calls, finished, expired, issued, failed>>

----------------------------------------------------------------------------
BinderDies(c) ==
    /\ c \in alive
    /\ alive' = alive \ {c}
    /\ UNCHANGED <<object, address, pool, pushed, calls, hardware, finished,
                   expired, history, destroyed>>

\* onBinderDiedWithContext erases the object; the pool is not told.
onBinderDied(c) ==
    /\ c \in object \ alive
    /\ object' = object \ {c}
    /\ UNCHANGED <<alive, address, pool, pushed, calls, hardware, finished,
                   expired, history, destroyed>>

Next ==
    \/ \E c \in Clients :
           \/ \E R \in (SUBSET RequestsOf(c)) \ {{}} :
                  \/ \E bad \in SUBSET R : GetOrCreateClient(c, R, bad)
                  \/ ResultCallback(c, R)
           \/ BinderDies(c)
           \/ onBinderDied(c)
    \/ \E k \in calls :
           AddRequests(k) \/ HardwareAccepts(k) \/ HardwareRejects(k)
    \/ \E R \in finished : SendResults(R)
    \/ checkTimeout
    \/ \E R \in expired : onTimeout(R)
    \/ Tick
    \/ DestroyPool

\* The clock goes on, the pool's thread runs every second, a binder thread
\* gets the pool's lock and a callback to the client returns (one-way
\* binder).  Nothing is assumed of the hardware, nor of the clients.
Fairness ==
    /\ WF_vars(Tick)
    /\ WF_vars(checkTimeout)
    /\ WF_vars(\E k \in calls : AddRequests(k))
    /\ WF_vars(\E R \in finished : SendResults(R))
    /\ WF_vars(\E R \in expired : onTimeout(R))

Spec == Init /\ [][Next]_vars
FairSpec == Spec /\ Fairness

----------------------------------------------------------------------------
(* Properties.                                                             *)

Entries == [reqs : SUBSET Requests, left : -1 .. Timeout, at : Int]

\* Every variable has its type; a pending request keeps the time that is
\* left, at most mTimeoutInNano.
TypeOK ==
    /\ alive \subseteq Clients /\ object \subseteq Clients
    /\ address \in [Clients -> Addresses \cup {NoAddress}]
    /\ pool \in [Addresses -> SUBSET Entries] /\ pushed \in Nat
    /\ hardware \subseteq Requests
    /\ finished \subseteq SUBSET Requests /\ expired \subseteq SUBSET Requests
    /\ issued \subseteq Requests /\ failed \subseteq issued
    /\ destroyed \in BOOLEAN

\* A request gets at most one result through the callback, however the
\* hardware's answer, the timeout and the destruction of the pool race:
\* whoever takes it out of the pool under its lock answers it.
AtMostOneResult == \A r \in Requests : Len(answers[r]) =< 1

\* A request that was issued is answered, or its call failed, or somebody
\* still has it to answer it: a call in progress, the pool, or a thread that
\* took it from the pool.
Tracked ==
    (UNION {k.reqs \cup k.bad : k \in calls})
      \cup (UNION {PendingIn(pool[a]) : a \in Addresses})
      \cup (UNION finished) \cup (UNION expired)

NothingLost ==
    \A r \in issued : r \in failed \/ answers[r] # <<>> \/ r \in Tracked

\* checkTimeout may stop at the first pending request that has not expired:
\* the requests of a client time out in the order in which they are queued.
QueuedInTimeoutOrder ==
    \A a \in Addresses : \A e, f \in pool[a] : e.at < f.at => e.left =< f.left

\* A client never has more than MAX_PENDING_REQUEST_PER_CLIENT pending
\* requests, so the unsigned subtraction in addRequests cannot wrap.
PendingWithinLimit ==
    \A a \in Addresses : PendingCount(pool[a]) =< MaxPending

\* The pool stays in the shape that checkTimeout and addRequests count on.
PoolInShape == QueuedInTimeoutOrder /\ PendingWithinLimit

Contract == INSTANCE RequestContract WITH
                replies <- [r \in Requests |-> Len(answers[r])]

\* The requests keep the contract of IVehicle: one result or a failed call,
\* and every issued request is settled even if the hardware never answers.
KeepsContract == Contract!CSpec
============================================================================

----------------------------- MODULE GrpcBridge -----------------------------
(***************************************************************************)
(* The gRPC bridge: GRPCVehicleHardware in the VHAL process, a client of   *)
(* GrpcVehicleProxyServer in the vehicle's process, which serves it from   *)
(* some IVehicleHardware.  Gets and sets are unary calls; property events  *)
(* and changes of supported values are streams, which the client opens     *)
(* again when they end.  The server queues events and a thread of its own  *)
(* writes them to the streams.                                             *)
(*                                                                         *)
(* A property value is represented by its version, which is also the time  *)
(* the vehicle put on it.  The client gives it a time of its own.          *)
(***************************************************************************)
EXTENDS Integers, Sequences, FiniteSets, SequencesExt, FiniteSetsExt

CONSTANTS NumKeys,    \* how many [propId, areaId]s
          Budgets,    \* bounds: how often each of Inputs happens at most
          None

ASSUME NumKeysIsNat == NumKeys \in Nat \ {0}

Keys == 1 .. NumKeys

Streams == {"values", "supported"}
Inputs == {"change", "get", "set", "call", "disconnect", "connect", "shutdown",
           "close", "legacy", "supported", "register", "keys"}

\* "keys" bounds the keys that are touched; None is not a time stamp.
ASSUME BudgetsKnown ==
    \A b \in Budgets : b \in [Inputs -> Nat] /\ b["keys"] =< NumKeys
ASSUME NoneIsNoStamp == None \notin [external : Nat, android : Nat] \cup Nat

VARIABLES
    budget,             \* what is left of the bounds
    \* GrpcVehicleProxyServer and its hardware
    hw, raised,         \* versions, and events the hardware is about to raise
    queue, batch,       \* per stream: mPropValueQueue..., what the writer took
    writer, mStopEventWriter,
    conns, listed,      \* connections, and per stream those in the server's list
    server,             \* where Shutdown is
    subscribed,         \* what the hardware was asked to report
    \* GRPCVehicleHardware
    poll,               \* per stream: its polling thread
    mStreamContexts, cancelled, mShuttingDownFlag, client,
    clock,              \* elapsedRealtimeNano
    mOnPropChange,      \* the VHAL has registered its callback
    mLatestUpdateTimestamps,
    inHand,             \* the event the polling thread has read and not yet handed on
    handed,             \* values given to the VHAL, with their new time
    get, set,           \* a call of getValues and one of setValues
    round,              \* the variables of getValuesWithRetry
    told,               \* result of the last subscribe or unsubscribe
    late                \* ghost: contexts inserted after the destructor cancelled

hardware == <<hw, raised, subscribed>>
events == <<queue, batch, writer, mStopEventWriter>>
streams == <<conns, listed, server>>
polling == <<poll, mStreamContexts, cancelled, mShuttingDownFlag, client, late>>
values == <<clock, mOnPropChange, mLatestUpdateTimestamps, inHand, handed>>
calls == <<get, round, set, told>>
vars == <<budget, hardware, events, streams, polling, values, calls>>

\* round: stamped results, keys whose result was outdated, the result being
\* stamped, and how much the VHAL had been given when it made the call.
NoRound == [results |-> <<>>, again |-> {}, inHand |-> None, after |-> 0]
NoCall == [pc |-> "idle", ask |-> {}, got |-> {}, answer |-> {}]

Init ==
    /\ budget \in Budgets
    /\ hw = [k \in Keys |-> 0] /\ raised = {} /\ subscribed = FALSE
    /\ queue = [s \in Streams |-> <<>>] /\ batch = queue
    /\ writer = "idle" /\ mStopEventWriter = FALSE
    /\ conns = <<>> /\ listed = [s \in Streams |-> {}] /\ server = "running"
    /\ poll = [s \in Streams |->
           [pc |-> IF s = "values" \/ budget[s] > 0 THEN "check" ELSE "ended",
            conn |-> 0]]
    /\ mStreamContexts = {} /\ cancelled = {} /\ mShuttingDownFlag = FALSE
    /\ client = "alive"
    /\ clock = 0 /\ mOnPropChange = (budget["register"] = 0)
    /\ mLatestUpdateTimestamps = [k \in Keys |-> None]
    /\ inHand = None /\ handed = <<>>
    /\ get = NoCall /\ round = NoRound /\ set = NoCall /\ told = None /\ late = {}

Spend(op) == budget[op] > 0 /\ budget' = [budget EXCEPT ![op] = @ - 1]
Used == 1 .. budget["keys"]      \* keys that are touched
Legacy == budget["legacy"] > 0   \* a server without subscribe and supported values

----------------------------------------------------------------------------
(* The hardware behind the server (external), and the event writer.        *)

\* A value changes.  Its event is raised outside the store's lock, later.
change(k) ==
    /\ Spend("change")
    /\ hw' = [hw EXCEPT ![k] = @ + 1]
    /\ raised' = raised \cup {<<k, hw'[k]>>}
    /\ UNCHANGED <<subscribed, events, streams, polling, values, calls>>

OnVehiclePropChange(e) ==
    /\ e \in raised
    /\ raised' = raised \ {e}
    /\ queue' = [queue EXCEPT !["values"] = Append(@, e)]
    /\ conns' = [c \in DOMAIN conns |-> [conns[c] EXCEPT
           !.due = IF c \in listed["values"] THEN @ \cup {e} ELSE @]]
    /\ UNCHANGED <<budget, hw, subscribed, batch, writer, mStopEventWriter, listed,
                   server, polling, values, calls>>

OnSupportedValuesChange ==
    /\ Spend("supported")
    /\ queue' = [queue EXCEPT !["supported"] = Append(@, "changed")]
    /\ UNCHANGED <<hardware, batch, writer, mStopEventWriter, streams, polling,
                   values, calls>>

\* Mutant: what arrives while the writer is at work is dropped.
eventWriterDrops ==
    /\ writer = "idle"
    /\ mStopEventWriter \/ \E s \in Streams : queue[s] # <<>>
    /\ batch' = [s \in Streams |-> IF queue[s] = <<>> THEN <<>>
                                   ELSE <<Head(queue[s])>>]
    /\ queue' = [s \in Streams |-> <<>>]
    /\ writer' = IF mStopEventWriter THEN "last" ELSE "writing"
    /\ UNCHANGED <<budget, hardware, mStopEventWriter, streams, polling, values,
                   calls>>

\* One round of the loop takes both queues ...
eventWriterLoop ==
    /\ writer = "idle"
    /\ mStopEventWriter \/ \E s \in Streams : queue[s] # <<>>
    /\ batch' = queue
    /\ queue' = [s \in Streams |-> <<>>]
    /\ writer' = IF mStopEventWriter THEN "last" ELSE "writing"
    /\ UNCHANGED <<budget, hardware, mStopEventWriter, streams, polling, values,
                   calls>>

\* ... writes what it took, the values first ...
Write(c) == ~conns[c].shut /\ ~conns[c].broken

\* A connection that cannot be written is shut down and taken off the list.
writeToStream(s) ==
    /\ writer \in {"writing", "last"}
    /\ batch[s] # <<>>
    /\ s = "supported" => batch["values"] = <<>>
    /\ batch' = [batch EXCEPT ![s] = Tail(@)]
    /\ conns' = [c \in DOMAIN conns |->
           IF c \notin listed[s] THEN conns[c]
           ELSE IF Write(c)
           THEN [conns[c] EXCEPT !.wire = Append(@, Head(batch[s]))]
           ELSE [conns[c] EXCEPT !.shut = TRUE]]
    /\ listed' = [listed EXCEPT ![s] = {c \in @ : Write(c)}]
    /\ UNCHANGED <<budget, hardware, queue, writer, mStopEventWriter, server,
                   polling, values, calls>>

\* ... and ends if it was told to stop before it took them.
writerRound ==
    /\ writer \in {"writing", "last"}
    /\ \A s \in Streams : batch[s] = <<>>
    /\ writer' = IF writer = "last" THEN "ended" ELSE "idle"
    /\ UNCHANGED <<budget, hardware, queue, batch, mStopEventWriter, streams,
                   polling, values, calls>>

----------------------------------------------------------------------------
(* Streams, seen from the server, and its shutdown.                        *)

\* StartPropertyValuesStream: needs mConnectionMutex, which Shutdown holds.
startStream(c) ==
    /\ conns[c].pc = "entering"
    /\ server \notin {"closing"}
    /\ conns' = [conns EXCEPT ![c].pc = "waiting"]
    /\ listed' = [listed EXCEPT ![conns[c].stream] = @ \cup {c}]
    /\ UNCHANGED <<budget, hardware, events, server, polling, values, calls>>

\* conn->Wait() returns.  That a client is gone is only noticed by a Write.
streamLost(c) ==
    /\ conns[c].pc = "waiting" /\ conns[c].shut
    /\ conns' = [conns EXCEPT ![c].pc = "returned"]
    /\ UNCHANGED <<budget, hardware, events, listed, server, polling, values, calls>>

Shutdown ==
    /\ server = "running"
    /\ Spend("shutdown")
    /\ mStopEventWriter' = TRUE
    /\ server' = "joining"
    /\ UNCHANGED <<hardware, queue, batch, writer, conns, listed, polling, values,
                   calls>>

\* Mutant: the streams of supported values are left open.
shutdownValueConnections ==
    /\ server = "joining" /\ writer = "ended"
    /\ server' = "closing"
    /\ conns' = [c \in DOMAIN conns |->
           IF c \in listed["values"]
           THEN [conns[c] EXCEPT !.shut = TRUE] ELSE conns[c]]
    /\ UNCHANGED <<budget, hardware, events, listed, polling, values, calls>>

\* The connections are shut down; the lock is kept until the server is down.
shutdownConnections ==
    /\ server = "joining" /\ writer = "ended"
    /\ server' = "closing"
    /\ conns' = [c \in DOMAIN conns |->
           IF \E s \in Streams : c \in listed[s]
           THEN [conns[c] EXCEPT !.shut = TRUE] ELSE conns[c]]
    /\ UNCHANGED <<budget, hardware, events, listed, polling, values, calls>>

\* Server::Shutdown() waits for every handler, calls in progress included.
Wait ==
    /\ server = "closing"
    /\ \A c \in DOMAIN conns : conns[c].pc = "returned"
    /\ get.pc # "wire" /\ set.pc # "wire"
    /\ server' = "stopped"
    /\ UNCHANGED <<budget, hardware, events, conns, listed, polling, values, calls>>

disconnect(c) ==
    /\ Spend("disconnect")
    /\ ~conns[c].broken
    /\ conns' = [conns EXCEPT ![c].broken = TRUE, ![c].wire = <<>>]
    /\ UNCHANGED <<hardware, events, listed, server, polling, values, calls>>

----------------------------------------------------------------------------
(* The polling threads of the client, and its destructor.                  *)

At(s, pc) == poll[s].pc = pc
Goto(s, pc) == poll' = [poll EXCEPT ![s].pc = pc]
Connection(s, pc) == [stream |-> s, pc |-> pc, shut |-> FALSE, broken |-> FALSE,
                      wire |-> <<>>, due |-> {}]
Conn(s) == IF poll[s].conn = 0 THEN Connection(s, "returned")
           ELSE conns[poll[s].conn]
StreamEnded(s) == s \in cancelled \/ Conn(s).broken \/ Conn(s).pc = "returned"

\* ValuePollingLoop and SupportedValuesChangeLoop.
pollingLoop(s) ==
    /\ At(s, "check")
    /\ Goto(s, IF mShuttingDownFlag THEN "ended" ELSE "insert")
    /\ UNCHANGED <<budget, hardware, events, streams, mStreamContexts, cancelled,
                   mShuttingDownFlag, client, late, values, calls>>

insertContext(s) ==
    /\ At(s, "insert")
    /\ mStreamContexts' = mStreamContexts \cup {s}
    /\ cancelled' = cancelled \ {s}
    /\ late' = IF mShuttingDownFlag THEN late \cup {s} ELSE late
    /\ Goto(s, "start")
    /\ UNCHANGED <<budget, hardware, events, streams, mShuttingDownFlag, client,
                   values, calls>>

\* The call reaches the server if it is there and the context is not cancelled;
\* it may fail in any case.
pollValue(s) ==
    /\ At(s, "start")
    /\ \/ /\ server \in {"running", "joining"}
          /\ s \notin cancelled
          /\ ~(Legacy /\ s = "supported")
          /\ Spend("connect")
          /\ conns' = Append(conns, Connection(s, "entering"))
          /\ poll' = [poll EXCEPT ![s] = [pc |-> "reading", conn |-> Len(conns')]]
       \/ /\ server \notin {"running", "joining"} \/ s \in cancelled \/ Legacy
             \/ budget["connect"] = 0
          /\ poll' = [poll EXCEPT ![s] = [pc |-> "reading", conn |-> 0]]
          /\ UNCHANGED <<budget, conns>>
    /\ UNCHANGED <<hardware, events, listed, server, mStreamContexts, cancelled,
                   mShuttingDownFlag, client, late, values, calls>>

\* Mutant: the time is always the current one.
stampAlwaysNow(k, version, latest, now) ==
    IF latest[k] = None \/ version >= latest[k].external
    THEN [external |-> version, android |-> now] ELSE None

\* The time in Android for a value: that of its first sight, or None if a
\* newer value was seen before.
setAndroidTimestamp(k, version, latest, now) ==
    CASE latest[k] = None -> [external |-> version, android |-> now]
      [] latest[k] # None /\ version > latest[k].external ->
            [external |-> version, android |-> now]
      [] latest[k] # None /\ version = latest[k].external -> latest[k]
      [] OTHER -> None

\* A value on its way to the VHAL: its time is at first that of the clock, and it
\* was asked for or read after so many others had been given to the VHAL.
Value(k, version, after) ==
    [key |-> k, version |-> version, time |-> clock + 1, after |-> after]
Stamp(v) ==
    setAndroidTimestamp(v.key, v.version, mLatestUpdateTimestamps, v.time)

\* A message is read.  The clock is read before mLatestUpdateTimestampsMutex is
\* taken.  Supported values are passed on at once.
readStream(s) ==
    LET e == Head(Conn(s).wire)
    IN  /\ At(s, "reading") /\ ~mShuttingDownFlag
        /\ s \notin cancelled
        /\ Conn(s).wire # <<>>
        /\ conns' = [conns EXCEPT ![poll[s].conn].wire = Tail(@)]
        /\ IF s = "supported" THEN UNCHANGED <<poll, clock, inHand>>
           ELSE /\ clock' = clock + 1
                /\ inHand' = Value(e[1], e[2], Len(handed))
                /\ Goto(s, "stamp")
        /\ UNCHANGED <<budget, hardware, events, listed, server, mStreamContexts,
                       cancelled, mShuttingDownFlag, client, late, mOnPropChange,
                       mLatestUpdateTimestamps, handed, calls>>

\* Under the mutex.  An outdated event is ignored.
stampEvent ==
    LET t == Stamp(inHand)
    IN  /\ At("values", "stamp")
        /\ IF t = None
           THEN /\ Goto("values", "reading")
                /\ inHand' = None
                /\ UNCHANGED mLatestUpdateTimestamps
           ELSE /\ Goto("values", "hand")
                /\ inHand' = [inHand EXCEPT !.time = t.android]
                /\ mLatestUpdateTimestamps' =
                       [mLatestUpdateTimestamps EXCEPT ![inHand.key] = t]
        /\ UNCHANGED <<budget, hardware, events, streams, mStreamContexts, cancelled,
                       mShuttingDownFlag, client, late, clock, mOnPropChange, handed,
                       calls>>

\* The callback, if there is one.
handEvent ==
    /\ At("values", "hand")
    /\ handed' = IF mOnPropChange THEN Append(handed, inHand) ELSE handed
    /\ inHand' = None
    /\ Goto("values", "reading")
    /\ UNCHANGED <<budget, hardware, events, streams, mStreamContexts, cancelled,
                   mShuttingDownFlag, client, late, clock, mOnPropChange,
                   mLatestUpdateTimestamps, calls>>

\* Only once.  The polling threads are running before.
registerOnPropertyChangeEvent ==
    /\ client = "alive" /\ ~mOnPropChange
    /\ Spend("register")
    /\ mOnPropChange' = TRUE
    /\ UNCHANGED <<hardware, events, streams, polling, clock, mLatestUpdateTimestamps,
                   inHand, handed, calls>>

\* Read returns false, or the flag is seen.  The context is erased.
leaveStream(s) ==
    /\ At(s, "reading")
    /\ \/ mShuttingDownFlag
       \/ StreamEnded(s) /\ (s \in cancelled \/ Conn(s).wire = <<>>)
    /\ mStreamContexts' = mStreamContexts \ {s}
    /\ Goto(s, "finish")
    /\ UNCHANGED <<budget, hardware, events, streams, cancelled, mShuttingDownFlag,
                   client, late, values, calls>>

\* Finish waits for the end of the stream.  A server that does not know the
\* stream ends the loop, any other end is followed by a new try.
finishStream(s) ==
    /\ At(s, "finish")
    /\ StreamEnded(s)
    /\ Goto(s, IF Legacy /\ s = "supported" /\ server \in {"running", "joining"}
               THEN "ended" ELSE "check")
    /\ UNCHANGED <<budget, hardware, events, streams, mStreamContexts, cancelled,
                   mShuttingDownFlag, client, late, values, calls>>

\* Mutant: the streams are not cancelled.
closeWithoutCancel ==
    /\ client = "alive" /\ get.pc = "idle" /\ set.pc \in {"idle", "abandoned"}
    /\ Spend("close")
    /\ mShuttingDownFlag' = TRUE
    /\ mStreamContexts' = {}
    /\ client' = "joining"
    /\ UNCHANGED <<hardware, events, streams, poll, cancelled, late, values, calls>>

\* The destructor: the contexts it finds are cancelled.
close ==
    /\ client = "alive" /\ get.pc = "idle" /\ set.pc \in {"idle", "abandoned"}
    /\ Spend("close")
    /\ mShuttingDownFlag' = TRUE
    /\ cancelled' = cancelled \cup mStreamContexts
    /\ conns' = [c \in DOMAIN conns |->
           IF \E s \in mStreamContexts : poll[s].conn = c /\ At(s, "reading")
           THEN [conns[c] EXCEPT !.broken = TRUE, !.wire = <<>>] ELSE conns[c]]
    /\ mStreamContexts' = {}
    /\ client' = "joining"
    /\ UNCHANGED <<hardware, events, listed, server, poll, late, values, calls>>

join ==
    /\ client = "joining"
    /\ \A s \in Streams : At(s, "ended")
    /\ client' = "gone"
    /\ UNCHANGED <<budget, hardware, events, streams, poll, mStreamContexts,
                   cancelled, mShuttingDownFlag, late, values, calls>>

----------------------------------------------------------------------------
(* Calls.  A request is told by its key.                                   *)

getValues(ks) ==
    /\ client = "alive" /\ get.pc = "idle"
    /\ Spend("get")
    /\ get' = [NoCall EXCEPT !.pc = "wire", !.ask = ks]
    /\ round' = [NoRound EXCEPT !.after = Len(handed)]
    /\ UNCHANGED <<hardware, events, streams, polling, values, set, told>>

\* The hardware answers one request, with a value or an error; the server
\* returns when it has all answers.
GetValues(k) ==
    /\ get.pc = "wire" /\ server # "stopped"
    /\ k \in get.ask \ {a[1] : a \in get.answer}
    /\ \E v \in {hw[k], None} :
           get' = [get EXCEPT !.answer = @ \cup {<<k, v>>},
                              !.pc = IF Cardinality(get.answer) + 1
                                          = Cardinality(get.ask)
                                     THEN "answered" ELSE "wire"]
    /\ UNCHANGED <<budget, hardware, events, streams, polling, values, round, set, told>>

\* results->emplace_back: <<key, how many of the key were there before>>.
Got(k) == get.got \cup {<<k, Cardinality({g \in get.got : g[1] = k})>>}

\* One result of a round: an error is kept as it is, a value is stamped, for which
\* the clock is read first.
getResult(a) ==
    /\ get.pc = "answered" /\ a \in get.answer /\ round.inHand = None
    /\ IF a[2] = None
       THEN /\ get' = [get EXCEPT !.answer = @ \ {a}, !.got = Got(a[1])]
            /\ UNCHANGED <<clock, round>>
       ELSE /\ get' = [get EXCEPT !.answer = @ \ {a}]
            /\ clock' = clock + 1
            /\ round' = [round EXCEPT !.inHand = Value(a[1], a[2], round.after)]
    /\ UNCHANGED <<budget, hardware, events, streams, polling, mOnPropChange,
                   mLatestUpdateTimestamps, inHand, handed, set, told>>

\* A result that is outdated is to be asked for again.
stampResult ==
    LET v == round.inHand
        t == Stamp(v)
    IN  /\ get.pc = "answered" /\ v # None
        /\ IF t = None
           THEN /\ round' = [round EXCEPT !.inHand = None, !.again = @ \cup {v.key}]
                /\ UNCHANGED <<get, mLatestUpdateTimestamps>>
           ELSE /\ round' = [round EXCEPT !.inHand = None,
                                !.results = Append(@, [v EXCEPT !.time = t.android])]
                /\ get' = [get EXCEPT !.got = Got(v.key)]
                /\ mLatestUpdateTimestamps' =
                       [mLatestUpdateTimestamps EXCEPT ![v.key] = t]
        /\ UNCHANGED <<budget, hardware, events, streams, polling, clock, mOnPropChange,
                       inHand, handed, set, told>>

\* The end of a round.  The next one has retryCount as it was: retryCount++ passes
\* on the old value, so MAX_RETRY_COUNT is never met.
getValuesWithRetry ==
    /\ get.pc = "answered" /\ get.answer = {} /\ round.inHand = None
    /\ get' = IF round.again = {} THEN [get EXCEPT !.pc = "returned"]
              ELSE [get EXCEPT !.pc = "wire", !.ask = round.again]
    /\ round' = [round EXCEPT !.again = {}]
    /\ UNCHANGED <<budget, hardware, events, streams, polling, values, set, told>>

\* The server gives up after kHardwareOpTimeout, or the call fails on the way:
\* INTERNAL_ERROR, and the results of earlier rounds are not reported.
getValuesFailed ==
    /\ get.pc = "wire"
    /\ get' = [NoCall EXCEPT !.pc = "failed"]
    /\ round' = NoRound
    /\ UNCHANGED <<budget, hardware, events, streams, polling, values, set, told>>

\* The callback gets the results of all rounds at once.
getValuesReturns ==
    /\ get.pc \in {"returned", "failed"}
    /\ handed' = handed \o round.results
    /\ get' = NoCall /\ round' = NoRound
    /\ UNCHANGED <<budget, hardware, events, streams, polling, clock, mOnPropChange,
                   mLatestUpdateTimestamps, inHand, set, told>>

setValues(ks) ==
    /\ client = "alive" /\ set.pc = "idle"
    /\ Spend("set")
    /\ set' = [NoCall EXCEPT !.pc = "wire", !.ask = ks]
    /\ UNCHANGED <<hardware, events, streams, polling, values, get, round, told>>

hardwareSets(k) ==
    /\ set.pc \in {"wire", "abandoned"}
    /\ k \in set.ask \ set.got
    /\ hw' = [hw EXCEPT ![k] = @ + 1]
    /\ raised' = raised \cup {<<k, hw'[k]>>}
    /\ set' = [set EXCEPT !.got = @ \cup {k}]
    /\ UNCHANGED <<budget, subscribed, events, streams, polling, values, get, round, told>>

\* Mutant: the first result completes the call.
SetValuesFirst(k) ==
    /\ set.pc \in {"wire", "abandoned"}
    /\ k \in set.got \ set.answer
    /\ set' = [set EXCEPT !.answer = @ \cup {k},
                          !.pc = IF @ = "wire" THEN "returned" ELSE @]
    /\ UNCHANGED <<budget, hardware, events, streams, polling, values, get, round, told>>

\* The callback erases the request from requestIds, a variable of the call's
\* frame.  If the call timed out that frame is gone, and what the callback does
\* to it is undefined; nothing of it is used any more.
SetValues(k) ==
    /\ set.pc \in {"wire", "abandoned"}
    /\ k \in set.got \ set.answer
    /\ set' = [set EXCEPT !.answer = @ \cup {k},
                          !.pc = IF @ = "wire" /\ set.answer \cup {k} = set.ask
                                 THEN "returned" ELSE @]
    /\ UNCHANGED <<budget, hardware, events, streams, polling, values, get, round, told>>

\* INTERNAL_ERROR, though the hardware may still carry the requests out.
setValuesFailed ==
    /\ set.pc = "wire"
    /\ set' = [set EXCEPT !.pc = "abandoned"]
    /\ UNCHANGED <<budget, hardware, events, streams, polling, values, get, round, told>>

setValuesReturns ==
    /\ set.pc = "returned"
    /\ set' = NoCall
    /\ UNCHANGED <<budget, hardware, events, streams, polling, values, get, round, told>>

\* What a unary call does in the vehicle's process: the hardware is called.
serve(op) ==
    subscribed' = CASE op = "subscribe" -> TRUE
                    [] op = "unsubscribe" -> FALSE
                    [] OTHER -> subscribed

Tell(op, status, results) ==
    /\ told' = [op |-> op, status |-> status, results |-> results]
    /\ UNCHANGED <<hw, raised, events, streams, polling, values, get, round, set>>

\* A call is done and answered; done, but the answer is lost; or not done.
Unary(op, results, resultsOnFailure) ==
    /\ client = "alive" /\ Spend("call")
    /\ \/ /\ server = "running"
          /\ ~(Legacy /\ op \in {"subscribe", "unsubscribe"})
          /\ serve(op)
          /\ \/ Tell(op, "OK", results)
             \/ Tell(op, "INTERNAL_ERROR", resultsOnFailure)
       \/ /\ UNCHANGED subscribed
          /\ Tell(op, "INTERNAL_ERROR", resultsOnFailure)

\* UNIMPLEMENTED: a server without the call is taken to have done it.
Unimplemented(op) ==
    /\ client = "alive" /\ Spend("call")
    /\ Legacy /\ server = "running"
    /\ Tell(op, "OK", 0)
    /\ UNCHANGED subscribed

subscribe == Unary("subscribe", 0, 0) \/ Unimplemented("subscribe")
unsubscribe == Unary("unsubscribe", 0, 0) \/ Unimplemented("unsubscribe")
updateSampleRate == Unary("updateSampleRate", 0, 0)
checkHealth == Unary("checkHealth", 0, 0)
dump == Unary("dump", 0, 0)
\* When the call fails there is an error for each of the n requests.
getMinMaxSupportedValues(n) == Unary("getMinMaxSupportedValues", n, n)
getSupportedValuesLists(n) == Unary("getSupportedValuesLists", n, n)
\* A stream that breaks leaves the configs read so far, and no error.
getAllPropertyConfigs(n) ==
    /\ client = "alive" /\ Spend("call")
    /\ \E read \in 0 .. n : Tell("getAllPropertyConfigs", "OK", read)
    /\ UNCHANGED subscribed

----------------------------------------------------------------------------
Writer == eventWriterLoop \/ (\E s \in Streams : writeToStream(s)) \/ writerRound
Handler(c) == startStream(c) \/ streamLost(c)
Poll(s) == \/ pollingLoop(s) \/ insertContext(s) \/ pollValue(s)
           \/ readStream(s) \/ leaveStream(s) \/ finishStream(s)
           \/ s = "values" /\ (stampEvent \/ handEvent)
Stop == shutdownConnections \/ Wait
Get == \/ \E k \in Keys : GetValues(k)
       \/ \E a \in get.answer : getResult(a)
       \/ stampResult \/ getValuesWithRetry \/ getValuesFailed \/ getValuesReturns
Set == \/ \E k \in Keys : hardwareSets(k) \/ SetValues(k)
       \/ setValuesFailed \/ setValuesReturns

Next ==
    \/ \E k \in Used : change(k)
    \/ \E e \in raised : OnVehiclePropChange(e)
    \/ OnSupportedValuesChange
    \/ Writer
    \/ \E c \in DOMAIN conns : Handler(c) \/ disconnect(c)
    \/ Shutdown \/ Stop
    \/ \E s \in Streams : Poll(s)
    \/ registerOnPropertyChangeEvent \/ close \/ join
    \/ \E ks \in SUBSET Used \ {{}} : getValues(ks) \/ setValues(ks)
    \/ Get \/ Set
    \/ subscribe \/ unsubscribe \/ updateSampleRate \/ checkHealth \/ dump
    \/ \E n \in {1, NumKeys} : \/ getMinMaxSupportedValues(n)
                                \/ getSupportedValuesLists(n)
                                \/ getAllPropertyConfigs(n)

\* Every thread that can go on does: the event writer, the handlers of the
\* server, the polling threads, Shutdown and the destructor, and a call returns.
Fairness ==
    /\ WF_vars(Writer) /\ WF_vars(Stop) /\ WF_vars(join)
    /\ WF_vars(\E c \in DOMAIN conns : Handler(c))
    /\ \A s \in Streams : WF_vars(Poll(s))
    /\ WF_vars(Get) /\ WF_vars(Set)

Spec == Init /\ [][Next]_vars /\ Fairness

----------------------------------------------------------------------------

\* What the VHAL is given does not go back: the result of a get is not older than
\* anything that was given to the VHAL before the call, and an event is not older
\* than anything that was given before it was read, events that overtook each other,
\* retries and callbacks that come late included.
NothingGoesBack ==
    \A j \in DOMAIN handed : \A i \in 1 .. handed[j].after :
        handed[i].key = handed[j].key => handed[i].version =< handed[j].version

\* A change has one time, whether it comes as an event, as the result of a get or
\* as both, and which of the two threads stamps it first.
OneTimePerChange ==
    \A i, j \in DOMAIN handed :
        handed[i].key = handed[j].key /\ handed[i].version = handed[j].version
            => handed[i].time = handed[j].time

\* The values the VHAL is given are in order as far as their callers can tell, and
\* the time of a value identifies the change.  Between overlapping calls neither the
\* order nor that a later change has a later time is certain: the time is taken
\* before the mutex, the callback is called after it.
HandedInOrder == NothingGoesBack /\ OneTimePerChange

\* When nothing is on the way, a client has received, as an event or as the result
\* of a get, every change, or a newer one, whose event the server queued while the
\* client's stream was in the list.
ConnectedSeesEvents ==
    LET c == poll["values"].conn
    IN  (/\ c # 0 /\ At("values", "reading") /\ client = "alive"
         /\ conns[c].pc = "waiting" /\ ~conns[c].broken /\ ~conns[c].shut
         /\ queue["values"] = <<>> /\ batch["values"] = <<>> /\ conns[c].wire = <<>>)
        => \A e \in conns[c].due : /\ mLatestUpdateTimestamps[e[1]] # None
                                   /\ mLatestUpdateTimestamps[e[1]].external >= e[2]

\* getValues reports each request once, however often some of them had to be
\* asked again.
EveryGetOnce ==
    get.pc = "returned" => \A k \in Keys : <<k, 1>> \notin get.got

\* The server reports success only when the hardware has done every request of
\* the call.
SetAnswerComplete == set.pc = "returned" => set.answer = set.ask /\ set.got = set.ask

\* What the VHAL was told is true: after an OK the hardware is subscribed, or
\* not, as it was asked.  An error promises nothing: the answer may be lost.
ToldIsTrue ==
    (told # None /\ told.status = "OK" /\ ~Legacy) =>
        /\ told.op = "subscribe" => subscribed
        /\ told.op = "unsubscribe" => ~subscribed

\* A call that succeeds did what it says: each get is reported once, each set was
\* carried out, and the hardware is subscribed as the VHAL believes.
AnswersAreTrue == EveryGetOnce /\ SetAnswerComplete /\ ToldIsTrue

\* Shutdown ends, unless a stream was being opened: its handler waits for the
\* lock that Shutdown holds while it waits for the handler.
ShutdownEnds ==
    (server = "joining")
    ~> (server = "stopped"
        \/ (server = "closing" /\ \E c \in DOMAIN conns : conns[c].pc = "entering"))

\* The destructor ends, unless a stream was opened after the contexts were
\* cancelled and the server keeps it open.
DestructorEnds ==
    (client = "joining")
    ~> (client = "gone"
        \/ \E s \in late : At(s, "finish") /\ ~StreamEnded(s))
=============================================================================

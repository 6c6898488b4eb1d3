------------------------- MODULE ValueRequestsProofs -------------------------
(***************************************************************************)
(* Proofs about ValueRequests, for any clients, requests and limits.       *)
(***************************************************************************)
EXTENDS ValueRequests, TLAPS, SequenceTheorems, FiniteSetTheorems

\* What the theorems about the answers suppose: a client does not use an ID
\* twice, and the address of a ConnectedClient object is not used again.
Distinct ==
  /\ ~ReuseAddresses
  /\ \A r, s \in Requests : clientOf[r] = clientOf[s] /\ idOf[r] = idOf[s] => r = s

-----------------------------------------------------------------------------
(* Where a request is. *)

InCall(r) == \E k \in calls : ~k.registered /\ r \in k.reqs \cup k.bad
InPool(r) == \E a \in Addresses : \E e \in pool[a] : r \in e.reqs
InFinished(r) == \E R \in finished : r \in R
InExpired(r) == \E R \in expired : r \in R

TypeInv ==
  /\ TypeOK
  /\ calls \subseteq [client : Clients, reqs : SUBSET Requests, bad : SUBSET Requests,
                      registered : BOOLEAN]
  /\ \A k \in calls : k.reqs \cap k.bad = {} /\ k.reqs \cup k.bad \subseteq RequestsOf(k.client)
  /\ answers \in [Requests -> Seq({"invalid", "result", "timeout"})]
  /\ \A k \in calls : k.reqs \cup k.bad \subseteq issued

\* The pool has the requests of a client under the address of its object, which
\* no other client has.
AddressInv ==
  /\ \A c, d \in Clients : address[c] = address[d] => c = d \/ address[c] = NoAddress
  /\ \A c \in alive \ object : address[c] = NoAddress
  /\ \A c \in object : address[c] # NoAddress
  /\ \A k \in calls : address[k.client] # NoAddress
  /\ \A r \in hardware : address[clientOf[r]] # NoAddress
  /\ \A a \in Addresses : \A e \in pool[a] : \A r \in e.reqs : address[clientOf[r]] = a

\* A request is in one call, one pending request, one group of results.
ApartInv ==
  /\ \A k, l \in calls : (k.reqs \cup k.bad) \cap (l.reqs \cup l.bad) # {} => k = l
  /\ \A a \in Addresses : \A e, f \in pool[a] : e.reqs \cap f.reqs # {} => e = f
  /\ \A R, S \in finished : R \cap S # {} => R = S
  /\ \A R, S \in expired : R \cap S # {} => R = S

\* Request r is at p and nowhere else; it has a result when it is nowhere any more.
Places == {"new", "call", "pool", "finished", "expired", "answered", "failed"}

At(r, p) ==
  /\ InCall(r) <=> p = "call"
  /\ InPool(r) <=> p = "pool"
  /\ InFinished(r) <=> p = "finished"
  /\ InExpired(r) <=> p = "expired"
  /\ Len(answers[r]) = IF p = "answered" THEN 1 ELSE 0
  /\ r \in issued <=> p # "new"
  /\ p = "failed" => r \in failed

\* A request is at exactly one place.
PlaceInv == \A r \in Requests : \E p \in Places : At(r, p)

\* The places of a list grow, and with them the time that is left.
OrderInv ==
  /\ \A a \in Addresses : \A e \in pool[a] : e.at < pushed
  /\ QueuedInTimeoutOrder

-----------------------------------------------------------------------------
(* The pool. *)

LEMMA NextActions ==
  ASSUME Next
  PROVE  \/ \E c \in Clients : \E R \in (SUBSET RequestsOf(c)) \ {{}} :
              \/ \E bad \in SUBSET R : GetOrCreateClient(c, R, bad)
              \/ ResultCallback(c, R)
         \/ \E c \in Clients : BinderDies(c) \/ onBinderDied(c)
         \/ \E k \in calls : AddRequests(k) \/ HardwareAccepts(k) \/ HardwareRejects(k)
         \/ \E R \in finished : SendResults(R)
         \/ checkTimeout
         \/ \E R \in expired : onTimeout(R)
         \/ Tick
         \/ DestroyPool
BY DEF Next

\* What is left of a list after tryFinishRequests: its pending requests, without
\* those whose IDs are finished.
Without(entries, ids, left) ==
  /\ left \in SUBSET Entries
  /\ \A e \in left : \E f \in entries :
        /\ \A r \in Requests : r \in e.reqs <=> r \in f.reqs /\ idOf[r] \notin ids
        /\ e.left = f.left /\ e.at = f.at
  /\ \A f \in entries : \A r \in f.reqs : idOf[r] \notin ids =>
        \E e \in left : r \in e.reqs
  /\ \A e, x \in left :
        e # x => \E f, y \in entries : /\ f # y
                                       /\ e.reqs \subseteq f.reqs
                                       /\ x.reqs \subseteq y.reqs

LEMMA TryFinish ==
  ASSUME NEW entries \in SUBSET Entries, NEW ids
  PROVE  Without(entries, ids, tryFinishRequests(entries, ids))
<1> DEFINE without(f) == [f EXCEPT !.reqs = {r \in @ : idOf[r] \notin ids}]
<1>1. ASSUME NEW f \in entries
      PROVE  /\ without(f) \in Entries
             /\ without(f).reqs = {r \in f.reqs : idOf[r] \notin ids}
             /\ without(f).left = f.left /\ without(f).at = f.at
  BY DEF Entries
<1>2. tryFinishRequests(entries, ids) = {e \in {without(f) : f \in entries} : e.reqs # {}}
  BY DEF tryFinishRequests
<1> HIDE DEF without
<1>3. tryFinishRequests(entries, ids) \in SUBSET Entries
  BY <1>1, <1>2
<1>4. ASSUME NEW e \in tryFinishRequests(entries, ids)
      PROVE  \E f \in entries :
               /\ \A r \in Requests : r \in e.reqs <=> r \in f.reqs /\ idOf[r] \notin ids
               /\ e.left = f.left /\ e.at = f.at
  <2>1. PICK f \in entries : e = without(f)
    BY <1>2
  <2> QED
    BY <1>1, <2>1
<1>5. ASSUME NEW f \in entries, NEW r \in f.reqs, idOf[r] \notin ids
      PROVE  \E e \in tryFinishRequests(entries, ids) : r \in e.reqs
  <2>1. r \in without(f).reqs
    BY <1>1, <1>5
  <2> QED
    BY <1>2, <2>1
<1>6. ASSUME NEW e \in tryFinishRequests(entries, ids),
             NEW x \in tryFinishRequests(entries, ids), e # x
      PROVE  \E f, y \in entries : /\ f # y /\ e.reqs \subseteq f.reqs
                                   /\ x.reqs \subseteq y.reqs
  <2>1. PICK f \in entries : e = without(f)
    BY <1>2
  <2>2. PICK y \in entries : x = without(y)
    BY <1>2
  <2>3. f # y
    BY <1>6, <2>1, <2>2
  <2>4. e.reqs \subseteq f.reqs /\ x.reqs \subseteq y.reqs
    BY <1>1, <2>1, <2>2
  <2> QED
    BY <2>3, <2>4
<1> QED
  BY <1>3, <1>4, <1>5, <1>6 DEF Without

\* One step of the clock.
Ticked(entries) == {[e EXCEPT !.left = IF @ < 0 THEN @ ELSE @ - 1] : e \in entries}

LEMMA Ticks ==
  ASSUME NEW entries \in SUBSET Entries
  PROVE  LET next == Ticked(entries)
         IN  /\ next \in SUBSET Entries
             /\ \A e \in next : \E f \in entries :
                   /\ e.reqs = f.reqs /\ e.at = f.at
                   /\ e.left = IF f.left < 0 THEN f.left ELSE f.left - 1
             /\ \A f \in entries : \E e \in next : e.reqs = f.reqs /\ e.at = f.at
<1> DEFINE tick(f) == [f EXCEPT !.left = IF @ < 0 THEN @ ELSE @ - 1]
<1>1. ASSUME NEW f \in entries
      PROVE  /\ tick(f) \in Entries /\ tick(f).reqs = f.reqs /\ tick(f).at = f.at
             /\ tick(f).left = IF f.left < 0 THEN f.left ELSE f.left - 1
  BY ValueRequestsAssumption DEF Entries
<1> HIDE DEF tick
<1>2. /\ {tick(e) : e \in entries} \in SUBSET Entries
      /\ \A e \in {tick(g) : g \in entries} : \E f \in entries :
            /\ e.reqs = f.reqs /\ e.at = f.at
            /\ e.left = IF f.left < 0 THEN f.left ELSE f.left - 1
      /\ \A f \in entries : \E e \in {tick(g) : g \in entries} : e.reqs = f.reqs /\ e.at = f.at
  BY <1>1
<1> QED
  BY <1>2 DEF tick, Ticked

\* A push to the end of a list.
LEMMA Pushed ==
  ASSUME TypeInv, NEW entries \in SUBSET Entries, NEW R \in SUBSET Requests
  PROVE  \E e \in Entries : /\ e.reqs = R /\ e.left = Timeout /\ e.at = pushed
                            /\ addRequests(entries, R) = entries \cup {e}
<1> DEFINE e == [reqs |-> R, left |-> Timeout, at |-> pushed]
<1>1. e \in Entries
  BY ValueRequestsAssumption DEF TypeInv, TypeOK, Entries
<1> QED
  BY <1>1 DEF addRequests

\* Results are appended.
LEMMA AnswerFacts ==
  ASSUME TypeInv, NEW R \in SUBSET Requests,
         NEW kind \in {"invalid", "result", "timeout"}, Answer(R, kind)
  PROVE  /\ answers' \in [Requests -> Seq({"invalid", "result", "timeout"})]
         /\ \A r \in R : Len(answers[r]) = 0 => Len(answers'[r]) = 1
         /\ \A r \in Requests \ R : answers'[r] = answers[r]
<1> DEFINE K == {"invalid", "result", "timeout"}
<1>1. \A r \in Requests : answers[r] \in Seq(K)
  BY DEF TypeInv
<1>2. \A r \in Requests : /\ Append(answers[r], kind) \in Seq(K)
                          /\ Len(answers[r]) = 0 => Len(Append(answers[r], kind)) = 1
  BY <1>1
<1>3. /\ \A r \in R : answers'[r] = Append(answers[r], kind)
      /\ \A r \in Requests \ R : answers'[r] = answers[r]
      /\ answers' = [r \in Requests |-> answers'[r]]
  BY DEF Answer
<1>4. answers' \in [Requests -> Seq(K)]
  BY <1>1, <1>2, <1>3
<1> QED
  BY <1>2, <1>3, <1>4

-----------------------------------------------------------------------------
(* Types. *)

LEMMA TypeInit == Init => TypeInv
<1> SUFFICES ASSUME Init PROVE TypeInv
  OBVIOUS
<1>1. TypeOK
  BY DEF Init, TypeOK
<1>2. answers \in [Requests -> Seq({"invalid", "result", "timeout"})]
  BY EmptySeq DEF Init
<1> QED
  BY <1>1, <1>2 DEF Init, TypeInv

\* TypeInv, in parts.
LEMMA TypeParts ==
  ASSUME TypeInv
  PROVE  /\ alive \subseteq Clients /\ object \subseteq Clients
         /\ address \in [Clients -> Addresses \cup {NoAddress}]
         /\ pool \in [Addresses -> SUBSET Entries] /\ pushed \in Nat
         /\ hardware \subseteq Requests
         /\ finished \subseteq SUBSET Requests /\ expired \subseteq SUBSET Requests
         /\ issued \subseteq Requests /\ failed \subseteq issued
         /\ destroyed \in BOOLEAN
         /\ \A k \in calls : /\ k.client \in Clients /\ k.reqs \subseteq Requests
                             /\ k.bad \subseteq Requests /\ k.registered \in BOOLEAN
                             /\ k.reqs \cap k.bad = {}
                             /\ k.reqs \cup k.bad \subseteq RequestsOf(k.client)
                             /\ k.reqs \cup k.bad \subseteq issued
BY DEF TypeInv, TypeOK

LEMMA ListChanged ==
  ASSUME TypeInv, NEW a, NEW entries, pool' = [pool EXCEPT ![a] = entries],
         a \in Addresses => entries \in SUBSET Entries
  PROVE  pool' \in [Addresses -> SUBSET Entries]
BY DEF TypeInv, TypeOK

LEMMA TypeStep ==
  ASSUME TypeInv, [Next]_vars
  PROVE  TypeInv'
<1> DEFINE Calls == [client : Clients, reqs : SUBSET Requests, bad : SUBSET Requests,
                     registered : BOOLEAN]
<1> USE DEF client, history
<1>1. CASE \E c \in Clients : \E R \in (SUBSET RequestsOf(c)) \ {{}} :
              \E bad \in SUBSET R : GetOrCreateClient(c, R, bad)
  <2>0. PICK c \in Clients : \E R \in (SUBSET RequestsOf(c)) \ {{}} :
           \E bad \in SUBSET R : GetOrCreateClient(c, R, bad)
    BY <1>1
  <2>1. PICK R \in (SUBSET RequestsOf(c)) \ {{}} :
           \E bad \in SUBSET R : GetOrCreateClient(c, R, bad)
    BY <2>0
  <2>2. PICK bad \in SUBSET R : GetOrCreateClient(c, R, bad)
    BY <2>1
  <2> DEFINE k == [client |-> c, reqs |-> R \ bad, bad |-> bad, registered |-> FALSE]
  <2>3. R \subseteq Requests
    BY DEF RequestsOf
  <2>4. /\ k \in Calls /\ k.reqs \cap k.bad = {} /\ k.reqs \cup k.bad = R
        /\ k.reqs \cup k.bad \subseteq RequestsOf(k.client)
    BY <2>3
  <2>5. calls' = calls \cup {k} /\ issued' = issued \cup R
    BY <2>2 DEF GetOrCreateClient
  <2>6. object' \subseteq Clients /\ address' \in [Clients -> Addresses \cup {NoAddress}]
    BY <2>2 DEF GetOrCreateClient, FreeAddresses, TypeInv, TypeOK
  <2>7. UNCHANGED <<alive, pool, pushed, hardware, finished, expired, failed, answers, destroyed>>
    BY <2>2 DEF GetOrCreateClient
  <2> HIDE DEF k
  <2> QED
    BY <2>3, <2>4, <2>5, <2>6, <2>7 DEF TypeInv, TypeOK
<1>2. CASE \E c \in Clients : \E R \in (SUBSET RequestsOf(c)) \ {{}} : ResultCallback(c, R)
  <2>0. PICK c \in Clients : \E R \in (SUBSET RequestsOf(c)) \ {{}} : ResultCallback(c, R)
    BY <1>2
  <2>1. PICK R \in (SUBSET RequestsOf(c)) \ {{}} : ResultCallback(c, R)
    BY <2>0
  <2> DEFINE a == address[c]
  <2>2. pool' = [pool EXCEPT ![a] = tryFinishRequests(@, Ids(R))]
    BY <2>1 DEF ResultCallback
  <2>3. pool' \in [Addresses -> SUBSET Entries]
    <3>1. a \in Addresses => pool[a] \in SUBSET Entries
      BY TypeParts
    <3>2. a \in Addresses => tryFinishRequests(pool[a], Ids(R)) \in SUBSET Entries
      BY <3>1, TryFinish DEF Without
    <3> QED
      BY <2>2, <3>2, ListChanged
  <2>4. R \subseteq Requests
    BY DEF RequestsOf
  <2>5. finished' \subseteq SUBSET Requests /\ hardware' \subseteq Requests
    BY <2>1, <2>4 DEF ResultCallback, TypeInv, TypeOK
  <2>6. UNCHANGED <<alive, object, address, pushed, calls, expired, issued, failed, answers, destroyed>>
    BY <2>1 DEF ResultCallback
  <2> QED
    BY <2>3, <2>5, <2>6 DEF TypeInv, TypeOK
<1>3. CASE \E c \in Clients : BinderDies(c) \/ onBinderDied(c)
  BY <1>3 DEF BinderDies, onBinderDied, TypeInv, TypeOK
<1>4. CASE \E k \in calls : AddRequests(k)
  <2>1. PICK k \in calls : AddRequests(k)
    BY <1>4
  <2> DEFINE a == address[k.client]
             done == [k EXCEPT !.registered = TRUE]
  <2>2. k \in Calls /\ k.reqs \subseteq Requests /\ k.bad \subseteq Requests
    BY DEF TypeInv
  <2>3. /\ done \in Calls /\ done.reqs = k.reqs /\ done.bad = k.bad
        /\ done.client = k.client
    BY <2>2
  <2>4. calls' \subseteq calls \cup {done}
    BY <2>1 DEF AddRequests
  <2> HIDE DEF done
  <2>5. /\ calls' \subseteq Calls
        /\ \A l \in calls' : /\ l.reqs \cap l.bad = {}
                             /\ l.reqs \cup l.bad \subseteq RequestsOf(l.client)
                             /\ l.reqs \cup l.bad \subseteq issued
    BY <2>3, <2>4 DEF TypeInv
  <2>6. UNCHANGED <<alive, object, address, hardware, finished, expired, issued, destroyed>>
    BY <2>1 DEF AddRequests
  <2>7. CASE CanAdd(pool[a], k.reqs)
    <3>1. /\ pool' = [pool EXCEPT ![a] = addRequests(@, k.reqs)]
          /\ pushed' = pushed + 1 /\ Answer(k.bad, "invalid") /\ UNCHANGED failed
      BY <2>1, <2>7 DEF AddRequests
    <3>2. pool' \in [Addresses -> SUBSET Entries]
      <4>1. a \in Addresses => pool[a] \in SUBSET Entries
        BY TypeParts
      <4>2. a \in Addresses => addRequests(pool[a], k.reqs) \in SUBSET Entries
        BY <2>2, <4>1, Pushed
      <4> QED
        BY <3>1, <4>2, ListChanged
    <3>3. answers' \in [Requests -> Seq({"invalid", "result", "timeout"})]
      BY <2>2, <3>1, AnswerFacts
    <3> QED
      BY <2>5, <2>6, <3>1, <3>2, <3>3 DEF TypeInv, TypeOK
  <2>8. CASE ~CanAdd(pool[a], k.reqs)
    <3>1. UNCHANGED <<pool, pushed, answers>> /\ failed' = failed \cup k.reqs \cup k.bad
      BY <2>1, <2>8 DEF AddRequests
    <3>2. failed' \subseteq issued
      BY <3>1, TypeParts
    <3> QED
      BY <2>5, <2>6, <3>1, <3>2 DEF TypeInv, TypeOK
  <2> QED
    BY <2>7, <2>8
<1>5. CASE \E k \in calls : HardwareAccepts(k)
  BY <1>5 DEF HardwareAccepts, TypeInv, TypeOK
<1>6. CASE \E k \in calls : HardwareRejects(k)
  <2>1. PICK k \in calls : HardwareRejects(k)
    BY <1>6
  <2>2. pool' = [pool EXCEPT ![address[k.client]] = tryFinishRequests(@, Ids(k.reqs))]
    BY <2>1 DEF HardwareRejects
  <2>3. pool' \in [Addresses -> SUBSET Entries]
    <3> DEFINE a == address[k.client]
    <3>1. a \in Addresses => pool[a] \in SUBSET Entries
      BY TypeParts
    <3>2. a \in Addresses => tryFinishRequests(pool[a], Ids(k.reqs)) \in SUBSET Entries
      BY <3>1, TryFinish DEF Without
    <3> QED
      BY <2>2, <3>2, ListChanged
  <2>4. /\ failed' = failed \cup k.reqs /\ calls' = calls \ {k}
        /\ UNCHANGED <<alive, object, address, pushed, hardware, finished, expired, issued, answers, destroyed>>
    BY <2>1 DEF HardwareRejects
  <2>5. failed' \subseteq issued
    BY <2>4, TypeParts
  <2> QED
    BY <2>3, <2>4, <2>5 DEF TypeInv, TypeOK
<1>7. CASE \E R \in finished : SendResults(R)
  <2>1. PICK R \in finished : SendResults(R)
    BY <1>7
  <2>2. R \in SUBSET Requests
    BY DEF TypeInv, TypeOK
  <2>3. answers' \in [Requests -> Seq({"invalid", "result", "timeout"})]
    BY <2>1, <2>2, AnswerFacts DEF SendResults
  <2> QED
    BY <2>1, <2>3 DEF SendResults, TypeInv, TypeOK
<1>8. CASE checkTimeout
  <2>1. pool' \in [Addresses -> SUBSET Entries]
    BY <1>8 DEF checkTimeout, TypeInv, TypeOK
  <2>2. \A a \in Addresses : \A e \in Expired(pool[a]) : e.reqs \in SUBSET Requests
    BY DEF Expired, TypeInv, TypeOK, Entries
  <2>3. expired' \subseteq SUBSET Requests
    BY <1>8, <2>2 DEF checkTimeout
  <2> QED
    BY <1>8, <2>1, <2>3 DEF checkTimeout, TypeInv, TypeOK
<1>9. CASE \E R \in expired : onTimeout(R)
  <2>1. PICK R \in expired : onTimeout(R)
    BY <1>9
  <2>2. R \in SUBSET Requests
    BY DEF TypeInv, TypeOK
  <2>3. answers' \in [Requests -> Seq({"invalid", "result", "timeout"})]
    BY <2>1, <2>2, AnswerFacts DEF onTimeout
  <2> QED
    BY <2>1, <2>3 DEF onTimeout, TypeInv, TypeOK
<1>10. CASE Tick
  <2>1. \A a \in Addresses : pool'[a] \in SUBSET Entries
    <3> SUFFICES ASSUME NEW a \in Addresses PROVE pool'[a] \in SUBSET Entries
      OBVIOUS
    <3>1. pool'[a] = Ticked(pool[a])
      BY <1>10 DEF Tick, Ticked
    <3>2. pool[a] \in SUBSET Entries
      BY DEF TypeInv, TypeOK
    <3> QED
      BY <3>1, <3>2, Ticks
  <2>2. pool' \in [Addresses -> SUBSET Entries]
    BY <1>10, <2>1 DEF Tick
  <2> QED
    BY <1>10, <2>2 DEF Tick, TypeInv, TypeOK
<1>11. CASE DestroyPool
  <2> DEFINE R == UNION {PendingIn(pool[a]) : a \in Addresses}
  <2>1. R \in SUBSET Requests
    BY DEF PendingIn, TypeInv, TypeOK, Entries
  <2>2. answers' \in [Requests -> Seq({"invalid", "result", "timeout"})]
    BY <1>11, <2>1, AnswerFacts DEF DestroyPool
  <2> QED
    BY <1>11, <2>2 DEF DestroyPool, TypeInv, TypeOK
<1>12. CASE UNCHANGED vars
  BY <1>12 DEF vars, TypeInv, TypeOK
<1> QED
  BY <1>1, <1>2, <1>3, <1>4, <1>5, <1>6, <1>7, <1>8, <1>9, <1>10, <1>11, <1>12, NextActions

\* The variables have their types; a pending request never has more time left
\* than mTimeoutInNano.
THEOREM TypeCorrect == Spec => []TypeOK
<1>1. TypeInv => TypeOK
  BY DEF TypeInv
<1> QED
  BY <1>1, TypeInit, TypeStep, PTL DEF Spec

-----------------------------------------------------------------------------
(* The shape of the pool. *)

\* A list loses pending requests, or these lose requests.
Shrinks ==
  /\ pushed' = pushed
  /\ \A a \in Addresses : \A e \in pool'[a] : \E f \in pool[a] :
        e.at = f.at /\ e.left = f.left /\ e.reqs \subseteq f.reqs

\* A pending request is pushed to the list of a client.
Pushes(a, R) ==
  /\ pushed' = pushed + 1
  /\ CanAdd(pool[a], R)
  /\ \E e \in Entries : /\ e.reqs = R /\ e.left = Timeout /\ e.at = pushed
                        /\ pool' = [pool EXCEPT ![a] = @ \cup {e}]

LEMMA PoolFrame ==
  ASSUME TypeInv, Next
  PROVE  Shrinks \/ (\E a : \E R \in SUBSET Requests : Pushes(a, R)) \/ Tick
<1> USE DEF client, history
<1>0. \A a \in Addresses : pool[a] \in SUBSET Entries
  BY TypeParts
<1>1. UNCHANGED <<pool, pushed>> => Shrinks
  BY DEF Shrinks
<1>2. ASSUME NEW a, NEW ids, pool' = [pool EXCEPT ![a] = tryFinishRequests(@, ids)],
             pushed' = pushed
      PROVE  Shrinks
  <2> SUFFICES ASSUME NEW b \in Addresses, NEW e \in pool'[b]
               PROVE  \E f \in pool[b] : e.at = f.at /\ e.left = f.left /\ e.reqs \subseteq f.reqs
    BY <1>2 DEF Shrinks
  <2>1. CASE b = a
    <3>1. pool'[b] = tryFinishRequests(pool[b], ids)
      BY <1>2, <2>1 DEF TypeInv, TypeOK
    <3>2. Without(pool[b], ids, pool'[b])
      BY <1>0, <3>1, TryFinish
    <3>3. PICK f \in pool[b] :
             /\ \A r \in Requests : r \in e.reqs <=> r \in f.reqs /\ idOf[r] \notin ids
             /\ e.left = f.left /\ e.at = f.at
      BY <3>2 DEF Without
    <3>4. e.reqs \subseteq Requests
      BY <3>2 DEF Without, Entries
    <3> QED
      BY <3>3, <3>4
  <2>2. CASE b # a
    BY <1>2, <2>2 DEF TypeInv, TypeOK
  <2> QED
    BY <2>1, <2>2
<1>3. CASE \E c \in Clients : \E R \in (SUBSET RequestsOf(c)) \ {{}} :
              \E bad \in SUBSET R : GetOrCreateClient(c, R, bad)
  BY <1>1, <1>3 DEF GetOrCreateClient
<1>4. CASE \E c \in Clients : \E R \in (SUBSET RequestsOf(c)) \ {{}} : ResultCallback(c, R)
  <2>1. PICK c, R : ResultCallback(c, R)
    BY <1>4
  <2> QED
    BY <1>2, <2>1 DEF ResultCallback
<1>5. CASE \E c \in Clients : BinderDies(c) \/ onBinderDied(c)
  BY <1>1, <1>5 DEF BinderDies, onBinderDied
<1>6. CASE \E k \in calls : AddRequests(k)
  <2>1. PICK k \in calls : AddRequests(k)
    BY <1>6
  <2> DEFINE a == address[k.client]
  <2>2. CASE CanAdd(pool[a], k.reqs)
    <3>1. /\ pool' = [pool EXCEPT ![a] = addRequests(@, k.reqs)]
          /\ pushed' = pushed + 1
      BY <2>1, <2>2 DEF AddRequests
    <3>2. k.reqs \in SUBSET Requests
      BY TypeParts
    <3>3. PICK e \in Entries : /\ e.reqs = k.reqs /\ e.left = Timeout /\ e.at = pushed
                               /\ addRequests({}, k.reqs) = {} \cup {e}
      BY <3>2, Pushed
    <3>4. addRequests(pool[a], k.reqs) = pool[a] \cup {e}
      BY <3>3 DEF addRequests
    <3>5. pool' = [pool EXCEPT ![a] = @ \cup {e}]
      BY <3>1, <3>4
    <3>6. Pushes(a, k.reqs)
      BY <2>2, <3>1, <3>3, <3>5 DEF Pushes
    <3> QED
      BY <3>2, <3>6
  <2>3. CASE ~CanAdd(pool[a], k.reqs)
    BY <1>1, <2>1, <2>3 DEF AddRequests
  <2> QED
    BY <2>2, <2>3
<1>7. CASE \E k \in calls : HardwareAccepts(k)
  BY <1>1, <1>7 DEF HardwareAccepts
<1>8. CASE \E k \in calls : HardwareRejects(k)
  <2>1. PICK k \in calls : HardwareRejects(k)
    BY <1>8
  <2> QED
    BY <1>2, <2>1 DEF HardwareRejects
<1>9. CASE \E R \in finished : SendResults(R)
  BY <1>1, <1>9 DEF SendResults
<1>10. CASE checkTimeout
  BY <1>10 DEF checkTimeout, Shrinks
<1>11. CASE \E R \in expired : onTimeout(R)
  BY <1>1, <1>11 DEF onTimeout
<1>12. CASE DestroyPool
  BY <1>12 DEF DestroyPool, Shrinks
<1> QED
  BY <1>3, <1>4, <1>5, <1>6, <1>7, <1>8, <1>9, <1>10, <1>11, <1>12, NextActions

LEMMA TickStep ==
  ASSUME TypeInv, Tick, NEW a \in Addresses
  PROVE  /\ \A e \in pool'[a] : \E f \in pool[a] :
               /\ e.reqs = f.reqs /\ e.at = f.at
               /\ e.left = IF f.left < 0 THEN f.left ELSE f.left - 1
         /\ \A f \in pool[a] : \E e \in pool'[a] : e.reqs = f.reqs /\ e.at = f.at
<1>1. pool[a] \in SUBSET Entries
  BY TypeParts
<1>2. pool'[a] = Ticked(pool[a])
  BY DEF Tick, Ticked
<1> QED
  BY <1>1, <1>2, Ticks

LEMMA OrderStep ==
  ASSUME TypeInv, OrderInv, Next
  PROVE  OrderInv'
<1>1. \A a \in Addresses : \A e \in pool[a] :
         /\ e.at \in Int /\ e.left \in Int /\ e.left =< Timeout
  BY TypeParts, ValueRequestsAssumption DEF Entries
<1>2. pushed \in Nat /\ pool \in [Addresses -> SUBSET Entries]
  BY TypeParts
<1>3. CASE Shrinks
  BY <1>1, <1>3 DEF Shrinks, OrderInv, QueuedInTimeoutOrder
<1>4. CASE \E a : \E R \in SUBSET Requests : Pushes(a, R)
  <2>1. PICK a, R : Pushes(a, R)
    BY <1>4
  <2>2. PICK e \in Entries : /\ e.left = Timeout /\ e.at = pushed
                             /\ pool' = [pool EXCEPT ![a] = @ \cup {e}]
    BY <2>1 DEF Pushes
  <2>3. \A b \in Addresses : \A f \in pool'[b] : f \in pool[b] \/ f = e
    BY <1>2, <2>2
  <2>4. pushed' = pushed + 1
    BY <2>1 DEF Pushes
  <2>5. \A b \in Addresses : \A f \in pool'[b] : f.at < pushed'
    BY <1>1, <1>2, <2>2, <2>3, <2>4 DEF OrderInv
  <2>6. QueuedInTimeoutOrder'
    <3> SUFFICES ASSUME NEW b \in Addresses, NEW f \in pool'[b], NEW g \in pool'[b],
                        f.at < g.at
                 PROVE  f.left =< g.left
      BY DEF QueuedInTimeoutOrder
    <3>1. CASE f \in pool[b] /\ g \in pool[b]
      BY <3>1 DEF OrderInv, QueuedInTimeoutOrder
    <3>2. CASE f \in pool[b] /\ g = e
      BY <1>1, <2>2, <3>2
    <3>3. CASE f = e /\ g \in pool[b]
      BY <1>1, <1>2, <2>2, <3>3 DEF OrderInv
    <3>4. CASE f = e /\ g = e
      BY <1>2, <2>2, <3>4
    <3> QED
      BY <2>3, <3>1, <3>2, <3>3, <3>4
  <2> QED
    BY <2>5, <2>6 DEF OrderInv
<1>5. CASE Tick
  <2>1. \A a \in Addresses : \A e \in pool'[a] : \E f \in pool[a] :
           e.at = f.at /\ e.left = IF f.left < 0 THEN f.left ELSE f.left - 1
    BY <1>5, TickStep
  <2>2. pushed' = pushed
    BY <1>5 DEF Tick
  <2>3. \A a \in Addresses : \A e \in pool'[a] : e.at < pushed'
    BY <2>1, <2>2 DEF OrderInv
  <2>4. QueuedInTimeoutOrder'
    <3> SUFFICES ASSUME NEW b \in Addresses, NEW f \in pool'[b], NEW g \in pool'[b],
                        f.at < g.at
                 PROVE  f.left =< g.left
      BY DEF QueuedInTimeoutOrder
    <3>1. PICK x \in pool[b] : f.at = x.at /\ f.left = IF x.left < 0 THEN x.left ELSE x.left - 1
      BY <2>1
    <3>2. PICK y \in pool[b] : g.at = y.at /\ g.left = IF y.left < 0 THEN y.left ELSE y.left - 1
      BY <2>1
    <3>3. x.left =< y.left
      BY <3>1, <3>2 DEF OrderInv, QueuedInTimeoutOrder
    <3>4. x.left \in Int /\ y.left \in Int
      BY <1>1
    <3> QED
      BY <3>1, <3>2, <3>3, <3>4
  <2> QED
    BY <2>3, <2>4 DEF OrderInv
<1> QED
  BY <1>3, <1>4, <1>5, PoolFrame

-----------------------------------------------------------------------------
(* The limit. *)

IdsIn(entries) == UNION {{e.at} \X Ids(e.reqs) : e \in entries}

\* A list never holds more IDs than the limit.
LimitInv == \A a \in Addresses : IsFiniteSet(IdsIn(pool[a])) /\ PendingCount(pool[a]) =< MaxPending

LEMMA IdsShrink ==
  ASSUME NEW old, NEW new,
         \A e \in new : \E f \in old : e.at = f.at /\ e.reqs \subseteq f.reqs,
         IsFiniteSet(IdsIn(old))
  PROVE  IsFiniteSet(IdsIn(new)) /\ PendingCount(new) =< PendingCount(old)
<1>1. IdsIn(new) \subseteq IdsIn(old)
  <2> SUFFICES ASSUME NEW e \in new, NEW p \in {e.at} \X Ids(e.reqs)
               PROVE  p \in IdsIn(old)
    BY DEF IdsIn
  <2>1. PICK f \in old : e.at = f.at /\ e.reqs \subseteq f.reqs
    OBVIOUS
  <2>2. p \in {f.at} \X Ids(f.reqs)
    BY <2>1 DEF Ids
  <2> QED
    BY <2>2 DEF IdsIn
<1>2. IsFiniteSet(IdsIn(new)) /\ Cardinality(IdsIn(new)) =< Cardinality(IdsIn(old))
  BY <1>1, FS_Subset
<1> QED
  BY <1>2 DEF PendingCount, IdsIn

LEMMA IdsGrow ==
  ASSUME NEW entries, IsFiniteSet(IdsIn(entries)), NEW e, IsFiniteSet(Ids(e.reqs))
  PROVE  /\ IsFiniteSet(IdsIn(entries \cup {e}))
         /\ PendingCount(entries \cup {e}) =< PendingCount(entries) + Cardinality(Ids(e.reqs))
<1> DEFINE I == Ids(e.reqs)
           P == {e.at} \X I
           f == [i \in I |-> <<e.at, i>>]
<1>1. IdsIn(entries \cup {e}) = IdsIn(entries) \cup P
  BY DEF IdsIn
<1>2. f \in Bijection(I, P)
  BY DEF Bijection, Injection, Surjection, IsInjective
<1>3. IsFiniteSet(P) /\ Cardinality(P) = Cardinality(I)
  <2>1. ExistsBijection(I, P)
    BY <1>2 DEF ExistsBijection
  <2> QED
    BY <2>1, FS_Bijection
<1> HIDE DEF P, I
<1>4. /\ IsFiniteSet(IdsIn(entries) \cup P)
      /\ Cardinality(IdsIn(entries) \cup P) =
            Cardinality(IdsIn(entries)) + Cardinality(P) - Cardinality(IdsIn(entries) \cap P)
  BY <1>3, FS_Union
<1>5. /\ Cardinality(IdsIn(entries)) \in Nat /\ Cardinality(P) \in Nat
      /\ Cardinality(IdsIn(entries) \cap P) \in Nat
  <2>1. IsFiniteSet(IdsIn(entries) \cap P)
    BY <1>3, FS_Subset
  <2> QED
    BY <1>3, <2>1, FS_CardinalityType
<1>6. /\ PendingCount(entries) = Cardinality(IdsIn(entries))
      /\ PendingCount(entries \cup {e}) = Cardinality(IdsIn(entries \cup {e}))
  BY DEF PendingCount, IdsIn
<1>7. IsFiniteSet(IdsIn(entries \cup {e}))
  BY <1>1, <1>4
<1>8. Cardinality(IdsIn(entries \cup {e})) =< Cardinality(IdsIn(entries)) + Cardinality(I)
  <2>1. Cardinality(IdsIn(entries \cup {e})) = Cardinality(IdsIn(entries) \cup P)
    BY <1>1, Zenon
  <2> QED
    BY <1>3, <1>4, <1>5, <2>1
<1> QED
  BY <1>6, <1>7, <1>8 DEF I

LEMMA IdsFinite ==
  ASSUME NEW R \in SUBSET Requests
  PROVE  IsFiniteSet(Ids(R))
<1>1. IsFiniteSet(R)
  BY ValueRequestsAssumption, FS_Subset
<1> DEFINE f == [r \in R |-> idOf[r]]
<1>2. f \in Surjection(R, Ids(R))
  BY DEF Surjection, Ids
<1> QED
  BY <1>1, <1>2, FS_Surjection

LEMMA LimitStep ==
  ASSUME TypeInv, LimitInv, Next
  PROVE  LimitInv'
<1>0. pool \in [Addresses -> SUBSET Entries]
  BY TypeParts
<1>1. \A a \in Addresses : /\ IsFiniteSet(IdsIn(pool[a]))
                           /\ PendingCount(pool[a]) \in Nat /\ PendingCount(pool[a]) =< MaxPending
  BY FS_CardinalityType DEF LimitInv, PendingCount, IdsIn
<1>2. ASSUME \A a \in Addresses : \A e \in pool'[a] : \E f \in pool[a] :
                e.at = f.at /\ e.reqs \subseteq f.reqs
      PROVE  LimitInv'
  <2> SUFFICES ASSUME NEW a \in Addresses
               PROVE  IsFiniteSet(IdsIn(pool'[a])) /\ PendingCount(pool'[a]) =< MaxPending
    BY DEF LimitInv, PendingCount, IdsIn, Ids
  <2>1. /\ IsFiniteSet(IdsIn(pool'[a]))
        /\ PendingCount(pool'[a]) =< PendingCount(pool[a])
    BY <1>1, <1>2, IdsShrink
  <2>2. PendingCount(pool'[a]) \in Nat
    BY <2>1, FS_CardinalityType DEF PendingCount, IdsIn
  <2> QED
    BY <1>1, <2>1, <2>2, ValueRequestsAssumption
<1>3. CASE Shrinks
  BY <1>2, <1>3 DEF Shrinks
<1>4. CASE Tick
  <2>1. \A a \in Addresses : \A e \in pool'[a] : \E f \in pool[a] :
           e.at = f.at /\ e.reqs = f.reqs
    BY <1>4, TickStep
  <2> QED
    BY <1>2, <2>1
<1>5. CASE \E a : \E R \in SUBSET Requests : Pushes(a, R)
  <2>1. PICK a : \E R \in SUBSET Requests : Pushes(a, R)
    BY <1>5
  <2>2. PICK R \in SUBSET Requests : Pushes(a, R)
    BY <2>1
  <2>3. PICK e \in Entries : /\ e.reqs = R
                             /\ pool' = [pool EXCEPT ![a] = @ \cup {e}]
    BY <2>2 DEF Pushes
  <2>4. Cardinality(Ids(R)) =< MaxPending - PendingCount(pool[a])
    BY <2>2 DEF Pushes, CanAdd
  <2>5. IsFiniteSet(Ids(e.reqs)) /\ Cardinality(Ids(R)) \in Nat
    BY <2>3, IdsFinite, FS_CardinalityType
  <2>6. ASSUME NEW b \in Addresses
        PROVE  IsFiniteSet(IdsIn(pool'[b])) /\ PendingCount(pool'[b]) =< MaxPending
    <3>1. CASE b = a
      <4>1. pool'[b] = pool[b] \cup {e}
        BY <1>0, <2>3, <3>1
      <4>2. /\ IsFiniteSet(IdsIn(pool'[b]))
            /\ PendingCount(pool'[b]) =< PendingCount(pool[b]) + Cardinality(Ids(R))
        BY <1>1, <2>3, <2>5, <4>1, IdsGrow
      <4>3. PendingCount(pool'[b]) \in Nat
        BY <4>2, FS_CardinalityType DEF PendingCount, IdsIn
      <4> QED
        BY <1>1, <2>4, <2>5, <3>1, <4>2, <4>3, ValueRequestsAssumption
    <3>2. CASE b # a
      BY <1>0, <1>1, <2>3, <3>2
    <3> QED
      BY <3>1, <3>2
  <2> QED
    BY <2>6 DEF LimitInv, PendingCount, IdsIn, Ids
<1> QED
  BY <1>3, <1>4, <1>5, PoolFrame

\* The lists stay in the shape that checkTimeout and addRequests count on, however
\* many requests of how many clients come, are finished and time out: in the order
\* of their timeouts, and within MAX_PENDING_REQUEST_PER_CLIENT.
THEOREM ShapeCorrect == Spec => []PoolInShape
<1> DEFINE Inv == TypeInv /\ OrderInv /\ LimitInv
<1>1. Init => Inv
  <2> SUFFICES ASSUME Init PROVE Inv
    OBVIOUS
  <2>1. OrderInv
    BY DEF Init, OrderInv, QueuedInTimeoutOrder
  <2>2. \A a \in Addresses : IdsIn(pool[a]) = {}
    BY DEF Init, IdsIn
  <2>3. LimitInv
    <3> SUFFICES ASSUME NEW a \in Addresses
                 PROVE  IsFiniteSet(IdsIn(pool[a])) /\ Cardinality(IdsIn(pool[a])) =< MaxPending
      BY DEF LimitInv, PendingCount, IdsIn
    <3> QED
      BY <2>2, FS_EmptySet, ValueRequestsAssumption
  <2> QED
    BY <2>1, <2>3, TypeInit
<1>2. Inv /\ [Next]_vars => Inv'
  <2> SUFFICES ASSUME Inv, [Next]_vars PROVE Inv'
    OBVIOUS
  <2>1. CASE Next
    BY <2>1, TypeStep, OrderStep, LimitStep
  <2>2. CASE UNCHANGED vars
    <3>1. TypeInv' /\ UNCHANGED <<pool, pushed>>
      BY <2>2, TypeStep DEF vars
    <3> QED
      BY <3>1 DEF OrderInv, QueuedInTimeoutOrder, LimitInv, PendingCount, IdsIn, Ids
  <2> QED
    BY <2>1, <2>2
<1>3. Inv => PoolInShape
  BY DEF OrderInv, LimitInv, PoolInShape, PendingWithinLimit
<1> QED
  BY <1>1, <1>2, <1>3, PTL DEF Spec

-----------------------------------------------------------------------------
(* Where the requests are.  The steps that take requests out of the pool. *)

PlaceFacts == TypeInv /\ AddressInv /\ ApartInv /\ PlaceInv

\* tryFinishRequests with requests of one client takes these out of the pool, and
\* no others.
LEMMA FinishEffect ==
  ASSUME Distinct, PlaceFacts, NEW c \in Clients, address[c] # NoAddress,
         NEW R \in SUBSET RequestsOf(c),
         pool' = [pool EXCEPT ![address[c]] = tryFinishRequests(@, Ids(R))]
  PROVE  /\ \A r \in Requests : InPool(r)' <=> InPool(r) /\ r \notin R
         /\ \A a \in Addresses : \A e, f \in pool'[a] : e.reqs \cap f.reqs # {} => e = f
         /\ \A a \in Addresses : \A e \in pool'[a] : \A r \in e.reqs : address[clientOf[r]] = a
<1> DEFINE a == address[c]
           ids == Ids(R)
<1>1. /\ a \in Addresses /\ pool \in [Addresses -> SUBSET Entries]
      /\ clientOf \in [Requests -> Clients]
  BY TypeParts, ValueRequestsAssumption DEF PlaceFacts
<1>2. /\ pool'[a] = tryFinishRequests(pool[a], ids)
      /\ \A b \in Addresses \ {a} : pool'[b] = pool[b]
  BY <1>1
<1>3. \A r \in R : r \in Requests /\ clientOf[r] = c /\ idOf[r] \in ids
  BY DEF RequestsOf, Ids
<1>4. ASSUME NEW r \in Requests, clientOf[r] = c
      PROVE  idOf[r] \in ids <=> r \in R
  BY <1>3, <1>4 DEF Distinct, Ids
<1>5. \A b \in Addresses : \A e \in pool[b] : \A r \in e.reqs :
         r \in Requests /\ address[clientOf[r]] = b
  BY <1>1 DEF PlaceFacts, AddressInv, Entries
<1>6. \A d \in Clients : address[d] = a => d = c
  BY DEF PlaceFacts, AddressInv
<1> HIDE DEF a, ids
<1>7. /\ pool'[a] \in SUBSET Entries
      /\ \A e \in pool'[a] : \E f \in pool[a] :
            \A r \in Requests : r \in e.reqs <=> r \in f.reqs /\ idOf[r] \notin ids
      /\ \A f \in pool[a] : \A r \in f.reqs : idOf[r] \notin ids =>
            \E e \in pool'[a] : r \in e.reqs
      /\ \A e, x \in pool'[a] :
            e # x => \E f, y \in pool[a] : /\ f # y
                                           /\ e.reqs \subseteq f.reqs
                                           /\ x.reqs \subseteq y.reqs
  <2>1. pool[a] \in SUBSET Entries
    BY <1>1
  <2>2. Without(pool[a], ids, pool'[a])
    BY <1>2, <2>1, TryFinish
  <2> QED
    BY <2>2 DEF Without
<1>8. \A e \in pool'[a] : \A r \in e.reqs : r \in Requests
  BY <1>2, <1>7 DEF Entries
<1>9. ASSUME NEW b \in Addresses, NEW e \in pool'[b], NEW r \in e.reqs
      PROVE  /\ \E f \in pool[b] : r \in f.reqs
             /\ r \notin R
  <2>1. CASE b = a
    <3>1. (\E f \in pool[a] : r \in f.reqs) /\ idOf[r] \notin ids
      BY <1>7, <1>8, <2>1
    <3> QED
      BY <1>3, <2>1, <3>1
  <2>2. CASE b # a
    <3>1. e \in pool[b]
      BY <1>2, <2>2
    <3>2. address[clientOf[r]] = b
      BY <1>5, <3>1
    <3> QED
      BY <1>3, <2>2, <3>1, <3>2 DEF a
  <2> QED
    BY <2>1, <2>2
<1>10. ASSUME NEW r \in Requests, r \notin R, NEW b \in Addresses, NEW f \in pool[b],
              r \in f.reqs
       PROVE  \E e \in pool'[b] : r \in e.reqs
  <2>1. CASE b = a
    <3>1. clientOf[r] = c
      BY <1>1, <1>5, <1>6, <1>10, <2>1
    <3>2. idOf[r] \notin ids
      BY <1>4, <1>10, <3>1
    <3> QED
      BY <1>7, <1>10, <2>1, <3>2
  <2>2. CASE b # a
    BY <1>2, <1>10, <2>2
  <2> QED
    BY <2>1, <2>2
<1>11. \A r \in Requests : InPool(r)' <=> InPool(r) /\ r \notin R
  <2> SUFFICES ASSUME NEW r \in Requests
               PROVE  InPool(r)' <=> InPool(r) /\ r \notin R
    OBVIOUS
  <2>1. InPool(r)' => InPool(r) /\ r \notin R
    BY <1>9 DEF InPool
  <2>2. InPool(r) /\ r \notin R => InPool(r)'
    BY <1>10 DEF InPool
  <2> QED
    BY <2>1, <2>2
<1>12. ASSUME NEW b \in Addresses, NEW e \in pool'[b], NEW x \in pool'[b],
              e.reqs \cap x.reqs # {}
       PROVE  e = x
  <2>1. CASE b = a
    <3> SUFFICES ASSUME e # x PROVE FALSE
      OBVIOUS
    <3>1. PICK f \in pool[a], y \in pool[a] : /\ f # y
                                              /\ e.reqs \subseteq f.reqs
                                              /\ x.reqs \subseteq y.reqs
      BY <1>7, <2>1
    <3> QED
      BY <1>1, <1>12, <3>1 DEF PlaceFacts, ApartInv
  <2>2. CASE b # a
    BY <1>2, <1>12, <2>2 DEF PlaceFacts, ApartInv
  <2> QED
    BY <2>1, <2>2
<1>13. ASSUME NEW b \in Addresses, NEW e \in pool'[b], NEW r \in e.reqs
       PROVE  address[clientOf[r]] = b
  BY <1>5, <1>9
<1> QED
  BY <1>11, <1>12, <1>13

\* A step of the clock moves nothing.
LEMMA TickEffect ==
  ASSUME PlaceFacts, Tick
  PROVE  /\ \A r \in Requests : InPool(r)' <=> InPool(r)
         /\ \A a \in Addresses : \A e, f \in pool'[a] : e.reqs \cap f.reqs # {} => e = f
         /\ \A a \in Addresses : \A e \in pool'[a] : \A r \in e.reqs : address[clientOf[r]] = a
<1>1. /\ \A a \in Addresses : \A e \in pool'[a] : \E f \in pool[a] :
            /\ e.reqs = f.reqs /\ e.at = f.at
            /\ e.left = IF f.left < 0 THEN f.left ELSE f.left - 1
      /\ \A a \in Addresses : \A f \in pool[a] : \E e \in pool'[a] : e.reqs = f.reqs /\ e.at = f.at
  BY TickStep DEF PlaceFacts
<1>2. \A r \in Requests : InPool(r)' <=> InPool(r)
  BY <1>1 DEF InPool
<1>3. \A a \in Addresses : \A e \in pool'[a] : \A r \in e.reqs : address[clientOf[r]] = a
  BY <1>1 DEF PlaceFacts, AddressInv
<1>4. ASSUME NEW a \in Addresses, NEW e \in pool'[a], NEW x \in pool'[a],
             e.reqs \cap x.reqs # {}
      PROVE  e = x
  <2>1. PICK f \in pool[a] : /\ e.reqs = f.reqs /\ e.at = f.at
                             /\ e.left = IF f.left < 0 THEN f.left ELSE f.left - 1
    BY <1>1
  <2>2. PICK y \in pool[a] : /\ x.reqs = y.reqs /\ x.at = y.at
                             /\ x.left = IF y.left < 0 THEN y.left ELSE y.left - 1
    BY <1>1
  <2>3. f = y
    BY <1>4, <2>1, <2>2 DEF PlaceFacts, ApartInv
  <2>4. e \in Entries /\ x \in Entries
    <3>1. TypeInv'
      BY TypeStep DEF PlaceFacts, Next
    <3> QED
      BY <3>1 DEF TypeInv, TypeOK
  <2> QED
    BY <2>1, <2>2, <2>3, <2>4 DEF Entries
<1> QED
  BY <1>2, <1>3, <1>4

\* What is not touched does not move.
LEMMA Unmoved ==
  /\ UNCHANGED calls => \A r \in Requests : InCall(r)' <=> InCall(r)
  /\ UNCHANGED pool => \A r \in Requests : InPool(r)' <=> InPool(r)
  /\ UNCHANGED finished => \A r \in Requests : InFinished(r)' <=> InFinished(r)
  /\ UNCHANGED expired => \A r \in Requests : InExpired(r)' <=> InExpired(r)
<1>1. UNCHANGED calls => \A r \in Requests : InCall(r)' <=> InCall(r)
  BY DEF InCall
<1>2. UNCHANGED pool => \A r \in Requests : InPool(r)' <=> InPool(r)
  BY DEF InPool
<1>3. UNCHANGED finished => \A r \in Requests : InFinished(r)' <=> InFinished(r)
  BY DEF InFinished
<1>4. UNCHANGED expired => \A r \in Requests : InExpired(r)' <=> InExpired(r)
  BY DEF InExpired
<1> QED
  BY <1>1, <1>2, <1>3, <1>4

\* AddressInv when no object gets an address.
LEMMA AddressFrame ==
  ASSUME PlaceFacts, UNCHANGED address,
         alive' \ object' \subseteq alive \ object, object' \subseteq object,
         \A k \in calls' : \E l \in calls : k.client = l.client,
         \A r \in hardware' : r \in hardware \/ address[clientOf[r]] # NoAddress,
         \A a \in Addresses : \A e \in pool'[a] : \A r \in e.reqs : address[clientOf[r]] = a
  PROVE  AddressInv'
BY DEF PlaceFacts, AddressInv

\* A group of results leaves its thread.
LEMMA SendEffect ==
  ASSUME PlaceFacts, NEW R \in finished, SendResults(R)
  PROVE  AddressInv' /\ ApartInv' /\ PlaceInv'
<1>1. /\ finished' = finished \ {R} /\ Answer(R, "result")
      /\ UNCHANGED <<alive, object, address, pool, calls, hardware, expired, issued, failed>>
  BY DEF SendResults, client
<1>2. AddressInv' /\ ApartInv'
  BY <1>1 DEF PlaceFacts, AddressInv, ApartInv
<1>3. R \in SUBSET Requests
  BY DEF PlaceFacts, TypeInv, TypeOK
<1>4. /\ \A r \in R : Len(answers[r]) = 0 => Len(answers'[r]) = 1
      /\ \A r \in Requests \ R : answers'[r] = answers[r]
  BY <1>1, <1>3, AnswerFacts DEF PlaceFacts
<1>5. \A r \in Requests : /\ InCall(r)' <=> InCall(r)
                          /\ InPool(r)' <=> InPool(r)
                          /\ InExpired(r)' <=> InExpired(r)
  BY <1>1, Unmoved
<1>6. \A r \in Requests : InFinished(r)' <=> InFinished(r) /\ r \notin R
  BY <1>1 DEF InFinished, PlaceFacts, ApartInv
<1>7. \A r \in R : InFinished(r)
  BY DEF InFinished
<1>8. ASSUME NEW r \in Requests
      PROVE  \E p \in Places : At(r, p)'
  <2>1. PICK p \in Places : At(r, p)
    BY DEF PlaceFacts, PlaceInv
  <2>2. CASE r \in R
    <3>0. p = "finished" /\ Len(answers[r]) = 0 /\ r \in issued
      BY <1>7, <2>1, <2>2 DEF At
    <3>1. Len(answers'[r]) = 1
      BY <1>4, <2>2, <3>0
    <3>2. At(r, "answered")'
      BY <1>1, <1>5, <1>6, <2>1, <2>2, <3>0, <3>1 DEF At
    <3> QED
      BY <3>2 DEF Places
  <2>3. CASE r \notin R
    <3>1. At(r, p)'
      BY <1>1, <1>4, <1>5, <1>6, <2>1, <2>3 DEF At
    <3> QED
      BY <3>1
  <2> QED
    BY <2>2, <2>3
<1> QED
  BY <1>2, <1>8 DEF PlaceInv

\* So does a group of timeouts.
LEMMA TimeoutEffect ==
  ASSUME PlaceFacts, NEW R \in expired, onTimeout(R)
  PROVE  AddressInv' /\ ApartInv' /\ PlaceInv'
<1>1. /\ expired' = expired \ {R} /\ Answer(R, "timeout")
      /\ UNCHANGED <<alive, object, address, pool, calls, hardware, finished, issued, failed>>
  BY DEF onTimeout, client
<1>2. AddressInv' /\ ApartInv'
  BY <1>1 DEF PlaceFacts, AddressInv, ApartInv
<1>3. R \in SUBSET Requests
  BY DEF PlaceFacts, TypeInv, TypeOK
<1>4. /\ \A r \in R : Len(answers[r]) = 0 => Len(answers'[r]) = 1
      /\ \A r \in Requests \ R : answers'[r] = answers[r]
  BY <1>1, <1>3, AnswerFacts DEF PlaceFacts
<1>5. \A r \in Requests : /\ InCall(r)' <=> InCall(r)
                          /\ InPool(r)' <=> InPool(r)
                          /\ InFinished(r)' <=> InFinished(r)
  BY <1>1, Unmoved
<1>6. \A r \in Requests : InExpired(r)' <=> InExpired(r) /\ r \notin R
  BY <1>1 DEF InExpired, PlaceFacts, ApartInv
<1>7. \A r \in R : InExpired(r)
  BY DEF InExpired
<1>8. ASSUME NEW r \in Requests
      PROVE  \E p \in Places : At(r, p)'
  <2>1. PICK p \in Places : At(r, p)
    BY DEF PlaceFacts, PlaceInv
  <2>2. CASE r \in R
    <3>0. p = "expired" /\ Len(answers[r]) = 0 /\ r \in issued
      BY <1>7, <2>1, <2>2 DEF At
    <3>1. Len(answers'[r]) = 1
      BY <1>4, <2>2, <3>0
    <3>2. At(r, "answered")'
      BY <1>1, <1>5, <1>6, <2>1, <2>2, <3>0, <3>1 DEF At
    <3> QED
      BY <3>2 DEF Places
  <2>3. CASE r \notin R
    <3>1. At(r, p)'
      BY <1>1, <1>4, <1>5, <1>6, <2>1, <2>3 DEF At
    <3> QED
      BY <3>1
  <2> QED
    BY <2>2, <2>3
<1> QED
  BY <1>2, <1>8 DEF PlaceInv

\* The hardware's callback: what is in the pool goes to the thread that called.
LEMMA CallbackEffect ==
  ASSUME Distinct, PlaceFacts, NEW c \in Clients, NEW R \in (SUBSET RequestsOf(c)) \ {{}},
         ResultCallback(c, R)
  PROVE  AddressInv' /\ ApartInv' /\ PlaceInv'
<1> DEFINE kept == {r \in R : idOf[r] \in Ids(R) \cap PendingIds(pool[address[c]])}
<1>1. /\ R \subseteq hardware /\ hardware' = hardware \ R
      /\ pool' = [pool EXCEPT ![address[c]] = tryFinishRequests(@, Ids(R))]
      /\ finished' = IF kept = {} THEN finished ELSE finished \cup {kept}
      /\ UNCHANGED <<alive, object, address, calls, expired, issued, failed, answers>>
  BY DEF ResultCallback, client, history
<1>2. \A r \in R : r \in Requests /\ clientOf[r] = c
  BY DEF RequestsOf
<1>3. address[c] # NoAddress
  BY <1>1, <1>2 DEF PlaceFacts, AddressInv
<1>4. /\ \A r \in Requests : InPool(r)' <=> InPool(r) /\ r \notin R
      /\ \A a \in Addresses : \A e, f \in pool'[a] : e.reqs \cap f.reqs # {} => e = f
      /\ \A a \in Addresses : \A e \in pool'[a] : \A r \in e.reqs : address[clientOf[r]] = a
  BY <1>1, <1>3, FinishEffect
<1>5. address[c] \in Addresses /\ pool \in [Addresses -> SUBSET Entries]
  BY <1>3, TypeParts DEF PlaceFacts
<1>6. ASSUME NEW r \in R
      PROVE  r \in kept <=> InPool(r)
  <2>1. ASSUME r \in kept PROVE InPool(r)
    <3>1. PICK s \in PendingIn(pool[address[c]]) : idOf[r] = idOf[s]
      BY <2>1 DEF PendingIds, Ids
    <3>2. PICK e \in pool[address[c]] : s \in e.reqs
      BY <3>1 DEF PendingIn
    <3>3. s \in Requests /\ address[clientOf[s]] = address[c]
      BY <1>5, <3>2 DEF Entries, PlaceFacts, AddressInv
    <3>4. clientOf[s] \in Clients
      BY <3>3, ValueRequestsAssumption
    <3>5. clientOf[s] = c
      BY <1>3, <3>3, <3>4 DEF PlaceFacts, AddressInv
    <3>6. r = s
      BY <1>2, <3>1, <3>3, <3>5 DEF Distinct
    <3> QED
      BY <1>5, <3>2, <3>6 DEF InPool
  <2>2. ASSUME InPool(r) PROVE r \in kept
    <3>1. PICK a \in Addresses : \E e \in pool[a] : r \in e.reqs
      BY <2>2 DEF InPool
    <3>2. PICK e \in pool[a] : r \in e.reqs
      BY <3>1
    <3>3. a = address[c]
      BY <1>2, <3>2 DEF PlaceFacts, AddressInv
    <3>4. r \in PendingIn(pool[address[c]])
      BY <3>2, <3>3 DEF PendingIn
    <3> QED
      BY <3>4 DEF PendingIds, Ids
  <2> QED
    BY <2>1, <2>2
<1>7. kept \subseteq R
  OBVIOUS
<1> HIDE DEF kept
<1>8. \A r \in Requests : InFinished(r)' <=> InFinished(r) \/ (r \in R /\ InPool(r))
  BY <1>1, <1>6, <1>7 DEF InFinished
<1>9. \A r \in Requests : /\ InCall(r)' <=> InCall(r)
                          /\ InExpired(r)' <=> InExpired(r)
  BY <1>1, Unmoved
<1>10. AddressInv'
  BY <1>1, <1>4, AddressFrame
<1>11. ApartInv'
  <2>1. ASSUME NEW S \in finished', NEW T \in finished', S \cap T # {}
        PROVE  S = T
    <3>1. ASSUME NEW U \in finished PROVE U \cap kept = {}
      <4> SUFFICES ASSUME NEW r \in U, r \in kept PROVE FALSE
        OBVIOUS
      <4>1. r \in Requests /\ InPool(r) /\ InFinished(r)
        BY <1>2, <1>6, <1>7 DEF InFinished
      <4>2. PICK p \in Places : At(r, p)
        BY <4>1 DEF PlaceFacts, PlaceInv
      <4> QED
        BY <4>1, <4>2 DEF At
    <3>2. \A U \in finished' : U \in finished \/ U = kept
      BY <1>1
    <3> QED
      BY <2>1, <3>1, <3>2 DEF PlaceFacts, ApartInv
  <2> QED
    BY <1>1, <1>4, <2>1 DEF PlaceFacts, ApartInv
<1>12. ASSUME NEW r \in Requests
       PROVE  \E p \in Places : At(r, p)'
  <2>1. PICK p \in Places : At(r, p)
    BY DEF PlaceFacts, PlaceInv
  <2>2. CASE r \in R /\ InPool(r)
    <3>1. At(r, "finished")'
      BY <1>1, <1>4, <1>8, <1>9, <2>1, <2>2 DEF At
    <3> QED
      BY <3>1 DEF Places
  <2>3. CASE ~(r \in R /\ InPool(r))
    <3>1. At(r, p)'
      BY <1>1, <1>4, <1>8, <1>9, <2>1, <2>3 DEF At
    <3> QED
      BY <3>1
  <2> QED
    BY <2>2, <2>3
<1> QED
  BY <1>10, <1>11, <1>12 DEF PlaceInv

\* A call is made: its requests were not issued before.
LEMMA IssueEffect ==
  ASSUME Distinct, PlaceFacts, NEW c \in Clients, NEW R \in (SUBSET RequestsOf(c)) \ {{}},
         NEW bad \in SUBSET R, GetOrCreateClient(c, R, bad)
  PROVE  AddressInv' /\ ApartInv' /\ PlaceInv'
<1> DEFINE k == [client |-> c, reqs |-> R \ bad, bad |-> bad, registered |-> FALSE]
<1>1. /\ calls' = calls \cup {k} /\ issued' = issued \cup R /\ R \cap issued = {}
      /\ UNCHANGED <<alive, pool, hardware, finished, expired, failed, answers>>
      /\ c \in alive
  BY DEF GetOrCreateClient
<1>2. k.client = c /\ k.reqs \cup k.bad = R /\ ~k.registered
  OBVIOUS
<1>3. /\ R \subseteq Requests
      /\ \A l \in calls : l.client \in Clients /\ l.reqs \cup l.bad \subseteq issued
  BY TypeParts DEF PlaceFacts, RequestsOf
<1>4. /\ object \subseteq Clients /\ address \in [Clients -> Addresses \cup {NoAddress}]
      /\ clientOf \in [Requests -> Clients] /\ NoAddress \notin Addresses
      /\ hardware \subseteq Requests /\ alive \subseteq Clients
      /\ \A a \in Addresses : \A e \in pool[a] : \A r \in e.reqs : r \in Requests
  BY TypeParts, ValueRequestsAssumption DEF PlaceFacts, Entries
<1>5. AddressInv'
  <2>1. CASE c \in object
    <3>1. UNCHANGED <<object, address>>
      BY <2>1 DEF GetOrCreateClient
    <3>2. address[c] # NoAddress
      BY <2>1 DEF PlaceFacts, AddressInv
    <3>3. \A l \in calls' : l \in calls \/ l.client = c
      BY <1>1, <1>2
    <3> HIDE DEF k
    <3> QED
      BY <1>1, <3>1, <3>2, <3>3 DEF PlaceFacts, AddressInv
  <2>2. CASE c \notin object
    <3>1. PICK a \in FreeAddresses : address' = [address EXCEPT ![c] = a]
      BY <2>2 DEF GetOrCreateClient
    <3>2. object' = object \cup {c}
      BY <2>2 DEF GetOrCreateClient
    <3>3. a \in Addresses /\ \A d \in Clients : address[d] # a
      BY DEF FreeAddresses, Distinct
    <3>4. address[c] = NoAddress
      BY <1>1, <2>2 DEF PlaceFacts, AddressInv
    <3>5. address'[c] = a /\ \A d \in Clients \ {c} : address'[d] = address[d]
      BY <1>4, <3>1
    <3>6. \A l \in calls' : l \in calls \/ l.client = c
      BY <1>1, <1>2
    <3> HIDE DEF k
    <3>7. \A d, e \in Clients : address'[d] = address'[e] => d = e \/ address'[d] = NoAddress
      BY <3>3, <3>5 DEF PlaceFacts, AddressInv
    <3>8. /\ \A d \in alive' \ object' : address'[d] = NoAddress
          /\ \A d \in object' : address'[d] # NoAddress
      BY <1>1, <1>4, <3>2, <3>3, <3>5 DEF PlaceFacts, AddressInv
    <3>9. \A l \in calls' : address'[l.client] # NoAddress
      BY <1>3, <1>4, <3>3, <3>5, <3>6 DEF PlaceFacts, AddressInv
    <3>10. \A r \in hardware' : address'[clientOf[r]] # NoAddress
      BY <1>1, <1>4, <3>3, <3>5 DEF PlaceFacts, AddressInv
    <3>11. ASSUME NEW b \in Addresses, NEW e \in pool'[b], NEW r \in e.reqs
           PROVE  address'[clientOf[r]] = b
      <4>1. address[clientOf[r]] = b /\ clientOf[r] \in Clients
        BY <1>1, <1>4 DEF PlaceFacts, AddressInv
      <4> QED
        BY <1>4, <3>4, <3>5, <4>1
    <3> QED
      BY <3>7, <3>8, <3>9, <3>10, <3>11 DEF AddressInv
  <2> QED
    BY <2>1, <2>2
<1>6. \A r \in Requests : InCall(r)' <=> InCall(r) \/ r \in R
  BY <1>1, <1>2 DEF InCall
<1> HIDE DEF k
<1>7. ApartInv'
  <2>1. \A l, m \in calls' : (l.reqs \cup l.bad) \cap (m.reqs \cup m.bad) # {} => l = m
    BY <1>1, <1>2, <1>3 DEF PlaceFacts, ApartInv
  <2> QED
    BY <1>1, <2>1 DEF PlaceFacts, ApartInv
<1>8. \A r \in Requests : /\ InPool(r)' <=> InPool(r)
                          /\ InFinished(r)' <=> InFinished(r)
                          /\ InExpired(r)' <=> InExpired(r)
  BY <1>1, Unmoved
<1>9. ASSUME NEW r \in Requests
      PROVE  \E p \in Places : At(r, p)'
  <2>1. PICK p \in Places : At(r, p)
    BY DEF PlaceFacts, PlaceInv
  <2>2. CASE r \in R
    <3>1. p = "new"
      BY <1>1, <2>1, <2>2 DEF At
    <3>2. At(r, "call")'
      BY <1>1, <1>6, <1>8, <2>1, <2>2, <3>1 DEF At
    <3> QED
      BY <3>2 DEF Places
  <2>3. CASE r \notin R
    <3>1. At(r, p)'
      BY <1>1, <1>6, <1>8, <2>1, <2>3 DEF At
    <3> QED
      BY <3>1
  <2> QED
    BY <2>2, <2>3
<1> QED
  BY <1>5, <1>7, <1>9 DEF PlaceInv

\* A call registers its requests in the pool and answers the bad ones, or fails.
LEMMA AddEffect ==
  ASSUME PlaceFacts, NEW k \in calls, AddRequests(k)
  PROVE  AddressInv' /\ ApartInv' /\ PlaceInv'
<1> DEFINE a == address[k.client]
           done == [k EXCEPT !.registered = TRUE]
<1>1. /\ ~k.registered
      /\ UNCHANGED <<alive, object, address, hardware, finished, expired, issued>>
      /\ calls \ {k} \subseteq calls' /\ calls' \subseteq (calls \ {k}) \cup {done}
  BY DEF AddRequests, client
<1>2. /\ k.client \in Clients /\ k.reqs \in SUBSET Requests /\ k.bad \in SUBSET Requests
      /\ k.reqs \cup k.bad \subseteq RequestsOf(k.client)
      /\ k.reqs \cap k.bad = {}
  BY TypeParts DEF PlaceFacts
<1>3. done.client = k.client /\ done.reqs = k.reqs /\ done.bad = k.bad /\ done.registered
  BY DEF PlaceFacts, TypeInv
<1> HIDE DEF done
<1>4. \A l, m \in calls' : (l.reqs \cup l.bad) \cap (m.reqs \cup m.bad) # {} => l = m
  BY <1>1, <1>3 DEF PlaceFacts, ApartInv
<1>5. \A r \in Requests : InCall(r)' <=> InCall(r) /\ r \notin k.reqs \cup k.bad
  BY <1>1, <1>3 DEF InCall, PlaceFacts, ApartInv
<1>6. \A r \in k.reqs \cup k.bad : InCall(r)
  BY <1>1 DEF InCall
<1>7. \A l \in calls' : \E m \in calls : l.client = m.client
  BY <1>1, <1>3
<1>8. \A r \in Requests : /\ InFinished(r)' <=> InFinished(r)
                          /\ InExpired(r)' <=> InExpired(r)
  BY <1>1, Unmoved
<1>9. \A b \in Addresses : \A e \in pool[b] : \A r \in e.reqs : r \in Requests
  BY TypeParts DEF PlaceFacts, Entries
<1>10. ASSUME NEW r \in k.reqs \cup k.bad
       PROVE  At(r, "call")
  <2>1. PICK p \in Places : At(r, p)
    BY <1>2 DEF PlaceFacts, PlaceInv
  <2>2. p = "call"
    BY <1>6, <2>1 DEF At
  <2> QED
    BY <2>1, <2>2
<1>11. CASE CanAdd(pool[a], k.reqs)
  <2>1. pool' = [pool EXCEPT ![a] = addRequests(@, k.reqs)] /\ Answer(k.bad, "invalid") /\ UNCHANGED failed
    BY <1>11 DEF AddRequests
  <2>2. /\ a \in Addresses /\ pool \in [Addresses -> SUBSET Entries]
    BY <1>2, TypeParts DEF PlaceFacts, AddressInv
  <2>3. PICK x \in Entries : x.reqs = k.reqs /\ addRequests(pool[a], k.reqs) = pool[a] \cup {x}
    <3>1. pool[a] \in SUBSET Entries
      BY <2>2
    <3> QED
      BY <1>2, <3>1, Pushed DEF PlaceFacts
  <2>4. pool'[a] = pool[a] \cup {x} /\ \A b \in Addresses \ {a} : pool'[b] = pool[b]
    BY <2>1, <2>2, <2>3
  <2>5. \A r \in Requests : InPool(r)' <=> InPool(r) \/ r \in k.reqs
    BY <2>2, <2>3, <2>4 DEF InPool
  <2>6. ASSUME NEW b \in Addresses, NEW e \in pool'[b], NEW r \in e.reqs
        PROVE  address[clientOf[r]] = b
    <3>1. CASE e \in pool[b]
      BY <3>1 DEF PlaceFacts, AddressInv
    <3>2. CASE b = a /\ e = x
      BY <1>2, <2>3, <3>2 DEF RequestsOf
    <3> QED
      BY <2>4, <3>1, <3>2
  <2>7. ASSUME NEW b \in Addresses, NEW e \in pool'[b], NEW f \in pool'[b], e.reqs \cap f.reqs # {}
        PROVE  e = f
    <3>1. ASSUME NEW g \in pool[b] PROVE g.reqs \cap k.reqs = {}
      <4> SUFFICES ASSUME NEW r \in g.reqs, r \in k.reqs PROVE FALSE
        OBVIOUS
      <4>1. InPool(r)
        BY DEF InPool
      <4> QED
        BY <1>10, <4>1 DEF At
    <3>2. (e \in pool[b] \/ e = x) /\ (f \in pool[b] \/ f = x)
      BY <2>4
    <3> QED
      BY <2>3, <2>7, <3>1, <3>2 DEF PlaceFacts, ApartInv
  <2>8. AddressInv'
    BY <1>1, <1>7, <2>6, AddressFrame
  <2>9. ApartInv'
    BY <1>1, <1>4, <2>7 DEF PlaceFacts, ApartInv
  <2>10. /\ \A r \in k.bad : Len(answers[r]) = 0 => Len(answers'[r]) = 1
         /\ \A r \in Requests \ k.bad : answers'[r] = answers[r]
    BY <1>2, <2>1, AnswerFacts DEF PlaceFacts
  <2>11. ASSUME NEW r \in Requests
         PROVE  \E p \in Places : At(r, p)'
    <3>1. CASE r \in k.reqs
      <4>1. At(r, "call")
        BY <1>10, <3>1
      <4>2. At(r, "pool")'
        BY <1>1, <1>2, <1>5, <1>8, <2>1, <2>5, <2>10, <3>1, <4>1 DEF At
      <4> QED
        BY <4>2 DEF Places
    <3>2. CASE r \in k.bad
      <4>1. At(r, "call") /\ r \notin k.reqs
        BY <1>2, <1>10, <3>2
      <4>2. Len(answers'[r]) = 1
        BY <2>10, <3>2, <4>1 DEF At
      <4>3. At(r, "answered")'
        BY <1>1, <1>5, <1>8, <2>1, <2>5, <3>2, <4>1, <4>2 DEF At
      <4> QED
        BY <4>3 DEF Places
    <3>3. CASE r \notin k.reqs \cup k.bad
      <4>1. PICK p \in Places : At(r, p)
        BY DEF PlaceFacts, PlaceInv
      <4>2. At(r, p)'
        BY <1>1, <1>5, <1>8, <2>1, <2>5, <2>10, <3>3, <4>1 DEF At
      <4> QED
        BY <4>2
    <3> QED
      BY <3>1, <3>2, <3>3
  <2> QED
    BY <2>8, <2>9, <2>11 DEF PlaceInv
<1>12. CASE ~CanAdd(pool[a], k.reqs)
  <2>1. UNCHANGED <<pool, answers>> /\ failed' = failed \cup k.reqs \cup k.bad
    BY <1>12 DEF AddRequests
  <2>2. AddressInv' /\ ApartInv'
    BY <1>1, <1>4, <1>7, <2>1 DEF PlaceFacts, AddressInv, ApartInv
  <2>3. \A r \in Requests : InPool(r)' <=> InPool(r)
    BY <2>1, Unmoved
  <2>4. ASSUME NEW r \in Requests
        PROVE  \E p \in Places : At(r, p)'
    <3>1. CASE r \in k.reqs \cup k.bad
      <4>1. At(r, "call")
        BY <1>10, <3>1
      <4>2. At(r, "failed")'
        BY <1>1, <1>5, <1>8, <2>1, <2>3, <3>1, <4>1 DEF At
      <4> QED
        BY <4>2 DEF Places
    <3>2. CASE r \notin k.reqs \cup k.bad
      <4>1. PICK p \in Places : At(r, p)
        BY DEF PlaceFacts, PlaceInv
      <4>2. At(r, p)'
        BY <1>1, <1>5, <1>8, <2>1, <2>3, <3>2, <4>1 DEF At
      <4> QED
        BY <4>2
    <3> QED
      BY <3>1, <3>2
  <2> QED
    BY <2>2, <2>4 DEF PlaceInv
<1> QED
  BY <1>11, <1>12

\* The hardware takes the requests of a call, or the call fails and takes them out
\* of the pool, but for those that timed out in the meantime.
LEMMA HardwareEffect ==
  ASSUME Distinct, PlaceFacts, NEW k \in calls, HardwareAccepts(k) \/ HardwareRejects(k)
  PROVE  AddressInv' /\ ApartInv' /\ PlaceInv'
<1>1. /\ k.registered /\ calls' = calls \ {k}
      /\ UNCHANGED <<alive, object, address, finished, expired, issued, answers>>
  BY DEF HardwareAccepts, HardwareRejects, client, history
<1>2. /\ k.client \in Clients /\ k.reqs \in SUBSET RequestsOf(k.client)
      /\ address[k.client] # NoAddress
      /\ \A r \in k.reqs : clientOf[r] = k.client
  BY TypeParts DEF PlaceFacts, AddressInv, RequestsOf
<1>3. \A r \in Requests : InCall(r)' <=> InCall(r)
  BY <1>1 DEF InCall
<1>4. \A r \in Requests : /\ InFinished(r)' <=> InFinished(r)
                          /\ InExpired(r)' <=> InExpired(r)
  BY <1>1, Unmoved
<1>5. CASE HardwareAccepts(k)
  <2>1. hardware' = hardware \cup k.reqs /\ UNCHANGED <<pool, failed>>
    BY <1>5 DEF HardwareAccepts, history
  <2>2. AddressInv' /\ ApartInv'
    BY <1>1, <1>2, <2>1 DEF PlaceFacts, AddressInv, ApartInv
  <2>3. \A r \in Requests : InPool(r)' <=> InPool(r)
    BY <2>1, Unmoved
  <2>4. ASSUME NEW r \in Requests
        PROVE  \E p \in Places : At(r, p)'
    <3>1. PICK p \in Places : At(r, p)
      BY DEF PlaceFacts, PlaceInv
    <3>2. At(r, p)'
      BY <1>1, <1>3, <1>4, <2>1, <2>3, <3>1 DEF At
    <3> QED
      BY <3>2
  <2> QED
    BY <2>2, <2>4 DEF PlaceInv
<1>6. CASE HardwareRejects(k)
  <2>1. /\ pool' = [pool EXCEPT ![address[k.client]] = tryFinishRequests(@, Ids(k.reqs))]
        /\ failed' = failed \cup k.reqs /\ UNCHANGED hardware
    BY <1>6 DEF HardwareRejects
  <2>2. /\ \A r \in Requests : InPool(r)' <=> InPool(r) /\ r \notin k.reqs
        /\ \A a \in Addresses : \A e, f \in pool'[a] : e.reqs \cap f.reqs # {} => e = f
        /\ \A a \in Addresses : \A e \in pool'[a] : \A r \in e.reqs : address[clientOf[r]] = a
    BY <1>2, <2>1, FinishEffect
  <2>3. AddressInv'
    BY <1>1, <2>1, <2>2, AddressFrame
  <2>4. ApartInv'
    BY <1>1, <2>2 DEF PlaceFacts, ApartInv
  <2>5. ASSUME NEW r \in Requests
        PROVE  \E p \in Places : At(r, p)'
    <3>1. PICK p \in Places : At(r, p)
      BY DEF PlaceFacts, PlaceInv
    <3>2. CASE r \in k.reqs /\ InPool(r)
      <4>1. p = "pool"
        BY <3>1, <3>2 DEF At
      <4>2. At(r, "failed")'
        BY <1>1, <1>3, <1>4, <2>1, <2>2, <3>1, <3>2, <4>1 DEF At
      <4> QED
        BY <4>2 DEF Places
    <3>3. CASE ~(r \in k.reqs /\ InPool(r))
      <4>1. At(r, p)'
        BY <1>1, <1>3, <1>4, <2>1, <2>2, <3>1, <3>3 DEF At
      <4> QED
        BY <4>1
    <3> QED
      BY <3>2, <3>3
  <2> QED
    BY <2>3, <2>4, <2>5 DEF PlaceInv
<1> QED
  BY <1>5, <1>6

\* checkTimeout takes what has expired out of the pool.
LEMMA ExpireEffect ==
  ASSUME PlaceFacts, checkTimeout
  PROVE  AddressInv' /\ ApartInv' /\ PlaceInv'
<1> DEFINE Gone(r) == \E a \in Addresses : \E e \in Expired(pool[a]) : r \in e.reqs
<1>1. /\ expired = {}
      /\ expired' = {e.reqs : e \in UNION {Expired(pool[a]) : a \in Addresses}}
      /\ pool' = [a \in Addresses |-> pool[a] \ Expired(pool[a])]
      /\ UNCHANGED <<alive, object, address, calls, hardware, finished, issued, failed, answers>>
  BY DEF checkTimeout, client, history
<1>2. \A a \in Addresses : /\ Expired(pool[a]) \subseteq pool[a]
                           /\ pool'[a] = pool[a] \ Expired(pool[a])
  BY <1>1 DEF Expired
<1>3. \A R \in expired' : \E a \in Addresses : \E e \in Expired(pool[a]) : R = e.reqs
  BY <1>1
<1>4. \A a \in Addresses : \A e \in Expired(pool[a]) : e.reqs \in expired'
  BY <1>1
<1>5. \A a, b \in Addresses : \A e \in pool[a] : \A f \in pool[b] :
         e.reqs \cap f.reqs # {} => a = b /\ e = f
  BY DEF PlaceFacts, AddressInv, ApartInv
<1>6. AddressInv'
  BY <1>1, <1>2 DEF PlaceFacts, AddressInv
<1>7. ApartInv'
  <2>1. \A R, S \in expired' : R \cap S # {} => R = S
    BY <1>2, <1>3, <1>5
  <2> QED
    BY <1>1, <1>2, <2>1 DEF PlaceFacts, ApartInv
<1>8. \A r \in Requests : /\ InCall(r)' <=> InCall(r)
                          /\ InFinished(r)' <=> InFinished(r)
  BY <1>1, Unmoved
<1>9. ASSUME NEW r \in Requests
      PROVE  /\ InExpired(r)' <=> Gone(r)
             /\ ~InExpired(r)
             /\ Gone(r) => InPool(r)
             /\ InPool(r)' <=> InPool(r) /\ ~Gone(r)
  <2>1. InExpired(r)' <=> Gone(r)
    BY <1>3, <1>4 DEF InExpired
  <2>2. ~InExpired(r)
    BY <1>1 DEF InExpired
  <2>3. Gone(r) => InPool(r)
    BY <1>2 DEF InPool
  <2>4. InPool(r)' => InPool(r) /\ ~Gone(r)
    BY <1>2, <1>5 DEF InPool
  <2>5. InPool(r) /\ ~Gone(r) => InPool(r)'
    BY <1>2 DEF InPool
  <2> QED
    BY <2>1, <2>2, <2>3, <2>4, <2>5
<1> HIDE DEF Gone
<1>10. ASSUME NEW r \in Requests
       PROVE  \E p \in Places : At(r, p)'
  <2>1. PICK p \in Places : At(r, p)
    BY DEF PlaceFacts, PlaceInv
  <2>2. CASE Gone(r)
    <3>1. p = "pool"
      BY <1>9, <2>1, <2>2 DEF At
    <3>2. At(r, "expired")'
      BY <1>1, <1>8, <1>9, <2>1, <2>2, <3>1 DEF At
    <3> QED
      BY <3>2 DEF Places
  <2>3. CASE ~Gone(r)
    <3>1. At(r, p)'
      BY <1>1, <1>8, <1>9, <2>1, <2>3 DEF At
    <3> QED
      BY <3>1
  <2> QED
    BY <2>2, <2>3
<1> QED
  BY <1>6, <1>7, <1>10 DEF PlaceInv

\* The destructor of the pool answers what is left in it.
LEMMA DestroyEffect ==
  ASSUME PlaceFacts, DestroyPool
  PROVE  AddressInv' /\ ApartInv' /\ PlaceInv'
<1> DEFINE R == UNION {PendingIn(pool[a]) : a \in Addresses}
<1>1. /\ finished = {} /\ expired = {} /\ hardware' = {}
      /\ Answer(R, "timeout") /\ pool' = [a \in Addresses |-> {}]
      /\ UNCHANGED <<alive, object, address, calls, finished, expired, issued, failed>>
  BY DEF DestroyPool, client
<1>2. /\ R \in SUBSET Requests
      /\ \A r \in Requests : r \in R <=> InPool(r)
  BY DEF PendingIn, InPool, PlaceFacts, TypeInv, TypeOK, Entries
<1>3. /\ \A r \in R : Len(answers[r]) = 0 => Len(answers'[r]) = 1
      /\ \A r \in Requests \ R : answers'[r] = answers[r]
  BY <1>1, <1>2, AnswerFacts DEF PlaceFacts
<1> HIDE DEF R
<1>4. AddressInv' /\ ApartInv'
  BY <1>1 DEF PlaceFacts, AddressInv, ApartInv
<1>5. \A r \in Requests : ~InPool(r)'
  BY <1>1 DEF InPool
<1>6. \A r \in Requests : /\ InCall(r)' <=> InCall(r)
                          /\ InFinished(r)' <=> InFinished(r)
                          /\ InExpired(r)' <=> InExpired(r)
  BY <1>1, Unmoved
<1>7. ASSUME NEW r \in Requests
      PROVE  \E p \in Places : At(r, p)'
  <2>1. PICK p \in Places : At(r, p)
    BY DEF PlaceFacts, PlaceInv
  <2>2. CASE r \in R
    <3>1. p = "pool" /\ Len(answers[r]) = 0
      BY <1>2, <2>1, <2>2 DEF At
    <3>2. Len(answers'[r]) = 1
      BY <1>3, <2>2, <3>1
    <3>3. At(r, "answered")'
      BY <1>1, <1>5, <1>6, <2>1, <3>1, <3>2 DEF At
    <3> QED
      BY <3>3 DEF Places
  <2>3. CASE r \notin R
    <3>1. At(r, p)'
      BY <1>1, <1>2, <1>3, <1>5, <1>6, <2>1, <2>3 DEF At
    <3> QED
      BY <3>1
  <2> QED
    BY <2>2, <2>3
<1> QED
  BY <1>4, <1>7 DEF PlaceInv

\* The steps that move no request.
LEMMA IdleEffect ==
  ASSUME PlaceFacts,
         \/ Tick
         \/ \E c \in Clients : BinderDies(c) \/ onBinderDied(c)
         \/ UNCHANGED vars
  PROVE  AddressInv' /\ ApartInv' /\ PlaceInv'
<1>1. UNCHANGED <<address, calls, hardware, finished, expired, issued, failed, answers>>
  BY DEF Tick, BinderDies, onBinderDied, vars, client, history
<1>2. alive' \ object' \subseteq alive \ object /\ object' \subseteq object
  BY DEF Tick, BinderDies, onBinderDied, vars, client, history
<1>3. /\ \A r \in Requests : InPool(r)' <=> InPool(r)
      /\ \A a \in Addresses : \A e, f \in pool'[a] : e.reqs \cap f.reqs # {} => e = f
      /\ \A a \in Addresses : \A e \in pool'[a] : \A r \in e.reqs : address[clientOf[r]] = a
  <2>1. CASE Tick
    BY <2>1, TickEffect
  <2>2. CASE ~Tick
    <3>1. UNCHANGED pool
      BY <2>2 DEF BinderDies, onBinderDied, vars
    <3> QED
      BY <3>1, Unmoved DEF PlaceFacts, AddressInv, ApartInv
  <2> QED
    BY <2>1, <2>2
<1>4. AddressInv'
  BY <1>1, <1>2, <1>3, AddressFrame
<1>5. ApartInv'
  BY <1>1, <1>3 DEF PlaceFacts, ApartInv
<1>6. \A r \in Requests : /\ InCall(r)' <=> InCall(r)
                          /\ InFinished(r)' <=> InFinished(r)
                          /\ InExpired(r)' <=> InExpired(r)
  BY <1>1, Unmoved
<1>7. ASSUME NEW r \in Requests
      PROVE  \E p \in Places : At(r, p)'
  <2>1. PICK p \in Places : At(r, p)
    BY DEF PlaceFacts, PlaceInv
  <2>2. At(r, p)'
    BY <1>1, <1>3, <1>6, <2>1 DEF At
  <2> QED
    BY <2>2
<1> QED
  BY <1>4, <1>5, <1>7 DEF PlaceInv

LEMMA PlaceInit == Init => PlaceFacts
<1> SUFFICES ASSUME Init PROVE PlaceFacts
  OBVIOUS
<1>1. TypeInv
  BY TypeInit
<1>2. AddressInv /\ ApartInv
  BY DEF Init, AddressInv, ApartInv
<1>3. ASSUME NEW r \in Requests
      PROVE  At(r, "new")
  <2>1. Len(answers[r]) = 0
    BY DEF Init
  <2> QED
    BY <2>1 DEF Init, At, InCall, InPool, InFinished, InExpired
<1> QED
  BY <1>1, <1>2, <1>3 DEF PlaceFacts, PlaceInv, Places

LEMMA PlaceStep ==
  ASSUME Distinct, PlaceFacts, [Next]_vars
  PROVE  PlaceFacts'
<1>1. TypeInv'
  BY TypeStep DEF PlaceFacts
<1>2. AddressInv' /\ ApartInv' /\ PlaceInv'
  BY NextActions, IssueEffect, CallbackEffect, AddEffect, HardwareEffect, SendEffect,
     ExpireEffect, TimeoutEffect, DestroyEffect, IdleEffect
<1> QED
  BY <1>1, <1>2 DEF PlaceFacts

\* However the hardware's answers, the timeouts, failing calls and the destruction of
\* the pool race, no request gets two results: taking it out of the pool decides.
THEOREM AtMostOnce ==
  ASSUME Distinct
  PROVE  Spec => []AtMostOneResult
<1>1. PlaceFacts => AtMostOneResult
  BY DEF PlaceFacts, PlaceInv, At, AtMostOneResult
<1>2. PlaceFacts /\ [Next]_vars => PlaceFacts'
  BY PlaceStep
<1> QED
  BY <1>1, <1>2, PlaceInit, PTL DEF Spec

\* And none is forgotten: it is answered, its call failed, or a thread or the pool
\* still has it.
THEOREM NoneForgotten ==
  ASSUME Distinct
  PROVE  Spec => []NothingLost
<1>1. PlaceFacts => NothingLost
  <2> SUFFICES ASSUME PlaceFacts, NEW r \in issued
               PROVE  r \in failed \/ answers[r] # <<>> \/ r \in Tracked
    BY DEF NothingLost
  <2>1. r \in Requests
    BY TypeParts DEF PlaceFacts
  <2>2. PICK p \in Places : At(r, p)
    BY <2>1 DEF PlaceFacts, PlaceInv
  <2> DEFINE Called == UNION {k.reqs \cup k.bad : k \in calls}
             Pooled == UNION {PendingIn(pool[a]) : a \in Addresses}
             Done == UNION finished
             Late == UNION expired
  <2>a. /\ \A k \in calls : k.reqs \cup k.bad \subseteq Called
        /\ \A a \in Addresses : PendingIn(pool[a]) \subseteq Pooled
    OBVIOUS
  <2>b. Tracked = Called \cup Pooled \cup Done \cup Late
    BY DEF Tracked
  <2> HIDE DEF Called, Pooled, Done, Late
  <2>3. CASE p = "answered"
    BY <2>2, <2>3 DEF At
  <2>4. CASE p = "failed"
    BY <2>2, <2>4 DEF At
  <2>5. CASE p = "call"
    <3>1. PICK k \in calls : r \in k.reqs \cup k.bad
      BY <2>2, <2>5 DEF At, InCall
    <3> QED
      BY <2>a, <2>b, <3>1
  <2>6. CASE p = "pool"
    <3>1. PICK a \in Addresses : r \in PendingIn(pool[a])
      BY <2>2, <2>6 DEF At, InPool, PendingIn
    <3> QED
      BY <2>a, <2>b, <3>1
  <2>7. CASE p = "finished"
    <3>1. r \in Done
      BY <2>2, <2>7 DEF At, InFinished, Done
    <3> QED
      BY <2>a, <2>b, <3>1
  <2>8. CASE p = "expired"
    <3>1. r \in Late
      BY <2>2, <2>8 DEF At, InExpired, Late
    <3> QED
      BY <2>a, <2>b, <3>1
  <2>9. p # "new"
    BY <2>2 DEF At
  <2> QED
    BY <2>3, <2>4, <2>5, <2>6, <2>7, <2>8, <2>9 DEF Places
<1>2. PlaceFacts /\ [Next]_vars => PlaceFacts'
  BY PlaceStep
<1> QED
  BY <1>1, <1>2, PlaceInit, PTL DEF Spec

-----------------------------------------------------------------------------
(* The requests keep the contract of IVehicle.  That every request is settled *)
(* in the end is liveness, and checked by TLC.                                *)

ContractStep == [Contract!CNext]_(Contract!contractVars)

\* A callback with the results of requests that had none.
LEMMA ReplyStep ==
  ASSUME TypeInv, NEW R \in SUBSET Requests, NEW kind \in {"invalid", "result", "timeout"},
         Answer(R, kind), \A r \in R : r \in issued /\ Len(answers[r]) = 0,
         UNCHANGED <<issued, failed>>
  PROVE  ContractStep
<1> DEFINE n == [r \in Requests |-> Len(answers[r])]
           m == [r \in Requests |-> Len(answers'[r])]
<1>1. /\ \A r \in R : Len(answers'[r]) = 1
      /\ \A r \in Requests \ R : answers'[r] = answers[r]
  BY AnswerFacts
<1>2. \A r \in R : n[r] = 0
  OBVIOUS
<1>3. m = [r \in Requests |-> IF r \in R THEN 1 ELSE n[r]]
  BY <1>1
<1>4. R \in SUBSET {r \in issued : n[r] = 0}
  BY <1>2
<1>5. Contract!CReply
  BY <1>3, <1>4 DEF Contract!CReply
<1> QED
  BY <1>5 DEF ContractStep, Contract!CNext

\* A step that sends nothing, issues nothing and fails nothing.
LEMMA SilentStep ==
  ASSUME UNCHANGED <<issued, failed, answers>>
  PROVE  ContractStep
BY DEF ContractStep, Contract!contractVars

\* A call that fails.
LEMMA FailStep ==
  ASSUME TypeInv, NEW R \in SUBSET issued, failed' = failed \cup R,
         UNCHANGED <<issued, answers>>
  PROVE  ContractStep
<1>1. Contract!CFail
  BY DEF Contract!CFail
<1> QED
  BY <1>1 DEF ContractStep, Contract!CNext

LEMMA StepKeepsContract ==
  ASSUME PlaceFacts, [Next]_vars
  PROVE  ContractStep
<1> USE DEF client, history
<1>0. TypeInv
  BY DEF PlaceFacts
<1>a. ASSUME NEW r \in Requests, InCall(r) \/ InPool(r) \/ InFinished(r) \/ InExpired(r)
      PROVE  r \in issued /\ Len(answers[r]) = 0
  <2>1. PICK p \in Places : At(r, p)
    BY DEF PlaceFacts, PlaceInv
  <2>2. p # "new" /\ p # "answered"
    BY <1>a, <2>1 DEF At
  <2> QED
    BY <2>1, <2>2 DEF At
<1>1. CASE \E c \in Clients : \E R \in (SUBSET RequestsOf(c)) \ {{}} :
              \E bad \in SUBSET R : GetOrCreateClient(c, R, bad)
  <2>1. PICK c \in Clients : \E R \in (SUBSET RequestsOf(c)) \ {{}} :
              \E bad \in SUBSET R : GetOrCreateClient(c, R, bad)
    BY <1>1
  <2>2. PICK R \in (SUBSET RequestsOf(c)) \ {{}} : \E bad \in SUBSET R : GetOrCreateClient(c, R, bad)
    BY <2>1
  <2>3. R \cap issued = {} /\ issued' = issued \cup R /\ UNCHANGED <<failed, answers>>
    BY <2>2 DEF GetOrCreateClient
  <2>4. R \in SUBSET (Requests \ issued)
    BY <2>3 DEF RequestsOf
  <2>5. Contract!CIssue
    BY <2>3, <2>4 DEF Contract!CIssue
  <2> QED
    BY <2>5 DEF ContractStep, Contract!CNext
<1>2. CASE \E c \in Clients : \E R \in (SUBSET RequestsOf(c)) \ {{}} : ResultCallback(c, R)
  BY <1>2, SilentStep DEF ResultCallback
<1>3. CASE \E c \in Clients : BinderDies(c) \/ onBinderDied(c)
  BY <1>3, SilentStep DEF BinderDies, onBinderDied
<1>4. CASE \E k \in calls : AddRequests(k)
  <2>1. PICK k \in calls : AddRequests(k)
    BY <1>4
  <2>2. /\ ~k.registered /\ UNCHANGED issued
        /\ k.reqs \subseteq issued /\ k.bad \subseteq issued /\ k.bad \in SUBSET Requests
    BY <1>0, <2>1, TypeParts DEF AddRequests
  <2>3. CASE CanAdd(pool[address[k.client]], k.reqs)
    <3>1. Answer(k.bad, "invalid") /\ UNCHANGED failed
      BY <2>1, <2>3 DEF AddRequests
    <3>2. \A r \in k.bad : r \in Requests /\ InCall(r)
      BY <2>2 DEF InCall
    <3>3. \A r \in k.bad : r \in issued /\ Len(answers[r]) = 0
      BY <1>a, <3>2
    <3> QED
      BY <1>0, <2>2, <3>1, <3>3, ReplyStep
  <2>4. CASE ~CanAdd(pool[address[k.client]], k.reqs)
    <3>1. failed' = failed \cup k.reqs \cup k.bad /\ UNCHANGED answers
      BY <2>1, <2>4 DEF AddRequests
    <3>2. k.reqs \cup k.bad \in SUBSET issued /\ failed' = failed \cup (k.reqs \cup k.bad)
      BY <2>2, <3>1
    <3> QED
      BY <1>0, <2>2, <3>1, <3>2, FailStep
  <2> QED
    BY <2>3, <2>4
<1>5. CASE \E k \in calls : HardwareAccepts(k)
  BY <1>5, SilentStep DEF HardwareAccepts
<1>6. CASE \E k \in calls : HardwareRejects(k)
  <2>1. PICK k \in calls : HardwareRejects(k)
    BY <1>6
  <2>2. k.reqs \in SUBSET issued
    BY <1>0, TypeParts
  <2>3. failed' = failed \cup k.reqs /\ UNCHANGED <<issued, answers>>
    BY <2>1 DEF HardwareRejects
  <2> QED
    BY <1>0, <2>2, <2>3, FailStep
<1>7. CASE \E R \in finished : SendResults(R)
  <2>1. PICK R \in finished : SendResults(R)
    BY <1>7
  <2>2. R \in SUBSET Requests
    BY <1>0 DEF TypeInv, TypeOK
  <2>3. \A r \in R : r \in issued /\ Len(answers[r]) = 0
    BY <1>a, <2>2 DEF InFinished
  <2>4. Answer(R, "result") /\ UNCHANGED <<issued, failed>>
    BY <2>1 DEF SendResults
  <2> QED
    BY <1>0, <2>2, <2>3, <2>4, ReplyStep
<1>8. CASE checkTimeout
  BY <1>8, SilentStep DEF checkTimeout
<1>9. CASE \E R \in expired : onTimeout(R)
  <2>1. PICK R \in expired : onTimeout(R)
    BY <1>9
  <2>2. R \in SUBSET Requests
    BY <1>0 DEF TypeInv, TypeOK
  <2>3. \A r \in R : r \in issued /\ Len(answers[r]) = 0
    BY <1>a, <2>2 DEF InExpired
  <2>4. Answer(R, "timeout") /\ UNCHANGED <<issued, failed>>
    BY <2>1 DEF onTimeout
  <2> QED
    BY <1>0, <2>2, <2>3, <2>4, ReplyStep
<1>10. CASE Tick
  BY <1>10, SilentStep DEF Tick
<1>11. CASE DestroyPool
  <2> DEFINE R == UNION {PendingIn(pool[a]) : a \in Addresses}
  <2>1. R \in SUBSET Requests
    BY <1>0 DEF PendingIn, TypeInv, TypeOK, Entries
  <2>2. \A r \in R : InPool(r)
    BY DEF InPool, PendingIn
  <2>3. Answer(R, "timeout") /\ UNCHANGED <<issued, failed>>
    BY <1>11 DEF DestroyPool
  <2> HIDE DEF R
  <2>4. \A r \in R : r \in issued /\ Len(answers[r]) = 0
    BY <1>a, <2>1, <2>2
  <2> QED
    BY <1>0, <2>1, <2>3, <2>4, ReplyStep
<1>12. CASE UNCHANGED vars
  BY <1>12, SilentStep DEF vars
<1> QED
  BY <1>1, <1>2, <1>3, <1>4, <1>5, <1>6, <1>7, <1>8, <1>9, <1>10, <1>11, <1>12, NextActions

\* Every behaviour of the requests is one that the contract allows: a step issues
\* requests, fails a call, sends one callback to requests that had none, or is not
\* seen by the client.
THEOREM ImplementsContract ==
  ASSUME Distinct
  PROVE  Spec => Contract!CInit /\ [][Contract!CNext]_(Contract!contractVars)
<1>1. Init => Contract!CInit
  BY DEF Init, Contract!CInit
<1>2. PlaceFacts /\ [Next]_vars => PlaceFacts'
  BY PlaceStep
<1>3. PlaceFacts /\ [Next]_vars => [Contract!CNext]_(Contract!contractVars)
  BY StepKeepsContract DEF ContractStep
<1> QED
  BY <1>1, <1>2, <1>3, PlaceInit, PTL DEF Spec
=============================================================================

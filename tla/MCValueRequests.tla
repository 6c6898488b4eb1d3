-------------------------- MODULE MCValueRequests --------------------------
(* Requests of one client, or of two clients that use the same request     *)
(* IDs.                                                                    *)
EXTENDS ValueRequests

CONSTANTS c1, c2, r1, r2, r3, a1, a2

OneClient == [r \in Requests |-> c1]
TwoClients == [r \in Requests |-> IF r = r3 THEN c2 ELSE c1]
UniqueIds == [r \in Requests |-> CASE r = r1 -> 1 [] r = r2 -> 2 [] OTHER -> 3]
SameIds == [r \in Requests |-> 1]
============================================================================

-------------------------- MODULE RequestContract --------------------------
(***************************************************************************)
(* What IVehicle promises a client of getValues and setValues: a request   *)
(* that was issued gets one result through the callback, or the call that  *)
(* carried it fails; it never gets two results, and it is never forgotten. *)
(***************************************************************************)
EXTENDS Naturals

CONSTANT Requests

VARIABLES
    issued,    \* requests that are part of a getValues or setValues call
    failed,    \* requests whose call returned an error
    replies    \* how many results the client got for each request

contractVars == <<issued, failed, replies>>

CInit == issued = {} /\ failed = {} /\ replies = [r \in Requests |-> 0]

CIssue == \E R \in SUBSET (Requests \ issued) :
              issued' = issued \cup R /\ UNCHANGED <<failed, replies>>

CFail == \E R \in SUBSET issued :
             failed' = failed \cup R /\ UNCHANGED <<issued, replies>>

\* One callback invocation carries the results of several requests.
CReply == \E R \in SUBSET {r \in issued : replies[r] = 0} :
              /\ replies' = [r \in Requests |->
                                 IF r \in R THEN 1 ELSE replies[r]]
              /\ UNCHANGED <<issued, failed>>

CNext == CIssue \/ CFail \/ CReply

Settled(r) == r \in failed \/ replies[r] > 0

CSpec == /\ CInit /\ [][CNext]_contractVars
         /\ \A r \in Requests : (r \in issued) ~> Settled(r)
============================================================================

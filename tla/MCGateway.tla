----------------------------- MODULE MCGateway -----------------------------
EXTENDS Gateway, TLC

CONSTANTS p1, p2

\* Two message groups that share a property, and one node for p2 only.
TwoNodes == (1 :> <<{p1}, {p1, p2}>>) @@ (2 :> <<{p2}>>)

OneNode == 1 :> <<{p1}, {p1, p2}>>
=============================================================================

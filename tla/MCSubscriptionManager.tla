---------------------- MODULE MCSubscriptionManager ----------------------
(***************************************************************************)
(* Instances of SubscriptionManager for TLC: two areas of one on-change    *)
(* property (a window), a second on-change property, and a continuous      *)
(* property (the speed).                                                   *)
(***************************************************************************)
EXTENDS SubscriptionManager, TLC

CONSTANTS c1, c2, c3, w1, w2, g1, s1, window, gear, speed

MCPropIds == {window, gear, speed}
MCPropId == [p \in PropIdAreaIds |-> CASE p \in {w1, w2} -> window
                                       [] p = g1 -> gear
                                       [] OTHER -> speed]
MCClientSymmetry == Permutations(Clients)
==========================================================================

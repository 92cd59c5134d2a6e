--------------------------- MODULE MCStateMachine ---------------------------
(* A machine with two states, two transitions and two names: "long" is cut *)
(* by strncpy to the other one.                                            *)
EXTENDS StateMachine

CONSTANTS go, long

MCTrunc == [n \in Names |-> go]
MCCode == [n \in AnyName |-> IF n = go THEN 1 ELSE IF n = long THEN 2 ELSE 0]
=============================================================================

----------------------------- MODULE MCProtocol -----------------------------
(* The protocol's own names; all are shorter than POLYCALL_MAX_NAME_LENGTH. *)
EXTENDS Protocol

MCNames == ProtocolStates \cup {TransitionName[s] : s \in DOMAIN TransitionName}
MCTrunc == [n \in MCNames |-> n]

\* A numbering of the names, the empty one first.
MCOrder == <<"">> \o Order \o [t \in 1 .. 5 |-> TransitionName[Order[t + 1]]]
MCCode == [n \in MCNames \cup {""} |-> (CHOOSE k \in 1 .. Len(MCOrder) : MCOrder[k] = n) - 1]
=============================================================================

--------------------------- MODULE Protocol_proofs ---------------------------
(***************************************************************************)
(* Proofs about the protocol session, for any width of the sequence        *)
(* numbers, any choice of calls and any states the application locks,      *)
(* whether or not it populates the session's machine.                      *)
(***************************************************************************)
EXTENDS Protocol, TLAPS

----------------------------------------------------------------------------
(* The inductive invariant *)

\* The transitions of a populated machine: the name "to_x" leads to x.
TableInv ==
  is_initialized /\ populated =>
    /\ num_transitions = 5
    /\ \A t \in TransitionIds : t < 5 =>
         /\ transitions[t].name = TransitionName[Order[t + 2]]
         /\ transitions[t].to_state = t + 1

\* Nothing has happened in a session whose machine is empty, and nothing is
\* going on in one that is not open.
EmptyInv ==
  /\ is_initialized /\ ~populated =>
       num_transitions = 0 /\ state = "INIT" /\ current_state = 0
  /\ ~(is_initialized /\ populated) => depth = 0

\* The machine's running transitions are those the session has started.
RunningInv ==
  /\ DOMAIN frame = Frames /\ DOMAIN target = Frames
  /\ depth \in 0 .. MaxDepth
  /\ \A k \in 1 .. depth :
       /\ target[k] \in ProtocolStates \ {"INIT"}
       /\ frame[k] = [from_state |-> frame[k].from_state, to_state |-> Ordinal[target[k]],
                      inside |-> frame[k].inside]

\* The two copies of the session state agree.
CopiesInv ==
  is_initialized /\ populated => current_state = Ordinal[state]

\* A handshake on the wire has been followed by a transition out of INIT, or
\* the machine has refused it, or a callback has started another transition.
HandshakeInv ==
  ~refused /\ ~reentered =>
    \A i \in 1 .. Len(wire) : wire[i].type = "HANDSHAKE" => state # "INIT" \/ depth > 0

SessionInv == TableInv /\ EmptyInv /\ RunningInv /\ CopiesInv

IndInv == /\ PTypeOK
          /\ SessionInv
          /\ WireIncreasing
          /\ HandshakeInv
          /\ OneHandshake

----------------------------------------------------------------------------
(* The wire: what polycall_protocol_send does *)

\* next_sequence keeps its width, and moves up by one unless it wraps.
LEMMA SequenceStep ==
  ASSUME NEW n \in 0 .. SeqMod - 1
  PROVE  /\ NextSequence(n) \in 0 .. SeqMod - 1
         /\ n # SeqMod - 1 => NextSequence(n) = n + 1
BY ProtocolAssumption DEF NextSequence

\* The wire holds one message more, or is left alone; its type is kept.
LEMMA SendTypes ==
  ASSUME PTypeOK, NEW type \in MessageTypes, NEW ok \in BOOLEAN, Send(type, ok)
  PROVE  /\ next_sequence' \in 0 .. SeqMod - 1
         /\ wrapped' \in BOOLEAN
         /\ wire' \in Seq(Message) /\ Len(wire') <= MaxWire
         /\ \/ wire' = wire
            \/ ok /\ wire' = Append(wire, [type |-> type, sequence |-> next_sequence])
<1>1. next_sequence' \in 0 .. SeqMod - 1
  BY SequenceStep DEF PTypeOK, Send
<1>2. wrapped' \in BOOLEAN
  BY DEF PTypeOK, Send
<1>3. \/ wire' = wire
      \/ ok /\ Len(wire) < MaxWire
            /\ wire' = Append(wire, [type |-> type, sequence |-> next_sequence])
  BY DEF Send
<1>4. [type |-> type, sequence |-> next_sequence] \in Message
  BY DEF PTypeOK, Message
<1>5. wire' \in Seq(Message) /\ Len(wire') <= MaxWire
  BY <1>3, <1>4, ProtocolAssumption DEF PTypeOK
<1> QED
  BY <1>1, <1>2, <1>3, <1>5

\* The numbers on the wire stay below the next one and increasing.
LEMMA SendIncreasing ==
  ASSUME PTypeOK, WireIncreasing, NEW type \in MessageTypes, NEW ok \in BOOLEAN, Send(type, ok)
  PROVE  WireIncreasing'
<1> SUFFICES ASSUME ~wrapped', NEW j \in 1 .. Len(wire')
             PROVE  /\ wire'[j].sequence < next_sequence'
                    /\ \A i \in 1 .. j - 1 : wire'[i].sequence < wire'[j].sequence
  BY DEF WireIncreasing
<1> DEFINE m == [type |-> type, sequence |-> next_sequence]
<1>1. ~wrapped /\ next_sequence # SeqMod - 1
  BY Zenon DEF Send
<1>2. next_sequence \in 0 .. SeqMod - 1 /\ next_sequence' = next_sequence + 1
  BY <1>1, SequenceStep DEF Send, PTypeOK
<1>3. wire \in Seq(Message)
  BY DEF PTypeOK
<1>4. \A k \in 1 .. Len(wire) : wire[k].sequence \in 0 .. SeqMod - 1
  <2>1. \A k \in 1 .. Len(wire) : wire[k] \in Message
    BY <1>3
  <2> QED
    BY <2>1 DEF Message
<1>5. \A k \in 1 .. Len(wire) :
        /\ wire[k].sequence < next_sequence
        /\ \A i \in 1 .. k - 1 : wire[i].sequence < wire[k].sequence
  BY <1>1 DEF WireIncreasing
<1>6. CASE wire' = wire
  BY <1>2, <1>4, <1>5, <1>6, ProtocolAssumption
<1>7. CASE wire' = Append(wire, m)
  <2>1. /\ Len(wire') = Len(wire) + 1 /\ Len(wire) \in Nat
        /\ \A k \in 1 .. Len(wire) : wire'[k] = wire[k]
        /\ wire'[Len(wire) + 1] = m
    BY <1>3, <1>7
  <2>2. CASE j \in 1 .. Len(wire)
    <3>1. \A i \in 1 .. j - 1 : i \in 1 .. Len(wire)
      BY <2>1, <2>2
    <3>2. wire'[j] = wire[j] /\ \A i \in 1 .. j - 1 : wire'[i] = wire[i]
      BY <2>1, <2>2, <3>1
    <3>3. \A i \in 1 .. j - 1 : wire'[i].sequence < wire'[j].sequence
      BY <1>5, <2>2, <3>2
    <3>4. wire'[j].sequence < next_sequence /\ wire'[j].sequence \in 0 .. SeqMod - 1
      BY <1>4, <1>5, <2>2, <3>2
    <3> QED
      BY <1>2, <3>3, <3>4, ProtocolAssumption
  <2>3. CASE j = Len(wire) + 1
    <3>1. wire'[j].sequence = next_sequence
      BY <2>1, <2>3
    <3>2. \A i \in 1 .. j - 1 : i \in 1 .. Len(wire) /\ wire'[i] = wire[i]
      BY <2>1, <2>3
    <3>3. \A i \in 1 .. j - 1 : wire'[i].sequence < wire'[j].sequence
      BY <1>5, <3>1, <3>2
    <3> QED
      BY <1>2, <3>1, <3>3, ProtocolAssumption
  <2> QED
    BY <2>1, <2>2, <2>3
<1> QED
  BY <1>6, <1>7, SendTypes

\* What matters of the handshakes on the wire: none, or the only one.
NoHandshake == \A i \in 1 .. Len(wire) : wire[i].type # "HANDSHAKE"

\* A message of another kind changes nothing about the handshakes.
LEMMA SendOther ==
  ASSUME PTypeOK, NEW type \in MessageTypes \ {"HANDSHAKE"}, NEW ok \in BOOLEAN, Send(type, ok)
  PROVE  \A i \in 1 .. Len(wire') :
           wire'[i].type = "HANDSHAKE" => i \in 1 .. Len(wire) /\ wire[i].type = "HANDSHAKE"
<1>1. wire \in Seq(Message)
  BY DEF PTypeOK
<1>2. CASE wire' = wire
  BY <1>2
<1>3. CASE wire' = Append(wire, [type |-> type, sequence |-> next_sequence])
  BY <1>1, <1>3
<1> QED
  BY <1>2, <1>3, SendTypes

\* A handshake sent on a wire without one is the only one; a send that fails
\* leaves none.
LEMMA SendHandshake ==
  ASSUME PTypeOK, NoHandshake, NEW ok \in BOOLEAN, Send("HANDSHAKE", ok)
  PROVE  /\ \A i, j \in 1 .. Len(wire') :
              wire'[i].type = "HANDSHAKE" /\ wire'[j].type = "HANDSHAKE" => i = j
         /\ ~ok => NoHandshake'
<1>1. wire \in Seq(Message) /\ "HANDSHAKE" \in MessageTypes
  BY DEF PTypeOK, MessageTypes
<1>2. CASE wire' = wire
  BY <1>2 DEF NoHandshake
<1>3. CASE ok /\ wire' = Append(wire, [type |-> "HANDSHAKE", sequence |-> next_sequence])
  BY <1>1, <1>3 DEF NoHandshake
<1> QED
  BY <1>1, <1>2, <1>3, SendTypes

----------------------------------------------------------------------------
(* The machine: what transition_protocol_state does *)

\* Among the five transitions the one with the name of `new` leads to it.
LEMMA NameLeadsThere ==
  ASSUME NEW new \in ProtocolStates \ {"INIT"}, NEW t \in 0 .. 4,
         TransitionName[Order[t + 2]] = TransitionName[new]
  PROVE  Ordinal[new] = t + 1
<1>1. t \in {0, 1, 2, 3, 4}
  OBVIOUS
<1>2. /\ Order[2] = "HANDSHAKE" /\ Order[3] = "AUTH" /\ Order[4] = "READY"
      /\ Order[5] = "ERROR" /\ Order[6] = "CLOSED"
  BY DEF Order
<1>3. /\ TransitionName["HANDSHAKE"] = "to_handshake" /\ TransitionName["AUTH"] = "to_auth"
      /\ TransitionName["READY"] = "to_ready" /\ TransitionName["ERROR"] = "to_error"
      /\ TransitionName["CLOSED"] = "to_closed"
  BY DEF TransitionName
<1>4. /\ Ordinal["HANDSHAKE"] = 1 /\ Ordinal["AUTH"] = 2 /\ Ordinal["READY"] = 3
      /\ Ordinal["ERROR"] = 4 /\ Ordinal["CLOSED"] = 5
  BY DEF Ordinal
<1>5. new \in {"HANDSHAKE", "AUTH", "READY", "ERROR", "CLOSED"}
  BY DEF ProtocolStates
<1>6. new = Order[t + 2]
  BY <1>1, <1>2, <1>3, <1>5
<1> QED
  BY <1>1, <1>2, <1>4, <1>6

\* A call that touches neither the machine nor the session state.
LEMMA QuietStep ==
  ASSUME SessionInv, UNCHANGED <<smvars, moves>>, populated' = populated
  PROVE  SessionInv' /\ UNCHANGED <<state, target, refused, reentered, depth>>
BY DEF SessionInv, TableInv, EmptyInv, RunningInv, CopiesInv, smvars, vars, machine, table,
       calls, moves

\* transition_protocol_state starts the transition to `new` or is refused;
\* the session state stays as it is until the machine is done.
LEMMA TransitionStep ==
  ASSUME PTypeOK, SessionInv, Open, NEW new \in ProtocolStates \ {"INIT"}, TransitionTo(new),
         populated' = populated
  PROVE  /\ SessionInv'
         /\ state' = state
         /\ target' \in [Frames -> (ProtocolStates \ {"INIT"}) \cup {"NONE"}]
         /\ refused' \in BOOLEAN /\ reentered' \in BOOLEAN
         /\ \/ depth' = depth + 1 /\ refused' = refused /\ reentered' = (reentered \/ depth > 0)
            \/ depth' = depth /\ refused' = TRUE
<1> DEFINE name == TransitionName[new]
<1>0. is_initialized /\ depth \in 0 .. MaxDepth
  BY DEF Open, SessionInv, RunningInv
<1>1. CASE /\ ExecuteBegin(name, TRUE)
           /\ target' = [target EXCEPT ![depth + 1] = new]
           /\ reentered' = (reentered \/ depth > 0)
           /\ UNCHANGED <<state, refused>>
  <2>1. PICK t \in TransitionIds :
          /\ Found(name, t)
          /\ frame' = [frame EXCEPT ![depth + 1] =
                         [from_state |-> transitions[t].from_state,
                          to_state |-> transitions[t].to_state, inside |-> FALSE]]
    BY <1>1 DEF ExecuteBegin
  <2>2. /\ depth' = depth + 1 /\ depth + 1 \in Frames /\ depth' \in 0 .. MaxDepth
        /\ UNCHANGED <<machine, table>>
    BY <1>0, <1>1, SizesAssumption DEF ExecuteBegin, Frames
  <2>3. t < num_transitions /\ transitions[t].name = name /\ t \in Nat
    BY <2>1 DEF Found, Matching, TransitionIds
  <2>4. populated
    BY <1>0, <2>3 DEF SessionInv, EmptyInv
  <2>5. t \in 0 .. 4 /\ name = TransitionName[Order[t + 2]] /\ transitions[t].to_state = t + 1
    BY <1>0, <2>3, <2>4 DEF SessionInv, TableInv
  <2>6. transitions[t].to_state = Ordinal[new]
    BY <2>5, NameLeadsThere
  <2>7. RunningInv'
    <3>1. DOMAIN frame' = Frames /\ DOMAIN target' = Frames
      BY <1>1, <2>1 DEF SessionInv, RunningInv
    <3>2. ASSUME NEW k \in 1 .. depth'
          PROVE  /\ target'[k] \in ProtocolStates \ {"INIT"}
                 /\ frame'[k] = [from_state |-> frame'[k].from_state,
                                 to_state |-> Ordinal[target'[k]], inside |-> frame'[k].inside]
      <4>1. k \in Frames
        BY <1>0, <2>2, SizesAssumption DEF Frames
      <4>2. CASE k = depth + 1
        BY <1>1, <2>1, <2>6, <4>1, <4>2 DEF SessionInv, RunningInv
      <4>3. CASE k # depth + 1
        <5>1. k \in 1 .. depth /\ target'[k] = target[k] /\ frame'[k] = frame[k]
          BY <1>0, <1>1, <2>1, <2>2, <4>1, <4>3 DEF SessionInv, RunningInv
        <5> QED
          BY <5>1 DEF SessionInv, RunningInv
      <4> QED
        BY <4>2, <4>3
    <3> QED
      BY <2>2, <3>1, <3>2 DEF RunningInv
  <2>8. TableInv' /\ EmptyInv' /\ CopiesInv'
    BY <1>0, <1>1, <2>2, <2>4 DEF SessionInv, TableInv, EmptyInv, CopiesInv, machine, table
  <2>9. target' \in [Frames -> (ProtocolStates \ {"INIT"}) \cup {"NONE"}]
    BY <1>1 DEF PTypeOK
  <2>10. refused' \in BOOLEAN /\ reentered' \in BOOLEAN
    BY <1>1, Zenon DEF PTypeOK
  <2> QED
    BY <1>1, <2>2, <2>7, <2>8, <2>9, <2>10 DEF SessionInv
<1>2. CASE TransitionRefused(new) /\ (ExecuteFails(name, TRUE) \/ UNCHANGED smvars)
  <2>1. UNCHANGED <<machine, table, calls>>
    BY <1>2 DEF ExecuteFails, smvars, vars
  <2>2. UNCHANGED <<state, target, reentered>> /\ refused' = TRUE
    BY <1>2 DEF TransitionRefused
  <2>3. SessionInv'
    BY <2>1, <2>2 DEF SessionInv, TableInv, EmptyInv, RunningInv, CopiesInv, machine, table, calls
  <2> QED
    BY <2>1, <2>2, <2>3 DEF calls, PTypeOK
<1> QED
  BY <1>1, <1>2 DEF TransitionTo

----------------------------------------------------------------------------
(* Every action preserves the invariant *)

LEMMA EmptyWire == <<>> \in Seq(Message) /\ Len(<<>>) <= MaxWire
BY ProtocolAssumption

LEMMA InitHolds ==
  ASSUME PInit
  PROVE  IndInv
<1> USE DEF PInit
<1>1. PTypeOK
  <2>1. next_sequence \in 0 .. SeqMod - 1
    BY ProtocolAssumption
  <2> QED
    BY <2>1, EmptyWire DEF PTypeOK, ProtocolStates
<1>2. SessionInv
  BY SizesAssumption DEF SessionInv, TableInv, EmptyInv, RunningInv, CopiesInv, Init
<1>3. WireIncreasing /\ HandshakeInv /\ OneHandshake
  BY DEF WireIncreasing, HandshakeInv, OneHandshake
<1> QED
  BY <1>1, <1>2, <1>3 DEF IndInv

LEMMA ProtocolInitStep ==
  ASSUME IndInv, ProtocolInit
  PROVE  IndInv'
<1>1. /\ ~is_initialized /\ is_initialized' /\ UNCHANGED calls
      /\ num_transitions' = 0 /\ current_state' = 0
  BY DEF ProtocolInit, Create, FreshTables
<1>2. /\ state' = "INIT" /\ next_sequence' = 1 /\ ~populated' /\ populated' \in BOOLEAN
      /\ refused' = FALSE /\ reentered' = FALSE /\ wire' = <<>> /\ wrapped' = FALSE
      /\ target' = target
  BY DEF ProtocolInit
<1>3. PTypeOK'
  <2>1. next_sequence' \in 0 .. SeqMod - 1
    BY <1>2, ProtocolAssumption
  <2> QED
    BY <1>2, <2>1, EmptyWire DEF IndInv, PTypeOK, ProtocolStates
<1>4. SessionInv'
  BY <1>1, <1>2
     DEF IndInv, SessionInv, TableInv, EmptyInv, RunningInv, CopiesInv, calls
<1>5. WireIncreasing' /\ HandshakeInv' /\ OneHandshake'
  BY <1>2 DEF WireIncreasing, HandshakeInv, OneHandshake
<1> QED
  BY <1>3, <1>4, <1>5 DEF IndInv

LEMMA ProtocolCleanupStep ==
  ASSUME IndInv, ProtocolCleanup
  PROVE  IndInv'
<1>1. ~is_initialized' /\ UNCHANGED calls /\ depth = 0
  BY DEF ProtocolCleanup, Destroy
<1>2. UNCHANGED <<state, target, refused, reentered, next_sequence, populated, wire, wrapped>>
  BY DEF ProtocolCleanup, session, moves, traffic
<1>3. PTypeOK'
  BY <1>2 DEF IndInv, PTypeOK
<1>4. SessionInv'
  BY <1>1, <1>2 DEF IndInv, SessionInv, TableInv, EmptyInv, RunningInv, CopiesInv, calls
<1>5. WireIncreasing' /\ HandshakeInv' /\ OneHandshake'
  BY <1>1, <1>2 DEF IndInv, WireIncreasing, HandshakeInv, OneHandshake, calls
<1> QED
  BY <1>3, <1>4, <1>5 DEF IndInv

\* The application's table is the one TableInv describes.
LEMMA PopulateStep ==
  ASSUME IndInv, Populate
  PROVE  IndInv'
<1>1. /\ is_initialized /\ ~populated /\ populated' = TRUE
      /\ UNCHANGED <<is_initialized, current_state, depth, frame>>
      /\ UNCHANGED <<state, target, refused, reentered, next_sequence, wire, wrapped>>
  BY DEF Populate, machine, calls, moves, traffic
<1>2. PTypeOK'
  BY <1>1 DEF IndInv, PTypeOK
<1>3. TableInv'
  <2>1. num_transitions' = 5
    BY DEF Populate
  <2>2. ASSUME NEW t \in TransitionIds, t < 5
        PROVE  /\ transitions'[t].name = TransitionName[Order[t + 2]]
               /\ transitions'[t].to_state = t + 1
    BY <2>2 DEF Populate
  <2> QED
    BY <2>1, <2>2 DEF TableInv
<1>4. state = "INIT" /\ current_state = 0 /\ depth = 0
  BY <1>1 DEF IndInv, SessionInv, EmptyInv
<1>5. EmptyInv' /\ RunningInv' /\ CopiesInv'
  BY <1>1, <1>4 DEF IndInv, SessionInv, EmptyInv, RunningInv, CopiesInv, Ordinal
<1>6. WireIncreasing' /\ HandshakeInv' /\ OneHandshake'
  BY <1>1 DEF IndInv, WireIncreasing, HandshakeInv, OneHandshake
<1> QED
  BY <1>2, <1>3, <1>5, <1>6 DEF IndInv, SessionInv

\* The machine is done: both copies of the state move to the target.
LEMMA TransitionDoneStep ==
  ASSUME IndInv, TransitionDone
  PROVE  IndInv'
<1>1. /\ state' = target[depth] /\ target' = [target EXCEPT ![depth] = "NONE"]
      /\ UNCHANGED <<refused, reentered, next_sequence, populated, wire, wrapped>>
  BY DEF TransitionDone, traffic
<1>2. /\ depth \in 1 .. MaxDepth /\ depth \in 1 .. depth /\ depth \in Frames
      /\ is_initialized /\ populated
  BY SizesAssumption
     DEF IndInv, SessionInv, EmptyInv, RunningInv, Frames, TransitionDone, ExecuteCommit
<1>3. /\ frame[depth] = [from_state |-> frame[depth].from_state,
                         to_state |-> Ordinal[target[depth]], inside |-> frame[depth].inside]
      /\ target[depth] \in ProtocolStates \ {"INIT"}
  BY <1>2 DEF IndInv, SessionInv, RunningInv
<1>4. /\ current_state' = Ordinal[target[depth]] /\ depth' = depth - 1
      /\ frame' = [frame EXCEPT ![depth] = ZeroFrame]
      /\ UNCHANGED <<is_initialized, transitions, num_transitions>>
  BY <1>3 DEF TransitionDone, ExecuteCommit, machine
<1>5. PTypeOK'
  <2>1. target' \in [Frames -> (ProtocolStates \ {"INIT"}) \cup {"NONE"}]
    BY <1>1 DEF IndInv, PTypeOK
  <2> QED
    BY <1>1, <1>3, <2>1 DEF IndInv, PTypeOK
<1>6. RunningInv'
  <2>1. /\ DOMAIN frame' = Frames /\ DOMAIN target' = Frames /\ depth' \in 0 .. MaxDepth
        /\ \A k \in 1 .. depth' : /\ k \in 1 .. depth /\ k \in Frames
                                  /\ target'[k] = target[k] /\ frame'[k] = frame[k]
    BY <1>1, <1>2, <1>4, SizesAssumption DEF IndInv, SessionInv, RunningInv, Frames
  <2> QED
    BY <2>1 DEF IndInv, SessionInv, RunningInv
<1>7. TableInv' /\ EmptyInv' /\ CopiesInv'
  BY <1>1, <1>2, <1>4 DEF IndInv, SessionInv, TableInv, EmptyInv, CopiesInv
<1>8. WireIncreasing' /\ OneHandshake'
  BY <1>1 DEF IndInv, WireIncreasing, OneHandshake
<1>9. HandshakeInv'
  BY <1>1, <1>3 DEF HandshakeInv
<1> QED
  BY <1>5, <1>6, <1>7, <1>8, <1>9 DEF IndInv, SessionInv

\* A transition that no send precedes.
LEMMA SilentTransitionStep ==
  ASSUME IndInv, Open, NEW new \in ProtocolStates \ {"INIT"}, TransitionTo(new),
         UNCHANGED <<next_sequence, populated, traffic>>
  PROVE  IndInv'
<1>0. UNCHANGED <<next_sequence, populated, wire, wrapped>>
  BY DEF traffic
<1>1. /\ SessionInv'
      /\ state' = state
      /\ target' \in [Frames -> (ProtocolStates \ {"INIT"}) \cup {"NONE"}]
      /\ refused' \in BOOLEAN /\ reentered' \in BOOLEAN
      /\ \/ depth' = depth + 1 /\ refused' = refused /\ reentered' = (reentered \/ depth > 0)
         \/ depth' = depth /\ refused' = TRUE
  BY <1>0, TransitionStep DEF IndInv
<1>2. depth \in Nat
  BY SizesAssumption DEF IndInv, SessionInv, RunningInv
<1>3. PTypeOK'
  BY <1>0, <1>1 DEF IndInv, PTypeOK
<1>4. WireIncreasing' /\ OneHandshake'
  BY <1>0, <1>1 DEF IndInv, WireIncreasing, OneHandshake
<1>5. HandshakeInv'
  BY <1>0, <1>1, <1>2 DEF IndInv, HandshakeInv
<1> QED
  BY <1>1, <1>3, <1>4, <1>5 DEF IndInv

\* A message that is no handshake, alone or before a transition.
LEMMA SendOtherStep ==
  ASSUME IndInv, Open, NEW type \in MessageTypes \ {"HANDSHAKE"}, NEW ok \in BOOLEAN,
         Send(type, ok),
         \/ UNCHANGED <<smvars, moves>>
         \/ \E new \in ProtocolStates \ {"INIT"} : TransitionTo(new)
  PROVE  IndInv'
<1>1. populated' = populated
  BY DEF Send
<1>2. /\ SessionInv'
      /\ state' = state
      /\ target' \in [Frames -> (ProtocolStates \ {"INIT"}) \cup {"NONE"}]
      /\ refused' \in BOOLEAN /\ reentered' \in BOOLEAN
      /\ \/ depth' = depth /\ refused' = refused /\ reentered' = reentered
         \/ depth' = depth + 1 /\ refused' = refused /\ reentered' = (reentered \/ depth > 0)
         \/ depth' = depth /\ refused' = TRUE
  <2>1. CASE UNCHANGED <<smvars, moves>>
    BY <1>1, <2>1, QuietStep DEF IndInv, PTypeOK
  <2>2. ASSUME NEW new \in ProtocolStates \ {"INIT"}, TransitionTo(new)
        PROVE  /\ SessionInv'
               /\ state' = state
               /\ target' \in [Frames -> (ProtocolStates \ {"INIT"}) \cup {"NONE"}]
               /\ refused' \in BOOLEAN /\ reentered' \in BOOLEAN
               /\ \/ depth' = depth + 1 /\ refused' = refused
                     /\ reentered' = (reentered \/ depth > 0)
                  \/ depth' = depth /\ refused' = TRUE
    BY <1>1, <2>2, TransitionStep DEF IndInv
  <2> QED
    BY <2>1, <2>2
<1>3. PTypeOK'
  BY <1>1, <1>2, SendTypes DEF IndInv, PTypeOK
<1>4. WireIncreasing'
  BY SendIncreasing DEF IndInv
<1>5. \A i \in 1 .. Len(wire') :
        wire'[i].type = "HANDSHAKE" => i \in 1 .. Len(wire) /\ wire[i].type = "HANDSHAKE"
  BY SendOther DEF IndInv
<1>6. HandshakeInv' /\ OneHandshake'
  <2>1. depth \in Nat
    BY SizesAssumption DEF IndInv, SessionInv, RunningInv
  <2> QED
    BY <1>2, <1>5, <2>1 DEF IndInv, HandshakeInv, OneHandshake
<1> QED
  BY <1>2, <1>3, <1>4, <1>6 DEF IndInv

\* A handshake is sent only in INIT, where the wire holds none unless the
\* machine has refused to leave it.
LEMMA StartHandshakeStep ==
  ASSUME IndInv, NEW ok \in BOOLEAN, StartHandshake(ok)
  PROVE  IndInv'
<1>1. /\ Open /\ state = "INIT" /\ Send("HANDSHAKE", ok) /\ "HANDSHAKE" \in MessageTypes
      /\ "HANDSHAKE" \in ProtocolStates \ {"INIT"} /\ populated' = populated
      /\ depth \in Nat
  BY SizesAssumption DEF StartHandshake, MayStartHandshake, MessageTypes, ProtocolStates, Send,
     IndInv, SessionInv, RunningInv
<1>2. /\ SessionInv'
      /\ state' = state
      /\ target' \in [Frames -> (ProtocolStates \ {"INIT"}) \cup {"NONE"}]
      /\ refused' \in BOOLEAN /\ reentered' \in BOOLEAN
      /\ \/ ~ok /\ depth' = depth /\ refused' = refused /\ reentered' = reentered
         \/ depth' = depth + 1 /\ refused' = refused /\ reentered' = (reentered \/ depth > 0)
         \/ depth' = depth /\ refused' = TRUE
  <2>1. CASE ~ok
    <3>1. UNCHANGED <<smvars, moves>>
      BY <2>1 DEF StartHandshake
    <3> QED
      BY <1>1, <2>1, <3>1, QuietStep DEF IndInv, PTypeOK
  <2>2. CASE ok
    <3>1. TransitionTo("HANDSHAKE")
      BY <2>2 DEF StartHandshake
    <3> QED
      BY <1>1, <3>1, TransitionStep DEF IndInv
  <2> QED
    BY <2>1, <2>2
<1>3. PTypeOK'
  BY <1>1, <1>2, SendTypes DEF IndInv, PTypeOK
<1>4. WireIncreasing'
  BY <1>1, SendIncreasing DEF IndInv
<1>5. CASE ~ok
  <2>1. UNCHANGED <<state, refused, reentered, depth, wire>>
    <3>1. UNCHANGED <<smvars, moves>> /\ wire' = wire
      BY <1>1, <1>5, SendTypes DEF StartHandshake, IndInv
    <3> QED
      BY <3>1 DEF smvars, vars, calls, moves
  <2> QED
    BY <1>2, <1>3, <1>4, <2>1 DEF IndInv, HandshakeInv, OneHandshake
<1>6. CASE refused' \/ reentered'
  BY <1>2, <1>3, <1>4, <1>6 DEF IndInv, HandshakeInv, OneHandshake
<1>7. CASE ~refused' /\ ~reentered' /\ depth' = depth + 1 /\ refused' = refused
           /\ reentered' = (reentered \/ depth > 0)
  <2>1. NoHandshake
    BY <1>1, <1>7 DEF IndInv, HandshakeInv, NoHandshake
  <2>2. OneHandshake'
    BY <1>1, <2>1, SendHandshake DEF IndInv, OneHandshake
  <2>3. HandshakeInv'
    BY <1>1, <1>7 DEF HandshakeInv
  <2> QED
    BY <1>2, <1>3, <1>4, <2>2, <2>3 DEF IndInv
<1> QED
  BY <1>2, <1>5, <1>6, <1>7

\* A lock or an unlock leaves the table, the current state and the running
\* transition alone.
LEMMA LockStep ==
  ASSUME IndInv, NEW i \in StateIds, Lock(i) \/ Unlock(i)
  PROVE  IndInv'
<1>1. UNCHANGED <<state, target, refused, reentered, next_sequence, populated, wire, wrapped>>
  BY DEF Lock, Unlock, session, moves, traffic
<1>2. /\ UNCHANGED <<is_initialized, transitions, num_transitions, current_state, depth>>
      /\ frame' = LockedInside(i) \/ frame' = frame
  BY DEF Lock, Unlock, LockState, UnlockState, machine, calls
<1>3. RunningInv'
  <2>1. DOMAIN frame' = Frames
    BY <1>2 DEF IndInv, SessionInv, RunningInv, LockedInside
  <2>2. ASSUME NEW k \in 1 .. depth
        PROVE  frame'[k] = [from_state |-> frame'[k].from_state, to_state |-> Ordinal[target[k]],
                            inside |-> frame'[k].inside]
    <3>1. frame[k] = [from_state |-> frame[k].from_state, to_state |-> Ordinal[target[k]],
                      inside |-> frame[k].inside] /\ k \in Frames
      BY SizesAssumption DEF IndInv, SessionInv, RunningInv, Frames
    <3>2. frame'[k] = frame[k] \/ frame'[k] = [frame[k] EXCEPT !.inside = TRUE]
      BY <1>2, <3>1 DEF LockedInside
    <3> QED
      BY <3>1, <3>2
  <2> QED
    BY <1>1, <1>2, <2>1, <2>2 DEF IndInv, SessionInv, RunningInv
<1>4. SessionInv'
  BY <1>1, <1>2, <1>3 DEF IndInv, SessionInv, TableInv, EmptyInv, CopiesInv
<1>5. PTypeOK'
  BY <1>1 DEF IndInv, PTypeOK
<1>6. WireIncreasing' /\ HandshakeInv' /\ OneHandshake'
  BY <1>1, <1>2 DEF IndInv, WireIncreasing, HandshakeInv, OneHandshake
<1> QED
  BY <1>4, <1>5, <1>6 DEF IndInv

\* A received message, whatever its type, reaches neither the machine nor the
\* session state.
LEMMA StutterStep ==
  ASSUME IndInv, UNCHANGED pvars
  PROVE  IndInv'
<1>1. UNCHANGED <<smvars, moves, state, target, refused, reentered, next_sequence, populated, wire, wrapped>>
  BY DEF pvars, session, moves, traffic
<1>2. SessionInv'
  BY <1>1, QuietStep DEF IndInv
<1>3. PTypeOK'
  BY <1>1 DEF IndInv, PTypeOK
<1>4. WireIncreasing' /\ HandshakeInv' /\ OneHandshake'
  BY <1>1 DEF IndInv, WireIncreasing, HandshakeInv, OneHandshake, smvars, vars, calls
<1> QED
  BY <1>2, <1>3, <1>4 DEF IndInv

LEMMA UpdateStep ==
  ASSUME IndInv, NEW ok \in BOOLEAN, Update(ok)
  PROVE  IndInv'
<1>1. CASE StartHandshake(ok)
  BY <1>1, StartHandshakeStep
<1>2. ASSUME NEW new \in {"AUTH", "READY"}, Open, TransitionTo(new),
             UNCHANGED <<next_sequence, populated, traffic>>
      PROVE  IndInv'
  <2>1. new \in ProtocolStates \ {"INIT"}
    BY DEF ProtocolStates
  <2> QED
    BY <1>2, <2>1, SilentTransitionStep
<1> QED
  BY <1>1, <1>2 DEF Update

LEMMA NextStep ==
  ASSUME IndInv, [PNext]_pvars
  PROVE  IndInv'
<1>0. /\ {"COMMAND", "AUTH"} \subseteq MessageTypes \ {"HANDSHAKE"}
      /\ {"AUTH", "READY", "ERROR"} \subseteq ProtocolStates \ {"INIT"}
  BY DEF MessageTypes, ProtocolStates
<1>1. CASE ProtocolInit
  BY <1>1, ProtocolInitStep
<1>2. CASE Populate
  BY <1>2, PopulateStep
<1>3. CASE TransitionDone
  BY <1>3, TransitionDoneStep
<1>4. CASE ProtocolCleanup
  BY <1>4, ProtocolCleanupStep
<1>5. ASSUME NEW ok \in BOOLEAN, SendMessage("COMMAND", ok) PROVE IndInv'
  BY <1>0, <1>5, SendOtherStep DEF SendMessage
<1>6. ASSUME NEW ok \in BOOLEAN, StartHandshake(ok) PROVE IndInv'
  BY <1>6, StartHandshakeStep
<1>7. CASE CompleteHandshake
  BY <1>0, <1>7, SilentTransitionStep DEF CompleteHandshake
<1>8. ASSUME NEW ok \in BOOLEAN, Authenticate(ok) PROVE IndInv'
  BY <1>0, <1>8, SendOtherStep DEF Authenticate
<1>9. ASSUME NEW ok \in BOOLEAN, Update(ok) PROVE IndInv'
  BY <1>9, UpdateStep
<1>10. CASE SetError
  BY <1>0, <1>10, SilentTransitionStep DEF SetError
<1>11. ASSUME NEW type \in MessageTypes, Process(type) PROVE IndInv'
  BY <1>11, StutterStep DEF Process
<1>12. ASSUME NEW i \in Lockable, Lock(i) \/ Unlock(i) PROVE IndInv'
  BY <1>12, LockStep, ProtocolAssumption
<1>13. CASE UNCHANGED pvars
  BY <1>13, StutterStep
<1> QED
  BY <1>1, <1>2, <1>3, <1>4, <1>5, <1>6, <1>7, <1>8, <1>9, <1>10, <1>11, <1>12, <1>13 DEF PNext

----------------------------------------------------------------------------
(* The theorems *)

LEMMA Inductive == PSpec => []IndInv
<1>1. PInit => IndInv
  BY InitHolds
<1>2. IndInv /\ [PNext]_pvars => IndInv'
  BY NextStep
<1> QED
  BY <1>1, <1>2, PTL DEF PSpec

\* The session's variables keep their types: next_sequence stays within its
\* width and the session in one of the protocol's states.
THEOREM SessionTypes == PSpec => []PTypeOK
<1>1. IndInv => PTypeOK
  BY DEF IndInv
<1> QED
  BY <1>1, Inductive, PTL

\* ctx->state and the machine's current_state agree whenever user code runs,
\* callbacks included, whichever transitions were refused, whichever sends
\* failed and however deep calls from callbacks are nested.
THEOREM CopiesAgree == PSpec => []InStep
<1>1. IndInv => InStep
  BY DEF IndInv, SessionInv, CopiesInv, InStep, Open
<1> QED
  BY <1>1, Inductive, PTL

\* Until they wrap, the numbers polycall_protocol_send puts on the wire are
\* strictly increasing, failed sends or not, for every width.
THEOREM NumbersIncrease == PSpec => []WireIncreasing
<1>1. IndInv => WireIncreasing
  BY DEF IndInv
<1> QED
  BY <1>1, Inductive, PTL

\* A session whose machine refuses nothing, and whose callbacks start no
\* transition, sends one handshake at most.
THEOREM HandshakeOnce == PSpec => []OneHandshake
<1>1. IndInv => OneHandshake
  BY DEF IndInv
<1> QED
  BY <1>1, Inductive, PTL
=============================================================================

------------------------------ MODULE Protocol ------------------------------
(***************************************************************************)
(* The PolyCall protocol session (src/src/polycall_protocol.c) on top of   *)
(* the state machine it owns.  Every change of the session state goes      *)
(* through polycall_sm_execute_transition on that machine, so a call is    *)
(* the step that sends and starts the transition and the step              *)
(* (TransitionDone) that ends it.  In between the machine's callbacks run, *)
(* and they may call the session again, which still has its old state; an  *)
(* on_state_change runs after the assignment and is a later call.  The     *)
(* application moves the machine through the session's calls only, and     *)
(* does not clean the session up from one of its callbacks.                *)
(*                                                                         *)
(* polycall_protocol_init creates the machine without states or            *)
(* transitions; Populated says whether the application then registers the  *)
(* protocol's states and the five transitions through the public field     *)
(* ctx->state_machine.                                                     *)
(***************************************************************************)
EXTENDS StateMachine, Sequences

CONSTANTS SeqMod,     \* 2^32: next_sequence is uint32_t
          Populated,  \* the application registers the protocol's transitions
          Api,        \* the calls the application makes
          Lockable,   \* the states it locks and unlocks
          MaxWire     \* bound: how many messages the history `wire` remembers

ASSUME ProtocolAssumption == /\ SeqMod \in Nat /\ SeqMod > 1
                             /\ Populated \in BOOLEAN
                             /\ MaxWire \in Nat
                             /\ Lockable \subseteq StateIds
                             /\ Populated => MaxStates >= 6 /\ MaxTransitions >= 5

ProtocolStates == {"INIT", "HANDSHAKE", "AUTH", "READY", "ERROR", "CLOSED"}
MessageTypes == {"HANDSHAKE", "AUTH", "COMMAND", "RESPONSE", "ERROR", "HEARTBEAT"}

\* The position of a state in polycall_protocol_state_t.
Ordinal == [INIT |-> 0, HANDSHAKE |-> 1, AUTH |-> 2, READY |-> 3, ERROR |-> 4, CLOSED |-> 5]
Order == <<"INIT", "HANDSHAKE", "AUTH", "READY", "ERROR", "CLOSED">>

\* POLYCALL_TRANSITION_TO_*; there is no transition to INIT.
TransitionName == [HANDSHAKE |-> "to_handshake", AUTH |-> "to_auth", READY |-> "to_ready",
                   ERROR |-> "to_error", CLOSED |-> "to_closed"]

VARIABLES state,          \* ctx->state
          next_sequence,  \* ctx->next_sequence
          populated,      \* the application has registered the transitions
          target,         \* the new_state of each running transition, innermost last
          refused,        \* history: the machine has refused a transition
          reentered,      \* history: a callback of a transition has started another
          wire,           \* history: messages handed to the network, in order
          wrapped         \* history: next_sequence has wrapped

moves == <<state, target, refused, reentered>>
session == <<moves, next_sequence, populated>>
traffic == <<wire, wrapped>>
smvars == vars
pvars == <<smvars, session, traffic>>

PInit == /\ Init
         /\ state = "INIT"
         /\ next_sequence = 1
         /\ populated = FALSE
         /\ target = [k \in Frames |-> "NONE"]
         /\ refused = FALSE
         /\ reentered = FALSE
         /\ wire = <<>>
         /\ wrapped = FALSE

\* A session exists and is set up.
Open == is_initialized /\ (Populated => populated)

----------------------------------------------------------------------------
\* polycall_protocol_init
ProtocolInit ==
  /\ Create(FALSE)
  /\ state' = "INIT"
  /\ next_sequence' = 1
  /\ populated' = FALSE
  /\ refused' = FALSE
  /\ reentered' = FALSE
  /\ wire' = <<>>
  /\ wrapped' = FALSE
  /\ UNCHANGED target

\* polycall_protocol_cleanup: the machine is destroyed.  It then frees ctx,
\* the caller's own structure, while the context that polycall_protocol_init
\* allocated is lost: for a ctx that did not come from malloc this is
\* undefined, and the model goes on with those that did.
ProtocolCleanup ==
  /\ Open
  /\ Destroy
  /\ UNCHANGED <<session, traffic>>

\* The application fills the empty machine: state i is the i-th protocol
\* state, "to_x" leads to x from the state before it.
Populate ==
  /\ is_initialized /\ Populated /\ ~populated
  /\ populated' = TRUE
  /\ states' = [i \in StateIds |->
                  IF i < 6 THEN NewState(i, Order[i + 1], FALSE) ELSE ZeroState]
  /\ registered' = [i \in StateIds |-> Covered(states'[i])]
  /\ num_states' = 6
  /\ transitions' = [t \in TransitionIds |->
       IF t < 5 THEN [name |-> TransitionName[Order[t + 2]], from_state |-> t,
                      to_state |-> t + 1, guarded |-> FALSE]
       ELSE ZeroTransition]
  /\ num_transitions' = 5
  /\ UNCHANGED <<machine, current_state, diagnostics, buffers, calls, foreign, written,
                 moves, next_sequence, traffic>>

----------------------------------------------------------------------------
(* transition_protocol_state *)

\* Mutant: the status is not looked at.
TransitionAssumed(new) == state' = new /\ UNCHANGED <<target, refused, reentered>>

\* A status other than POLYCALL_SM_SUCCESS: false, and the state stays.
TransitionRefused(new) == refused' = TRUE /\ UNCHANGED <<state, target, reentered>>

\* polycall_sm_execute_transition runs, or refuses with or without counting it.
TransitionTo(new) ==
  LET name == TransitionName[new]
  IN  \/ /\ ExecuteBegin(name, TRUE)
         /\ target' = [target EXCEPT ![depth + 1] = new]
         /\ reentered' = (reentered \/ depth > 0)
         /\ UNCHANGED <<state, refused>>
      \/ /\ ExecuteFails(name, TRUE)
         /\ TransitionRefused(new)
      \/ /\ \E t \in TransitionIds : Found(name, t) /\ ~EndpointsUnlocked(t)
         /\ UNCHANGED smvars
         /\ TransitionRefused(new)

\* The innermost polycall_sm_execute_transition has succeeded: no user code
\* runs between the machine's assignment and ctx->state = new_state.
TransitionDone ==
  /\ ExecuteCommit
  /\ state' = target[depth]
  /\ target' = [target EXCEPT ![depth] = "NONE"]
  /\ UNCHANGED <<refused, reentered, next_sequence, populated, traffic>>

----------------------------------------------------------------------------
\* Mutant: the number is not advanced.
SameSequence(n) == n

\* ctx->next_sequence++
NextSequence(n) == IF n = SeqMod - 1 THEN 0 ELSE n + 1

\* polycall_protocol_send: a number is used up even when the message is too
\* large or net_send does not take all of it (ok is FALSE).
Send(type, ok) ==
  /\ next_sequence' = NextSequence(next_sequence)
  /\ wrapped' = (wrapped \/ next_sequence = SeqMod - 1)
  /\ wire' = IF ok /\ Len(wire) < MaxWire
             THEN Append(wire, [type |-> type, sequence |-> next_sequence]) ELSE wire
  /\ UNCHANGED populated

\* A send of the application's own.
SendMessage(type, ok) ==
  /\ Open
  /\ Send(type, ok)
  /\ UNCHANGED <<smvars, moves>>

\* Mutant: a handshake may be repeated.
MayRestartHandshake == state \in {"INIT", "HANDSHAKE"}

\* The state check of polycall_protocol_start_handshake.
MayStartHandshake == state = "INIT"

\* polycall_protocol_start_handshake
StartHandshake(ok) ==
  /\ Open
  /\ MayStartHandshake
  /\ Send("HANDSHAKE", ok)
  /\ IF ok THEN TransitionTo("HANDSHAKE") ELSE UNCHANGED <<smvars, moves>>

\* polycall_protocol_complete_handshake
CompleteHandshake ==
  /\ Open
  /\ state = "HANDSHAKE"
  /\ TransitionTo("AUTH")
  /\ UNCHANGED <<next_sequence, populated, traffic>>

\* polycall_protocol_authenticate: no check of the state.
Authenticate(ok) ==
  /\ Open
  /\ Send("AUTH", ok)
  /\ IF ok THEN TransitionTo("READY") ELSE UNCHANGED <<smvars, moves>>

\* Mutant: AUTH does not lead to READY.
CanTransitionNotReady(from, to) ==
  <<from, to>> \in {<<"INIT", "HANDSHAKE">>, <<"HANDSHAKE", "AUTH">>,
                    <<"READY", "ERROR">>, <<"READY", "CLOSED">>, <<"ERROR", "CLOSED">>}

\* polycall_protocol_can_transition
CanTransition(from, to) ==
  <<from, to>> \in {<<"INIT", "HANDSHAKE">>, <<"HANDSHAKE", "AUTH">>, <<"AUTH", "READY">>,
                    <<"READY", "ERROR">>, <<"READY", "CLOSED">>, <<"ERROR", "CLOSED">>}

\* polycall_protocol_update: the next step of the handshake, whatever the peer did.
Update(ok) ==
  \/ /\ CanTransition(state, "HANDSHAKE")
     /\ StartHandshake(ok)
  \/ \E new \in {"AUTH", "READY"} :
       /\ Open
       /\ <<state, new>> \in {<<"HANDSHAKE", "AUTH">>, <<"AUTH", "READY">>}
       /\ CanTransition(state, new)
       /\ TransitionTo(new)
       /\ UNCHANGED <<next_sequence, populated, traffic>>

\* polycall_protocol_set_error
SetError ==
  /\ Open
  /\ TransitionTo("ERROR")
  /\ UNCHANGED <<next_sequence, populated, traffic>>

\* polycall_protocol_process of a message with a valid header and checksum:
\* every type but RESPONSE is dispatched, to a callback whose calls are steps of
\* their own.  The session itself looks at neither its state nor the sequence
\* number, and changes nothing.
Process(type) ==
  /\ Open
  /\ type # "RESPONSE"
  /\ UNCHANGED pvars

\* The application, or a callback, locks or unlocks a state of the machine.
Lock(i) == Open /\ LockState(i) /\ UNCHANGED <<session, traffic>>
Unlock(i) == Open /\ UnlockState(i) /\ UNCHANGED <<session, traffic>>

PNext ==
  \/ ProtocolInit
  \/ Populate
  \/ TransitionDone
  \/ "cleanup" \in Api /\ ProtocolCleanup
  \/ "send" \in Api /\ \E ok \in BOOLEAN : SendMessage("COMMAND", ok)
  \/ "start_handshake" \in Api /\ \E ok \in BOOLEAN : StartHandshake(ok)
  \/ "complete_handshake" \in Api /\ CompleteHandshake
  \/ "authenticate" \in Api /\ \E ok \in BOOLEAN : Authenticate(ok)
  \/ "update" \in Api /\ \E ok \in BOOLEAN : Update(ok)
  \/ "set_error" \in Api /\ SetError
  \/ "process" \in Api /\ \E type \in MessageTypes : Process(type)
  \/ \E i \in Lockable : Lock(i)
  \/ \E i \in Lockable : Unlock(i)

PSpec == PInit /\ [][PNext]_pvars

\* The application opens the session, calls polycall_protocol_update over and
\* over (as an event loop does), every call returns, and the network accepts
\* a message now and then.
Fairness == /\ WF_pvars(ProtocolInit)
            /\ WF_pvars(Populate)
            /\ WF_pvars(TransitionDone)
            /\ SF_pvars("update" \in Api /\ Update(TRUE))

FairPSpec == PSpec /\ Fairness

----------------------------------------------------------------------------
(* Properties *)

Message == [type : MessageTypes, sequence : 0 .. SeqMod - 1]

\* Type invariant of the session.
PTypeOK ==
  /\ state \in ProtocolStates
  /\ next_sequence \in 0 .. SeqMod - 1
  /\ populated \in BOOLEAN
  /\ refused \in BOOLEAN
  /\ reentered \in BOOLEAN
  /\ target \in [Frames -> (ProtocolStates \ {"INIT"}) \cup {"NONE"}]
  /\ wire \in Seq(Message) /\ Len(wire) <= MaxWire
  /\ wrapped \in BOOLEAN

\* The session state is kept twice, in ctx->state and as the machine's
\* current_state; the two agree whenever user code runs, inside callbacks too,
\* whichever calls failed because of locks, missing transitions or the network
\* and however calls from callbacks are nested.
InStep == Open /\ populated => current_state = Ordinal[state]

\* Until next_sequence wraps no two messages on the wire carry the same
\* sequence number, and they carry them in increasing order, failed sends
\* or not.
WireIncreasing ==
  ~wrapped => \A j \in 1 .. Len(wire) :
    /\ wire[j].sequence < next_sequence
    /\ \A i \in 1 .. j - 1 : wire[i].sequence < wire[j].sequence

\* A session whose machine refuses no transition, and whose callbacks start
\* none, sends at most one handshake, although polycall_protocol_update and the
\* application both may start one.  (A callback of to_handshake that calls
\* polycall_protocol_update finds the state still INIT and sends a second one.)
OneHandshake == ~refused /\ ~reentered => \A i, j \in 1 .. Len(wire) :
  wire[i].type = "HANDSHAKE" /\ wire[j].type = "HANDSHAKE" => i = j

\* A session whose polycall_protocol_update is called again and again becomes
\* READY, whatever else is called in between, from callbacks too (an outer
\* transition may then take the state back), and however many sends fail,
\* unless it is put into ERROR or closed, or its machine refuses a transition.
EventuallyReady ==
  is_initialized ~> \/ state \in {"READY", "ERROR"}
                    \/ refused \/ ~is_initialized

=============================================================================

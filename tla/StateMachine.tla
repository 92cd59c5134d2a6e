---------------------------- MODULE StateMachine ----------------------------
(***************************************************************************)
(* The PolyCall state machine (src/src/polycall_state_machine.c): a table  *)
(* of states and a table of named transitions, per-state locks, versions   *)
(* and checksums, and snapshots kept in buffers that the caller owns.      *)
(*                                                                         *)
(* Every API call is one action, except polycall_sm_execute_transition,    *)
(* which calls back into user code (on_exit, action, on_enter) between its *)
(* checks and its assignment: it is Begin, any calls that the callbacks    *)
(* make, and Commit.  A call that returns an error without touching the    *)
(* machine is a stuttering step.  Time stamps are only reported, never     *)
(* read, and are left out.                                                 *)
(***************************************************************************)
EXTENDS Naturals

CONSTANTS MaxStates,      \* POLYCALL_MAX_STATES
          MaxTransitions, \* POLYCALL_MAX_TRANSITIONS
          VersionMod,     \* 2^32: versions are unsigned int
          Names,          \* names a caller may pass
          Trunc,          \* what strncpy to POLYCALL_MAX_NAME_LENGTH keeps of a name
          NoName,         \* the name of a zeroed table entry
          Radix, Top,     \* 256 and 2^24: a checksum is a word of Radix * Top values
          Code,           \* a name as the checksum sees it; one byte stands for its bytes
          Damage,         \* the fields that stray writes hit
          Buffers,        \* snapshot buffers owned by callers
          MaxDepth,       \* bound: transitions whose callbacks are running
          MaxCount,       \* 2^32 - 1: the diagnostics counters are unsigned int
          MaxGen          \* bound on the number of machines created

ASSUME SizesAssumption == /\ MaxStates \in Nat \ {0}
                          /\ MaxTransitions \in Nat \ {0}
                          /\ MaxDepth \in Nat \ {0}
                          /\ MaxCount \in Nat
                          /\ MaxGen \in Nat
ASSUME VersionAssumption == VersionMod \in Nat \ {0}
ASSUME NamesAssumption == /\ Trunc \in [Names -> Names]
                          /\ \A n \in Names : Trunc[Trunc[n]] = Trunc[n]
                          /\ NoName \notin Names
ASSUME WordAssumption == /\ Radix \in Nat /\ Radix > 1 /\ Radix >= MaxStates
                         /\ Top \in Nat \ {0}
ASSUME CodeAssumption ==
  /\ Code \in [Names \cup {NoName} -> 0 .. Radix - 1]
  /\ \A m, n \in Names \cup {NoName} : Code[m] = Code[n] => m = n

StateIds == 0 .. MaxStates - 1
TransitionIds == 0 .. MaxTransitions - 1
Frames == 1 .. MaxDepth
AnyName == Names \cup {NoName}

Byte == 0 .. Radix - 1
Word == 0 .. Top * Radix - 1

(* Digest: the fields of PolyCall_State in front of `checksum`, which       *)
(* calculate_state_checksum covers.                                        *)
Digest == [name : AnyName, is_final : BOOLEAN, id : StateIds]
State == [name : AnyName, is_final : BOOLEAN, id : StateIds,
          checksum : Word, version : 0 .. VersionMod - 1, is_locked : BOOLEAN]
Transition == [name : AnyName, from_state : StateIds, to_state : StateIds,
               guarded : BOOLEAN]
Frame == [from_state : StateIds, to_state : StateIds, inside : BOOLEAN]

ZeroDigest == [name |-> NoName, is_final |-> FALSE, id |-> 0]
ZeroState == [name |-> NoName, is_final |-> FALSE, id |-> 0,
              checksum |-> 0, version |-> 0, is_locked |-> FALSE]
ZeroTransition == [name |-> NoName, from_state |-> 0, to_state |-> 0, guarded |-> FALSE]
ZeroFrame == [from_state |-> 0, to_state |-> 0, inside |-> FALSE]

VARIABLES
  is_initialized,       \* the machine exists
  states, num_states, transitions, num_transitions, current_state,
  has_check,            \* integrity_check is not NULL
  failed_transitions, integrity_violations,   \* diagnostics
  snapshots,            \* snapshots[b].state of the caller's buffer b
  has_snapshot,         \* the buffers the caller has filled
  depth, frame,         \* running polycall_sm_execute_transition calls, innermost last
  gen,                  \* history: how many machines have been created
  registered,           \* history: the digest each state was added with
  age,                  \* history: updates of the state since b was filled, up to VersionMod
  origin,               \* history: the machine that filled b
  foreign,              \* history: states overwritten from another machine's snapshot
  written               \* history: the fields of each state that stray writes have hit

table == <<states, num_states, transitions, num_transitions, current_state>>
diagnostics == <<failed_transitions, integrity_violations>>
buffers == <<snapshots, has_snapshot, age, origin>>
calls == <<depth, frame>>
machine == <<is_initialized, has_check, gen>>
history == <<registered, foreign, written>>
vars == <<machine, table, diagnostics, buffers, calls, history>>

----------------------------------------------------------------------------
(* Operators on one state *)

Covered(s) == [name |-> s.name, is_final |-> s.is_final, id |-> s.id]

\* One turn of the loop of calculate_state_checksum: the word is rotated by a
\* byte and the next byte is added, modulo the word.
Mix(c, byte) == ((c % Top) * Radix + c \div Top + byte) % (Top * Radix)

Flag(f) == IF f THEN 1 ELSE 0

\* The callback pointers lie between the name and is_final; nobody reassigns them.
Pointers == 0

\* Mutant: the sum stops before is_final.
ChecksumOfName(s) == Mix(Mix(0, Code[s.name]), Pointers)

\* calculate_state_checksum, over the fields in the order of the struct.  The
\* name and is_final may share a byte of the word, so two changes may cancel out.
Checksum(s) ==
  Mix(Mix(Mix(Mix(0, Code[s.name]), Pointers), Flag(s.is_final)), s.id)

\* state->version++ in update_state_timestamp, on an unsigned int
NextVersion(v) == IF v + 1 < VersionMod THEN v + 1 ELSE 0

\* ++ on a diagnostics counter
Bumped(c) == IF c = MaxCount THEN 0 ELSE c + 1

\* update_state_timestamp
Updated(s) == [s EXCEPT !.version = NextVersion(@)]

\* The entry polycall_sm_add_state writes: version 1, then one update.
NewState(i, name, final) ==
  [name |-> Trunc[name], is_final |-> final, id |-> i,
   checksum |-> Checksum([name |-> Trunc[name], is_final |-> final, id |-> i]),
   version |-> NextVersion(1), is_locked |-> FALSE]

\* History: the snapshots of state i grow older by one update.
Older(i) == [b \in Buffers |->
               IF snapshots[b].id = i /\ origin[b] = gen /\ age[b] < VersionMod
               THEN age[b] + 1 ELSE age[b]]

\* History: running transitions that touch i learn that it was locked meanwhile.
LockedInside(i) == [k \in Frames |->
                      IF k <= depth /\ i \in {frame[k].from_state, frame[k].to_state}
                      THEN [frame[k] EXCEPT !.inside = TRUE] ELSE frame[k]]

----------------------------------------------------------------------------
Init == /\ is_initialized = FALSE
        /\ states = [i \in StateIds |-> ZeroState]
        /\ num_states = 0
        /\ transitions = [t \in TransitionIds |-> ZeroTransition]
        /\ num_transitions = 0
        /\ current_state = 0
        /\ has_check = FALSE
        /\ failed_transitions = 0
        /\ integrity_violations = 0
        /\ snapshots = [b \in Buffers |-> ZeroState]
        /\ has_snapshot = {}
        /\ depth = 0
        /\ frame = [k \in Frames |-> ZeroFrame]
        /\ gen = 0
        /\ registered = [i \in StateIds |-> ZeroDigest]
        /\ age = [b \in Buffers |-> 0]
        /\ origin = [b \in Buffers |-> 0]
        /\ foreign = {}
        /\ written = [i \in StateIds |-> {}]

\* What calloc leaves in a new machine, and memset in a destroyed one.
FreshTables == /\ states' = [i \in StateIds |-> ZeroState]
               /\ num_states' = 0
               /\ transitions' = [t \in TransitionIds |-> ZeroTransition]
               /\ num_transitions' = 0
               /\ current_state' = 0
               /\ failed_transitions' = 0
               /\ integrity_violations' = 0
               /\ registered' = [i \in StateIds |-> ZeroDigest]
               /\ foreign' = {}
               /\ written' = [i \in StateIds |-> {}]

\* polycall_sm_create_with_integrity
Create(check) ==
  /\ ~is_initialized
  /\ gen < MaxGen
  /\ is_initialized' = TRUE
  /\ gen' = gen + 1
  /\ has_check' = check
  /\ FreshTables
  /\ UNCHANGED <<buffers, calls>>

\* polycall_sm_destroy: memset, then free.  No callback destroys its own
\* machine; the caller's snapshot buffers outlive it.
Destroy ==
  /\ is_initialized
  /\ depth = 0
  /\ is_initialized' = FALSE
  /\ has_check' = FALSE
  /\ FreshTables
  /\ UNCHANGED <<gen, buffers, calls>>

\* The capacity check of polycall_sm_add_state.
RoomForState == num_states < MaxStates

\* polycall_sm_add_state
AddState(name, final) ==
  /\ is_initialized
  /\ RoomForState
  /\ states' = [states EXCEPT ![num_states] = NewState(num_states, name, final)]
  /\ registered' = [registered EXCEPT ![num_states] = Covered(states'[num_states])]
  /\ num_states' = num_states + 1
  /\ UNCHANGED <<machine, transitions, num_transitions, current_state,
                 diagnostics, buffers, calls, foreign, written>>

\* The range check of polycall_sm_add_transition.
KnownEndpoints(from, to) == from < num_states /\ to < num_states

\* polycall_sm_add_transition; a name may be registered twice.
AddTransition(name, from, to, guarded) ==
  /\ is_initialized
  /\ num_transitions < MaxTransitions
  /\ KnownEndpoints(from, to)
  /\ transitions' = [transitions EXCEPT ![num_transitions] =
         [name |-> Trunc[name], from_state |-> from, to_state |-> to, guarded |-> guarded]]
  /\ num_transitions' = num_transitions + 1
  /\ UNCHANGED <<machine, states, num_states, current_state, diagnostics, buffers, calls, history>>

----------------------------------------------------------------------------
(* polycall_sm_execute_transition *)

\* strcmp takes the name as passed, the table holds the truncated ones.
Matching(name) == {t \in TransitionIds : t < num_transitions /\ transitions[t].name = name}

\* The loop stops at the first match.
Found(name, t) == t \in Matching(name) /\ \A u \in Matching(name) : t <= u

\* The guard function, if there is one, answers `allowed`.
GuardPasses(t, allowed) == transitions[t].guarded => allowed

\* Mutant: only the state that is left is examined.
SourceUnlocked(t) == ~states[transitions[t].from_state].is_locked

\* The lock check of polycall_sm_execute_transition.
EndpointsUnlocked(t) == /\ ~states[transitions[t].from_state].is_locked
                        /\ ~states[transitions[t].to_state].is_locked

\* No transition of that name, or its guard refuses.
ExecuteFails(name, allowed) ==
  /\ is_initialized
  /\ \/ Matching(name) = {}
     \/ \E t \in TransitionIds :
          Found(name, t) /\ EndpointsUnlocked(t) /\ ~GuardPasses(t, allowed)
  /\ failed_transitions' = Bumped(failed_transitions)
  /\ UNCHANGED <<machine, table, integrity_violations, buffers, calls, history>>

\* The checks pass and the callbacks start.  current_state is not consulted.
ExecuteBegin(name, allowed) ==
  /\ is_initialized
  /\ depth < MaxDepth
  /\ \E t \in TransitionIds :
       /\ Found(name, t)
       /\ EndpointsUnlocked(t)
       /\ GuardPasses(t, allowed)
       /\ frame' = [frame EXCEPT ![depth + 1] =
                      [from_state |-> transitions[t].from_state,
                       to_state |-> transitions[t].to_state, inside |-> FALSE]]
  /\ depth' = depth + 1
  /\ UNCHANGED <<machine, table, diagnostics, buffers, history>>

\* The callbacks of the innermost call are done: the assignment and the update.
ExecuteCommit ==
  /\ depth > 0
  /\ LET to == frame[depth].to_state
     IN  /\ current_state' = to
         /\ states' = [states EXCEPT ![to] = Updated(@)]
         /\ age' = Older(to)
  /\ depth' = depth - 1
  /\ frame' = [frame EXCEPT ![depth] = ZeroFrame]
  /\ UNCHANGED <<machine, num_states, transitions, num_transitions, diagnostics,
                 snapshots, has_snapshot, origin, history>>

----------------------------------------------------------------------------
(* Integrity, locks, snapshots *)

\* The comparison of polycall_sm_verify_state_integrity.
ChecksumMatches(s) == Checksum(s) = s.checksum

\* polycall_sm_verify_state_integrity finds the state damaged; a success
\* changes nothing.  accepted is what integrity_check answers.
VerifyFails(i, accepted) ==
  /\ is_initialized
  /\ i < num_states
  /\ ~ChecksumMatches(states[i]) \/ (has_check /\ ~accepted)
  /\ integrity_violations' = Bumped(integrity_violations)
  /\ UNCHANGED <<machine, table, failed_transitions, buffers, calls, history>>

\* polycall_sm_lock_state
LockState(i) ==
  /\ is_initialized
  /\ i < num_states
  /\ states' = [states EXCEPT ![i] = Updated([@ EXCEPT !.is_locked = TRUE])]
  /\ age' = Older(i)
  /\ frame' = LockedInside(i)
  /\ UNCHANGED <<machine, num_states, transitions, num_transitions, current_state,
                 diagnostics, snapshots, has_snapshot, origin, depth, history>>

\* polycall_sm_unlock_state
UnlockState(i) ==
  /\ is_initialized
  /\ i < num_states
  /\ states' = [states EXCEPT ![i] = Updated([@ EXCEPT !.is_locked = FALSE])]
  /\ age' = Older(i)
  /\ UNCHANGED <<machine, num_states, transitions, num_transitions, current_state,
                 diagnostics, snapshots, has_snapshot, origin, calls, history>>

\* polycall_sm_create_state_snapshot.  Nothing ever reads snapshot->checksum.
CreateStateSnapshot(b, i) ==
  /\ is_initialized
  /\ i < num_states
  /\ snapshots' = [snapshots EXCEPT ![b] = states[i]]
  /\ has_snapshot' = has_snapshot \cup {b}
  /\ age' = [age EXCEPT ![b] = 0]
  /\ origin' = [origin EXCEPT ![b] = gen]
  /\ UNCHANGED <<machine, table, diagnostics, calls, history>>

\* Mutant: the lock check is dropped.
RestoreIgnoresLock(s) == TRUE

\* The lock check of a restore.
RestoreUnlocked(s) == ~states[s.id].is_locked

\* Mutant: only snapshots from the future are refused.
NotNewer(s) == s.version <= states[s.id].version

\* The version check of a restore.
SameVersion(s) == s.version = states[s.id].version

\* polycall_sm_restore_state_from_snapshot, of a buffer the caller has filled.
RestoreStateFromSnapshot(b) ==
  /\ is_initialized
  /\ b \in has_snapshot
  /\ LET s == snapshots[b]
     IN  /\ s.id < num_states
         /\ RestoreUnlocked(s)
         /\ SameVersion(s)
         /\ states' = [states EXCEPT ![s.id] = Updated(s)]
         /\ age' = Older(s.id)
         /\ frame' = IF s.is_locked THEN LockedInside(s.id) ELSE frame
         /\ foreign' = IF origin[b] = gen THEN foreign ELSE foreign \cup {s.id}
  /\ UNCHANGED <<machine, num_states, transitions, num_transitions, current_state,
                 diagnostics, snapshots, has_snapshot, origin, depth, registered, written>>

\* The fault that the checksums are there for: user code holds a pointer to
\* the machine and writes over the name or the flag of a state, again and
\* again.  (A stray callback pointer would be called, which ends the model; a
\* stray id is followed by restore only, and is left out.)
StrayWrite(i) ==
  /\ is_initialized
  /\ i < num_states
  /\ \/ /\ "is_final" \in Damage
        /\ states' = [states EXCEPT ![i].is_final = ~@]
        /\ written' = [written EXCEPT ![i] = @ \cup {"is_final"}]
     \/ \E n \in AnyName :
          /\ "name" \in Damage
          /\ states' = [states EXCEPT ![i].name = n]
          /\ written' = [written EXCEPT ![i] = @ \cup {"name"}]
  /\ UNCHANGED <<machine, num_states, transitions, num_transitions, current_state,
                 diagnostics, buffers, calls, registered, foreign>>

----------------------------------------------------------------------------
Next == \/ \E check \in BOOLEAN : Create(check)
        \/ Destroy
        \/ \E n \in Names, f \in BOOLEAN : AddState(n, f)
        \/ \E n \in Names, i, j \in StateIds, g \in BOOLEAN : AddTransition(n, i, j, g)
        \/ \E n \in Names, g \in BOOLEAN : ExecuteFails(n, g)
        \/ \E n \in Names, g \in BOOLEAN : ExecuteBegin(n, g)
        \/ ExecuteCommit
        \/ \E i \in StateIds, ok \in BOOLEAN : VerifyFails(i, ok)
        \/ \E i \in StateIds : LockState(i)
        \/ \E i \in StateIds : UnlockState(i)
        \/ \E b \in Buffers, i \in StateIds : CreateStateSnapshot(b, i)
        \/ \E b \in Buffers : RestoreStateFromSnapshot(b)
        \/ \E i \in StateIds : StrayWrite(i)

Spec == Init /\ [][Next]_vars

----------------------------------------------------------------------------
(* Properties *)

\* Type invariant: the tables keep their shape and every counter, index and
\* version its range; in particular no count runs past its array.
TypeOK ==
  /\ is_initialized \in BOOLEAN
  /\ states \in [StateIds -> State]
  /\ num_states \in 0 .. MaxStates
  /\ transitions \in [TransitionIds -> Transition]
  /\ num_transitions \in 0 .. MaxTransitions
  /\ current_state \in StateIds
  /\ has_check \in BOOLEAN
  /\ failed_transitions \in 0 .. MaxCount
  /\ integrity_violations \in 0 .. MaxCount
  /\ snapshots \in [Buffers -> State]
  /\ has_snapshot \in SUBSET Buffers
  /\ depth \in 0 .. MaxDepth
  /\ frame \in [Frames -> Frame]
  /\ gen \in 0 .. MaxGen
  /\ registered \in [StateIds -> Digest]
  /\ age \in [Buffers -> 0 .. VersionMod]
  /\ origin \in [Buffers -> 0 .. MaxGen]
  /\ foreign \in SUBSET StateIds
  /\ written \in [StateIds -> SUBSET {"name", "is_final"}]

\* polycall_sm_execute_transition indexes sm->states without a check: every
\* registered transition, every running one and the current state must name
\* a state that has been added, however calls and callbacks interleave.
IndicesInBounds ==
  /\ \A t \in TransitionIds : t < num_transitions =>
       /\ transitions[t].from_state < num_states
       /\ transitions[t].to_state < num_states
  /\ \A k \in Frames : k <= depth =>
       /\ frame[k].from_state < num_states
       /\ frame[k].to_state < num_states
  /\ current_state < num_states \/ (num_states = 0 /\ current_state = 0)

\* A transition whose checks have passed can find an endpoint locked only if
\* the lock was taken while its own callbacks ran.
LockedOnlyFromInside ==
  \A k \in Frames :
    /\ k <= depth
    /\ states[frame[k].from_state].is_locked \/ states[frame[k].to_state].is_locked
    => frame[k].inside

\* While a state is locked nothing updates it but lock and unlock calls on it
\* (no restore does, nor a transition, unless the transition's own callbacks
\* locked the state after the check).
LockHolds ==
  [][\A i \in StateIds :
       states[i].is_locked /\ is_initialized' /\ states'[i].version # states[i].version
       => \/ LockState(i)
          \/ UnlockState(i)
          \/ ExecuteCommit /\ frame[depth].inside]_vars

\* The snapshot in b was taken of this machine, fewer than 2^32 updates ago.
Young(b) == b \in has_snapshot /\ origin[b] = gen /\ age[b] < VersionMod

\* A restore from such a snapshot succeeds only if the state has not been
\* updated since, so all it can do is undo stray writes: lock, id and
\* checksum stay as they are, the version moves on by one.
RestoreOnlyHeals ==
  [][\A b \in Buffers :
       RestoreStateFromSnapshot(b) /\ Young(b)
       => LET i == snapshots[b].id
          IN  /\ age[b] = 0
              /\ states'[i] = [states[i] EXCEPT !.version = NextVersion(@),
                                                !.name = snapshots[b].name,
                                                !.is_final = snapshots[b].is_final]]_vars

\* Where no other machine's snapshot has overwritten the state: a state that
\* holds what it was registered with passes
\* polycall_sm_verify_state_integrity, whatever restores, transitions and
\* locks came before; and when stray writes have hit one field of it only,
\* once or often, it passes only then.  Writes to two fields may cancel out
\* in the sum and go unnoticed.
VerifySound ==
  \A i \in StateIds :
    i < num_states /\ i \notin foreign =>
      /\ Covered(states[i]) = registered[i] => ChecksumMatches(states[i])
      /\ (\E f \in {"name", "is_final"} : written[i] \subseteq {f}) /\ ChecksumMatches(states[i])
         => Covered(states[i]) = registered[i]

\* What the `add_transition NAME FROM TO` command documents: a transition
\* leads from FROM to TO, so it is taken only in state FROM.
TakenFromSource ==
  [][\A k \in Frames : k = depth + 1 /\ depth' = k => frame'[k].from_state = current_state]_vars
=============================================================================

------------------------------- MODULE Micro -------------------------------
(***************************************************************************)
(* The micro-service table of src/src/polycall_micro.c: a fixed array of   *)
(* services with an active mask and a count, a bounded command queue per   *)
(* service, and a garbage collector that goes by the wall clock.           *)
(*                                                                         *)
(* Every call is one action, except polycall_micro_collect_garbage: each   *)
(* iteration of its loop is a step, as each may call                       *)
(* polycall_micro_destroy_service, which searches the table by id.  A call *)
(* that returns an error without touching the context is a stuttering      *)
(* step.                                                                   *)
(***************************************************************************)
EXTENDS Integers, FiniteSets, Sequences

CONSTANTS MaxServices,   \* POLYCALL_MICRO_MAX_SERVICES
          Capacity,      \* POLYCALL_MICRO_MAX_COMMANDS
          Ids,           \* service ids the caller uses
          Commands,      \* commands
          Oversized,     \* those with payload_size > POLYCALL_MICRO_BUFFER_SIZE
          Batches,       \* command arrays the caller submits
          Timeout,       \* 3600 s
          TimeMod,       \* 2^64: time stamps are uint64_t
          MaxTime,       \* bound on the clock
          MaxBirths      \* bound on the number of services ever created

ASSUME TableAssumption == /\ MaxServices \in Nat \ {0}
                          /\ Capacity \in Nat \ {0}
                          /\ Ids \subseteq Nat
ASSUME CommandAssumption == /\ Oversized \subseteq Commands
                            /\ Batches \subseteq Seq(Commands)
ASSUME TimeAssumption == /\ Timeout \in Nat /\ MaxTime \in Nat /\ MaxBirths \in Nat
                         /\ TimeMod \in Nat /\ TimeMod > MaxTime

Slots == 0 .. MaxServices - 1
Times == 0 .. MaxTime

\* A queued command; history: the id it was submitted for, and after how many births.
Entry == [cmd : Commands, to : Ids, at : 0 .. MaxBirths]
Service == [id : Ids \cup {0}, last_update : Times, command_queue : Seq(Entry)]

VARIABLES
  services,   \* service_array.services
  active,     \* service_array.active_mask: the slots whose bit is set
  count,      \* service_array.count
  last_gc,    \* service_array.last_gc
  machine,    \* ctx->state_machine: "null", "live" or "freed"
  now,        \* what time(NULL) returns
  sweep,      \* the slot polycall_micro_collect_garbage looks at, or -1
  births,     \* history: services created since Init
  born,       \* history: the birth number of the service in a slot
  quiet,      \* history: seconds that really passed since it was last updated
  stepped,    \* history: the wall clock has been set back
  shared      \* history: a service was created with an id in use

table == <<services, active, count>>
history == <<births, born, quiet, stepped, shared>>
vars == <<table, last_gc, machine, now, sweep, history>>

----------------------------------------------------------------------------
(* Helpers *)

\* Mutant: the queue survives a reset.
ResetKeepsQueue(s) == [id |-> 0, last_update |-> 0, command_queue |-> s.command_queue]

\* reset_service_state
Reset(s) == [id |-> 0, last_update |-> 0, command_queue |-> <<>>]

ZeroService == [id |-> 0, last_update |-> 0, command_queue |-> <<>>]

\* Mutant: the search accepts any active slot.
MatchesAny(id) == active

\* The slots a search for service_id accepts.
Matches(id) == {i \in active : services[i].id = id}

\* The slot the search stops at.
Found(id) == CHOOSE i \in Matches(id) : \A j \in Matches(id) : i <= j

\* The first slot whose mask bit is clear.
FreeSlot == CHOOSE i \in Slots \ active : \A j \in Slots \ active : i <= j

\* Mutant: services are collected one second early.
ExpiredEarly(s) == (now - s.last_update) % TimeMod >= Timeout

\* Mutant: services are collected one second late.
ExpiredLate(s) == (now - s.last_update) % TimeMod > Timeout + 1

\* current_time - service->last_update > timeout, on uint64_t
Expired(s) == (now - s.last_update) % TimeMod > Timeout

\* Mutant: one command more than fits.
AcceptedOneMore(q, batch) ==
  LET all == q \o batch IN SubSeq(all, 1, IF Len(all) > Capacity + 1 THEN Capacity + 1 ELSE Len(all))

\* The queue after the loop of polycall_micro_batch_process, which skips what
\* does not fit: the longest prefix that does.
Accepted(q, batch) ==
  LET all == q \o batch IN SubSeq(all, 1, IF Len(all) > Capacity THEN Capacity ELSE Len(all))

\* One turn of a loop that copies the commands it selects to the front.
Keep(q, e, S) == IF e \in S THEN Append(q, e) ELSE q

\* polycall_micro_filter_commands with a predicate that accepts S: kept[n] is
\* what lies before write_idx when read_idx is n.
Filtered(q, S) ==
  LET kept[n \in 0 .. Len(q)] == IF n = 0 THEN <<>> ELSE Keep(kept[n - 1], q[n], S)
  IN  kept[Len(q)]

\* History: the service in slot i has just been updated.
Touched(i) == quiet' = [quiet EXCEPT ![i] = 0]

----------------------------------------------------------------------------
Init == /\ services = [i \in Slots |-> ZeroService]
        /\ active = {}
        /\ count = 0
        /\ last_gc = 0
        /\ machine = "null"
        /\ now \in Times
        /\ sweep = -1
        /\ births = 0
        /\ born = [i \in Slots |-> 0]
        /\ quiet = [i \in Slots |-> 0]
        /\ stepped = FALSE
        /\ shared = FALSE

\* The memset of the service array in polycall_micro_init and _cleanup.
ZeroTable == /\ services' = [i \in Slots |-> ZeroService]
             /\ active' = {}
             /\ count' = 0

\* polycall_micro_init succeeds, fails in polycall_protocol_init (the machine is
\* destroyed and the pointer to it stays) or in polycall_sm_create_with_integrity.
MicroInit ==
  /\ sweep = -1
  /\ machine # "live"
  /\ ZeroTable
  /\ last_gc' = now
  /\ machine' \in {"live", "freed", machine}
  /\ UNCHANGED <<now, sweep, history>>

\* polycall_micro_cleanup: whatever its loop leaves, the memset clears.  It is
\* not called when the init failed.  The protocol context it hands to
\* polycall_protocol_cleanup lies inside the micro context and is passed to
\* free() there: undefined, and modelled as harmless to the table.
MicroCleanup ==
  /\ sweep = -1
  /\ machine = "live"
  /\ ZeroTable
  /\ last_gc' = 0
  /\ machine' = "null"
  /\ UNCHANGED <<now, sweep, history>>

\* The tests at the head of polycall_micro_create_service.
MayCreate == count < MaxServices

\* polycall_micro_create_service
CreateService(id) ==
  /\ sweep = -1
  /\ MayCreate
  /\ births < MaxBirths
  /\ services' = [services EXCEPT ![FreeSlot] =
                    [Reset(@) EXCEPT !.id = id, !.last_update = now]]
  /\ active' = active \cup {FreeSlot}
  /\ count' = count + 1
  /\ births' = births + 1
  /\ born' = [born EXCEPT ![FreeSlot] = births + 1]
  /\ shared' = (shared \/ Matches(id) # {})
  /\ Touched(FreeSlot)
  /\ UNCHANGED <<last_gc, machine, now, sweep, stepped>>

\* Mutant: the count is not taken back.
DestroyKeepsCount(id) ==
  /\ services' = [services EXCEPT ![Found(id)] = Reset(@)]
  /\ active' = active \ {Found(id)}
  /\ UNCHANGED count

\* polycall_micro_destroy_service, when the search succeeds
Destroy(id) ==
  /\ services' = [services EXCEPT ![Found(id)] = Reset(@)]
  /\ active' = active \ {Found(id)}
  /\ count' = count - 1

DestroyService(id) ==
  /\ sweep = -1
  /\ Matches(id) # {}
  /\ Destroy(id)
  /\ UNCHANGED <<last_gc, machine, now, sweep, history>>

\* polycall_micro_batch_process
BatchProcess(id, batch) ==
  LET good == Filtered(batch, Commands \ Oversized)
      new == [k \in 1 .. Len(good) |-> [cmd |-> good[k], to |-> id, at |-> births]]
  IN /\ sweep = -1
     /\ Matches(id) # {}
     /\ services' = [services EXCEPT
          ![Found(id)].command_queue = Accepted(@, new),
          ![Found(id)].last_update = now]
     /\ Touched(Found(id))
     /\ UNCHANGED <<active, count, last_gc, machine, now, sweep, births, born, stepped, shared>>

\* polycall_micro_process_commands on the caller's pointer to slot i, which may
\* have been destroyed meanwhile; the operation applies
\* polycall_micro_filter_commands with a predicate that accepts `keep`.
ProcessCommands(i, keep) ==
  /\ sweep = -1
  /\ services' = [services EXCEPT
       ![i].command_queue = Filtered(@, {e \in Entry : e.cmd \in keep}),
       ![i].last_update = now]
  /\ Touched(i)
  /\ UNCHANGED <<active, count, last_gc, machine, now, sweep, births, born, stepped, shared>>

\* polycall_micro_update_service_state; the state itself is never read
UpdateServiceState(id) ==
  /\ sweep = -1
  /\ Matches(id) # {}
  /\ services' = [services EXCEPT ![Found(id)].last_update = now]
  /\ Touched(Found(id))
  /\ UNCHANGED <<active, count, last_gc, machine, now, sweep, births, born, stepped, shared>>

\* polycall_micro_collect_garbage: the clock is read once, before the loop
CollectBegin ==
  /\ sweep = -1
  /\ sweep' = 0
  /\ UNCHANGED <<table, last_gc, machine, now, history>>

\* One iteration: the service is destroyed by its id.
CollectSlot ==
  /\ sweep \in Slots
  /\ sweep' = sweep + 1
  /\ IF sweep \in active /\ Expired(services[sweep])
     THEN Destroy(services[sweep].id)
     ELSE UNCHANGED table
  /\ UNCHANGED <<last_gc, machine, now, history>>

CollectEnd ==
  /\ sweep = MaxServices
  /\ sweep' = -1
  /\ last_gc' = now
  /\ UNCHANGED <<table, machine, now, history>>

\* A second passes between two calls.
Tick ==
  /\ sweep = -1
  /\ now < MaxTime
  /\ now' = now + 1
  /\ quiet' = [i \in Slots |-> IF quiet[i] > Timeout THEN quiet[i] ELSE quiet[i] + 1]
  /\ UNCHANGED <<table, last_gc, machine, sweep, births, born, stepped, shared>>

\* The administrator or NTP sets the clock back by a second.
StepBack ==
  /\ sweep = -1
  /\ now > 0
  /\ now' = now - 1
  /\ stepped' = TRUE
  /\ UNCHANGED <<table, last_gc, machine, sweep, births, born, quiet, shared>>

Next == \/ MicroInit
        \/ MicroCleanup
        \/ \E id \in Ids : CreateService(id)
        \/ \E id \in Ids : DestroyService(id)
        \/ \E id \in Ids, b \in Batches : BatchProcess(id, b)
        \/ \E i \in Slots, keep \in SUBSET Commands : ProcessCommands(i, keep)
        \/ \E id \in Ids : UpdateServiceState(id)
        \/ CollectBegin
        \/ CollectSlot
        \/ CollectEnd
        \/ Tick
        \/ StepBack

Spec == Init /\ [][Next]_vars

----------------------------------------------------------------------------
(* Properties *)

(* The service table keeps its types; a queue of                           *)
(* polycall_micro_batch_process never outgrows its array and holds nothing *)
(* oversized.                                                              *)
MTypeOK ==
  /\ services \in [Slots -> Service]
  /\ \A i \in Slots : /\ Len(services[i].command_queue) <= Capacity
                      /\ \A k \in DOMAIN services[i].command_queue :
                           services[i].command_queue[k].cmd \notin Oversized
  /\ active \subseteq Slots
  /\ count \in 0 .. MaxServices
  /\ last_gc \in Times
  /\ machine \in {"null", "live", "freed"}
  /\ now \in Times
  /\ sweep \in -1 .. MaxServices
  /\ births \in 0 .. MaxBirths
  /\ born \in [Slots -> 0 .. MaxBirths]
  /\ quiet \in [Slots -> 0 .. Timeout + 1]
  /\ stepped \in BOOLEAN
  /\ shared \in BOOLEAN

(* The count that polycall_micro_create_service tests and                  *)
(* polycall_micro_get_active_services reports is the number of mask bits   *)
(* set, through creations, destructions by id, collections and cleanup;    *)
(* hence the search for a free bit ends before it would shift by 32.       *)
CountMatchesMask == count = Cardinality(active)

(* A service only ever holds commands submitted for its own id, and after  *)
(* it was created: no slot hands the commands of a destroyed service to    *)
(* the next one.                                                           *)
OwnCommandsOnly ==
  \A i \in active : \A k \in DOMAIN services[i].command_queue :
    LET e == services[i].command_queue[k]
    IN e.to = services[i].id /\ e.at >= born[i]

(* What the collector relies on: no id was given out while it was in use,  *)
(* and the wall clock has never been set back.                             *)
Dependable == ~shared /\ ~stepped

(* With dependable ids and clock, polycall_micro_collect_garbage destroys  *)
(* only services that have really been idle for longer than the timeout.   *)
CollectsOnlyIdle ==
  [][Dependable /\ sweep \in Slots => \A i \in active \ active' : quiet[i] > Timeout]_vars

(* When such a collection ends, every service that was idle for longer     *)
(* than the timeout is gone.                                               *)
CollectsAllIdle ==
  [][Dependable /\ sweep = MaxServices => \A i \in active : quiet[i] <= Timeout]_vars

(* The live services by the order of their creation, as their callers see  *)
(* them: slots, mask and count are hidden.                                 *)
SlotOf(b) == CHOOSE i \in active : born[i] = b
Registry ==
  [b \in {born[i] : i \in active} |->
     LET s == services[SlotOf(b)]
     IN [id |-> s.id,
         queue |-> [k \in DOMAIN s.command_queue |-> s.command_queue[k].cmd]]]

Abstract == INSTANCE ServiceRegistry WITH created <- births, registry <- Registry

\* Each call has the effect on the registry that its own arguments ask for; a
\* pointer to a slot whose service is gone reaches no service.
CallByCall ==
  /\ \A id \in Ids : /\ CreateService(id) => Abstract!Create(id)
                     /\ DestroyService(id) => Abstract!Destroy(id)
                     /\ UpdateServiceState(id) => UNCHANGED Abstract!rvars
                     /\ \A b \in Batches : BatchProcess(id, b) => Abstract!Submit(id, b)
  /\ \A i \in Slots, keep \in SUBSET Commands :
       ProcessCommands(i, keep) =>
         IF i \in active THEN Abstract!Filter(born[i], keep) ELSE UNCHANGED Abstract!rvars
  /\ MicroInit \/ MicroCleanup => Abstract!Clear
  /\ CollectSlot => Abstract!Collect \/ UNCHANGED Abstract!rvars
  /\ CollectBegin \/ CollectEnd \/ Tick \/ StepBack => UNCHANGED Abstract!rvars

(* The slot table implements the registry, call by call: a destruction     *)
(* takes a service with the id it names, a batch joins the queue of a      *)
(* service with its id and of no other, a filter reaches the service in    *)
(* its slot only, and slot reuse, duplicate ids, stale pointers and        *)
(* collections in the middle of which other slots change never show in     *)
(* the ids and queues of the other live services.                          *)
ImplementsRegistry == Abstract!RSpec /\ [][CallByCall]_vars
=============================================================================

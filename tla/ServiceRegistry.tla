-------------------------- MODULE ServiceRegistry --------------------------
(***************************************************************************)
(* What the micro-service table promises to its caller: a bounded set of   *)
(* services, each with its own id and its own bounded queue of commands.   *)
(* There are no slots here, no mask and no count: a service is known by    *)
(* the order in which it was created, and nothing of it outlives it.       *)
(* Every action carries the arguments of the call it is the effect of.     *)
(***************************************************************************)
EXTENDS Naturals, Sequences, FiniteSets

CONSTANTS MaxServices, Capacity, Ids, Commands, Oversized, Batches

VARIABLES created,    \* how many services have been created
          registry    \* the live services: from their number to id and queue

rvars == <<created, registry>>

Live == DOMAIN registry

\* The services a caller may mean by an id.
Named(id) == {b \in Live : registry[b].id = id}

\* f[1], f[2], ... f[m] are the places of q that hold members of S, in order.
Picks(f, m, q, S) ==
  /\ \A j, k \in 1 .. m : j < k => f[j] < f[k]
  /\ \A i \in 1 .. Len(q) : q[i] \in S <=> \E k \in 1 .. m : f[k] = i

RInit == created = 0 /\ registry = <<>>

\* A new service starts with nothing in its queue.
Create(id) ==
  /\ Cardinality(Live) < MaxServices
  /\ created' = created + 1
  /\ registry' = [b \in Live \cup {created + 1} |->
                    IF b \in Live THEN registry[b] ELSE [id |-> id, queue |-> <<>>]]

\* One service goes; the others keep their ids and queues.
Remove(b) ==
  /\ registry' = [x \in Live \ {b} |-> registry[x]]
  /\ UNCHANGED created

\* A call to destroy an id takes one service with that id.
Destroy(id) == \E b \in Named(id) : Remove(b)

\* A collection takes one service at a time.
Collect == \E b \in Live : Remove(b)

\* The commands of the batch that are not oversized join the end of the queue
\* of one service with that id, in their order: all of them, or as many as fit.
Submit(id, batch) ==
  /\ \E b \in Named(id) : \E m \in 0 .. Len(batch) : \E f \in [1 .. m -> 1 .. Len(batch)] :
        /\ Picks(f, m, batch, Commands \ Oversized)
        /\ \E n \in 0 .. m :
             /\ Len(registry[b].queue) + n <= Capacity
             /\ n = m \/ Len(registry[b].queue) + n = Capacity
             /\ registry' = [registry EXCEPT ![b].queue = @ \o [k \in 1 .. n |-> batch[f[k]]]]
  /\ UNCHANGED created

\* A filter leaves the commands it accepts in one queue, in their order.
Filter(b, keep) ==
  /\ LET q == registry[b].queue IN
     \E m \in 0 .. Len(q) : \E f \in [1 .. m -> 1 .. Len(q)] :
        /\ Picks(f, m, q, keep)
        /\ registry' = [registry EXCEPT ![b].queue = [k \in 1 .. m |-> q[f[k]]]]
  /\ UNCHANGED created

\* The table is initialised or cleaned up.
Clear == registry' = <<>> /\ UNCHANGED created

RNext == \/ \E id \in Ids : Create(id) \/ Destroy(id)
         \/ \E id \in Ids, batch \in Batches : Submit(id, batch)
         \/ \E b \in Live, keep \in SUBSET Commands : Filter(b, keep)
         \/ Collect
         \/ Clear

RSpec == RInit /\ [][RNext]_rvars
=============================================================================

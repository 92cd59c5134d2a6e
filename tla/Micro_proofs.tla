---------------------------- MODULE Micro_proofs ----------------------------
(***************************************************************************)
(* Proofs about the micro-service table, for any number of slots, ids and  *)
(* commands and any timeout: the count agrees with the mask, with          *)
(* dependable ids and clock the collector removes the idle services and    *)
(* no other, a service holds its own commands only, and the table          *)
(* implements the abstract registry.                                       *)
(***************************************************************************)
EXTENDS Micro, FiniteSetTheorems, SequenceTheorems, WellFoundedInduction, TLAPS

\* A non-empty set of slots has a least element: the searches end somewhere.
LEMMA LeastSlot ==
  ASSUME NEW T, T \subseteq Slots, T # {}
  PROVE  \E i \in T : \A j \in T : i <= j
<1>1. T \subseteq Nat
  BY TableAssumption DEF Slots
<1>2. PICK i \in T : \A j \in T : ~(<<j, i>> \in OpToRel(<, Nat))
  BY <1>1, NatLessThanWellFounded, WFMin
<1>3. \A j \in T : ~(j < i)
  BY <1>1, <1>2 DEF OpToRel
<1> QED
  BY <1>1, <1>3

\* The mask has at most MaxServices bits.
LEMMA MaskFinite ==
  ASSUME active \subseteq Slots
  PROVE  /\ IsFiniteSet(active)
         /\ Cardinality(active) \in 0 .. MaxServices
         /\ Cardinality(active) < MaxServices => Slots \ active # {}
<1>1. IsFiniteSet(Slots) /\ Cardinality(Slots) = MaxServices
  BY TableAssumption, FS_Interval DEF Slots
<1>2. IsFiniteSet(active) /\ Cardinality(active) <= Cardinality(Slots)
  BY <1>1, FS_Subset
<1>3. Cardinality(active) \in Nat
  BY <1>2, FS_CardinalityType
<1>4. Slots \ active = {} => active = Slots
  OBVIOUS
<1> QED
  BY <1>1, <1>2, <1>3, <1>4, TableAssumption

\* The unsigned subtraction of time stamps is exact while the clock is not
\* behind the stamp.
LEMMA SmallRemainder ==
  ASSUME NEW a \in Nat, a <= MaxTime
  PROVE  a % TimeMod = a
BY TimeAssumption

----------------------------------------------------------------------------
(* The inductive invariant *)

\* Every entry of the array is a service; its queue may be any value.
Shaped == /\ services = [i \in Slots |-> services[i]]
          /\ \A i \in Slots :
               services[i] = [id |-> services[i].id, last_update |-> services[i].last_update,
                              command_queue |-> services[i].command_queue]

ClockInv == /\ now \in Times
            /\ \A i \in Slots : services[i].last_update \in Times
            /\ quiet \in [Slots -> 0 .. Timeout + 1]
            /\ sweep \in -1 .. MaxServices

MaskInv == active \subseteq Slots /\ CountMatchesMask

\* Without shared ids the search by id finds the service it was meant for.
IdsInv == ~shared => \A i, j \in active : services[i].id = services[j].id => i = j

\* While the clock has never been set back the time stamps tell the idle time.
QuietInv ==
  ~stepped => \A i \in active :
    /\ services[i].last_update <= now
    /\ quiet[i] = IF now - services[i].last_update > Timeout THEN Timeout + 1
                  ELSE now - services[i].last_update

\* What the collector has passed is not idle.
SweptInv ==
  Dependable => \A i \in active : i < sweep => quiet[i] <= Timeout

IndInv == Shaped /\ ClockInv /\ MaskInv /\ IdsInv /\ QuietInv /\ SweptInv

\* A search for an id that is in use ends at an active slot with that id.
LEMMA FoundProperties ==
  ASSUME active \subseteq Slots, NEW id, Matches(id) # {}
  PROVE  Found(id) \in active /\ Found(id) \in Slots /\ services[Found(id)].id = id
<1>1. \E i \in Matches(id) : \A j \in Matches(id) : i <= j
  BY LeastSlot DEF Matches
<1>2. Found(id) \in Matches(id)
  BY <1>1 DEF Found
<1> QED
  BY <1>2 DEF Matches

\* The search for a clear mask bit ends at one.
LEMMA FreeSlotProperties ==
  ASSUME active \subseteq Slots, CountMatchesMask, count < MaxServices
  PROVE  FreeSlot \in Slots /\ FreeSlot \notin active
<1>1. Slots \ active # {}
  BY MaskFinite DEF CountMatchesMask
<1>2. \E i \in Slots \ active : \A j \in Slots \ active : i <= j
  BY <1>1, LeastSlot
<1> QED
  BY <1>2 DEF FreeSlot

\* On a dependable clock Expired is what the history variable quiet says.
LEMMA ExpiredMeansIdle ==
  ASSUME ClockInv, QuietInv, ~stepped, active \subseteq Slots, NEW i \in active
  PROVE  Expired(services[i]) <=> quiet[i] > Timeout
<1>1. /\ services[i].last_update \in Nat /\ now \in Nat
      /\ services[i].last_update <= now /\ now <= MaxTime
  BY TimeAssumption DEF ClockInv, QuietInv, Times
<1> DEFINE d == now - services[i].last_update
<1>2. d \in Nat /\ d <= MaxTime
  BY <1>1, TimeAssumption
<1>3. d % TimeMod = d
  BY <1>2, SmallRemainder
<1>4. quiet[i] = IF d > Timeout THEN Timeout + 1 ELSE d
  BY DEF QuietInv
<1> QED
  BY <1>2, <1>3, <1>4, TimeAssumption DEF Expired

----------------------------------------------------------------------------
(* Initial states and steps *)

LEMMA IndInit == Init => IndInv
<1> SUFFICES ASSUME Init PROVE IndInv
  OBVIOUS
<1>1. Shaped
  BY DEF Init, Shaped, ZeroService
<1>2. ClockInv
  BY TimeAssumption, TableAssumption DEF Init, ClockInv, ZeroService, Times
<1>3. MaskInv
  BY FS_EmptySet DEF Init, MaskInv, CountMatchesMask
<1>4. IdsInv /\ QuietInv /\ SweptInv
  BY DEF Init, IdsInv, QuietInv, SweptInv
<1> QED
  BY <1>1, <1>2, <1>3, <1>4 DEF IndInv

\* The memset of the whole array.
LEMMA IndZero ==
  ASSUME IndInv, ZeroTable, UNCHANGED <<now, sweep, history>>
  PROVE  IndInv'
<1> USE DEF history
<1>1. Shaped'
  BY DEF ZeroTable, Shaped, ZeroService
<1>2. ClockInv'
  BY TimeAssumption DEF IndInv, ClockInv, ZeroTable, ZeroService, Times
<1>3. MaskInv'
  BY FS_EmptySet DEF ZeroTable, MaskInv, CountMatchesMask
<1>4. IdsInv' /\ QuietInv' /\ SweptInv'
  BY DEF ZeroTable, IdsInv, QuietInv, SweptInv
<1> QED
  BY <1>1, <1>2, <1>3, <1>4 DEF IndInv

\* polycall_micro_create_service
LEMMA IndCreate ==
  ASSUME IndInv, NEW id \in Ids, CreateService(id)
  PROVE  IndInv'
<1> DEFINE f == FreeSlot
<1>1. f \in Slots /\ f \notin active
  BY FreeSlotProperties DEF IndInv, MaskInv, CreateService, MayCreate
<1>2. /\ services'[f].id = id /\ services'[f].last_update = now
      /\ services' = [i \in Slots |-> services'[i]]
      /\ services'[f] = [id |-> id, last_update |-> now, command_queue |-> <<>>]
      /\ \A j \in Slots : j # f => services'[j] = services[j]
  BY <1>1 DEF IndInv, Shaped, CreateService, Reset
<1>3. quiet' = [quiet EXCEPT ![f] = 0]
  BY DEF CreateService, Touched
<1>4. sweep = -1 /\ UNCHANGED <<now, sweep, stepped>> /\ active' = active \cup {f}
  BY DEF CreateService
<1>5. Shaped'
  BY <1>2 DEF IndInv, Shaped
<1>6. ClockInv'
  BY <1>1, <1>2, <1>3, <1>4, TimeAssumption DEF IndInv, ClockInv
<1>7. MaskInv'
  <2>1. IsFiniteSet(active)
    BY MaskFinite DEF IndInv, MaskInv
  <2>2. Cardinality(active \cup {f}) = Cardinality(active) + 1
    BY <1>1, <2>1, FS_AddElement
  <2> QED
    BY <1>1, <1>4, <2>2 DEF IndInv, MaskInv, CountMatchesMask, CreateService
<1>8. IdsInv'
  <2> SUFFICES ASSUME ~shared', NEW i \in active', NEW j \in active',
                      services'[i].id = services'[j].id
               PROVE  i = j
    BY DEF IdsInv
  <2>1. ~shared /\ \A k \in active : services[k].id # id
    BY DEF CreateService, Matches
  <2> QED
    BY <1>1, <1>2, <1>4, <2>1 DEF IndInv, IdsInv, MaskInv
<1>9. QuietInv'
  <2>1. now - now = 0 /\ now <= now /\ ~(0 > Timeout)
    BY TimeAssumption DEF IndInv, ClockInv, Times
  <2>2. quiet'[f] = 0 /\ \A j \in Slots : j # f => quiet'[j] = quiet[j]
    BY <1>1, <1>3 DEF IndInv, ClockInv
  <2> QED
    BY <1>1, <1>2, <1>4, <2>1, <2>2 DEF IndInv, QuietInv, MaskInv
<1>10. SweptInv'
  BY <1>1, <1>4, TableAssumption DEF IndInv, SweptInv, MaskInv, Slots
<1> QED
  BY <1>5, <1>6, <1>7, <1>8, <1>9, <1>10 DEF IndInv

\* polycall_micro_destroy_service keeps everything but, by itself, what the
\* collector's position says.
LEMMA IndDestroy ==
  ASSUME IndInv, NEW id, Matches(id) # {}, Destroy(id), sweep' \in -1 .. MaxServices,
         UNCHANGED <<now, history>>
  PROVE  /\ Shaped' /\ ClockInv' /\ MaskInv' /\ IdsInv' /\ QuietInv'
         /\ active' = active \ {Found(id)}
<1> DEFINE f == Found(id)
<1> USE DEF history
<1>1. f \in active /\ f \in Slots
  BY FoundProperties DEF IndInv, MaskInv
<1>2. /\ services' = [i \in Slots |-> services'[i]]
      /\ services'[f] = [id |-> 0, last_update |-> 0, command_queue |-> <<>>]
      /\ services'[f].last_update = 0
      /\ \A j \in Slots : j # f => services'[j] = services[j]
  BY <1>1 DEF IndInv, Shaped, Destroy, Reset
<1>3. active' = active \ {f} /\ count' = count - 1
  BY DEF Destroy
<1>4. Shaped'
  BY <1>2 DEF IndInv, Shaped
<1>5. ClockInv'
  BY <1>1, <1>2, TimeAssumption DEF IndInv, ClockInv, Times
<1>6. MaskInv'
  <2>1. IsFiniteSet(active)
    BY MaskFinite DEF IndInv, MaskInv
  <2>2. Cardinality(active \ {f}) = Cardinality(active) - 1
    BY <1>1, <2>1, FS_RemoveElement
  <2> QED
    BY <1>3, <2>2 DEF IndInv, MaskInv, CountMatchesMask
<1>7. IdsInv' /\ QuietInv'
  BY <1>1, <1>2, <1>3 DEF IndInv, IdsInv, QuietInv, MaskInv
<1> QED
  BY <1>3, <1>4, <1>5, <1>6, <1>7

\* The service in slot f is stamped with the time and gets the queue q.
Stamped(f, q) ==
  /\ services' = [i \in Slots |-> services'[i]]
  /\ services'[f] = [id |-> services[f].id, last_update |-> now, command_queue |-> q]
  /\ \A j \in Slots : j # f => services'[j] = services[j]

LEMMA StampedByAssignment ==
  ASSUME Shaped, NEW f \in Slots, NEW q,
         services' = [services EXCEPT ![f].command_queue = q, ![f].last_update = now]
  PROVE  Stamped(f, q)
<1> DEFINE s1 == [services[f] EXCEPT !.command_queue = q]
           t1 == [services EXCEPT ![f] = s1]
           s2 == [t1[f] EXCEPT !.last_update = now]
           t2 == [t1 EXCEPT ![f] = s2]
<1>1. services' = t2
  OBVIOUS
<1> HIDE DEF t2
<1>2. s1 = [id |-> services[f].id, last_update |-> services[f].last_update, command_queue |-> q]
  BY DEF Shaped
<1> HIDE DEF s1
<1>3. t1 = [i \in Slots |-> t1[i]] /\ t1[f] = s1 /\ \A j \in Slots : j # f => t1[j] = services[j]
  BY DEF Shaped
<1> HIDE DEF t1
<1>4. s2 = [id |-> services[f].id, last_update |-> now, command_queue |-> q]
  BY <1>2, <1>3
<1> HIDE DEF s2
<1>5. t2 = [i \in Slots |-> t2[i]] /\ t2[f] = s2 /\ \A j \in Slots : j # f => t2[j] = t1[j]
  BY <1>3 DEF t2
<1> QED
  BY <1>1, <1>3, <1>4, <1>5 DEF Stamped

\* A call that stamps the service in slot f and may change its queue.
LEMMA IndTouch ==
  ASSUME IndInv, sweep = -1, NEW f \in Slots, NEW q, Stamped(f, q),
         Touched(f), UNCHANGED <<active, count, now, sweep, stepped, shared>>
  PROVE  IndInv'
<1>1. /\ services' = [i \in Slots |-> services'[i]]
      /\ services'[f] = [id |-> services[f].id, last_update |-> now, command_queue |-> q]
      /\ services'[f].last_update = now /\ services'[f].id = services[f].id
      /\ \A j \in Slots : j # f => services'[j] = services[j]
  BY DEF Stamped
<1>2. quiet' = [quiet EXCEPT ![f] = 0]
  BY DEF Touched
<1>3. quiet'[f] = 0 /\ \A j \in Slots : j # f => quiet'[j] = quiet[j]
  BY <1>2 DEF IndInv, ClockInv
<1>4. Shaped'
  BY <1>1 DEF IndInv, Shaped
<1>5. ClockInv'
  BY <1>1, <1>2, TimeAssumption DEF IndInv, ClockInv
<1>6. MaskInv'
  BY DEF IndInv, MaskInv, CountMatchesMask
<1>7. IdsInv'
  BY <1>1 DEF IndInv, IdsInv, MaskInv
<1>8. QuietInv'
  <2>1. now - now = 0 /\ now <= now /\ ~(0 > Timeout)
    BY TimeAssumption DEF IndInv, ClockInv, Times
  <2> QED
    BY <1>1, <1>3, <2>1 DEF IndInv, QuietInv, MaskInv
<1>9. SweptInv'
  BY TableAssumption DEF IndInv, SweptInv, MaskInv, Slots
<1> QED
  BY <1>4, <1>5, <1>6, <1>7, <1>8, <1>9 DEF IndInv

\* One iteration of the collector.  With dependable ids and clock it destroys
\* the service it looks at, and only if that has been idle.
LEMMA CollectStep ==
  ASSUME IndInv, CollectSlot
  PROVE  /\ IndInv'
         /\ Dependable => \A i \in active \ active' : quiet[i] > Timeout
<1> USE DEF history, table
<1>1. /\ sweep \in Slots /\ sweep' = sweep + 1 /\ UNCHANGED <<now, history>>
      /\ sweep' \in -1 .. MaxServices
  BY TableAssumption DEF CollectSlot, Slots
<1>2. CASE sweep \in active /\ Expired(services[sweep])
  <2> DEFINE id == services[sweep].id
  <2>1. Matches(id) # {} /\ Destroy(id)
    BY <1>2 DEF Matches, CollectSlot
  <2>2. /\ Shaped' /\ ClockInv' /\ MaskInv' /\ IdsInv' /\ QuietInv'
        /\ active' = active \ {Found(id)}
    BY <1>1, <2>1, IndDestroy
  <2>3. Dependable => Found(id) = sweep
    BY <1>2, <2>1, FoundProperties DEF IndInv, MaskInv, IdsInv, Dependable
  <2>4. Dependable => quiet[sweep] > Timeout
    BY <1>2, ExpiredMeansIdle DEF IndInv, MaskInv, Dependable
  <2>5. SweptInv'
    <3> SUFFICES ASSUME Dependable', NEW i \in active', i < sweep'
                 PROVE  quiet'[i] <= Timeout
      BY DEF SweptInv
    <3>1. Dependable /\ i \in active /\ i # sweep /\ i \in Slots
      BY <1>1, <2>2, <2>3 DEF Dependable, IndInv, MaskInv
    <3>2. i < sweep
      BY <1>1, <3>1, TableAssumption DEF Slots
    <3> QED
      BY <1>1, <3>1, <3>2 DEF IndInv, SweptInv
  <2> QED
    BY <2>2, <2>3, <2>4, <2>5 DEF IndInv
<1>3. CASE ~(sweep \in active /\ Expired(services[sweep]))
  <2>1. UNCHANGED table
    BY <1>3 DEF CollectSlot
  <2>2. Shaped' /\ ClockInv' /\ MaskInv' /\ IdsInv' /\ QuietInv'
    BY <1>1, <2>1 DEF IndInv, Shaped, ClockInv, MaskInv, CountMatchesMask, IdsInv, QuietInv
  <2>3. SweptInv'
    <3> SUFFICES ASSUME Dependable', NEW i \in active', i < sweep'
                 PROVE  quiet'[i] <= Timeout
      BY DEF SweptInv
    <3>1. Dependable /\ i \in active /\ i \in Slots /\ quiet' = quiet
      BY <1>1, <2>1 DEF Dependable, IndInv, MaskInv
    <3>2. CASE i = sweep
      <4>1. ~(quiet[i] > Timeout)
        BY <1>3, <3>1, <3>2, ExpiredMeansIdle DEF IndInv, MaskInv, Dependable
      <4> QED
        BY <3>1, <4>1, TimeAssumption DEF IndInv, ClockInv
    <3>3. CASE i # sweep
      <4>1. i < sweep
        BY <1>1, <3>1, <3>3, TableAssumption DEF Slots
      <4> QED
        BY <3>1, <4>1 DEF IndInv, SweptInv
    <3> QED
      BY <3>2, <3>3
  <2> QED
    BY <2>1, <2>2, <2>3 DEF IndInv
<1> QED
  BY <1>2, <1>3

\* A second passes.
LEMMA IndTick ==
  ASSUME IndInv, Tick
  PROVE  IndInv'
<1> USE DEF table
<1>1. /\ now \in Nat /\ now' = now + 1 /\ now' \in Times /\ sweep = -1
      /\ UNCHANGED <<services, active, count, sweep, stepped, shared>>
  BY TimeAssumption DEF IndInv, ClockInv, Tick, Times
<1>2. quiet' = [i \in Slots |-> IF quiet[i] > Timeout THEN quiet[i] ELSE quiet[i] + 1]
  BY DEF Tick
<1>3. Shaped' /\ MaskInv' /\ IdsInv'
  BY <1>1 DEF IndInv, Shaped, MaskInv, CountMatchesMask, IdsInv
<1>4. ClockInv'
  BY <1>1, <1>2, TimeAssumption DEF IndInv, ClockInv
<1>5. QuietInv'
  <2> SUFFICES ASSUME ~stepped, NEW i \in active
               PROVE  /\ services[i].last_update <= now'
                      /\ quiet'[i] = IF now' - services[i].last_update > Timeout
                                     THEN Timeout + 1 ELSE now' - services[i].last_update
    BY <1>1 DEF QuietInv
  <2>1. i \in Slots /\ services[i].last_update \in Nat /\ services[i].last_update <= now
    BY TimeAssumption DEF IndInv, MaskInv, ClockInv, QuietInv, Times
  <2>2. quiet[i] = IF now - services[i].last_update > Timeout THEN Timeout + 1
                   ELSE now - services[i].last_update
    BY DEF IndInv, QuietInv
  <2>3. quiet'[i] = IF quiet[i] > Timeout THEN quiet[i] ELSE quiet[i] + 1
    BY <1>2, <2>1
  <2> QED
    BY <1>1, <2>1, <2>2, <2>3, TimeAssumption
<1>6. SweptInv'
  BY <1>1, TableAssumption DEF IndInv, SweptInv, MaskInv, Slots
<1> QED
  BY <1>3, <1>4, <1>5, <1>6 DEF IndInv

----------------------------------------------------------------------------
LEMMA IndStep == IndInv /\ [Next]_vars => IndInv'
<1> SUFFICES ASSUME IndInv, [Next]_vars PROVE IndInv'
  OBVIOUS
<1> USE DEF table, history
<1>1. CASE MicroInit
  BY <1>1, IndZero DEF MicroInit
<1>2. CASE MicroCleanup
  BY <1>2, IndZero DEF MicroCleanup
<1>3. ASSUME NEW id \in Ids, CreateService(id) PROVE IndInv'
  BY <1>3, IndCreate
<1>4. ASSUME NEW id \in Ids, DestroyService(id) PROVE IndInv'
  <2>1. /\ Matches(id) # {} /\ Destroy(id) /\ sweep = -1 /\ UNCHANGED <<now, sweep, history>>
        /\ sweep' \in -1 .. MaxServices
    BY <1>4 DEF DestroyService, IndInv, ClockInv
  <2>2. /\ Shaped' /\ ClockInv' /\ MaskInv' /\ IdsInv' /\ QuietInv'
        /\ active' = active \ {Found(id)}
    BY <2>1, IndDestroy
  <2>3. SweptInv'
    BY <2>1, <2>2 DEF IndInv, SweptInv, Dependable
  <2> QED
    BY <2>2, <2>3 DEF IndInv
<1>5. ASSUME NEW id \in Ids, NEW b \in Batches, BatchProcess(id, b) PROVE IndInv'
  <2> DEFINE f == Found(id)
  <2>1. f \in Slots
    BY <1>5, FoundProperties DEF BatchProcess, IndInv, MaskInv
  <2>2. PICK q : services' = [services EXCEPT ![f].command_queue = q, ![f].last_update = now]
    BY <1>5 DEF BatchProcess
  <2>3. Stamped(f, q)
    BY <2>1, <2>2, StampedByAssignment DEF IndInv
  <2>4. sweep = -1 /\ Touched(f) /\ UNCHANGED <<active, count, now, sweep, stepped, shared>>
    BY <1>5 DEF BatchProcess
  <2> QED
    BY <2>1, <2>3, <2>4, IndTouch
<1>6. ASSUME NEW i \in Slots, NEW keep \in SUBSET Commands, ProcessCommands(i, keep)
      PROVE  IndInv'
  <2>1. PICK q : services' = [services EXCEPT ![i].command_queue = q, ![i].last_update = now]
    BY <1>6 DEF ProcessCommands
  <2>2. Stamped(i, q)
    BY <1>6, <2>1, StampedByAssignment DEF IndInv
  <2>3. sweep = -1 /\ Touched(i) /\ UNCHANGED <<active, count, now, sweep, stepped, shared>>
    BY <1>6 DEF ProcessCommands
  <2> QED
    BY <1>6, <2>2, <2>3, IndTouch
<1>7. ASSUME NEW id \in Ids, UpdateServiceState(id) PROVE IndInv'
  <2> DEFINE f == Found(id)
  <2>1. f \in Slots
    BY <1>7, FoundProperties DEF UpdateServiceState, IndInv, MaskInv
  <2>2. Stamped(f, services[f].command_queue)
    BY <1>7, <2>1 DEF UpdateServiceState, IndInv, Shaped, Stamped
  <2>3. sweep = -1 /\ Touched(f) /\ UNCHANGED <<active, count, now, sweep, stepped, shared>>
    BY <1>7 DEF UpdateServiceState
  <2> QED
    BY <2>1, <2>2, <2>3, IndTouch
<1>8. CASE CollectBegin
  <2>1. sweep' = 0 /\ UNCHANGED <<table, now, history>>
    BY <1>8 DEF CollectBegin
  <2>2. Shaped' /\ MaskInv' /\ IdsInv' /\ QuietInv'
    BY <2>1 DEF IndInv, Shaped, MaskInv, CountMatchesMask, IdsInv, QuietInv
  <2>3. ClockInv'
    BY <2>1, TableAssumption DEF IndInv, ClockInv
  <2>4. SweptInv'
    BY <2>1, TableAssumption DEF IndInv, MaskInv, SweptInv, Slots
  <2> QED
    BY <2>2, <2>3, <2>4 DEF IndInv
<1>9. CASE CollectSlot
  BY <1>9, CollectStep
<1>10. CASE CollectEnd
  <2>1. sweep' = -1 /\ UNCHANGED <<table, now, history>>
    BY <1>10 DEF CollectEnd
  <2>2. Shaped' /\ MaskInv' /\ IdsInv' /\ QuietInv'
    BY <2>1 DEF IndInv, Shaped, MaskInv, CountMatchesMask, IdsInv, QuietInv
  <2>3. ClockInv'
    BY <2>1, TableAssumption DEF IndInv, ClockInv
  <2>4. SweptInv'
    BY <2>1, TableAssumption DEF IndInv, MaskInv, SweptInv, Slots
  <2> QED
    BY <2>2, <2>3, <2>4 DEF IndInv
<1>11. CASE Tick
  BY <1>11, IndTick
<1>12. CASE StepBack
  <2>1. /\ sweep = -1 /\ now' \in Times /\ stepped' = TRUE
        /\ UNCHANGED <<table, sweep, quiet, shared>>
    BY <1>12, TimeAssumption DEF StepBack, IndInv, ClockInv, Times
  <2>2. Shaped' /\ ClockInv' /\ MaskInv' /\ IdsInv'
    BY <2>1 DEF IndInv, Shaped, ClockInv, MaskInv, CountMatchesMask, IdsInv
  <2>3. QuietInv' /\ SweptInv'
    BY <2>1 DEF QuietInv, SweptInv, Dependable
  <2> QED
    BY <2>2, <2>3 DEF IndInv
<1>13. CASE UNCHANGED vars
  BY <1>13 DEF vars, IndInv, Shaped, ClockInv, MaskInv, CountMatchesMask, IdsInv, QuietInv,
               SweptInv, Dependable
<1> QED
  BY <1>1, <1>2, <1>3, <1>4, <1>5, <1>6, <1>7, <1>8, <1>9, <1>10, <1>11, <1>12, <1>13 DEF Next

LEMMA Inductive == Spec => []IndInv
<1>1. Init => IndInv
  BY IndInit
<1>2. IndInv /\ [Next]_vars => IndInv'
  BY IndStep
<1> QED
  BY <1>1, <1>2, PTL DEF Spec

----------------------------------------------------------------------------
(* The theorems *)

(* For any number of slots, service_array.count is the number of bits set  *)
(* in active_mask, so polycall_micro_create_service finds a clear bit      *)
(* whenever its check of the count lets it search.                         *)
THEOREM CountCorrect == Spec => []CountMatchesMask
<1>1. IndInv => CountMatchesMask
  BY DEF IndInv, MaskInv
<1> QED
  BY <1>1, Inductive, PTL

(* For any timeout and any ids, a collection destroys only services that   *)
(* have been idle for longer than the timeout, while ids are distinct and  *)
(* the clock is not set back.                                              *)
THEOREM CollectorSafe == Spec => CollectsOnlyIdle
<1>1. IndInv /\ [Next]_vars =>
        [Dependable /\ sweep \in Slots => \A i \in active \ active' : quiet[i] > Timeout]_vars
  <2> SUFFICES ASSUME IndInv, Next, Dependable, sweep \in Slots
               PROVE  \A i \in active \ active' : quiet[i] > Timeout
    OBVIOUS
  <2>1. sweep # -1 /\ sweep # MaxServices
    BY TableAssumption DEF Slots
  <2>2. CollectSlot
    BY <2>1 DEF Next, MicroInit, MicroCleanup, CreateService, DestroyService, BatchProcess,
                ProcessCommands, UpdateServiceState, CollectBegin, CollectEnd, Tick, StepBack
  <2> QED
    BY <2>2, CollectStep
<1> QED
  BY <1>1, Inductive, PTL DEF Spec, CollectsOnlyIdle

(* When such a collection ends no idle service is left.                    *)
THEOREM CollectorComplete == Spec => CollectsAllIdle
<1>1. IndInv => (Dependable /\ sweep = MaxServices => \A i \in active : quiet[i] <= Timeout)
  BY TableAssumption DEF IndInv, SweptInv, MaskInv, Slots
<1>2. IndInv /\ [Next]_vars =>
        [Dependable /\ sweep = MaxServices => \A i \in active : quiet[i] <= Timeout]_vars
  BY <1>1
<1> QED
  BY <1>2, Inductive, PTL DEF Spec, CollectsAllIdle

----------------------------------------------------------------------------
(* Filtering a queue.  The library's induction theorems cannot be used      *)
(* here; the two inductions look at the least number that is an exception.  *)

\* f is the function of the loop over the first m entries of q.
Loop(f, q, S, m) ==
  f = [n \in 0 .. m |-> IF n = 0 THEN <<>> ELSE Keep(f[n - 1], q[n], S)]

LEMMA LoopExists ==
  ASSUME NEW q, NEW S, NEW m \in Nat
  PROVE  \E f : Loop(f, q, S, m)
<1> DEFINE Bad == {k \in Nat : ~\E f : Loop(f, q, S, k)}
<1> SUFFICES ASSUME Bad # {} PROVE FALSE
  OBVIOUS
<1>1. PICK k \in Bad : \A j \in Bad : ~(<<j, k>> \in OpToRel(<, Nat))
  BY NatLessThanWellFounded, WFMin
<1>2. \A j \in Nat : j < k => \E f : Loop(f, q, S, j)
  BY <1>1 DEF OpToRel
<1>0. k \in Nat /\ ~\E f : Loop(f, q, S, k)
  OBVIOUS
<1> HIDE DEF Bad
<1>3. CASE k = 0
  <2> DEFINE f == [n \in 0 .. 0 |-> <<>>]
  <2>1. Loop(f, q, S, 0)
    BY DEF Loop
  <2> QED
    BY <1>0, <1>3, <2>1
<1>4. CASE k # 0
  <2>1. k - 1 \in Nat /\ k - 1 < k
    BY <1>0, <1>4
  <2>2. PICK f : Loop(f, q, S, k - 1)
    BY <1>2, <2>1
  <2> DEFINE last == Keep(f[k - 1], q[k], S)
             g == [n \in 0 .. k |-> IF n < k THEN f[n] ELSE last]
             h == [n \in 0 .. k |-> IF n = 0 THEN <<>> ELSE Keep(g[n - 1], q[n], S)]
  <2>3. \A n \in 0 .. k - 1 : f[n] = IF n = 0 THEN <<>> ELSE Keep(f[n - 1], q[n], S)
    BY <2>2 DEF Loop
  <2>4. \A n \in 0 .. k - 1 : g[n] = f[n]
    BY <1>0
  <2>5. g[k] = last
    BY <1>0
  <2>6. \A n \in 0 .. k : g[n] = h[n]
    <3> TAKE n \in 0 .. k
    <3>1. CASE n = k
      BY <1>0, <1>4, <2>1, <2>4, <2>5, <3>1
    <3>2. CASE n # k
      <4>1. n \in 0 .. k - 1 /\ (n # 0 => n - 1 \in 0 .. k - 1)
        BY <1>0, <3>2
      <4> HIDE DEF g
      <4> QED
        BY <2>3, <2>4, <4>1
    <3> QED
      BY <3>1, <3>2
  <2>7. Loop(g, q, S, k)
    <3> HIDE DEF last
    <3>1. g = h
      BY <2>6
    <3> HIDE DEF g
    <3> QED
      BY <3>1 DEF Loop
  <2> QED
    BY <1>0, <2>7
<1> QED
  BY <1>3, <1>4

\* p lists, in order, the places among the first n of q that S selects, and r
\* is what is there.
Places(p, r, q, S, n) ==
  /\ p \in [1 .. Len(r) -> 1 .. n]
  /\ \A j, k \in 1 .. Len(r) : j < k => p[j] < p[k]
  /\ \A i \in 1 .. n : q[i] \in S <=> \E k \in 1 .. Len(r) : p[k] = i
  /\ \A k \in 1 .. Len(r) : r[k] = q[p[k]]

LEMMA KeepPlaces ==
  ASSUME NEW E, NEW q \in Seq(E), NEW S, NEW n \in 1 .. Len(q), NEW r \in Seq(E),
         Len(r) <= n - 1, NEW p, Places(p, r, q, S, n - 1)
  PROVE  LET t == Keep(r, q[n], S) IN
         t \in Seq(E) /\ Len(t) <= n /\ \E u : Places(u, t, q, S, n)
<1>0. q[n] \in E /\ Len(r) \in Nat /\ n \in Nat
  OBVIOUS
<1>1. CASE q[n] \in S
  <2> DEFINE t == Append(r, q[n])
             m == Len(r)
             u == [k \in 1 .. m + 1 |-> IF k = m + 1 THEN n ELSE p[k]]
  <2>1. t \in Seq(E) /\ Len(t) = m + 1 /\ t[m + 1] = q[n] /\ \A k \in 1 .. m : t[k] = r[k]
    BY <1>0
  <2>2. u \in [1 .. m + 1 -> 1 .. n] /\ u[m + 1] = n /\ \A k \in 1 .. m : u[k] = p[k]
    BY <1>0 DEF Places
  <2> HIDE DEF t, u
  <2>3. /\ \A k \in 1 .. m : p[k] \in 1 .. n - 1
        /\ \A j, k \in 1 .. m : j < k => p[j] < p[k]
        /\ \A i \in 1 .. n - 1 : q[i] \in S <=> \E k \in 1 .. m : p[k] = i
        /\ \A k \in 1 .. m : r[k] = q[p[k]]
    BY DEF Places
  <2> HIDE DEF m
  <2>4. m \in Nat
    BY <1>0 DEF m
  <2>5. \A k \in 1 .. m + 1 : k = m + 1 \/ k \in 1 .. m
    BY <2>4
  <2>6. \A j, k \in 1 .. m + 1 : j < k => u[j] < u[k]
    <3> TAKE j, k \in 1 .. m + 1
    <3> HAVE j < k
    <3>1. j \in 1 .. m
      BY <2>4
    <3>2. u[j] = p[j] /\ p[j] \in 1 .. n - 1
      BY <2>2, <2>3, <3>1
    <3>3. CASE k = m + 1
      BY <1>0, <2>2, <3>2, <3>3
    <3>4. CASE k \in 1 .. m
      BY <2>2, <2>3, <3>1, <3>4
    <3> QED
      BY <2>5, <3>3, <3>4
  <2>7. ASSUME NEW i \in 1 .. n
        PROVE  q[i] \in S <=> \E k \in 1 .. m + 1 : u[k] = i
    <3>1. CASE i = n
      BY <1>1, <2>2, <2>4, <3>1
    <3>2. CASE i # n
      <4>1. i \in 1 .. n - 1
        BY <1>0, <3>2
      <4>2. (\E k \in 1 .. m + 1 : u[k] = i) => \E k \in 1 .. m : p[k] = i
        BY <2>2, <2>5, <3>2
      <4>3. ASSUME NEW k \in 1 .. m, p[k] = i
            PROVE  \E l \in 1 .. m + 1 : u[l] = i
        <5>1. k \in 1 .. m + 1 /\ u[k] = i
          BY <2>2, <2>4, <4>3
        <5> QED
          BY <5>1
      <4> QED
        BY <2>3, <4>1, <4>2, <4>3
    <3> QED
      BY <3>1, <3>2
  <2>8. \A k \in 1 .. m + 1 : t[k] = q[u[k]]
    BY <2>1, <2>2, <2>3, <2>5
  <2>9. Places(u, t, q, S, n)
    BY <2>1, <2>2, <2>6, <2>7, <2>8 DEF Places
  <2>10. Len(t) <= n
    BY <1>0, <2>1 DEF m
  <2>11. Keep(r, q[n], S) = t
    BY <1>1 DEF Keep, t
  <2> QED
    BY <2>1, <2>9, <2>10, <2>11
<1>2. CASE q[n] \notin S
  <2>1. Keep(r, q[n], S) = r
    BY <1>2 DEF Keep
  <2>2. p \in [1 .. Len(r) -> 1 .. n] /\ \A k \in 1 .. Len(r) : p[k] \in 1 .. n - 1
    <3>1. 1 .. n - 1 \subseteq 1 .. n
      BY <1>0
    <3> QED
      BY <3>1 DEF Places
  <2>3. ASSUME NEW i \in 1 .. n
        PROVE  q[i] \in S <=> \E k \in 1 .. Len(r) : p[k] = i
    <3>1. CASE i = n
      BY <1>0, <1>2, <2>2, <3>1
    <3>2. CASE i # n
      BY <1>0, <3>2 DEF Places
    <3> QED
      BY <3>1, <3>2
  <2>4. Places(p, r, q, S, n)
    BY <2>2, <2>3 DEF Places
  <2> QED
    BY <1>0, <2>1, <2>4
<1> QED
  BY <1>1, <1>2

\* What the filter leaves: the selected entries, in their order.
LEMMA FilteredProperties ==
  ASSUME NEW E, NEW q \in Seq(E), NEW S
  PROVE  /\ Filtered(q, S) \in Seq(E)
         /\ Len(Filtered(q, S)) <= Len(q)
         /\ \E p : Places(p, Filtered(q, S), q, S, Len(q))
<1> DEFINE f == CHOOSE g : Loop(g, q, S, Len(q))
<1>1. Filtered(q, S) = f[Len(q)]
  BY DEF Filtered, Loop
<1>2. Len(q) \in Nat
  OBVIOUS
<1>3. Loop(f, q, S, Len(q))
  BY <1>2, LoopExists
<1> HIDE DEF f
<1>4. \A n \in 0 .. Len(q) : f[n] = IF n = 0 THEN <<>> ELSE Keep(f[n - 1], q[n], S)
  BY <1>3 DEF Loop
<1> DEFINE Good(n) == /\ f[n] \in Seq(E) /\ Len(f[n]) <= n
                      /\ \E p : Places(p, f[n], q, S, n)
           Bad == {n \in 0 .. Len(q) : ~Good(n)}
<1>5. Bad = {}
  <2> SUFFICES ASSUME Bad # {} PROVE FALSE
    OBVIOUS
  <2>1. Bad \subseteq Nat
    BY <1>2
  <2>2. PICK n \in Bad : \A j \in Bad : ~(<<j, n>> \in OpToRel(<, Nat))
    BY <2>1, NatLessThanWellFounded, WFMin
  <2> HIDE DEF Good
  <2>3. \A j \in 0 .. Len(q) : j < n => Good(j)
    BY <2>1, <2>2 DEF OpToRel
  <2>4. n \in 0 .. Len(q) /\ ~Good(n)
    BY <2>2
  <2> HIDE DEF Bad
  <2>5. CASE n = 0
    <3>1. f[0] = <<>>
      BY <1>2, <1>4
    <3>2. <<>> \in Seq(E) /\ Len(<<>>) = 0
      OBVIOUS
    <3> DEFINE p == [k \in 1 .. 0 |-> 0]
    <3>3. Places(p, f[0], q, S, 0)
      BY <3>1, <3>2 DEF Places
    <3>4. Good(0)
      BY <3>1, <3>2, <3>3 DEF Good
    <3> QED
      BY <2>4, <2>5, <3>4
  <2>6. CASE n # 0
    <3>1. n - 1 \in 0 .. Len(q) /\ n - 1 < n /\ n \in 1 .. Len(q)
      BY <1>2, <2>4, <2>6
    <3>2. Good(n - 1)
      BY <2>3, <3>1
    <3>3. f[n] = Keep(f[n - 1], q[n], S)
      BY <1>4, <2>4, <2>6
    <3>4. Good(n)
      BY <3>1, <3>2, <3>3, KeepPlaces DEF Good
    <3> QED
      BY <2>4, <3>4
  <2> QED
    BY <2>5, <2>6
<1>6. Good(Len(q))
  BY <1>2, <1>5
<1> QED
  BY <1>1, <1>6

----------------------------------------------------------------------------
(* Queues *)

GoodQueue(q) ==
  /\ q \in Seq(Entry)
  /\ Len(q) <= Capacity
  /\ \A k \in DOMAIN q : q[k].cmd \notin Oversized

\* Every entry was submitted for id, after the b-th creation.
Own(q, id, b) == \A k \in DOMAIN q : q[k].to = id /\ q[k].at >= b

\* What a filter keeps was there.
LEMMA FilteredGood ==
  ASSUME NEW q, GoodQueue(q), NEW S
  PROVE  /\ GoodQueue(Filtered(q, S))
         /\ \A id, b : Own(q, id, b) => Own(Filtered(q, S), id, b)
<1> DEFINE r == Filtered(q, S)
<1>1. q \in Seq(Entry)
  BY DEF GoodQueue
<1>2. r \in Seq(Entry) /\ Len(r) <= Len(q) /\ \E p : Places(p, r, q, S, Len(q))
  BY <1>1, FilteredProperties
<1> HIDE DEF r
<1>3. \A k \in DOMAIN r : \E i \in DOMAIN q : r[k] = q[i]
  BY <1>1, <1>2 DEF Places
<1>4. Len(r) <= Capacity
  BY <1>1, <1>2, TableAssumption DEF GoodQueue
<1>5. GoodQueue(r)
  BY <1>2, <1>3, <1>4 DEF GoodQueue
<1>6. \A id, b : Own(q, id, b) => Own(r, id, b)
  BY <1>3 DEF Own
<1> QED
  BY <1>5, <1>6 DEF r

\* What batch_process appends: the first commands of the batch, as many as fit.
Extends(r, q, new, n) ==
  /\ n \in Nat /\ n <= Len(new) /\ Len(q) + n <= Capacity
  /\ n = Len(new) \/ Len(q) + n = Capacity
  /\ r \in Seq(Entry) /\ Len(r) = Len(q) + n
  /\ \A k \in 1 .. Len(q) : r[k] = q[k]
  /\ \A k \in 1 .. n : r[Len(q) + k] = new[k]

LEMMA AcceptedExtends ==
  ASSUME NEW q, GoodQueue(q), NEW new \in Seq(Entry)
  PROVE  \E n : Extends(Accepted(q, new), q, new, n)
<1> DEFINE all == q \o new
           m == IF Len(all) > Capacity THEN Capacity ELSE Len(all)
           r == SubSeq(all, 1, m)
<1>1. q \in Seq(Entry) /\ Len(q) \in Nat /\ Len(new) \in Nat /\ Len(q) <= Capacity
      /\ Capacity \in Nat
  BY TableAssumption DEF GoodQueue
<1>2. /\ all \in Seq(Entry) /\ Len(all) = Len(q) + Len(new)
      /\ \A k \in 1 .. Len(q) : all[k] = q[k]
      /\ \A k \in 1 .. Len(new) : all[Len(q) + k] = new[k]
  BY <1>1
<1> HIDE DEF all
<1>3. /\ m \in Nat /\ m <= Len(all) /\ m <= Capacity /\ Len(q) <= m
      /\ m = Capacity \/ m = Len(all)
  BY <1>1, <1>2
<1> HIDE DEF m
<1>4. r \in Seq(Entry) /\ Len(r) = m /\ \A k \in 1 .. m : r[k] = all[k]
  BY <1>2, <1>3
<1> HIDE DEF r
<1> DEFINE n == m - Len(q)
<1>5. n \in Nat /\ n <= Len(new) /\ Len(q) + n = m /\ (m = Len(all) => n = Len(new))
  BY <1>1, <1>2, <1>3
<1> HIDE DEF n
<1>6. \A k \in 1 .. Len(q) : k \in 1 .. m
  BY <1>1, <1>3
<1>7. \A k \in 1 .. n : k \in 1 .. Len(new) /\ Len(q) + k \in 1 .. m
  BY <1>1, <1>3, <1>5
<1>8. Extends(r, q, new, n)
  BY <1>2, <1>3, <1>4, <1>5, <1>6, <1>7 DEF Extends
<1>9. Accepted(q, new) = r
  BY DEF Accepted, r, m, all
<1> QED
  BY <1>8, <1>9

LEMMA ExtendsGood ==
  ASSUME NEW q, GoodQueue(q), NEW new \in Seq(Entry), NEW n, NEW r, Extends(r, q, new, n),
         \A k \in DOMAIN new : new[k].cmd \notin Oversized
  PROVE  /\ GoodQueue(r)
         /\ \A id, b : Own(q, id, b) /\ Own(new, id, b) => Own(r, id, b)
<1>1. /\ q \in Seq(Entry) /\ Len(q) \in Nat /\ DOMAIN q = 1 .. Len(q)
      /\ DOMAIN new = 1 .. Len(new) /\ Len(new) \in Nat
      /\ r \in Seq(Entry) /\ DOMAIN r = 1 .. Len(q) + n /\ n \in Nat /\ n <= Len(new)
      /\ Len(r) <= Capacity
  BY DEF GoodQueue, Extends
<1>2. ASSUME NEW k \in DOMAIN r
      PROVE  \/ k \in DOMAIN q /\ r[k] = q[k]
             \/ \E j \in DOMAIN new : r[k] = new[j]
  <2>1. CASE k <= Len(q)
    <3>1. k \in 1 .. Len(q)
      BY <1>1, <2>1
    <3>2. \A x \in 1 .. Len(q) : r[x] = q[x]
      BY DEF Extends
    <3> QED
      BY <1>1, <3>1, <3>2
  <2>2. CASE k > Len(q)
    <3> DEFINE j == k - Len(q)
    <3>1. j \in 1 .. n /\ k = Len(q) + j /\ j \in DOMAIN new
      BY <1>1, <2>2
    <3>2. r[k] = new[j]
      BY <3>1 DEF Extends
    <3> QED
      BY <3>1, <3>2
  <2> QED
    BY <1>1, <2>1, <2>2
<1>3. GoodQueue(r)
  BY <1>1, <1>2 DEF GoodQueue
<1>4. \A id, b : Own(q, id, b) /\ Own(new, id, b) => Own(r, id, b)
  BY <1>2 DEF Own
<1> QED
  BY <1>3, <1>4

----------------------------------------------------------------------------
(* The invariant that follows the commands *)

\* The number of a live service is one that was given out, and only once.
BornInv == /\ \A i \in active : born[i] \in 1 .. births
           /\ \A i, j \in active : born[i] = born[j] => i = j

FullInv == IndInv /\ MTypeOK /\ OwnCommandsOnly /\ BornInv

GoodService(s) == s \in Service /\ GoodQueue(s.command_queue)

\* The part of MTypeOK that is not about the services.
RestOK ==
  /\ active \subseteq Slots
  /\ count \in 0 .. MaxServices
  /\ last_gc \in Times
  /\ machine \in {"null", "live", "freed"}
  /\ now \in Times
  /\ sweep \in -1 .. MaxServices
  /\ births \in 0 .. MaxBirths
  /\ born \in [Slots -> 0 .. MaxBirths]
  /\ quiet \in [Slots -> 0 .. Timeout + 1]
  /\ stepped \in BOOLEAN
  /\ shared \in BOOLEAN

ServicesOK == services \in [Slots -> Service] /\ \A i \in Slots : GoodService(services[i])

LEMMA TypeParts == MTypeOK <=> ServicesOK /\ RestOK
<1>1. services \in [Slots -> Service] =>
        \A i \in Slots : services[i] \in Service /\ services[i].command_queue \in Seq(Entry)
  BY DEF Service
<1> QED
  BY <1>1 DEF MTypeOK, ServicesOK, RestOK, GoodService, GoodQueue

LEMMA TypePartsNext == ServicesOK' /\ RestOK' => MTypeOK'
BY DEF MTypeOK, ServicesOK, RestOK, GoodService, GoodQueue

\* The services after a step that changes the one in slot f.
LEMMA OneService ==
  ASSUME ServicesOK, NEW f \in Slots, NEW s, GoodService(s),
         services' = [i \in Slots |-> services'[i]], services'[f] = s,
         \A j \in Slots : j # f => services'[j] = services[j]
  PROVE  ServicesOK'
<1>1. \A j \in Slots : services'[j] \in Service /\ GoodService(services'[j])
  BY DEF ServicesOK, GoodService
<1>2. services' \in [Slots -> Service]
  BY <1>1
<1> QED
  BY <1>1, <1>2 DEF ServicesOK

LEMMA EmptyService ==
  ASSUME NEW id \in Ids \cup {0}, NEW t \in Times
  PROVE  GoodService([id |-> id, last_update |-> t, command_queue |-> <<>>])
<1>1. <<>> \in Seq(Entry)
  OBVIOUS
<1>2. GoodQueue(<<>>)
  BY <1>1, TableAssumption DEF GoodQueue
<1> QED
  BY <1>1, <1>2 DEF GoodService, Service

\* A step that leaves every service, its slot and its number alone.
LEMMA FullSame ==
  ASSUME FullInv, IndInv', RestOK', UNCHANGED <<services, active, births, born>>
  PROVE  FullInv'
<1>1. ServicesOK'
  BY TypeParts DEF FullInv, ServicesOK
<1>2. OwnCommandsOnly' /\ BornInv'
  BY DEF FullInv, OwnCommandsOnly, BornInv
<1> QED
  BY <1>1, <1>2, TypePartsNext DEF FullInv

LEMMA FullZero ==
  ASSUME FullInv, IndInv', RestOK', ZeroTable
  PROVE  FullInv'
<1>1. GoodService(ZeroService)
  <2>1. 0 \in Ids \cup {0} /\ 0 \in Times
    BY TimeAssumption DEF Times
  <2> QED
    BY <2>1, EmptyService DEF ZeroService
<1>2. ServicesOK'
  BY <1>1 DEF ServicesOK, ZeroTable, GoodService
<1>3. OwnCommandsOnly' /\ BornInv'
  BY DEF ZeroTable, OwnCommandsOnly, BornInv
<1> QED
  BY <1>2, <1>3, TypePartsNext DEF FullInv

LEMMA FullCreate ==
  ASSUME FullInv, IndInv', RestOK', NEW id \in Ids, CreateService(id)
  PROVE  FullInv'
<1> DEFINE f == FreeSlot
           s == [id |-> id, last_update |-> now, command_queue |-> <<>>]
<1>1. f \in Slots /\ f \notin active /\ active \subseteq Slots
  BY FreeSlotProperties DEF FullInv, IndInv, MaskInv, CreateService, MayCreate
<1>2. /\ services' = [i \in Slots |-> services'[i]] /\ services'[f] = s
      /\ \A j \in Slots : j # f => services'[j] = services[j]
  BY <1>1 DEF FullInv, IndInv, Shaped, CreateService, Reset
<1>3. GoodService(s)
  BY EmptyService DEF FullInv, MTypeOK
<1> HIDE DEF s
<1>4. ServicesOK'
  BY <1>1, <1>2, <1>3, OneService, TypeParts DEF FullInv
<1>5. /\ active' = active \cup {f} /\ births' = births + 1
      /\ born' = [born EXCEPT ![f] = births + 1]
      /\ births \in Nat /\ born \in [Slots -> 0 .. MaxBirths]
  BY DEF CreateService, FullInv, MTypeOK
<1>6. born'[f] = births + 1 /\ \A j \in active : born'[j] = born[j] /\ born[j] \in 1 .. births
  BY <1>1, <1>5 DEF FullInv, BornInv
<1>7. BornInv'
  BY <1>1, <1>5, <1>6 DEF FullInv, BornInv
<1>8. OwnCommandsOnly'
  <2> SUFFICES ASSUME NEW i \in active', NEW k \in DOMAIN services'[i].command_queue
               PROVE  /\ services'[i].command_queue[k].to = services'[i].id
                      /\ services'[i].command_queue[k].at >= born'[i]
    BY DEF OwnCommandsOnly
  <2>1. CASE i = f
    BY <1>2, <2>1 DEF s
  <2>2. CASE i # f
    <3>1. i \in active /\ services'[i] = services[i] /\ born'[i] = born[i]
      BY <1>1, <1>2, <1>5, <1>6, <2>2
    <3> QED
      BY <3>1 DEF FullInv, OwnCommandsOnly
  <2> QED
    BY <2>1, <2>2
<1> QED
  BY <1>4, <1>7, <1>8, TypePartsNext DEF FullInv

LEMMA FullDestroy ==
  ASSUME FullInv, IndInv', RestOK', NEW id, Matches(id) # {}, Destroy(id),
         UNCHANGED <<births, born>>
  PROVE  FullInv'
<1> DEFINE f == Found(id)
           s == [id |-> 0, last_update |-> 0, command_queue |-> <<>>]
<1>1. f \in Slots /\ f \in active /\ active \subseteq Slots
  BY FoundProperties DEF FullInv, IndInv, MaskInv
<1>2. /\ services' = [i \in Slots |-> services'[i]] /\ services'[f] = s
      /\ \A j \in Slots : j # f => services'[j] = services[j]
  BY <1>1 DEF FullInv, IndInv, Shaped, Destroy, Reset
<1>3. GoodService(s)
  <2>1. 0 \in Ids \cup {0} /\ 0 \in Times
    BY TimeAssumption DEF Times
  <2> QED
    BY <2>1, EmptyService
<1> HIDE DEF s
<1>4. ServicesOK'
  BY <1>1, <1>2, <1>3, OneService, TypeParts DEF FullInv
<1>5. active' = active \ {f}
  BY DEF Destroy
<1>6. BornInv'
  BY <1>5 DEF FullInv, BornInv
<1>7. \A i \in active' : services'[i] = services[i] /\ i \in active
  BY <1>1, <1>2, <1>5
<1>8. OwnCommandsOnly'
  BY <1>7 DEF FullInv, OwnCommandsOnly
<1> QED
  BY <1>4, <1>6, <1>8, TypePartsNext DEF FullInv

\* A call that stamps the service in slot f and gives it the queue q.
LEMMA FullTouch ==
  ASSUME FullInv, IndInv', RestOK', NEW f \in Slots, NEW q, Stamped(f, q), GoodQueue(q),
         f \in active => Own(q, services[f].id, born[f]),
         UNCHANGED <<active, births, born>>
  PROVE  FullInv'
<1> DEFINE s == [id |-> services[f].id, last_update |-> now, command_queue |-> q]
<1>1. /\ services' = [i \in Slots |-> services'[i]] /\ services'[f] = s
      /\ \A j \in Slots : j # f => services'[j] = services[j]
  BY DEF Stamped
<1>2. GoodService(s) /\ s.id = services[f].id /\ s.command_queue = q
  <2>1. services[f].id \in Ids \cup {0} /\ now \in Times
    BY TypeParts DEF FullInv, ServicesOK, RestOK, Service
  <2> QED
    BY <2>1 DEF GoodService, Service, GoodQueue
<1> HIDE DEF s
<1>3. ServicesOK'
  BY <1>1, <1>2, OneService, TypeParts DEF FullInv
<1>4. BornInv'
  BY DEF FullInv, BornInv
<1>5. OwnCommandsOnly'
  <2> SUFFICES ASSUME NEW i \in active, NEW k \in DOMAIN services'[i].command_queue
               PROVE  /\ services'[i].command_queue[k].to = services'[i].id
                      /\ services'[i].command_queue[k].at >= born[i]
    BY DEF OwnCommandsOnly
  <2>1. CASE i = f
    BY <1>1, <1>2, <2>1 DEF Own
  <2>2. CASE i # f
    <3>1. services'[i] = services[i]
      BY <1>1, <2>2 DEF FullInv, MTypeOK
    <3> QED
      BY <3>1 DEF FullInv, OwnCommandsOnly
  <2> QED
    BY <2>1, <2>2
<1> QED
  BY <1>3, <1>4, <1>5, TypePartsNext DEF FullInv

\* The commands of a batch that fit the buffer, as batch_process queues them.
Submitted(id, batch) ==
  LET good == Filtered(batch, Commands \ Oversized)
  IN [k \in 1 .. Len(good) |-> [cmd |-> good[k], to |-> id, at |-> births]]

LEMMA SubmittedGood ==
  ASSUME FullInv, NEW id \in Ids, NEW batch \in Batches
  PROVE  LET new == Submitted(id, batch) IN
         /\ new \in Seq(Entry)
         /\ \A k \in DOMAIN new : new[k].cmd \notin Oversized
         /\ \A i \in active : Own(new, id, born[i])
<1> DEFINE S == Commands \ Oversized
           good == Filtered(batch, S)
           new == Submitted(id, batch)
<1>1. batch \in Seq(Commands)
  BY CommandAssumption
<1>2. good \in Seq(Commands) /\ \E p : Places(p, good, batch, S, Len(batch))
  BY <1>1, FilteredProperties
<1>3. new = [k \in 1 .. Len(good) |-> [cmd |-> good[k], to |-> id, at |-> births]]
  BY DEF Submitted
<1> HIDE DEF good, new
<1>4. \A k \in 1 .. Len(good) : good[k] \in S
  BY <1>1, <1>2 DEF Places
<1>5. births \in 0 .. MaxBirths /\ \A i \in active : born[i] <= births
  BY DEF FullInv, MTypeOK, BornInv
<1>6. Len(good) \in Nat
  BY <1>2
<1> HIDE DEF S
<1>7. \A k \in 1 .. Len(good) :
        /\ [cmd |-> good[k], to |-> id, at |-> births] \in Entry
        /\ good[k] \notin Oversized
  BY <1>4, <1>5 DEF Entry, S
<1>8. new \in Seq(Entry) /\ DOMAIN new = 1 .. Len(good)
  BY <1>3, <1>6, <1>7
<1>9. \A k \in DOMAIN new : new[k].cmd \notin Oversized /\ new[k].to = id /\ new[k].at = births
  BY <1>3, <1>7, <1>8
<1>10. \A i \in active : Own(new, id, born[i])
  BY <1>5, <1>9 DEF Own
<1> QED
  BY <1>8, <1>9, <1>10 DEF new

\* polycall_micro_batch_process
LEMMA BatchStep ==
  ASSUME FullInv, NEW id \in Ids, NEW batch \in Batches, BatchProcess(id, batch)
  PROVE  LET f == Found(id)
             new == Submitted(id, batch)
             q == Accepted(services[f].command_queue, new)
         IN  /\ f \in Slots /\ f \in active /\ Stamped(f, q) /\ GoodQueue(q)
             /\ Own(q, services[f].id, born[f])
             /\ \E n : Extends(q, services[f].command_queue, new, n)
<1> DEFINE f == Found(id)
           old == services[f].command_queue
           new == Submitted(id, batch)
           q == Accepted(old, new)
<1>1. f \in Slots /\ f \in active /\ services[f].id = id
  BY FoundProperties DEF BatchProcess, FullInv, IndInv, MaskInv
<1>2. services' = [services EXCEPT ![f].command_queue = q, ![f].last_update = now]
  BY DEF BatchProcess, Submitted
<1> HIDE DEF q
<1>3. Stamped(f, q)
  BY <1>1, <1>2, StampedByAssignment DEF FullInv, IndInv
<1>4. GoodQueue(old) /\ Own(old, id, born[f])
  <2>1. GoodQueue(old)
    BY <1>1, TypeParts DEF FullInv, ServicesOK, GoodService
  <2>2. Own(old, id, born[f])
    BY <1>1 DEF FullInv, OwnCommandsOnly, Own
  <2> QED
    BY <2>1, <2>2
<1>5. /\ new \in Seq(Entry) /\ Own(new, id, born[f])
      /\ \A k \in DOMAIN new : new[k].cmd \notin Oversized
  BY <1>1, SubmittedGood
<1> HIDE DEF old, new, f
<1>6. PICK n : Extends(q, old, new, n)
  BY <1>4, <1>5, AcceptedExtends DEF q
<1>7. GoodQueue(q) /\ Own(q, id, born[f])
  BY <1>4, <1>5, <1>6, ExtendsGood
<1> QED
  BY <1>1, <1>3, <1>6, <1>7 DEF q, old, new, f

\* polycall_micro_process_commands
LEMMA ProcessStep ==
  ASSUME FullInv, NEW i \in Slots, NEW keep \in SUBSET Commands, ProcessCommands(i, keep)
  PROVE  LET q == Filtered(services[i].command_queue, {e \in Entry : e.cmd \in keep})
         IN  /\ Stamped(i, q) /\ GoodQueue(q)
             /\ i \in active => Own(q, services[i].id, born[i])
<1> DEFINE S == {e \in Entry : e.cmd \in keep}
           old == services[i].command_queue
           q == Filtered(old, S)
<1>1. services' = [services EXCEPT ![i].command_queue = q, ![i].last_update = now]
  BY DEF ProcessCommands
<1> HIDE DEF q
<1>2. Stamped(i, q)
  BY <1>1, StampedByAssignment DEF FullInv, IndInv
<1>3. GoodQueue(old)
  BY TypeParts DEF FullInv, ServicesOK, GoodService
<1>4. i \in active => Own(old, services[i].id, born[i])
  BY DEF FullInv, OwnCommandsOnly, Own
<1> HIDE DEF old, S
<1>5. GoodQueue(q) /\ \A id, b : Own(old, id, b) => Own(q, id, b)
  BY <1>3, FilteredGood DEF q
<1> QED
  BY <1>2, <1>4, <1>5 DEF q, old, S

----------------------------------------------------------------------------
LEMMA CountPositive ==
  ASSUME FullInv, NEW i \in active
  PROVE  count - 1 \in 0 .. MaxServices
<1>1. active \subseteq Slots /\ count = Cardinality(active) /\ count \in 0 .. MaxServices
  BY DEF FullInv, MTypeOK, IndInv, MaskInv, CountMatchesMask
<1>2. IsFiniteSet(active)
  BY <1>1, MaskFinite
<1>3. Cardinality(active) # 0
  BY <1>2, FS_EmptySet
<1>4. MaxServices \in Nat /\ count # 0
  BY <1>1, <1>3, TableAssumption
<1> QED
  BY <1>1, <1>4

LEMMA RestStep ==
  ASSUME FullInv, IndInv', Next
  PROVE  RestOK'
<1> USE DEF table, history
<1>0. RestOK
  BY TypeParts DEF FullInv
<1>1. active' \subseteq Slots /\ now' \in Times /\ sweep' \in -1 .. MaxServices
      /\ quiet' \in [Slots -> 0 .. Timeout + 1]
  BY DEF IndInv, ClockInv, MaskInv
<1>2. CASE MicroInit \/ MicroCleanup
  <2>1. /\ count' = 0 /\ last_gc' \in {now, 0} /\ machine' \in {"null", "live", "freed", machine}
        /\ UNCHANGED history
    BY <1>2 DEF MicroInit, MicroCleanup, ZeroTable
  <2>2. 0 \in Times /\ 0 \in 0 .. MaxServices
    BY TimeAssumption, TableAssumption DEF Times
  <2> QED
    BY <1>0, <1>1, <2>1, <2>2 DEF RestOK
<1>3. ASSUME NEW id \in Ids, CreateService(id) PROVE RestOK'
  <2>1. /\ count < MaxServices /\ count' = count + 1 /\ births < MaxBirths
        /\ births' = births + 1 /\ born' = [born EXCEPT ![FreeSlot] = births + 1]
        /\ UNCHANGED <<last_gc, machine, stepped>>
    BY <1>3 DEF CreateService, MayCreate
  <2>2. shared' \in BOOLEAN
    BY <1>3 DEF CreateService
  <2>3. count' \in 0 .. MaxServices /\ births' \in 0 .. MaxBirths
    BY <1>0, <2>1, TableAssumption, TimeAssumption DEF RestOK
  <2>4. born' \in [Slots -> 0 .. MaxBirths]
    BY <1>0, <2>1, <2>3 DEF RestOK
  <2> QED
    BY <1>0, <1>1, <2>1, <2>2, <2>3, <2>4 DEF RestOK
<1>4. ASSUME NEW id, Matches(id) # {}, Destroy(id), UNCHANGED <<last_gc, machine, history>>
      PROVE  RestOK'
  <2>1. Found(id) \in active
    BY <1>4, FoundProperties DEF FullInv, IndInv, MaskInv
  <2>2. count' \in 0 .. MaxServices
    BY <1>4, <2>1, CountPositive DEF Destroy
  <2> QED
    BY <1>0, <1>1, <1>4, <2>2 DEF RestOK
<1>5. ASSUME count' = count, last_gc' \in {last_gc, now}, stepped' \in {stepped, TRUE},
             UNCHANGED <<machine, births, born, shared>>
      PROVE  RestOK'
  BY <1>0, <1>1, <1>5 DEF RestOK
<1>6. ASSUME NEW id \in Ids, DestroyService(id) PROVE RestOK'
  BY <1>4, <1>6 DEF DestroyService
<1>7. CASE CollectSlot
  <2>1. CASE sweep \in active /\ Expired(services[sweep])
    <3>1. Matches(services[sweep].id) # {} /\ Destroy(services[sweep].id)
          /\ UNCHANGED <<last_gc, machine, history>>
      BY <1>7, <2>1 DEF CollectSlot, Matches
    <3> QED
      BY <1>4, <3>1
  <2>2. CASE ~(sweep \in active /\ Expired(services[sweep]))
    BY <1>5, <1>7, <2>2 DEF CollectSlot
  <2> QED
    BY <2>1, <2>2
<1>8. CASE CollectBegin \/ CollectEnd \/ Tick \/ StepBack
  BY <1>5, <1>8 DEF CollectBegin, CollectEnd, Tick, StepBack
<1>9. ASSUME NEW id \in Ids, NEW b \in Batches, BatchProcess(id, b) PROVE RestOK'
  BY <1>5, <1>9 DEF BatchProcess
<1>10. ASSUME NEW i \in Slots, NEW keep \in SUBSET Commands, ProcessCommands(i, keep)
       PROVE  RestOK'
  BY <1>5, <1>10 DEF ProcessCommands
<1>11. ASSUME NEW id \in Ids, UpdateServiceState(id) PROVE RestOK'
  BY <1>5, <1>11 DEF UpdateServiceState
<1> QED
  BY <1>2, <1>3, <1>6, <1>7, <1>8, <1>9, <1>10, <1>11 DEF Next

LEMMA UpdateStep ==
  ASSUME FullInv, NEW id \in Ids, UpdateServiceState(id)
  PROVE  LET f == Found(id)
             q == services[f].command_queue
         IN  /\ f \in Slots /\ Stamped(f, q) /\ GoodQueue(q)
             /\ f \in active => Own(q, services[f].id, born[f])
<1> DEFINE f == Found(id)
<1>1. f \in Slots
  BY FoundProperties DEF UpdateServiceState, FullInv, IndInv, MaskInv
<1>2. Stamped(f, services[f].command_queue)
  BY <1>1 DEF UpdateServiceState, FullInv, IndInv, Shaped, Stamped
<1>3. GoodQueue(services[f].command_queue)
  BY <1>1, TypeParts DEF FullInv, ServicesOK, GoodService
<1>4. f \in active => Own(services[f].command_queue, services[f].id, born[f])
  BY DEF FullInv, OwnCommandsOnly, Own
<1> QED
  BY <1>1, <1>2, <1>3, <1>4

LEMMA FullStep == FullInv /\ [Next]_vars => FullInv'
<1> SUFFICES ASSUME FullInv, [Next]_vars PROVE FullInv'
  OBVIOUS
<1> USE DEF table, history
<1>0. IndInv'
  BY IndStep DEF FullInv
<1>1. CASE UNCHANGED vars
  <2>1. RestOK'
    BY <1>1, TypeParts DEF vars, FullInv, RestOK
  <2> QED
    BY <1>0, <1>1, <2>1, FullSame DEF vars
<1>2. CASE Next
  <2>0. RestOK'
    BY <1>0, <1>2, RestStep
  <2>1. CASE MicroInit \/ MicroCleanup
    BY <1>0, <2>0, <2>1, FullZero DEF MicroInit, MicroCleanup
  <2>2. ASSUME NEW id \in Ids, CreateService(id) PROVE FullInv'
    BY <1>0, <2>0, <2>2, FullCreate
  <2>3. ASSUME NEW id \in Ids, DestroyService(id) PROVE FullInv'
    BY <1>0, <2>0, <2>3, FullDestroy DEF DestroyService
  <2>4. ASSUME NEW id \in Ids, NEW b \in Batches, BatchProcess(id, b) PROVE FullInv'
    <3>1. UNCHANGED <<active, births, born>>
      BY <2>4 DEF BatchProcess
    <3> QED
      BY <1>0, <2>0, <2>4, <3>1, BatchStep, FullTouch
  <2>5. ASSUME NEW i \in Slots, NEW keep \in SUBSET Commands, ProcessCommands(i, keep)
        PROVE  FullInv'
    <3>1. UNCHANGED <<active, births, born>>
      BY <2>5 DEF ProcessCommands
    <3> QED
      BY <1>0, <2>0, <2>5, <3>1, ProcessStep, FullTouch
  <2>6. ASSUME NEW id \in Ids, UpdateServiceState(id) PROVE FullInv'
    <3>1. UNCHANGED <<active, births, born>>
      BY <2>6 DEF UpdateServiceState
    <3> QED
      BY <1>0, <2>0, <2>6, <3>1, UpdateStep, FullTouch
  <2>7. CASE CollectSlot
    <3>1. CASE sweep \in active /\ Expired(services[sweep])
      <4>1. Matches(services[sweep].id) # {} /\ Destroy(services[sweep].id)
            /\ UNCHANGED <<births, born>>
        BY <2>7, <3>1 DEF CollectSlot, Matches
      <4> QED
        BY <1>0, <2>0, <4>1, FullDestroy
    <3>2. CASE ~(sweep \in active /\ Expired(services[sweep]))
      BY <1>0, <2>0, <2>7, <3>2, FullSame DEF CollectSlot
    <3> QED
      BY <3>1, <3>2
  <2>8. CASE CollectBegin \/ CollectEnd \/ Tick \/ StepBack
    <3>1. UNCHANGED <<services, active, births, born>>
      BY <2>8 DEF CollectBegin, CollectEnd, Tick, StepBack
    <3> QED
      BY <1>0, <2>0, <3>1, FullSame
  <2> QED
    BY <1>2, <2>1, <2>2, <2>3, <2>4, <2>5, <2>6, <2>7, <2>8 DEF Next
<1> QED
  BY <1>1, <1>2

LEMMA FullInit == Init => FullInv
<1> SUFFICES ASSUME Init PROVE FullInv
  OBVIOUS
<1>1. GoodService(ZeroService)
  <2>1. 0 \in Ids \cup {0} /\ 0 \in Times
    BY TimeAssumption DEF Times
  <2> QED
    BY <2>1, EmptyService DEF ZeroService
<1>2. ServicesOK
  BY <1>1 DEF Init, ServicesOK, GoodService
<1>3. RestOK
  <2>1. 0 \in 0 .. MaxServices /\ 0 \in Times /\ 0 \in 0 .. MaxBirths
        /\ 0 \in 0 .. Timeout + 1 /\ -1 \in -1 .. MaxServices
    BY TimeAssumption, TableAssumption DEF Times
  <2>2. born \in [Slots -> 0 .. MaxBirths] /\ quiet \in [Slots -> 0 .. Timeout + 1]
    BY <2>1 DEF Init
  <2> QED
    BY <2>1, <2>2 DEF Init, RestOK
<1>4. OwnCommandsOnly /\ BornInv
  BY DEF Init, OwnCommandsOnly, BornInv
<1> QED
  BY <1>2, <1>3, <1>4, IndInit, TypeParts DEF FullInv

LEMMA FullInductive == Spec => []FullInv
<1>1. Init => FullInv
  BY FullInit
<1>2. FullInv /\ [Next]_vars => FullInv'
  BY FullStep
<1> QED
  BY <1>1, <1>2, PTL DEF Spec

(* For any capacity and any batches, a command queue never outgrows the    *)
(* array polycall_micro_batch_process fills, and holds nothing too large;  *)
(* the table keeps its types.                                              *)
THEOREM TableTypes == Spec => []MTypeOK
<1>1. FullInv => MTypeOK
  BY DEF FullInv
<1> QED
  BY <1>1, FullInductive, PTL

(* Slots are reused and commands filtered in place, yet a service only     *)
(* holds commands submitted for its own id after it was created.           *)
THEOREM CommandsOwned == Spec => []OwnCommandsOnly
<1>1. FullInv => OwnCommandsOnly
  BY DEF FullInv
<1> QED
  BY <1>1, FullInductive, PTL

----------------------------------------------------------------------------
(* The table implements the registry *)

\* A service as its callers see it.
View(s) == [id |-> s.id,
            queue |-> [k \in DOMAIN s.command_queue |-> s.command_queue[k].cmd]]

\* r shows the services srv of the slots act under their numbers brn.
Shows(r, srv, act, brn) ==
  /\ r = [b \in {brn[i] : i \in act} |-> r[b]]
  /\ \A i \in act : r[brn[i]] = View(srv[i])

Numbered(act, brn) == \A i, j \in act : brn[i] = brn[j] => i = j

LEMMA ShowsByNumber ==
  ASSUME NEW act, NEW brn, NEW srv, Numbered(act, brn), NEW r,
         r = [b \in {brn[i] : i \in act} |-> View(srv[CHOOSE i \in act : brn[i] = b])]
  PROVE  Shows(r, srv, act, brn)
<1>1. r = [b \in {brn[i] : i \in act} |-> r[b]]
  OBVIOUS
<1>2. ASSUME NEW i \in act PROVE r[brn[i]] = View(srv[i])
  <2> DEFINE j == CHOOSE x \in act : brn[x] = brn[i]
  <2>1. j \in act /\ brn[j] = brn[i]
    OBVIOUS
  <2>2. j = i
    BY <2>1 DEF Numbered
  <2>3. r[brn[i]] = View(srv[j])
    OBVIOUS
  <2> QED
    BY <2>2, <2>3
<1> QED
  BY <1>1, <1>2 DEF Shows

LEMMA RegistryShows ==
  ASSUME FullInv
  PROVE  Shows(Registry, services, active, born)
<1>1. Registry = [b \in {born[i] : i \in active} |->
                    View(services[CHOOSE i \in active : born[i] = b])]
  BY DEF Registry, SlotOf, View
<1>2. Numbered(active, born)
  BY DEF FullInv, BornInv, Numbered
<1> QED
  BY <1>1, <1>2, ShowsByNumber

LEMMA RegistryShowsNext ==
  ASSUME FullInv'
  PROVE  Shows(Registry', services', active', born')
<1>1. Registry' = [b \in {born'[i] : i \in active'} |->
                     View(services'[CHOOSE i \in active' : born'[i] = b])]
  BY DEF Registry, SlotOf, View
<1>2. Numbered(active', born')
  BY DEF FullInv, BornInv, Numbered
<1> QED
  BY <1>1, <1>2, ShowsByNumber

\* Nothing shows when each service looks the same as before.
LEMMA SameView ==
  ASSUME NEW act, NEW brn, NEW srv, NEW srv1, NEW r, NEW r1,
         Shows(r, srv, act, brn), Shows(r1, srv1, act, brn),
         \A i \in act : View(srv1[i]) = View(srv[i])
  PROVE  r1 = r
<1>1. \A b \in {brn[i] : i \in act} : r1[b] = r[b]
  BY DEF Shows
<1> QED
  BY <1>1 DEF Shows

\* One queue changes, in the table and in the registry.
Requeued(srv1, srv, act, f, vq) ==
  /\ View(srv1[f]) = [id |-> srv[f].id, queue |-> vq]
  /\ \A j \in act : j # f => srv1[j] = srv[j]

Replaced(r1, r, b, vq) == r1 = [r EXCEPT ![b].queue = vq]

LEMMA OneQueue ==
  ASSUME NEW act, NEW brn, NEW srv, NEW srv1, NEW r, NEW r1, NEW vq, NEW f \in act,
         Shows(r, srv, act, brn), Shows(r1, srv1, act, brn), Numbered(act, brn),
         Requeued(srv1, srv, act, f, vq)
  PROVE  Replaced(r1, r, brn[f], vq)
<1> USE DEF Requeued
<1> DEFINE D == {brn[i] : i \in act}
           r2 == [r EXCEPT ![brn[f]].queue = vq]
<1>1. brn[f] \in D /\ r = [b \in D |-> r[b]] /\ r1 = [b \in D |-> r1[b]]
  BY DEF Shows
<1>2. r2 = [b \in D |-> IF b = brn[f] THEN [r[b] EXCEPT !.queue = vq] ELSE r[b]]
  BY <1>1
<1>3. r1[brn[f]] = [r[brn[f]] EXCEPT !.queue = vq]
  <2>1. r[brn[f]] = [id |-> srv[f].id,
                     queue |-> [k \in DOMAIN srv[f].command_queue |-> srv[f].command_queue[k].cmd]]
    BY DEF Shows, View
  <2>2. r1[brn[f]] = [id |-> srv[f].id, queue |-> vq]
    BY DEF Shows
  <2> QED
    BY <2>1, <2>2
<1>4. ASSUME NEW b \in D, b # brn[f] PROVE r1[b] = r[b]
  <2>1. PICK j \in act : b = brn[j]
    OBVIOUS
  <2> QED
    BY <1>4, <2>1 DEF Shows
<1> HIDE DEF D
<1>5. \A b \in D : r1[b] = IF b = brn[f] THEN [r[b] EXCEPT !.queue = vq] ELSE r[b]
  BY <1>3, <1>4
<1> QED
  BY <1>1, <1>2, <1>5 DEF Replaced

LEMMA ShowsCreate ==
  ASSUME FullInv, FullInv', NEW id \in Ids, CreateService(id)
  PROVE  Abstract!Create(id)
<1> DEFINE f == FreeSlot
           r == Registry
           r1 == Registry'
           D == {born[i] : i \in active}
<1>1. f \in Slots /\ f \notin active /\ active \subseteq Slots
  BY FreeSlotProperties DEF FullInv, IndInv, MaskInv, CreateService, MayCreate
<1>2. /\ services'[f] = [id |-> id, last_update |-> now, command_queue |-> <<>>]
      /\ \A j \in Slots : j # f => services'[j] = services[j]
  BY <1>1 DEF FullInv, IndInv, Shaped, CreateService, Reset
<1>3. /\ active' = active \cup {f} /\ births' = births + 1
      /\ born'[f] = births + 1 /\ \A j \in active : born'[j] = born[j] /\ born[j] \in 1 .. births
  BY <1>1 DEF CreateService, FullInv, MTypeOK, BornInv
<1>4. births + 1 \notin D
  BY <1>3 DEF FullInv, MTypeOK
<1>5. Shows(r, services, active, born) /\ Shows(r1, services', active', born')
  BY RegistryShows, RegistryShowsNext
<1>6. Cardinality(D) < MaxServices
  <2>1. IsFiniteSet(active) /\ Cardinality(active) < MaxServices
    BY <1>1, MaskFinite DEF CreateService, MayCreate, FullInv, IndInv, MaskInv, CountMatchesMask
  <2>2. IsFiniteSet(D) /\ Cardinality(D) <= Cardinality(active)
    <3> DEFINE g == [i \in active |-> born[i]]
    <3>1. g \in Surjection(active, D)
      BY DEF Surjection
    <3> QED
      BY <2>1, <3>1, FS_Surjection
  <2>3. Cardinality(D) \in Nat /\ Cardinality(active) \in Nat
    BY <2>1, <2>2, FS_CardinalityType
  <2> QED
    BY <2>1, <2>2, <2>3, TableAssumption
<1> HIDE DEF r, r1
<1>7. DOMAIN r = D
  BY <1>5 DEF Shows
<1>8. {born'[i] : i \in active'} = D \cup {births + 1}
  BY <1>3
<1>9. \A b \in D : r1[b] = r[b]
  BY <1>1, <1>2, <1>3, <1>5 DEF Shows
<1>10. r1[births + 1] = [id |-> id, queue |-> <<>>]
  <2>1. View(services'[f]) = [id |-> id, queue |-> <<>>]
    BY <1>2 DEF View
  <2> QED
    BY <1>3, <1>5, <2>1 DEF Shows
<1> HIDE DEF D
<1>11. r1 = [b \in D \cup {births + 1} |->
               IF b \in D THEN r[b] ELSE [id |-> id, queue |-> <<>>]]
  BY <1>4, <1>5, <1>8, <1>9, <1>10 DEF Shows
<1>12. Abstract!Cardinality(D) = Cardinality(D)
  BY DEF Abstract!Cardinality, Cardinality
<1> QED
  BY <1>3, <1>6, <1>7, <1>11, <1>12 DEF Abstract!Create, Abstract!Live, r, r1

LEMMA ShowsRemove ==
  ASSUME FullInv, FullInv', NEW id, Matches(id) # {}, Destroy(id), UNCHANGED <<births, born>>
  PROVE  \E b \in Abstract!Named(id) : Abstract!Remove(b)
<1> DEFINE f == Found(id)
           r == Registry
           r1 == Registry'
           D == {born[i] : i \in active}
<1>1. f \in active /\ f \in Slots /\ active \subseteq Slots /\ active' = active \ {f}
  BY FoundProperties DEF FullInv, IndInv, MaskInv, Destroy
<1>2. \A j \in active' : services'[j] = services[j]
  BY <1>1 DEF FullInv, IndInv, Shaped, Destroy
<1>3. Shows(r, services, active, born) /\ Shows(r1, services', active', born)
  BY RegistryShows, RegistryShowsNext
<1> HIDE DEF r, r1
<1>4. {born[i] : i \in active'} = D \ {born[f]}
  BY <1>1 DEF FullInv, BornInv
<1>5. \A i \in active' : r1[born[i]] = r[born[i]]
  BY <1>1, <1>2, <1>3 DEF Shows
<1>6. \A b \in D \ {born[f]} : r1[b] = r[b]
  BY <1>1, <1>5
<1>7. DOMAIN r = D /\ born[f] \in D
  BY <1>1, <1>3 DEF Shows
<1>8. r1 = [b \in D \ {born[f]} |-> r1[b]]
  BY <1>3, <1>4 DEF Shows
<1> HIDE DEF D
<1>9. r1 = [b \in D \ {born[f]} |-> r[b]]
  BY <1>6, <1>8
<1>10. r[born[f]].id = id
  <2>1. services[f].id = id
    BY FoundProperties DEF FullInv, IndInv, MaskInv
  <2>2. r[born[f]] = View(services[f])
    BY <1>1, <1>3 DEF Shows
  <2>3. View(services[f]).id = id
    BY <2>1 DEF View
  <2> QED
    BY <2>2, <2>3
<1>11. born[f] \in Abstract!Named(id)
  BY <1>7, <1>10 DEF Abstract!Named, Abstract!Live, r
<1>12. Abstract!Remove(born[f])
  BY <1>7, <1>9 DEF Abstract!Remove, Abstract!Live, r, r1
<1> QED
  BY <1>11, <1>12

\* The commands of a queue.
Cmds(q) == [k \in 1 .. Len(q) |-> q[k].cmd]

LEMMA CmdsSeq ==
  ASSUME NEW q \in Seq(Entry)
  PROVE  /\ Cmds(q) \in Seq(Commands) /\ Len(Cmds(q)) = Len(q) /\ Len(q) \in Nat
         /\ \A k \in 1 .. Len(q) : Cmds(q)[k] = q[k].cmd
<1>1. Len(q) \in Nat /\ \A k \in 1 .. Len(q) : q[k] \in Entry
  OBVIOUS
<1>2. \A e \in Entry : e.cmd \in Commands
  BY DEF Entry
<1>3. \A k \in 1 .. Len(q) : q[k].cmd \in Commands
  BY <1>1, <1>2
<1> QED
  BY <1>1, <1>3 DEF Cmds

LEMMA ViewQueue ==
  ASSUME NEW s, NEW q \in Seq(Entry), s.command_queue = q
  PROVE  View(s) = [id |-> s.id, queue |-> Cmds(q)]
<1>1. DOMAIN q = 1 .. Len(q)
  OBVIOUS
<1> QED
  BY <1>1 DEF View, Cmds

\* What batch_process appends shows as an extension of the commands.
Joined(r, q, new, n) == Cmds(r) = Cmds(q) \o [k \in 1 .. n |-> new[k].cmd]

LEMMA CmdsExtends ==
  ASSUME NEW q \in Seq(Entry), NEW new \in Seq(Entry), NEW n, NEW r, Extends(r, q, new, n)
  PROVE  Joined(r, q, new, n)
<1> DEFINE w == [k \in 1 .. n |-> new[k].cmd]
           a == Cmds(q)
           c == Cmds(r)
<1>1. /\ n \in Nat /\ n <= Len(new) /\ r \in Seq(Entry) /\ Len(r) = Len(q) + n
      /\ \A k \in 1 .. Len(q) : r[k] = q[k]
      /\ \A k \in 1 .. n : r[Len(q) + k] = new[k]
  BY DEF Extends
<1>2. /\ a \in Seq(Commands) /\ Len(a) = Len(q) /\ Len(q) \in Nat
      /\ \A k \in 1 .. Len(q) : a[k] = q[k].cmd
  BY CmdsSeq
<1>3. /\ c \in Seq(Commands) /\ Len(c) = Len(r)
      /\ \A k \in 1 .. Len(r) : c[k] = r[k].cmd
  BY <1>1, CmdsSeq
<1>4. /\ Len(new) \in Nat /\ Cmds(new) \in Seq(Commands) /\ Len(Cmds(new)) = Len(new)
      /\ \A k \in 1 .. Len(new) : Cmds(new)[k] = new[k].cmd
  BY CmdsSeq
<1>5. \A k \in 1 .. n : k \in 1 .. Len(new) /\ new[k].cmd \in Commands
  <2>1. \A k \in 1 .. n : k \in 1 .. Len(new)
    BY <1>1, <1>4
  <2>2. \A k \in 1 .. Len(new) : new[k] \in Entry
    OBVIOUS
  <2> QED
    BY <2>1, <2>2 DEF Entry
<1>6. \A k \in 1 .. n : w[k] = new[k].cmd
  OBVIOUS
<1>8. w \in Seq(Commands) /\ Len(w) = n
  BY <1>1, <1>5
<1> HIDE DEF w, a, c
<1>9. /\ a \o w \in Seq(Commands) /\ Len(a \o w) = Len(a) + Len(w)
      /\ \A k \in 1 .. Len(a) : (a \o w)[k] = a[k]
      /\ \A k \in 1 .. Len(w) : (a \o w)[Len(a) + k] = w[k]
  <2>1. a \in Seq(Commands) /\ w \in Seq(Commands)
    BY <1>2, <1>8
  <2> QED
    BY <2>1, ConcatProperties
<1>10. ASSUME NEW k \in 1 .. Len(c) PROVE c[k] = (a \o w)[k]
  <2>1. k \in 1 .. Len(q) + n /\ c[k] = r[k].cmd
    BY <1>1, <1>3
  <2>2. CASE k <= Len(q)
    <3>1. k \in 1 .. Len(q)
      BY <1>2, <2>1, <2>2
    <3> QED
      BY <1>1, <1>2, <1>9, <2>1, <3>1
  <2>3. CASE k > Len(q)
    <3> DEFINE j == k - Len(q)
    <3>1. j \in 1 .. n /\ k = Len(q) + j
      BY <1>1, <1>2, <2>1, <2>3
    <3> HIDE DEF j
    <3>2. c[k] = new[j].cmd
      BY <1>1, <2>1, <3>1
    <3>3. (a \o w)[k] = new[j].cmd
      BY <1>2, <1>6, <1>8, <1>9, <3>1
    <3> QED
      BY <3>2, <3>3
  <2>4. k <= Len(q) \/ k > Len(q)
    BY <1>1, <1>2, <2>1
  <2> QED
    BY <2>2, <2>3, <2>4
<1>11. Len(c) = Len(a \o w)
  BY <1>1, <1>2, <1>3, <1>8, <1>9
<1>12. c = a \o w
  BY <1>3, <1>9, <1>10, <1>11, SeqEqual
<1> QED
  BY <1>12 DEF a, c, w, Joined

\* What a filter leaves shows as the commands at the places it keeps.
Selected(p, r, q, keep) ==
  /\ \A i \in 1 .. Len(q) : Cmds(q)[i] \in keep <=> \E k \in 1 .. Len(r) : p[k] = i
  /\ Cmds(r) = [k \in 1 .. Len(r) |-> Cmds(q)[p[k]]]

LEMMA CmdsFiltered ==
  ASSUME NEW q \in Seq(Entry), NEW keep \in SUBSET Commands, NEW r \in Seq(Entry), NEW p,
         NEW S, S = {e \in Entry : e.cmd \in keep}, Places(p, r, q, S, Len(q))
  PROVE  Selected(p, r, q, keep)
<1>1. /\ Len(q) \in Nat /\ \A k \in 1 .. Len(q) : q[k] \in Entry /\ Cmds(q)[k] = q[k].cmd
  BY CmdsSeq
<1>2. \A i \in 1 .. Len(q) : Cmds(q)[i] \in keep <=> \E k \in 1 .. Len(r) : p[k] = i
  BY <1>1 DEF Places
<1>3. \A k \in 1 .. Len(r) : r[k].cmd = Cmds(q)[p[k]]
  BY <1>1 DEF Places
<1> QED
  BY <1>2, <1>3 DEF Cmds, Selected

\* A stamped service shows its new queue, and the other services do not change.
LEMMA ShowsStamped ==
  ASSUME FullInv, FullInv', NEW f \in active, NEW q \in Seq(Entry), Stamped(f, q),
         UNCHANGED <<active, births, born>>
  PROVE  LET old == services[f].command_queue
         IN  /\ born[f] \in Abstract!Live
             /\ old \in Seq(Entry) /\ Len(old) <= Capacity
             /\ Registry[born[f]].id = services[f].id
             /\ Registry[born[f]].queue = Cmds(old)
             /\ Registry' = [Registry EXCEPT ![born[f]].queue = Cmds(q)]
<1> DEFINE old == services[f].command_queue
<1>1. active \subseteq Slots /\ f \in Slots
  BY DEF FullInv, MTypeOK
<1>2. old \in Seq(Entry) /\ Len(old) <= Capacity
  BY <1>1, TypeParts DEF FullInv, ServicesOK, GoodService, GoodQueue
<1>3. /\ services'[f].id = services[f].id /\ services'[f].command_queue = q
      /\ \A j \in active : j # f => services'[j] = services[j]
  BY <1>1 DEF Stamped
<1>4. View(services'[f]) = [id |-> services[f].id, queue |-> Cmds(q)]
  BY <1>3, ViewQueue
<1>5. Shows(Registry, services, active, born) /\ Shows(Registry', services', active, born)
  BY RegistryShows, RegistryShowsNext
<1>6. Numbered(active, born)
  BY DEF FullInv, BornInv, Numbered
<1>7. View(services[f]) = [id |-> services[f].id, queue |-> Cmds(old)]
  BY <1>2, ViewQueue
<1>8. born[f] \in Abstract!Live /\ Registry[born[f]] = View(services[f])
  BY <1>5 DEF Shows, Abstract!Live
<1>9. Registry[born[f]].queue = Cmds(old) /\ Registry[born[f]].id = services[f].id
  BY <1>7, <1>8
<1>10. Requeued(services', services, active, f, Cmds(q))
  BY <1>3, <1>4 DEF Requeued
<1>11. Replaced(Registry', Registry, born[f], Cmds(q))
  BY <1>5, <1>6, <1>10, OneQueue
<1> QED
  BY <1>2, <1>8, <1>9, <1>11 DEF Replaced

\* What a batch submits, by the places of the commands in it.
FromBatch(p, new, batch) ==
  /\ p \in [1 .. Len(new) -> 1 .. Len(batch)] /\ Len(new) \in 0 .. Len(batch)
  /\ Abstract!Picks(p, Len(new), batch, Commands \ Oversized)
  /\ \A k \in 1 .. Len(new) : new[k].cmd = batch[p[k]]

LEMMA SubmittedPlaces ==
  ASSUME NEW id \in Ids, NEW batch \in Batches
  PROVE  \E p : FromBatch(p, Submitted(id, batch), batch)
<1> DEFINE S == Commands \ Oversized
           good == Filtered(batch, S)
           new == Submitted(id, batch)
<1>1. batch \in Seq(Commands)
  BY CommandAssumption
<1>2. /\ good \in Seq(Commands) /\ Len(good) <= Len(batch)
      /\ \E p : Places(p, good, batch, S, Len(batch))
  BY <1>1, FilteredProperties
<1>3. new = [k \in 1 .. Len(good) |-> [cmd |-> good[k], to |-> id, at |-> births]]
  BY DEF Submitted
<1> HIDE DEF good, new
<1>4. PICK p : Places(p, good, batch, S, Len(batch))
  BY <1>2
<1> HIDE DEF S
<1>5. Len(new) = Len(good) /\ Len(good) \in 0 .. Len(batch)
      /\ \A k \in 1 .. Len(good) : new[k].cmd = good[k]
  BY <1>1, <1>2, <1>3
<1>6. FromBatch(p, new, batch)
  BY <1>4, <1>5 DEF Places, FromBatch, Abstract!Picks, S
<1> QED
  BY <1>6 DEF new

LEMMA ShowsSubmit ==
  ASSUME FullInv, FullInv', NEW id \in Ids, NEW batch \in Batches, BatchProcess(id, batch)
  PROVE  Abstract!Submit(id, batch)
<1> DEFINE f == Found(id)
           old == services[f].command_queue
           new == Submitted(id, batch)
           q == Accepted(old, new)
<1>1. UNCHANGED <<active, births, born>>
  BY DEF BatchProcess
<1>2. f \in active /\ Stamped(f, q) /\ GoodQueue(q) /\ \E n : Extends(q, old, new, n)
  BY BatchStep
<1>3. new \in Seq(Entry) /\ \E p : FromBatch(p, new, batch)
  BY SubmittedGood, SubmittedPlaces
<1>4. services[f].id = id
  BY FoundProperties DEF BatchProcess, FullInv, IndInv, MaskInv
<1> HIDE DEF f, new, q
<1>5. q \in Seq(Entry)
  BY <1>2 DEF GoodQueue
<1>6. /\ born[f] \in Abstract!Live
      /\ old \in Seq(Entry) /\ Len(old) <= Capacity
      /\ Registry[born[f]].id = id
      /\ Registry[born[f]].queue = Cmds(old)
      /\ Registry' = [Registry EXCEPT ![born[f]].queue = Cmds(q)]
  BY <1>1, <1>2, <1>4, <1>5, ShowsStamped
<1> HIDE DEF old
<1>7. PICK n : Extends(q, old, new, n)
  BY <1>2
<1>8. PICK p : FromBatch(p, new, batch)
  BY <1>3
<1>9. Len(Cmds(old)) = Len(old) /\ Len(old) \in Nat
  BY <1>6, CmdsSeq
<1> DEFINE m == Len(new)
           w == [k \in 1 .. n |-> batch[p[k]]]
           z == Registry[born[f]].queue
<1>10. /\ n \in 0 .. m /\ Len(z) + n <= Capacity
       /\ n = m \/ Len(z) + n = Capacity
  BY <1>3, <1>6, <1>7, <1>9 DEF Extends
<1>11. w = [k \in 1 .. n |-> new[k].cmd]
  <2>1. \A k \in 1 .. n : k \in 1 .. m
    BY <1>3, <1>10
  <2> QED
    BY <1>8, <2>1 DEF FromBatch
<1>12. Cmds(q) = z \o w
  <2>1. Joined(q, old, new, n)
    BY <1>3, <1>6, <1>7, CmdsExtends
  <2> QED
    BY <1>6, <1>11, <2>1 DEF Joined
<1>13. Registry' = [Registry EXCEPT ![born[f]].queue = z \o w]
  BY <1>6, <1>12
<1>14. born[f] \in Abstract!Named(id)
  BY <1>6 DEF Abstract!Named, Abstract!Live
<1>15. /\ m \in 0 .. Len(batch) /\ p \in [1 .. m -> 1 .. Len(batch)]
       /\ Abstract!Picks(p, m, batch, Commands \ Oversized)
  BY <1>8 DEF FromBatch
<1> HIDE DEF m
<1>16. \E b \in Abstract!Named(id) : \E x \in 0 .. Len(batch) : \E g \in [1 .. x -> 1 .. Len(batch)] :
         /\ Abstract!Picks(g, x, batch, Commands \ Oversized)
         /\ \E y \in 0 .. x :
              /\ Len(Registry[b].queue) + y <= Capacity
              /\ y = x \/ Len(Registry[b].queue) + y = Capacity
              /\ Registry' = [Registry EXCEPT
                   ![b].queue = Registry[b].queue \o [k \in 1 .. y |-> batch[g[k]]]]
  <2> USE <1>10, <1>14, <1>15
  <2> WITNESS born[f] \in Abstract!Named(id)
  <2> WITNESS m \in 0 .. Len(batch)
  <2> WITNESS p \in [1 .. m -> 1 .. Len(batch)]
  <2>1. Abstract!Picks(p, m, batch, Commands \ Oversized)
    BY <1>15
  <2>2. \E y \in 0 .. m :
              /\ Len(z) + y <= Capacity
              /\ y = m \/ Len(z) + y = Capacity
              /\ Registry' = [Registry EXCEPT
                   ![born[f]].queue = z \o [k \in 1 .. y |-> batch[p[k]]]]
    <3> WITNESS n \in 0 .. m
    <3> QED
      BY <1>10, <1>13
  <2> QED
    BY <2>1, <2>2
<1> QED
  BY <1>1, <1>16 DEF Abstract!Submit

LEMMA ShowsFilter ==
  ASSUME FullInv, FullInv', NEW i \in active, NEW keep \in SUBSET Commands,
         ProcessCommands(i, keep)
  PROVE  born[i] \in Abstract!Live /\ Abstract!Filter(born[i], keep)
<1> DEFINE S == {e \in Entry : e.cmd \in keep}
           old == services[i].command_queue
           q == Filtered(old, S)
<1>0. i \in Slots
  BY DEF FullInv, MTypeOK
<1>1. UNCHANGED <<active, births, born>>
  BY DEF ProcessCommands
<1>2. Stamped(i, q) /\ GoodQueue(q)
  BY <1>0, ProcessStep
<1> HIDE DEF q
<1>3. q \in Seq(Entry)
  BY <1>2 DEF GoodQueue
<1>4. /\ born[i] \in Abstract!Live
      /\ old \in Seq(Entry) /\ Len(old) <= Capacity
      /\ Registry[born[i]].queue = Cmds(old)
      /\ Registry' = [Registry EXCEPT ![born[i]].queue = Cmds(q)]
  BY <1>1, <1>2, <1>3, ShowsStamped
<1> HIDE DEF old, S
<1>5. Len(q) <= Len(old) /\ \E p : Places(p, q, old, S, Len(old))
  BY <1>4, FilteredProperties DEF q
<1>6. PICK p : Places(p, q, old, S, Len(old))
  BY <1>5
<1> DEFINE n == Len(q)
           u == Cmds(old)
<1>7. /\ \A k \in 1 .. Len(old) : u[k] \in keep <=> \E j \in 1 .. n : p[j] = k
      /\ Cmds(q) = [k \in 1 .. n |-> u[p[k]]]
  <2>1. Selected(p, q, old, keep)
    BY <1>3, <1>4, <1>6, CmdsFiltered DEF S
  <2> QED
    BY <2>1 DEF Selected
<1>8. Len(u) = Len(old) /\ Len(old) \in Nat
  BY <1>4, CmdsSeq
<1>9. n \in 0 .. Len(u)
  BY <1>3, <1>5, <1>8
<1>10. p \in [1 .. n -> 1 .. Len(u)] /\ \A j, k \in 1 .. n : j < k => p[j] < p[k]
  BY <1>6, <1>8 DEF Places
<1>11. /\ births' = births /\ Registry[born[i]].queue = u
       /\ Registry' = [Registry EXCEPT ![born[i]].queue = [k \in 1 .. n |-> u[p[k]]]]
  BY <1>1, <1>4, <1>7
<1>12. \A k \in 1 .. Len(u) : u[k] \in keep <=> \E j \in 1 .. n : p[j] = k
  BY <1>7, <1>8
<1> HIDE DEF n, u
<1> DEFINE z == Registry[born[i]].queue
<1>13. \E m \in 0 .. Len(z) : \E f \in [1 .. m -> 1 .. Len(z)] :
         /\ Abstract!Picks(f, m, z, keep)
         /\ Registry' = [Registry EXCEPT ![born[i]].queue = [k \in 1 .. m |-> z[f[k]]]]
  <2>1. z = u
    BY <1>11
  <2>2. n \in 0 .. Len(z) /\ p \in [1 .. n -> 1 .. Len(z)]
    BY <1>9, <1>10, <2>1
  <2>3. /\ Abstract!Picks(p, n, z, keep)
        /\ Registry' = [Registry EXCEPT ![born[i]].queue = [k \in 1 .. n |-> z[p[k]]]]
    BY <1>10, <1>11, <1>12, <2>1 DEF Abstract!Picks
  <2> HIDE DEF z
  <2> USE <2>2
  <2> WITNESS n \in 0 .. Len(z)
  <2> WITNESS p \in [1 .. n -> 1 .. Len(z)]
  <2> QED
    BY <2>3
<1>14. Abstract!Filter(born[i], keep)
  BY <1>11, <1>13 DEF Abstract!Filter
<1> QED
  BY <1>4, <1>14

LEMMA NoEntries ==
  ASSUME NEW r, r = [b \in {} |-> r[b]]
  PROVE  r = <<>>
<1>1. {} = 1 .. 0 /\ 0 \in Nat
  OBVIOUS
<1>2. r \in Seq({}) /\ Len(r) = 0
  BY <1>1
<1> QED
  BY <1>2

LEMMA RegistryInit == Init => Abstract!RInit
<1> SUFFICES ASSUME Init PROVE Abstract!RInit
  OBVIOUS
<1>1. Registry = <<>>
  <2>1. {born[i] : i \in active} = {}
    BY DEF Init
  <2>2. Registry = [b \in {} |-> Registry[b]]
    BY <2>1 DEF Registry
  <2> QED
    BY <2>2, NoEntries
<1> QED
  BY <1>1 DEF Init, Abstract!RInit

LEMMA RegistryClear ==
  ASSUME ZeroTable, UNCHANGED history
  PROVE  Abstract!Clear
<1>1. Registry' = <<>>
  <2>1. {born'[i] : i \in active'} = {}
    BY DEF ZeroTable
  <2>2. Registry' = [b \in {} |-> Registry'[b]]
    BY <2>1 DEF Registry
  <2> QED
    BY <2>2, NoEntries
<1> QED
  BY <1>1 DEF history, Abstract!Clear

\* A step after which every live service looks as it did.
LEMMA RegistrySame ==
  ASSUME FullInv, FullInv', UNCHANGED <<active, births, born>>,
         \A i \in active : View(services'[i]) = View(services[i])
  PROVE  UNCHANGED Abstract!rvars
<1>1. Shows(Registry, services, active, born) /\ Shows(Registry', services', active, born)
  BY RegistryShows, RegistryShowsNext
<1>2. Registry' = Registry
  BY <1>1, SameView
<1> QED
  BY <1>2 DEF Abstract!rvars

\* A service is destroyed, by its caller or by the collector.
LEMMA RegistryDestroy ==
  ASSUME FullInv, FullInv', NEW id, Matches(id) # {}, Destroy(id), UNCHANGED <<births, born>>
  PROVE  Abstract!Destroy(id) /\ Abstract!Collect
<1>1. PICK b \in Abstract!Named(id) : Abstract!Remove(b)
  BY ShowsRemove
<1> QED
  BY <1>1 DEF Abstract!Destroy, Abstract!Collect, Abstract!Named

LEMMA RegistryFilter ==
  ASSUME FullInv, FullInv', NEW i \in Slots, NEW keep \in SUBSET Commands,
         ProcessCommands(i, keep)
  PROVE  IF i \in active THEN born[i] \in Abstract!Live /\ Abstract!Filter(born[i], keep)
         ELSE UNCHANGED Abstract!rvars
<1>1. CASE i \in active
  BY <1>1, ShowsFilter
<1>2. CASE i \notin active
  <2>1. \A j \in active : services'[j] = services[j]
    BY <1>2, ProcessStep DEF Stamped, FullInv, MTypeOK
  <2>2. UNCHANGED <<active, births, born>>
    BY DEF ProcessCommands
  <2>3. UNCHANGED Abstract!rvars
    BY <2>1, <2>2, RegistrySame
  <2> QED
    BY <1>2, <2>3
<1> QED
  BY <1>1, <1>2

\* polycall_micro_update_service_state changes nothing that shows.
LEMMA RegistryUpdate ==
  ASSUME FullInv, FullInv', NEW id \in Ids, UpdateServiceState(id)
  PROVE  UNCHANGED Abstract!rvars
<1> DEFINE f == Found(id)
<1>1. f \in Slots /\ Stamped(f, services[f].command_queue)
  BY UpdateStep
<1>2. \A j \in active : View(services'[j]) = View(services[j])
  <2>1. active \subseteq Slots
    BY DEF FullInv, MTypeOK
  <2> QED
    BY <1>1, <2>1 DEF Stamped, View
<1>3. UNCHANGED <<active, births, born>>
  BY DEF UpdateServiceState
<1> QED
  BY <1>2, <1>3, RegistrySame

LEMMA RegistryStill ==
  ASSUME FullInv, FullInv', UNCHANGED <<services, active, births, born>>
  PROVE  UNCHANGED Abstract!rvars
BY RegistrySame

LEMMA RegistryCollect ==
  ASSUME FullInv, FullInv', CollectSlot
  PROVE  Abstract!Collect \/ UNCHANGED Abstract!rvars
<1> USE DEF table, history
<1>1. CASE sweep \in active /\ Expired(services[sweep])
  <2>1. Matches(services[sweep].id) # {} /\ Destroy(services[sweep].id)
        /\ UNCHANGED <<births, born>>
    BY <1>1 DEF CollectSlot, Matches
  <2> QED
    BY <2>1, RegistryDestroy
<1>2. CASE ~(sweep \in active /\ Expired(services[sweep]))
  BY <1>2, RegistryStill DEF CollectSlot
<1> QED
  BY <1>1, <1>2

\* Every call does to the registry what its arguments ask for.
LEMMA RegistryCalls ==
  ASSUME FullInv, FullInv'
  PROVE  CallByCall
<1> USE DEF table, history
<1>1. ASSUME NEW id \in Ids, CreateService(id) PROVE Abstract!Create(id)
  BY <1>1, ShowsCreate
<1>2. ASSUME NEW id \in Ids, DestroyService(id) PROVE Abstract!Destroy(id)
  BY <1>2, RegistryDestroy DEF DestroyService
<1>3. ASSUME NEW id \in Ids, UpdateServiceState(id) PROVE UNCHANGED Abstract!rvars
  BY <1>3, RegistryUpdate
<1>4. ASSUME NEW id \in Ids, NEW b \in Batches, BatchProcess(id, b) PROVE Abstract!Submit(id, b)
  BY <1>4, ShowsSubmit
<1>5. ASSUME NEW i \in Slots, NEW keep \in SUBSET Commands, ProcessCommands(i, keep)
      PROVE  IF i \in active THEN Abstract!Filter(born[i], keep) ELSE UNCHANGED Abstract!rvars
  BY <1>5, RegistryFilter
<1>6. ASSUME MicroInit \/ MicroCleanup PROVE Abstract!Clear
  BY <1>6, RegistryClear DEF MicroInit, MicroCleanup
<1>7. ASSUME CollectSlot PROVE Abstract!Collect \/ UNCHANGED Abstract!rvars
  BY <1>7, RegistryCollect
<1>8. ASSUME CollectBegin \/ CollectEnd \/ Tick \/ StepBack PROVE UNCHANGED Abstract!rvars
  BY <1>8, RegistryStill DEF CollectBegin, CollectEnd, Tick, StepBack
<1> QED
  BY <1>1, <1>2, <1>3, <1>4, <1>5, <1>6, <1>7, <1>8 DEF CallByCall

LEMMA RegistryStep ==
  FullInv /\ FullInv' /\ [Next]_vars => [Abstract!RNext]_(Abstract!rvars)
<1> SUFFICES ASSUME FullInv, FullInv', [Next]_vars
             PROVE  Abstract!RNext \/ UNCHANGED Abstract!rvars
  OBVIOUS
<1>1. CallByCall
  BY RegistryCalls
<1>2. ASSUME NEW i \in Slots, NEW keep \in SUBSET Commands, ProcessCommands(i, keep)
      PROVE  Abstract!RNext \/ UNCHANGED Abstract!rvars
  BY <1>2, RegistryFilter DEF Abstract!RNext
<1>3. CASE UNCHANGED vars
  BY <1>3, RegistryStill DEF vars, table, history
<1> QED
  BY <1>1, <1>2, <1>3 DEF Next, CallByCall, Abstract!RNext

(* For any number of slots and any batches the slot table implements the   *)
(* registry call by call: each call reaches a service with the id it names *)
(* or the one in the slot it points to, and no other; its callers never    *)
(* see that slots are reused, that a pointer handed to                     *)
(* polycall_micro_process_commands is stale, or that a collection looks at *)
(* one slot at a time.                                                     *)
THEOREM TableImplementsRegistry == Spec => ImplementsRegistry
<1>1. Init => Abstract!RInit
  BY RegistryInit
<1>2. FullInv /\ FullInv' /\ [Next]_vars => [Abstract!RNext]_(Abstract!rvars)
  BY RegistryStep
<1>3. FullInv /\ FullInv' => [CallByCall]_vars
  BY RegistryCalls
<1> QED
  BY <1>1, <1>2, <1>3, FullInductive, PTL DEF Spec, ImplementsRegistry, Abstract!RSpec

=============================================================================

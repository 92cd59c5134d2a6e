--------------------------- MODULE Runtime_proofs ---------------------------
(***************************************************************************)
(* Proofs about the runtime of main.c, for any number of programs, ports,  *)
(* mappings and commands, driven in any of its ways.                       *)
(***************************************************************************)
EXTENDS Runtime, WellFoundedInduction, TLAPS

----------------------------------------------------------------------------
(* The inductive invariant *)

TypeInv ==
  /\ programs \in [Indices -> Program \cup {Null}]
  /\ program_count \in 0 .. MaxPrograms
  /\ fresh \in Ports \cup {0}
  /\ mappings \in Seq(Mapping)
  /\ loop \in Nat
  /\ cursor \in Nat
  /\ phase \in {"idle", "clean", "free", "null"}
  /\ handler \in {"none", "blocked", "done"}

\* Only the command line and the clean-up run the loop, and never while a
\* program is half made.
ModeInv == /\ mode \in {"file", "serve", "stuck", "embed"} => phase = "idle"
           /\ fresh # 0 => phase = "idle" /\ program_count < MaxPrograms
           /\ fresh # 0 /\ mode = "exited" => ~Running

\* The clean-up loop leaves nothing behind it, and the only program that is
\* closed or freed but still pointed to is the one the loop is at; free() is
\* called on a program, never on NULL.
LoopInv ==
  /\ phase # "idle" => \A k \in Indices : k < loop => programs[k] = Null
  /\ \A k \in Indices : programs[k].status \in {"closed", "freed"} =>
       k = loop /\ phase \in {"free", "null"}
  /\ Running /\ phase = "free" => programs[loop].status = "closed"

IndInv == TypeInv /\ ModeInv /\ LoopInv /\ NoProgramLost /\ MappingsServed /\ HandlerSafe

\* What NoProgramLost says while the process runs.
TableInv ==
  /\ \A k \in Indices : programs[k] # Null => k < program_count
  /\ \A j, k \in Indices : programs[j].status = "live" /\ programs[k].status = "live"
                           /\ programs[j].socket = programs[k].socket => j = k
  /\ fresh # 0 => fresh \notin Bound

----------------------------------------------------------------------------
(* Ports and entries *)

\* find_available_port returns a free port when there is one.
LEMMA LowestPortFree ==
  ASSUME FreePorts # {}
  PROVE  LowestPort \in Ports /\ LowestPort \notin Bound
<1>1. FreePorts \subseteq Nat
  BY RuntimeAssumption DEF FreePorts
<1>2. PICK p \in FreePorts : \A q \in FreePorts : ~(<<q, p>> \in OpToRel(<, Nat))
  BY <1>1, NatLessThanWellFounded, WFMin
<1>3. \A q \in FreePorts : p <= q
  <2>1. \A q \in FreePorts : ~(q < p)
    BY <1>1, <1>2 DEF OpToRel
  <2> QED
    BY <1>1, <2>1
<1>4. LowestPort \in FreePorts
  BY <1>3 DEF LowestPort
<1> QED
  BY <1>4 DEF FreePorts

\* The statuses tell programs and NULL apart.
LEMMA Statuses ==
  ASSUME NEW x \in Program \cup {Null}
  PROVE  /\ x = Null <=> x.status = "null"
         /\ x # Null => x \in Program /\ x.status \in {"live", "closed", "freed"}
BY DEF Program, Null

\* A stored program takes the next entry and a port of its own.
LEMMA StoreEffect ==
  ASSUME TypeInv, ModeInv, LoopInv, TableInv, StoreProgram
  PROVE  /\ programs' \in [Indices -> Program \cup {Null}]
         /\ program_count' = program_count + 1 /\ program_count' \in 0 .. MaxPrograms
         /\ TableInv'
         /\ \A k \in Indices : programs'[k].status \notin {"closed", "freed"}
<1> DEFINE new == [socket |-> fresh, status |-> "live"]
<1>1. /\ fresh # 0 /\ fresh' = 0
      /\ programs' = [programs EXCEPT ![program_count] = new]
      /\ program_count' = program_count + 1
  BY DEF StoreProgram
<1>2. fresh \in Ports /\ fresh \notin Bound /\ phase = "idle" /\ program_count < MaxPrograms
  BY <1>1 DEF TypeInv, TableInv, ModeInv
<1>3. /\ new \in Program /\ new.status = "live" /\ new.socket = fresh /\ new # Null
  BY <1>2 DEF Program, Null
<1> HIDE DEF new
<1>4. program_count \in Indices /\ program_count \in Nat /\ MaxPrograms \in Nat
  BY <1>2, RuntimeAssumption DEF TypeInv, Indices
<1>5. \A k \in Indices : programs'[k] = IF k = program_count THEN new ELSE programs[k]
  BY <1>1, <1>4 DEF TypeInv
<1>6. programs' \in [Indices -> Program \cup {Null}]
  BY <1>1, <1>3 DEF TypeInv
<1>7. program_count' \in 0 .. MaxPrograms
  BY <1>1, <1>2, <1>4
<1>8. \A k \in Indices : programs'[k] # Null => k < program_count'
  BY <1>1, <1>4, <1>5 DEF TableInv, Indices
<1>9. \A k \in Indices : programs[k].status = "live" => programs[k].socket # fresh
  BY <1>2 DEF Bound
<1>10. \A j, k \in Indices : programs'[j].status = "live" /\ programs'[k].status = "live"
                             /\ programs'[j].socket = programs'[k].socket => j = k
  BY <1>3, <1>5, <1>9 DEF TableInv
<1>11. \A k \in Indices : programs'[k].status \notin {"closed", "freed"}
  BY <1>2, <1>3, <1>5 DEF LoopInv
<1> QED
  BY <1>1, <1>6, <1>7, <1>8, <1>10, <1>11 DEF TableInv

----------------------------------------------------------------------------
(* Steps *)

\* The invariant with the parts of NoProgramLost by name.
LEMMA Parts == IndInv <=> /\ TypeInv /\ ModeInv /\ LoopInv /\ TableInv
                          /\ mode = "exited" => Bound = {}
                          /\ MappingsServed /\ HandlerSafe
BY DEF IndInv, NoProgramLost, TableInv

LEMMA InitHolds ==
  ASSUME Init
  PROVE  IndInv
<1> USE DEF Init
<1>1. Null.status = "null" /\ 0 \in 0 .. MaxPrograms /\ 0 \in Nat
  BY RuntimeAssumption DEF Null
<1>2. <<>> \in Seq(Mapping) /\ Len(<<>>) = 0
  OBVIOUS
<1>3. TypeInv
  BY <1>1, <1>2 DEF TypeInv
<1>4. ModeInv /\ LoopInv /\ TableInv
  BY <1>1 DEF ModeInv, LoopInv, TableInv
<1>5. Bound = {}
  BY <1>1 DEF Bound
<1>6. MappingsServed /\ HandlerSafe
  BY <1>2 DEF MappingsServed, HandlerSafe
<1> QED
  BY <1>3, <1>4, <1>5, <1>6, Parts

\* A command that leaves the programs alone, and the steps that only change
\* what the invariant does not mention.
LEMMA QuietStep ==
  ASSUME IndInv,
         UNCHANGED <<table, fresh, mappings, cleaning, handler, misuse, interrupted>>,
         cursor' \in Nat,
         \/ mode' = mode
         \/ mode \in {"file", "serve"} /\ mode' \in {"serve", "stuck"}
  PROVE  IndInv'
<1>1. UNCHANGED <<programs, program_count, fresh, loop, phase>> /\ Bound' = Bound
  BY DEF table, cleaning, Bound
<1>2. TypeInv' /\ LoopInv' /\ TableInv'
  BY <1>1, Parts DEF TypeInv, LoopInv, TableInv, Running
<1>3. ModeInv'
  BY <1>1, Parts DEF ModeInv, Running
<1>4. mode' = "exited" => Bound' = {}
  BY <1>1, Parts DEF Bound
<1>5. MappingsServed' /\ HandlerSafe'
  BY <1>1, Parts DEF MappingsServed, HandlerSafe
<1> QED
  BY <1>2, <1>3, <1>4, <1>5 DEF IndInv, NoProgramLost, TableInv

\* A program is made; its port is no other's.
LEMMA OpenEffect ==
  ASSUME TypeInv, LoopInv, TableInv, phase = "idle", OpenProgram,
         UNCHANGED <<table, cleaning, handler>>, cursor' = cursor,
         mappings' \in Seq(Mapping)
  PROVE  TypeInv' /\ LoopInv' /\ TableInv' /\ fresh' # 0 /\ program_count < MaxPrograms
<1>1. /\ UNCHANGED <<programs, program_count, loop, phase>> /\ Bound' = Bound
      /\ FreePorts # {} /\ fresh' = LowestPort /\ program_count < MaxPrograms
  BY DEF table, cleaning, Bound, OpenProgram
<1>2. fresh' \in Ports /\ fresh' \notin Bound
  BY <1>1, LowestPortFree
<1>3. fresh' # 0
  BY <1>2, RuntimeAssumption
<1>4. TypeInv'
  BY <1>1, <1>2 DEF TypeInv
<1>5. LoopInv' /\ TableInv'
  BY <1>1, <1>2 DEF LoopInv, TableInv, Running
<1> QED
  BY <1>1, <1>3, <1>4, <1>5

\* "start_network", on the command line or in a configuration file.
LEMMA StartStep ==
  ASSUME IndInv, mode \in {"cli", "file"}, phase = "idle", OpenProgram,
         UNCHANGED <<mode, table, mappings, cleaning, cursor, signalling>>
  PROVE  IndInv'
<1>1. UNCHANGED <<program_count, phase, handler, misuse, interrupted>>
  BY DEF table, cleaning, signalling
<1>2. TypeInv' /\ LoopInv' /\ TableInv' /\ program_count < MaxPrograms
  BY <1>1, Parts, OpenEffect DEF TypeInv
<1>3. ModeInv'
  BY <1>1, <1>2 DEF ModeInv
<1>4. MappingsServed' /\ HandlerSafe'
  BY <1>1, Parts DEF MappingsServed, HandlerSafe
<1> QED
  BY <1>2, <1>3, <1>4 DEF IndInv, NoProgramLost, TableInv

\* The program that was made enters the table.
LEMMA StoreStep ==
  ASSUME IndInv, StoreProgram
  PROVE  IndInv'
<1>1. /\ UNCHANGED <<mode, mappings, loop, phase, cursor, handler, misuse, interrupted>>
      /\ fresh # 0 /\ fresh' = 0 /\ Running
  BY DEF StoreProgram, cleaning, signalling
<1>2. /\ programs' \in [Indices -> Program \cup {Null}]
      /\ program_count' = program_count + 1 /\ program_count' \in 0 .. MaxPrograms
      /\ TableInv'
      /\ \A k \in Indices : programs'[k].status \notin {"closed", "freed"}
  BY Parts, StoreEffect
<1>3. phase = "idle"
  BY <1>1, Parts DEF ModeInv
<1>4. TypeInv' /\ ModeInv' /\ LoopInv'
  BY <1>1, <1>2, <1>3, Parts DEF TypeInv, ModeInv, LoopInv
<1>5. MappingsServed' /\ HandlerSafe'
  BY <1>1, <1>2, Parts DEF MappingsServed, HandlerSafe, TypeInv
<1>6. mode # "exited"
  BY <1>1, Parts DEF ModeInv
<1> QED
  BY <1>1, <1>2, <1>4, <1>5, <1>6 DEF IndInv, NoProgramLost, TableInv

\* A mapping is added together with its program, or withdrawn.
LEMMA AddPortMappingStep ==
  ASSUME IndInv, NEW host \in ServicePorts, NEW container \in ServicePorts,
         AddPortMapping(host, container)
  PROVE  IndInv'
<1> DEFINE m == [host |-> host, container |-> container]
<1>1. /\ mode = "embed" /\ mode' = "embed" /\ phase = "idle" /\ fresh = 0
      /\ host \notin PortsInUse /\ container \notin PortsInUse
      /\ UNCHANGED <<programs, program_count, loop, phase, cursor, handler, misuse, interrupted>>
      /\ \/ OpenProgram /\ mappings' = Append(mappings, m)
         \/ UNCHANGED <<mappings, fresh>>
  BY DEF AddPortMapping, MappingWithdrawn, Ready, table, cleaning, signalling
<1>2. mappings \in Seq(Mapping) /\ cursor \in Nat
  BY Parts DEF TypeInv
<1>3. CASE OpenProgram /\ mappings' = Append(mappings, m)
  <2>1. m \in Mapping
    BY DEF Mapping
  <2> HIDE DEF m
  <2>2. /\ mappings' \in Seq(Mapping) /\ Len(mappings') = Len(mappings) + 1
        /\ Len(mappings) \in Nat /\ mappings'[Len(mappings) + 1] = m
        /\ \A k \in 1 .. Len(mappings) : mappings'[k] = mappings[k]
    BY <1>2, <1>3, <2>1
  <2>3. TypeInv' /\ LoopInv' /\ TableInv' /\ fresh' # 0 /\ program_count < MaxPrograms
    BY <1>1, <1>3, <2>2, Parts, OpenEffect DEF table, cleaning
  <2>4. ModeInv' /\ HandlerSafe'
    BY <1>1, <2>3, Parts DEF ModeInv, HandlerSafe
  <2>5. m.host = host /\ m.container = container
    BY DEF m
  <2>6. \A k \in 1 .. Len(mappings) :
          {m.host, m.container} \cap {mappings[k].host, mappings[k].container} = {}
    BY <1>1, <2>5 DEF PortsInUse
  <2>7. ASSUME NEW j \in 1 .. Len(mappings'), NEW k \in 1 .. Len(mappings'), j # k
        PROVE  {mappings'[j].host, mappings'[j].container}
                 \cap {mappings'[k].host, mappings'[k].container} = {}
    <3>1. CASE j \in 1 .. Len(mappings) /\ k \in 1 .. Len(mappings)
      BY <2>2, <2>7, <3>1, Parts DEF MappingsServed
    <3>2. CASE j = Len(mappings) + 1 /\ k \in 1 .. Len(mappings)
      BY <2>2, <2>6, <3>2
    <3>3. CASE k = Len(mappings) + 1 /\ j \in 1 .. Len(mappings)
      BY <2>2, <2>6, <3>3
    <3> QED
      BY <2>2, <2>7, <3>1, <3>2, <3>3
  <2>8. Len(mappings') = program_count' + 1
    BY <1>1, <2>2, Parts DEF MappingsServed, TypeInv
  <2>9. MappingsServed'
    BY <2>3, <2>7, <2>8 DEF MappingsServed
  <2> QED
    BY <1>1, <2>3, <2>4, <2>9 DEF IndInv, NoProgramLost, TableInv
<1>4. CASE UNCHANGED <<mappings, fresh>>
  BY <1>1, <1>2, <1>4, QuietStep DEF table, cleaning
<1> QED
  BY <1>1, <1>3, <1>4

\* One program is replaced: by one that listens on the same port, or by one
\* that listens on none.
LEMMA ReplaceEffect ==
  ASSUME TypeInv, TableInv, NEW k \in Indices, NEW x \in Program \cup {Null},
         programs' = [programs EXCEPT ![k] = x], UNCHANGED <<program_count, fresh>>,
         x = Null \/ k < program_count,
         x.status = "live" => programs[k].status = "live" /\ x.socket = programs[k].socket
  PROVE  /\ programs' \in [Indices -> Program \cup {Null}]
         /\ \A j \in Indices : programs'[j] = IF j = k THEN x ELSE programs[j]
         /\ TableInv'
         /\ Bound' \subseteq Bound
<1>1. /\ programs' \in [Indices -> Program \cup {Null}]
      /\ \A j \in Indices : programs'[j] = IF j = k THEN x ELSE programs[j]
  BY DEF TypeInv
<1>3. Bound' \subseteq Bound
  <2> SUFFICES ASSUME NEW j \in Indices, programs'[j].status = "live"
               PROVE  programs'[j].socket \in Bound
    BY DEF Bound
  <2>1. programs[j].status = "live" /\ programs'[j].socket = programs[j].socket
    BY <1>1
  <2> QED
    BY <2>1 DEF Bound
<1>2. TableInv'
  BY <1>1, <1>3 DEF TableInv
<1> QED
  BY <1>1, <1>2, <1>3

\* "stop_network" and "quit" start the loop, when nothing is half cleaned up.
LEMMA LoopBeginStep ==
  ASSUME IndInv, StopNetwork \/ CmdQuit
  PROVE  IndInv'
<1>1. /\ phase = "idle" /\ mode = "cli" /\ mode' \in {"cli", "cleanup"}
      /\ loop' = 0 /\ phase' = "clean"
      /\ UNCHANGED <<programs, program_count, fresh, mappings, cursor, handler, misuse,
                     interrupted>>
      /\ fresh = 0
  BY DEF StopNetwork, CmdQuit, Command, Ready, table, signalling
<1>2. TypeInv' /\ ModeInv' /\ TableInv'
  BY <1>1, Parts DEF TypeInv, ModeInv, TableInv
<1>3. LoopInv'
  BY <1>1, Parts DEF LoopInv, Indices
<1>4. MappingsServed' /\ HandlerSafe' /\ mode' # "exited"
  BY <1>1, Parts DEF MappingsServed, HandlerSafe
<1> QED
  BY <1>2, <1>3, <1>4 DEF IndInv, NoProgramLost, TableInv

\* A statement of the loop: it acts on the program the loop is at.
LEMMA LoopStep ==
  ASSUME IndInv, CleanProgram \/ FreeProgram \/ NextProgram
  PROVE  IndInv'
<1>1. /\ loop < program_count /\ phase # "idle"
      /\ UNCHANGED <<mode, program_count, fresh, mappings, cursor, handler, misuse, interrupted>>
  BY DEF CleanProgram, FreeProgram, NextProgram, Cleaning, signalling
<1>2. loop \in Indices /\ loop \in Nat
  BY <1>1, Parts, RuntimeAssumption DEF TypeInv, Indices
<1>3. programs[loop] \in Program \cup {Null}
  BY <1>2, Parts DEF TypeInv
<1>4. ModeInv' /\ MappingsServed' /\ HandlerSafe'
  <2>1. mode \notin {"file", "serve", "stuck", "embed"} /\ fresh = 0
    BY <1>1, Parts DEF ModeInv
  <2> QED
    BY <1>1, <2>1, Parts DEF ModeInv, MappingsServed, HandlerSafe
<1>5. CASE programs' = programs /\ phase' = phase /\ phase = "clean"
           /\ programs[loop] = Null /\ loop' = loop + 1
  <2>1. TypeInv' /\ TableInv' /\ Bound' = Bound
    BY <1>1, <1>2, <1>5, Parts DEF TypeInv, TableInv, Bound
  <2>2. LoopInv'
    BY <1>2, <1>5, Parts DEF LoopInv, Indices
  <2> QED
    BY <1>1, <1>4, <2>1, <2>2, Parts DEF IndInv, NoProgramLost, TableInv
<1>6. ASSUME NEW x \in Program \cup {Null}, programs' = [programs EXCEPT ![loop] = x],
             x.status # "live",
             \/ phase' = "free" /\ x.status = "closed" /\ loop' = loop
             \/ phase' = "null" /\ loop' = loop
             \/ x = Null /\ phase' = "clean" /\ loop' = loop + 1
      PROVE  IndInv'
  <2>1. /\ programs' \in [Indices -> Program \cup {Null}]
        /\ \A j \in Indices : programs'[j] = IF j = loop THEN x ELSE programs[j]
        /\ TableInv'
        /\ Bound' \subseteq Bound
    BY <1>1, <1>2, <1>6, Parts, ReplaceEffect
  <2>2. TypeInv'
    BY <1>1, <1>2, <1>6, <2>1, Parts DEF TypeInv
  <2>3. LoopInv'
    <3>1. CASE \/ phase' = "free" /\ x.status = "closed" /\ loop' = loop
               \/ phase' = "null" /\ loop' = loop
      BY <1>1, <1>2, <2>1, <3>1, Parts DEF LoopInv, Indices
    <3>2. CASE x = Null /\ phase' = "clean" /\ loop' = loop + 1
      <4>1. Null.status = "null"
        BY DEF Null
      <4> QED
        BY <1>1, <1>2, <2>1, <3>2, <4>1, Parts DEF LoopInv, Indices
    <3> QED
      BY <1>6, <3>1, <3>2
  <2> QED
    BY <1>1, <1>4, <2>1, <2>2, <2>3, Parts DEF IndInv, NoProgramLost, TableInv
<1>7. CASE CleanProgram
  <2> DEFINE x == [socket |-> 0, status |-> "closed"]
  <2>1. CASE programs[loop] = Null
    BY <1>5, <1>7, <2>1 DEF CleanProgram, Cleaning
  <2>2. CASE programs[loop] # Null
    <3>1. x \in Program /\ x.status = "closed"
      BY DEF Program
    <3>2. programs' = [programs EXCEPT ![loop] = x] /\ phase' = "free" /\ loop' = loop
      BY <1>7, <2>2 DEF CleanProgram
    <3> QED
      BY <1>6, <3>1, <3>2
  <2> QED
    BY <2>1, <2>2
<1>8. CASE NextProgram
  <2>1. Null.status # "live"
    BY DEF Null
  <2> QED
    BY <1>6, <1>8, <2>1 DEF NextProgram, PointerCleared
<1>9. CASE FreeProgram
  <2> DEFINE x == [programs[loop] EXCEPT !.status = "freed"]
  <2>1. programs' = [programs EXCEPT ![loop] = x] /\ phase' = "null" /\ loop' = loop
    BY <1>9 DEF FreeProgram
  <2>2. CASE programs[loop] \in Program
    <3>1. x \in Program /\ x.status # "live"
      BY <2>2 DEF Program
    <3> QED
      BY <1>6, <2>1, <3>1
  <2>3. CASE programs[loop] = Null
    BY <1>9, <2>3, Parts DEF LoopInv, Null, FreeProgram, Cleaning
  <2> QED
    BY <1>3, <2>2, <2>3
<1> QED
  BY <1>7, <1>8, <1>9

\* stop_network is done: the loop has passed every program.
LEMMA StopEndStep ==
  ASSUME IndInv, StopEnd
  PROVE  IndInv'
<1>1. /\ mode = "cli" /\ phase = "clean" /\ loop >= program_count
      /\ program_count' = 0 /\ phase' = "idle"
      /\ UNCHANGED <<mode, programs, fresh, mappings, loop, cursor, handler, misuse, interrupted>>
  BY DEF StopEnd, signalling
<1>2. \A k \in Indices : programs[k] = Null
  BY <1>1, Parts DEF LoopInv, TableInv, TypeInv, Indices
<1>3. Null.status = "null"
  BY DEF Null
<1>4. TypeInv' /\ ModeInv'
  BY <1>1, Parts, RuntimeAssumption DEF TypeInv, ModeInv
<1>7. Bound' = {}
  BY <1>1, <1>2, <1>3 DEF Bound
<1>5. TableInv' /\ LoopInv'
  BY <1>1, <1>2, <1>3, <1>7, Parts DEF TableInv, LoopInv
<1>6. MappingsServed' /\ HandlerSafe' /\ mode' # "exited"
  BY <1>1, Parts DEF MappingsServed, HandlerSafe
<1> QED
  BY <1>4, <1>5, <1>6 DEF IndInv, NoProgramLost, TableInv

\* cleanup_runtime is done.
LEMMA CleanupEndStep ==
  ASSUME IndInv, CleanupEnd
  PROVE  IndInv'
<1>1. /\ mode = "cleanup" /\ phase = "clean" /\ loop >= program_count /\ mode' = "exited"
      /\ UNCHANGED <<programs, program_count, fresh, mappings, loop, phase, cursor, handler,
                     misuse, interrupted>>
  BY DEF CleanupEnd, table, cleaning, signalling
<1>2. \A k \in Indices : programs[k] = Null
  BY <1>1, Parts DEF LoopInv, TableInv, TypeInv, Indices
<1>3. Null.status = "null"
  BY DEF Null
<1>4. Bound' = {}
  BY <1>1, <1>2, <1>3 DEF Bound
<1>5. TypeInv' /\ ModeInv' /\ TableInv' /\ LoopInv'
  BY <1>1, Parts DEF TypeInv, ModeInv, TableInv, LoopInv, Running
<1>6. MappingsServed' /\ HandlerSafe'
  BY <1>1, Parts DEF MappingsServed, HandlerSafe
<1> QED
  BY <1>4, <1>5, <1>6 DEF IndInv, NoProgramLost, TableInv

\* The handler closes every program; one that it finds closed or freed is the
\* one the interrupted loop is at.
LEMMA SignalStep ==
  ASSUME IndInv, Signal
  PROVE  IndInv'
<1>1. /\ handler' = "done" /\ mode' = "exited"
      /\ misuse' = (\E k \in Indices : /\ k < program_count
                                       /\ programs[k].status \in {"closed", "freed"})
      /\ interrupted' = (phase # "idle" /\ loop < program_count)
      /\ programs' = [k \in Indices |-> IF k < program_count THEN Null ELSE programs[k]]
      /\ UNCHANGED <<program_count, fresh, mappings, loop, phase, cursor>>
  BY DEF Signal, cleaning
<1>2. \A k \in Indices : programs'[k] = Null
  BY <1>1, Parts DEF TableInv
<1>3. Null.status = "null"
  BY DEF Null
<1>4. Bound' = {}
  BY <1>2, <1>3 DEF Bound
<1>5. TypeInv' /\ ModeInv'
  BY <1>1, <1>2, Parts DEF TypeInv, ModeInv, Running
<1>6. TableInv' /\ LoopInv'
  BY <1>1, <1>2, <1>3, <1>4 DEF TableInv, LoopInv, Running
<1>7. MappingsServed'
  BY <1>1, Parts DEF MappingsServed
<1>8. HandlerSafe'
  BY <1>1, Parts DEF HandlerSafe, LoopInv
<1> QED
  BY <1>4, <1>5, <1>6, <1>7, <1>8 DEF IndInv, NoProgramLost, TableInv

\* The handler cleans up the programs before the one it waits for.
LEMMA SignalBlocksStep ==
  ASSUME IndInv, SignalBlocks
  PROVE  IndInv'
<1>1. /\ handler' = "blocked" /\ mode \in {"serve", "stuck"} /\ mode' = mode
      /\ programs' = [k \in Indices |-> IF k < cursor THEN Null ELSE programs[k]]
      /\ UNCHANGED <<program_count, fresh, mappings, loop, phase, cursor, misuse, interrupted>>
  BY DEF SignalBlocks, cleaning
<1>2. \A k \in Indices : programs'[k] \in {Null, programs[k]}
  BY <1>1
<1>3. Null.status = "null" /\ Null \in Program \cup {Null}
  BY DEF Null
<1>4. phase = "idle"
  BY <1>1, Parts DEF ModeInv
<1>5. Bound' \subseteq Bound
  BY <1>2, <1>3 DEF Bound
<1>6. programs' \in [Indices -> Program \cup {Null}]
  BY <1>1, Parts DEF TypeInv
<1>7. TypeInv' /\ ModeInv'
  BY <1>1, <1>6, Parts DEF TypeInv, ModeInv
<1>8. TableInv'
  <2>1. \A k \in Indices : programs'[k] # Null => k < program_count'
    BY <1>1, <1>2, Parts DEF TableInv
  <2>2. \A j, k \in Indices : programs'[j].status = "live" /\ programs'[k].status = "live"
                              /\ programs'[j].socket = programs'[k].socket => j = k
    BY <1>2, <1>3, Parts DEF TableInv
  <2> QED
    BY <1>1, <1>5, <2>1, <2>2, Parts DEF TableInv
<1>9. LoopInv'
  BY <1>1, <1>2, <1>3, <1>4, Parts DEF LoopInv, Running
<1>10. MappingsServed' /\ HandlerSafe'
  BY <1>1, Parts DEF MappingsServed, HandlerSafe
<1> QED
  BY <1>1, <1>7, <1>8, <1>9, <1>10 DEF IndInv, NoProgramLost, TableInv

----------------------------------------------------------------------------
(* The theorems *)

LEMMA NextStep ==
  ASSUME IndInv, [Next]_vars
  PROVE  IndInv'
<1>0. cursor \in Nat
  BY Parts DEF TypeInv
<1>1. CASE StartNetwork
  <2>1. /\ mode = "cli" /\ phase = "idle"
        /\ UNCHANGED <<mode, table, mappings, cleaning, cursor, signalling>>
        /\ OpenProgram \/ UNCHANGED fresh
    BY <1>1 DEF StartNetwork, Command, Ready
  <2>2. CASE OpenProgram
    BY <2>1, <2>2, StartStep
  <2>3. CASE UNCHANGED fresh
    BY <1>0, <2>1, <2>3, QuietStep DEF signalling
  <2> QED
    BY <2>1, <2>2, <2>3
<1>2. CASE CmdInit \/ CmdList
  BY <1>0, <1>2, QuietStep DEF CmdInit, CmdList, signalling
<1>3. CASE StopNetwork \/ CmdQuit
  BY <1>3, LoopBeginStep
<1>4. CASE ConfigNetworkStart
  <2>1. phase = "idle"
    BY <1>4, Parts DEF ConfigNetworkStart, ModeInv
  <2> QED
    BY <1>4, <2>1, StartStep DEF ConfigNetworkStart
<1>5. CASE ConfigEnd
  BY <1>0, <1>5, QuietStep DEF ConfigEnd, signalling
<1>6. CASE RunProgram \/ RunBlocks
  <2>1. cursor' \in Nat
    BY <1>0, <1>6 DEF RunProgram, RunBlocks, NextCursor
  <2> QED
    BY <1>6, <2>1, QuietStep DEF RunProgram, RunBlocks, signalling
<1>7. ASSUME NEW h \in ServicePorts, NEW c \in ServicePorts, AddPortMapping(h, c)
      PROVE  IndInv'
  BY <1>7, AddPortMappingStep
<1>8. CASE CleanProgram \/ FreeProgram \/ NextProgram
  BY <1>8, LoopStep
<1>9. CASE StopEnd
  BY <1>9, StopEndStep
<1>10. CASE CleanupEnd
  BY <1>10, CleanupEndStep
<1>11. CASE Signal
  BY <1>11, SignalStep
<1>12. CASE OtherProcess
  BY <1>0, <1>12, QuietStep DEF OtherProcess, signalling
<1>13. CASE UNCHANGED vars
  BY <1>0, <1>13, QuietStep DEF vars, signalling
<1>14. CASE StoreProgram
  BY <1>14, StoreStep
<1>15. CASE SignalBlocks
  BY <1>15, SignalBlocksStep
<1> QED
  BY <1>1, <1>2, <1>3, <1>4, <1>5, <1>6, <1>7, <1>8, <1>9, <1>10, <1>11, <1>12, <1>13, <1>14,
     <1>15 DEF Next

LEMMA Inductive == Spec => []IndInv
<1>1. Init => IndInv
  BY InitHolds
<1>2. IndInv /\ [Next]_vars => IndInv'
  BY NextStep
<1> QED
  BY <1>1, <1>2, PTL DEF Spec

\* The loops of main.c over program_count entries reach every listening
\* socket, no port is listened on twice, and none is left after the clean-up,
\* whichever way the runtime is driven and wherever a signal interrupts it.
THEOREM ProgramsKept == Spec => []NoProgramLost
<1>1. IndInv => NoProgramLost
  BY DEF IndInv
<1> QED
  BY <1>1, Inductive, PTL

\* add_port_mapping keeps a mapping exactly when it keeps its program, and no
\* port belongs to two mappings.
THEOREM MappingsCorrect == Spec => []MappingsServed
<1>1. IndInv => MappingsServed
  BY DEF IndInv
<1> QED
  BY <1>1, Inductive, PTL

\* A signal handler that runs outside the clean-up loops meets no program that
\* was cleaned up or freed before.
THEOREM SignalOutsideLoopsSafe == Spec => []HandlerSafe
<1>1. IndInv => HandlerSafe
  BY DEF IndInv
<1> QED
  BY <1>1, Inductive, PTL
=============================================================================

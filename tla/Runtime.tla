------------------------------ MODULE Runtime ------------------------------
(***************************************************************************)
(* The runtime of src/src/main.c: the table of network programs, the port  *)
(* mappings, the command history and the clean-up, driven by the command   *)
(* line ("cli"), by a configuration file ("file", then "serve") or by a    *)
(* caller of polycall_init_with_directory ("embed").                       *)
(*                                                                         *)
(* A network program is what the Network module describes; here it is its  *)
(* listening port and how far its clean-up has come.  The loops that clean *)
(* up the programs, and the making of a program and its entry into the     *)
(* table, take a step per statement, because a signal may arrive in        *)
(* between.                                                                *)
(***************************************************************************)
EXTENDS Naturals, Sequences, FiniteSets

CONSTANTS MaxPrograms,   \* MAX_PROGRAMS
          MaxPorts,      \* MAX_PORTS
          HistorySize,   \* HISTORY_SIZE
          Ports,         \* the range find_available_port searches
          ServicePorts,  \* the ports that services are mapped from and to; 0 is invalid
          Modes,         \* how the runtime is driven
          MaxGiven       \* bound on the number of commands given

ASSUME RuntimeAssumption == /\ MaxPrograms \in Nat \ {0} /\ MaxPorts \in Nat \ {0}
                            /\ HistorySize \in Nat \ {0} /\ MaxGiven \in Nat
                            /\ Ports \subseteq Nat \ {0} /\ ServicePorts \subseteq Nat
                            /\ Modes \subseteq {"cli", "file", "embed"}

Indices == 0 .. MaxPrograms - 1
Words == {"start_network", "stop_network", "init", "quit", "list"}

\* A NetworkProgram; "freed" is a pointer to memory that was given back.
Program == [socket : Ports \cup {0}, status : {"live", "closed", "freed"}]
Null == [socket |-> 0, status |-> "null"]
Mapping == [host : ServicePorts, container : ServicePorts]

VARIABLES
  mode,            \* which part of main runs
  programs, program_count,     \* g_runtime.programs
  fresh,           \* the port of the program made but not yet in the table, or 0
  mappings,        \* g_runtime.port_mappings, all active
  history,         \* g_runtime.command_history
  has_machine,     \* g_runtime.state_machine is not NULL
  taken,           \* ports bound by other processes
  loop, phase,     \* the clean-up loop: its index, and the statement it is at or "idle"
  cursor,          \* the program the event loop is at
  handler,         \* the signal handler: "none", "blocked" or "done"
  given,           \* history: how many commands were given
  misuse,          \* history: the handler used a program that was closed or freed
  interrupted      \* history: the signal arrived inside a clean-up loop

table == <<programs, program_count>>
cleaning == <<loop, phase>>
signalling == <<handler, misuse, interrupted>>
vars == <<mode, table, fresh, mappings, history, has_machine, taken, cleaning, cursor,
          signalling, given>>

----------------------------------------------------------------------------
(* Helpers *)

Running == handler = "none"

\* main is between two statements of its loop, no program half made.
Ready == Running /\ phase = "idle" /\ fresh = 0

\* The ports the programs of the table listen on.
Bound == {programs[k].socket : k \in {j \in Indices : programs[j].status = "live"}}

\* The ports net_is_port_in_use rejects, for this process and for others.
FreePorts == Ports \ (Bound \cup {fresh} \cup taken)
LowestPort == CHOOSE p \in FreePorts : \A q \in FreePorts : p <= q

\* The ports is_port_available rejects.
PortsInUse == {mappings[k].host : k \in 1 .. Len(mappings)}
              \cup {mappings[k].container : k \in 1 .. Len(mappings)}

\* add_to_history, which sees the command word only: strtok has cut the rest.
Remembered(w) == IF Len(history) < HistorySize THEN Append(history, w)
                 ELSE Append(Tail(history), w)

\* A command is read, recorded and executed.
Command(w) == /\ mode = "cli" /\ Ready
              /\ given < MaxGiven
              /\ given' = given + 1
              /\ history' = Remembered(w)

Init == /\ mode \in Modes
        /\ programs = [k \in Indices |-> Null]
        /\ program_count = 0
        /\ fresh = 0
        /\ mappings = <<>>
        /\ history = <<>>
        /\ has_machine = FALSE
        /\ taken = {}
        /\ loop = 0
        /\ phase = "idle"
        /\ cursor = 0
        /\ handler = "none"
        /\ given = 0
        /\ misuse = FALSE
        /\ interrupted = FALSE

----------------------------------------------------------------------------
(* Network programs *)

\* net_init_program finds a port and binds it.  MAX_PROGRAMS is not tested: the
\* model stops at the bound.
OpenProgram == /\ FreePorts # {}
               /\ program_count < MaxPrograms
               /\ fresh' = LowestPort

\* programs[program_count++] = program
StoreProgram == /\ Running /\ fresh # 0
                /\ programs' = [programs EXCEPT ![program_count] =
                                  [socket |-> fresh, status |-> "live"]]
                /\ program_count' = program_count + 1
                /\ fresh' = 0
                /\ UNCHANGED <<mode, mappings, history, has_machine, taken, cleaning, cursor,
                               signalling, given>>

\* "start_network"; without a port the program is freed again.
StartNetwork == /\ Command("start_network")
                /\ OpenProgram \/ UNCHANGED fresh
                /\ UNCHANGED <<mode, table, mappings, has_machine, taken, cleaning, cursor,
                               signalling>>

\* "network start" in a configuration file
ConfigNetworkStart == /\ mode = "file" /\ Ready
                      /\ OpenProgram
                      /\ UNCHANGED <<mode, table, mappings, history, has_machine, taken, cleaning,
                                     cursor, signalling, given>>

\* The end of the configuration file.
ConfigEnd == /\ mode = "file" /\ Ready
             /\ mode' = "serve"
             /\ UNCHANGED <<table, fresh, mappings, history, has_machine, taken, cleaning, cursor,
                            signalling, given>>

\* Mutant: the event loop leaves out the last program.
NextCursorShort == IF cursor + 2 < program_count THEN cursor + 1 ELSE 0

\* The event loop goes round the programs.
NextCursor == IF cursor + 1 < program_count THEN cursor + 1 ELSE 0

\* One net_run of the event loop returns, whatever it did (see Network).
RunProgram == /\ mode = "serve" /\ Running
              /\ cursor < program_count
              /\ cursor' = NextCursor
              /\ UNCHANGED <<mode, table, fresh, mappings, history, has_machine, taken, cleaning,
                             signalling, given>>

\* It never returns: net_run waits for a mutex (see Network).
RunBlocks == /\ mode = "serve" /\ Running
             /\ cursor < program_count
             /\ mode' = "stuck"
             /\ UNCHANGED <<table, fresh, mappings, history, has_machine, taken, cleaning, cursor,
                            signalling, given>>

----------------------------------------------------------------------------
(* Port mappings *)

\* Mutant: the mapping stays when the program cannot be started.
MappingKept(m) == /\ mappings' = Append(mappings, m)
                  /\ UNCHANGED fresh

\* add_port_mapping fails after it has added the mapping.
MappingWithdrawn(m) == UNCHANGED <<mappings, fresh>>

\* add_port_mapping, from a configuration file or a discovered service.
AddPortMapping(host, container) ==
  LET m == [host |-> host, container |-> container]
  IN /\ mode = "embed" /\ Ready
     /\ host > 0 /\ container > 0
     /\ Len(mappings) < MaxPorts
     /\ host \notin PortsInUse /\ container \notin PortsInUse
     /\ \/ OpenProgram /\ mappings' = Append(mappings, m)
        \/ FreePorts = {} /\ MappingWithdrawn(m)
     /\ UNCHANGED <<mode, table, history, has_machine, taken, cleaning, cursor, signalling, given>>

----------------------------------------------------------------------------
(* The other commands *)

\* "init"
CmdInit == /\ Command("init")
           /\ has_machine' = TRUE
           /\ UNCHANGED <<mode, table, fresh, mappings, taken, cleaning, cursor, signalling>>

\* The commands that only print.
CmdList == /\ Command("list")
           /\ UNCHANGED <<mode, table, fresh, mappings, has_machine, taken, cleaning, cursor, signalling>>

\* "stop_network" enters its loop.
StopNetwork == /\ Command("stop_network")
               /\ loop' = 0
               /\ phase' = "clean"
               /\ UNCHANGED <<mode, table, fresh, mappings, has_machine, taken, cursor, signalling>>

\* "quit", or the end of the input: cleanup_runtime enters its loop.
CmdQuit == /\ Command("quit")
           /\ mode' = "cleanup"
           /\ loop' = 0
           /\ phase' = "clean"
           /\ UNCHANGED <<table, fresh, mappings, has_machine, taken, cursor, signalling>>

----------------------------------------------------------------------------
(* The clean-up loop of stop_network and of cleanup_runtime *)

Cleaning(at) == /\ Running
                /\ loop < program_count
                /\ phase = at
                /\ UNCHANGED <<mode, program_count, fresh, mappings, history, has_machine, taken, cursor,
                               signalling, given>>

\* if (programs[i]) net_cleanup_program(programs[i])
CleanProgram == /\ Cleaning("clean")
                /\ IF programs[loop] = Null
                   THEN loop' = loop + 1 /\ UNCHANGED <<programs, phase>>
                   ELSE /\ programs' = [programs EXCEPT ![loop] =
                             [socket |-> 0, status |-> "closed"]]
                        /\ phase' = "free"
                        /\ UNCHANGED loop

\* free(programs[i])
FreeProgram == /\ Cleaning("free")
               /\ programs' = [programs EXCEPT ![loop].status = "freed"]
               /\ phase' = "null"
               /\ UNCHANGED loop

\* Mutant: the pointer is not cleared.
PointerKept == UNCHANGED programs

\* programs[i] = NULL
PointerCleared == programs' = [programs EXCEPT ![loop] = Null]

NextProgram == /\ Cleaning("null")
               /\ PointerCleared
               /\ phase' = "clean"
               /\ loop' = loop + 1

\* stop_network: program_count = 0
StopEnd == /\ mode = "cli" /\ Running
           /\ phase = "clean" /\ loop >= program_count
           /\ program_count' = 0
           /\ phase' = "idle"
           /\ UNCHANGED <<mode, programs, fresh, mappings, history, has_machine, taken, loop, cursor,
                          signalling, given>>

\* The rest of cleanup_runtime: the state machine goes, the count stays.
CleanupEnd == /\ mode = "cleanup" /\ Running
              /\ phase = "clean" /\ loop >= program_count
              /\ has_machine' = FALSE
              /\ mode' = "exited"
              /\ UNCHANGED <<table, fresh, mappings, history, taken, cleaning, cursor, signalling, given>>

----------------------------------------------------------------------------
(* The environment *)

\* The signal handler runs cleanup_runtime from the start, and exits; it does not
\* know of a program that is not in the table yet.
Signal == /\ Running /\ mode \notin {"exited", "stuck"}
          /\ handler' = "done"
          /\ misuse' = (\E k \in Indices : /\ k < program_count
                                           /\ programs[k].status \in {"closed", "freed"})
          /\ interrupted' = (phase # "idle" /\ loop < program_count)
          /\ programs' = [k \in Indices |-> IF k < program_count THEN Null ELSE programs[k]]
          /\ has_machine' = FALSE
          /\ mode' = "exited"
          /\ UNCHANGED <<program_count, fresh, mappings, history, taken, cleaning, cursor, given>>

\* The handler starts inside the net_run of the program at the cursor, which may
\* hold its mutexes: net_cleanup_program waits for them, and so does the process.
SignalBlocks == /\ Running /\ mode \in {"serve", "stuck"}
                /\ cursor < program_count
                /\ handler' = "blocked"
                /\ programs' = [k \in Indices |-> IF k < cursor THEN Null ELSE programs[k]]
                /\ UNCHANGED <<mode, program_count, fresh, mappings, history, has_machine, taken,
                               cleaning, cursor, given, misuse, interrupted>>

\* Another process binds or releases a port.
OtherProcess == /\ \E p \in Ports \ (Bound \cup {fresh}) :
                     taken' = IF p \in taken THEN taken \ {p} ELSE taken \cup {p}
                /\ UNCHANGED <<mode, table, fresh, mappings, history, has_machine, cleaning, cursor,
                               signalling, given>>

Next == \/ StartNetwork \/ CmdInit \/ CmdList \/ StopNetwork \/ CmdQuit
        \/ StoreProgram \/ ConfigNetworkStart \/ ConfigEnd \/ RunProgram \/ RunBlocks
        \/ \E h, c \in ServicePorts : AddPortMapping(h, c)
        \/ CleanProgram \/ FreeProgram \/ NextProgram \/ StopEnd \/ CleanupEnd
        \/ Signal \/ SignalBlocks \/ OtherProcess

Spec == Init /\ [][Next]_vars

\* The event loop goes on until net_run does not return.
FairSpec == Spec /\ WF_vars(RunProgram \/ RunBlocks)

----------------------------------------------------------------------------
(* Properties *)

(* No listening socket is lost: every program is found by the loops over   *)
(* program_count entries, no two share a port, and after the clean-up none *)
(* of the table listens.  (A program that a signal catches between         *)
(* net_init_program and its entry into the table, fresh, is closed by the  *)
(* end of the process only.)                                               *)
NoProgramLost ==
  /\ \A k \in Indices : programs[k] # Null => k < program_count
  /\ \A j, k \in Indices : programs[j].status = "live" /\ programs[k].status = "live"
                           /\ programs[j].socket = programs[k].socket => j = k
  /\ fresh # 0 => fresh \notin Bound
  /\ mode = "exited" => Bound = {}

(* add_port_mapping keeps a mapping only together with its network         *)
(* program, made or already in the table, and no port, host or container,  *)
(* is used by two mappings.                                                *)
MappingsServed ==
  /\ mode = "embed" => Len(mappings) = program_count + (IF fresh = 0 THEN 0 ELSE 1)
  /\ \A j, k \in 1 .. Len(mappings) : j # k =>
       {mappings[j].host, mappings[j].container}
         \cap {mappings[k].host, mappings[k].container} = {}

(* A signal that arrives outside the loop of stop_network or               *)
(* cleanup_runtime finds no program closed or freed before.                *)
HandlerSafe == misuse => interrupted

(* The event loop comes to every program again and again, as long as       *)
(* net_run returns and no signal arrives: none is left out of the round.   *)
EveryProgramRuns ==
  \A k \in Indices :
    (mode = "serve" /\ k < program_count) ~> (cursor = k \/ mode # "serve" \/ ~Running)
=============================================================================

------------------------------ MODULE Network ------------------------------
(***************************************************************************)
(* The network program of src/src/network.c: a listening endpoint and a    *)
(* table of clients, served by net_run from the non-interactive loop of    *)
(* src/src/main.c, and cleaned up by its signal handler.                   *)
(*                                                                         *)
(* There is one thread.  A step ends where net_run takes or releases       *)
(* clients_lock or a client's lock, calls into the kernel, or returns; a   *)
(* signal may arrive between any two steps, and its handler runs on the    *)
(* same thread.  pthread mutexes are not recursive by default; the         *)
(* CRITICAL_SECTIONs of polycall_pthread.h on Windows are.                 *)
(***************************************************************************)
EXTENDS Naturals, FiniteSets

CONSTANTS MaxClients,   \* NET_MAX_CLIENTS
          MaxFd,        \* bound on the descriptors of the process
          Peers,        \* remote processes
          MaxData       \* bound on the packets in flight from a peer

ASSUME NetAssumption == /\ MaxClients \in Nat \ {0}
                        /\ MaxFd \in Nat \ {0}
                        /\ MaxData \in Nat
                        /\ Peers \cap {"free", "listen"} = {}

Clients == 0 .. MaxClients - 1
Fds == 1 .. MaxFd

VARIABLES
  build,          \* "posix" or "windows"; it never changes
  fds,            \* what each descriptor of the process is open on
  listener,       \* endpoints[0].socket_fd, or 0 when there are no endpoints
  running,        \* program->running
  is_active, socket_fd,         \* the client table
  clients_lock, lock,           \* how often each mutex is held by the thread
  pc,             \* where the thread is in net_run
  readfds,        \* the fd_set of the current net_run
  new_socket,     \* the descriptor just accepted, or 0
  i,              \* the client the loop is at
  handler,        \* "none"; the signal handler "entered" or "exited"; or the
                  \* process was "killed" by a signal it does not handle
  peer, inbox     \* each peer's connection, and its packets not yet received

client_table == <<is_active, socket_fd>>
locks == <<clients_lock, lock>>
local == <<readfds, new_socket, i>>
peers == <<peer, inbox>>
vars == <<build, fds, listener, running, client_table, locks, pc, local, handler, peers>>

----------------------------------------------------------------------------
(* Helpers *)

\* The thread itself runs, not the signal handler.
Thread(at) == handler = "none" /\ pc = at

FreeFds == {f \in Fds : fds[f] = "free"}
\* The kernel hands out the lowest free descriptor.
LowestFd == CHOOSE f \in FreeFds : \A g \in FreeFds : f <= g

\* A connection in the backlog, whose peer may have left already.
Pending == {"waiting", "left"}

\* select() reports a descriptor that has a connection, data or an end of file.
Ready(f) == IF fds[f] = "listen" THEN \E p \in Peers : peer[p] \in Pending
            ELSE fds[f] \in Peers /\ (inbox[fds[f]] > 0 \/ peer[fds[f]] = "hung")

\* pthread_mutex_lock returns when the mutex is free or it is recursive.
MayLock(depth) == depth = 0 \/ build = "windows"

\* Mutant: the loop over the clients stops one short.
WatchedButLast == {listener} \cup {socket_fd[c] : c \in {d \in Clients : is_active[d] /\ d # MaxClients - 1}}

\* The descriptors net_run gives to select.
Watched == {listener} \cup {socket_fd[c] : c \in {d \in Clients : is_active[d] /\ socket_fd[d] > 0}}

\* close() on a client's descriptor: the connection ends.
Closed(f) == [fds EXCEPT ![f] = "free"]
Dropped(f) == /\ peer' = [peer EXCEPT ![fds[f]] = "away"]
              /\ inbox' = [inbox EXCEPT ![fds[f]] = 0]

\* Mutant: net_remove_client frees the slot and forgets to close.
SlotsFreed(f) == {}

\* The clients whose socket net_remove_client closes.
SlotsOf(f) == {c \in Clients : is_active[c] /\ socket_fd[c] = f}

SlotsHolding(f) == {c \in Clients : is_active[c] /\ socket_fd[c] = f}

----------------------------------------------------------------------------
Init == /\ build \in {"posix", "windows"}
        /\ fds = [f \in Fds |-> "free"]
        /\ listener = 0
        /\ running = FALSE
        /\ is_active = [c \in Clients |-> FALSE]
        /\ socket_fd = [c \in Clients |-> 0]
        /\ clients_lock = 0
        /\ lock = [c \in Clients |-> 0]
        /\ pc = "start"
        /\ readfds = {}
        /\ new_socket = 0
        /\ i = 0
        /\ handler = "none"
        /\ peer = [p \in Peers |-> "away"]
        /\ inbox = [p \in Peers |-> 0]

\* net_init: socket, bind and listen succeed; on any failure the socket is closed.
NetInit == /\ FreeFds # {}
           /\ listener' = LowestFd
           /\ fds' = [fds EXCEPT ![LowestFd] = "listen"]

\* net_init_program: net_init succeeds, or the endpoints are freed again and the
\* caller frees the program.
InitProgram ==
  /\ Thread("start")
  /\ running' = TRUE
  /\ \/ NetInit /\ pc' = "loop"
     \/ /\ pc' = "failed"
        /\ UNCHANGED <<fds, listener>>
  /\ UNCHANGED <<client_table, locks, local, handler, peers>>

\* net_run up to clients_lock
RunBegin ==
  /\ Thread("loop")
  /\ running
  /\ listener > 0
  /\ MayLock(clients_lock)
  /\ clients_lock' = clients_lock + 1
  /\ pc' = "watch"
  /\ UNCHANGED <<fds, listener, running, client_table, lock, local, handler, peers>>

\* "Add active clients"
Watch ==
  /\ Thread("watch")
  /\ readfds' = Watched
  /\ clients_lock' = clients_lock - 1
  /\ pc' = "select"
  /\ UNCHANGED <<fds, listener, running, client_table, lock, new_socket, i, handler, peers>>

\* select() returns; after a timeout the set is empty.
SelectReturns ==
  /\ Thread("select")
  /\ readfds' = {f \in readfds : Ready(f)}
  /\ pc' = "accept"
  /\ UNCHANGED <<fds, listener, running, client_table, locks, new_socket, i, handler, peers>>

\* select() fails, and net_run returns.
SelectFails ==
  /\ Thread("select")
  /\ pc' = "loop"
  /\ UNCHANGED <<fds, listener, running, client_table, locks, local, handler, peers>>

\* accept() succeeds.
AcceptClient ==
  /\ Thread("accept")
  /\ listener \in readfds /\ FreeFds # {}
  /\ \E p \in Peers :
       /\ peer[p] \in Pending
       /\ fds' = [fds EXCEPT ![LowestFd] = p]
       /\ peer' = [peer EXCEPT ![p] = IF @ = "left" THEN "hung" ELSE "open"]
  /\ new_socket' = LowestFd
  /\ pc' = "nonblocking"
  /\ UNCHANGED <<listener, running, client_table, locks, readfds, i, handler, inbox>>

\* No connection, or accept() fails: it finds no descriptor or no memory, or
\* the peer aborted.
AcceptNothing ==
  /\ Thread("accept")
  /\ \/ UNCHANGED peers
     \/ /\ listener \in readfds
        /\ \E p \in Peers : /\ peer[p] = "left"
                            /\ peer' = [peer EXCEPT ![p] = "away"]
                            /\ inbox' = [inbox EXCEPT ![p] = 0]
  /\ pc' = "scan"
  /\ UNCHANGED <<fds, listener, running, client_table, locks, local, handler>>

SetNonblocking ==
  /\ Thread("nonblocking")
  /\ pc' = "add"
  /\ UNCHANGED <<fds, listener, running, client_table, locks, local, handler, peers>>

\* The socket is closed, and net_run returns.
SetNonblockingFails ==
  /\ Thread("nonblocking")
  /\ fds' = Closed(new_socket)
  /\ Dropped(new_socket)
  /\ new_socket' = 0
  /\ pc' = "loop"
  /\ UNCHANGED <<listener, running, client_table, locks, readfds, i, handler>>

\* net_add_client takes clients_lock ...
AddBegin ==
  /\ Thread("add")
  /\ MayLock(clients_lock)
  /\ clients_lock' = clients_lock + 1
  /\ pc' = "adding"
  /\ UNCHANGED <<fds, listener, running, client_table, lock, local, handler, peers>>

\* Mutant: a slot counts as free when its socket is not ready to read.
FreeWhenQuiet == {c \in Clients : ~is_active[c] \/ socket_fd[c] \notin readfds}

\* The slots net_add_client may use.
FreeSlots == {c \in Clients : ~is_active[c]}

\* ... and fills the first free slot; net_run closes the socket if there is none.
AddEnd ==
  /\ Thread("adding")
  /\ clients_lock' = clients_lock - 1
  /\ pc' = "scan"
  /\ new_socket' = 0
  /\ \/ /\ FreeSlots # {}
        /\ LET c == CHOOSE d \in FreeSlots : \A e \in FreeSlots : d <= e
           IN /\ is_active' = [is_active EXCEPT ![c] = TRUE]
              /\ socket_fd' = [socket_fd EXCEPT ![c] = new_socket]
        /\ UNCHANGED <<fds, peers>>
     \/ /\ FreeSlots = {}
        /\ fds' = Closed(new_socket)
        /\ Dropped(new_socket)
        /\ UNCHANGED client_table
  /\ UNCHANGED <<listener, running, lock, readfds, i, handler>>

\* "Handle client data": clients_lock is taken for the whole loop.
ScanBegin ==
  /\ Thread("scan")
  /\ MayLock(clients_lock)
  /\ clients_lock' = clients_lock + 1
  /\ i' = 0
  /\ pc' = "client"
  /\ UNCHANGED <<fds, listener, running, client_table, lock, readfds, new_socket, handler, peers>>

\* One iteration up to the recv(); the client's lock stays held for what follows.
Receive ==
  /\ Thread("client")
  /\ i \in Clients
  /\ MayLock(lock[i])
  /\ LET p == fds[socket_fd[i]]
     IN \/ /\ ~(is_active[i] /\ socket_fd[i] \in readfds)
           /\ i' = i + 1
           /\ UNCHANGED <<lock, pc, inbox>>
        \/ /\ is_active[i] /\ socket_fd[i] \in readfds
           /\ lock' = [lock EXCEPT ![i] = @ + 1]
           /\ \/ inbox[p] > 0 /\ inbox' = [inbox EXCEPT ![p] = @ - 1] /\ pc' = "echo"
              \/ inbox[p] = 0 /\ pc' = "remove" /\ UNCHANGED inbox
           /\ UNCHANGED i
  /\ UNCHANGED <<fds, listener, running, client_table, clients_lock, readfds, new_socket, handler, peer>>

\* on_network_receive sends the packet back: net_send returns ...
EchoReturns ==
  /\ Thread("echo")
  /\ lock' = [lock EXCEPT ![i] = @ - 1]
  /\ i' = i + 1
  /\ pc' = "client"
  /\ UNCHANGED <<fds, listener, running, client_table, clients_lock, readfds, new_socket, handler, peers>>

\* ... or never does: the endpoint on net_run's stack has a lock nobody
\* initialised, and what locking it does is undefined.
EchoBlocks ==
  /\ Thread("echo")
  /\ pc' = "stuck"
  /\ UNCHANGED <<fds, listener, running, client_table, locks, local, handler, peers>>

\* ... or it writes to a connection the peer has closed: SIGPIPE is not ignored.
EchoKills ==
  /\ Thread("echo")
  /\ build = "posix"
  /\ peer[fds[socket_fd[i]]] = "hung"
  /\ handler' = "killed"
  /\ UNCHANGED <<fds, listener, running, client_table, locks, pc, local, peers>>

\* net_remove_client, called with clients_lock and lock[i] held: it needs every
\* mutex, among them those two.
Remove ==
  /\ Thread("remove")
  /\ MayLock(clients_lock)
  /\ \A c \in Clients : MayLock(lock[c])
  /\ LET f == socket_fd[i]
     IN /\ fds' = [g \in Fds |-> IF g \in {socket_fd[c] : c \in SlotsOf(f)} THEN "free" ELSE fds[g]]
        /\ Dropped(f)
        /\ is_active' = [c \in Clients |-> is_active[c] /\ socket_fd[c] # f]
        /\ socket_fd' = [c \in Clients |-> IF is_active[c] /\ socket_fd[c] = f THEN 0 ELSE socket_fd[c]]
  /\ lock' = [lock EXCEPT ![i] = @ - 1]
  /\ i' = i + 1
  /\ pc' = "client"
  /\ UNCHANGED <<listener, running, clients_lock, readfds, new_socket, handler>>

\* Mutant: clients_lock is not released.
RunEndKeepsLock ==
  /\ Thread("client")
  /\ i = MaxClients
  /\ readfds' = {}
  /\ pc' = "loop"
  /\ UNCHANGED <<fds, listener, running, client_table, locks, new_socket, i, handler, peers>>

\* net_run returns; the main loop calls it again.
RunEnd ==
  /\ Thread("client")
  /\ i = MaxClients
  /\ clients_lock' = clients_lock - 1
  /\ readfds' = {}
  /\ pc' = "loop"
  /\ UNCHANGED <<fds, listener, running, client_table, lock, new_socket, i, handler, peers>>

----------------------------------------------------------------------------
(* The signal handler *)

\* SIGINT or SIGTERM: signal_handler calls cleanup_and_exit.  (On Windows the
\* handler would run on a thread of its own, which is not modelled.)
Signal ==
  /\ build = "posix"
  /\ handler = "none"
  /\ handler' = "entered"
  /\ UNCHANGED <<fds, listener, running, client_table, locks, pc, local, peers>>

\* Mutant: clients_lock is taken twice.
CleanupLocksTwice == MayLock(clients_lock + 1) /\ UNCHANGED <<fds, listener, running, client_table, peers>>

\* net_cleanup_program: net_close on the endpoint, net_cleanup_client_state on
\* every client.
CleanupProgram ==
  LET mine == ({listener} \cup {socket_fd[c] : c \in Clients}) \cap Fds
      lost == {p \in Peers : \E f \in mine : fds[f] = p}
  IN /\ MayLock(clients_lock)
     /\ \A c \in Clients : MayLock(lock[c])
     /\ running' = FALSE
     /\ listener' = 0
     /\ fds' = [f \in Fds |-> IF f \in mine THEN "free" ELSE fds[f]]
     /\ peer' = [p \in Peers |-> IF p \in lost THEN "away" ELSE peer[p]]
     /\ inbox' = [p \in Peers |-> IF p \in lost THEN 0 ELSE inbox[p]]
     /\ is_active' = [c \in Clients |-> FALSE]
     /\ socket_fd' = [c \in Clients |-> 0]

\* cleanup_and_exit: cleanup_runtime cleans up the program main has kept.
HandlerCleanup ==
  /\ handler = "entered"
  /\ \/ /\ pc \in {"start", "failed"}
        /\ UNCHANGED <<fds, listener, running, client_table, peers>>
     \/ /\ pc \notin {"start", "failed"}
        /\ CleanupProgram
  /\ handler' = "exited"
  /\ UNCHANGED <<locks, pc, local>>

----------------------------------------------------------------------------
(* The peers and the kernel, in any order and at any time *)

Connect(p) == /\ peer[p] = "away" /\ listener > 0
              /\ peer' = [peer EXCEPT ![p] = "waiting"]
              /\ UNCHANGED inbox

SendData(p) == /\ peer[p] \in {"waiting", "open"} /\ inbox[p] < MaxData
               /\ inbox' = [inbox EXCEPT ![p] = @ + 1]
               /\ UNCHANGED peer

\* A peer hangs up, before or after its connection is accepted.
HangUp(p) == /\ \/ peer[p] = "open" /\ peer' = [peer EXCEPT ![p] = "hung"]
                \/ peer[p] = "waiting" /\ peer' = [peer EXCEPT ![p] = "left"]
             /\ UNCHANGED inbox

PeerStep == /\ \E p \in Peers : Connect(p) \/ SendData(p) \/ HangUp(p)
            /\ UNCHANGED <<fds, listener, running, client_table, locks, pc, local, handler>>

----------------------------------------------------------------------------
ThreadStep == \/ InitProgram
              \/ RunBegin
              \/ Watch
              \/ SelectReturns
              \/ SelectFails
              \/ AcceptClient
              \/ AcceptNothing
              \/ SetNonblocking
              \/ SetNonblockingFails
              \/ AddBegin
              \/ AddEnd
              \/ ScanBegin
              \/ Receive
              \/ EchoReturns
              \/ EchoBlocks
              \/ EchoKills
              \/ Remove
              \/ RunEnd

Next == /\ ThreadStep \/ Signal \/ HandlerCleanup \/ PeerStep
        /\ UNCHANGED build

(* The thread and the handler run on; select() and set_nonblocking() do    *)
(* not fail for ever.                                                      *)
Fairness == /\ WF_vars(ThreadStep /\ UNCHANGED build)
            /\ WF_vars(HandlerCleanup /\ UNCHANGED build)
            /\ SF_vars(SelectReturns /\ UNCHANGED build)
            /\ SF_vars(SetNonblocking /\ UNCHANGED build)

Spec == Init /\ [][Next]_vars
FairSpec == Spec /\ Fairness

----------------------------------------------------------------------------
(* Properties *)

(* No descriptor leaks and none is shared: a connection is open exactly    *)
(* while one active client, or the accept in progress in net_run, owns its *)
(* descriptor, and a client slot that is not active names none.            *)
DescriptorsOwned ==
  /\ \A f \in Fds : /\ fds[f] = "listen" <=> f = listener
                    /\ fds[f] \in Peers =>
                         Cardinality(SlotsHolding(f)) + (IF new_socket = f THEN 1 ELSE 0) = 1
  /\ \A c \in Clients : /\ is_active[c] => socket_fd[c] # 0 /\ fds[socket_fd[c]] \in Peers
                        /\ ~is_active[c] => socket_fd[c] = 0

(* Whichever way net_run returns, it has released every mutex.             *)
LocksReleased == pc = "loop" => clients_lock = 0 /\ \A c \in Clients : lock[c] = 0

\* The thread waits for itself, for a lock that is none, or for nothing any more.
Stopped == \/ build = "posix" /\ pc = "remove"
           \/ pc = "stuck"
           \/ handler # "none"

HangupHandled ==
  \A c \in Clients : (is_active[c] /\ peer[fds[socket_fd[c]]] = "hung") ~> (~is_active[c] \/ Stopped)

DataReceived ==
  \A c \in Clients :
    (is_active[c] /\ inbox[fds[socket_fd[c]]] > 0)
      ~> (~is_active[c] \/ inbox[fds[socket_fd[c]]] < MaxData \/ Stopped)

(* No client starves: in either build a client whose peer has hung up is   *)
(* removed from the table by net_run and what a connected client sends is  *)
(* received, however many others are served or refused, unless the thread  *)
(* stops for good where net_remove_client locks a mutex that is held or in *)
(* net_send on the endpoint whose lock was never initialised, or the       *)
(* process ends.                                                           *)
ServedUntilStopped == HangupHandled /\ DataReceived

(* A signal that arrives while the thread holds no mutex ends the process, *)
(* after cleanup_runtime.                                                  *)
SignalExits == (handler = "entered" /\ clients_lock = 0) ~> handler = "exited"

(* What the comment in net_run says of a client that hung up: "Handle      *)
(* disconnection", in every build, as long as no signal arrives.           *)
DisconnectionHandled ==
  \A c \in Clients :
    (is_active[c] /\ peer[fds[socket_fd[c]]] = "hung") ~> (~is_active[c] \/ handler # "none")
=============================================================================

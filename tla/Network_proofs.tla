--------------------------- MODULE Network_proofs ---------------------------
(***************************************************************************)
(* Proofs about the network program, for any number of client slots,       *)
(* descriptors, peers and packets, in both builds.                         *)
(***************************************************************************)
EXTENDS Network, FiniteSetTheorems, WellFoundedInduction, TLAPS

----------------------------------------------------------------------------
(* The inductive invariant *)

TypeInv ==
  /\ fds \in [Fds -> Peers \cup {"free", "listen"}]
  /\ listener \in Fds \cup {0}
  /\ new_socket \in Fds \cup {0}
  /\ is_active \in [Clients -> BOOLEAN]
  /\ socket_fd \in [Clients -> Fds \cup {0}]
  /\ clients_lock \in Nat
  /\ lock \in [Clients -> Nat]
  /\ i \in 0 .. MaxClients

\* Which mutexes the thread holds follows from where it is.
AtClient == {"remove", "echo", "stuck"}

LockInv ==
  /\ clients_lock = IF pc \in {"watch", "adding", "client"} \cup AtClient THEN 1 ELSE 0
  /\ \A c \in Clients : lock[c] = IF pc \in AtClient /\ c = i THEN 1 ELSE 0
  /\ pc \in AtClient => i \in Clients

\* Only net_init makes the listening socket, and only net_run an accepted one.
ListenInv == /\ \A f \in Fds : fds[f] = "listen" <=> f = listener
             /\ pc = "start" => listener = 0
AcceptInv == new_socket # 0 <=> pc \in {"nonblocking", "add", "adding"}

\* An open connection has an owner, and never two.
OwnerInv ==
  /\ \A c \in Clients : is_active[c] => socket_fd[c] \in Fds /\ fds[socket_fd[c]] \in Peers
  /\ \A c \in Clients : ~is_active[c] => socket_fd[c] = 0
  /\ \A c, d \in Clients : is_active[c] /\ is_active[d] /\ socket_fd[c] = socket_fd[d] => c = d
  /\ new_socket # 0 => /\ fds[new_socket] \in Peers
                       /\ \A c \in Clients : is_active[c] => socket_fd[c] # new_socket
  /\ \A f \in Fds : fds[f] \in Peers =>
       f = new_socket \/ \E c \in Clients : is_active[c] /\ socket_fd[c] = f

IndInv == TypeInv /\ LockInv /\ ListenInv /\ AcceptInv /\ OwnerInv

----------------------------------------------------------------------------
(* The searches for the lowest descriptor and the first slot *)

LEMMA Least ==
  ASSUME NEW T, T \subseteq Nat, T # {}
  PROVE  \E m \in T : \A n \in T : m <= n
<1>1. PICK m \in T : \A n \in T : ~(<<n, m>> \in OpToRel(<, Nat))
  BY NatLessThanWellFounded, WFMin
<1>2. \A n \in T : ~(n < m)
  BY <1>1 DEF OpToRel
<1> QED
  BY <1>2

LEMMA LowestFdFree ==
  ASSUME TypeInv, FreeFds # {}
  PROVE  LowestFd \in Fds /\ fds[LowestFd] = "free"
<1>1. FreeFds \subseteq Nat
  BY NetAssumption DEF FreeFds, Fds
<1>2. \E m \in FreeFds : \A n \in FreeFds : m <= n
  BY <1>1, Least
<1>3. LowestFd \in FreeFds
  BY <1>2 DEF LowestFd
<1> QED
  BY <1>3 DEF FreeFds

LEMMA Constants == /\ 0 \notin Fds /\ "free" \notin Peers /\ "listen" \notin Peers
                   /\ MaxClients \in Nat
BY NetAssumption DEF Fds

----------------------------------------------------------------------------
(* Steps that leave descriptors and clients alone *)

sockets == <<fds, listener, new_socket, is_active, socket_fd>>

LEMMA SocketsKept ==
  ASSUME IndInv, UNCHANGED sockets, pc' # "start" \/ pc' = pc,
         new_socket # 0 <=> pc' \in {"nonblocking", "add", "adding"}
  PROVE  ListenInv' /\ AcceptInv' /\ OwnerInv'
BY DEF IndInv, sockets, ListenInv, AcceptInv, OwnerInv

LEMMA InitHolds ==
  ASSUME Init
  PROVE  IndInv
<1> USE Constants DEF Init
<1>1. TypeInv
  BY DEF TypeInv
<1>2. LockInv /\ AcceptInv
  BY DEF LockInv, AtClient, AcceptInv
<1>3. ListenInv /\ OwnerInv
  BY DEF ListenInv, OwnerInv
<1> QED
  BY <1>1, <1>2, <1>3 DEF IndInv

\* clients_lock is taken where it was free.
LEMMA LockTakenStep ==
  ASSUME IndInv, RunBegin \/ AddBegin \/ ScanBegin
  PROVE  IndInv'
<1>1. /\ UNCHANGED sockets /\ lock' = lock /\ clients_lock' = clients_lock + 1
      /\ pc' \in {"watch", "adding", "client"}
      /\ pc \in {"loop", "add", "scan"} /\ i' \in {i, 0}
      /\ pc = "add" <=> pc' = "adding"
  BY DEF RunBegin, AddBegin, ScanBegin, Thread, client_table, local, sockets
<1>2. TypeInv'
  BY <1>1, Constants DEF IndInv, TypeInv, sockets
<1>3. LockInv'
  BY <1>1 DEF IndInv, LockInv, AtClient
<1>4. ListenInv' /\ AcceptInv' /\ OwnerInv'
  BY <1>1, SocketsKept DEF IndInv, AcceptInv
<1> QED
  BY <1>2, <1>3, <1>4 DEF IndInv

\* clients_lock is released.
LEMMA LockReleasedStep ==
  ASSUME IndInv, Watch \/ RunEnd
  PROVE  IndInv'
<1>1. /\ UNCHANGED sockets /\ lock' = lock /\ clients_lock' = clients_lock - 1
      /\ pc' \in {"select", "loop"}
      /\ pc \in {"watch", "client"} /\ i' = i
  BY DEF Watch, RunEnd, Thread, client_table, local, sockets
<1>2. LockInv' /\ clients_lock' = 0
  BY <1>1 DEF IndInv, LockInv, AtClient
<1>3. TypeInv'
  BY <1>1, <1>2 DEF IndInv, TypeInv, sockets
<1>4. ListenInv' /\ AcceptInv' /\ OwnerInv'
  BY <1>1, SocketsKept DEF IndInv, AcceptInv
<1> QED
  BY <1>2, <1>3, <1>4 DEF IndInv

\* Steps between two locks.
LEMMA BetweenLocksStep ==
  ASSUME IndInv, SelectReturns \/ SelectFails \/ AcceptNothing \/ SetNonblocking
  PROVE  IndInv'
<1>1. /\ UNCHANGED sockets /\ UNCHANGED locks
      /\ pc \in {"select", "accept", "nonblocking"} /\ i' = i
      /\ pc' \in {"accept", "loop", "scan", "add"}
      /\ pc = "nonblocking" <=> pc' = "add"
  BY DEF SelectReturns, SelectFails, AcceptNothing, SetNonblocking, Thread, client_table, local,
         sockets
<1>2. TypeInv'
  BY <1>1 DEF IndInv, TypeInv, sockets, locks
<1>3. LockInv'
  BY <1>1 DEF IndInv, LockInv, AtClient, locks
<1>4. ListenInv' /\ AcceptInv' /\ OwnerInv'
  BY <1>1, SocketsKept DEF IndInv, AcceptInv
<1> QED
  BY <1>2, <1>3, <1>4 DEF IndInv

\* An iteration of the client loop keeps the client's lock to echo or to remove.
LEMMA ReceiveStep ==
  ASSUME IndInv, Receive
  PROVE  IndInv'
<1>1. /\ UNCHANGED sockets /\ clients_lock' = clients_lock
      /\ pc = "client" /\ i \in Clients
      /\ \/ lock' = lock /\ pc' = pc /\ i' = i + 1
         \/ lock' = [lock EXCEPT ![i] = @ + 1] /\ pc' \in {"remove", "echo"} /\ i' = i
  BY DEF Receive, Thread, client_table, sockets
<1>2. TypeInv'
  <2>1. lock' \in [Clients -> Nat] /\ clients_lock' \in Nat
    BY <1>1 DEF IndInv, TypeInv
  <2>2. i' \in 0 .. MaxClients
    BY <1>1, Constants DEF Clients
  <2> QED
    BY <1>1, <2>1, <2>2 DEF IndInv, TypeInv, sockets
<1>3. LockInv'
  BY <1>1 DEF IndInv, LockInv, AtClient, TypeInv
<1>4. ListenInv' /\ AcceptInv' /\ OwnerInv'
  BY <1>1, SocketsKept DEF IndInv, AcceptInv
<1> QED
  BY <1>2, <1>3, <1>4 DEF IndInv

\* net_send returns, and the client's lock is released.
LEMMA EchoReturnsStep ==
  ASSUME IndInv, EchoReturns
  PROVE  IndInv'
<1>1. /\ UNCHANGED sockets /\ clients_lock' = clients_lock
      /\ pc = "echo" /\ pc' = "client" /\ i' = i + 1
      /\ lock' = [lock EXCEPT ![i] = @ - 1]
  BY DEF EchoReturns, Thread, client_table, sockets
<1>2. i \in Clients /\ lock[i] = 1
  BY <1>1 DEF IndInv, LockInv, AtClient
<1>3. TypeInv'
  <2>1. lock' \in [Clients -> Nat] /\ clients_lock' \in Nat
    BY <1>1, <1>2 DEF IndInv, TypeInv
  <2>2. i' \in 0 .. MaxClients
    BY <1>1, <1>2, Constants DEF Clients
  <2> QED
    BY <1>1, <2>1, <2>2 DEF IndInv, TypeInv, sockets
<1>4. LockInv'
  <2>1. \A c \in Clients : lock'[c] = IF c = i THEN 0 ELSE lock[c]
    BY <1>1, <1>2 DEF IndInv, TypeInv
  <2> QED
    BY <1>1, <2>1 DEF IndInv, LockInv, AtClient
<1>5. ListenInv' /\ AcceptInv' /\ OwnerInv'
  BY <1>1, SocketsKept DEF IndInv, AcceptInv
<1> QED
  BY <1>3, <1>4, <1>5 DEF IndInv

\* net_send never returns or kills the process, the peers, the arrival of a
\* signal, and stuttering.
LEMMA OutsideStep ==
  ASSUME IndInv, EchoBlocks \/ EchoKills \/ PeerStep \/ Signal \/ UNCHANGED vars
  PROVE  IndInv'
<1>1. /\ UNCHANGED sockets /\ UNCHANGED locks /\ i' = i
      /\ \/ pc' = pc
         \/ pc = "echo" /\ pc' = "stuck"
  <2>1. CASE EchoBlocks \/ EchoKills
    BY <2>1 DEF EchoBlocks, EchoKills, Thread, locks, client_table, local, sockets
  <2>2. CASE PeerStep \/ Signal \/ UNCHANGED vars
    BY <2>2 DEF PeerStep, Signal, vars, locks, client_table, local, sockets
  <2> QED
    BY <2>1, <2>2
<1>2. TypeInv'
  BY <1>1 DEF IndInv, TypeInv, sockets, locks
<1>3. LockInv'
  BY <1>1 DEF IndInv, LockInv, AtClient, locks
<1>4. ListenInv' /\ AcceptInv' /\ OwnerInv'
  BY <1>1, SocketsKept DEF IndInv, AcceptInv
<1> QED
  BY <1>2, <1>3, <1>4 DEF IndInv

----------------------------------------------------------------------------
(* Steps that open or close descriptors *)

\* net_init listens on a free descriptor, or fails.
LEMMA InitProgramStep ==
  ASSUME IndInv, InitProgram
  PROVE  IndInv'
<1>1. /\ pc = "start" /\ UNCHANGED <<is_active, socket_fd, new_socket, i>> /\ UNCHANGED locks
      /\ pc' \in {"loop", "failed"}
      /\ NetInit \/ UNCHANGED <<fds, listener>>
  BY DEF InitProgram, Thread, client_table, local
<1>2. listener = 0 /\ new_socket = 0
  BY <1>1 DEF IndInv, ListenInv, AcceptInv
<1>3. LockInv'
  BY <1>1 DEF IndInv, LockInv, AtClient, locks
<1>4. CASE UNCHANGED <<fds, listener>>
  <2>1. UNCHANGED sockets
    BY <1>1, <1>4 DEF sockets
  <2>2. TypeInv'
    BY <1>1, <1>4 DEF IndInv, TypeInv, locks
  <2> QED
    BY <1>1, <1>2, <1>3, <2>1, <2>2, SocketsKept DEF IndInv
<1>5. CASE NetInit
  <2>1. /\ LowestFd \in Fds /\ fds[LowestFd] = "free"
        /\ listener' = LowestFd /\ fds' = [fds EXCEPT ![LowestFd] = "listen"]
    BY <1>5, LowestFdFree DEF IndInv, NetInit
  <2>2. \A f \in Fds : fds'[f] = IF f = LowestFd THEN "listen" ELSE fds[f]
    BY <2>1 DEF IndInv, TypeInv
  <2>3. TypeInv'
    BY <1>1, <2>1 DEF IndInv, TypeInv, locks
  <2>4. ListenInv'
    BY <1>1, <1>2, <2>1, <2>2, Constants DEF IndInv, ListenInv
  <2>5. AcceptInv'
    BY <1>1, <1>2 DEF AcceptInv
  <2>6. OwnerInv'
    BY <1>1, <1>2, <2>1, <2>2, Constants DEF IndInv, OwnerInv
  <2> QED
    BY <1>3, <2>3, <2>4, <2>5, <2>6 DEF IndInv
<1> QED
  BY <1>1, <1>4, <1>5

\* accept() opens a free descriptor, which net_run owns.
LEMMA AcceptStep ==
  ASSUME IndInv, AcceptClient
  PROVE  IndInv'
<1>1. /\ pc = "accept" /\ UNCHANGED <<is_active, socket_fd, listener, i>> /\ UNCHANGED locks
      /\ pc' = "nonblocking" /\ FreeFds # {} /\ new_socket' = LowestFd
      /\ \E p \in Peers : fds' = [fds EXCEPT ![LowestFd] = p]
  BY DEF AcceptClient, Thread, client_table
<1>2. PICK p \in Peers : fds' = [fds EXCEPT ![LowestFd] = p]
  BY <1>1
<1>3. LowestFd \in Fds /\ fds[LowestFd] = "free" /\ new_socket = 0
  BY <1>1, LowestFdFree DEF IndInv, AcceptInv
<1>4. \A f \in Fds : fds'[f] = IF f = LowestFd THEN p ELSE fds[f]
  BY <1>2, <1>3 DEF IndInv, TypeInv
<1>5. TypeInv'
  BY <1>1, <1>2, <1>3 DEF IndInv, TypeInv, locks
<1>6. LockInv'
  BY <1>1 DEF IndInv, LockInv, AtClient, locks
<1>7. ListenInv' /\ AcceptInv'
  BY <1>1, <1>3, <1>4, Constants DEF IndInv, ListenInv, AcceptInv
<1>8. OwnerInv'
  BY <1>1, <1>3, <1>4, Constants DEF IndInv, OwnerInv
<1> QED
  BY <1>5, <1>6, <1>7, <1>8 DEF IndInv

\* net_run closes the descriptor it owns.
LEMMA CloseNew ==
  ASSUME IndInv, UNCHANGED <<is_active, socket_fd, listener>>, pc' # "start",
         pc' \notin {"nonblocking", "add", "adding"},
         new_socket \in Fds, fds' = Closed(new_socket), new_socket' = 0
  PROVE  /\ fds' \in [Fds -> Peers \cup {"free", "listen"}]
         /\ ListenInv' /\ AcceptInv' /\ OwnerInv'
<1>1. \A f \in Fds : fds'[f] = IF f = new_socket THEN "free" ELSE fds[f]
  BY DEF IndInv, TypeInv, Closed
<1>2. fds[new_socket] \in Peers /\ new_socket # 0
  BY Constants DEF IndInv, OwnerInv
<1>3. fds' \in [Fds -> Peers \cup {"free", "listen"}]
  BY DEF IndInv, TypeInv, Closed
<1>4. ListenInv' /\ AcceptInv'
  BY <1>1, <1>2, Constants DEF IndInv, ListenInv, AcceptInv
<1>5. OwnerInv'
  BY <1>1, <1>2, Constants DEF IndInv, OwnerInv
<1> QED
  BY <1>3, <1>4, <1>5

LEMMA SetNonblockingFailsStep ==
  ASSUME IndInv, SetNonblockingFails
  PROVE  IndInv'
<1>1. /\ pc = "nonblocking" /\ pc' = "loop" /\ UNCHANGED <<is_active, socket_fd, listener, i>>
      /\ UNCHANGED locks /\ fds' = Closed(new_socket) /\ new_socket' = 0
  BY DEF SetNonblockingFails, Thread, client_table
<1>2. new_socket \in Fds
  BY <1>1 DEF IndInv, AcceptInv, TypeInv
<1>3. /\ fds' \in [Fds -> Peers \cup {"free", "listen"}]
      /\ ListenInv' /\ AcceptInv' /\ OwnerInv'
  BY <1>1, <1>2, CloseNew
<1>4. TypeInv' /\ LockInv'
  BY <1>1, <1>3 DEF IndInv, TypeInv, LockInv, AtClient, locks
<1> QED
  BY <1>3, <1>4 DEF IndInv

\* net_add_client hands the descriptor over to a slot that has none.
LEMMA AddEndStep ==
  ASSUME IndInv, AddEnd
  PROVE  IndInv'
<1>1. /\ pc = "adding" /\ pc' = "scan" /\ UNCHANGED <<listener, lock, i>>
      /\ clients_lock' = clients_lock - 1 /\ new_socket' = 0
  BY DEF AddEnd, Thread
<1>2. new_socket \in Fds /\ fds[new_socket] \in Peers
  BY <1>1, Constants DEF IndInv, AcceptInv, TypeInv, OwnerInv
<1>3. LockInv' /\ clients_lock' = 0
  BY <1>1 DEF IndInv, LockInv, AtClient
<1>4. CASE FreeSlots = {}
  <2>1. fds' = Closed(new_socket) /\ UNCHANGED <<is_active, socket_fd>>
    BY <1>4 DEF AddEnd, client_table
  <2>2. /\ fds' \in [Fds -> Peers \cup {"free", "listen"}]
        /\ ListenInv' /\ AcceptInv' /\ OwnerInv'
    BY <1>1, <1>2, <2>1, CloseNew
  <2>3. TypeInv'
    BY <1>1, <1>3, <2>1, <2>2 DEF IndInv, TypeInv
  <2> QED
    BY <1>3, <2>2, <2>3 DEF IndInv
<1>5. CASE FreeSlots # {}
  <2> DEFINE c == CHOOSE d \in FreeSlots : \A e \in FreeSlots : d <= e
  <2>1. /\ is_active' = [is_active EXCEPT ![c] = TRUE]
        /\ socket_fd' = [socket_fd EXCEPT ![c] = new_socket]
        /\ fds' = fds
    BY <1>5 DEF AddEnd
  <2>2. FreeSlots \subseteq Nat
    BY Constants DEF FreeSlots, Clients
  <2>3. \E d \in FreeSlots : \A e \in FreeSlots : d <= e
    BY <1>5, <2>2, Least
  <2>4. c \in FreeSlots
    BY <2>3
  <2>5. c \in Clients /\ ~is_active[c]
    BY <2>4 DEF FreeSlots
  <2> HIDE DEF c
  <2>6. \A d \in Clients : /\ is_active'[d] = IF d = c THEN TRUE ELSE is_active[d]
                           /\ socket_fd'[d] = IF d = c THEN new_socket ELSE socket_fd[d]
    BY <2>1, <2>5 DEF IndInv, TypeInv
  <2>7. TypeInv'
    <3>1. is_active' \in [Clients -> BOOLEAN]
      BY <2>1 DEF IndInv, TypeInv
    <3>2. socket_fd' \in [Clients -> Fds \cup {0}]
      BY <1>2, <2>1 DEF IndInv, TypeInv
    <3>3. clients_lock' \in Nat /\ new_socket' \in Fds \cup {0}
      BY <1>1, <1>3
    <3> QED
      BY <1>1, <2>1, <3>1, <3>2, <3>3 DEF IndInv, TypeInv
  <2>8. ListenInv' /\ AcceptInv'
    BY <1>1, <2>1 DEF IndInv, ListenInv, AcceptInv
  <2>9. OwnerInv'
    <3>1. ASSUME NEW d \in Clients
          PROVE  /\ is_active'[d] => socket_fd'[d] \in Fds /\ fds'[socket_fd'[d]] \in Peers
                 /\ ~is_active'[d] => socket_fd'[d] = 0
      <4>1. CASE d = c
        BY <1>2, <2>1, <2>6, <4>1
      <4>2. CASE d # c
        BY <2>1, <2>6, <4>2 DEF IndInv, OwnerInv
      <4> QED
        BY <4>1, <4>2
    <3>2. \A d, e \in Clients :
            is_active'[d] /\ is_active'[e] /\ socket_fd'[d] = socket_fd'[e] => d = e
      BY <1>2, <2>6, Constants DEF IndInv, OwnerInv
    <3>3. \A f \in Fds : fds'[f] \in Peers =>
            f = new_socket' \/ \E d \in Clients : is_active'[d] /\ socket_fd'[d] = f
      <4> SUFFICES ASSUME NEW f \in Fds, fds[f] \in Peers
                   PROVE  \E d \in Clients : is_active'[d] /\ socket_fd'[d] = f
        BY <2>1
      <4>1. CASE f = new_socket
        BY <2>5, <2>6, <4>1
      <4>2. CASE f # new_socket
        <5>1. PICK d \in Clients : is_active[d] /\ socket_fd[d] = f
          BY <4>2 DEF IndInv, OwnerInv
        <5> QED
          BY <2>5, <2>6, <5>1
      <4> QED
        BY <4>1, <4>2
    <3> QED
      BY <1>1, <3>1, <3>2, <3>3 DEF OwnerInv
  <2> QED
    BY <1>3, <2>7, <2>8, <2>9 DEF IndInv
<1> QED
  BY <1>4, <1>5

\* net_remove_client closes the descriptor and clears the slot.
LEMMA RemoveStep ==
  ASSUME IndInv, Remove
  PROVE  IndInv'
<1> DEFINE f == socket_fd[i]
<1>1. /\ pc = "remove" /\ pc' = "client" /\ UNCHANGED <<listener, clients_lock, new_socket>>
      /\ fds' = [g \in Fds |-> IF g \in {socket_fd[c] : c \in SlotsOf(f)} THEN "free" ELSE fds[g]]
      /\ is_active' = [c \in Clients |-> is_active[c] /\ socket_fd[c] # f]
      /\ socket_fd' = [c \in Clients |-> IF is_active[c] /\ socket_fd[c] = f THEN 0 ELSE socket_fd[c]]
      /\ lock' = [lock EXCEPT ![i] = @ - 1]
      /\ i' = i + 1
  BY DEF Remove, Thread
<1>2. ASSUME NEW g \in Fds
      PROVE  fds'[g] = IF g = f /\ SlotsOf(f) # {} THEN "free" ELSE fds[g]
  BY <1>1 DEF SlotsOf
<1>3. new_socket = 0
  BY <1>1 DEF IndInv, AcceptInv
<1> HIDE DEF f
<1>4. \A c \in Clients : is_active'[c] <=> is_active[c] /\ socket_fd[c] # f
  BY <1>1
<1>5. \A c \in Clients : is_active'[c] => socket_fd'[c] = socket_fd[c]
  BY <1>1
<1>6. \A c \in Clients : ~is_active'[c] => socket_fd'[c] = 0
  BY <1>1, <1>4 DEF IndInv, OwnerInv
<1>7. i \in Clients /\ lock[i] = 1
  BY <1>1 DEF IndInv, LockInv, AtClient
<1>8. TypeInv'
  <2>1. is_active' \in [Clients -> BOOLEAN]
    BY <1>1 DEF IndInv, TypeInv
  <2>2. socket_fd' \in [Clients -> Fds \cup {0}]
    BY <1>1 DEF IndInv, TypeInv
  <2>3. fds' \in [Fds -> Peers \cup {"free", "listen"}]
    BY <1>1 DEF IndInv, TypeInv
  <2>4. lock' \in [Clients -> Nat]
    BY <1>1, <1>7 DEF IndInv, TypeInv
  <2>5. i' \in 0 .. MaxClients
    BY <1>1, <1>7, Constants DEF Clients
  <2> QED
    BY <1>1, <2>1, <2>2, <2>3, <2>4, <2>5 DEF IndInv, TypeInv
<1>9. LockInv'
  <2>1. \A c \in Clients : lock'[c] = IF c = i THEN 0 ELSE lock[c]
    BY <1>1, <1>7 DEF IndInv, TypeInv
  <2> QED
    BY <1>1, <2>1 DEF IndInv, LockInv, AtClient
<1>10. SlotsOf(f) # {} => f \in Fds /\ fds[f] \in Peers
  BY DEF IndInv, OwnerInv, SlotsOf
<1>11. ListenInv' /\ AcceptInv'
  <2>1. ASSUME NEW g \in Fds
        PROVE  fds'[g] = "listen" <=> g = listener
    BY <1>2, <1>10, Constants DEF IndInv, ListenInv
  <2> QED
    BY <1>1, <1>3, <2>1 DEF ListenInv, AcceptInv
<1>12. OwnerInv'
  <2>1. \A c \in Clients : is_active'[c] =>
          socket_fd'[c] \in Fds /\ fds'[socket_fd'[c]] \in Peers
    BY <1>2, <1>4, <1>5 DEF IndInv, OwnerInv
  <2>2. \A c, d \in Clients :
          is_active'[c] /\ is_active'[d] /\ socket_fd'[c] = socket_fd'[d] => c = d
    BY <1>4, <1>5 DEF IndInv, OwnerInv
  <2>3. ASSUME NEW g \in Fds, fds'[g] \in Peers
        PROVE  \E c \in Clients : is_active'[c] /\ socket_fd'[c] = g
    <3>1. fds[g] \in Peers /\ ~(g = f /\ SlotsOf(f) # {})
      BY <1>2, <2>3, Constants
    <3>2. PICK c \in Clients : is_active[c] /\ socket_fd[c] = g
      BY <1>3, <3>1, Constants DEF IndInv, OwnerInv
    <3>3. g # f
      BY <3>1, <3>2 DEF SlotsOf
    <3> QED
      BY <1>4, <1>5, <3>2, <3>3
  <2> QED
    BY <1>1, <1>3, <1>6, <2>1, <2>2, <2>3 DEF OwnerInv
<1> QED
  BY <1>8, <1>9, <1>11, <1>12 DEF IndInv

\* net_cleanup_program closes the listener and every client; a descriptor
\* that net_run has just accepted stays with net_run, which never goes on.
LEMMA HandlerCleanupStep ==
  ASSUME IndInv, HandlerCleanup
  PROVE  IndInv'
<1>1. UNCHANGED locks /\ pc' = pc /\ UNCHANGED <<new_socket, i>>
  BY DEF HandlerCleanup, local
<1>2. CASE UNCHANGED <<fds, listener, client_table>>
  <2>1. UNCHANGED sockets
    BY <1>1, <1>2 DEF sockets, client_table
  <2>2. TypeInv' /\ LockInv'
    BY <1>1, <2>1 DEF IndInv, TypeInv, LockInv, AtClient, locks, sockets
  <2> QED
    BY <1>1, <2>1, <2>2, SocketsKept DEF IndInv, AcceptInv
<1>3. CASE CleanupProgram
  <2> DEFINE mine == ({listener} \cup {socket_fd[c] : c \in Clients}) \cap Fds
  <2>1. /\ listener' = 0
        /\ fds' = [f \in Fds |-> IF f \in mine THEN "free" ELSE fds[f]]
        /\ is_active' = [c \in Clients |-> FALSE]
        /\ socket_fd' = [c \in Clients |-> 0]
    BY <1>3 DEF CleanupProgram
  <2>2. new_socket # 0 => new_socket \in Fds /\ new_socket \notin mine
    <3> SUFFICES ASSUME new_socket # 0
                 PROVE  new_socket \in Fds /\ new_socket \notin mine
      OBVIOUS
    <3>1. new_socket \in Fds /\ fds[new_socket] \in Peers
      BY DEF IndInv, TypeInv, OwnerInv
    <3>2. new_socket # listener
      BY <3>1, Constants DEF IndInv, ListenInv
    <3>3. \A c \in Clients : socket_fd[c] # new_socket
      BY DEF IndInv, OwnerInv
    <3> QED
      BY <3>1, <3>2, <3>3
  <2>3. \A f \in Fds : f # new_socket => fds'[f] \notin Peers
    <3> SUFFICES ASSUME NEW f \in Fds, f # new_socket, f \notin mine
                 PROVE  fds[f] \notin Peers
      BY <2>1, Constants
    <3> QED
      BY DEF IndInv, OwnerInv
  <2>4. \A f \in Fds : fds'[f] # "listen"
    BY <2>1 DEF IndInv, ListenInv
  <2>5. TypeInv' /\ LockInv'
    BY <1>1, <2>1 DEF IndInv, TypeInv, LockInv, AtClient, locks
  <2>6. ListenInv' /\ AcceptInv'
    BY <1>1, <2>1, <2>4, Constants DEF IndInv, ListenInv, AcceptInv
  <2>7. OwnerInv'
    BY <1>1, <2>1, <2>2, <2>3 DEF IndInv, OwnerInv
  <2> QED
    BY <2>5, <2>6, <2>7 DEF IndInv
<1> QED
  BY <1>2, <1>3 DEF HandlerCleanup

----------------------------------------------------------------------------
(* The theorems *)

LEMMA Inductive == Spec => []IndInv
<1>1. Init => IndInv
  BY InitHolds
<1>2. IndInv /\ [Next]_vars => IndInv'
  <2> SUFFICES ASSUME IndInv, [Next]_vars
               PROVE  IndInv'
    OBVIOUS
  <2>1. CASE RunBegin \/ AddBegin \/ ScanBegin
    BY <2>1, LockTakenStep
  <2>2. CASE Watch \/ RunEnd
    BY <2>2, LockReleasedStep
  <2>3. CASE SelectReturns \/ SelectFails \/ AcceptNothing \/ SetNonblocking
    BY <2>3, BetweenLocksStep
  <2>4. CASE InitProgram
    BY <2>4, InitProgramStep
  <2>5. CASE AcceptClient
    BY <2>5, AcceptStep
  <2>6. CASE SetNonblockingFails
    BY <2>6, SetNonblockingFailsStep
  <2>7. CASE AddEnd
    BY <2>7, AddEndStep
  <2>8. CASE Receive
    BY <2>8, ReceiveStep
  <2>9. CASE Remove
    BY <2>9, RemoveStep
  <2>10. CASE HandlerCleanup
    BY <2>10, HandlerCleanupStep
  <2>11. CASE EchoBlocks \/ EchoKills \/ PeerStep \/ Signal \/ UNCHANGED vars
    BY <2>11, OutsideStep
  <2>12. CASE EchoReturns
    BY <2>12, EchoReturnsStep
  <2> QED
    BY <2>1, <2>2, <2>3, <2>4, <2>5, <2>6, <2>7, <2>8, <2>9, <2>10, <2>11, <2>12
    DEF Next, ThreadStep
<1> QED
  BY <1>1, <1>2, PTL DEF Spec

\* Every way out of net_run, its early returns included, releases every mutex.
THEOREM MutexesReleased == Spec => []LocksReleased
<1>1. IndInv => LocksReleased
  BY DEF IndInv, LockInv, AtClient, LocksReleased
<1> QED
  BY <1>1, Inductive, PTL

\* No descriptor of network.c leaks and none has two owners, in every order of
\* accepts, failures, hang-ups and the signal.
THEOREM DescriptorsCorrect == Spec => []DescriptorsOwned
<1>1. IndInv => DescriptorsOwned
  <2> SUFFICES ASSUME IndInv
               PROVE  DescriptorsOwned
    OBVIOUS
  <2>1. ASSUME NEW f \in Fds, fds[f] \in Peers
        PROVE  Cardinality(SlotsHolding(f)) + (IF new_socket = f THEN 1 ELSE 0) = 1
    <3>1. CASE new_socket = f
      <4>1. SlotsHolding(f) = {}
        BY <3>1, Constants DEF IndInv, OwnerInv, SlotsHolding
      <4>2. Cardinality(SlotsHolding(f)) = 0
        BY <4>1, FS_EmptySet
      <4> QED
        BY <3>1, <4>2
    <3>2. CASE new_socket # f
      <4>1. PICK c \in Clients : is_active[c] /\ socket_fd[c] = f
        BY <2>1, <3>2 DEF IndInv, OwnerInv
      <4>2. SlotsHolding(f) = {c}
        BY <4>1 DEF IndInv, OwnerInv, SlotsHolding
      <4>3. Cardinality(SlotsHolding(f)) = 1
        BY <4>2, FS_Singleton
      <4> QED
        BY <3>2, <4>3
    <3> QED
      BY <3>1, <3>2
  <2>2. \A f \in Fds : fds[f] = "listen" <=> f = listener
    BY DEF IndInv, ListenInv
  <2>3. \A c \in Clients : /\ is_active[c] => socket_fd[c] # 0 /\ fds[socket_fd[c]] \in Peers
                           /\ ~is_active[c] => socket_fd[c] = 0
    BY Constants DEF IndInv, OwnerInv
  <2> QED
    BY <2>1, <2>2, <2>3 DEF DescriptorsOwned
<1> QED
  BY <1>1, Inductive, PTL
=============================================================================

------------------------ MODULE NodeEndpoint_proofs ------------------------
(***************************************************************************)
(* Proofs about the Node binding's endpoint, for any number of requests,   *)
(* sockets, retries and resets.                                            *)
(***************************************************************************)
EXTENDS NodeEndpoint, FiniteSetTheorems, TLAPS

----------------------------------------------------------------------------
(* The inductive invariant *)

Promises == {"unsent", "pending", "resolved", "rejected"}

\* The types that matter to where messages are.
TypeInv ==
    /\ sockets \in Seq(Socket)
    /\ socket \in 0 .. Len(sockets)
    /\ pendingData \in Seq(Message)
    /\ sequence \in Nat \ {0}
    /\ resets \in Nat
    /\ pendingMessages \in SUBSET Message
    /\ timeouts \in SUBSET Message
    /\ promise \in [Requests -> Promises]
    /\ answer \in [Requests -> Requests \cup {None}]
    /\ received \in [Requests -> Nat]

\* The message is remembered, waiting, on its way out, or has an answer on
\* its way back.
Travels(m) ==
    \/ m \in pendingMessages
    \/ \E i \in DOMAIN pendingData : pendingData[i] = m
    \/ \E s \in DOMAIN sockets : \E i \in DOMAIN sockets[s].out : sockets[s].out[i] = m
    \/ \E s \in DOMAIN sockets : \E i \in DOMAIN sockets[s].in : sockets[s].in[i].to = m

\* Without a reset no two such messages carry one number, and the next number
\* is a new one.
NumbersInv ==
    resets = 0 =>
        /\ \A m \in Message : Travels(m) => m.sequence < sequence
        /\ \A m, n \in Message : Travels(m) /\ Travels(n) /\ m.sequence = n.sequence => m = n

\* Position i of socket s carries a message of request r.
Carries(s, i, r) ==
    /\ s \in DOMAIN sockets
    /\ i \in DOMAIN sockets[s].out
    /\ sockets[s].out[i].request = r

\* Position i of pendingData holds a message of request r.
Waits(i, r) == i \in DOMAIN pendingData /\ pendingData[i].request = r

\* A request has one message in one place, or has arrived, or neither.
PlaceInv ==
    \A r \in Requests :
        /\ received[r] \in {0, 1}
        /\ \A i, j \in Nat : Waits(i, r) /\ Waits(j, r) => i = j
        /\ \A s, t, i, j \in Nat : Carries(s, i, r) /\ Carries(t, j, r) => s = t /\ i = j
        /\ \A s, i, j \in Nat : ~(Carries(s, i, r) /\ Waits(j, r))
        /\ received[r] = 1 \/ promise[r] = "unsent" =>
              \A s, i \in Nat : ~Carries(s, i, r) /\ ~Waits(i, r)
        /\ promise[r] = "unsent" => received[r] = 0

IndInv == TypeInv /\ NumbersInv /\ AnswersMatch /\ PlaceInv

----------------------------------------------------------------------------
(* Sockets *)

\* A field of a socket may be changed on its own.
LEMMA SocketFields ==
  ASSUME NEW x \in Socket
  PROVE  /\ \A v \in {"connecting", "open", "failing", "closing", "closed"} :
              [x EXCEPT !.status = v] \in Socket
         /\ \A v \in {"no", "ending", "done"} : [x EXCEPT !.ended = v] \in Socket
         /\ \A v \in Seq(Message) : [x EXCEPT !.out = v] \in Socket
         /\ \A v \in Seq(Reply) : [x EXCEPT !.in = v] \in Socket
         /\ x.out \in Seq(Message) /\ x.in \in Seq(Reply)
BY DEF Socket

\* socket.write adds the messages to the socket it is called on or to none.
LEMMA WrittenEffect ==
  ASSUME NEW all \in Seq(Socket), NEW s \in 0 .. Len(all), NEW messages \in Seq(Message)
  PROVE  /\ Written(all, s, messages) \in Seq(Socket)
         /\ Len(Written(all, s, messages)) = Len(all)
         /\ \A t \in 1 .. Len(all) :
              /\ Written(all, s, messages)[t].in = all[t].in
              /\ \/ Written(all, s, messages)[t].out = all[t].out
                 \/ /\ t = s
                    /\ Written(all, s, messages)[t].out = all[t].out \o messages
<1>1. CASE messages = <<>> \/ s = 0 \/ all[s].status \notin {"connecting", "open"}
  BY <1>1 DEF Written
<1>2. CASE ~(messages = <<>> \/ s = 0 \/ all[s].status \notin {"connecting", "open"})
  <2>1. s \in 1 .. Len(all) /\ all[s] \in Socket
    BY <1>2
  <2>2. all[s].out \o messages \in Seq(Message)
    <3>1. all[s].out \in Seq(Message)
      BY <2>1 DEF Socket
    <3> QED
      BY <3>1
  <2>3. CASE all[s].ended = "no"
    <3> DEFINE x == [all[s] EXCEPT !.out = @ \o messages]
    <3>1. Written(all, s, messages) = [all EXCEPT ![s] = x]
      BY <1>2, <2>3 DEF Written
    <3>2. x \in Socket
      BY <2>1, <2>2, SocketFields
    <3>3. x.out = all[s].out \o messages /\ x.in = all[s].in
      BY <2>1 DEF Socket
    <3> HIDE DEF x
    <3>4. /\ Written(all, s, messages) \in Seq(Socket)
          /\ Len(Written(all, s, messages)) = Len(all)
          /\ \A t \in 1 .. Len(all) :
               Written(all, s, messages)[t] = IF t = s THEN x ELSE all[t]
      BY <2>1, <3>1, <3>2
    <3> QED
      BY <2>1, <3>3, <3>4
  <2>4. CASE all[s].ended # "no"
    <3>1. Written(all, s, messages) = [all EXCEPT ![s].status = "failing"]
      BY <1>2, <2>4 DEF Written
    <3>2. [all[s] EXCEPT !.status = "failing"] \in Socket
      BY <2>1, SocketFields
    <3> QED
      BY <2>1, <3>1, <3>2 DEF Socket
  <2> QED
    BY <2>3, <2>4
<1> QED
  BY <1>1, <1>2

----------------------------------------------------------------------------
(* Steps that put no message anywhere *)

\* Sockets are kept, emptied, or new and empty; of the answers only the first
\* is taken; nothing else is added to.
SocketLoses(t) ==
    IF t \in DOMAIN sockets
    THEN /\ sockets'[t].out \in {sockets[t].out, <<>>}
         /\ \/ sockets'[t].in \in {sockets[t].in, <<>>}
            \/ sockets[t].in # <<>> /\ sockets'[t].in = Tail(sockets[t].in)
    ELSE sockets'[t].out = <<>> /\ sockets'[t].in = <<>>

Loses ==
    /\ \A t \in DOMAIN sockets' : SocketLoses(t)
    /\ pendingData' = pendingData
    /\ pendingMessages' \subseteq pendingMessages
    /\ received' = received
    /\ \A r \in Requests : promise'[r] = "unsent" => promise[r] = "unsent"

LEMMA TravelsLess ==
  ASSUME TypeInv, Loses, NEW m \in Message, Travels(m)'
  PROVE  Travels(m)
<1>1. CASE m \in pendingMessages'
  BY <1>1 DEF Loses, Travels
<1>2. CASE \E i \in DOMAIN pendingData' : pendingData'[i] = m
  BY <1>2 DEF Loses, Travels
<1>3. ASSUME NEW s \in DOMAIN sockets', NEW i \in DOMAIN sockets'[s].out,
             sockets'[s].out[i] = m
      PROVE  Travels(m)
  <2>1. s \in DOMAIN sockets /\ sockets'[s].out = sockets[s].out
    BY <1>3 DEF Loses, SocketLoses
  <2> QED
    BY <1>3, <2>1 DEF Travels
<1>4. ASSUME NEW s \in DOMAIN sockets', NEW i \in DOMAIN sockets'[s].in,
             sockets'[s].in[i].to = m
      PROVE  Travels(m)
  <2>1. /\ s \in DOMAIN sockets
        /\ \/ sockets'[s].in = sockets[s].in
           \/ sockets[s].in # <<>> /\ sockets'[s].in = Tail(sockets[s].in)
    BY <1>4 DEF Loses, SocketLoses
  <2>2. sockets[s] \in Socket /\ sockets[s].in \in Seq(Reply)
    <3>1. sockets[s] \in Socket
      BY <2>1 DEF TypeInv
    <3> QED
      BY <3>1 DEF Socket
  <2>3. \E j \in DOMAIN sockets[s].in : sockets[s].in[j] = sockets'[s].in[i]
    <3>1. CASE sockets'[s].in = sockets[s].in
      BY <1>4, <3>1
    <3>2. CASE sockets[s].in # <<>> /\ sockets'[s].in = Tail(sockets[s].in)
      <4>1. i + 1 \in DOMAIN sockets[s].in /\ sockets'[s].in[i] = sockets[s].in[i + 1]
        BY <1>4, <2>2, <3>2
      <4> QED
        BY <4>1
    <3> QED
      BY <2>1, <3>1, <3>2
  <2> QED
    BY <1>4, <2>1, <2>3 DEF Travels
<1> QED
  BY <1>1, <1>2, <1>3, <1>4 DEF Travels

LEMMA LosesNumbers ==
  ASSUME TypeInv, NumbersInv, Loses, sequence' \in Nat,
         resets' = 0 => resets = 0 /\ sequence' >= sequence
  PROVE  NumbersInv'
<1> SUFFICES ASSUME resets' = 0
             PROVE  /\ \A m \in Message : Travels(m)' => m.sequence < sequence'
                    /\ \A m, n \in Message :
                         Travels(m)' /\ Travels(n)' /\ m.sequence = n.sequence => m = n
  BY DEF NumbersInv
<1>1. resets = 0 /\ sequence' >= sequence /\ sequence \in Nat
  BY DEF TypeInv
<1>2. \A m \in Message : Travels(m)' => Travels(m) /\ m.sequence \in Nat
  BY TravelsLess, EndpointAssumption DEF Message
<1>3. ASSUME NEW m \in Message, Travels(m)'
      PROVE  m.sequence < sequence'
  BY <1>1, <1>2, <1>3 DEF NumbersInv
<1>4. ASSUME NEW m \in Message, NEW n \in Message, Travels(m)', Travels(n)',
             m.sequence = n.sequence
      PROVE  m = n
  BY <1>1, <1>2, <1>4 DEF NumbersInv
<1> QED
  BY <1>3, <1>4

LEMMA LosesPlaces ==
  ASSUME TypeInv, PlaceInv, Loses
  PROVE  PlaceInv'
<1> SUFFICES ASSUME NEW r \in Requests
             PROVE  /\ received'[r] \in {0, 1}
                    /\ \A i, j \in Nat : Waits(i, r)' /\ Waits(j, r)' => i = j
                    /\ \A s, t, i, j \in Nat :
                         Carries(s, i, r)' /\ Carries(t, j, r)' => s = t /\ i = j
                    /\ \A s, i, j \in Nat : ~(Carries(s, i, r)' /\ Waits(j, r)')
                    /\ received'[r] = 1 \/ promise'[r] = "unsent" =>
                         \A s, i \in Nat : ~Carries(s, i, r)' /\ ~Waits(i, r)'
                    /\ promise'[r] = "unsent" => received'[r] = 0
  BY DEF PlaceInv
<1>1. \A i : Waits(i, r)' => Waits(i, r)
  BY DEF Loses, Waits
<1>2. ASSUME NEW s, NEW i, Carries(s, i, r)'
      PROVE  Carries(s, i, r)
  <2>1. s \in DOMAIN sockets /\ sockets'[s].out = sockets[s].out
    BY <1>2 DEF Loses, SocketLoses, Carries
  <2> QED
    BY <1>2, <2>1 DEF Carries
<1>3. received' = received /\ (promise'[r] = "unsent" => promise[r] = "unsent")
  BY DEF Loses
<1> QED
  BY <1>1, <1>2, <1>3 DEF PlaceInv

\* Such a step preserves the invariant when it settles nothing.
LEMMA LosesStep ==
  ASSUME IndInv, TypeInv', Loses, answer' = answer,
         resets' = 0 => resets = 0 /\ sequence' >= sequence
  PROVE  IndInv'
<1>1. AnswersMatch'
  BY DEF IndInv, AnswersMatch
<1>2. sequence' \in Nat
  BY DEF TypeInv
<1> QED
  BY <1>1, <1>2, LosesNumbers, LosesPlaces DEF IndInv

\* Replacing one socket.
LEMMA Replaced ==
  ASSUME TypeInv, NEW s \in DOMAIN sockets, NEW x \in Socket, sockets' = [sockets EXCEPT ![s] = x]
  PROVE  /\ sockets' \in Seq(Socket)
         /\ Len(sockets') = Len(sockets)
         /\ DOMAIN sockets' = DOMAIN sockets
         /\ \A t \in DOMAIN sockets : sockets'[t] = IF t = s THEN x ELSE sockets[t]
<1>1. sockets \in Seq(Socket)
  BY DEF TypeInv
<1> QED
  BY <1>1

\* A socket that only loses what it carries.
LEMMA ReplacedLoses ==
  ASSUME TypeInv, NEW s \in DOMAIN sockets, NEW x \in Socket, sockets' = [sockets EXCEPT ![s] = x],
         x.out \in {sockets[s].out, <<>>},
         \/ x.in \in {sockets[s].in, <<>>}
         \/ sockets[s].in # <<>> /\ x.in = Tail(sockets[s].in)
  PROVE  /\ sockets' \in Seq(Socket)
         /\ Len(sockets') = Len(sockets)
         /\ \A t \in DOMAIN sockets' : SocketLoses(t)
<1>1. /\ sockets' \in Seq(Socket)
      /\ Len(sockets') = Len(sockets)
      /\ DOMAIN sockets' = DOMAIN sockets
      /\ \A t \in DOMAIN sockets : sockets'[t] = IF t = s THEN x ELSE sockets[t]
  BY Replaced
<1> QED
  BY <1>1 DEF SocketLoses

LEMMA NewSocketType == NewSocket \in Socket /\ NewSocket.out = <<>> /\ NewSocket.in = <<>>
<1>1. <<>> \in Seq(Message) /\ <<>> \in Seq(Reply)
  OBVIOUS
<1> QED
  BY <1>1 DEF NewSocket, Socket

\* connect adds an empty socket and points this.socket at it.
LEMMA ConnectEffect ==
  ASSUME TypeInv, connect
  PROVE  /\ sockets' \in Seq(Socket)
         /\ socket' \in 0 .. Len(sockets')
         /\ \A t \in DOMAIN sockets' :
              IF t \in DOMAIN sockets THEN sockets'[t] = sockets[t] ELSE sockets'[t] = NewSocket
         /\ DOMAIN sockets \subseteq DOMAIN sockets'
         /\ \A t \in DOMAIN sockets' : SocketLoses(t)
<1>1. sockets \in Seq(Socket)
  BY DEF TypeInv
<1>2. sockets' = Append(sockets, NewSocket) /\ socket' = Len(sockets) + 1
  BY DEF connect
<1>3. /\ sockets' \in Seq(Socket)
      /\ socket' \in 0 .. Len(sockets')
      /\ \A t \in DOMAIN sockets' :
           IF t \in DOMAIN sockets THEN sockets'[t] = sockets[t] ELSE sockets'[t] = NewSocket
      /\ DOMAIN sockets \subseteq DOMAIN sockets'
  BY <1>1, <1>2, NewSocketType
<1> QED
  BY <1>3, NewSocketType DEF SocketLoses

----------------------------------------------------------------------------
(* The application's calls and the events that put no message anywhere *)

LEMMA InitHolds ==
  ASSUME Init
  PROVE  IndInv
<1> USE DEF Init
<1>1. TypeInv
  <2>1. <<>> \in Seq(Socket) /\ <<>> \in Seq(Message) /\ Len(<<>>) = 0
    OBVIOUS
  <2> QED
    BY <2>1 DEF TypeInv, Promises
<1>2. NumbersInv
  BY DEF NumbersInv, Travels
<1>3. AnswersMatch
  BY DEF AnswersMatch
<1>4. PlaceInv
  BY DEF PlaceInv, Carries, Waits
<1> QED
  BY <1>1, <1>2, <1>3, <1>4 DEF IndInv

LEMMA ConnectStep ==
  ASSUME IndInv, Connect \/ RetryTimer
  PROVE  IndInv'
<1>1. /\ connect /\ pendingData' = pendingData /\ received' = received
      /\ UNCHANGED <<sequence, pendingMessages, timeouts, promise, answer, resets>>
  BY DEF Connect, RetryTimer, protocol
<1>2. TypeInv'
  BY <1>1, ConnectEffect DEF IndInv, TypeInv
<1>3. Loses
  BY <1>1, ConnectEffect DEF IndInv, Loses
<1> QED
  BY <1>1, <1>2, <1>3, LosesStep DEF IndInv, TypeInv

LEMMA DisconnectStep ==
  ASSUME IndInv, Disconnect
  PROVE  IndInv'
<1> DEFINE x == [sockets[socket] EXCEPT !.ended = "ending"]
<1>1. /\ socket \in DOMAIN sockets /\ sockets[socket] \in Socket
      /\ sockets' = [sockets EXCEPT ![socket] = x]
  BY DEF IndInv, TypeInv, Disconnect
<1>2. x \in Socket /\ x.out = sockets[socket].out /\ x.in = sockets[socket].in
  BY <1>1 DEF Socket
<1>3. UNCHANGED <<socket, pendingData, received, sequence, pendingMessages, timeouts, promise,
                  answer, resets>>
  BY DEF Disconnect, protocol
<1> HIDE DEF x
<1>4. /\ sockets' \in Seq(Socket)
      /\ Len(sockets') = Len(sockets)
      /\ \A t \in DOMAIN sockets' : SocketLoses(t)
  BY <1>1, <1>2, ReplacedLoses DEF IndInv
<1>5. TypeInv'
  BY <1>3, <1>4 DEF IndInv, TypeInv
<1>6. Loses
  BY <1>3, <1>4 DEF Loses
<1> QED
  BY <1>3, <1>5, <1>6, LosesStep DEF IndInv, TypeInv

LEMMA ResetStep ==
  ASSUME IndInv, Reset
  PROVE  IndInv'
<1>1. /\ UNCHANGED <<sockets, socket, pendingData, timeouts, promise, answer, received>>
      /\ resets' = resets + 1 /\ sequence' = 1 /\ pendingMessages' = {}
  BY DEF Reset, endpoint
<1>2. TypeInv' /\ resets' # 0
  BY <1>1 DEF IndInv, TypeInv
<1>3. Loses
  BY <1>1 DEF Loses, SocketLoses
<1> QED
  BY <1>1, <1>2, <1>3, LosesStep

\* A socket breaks, closes, or ends: it loses what it carries or keeps it.
LEMMA SocketGoesStep ==
  ASSUME IndInv, NEW s \in DOMAIN sockets,
         ErrorEvent(s) \/ CloseEvent(s) \/ EndCallback(s) \/ PeerClose(s) \/ Garbled(s)
  PROVE  IndInv'
<1>1. sockets[s] \in Socket /\ <<>> \in Seq(Message) /\ <<>> \in Seq(Reply)
  BY DEF IndInv, TypeInv
<1>2. PICK x \in Socket :
        /\ sockets' = [sockets EXCEPT ![s] = x]
        /\ x.out \in {sockets[s].out, <<>>}
        /\ \/ x.in \in {sockets[s].in, <<>>}
           \/ sockets[s].in # <<>> /\ x.in = Tail(sockets[s].in)
  <2>1. CASE ErrorEvent(s)
    <3> DEFINE x == [sockets[s] EXCEPT !.status = "closing", !.in = <<>>, !.out = <<>>]
    <3>1. sockets' = [sockets EXCEPT ![s] = x]
      BY <2>1 DEF ErrorEvent
    <3>2. x \in Socket /\ x.out = <<>> /\ x.in = <<>>
      BY <1>1 DEF Socket
    <3> QED
      BY <3>1, <3>2
  <2>2. CASE CloseEvent(s)
    <3> DEFINE x == [sockets[s] EXCEPT !.status = "closed"]
    <3>1. sockets' = [sockets EXCEPT ![s] = x]
      BY <2>2 DEF CloseEvent
    <3>2. x \in Socket /\ x.out = sockets[s].out /\ x.in = sockets[s].in
      BY <1>1 DEF Socket
    <3> QED
      BY <3>1, <3>2
  <2>3. CASE EndCallback(s)
    <3> DEFINE x == [sockets[s] EXCEPT !.ended = "done"]
    <3>1. sockets' = [sockets EXCEPT ![s] = x]
      BY <2>3 DEF EndCallback
    <3>2. x \in Socket /\ x.out = sockets[s].out /\ x.in = sockets[s].in
      BY <1>1 DEF Socket
    <3> QED
      BY <3>1, <3>2
  <2>4. CASE PeerClose(s)
    <3> DEFINE x == [sockets[s] EXCEPT !.status = "closing", !.out = <<>>]
    <3>1. sockets' = [sockets EXCEPT ![s] = x]
      BY <2>4 DEF PeerClose
    <3>2. x \in Socket /\ x.out = <<>> /\ x.in = sockets[s].in
      BY <1>1 DEF Socket
    <3> QED
      BY <3>1, <3>2
  <2>5. CASE Garbled(s)
    <3> DEFINE x == [sockets[s] EXCEPT !.in = Tail(@)]
    <3>1. sockets' = [sockets EXCEPT ![s] = x] /\ sockets[s].in # <<>>
      BY <2>5 DEF Garbled
    <3>2. sockets[s].in \in Seq(Reply)
      BY <1>1 DEF Socket
    <3>3. Tail(sockets[s].in) \in Seq(Reply)
      BY <3>1, <3>2
    <3>4. x \in Socket /\ x.out = sockets[s].out /\ x.in = Tail(sockets[s].in)
      BY <1>1, <3>3 DEF Socket
    <3> QED
      BY <3>1, <3>4
  <2> QED
    BY <2>1, <2>2, <2>3, <2>4, <2>5
<1>3. /\ UNCHANGED <<pendingData, received, sequence, pendingMessages, timeouts, promise, answer,
                     resets>>
      /\ socket' \in {socket, 0}
  BY DEF ErrorEvent, CloseEvent, EndCallback, PeerClose, Garbled, protocol, endpoint
<1>4. /\ sockets' \in Seq(Socket)
      /\ Len(sockets') = Len(sockets)
      /\ \A t \in DOMAIN sockets' : SocketLoses(t)
  BY <1>2, ReplacedLoses DEF IndInv
<1>5. TypeInv'
  BY <1>3, <1>4 DEF IndInv, TypeInv
<1>6. Loses
  BY <1>3, <1>4 DEF Loses
<1> QED
  BY <1>3, <1>5, <1>6, LosesStep DEF IndInv, TypeInv

LEMMA HandshakeStep ==
  ASSUME IndInv, NEW s \in DOMAIN sockets, HandshakeEvent(s)
  PROVE  IndInv'
<1>1. /\ UNCHANGED <<sockets, socket, pendingData, received, pendingMessages, timeouts, promise,
                     answer, resets>>
      /\ sequence' = sequence + 1
  BY DEF HandshakeEvent, NextSequence, endpoint
<1>2. TypeInv' /\ sequence' >= sequence
  BY <1>1 DEF IndInv, TypeInv
<1>3. Loses
  BY <1>1 DEF Loses, SocketLoses
<1> QED
  BY <1>1, <1>2, <1>3, LosesStep

\* A timer settles its own request without an answer.
LEMMA TimeoutStep ==
  ASSUME IndInv, NEW m \in Message, Timeout(m)
  PROVE  IndInv'
<1>1. /\ UNCHANGED <<sockets, socket, pendingData, received, sequence, answer, resets>>
      /\ timeouts' \subseteq timeouts /\ pendingMessages' \subseteq pendingMessages
      /\ promise' = [promise EXCEPT ![m.request] = IF @ = "pending" THEN "rejected" ELSE @]
  BY DEF Timeout, endpoint
<1>2. m.request \in Requests
  BY DEF Message
<1>3. /\ promise' \in [Requests -> Promises]
      /\ \A r \in Requests : promise'[r] = "unsent" => promise[r] = "unsent"
  BY <1>1, <1>2 DEF IndInv, TypeInv, Promises
<1>4. TypeInv'
  BY <1>1, <1>3 DEF IndInv, TypeInv
<1>5. Loses
  BY <1>1, <1>3 DEF Loses, SocketLoses
<1> QED
  BY <1>1, <1>4, <1>5, LosesStep DEF IndInv, TypeInv

----------------------------------------------------------------------------
(* An answer arrives *)

\* An answer that repeats the number of its request settles that request: the
\* message that is waiting for the number is the one the server answered.
LEMMA DataStep ==
  ASSUME IndInv, NEW s \in DOMAIN sockets,
         NEW outcome \in {"resolved", "rejected"}, DataEvent(s, outcome)
  PROVE  IndInv'
<1> DEFINE reply == Head(sockets[s].in)
           found == {m \in pendingMessages : m.sequence = reply.number}
           settled == {r \in Requests : promise[r] = "pending"
                                        /\ \E m \in found : m.request = r}
           x == [sockets[s] EXCEPT !.in = Tail(@)]
<1>1. /\ sockets[s].in # <<>>
      /\ sockets' = [sockets EXCEPT ![s] = x]
      /\ pendingMessages' = pendingMessages \ found
      /\ promise' = [r \in Requests |->
           IF r \in settled THEN outcome ELSE promise[r]]
      /\ answer' = [r \in Requests |->
           IF r \in settled /\ Echoes(reply) THEN reply.to.request ELSE answer[r]]
      /\ UNCHANGED <<socket, pendingData, received, sequence, timeouts, resets>>
  BY DEF DataEvent, endpoint
<1>2. sockets[s] \in Socket
  BY DEF IndInv, TypeInv
<1>3. sockets[s].in \in Seq(Reply)
  BY <1>2 DEF Socket
<1>4. /\ 1 \in DOMAIN sockets[s].in /\ reply = sockets[s].in[1] /\ reply \in Reply
      /\ Tail(sockets[s].in) \in Seq(Reply)
  BY <1>1, <1>3
<1>5. reply.to \in Message /\ reply.to.request \in Requests
  BY <1>4 DEF Reply, Message
<1>6. x \in Socket /\ x.out = sockets[s].out /\ x.in = Tail(sockets[s].in)
  BY <1>2, <1>4 DEF Socket
<1> HIDE DEF x
<1>7. /\ sockets' \in Seq(Socket)
      /\ Len(sockets') = Len(sockets)
      /\ \A t \in DOMAIN sockets' : SocketLoses(t)
  BY <1>1, <1>6, ReplacedLoses DEF IndInv
<1>8. /\ promise' \in [Requests -> Promises]
      /\ \A r \in Requests : promise'[r] = "unsent" => promise[r] = "unsent"
  BY <1>1 DEF IndInv, TypeInv, Promises
<1>9. answer' \in [Requests -> Requests \cup {None}]
  BY <1>1, <1>5 DEF IndInv, TypeInv
<1>10. TypeInv'
  BY <1>1, <1>7, <1>8, <1>9 DEF IndInv, TypeInv
<1>11. Loses
  BY <1>1, <1>7, <1>8 DEF Loses
<1>12. NumbersInv' /\ PlaceInv'
  BY <1>1, <1>11, LosesNumbers, LosesPlaces DEF IndInv, TypeInv
<1>13. AnswersMatch'
  <2> SUFFICES ASSUME resets = 0, NEW r \in Requests
               PROVE  answer'[r] \in {r, None}
    BY <1>1 DEF AnswersMatch
  <2>1. CASE r \in settled /\ Echoes(reply)
    <3>1. PICK m \in pendingMessages : m.sequence = reply.to.sequence /\ m.request = r
      BY <2>1 DEF Echoes
    <3>2. m \in Message /\ Travels(m)
      BY <3>1 DEF IndInv, TypeInv, Travels
    <3>3. Travels(reply.to)
      BY <1>4 DEF Travels
    <3>4. m = reply.to
      BY <1>5, <3>1, <3>2, <3>3 DEF IndInv, NumbersInv
    <3> QED
      BY <1>1, <2>1, <3>1, <3>4
  <2>2. CASE ~(r \in settled /\ Echoes(reply))
    BY <1>1, <2>2 DEF IndInv, AnswersMatch
  <2> QED
    BY <2>1, <2>2
<1> QED
  BY <1>10, <1>12, <1>13 DEF IndInv

----------------------------------------------------------------------------
(* The server takes a message *)

LEMMA ServeStep ==
  ASSUME IndInv, NEW s \in DOMAIN sockets, Serve(s)
  PROVE  IndInv'
<1> DEFINE m == Head(sockets[s].out)
<1>1. sockets[s] \in Socket /\ sockets[s].out # <<>>
  BY DEF IndInv, TypeInv, Serve
<1>2. sockets[s].out \in Seq(Message) /\ sockets[s].in \in Seq(Reply)
  BY <1>1 DEF Socket
<1>3. /\ 1 \in DOMAIN sockets[s].out /\ m = sockets[s].out[1] /\ m \in Message
      /\ Tail(sockets[s].out) \in Seq(Message)
      /\ \A i \in DOMAIN Tail(sockets[s].out) :
           /\ i \in Nat /\ i >= 1 /\ i + 1 \in DOMAIN sockets[s].out
           /\ Tail(sockets[s].out)[i] = sockets[s].out[i + 1]
  BY <1>1, <1>2
<1>4. m.request \in Requests
  BY <1>3 DEF Message
<1>5. PICK replies \in {<<>>} \cup {<<reply>> : reply \in {y \in Reply : y.to = m}} :
        sockets' = [sockets EXCEPT ![s].out = Tail(@), ![s].in = @ \o replies]
  BY DEF Serve
<1>6. /\ received' = [received EXCEPT ![m.request] = @ + 1]
      /\ UNCHANGED <<socket, pendingData, sequence, pendingMessages, timeouts, promise, answer,
                     resets>>
  BY DEF Serve, endpoint, protocol
<1> DEFINE x == [sockets[s] EXCEPT !.out = Tail(@), !.in = @ \o replies]
<1>7. sockets' = [sockets EXCEPT ![s] = x]
  BY <1>5
<1>8. replies \in Seq(Reply) /\ \A i \in DOMAIN replies : replies[i].to = m
  <2>1. CASE replies = <<>>
    BY <2>1
  <2>2. ASSUME NEW reply \in Reply, reply.to = m, replies = <<reply>>
        PROVE  replies \in Seq(Reply) /\ \A i \in DOMAIN replies : replies[i].to = m
    BY <2>2
  <2> QED
    BY <1>5, <2>1, <2>2
<1>9. sockets[s].in \o replies \in Seq(Reply)
  BY <1>2, <1>8
<1>10. x \in Socket /\ x.out = Tail(sockets[s].out) /\ x.in = sockets[s].in \o replies
  BY <1>1, <1>3, <1>9 DEF Socket
<1> HIDE DEF x, m
<1>11. /\ sockets' \in Seq(Socket)
       /\ Len(sockets') = Len(sockets)
       /\ DOMAIN sockets' = DOMAIN sockets
       /\ \A t \in DOMAIN sockets : sockets'[t] = IF t = s THEN x ELSE sockets[t]
  BY <1>7, <1>10, Replaced DEF IndInv
<1>12. received[m.request] \in Nat /\ received' \in [Requests -> Nat]
  BY <1>4, <1>6 DEF IndInv, TypeInv
<1>13. TypeInv'
  BY <1>6, <1>11, <1>12 DEF IndInv, TypeInv
<1>14. ASSUME NEW n \in Message, Travels(n)'
       PROVE  Travels(n)
  <2>1. CASE n \in pendingMessages' \/ \E i \in DOMAIN pendingData' : pendingData'[i] = n
    BY <1>6, <2>1 DEF Travels
  <2>2. ASSUME NEW t \in DOMAIN sockets', NEW i \in DOMAIN sockets'[t].out,
               sockets'[t].out[i] = n
        PROVE  Travels(n)
    <3>1. CASE t = s
      <4>1. sockets'[t].out = Tail(sockets[s].out)
        BY <1>10, <1>11, <3>1
      <4>2. i + 1 \in DOMAIN sockets[s].out /\ sockets[s].out[i + 1] = n
        BY <1>3, <2>2, <4>1
      <4> QED
        BY <4>2 DEF Travels
    <3>2. CASE t # s
      BY <1>11, <2>2, <3>2 DEF Travels
    <3> QED
      BY <3>1, <3>2
  <2>3. ASSUME NEW t \in DOMAIN sockets', NEW i \in DOMAIN sockets'[t].in,
               sockets'[t].in[i].to = n
        PROVE  Travels(n)
    <3>1. CASE t = s
      <4>1. \/ i \in DOMAIN sockets[s].in /\ sockets'[s].in[i] = sockets[s].in[i]
            \/ n = m
        <5>1. sockets'[s].in = sockets[s].in \o replies
          BY <1>10, <1>11
        <5>2. CASE i \in DOMAIN sockets[s].in
          BY <1>2, <1>8, <5>1, <5>2
        <5>3. CASE i \notin DOMAIN sockets[s].in
          <6>1. /\ i - Len(sockets[s].in) \in DOMAIN replies
                /\ sockets'[s].in[i] = replies[i - Len(sockets[s].in)]
            BY <1>2, <1>8, <2>3, <3>1, <5>1, <5>3
          <6> QED
            BY <1>8, <2>3, <3>1, <6>1
        <5> QED
          BY <5>2, <5>3
      <4> QED
        BY <1>3, <2>3, <3>1, <4>1 DEF Travels
    <3>2. CASE t # s
      BY <1>11, <2>3, <3>2 DEF Travels
    <3> QED
      BY <3>1, <3>2
  <2> QED
    BY <1>14, <2>1, <2>2, <2>3 DEF Travels
<1>15. NumbersInv'
  BY <1>6, <1>14 DEF IndInv, NumbersInv
<1>16. AnswersMatch'
  BY <1>6 DEF IndInv, AnswersMatch
<1>17. PlaceInv'
  <2>1. \A i, r : Waits(i, r)' => Waits(i, r)
    BY <1>6 DEF Waits
  <2>2. ASSUME NEW t, NEW i, NEW r, Carries(t, i, r)'
        PROVE  IF t = s THEN i \in Nat /\ i >= 1 /\ Carries(t, i + 1, r) ELSE Carries(t, i, r)
    BY <1>3, <1>10, <1>11, <2>2 DEF Carries
  <2>3. Carries(s, 1, m.request)
    BY <1>3 DEF Carries
  <2>4. s \in Nat
    BY DEF IndInv, TypeInv
  <2> SUFFICES ASSUME NEW r \in Requests
               PROVE  /\ received'[r] \in {0, 1}
                      /\ \A i, j \in Nat : Waits(i, r)' /\ Waits(j, r)' => i = j
                      /\ \A u, t, i, j \in Nat :
                           Carries(u, i, r)' /\ Carries(t, j, r)' => u = t /\ i = j
                      /\ \A u, i, j \in Nat : ~(Carries(u, i, r)' /\ Waits(j, r)')
                      /\ received'[r] = 1 \/ promise'[r] = "unsent" =>
                           \A u, i \in Nat : ~Carries(u, i, r)' /\ ~Waits(i, r)'
                      /\ promise'[r] = "unsent" => received'[r] = 0
    BY DEF PlaceInv
  <2>5. CASE r = m.request
    <3>1. /\ received[r] = 0 /\ promise[r] # "unsent"
          /\ \A i \in Nat : ~Waits(i, r)
          /\ \A t, i \in Nat : Carries(t, i, r) => t = s /\ i = 1
      BY <2>3, <2>4, <2>5 DEF IndInv, PlaceInv
    <3>2. \A t, i \in Nat : ~Carries(t, i, r)'
      BY <2>2, <3>1
    <3>3. received'[r] = 1
      BY <1>4, <1>6, <2>5, <3>1 DEF IndInv, TypeInv
    <3> QED
      BY <1>6, <2>1, <3>1, <3>2, <3>3
  <2>6. CASE r # m.request
    <3>1. received'[r] = received[r]
      BY <1>4, <1>6, <2>6 DEF IndInv, TypeInv
    <3>2. ASSUME NEW u \in Nat, NEW t \in Nat, NEW i \in Nat, NEW j \in Nat,
                 Carries(u, i, r)', Carries(t, j, r)'
          PROVE  u = t /\ i = j
      <4>1. PICK k \in Nat, l \in Nat :
              /\ Carries(u, k, r) /\ k = IF u = s THEN i + 1 ELSE i
              /\ Carries(t, l, r) /\ l = IF t = s THEN j + 1 ELSE j
        BY <2>2, <3>2
      <4>2. u = t /\ k = l
        BY <4>1 DEF IndInv, PlaceInv
      <4> QED
        BY <4>1, <4>2
    <3>3. \A u, i \in Nat : Carries(u, i, r)' => \E k \in Nat : Carries(u, k, r)
      BY <2>2
    <3>4. /\ \A i, j \in Nat : Waits(i, r) /\ Waits(j, r) => i = j
          /\ \A u, i, j \in Nat : ~(Carries(u, i, r) /\ Waits(j, r))
          /\ received[r] = 1 \/ promise[r] = "unsent" =>
               \A u, i \in Nat : ~Carries(u, i, r) /\ ~Waits(i, r)
          /\ received[r] \in {0, 1} /\ (promise[r] = "unsent" => received[r] = 0)
      BY DEF IndInv, PlaceInv
    <3>5. \A u, i, j \in Nat : ~(Carries(u, i, r)' /\ Waits(j, r)')
      BY <2>1, <3>3, <3>4
    <3>6. received[r] = 1 \/ promise[r] = "unsent" =>
            \A u, i \in Nat : ~Carries(u, i, r)' /\ ~Waits(i, r)'
      BY <2>1, <3>3, <3>4
    <3> QED
      BY <1>6, <2>1, <3>1, <3>2, <3>4, <3>5, <3>6
  <2> QED
    BY <2>5, <2>6
<1> QED
  BY <1>13, <1>15, <1>16, <1>17 DEF IndInv

----------------------------------------------------------------------------
(* Messages are written *)

\* Where an element of a concatenation comes from.
LEMMA Concatenated ==
  ASSUME NEW a \in Seq(Message), NEW b \in Seq(Message), NEW i \in DOMAIN (a \o b)
  PROVE  \/ i \in DOMAIN a /\ (a \o b)[i] = a[i]
         \/ /\ i \notin DOMAIN a
            /\ i - Len(a) \in DOMAIN b /\ i - Len(a) \in Nat
            /\ (a \o b)[i] = b[i - Len(a)]
OBVIOUS

\* What a write to this.socket leaves in the sockets, whose other fields may
\* have changed.
WritesTo(all, messages) ==
    /\ all \in Seq(Socket) /\ Len(all) = Len(sockets)
    /\ \A t \in DOMAIN sockets : all[t].out = sockets[t].out /\ all[t].in = sockets[t].in
    /\ sockets' = Written(all, socket, messages)

LEMMA WritesToEffect ==
  ASSUME TypeInv, NEW all, NEW messages \in Seq(Message), WritesTo(all, messages)
  PROVE  /\ sockets' \in Seq(Socket) /\ Len(sockets') = Len(sockets)
         /\ \A t \in DOMAIN sockets' : sockets'[t].in = sockets[t].in
         /\ \A t \in DOMAIN sockets' : \A i \in DOMAIN sockets'[t].out :
              \/ i \in DOMAIN sockets[t].out /\ sockets'[t].out[i] = sockets[t].out[i]
              \/ /\ t = socket
                 /\ i \notin DOMAIN sockets[t].out
                 /\ i - Len(sockets[t].out) \in DOMAIN messages
                 /\ i - Len(sockets[t].out) \in Nat
                 /\ sockets'[t].out[i] = messages[i - Len(sockets[t].out)]
<1>1. /\ sockets \in Seq(Socket) /\ all \in Seq(Socket) /\ Len(all) = Len(sockets)
      /\ socket \in 0 .. Len(all) /\ DOMAIN sockets = 1 .. Len(all)
  BY DEF TypeInv, WritesTo
<1>2. /\ sockets' \in Seq(Socket) /\ Len(sockets') = Len(sockets)
      /\ DOMAIN sockets' = DOMAIN sockets
      /\ \A t \in 1 .. Len(all) :
           /\ sockets'[t].in = all[t].in
           /\ \/ sockets'[t].out = all[t].out
              \/ t = socket /\ sockets'[t].out = all[t].out \o messages
  <2> DEFINE w == Written(all, socket, messages)
  <2>1. /\ w \in Seq(Socket) /\ Len(w) = Len(all)
        /\ \A t \in 1 .. Len(all) :
             /\ w[t].in = all[t].in
             /\ w[t].out = all[t].out \/ (t = socket /\ w[t].out = all[t].out \o messages)
    BY <1>1, WrittenEffect
  <2>2. sockets' = w
    BY DEF WritesTo
  <2> HIDE DEF w
  <2> QED
    BY <1>1, <2>1, <2>2
<1>3. \A t \in DOMAIN sockets : all[t].out = sockets[t].out /\ all[t].in = sockets[t].in
  BY DEF WritesTo
<1>4. ASSUME NEW t \in DOMAIN sockets', NEW i \in DOMAIN sockets'[t].out
      PROVE  \/ i \in DOMAIN sockets[t].out /\ sockets'[t].out[i] = sockets[t].out[i]
             \/ /\ t = socket
                /\ i \notin DOMAIN sockets[t].out
                /\ i - Len(sockets[t].out) \in DOMAIN messages
                /\ i - Len(sockets[t].out) \in Nat
                /\ sockets'[t].out[i] = messages[i - Len(sockets[t].out)]
  <2>1. sockets[t] \in Socket
    BY <1>1, <1>2
  <2>2. sockets[t].out \in Seq(Message)
    BY <2>1 DEF Socket
  <2>3. \/ sockets'[t].out = sockets[t].out
        \/ t = socket /\ sockets'[t].out = sockets[t].out \o messages
    BY <1>1, <1>2, <1>3
  <2>4. CASE sockets'[t].out = sockets[t].out
    BY <1>4, <2>4
  <2>5. CASE t = socket /\ sockets'[t].out = sockets[t].out \o messages
    BY <1>4, <2>2, <2>5, Concatenated
  <2> QED
    BY <2>3, <2>4, <2>5
<1> QED
  BY <1>1, <1>2, <1>3, <1>4

\* A connection comes about: what waited goes to this.socket or is lost.
LEMMA ConnectEventStep ==
  ASSUME IndInv, NEW s \in DOMAIN sockets, ConnectEvent(s)
  PROVE  IndInv'
<1> DEFINE x == [sockets[s] EXCEPT !.status = "open"]
           all == [sockets EXCEPT ![s] = x]
<1>0. sockets \in Seq(Socket) /\ sockets[s] \in Socket /\ pendingData \in Seq(Message)
  BY DEF IndInv, TypeInv
<1>1. /\ sockets' = Written(all, socket, pendingData) /\ pendingData' = <<>>
      /\ UNCHANGED <<socket, received, sequence, pendingMessages, timeouts, promise, answer, resets>>
  BY DEF ConnectEvent, Flush, protocol
<1>2. x \in Socket /\ x.out = sockets[s].out /\ x.in = sockets[s].in
  BY <1>0 DEF Socket
<1>3. WritesTo(all, pendingData)
  <2> HIDE DEF x
  <2>1. all \in Seq(Socket) /\ Len(all) = Len(sockets)
    BY <1>0, <1>2
  <2>2. \A t \in DOMAIN sockets : all[t].out = sockets[t].out /\ all[t].in = sockets[t].in
    BY <1>0, <1>2
  <2> QED
    BY <1>1, <2>1, <2>2 DEF WritesTo
<1> HIDE DEF all
<1>4. /\ sockets' \in Seq(Socket) /\ Len(sockets') = Len(sockets)
      /\ \A t \in DOMAIN sockets' : sockets'[t].in = sockets[t].in
      /\ \A t \in DOMAIN sockets' : \A i \in DOMAIN sockets'[t].out :
           \/ i \in DOMAIN sockets[t].out /\ sockets'[t].out[i] = sockets[t].out[i]
           \/ /\ t = socket
              /\ i \notin DOMAIN sockets[t].out
              /\ i - Len(sockets[t].out) \in DOMAIN pendingData
              /\ i - Len(sockets[t].out) \in Nat
              /\ sockets'[t].out[i] = pendingData[i - Len(sockets[t].out)]
  BY <1>0, <1>3, WritesToEffect DEF IndInv
<1>5. DOMAIN sockets' = DOMAIN sockets /\ DOMAIN sockets \subseteq Nat
  BY <1>0, <1>4
<1>6. TypeInv'
  <2>1. <<>> \in Seq(Message)
    OBVIOUS
  <2> QED
    BY <1>1, <1>4, <2>1 DEF IndInv, TypeInv
<1>7. ASSUME NEW n \in Message, Travels(n)'
      PROVE  Travels(n)
  <2>1. CASE n \in pendingMessages'
    BY <1>1, <2>1 DEF Travels
  <2>2. CASE \E i \in DOMAIN pendingData' : pendingData'[i] = n
    BY <1>1, <2>2
  <2>3. ASSUME NEW t \in DOMAIN sockets', NEW i \in DOMAIN sockets'[t].out,
               sockets'[t].out[i] = n
        PROVE  Travels(n)
    BY <1>4, <1>5, <2>3 DEF Travels
  <2>4. ASSUME NEW t \in DOMAIN sockets', NEW i \in DOMAIN sockets'[t].in,
               sockets'[t].in[i].to = n
        PROVE  Travels(n)
    BY <1>4, <1>5, <2>4 DEF Travels
  <2> QED
    BY <1>7, <2>1, <2>2, <2>3, <2>4 DEF Travels
<1>8. NumbersInv'
  BY <1>1, <1>7 DEF IndInv, NumbersInv
<1>9. AnswersMatch'
  BY <1>1 DEF IndInv, AnswersMatch
<1>10. PlaceInv'
  <2>1. \A i, r : ~Waits(i, r)'
    BY <1>1 DEF Waits
  <2>2. ASSUME NEW t, NEW i, NEW r, Carries(t, i, r)'
        PROVE  \/ Carries(t, i, r)
               \/ /\ t = socket
                  /\ i - Len(sockets[t].out) \in Nat /\ Waits(i - Len(sockets[t].out), r)
    BY <1>4, <1>5, <2>2 DEF Carries, Waits
  <2>3. ASSUME NEW r \in Requests, NEW u \in Nat, NEW t \in Nat, NEW i \in Nat, NEW j \in Nat,
               Carries(u, i, r)', Carries(t, j, r)'
        PROVE  u = t /\ i = j
    <3>1. CASE Carries(u, i, r)
      BY <2>2, <2>3, <3>1 DEF IndInv, PlaceInv
    <3>2. CASE ~Carries(u, i, r)
      <4>1. /\ u = socket
            /\ i - Len(sockets[u].out) \in Nat /\ Waits(i - Len(sockets[u].out), r)
        BY <2>2, <2>3, <3>2
      <4>2. ~Carries(t, j, r)
        BY <4>1 DEF IndInv, PlaceInv
      <4>3. /\ t = socket
            /\ j - Len(sockets[t].out) \in Nat /\ Waits(j - Len(sockets[t].out), r)
        BY <2>2, <2>3, <4>2
      <4>4. i - Len(sockets[u].out) = j - Len(sockets[u].out)
        BY <4>1, <4>3 DEF IndInv, PlaceInv
      <4>5. sockets[u] \in Socket
        BY <1>0, <1>5, <2>3 DEF Carries
      <4>6. Len(sockets[u].out) \in Nat
        BY <4>5 DEF Socket
      <4> QED
        BY <4>1, <4>3, <4>4, <4>6
    <3> QED
      BY <3>1, <3>2
  <2>4. ASSUME NEW r \in Requests, received[r] = 1 \/ promise[r] = "unsent",
               NEW u \in Nat, NEW i \in Nat
        PROVE  ~Carries(u, i, r)'
    BY <2>2, <2>4 DEF IndInv, PlaceInv
  <2>5. \A r \in Requests : /\ received[r] \in {0, 1}
                            /\ promise[r] = "unsent" => received[r] = 0
    BY DEF IndInv, PlaceInv
  <2> QED
    BY <1>1, <2>1, <2>3, <2>4, <2>5 DEF PlaceInv
<1> QED
  BY <1>6, <1>8, <1>9, <1>10 DEF IndInv

\* The places of the requests after a new message of request r has been put
\* in one place, or nowhere.
OnePlaceFor(r) ==
    /\ \A q \in Requests \ {r} :
         /\ \A i \in Nat : Waits(i, q)' => Waits(i, q)
         /\ \A t, i \in Nat : Carries(t, i, q)' => Carries(t, i, q)
    /\ \/ /\ \E k \in Nat : \A i \in Nat : Waits(i, r)' => i = k
          /\ \A t, i \in Nat : ~Carries(t, i, r)'
       \/ /\ \A i \in Nat : ~Waits(i, r)'
          /\ \E u, k \in Nat : \A t, i \in Nat : Carries(t, i, r)' => t = u /\ i = k

\* What send(m) leaves behind, in each of its three cases.
LEMMA SendEffect ==
  ASSUME IndInv, NEW m \in Message, promise[m.request] = "unsent", send(m),
         UNCHANGED <<connected, reconnect>>
  PROVE  /\ sockets' \in Seq(Socket) /\ socket' \in 0 .. Len(sockets')
         /\ pendingData' \in Seq(Message)
         /\ \A n \in Message : Travels(n)' => Travels(n) \/ n = m \/ n \in pendingMessages'
         /\ OnePlaceFor(m.request)
<1>0. /\ sockets \in Seq(Socket) /\ pendingData \in Seq(Message) /\ socket \in 0 .. Len(sockets)
      /\ m.request \in Requests /\ DOMAIN sockets \subseteq Nat
  BY DEF IndInv, TypeInv, Message
<1>1. /\ \A i \in Nat : ~Waits(i, m.request)
      /\ \A t, i \in Nat : ~Carries(t, i, m.request)
  BY <1>0 DEF IndInv, PlaceInv
<1>2. CASE /\ sockets' = Written(sockets, socket, <<m>>)
           /\ UNCHANGED <<socket, pendingData>>
  <2>1. <<m>> \in Seq(Message) /\ \A i \in DOMAIN <<m>> : i = 1 /\ <<m>>[i] = m
    OBVIOUS
  <2>2. WritesTo(sockets, <<m>>)
    BY <1>0, <1>2 DEF WritesTo
  <2>3. /\ sockets' \in Seq(Socket) /\ Len(sockets') = Len(sockets)
        /\ \A t \in DOMAIN sockets' : sockets'[t].in = sockets[t].in
        /\ \A t \in DOMAIN sockets' : \A i \in DOMAIN sockets'[t].out :
             \/ i \in DOMAIN sockets[t].out /\ sockets'[t].out[i] = sockets[t].out[i]
             \/ /\ t = socket
                /\ i - Len(sockets[t].out) = 1
                /\ sockets'[t].out[i] = m
    <3> HIDE DEF WritesTo
    <3>1. /\ sockets' \in Seq(Socket) /\ Len(sockets') = Len(sockets)
          /\ \A t \in DOMAIN sockets' : sockets'[t].in = sockets[t].in
          /\ \A t \in DOMAIN sockets' : \A i \in DOMAIN sockets'[t].out :
               \/ i \in DOMAIN sockets[t].out /\ sockets'[t].out[i] = sockets[t].out[i]
               \/ /\ t = socket
                  /\ i \notin DOMAIN sockets[t].out
                  /\ i - Len(sockets[t].out) \in DOMAIN <<m>>
                  /\ i - Len(sockets[t].out) \in Nat
                  /\ sockets'[t].out[i] = <<m>>[i - Len(sockets[t].out)]
      BY <2>1, <2>2, WritesToEffect DEF IndInv
    <3> QED
      BY <2>1, <3>1
  <2>4. DOMAIN sockets' = DOMAIN sockets
    BY <1>0, <2>3
  <2>5. ASSUME NEW n \in Message, Travels(n)'
        PROVE  Travels(n) \/ n = m \/ n \in pendingMessages'
    BY <1>2, <2>3, <2>4, <2>5 DEF Travels
  <2>6. \A i, q : Waits(i, q)' => Waits(i, q)
    BY <1>2 DEF Waits
  <2>7. \A t, i, q : Carries(t, i, q)' =>
          \/ Carries(t, i, q)
          \/ t = socket /\ i - Len(sockets[t].out) = 1 /\ q = m.request
    BY <2>3, <2>4 DEF Carries
  <2>8. \E u, k \in Nat : \A t, i \in Nat : Carries(t, i, m.request)' => t = u /\ i = k
    <3>1. CASE socket = 0
      <4>1. ASSUME NEW t \in Nat, NEW i \in Nat PROVE ~Carries(t, i, m.request)'
        <5>1. Carries(t, i, m.request)' => t \in DOMAIN sockets /\ t # 0
          BY <1>0, <2>4 DEF Carries
        <5> QED
          BY <1>1, <2>7, <3>1, <5>1
      <4> QED
        BY <4>1
    <3>2. CASE socket # 0
      <4>1. sockets[socket] \in Socket
        BY <1>0, <3>2
      <4>2. Len(sockets[socket].out) \in Nat
        BY <4>1 DEF Socket
      <4>3. \A t, i \in Nat : Carries(t, i, m.request)' =>
              t = socket /\ i = Len(sockets[socket].out) + 1
        BY <1>1, <2>7, <4>2
      <4>4. socket \in Nat /\ Len(sockets[socket].out) + 1 \in Nat
        BY <1>0, <4>2
      <4> QED
        BY <4>3, <4>4
    <3> QED
      BY <3>1, <3>2
  <2>9. OnePlaceFor(m.request)
    <3>1. ASSUME NEW q \in Requests \ {m.request}
          PROVE  /\ \A i \in Nat : Waits(i, q)' => Waits(i, q)
                 /\ \A t, i \in Nat : Carries(t, i, q)' => Carries(t, i, q)
      BY <2>6, <2>7
    <3>2. \A i \in Nat : ~Waits(i, m.request)'
      BY <1>1, <2>6
    <3> QED
      BY <2>8, <3>1, <3>2 DEF OnePlaceFor
  <2> QED
    BY <1>0, <1>2, <2>3, <2>5, <2>9
<1>3. CASE pendingData' = Append(pendingData, m) /\ connect
  <2>1. /\ sockets' \in Seq(Socket)
        /\ socket' \in 0 .. Len(sockets')
        /\ \A t \in DOMAIN sockets' :
             IF t \in DOMAIN sockets THEN sockets'[t] = sockets[t] ELSE sockets'[t] = NewSocket
    BY <1>3, ConnectEffect DEF IndInv
  <2>2. /\ pendingData' \in Seq(Message)
        /\ \A i \in DOMAIN pendingData' :
             \/ i \in DOMAIN pendingData /\ pendingData'[i] = pendingData[i]
             \/ i = Len(pendingData) + 1 /\ pendingData'[i] = m
    BY <1>0, <1>3
  <2>3. ASSUME NEW n \in Message, Travels(n)'
        PROVE  Travels(n) \/ n = m \/ n \in pendingMessages'
    BY <2>1, <2>2, <2>3, NewSocketType DEF Travels
  <2>4. \A i, q : Waits(i, q)' =>
          Waits(i, q) \/ (i = Len(pendingData) + 1 /\ q = m.request)
    BY <2>2 DEF Waits
  <2>5. \A t, i, q : Carries(t, i, q)' => Carries(t, i, q)
    BY <2>1, NewSocketType DEF Carries
  <2>6. Len(pendingData) + 1 \in Nat
    BY <1>0
  <2>7. OnePlaceFor(m.request)
    BY <1>1, <2>4, <2>5, <2>6 DEF OnePlaceFor
  <2> QED
    BY <2>1, <2>2, <2>3, <2>7
<1>4. CASE UNCHANGED <<sockets, socket, pendingData>>
  <2>1. ASSUME NEW n \in Message, Travels(n)'
        PROVE  Travels(n) \/ n = m \/ n \in pendingMessages'
    BY <1>4, <2>1 DEF Travels
  <2>2. (\A i, q : Waits(i, q)' => Waits(i, q)) /\ (\A t, i, q : Carries(t, i, q)' => Carries(t, i, q))
    BY <1>4 DEF Waits, Carries
  <2>3. OnePlaceFor(m.request)
    BY <1>1, <2>2 DEF OnePlaceFor
  <2> QED
    BY <1>0, <1>4, <2>1, <2>3
<1> QED
  BY <1>2, <1>3, <1>4 DEF send

LEMMA SendMessageStep ==
  ASSUME IndInv, NEW r \in Requests, SendMessage(r)
  PROVE  IndInv'
<1> DEFINE m == [request |-> r, sequence |-> sequence]
<1>1. /\ promise[r] = "unsent" /\ sequence < MaxSequence
      /\ sequence' = sequence + 1
      /\ pendingMessages' = {n \in pendingMessages : n.sequence # sequence} \cup {m}
      /\ timeouts' = timeouts \cup {m}
      /\ send(m)
      /\ promise' = [promise EXCEPT ![r] = "pending"]
      /\ UNCHANGED <<connected, reconnect, answer, received, resets>>
  BY DEF SendMessage, NextSequence
<1>2. m \in Message /\ m.request = r /\ m.sequence = sequence
  BY <1>1, EndpointAssumption DEF IndInv, TypeInv, Message
<1> HIDE DEF m
<1>3. /\ sockets' \in Seq(Socket) /\ socket' \in 0 .. Len(sockets')
      /\ pendingData' \in Seq(Message)
      /\ \A n \in Message : Travels(n)' => Travels(n) \/ n = m \/ n \in pendingMessages'
      /\ OnePlaceFor(r)
  BY <1>1, <1>2, SendEffect
<1>4. promise' \in [Requests -> Promises]
  BY <1>1 DEF IndInv, TypeInv, Promises
<1>5. TypeInv'
  BY <1>1, <1>2, <1>3, <1>4 DEF IndInv, TypeInv
<1>6. \A n \in Message : Travels(n)' => Travels(n) \/ n = m
  BY <1>1, <1>3 DEF Travels
<1>7. NumbersInv'
  <2> SUFFICES ASSUME resets = 0
               PROVE  /\ \A n \in Message : Travels(n)' => n.sequence < sequence + 1
                      /\ \A n, k \in Message :
                           Travels(n)' /\ Travels(k)' /\ n.sequence = k.sequence => n = k
    BY <1>1 DEF NumbersInv
  <2>1. /\ \A n \in Message : n.sequence \in Nat
        /\ sequence \in Nat
    BY EndpointAssumption DEF Message, IndInv, TypeInv
  <2>2. \A n \in Message : Travels(n) => n.sequence < sequence
    BY DEF IndInv, NumbersInv
  <2>3. \A n, k \in Message : Travels(n) /\ Travels(k) /\ n.sequence = k.sequence => n = k
    BY DEF IndInv, NumbersInv
  <2> QED
    BY <1>2, <1>6, <2>1, <2>2, <2>3
<1>8. AnswersMatch'
  BY <1>1 DEF IndInv, AnswersMatch
<1>9. PlaceInv'
  <2> SUFFICES ASSUME NEW q \in Requests
               PROVE  /\ received[q] \in {0, 1}
                      /\ \A i, j \in Nat : Waits(i, q)' /\ Waits(j, q)' => i = j
                      /\ \A u, t, i, j \in Nat :
                           Carries(u, i, q)' /\ Carries(t, j, q)' => u = t /\ i = j
                      /\ \A u, i, j \in Nat : ~(Carries(u, i, q)' /\ Waits(j, q)')
                      /\ received[q] = 1 \/ promise'[q] = "unsent" =>
                           \A u, i \in Nat : ~Carries(u, i, q)' /\ ~Waits(i, q)'
                      /\ promise'[q] = "unsent" => received[q] = 0
    BY <1>1 DEF PlaceInv
  <2>1. CASE q = r
    <3>1. received[q] = 0 /\ promise'[q] = "pending"
      BY <1>1, <2>1 DEF IndInv, PlaceInv, TypeInv
    <3> QED
      BY <1>3, <2>1, <3>1 DEF OnePlaceFor
  <2>2. CASE q # r
    <3>1. promise'[q] = promise[q]
      BY <1>1, <2>2 DEF IndInv, TypeInv
    <3>2. /\ \A i \in Nat : Waits(i, q)' => Waits(i, q)
          /\ \A t, i \in Nat : Carries(t, i, q)' => Carries(t, i, q)
      BY <1>3, <2>2 DEF OnePlaceFor
    <3> QED
      BY <3>1, <3>2 DEF IndInv, PlaceInv
  <2> QED
    BY <2>1, <2>2
<1> QED
  BY <1>5, <1>7, <1>8, <1>9 DEF IndInv

----------------------------------------------------------------------------
(* The theorems *)

LEMMA StutterStep ==
  ASSUME IndInv, UNCHANGED vars
  PROVE  IndInv'
<1>1. UNCHANGED <<sockets, socket, pendingData, received, sequence, pendingMessages, timeouts,
                  promise, answer, resets>>
  BY DEF vars, endpoint, protocol
<1>2. TypeInv'
  BY <1>1 DEF IndInv, TypeInv
<1>3. Loses
  BY <1>1 DEF Loses, SocketLoses
<1> QED
  BY <1>1, <1>2, <1>3, LosesStep DEF IndInv, TypeInv

LEMMA Inductive == Spec => []IndInv
<1>1. Init => IndInv
  BY InitHolds
<1>2. IndInv /\ [Next]_vars => IndInv'
  <2> SUFFICES ASSUME IndInv, [Next]_vars
               PROVE  IndInv'
    OBVIOUS
  <2>1. CASE Connect \/ RetryTimer
    BY <2>1, ConnectStep
  <2>2. CASE Disconnect
    BY <2>2, DisconnectStep
  <2>3. CASE Reset
    BY <2>3, ResetStep
  <2>4. ASSUME NEW r \in Requests, SendMessage(r) PROVE IndInv'
    BY <2>4, SendMessageStep
  <2>5. ASSUME NEW s \in DOMAIN sockets, Event(s) PROVE IndInv'
    BY <2>5, ConnectEventStep, SocketGoesStep, DataStep, HandshakeStep, ServeStep DEF Event
  <2>6. ASSUME NEW m \in Message, Timeout(m) PROVE IndInv'
    BY <2>6, TimeoutStep
  <2>7. CASE UNCHANGED vars
    BY <2>7, StutterStep
  <2> QED
    BY <2>1, <2>2, <2>3, <2>4, <2>5, <2>6, <2>7 DEF Next
<1> QED
  BY <1>1, <1>2, PTL DEF Spec

\* While the handler is not reset, an answer that repeats the number of its
\* request settles that request or none, over any number of connections and
\* also when the server numbers other answers as it likes.
THEOREM AnswersCorrect == Spec => []AnswersMatch
<1>1. IndInv => AnswersMatch
  BY DEF IndInv
<1> QED
  BY <1>1, Inductive, PTL

\* A set with at most one element.
LEMMA AtMostOne ==
  ASSUME NEW S, \A x, y \in S : x = y
  PROVE  Cardinality(S) \in {0, 1} /\ (Cardinality(S) = 1 => S # {})
<1>1. CASE S = {}
  BY <1>1, FS_EmptySet
<1>2. ASSUME NEW x \in S PROVE Cardinality(S) = 1
  <2>1. S = {x}
    BY <1>2
  <2> QED
    BY <2>1, FS_Singleton
<1> QED
  BY <1>1, <1>2

\* Reconnections and retries never make the server see a request twice, and
\* a message is never in two places.
THEOREM DeliveredAtMostOnce == Spec => []DeliveredOnce
<1>1. IndInv => DeliveredOnce
  <2> SUFFICES ASSUME IndInv, NEW r \in Requests
               PROVE  received[r] + Cardinality(Occurrences(pendingData, r))
                        + Cardinality(UNION {{s} \X Occurrences(sockets[s].out, r) :
                                                s \in DOMAIN sockets}) <= 1
    BY DEF DeliveredOnce
  <2> DEFINE W == Occurrences(pendingData, r)
             C == UNION {{s} \X Occurrences(sockets[s].out, r) : s \in DOMAIN sockets}
  <2>1. pendingData \in Seq(Message) /\ sockets \in Seq(Socket)
    BY DEF IndInv, TypeInv
  <2>2. \A i \in W : i \in Nat /\ Waits(i, r)
    BY <2>1 DEF Occurrences, Waits
  <2>3. \A p \in C : \E s, i \in Nat : p = <<s, i>> /\ Carries(s, i, r)
    <3> SUFFICES ASSUME NEW s \in DOMAIN sockets, NEW i \in Occurrences(sockets[s].out, r)
                 PROVE  s \in Nat /\ i \in Nat /\ Carries(s, i, r)
      OBVIOUS
    <3>1. s \in Nat /\ sockets[s] \in Socket
      BY <2>1
    <3>2. sockets[s].out \in Seq(Message)
      BY <3>1 DEF Socket
    <3> QED
      BY <3>1, <3>2 DEF Occurrences, Carries
  <2> HIDE DEF W, C
  <2>4. /\ received[r] \in {0, 1}
        /\ \A i, j \in W : i = j
        /\ \A p, q \in C : p = q
        /\ W = {} \/ C = {}
        /\ received[r] = 1 => W = {} /\ C = {}
    BY <2>2, <2>3 DEF IndInv, PlaceInv
  <2>5. /\ Cardinality(W) \in {0, 1} /\ (Cardinality(W) = 1 => W # {})
        /\ Cardinality(C) \in {0, 1} /\ (Cardinality(C) = 1 => C # {})
    BY <2>4, AtMostOne
  <2>6. received[r] + Cardinality(W) + Cardinality(C) <= 1
    BY <2>4, <2>5
  <2> QED
    BY <2>6 DEF W, C
<1> QED
  BY <1>1, Inductive, PTL
=============================================================================

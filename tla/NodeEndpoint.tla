---------------------------- MODULE NodeEndpoint ----------------------------
(***************************************************************************)
(* The Node binding's NetworkEndpoint.js as a client, with the             *)
(* ProtocolHandler.js it owns.  Node runs one handler at a time to its end, *)
(* so a step is one call of the application, one socket event or one timer. *)
(*                                                                         *)
(* Every connect() makes a new socket; handlers stay attached to the old    *)
(* ones, which go on raising events.  A message is the number its header    *)
(* carries and, to tell messages with one number apart, the request it was  *)
(* made for.                                                                *)
(***************************************************************************)
EXTENDS Naturals, Sequences, FiniteSets

CONSTANTS Requests,      \* the calls of sendMessage
          MaxSockets,    \* bound on the sockets ever made
          maxRetries,    \* options.maxRetries
          MaxSequence,   \* bound on sequence
          MaxResets,     \* bound on calls of protocol.reset
          None           \* no request

ASSUME EndpointAssumption == /\ MaxSockets \in Nat
                             /\ maxRetries \in Nat
                             /\ MaxSequence \in Nat
                             /\ MaxResets \in Nat

VARIABLES sockets,       \* the sockets made so far
          socket,        \* this.socket as an index, 0 for null
          connected, retryCount, pendingData,   \* fields of the endpoint
          reconnect,     \* options.reconnect
          retries,       \* timers set by handleDisconnect that have not fired
          sequence,      \* next sequence number of the protocol handler
          pendingMessages,  \* its map, as a set of messages
          timeouts,      \* the timers of sendMessage that have not fired
          promise,       \* what has become of each request
          answer,        \* history: the request whose echoing answer settled a request
          received,      \* history: how often the server has got a request
          resets         \* history: calls of protocol.reset

endpoint == <<socket, connected, retryCount, pendingData, reconnect, retries>>
protocol == <<sequence, pendingMessages, timeouts, promise, answer, resets>>
vars == <<sockets, endpoint, protocol, received>>

Message == [request: Requests, sequence: 1..MaxSequence]

\* The answer to a message, under a number the server chooses: a server may
\* repeat the number of the message, but createHeader and polycall_protocol_send
\* number replies, like all messages, with a counter of the sender's own.
Reply == [to: Message, number: 1..MaxSequence]
Echoes(reply) == reply.number = reply.to.sequence

\* "failing": an error event is due; "closing": only the close event is.
Socket == [status: {"connecting", "open", "failing", "closing", "closed"},
           ended: {"no", "ending", "done"}, out: Seq(Message), in: Seq(Reply)]

NewSocket == [status |-> "connecting", ended |-> "no", out |-> <<>>, in |-> <<>>]

Init ==
    /\ sockets = <<>> /\ socket = 0
    /\ connected = FALSE /\ retryCount = 0 /\ pendingData = <<>>
    /\ reconnect = TRUE /\ retries = 0
    /\ sequence = 1 /\ pendingMessages = {} /\ timeouts = {}
    /\ promise = [r \in Requests |-> "unsent"]
    /\ answer = [r \in Requests |-> None]
    /\ received = [r \in Requests |-> 0]
    /\ resets = 0

-----------------------------------------------------------------------------
(* Sockets.                                                                *)

MayConnect == Len(sockets) < MaxSockets

\* connect(): this.socket is replaced, whatever has become of the old one.
connect ==
    /\ MayConnect
    /\ sockets' = Append(sockets, NewSocket)
    /\ socket' = Len(sockets) + 1

\* socket.write of some messages: kept until the socket connects; lost when
\* there is no socket or it is destroyed; an error after end().
Written(all, s, messages) ==
    IF messages = <<>> \/ s = 0 \/ all[s].status \notin {"connecting", "open"} THEN all
    ELSE IF all[s].ended = "no" THEN [all EXCEPT ![s].out = @ \o messages]
    ELSE [all EXCEPT ![s].status = "failing"]

\* handleDisconnect
handleDisconnect ==
    /\ connected' = FALSE
    /\ IF reconnect /\ retryCount < maxRetries
       THEN retryCount' = retryCount + 1 /\ retries' = retries + 1
       ELSE UNCHANGED <<retryCount, retries>>

-----------------------------------------------------------------------------
(* The application.                                                        *)

Connect ==
    /\ connect
    /\ UNCHANGED <<connected, retryCount, pendingData, reconnect, retries, protocol,
                   received>>

\* disconnect(): nothing without a socket.
Disconnect ==
    /\ socket # 0
    /\ sockets[socket].ended = "no"
    /\ reconnect' = FALSE
    /\ sockets' = [sockets EXCEPT ![socket].ended = "ending"]
    /\ UNCHANGED <<socket, connected, retryCount, pendingData, retries, protocol,
                   received>>

\* send(data): while there is no connection the data waits, and every call
\* starts a connection of its own; without reconnect it is lost.
send(m) ==
    \/ /\ connected
       /\ sockets' = Written(sockets, socket, <<m>>)
       /\ UNCHANGED <<socket, pendingData>>
    \/ /\ ~connected /\ reconnect
       /\ pendingData' = Append(pendingData, m)
       /\ connect
    \/ /\ ~connected /\ ~reconnect
       /\ UNCHANGED <<sockets, socket, pendingData>>

\* Mutant: the number is not counted up.
NextSequence_Same == sequence

\* createHeader
NextSequence == sequence + 1

\* sendMessage, and the send event it raises
SendMessage(r) ==
    /\ promise[r] = "unsent"
    /\ sequence < MaxSequence
    /\ LET m == [request |-> r, sequence |-> sequence] IN
        /\ sequence' = NextSequence
        /\ pendingMessages' =
            {n \in pendingMessages : n.sequence # sequence} \cup {m}
        /\ timeouts' = timeouts \cup {m}
        /\ send(m)
    /\ promise' = [promise EXCEPT ![r] = "pending"]
    /\ UNCHANGED <<connected, retryCount, reconnect, retries, answer, received, resets>>

\* Mutant: reset stops the timers of the messages it forgets.
Reset_StopsTimers ==
    /\ resets < MaxResets
    /\ resets' = resets + 1
    /\ sequence' = 1 /\ pendingMessages' = {} /\ timeouts' = {}
    /\ UNCHANGED <<sockets, endpoint, promise, answer, received>>

\* protocol.reset: the timers of the forgotten messages go on running.
Reset ==
    /\ resets < MaxResets
    /\ resets' = resets + 1
    /\ sequence' = 1 /\ pendingMessages' = {}
    /\ UNCHANGED <<sockets, endpoint, timeouts, promise, answer, received>>

-----------------------------------------------------------------------------
(* Events.                                                                 *)

\* Mutant: the data is written and stays in the queue.
Flush_Keeps(all) ==
    /\ sockets' = Written(all, socket, pendingData)
    /\ UNCHANGED pendingData

\* What waited goes to this.socket, which need not be the one connected.
Flush(all) ==
    /\ sockets' = Written(all, socket, pendingData)
    /\ pendingData' = <<>>

ConnectEvent(s) ==
    /\ sockets[s].status = "connecting"
    /\ connected' = TRUE /\ retryCount' = 0
    /\ Flush([sockets EXCEPT ![s].status = "open"])
    /\ UNCHANGED <<socket, reconnect, retries, protocol, received>>

\* The connection fails, breaks, or was written to after its end.  What was
\* on its way is lost.  Node raises close right after error.
ErrorEvent(s) ==
    /\ sockets[s].status \in {"connecting", "open", "failing"}
    /\ sockets' = [sockets EXCEPT ![s].status = "closing", ![s].in = <<>>, ![s].out = <<>>]
    /\ handleDisconnect
    /\ UNCHANGED <<socket, pendingData, reconnect, protocol, received>>

CloseEvent(s) ==
    /\ sockets[s].status = "closing"
    /\ sockets' = [sockets EXCEPT ![s].status = "closed"]
    /\ handleDisconnect
    /\ UNCHANGED <<socket, pendingData, reconnect, protocol, received>>

\* The callback of disconnect's end(): it clears this.socket.
EndCallback(s) ==
    /\ sockets[s].ended = "ending"
    /\ sockets[s].status # "connecting"
    /\ sockets' = [sockets EXCEPT ![s].ended = "done"]
    /\ socket' = 0
    /\ connected' = FALSE
    /\ UNCHANGED <<retryCount, pendingData, reconnect, retries, protocol, received>>

\* The timer of handleDisconnect.
RetryTimer ==
    /\ retries > 0
    /\ retries' = retries - 1
    /\ connect
    /\ UNCHANGED <<connected, retryCount, pendingData, reconnect, protocol, received>>

\* handleResponse ("resolved") and handleError ("rejected"): the message with
\* the number is settled; a number nobody waits for is ignored.
DataEvent(s, outcome) ==
    /\ sockets[s].status = "open"
    /\ sockets[s].in # <<>>
    /\ LET reply == Head(sockets[s].in)
           found == {m \in pendingMessages : m.sequence = reply.number}
           settled == {r \in Requests : promise[r] = "pending"
                                        /\ \E m \in found : m.request = r}
       IN  /\ pendingMessages' = pendingMessages \ found
           /\ promise' = [r \in Requests |->
                IF r \in settled THEN outcome ELSE promise[r]]
           /\ answer' = [r \in Requests |->
                IF r \in settled /\ Echoes(reply) THEN reply.to.request ELSE answer[r]]
    /\ sockets' = [sockets EXCEPT ![s].in = Tail(@)]
    /\ UNCHANGED <<endpoint, sequence, timeouts, resets, received>>

\* processMessage takes a data event for one message: half a message, or two
\* in one event, fail its checks and are dropped.
Garbled(s) ==
    /\ sockets[s].status = "open"
    /\ sockets[s].in # <<>>
    /\ sockets' = [sockets EXCEPT ![s].in = Tail(@)]
    /\ UNCHANGED <<endpoint, protocol, received>>

\* handleHandshake makes an answer, which uses up a number and is not sent.
HandshakeEvent(s) ==
    /\ sockets[s].status = "open"
    /\ sequence < MaxSequence
    /\ sequence' = NextSequence
    /\ UNCHANGED <<sockets, endpoint, pendingMessages, timeouts, promise, answer, resets,
                   received>>

\* The timer of sendMessage, which nothing ever stops: it removes whatever
\* message has its number now, and rejects its own request.
Timeout(m) ==
    /\ m \in timeouts
    /\ timeouts' = timeouts \ {m}
    /\ pendingMessages' = {n \in pendingMessages : n.sequence # m.sequence}
    /\ promise' = [promise EXCEPT ![m.request] =
                    IF @ = "pending" THEN "rejected" ELSE @]
    /\ UNCHANGED <<sockets, endpoint, sequence, answer, received, resets>>

-----------------------------------------------------------------------------
(* The server, and the end of a connection by it.                          *)

Serve(s) ==
    /\ sockets[s].status = "open"
    /\ sockets[s].out # <<>>
    /\ LET m == Head(sockets[s].out) IN
        /\ received' = [received EXCEPT ![m.request] = @ + 1]
        /\ \E replies \in {<<>>} \cup {<<reply>> : reply \in {x \in Reply : x.to = m}} :
            sockets' = [sockets EXCEPT ![s].out = Tail(@), ![s].in = @ \o replies]
    /\ UNCHANGED <<endpoint, protocol>>

PeerClose(s) ==
    /\ sockets[s].status = "open"
    /\ sockets[s].in = <<>>
    /\ sockets' = [sockets EXCEPT ![s].status = "closing", ![s].out = <<>>]
    /\ UNCHANGED <<endpoint, protocol, received>>

-----------------------------------------------------------------------------
Event(s) ==
    \/ ConnectEvent(s) \/ ErrorEvent(s) \/ CloseEvent(s) \/ EndCallback(s)
    \/ \E outcome \in {"resolved", "rejected"} : DataEvent(s, outcome)
    \/ Garbled(s) \/ HandshakeEvent(s) \/ Serve(s) \/ PeerClose(s)

Next ==
    \/ Connect \/ Disconnect \/ Reset \/ RetryTimer
    \/ \E r \in Requests : SendMessage(r)
    \/ \E s \in DOMAIN sockets : Event(s)
    \/ \E m \in Message : Timeout(m)

\* Node fires every timer it has set.
Fairness == \A m \in Message : WF_vars(Timeout(m))

Spec == Init /\ [][Next]_vars /\ Fairness
-----------------------------------------------------------------------------
(* Properties.                                                             *)

\* Every request comes to an end, by its answer or by its own timer, also when
\* its connection breaks, the answer is lost, or the handler is reset.
RequestsSettle ==
    \A r \in Requests : (promise[r] = "pending") ~> (promise[r] # "pending")

\* While the handler is not reset, an answer that carries the number of the
\* request it is for settles that request or none, however late and over
\* whichever connection it arrives, and whatever other answers have settled.
\* Nothing of the kind holds for answers numbered otherwise.
AnswersMatch ==
    resets = 0 => \A r \in Requests : answer[r] \in {r, None}

Occurrences(messages, r) == {i \in DOMAIN messages : messages[i].request = r}

\* Connections are tried again, messages are not: each is in one place at a
\* time, and the server gets it once at most.
DeliveredOnce ==
    \A r \in Requests :
        received[r] + Cardinality(Occurrences(pendingData, r))
            + Cardinality(UNION {{s} \X Occurrences(sockets[s].out, r) :
                                    s \in DOMAIN sockets}) <= 1
=============================================================================

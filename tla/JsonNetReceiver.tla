----------------------------- MODULE JsonNetReceiver -----------------------------
(****************************************************************************)
(* JsonNetReceiver: the accept loop, the sessions it owns, and the clients  *)
(* of the server.  Connections are opened, closed and broken by clients and *)
(* the network at any time; the handlers of the io_service run one at a     *)
(* time, in whatever order their events come.  A pending operation is bound *)
(* to the `this` of its session, so sessions_ must own that session until   *)
(* the operation's handler has run.                                         *)
(*                                                                          *)
(* A request is an event here: JsonNetSession models its bytes, and         *)
(* CodersRunner which of them end the process.                              *)
(****************************************************************************)
EXTENDS Integers, Sequences, SequencesExt, FiniteSets

CONSTANTS Clients,      \* a client is one connection
          Nobody,       \* in the place of the client of a session not accepted yet
          MaxRequests   \* bound: the requests of one client

ASSUME ClientsAssumption == IsFiniteSet(Clients)
ASSUME NobodyAssumption == Nobody \notin Clients
ASSUME MaxRequestsAssumption == MaxRequests \in Nat

VARIABLES
    orderly,     \* fixed at the start: clients close only when they have all their
                 \* replies, connections do not break and accept() does not fail
    client,      \* what a client made of its connection
    backlog,     \* connections the kernel has accepted for the acceptor
    requested,   \* how many requests a client sent
    deadly,      \* the clients whose last request ends the process when it is read
    read,        \* how many of them its session has read
    answered,    \* how many replies it has got, to the last byte
    sessions_,   \* the sessions the receiver owns, by their address
    peer,        \* the client a session was accepted for
    accepting,   \* the session the pending async_accept is bound to
    reading,     \* the sessions a pending async_read_some is bound to
    writing,     \* the sessions a pending async_write is bound to
    alive        \* no exception has left io_service::run

net_vars    == <<orderly, client, backlog, requested, deadly, answered>>
server_vars == <<read, sessions_, peer, accepting, reading, writing, alive>>
vars        == <<net_vars, server_vars>>

\* Addresses are not used twice: a new session could get that of one that is gone,
\* which only matters when a handler outlives its session.
Sessions == 1 .. Cardinality(Clients) + 1

\* start(): start_accept_ pushes the first session.
Init == /\ orderly \in BOOLEAN
        /\ client = [c \in Clients |-> "idle"]
        /\ backlog = << >>
        /\ requested = [c \in Clients |-> 0]
        /\ deadly = {}
        /\ read = [c \in Clients |-> 0]
        /\ answered = [c \in Clients |-> 0]
        /\ sessions_ = <<1>>
        /\ peer = [s \in Sessions |-> Nobody]
        /\ accepting = 1
        /\ reading = {}
        /\ writing = {}
        /\ alive = TRUE

--------------------------------------------------------------------------------
(* Clients and the network. *)

Connect(c) ==
    /\ client[c] = "idle"
    /\ client' = [client EXCEPT ![c] = "connected"]
    /\ backlog' = Append(backlog, c)
    /\ UNCHANGED <<orderly, requested, deadly, answered, server_vars>>

\* Some requests end the process: from_raw throws on what it cannot decode, and the
\* runner's handler uses the message of a result that has none.
SendRequest(c) ==
    /\ client[c] = "connected"
    /\ requested[c] < MaxRequests
    /\ answered[c] = requested[c]
    /\ requested' = [requested EXCEPT ![c] = @ + 1]
    /\ deadly' \in {deadly, deadly \union {c}}
    /\ UNCHANGED <<orderly, client, backlog, answered, server_vars>>

Close(c) ==
    /\ client[c] = "connected"
    /\ orderly => answered[c] = requested[c]
    /\ client' = [client EXCEPT ![c] = "closed"]
    /\ UNCHANGED <<orderly, backlog, requested, deadly, answered, server_vars>>

\* What the server's kernel makes of a connection that broke: it may have forgotten
\* the peer ("reset"), or still know it and fail the next operation, with error 10053,
\* WSAECONNABORTED, ("aborted") or another one ("failed").
Broken == {"reset", "aborted", "failed"}

\* The client resets the connection, or the network breaks it, or the kernel of a
\* client that closed resets it for a reply it does not want any more.
Break(c) ==
    /\ ~orderly
    /\ \/ client[c] = "connected"
       \/ client[c] = "closed" /\ read[c] > answered[c]
    /\ \E b \in Broken : client' = [client EXCEPT ![c] = b]
    /\ UNCHANGED <<orderly, backlog, requested, deadly, answered, server_vars>>

--------------------------------------------------------------------------------
(* The handlers of the receiver. *)

\* socket().remote_endpoint() throws when the connection is gone, out of the
\* handler and of io_service::run: the process ends.
RemoteEndpointThrows(c) == client[c] = "reset"

Die == /\ alive' = FALSE
       /\ UNCHANGED <<net_vars, read, sessions_, peer, accepting, reading, writing>>

\* handle_accept_ without an error: the session starts to read, and start_accept_
\* pushes the next one.
Accepted(c) ==
    /\ peer' = [peer EXCEPT ![accepting] = c]
    /\ reading' = reading \union {accepting}
    /\ sessions_' = Append(sessions_, accepting + 1)
    /\ accepting' = accepting + 1
    /\ backlog' = Tail(backlog)
    /\ UNCHANGED <<orderly, client, requested, deadly, answered, read, writing, alive>>

\* Mutant: start_accept_ is not called again.
HandleAcceptOnce ==
    /\ alive
    /\ backlog # << >>
    /\ accepting = 1
    /\ IF RemoteEndpointThrows(Head(backlog)) THEN Die ELSE Accepted(Head(backlog))

HandleAccept ==
    /\ alive
    /\ backlog # << >>
    /\ IF RemoteEndpointThrows(Head(backlog)) THEN Die ELSE Accepted(Head(backlog))

\* handle_accept_ with an error: the socket is not connected, so remote_endpoint()
\* throws before the error is looked at.
HandleAcceptError ==
    /\ alive
    /\ ~orderly
    /\ Die

--------------------------------------------------------------------------------
(* The handlers of the sessions. *)

\* Mutant: the vector loses its first session, whichever asked.
CloseFirstSession(s) == sessions_' = Tail(sessions_)

\* closeSession(s)
CloseSession(s) == sessions_' = RemoveFirst(sessions_, s)

\* Mutant: the bytes stay in the socket and are read again.
HandleRequestAgain(s) ==
    /\ requested[peer[s]] > read[peer[s]]
    /\ writing' = writing \union {s}
    /\ UNCHANGED <<net_vars, read, sessions_, peer, accepting, reading, alive>>

\* Mutant: no further read is started.
HandleRequestOnce(s) ==
    /\ requested[peer[s]] > read[peer[s]]
    /\ read' = [read EXCEPT ![peer[s]] = @ + 1]
    /\ writing' = writing \union {s}
    /\ reading' = reading \ {s}
    /\ UNCHANGED <<net_vars, sessions_, peer, accepting, alive>>

\* A read completes the next request of the client: the runner's handler sends the
\* reply, and the next read is started.
HandleRequest(s) ==
    /\ requested[peer[s]] > read[peer[s]]
    /\ read' = [read EXCEPT ![peer[s]] = @ + 1]
    /\ writing' = writing \union {s}
    /\ UNCHANGED <<net_vars, sessions_, peer, accepting, reading, alive>>

\* The request is one that ends the process.
HandleDeadlyRequest(s) ==
    /\ requested[peer[s]] > read[peer[s]]
    /\ peer[s] \in deadly
    /\ Die

\* Mutant: closeSession does not depend on the error.
HandleEofUnchecked(s) ==
    /\ \/ requested[peer[s]] = read[peer[s]]
       \/ client[peer[s]] \in {"aborted", "failed"}
    /\ CloseSession(s)
    /\ reading' = reading \ {s}
    /\ UNCHANGED <<net_vars, read, peer, accepting, writing, alive>>

\* Mutant: the end of the stream is printed like any other error.
HandleEofPrinted(s) ==
    /\ requested[peer[s]] = read[peer[s]]
    /\ client[peer[s]] = "closed"
    /\ reading' = reading \ {s}
    /\ UNCHANGED <<net_vars, read, sessions_, peer, accepting, writing, alive>>

\* A read completes with the end of the stream, behind the last request, or with error
\* 10053, in front of what was not read: the session is destroyed.
HandleEof(s) ==
    /\ \/ client[peer[s]] = "closed" /\ requested[peer[s]] = read[peer[s]]
       \/ client[peer[s]] = "aborted"
    /\ CloseSession(s)
    /\ reading' = reading \ {s}
    /\ UNCHANGED <<net_vars, read, peer, accepting, writing, alive>>

\* A read completes with another error: it is printed, no read is started, and the
\* session stays where it is.
HandleOtherError(s) ==
    /\ client[peer[s]] = "failed"
    /\ reading' = reading \ {s}
    /\ UNCHANGED <<net_vars, read, sessions_, peer, accepting, writing, alive>>

\* The handler of a read that is the last of its session.
ReadEnds(s) == IF RemoteEndpointThrows(peer[s]) THEN Die
               ELSE HandleEof(s) \/ HandleOtherError(s)

\* The handler of a read that brings a request.
ReadRequest(s) ==
    /\ ~RemoteEndpointThrows(peer[s])
    /\ \/ peer[s] \notin deadly /\ HandleRequest(s)
       \/ HandleDeadlyRequest(s)

HandleRead(s) ==
    /\ alive
    /\ s \in reading
    /\ ReadRequest(s) \/ ReadEnds(s)

\* The kernel takes the rest of a reply and the handler of the write, which does
\* nothing, runs.  A client that closed has no use for the reply.  If the connection
\* broke, the write failed, and remote_endpoint() throws, or it was over before.
\* The operation of a session that is gone was cancelled with its socket: the
\* handler looks at an object that is not there, which may go well or not.
HandleWrite(s) ==
    /\ alive
    /\ s \in writing
    /\ writing' = writing \ {s}
    /\ answered' = [answered EXCEPT ![peer[s]] = IF client[peer[s]] = "connected"
                                                 THEN @ + 1 ELSE @]
    /\ alive' \in IF Contains(sessions_, s) /\ ~RemoteEndpointThrows(peer[s])
                  THEN {TRUE} ELSE BOOLEAN
    /\ UNCHANGED <<orderly, client, backlog, requested, deadly, read, sessions_, peer, accepting,
                   reading>>

--------------------------------------------------------------------------------

ClientStep == \E c \in Clients : Connect(c) \/ SendRequest(c) \/ Close(c) \/ Break(c)

Next == \/ ClientStep
        \/ HandleAccept
        \/ HandleAcceptError
        \/ \E s \in Sessions : HandleRead(s) \/ HandleWrite(s)

Spec == Init /\ [][Next]_vars

\* The kernel and the io_service's thread get to every event.  Clients may stop at
\* any point.
Fairness == /\ WF_vars(HandleAccept)
            /\ \A s \in Sessions : WF_vars(HandleRead(s)) /\ WF_vars(HandleWrite(s))

FairSpec == Spec /\ Fairness

--------------------------------------------------------------------------------

TypeOK ==
    /\ orderly \in BOOLEAN
    /\ client \in [Clients -> {"idle", "connected", "closed"} \union Broken]
    /\ deadly \subseteq Clients
    /\ backlog \in Seq(Clients)
    /\ \A c \in Clients : answered[c] \in 0 .. read[c]
                          /\ read[c] \in 0 .. requested[c] /\ requested[c] \in 0 .. MaxRequests
    /\ sessions_ \in Seq(Sessions)
    /\ peer \in [Sessions -> Clients \union {Nobody}]
    /\ accepting \in Sessions
    /\ reading \subseteq Sessions
    /\ writing \subseteq Sessions
    /\ alive \in BOOLEAN

\* Whatever clients do, sessions_ owns each session a pending accept or read is bound
\* to, once, the accepting one last: no such handler finds its session gone.  What else
\* it owns are sessions that no handler can close any more, and it keeps those of broken
\* connections only, whose read error was printed (JsonNetReceiver.tcc:58-64, 69-75;
\* JsonNetSession.tcc:122-129).
SessionsOwned ==
    /\ IsInjective(sessions_)
    /\ reading \union {accepting} \subseteq ToSet(sessions_)
    /\ \A s \in ToSet(sessions_) \ (reading \union {accepting}) : client[peer[s]] = "failed"
    /\ accepting \notin reading
    /\ Last(sessions_) = accepting

\* No write outlives its session, as long as clients wait for their replies.
WritesOwned == orderly => writing \subseteq ToSet(sessions_)

\* A session is destroyed in one of two cases only: its client closed and everything it
\* asked was read, or its connection was aborted (JsonNetSession.tcc:126-127).
OnlyClosedReleased ==
    [][\A s \in ToSet(sessions_) \ ToSet(sessions_') :
          \/ client[peer[s]] = "closed" /\ read[peer[s]] = requested[peer[s]]
          \/ client[peer[s]] = "aborted"]_vars

\* A server whose clients are orderly stays up until a session reads a request that
\* ends the process.
DeadlyRequestArrived ==
    \E s \in reading : peer[s] \in deadly /\ requested[peer[s]] > read[peer[s]]

StaysAlive == orderly /\ ~alive => DeadlyRequestArrived

Served(c) == \E s \in reading : peer[s] = c

\* Every connection gets a session, or the process ended, or the connection is over.
EveryConnectionAccepted ==
    \A c \in Clients : client[c] = "connected" ~> (Served(c) \/ ~alive \/ client[c] # "connected")

\* The session of a client that closed, or whose connection was aborted, is destroyed,
\* unless the process ends or the connection fails in one of the other ways before.
EverySessionReleased ==
    \A c \in Clients : client[c] \in {"closed", "aborted"} ~>
        \/ \A s \in ToSet(sessions_) : peer[s] # c
          /\ ~Contains(backlog, c)
        \/ ~alive
        \/ client[c] \in {"reset", "failed"}

================================================================================

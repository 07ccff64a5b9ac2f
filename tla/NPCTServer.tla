------------------------------- MODULE NPCTServer -------------------------------
(****************************************************************************)
(* The server of example_main.cc: NetCodersRunner is a CodersRunner and a   *)
(* JsonNetReceiver at once.  main registers the coders before the receiver  *)
(* starts, and from then on the io_service thread runs the handlers of all  *)
(* sessions; the one that completes a packet runs the coders, pushes the    *)
(* result and starts to write the reply before it returns.                  *)
(*                                                                          *)
(* A step of the server is a step of the receiver, of the runner, or of     *)
(* both.  Clients wait for a reply before they send again: JsonNetSession   *)
(* shows what the buffer of a session does when they do not.                *)
(****************************************************************************)
EXTENDS Integers, Sequences, SequencesExt, FiniteSets

CONSTANTS Clients, Nobody, MaxRequests,            \* of JsonNetReceiver
          Coders, Name(_), Algorithms, Lower(_),   \* of CodersRunner
          Registry,   \* the coders in the order setupCodersRunner registers them
          Requests    \* the messages clients send

ASSUME RegistryAssumption ==
    /\ Registry \in Seq(Coders)
    /\ \A i, j \in DOMAIN Registry : Lower(Name(Registry[i])) = Lower(Name(Registry[j])) => i = j

ASSUME MaxRequestsIsNat == MaxRequests \in Nat

ASSUME NobodyIsNoCoder == Nobody \notin Coders

VARIABLES orderly, client, backlog, requested, read, answered, sessions_, peer, accepting,
          reading, writing, alive,
          coder_queue_, queue_, acquired, replies,
          asked,   \* the messages each client sent
          sent,    \* for each session, the reply its data_ holds
          got      \* the replies each client has, to the last byte

MaxMessages == Cardinality(Clients) * MaxRequests

\* Which requests end the process is for the runner to say: here they have a content.
Receiver == INSTANCE JsonNetReceiver WITH deadly <- {}
Runner   == INSTANCE CodersRunner

ASSUME RequestsAssumption == Requests \subseteq Runner!Messages

receiver_vars == <<orderly, client, backlog, requested, read, answered, sessions_, peer,
                   accepting, reading, writing>>
runner_vars   == <<coder_queue_, queue_, acquired, replies>>
talk_vars     == <<asked, sent, got>>
vars          == <<receiver_vars, runner_vars, talk_vars, alive>>

\* setupCodersRunner, then start().
Init == /\ Receiver!Init
        /\ coder_queue_ = Registry
        /\ queue_ = << >>
        /\ acquired = {}
        /\ replies = << >>
        /\ asked = [c \in Clients |-> << >>]
        /\ sent = [s \in Receiver!Sessions |-> << >>]
        /\ got = [c \in Clients |-> << >>]

--------------------------------------------------------------------------------

ClientSends(c, m) ==
    /\ Receiver!SendRequest(c)
    /\ asked' = [asked EXCEPT ![c] = Append(@, m)]
    /\ UNCHANGED <<runner_vars, sent, got>>

ClientMoves ==
    /\ \E c \in Clients : Receiver!Connect(c) \/ Receiver!Close(c) \/ Receiver!Break(c)
    /\ UNCHANGED <<runner_vars, talk_vars>>

Accept ==
    /\ Receiver!HandleAccept \/ Receiver!HandleAcceptError
    /\ UNCHANGED <<runner_vars, talk_vars>>

RequestArrived(s) ==
    /\ alive
    /\ s \in reading
    /\ requested[peer[s]] > read[peer[s]]
    /\ ~Receiver!RemoteEndpointThrows(peer[s])

\* The message whose last byte the session reads.
Message(s) == asked[peer[s]][read[peer[s]] + 1]

\* Mutant: the session of the newest connection is the one that replies.
ServeNewest(s) ==
    /\ RequestArrived(s)
    /\ Runner!HandleReceiveMessage(Message(s))
    /\ alive'
    /\ Receiver!HandleRequest(s)
    /\ sent' = [sent EXCEPT ![accepting - 1] = <<Last(replies')>>]
    /\ UNCHANGED <<asked, got>>

\* handle_read, commit, handle_receive_message_, commitMessage and send, up to the
\* return of the handler: the message has its reply, which the session's data_ now
\* holds, or the process is gone.
Serve(s) ==
    /\ RequestArrived(s)
    /\ Runner!HandleReceiveMessage(Message(s))
    /\ alive'
    /\ Receiver!HandleRequest(s)
    /\ sent' = [sent EXCEPT ![s] = <<Last(replies')>>]
    /\ UNCHANGED <<asked, got>>

ServeDies(s) ==
    /\ RequestArrived(s)
    /\ Runner!HandleReceiveMessage(Message(s))
    /\ ~alive'
    /\ Receiver!Die
    /\ UNCHANGED talk_vars

\* The other ends of a read: the stream is over, or the connection is.
ReadEnds(s) ==
    /\ alive
    /\ s \in reading
    /\ Receiver!ReadEnds(s)
    /\ UNCHANGED <<runner_vars, talk_vars>>

Deliver(s) ==
    /\ Receiver!HandleWrite(s)
    /\ got' = [c \in Clients |-> IF answered'[c] > answered[c] THEN got[c] \o sent[s] ELSE got[c]]
    /\ UNCHANGED <<runner_vars, asked, sent>>

Next == \/ \E c \in Clients, m \in Requests : ClientSends(c, m)
        \/ ClientMoves
        \/ Accept
        \/ \E s \in Receiver!Sessions : Serve(s) \/ ServeDies(s) \/ ReadEnds(s) \/ Deliver(s)

Spec == Init /\ [][Next]_vars

HandleRead(s) == Serve(s) \/ ServeDies(s) \/ ReadEnds(s)

\* As for the receiver: the kernel and the io_service thread get to every event.
Fairness == /\ WF_vars(Accept)
            /\ \A s \in Receiver!Sessions : WF_vars(HandleRead(s)) /\ WF_vars(Deliver(s))

FairSpec == Spec /\ Fairness

--------------------------------------------------------------------------------
(* What a request is worth, from the request and the list in example_main.cc *)
(* alone.                                                                     *)

Named(m)    == {c \in ToSet(Registry) : Lower(Name(c)) = Lower(m.algorithm)}
HasCoder(m) == Named(m) # {} /\ m.direction \in {1, 2}
ForCrc32(m) == HasCoder(m) /\ \E c \in Named(m) : Name(c) = "crc32"

\* CRC32Coder decodes nothing: its result has no message, which is sent all the same.
Fatal(m) == ForCrc32(m) /\ m.direction = 2

Replies(M) == [to : M, error : {0, 500, 555}, coder : Coders \union {Nobody}]

Answers(m) ==
    {r \in Replies({m}) :
        \/ /\ r.error = 0 /\ r.coder \in Named(m)
           /\ HasCoder(m) /\ m.input = "string" /\ ~Fatal(m)
        \/ /\ r.error = 500 /\ r.coder = Nobody
           /\ HasCoder(m) /\ m.input # "string" /\ ~Fatal(m)
        \/ /\ r.error = 555 /\ r.coder = Nobody
           /\ ~HasCoder(m)}

Service == INSTANCE CoderService WITH sheltered <- orderly, up <- alive

\* However the handlers of several sessions interleave, every client has its own
\* conversation: each reply answers the message it sent, in order and once, whatever
\* the others send (NetCodersRunner.cc:23-51), and only a request that is fatal ends
\* the service, for all of them.
ImplementsService == Service!Spec

\* A client that waits, which it does for each of its messages, gets its answer, unless
\* the service ended or the connection is over.
EveryMessageAnswered ==
    \A c \in Clients :
        Len(got[c]) < Len(asked[c])
            ~> (Len(got[c]) = Len(asked[c]) \/ ~alive \/ client[c] # "connected")

\* PRESERVE_ALL, over all sessions: every reply of a coder that was handed to send()
\* has its result in the queue, in the order of the replies, and no other reply has
\* one; clients cannot have more results of a coder than it made.  Nothing acquires
\* results, so the queue only grows (CodersRunner.cc:25-31).
RepliesHave(k) == {p \in Clients \X (1 .. MaxRequests) :
                      p[2] \in DOMAIN got[p[1]] /\ got[p[1]][p[2]].coder = k}

ResultsOfReplies ==
    /\ Runner!ResultsPreserved
    /\ \A k \in Coders : Cardinality(RepliesHave(k))
                           <= Cardinality({i \in DOMAIN queue_ : queue_[i].coder = k})

================================================================================

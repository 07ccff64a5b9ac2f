---------------------------- MODULE NPCTServerProofs ----------------------------
(****************************************************************************)
(* For any clients, requests, coders and registry, any number of each: the  *)
(* server implements CoderService (ServesEachClient).  The invariant says   *)
(* what ties a client's conversation to its session while handlers of other *)
(* sessions run between reading a request and the end of its reply.         *)
(****************************************************************************)
EXTENDS NPCTServer, SequenceLemmas, SequenceTheorems, FiniteSetTheorems, TLAPS

--------------------------------------------------------------------------------
(* The inductive invariant. *)

\* What may have become of a connection.
States == {"idle", "connected", "closed"} \union Receiver!Broken

\* The sessions that were given a connection.
Given == {s \in Receiver!Sessions : s < accepting}

Shapes ==
    /\ asked \in [Clients -> Seq(Requests)]
    /\ got \in [Clients -> Seq(Replies(Requests))]
    /\ {requested, read, answered} \subseteq [Clients -> Nat]
    /\ client \in [Clients -> States]
    /\ peer \in [Receiver!Sessions -> Clients \union {Nobody}]
    /\ sent \in [Receiver!Sessions -> Seq(Replies(Requests))]
    /\ backlog \in Seq(Clients)
    /\ sessions_ \in Seq(Nat)
    /\ replies \in Seq(Replies(Requests))
    /\ accepting \in Nat /\ reading \union writing \subseteq Nat
    /\ coder_queue_ = Registry
    /\ alive \in BOOLEAN

\* The conversations have the lengths that the receiver counts, and a client has at
\* most one request that is not answered.
Counted ==
    \A c \in Clients :
        /\ Len(asked[c]) = requested[c] /\ Len(got[c]) = answered[c]
        /\ answered[c] <= read[c] /\ read[c] <= requested[c]
        /\ requested[c] <= answered[c] + 1 /\ requested[c] <= MaxRequests

\* Whoever waits in the backlog or has a session has opened its connection; only such
\* sessions read and write.
Opened ==
    /\ \A i \in 1 .. Len(backlog) : client[backlog[i]] # "idle"
    /\ \A s \in Given : peer[s] \in Clients /\ client[peer[s]] # "idle"
    /\ \A s \in reading \union writing : s < accepting

\* A session is owned as long as it accepts or reads.
ReadersOwned == reading \union {accepting} \subseteq ToSet(sessions_)

Connected(s) == s \in Given /\ client[peer[s]] = "connected"

\* A write to a client that is still there holds the answer to the last request read
\* from it; no other session writes to that client, and the session is owned.
WritesAnswer ==
    \A s \in writing : Connected(s) =>
        /\ read[peer[s]] = answered[peer[s]] + 1
        /\ \E a \in Answers(asked[peer[s]][read[peer[s]]]) : sent[s] = <<a>>
        /\ s \in ToSet(sessions_)
        /\ \A t \in writing : Connected(t) /\ peer[t] = peer[s] => t = s

\* Orderly clients leave with all their answers, and connections do not break.
Orderliness ==
    orderly => /\ \A c \in Clients : client[c] \notin Receiver!Broken
               /\ \A c \in Clients : client[c] = "closed" => answered[c] = requested[c]
               /\ \A s \in writing : s \in Given => client[peer[s]] = "connected"

TalkInv == /\ Shapes
           /\ Counted
           /\ Opened
           /\ ReadersOwned
           /\ WritesAnswer
           /\ Orderliness

--------------------------------------------------------------------------------
(* What the runner makes of a message. *)

\* A message matches a coder of the registry if it has one by its name and direction.
LEMMA MatchingIsNamed ==
    ASSUME coder_queue_ = Registry, NEW m \in Requests
    PROVE  /\ Runner!Matching(m) # {} => HasCoder(m) /\ Runner!Chosen(m) \in Named(m)
           /\ Runner!Matching(m) = {} => ~HasCoder(m)
<1>1. DOMAIN Registry = 1 .. Len(Registry) /\ Len(Registry) \in Nat
  BY LenProperties, RegistryAssumption
<1>2. m.direction \in {1, 2, 3, 255}
  BY RequestsAssumption DEF Runner!Messages, Runner!Directions, Runner!MT_INPUT, Runner!MT_OUTPUT,
                            Runner!MT_NONE
<1>3. Runner!Matching(m) = {i \in 1 .. Len(Registry) :
          m.direction \in {1, 2} /\ Lower(Name(Registry[i])) = Lower(m.algorithm)}
  BY <1>1, <1>2 DEF Runner!Matching, Runner!CanProcess, Runner!MT_INPUT, Runner!MT_OUTPUT,
                    Runner!MT_NONE
<1>4. Named(m) = {Registry[i] : i \in {j \in 1 .. Len(Registry) :
                                          Lower(Name(Registry[j])) = Lower(m.algorithm)}}
  BY <1>1 DEF Named, ToSet
<1>5. ASSUME Runner!Matching(m) # {} PROVE HasCoder(m) /\ Runner!Chosen(m) \in Named(m)
  <2>1. Runner!Matching(m) \in SUBSET Nat
    BY <1>1, <1>3
  <2>2. Runner!Min(Runner!Matching(m)) = Min(Runner!Matching(m))
    BY DEF Runner!Min, Min
  <2>3. Runner!Min(Runner!Matching(m)) \in Runner!Matching(m)
    BY <1>5, <2>1, <2>2, FirstPlace
  <2> QED
    BY <1>3, <1>4, <2>3 DEF HasCoder, Runner!Chosen
<1>6. ASSUME HasCoder(m) PROVE Runner!Matching(m) # {}
  BY <1>3, <1>4, <1>6 DEF HasCoder
<1> QED
  BY <1>5, <1>6

\* The coder of a message is crc32's if any of that name is.
LEMMA OneNameEach ==
    ASSUME NEW m, NEW c \in Named(m)
    PROVE  HasCoder(m) => (ForCrc32(m) <=> Name(c) = "crc32")
<1>1. ASSUME NEW d \in Named(m) PROVE c = d
  <2>1. PICK i \in DOMAIN Registry, j \in DOMAIN Registry : c = Registry[i] /\ d = Registry[j]
    BY DEF Named, ToSet
  <2>2. Lower(Name(Registry[i])) = Lower(Name(Registry[j]))
    BY <2>1 DEF Named
  <2> QED
    BY <2>1, <2>2, RegistryAssumption
<1> QED
  BY <1>1 DEF ForCrc32

\* A message is answered with one of its answers, or it ends the process and is fatal.
LEMMA MessageServed ==
    ASSUME coder_queue_ = Registry, replies \in Seq(Replies(Requests)),
           NEW m \in Requests, Runner!HandleReceiveMessage(m)
    PROVE  /\ alive /\ coder_queue_' = coder_queue_
           /\ replies' \in Seq(Replies(Requests))
           /\ alive' \in BOOLEAN
           /\ alive' => Last(replies') \in Answers(m)
           /\ ~alive' => Fatal(m)
<1> DEFINE c == Runner!Chosen(m)
           M == Runner!Matching(m)
<1>1. alive /\ coder_queue_' = coder_queue_
  BY DEF Runner!HandleReceiveMessage
<1>2. /\ M # {} => HasCoder(m) /\ c \in Named(m)
      /\ M = {} => ~HasCoder(m)
  BY MatchingIsNamed
<1>3. M # {} => (Runner!Unimplemented(c, m) <=> Fatal(m))
  BY <1>2, OneNameEach DEF Runner!Unimplemented, Runner!MT_OUTPUT, Fatal
<1>4. \A d \in Named(m) : d \in Coders
  BY RegistryAssumption, ElementOfSeq, LenProperties DEF Named, ToSet
<1>5. Answers(m) \subseteq Replies(Requests)
  BY DEF Answers, Replies
<1> HIDE DEF c, M
<1>6. ASSUME NEW r \in Answers(m), replies' = Append(replies, r)
      PROVE  replies' \in Seq(Replies(Requests)) /\ Last(replies') = r
  <2>1. r \in Replies(Requests)
    BY <1>5
  <2>2. Len(replies) \in Nat /\ Len(replies') = Len(replies) + 1 /\ replies'[Len(replies) + 1] = r
    BY <1>6, <2>1, LenProperties, AppendProperties
  <2> QED
    BY <1>6, <2>1, <2>2, AppendProperties DEF Last
<1>7. CASE Runner!NoCoderFound(m)
  <2>1. Runner!ErrorReply(m, 555) \in Answers(m)
    BY <1>2, <1>7 DEF M, Runner!NoCoderFound, Runner!ErrorReply, Answers, Replies
  <2>2. replies' = Append(replies, Runner!ErrorReply(m, 555)) /\ alive' = alive
    BY <1>7 DEF Runner!NoCoderFound, Runner!E_NO_CODERS_FOUND
  <2> QED
    BY <1>1, <1>6, <2>1, <2>2
<1>8. CASE Runner!CoderThrows(m)
  <2>1. HasCoder(m) /\ m.input # "string" /\ ~Fatal(m)
    BY <1>2, <1>3, <1>8 DEF c, M, Runner!CoderThrows, Runner!Throws
  <2>2. Runner!ErrorReply(m, 500) \in Answers(m)
    BY <2>1 DEF Runner!ErrorReply, Answers, Replies
  <2>3. replies' = Append(replies, Runner!ErrorReply(m, 500)) /\ alive' = alive
    BY <1>8 DEF Runner!CoderThrows, Runner!E_INTERNAL_SERVER_ERROR
  <2> QED
    BY <1>1, <1>6, <2>2, <2>3
<1>9. CASE Runner!CoderSucceeds(m)
  <2>1. HasCoder(m) /\ m.input = "string" /\ ~Fatal(m) /\ c \in Named(m)
    BY <1>2, <1>3, <1>9 DEF c, M, Runner!CoderSucceeds, Runner!Throws
  <2>2. Runner!ResultReply(m) \in Answers(m)
    BY <1>4, <2>1 DEF c, Runner!ResultReply, Answers, Replies
  <2>3. replies' = Append(replies, Runner!ResultReply(m)) /\ alive' = alive
    BY <1>9 DEF Runner!CoderSucceeds
  <2> QED
    BY <1>1, <1>6, <2>2, <2>3
<1>10. CASE Runner!CoderGivesNoMessage(m)
  BY <1>1, <1>3, <1>10 DEF c, M, Runner!CoderGivesNoMessage
<1> QED
  BY <1>7, <1>8, <1>9, <1>10 DEF Runner!HandleReceiveMessage

--------------------------------------------------------------------------------
(* The steps of clients and of the acceptor.  Each keeps the invariant and is a *)
(* step of the service, or none.                                                *)

\* The lengths of the conversations, and the counters of the receiver, are naturals.
LEMMA Counters ==
    ASSUME TalkInv, NEW c \in Clients
    PROVE  /\ requested[c] \in Nat /\ read[c] \in Nat /\ answered[c] \in Nat
           /\ asked[c] \in Seq(Requests) /\ got[c] \in Seq(Replies(Requests))
           /\ Len(asked[c]) = requested[c] /\ Len(got[c]) = answered[c]
           /\ answered[c] <= read[c] /\ read[c] <= requested[c]
           /\ requested[c] <= answered[c] + 1 /\ requested[c] <= MaxRequests
           /\ client[c] \in States
  BY DEF TalkInv, Shapes, Counted

\* The messages of a client that was read, or can be.
LEMMA AskedAreRequests ==
    ASSUME TalkInv, NEW c \in Clients, NEW n \in 1 .. requested[c]
    PROVE  asked[c][n] \in Requests
  BY Counters, ElementOfSeq

LEMMA InitTalk == Init => TalkInv /\ Service!Init
<1> SUFFICES ASSUME Init PROVE TalkInv /\ Service!Init
  OBVIOUS
<1> USE DEF Init, Receiver!Init
<1>1. /\ << >> \in Seq(Requests) /\ << >> \in Seq(Replies(Requests)) /\ << >> \in Seq(Clients)
      /\ Len(<< >>) = 0
  OBVIOUS
<1>2. <<1>> \in Seq(Nat) /\ ToSet(<<1>>) = {1}
  BY DEF ToSet
<1>3. Shapes
  BY <1>1, <1>2 DEF Shapes, States
<1>4. Counted
  BY <1>1, MaxRequestsIsNat DEF Counted
<1>5. Given = {}
  BY DEF Given, Receiver!Sessions
<1>6. Opened /\ ReadersOwned /\ WritesAnswer /\ Orderliness
  BY <1>1, <1>2, <1>5 DEF Receiver!Broken, Opened, ReadersOwned, WritesAnswer, Orderliness, Connected
<1>7. Service!Init
  BY DEF Service!Init
<1> QED
  BY <1>3, <1>4, <1>6, <1>7 DEF TalkInv

\* A client asks when it has all its answers, so no write to it is on its way.
LEMMA SendStep ==
    ASSUME TalkInv, NEW c \in Clients, NEW m \in Requests, ClientSends(c, m)
    PROVE  TalkInv' /\ Service!Ask(c, m)
<1>1. /\ client[c] = "connected" /\ requested[c] < MaxRequests /\ answered[c] = requested[c]
      /\ requested' = [requested EXCEPT ![c] = @ + 1]
      /\ asked' = [asked EXCEPT ![c] = Append(@, m)]
      /\ UNCHANGED <<orderly, client, backlog, read, answered, sessions_, peer, accepting, reading,
                     writing, alive, coder_queue_, replies, sent, got>>
  BY DEF ClientSends, Receiver!SendRequest, Receiver!server_vars, runner_vars
<1>2. asked \in [Clients -> Seq(Requests)] /\ requested \in [Clients -> Nat]
  BY DEF TalkInv, Shapes
<1>3. /\ asked'[c] = Append(asked[c], m) /\ asked'[c] \in Seq(Requests)
      /\ Len(asked'[c]) = Len(asked[c]) + 1
      /\ \A n \in 1 .. Len(asked[c]) : asked'[c][n] = asked[c][n]
      /\ \A d \in Clients \ {c} : asked'[d] = asked[d]
      /\ asked' \in [Clients -> Seq(Requests)]
  BY <1>1, <1>2, AppendProperties
<1>4. /\ requested'[c] = requested[c] + 1
      /\ \A d \in Clients \ {c} : requested'[d] = requested[d]
      /\ requested' \in [Clients -> Nat]
  BY <1>1, <1>2
<1>5. Shapes'
  BY <1>1, <1>3, <1>4 DEF TalkInv, Shapes
<1>6. Counted'
  <2> SUFFICES ASSUME NEW d \in Clients
      PROVE  /\ Len(asked'[d]) = requested'[d] /\ Len(got[d]) = answered[d]
             /\ answered[d] <= read[d] /\ read[d] <= requested'[d]
             /\ requested'[d] <= answered[d] + 1 /\ requested'[d] <= MaxRequests
    BY <1>1 DEF Counted
  <2>1. CASE d = c
    BY <1>1, <1>3, <1>4, <2>1, Counters, MaxRequestsIsNat
  <2>2. CASE d # c
    BY <1>3, <1>4, <2>2, Counters
  <2> QED
    BY <2>1, <2>2
<1>7. Given' = Given /\ \A s : Connected(s)' <=> Connected(s)
  BY <1>1 DEF Given, Connected, Receiver!Sessions
<1>8. Opened' /\ ReadersOwned'
  BY <1>1, <1>7 DEF TalkInv, Opened, ReadersOwned, ToSet
<1>9. WritesAnswer'
  <2> SUFFICES ASSUME NEW s \in writing, Connected(s)
      PROVE  /\ read[peer[s]] = answered[peer[s]] + 1
             /\ \E a \in Answers(asked'[peer[s]][read[peer[s]]]) : sent[s] = <<a>>
             /\ s \in ToSet(sessions_)
             /\ \A t \in writing : Connected(t) /\ peer[t] = peer[s] => t = s
    BY <1>1, <1>7 DEF WritesAnswer
  <2>1. peer[s] \in Clients
    BY DEF TalkInv, Opened, Connected
  <2>2. peer[s] # c
    BY <1>1, Counters, <2>1 DEF TalkInv, WritesAnswer
  <2> QED
    BY <1>3, <2>1, <2>2 DEF TalkInv, WritesAnswer
<1>10. Orderliness'
  BY <1>1, <1>4, <1>7 DEF TalkInv, Orderliness
<1>11. Service!Ask(c, m)
  BY <1>1, Counters DEF Service!Ask, Service!Waiting
<1> QED
  BY <1>5, <1>6, <1>8, <1>9, <1>10, <1>11 DEF TalkInv

\* What a step does to the conversations that does not touch them.
LEMMA TalkUnchanged ==
    ASSUME TalkInv, UNCHANGED <<orderly, requested, read, answered, sessions_, peer, accepting,
                                reading, writing, coder_queue_, replies, asked, sent, got>>
    PROVE  /\ Counted' /\ ReadersOwned' /\ Given' = Given
           /\ (\A s \in writing : Connected(s)' => Connected(s)) => WritesAnswer'
<1>1. Counted' /\ ReadersOwned' /\ Given' = Given
  BY DEF TalkInv, Counted, ReadersOwned, Given, ToSet, Receiver!Sessions
<1>2. ASSUME \A s \in writing : Connected(s)' => Connected(s)
      PROVE  WritesAnswer'
  <2> SUFFICES ASSUME NEW s \in writing, Connected(s)'
      PROVE  /\ read[peer[s]] = answered[peer[s]] + 1
             /\ \E a \in Answers(asked[peer[s]][read[peer[s]]]) : sent[s] = <<a>>
             /\ s \in ToSet(sessions_)
             /\ \A t \in writing : Connected(t)' /\ peer[t] = peer[s] => t = s
    BY DEF WritesAnswer
  <2> QED
    BY <1>2 DEF TalkInv, WritesAnswer
<1> QED
  BY <1>1, <1>2

LEMMA ConnectStep ==
    ASSUME TalkInv, NEW c \in Clients, Receiver!Connect(c), UNCHANGED <<runner_vars, talk_vars>>
    PROVE  TalkInv' /\ UNCHANGED Service!vars
<1>1. /\ client[c] = "idle"
      /\ client' = [client EXCEPT ![c] = "connected"]
      /\ backlog' = Append(backlog, c)
      /\ UNCHANGED <<orderly, requested, read, answered, sessions_, peer, accepting, reading,
                     writing, alive, coder_queue_, replies, asked, sent, got>>
  BY DEF Receiver!Connect, Receiver!server_vars, runner_vars, talk_vars
<1>2. client \in [Clients -> States] /\ backlog \in Seq(Clients)
  BY DEF TalkInv, Shapes
<1>3. /\ client' \in [Clients -> States]
      /\ client'[c] = "connected" /\ \A d \in Clients \ {c} : client'[d] = client[d]
  BY <1>1, <1>2 DEF States
<1>4. /\ backlog' \in Seq(Clients) /\ Len(backlog) \in Nat /\ Len(backlog') = Len(backlog) + 1
      /\ backlog'[Len(backlog) + 1] = c
      /\ \A i \in 1 .. Len(backlog) : backlog'[i] = backlog[i] /\ backlog[i] \in Clients
  BY <1>1, <1>2, AppendProperties, LenProperties, ElementOfSeq
<1>5. \A s \in Given : peer[s] \in Clients /\ peer[s] # c
  BY <1>1 DEF TalkInv, Opened
<1>6. \A s : Connected(s)' <=> Connected(s)
  BY <1>1, <1>3, <1>5 DEF Connected, Given, Receiver!Sessions
<1>7. Counted' /\ ReadersOwned' /\ Given' = Given /\ WritesAnswer'
  BY <1>1, <1>6, TalkUnchanged
<1>8. Shapes'
  BY <1>1, <1>3, <1>4 DEF TalkInv, Shapes
<1>9. Opened'
  <2>1. \A i \in 1 .. Len(backlog') : client'[backlog'[i]] # "idle"
    BY <1>3, <1>4 DEF TalkInv, Opened
  <2>2. \A s \in Given : peer[s] \in Clients /\ client'[peer[s]] # "idle"
    BY <1>3, <1>5 DEF TalkInv, Opened
  <2> QED
    BY <1>1, <1>7, <2>1, <2>2 DEF TalkInv, Opened
<1>10. Orderliness'
  BY <1>1, <1>3, <1>5, <1>7 DEF TalkInv, Orderliness, Receiver!Broken
<1>11. UNCHANGED Service!vars
  BY <1>1 DEF Service!vars
<1> QED
  BY <1>7, <1>8, <1>9, <1>10, <1>11 DEF TalkInv

LEMMA LeaveStep ==
    ASSUME TalkInv, NEW c \in Clients, Receiver!Close(c) \/ Receiver!Break(c),
           UNCHANGED <<runner_vars, talk_vars>>
    PROVE  TalkInv' /\ UNCHANGED Service!vars
<1>1. /\ client[c] # "idle"
      /\ \E x \in {"closed"} \union Receiver!Broken :
            client' = [client EXCEPT ![c] = x] /\ (orderly => x = "closed")
      /\ orderly => answered[c] = requested[c]
      /\ UNCHANGED <<orderly, backlog, requested, read, answered, sessions_, peer, accepting, reading,
                     writing, alive, coder_queue_, replies, asked, sent, got>>
  BY DEF Receiver!Close, Receiver!Break, Receiver!server_vars, runner_vars, talk_vars
<1>2. client \in [Clients -> States] /\ backlog \in Seq(Clients)
  BY DEF TalkInv, Shapes
<1>3. /\ client' \in [Clients -> States]
      /\ client'[c] \in {"closed"} \union Receiver!Broken /\ (orderly => client'[c] = "closed")
      /\ \A d \in Clients \ {c} : client'[d] = client[d]
  BY <1>1, <1>2 DEF States
<1>4. \A i \in 1 .. Len(backlog) : backlog[i] \in Clients
  BY <1>2, ElementOfSeq
<1>5. \A s \in Given : peer[s] \in Clients
  BY DEF TalkInv, Opened
<1>6. \A s : Connected(s)' => Connected(s)
  BY <1>1, <1>3, <1>5 DEF Connected, Given, Receiver!Sessions, Receiver!Broken
<1>7. Counted' /\ ReadersOwned' /\ Given' = Given /\ WritesAnswer'
  BY <1>1, <1>6, TalkUnchanged
<1>8. Shapes'
  BY <1>1, <1>3 DEF TalkInv, Shapes
<1>9. Opened'
  <2> USE DEF Receiver!Broken
  <2>1. \A i \in 1 .. Len(backlog) : client'[backlog[i]] # "idle"
    BY <1>3, <1>4 DEF TalkInv, Opened
  <2>2. \A s \in Given : peer[s] \in Clients /\ client'[peer[s]] # "idle"
    BY <1>3, <1>5 DEF TalkInv, Opened
  <2> QED
    BY <1>1, <1>7, <2>1, <2>2 DEF TalkInv, Opened
<1>10. ASSUME orderly, NEW s \in writing, s \in Given PROVE client'[peer[s]] = "connected"
  <2>1. peer[s] \in Clients /\ client[peer[s]] = "connected"
    BY <1>5, <1>10 DEF TalkInv, Orderliness
  <2>2. read[peer[s]] = answered[peer[s]] + 1
    BY <1>10, <2>1 DEF TalkInv, WritesAnswer, Connected
  <2>3. peer[s] # c
    BY <1>1, <1>10, <2>2, Counters
  <2> QED
    BY <1>3, <2>1, <2>3
<1>11. Orderliness'
  <2>1. orderly => \A d \in Clients : client'[d] \notin Receiver!Broken
    BY <1>3 DEF TalkInv, Orderliness, Receiver!Broken
  <2>2. orderly => \A d \in Clients : client'[d] = "closed" => answered[d] = requested[d]
    BY <1>1, <1>3 DEF TalkInv, Orderliness
  <2> QED
    BY <1>1, <1>7, <1>10, <2>1, <2>2 DEF Orderliness
<1>12. UNCHANGED Service!vars
  BY <1>1 DEF Service!vars
<1> QED
  BY <1>7, <1>8, <1>9, <1>11, <1>12 DEF TalkInv

\* The process ends because a connection broke, which only orderly clients rule out.
LEMMA DieStep ==
    ASSUME TalkInv, alive, Receiver!Die, ~orderly, UNCHANGED <<runner_vars, talk_vars>>
    PROVE  TalkInv' /\ Service!Fail
<1>1. /\ alive' = FALSE
      /\ UNCHANGED <<orderly, client, backlog, requested, read, answered, sessions_, peer, accepting,
                     reading, writing, coder_queue_, replies, asked, sent, got>>
  BY DEF Receiver!Die, Receiver!net_vars, runner_vars, talk_vars
<1>2. Given' = Given /\ \A s : Connected(s)' <=> Connected(s)
  BY <1>1 DEF Given, Connected, Receiver!Sessions
<1>3. Counted' /\ ReadersOwned' /\ WritesAnswer'
  BY <1>1, <1>2, TalkUnchanged
<1>4. Shapes'
  BY <1>1 DEF TalkInv, Shapes
<1>5. Opened' /\ Orderliness'
  BY <1>1, <1>2 DEF TalkInv, Opened, Orderliness
<1>6. Service!Fail
  BY <1>1 DEF Service!Fail
<1> QED
  BY <1>3, <1>4, <1>5, <1>6 DEF TalkInv

\* handle_accept_ gives the session that waited to the oldest connection.
LEMMA AcceptedStep ==
    ASSUME TalkInv, backlog # << >>, Receiver!Accepted(Head(backlog)),
           UNCHANGED <<runner_vars, talk_vars>>
    PROVE  TalkInv' /\ UNCHANGED Service!vars
<1> DEFINE c == backlog[1]
           a == accepting
<1>1. /\ backlog \in Seq(Clients) /\ sessions_ \in Seq(Nat) /\ a \in Nat
      /\ peer \in [Receiver!Sessions -> Clients \union {Nobody}]
  BY DEF TalkInv, Shapes
<1>2. Len(backlog) \in Nat \ {0} /\ Head(backlog) = c /\ c \in Clients
  <2>1. Len(backlog) # 0 /\ Len(backlog) \in Nat
    BY <1>1, EmptySeq, LenProperties
  <2> QED
    BY <1>1, <2>1, ElementOfSeq, HeadTailProperties
<1>3. /\ peer' = [peer EXCEPT ![a] = c]
      /\ reading' = reading \union {a}
      /\ sessions_' = Append(sessions_, a + 1)
      /\ accepting' = a + 1
      /\ backlog' = Tail(backlog)
      /\ UNCHANGED <<orderly, client, requested, answered, read, writing, alive, coder_queue_, replies,
                     asked, sent, got>>
  BY <1>2 DEF Receiver!Accepted, runner_vars, talk_vars
<1>4. /\ backlog' \in Seq(Clients)
      /\ Len(backlog') = Len(backlog) - 1
      /\ \A i \in 1 .. Len(backlog') : backlog'[i] = backlog[i + 1] /\ i + 1 \in 1 .. Len(backlog)
  <2>1. backlog' \in Seq(Clients) /\ Len(backlog') = Len(backlog) - 1
    BY <1>1, <1>2, <1>3, HeadTailProperties, EmptySeq
  <2>2. \A i \in 1 .. Len(backlog) - 1 : backlog'[i] = backlog[i + 1]
    BY <1>1, <1>2, <1>3, HeadTailProperties, EmptySeq
  <2> QED
    BY <1>2, <2>1, <2>2
<1>5. sessions_' \in Seq(Nat) /\ ToSet(sessions_') = ToSet(sessions_) \union {a + 1}
  <2>1. /\ sessions_' \in Seq(Nat) /\ Len(sessions_) \in Nat
        /\ DOMAIN sessions_ = 1 .. Len(sessions_) /\ DOMAIN sessions_' = 1 .. Len(sessions_) + 1
        /\ \A i \in 1 .. Len(sessions_) : sessions_'[i] = sessions_[i]
        /\ sessions_'[Len(sessions_) + 1] = a + 1
    BY <1>1, <1>3, AppendProperties, LenProperties
  <2>2. \A i \in 1 .. Len(sessions_) + 1 : i \in 1 .. Len(sessions_) \/ i = Len(sessions_) + 1
    BY <2>1
  <2>3. ToSet(sessions_') \subseteq ToSet(sessions_) \union {a + 1}
    BY <2>1, <2>2 DEF ToSet
  <2>4. \A i \in 1 .. Len(sessions_) : i \in 1 .. Len(sessions_) + 1
    BY <2>1
  <2>5. Len(sessions_) + 1 \in 1 .. Len(sessions_) + 1
    BY <2>1
  <2>6. ToSet(sessions_) \subseteq ToSet(sessions_')
    BY <2>1, <2>4 DEF ToSet
  <2>7. a + 1 \in ToSet(sessions_')
    BY <2>1, <2>5 DEF ToSet
  <2> QED
    BY <2>1, <2>3, <2>6, <2>7
<1> HIDE DEF c, a
<1>6. /\ peer' \in [Receiver!Sessions -> Clients \union {Nobody}]
      /\ \A s \in Receiver!Sessions : peer'[s] = IF s = a THEN c ELSE peer[s]
  BY <1>1, <1>2, <1>3
<1>7. /\ \A s \in Given : s \in Receiver!Sessions /\ s < a
      /\ \A s \in Given' : s \in Receiver!Sessions /\ (s \in Given \/ s = a)
      /\ Given \subseteq Given'
      /\ \A s \in writing : s < a /\ s # a
      /\ \A s \in reading : s < a
  <2>1. Given = {s \in Receiver!Sessions : s < a} /\ Given' = {s \in Receiver!Sessions : s < a + 1}
    BY <1>3 DEF Given, Receiver!Sessions, a
  <2>2. \A s \in Receiver!Sessions : s \in Int
    BY DEF Receiver!Sessions
  <2>3. a \in Int /\ \A s \in reading \union writing : s < a
    BY <1>1 DEF TalkInv, Opened, a
  <2>4. \A s \in writing : s < a /\ s # a
    <3> SUFFICES ASSUME NEW s \in writing PROVE s < a /\ s # a
      OBVIOUS
    <3>1. s \in Int
      BY DEF TalkInv, Shapes
    <3> QED
      BY <2>3, <3>1
  <2>5. \A s \in Receiver!Sessions : s < a => s < a + 1
    BY <2>2, <2>3
  <2>6. \A s \in Receiver!Sessions : s < a + 1 => s < a \/ s = a
    BY <2>2, <2>3
  <2> HIDE DEF a
  <2> QED
    BY <2>1, <2>3, <2>4, <2>5, <2>6
<1>8. Shapes'
  <2>1. reading' \union writing \subseteq Nat /\ accepting' \in Nat
    <3>1. a + 1 \in Nat /\ a \in Nat
      BY <1>1
    <3>2. reading \union writing \subseteq Nat
      BY DEF TalkInv, Shapes
    <3> QED
      BY <1>3, <3>1, <3>2
  <2>2. /\ asked' \in [Clients -> Seq(Requests)]
        /\ got' \in [Clients -> Seq(Replies(Requests))]
        /\ {requested, read, answered}' \subseteq [Clients -> Nat]
        /\ client' \in [Clients -> States]
    BY <1>3 DEF TalkInv, Shapes
  <2>3. /\ sent' \in [Receiver!Sessions -> Seq(Replies(Requests))]
        /\ replies' \in Seq(Replies(Requests))
        /\ coder_queue_' = Registry /\ alive' \in BOOLEAN
    BY <1>3 DEF TalkInv, Shapes
  <2>4. reading' \union writing' \subseteq Nat
    BY <1>3, <2>1
  <2>5. backlog' \in Seq(Clients) /\ sessions_' \in Seq(Nat)
    BY <1>3, <1>4, <1>5
  <2> QED
    BY <1>6, <2>1, <2>2, <2>3, <2>4, <2>5 DEF Shapes
<1>9. Counted'
  BY <1>3 DEF TalkInv, Counted
<1>10. Opened'
  <2>1. \A i \in 1 .. Len(backlog') : client[backlog'[i]] # "idle"
    BY <1>4 DEF TalkInv, Opened
  <2>2. \A s \in Given' : peer'[s] \in Clients /\ client[peer'[s]] # "idle"
    <3>1. client[c] # "idle"
      BY <1>2 DEF TalkInv, Opened, c
    <3> QED
      BY <1>2, <1>6, <1>7, <3>1 DEF TalkInv, Opened
  <2>3. \A s \in reading' \union writing : s < a + 1
    <3>1. \A s \in reading \union writing : s \in Nat
      BY <1>1 DEF TalkInv, Shapes
    <3> QED
      BY <1>1, <1>3, <1>7, <3>1
  <2> QED
    BY <1>3, <2>1, <2>2, <2>3 DEF Opened
<1>11. ReadersOwned'
  BY <1>3, <1>5 DEF TalkInv, ReadersOwned, a
<1>12. \A s \in writing : (Connected(s)' <=> Connected(s)) /\ (s \in Given' => s \in Given /\ peer'[s] = peer[s])
  BY <1>3, <1>6, <1>7 DEF Connected
<1>13. WritesAnswer'
  <2> SUFFICES ASSUME NEW s \in writing, Connected(s)'
      PROVE  /\ read[peer'[s]] = answered[peer'[s]] + 1
             /\ \E x \in Answers(asked[peer'[s]][read[peer'[s]]]) : sent[s] = <<x>>
             /\ s \in ToSet(sessions_)'
             /\ \A t \in writing : Connected(t)' /\ peer'[t] = peer'[s] => t = s
    BY <1>3 DEF WritesAnswer
  <2>1. Connected(s) /\ peer'[s] = peer[s]
    BY <1>12 DEF Connected
  <2>2. \A t \in writing : Connected(t)' => Connected(t) /\ peer'[t] = peer[t]
    BY <1>12 DEF Connected
  <2> QED
    BY <1>5, <2>1, <2>2 DEF TalkInv, WritesAnswer
<1>14. Orderliness'
  BY <1>3, <1>12 DEF TalkInv, Orderliness
<1>15. UNCHANGED Service!vars
  BY <1>3 DEF Service!vars
<1> QED
  BY <1>8, <1>9, <1>10, <1>11, <1>13, <1>14, <1>15 DEF TalkInv

--------------------------------------------------------------------------------
(* The steps of sessions. *)

\* The request a session serves is the one its client waits for.
LEMMA RequestIsCurrent ==
    ASSUME TalkInv, NEW s \in Receiver!Sessions, RequestArrived(s)
    PROVE  /\ s \in Given /\ peer[s] \in Clients /\ alive
           /\ read[peer[s]] = answered[peer[s]] /\ requested[peer[s]] = answered[peer[s]] + 1
           /\ Message(s) \in Requests
           /\ Service!Waiting(peer[s]) /\ Service!Current(peer[s]) = Message(s)
           /\ client[peer[s]] # "reset" /\ (orderly => client[peer[s]] = "connected")
<1> DEFINE c == peer[s]
<1>1. s \in Given /\ c \in Clients /\ alive /\ requested[c] > read[c] /\ client[c] # "reset"
  BY DEF TalkInv, Opened, Given, RequestArrived, Receiver!RemoteEndpointThrows
<1>2. read[c] = answered[c] /\ requested[c] = answered[c] + 1 /\ answered[c] + 1 \in 1 .. requested[c]
  BY <1>1, Counters
<1>3. Message(s) = asked[c][answered[c] + 1] /\ Message(s) \in Requests
  BY <1>1, <1>2, AskedAreRequests DEF Message
<1>4. Service!Waiting(c) /\ Service!Current(c) = Message(s)
  BY <1>1, <1>2, <1>3, Counters DEF Service!Waiting, Service!Current
<1>5. orderly => client[c] = "connected"
  <2>1. client[c] \in {"idle", "connected", "closed"} \union Receiver!Broken
    BY <1>1, Counters DEF States
  <2>2. client[c] # "idle"
    BY <1>1 DEF TalkInv, Opened
  <2>3. orderly => client[c] # "closed"
    <3>1. answered[c] # requested[c]
      BY <1>1, <1>2, Counters
    <3> QED
      BY <1>1, <3>1 DEF TalkInv, Orderliness
  <2>4. orderly => client[c] \notin Receiver!Broken
    BY <1>1 DEF TalkInv, Orderliness
  <2> QED
    BY <2>1, <2>2, <2>3, <2>4
<1> QED
  BY <1>1, <1>2, <1>3, <1>4, <1>5

\* The reply a session starts to write is an answer to the request it has just read.
LEMMA ServeStep ==
    ASSUME TalkInv, NEW s \in Receiver!Sessions, Serve(s)
    PROVE  TalkInv' /\ UNCHANGED Service!vars
<1> DEFINE c == peer[s]
           m == Message(s)
<1>1. /\ s \in Given /\ c \in Clients /\ s \in reading /\ alive
      /\ read[c] = answered[c] /\ requested[c] = answered[c] + 1
      /\ m \in Requests /\ m = asked[c][read[c] + 1]
      /\ client[c] # "reset" /\ (orderly => client[c] = "connected")
  BY RequestIsCurrent DEF Serve, RequestArrived, Message
<1>2. /\ read' = [read EXCEPT ![c] = @ + 1]
      /\ writing' = writing \union {s}
      /\ sent' = [sent EXCEPT ![s] = <<Last(replies')>>]
      /\ alive'
      /\ UNCHANGED <<orderly, client, backlog, requested, answered, sessions_, peer, accepting, reading,
                     asked, got>>
  BY DEF Serve, Receiver!HandleRequest, Receiver!net_vars
<1>3. /\ coder_queue_' = coder_queue_ /\ replies' \in Seq(Replies(Requests))
      /\ alive' \in BOOLEAN /\ Last(replies') \in Answers(m)
  BY <1>1, <1>2, MessageServed DEF Serve, TalkInv, Shapes
<1>4. Last(replies') \in Replies(Requests)
  BY <1>1, <1>3 DEF Answers, Replies
<1>5. read \in [Clients -> Nat] /\ sent \in [Receiver!Sessions -> Seq(Replies(Requests))] /\ s \in Nat
  BY <1>1 DEF TalkInv, Shapes
<1> HIDE DEF c, m
<1>6. /\ read' \in [Clients -> Nat] /\ read'[c] = read[c] + 1
      /\ \A d \in Clients \ {c} : read'[d] = read[d]
  BY <1>1, <1>2, <1>5
<1>7. /\ sent' \in [Receiver!Sessions -> Seq(Replies(Requests))]
      /\ sent'[s] = <<Last(replies')>>
      /\ \A t \in Receiver!Sessions \ {s} : sent'[t] = sent[t]
  <2>1. <<Last(replies')>> \in Seq(Replies(Requests))
    BY <1>4
  <2> QED
    BY <1>2, <1>5, <2>1
<1>8. Given' = Given /\ \A t : Connected(t)' <=> Connected(t)
  BY <1>2 DEF Given, Connected, Receiver!Sessions
<1>9. Shapes'
  <2>1. {requested, read, answered}' \subseteq [Clients -> Nat]
    BY <1>2, <1>6 DEF TalkInv, Shapes
  <2>2. reading' \union writing' \subseteq Nat
    BY <1>2, <1>5 DEF TalkInv, Shapes
  <2> QED
    BY <1>2, <1>3, <1>7, <2>1, <2>2 DEF TalkInv, Shapes
<1>10. Counted'
  <2> SUFFICES ASSUME NEW d \in Clients
      PROVE  /\ Len(asked[d]) = requested[d] /\ Len(got[d]) = answered[d]
             /\ answered[d] <= read'[d] /\ read'[d] <= requested[d]
             /\ requested[d] <= answered[d] + 1 /\ requested[d] <= MaxRequests
    BY <1>2 DEF Counted
  <2>1. CASE d = c
    BY <1>1, <1>6, <2>1, Counters
  <2>2. CASE d # c
    BY <1>6, <2>2, Counters
  <2> QED
    BY <2>1, <2>2
<1>11. Opened' /\ ReadersOwned'
  BY <1>1, <1>2, <1>8 DEF TalkInv, Opened, ReadersOwned, ToSet
<1>12. \A t \in writing : Connected(t) => peer[t] # c /\ peer[t] \in Clients
  <2> SUFFICES ASSUME NEW t \in writing, Connected(t) PROVE peer[t] # c /\ peer[t] \in Clients
    OBVIOUS
  <2>1. peer[t] \in Clients /\ read[peer[t]] = answered[peer[t]] + 1
    BY DEF TalkInv, WritesAnswer, Opened, Connected
  <2> QED
    BY <1>1, <2>1, Counters
<1>13. WritesAnswer'
  <2> SUFFICES ASSUME NEW t \in writing', Connected(t)
      PROVE  /\ read'[peer[t]] = answered[peer[t]] + 1
             /\ \E a \in Answers(asked[peer[t]][read'[peer[t]]]) : sent'[t] = <<a>>
             /\ t \in ToSet(sessions_)
             /\ \A u \in writing' : Connected(u) /\ peer[u] = peer[t] => u = t
    BY <1>2, <1>8 DEF WritesAnswer, ToSet
  <2>1. CASE t = s
    <3>1. read'[c] = answered[c] + 1 /\ sent'[s] = <<Last(replies')>> /\ asked[c][read'[c]] = m
      BY <1>1, <1>6, <1>7
    <3>2. s \in ToSet(sessions_)
      BY <1>1 DEF TalkInv, ReadersOwned
    <3>3. \A u \in writing' : Connected(u) /\ peer[u] = c => u = s
      BY <1>2, <1>12
    <3> QED
      BY <1>3, <2>1, <3>1, <3>2, <3>3 DEF c
  <2>2. CASE t # s
    <3>1. t \in writing /\ peer[t] # c /\ peer[t] \in Clients /\ t \in Receiver!Sessions
      BY <1>2, <1>12, <2>2 DEF Connected, Given
    <3>2. read'[peer[t]] = read[peer[t]] /\ sent'[t] = sent[t]
      BY <1>6, <1>7, <2>2, <3>1
    <3>3. \A u \in writing' : Connected(u) /\ peer[u] = peer[t] => u \in writing
      BY <1>2, <3>1 DEF c
    <3> QED
      BY <3>1, <3>2, <3>3 DEF TalkInv, WritesAnswer
  <2> QED
    BY <2>1, <2>2
<1>14. Orderliness'
  BY <1>1, <1>2, <1>8 DEF TalkInv, Orderliness, c
<1>15. UNCHANGED Service!vars
  BY <1>1, <1>2, <1>3 DEF Service!vars
<1> QED
  BY <1>9, <1>10, <1>11, <1>13, <1>14, <1>15 DEF TalkInv

\* A message that ends the process is fatal, whatever the clients are like.
LEMMA ServeDiesStep ==
    ASSUME TalkInv, NEW s \in Receiver!Sessions, ServeDies(s)
    PROVE  TalkInv' /\ Service!Fail
<1> DEFINE c == peer[s]
<1>1. /\ c \in Clients /\ alive /\ Message(s) \in Requests
      /\ Service!Waiting(c) /\ Service!Current(c) = Message(s)
  BY RequestIsCurrent DEF ServeDies
<1>2. /\ alive' = FALSE
      /\ UNCHANGED <<orderly, client, backlog, requested, read, answered, sessions_, peer, accepting,
                     reading, writing, asked, sent, got>>
  BY DEF ServeDies, Receiver!Die, Receiver!net_vars, talk_vars
<1>3. coder_queue_' = coder_queue_ /\ replies' \in Seq(Replies(Requests)) /\ Fatal(Message(s))
  BY <1>1, MessageServed DEF ServeDies, TalkInv, Shapes
<1>4. Given' = Given /\ \A t : Connected(t)' <=> Connected(t)
  BY <1>2 DEF Given, Connected, Receiver!Sessions
<1>5. Shapes'
  BY <1>2, <1>3 DEF TalkInv, Shapes
<1>6. Counted' /\ ReadersOwned' /\ Opened' /\ Orderliness'
  BY <1>2, <1>4 DEF TalkInv, Counted, ReadersOwned, Opened, Orderliness, ToSet
<1>7. WritesAnswer'
  BY <1>2, <1>4 DEF TalkInv, WritesAnswer, ToSet
<1>8. Service!Fail
  BY <1>1, <1>2, <1>3 DEF Service!Fail
<1> QED
  BY <1>5, <1>6, <1>7, <1>8 DEF TalkInv

\* A session whose stream or connection is over is destroyed or forgotten: what it may
\* still write, no client waits for.
LEMMA ReadEndsStep ==
    ASSUME TalkInv, NEW s \in Receiver!Sessions, ReadEnds(s)
    PROVE  TalkInv' /\ (UNCHANGED Service!vars \/ Service!Fail)
<1> DEFINE c == peer[s]
<1>1. /\ alive /\ s \in reading /\ UNCHANGED <<runner_vars, talk_vars>>
      /\ \/ Receiver!HandleEof(s) \/ Receiver!HandleOtherError(s)
         \/ client[c] = "reset" /\ Receiver!Die
  BY DEF ReadEnds, Receiver!ReadEnds, Receiver!RemoteEndpointThrows
<1>2. s \in Given /\ c \in Clients
  BY <1>1 DEF TalkInv, Opened, Given
<1>3. CASE client[c] = "reset" /\ Receiver!Die
  <2>1. ~orderly
    BY <1>2, <1>3 DEF TalkInv, Orderliness, Receiver!Broken
  <2> QED
    BY <1>1, <1>3, <2>1, DieStep
<1>4. CASE Receiver!HandleOtherError(s)
  <2>1. /\ reading' = reading \ {s}
        /\ UNCHANGED <<orderly, client, backlog, requested, answered, read, sessions_, peer, accepting,
                       writing, alive, coder_queue_, replies, asked, sent, got>>
    BY <1>1, <1>4 DEF Receiver!HandleOtherError, Receiver!net_vars, runner_vars, talk_vars
  <2>2. Given' = Given /\ \A t : Connected(t)' <=> Connected(t)
    BY <2>1 DEF Given, Connected, Receiver!Sessions
  <2>3. Shapes' /\ Counted' /\ Opened' /\ Orderliness'
    BY <2>1, <2>2 DEF TalkInv, Shapes, Counted, Opened, Orderliness
  <2>4. ReadersOwned' /\ WritesAnswer'
    BY <2>1, <2>2 DEF TalkInv, ReadersOwned, WritesAnswer, ToSet
  <2>5. UNCHANGED Service!vars
    BY <2>1 DEF Service!vars
  <2> QED
    BY <2>3, <2>4, <2>5 DEF TalkInv
<1>5. CASE Receiver!HandleEof(s)
  <2>1. /\ client[c] # "connected"
        /\ sessions_' = Receiver!RemoveFirst(sessions_, s)
        /\ reading' = reading \ {s}
        /\ UNCHANGED <<orderly, client, backlog, requested, answered, read, peer, accepting, writing,
                       alive, coder_queue_, replies, asked, sent, got>>
    BY <1>1, <1>5 DEF Receiver!HandleEof, Receiver!CloseSession, Receiver!net_vars, runner_vars, talk_vars
  <2>2. Receiver!RemoveFirst(sessions_, s) = RemoveFirst(sessions_, s)
    BY DEF Receiver!RemoveFirst, RemoveFirst, Receiver!RemoveAt, RemoveAt,
           Receiver!SelectInSeq, SelectInSeq, Receiver!Min, Min
  <2>3. sessions_ \in Seq(Nat) /\ s \in ToSet(sessions_) /\ accepting \in ToSet(sessions_)
    BY <1>1 DEF TalkInv, Shapes, ReadersOwned
  <2>4. /\ sessions_' \in Seq(Nat)
        /\ \A x \in ToSet(sessions_) \ {s} : x \in ToSet(sessions_')
    <3>1. sessions_' \in Seq(Nat)
      BY <2>1, <2>2, <2>3, FirstRemoved
    <3> QED
      BY <2>1, <2>2, <2>3, <3>1, OthersStay
  <2>5. Given' = Given /\ \A t : Connected(t)' <=> Connected(t)
    BY <2>1 DEF Given, Connected, Receiver!Sessions
  <2>6. Shapes'
    BY <2>1, <2>4 DEF TalkInv, Shapes
  <2>7. Counted' /\ Opened' /\ Orderliness'
    BY <2>1, <2>5 DEF TalkInv, Counted, Opened, Orderliness
  <2>8. ReadersOwned'
    <3>1. accepting # s
      BY <1>2 DEF Given, TalkInv, Shapes
    <3> QED
      BY <2>1, <2>3, <2>4, <3>1 DEF TalkInv, ReadersOwned
  <2>9. WritesAnswer'
    <3> SUFFICES ASSUME NEW t \in writing, Connected(t)
        PROVE  /\ read[peer[t]] = answered[peer[t]] + 1
               /\ \E a \in Answers(asked[peer[t]][read[peer[t]]]) : sent[t] = <<a>>
               /\ t \in ToSet(sessions_')
               /\ \A u \in writing : Connected(u) /\ peer[u] = peer[t] => u = t
      BY <2>1, <2>5 DEF WritesAnswer, ToSet
    <3>1. t # s
      BY <2>1 DEF Connected
    <3> QED
      BY <2>4, <3>1 DEF TalkInv, WritesAnswer
  <2>10. UNCHANGED Service!vars
    BY <2>1 DEF Service!vars
  <2> QED
    BY <2>6, <2>7, <2>8, <2>9, <2>10 DEF TalkInv
<1> QED
  BY <1>1, <1>3, <1>4, <1>5

\* A client that is still there gets its answer whole, and only that client; if it is
\* not, a handler may find its session gone, which ends the process.
LEMMA DeliverStep ==
    ASSUME TalkInv, NEW s \in Receiver!Sessions, Deliver(s)
    PROVE  TalkInv' /\ [Service!Next]_(Service!vars)
<1> DEFINE c == peer[s]
<1>1. /\ alive /\ s \in writing
      /\ writing' = writing \ {s}
      /\ answered' = [answered EXCEPT ![c] = IF client[c] = "connected" THEN @ + 1 ELSE @]
      /\ alive' \in IF Receiver!Contains(sessions_, s) /\ client[c] # "reset" THEN {TRUE} ELSE BOOLEAN
      /\ got' = [d \in Clients |-> IF answered'[d] > answered[d] THEN got[d] \o sent[s] ELSE got[d]]
      /\ UNCHANGED <<orderly, client, backlog, requested, read, sessions_, peer, accepting, reading,
                     coder_queue_, replies, asked, sent>>
  BY DEF Deliver, Receiver!HandleWrite, Receiver!RemoteEndpointThrows, runner_vars
<1>2. s \in Given /\ c \in Clients /\ client[c] # "idle"
  BY <1>1 DEF TalkInv, Opened, Given
<1>3. answered \in [Clients -> Nat] /\ got \in [Clients -> Seq(Replies(Requests))] /\ alive' \in BOOLEAN
  BY <1>1 DEF TalkInv, Shapes
<1>4. Given' = Given /\ \A t : Connected(t)' <=> Connected(t)
  BY <1>1 DEF Given, Connected, Receiver!Sessions
<1> HIDE DEF c
<1>5. CASE client[c] = "connected"
  <2>1. PICK a \in Answers(asked[c][read[c]]) :
           /\ read[c] = answered[c] + 1 /\ sent[s] = <<a>> /\ s \in ToSet(sessions_)
           /\ \A t \in writing : Connected(t) /\ peer[t] = c => t = s
    BY <1>1, <1>2, <1>5 DEF TalkInv, WritesAnswer, Connected, c
  <2>2. requested[c] = answered[c] + 1 /\ asked[c][read[c]] \in Requests
    <3>1. requested[c] = answered[c] + 1 /\ read[c] \in 1 .. requested[c]
      BY <1>2, <2>1, Counters
    <3> QED
      BY <1>2, <3>1, AskedAreRequests
  <2>3. a \in Replies(Requests)
    BY <2>2 DEF Answers, Replies
  <2>4. /\ answered' \in [Clients -> Nat] /\ answered'[c] = answered[c] + 1
        /\ \A d \in Clients \ {c} : answered'[d] = answered[d]
    BY <1>1, <1>2, <1>3, <1>5
  <2>5. alive' = TRUE
    <3>1. Receiver!Contains(sessions_, s)
      BY <2>1 DEF Receiver!Contains, ToSet
    <3> QED
      BY <1>1, <1>5, <3>1
  <2>6. got[c] \o <<a>> = Append(got[c], a)
    <3>1. got[c] \in Seq(Replies(Requests))
      BY <1>2, <1>3
    <3> QED
      BY <2>3, <3>1, AppendIsConcat
  <2>7. got' = [got EXCEPT ![c] = Append(@, a)]
    <3>1. ASSUME NEW d \in Clients
          PROVE  got'[d] = IF d = c THEN Append(got[c], a) ELSE got[d]
      <4>1. got'[d] = IF answered'[d] > answered[d] THEN got[d] \o sent[s] ELSE got[d]
        BY <1>1
      <4>2. answered'[d] > answered[d] <=> d = c
        BY <1>2, <1>3, <2>4
      <4> QED
        BY <2>1, <2>6, <4>1, <4>2
    <3> QED
      BY <1>1, <1>3, <3>1
  <2>8. /\ got' \in [Clients -> Seq(Replies(Requests))]
        /\ Len(got'[c]) = Len(got[c]) + 1
        /\ \A d \in Clients \ {c} : got'[d] = got[d]
    <3>1. got[c] \in Seq(Replies(Requests))
      BY <1>2, <1>3
    <3>2. Append(got[c], a) \in Seq(Replies(Requests)) /\ Len(Append(got[c], a)) = Len(got[c]) + 1
      BY <2>3, <3>1, AppendProperties
    <3> QED
      BY <1>2, <1>3, <2>7, <3>2
  <2>9. Shapes'
    BY <1>1, <2>4, <2>5, <2>8 DEF TalkInv, Shapes
  <2>10. Counted'
    <3> SUFFICES ASSUME NEW d \in Clients
        PROVE  /\ Len(asked[d]) = requested[d] /\ Len(got'[d]) = answered'[d]
               /\ answered'[d] <= read[d] /\ read[d] <= requested[d]
               /\ requested[d] <= answered'[d] + 1 /\ requested[d] <= MaxRequests
      BY <1>1 DEF Counted
    <3>1. CASE d = c
      BY <2>1, <2>2, <2>4, <2>8, <3>1, Counters
    <3>2. CASE d # c
      BY <2>4, <2>8, <3>2, Counters
    <3> QED
      BY <3>1, <3>2
  <2>11. Opened' /\ ReadersOwned'
    BY <1>1, <1>4 DEF TalkInv, Opened, ReadersOwned, ToSet
  <2>12. WritesAnswer'
    <3> SUFFICES ASSUME NEW t \in writing', Connected(t)
        PROVE  /\ read[peer[t]] = answered'[peer[t]] + 1
               /\ \E x \in Answers(asked[peer[t]][read[peer[t]]]) : sent[t] = <<x>>
               /\ t \in ToSet(sessions_)
               /\ \A u \in writing' : Connected(u) /\ peer[u] = peer[t] => u = t
      BY <1>1, <1>4 DEF WritesAnswer, ToSet
    <3>1. t \in writing /\ t # s /\ peer[t] \in Clients
      BY <1>1 DEF TalkInv, Opened, Connected
    <3>2. peer[t] # c
      BY <2>1, <3>1
    <3> QED
      BY <1>1, <2>4, <3>1, <3>2 DEF TalkInv, WritesAnswer
  <2>13. Orderliness'
    <3>1. orderly => \A d \in Clients : client[d] = "closed" => answered'[d] = requested[d]
      BY <1>5, <2>4 DEF TalkInv, Orderliness
    <3> QED
      BY <1>1, <1>4, <3>1 DEF TalkInv, Orderliness
  <2>14. Service!Answer(c)
    <3>1. Service!Waiting(c) /\ Service!Current(c) = asked[c][read[c]]
      BY <1>2, <2>1, <2>2, Counters DEF Service!Waiting, Service!Current
    <3> QED
      BY <1>1, <2>1, <2>5, <2>7, <3>1 DEF Service!Answer
  <2> QED
    BY <1>2, <2>9, <2>10, <2>11, <2>12, <2>13, <2>14 DEF TalkInv, Service!Next
<1>6. CASE client[c] # "connected"
  <2>1. answered' = answered
    BY <1>1, <1>2, <1>3, <1>6
  <2>2. got' = got
    <3>1. \A d \in Clients : ~ (answered[d] > answered[d])
      BY <1>3
    <3> QED
      BY <1>1, <1>3, <2>1, <3>1
  <2>3. ~orderly
    BY <1>1, <1>2, <1>6 DEF TalkInv, Orderliness, c
  <2>4. Shapes' /\ Counted'
    BY <1>1, <1>3, <2>1, <2>2 DEF TalkInv, Shapes, Counted
  <2>5. Opened' /\ ReadersOwned' /\ Orderliness'
    BY <1>1, <1>4, <2>3 DEF TalkInv, Opened, ReadersOwned, Orderliness, ToSet
  <2>6. WritesAnswer'
    BY <1>1, <1>4, <2>1 DEF TalkInv, WritesAnswer, ToSet
  <2>7. Service!Fail \/ UNCHANGED Service!vars
    BY <1>1, <1>3, <2>2, <2>3 DEF Service!Fail, Service!vars
  <2> QED
    BY <2>4, <2>5, <2>6, <2>7 DEF TalkInv, Service!Next
<1> QED
  BY <1>5, <1>6

--------------------------------------------------------------------------------
(* The theorem. *)

LEMMA NextTalk == TalkInv /\ [Next]_vars => TalkInv' /\ [Service!Next]_(Service!vars)
<1> SUFFICES ASSUME TalkInv, [Next]_vars
    PROVE  TalkInv' /\ [Service!Next]_(Service!vars)
  OBVIOUS
<1>1. CASE \E c \in Clients, m \in Requests : ClientSends(c, m)
  BY <1>1, SendStep DEF Service!Next
<1>2. CASE ClientMoves
  BY <1>2, ConnectStep, LeaveStep DEF ClientMoves
<1>3. CASE Accept
  <2>1. CASE Receiver!HandleAcceptError
    BY <1>3, <2>1, DieStep DEF Accept, Receiver!HandleAcceptError, Service!Next
  <2>2. CASE Receiver!HandleAccept
    <3>1. alive /\ backlog # << >> /\ UNCHANGED <<runner_vars, talk_vars>>
      BY <1>3, <2>2 DEF Accept, Receiver!HandleAccept
    <3>2. CASE Receiver!RemoteEndpointThrows(Head(backlog)) /\ Receiver!Die
      <4>1. Head(backlog) \in Clients
        BY <3>1, HeadTailProperties DEF TalkInv, Shapes
      <4>2. ~orderly
        BY <3>2, <4>1 DEF Receiver!RemoteEndpointThrows, Receiver!Broken, TalkInv, Orderliness
      <4> QED
        BY <3>1, <3>2, <4>2, DieStep DEF Service!Next
    <3>3. CASE Receiver!Accepted(Head(backlog))
      BY <3>1, <3>3, AcceptedStep
    <3> QED
      BY <2>2, <3>2, <3>3 DEF Receiver!HandleAccept
  <2> QED
    BY <1>3, <2>1, <2>2 DEF Accept
<1>4. ASSUME NEW s \in Receiver!Sessions, Serve(s) \/ ServeDies(s) \/ ReadEnds(s) \/ Deliver(s)
      PROVE  TalkInv' /\ [Service!Next]_(Service!vars)
  BY <1>4, ServeStep, ServeDiesStep, ReadEndsStep, DeliverStep DEF Service!Next
<1>5. CASE UNCHANGED vars
  <2>1. UNCHANGED <<orderly, client, backlog, requested, read, answered, sessions_, peer, accepting,
                    reading, writing, alive, coder_queue_, replies, asked, sent, got>>
    BY <1>5 DEF vars, receiver_vars, runner_vars, talk_vars
  <2>2. Given' = Given /\ \A t : Connected(t)' <=> Connected(t)
    BY <2>1 DEF Given, Connected, Receiver!Sessions
  <2>3. Shapes' /\ Counted' /\ Opened' /\ ReadersOwned'
    BY <2>1, <2>2 DEF TalkInv, Shapes, Counted, Opened, ReadersOwned, ToSet
  <2>4. Orderliness'
    BY <2>1, <2>2 DEF TalkInv, Orderliness
  <2>5. WritesAnswer'
    BY <2>1, <2>2 DEF TalkInv, WritesAnswer, ToSet
  <2>6. UNCHANGED Service!vars
    BY <2>1 DEF Service!vars
  <2> QED
    BY <2>3, <2>4, <2>5, <2>6 DEF TalkInv
<1> QED
  BY <1>1, <1>2, <1>3, <1>4, <1>5 DEF Next

\* Whatever handlers of other sessions run between the last byte of a request and that
\* of its reply, and whatever clients do, each client gets the answers to its own
\* messages, in order and once, and a fatal request alone ends the service of orderly
\* clients (NetCodersRunner.cc:23-51, JsonNetSession.tcc:117-152).
THEOREM ServesEachClient == Spec => ImplementsService
<1>1. Init => TalkInv /\ Service!Init
  BY InitTalk
<1>2. TalkInv /\ [Next]_vars => TalkInv' /\ [Service!Next]_(Service!vars)
  BY NextTalk
<1> QED
  BY <1>1, <1>2, PTL DEF Spec, ImplementsService, Service!Spec

--------------------------------------------------------------------------------
(* PRESERVE_ALL over all sessions.  The queue is a ledger of the replies with a *)
(* result; what clients have of a coder, and what is on its way to them, was    *)
(* made by it.                                                                  *)

\* The places of the queue that hold results of a coder.
QueuedOf(k) == {i \in DOMAIN queue_ : queue_[i].coder = k}

\* The sessions that write a reply of a coder to a client that is still there.
Pending(k) == {s \in writing : Connected(s) /\ sent[s][1].coder = k}

\* Nothing is acquired, results have the number of their reply, in order, and only
\* the one the process died with has none.
Ledger ==
    /\ queue_ \in Seq([coder : Coders, serial : Nat \ {0}])
    /\ acquired = {}
    /\ \A i, j \in 1 .. Len(queue_) : i < j => queue_[i].serial < queue_[j].serial
    /\ alive => \A i \in 1 .. Len(queue_) : queue_[i].serial <= Len(replies)
    /\ \A n \in 1 .. Len(replies) : replies[n].error = 0 =>
           \E i \in 1 .. Len(queue_) : queue_[i] = [coder |-> replies[n].coder, serial |-> n]
    /\ \A i \in 1 .. Len(queue_) : queue_[i].serial <= Len(replies) =>
           /\ replies[queue_[i].serial].error = 0
           /\ replies[queue_[i].serial].coder = queue_[i].coder

Owed == \A k \in Coders :
           /\ IsFiniteSet(RepliesHave(k)) /\ IsFiniteSet(Pending(k))
           /\ Cardinality(RepliesHave(k)) + Cardinality(Pending(k)) <= Cardinality(QueuedOf(k))

LedgerInv == TalkInv /\ Ledger /\ Owed

\* A step in which no coder loses a result.
Counts(k) == /\ Cardinality(QueuedOf(k)) \in Nat /\ Cardinality(QueuedOf(k)') \in Nat
             /\ Cardinality(QueuedOf(k)) <= Cardinality(QueuedOf(k)')

\* A result is added to the queue: what was there stays, and its coder has one more.
LEMMA QueueGrows ==
    ASSUME NEW S, queue_ \in Seq(S), NEW r \in S, queue_' = Append(queue_, r)
    PROVE  /\ queue_' \in Seq(S)
           /\ Len(queue_) \in Nat /\ Len(queue_') = Len(queue_) + 1
           /\ \A i \in 1 .. Len(queue_) : queue_'[i] = queue_[i]
           /\ queue_'[Len(queue_) + 1] = r
           /\ \A k : Counts(k) /\ (r.coder = k => Cardinality(QueuedOf(k)') = Cardinality(QueuedOf(k)) + 1)
<1> DEFINE q == Len(queue_)
<1>1. /\ queue_' \in Seq(S) /\ q \in Nat /\ Len(queue_') = q + 1
      /\ \A i \in 1 .. q : queue_'[i] = queue_[i]
      /\ queue_'[q + 1] = r
      /\ DOMAIN queue_ = 1 .. q /\ DOMAIN queue_' = 1 .. q + 1
  BY LenProperties, AppendProperties
<1> HIDE DEF q
<1>2. ASSUME NEW k
      PROVE  Counts(k) /\ (r.coder = k => Cardinality(QueuedOf(k)') = Cardinality(QueuedOf(k)) + 1)
  <2> DEFINE old == {i \in 1 .. q : queue_[i].coder = k}
             new == {i \in 1 .. q + 1 : queue_'[i].coder = k}
  <2>1. QueuedOf(k) = old /\ QueuedOf(k)' = new
    BY <1>1 DEF QueuedOf
  <2>2. \A i \in 1 .. q + 1 : i \in 1 .. q \/ i = q + 1
    BY <1>1
  <2>3. \A i \in 1 .. q : i \in 1 .. q + 1 /\ i # q + 1
    BY <1>1
  <2>4. q + 1 \in 1 .. q + 1
    BY <1>1
  <2>5. new = IF r.coder = k THEN old \union {q + 1} ELSE old
    BY <1>1, <2>2, <2>3, <2>4
  <2>6. q + 1 \notin old
    BY <2>3
  <2>7. IsFiniteSet(old) /\ Cardinality(old) \in Nat
    <3>1. IsFiniteSet(1 .. q)
      BY <1>1, 1 \in Int, q \in Int, FS_Interval
    <3>2. old \in SUBSET (1 .. q)
      OBVIOUS
    <3> QED
      BY <3>1, <3>2, FS_Subset, FS_CardinalityType
  <2> HIDE DEF old, new
  <2>8. /\ IsFiniteSet(old \union {q + 1})
        /\ Cardinality(old \union {q + 1}) = Cardinality(old) + 1
    BY <2>6, <2>7, FS_AddElement
  <2> QED
    BY <2>1, <2>5, <2>7, <2>8 DEF Counts
<1> QED
  BY <1>1, <1>2 DEF q

\* The entries of the ledger.
LEMMA LedgerEntries ==
    ASSUME Ledger
    PROVE  /\ Len(queue_) \in Nat /\ DOMAIN queue_ = 1 .. Len(queue_)
           /\ \A i \in 1 .. Len(queue_) : /\ queue_[i] \in [coder : Coders, serial : Nat \ {0}]
                                          /\ queue_[i].coder \in Coders
                                          /\ queue_[i].serial \in Nat \ {0}
<1>1. \A e \in [coder : Coders, serial : Nat \ {0}] : e.coder \in Coders /\ e.serial \in Nat \ {0}
  OBVIOUS
<1> QED
  BY <1>1, LenProperties, ElementOfSeq DEF Ledger

\* A message without a result adds a reply to the ledger that needs none.
LEMMA LedgerRefused ==
    ASSUME Ledger, replies \in Seq(Replies(Requests)), alive, NEW r \in Replies(Requests),
           r.error # 0, replies' = Append(replies, r), UNCHANGED <<queue_, acquired>>
    PROVE  Ledger'
<1> DEFINE n == Len(replies)
<1>1. /\ n \in Nat /\ Len(replies') = n + 1 /\ replies'[n + 1] = r
      /\ \A k \in 1 .. n : replies'[k] = replies[k]
  BY LenProperties, AppendProperties
<1>2. \A i \in 1 .. Len(queue_) : queue_[i].serial \in 1 .. n /\ queue_[i].serial <= n + 1
  <2> SUFFICES ASSUME NEW i \in 1 .. Len(queue_)
      PROVE  queue_[i].serial \in 1 .. n /\ queue_[i].serial <= n + 1
    OBVIOUS
  <2>1. queue_[i].serial \in Nat \ {0} /\ queue_[i].serial <= n
    BY LedgerEntries DEF Ledger
  <2> QED
    BY <1>1, <2>1
<1>3. \A k \in 1 .. n + 1 : k \in 1 .. n \/ k = n + 1
  BY <1>1
<1> HIDE DEF n
<1>4. \A k \in 1 .. n + 1 : replies'[k].error = 0 =>
         \E i \in 1 .. Len(queue_) : queue_[i] = [coder |-> replies'[k].coder, serial |-> k]
  BY <1>1, <1>3 DEF Ledger, n
<1>5. \A i \in 1 .. Len(queue_) : /\ replies'[queue_[i].serial].error = 0
                                   /\ replies'[queue_[i].serial].coder = queue_[i].coder
  BY <1>1, <1>2 DEF Ledger, n
<1> QED
  BY <1>1, <1>2, <1>4, <1>5 DEF Ledger

\* A result and its reply enter the ledger together.
LEMMA LedgerKept ==
    ASSUME Ledger, replies \in Seq(Replies(Requests)), alive, NEW c \in Coders,
           NEW r \in Replies(Requests), r.error = 0, r.coder = c, replies' = Append(replies, r),
           queue_' = Append(queue_, [coder |-> c, serial |-> Len(replies) + 1]), UNCHANGED acquired
    PROVE  Ledger'
<1> DEFINE n == Len(replies)
           q == Len(queue_)
           new == [coder |-> c, serial |-> n + 1]
<1>1. /\ n \in Nat /\ Len(replies') = n + 1 /\ replies'[n + 1] = r
      /\ \A k \in 1 .. n : replies'[k] = replies[k]
  BY LenProperties, AppendProperties
<1>2. new \in [coder : Coders, serial : Nat \ {0}]
  BY <1>1
<1>3. /\ queue_' \in Seq([coder : Coders, serial : Nat \ {0}])
      /\ q \in Nat /\ Len(queue_') = q + 1
      /\ \A i \in 1 .. q : queue_'[i] = queue_[i]
      /\ queue_'[q + 1] = new
  BY <1>2, QueueGrows DEF Ledger
<1>4. \A i \in 1 .. q : queue_[i].serial \in 1 .. n
  <2> SUFFICES ASSUME NEW i \in 1 .. q PROVE queue_[i].serial \in 1 .. n
    OBVIOUS
  <2>1. queue_[i].serial \in Nat \ {0} /\ queue_[i].serial <= n
    BY LedgerEntries DEF Ledger
  <2> QED
    BY <1>1, <2>1
<1>5. /\ \A k \in 1 .. n + 1 : k \in 1 .. n \/ k = n + 1
      /\ \A i \in 1 .. q + 1 : i \in 1 .. q \/ i = q + 1
      /\ \A i \in 1 .. q : i \in 1 .. q + 1
      /\ q + 1 \in 1 .. q + 1
  BY <1>1, <1>3
<1>6. new.coder = c /\ new.serial = n + 1
  OBVIOUS
<1> HIDE DEF n, q, new
<1>7. \A i, j \in 1 .. q + 1 : i < j => queue_'[i].serial < queue_'[j].serial
  <2> SUFFICES ASSUME NEW i \in 1 .. q + 1, NEW j \in 1 .. q + 1, i < j
      PROVE  queue_'[i].serial < queue_'[j].serial
    OBVIOUS
  <2>1. i \in 1 .. q
    BY <1>3
  <2>2. CASE j \in 1 .. q
    BY <1>3, <2>1, <2>2 DEF Ledger, q
  <2>3. CASE j = q + 1
    BY <1>1, <1>3, <1>4, <1>6, <2>1, <2>3
  <2> QED
    BY <1>5, <2>2, <2>3
<1>8. \A i \in 1 .. q + 1 : queue_'[i].serial <= n + 1
  BY <1>1, <1>3, <1>4, <1>5, <1>6
<1>9. \A k \in 1 .. n + 1 : replies'[k].error = 0 =>
         \E i \in 1 .. q + 1 : queue_'[i] = [coder |-> replies'[k].coder, serial |-> k]
  <2> SUFFICES ASSUME NEW k \in 1 .. n + 1, replies'[k].error = 0
      PROVE  \E i \in 1 .. q + 1 : queue_'[i] = [coder |-> replies'[k].coder, serial |-> k]
    OBVIOUS
  <2>1. CASE k \in 1 .. n
    <3>1. PICK i \in 1 .. q : queue_[i] = [coder |-> replies[k].coder, serial |-> k]
      BY <1>1, <2>1 DEF Ledger, n, q
    <3> QED
      BY <1>1, <1>3, <1>5, <2>1, <3>1
  <2>2. CASE k = n + 1
    BY <1>1, <1>3, <1>5, <2>2 DEF new
  <2> QED
    BY <1>5, <2>1, <2>2
<1>10. ASSUME NEW i \in 1 .. q + 1
       PROVE  /\ replies'[queue_'[i].serial].error = 0
              /\ replies'[queue_'[i].serial].coder = queue_'[i].coder
  <2>1. CASE i \in 1 .. q
    <3>1. queue_[i].serial \in 1 .. n /\ queue_[i].serial <= n
      BY <1>1, <1>4, <2>1
    <3>2. replies[queue_[i].serial].error = 0 /\ replies[queue_[i].serial].coder = queue_[i].coder
      BY <2>1, <3>1 DEF Ledger, n, q
    <3> QED
      BY <1>1, <1>3, <2>1, <3>1, <3>2
  <2>2. CASE i = q + 1
    BY <1>1, <1>3, <1>6, <2>2
  <2> QED
    BY <1>5, <2>1, <2>2
<1>11. acquired' = {}
  BY DEF Ledger
<1>12. \A k \in 1 .. Len(replies') : replies'[k].error = 0 =>
          \E i \in 1 .. Len(queue_') : queue_'[i] = [coder |-> replies'[k].coder, serial |-> k]
  BY <1>1, <1>3, <1>9
<1>13. \A i \in 1 .. Len(queue_') : /\ replies'[queue_'[i].serial].error = 0
                                     /\ replies'[queue_'[i].serial].coder = queue_'[i].coder
  BY <1>3, <1>10
<1>14. /\ \A i, j \in 1 .. Len(queue_') : i < j => queue_'[i].serial < queue_'[j].serial
       /\ \A i \in 1 .. Len(queue_') : queue_'[i].serial <= Len(replies')
  BY <1>1, <1>3, <1>7, <1>8
<1> QED
  BY <1>3, <1>11, <1>12, <1>13, <1>14 DEF Ledger

\* The process dies with a result nobody is told of.
LEMMA LedgerOrphan ==
    ASSUME Ledger, replies \in Seq(Replies(Requests)), alive, NEW c \in Coders,
           queue_' = Append(queue_, [coder |-> c, serial |-> Len(replies) + 1]),
           alive' = FALSE, UNCHANGED <<replies, acquired>>
    PROVE  Ledger'
<1> DEFINE n == Len(replies)
           q == Len(queue_)
           new == [coder |-> c, serial |-> n + 1]
<1>1. n \in Nat
  BY LenProperties
<1>2. new \in [coder : Coders, serial : Nat \ {0}]
  BY <1>1
<1>3. /\ queue_' \in Seq([coder : Coders, serial : Nat \ {0}])
      /\ q \in Nat /\ Len(queue_') = q + 1
      /\ \A i \in 1 .. q : queue_'[i] = queue_[i]
      /\ queue_'[q + 1] = new
  BY <1>2, QueueGrows DEF Ledger
<1>4. \A i \in 1 .. q : queue_[i].serial \in Nat /\ queue_[i].serial <= n
  <2> SUFFICES ASSUME NEW i \in 1 .. q PROVE queue_[i].serial \in Nat /\ queue_[i].serial <= n
    OBVIOUS
  <2> QED
    BY LedgerEntries DEF Ledger
<1>5. /\ \A i \in 1 .. q + 1 : i \in 1 .. q \/ i = q + 1
      /\ \A i \in 1 .. q : i \in 1 .. q + 1
  BY <1>3
<1>6. new.serial = n + 1 /\ ~ (n + 1 <= n)
  BY <1>1
<1> HIDE DEF n, q, new
<1>7. \A i, j \in 1 .. q + 1 : i < j => queue_'[i].serial < queue_'[j].serial
  <2> SUFFICES ASSUME NEW i \in 1 .. q + 1, NEW j \in 1 .. q + 1, i < j
      PROVE  queue_'[i].serial < queue_'[j].serial
    OBVIOUS
  <2>1. i \in 1 .. q
    BY <1>3
  <2>2. CASE j \in 1 .. q
    BY <1>3, <2>1, <2>2 DEF Ledger, q
  <2>3. CASE j = q + 1
    BY <1>1, <1>3, <1>4, <1>6, <2>1, <2>3
  <2> QED
    BY <1>5, <2>2, <2>3
<1>8. \A k \in 1 .. n : replies[k].error = 0 =>
         \E i \in 1 .. q + 1 : queue_'[i] = [coder |-> replies[k].coder, serial |-> k]
  <2> SUFFICES ASSUME NEW k \in 1 .. n, replies[k].error = 0
      PROVE  \E i \in 1 .. q + 1 : queue_'[i] = [coder |-> replies[k].coder, serial |-> k]
    OBVIOUS
  <2>1. PICK i \in 1 .. q : queue_[i] = [coder |-> replies[k].coder, serial |-> k]
    BY DEF Ledger, n, q
  <2> QED
    BY <1>3, <1>5, <2>1
<1>9. \A i \in 1 .. q + 1 : queue_'[i].serial <= n =>
         /\ replies[queue_'[i].serial].error = 0
         /\ replies[queue_'[i].serial].coder = queue_'[i].coder
  <2> SUFFICES ASSUME NEW i \in 1 .. q + 1, queue_'[i].serial <= n
      PROVE  /\ replies[queue_'[i].serial].error = 0
             /\ replies[queue_'[i].serial].coder = queue_'[i].coder
    OBVIOUS
  <2>1. i \in 1 .. q /\ queue_'[i] = queue_[i]
    BY <1>3, <1>5, <1>6
  <2> QED
    BY <2>1 DEF Ledger, n, q
<1> QED
  BY <1>3, <1>7, <1>8, <1>9 DEF Ledger, n

\* A message leaves a complete ledger behind: if it was answered by a coder, that
\* coder has one more result, and no coder has fewer.
LEMMA MessageKept ==
    ASSUME TalkInv, Ledger, NEW m \in Requests, Runner!HandleReceiveMessage(m)
    PROVE  /\ Ledger'
           /\ \A k \in Coders :
                 /\ Counts(k)
                 /\ alive' /\ Last(replies').coder = k =>
                       Cardinality(QueuedOf(k)') = Cardinality(QueuedOf(k)) + 1
<1> DEFINE c == Runner!Chosen(m)
           new == [coder |-> c, serial |-> Len(replies) + 1]
           Grown(k) == /\ Counts(k)
                       /\ alive' /\ Last(replies').coder = k =>
                             Cardinality(QueuedOf(k)') = Cardinality(QueuedOf(k)) + 1
<1>1. /\ alive /\ acquired' = acquired /\ coder_queue_ = Registry
      /\ replies \in Seq(Replies(Requests)) /\ Len(replies) \in Nat
  BY LenProperties DEF Runner!HandleReceiveMessage, TalkInv, Shapes
<1>2. Runner!Matching(m) # {} => c \in Coders
  <2>1. Runner!Matching(m) # {} => c \in Named(m)
    BY <1>1, MatchingIsNamed
  <2> QED
    BY <2>1, RegistryAssumption, ElementOfSeq, LenProperties DEF Named, ToSet
<1>3. Runner!Result(c, Runner!Serial) = new
  BY DEF Runner!Result, Runner!Serial
<1>4. ASSUME NEW k \in Coders, queue_' = queue_
      PROVE  Counts(k)
  <2>1. QueuedOf(k)' = QueuedOf(k)
    BY <1>4 DEF QueuedOf
  <2>2. IsFiniteSet(1 .. Len(queue_)) /\ QueuedOf(k) \in SUBSET (1 .. Len(queue_))
    <3>1. 1 \in Int /\ Len(queue_) \in Int
      BY LedgerEntries
    <3> QED
      BY <3>1, LedgerEntries, FS_Interval DEF QueuedOf
  <2>3. Cardinality(QueuedOf(k)) \in Nat
    BY <2>2, FS_Subset, FS_CardinalityType
  <2> QED
    BY <2>1, <2>3 DEF Counts
<1>5. \A code \in {500, 555} : Runner!ErrorReply(m, code) \in Replies(Requests)
  BY DEF Runner!ErrorReply, Replies
<1>6. ASSUME NEW r \in Replies(Requests), replies' = Append(replies, r)
      PROVE  Last(replies') = r
  <2>1. Len(replies') = Len(replies) + 1 /\ replies'[Len(replies) + 1] = r
    BY <1>1, <1>6, AppendProperties
  <2> QED
    BY <2>1 DEF Last
<1> HIDE DEF c, new
<1>7. ASSUME NEW code \in {500, 555}, replies' = Append(replies, Runner!ErrorReply(m, code)),
             UNCHANGED queue_
      PROVE  Ledger' /\ \A k \in Coders : Grown(k)
  <2>1. /\ Runner!ErrorReply(m, code) \in Replies(Requests)
        /\ Runner!ErrorReply(m, code).error # 0
        /\ Runner!ErrorReply(m, code).coder = Nobody
    BY <1>5 DEF Runner!ErrorReply
  <2>2. Ledger'
    BY <1>1, <1>7, <2>1, LedgerRefused
  <2>3. Last(replies').coder = Nobody
    BY <1>6, <1>7, <2>1
  <2> QED
    BY <1>4, <1>7, <2>2, <2>3, NobodyIsNoCoder
<1>8. ASSUME c \in Coders, queue_' = Append(queue_, new)
      PROVE  \A k \in Coders :
                Counts(k) /\ (c = k => Cardinality(QueuedOf(k)') = Cardinality(QueuedOf(k)) + 1)
  <2>1. new \in [coder : Coders, serial : Nat \ {0}] /\ new.coder = c
    BY <1>1, <1>8 DEF new
  <2>2. queue_ \in Seq([coder : Coders, serial : Nat \ {0}])
    BY DEF Ledger
  <2>3. \A k : Counts(k) /\ (new.coder = k => Cardinality(QueuedOf(k)') = Cardinality(QueuedOf(k)) + 1)
    BY <1>8, <2>1, <2>2, QueueGrows, Zenon
  <2> QED
    BY <2>1, <2>3
<1>9. CASE Runner!NoCoderFound(m)
  BY <1>7, <1>9 DEF Runner!NoCoderFound, Runner!E_NO_CODERS_FOUND
<1>10. CASE Runner!CoderThrows(m)
  BY <1>7, <1>10 DEF Runner!CoderThrows, Runner!E_INTERNAL_SERVER_ERROR
<1>11. CASE Runner!CoderSucceeds(m)
  <2>1. /\ c \in Coders /\ queue_' = Append(queue_, new)
        /\ replies' = Append(replies, Runner!ResultReply(m))
    BY <1>2, <1>3, <1>11 DEF Runner!CoderSucceeds, c
  <2>2. /\ Runner!ResultReply(m) \in Replies(Requests)
        /\ Runner!ResultReply(m).error = 0 /\ Runner!ResultReply(m).coder = c
    BY <2>1 DEF Runner!ResultReply, Replies, c
  <2>3. Ledger'
    BY <1>1, <2>1, <2>2, LedgerKept DEF new
  <2>4. Last(replies').coder = c
    BY <1>6, <2>1, <2>2
  <2> QED
    BY <1>8, <2>1, <2>3, <2>4
<1>12. CASE Runner!CoderGivesNoMessage(m)
  <2>1. c \in Coders /\ queue_' = Append(queue_, new) /\ alive' = FALSE /\ replies' = replies
    BY <1>2, <1>3, <1>12 DEF Runner!CoderGivesNoMessage, c
  <2>2. Ledger'
    BY <1>1, <2>1, LedgerOrphan DEF new
  <2> QED
    BY <1>8, <2>1, <2>2
<1> QED
  BY <1>9, <1>10, <1>11, <1>12 DEF Runner!HandleReceiveMessage

\* If no client got anything, no coder lost anything and nothing new is on its way,
\* clients are owed no more than before.
LEMMA OwedStep ==
    ASSUME Owed, got' = got, \A k \in Coders : Counts(k) /\ Pending(k)' \subseteq Pending(k)
    PROVE  Owed'
<1> SUFFICES ASSUME NEW k \in Coders
    PROVE  /\ IsFiniteSet(RepliesHave(k)') /\ IsFiniteSet(Pending(k)')
           /\ Cardinality(RepliesHave(k)') + Cardinality(Pending(k)') <= Cardinality(QueuedOf(k)')
  BY DEF Owed
<1>1. RepliesHave(k)' = RepliesHave(k)
  BY DEF RepliesHave
<1>2. /\ IsFiniteSet(RepliesHave(k)) /\ IsFiniteSet(Pending(k))
      /\ Cardinality(RepliesHave(k)) + Cardinality(Pending(k)) <= Cardinality(QueuedOf(k))
  BY DEF Owed
<1>3. Pending(k)' \in SUBSET Pending(k)
  OBVIOUS
<1>4. IsFiniteSet(Pending(k)') /\ Cardinality(Pending(k)') <= Cardinality(Pending(k))
  BY <1>2, <1>3, FS_Subset
<1>5. /\ Cardinality(RepliesHave(k)) \in Nat /\ Cardinality(Pending(k)) \in Nat
      /\ Cardinality(Pending(k)') \in Nat
  BY <1>2, <1>4, FS_CardinalityType
<1>6. /\ Cardinality(QueuedOf(k)) \in Nat /\ Cardinality(QueuedOf(k)') \in Nat
      /\ Cardinality(QueuedOf(k)) <= Cardinality(QueuedOf(k)')
  BY DEF Counts
<1> QED
  BY <1>1, <1>2, <1>4, <1>5, <1>6

\* The places of the queue can be counted.
LEMMA QueueCounts ==
    ASSUME Ledger, queue_' = queue_
    PROVE  \A k : Counts(k)
<1> SUFFICES ASSUME NEW k PROVE Counts(k)
  OBVIOUS
<1>1. QueuedOf(k)' = QueuedOf(k)
  BY DEF QueuedOf
<1>2. 1 \in Int /\ Len(queue_) \in Int
  BY LedgerEntries
<1>3. IsFiniteSet(1 .. Len(queue_)) /\ QueuedOf(k) \in SUBSET (1 .. Len(queue_))
  BY <1>2, LedgerEntries, FS_Interval DEF QueuedOf
<1>4. Cardinality(QueuedOf(k)) \in Nat
  BY <1>3, FS_Subset, FS_CardinalityType
<1> QED
  BY <1>1, <1>4 DEF Counts

\* Steps of clients, of the acceptor and of reads that end change no ledger.
LEMMA QuietStep ==
    ASSUME Ledger, Owed, UNCHANGED <<queue_, acquired, replies, got, sent, writing>>, alive' \in {alive, FALSE},
           \A s \in writing : Connected(s)' => Connected(s)
    PROVE  Ledger' /\ Owed'
<1>1. Ledger'
  <2>1. CASE alive' = alive
    BY <2>1 DEF Ledger
  <2>2. CASE alive' = FALSE
    BY <2>2 DEF Ledger
  <2> QED
    BY <2>1, <2>2
<1>2. ASSUME NEW k \in Coders PROVE Pending(k)' \subseteq Pending(k)
  BY DEF Pending
<1> QED
  BY <1>1, <1>2, OwedStep, QueueCounts

\* The reply of a coder is on its way with the result it has left in the queue.
LEMMA ServeOwes ==
    ASSUME LedgerInv, NEW s \in Receiver!Sessions, Serve(s)
    PROVE  Ledger' /\ Owed'
<1>1. /\ Message(s) \in Requests /\ Runner!HandleReceiveMessage(Message(s))
      /\ sent \in [Receiver!Sessions -> Seq(Replies(Requests))]
  BY RequestIsCurrent DEF Serve, LedgerInv, TalkInv, Shapes
<1>2. /\ Ledger'
      /\ \A k \in Coders :
            /\ Counts(k)
            /\ alive' /\ Last(replies').coder = k =>
                  Cardinality(QueuedOf(k)') = Cardinality(QueuedOf(k)) + 1
  BY <1>1, MessageKept DEF LedgerInv
<1>3. /\ writing' = writing \union {s} /\ alive' /\ got' = got
      /\ sent' = [sent EXCEPT ![s] = <<Last(replies')>>]
      /\ UNCHANGED <<client, peer, accepting>>
  BY DEF Serve, Receiver!HandleRequest, Receiver!net_vars
<1>4. \A t : (Connected(t)' <=> Connected(t)) /\ (Connected(t) => t \in Receiver!Sessions)
  BY <1>3 DEF Given, Connected, Receiver!Sessions
<1>5. sent'[s][1] = Last(replies') /\ \A t \in Receiver!Sessions \ {s} : sent'[t] = sent[t]
  BY <1>1, <1>3
<1> SUFFICES ASSUME NEW k \in Coders
    PROVE  /\ IsFiniteSet(RepliesHave(k)') /\ IsFiniteSet(Pending(k)')
           /\ Cardinality(RepliesHave(k)') + Cardinality(Pending(k)') <= Cardinality(QueuedOf(k)')
  BY <1>2 DEF Owed
<1>6. RepliesHave(k)' = RepliesHave(k)
  BY <1>3 DEF RepliesHave
<1>7. /\ IsFiniteSet(RepliesHave(k)) /\ IsFiniteSet(Pending(k))
      /\ Cardinality(RepliesHave(k)) + Cardinality(Pending(k)) <= Cardinality(QueuedOf(k))
  BY DEF LedgerInv, Owed
<1>8. Cardinality(RepliesHave(k)) \in Nat /\ Cardinality(Pending(k)) \in Nat
  BY <1>7, FS_CardinalityType
<1>9. /\ Cardinality(QueuedOf(k)) \in Nat /\ Cardinality(QueuedOf(k)') \in Nat
      /\ Cardinality(QueuedOf(k)) <= Cardinality(QueuedOf(k)')
      /\ Last(replies').coder = k => Cardinality(QueuedOf(k)') = Cardinality(QueuedOf(k)) + 1
  BY <1>2, <1>3 DEF Counts
<1>10. Pending(k)' \subseteq IF Last(replies').coder = k THEN Pending(k) \union {s} ELSE Pending(k)
  <2> SUFFICES ASSUME NEW t \in writing', Connected(t), sent'[t][1].coder = k
      PROVE  t \in Pending(k) \/ (t = s /\ Last(replies').coder = k)
    BY <1>4 DEF Pending
  <2>1. CASE t = s
    BY <1>5, <2>1
  <2>2. CASE t # s
    BY <1>3, <1>4, <1>5, <2>2 DEF Pending
  <2> QED
    BY <2>1, <2>2
<1>11. CASE Last(replies').coder = k
  <2>1. /\ IsFiniteSet(Pending(k) \union {s})
        /\ Cardinality(Pending(k) \union {s}) <= Cardinality(Pending(k)) + 1
        /\ Cardinality(Pending(k) \union {s}) \in Nat
    <3>1. /\ IsFiniteSet(Pending(k) \union {s})
          /\ Cardinality(Pending(k) \union {s})
                = IF s \in Pending(k) THEN Cardinality(Pending(k)) ELSE Cardinality(Pending(k)) + 1
      BY <1>7, FS_AddElement
    <3> QED
      BY <1>8, <3>1
  <2>2. Pending(k)' \in SUBSET (Pending(k) \union {s})
    BY <1>10, <1>11
  <2>3. /\ IsFiniteSet(Pending(k)') /\ Cardinality(Pending(k)') \in Nat
        /\ Cardinality(Pending(k)') <= Cardinality(Pending(k) \union {s})
    BY <2>1, <2>2, FS_Subset, FS_CardinalityType
  <2> QED
    BY <1>6, <1>7, <1>8, <1>9, <1>11, <2>1, <2>3
<1>12. CASE Last(replies').coder # k
  <2>1. Pending(k)' \in SUBSET Pending(k)
    BY <1>10, <1>12
  <2>2. /\ IsFiniteSet(Pending(k)') /\ Cardinality(Pending(k)') \in Nat
        /\ Cardinality(Pending(k)') <= Cardinality(Pending(k))
    BY <1>7, <2>1, FS_Subset, FS_CardinalityType
  <2> QED
    BY <1>6, <1>7, <1>8, <1>9, <2>2
<1> QED
  BY <1>11, <1>12

\* A reply that a client gets was on its way to it.
LEMMA DeliverOwes ==
    ASSUME LedgerInv, NEW s \in Receiver!Sessions, Deliver(s)
    PROVE  Ledger' /\ Owed'
<1> DEFINE c == peer[s]
<1>1. /\ alive /\ s \in writing
      /\ writing' = writing \ {s}
      /\ answered' = [answered EXCEPT ![c] = IF client[c] = "connected" THEN @ + 1 ELSE @]
      /\ got' = [d \in Clients |-> IF answered'[d] > answered[d] THEN got[d] \o sent[s] ELSE got[d]]
      /\ UNCHANGED <<client, peer, accepting, queue_, acquired, replies, sent>>
  BY DEF Deliver, Receiver!HandleWrite, runner_vars
<1>2. s \in Given /\ c \in Clients
  BY <1>1 DEF LedgerInv, TalkInv, Opened, Given
<1>3. answered \in [Clients -> Nat] /\ got \in [Clients -> Seq(Replies(Requests))]
  BY DEF LedgerInv, TalkInv, Shapes
<1>4. \A t : Connected(t)' <=> Connected(t)
  BY <1>1 DEF Given, Connected, Receiver!Sessions
<1>5. Ledger'
  BY <1>1 DEF LedgerInv, Ledger
<1>6. \A k \in Coders : Pending(k)' = Pending(k) \ {s}
  BY <1>1, <1>4 DEF Pending
<1>7. \A k : Counts(k)
  BY <1>1, QueueCounts DEF LedgerInv
<1> HIDE DEF c
<1>8. CASE client[c] # "connected"
  <2>1. answered' = answered
    BY <1>1, <1>2, <1>3, <1>8
  <2>2. got' = got
    <3>1. \A d \in Clients : ~ (answered[d] > answered[d])
      BY <1>3
    <3> QED
      BY <1>1, <1>3, <2>1, <3>1
  <2> QED
    BY <1>5, <1>6, <1>7, <2>2, OwedStep DEF LedgerInv
<1>9. CASE client[c] = "connected"
  <2>1. PICK a \in Answers(asked[c][read[c]]) : sent[s] = <<a>> /\ read[c] = answered[c] + 1
    BY <1>1, <1>2, <1>9 DEF LedgerInv, TalkInv, WritesAnswer, Connected, c
  <2>2. a \in Replies(Requests)
    <3>1. read[c] \in 1 .. requested[c]
      BY <1>2, <2>1, Counters DEF LedgerInv
    <3>2. asked[c][read[c]] \in Requests
      BY <1>2, <3>1, AskedAreRequests DEF LedgerInv
    <3> QED
      BY <3>2 DEF Answers, Replies
  <2>3. answered'[c] = answered[c] + 1 /\ \A d \in Clients \ {c} : answered'[d] = answered[d]
    BY <1>1, <1>2, <1>3, <1>9
  <2>4. got'[c] = Append(got[c], a) /\ \A d \in Clients \ {c} : got'[d] = got[d]
    <3>1. got[c] \in Seq(Replies(Requests)) /\ answered[c] \in Nat
      BY <1>2, <1>3
    <3>2. got[c] \o <<a>> = Append(got[c], a)
      BY <2>2, <3>1, AppendIsConcat
    <3>3. \A d \in Clients \ {c} : ~ (answered'[d] > answered[d])
      BY <1>3, <2>3
    <3> QED
      BY <1>1, <1>2, <2>1, <2>3, <3>1, <3>2, <3>3
  <2>5. /\ Len(got[c]) \in Nat /\ DOMAIN got[c] = 1 .. Len(got[c])
        /\ DOMAIN got'[c] = 1 .. Len(got[c]) + 1
        /\ \A n \in 1 .. Len(got[c]) : got'[c][n] = got[c][n]
        /\ got'[c][Len(got[c]) + 1] = a
    <3>1. got[c] \in Seq(Replies(Requests))
      BY <1>2, <1>3
    <3> QED
      BY <2>2, <2>4, <3>1, AppendProperties, LenProperties
  <2> SUFFICES ASSUME NEW k \in Coders
      PROVE  /\ IsFiniteSet(RepliesHave(k)') /\ IsFiniteSet(Pending(k)')
             /\ Cardinality(RepliesHave(k)') + Cardinality(Pending(k)') <= Cardinality(QueuedOf(k)')
    BY <1>5 DEF Owed
  <2> DEFINE H == RepliesHave(k)
             P == Pending(k)
             new == <<c, Len(got[c]) + 1>>
  <2>6. /\ IsFiniteSet(H) /\ IsFiniteSet(P)
        /\ Cardinality(H) + Cardinality(P) <= Cardinality(QueuedOf(k))
        /\ Cardinality(H) \in Nat /\ Cardinality(P) \in Nat
    BY FS_CardinalityType DEF LedgerInv, Owed
  <2>7. /\ Cardinality(QueuedOf(k)) \in Nat /\ Cardinality(QueuedOf(k)') \in Nat
        /\ Cardinality(QueuedOf(k)) <= Cardinality(QueuedOf(k)')
    BY <1>7 DEF Counts
  <2>8. H' \subseteq IF a.coder = k THEN H \union {new} ELSE H
    <3> SUFFICES ASSUME NEW d \in Clients, NEW n \in 1 .. MaxRequests,
                        n \in DOMAIN got'[d], got'[d][n].coder = k
        PROVE  <<d, n>> \in H \/ (<<d, n>> = new /\ a.coder = k)
      BY DEF RepliesHave
    <3>1. CASE d # c
      BY <2>4, <3>1 DEF RepliesHave
    <3>2. CASE d = c /\ n \in 1 .. Len(got[c])
      BY <2>5, <3>2 DEF RepliesHave
    <3>3. CASE d = c /\ n = Len(got[c]) + 1
      BY <2>5, <3>3
    <3> QED
      BY <2>5, <3>1, <3>2, <3>3
  <2>9. P' = P \ {s} /\ (a.coder = k => s \in P)
    <3>1. a.coder = k => s \in P
      BY <1>1, <1>2, <1>9, <2>1 DEF Pending, Connected, c
    <3> QED
      BY <1>6, <3>1
  <2> HIDE DEF H, P, new
  <2>10. /\ IsFiniteSet(P') /\ Cardinality(P') \in Nat
         /\ Cardinality(P') = IF s \in P THEN Cardinality(P) - 1 ELSE Cardinality(P)
    BY <2>6, <2>9, FS_RemoveElement, FS_CardinalityType
  <2>11. CASE a.coder = k
    <3>1. /\ IsFiniteSet(H \union {new}) /\ Cardinality(H \union {new}) \in Nat
          /\ Cardinality(H \union {new}) <= Cardinality(H) + 1
      <4>1. /\ IsFiniteSet(H \union {new})
            /\ Cardinality(H \union {new}) = IF new \in H THEN Cardinality(H) ELSE Cardinality(H) + 1
        BY <2>6, FS_AddElement
      <4> QED
        BY <2>6, <4>1
    <3>2. H' \in SUBSET (H \union {new})
      BY <2>8, <2>11
    <3>3. /\ IsFiniteSet(H') /\ Cardinality(H') \in Nat
          /\ Cardinality(H') <= Cardinality(H \union {new})
      BY <3>1, <3>2, FS_Subset, FS_CardinalityType
    <3>4. Cardinality(H') + Cardinality(P') <= Cardinality(QueuedOf(k)')
      BY <2>6, <2>7, <2>9, <2>10, <2>11, <3>1, <3>3
    <3> QED
      BY <2>10, <3>3, <3>4 DEF H, P
  <2>12. CASE a.coder # k
    <3>1. H' \in SUBSET H
      BY <2>8, <2>12
    <3>2. IsFiniteSet(H') /\ Cardinality(H') \in Nat /\ Cardinality(H') <= Cardinality(H)
      BY <2>6, <3>1, FS_Subset, FS_CardinalityType
    <3>3. Cardinality(H') + Cardinality(P') <= Cardinality(QueuedOf(k)')
      BY <2>6, <2>7, <2>10, <3>2
    <3> QED
      BY <2>10, <3>2, <3>3 DEF H, P
  <2> QED
    BY <2>11, <2>12
<1> QED
  BY <1>8, <1>9

LEMMA InitLedger == Init => Ledger /\ Owed
<1> SUFFICES ASSUME Init PROVE Ledger /\ Owed
  OBVIOUS
<1>1. << >> \in Seq([coder : Coders, serial : Nat \ {0}]) /\ Len(<< >>) = 0 /\ DOMAIN << >> = {}
  OBVIOUS
<1>2. Ledger
  BY <1>1 DEF Init, Ledger
<1>3. ASSUME NEW k \in Coders PROVE RepliesHave(k) = {} /\ Pending(k) = {} /\ QueuedOf(k) = {}
  BY <1>1 DEF Init, Receiver!Init, RepliesHave, Pending, QueuedOf
<1>4. Owed
  BY <1>3, FS_EmptySet DEF Owed
<1> QED
  BY <1>2, <1>4

LEMMA NextLedger == LedgerInv /\ [Next]_vars => LedgerInv'
<1> SUFFICES ASSUME LedgerInv, [Next]_vars PROVE LedgerInv'
  OBVIOUS
<1>1. TalkInv /\ TalkInv' /\ Ledger /\ Owed
  BY NextTalk DEF LedgerInv
<1> SUFFICES Ledger' /\ Owed'
  BY <1>1 DEF LedgerInv
<1>2. \A s \in writing : Connected(s) <=> s \in Receiver!Sessions /\ client[peer[s]] = "connected"
  BY <1>1 DEF TalkInv, Opened, Connected, Given
<1>3. /\ client \in [Clients -> States]
      /\ \A s \in writing : s \in Receiver!Sessions => peer[s] \in Clients /\ client[peer[s]] # "idle"
  BY <1>1 DEF TalkInv, Shapes, Opened, Given
<1>4. ASSUME UNCHANGED <<queue_, acquired, replies, got, sent, writing, peer, accepting>>, alive' \in {alive, FALSE},
             \A c \in Clients : client'[c] = "connected" => client[c] \in {"connected", "idle"}
      PROVE  Ledger' /\ Owed'
  <2>1. ASSUME NEW s \in writing, Connected(s)' PROVE Connected(s)
    <3>1. s \in Receiver!Sessions /\ client'[peer[s]] = "connected"
      BY <1>4, <2>1 DEF Connected, Given, Receiver!Sessions
    <3> QED
      BY <1>2, <1>3, <1>4, <3>1
  <2> QED
    BY <1>1, <1>4, <2>1, QuietStep
<1>5. ASSUME UNCHANGED <<queue_, acquired, replies, got, sent, writing, peer, accepting, client>>,
             alive' \in {alive, FALSE}
      PROVE  Ledger' /\ Owed'
  <2>1. \A c \in Clients : client'[c] = "connected" => client[c] \in {"connected", "idle"}
    BY <1>5
  <2>2. UNCHANGED <<queue_, acquired, replies, got, sent, writing, peer, accepting>>
    BY <1>5
  <2> QED
    BY <1>4, <1>5, <2>1, <2>2
<1>6. CASE \E c \in Clients, m \in Requests : ClientSends(c, m)
  BY <1>5, <1>6 DEF ClientSends, Receiver!SendRequest, Receiver!server_vars, runner_vars
<1>7. CASE ClientMoves
  <2>1. PICK c \in Clients : Receiver!Connect(c) \/ Receiver!Close(c) \/ Receiver!Break(c)
    BY <1>7 DEF ClientMoves
  <2>2. UNCHANGED <<queue_, acquired, replies, got, sent, writing, peer, accepting, alive>>
    BY <1>7, <2>1 DEF ClientMoves, Receiver!Connect, Receiver!Close, Receiver!Break,
                      Receiver!server_vars, runner_vars, talk_vars
  <2>3. \/ client[c] = "idle" /\ client' = [client EXCEPT ![c] = "connected"]
        \/ \E x \in {"closed"} \union Receiver!Broken : client' = [client EXCEPT ![c] = x]
    BY <2>1 DEF Receiver!Connect, Receiver!Close, Receiver!Break
  <2>4. \A d \in Clients : client'[d] = "connected" => client[d] \in {"connected", "idle"}
    <3>1. CASE client[c] = "idle" /\ client' = [client EXCEPT ![c] = "connected"]
      BY <1>3, <3>1
    <3>2. CASE \E x \in {"closed"} \union Receiver!Broken : client' = [client EXCEPT ![c] = x]
      BY <1>3, <3>2 DEF Receiver!Broken
    <3> QED
      BY <2>3, <3>1, <3>2
  <2> QED
    BY <1>4, <2>2, <2>4
<1>8. CASE Accept
  <2>1. CASE Receiver!Die
    BY <1>5, <1>8, <2>1 DEF Accept, Receiver!Die, Receiver!net_vars, runner_vars, talk_vars
  <2>2. CASE Receiver!Accepted(Head(backlog))
    <3>1. /\ peer' = [peer EXCEPT ![accepting] = Head(backlog)]
          /\ UNCHANGED <<queue_, acquired, replies, got, sent, writing, alive, client>>
      BY <1>8, <2>2 DEF Accept, Receiver!Accepted, runner_vars, talk_vars
    <3>2. \A s \in writing : s \in Int /\ s < accepting /\ accepting \in Int
      BY <1>1 DEF TalkInv, Opened, Shapes
    <3>3. ASSUME NEW s \in writing, Connected(s)' PROVE Connected(s)
      <4>1. s # accepting
        BY <3>2
      <4>2. s \in Receiver!Sessions /\ client[peer'[s]] = "connected"
        BY <3>1, <3>3 DEF Connected, Given, Receiver!Sessions
      <4>3. peer'[s] = peer[s]
        BY <1>1, <3>1, <4>1, <4>2 DEF TalkInv, Shapes
      <4> QED
        BY <1>2, <3>3, <4>2, <4>3
    <3> QED
      BY <1>1, <3>1, <3>3, QuietStep
  <2> QED
    BY <1>8, <2>1, <2>2 DEF Accept, Receiver!HandleAccept, Receiver!HandleAcceptError
<1>9. ASSUME NEW s \in Receiver!Sessions, ReadEnds(s) PROVE Ledger' /\ Owed'
  <2>1. Receiver!HandleEof(s) \/ Receiver!HandleOtherError(s) \/ Receiver!Die
    BY <1>9 DEF ReadEnds, Receiver!ReadEnds
  <2>2. CASE Receiver!HandleEof(s) \/ Receiver!HandleOtherError(s)
    BY <1>5, <1>9, <2>2 DEF ReadEnds, Receiver!HandleEof, Receiver!HandleOtherError, Receiver!net_vars,
                            runner_vars, talk_vars
  <2>3. CASE Receiver!Die
    BY <1>5, <1>9, <2>3 DEF ReadEnds, Receiver!Die, Receiver!net_vars, runner_vars, talk_vars
  <2> QED
    BY <2>1, <2>2, <2>3
<1>10. ASSUME NEW s \in Receiver!Sessions, ServeDies(s) PROVE Ledger' /\ Owed'
  <2>1. Message(s) \in Requests
    BY <1>1, <1>10, RequestIsCurrent DEF ServeDies
  <2>2. Ledger' /\ \A k \in Coders : Counts(k)
    BY <1>1, <1>10, <2>1, MessageKept DEF ServeDies
  <2>3. UNCHANGED <<client, peer, accepting, writing, sent, got>>
    BY <1>10 DEF ServeDies, Receiver!Die, Receiver!net_vars, talk_vars
  <2>4. \A k \in Coders : Pending(k)' \subseteq Pending(k)
    BY <2>3 DEF Pending, Connected, Given, Receiver!Sessions
  <2> QED
    BY <1>1, <2>2, <2>3, <2>4, OwedStep
<1>11. ASSUME NEW s \in Receiver!Sessions, Serve(s) \/ Deliver(s) PROVE Ledger' /\ Owed'
  BY <1>11, ServeOwes, DeliverOwes
<1>12. CASE UNCHANGED vars
  <2>1. UNCHANGED <<queue_, acquired, replies, got, sent, writing, peer, accepting, client, alive>>
    BY <1>12 DEF vars, receiver_vars, runner_vars, talk_vars
  <2> QED
    BY <1>5, <2>1
<1> QED
  BY <1>6, <1>7, <1>8, <1>9, <1>10, <1>11, <1>12 DEF Next

\* A ledger is what PRESERVE_ALL promises.
LEMMA LedgerPreserves ==
    ASSUME Ledger, replies \in Seq(Replies(Requests))
    PROVE  Runner!ResultsPreserved
<1> DEFINE n == Len(replies)
           q == Len(queue_)
           Told == {k \in DOMAIN replies : replies[k].error = 0}
<1>1. DOMAIN queue_ = 1 .. q /\ \A i \in 1 .. q : queue_[i] \in [coder : Coders, serial : Nat \ {0}]
  BY LedgerEntries
<1>2. Runner!Queued = {queue_[i] : i \in 1 .. q} /\ acquired = {}
  BY <1>1 DEF Runner!Queued, Ledger
<1>3. n \in Nat /\ DOMAIN replies = 1 .. n
  BY LenProperties
<1> HIDE DEF n, q
<1>4. ASSUME NEW k \in Told
      PROVE  Runner!Result(replies[k].coder, k) \in {r \in Runner!Queued \union acquired : r.serial <= n}
  <2>1. k \in 1 .. n /\ replies[k].error = 0
    BY <1>3
  <2>2. PICK i \in 1 .. q : queue_[i] = [coder |-> replies[k].coder, serial |-> k]
    BY <2>1 DEF Ledger, n, q
  <2>3. Runner!Result(replies[k].coder, k) = queue_[i] /\ queue_[i].serial = k
    BY <2>2 DEF Runner!Result
  <2> QED
    BY <1>2, <1>3, <2>1, <2>3
<1>5. ASSUME NEW r \in Runner!Queued \union acquired, r.serial <= n
      PROVE  \E k \in Told : r = Runner!Result(replies[k].coder, k)
  <2>1. PICK i \in 1 .. q : r = queue_[i]
    BY <1>2
  <2>2. /\ r \in [coder : Coders, serial : Nat \ {0}]
        /\ replies[r.serial].error = 0 /\ replies[r.serial].coder = r.coder
    BY <1>1, <1>5, <2>1 DEF Ledger, n, q
  <2>3. r.serial \in 1 .. n
    BY <1>3, <1>5, <2>2
  <2>4. r = [coder |-> r.coder, serial |-> r.serial]
    BY <2>2
  <2> QED
    BY <1>3, <2>2, <2>3, <2>4 DEF Runner!Result
<1>6. {Runner!Result(replies[k].coder, k) : k \in Told} = {r \in Runner!Queued \union acquired : r.serial <= n}
  BY <1>4, <1>5
<1>7. \A i, j \in DOMAIN queue_ : i < j => queue_[i].serial < queue_[j].serial
  BY <1>1 DEF Ledger, q
<1>8. Runner!Serials(Runner!Queued) \intersect Runner!Serials(acquired) = {}
  BY <1>2 DEF Runner!Serials
<1> QED
  BY <1>6, <1>7, <1>8 DEF Runner!ResultsPreserved, n

\* Whatever sessions interleave, the results of all of them are in the queue, in the
\* order of their replies, and clients together have no more replies of a coder than
\* the queue has results of it (CodersRunner.cc:20-31, NetCodersRunner.cc:32).
THEOREM ResultsOfAllSessions == Spec => []ResultsOfReplies
<1>1. Init => LedgerInv
  BY InitTalk, InitLedger DEF LedgerInv
<1>2. LedgerInv /\ [Next]_vars => LedgerInv'
  BY NextLedger
<1>3. LedgerInv => ResultsOfReplies
  <2> SUFFICES ASSUME LedgerInv PROVE ResultsOfReplies
    OBVIOUS
  <2>1. replies \in Seq(Replies(Requests))
    BY DEF LedgerInv, TalkInv, Shapes
  <2>2. Runner!ResultsPreserved
    BY <2>1, LedgerPreserves DEF LedgerInv
  <2>3. ASSUME NEW k \in Coders
        PROVE  Cardinality(RepliesHave(k)) <= Cardinality({i \in DOMAIN queue_ : queue_[i].coder = k})
    <3>1. /\ IsFiniteSet(RepliesHave(k)) /\ IsFiniteSet(Pending(k))
          /\ Cardinality(RepliesHave(k)) + Cardinality(Pending(k)) <= Cardinality(QueuedOf(k))
      BY DEF LedgerInv, Owed
    <3>2. Cardinality(RepliesHave(k)) \in Nat /\ Cardinality(Pending(k)) \in Nat
      BY <3>1, FS_CardinalityType
    <3>3. Cardinality(QueuedOf(k)) \in Nat
      <4>1. 1 \in Int /\ Len(queue_) \in Int /\ DOMAIN queue_ = 1 .. Len(queue_)
        BY LedgerEntries DEF LedgerInv
      <4>2. IsFiniteSet(1 .. Len(queue_)) /\ QueuedOf(k) \in SUBSET (1 .. Len(queue_))
        BY <4>1, FS_Interval DEF QueuedOf
      <4> QED
        BY <4>2, FS_Subset, FS_CardinalityType
    <3>4. Cardinality(RepliesHave(k)) <= Cardinality(QueuedOf(k))
      BY <3>1, <3>2, <3>3
    <3> QED
      BY <3>4 DEF QueuedOf
  <2> QED
    BY <2>2, <2>3 DEF ResultsOfReplies
<1> QED
  BY <1>1, <1>2, <1>3, PTL DEF Spec

================================================================================

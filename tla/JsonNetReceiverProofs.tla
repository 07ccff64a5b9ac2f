-------------------------- MODULE JsonNetReceiverProofs --------------------------
(****************************************************************************)
(* For any finite number of clients and of requests: sessions_ owns the     *)
(* sessions that pending operations are bound to, and else only those whose *)
(* read error was printed (OwnsItsSessions, OwnsWriters); with orderly      *)
(* clients only a deadly request ends the process (DiesOfRequestsOnly); and *)
(* a session is destroyed only if its client closed or its connection was   *)
(* aborted (ReleasesOnlyClosed).                                            *)
(****************************************************************************)
EXTENDS JsonNetReceiver, SequenceLemmas, SequenceTheorems, FiniteSetTheorems, TLAPS

--------------------------------------------------------------------------------
(* The inductive invariant. *)

\* The connections that have a session, now or before.
Accepts == 1 .. accepting - 1

\* TypeOK, with what it leaves to its counters: that they are functions, and of naturals.
Typed == /\ TypeOK
         /\ {requested, read, answered} \subseteq [Clients -> Nat]

\* A connection waits once in the backlog or has one session, and was opened by its client.
EachConnectionOnce ==
    /\ \A s \in Accepts : peer[s] \in Clients /\ client[peer[s]] # "idle"
    /\ \A s, t \in Accepts : peer[s] = peer[t] => s = t
    /\ \A i \in 1 .. Len(backlog) :
          client[backlog[i]] # "idle" /\ \A s \in Accepts : peer[s] # backlog[i]
    /\ \A i, j \in 1 .. Len(backlog) : backlog[i] = backlog[j] => i = j

\* Only sessions with a connection read and write, and are kept besides the one that
\* waits for its own.
OnlyAcceptedOperate ==
    /\ reading \subseteq Accepts /\ writing \subseteq Accepts
    /\ ToSet(sessions_) \subseteq Accepts \union {accepting}

\* A client waits for its reply before it sends the next request, and while it does, a
\* write that is on its way is the reply.
OneOutstanding ==
    /\ \A c \in Clients : requested[c] <= answered[c] + 1
    /\ \A s \in writing : client[peer[s]] = "connected" => read[peer[s]] = answered[peer[s]] + 1

\* Orderly clients close with all their replies, and their connections do not break.
Orderliness ==
    orderly => /\ \A c \in Clients : client[c] \notin Broken
               /\ \A c \in Clients : client[c] = "closed" => answered[c] = requested[c]
               /\ \A s \in writing : client[peer[s]] = "connected"

ReceiverInv == /\ Typed
               /\ SessionsOwned
               /\ EachConnectionOnce
               /\ OnlyAcceptedOperate
               /\ OneOutstanding
               /\ Orderliness
               /\ WritesOwned
               /\ StaysAlive

--------------------------------------------------------------------------------
(* Lemmas about sequences. *)

\* closeSession takes its session out of sessions_, and leaves the rest in its order.
LEMMA CloseSessionRemoves ==
    ASSUME NEW S, NEW q \in Seq(S), IsInjective(q), NEW e \in ToSet(q), e # Last(q)
    PROVE  /\ RemoveFirst(q, e) \in Seq(S)
           /\ IsInjective(RemoveFirst(q, e))
           /\ ToSet(RemoveFirst(q, e)) = ToSet(q) \ {e}
           /\ Last(RemoveFirst(q, e)) = Last(q)
<1> DEFINE r == RemoveFirst(q, e)
<1>1. DOMAIN q = 1 .. Len(q) /\ Len(q) \in Nat
  BY LenProperties
<1>2. PICK i \in 1 .. Len(q) :
         /\ q[i] = e
         /\ r \in Seq(S)
         /\ Len(r) = Len(q) - 1
         /\ \A j \in 1 .. Len(q) - 1 : r[j] = IF j < i THEN q[j] ELSE q[j + 1]
  BY FirstRemoved
<1>3. \A j \in 1 .. Len(q) : q[j] = e => j = i
  BY <1>1, <1>2 DEF IsInjective
<1> HIDE DEF r
<1>6. i < Len(q)
  BY <1>1, <1>2 DEF Last
<1>7. DOMAIN r = 1 .. Len(q) - 1
  BY <1>2, LenProperties
<1>8. IsInjective(r)
  <2> SUFFICES ASSUME NEW j \in DOMAIN r, NEW k \in DOMAIN r, r[j] = r[k] PROVE j = k
    BY DEF IsInjective
  <2> DEFINE at(x) == IF x < i THEN x ELSE x + 1
  <2>1. at(j) \in 1 .. Len(q) /\ at(k) \in 1 .. Len(q) /\ q[at(j)] = q[at(k)]
    BY <1>1, <1>2, <1>7
  <2>2. at(j) = at(k)
    BY <1>1, <2>1 DEF IsInjective
  <2> QED
    BY <1>1, <1>7, <2>2
<1>9. ToSet(r) = ToSet(q) \ {e}
  <2>1. ASSUME NEW x \in ToSet(r) PROVE x \in ToSet(q) \ {e}
    <3>1. PICK j \in DOMAIN r : r[j] = x
      BY <2>1 DEF ToSet
    <3>2. PICK k \in 1 .. Len(q) : k # i /\ q[k] = x
      BY <1>1, <1>2, <1>7, <3>1
    <3> QED
      BY <1>1, <1>3, <3>2 DEF ToSet
  <2>2. ASSUME NEW x \in ToSet(q) \ {e} PROVE x \in ToSet(r)
    <3>1. PICK k \in 1 .. Len(q) : q[k] = x
      BY <1>1 DEF ToSet
    <3>2. k # i
      BY <1>2, <3>1
    <3>3. PICK j \in DOMAIN r : r[j] = x
      <4>1. CASE k < i
        <5>1. k \in DOMAIN r /\ r[k] = x
          BY <1>1, <1>2, <1>6, <1>7, <3>1, <4>1
        <5> QED
          BY <5>1
      <4>2. CASE k > i
        <5>1. k - 1 \in DOMAIN r /\ r[k - 1] = x
          BY <1>1, <1>2, <1>6, <1>7, <3>1, <4>2
        <5> QED
          BY <5>1
      <4> QED
        BY <1>1, <3>2, <4>1, <4>2
    <3> QED
      BY <3>3 DEF ToSet
  <2> QED
    BY <2>1, <2>2
<1>10. Last(r) = Last(q)
  BY <1>1, <1>2, <1>6 DEF Last
<1> QED
  BY <1>2, <1>8, <1>9, <1>10 DEF r

--------------------------------------------------------------------------------
(* The steps of clients. *)

\* What the actions need of the types.
LEMMA Bounds ==
    ASSUME ReceiverInv
    PROVE  /\ Cardinality(Clients) \in Nat
           /\ accepting \in Nat \ {0} /\ accepting \in Sessions
           /\ Len(backlog) \in Nat /\ DOMAIN backlog = 1 .. Len(backlog)
           /\ \A i \in 1 .. Len(backlog) : backlog[i] \in Clients
           /\ \A s \in reading \union writing : s \in Accepts /\ s \in Sessions /\ peer[s] \in Clients
           /\ {requested, read, answered} \subseteq [Clients -> Nat]
           /\ \A c \in Clients : answered[c] <= read[c] /\ read[c] <= requested[c]
                                 /\ requested[c] <= MaxRequests
<1>1. Cardinality(Clients) \in Nat
  BY ClientsAssumption, FS_CardinalityType
<1>2. accepting \in Nat \ {0}
  BY <1>1 DEF ReceiverInv, Typed, TypeOK, Sessions
<1>3. /\ Len(backlog) \in Nat /\ DOMAIN backlog = 1 .. Len(backlog)
      /\ \A i \in 1 .. Len(backlog) : backlog[i] \in Clients
  BY LenProperties, ElementOfSeq DEF ReceiverInv, Typed, TypeOK
<1>4. \A s \in reading \union writing : s \in Accepts /\ s \in Sessions /\ peer[s] \in Clients
  BY <1>1, <1>2 DEF ReceiverInv, OnlyAcceptedOperate, EachConnectionOnce, Typed, TypeOK
<1>5. {requested, read, answered} \subseteq [Clients -> Nat]
  BY DEF ReceiverInv, Typed
<1>6. \A c \in Clients : answered[c] <= read[c] /\ read[c] <= requested[c]
                         /\ requested[c] <= MaxRequests
  BY MaxRequestsAssumption DEF ReceiverInv, Typed, TypeOK
<1> QED
  BY <1>1, <1>2, <1>3, <1>4, <1>5, <1>6 DEF ReceiverInv, Typed, TypeOK

LEMMA InitReceiver == Init => ReceiverInv
<1> SUFFICES ASSUME Init PROVE ReceiverInv
  OBVIOUS
<1> USE MaxRequestsAssumption, NobodyAssumption DEF Init
<1>1. Cardinality(Clients) \in Nat /\ Sessions = 1 .. Cardinality(Clients) + 1 /\ 1 \in Sessions
  BY ClientsAssumption, FS_CardinalityType DEF Sessions
<1>2. Accepts = {}
  BY DEF Accepts
<1>3. << >> \in Seq(Clients) /\ Len(backlog) = 0
  BY EmptySeq
<1>4. sessions_ \in Seq(Sessions) /\ Len(sessions_) = 1 /\ DOMAIN sessions_ = {1} /\ sessions_[1] = 1
  BY <1>1
<1>5. Typed
  BY <1>1, <1>3, <1>4 DEF Typed, TypeOK
<1>6. SessionsOwned
  BY <1>4 DEF SessionsOwned, IsInjective, ToSet, Last
<1>7. EachConnectionOnce /\ OnlyAcceptedOperate
  BY <1>2, <1>3, <1>4 DEF EachConnectionOnce, OnlyAcceptedOperate, ToSet
<1>8. OneOutstanding /\ Orderliness /\ WritesOwned /\ StaysAlive
  BY DEF OneOutstanding, Orderliness, WritesOwned, StaysAlive, Broken
<1> QED
  BY <1>5, <1>6, <1>7, <1>8 DEF ReceiverInv

\* What the steps of clients leave alone: a connection that failed stays so, and a
\* request that has arrived stays the one to be read.
LEMMA ServerUnchanged ==
    ASSUME ReceiverInv, UNCHANGED <<server_vars, orderly>>, deadly \subseteq deadly',
           \A c \in Clients : client[c] = "failed" => client'[c] = "failed",
           \A c \in Clients : requested'[c] >= requested[c] /\ requested'[c] \in Nat
    PROVE  /\ SessionsOwned' /\ OnlyAcceptedOperate' /\ WritesOwned' /\ StaysAlive'
           /\ Accepts' = Accepts
<1>1. Accepts' = Accepts /\ UNCHANGED <<read, sessions_, peer, accepting, reading, writing, alive, orderly>>
  BY DEF server_vars, Accepts
<1>2. OnlyAcceptedOperate' /\ WritesOwned'
  BY <1>1 DEF ReceiverInv, OnlyAcceptedOperate, WritesOwned, ToSet
<1>3. SessionsOwned'
  <2>1. ASSUME NEW s \in ToSet(sessions_), s \notin reading \union {accepting}
        PROVE  client'[peer[s]] = "failed"
    <3>1. s \in Accepts /\ client[peer[s]] = "failed"
      BY <2>1 DEF ReceiverInv, OnlyAcceptedOperate, SessionsOwned
    <3>2. peer[s] \in Clients
      BY <3>1 DEF ReceiverInv, EachConnectionOnce
    <3> QED
      BY <3>1, <3>2
  <2> QED
    BY <1>1, <2>1 DEF ReceiverInv, SessionsOwned, ToSet, IsInjective
<1>4. StaysAlive'
  <2> SUFFICES ASSUME orderly, ~alive PROVE DeadlyRequestArrived'
    BY <1>1 DEF StaysAlive
  <2>1. PICK s \in reading : peer[s] \in deadly /\ requested[peer[s]] > read[peer[s]]
    BY DEF ReceiverInv, StaysAlive, DeadlyRequestArrived
  <2>2. peer[s] \in Clients /\ requested[peer[s]] \in Nat /\ read[peer[s]] \in Nat
    BY Bounds
  <2>3. requested'[peer[s]] > read[peer[s]]
    BY <2>1, <2>2
  <2> QED
    BY <1>1, <2>1, <2>3 DEF DeadlyRequestArrived
<1> QED
  BY <1>1, <1>2, <1>3, <1>4

LEMMA ConnectStep ==
    ASSUME ReceiverInv, NEW c \in Clients, Connect(c)
    PROVE  ReceiverInv'
<1>1. /\ client[c] = "idle"
      /\ client' = [client EXCEPT ![c] = "connected"]
      /\ backlog' = Append(backlog, c)
      /\ UNCHANGED <<orderly, requested, deadly, answered, read, sessions_, peer, accepting, reading,
                     writing, alive>>
  BY DEF Connect, server_vars
<1>2. SessionsOwned' /\ OnlyAcceptedOperate' /\ WritesOwned' /\ StaysAlive' /\ Accepts' = Accepts
  <2>1. \A d \in Clients : client[d] = "failed" => client'[d] = "failed"
    BY <1>1 DEF ReceiverInv, Typed, TypeOK
  <2>2. \A d \in Clients : requested'[d] >= requested[d] /\ requested'[d] \in Nat
    BY <1>1, Bounds
  <2> QED
    BY <1>1, <2>1, <2>2, ServerUnchanged DEF server_vars
<1>3. /\ backlog' \in Seq(Clients)
      /\ Len(backlog') = Len(backlog) + 1
      /\ \A i \in 1 .. Len(backlog) : backlog'[i] = backlog[i]
      /\ backlog'[Len(backlog) + 1] = c
  BY <1>1, AppendProperties DEF ReceiverInv, Typed, TypeOK
<1>4. \A d \in Clients : client'[d] = IF d = c THEN "connected" ELSE client[d]
  BY <1>1 DEF ReceiverInv, Typed, TypeOK
<1>5. Typed'
  <2>1. client' \in [Clients -> {"idle", "connected", "closed"} \union Broken]
    BY <1>1 DEF ReceiverInv, Typed, TypeOK
  <2> QED
    BY <1>1, <1>3, <2>1 DEF ReceiverInv, Typed, TypeOK, Sessions
<1>6. EachConnectionOnce'
  <2>1. \A s \in Accepts : peer[s] # c
    BY <1>1 DEF ReceiverInv, EachConnectionOnce
  <2>2. \A i \in 1 .. Len(backlog) : backlog[i] # c
    BY <1>1 DEF ReceiverInv, EachConnectionOnce
  <2>3. /\ \A s \in Accepts : peer[s] \in Clients /\ client'[peer[s]] # "idle"
        /\ \A s, t \in Accepts : peer[s] = peer[t] => s = t
    BY <1>4 DEF ReceiverInv, EachConnectionOnce
  <2>4. \A i \in 1 .. Len(backlog') : i = Len(backlog) + 1 \/ i \in 1 .. Len(backlog)
    BY <1>3, Bounds
  <2>5. \A i \in 1 .. Len(backlog') :
            client'[backlog'[i]] # "idle" /\ \A s \in Accepts : peer[s] # backlog'[i]
    BY <1>3, <1>4, <2>1, <2>4, Bounds DEF ReceiverInv, EachConnectionOnce
  <2>6. \A i, j \in 1 .. Len(backlog') : backlog'[i] = backlog'[j] => i = j
    BY <1>3, <2>2, <2>4 DEF ReceiverInv, EachConnectionOnce
  <2> QED
    BY <1>1, <1>2, <2>3, <2>5, <2>6 DEF EachConnectionOnce
<1>7. \A s \in writing : peer[s] # c
  BY <1>1, Bounds DEF ReceiverInv, EachConnectionOnce
<1>8. OneOutstanding'
  BY <1>1, <1>4, <1>7, Bounds DEF ReceiverInv, OneOutstanding
<1>9. Orderliness'
  BY <1>1, <1>4, <1>7, Bounds DEF ReceiverInv, Orderliness, Broken
<1> QED
  BY <1>2, <1>5, <1>6, <1>8, <1>9 DEF ReceiverInv

LEMMA SendRequestStep ==
    ASSUME ReceiverInv, NEW c \in Clients, SendRequest(c)
    PROVE  ReceiverInv'
<1>1. /\ client[c] = "connected"
      /\ requested[c] < MaxRequests
      /\ answered[c] = requested[c]
      /\ requested' = [requested EXCEPT ![c] = @ + 1]
      /\ deadly \subseteq deadly' /\ deadly' \subseteq Clients
      /\ UNCHANGED <<orderly, client, backlog, answered, read, sessions_, peer, accepting,
                     reading, writing, alive>>
  BY DEF SendRequest, server_vars, ReceiverInv, Typed, TypeOK
<1>3. \A d \in Clients : requested'[d] = IF d = c THEN requested[c] + 1 ELSE requested[d]
  BY <1>1, Bounds
<1>2. SessionsOwned' /\ OnlyAcceptedOperate' /\ WritesOwned' /\ StaysAlive' /\ Accepts' = Accepts
  <2>1. ASSUME NEW d \in Clients PROVE requested'[d] >= requested[d] /\ requested'[d] \in Nat
    <3>1. requested[d] \in Nat /\ requested[c] \in Nat
      BY Bounds
    <3>2. requested'[d] = requested[d] + 1 \/ requested'[d] = requested[d]
      BY <1>3
    <3> QED
      BY <3>1, <3>2
  <2> QED
    BY <1>1, <2>1, ServerUnchanged DEF server_vars
<1>4. Typed'
  <2>1. requested' \in [Clients -> Nat]
    BY <1>1, Bounds
  <2>2. \A d \in Clients : /\ answered[d] \in 0 .. read[d]
                           /\ read[d] \in 0 .. requested'[d]
                           /\ requested'[d] \in 0 .. MaxRequests
    BY <1>1, <1>3, Bounds, MaxRequestsAssumption
  <2> QED
    BY <1>1, <2>1, <2>2 DEF ReceiverInv, Typed, TypeOK, Sessions
<1>5. EachConnectionOnce'
  BY <1>1, <1>2 DEF ReceiverInv, EachConnectionOnce
<1>6. OneOutstanding'
  BY <1>1, <1>3, Bounds DEF ReceiverInv, OneOutstanding
<1>7. Orderliness'
  BY <1>1, <1>3, Bounds DEF ReceiverInv, Orderliness
<1> QED
  BY <1>2, <1>4, <1>5, <1>6, <1>7 DEF ReceiverInv

\* A client that closes or loses its connection changes nothing else; an orderly one has
\* no write on its way.
LEMMA LeaveStep ==
    ASSUME ReceiverInv, NEW c \in Clients, Close(c) \/ Break(c)
    PROVE  ReceiverInv'
<1>1. /\ client[c] # "idle"
      /\ \/ client' = [client EXCEPT ![c] = "closed"]
         \/ ~orderly /\ \E b \in Broken : client' = [client EXCEPT ![c] = b]
      /\ client[c] # "failed"
      /\ orderly => answered[c] = requested[c]
      /\ UNCHANGED <<orderly, backlog, requested, deadly, answered, read, sessions_, peer, accepting,
                     reading, writing, alive>>
  BY DEF Close, Break, server_vars
<1>3. /\ \A d \in Clients \ {c} : client'[d] = client[d]
      /\ client'[c] = "closed" \/ (~orderly /\ client'[c] \in Broken)
      /\ client' \in [Clients -> {"idle", "connected", "closed"} \union Broken]
  BY <1>1 DEF ReceiverInv, Typed, TypeOK
<1>2. SessionsOwned' /\ OnlyAcceptedOperate' /\ WritesOwned' /\ StaysAlive' /\ Accepts' = Accepts
  <2>1. \A d \in Clients : client[d] = "failed" => client'[d] = "failed"
    BY <1>1, <1>3
  <2>2. \A d \in Clients : requested'[d] >= requested[d] /\ requested'[d] \in Nat
    BY <1>1, Bounds
  <2> QED
    BY <1>1, <2>1, <2>2, ServerUnchanged DEF server_vars
<1>4. Typed'
  BY <1>1, <1>3 DEF ReceiverInv, Typed, TypeOK, Sessions
<1>5. EachConnectionOnce'
  BY <1>1, <1>2, <1>3, Bounds DEF ReceiverInv, EachConnectionOnce, Broken
<1>6. OneOutstanding'
  BY <1>1, <1>3, Bounds DEF ReceiverInv, OneOutstanding, Broken
<1>7. Orderliness'
  <2> SUFFICES ASSUME orderly
               PROVE  /\ \A d \in Clients : client'[d] \notin Broken
                      /\ \A d \in Clients : client'[d] = "closed" => answered[d] = requested[d]
                      /\ \A s \in writing : client'[peer[s]] = "connected"
    BY <1>1 DEF Orderliness
  <2>1. \A s \in writing : peer[s] # c
    <3> SUFFICES ASSUME NEW s \in writing, peer[s] = c PROVE FALSE
      OBVIOUS
    <3>1. client[c] = "connected" /\ read[c] = answered[c] + 1
      BY DEF ReceiverInv, Orderliness, OneOutstanding
    <3> QED
      BY <1>1, <3>1, Bounds
  <2>2. client'[c] = "closed" /\ "closed" \notin Broken
    BY <1>3 DEF Broken
  <2> QED
    BY <1>1, <1>3, <2>1, <2>2, Bounds DEF ReceiverInv, Orderliness
<1> QED
  BY <1>2, <1>4, <1>5, <1>6, <1>7 DEF ReceiverInv

--------------------------------------------------------------------------------
(* The handlers. *)

LEMMA DieStep ==
    ASSUME ReceiverInv, Die, orderly => DeadlyRequestArrived
    PROVE  ReceiverInv'
<1>1. /\ alive' = FALSE
      /\ UNCHANGED <<orderly, client, backlog, requested, deadly, answered, read, sessions_, peer,
                     accepting, reading, writing>>
  BY DEF Die, net_vars
<1>2. Accepts' = Accepts
  BY <1>1 DEF Accepts
<1>3. Typed'
  BY <1>1 DEF ReceiverInv, Typed, TypeOK, Sessions
<1>4. SessionsOwned' /\ OnlyAcceptedOperate' /\ EachConnectionOnce'
  BY <1>1, <1>2 DEF ReceiverInv, SessionsOwned, OnlyAcceptedOperate, EachConnectionOnce
<1>5. OneOutstanding' /\ Orderliness' /\ WritesOwned'
  BY <1>1 DEF ReceiverInv, OneOutstanding, Orderliness, WritesOwned
<1>6. StaysAlive'
  BY <1>1 DEF StaysAlive, DeadlyRequestArrived
<1> QED
  BY <1>3, <1>4, <1>5, <1>6 DEF ReceiverInv

\* There are as many sessions as connections at most, and the one that accepts.
LEMMA RoomForAnother ==
    ASSUME ReceiverInv, backlog # << >>
    PROVE  accepting <= Cardinality(Clients)
<1> DEFINE c == backlog[1]
           f == [s \in 1 .. accepting |-> IF s = accepting THEN c ELSE peer[s]]
<1>1. Len(backlog) \in Nat \ {0} /\ c \in Clients
  <2>1. Len(backlog) # 0
    BY EmptySeq DEF ReceiverInv, Typed, TypeOK
  <2> QED
    BY <2>1, Bounds
<1>2. /\ \A s \in Accepts : peer[s] \in Clients /\ peer[s] # c
      /\ \A s, t \in Accepts : peer[s] = peer[t] => s = t
  BY <1>1 DEF ReceiverInv, EachConnectionOnce
<1>3. accepting \in Nat \ {0} /\ \A s \in 1 .. accepting : s = accepting \/ s \in Accepts
  BY Bounds DEF Accepts
<1> HIDE DEF c
<1>4. f \in [1 .. accepting -> Clients]
  BY <1>1, <1>2, <1>3
<1>5. \A s, t \in 1 .. accepting : f[s] = f[t] => s = t
  BY <1>2, <1>3
<1> HIDE DEF f
<1>6. f \in Injection(1 .. accepting, Clients)
  BY <1>4, <1>5 DEF Injection, IsInjective
<1>7. Cardinality(1 .. accepting) <= Cardinality(Clients)
  BY <1>6, ClientsAssumption, FS_Injection
<1>8. Cardinality(1 .. accepting) = accepting
  BY <1>3, FS_Interval
<1> QED
  BY <1>7, <1>8

LEMMA AcceptedStep ==
    ASSUME ReceiverInv, alive, backlog # << >>, Accepted(Head(backlog))
    PROVE  ReceiverInv'
<1> DEFINE c == backlog[1]
           a == accepting
<1>1. /\ backlog \in Seq(Clients) /\ Len(backlog) \in Nat \ {0} /\ Head(backlog) = c /\ c \in Clients
      /\ a \in Nat \ {0} /\ a + 1 \in Sessions
  <2>1. Len(backlog) # 0
    BY EmptySeq DEF ReceiverInv, Typed, TypeOK
  <2>2. a + 1 \in Sessions
    BY RoomForAnother, Bounds DEF Sessions
  <2> QED
    BY <2>1, <2>2, Bounds DEF ReceiverInv, Typed, TypeOK
<1>2. /\ peer' = [peer EXCEPT ![a] = c]
      /\ reading' = reading \union {a}
      /\ sessions_' = Append(sessions_, a + 1)
      /\ accepting' = a + 1
      /\ backlog' = Tail(backlog)
      /\ UNCHANGED <<orderly, client, requested, deadly, answered, read, writing, alive>>
  BY <1>1 DEF Accepted
<1> HIDE DEF c, a
<1>3. /\ backlog' \in Seq(Clients)
      /\ Len(backlog') = Len(backlog) - 1
      /\ \A i \in 1 .. Len(backlog) - 1 : backlog'[i] = backlog[i + 1]
  BY <1>1, <1>2, HeadTailProperties
<1>4. /\ Accepts' = Accepts \union {a} /\ a \notin Accepts
      /\ peer' \in [Sessions -> Clients \union {Nobody}]
      /\ peer'[a] = c /\ \A s \in Accepts : peer'[s] = peer[s]
  <2>1. Accepts' = Accepts \union {a} /\ a \notin Accepts
    BY <1>1, <1>2 DEF Accepts, a
  <2>2. a \in Sessions /\ peer \in [Sessions -> Clients \union {Nobody}] /\ Accepts \subseteq Sessions
    <3>1. accepting \in Sessions /\ Cardinality(Clients) \in Nat
      BY Bounds
    <3>2. 1 .. accepting - 1 \subseteq Sessions
      BY <3>1 DEF Sessions
    <3> QED
      BY <3>1, <3>2 DEF ReceiverInv, Typed, TypeOK, Accepts, a
  <2> QED
    BY <1>1, <1>2, <2>1, <2>2
<1>5. /\ sessions_' \in Seq(Sessions)
      /\ Len(sessions_') = Len(sessions_) + 1 /\ Len(sessions_) \in Nat
      /\ \A i \in 1 .. Len(sessions_) : sessions_'[i] = sessions_[i]
      /\ sessions_'[Len(sessions_) + 1] = a + 1
      /\ DOMAIN sessions_' = 1 .. Len(sessions_) + 1 /\ DOMAIN sessions_ = 1 .. Len(sessions_)
  <2>1. sessions_ \in Seq(Sessions)
    BY DEF ReceiverInv, Typed, TypeOK
  <2>2. sessions_' \in Seq(Sessions)
    BY <1>1, <1>2, <2>1, AppendProperties
  <2> QED
    BY <1>1, <1>2, <2>1, <2>2, AppendProperties, LenProperties
<1>6. Typed'
  <2>1. Sessions' = Sessions
    BY DEF Sessions
  <2>2. reading' \subseteq Sessions
    BY <1>2, Bounds DEF ReceiverInv, Typed, TypeOK, a
  <2> QED
    BY <1>1, <1>2, <1>3, <1>4, <1>5, <2>1, <2>2 DEF ReceiverInv, Typed, TypeOK
<1>7. ToSet(sessions_') = ToSet(sessions_) \union {a + 1}
  <2>1. ASSUME NEW x \in ToSet(sessions_') PROVE x \in ToSet(sessions_) \union {a + 1}
    <3>1. PICK i \in 1 .. Len(sessions_) + 1 : sessions_'[i] = x
      BY <1>5 DEF ToSet
    <3>2. i \in 1 .. Len(sessions_) \/ i = Len(sessions_) + 1
      BY <1>5
    <3> QED
      BY <1>5, <3>1, <3>2 DEF ToSet
  <2>2. ToSet(sessions_) \subseteq ToSet(sessions_')
    <3> SUFFICES ASSUME NEW i \in 1 .. Len(sessions_) PROVE sessions_[i] \in ToSet(sessions_')
      BY <1>5 DEF ToSet
    <3>1. i \in DOMAIN sessions_' /\ sessions_'[i] = sessions_[i]
      BY <1>5
    <3> QED
      BY <3>1 DEF ToSet
  <2>3. a + 1 \in ToSet(sessions_')
    <3>1. Len(sessions_) + 1 \in DOMAIN sessions_'
      BY <1>5
    <3> QED
      BY <1>5, <3>1 DEF ToSet
  <2> QED
    BY <2>1, <2>2, <2>3
<1>8. SessionsOwned'
  <2>1. IsInjective(sessions_) /\ reading \union {a} \subseteq ToSet(sessions_)
    BY DEF ReceiverInv, SessionsOwned, a
  <2>2. a + 1 \notin ToSet(sessions_)
    BY <1>1 DEF ReceiverInv, OnlyAcceptedOperate, Accepts, a
  <2>6. ASSUME NEW s \in ToSet(sessions_'), s \notin reading' \union {accepting'}
        PROVE  client'[peer'[s]] = "failed"
    <3>1. s \in ToSet(sessions_) /\ s \notin reading \union {a}
      BY <1>2, <1>7, <2>6
    <3>2. s \in Accepts /\ client[peer[s]] = "failed"
      BY <3>1 DEF ReceiverInv, OnlyAcceptedOperate, SessionsOwned, a
    <3> QED
      BY <1>2, <1>4, <3>2
  <2>3. IsInjective(sessions_')
    <3>1. \A i \in 1 .. Len(sessions_) : sessions_[i] # a + 1
      BY <1>5, <2>2 DEF ToSet
    <3> QED
      BY <1>5, <2>1, <3>1 DEF IsInjective
  <2>4. Last(sessions_') = accepting'
    BY <1>2, <1>5 DEF Last
  <2>5. accepting' \notin reading'
    BY <1>1, <1>2, <2>1, <2>2
  <2> QED
    BY <1>2, <1>7, <2>1, <2>3, <2>4, <2>5, <2>6 DEF SessionsOwned
<1>9. EachConnectionOnce'
  <2>1. \A s \in Accepts : peer[s] # c
    BY <1>1 DEF ReceiverInv, EachConnectionOnce, c
  <2>2. client[c] # "idle"
    BY <1>1 DEF ReceiverInv, EachConnectionOnce, c
  <2>3. /\ \A s \in Accepts' : peer'[s] \in Clients /\ client[peer'[s]] # "idle"
        /\ \A s, t \in Accepts' : peer'[s] = peer'[t] => s = t
    BY <1>1, <1>4, <2>1, <2>2 DEF ReceiverInv, EachConnectionOnce
  <2>4. \A i \in 1 .. Len(backlog') : i + 1 \in 1 .. Len(backlog) /\ backlog'[i] = backlog[i + 1]
    BY <1>1, <1>3
  <2>5. \A i \in 1 .. Len(backlog) : i # 1 => backlog[i] # c
    BY <1>1 DEF ReceiverInv, EachConnectionOnce, c
  <2>6. \A i \in 1 .. Len(backlog') :
            client[backlog'[i]] # "idle" /\ \A s \in Accepts' : peer'[s] # backlog'[i]
    BY <1>1, <1>3, <1>4, <2>4, <2>5 DEF ReceiverInv, EachConnectionOnce
  <2>7. \A i, j \in 1 .. Len(backlog') : backlog'[i] = backlog'[j] => i = j
    BY <1>1, <1>3, <2>4 DEF ReceiverInv, EachConnectionOnce
  <2> QED
    BY <1>2, <2>3, <2>6, <2>7 DEF EachConnectionOnce
<1>10. OnlyAcceptedOperate'
  BY <1>2, <1>4, <1>7 DEF ReceiverInv, OnlyAcceptedOperate, a
<1>11. \A s \in writing : peer'[s] = peer[s]
  BY <1>4 DEF ReceiverInv, OnlyAcceptedOperate
<1>12. OneOutstanding' /\ Orderliness' /\ StaysAlive'
  BY <1>2, <1>11 DEF ReceiverInv, OneOutstanding, Orderliness, StaysAlive
<1>13. WritesOwned'
  BY <1>2, <1>7 DEF ReceiverInv, WritesOwned
<1> QED
  BY <1>6, <1>8, <1>9, <1>10, <1>12, <1>13 DEF ReceiverInv

LEMMA HandleRequestStep ==
    ASSUME ReceiverInv, alive, NEW s \in reading, HandleRequest(s)
    PROVE  ReceiverInv'
<1> DEFINE c == peer[s]
<1>1. /\ requested[c] > read[c]
      /\ read' = [read EXCEPT ![c] = @ + 1]
      /\ writing' = writing \union {s}
      /\ UNCHANGED <<orderly, client, backlog, requested, deadly, answered, sessions_, peer, accepting,
                     reading, alive>>
  BY DEF HandleRequest, net_vars
<1>2. c \in Clients /\ s \in Accepts /\ s \in Sessions
  BY Bounds
<1>3. \A d \in Clients : read'[d] = IF d = c THEN read[c] + 1 ELSE read[d]
  BY <1>1, <1>2, Bounds
<1>4. \A t \in writing : peer[t] = c => t = s
  BY <1>2, Bounds DEF ReceiverInv, EachConnectionOnce
<1>5. read[c] = answered[c]
  <2>1. /\ requested[c] \in Nat /\ read[c] \in Nat /\ answered[c] \in Nat
        /\ answered[c] <= read[c]
    BY <1>2, Bounds
  <2>2. requested[c] <= answered[c] + 1
    BY <1>2 DEF ReceiverInv, OneOutstanding
  <2>3. requested[c] > read[c]
    BY <1>1
  <2> HIDE DEF c
  <2> QED
    BY <2>1, <2>2, <2>3
<1> HIDE DEF c
<1>6. Typed'
  <2>1. read' \in [Clients -> Nat]
    BY <1>1, <1>2, Bounds
  <2>2. \A d \in Clients : /\ answered[d] \in 0 .. read'[d]
                           /\ read'[d] \in 0 .. requested[d]
                           /\ requested[d] \in 0 .. MaxRequests
    BY <1>1, <1>2, <1>3, Bounds, MaxRequestsAssumption
  <2>3. writing' \subseteq Sessions
    BY <1>1, <1>2 DEF ReceiverInv, Typed, TypeOK
  <2> QED
    BY <1>1, <2>1, <2>2, <2>3 DEF ReceiverInv, Typed, TypeOK, Sessions
<1>7. Accepts' = Accepts
  BY <1>1 DEF Accepts
<1>8. SessionsOwned' /\ EachConnectionOnce' /\ OnlyAcceptedOperate' /\ StaysAlive'
  BY <1>1, <1>2, <1>7
     DEF ReceiverInv, SessionsOwned, EachConnectionOnce, OnlyAcceptedOperate, StaysAlive
<1>9. OneOutstanding'
  <2>1. \A t \in writing' : client[peer[t]] = "connected" => read'[peer[t]] = answered[peer[t]] + 1
    <3> SUFFICES ASSUME NEW t \in writing', client[peer[t]] = "connected"
                 PROVE  read'[peer[t]] = answered[peer[t]] + 1
      OBVIOUS
    <3>1. CASE t = s
      BY <1>2, <1>3, <1>5, <3>1 DEF c
    <3>2. CASE t # s
      <4>1. t \in writing /\ peer[t] # c /\ peer[t] \in Clients
        BY <1>1, <1>4, <3>2, Bounds
      <4> QED
        BY <1>3, <4>1 DEF ReceiverInv, OneOutstanding
    <3> QED
      BY <3>1, <3>2
  <2> QED
    BY <1>1, <2>1 DEF ReceiverInv, OneOutstanding
<1>10. Orderliness'
  <2>1. orderly => client[c] = "connected"
    <3>1. client[c] # "idle" /\ client[c] \in {"idle", "connected", "closed"} \union Broken
      BY <1>2 DEF ReceiverInv, EachConnectionOnce, Typed, TypeOK, c
    <3>2. orderly => client[c] \notin Broken /\ client[c] # "closed"
      BY <1>1, <1>2, <1>5, Bounds DEF ReceiverInv, Orderliness
    <3> QED
      BY <3>1, <3>2
  <2> QED
    BY <1>1, <2>1 DEF ReceiverInv, Orderliness, c
<1>11. WritesOwned'
  BY <1>1 DEF ReceiverInv, WritesOwned, SessionsOwned
<1> QED
  BY <1>6, <1>8, <1>9, <1>10, <1>11 DEF ReceiverInv

LEMMA HandleEofStep ==
    ASSUME ReceiverInv, alive, NEW s \in reading, HandleEof(s)
    PROVE  ReceiverInv'
<1>1. /\ client[peer[s]] \in {"closed", "aborted"}
      /\ sessions_' = RemoveFirst(sessions_, s)
      /\ reading' = reading \ {s}
      /\ UNCHANGED <<orderly, client, backlog, requested, deadly, answered, read, peer, accepting,
                     writing, alive>>
  BY DEF HandleEof, CloseSession, net_vars
<1>2. Accepts' = Accepts
  BY <1>1 DEF Accepts
<1>3. /\ sessions_' \in Seq(Sessions)
      /\ IsInjective(sessions_')
      /\ ToSet(sessions_') = ToSet(sessions_) \ {s}
      /\ Last(sessions_') = Last(sessions_)
  <2>1. s \in ToSet(sessions_) /\ s # Last(sessions_) /\ IsInjective(sessions_)
    BY DEF ReceiverInv, SessionsOwned
  <2>2. sessions_ \in Seq(Sessions)
    BY DEF ReceiverInv, Typed, TypeOK
  <2> QED
    BY <1>1, <2>1, <2>2, CloseSessionRemoves
<1>4. Typed'
  BY <1>1, <1>3 DEF ReceiverInv, Typed, TypeOK, Sessions
<1>5. SessionsOwned'
  BY <1>1, <1>3 DEF ReceiverInv, SessionsOwned
<1>6. EachConnectionOnce' /\ OnlyAcceptedOperate'
  BY <1>1, <1>2, <1>3 DEF ReceiverInv, EachConnectionOnce, OnlyAcceptedOperate
<1>7. OneOutstanding' /\ Orderliness' /\ StaysAlive'
  BY <1>1 DEF ReceiverInv, OneOutstanding, Orderliness, StaysAlive
<1>8. WritesOwned'
  <2>1. orderly => s \notin writing
    BY <1>1 DEF ReceiverInv, Orderliness
  <2> QED
    BY <1>1, <1>3, <2>1 DEF ReceiverInv, WritesOwned
<1> QED
  BY <1>4, <1>5, <1>6, <1>7, <1>8 DEF ReceiverInv

\* The session whose read error was printed stays in sessions_, and is of a connection
\* that failed.
LEMMA HandleOtherErrorStep ==
    ASSUME ReceiverInv, alive, NEW s \in reading, HandleOtherError(s)
    PROVE  ReceiverInv'
<1>1. /\ client[peer[s]] = "failed"
      /\ reading' = reading \ {s}
      /\ UNCHANGED <<orderly, client, backlog, requested, deadly, answered, read, sessions_, peer,
                     accepting, writing, alive>>
  BY DEF HandleOtherError, net_vars
<1>2. Accepts' = Accepts
  BY <1>1 DEF Accepts
<1>3. Typed'
  BY <1>1 DEF ReceiverInv, Typed, TypeOK, Sessions
<1>4. SessionsOwned'
  BY <1>1 DEF ReceiverInv, SessionsOwned
<1>5. EachConnectionOnce' /\ OnlyAcceptedOperate'
  BY <1>1, <1>2 DEF ReceiverInv, EachConnectionOnce, OnlyAcceptedOperate
<1>6. OneOutstanding' /\ Orderliness' /\ StaysAlive' /\ WritesOwned'
  BY <1>1 DEF ReceiverInv, OneOutstanding, Orderliness, StaysAlive, WritesOwned
<1> QED
  BY <1>3, <1>4, <1>5, <1>6 DEF ReceiverInv

LEMMA HandleWriteStep ==
    ASSUME ReceiverInv, NEW s \in Sessions, HandleWrite(s)
    PROVE  ReceiverInv'
<1> DEFINE c == peer[s]
<1>1. /\ s \in writing
      /\ writing' = writing \ {s}
      /\ answered' = [answered EXCEPT ![c] = IF client[c] = "connected" THEN @ + 1 ELSE @]
      /\ alive' \in IF Contains(sessions_, s) /\ ~RemoteEndpointThrows(c) THEN {TRUE} ELSE BOOLEAN
      /\ UNCHANGED <<orderly, client, backlog, requested, deadly, read, sessions_, peer, accepting, reading>>
  BY DEF HandleWrite
<1>2. c \in Clients /\ s \in Accepts
  BY <1>1, Bounds
<1>3. \A t \in writing' : peer[t] # c /\ peer[t] \in Clients
  BY <1>1, <1>2, Bounds DEF ReceiverInv, EachConnectionOnce
<1>4. client[c] = "connected" => read[c] = answered[c] + 1
  BY <1>1 DEF ReceiverInv, OneOutstanding
<1> HIDE DEF c
<1>5. /\ \A d \in Clients : answered'[d] = IF d = c /\ client[c] = "connected"
                                           THEN answered[c] + 1 ELSE answered[d]
      /\ answered' \in [Clients -> Nat]
  BY <1>1, <1>2, Bounds
<1>6. Accepts' = Accepts
  BY <1>1 DEF Accepts
<1>7. Typed'
  <2>1. \A d \in Clients : /\ answered'[d] \in 0 .. read[d]
                           /\ read[d] \in 0 .. requested[d]
                           /\ requested[d] \in 0 .. MaxRequests
    BY <1>2, <1>4, <1>5, Bounds, MaxRequestsAssumption
  <2>2. alive' \in BOOLEAN
    BY <1>1
  <2> QED
    BY <1>1, <1>5, <2>1, <2>2 DEF ReceiverInv, Typed, TypeOK, Sessions
<1>8. SessionsOwned' /\ EachConnectionOnce' /\ OnlyAcceptedOperate'
  BY <1>1, <1>6 DEF ReceiverInv, SessionsOwned, EachConnectionOnce, OnlyAcceptedOperate
<1>9. OneOutstanding'
  BY <1>1, <1>2, <1>3, <1>5, Bounds DEF ReceiverInv, OneOutstanding
<1>10. Orderliness'
  BY <1>1, <1>5 DEF ReceiverInv, Orderliness
<1>11. WritesOwned'
  BY <1>1 DEF ReceiverInv, WritesOwned
<1>12. StaysAlive'
  <2>1. orderly => Contains(sessions_, s)
    <3>1. orderly => s \in ToSet(sessions_)
      BY <1>1 DEF ReceiverInv, WritesOwned
    <3>2. DOMAIN sessions_ = 1 .. Len(sessions_)
      BY LenProperties DEF ReceiverInv, Typed, TypeOK
    <3> QED
      BY <3>1, <3>2 DEF Contains, ToSet
  <2>2. orderly => ~RemoteEndpointThrows(c)
    BY <1>2 DEF ReceiverInv, Orderliness, RemoteEndpointThrows, Broken
  <2> QED
    BY <1>1, <2>1, <2>2 DEF StaysAlive
<1> QED
  BY <1>7, <1>8, <1>9, <1>10, <1>11, <1>12 DEF ReceiverInv

\* The invariant holds of every receiver that is ever reached.
THEOREM ReceiverInvariant == Spec => []ReceiverInv
<1>1. ReceiverInv /\ [Next]_vars => ReceiverInv'
  <2> SUFFICES ASSUME ReceiverInv, [Next]_vars PROVE ReceiverInv'
    OBVIOUS
  <2>1. CASE ClientStep
    BY <2>1, ConnectStep, SendRequestStep, LeaveStep DEF ClientStep
  <2>2. CASE HandleAccept
    <3>1. RemoteEndpointThrows(Head(backlog)) => ~orderly
      <4>1. backlog # << >>
        BY <2>2 DEF HandleAccept
      <4>2. Head(backlog) \in Clients
        BY <4>1, HeadTailProperties DEF ReceiverInv, Typed, TypeOK
      <4> QED
        BY <4>2 DEF RemoteEndpointThrows, ReceiverInv, Orderliness, Broken
    <3> QED
      BY <2>2, <3>1, DieStep, AcceptedStep DEF HandleAccept
  <2>3. CASE HandleAcceptError
    BY <2>3, DieStep DEF HandleAcceptError
  <2>4. ASSUME NEW s \in Sessions, HandleRead(s) PROVE ReceiverInv'
    <3>1. alive /\ s \in reading /\ (ReadRequest(s) \/ ReadEnds(s))
      BY <2>4 DEF HandleRead
    <3>2. CASE HandleDeadlyRequest(s)
      <4>1. Die /\ DeadlyRequestArrived
        BY <3>1, <3>2 DEF HandleDeadlyRequest, DeadlyRequestArrived
      <4> QED
        BY <4>1, DieStep
    <3>3. CASE RemoteEndpointThrows(peer[s]) /\ Die
      <4>1. ~orderly
        BY <3>1, <3>3, Bounds DEF RemoteEndpointThrows, ReceiverInv, Orderliness, Broken
      <4> QED
        BY <3>3, <4>1, DieStep
    <3>4. CASE HandleRequest(s) \/ HandleEof(s) \/ HandleOtherError(s)
      BY <3>1, <3>4, HandleRequestStep, HandleEofStep, HandleOtherErrorStep
    <3> QED
      BY <3>1, <3>2, <3>3, <3>4 DEF ReadRequest, ReadEnds
  <2>5. ASSUME NEW s \in Sessions, HandleWrite(s) PROVE ReceiverInv'
    BY <2>5, HandleWriteStep
  <2>6. CASE UNCHANGED vars
    BY <2>6 DEF vars, net_vars, server_vars, ReceiverInv, Typed, TypeOK, SessionsOwned,
                EachConnectionOnce, OnlyAcceptedOperate, OneOutstanding, Orderliness,
                WritesOwned, StaysAlive, DeadlyRequestArrived, Accepts, Sessions
  <2> QED
    BY <2>1, <2>2, <2>3, <2>4, <2>5, <2>6 DEF Next
<1> QED
  BY <1>1, InitReceiver, PTL DEF Spec

--------------------------------------------------------------------------------

\* Types are right for any number of clients: there is room for a session for each, and no
\* client gets more replies than it sent requests.
THEOREM ReceiverTypes == Spec => []TypeOK
<1>1. ReceiverInv => TypeOK
  BY DEF ReceiverInv, Typed
<1> QED
  BY <1>1, ReceiverInvariant, PTL

\* sessions_ owns the sessions an accept or a read is pending for, each once, and besides
\* only those whose read error was printed (JsonNetReceiver.tcc:58-64, 69-75;
\* JsonNetSession.tcc:122-129).
THEOREM OwnsItsSessions == Spec => []SessionsOwned
<1>1. ReceiverInv => SessionsOwned
  BY DEF ReceiverInv
<1> QED
  BY <1>1, ReceiverInvariant, PTL

\* With orderly clients, no write is pending for a session that was destroyed.
THEOREM OwnsWriters == Spec => []WritesOwned
<1>1. ReceiverInv => WritesOwned
  BY DEF ReceiverInv
<1> QED
  BY <1>1, ReceiverInvariant, PTL

\* With orderly clients, the process ends at a request that ends it, and at no accept, read
\* or write of a session else: remote_endpoint() answers, and no handler finds its session
\* gone (JsonNetReceiver.tcc:83; JsonNetSession.tcc:118, 149-152).
THEOREM DiesOfRequestsOnly == Spec => []StaysAlive
<1>1. ReceiverInv => StaysAlive
  BY DEF ReceiverInv
<1> QED
  BY <1>1, ReceiverInvariant, PTL

\* The session a read closes goes out of sessions_ and no other does, and it is one whose
\* client closed, with all of its requests read, or whose connection was aborted
\* (JsonNetReceiver.tcc:69-75; JsonNetSession.tcc:126-127).
THEOREM ReleasesOnlyClosed == Spec => OnlyClosedReleased
<1> DEFINE Releasable(s) == \/ client[peer[s]] = "closed" /\ read[peer[s]] = requested[peer[s]]
                            \/ client[peer[s]] = "aborted"
<1>1. ASSUME ReceiverInv, [Next]_vars, NEW s \in ToSet(sessions_) \ ToSet(sessions_')
      PROVE  Releasable(s)
  <2>1. sessions_' # sessions_
    BY <1>1
  <2>2. CASE backlog # << >> /\ Accepted(Head(backlog))
    <3>1. /\ sessions_ \in Seq(Sessions) /\ sessions_' = Append(sessions_, accepting + 1)
      BY <1>1, <2>2 DEF Accepted, ReceiverInv, Typed, TypeOK
    <3>2. PICK i \in DOMAIN sessions_ : sessions_[i] = s
      BY <1>1 DEF ToSet
    <3>3. i \in DOMAIN sessions_' /\ sessions_'[i] = s
      BY <3>1, <3>2
    <3> QED
      BY <1>1, <3>3 DEF ToSet
  <2>3. ASSUME NEW t \in Sessions, t \in reading, HandleEof(t) PROVE Releasable(s)
    <3>1. t \in ToSet(sessions_) /\ t # Last(sessions_) /\ IsInjective(sessions_)
          /\ sessions_ \in Seq(Sessions)
      BY <1>1, <2>3 DEF ReceiverInv, SessionsOwned, Typed, TypeOK
    <3>2. ToSet(sessions_') = ToSet(sessions_) \ {t}
      BY <2>3, <3>1, CloseSessionRemoves DEF HandleEof, CloseSession
    <3>3. s = t
      BY <1>1, <3>2
    <3> QED
      BY <1>1, <2>3, <3>3 DEF HandleEof, ReceiverInv, Typed, TypeOK
  <2>4. CASE ClientStep
    BY <2>1, <2>4 DEF ClientStep, Connect, SendRequest, Close, Break, server_vars
  <2>5. CASE HandleAccept
    BY <2>1, <2>2, <2>5 DEF HandleAccept, Die
  <2>6. CASE HandleAcceptError
    BY <2>1, <2>6 DEF HandleAcceptError, Die
  <2>7. ASSUME NEW t \in Sessions, HandleRead(t) PROVE Releasable(s)
    <3>1. t \in reading /\ HandleEof(t)
      BY <2>1, <2>7 DEF HandleRead, ReadRequest, ReadEnds, HandleRequest, HandleDeadlyRequest,
                        HandleOtherError, Die
    <3> QED
      BY <2>3, <3>1
  <2>8. ASSUME NEW t \in Sessions, HandleWrite(t) PROVE Releasable(s)
    BY <2>1, <2>8 DEF HandleWrite
  <2> QED
    BY <1>1, <2>1, <2>4, <2>5, <2>6, <2>7, <2>8 DEF Next, vars, server_vars
<1>2. ReceiverInv /\ [Next]_vars
         => [\A s \in ToSet(sessions_) \ ToSet(sessions_') : Releasable(s)]_vars
  BY <1>1
<1> QED
  BY <1>2, ReceiverInvariant, PTL DEF Spec, OnlyClosedReleased

================================================================================

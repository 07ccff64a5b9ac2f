-------------------------- MODULE JsonNetSessionProofs --------------------------
(****************************************************************************)
(* For a peer that waits for every reply before its next request, the       *)
(* single buffer of a session is safe: whatever the requests, the replies,  *)
(* the reads and the short writes, what the peer is sent is the replies to  *)
(* its packets bit for bit (RepliesIntact), and the walk over the buffer is *)
(* the reassembly loop over an undisturbed stream (ImplementsPacketBuffer). *)
(* For a peer that does not wait neither holds: the hypothesis Window = 1   *)
(* is needed, as the run of JsonNetSessionPipelined shows.                  *)
(****************************************************************************)
EXTENDS JsonNetSession, SequenceLemmas, SequenceTheorems, TLAPS

Consumed == received - bytes_transferred + offset
Handled  == Len(packets)

\* Where the frame of request k+1 starts in the stream, and the replies before it.
BytesTo(s, k) == StreamOf(SubSeq(s, 1, k))
SaidTo(s, k)  == RepliesTo(SubSeq(s, 1, k))
Place(k)      == Len(BytesTo(script, k))

\* The peer and the session take turns: the next request comes when the last bytes
\* of the reply before it are gone.  Only the session of a peer that closed is gone.
Turns ==
    /\ requested = Handled \/ requested = Handled + 1
    /\ packets = SubSeq(script, 1, Handled)
    /\ Handled < requested => writes = {}
    /\ ~open => peer_closed /\ ~LoopRuns /\ writes = {}

WritesEndReply == \A w \in writes : w.end = size

\* packet_buffer_ holds the part of the frame of the next request that was walked
\* over.
FramePart ==
    LET d == packet_buffer.data
    IN  /\ packet_buffer.state = AwaitHeader =>
              /\ Len(d) + packet_buffer.bytes_left = SIZE_HEADER_SIZE
              /\ Consumed = Place(Handled) + Len(d)
        /\ packet_buffer.state = AwaitPayload =>
              /\ requested = Handled + 1
              /\ packet_buffer.total_bytes = Len(script[Handled + 1])
              /\ Len(d) + packet_buffer.bytes_left = packet_buffer.total_bytes
              /\ Consumed = Place(Handled) + SIZE_HEADER_SIZE + Len(d)
        /\ \A i \in 1 .. Len(d) : d[i] = Stream[Consumed - Len(d) + i]

\* What is left of the read is still in data_.
ReadKept ==
    \A i \in offset + 1 .. bytes_transferred :
        memory[i] = Stream[received - bytes_transferred + i]

SessionInv ==
    /\ TypeOK
    /\ bytes_transferred <= received
    /\ Turns
    /\ WritesEndReply
    /\ RepliesIntact
    /\ alive => FramePart /\ ReadKept

--------------------------------------------------------------------------------
(* Frames and replies. *)

\* What a size header says is the size it was made of.
LEMMA HeaderIsSize ==
    ASSUME NEW n \in Nat, n \div (256 * 256 * 256) \in Byte
    PROVE  Header(n) \in Seq(Byte) /\ Len(Header(n)) = 4 /\ Ntoh(Header(n)) = n
<1> DEFINE q1 == n \div 256
           q2 == n \div (256 * 256)
           q3 == n \div (256 * 256 * 256)
<1>1. n % 256 \in Byte /\ q1 % 256 \in Byte /\ q2 % 256 \in Byte /\ q3 \in Byte
  BY DEF Byte
<1>2. /\ n = q1 * 256 + (n % 256) /\ q1 = q2 * 256 + (q1 % 256) /\ q2 = q3 * 256 + (q2 % 256)
      /\ q1 \in Int /\ q2 \in Int /\ q3 \in Int
  OBVIOUS
<1>3. Header(n) = <<q3, q2 % 256, q1 % 256, n % 256>>
  BY DEF Header
<1> HIDE DEF q1, q2, q3
<1>4. Ntoh(Header(n)) = ((q3 * 256 + (q2 % 256)) * 256 + (q1 % 256)) * 256 + (n % 256)
  BY <1>3 DEF Ntoh
<1>5. ((q3 * 256 + (q2 % 256)) * 256 + (q1 % 256)) * 256 + (n % 256) = n
  BY <1>1, <1>2 DEF Byte
<1>6. Header(n) \in Seq(Byte) /\ Len(Header(n)) = 4
  BY <1>1, <1>3
<1> QED
  BY <1>4, <1>5, <1>6

\* A frame is its size header and the payload.
LEMMA FrameParts ==
    ASSUME NEW p \in Payloads
    PROVE  /\ p \in Seq(Byte) /\ Len(p) \in Nat
           /\ Frame(p) \in Seq(Byte)
           /\ Len(Frame(p)) = 4 + Len(p)
           /\ \A i \in 1 .. 4 : Frame(p)[i] = Header(Len(p))[i]
           /\ \A i \in 1 .. Len(p) : Frame(p)[4 + i] = p[i]
           /\ Header(Len(p)) \in Seq(Byte) /\ Len(Header(Len(p))) = 4
           /\ Ntoh(Header(Len(p))) = Len(p)
<1>1. p \in Seq(Byte) /\ Len(p) \in Nat
  BY ScriptsAssumption, LenProperties
<1>2. /\ Header(Len(p)) \in Seq(Byte) /\ Len(Header(Len(p))) = 4
      /\ Ntoh(Header(Len(p))) = Len(p)
  BY <1>1, SizesAssumption, HeaderIsSize
<1> DEFINE h == Header(Len(p))
<1> HIDE DEF h
<1>3. /\ h \o p \in Seq(Byte)
      /\ Len(h \o p) = Len(h) + Len(p)
      /\ \A i \in 1 .. Len(h) + Len(p) : (h \o p)[i] = IF i <= Len(h) THEN h[i] ELSE p[i - Len(h)]
  BY <1>1, <1>2, ConcatProperties DEF h
<1>4. Frame(p) = h \o p
  BY DEF Frame, h
<1>5. Len(h) = 4
  BY <1>2 DEF h
<1>6. ASSUME NEW i \in 1 .. 4 PROVE Frame(p)[i] = h[i]
  BY <1>1, <1>3, <1>4, <1>5
<1>7. ASSUME NEW i \in 1 .. Len(p) PROVE Frame(p)[4 + i] = p[i]
  <2>1. 4 + i \in 1 .. Len(h) + Len(p) /\ ~ (4 + i <= Len(h)) /\ (4 + i) - Len(h) = i
    BY <1>1, <1>5
  <2> QED
    BY <1>3, <1>4, <2>1
<1> QED
  BY <1>1, <1>2, <1>3, <1>4, <1>5, <1>6, <1>7 DEF h

\* One more request adds its frame to the stream and its reply to the replies.
LEMMA OneMoreRequest ==
    ASSUME NEW s \in Seq(Payloads), NEW k \in Nat, k < Len(s)
    PROVE  /\ BytesTo(s, k) \in Seq(Byte)
           /\ BytesTo(s, k + 1) \in Seq(Byte)
           /\ BytesTo(s, k + 1) = BytesTo(s, k) \o Frame(s[k + 1])
           /\ SaidTo(s, k) \in Seq(Byte)
           /\ SaidTo(s, k + 1) \in Seq(Byte)
           /\ SaidTo(s, k + 1) = SaidTo(s, k) \o Reply(s[k + 1])
           /\ s[k + 1] \in Payloads
           /\ SubSeq(s, 1, k + 1) = Append(SubSeq(s, 1, k), s[k + 1])
           /\ SubSeq(s, 1, k) \in Seq(Payloads) /\ Len(SubSeq(s, 1, k)) = k
<1> DEFINE a == SubSeq(s, 1, k)
           x == s[k + 1]
           b == SubSeq(s, 1, k + 1)
           ff == [p \in Payloads |-> Frame(p)]
           fr == [p \in Payloads |-> Reply(p)]
<1>1. a \in Seq(Payloads) /\ Len(a) = k /\ x \in Payloads /\ b = Append(a, x)
  BY OneMore
<1>2. ff \in [Payloads -> Seq(Byte)] /\ fr \in [Payloads -> Seq(Byte)]
  BY FrameParts, RepliesAssumption
<1>3. /\ DOMAIN a = 1 .. Len(a) /\ \A i \in DOMAIN a : a[i] \in Payloads
      /\ DOMAIN b = 1 .. Len(b) /\ \A i \in DOMAIN b : b[i] \in Payloads
  <2>1. b \in Seq(Payloads)
    <3> HIDE DEF a, b, x
    <3> QED
      BY <1>1, AppendProperties
  <2> HIDE DEF a, b
  <2> QED
    BY <1>1, <2>1, LenProperties, ElementOfSeq
<1> HIDE DEF a, b, x
<1>4. StreamOf(a) = Joined(ff, a) /\ RepliesTo(a) = Joined(fr, a)
  <2>1. [i \in DOMAIN a |-> Frame(a[i])] = [i \in DOMAIN a |-> ff[a[i]]]
    BY <1>3
  <2>2. [i \in DOMAIN a |-> Reply(a[i])] = [i \in DOMAIN a |-> fr[a[i]]]
    BY <1>3
  <2> QED
    BY <2>1, <2>2 DEF StreamOf, RepliesTo, Joined
<1>5. StreamOf(b) = Joined(ff, b) /\ RepliesTo(b) = Joined(fr, b)
  <2>1. [i \in DOMAIN b |-> Frame(b[i])] = [i \in DOMAIN b |-> ff[b[i]]]
    BY <1>3
  <2>2. [i \in DOMAIN b |-> Reply(b[i])] = [i \in DOMAIN b |-> fr[b[i]]]
    BY <1>3
  <2> QED
    BY <2>1, <2>2 DEF StreamOf, RepliesTo, Joined
<1>6. ff[x] = Frame(x) /\ fr[x] = Reply(x) /\ ff[x] \in Seq(Byte) /\ fr[x] \in Seq(Byte)
  BY <1>1, <1>2
<1> HIDE DEF ff, fr
<1>7. StreamOf(a) \in Seq(Byte) /\ StreamOf(b) = StreamOf(a) \o Frame(x)
  <2>1. Joined(ff, a) \in Seq(Byte) /\ Joined(ff, b) = Joined(ff, a) \o ff[x]
    BY <1>1, <1>2, JoinedAppend, JoinedIsSeq
  <2> QED
    BY <1>4, <1>5, <1>6, <2>1
<1>8. RepliesTo(a) \in Seq(Byte) /\ RepliesTo(b) = RepliesTo(a) \o Reply(x)
  <2>1. Joined(fr, a) \in Seq(Byte) /\ Joined(fr, b) = Joined(fr, a) \o fr[x]
    BY <1>1, <1>2, JoinedAppend, JoinedIsSeq
  <2> QED
    BY <1>4, <1>5, <1>6, <2>1
<1>9. StreamOf(b) \in Seq(Byte) /\ RepliesTo(b) \in Seq(Byte)
  BY <1>6, <1>7, <1>8, ConcatProperties
<1> QED
  BY <1>1, <1>7, <1>8, <1>9 DEF BytesTo, SaidTo, a, b, x

\* A stream of frames and the replies to them are bytes.
LEMMA StreamIsBytes ==
    ASSUME NEW s \in Seq(Payloads)
    PROVE  StreamOf(s) \in Seq(Byte) /\ RepliesTo(s) \in Seq(Byte)
<1> DEFINE ff == [p \in Payloads |-> Frame(p)]
           fr == [p \in Payloads |-> Reply(p)]
<1>1. ff \in [Payloads -> Seq(Byte)] /\ fr \in [Payloads -> Seq(Byte)]
  BY FrameParts, RepliesAssumption
<1>2. DOMAIN s = 1 .. Len(s) /\ \A i \in DOMAIN s : s[i] \in Payloads
  BY LenProperties, ElementOfSeq
<1>3. StreamOf(s) = Joined(ff, s) /\ RepliesTo(s) = Joined(fr, s)
  <2>1. [i \in DOMAIN s |-> Frame(s[i])] = [i \in DOMAIN s |-> ff[s[i]]]
    BY <1>2
  <2>2. [i \in DOMAIN s |-> Reply(s[i])] = [i \in DOMAIN s |-> fr[s[i]]]
    BY <1>2
  <2> QED
    BY <2>1, <2>2 DEF StreamOf, RepliesTo, Joined
<1> HIDE DEF ff, fr
<1>4. Joined(ff, s) \in Seq(Byte)
  BY <1>1, JoinedIsSeq
<1>5. Joined(fr, s) \in Seq(Byte)
  BY <1>1, JoinedIsSeq
<1> QED
  BY <1>3, <1>4, <1>5

\* Before the first request there is nothing.
LEMMA BeforeTheFirst ==
    ASSUME NEW s \in Seq(Payloads)
    PROVE  SubSeq(s, 1, 0) = << >> /\ BytesTo(s, 0) = << >> /\ SaidTo(s, 0) = << >>
<1>1. SubSeq(s, 1, 0) = << >>
  BY SubSeqEmpty, 1 \in Int, 0 \in Int, 0 < 1
<1>2. /\ [i \in DOMAIN << >> |-> Frame(<< >>[i])] = << >>
      /\ [i \in DOMAIN << >> |-> Reply(<< >>[i])] = << >>
  OBVIOUS
<1>3. Len(<< >>) = 0
  OBVIOUS
<1> QED
  BY <1>1, <1>2, <1>3 DEF BytesTo, SaidTo, StreamOf, RepliesTo, FlattenSeq

\* Later frames follow the earlier ones.
LEMMA FramesStay ==
    ASSUME NEW s \in Seq(Payloads), NEW k \in Nat, k < Len(s), NEW j \in k + 1 .. Len(s)
    PROVE  /\ Len(BytesTo(s, k + 1)) <= Len(BytesTo(s, j))
           /\ \A i \in 1 .. Len(BytesTo(s, k + 1)) : BytesTo(s, j)[i] = BytesTo(s, k + 1)[i]
<1> DEFINE x == BytesTo(s, k + 1)
           Keeps(n) == /\ Len(x) <= Len(BytesTo(s, n))
                       /\ \A i \in 1 .. Len(x) : BytesTo(s, n)[i] = x[i]
           bad == {n \in k + 1 .. Len(s) : ~ Keeps(n)}
<1>1. Len(s) \in Nat /\ x \in Seq(Byte) /\ Len(x) \in Nat
  BY OneMoreRequest, LenProperties
<1>2. bad = {}
  <2> SUFFICES ASSUME bad # {} PROVE FALSE
    OBVIOUS
  <2> DEFINE m == Min(bad)
  <2>1. m \in bad /\ \A n \in bad : m <= n
    <3>1. bad \in SUBSET Nat
      BY <1>1
    <3> HIDE DEF bad
    <3> QED
      BY <3>1, FirstPlace
  <2> HIDE DEF m
  <2>2. m \in k + 1 .. Len(s) /\ ~ Keeps(m)
    BY <2>1
  <2>3. m # k + 1
    BY <1>1, <2>2
  <2>4. m - 1 \in k + 1 .. Len(s) /\ m - 1 \in Nat /\ m - 1 < Len(s) /\ (m - 1) + 1 = m
        /\ ~ (m <= m - 1)
    BY <1>1, <2>2, <2>3
  <2>5. Keeps(m - 1)
    <3>1. m - 1 \notin bad
      <4> HIDE DEF bad
      <4> QED
        BY <2>1, <2>4
    <3> QED
      BY <2>4, <3>1
  <2> DEFINE y == BytesTo(s, m - 1)
             f == Frame(s[m])
  <2>6. y \in Seq(Byte) /\ f \in Seq(Byte) /\ BytesTo(s, m) = y \o f
        /\ Len(y) \in Nat /\ Len(f) \in Nat
    <3>1. s[m] \in Payloads /\ y \in Seq(Byte) /\ BytesTo(s, (m - 1) + 1) = y \o Frame(s[(m - 1) + 1])
      BY <2>4, OneMoreRequest
    <3> QED
      BY <2>4, <3>1, FrameParts, LenProperties
  <2>7. Len(x) <= Len(y) /\ \A i \in 1 .. Len(x) : y[i] = x[i]
    BY <2>5
  <2> HIDE DEF x, y, f
  <2>8. /\ Len(y \o f) = Len(y) + Len(f)
        /\ \A i \in 1 .. Len(y) + Len(f) : (y \o f)[i] = IF i <= Len(y) THEN y[i] ELSE f[i - Len(y)]
    BY <2>6, ConcatProperties
  <2>9. Len(x) <= Len(y \o f) /\ \A i \in 1 .. Len(x) : (y \o f)[i] = x[i]
    BY <1>1, <2>6, <2>7, <2>8
  <2> QED
    BY <2>2, <2>6, <2>9
<1>3. Keeps(j)
  BY <1>2
<1> QED
  BY <1>3

\* Where a frame is in the stream, and what is there.
LEMMA StreamFrames ==
    ASSUME script \in Seq(Payloads), NEW k \in Nat, k < Len(script)
    PROVE  /\ script[k + 1] \in Payloads
           /\ Place(k) \in Nat
           /\ Place(k + 1) = Place(k) + 4 + Len(script[k + 1])
           /\ Place(k + 1) <= Len(Stream)
           /\ \A i \in 1 .. 4 : Stream[Place(k) + i] = Header(Len(script[k + 1]))[i]
           /\ \A i \in 1 .. Len(script[k + 1]) : Stream[Place(k) + 4 + i] = script[k + 1][i]
<1> DEFINE p == script[k + 1]
           y == BytesTo(script, k)
           x == BytesTo(script, k + 1)
           f == Frame(p)
<1>1. Len(script) \in Nat /\ Len(script) \in k + 1 .. Len(script)
  BY LenProperties
<1>2. p \in Payloads /\ y \in Seq(Byte) /\ x = y \o f /\ Len(y) \in Nat
  BY OneMoreRequest, LenProperties
<1>3. Stream = BytesTo(script, Len(script))
  BY WholeSlice DEF Stream, BytesTo
<1>4. Len(x) <= Len(Stream) /\ \A i \in 1 .. Len(x) : Stream[i] = x[i]
  BY <1>1, <1>3, FramesStay
<1>5. /\ f \in Seq(Byte) /\ Len(f) = 4 + Len(p) /\ Len(p) \in Nat
      /\ \A i \in 1 .. 4 : f[i] = Header(Len(p))[i]
      /\ \A i \in 1 .. Len(p) : f[4 + i] = p[i]
  BY <1>2, FrameParts
<1> HIDE DEF p, y, x, f
<1>6. /\ Len(x) = Len(y) + Len(f)
      /\ \A i \in 1 .. Len(y) + Len(f) : x[i] = IF i <= Len(y) THEN y[i] ELSE f[i - Len(y)]
  <2>1. y \in Seq(Byte) /\ f \in Seq(Byte)
    BY <1>2, <1>5
  <2>2. /\ Len(y \o f) = Len(y) + Len(f)
        /\ \A i \in 1 .. Len(y) + Len(f) : (y \o f)[i] = IF i <= Len(y) THEN y[i] ELSE f[i - Len(y)]
    BY <2>1, ConcatProperties
  <2> QED
    BY <1>2, <2>2
<1>7. ASSUME NEW i \in 1 .. Len(f) PROVE Stream[Len(y) + i] = f[i]
  <2>1. Len(f) \in Nat
    BY <1>5
  <2>2. Len(y) + i \in 1 .. Len(y) + Len(f) /\ ~ (Len(y) + i <= Len(y)) /\ (Len(y) + i) - Len(y) = i
    BY <1>2, <2>1
  <2>3. x[Len(y) + i] = f[i]
    BY <1>6, <2>2
  <2> QED
    BY <1>4, <1>6, <2>2, <2>3
<1>8. \A i \in 1 .. 4 : Stream[Len(y) + i] = Header(Len(p))[i]
  <2> TAKE i \in 1 .. 4
  <2>1. i \in 1 .. Len(f)
    BY <1>5
  <2> QED
    BY <1>5, <1>7, <2>1
<1>9. \A i \in 1 .. Len(p) : Stream[Len(y) + 4 + i] = p[i]
  <2> TAKE i \in 1 .. Len(p)
  <2>1. 4 + i \in 1 .. Len(f) /\ Len(y) + 4 + i = Len(y) + (4 + i)
    BY <1>2, <1>5
  <2> QED
    BY <1>5, <1>7, <2>1
<1>10. Place(k) = Len(y) /\ Place(k + 1) = Len(x)
  BY DEF Place, y, x
<1>11. /\ Place(k) \in Nat
       /\ Place(k + 1) = Place(k) + 4 + Len(p)
       /\ Place(k + 1) <= Len(Stream)
  BY <1>2, <1>4, <1>5, <1>6, <1>10
<1>12. /\ \A i \in 1 .. 4 : Stream[Place(k) + i] = Header(Len(p))[i]
       /\ \A i \in 1 .. Len(p) : Stream[Place(k) + 4 + i] = p[i]
  BY <1>8, <1>9, <1>10
<1> QED
  BY <1>2, <1>11, <1>12 DEF p

--------------------------------------------------------------------------------
(* What the invariant says of a state. *)

\* Every frame starts inside the stream.
LEMMA PlaceBounds ==
    ASSUME script \in Seq(Payloads), NEW k \in 0 .. Len(script)
    PROVE  Place(k) \in Nat /\ Place(k) <= Len(Stream)
<1>1. Len(script) \in Nat /\ Stream \in Seq(Byte) /\ Len(Stream) \in Nat
  BY StreamIsBytes, LenProperties DEF Stream
<1>2. CASE k = 0
  BY <1>1, <1>2, BeforeTheFirst, EmptySeq DEF Place
<1>3. CASE k # 0
  <2>1. k - 1 \in Nat /\ k - 1 < Len(script) /\ (k - 1) + 1 = k
    BY <1>1, <1>3
  <2>2. script[k] \in Payloads /\ Place(k - 1) \in Nat /\ Place(k) <= Len(Stream)
        /\ Place(k) = Place(k - 1) + 4 + Len(script[k])
    BY <2>1, StreamFrames
  <2>3. Len(script[k]) \in Nat
    BY <2>2, FrameParts
  <2> QED
    BY <2>2, <2>3
<1> QED
  BY <1>2, <1>3

\* Where the conversation is: the requests, their frames and the bytes sent.
LEMMA Standing ==
    ASSUME TypeOK, Turns
    PROVE  /\ script \in Seq(Payloads) /\ Len(script) \in Nat
           /\ Handled \in Nat /\ requested \in Nat
           /\ Handled <= requested /\ requested <= Len(script)
           /\ Stream \in Seq(Byte) /\ Len(Stream) \in Nat
           /\ Sent = Place(requested) /\ Sent \in Nat /\ Sent <= Len(Stream)
           /\ Place(Handled) \in Nat
           /\ received \in Nat /\ received <= Sent
           /\ requested = Handled => Sent = Place(Handled)
           /\ requested = Handled + 1 =>
                 /\ Handled < Len(script)
                 /\ script[Handled + 1] \in Payloads
                 /\ Len(script[Handled + 1]) \in Nat
                 /\ Sent = Place(Handled) + 4 + Len(script[Handled + 1])
<1>1. script \in Seq(Payloads) /\ Len(script) \in Nat /\ Handled \in Nat
  BY ScriptsAssumption, LenProperties DEF TypeOK, Handled
<1>2. requested \in Nat /\ Handled <= requested /\ requested <= Len(script)
      /\ requested \in 0 .. Len(script) /\ Handled \in 0 .. Len(script)
  BY <1>1 DEF TypeOK, Turns
<1>3. Stream \in Seq(Byte) /\ Len(Stream) \in Nat
  BY <1>1, StreamIsBytes, LenProperties DEF Stream
<1>4. Sent = Place(requested)
  BY DEF Sent, Place, BytesTo
<1>5. Place(requested) \in Nat /\ Place(requested) <= Len(Stream) /\ Place(Handled) \in Nat
  BY <1>1, <1>2, PlaceBounds
<1>6. received \in Nat /\ received <= Sent
  BY <1>4, <1>5 DEF TypeOK
<1>7. ASSUME requested = Handled + 1
      PROVE  /\ Handled < Len(script)
             /\ script[Handled + 1] \in Payloads
             /\ Len(script[Handled + 1]) \in Nat
             /\ Sent = Place(Handled) + 4 + Len(script[Handled + 1])
  <2>1. Handled < Len(script)
    BY <1>1, <1>2, <1>7
  <2>2. script[Handled + 1] \in Payloads
        /\ Place(Handled + 1) = Place(Handled) + 4 + Len(script[Handled + 1])
    BY <1>1, <2>1, StreamFrames
  <2>3. Len(script[Handled + 1]) \in Nat
    BY <2>2, FrameParts
  <2> QED
    BY <1>4, <1>7, <2>1, <2>2, <2>3
<1> QED
  BY <1>1, <1>2, <1>3, <1>4, <1>5, <1>6, <1>7

\* What is unsent of the last reply.
LEMMA UnsentBytes ==
    ASSUME TypeOK, WritesEndReply, RepliesIntact
    PROVE  /\ writes = {} => Unsent = << >>
           /\ \A w \in writes :
                 /\ writes = {w} /\ w.in_data
                 /\ w.end = size /\ w.next \in 1 .. w.end /\ w.end \in 1 .. Len(memory)
                 /\ Unsent = SubSeq(memory, w.next, w.end)
                 /\ Unsent \in Seq(Byte) /\ Len(Unsent) = w.end - w.next + 1
<1>1. writes = {} => Unsent = << >>
  BY DEF Unsent
<1>2. ASSUME NEW w \in writes
      PROVE  /\ writes = {w} /\ w.in_data
             /\ w.end = size /\ w.next \in 1 .. w.end /\ w.end \in 1 .. Len(memory)
             /\ Unsent = SubSeq(memory, w.next, w.end)
             /\ Unsent \in Seq(Byte) /\ Len(Unsent) = w.end - w.next + 1
  <2>1. writes = {w} /\ w.in_data
    BY DEF RepliesIntact
  <2>2. w.end = size /\ w.next \in 1 .. w.end /\ w.end \in 1 .. Len(memory)
        /\ memory \in Seq(Byte) /\ Len(memory) \in Nat
    BY LenProperties DEF TypeOK, WritesEndReply
  <2>3. (CHOOSE v \in writes : TRUE) = w
    BY <2>1
  <2>4. Unsent = SubSeq(memory, w.next, w.end)
    BY <2>3 DEF Unsent
  <2>5. w.next - 1 \in 0 .. Len(memory) /\ w.end \in w.next - 1 .. Len(memory)
        /\ (w.next - 1) + 1 = w.next /\ w.end - (w.next - 1) = w.end - w.next + 1
    BY <2>2
  <2>6. SubSeq(memory, w.next, w.end) \in Seq(Byte)
        /\ Len(SubSeq(memory, w.next, w.end)) = w.end - w.next + 1
    BY <2>2, <2>5, Slice
  <2> QED
    BY <2>1, <2>2, <2>4, <2>6
<1> QED
  BY <1>1, <1>2

\* What a sequence begins with is a prefix of it.
LEMMA BeginsWith ==
    ASSUME NEW S, NEW a \in Seq(S), NEW b \in Seq(S)
    PROVE  IsPrefix(a, a \o b)
<1> DEFINE c == a \o b
           x == SubSeq(c, 1, Len(a))
<1>1. /\ c \in Seq(S) /\ Len(c) = Len(a) + Len(b) /\ Len(a) \in Nat /\ Len(b) \in Nat
      /\ \A i \in 1 .. Len(a) + Len(b) : c[i] = IF i <= Len(a) THEN a[i] ELSE b[i - Len(a)]
  BY ConcatProperties, LenProperties
<1> HIDE DEF c
<1>2. 0 \in 0 .. Len(c) /\ Len(a) \in 0 .. Len(c) /\ 0 + 1 = 1
  BY <1>1
<1>3. x \in Seq(S) /\ Len(x) = Len(a) - 0 /\ \A i \in 1 .. Len(a) - 0 : x[i] = c[0 + i]
  BY <1>1, <1>2, Slice
<1> HIDE DEF x
<1>4. x = a
  <2>1. ASSUME NEW i \in 1 .. Len(a) PROVE x[i] = a[i]
    BY <1>1, <1>3
  <2> QED
    BY <1>1, <1>3, <2>1, SeqEqual
<1>5. SubSeq(a, 1, Len(a)) = a
  BY WholeSlice
<1> QED
  BY <1>1, <1>4, <1>5 DEF IsPrefix, c, x

\* A peer that has all its replies has had all its requests handled and all their
\* replies written.
LEMMA AnsweredIsDone ==
    ASSUME SessionInv, open, Answered(requested)
    PROVE  requested = Handled /\ writes = {}
<1>1. TypeOK /\ Turns /\ WritesEndReply /\ RepliesIntact
  BY DEF SessionInv
<1>2. /\ script \in Seq(Payloads) /\ Handled \in Nat /\ requested \in Nat
      /\ requested = Handled \/ requested = Handled + 1
      /\ requested = Handled + 1 => Handled < Len(script)
  BY <1>1, Standing DEF Turns
<1>3. wire \in Seq(Byte) /\ Len(wire) \in Nat
  BY <1>1, LenProperties DEF TypeOK
<1>4. wire \o Unsent = SaidTo(script, Handled)
  BY <1>1 DEF RepliesIntact, Turns, SaidTo
<1>5. Len(wire) >= Len(SaidTo(script, requested))
  BY DEF Answered, Upto, SaidTo
<1>6. ASSUME requested = Handled, NEW w \in writes PROVE FALSE
  <2>1. Unsent \in Seq(Byte) /\ Len(Unsent) = w.end - w.next + 1 /\ w.end \in 1 .. Len(memory)
        /\ w.next \in 1 .. w.end
    BY <1>1, UnsentBytes
  <2>2. Len(Unsent) > 0 /\ Len(Unsent) \in Nat
    BY <2>1, LenProperties
  <2>3. Len(wire \o Unsent) = Len(wire) + Len(Unsent)
    BY <1>3, <2>1, ConcatProperties
  <2> QED
    BY <1>3, <1>4, <1>5, <1>6, <2>2, <2>3
<1>7. ASSUME requested = Handled + 1 PROVE FALSE
  <2>1. wire \o << >> = wire /\ Unsent = << >>
    BY <1>1, <1>2, <1>3, <1>7, UnsentBytes, ConcatEmptySeq DEF Turns
  <2>2. wire = SaidTo(script, Handled)
    BY <1>4, <2>1
  <2>3. SaidTo(script, Handled + 1) = wire \o Reply(script[Handled + 1])
        /\ script[Handled + 1] \in Payloads
    BY <1>2, <1>7, <2>2, OneMoreRequest
  <2>4. Reply(script[Handled + 1]) \in Seq(Byte) /\ Len(Reply(script[Handled + 1])) \in Nat \ {0}
    BY <2>3, RepliesAssumption, EmptySeq
  <2>5. Len(wire \o Reply(script[Handled + 1])) = Len(wire) + Len(Reply(script[Handled + 1]))
    BY <1>3, <2>4, ConcatProperties
  <2> QED
    BY <1>3, <1>5, <1>7, <2>3, <2>4, <2>5
<1> QED
  BY <1>2, <1>6, <1>7

--------------------------------------------------------------------------------
(* One iteration of the walk. *)

Pushed == FeedSize(packet_buffer, Len(Rest))

\* Where the walk is in the stream.
LEMMA WalkPosition ==
    ASSUME SessionInv
    PROVE  /\ offset \in Nat /\ bytes_transferred \in Nat /\ received \in Nat
           /\ offset <= bytes_transferred /\ bytes_transferred <= received
           /\ bytes_transferred <= Len(memory) /\ Len(memory) \in Nat
           /\ memory \in Seq(Byte)
           /\ Consumed \in Nat /\ Consumed <= received
           /\ received - Consumed = bytes_transferred - offset
           /\ packet_buffer \in PacketBufferRecord
           /\ packet_buffer.data \in Seq(Byte) /\ Len(packet_buffer.data) \in Nat
           /\ packet_buffer.bytes_left \in Nat /\ packet_buffer.total_bytes \in Nat
           /\ packet_buffer.state = AwaitHeader \/ packet_buffer.state = AwaitPayload
<1>1. memory \in Seq(Byte) /\ Len(memory) \in Nat
  BY LenProperties DEF SessionInv, TypeOK
<1>2. bytes_transferred \in 0 .. Len(memory) /\ offset \in 0 .. bytes_transferred
      /\ bytes_transferred <= received /\ received \in Nat
  BY Standing DEF SessionInv, TypeOK
<1>3. packet_buffer \in PacketBufferRecord
  BY DEF SessionInv, TypeOK
<1>4. packet_buffer.data \in Seq(Byte) /\ Len(packet_buffer.data) \in Nat
  BY <1>3, LenProperties DEF PacketBufferRecord
<1> QED
  BY <1>1, <1>2, <1>3, <1>4 DEF Consumed, PacketBufferRecord

\* feed() extends the part by the next bytes of the stream.
LEMMA FedIsStream ==
    ASSUME SessionInv, alive, LoopRuns
    PROVE  /\ Rest \in Seq(Byte) /\ Len(Rest) = bytes_transferred - offset
           /\ \A i \in 1 .. bytes_transferred - offset : Rest[i] = Stream[Consumed + i]
           /\ Pushed \in Nat /\ Pushed <= bytes_transferred - offset
           /\ Pushed <= packet_buffer.bytes_left
           /\ Fed \in PacketBufferRecord
           /\ Fed.state = packet_buffer.state
           /\ Fed.total_bytes = packet_buffer.total_bytes
           /\ Fed.bytes_left = packet_buffer.bytes_left - Pushed
           /\ Fed.data \in Seq(Byte)
           /\ Len(Fed.data) = Len(packet_buffer.data) + Pushed
           /\ \A i \in 1 .. Len(Fed.data) :
                 Fed.data[i] = Stream[Consumed - Len(packet_buffer.data) + i]
<1> DEFINE pushed == SubSeq(Rest, 1, Pushed)
           d == packet_buffer.data
<1>1. offset \in 0 .. Len(memory) /\ bytes_transferred \in offset .. Len(memory)
  BY WalkPosition
<1>2. /\ Rest \in Seq(Byte)
      /\ Len(Rest) = bytes_transferred - offset
      /\ \A i \in 1 .. bytes_transferred - offset : Rest[i] = memory[offset + i]
  BY <1>1, WalkPosition, Slice DEF Rest
<1>3. ASSUME NEW i \in 1 .. bytes_transferred - offset
      PROVE  Rest[i] = Stream[Consumed + i]
  <2>1. offset + i \in offset + 1 .. bytes_transferred
        /\ received - bytes_transferred + (offset + i) = Consumed + i
    <3>1. offset \in Int /\ bytes_transferred \in Int /\ received \in Int
      BY WalkPosition
    <3> QED
      BY <3>1 DEF Consumed
  <2>2. memory[offset + i] = Stream[received - bytes_transferred + (offset + i)]
    BY <2>1 DEF SessionInv, ReadKept
  <2> QED
    BY <1>2, <2>1, <2>2
<1>4. Len(Rest) \in Nat /\ Pushed \in 0 .. Len(Rest) /\ Pushed <= packet_buffer.bytes_left
  BY <1>2, WalkPosition DEF Pushed, FeedSize
<1>5. pushed \in Seq(Byte) /\ Len(pushed) = Pushed /\ \A i \in 1 .. Pushed : pushed[i] = Rest[i]
  <2>1. 0 \in 0 .. Len(Rest) /\ Pushed \in 0 .. Len(Rest) /\ 0 + 1 = 1 /\ Pushed - 0 = Pushed
    BY <1>4
  <2>2. /\ SubSeq(Rest, 0 + 1, Pushed) \in Seq(Byte)
        /\ Len(SubSeq(Rest, 0 + 1, Pushed)) = Pushed - 0
        /\ \A i \in 1 .. Pushed - 0 : SubSeq(Rest, 0 + 1, Pushed)[i] = Rest[0 + i]
    BY <1>2, <2>1, Slice
  <2> QED
    BY <1>4, <2>1, <2>2
<1>6. /\ Fed = [packet_buffer EXCEPT !.bytes_left = @ - Pushed, !.data = @ \o pushed]
      /\ Fed.data = d \o pushed
      /\ Fed.bytes_left = packet_buffer.bytes_left - Pushed
      /\ Fed.state = packet_buffer.state
      /\ Fed.total_bytes = packet_buffer.total_bytes
  BY WalkPosition DEF Fed, Feed, Pushed, PacketBufferRecord
<1> HIDE DEF pushed, d
<1>7. d \in Seq(Byte) /\ Len(d) \in Nat
  BY WalkPosition DEF d
<1>8. /\ d \o pushed \in Seq(Byte)
      /\ Len(d \o pushed) = Len(d) + Len(pushed)
      /\ \A i \in 1 .. Len(d) + Len(pushed) :
            (d \o pushed)[i] = IF i <= Len(d) THEN d[i] ELSE pushed[i - Len(d)]
  BY <1>5, <1>7, ConcatProperties
<1>9. Fed.bytes_left \in Nat
  BY <1>4, <1>6, WalkPosition
<1>10. Fed \in PacketBufferRecord
  BY <1>6, <1>8, <1>9, WalkPosition DEF PacketBufferRecord
<1>11. ASSUME NEW i \in 1 .. Len(d) + Pushed
       PROVE  (d \o pushed)[i] = Stream[Consumed - Len(d) + i]
  <2>1. CASE i <= Len(d)
    <3>1. i \in 1 .. Len(d)
      BY <1>4, <1>7, <2>1
    <3>2. d[i] = Stream[Consumed - Len(d) + i]
      BY <3>1 DEF SessionInv, FramePart, d
    <3> QED
      BY <1>5, <1>8, <2>1, <3>2
  <2>2. CASE ~ (i <= Len(d))
    <3>1. Consumed \in Int /\ bytes_transferred - offset \in Int
      BY WalkPosition
    <3>2. Pushed <= bytes_transferred - offset /\ Pushed \in Nat
      BY <1>2, <1>4
    <3>3. /\ i - Len(d) \in 1 .. Pushed
          /\ i - Len(d) \in 1 .. bytes_transferred - offset
          /\ Consumed + (i - Len(d)) = Consumed - Len(d) + i
      BY <1>7, <2>2, <3>1, <3>2
    <3>4. pushed[i - Len(d)] = Stream[Consumed + (i - Len(d))]
      BY <1>3, <1>5, <3>3
    <3> QED
      BY <1>5, <1>8, <2>2, <3>3, <3>4
  <2> QED
    BY <2>1, <2>2
<1> QED
  BY <1>2, <1>3, <1>4, <1>5, <1>6, <1>8, <1>9, <1>10, <1>11 DEF d

\* What an iteration does to the position; a memory it leaves alone keeps the rest.
LEMMA IterationStep ==
    ASSUME SessionInv, Iteration
    PROVE  /\ LoopRuns /\ alive
           /\ offset' = offset + Pushed
           /\ offset' \in 0 .. bytes_transferred'
           /\ bytes_transferred' <= received'
           /\ Consumed' = Consumed + Pushed
           /\ UNCHANGED <<script, requested, peer_closed, taken, received, bytes_transferred, open, up>>
           /\ Stream' = Stream /\ Sent' = Sent
           /\ memory' = memory => ReadKept'
<1>1. LoopRuns /\ alive /\ offset' = offset + Pushed
      /\ UNCHANGED <<script, requested, peer_closed, taken, received, bytes_transferred, open, up>>
  BY DEF Iteration, Pushed, peer_vars
<1>2. Stream' = Stream /\ Sent' = Sent
  BY <1>1 DEF Stream, Sent
<1>3. Pushed \in Nat /\ Pushed <= bytes_transferred - offset
  BY <1>1, FedIsStream
<1>4. offset' \in 0 .. bytes_transferred' /\ Consumed' = Consumed + Pushed
      /\ bytes_transferred' <= received'
  <2>1. offset \in Nat /\ bytes_transferred \in Nat /\ received \in Nat
        /\ bytes_transferred <= received
    BY WalkPosition
  <2>2. offset' = offset + Pushed /\ bytes_transferred' = bytes_transferred
        /\ received' = received
    BY <1>1
  <2>3. Consumed' = received' - bytes_transferred' + offset'
    BY DEF Consumed
  <2> QED
    BY <1>3, <2>1, <2>2, <2>3 DEF Consumed
<1>5. memory' = memory => ReadKept'
  <2> HAVE memory' = memory
  <2>1. SUFFICES ASSUME NEW i \in offset' + 1 .. bytes_transferred
                 PROVE  memory[i] = Stream[received - bytes_transferred + i]
    BY <1>1, <1>2 DEF ReadKept
  <2>2. i \in offset + 1 .. bytes_transferred
    <3>1. offset \in Nat /\ bytes_transferred \in Nat
      BY WalkPosition
    <3>2. offset' = offset + Pushed
      BY <1>1
    <3> QED
      BY <1>3, <3>1, <3>2
  <2> QED
    BY <1>1, <2>2 DEF SessionInv, ReadKept
<1> QED
  BY <1>1, <1>2, <1>4, <1>5

--------------------------------------------------------------------------------
(* The steps. *)

\* A new session is at the start of the stream and has sent nothing.
LEMMA InitSessionInv == Init => SessionInv
<1> SUFFICES ASSUME Init PROVE SessionInv
  OBVIOUS
<1>1. script \in Seq(Payloads) /\ Len(script) \in Nat
  BY ScriptsAssumption, LenProperties DEF Init
<1>2. /\ memory \in Seq(Byte) /\ Len(memory) = DEFAULT_BUFFER_SIZE
      /\ DEFAULT_BUFFER_SIZE \in Nat \ {0}
  BY BufferAssumption DEF Init, Byte
<1>3. << >> \in Seq(Byte) /\ << >> \in Seq(Payloads) /\ Len(<< >>) = 0
  BY EmptySeq
<1>4. Handled = 0 /\ requested = 0 /\ writes = {} /\ packets = << >> /\ Consumed = 0
  BY <1>3 DEF Init, Handled, Consumed
<1>5. BytesTo(script, 0) = << >> /\ SaidTo(script, 0) = << >> /\ SubSeq(script, 1, 0) = << >>
  BY <1>1, BeforeTheFirst
<1>6. Place(0) = 0 /\ Sent = 0
  BY <1>3, <1>4, <1>5 DEF Place, Sent, BytesTo
<1>7. NewPacketBuffer \in PacketBufferRecord
  BY <1>3 DEF NewPacketBuffer, PacketBufferRecord, SIZE_HEADER_SIZE
<1>8. TypeOK
  <2>1. /\ requested \in 0 .. Len(script) /\ received \in 0 .. Sent
        /\ bytes_transferred \in 0 .. Len(memory) /\ offset \in 0 .. bytes_transferred
    BY <1>1, <1>2, <1>6 DEF Init
  <2>2. size \in 1 .. Len(memory)
    BY <1>2 DEF Init
  <2> QED
    BY <1>2, <1>3, <1>7, <2>1, <2>2 DEF Init, TypeOK
<1>9. Turns
  BY <1>4, <1>5 DEF Init, Turns
<1>10. RepliesIntact
  <2>1. RepliesTo(packets) = << >> /\ Unsent = << >> /\ wire = << >>
    BY <1>4, <1>5 DEF SaidTo, Unsent, Init
  <2>2. << >> \o << >> = << >>
    BY <1>3, ConcatEmptySeq
  <2>3. open
    BY DEF Init
  <2> QED
    BY <1>4, <2>1, <2>2, <2>3 DEF RepliesIntact
<1>11. FramePart
  <2>1. packet_buffer.state = AwaitHeader /\ packet_buffer.data = << >>
        /\ packet_buffer.bytes_left = SIZE_HEADER_SIZE
    BY DEF Init, NewPacketBuffer
  <2>2. AwaitHeader # AwaitPayload
    BY DEF AwaitHeader, AwaitPayload
  <2> QED
    BY <1>3, <1>4, <1>6, <2>1, <2>2 DEF FramePart, SIZE_HEADER_SIZE
<1>12. ReadKept /\ bytes_transferred <= received
  BY DEF Init, ReadKept
<1> QED
  BY <1>4, <1>8, <1>9, <1>10, <1>11, <1>12 DEF SessionInv, WritesEndReply

\* The reading side does not depend on what the peer and the kernel do to the rest.
LEMMA ReadingKept ==
    ASSUME SessionInv,
           UNCHANGED <<script, read_vars, memory, alive>>,
           requested' = Handled + 1 \/ requested' = requested
    PROVE  /\ alive' => FramePart' /\ ReadKept'
           /\ bytes_transferred' <= received'
           /\ Handled' = Handled
<1>1. UNCHANGED <<Handled, Consumed, Stream, packet_buffer, received, bytes_transferred, offset>>
  BY DEF Handled, Consumed, Stream, read_vars
<1>2. Place(Handled)' = Place(Handled)
  BY <1>1 DEF Place, BytesTo
<1>3. alive' => ReadKept'
  BY <1>1 DEF SessionInv, ReadKept
<1>4. alive' => FramePart'
  BY <1>1, <1>2 DEF SessionInv, FramePart
<1> QED
  BY <1>1, <1>3, <1>4 DEF SessionInv

\* The next request leaves when the reply to the one before is complete.
LEMMA SendRequestStep ==
    ASSUME SessionInv, Window = 1, SendRequest
    PROVE  SessionInv'
<1>1. requested \in Nat /\ script \in Seq(Payloads) /\ Handled \in Nat /\ Len(script) \in Nat
  BY Standing DEF SessionInv
<1>10. open
  BY DEF SendRequest, SessionInv, Turns
<1>2. Answered(requested)
  <2>1. CASE requested = 0
    <3>1. Len(RepliesTo(SubSeq(script, 1, 0))) = 0
      BY <1>1, BeforeTheFirst, EmptySeq DEF SaidTo
    <3>2. Len(wire) \in Nat
      BY LenProperties DEF SessionInv, TypeOK
    <3> QED
      BY <2>1, <3>1, <3>2 DEF Answered, Upto
  <2>2. CASE requested # 0
    <3>1. requested \in 1 .. requested /\ requested + 1 - requested >= Window
      BY <1>1, <2>2
    <3> QED
      BY <3>1 DEF SendRequest
  <2> QED
    BY <2>1, <2>2
<1>3. requested = Handled /\ writes = {}
  BY <1>2, <1>10, AnsweredIsDone
<1>4. /\ requested' = Handled + 1
      /\ UNCHANGED <<script, peer_closed, taken, wire, read_vars, memory, size, writes, alive, open,
                     up, packets>>
  BY <1>3 DEF SendRequest, data_vars, read_vars
<1>5. Handled' = Handled /\ (alive' => FramePart' /\ ReadKept') /\ bytes_transferred' <= received'
  BY <1>4, ReadingKept
<1>6. Turns'
  BY <1>1, <1>3, <1>4, <1>5, <1>10 DEF SessionInv, Turns
<1>7. Sent <= Sent' /\ Sent' \in Nat /\ Sent \in Nat
  <2>1. Handled < Len(script)
    BY <1>3 DEF SendRequest
  <2>2. Place(Handled + 1) = Place(Handled) + 4 + Len(script[Handled + 1])
        /\ script[Handled + 1] \in Payloads /\ Place(Handled) \in Nat
    BY <1>1, <2>1, StreamFrames
  <2>3. Len(script[Handled + 1]) \in Nat
    BY <2>2, FrameParts
  <2>4. Sent' = Place(Handled + 1) /\ Sent = Place(Handled)
    BY <1>3, <1>4 DEF Sent, Place, BytesTo
  <2> QED
    BY <2>2, <2>3, <2>4
<1>8. TypeOK'
  <2>1. received' \in 0 .. Sent'
    BY <1>4, <1>7 DEF SessionInv, TypeOK, read_vars
  <2>2. requested' \in 0 .. Len(script')
    BY <1>1, <1>3, <1>4 DEF SendRequest
  <2> QED
    BY <1>4, <2>1, <2>2 DEF SessionInv, TypeOK, read_vars
<1>9. WritesEndReply' /\ RepliesIntact'
  BY <1>4 DEF SessionInv, WritesEndReply, RepliesIntact, Unsent, read_vars
<1> QED
  BY <1>5, <1>6, <1>8, <1>9 DEF SessionInv

\* A peer that closes leaves the session as it is.
LEMMA ClosePeerStep ==
    ASSUME SessionInv, ClosePeer
    PROVE  SessionInv'
<1>1. /\ peer_closed' = TRUE /\ taken' \in 0 .. Len(wire)
      /\ UNCHANGED <<script, requested, wire, read_vars, memory, size, writes, alive, open, up, packets,
                     offset, bytes_transferred>>
  BY DEF ClosePeer, data_vars, read_vars
<1>2. Handled' = Handled /\ (alive' => FramePart' /\ ReadKept') /\ bytes_transferred' <= received'
  BY <1>1, ReadingKept
<1>3. Turns'
  BY <1>1, <1>2 DEF SessionInv, Turns, LoopRuns
<1>4. Sent' = Sent
  BY <1>1 DEF Sent
<1>5. TypeOK'
  BY <1>1, <1>4 DEF SessionInv, TypeOK, read_vars
<1>6. WritesEndReply' /\ RepliesIntact'
  BY <1>1 DEF SessionInv, WritesEndReply, RepliesIntact, Unsent
<1> QED
  BY <1>2, <1>3, <1>5, <1>6 DEF SessionInv

\* The end of the stream leaves the peer with a beginning of its replies.
LEMMA HandleEofStep ==
    ASSUME SessionInv, HandleEof
    PROVE  SessionInv'
<1>1. /\ open /\ ~LoopRuns /\ peer_closed
      /\ writes' = {} /\ open' = FALSE
      /\ UNCHANGED <<script, requested, peer_closed, taken, wire, read_vars, memory, size, alive,
                     packets, offset, bytes_transferred>>
  BY DEF HandleEof, Idle, data_vars, read_vars, peer_vars
<1>2. Handled' = Handled /\ (alive' => FramePart' /\ ReadKept') /\ bytes_transferred' <= received'
  BY <1>1, ReadingKept
<1>3. Turns'
  BY <1>1, <1>2 DEF SessionInv, Turns, LoopRuns
<1>4. Sent' = Sent
  BY <1>1 DEF Sent
<1>5. up' \in BOOLEAN
  BY DEF HandleEof, SessionInv, TypeOK
<1>6. TypeOK'
  BY <1>1, <1>4, <1>5 DEF SessionInv, TypeOK, read_vars
<1>7. WritesEndReply'
  BY <1>1 DEF WritesEndReply
<1>8. IsPrefix(wire, RepliesTo(packets))
  <2>1. wire \in Seq(Byte) /\ wire \o Unsent = RepliesTo(packets)
    BY <1>1 DEF SessionInv, RepliesIntact, TypeOK
  <2>2. Unsent \in Seq(Byte)
    <3>1. CASE writes = {}
      BY <3>1, EmptySeq DEF Unsent
    <3>2. ASSUME NEW w \in writes PROVE Unsent \in Seq(Byte)
      BY UnsentBytes DEF SessionInv
    <3> QED
      BY <3>1, <3>2
  <2> QED
    BY <2>1, <2>2, BeginsWith
<1>9. RepliesIntact'
  BY <1>1, <1>8 DEF RepliesIntact
<1> QED
  BY <1>2, <1>3, <1>6, <1>7, <1>9 DEF SessionInv

\* When remote_endpoint() throws, only the process is gone.
LEMMA RemoteEndpointThrowsStep ==
    ASSUME SessionInv, RemoteEndpointThrows
    PROVE  SessionInv'
<1>1. /\ up' = FALSE
      /\ UNCHANGED <<script, requested, peer_closed, taken, wire, read_vars, memory, size, writes,
                     alive, open, packets, offset, bytes_transferred>>
  BY DEF RemoteEndpointThrows, data_vars, read_vars, peer_vars
<1>2. Handled' = Handled /\ (alive' => FramePart' /\ ReadKept') /\ bytes_transferred' <= received'
  BY <1>1, ReadingKept
<1>3. Turns'
  BY <1>1, <1>2 DEF SessionInv, Turns, LoopRuns
<1>4. Sent' = Sent
  BY <1>1 DEF Sent
<1>5. TypeOK'
  BY <1>1, <1>4 DEF SessionInv, TypeOK, read_vars
<1>6. WritesEndReply' /\ RepliesIntact'
  BY <1>1 DEF SessionInv, WritesEndReply, RepliesIntact, Unsent
<1> QED
  BY <1>2, <1>3, <1>5, <1>6 DEF SessionInv

\* A read overwrites no byte of a reply that is still to be written.
LEMMA HandleReadStep ==
    ASSUME SessionInv, NEW n \in 1 .. ReadLimit, HandleRead(n)
    PROVE  SessionInv'
<1> DEFINE fresh == SubSeq(Stream, received + 1, received + n)
           stale == SubSeq(memory, n + 1, Len(memory))
<1>1. /\ alive /\ open /\ offset = bytes_transferred
      /\ received + n <= Sent
      /\ memory' = fresh \o stale
      /\ received' = received + n /\ bytes_transferred' = n /\ offset' = 0
      /\ UNCHANGED <<script, requested, peer_closed, taken, wire, size, packet_buffer, packets,
                     writes, alive, open, up>>
  BY WalkPosition DEF HandleRead, Idle, LoopRuns, peer_vars
<1>2. n \in Nat /\ n >= 1 /\ n <= Len(memory) /\ size \in Nat
  BY WalkPosition DEF ReadLimit, SessionInv, TypeOK
<1>3. /\ received \in Nat /\ Consumed = received /\ Stream \in Seq(Byte) /\ Len(Stream) \in Nat
      /\ Sent \in Nat /\ Sent <= Len(Stream) /\ Place(Handled) \in Nat
      /\ requested = Handled => Sent = Place(Handled)
  <2>1. Consumed = received
    BY <1>1, WalkPosition DEF Consumed
  <2> QED
    BY <2>1, Standing DEF SessionInv
<1>4. Consumed >= Place(Handled)
  <2>1. packet_buffer.state = AwaitHeader => Consumed = Place(Handled) + Len(packet_buffer.data)
    BY <1>1 DEF SessionInv, FramePart
  <2>2. packet_buffer.state = AwaitPayload =>
           Consumed = Place(Handled) + SIZE_HEADER_SIZE + Len(packet_buffer.data)
    BY <1>1 DEF SessionInv, FramePart
  <2>3. /\ packet_buffer.state = AwaitHeader \/ packet_buffer.state = AwaitPayload
        /\ Len(packet_buffer.data) \in Nat
    BY WalkPosition
  <2> QED
    BY <1>3, <2>1, <2>2, <2>3 DEF SIZE_HEADER_SIZE
<1>5. requested # Handled /\ writes = {}
  <2>1. requested # Handled
    <3>1. received + n <= Sent
      BY <1>1
    <3>2. Sent # Place(Handled)
      BY <1>2, <1>3, <1>4, <3>1
    <3> QED
      BY <1>3, <3>2
  <2>2. Handled < requested
    BY <2>1, Standing DEF SessionInv
  <2> QED
    BY <2>1, <2>2 DEF SessionInv, Turns
<1>6. /\ fresh \in Seq(Byte) /\ Len(fresh) = n
      /\ \A i \in 1 .. n : fresh[i] = Stream[received + i]
  <2>1. received \in 0 .. Len(Stream) /\ received + n \in received .. Len(Stream)
        /\ (received + n) - received = n
    BY <1>1, <1>2, <1>3
  <2> QED
    BY <1>3, <2>1, Slice
<1>7. stale \in Seq(Byte) /\ Len(stale) = Len(memory) - n
  <2>1. n \in 0 .. Len(memory) /\ Len(memory) \in n .. Len(memory)
    BY <1>2, WalkPosition
  <2> QED
    BY <2>1, WalkPosition, Slice
<1> HIDE DEF fresh, stale
<1>8. /\ memory' \in Seq(Byte)
      /\ Len(memory') = Len(memory)
      /\ \A i \in 1 .. n : memory'[i] = Stream[received + i]
  <2>1. /\ fresh \o stale \in Seq(Byte)
        /\ Len(fresh \o stale) = Len(fresh) + Len(stale)
        /\ \A i \in 1 .. Len(fresh) + Len(stale) :
              (fresh \o stale)[i] = IF i <= Len(fresh) THEN fresh[i] ELSE stale[i - Len(fresh)]
    BY <1>6, <1>7, ConcatProperties
  <2>2. Len(fresh) + Len(stale) = Len(memory)
    BY <1>2, <1>6, <1>7, WalkPosition
  <2>3. ASSUME NEW i \in 1 .. n PROVE (fresh \o stale)[i] = Stream[received + i]
    <3>1. i \in 1 .. Len(fresh) + Len(stale) /\ i <= Len(fresh)
      BY <1>2, <1>6, <2>2, WalkPosition
    <3> QED
      BY <1>6, <2>1, <3>1
  <2> QED
    BY <1>1, <2>1, <2>2, <2>3
<1>9. Handled' = Handled /\ Stream' = Stream /\ Sent' = Sent /\ Consumed' = Consumed
      /\ Place(Handled)' = Place(Handled)
  <2>1. Handled' = Handled /\ Stream' = Stream /\ Sent' = Sent
    BY <1>1 DEF Handled, Stream, Sent
  <2>2. Place(Handled)' = Place(Handled)
    BY <1>1, <2>1 DEF Place, BytesTo
  <2>3. Consumed' = Consumed
    BY <1>1, <1>2, <1>3 DEF Consumed
  <2> QED
    BY <2>1, <2>2, <2>3
<1>10. TypeOK'
  <2>1. received' \in 0 .. Sent' /\ bytes_transferred' \in 0 .. Len(memory')
        /\ offset' \in 0 .. bytes_transferred' /\ memory' \in Seq(Byte) /\ size' \in 1 .. Len(memory')
    BY <1>1, <1>2, <1>3, <1>8, <1>9 DEF SessionInv, TypeOK
  <2> QED
    BY <1>1, <2>1 DEF SessionInv, TypeOK
<1>11. Turns' /\ WritesEndReply'
  BY <1>1, <1>9 DEF SessionInv, Turns, WritesEndReply
<1>12. RepliesIntact'
  <2>1. Unsent = << >> /\ Unsent' = << >>
    BY <1>1, <1>5 DEF Unsent
  <2> QED
    BY <1>1, <1>5, <2>1 DEF SessionInv, RepliesIntact
<1>13. FramePart'
  BY <1>1, <1>9 DEF SessionInv, FramePart
<1>14. ReadKept'
  <2>1. SUFFICES ASSUME NEW i \in 1 .. n PROVE memory'[i] = Stream[received' - n + i]
    <3>1. offset' + 1 = 1 /\ bytes_transferred' = n
      BY <1>1
    <3> QED
      BY <1>9, <3>1 DEF ReadKept
  <2>2. received' - n + i = received + i
    BY <1>1, <1>2, <1>3
  <2> QED
    BY <1>8, <2>2
<1> QED
  BY <1>1, <1>2, <1>3, <1>10, <1>11, <1>12, <1>13, <1>14 DEF SessionInv

\* The kernel takes the next bytes of the reply.
LEMMA WriteSomeStep ==
    ASSUME SessionInv, NEW w \in writes, NEW n \in 1 .. Len(memory), WriteSome(w, n)
    PROVE  SessionInv'
<1>1. /\ writes = {w} /\ w.in_data /\ w \in [next : Nat \ {0}, end : Nat, in_data : BOOLEAN]
      /\ w.end = size
      /\ Unsent = SubSeq(memory, w.next, w.end)
      /\ memory \in Seq(Byte) /\ Len(memory) \in Nat
      /\ wire \in Seq(Byte)
  BY UnsentBytes, LenProperties DEF SessionInv, TypeOK
<1> DEFINE a == w.next
           e == w.end
           u == [w EXCEPT !.next = @ + n]
           given == SubSeq(memory, a, a + n - 1)
           left == SubSeq(memory, a + n, e)
<1>2. /\ wire' = wire \o given
      /\ writes' = {v \in {u} : v.next <= v.end}
      /\ UNCHANGED <<script, requested, peer_closed, taken, read_vars, memory, size, alive, open, up,
                     packets>>
      /\ open
  BY <1>1 DEF WriteSome, Idle, peer_vars, data_vars, read_vars
<1>3. Handled' = Handled /\ (alive' => FramePart' /\ ReadKept') /\ bytes_transferred' <= received'
  BY <1>2, ReadingKept
<1>4. requested = Handled
  BY <1>1, Standing DEF SessionInv, Turns
<1>5. Turns'
  <2>1. requested' = Handled' /\ open' /\ packets' = SubSeq(script', 1, Handled')
    BY <1>2, <1>3, <1>4 DEF SessionInv, Turns, TypeOK
  <2>2. Handled' \in Nat
    BY <1>3, Standing DEF SessionInv
  <2> QED
    BY <2>1, <2>2 DEF Turns
<1>6. a \in Nat /\ a >= 1 /\ e \in Nat /\ a <= e /\ e <= Len(memory)
      /\ n \in Nat /\ n >= 1 /\ n <= e - a + 1
  <2>1. a \in Nat /\ a >= 1 /\ e \in Nat
    BY <1>1
  <2>2. e \in 1 .. Len(memory) /\ a \in 1 .. e
    BY UnsentBytes DEF SessionInv
  <2>3. n \in 1 .. e - a + 1
    BY DEF WriteSome
  <2> HIDE DEF a, e
  <2> QED
    BY <1>1, <2>1, <2>2, <2>3
<1>7. u \in [next : Nat \ {0}, end : Nat, in_data : BOOLEAN] /\ u.next = a + n /\ u.end = e /\ u.in_data
  <2>1. w.next + n \in Nat \ {0}
    BY <1>6
  <2>2. w \in [next : Nat \ {0}, end : Nat, in_data : BOOLEAN]
    BY <1>1
  <2>3. u.next = w.next + n /\ u.end = w.end /\ u.in_data = w.in_data
    BY <2>2
  <2>4. u \in [next : Nat \ {0}, end : Nat, in_data : BOOLEAN]
    BY <2>1, <2>2
  <2> HIDE DEF u
  <2> QED
    BY <1>1, <2>3, <2>4
<1> HIDE DEF a, e, u, given, left
<1>8. \A v \in writes' : v = u /\ a + n <= e
  BY <1>2, <1>7
<1>9. /\ a - 1 \in Nat /\ (a - 1) + 1 = a
      /\ a - 1 \in 0 .. Len(memory)
      /\ a + n - 1 \in a - 1 .. Len(memory) /\ a + n - 1 \in 0 .. Len(memory)
      /\ e \in a + n - 1 .. Len(memory)
      /\ (a + n - 1) + 1 = a + n
  BY <1>1, <1>6
<1>10. given \in Seq(Byte) /\ left \in Seq(Byte) /\ given \o left = Unsent
  <2>1. SubSeq(memory, (a - 1) + 1, a + n - 1) \in Seq(Byte)
    BY <1>1, <1>9, Slice
  <2>2. SubSeq(memory, (a + n - 1) + 1, e) \in Seq(Byte)
    BY <1>1, <1>9, Slice
  <2>3. SubSeq(memory, (a - 1) + 1, a + n - 1) \o SubSeq(memory, (a + n - 1) + 1, e)
          = SubSeq(memory, (a - 1) + 1, e)
    <3>1. a - 1 \in Nat /\ a + n - 1 \in a - 1 .. Len(memory)
          /\ e \in a + n - 1 .. Len(memory) /\ memory \in Seq(Byte)
      BY <1>1, <1>9
    <3> QED
      BY <3>1, AdjacentSlices
  <2>4. Unsent = SubSeq(memory, a, e)
    BY <1>1 DEF a, e
  <2> QED
    BY <1>9, <2>1, <2>2, <2>3, <2>4 DEF given, left
<1>11. TypeOK'
  <2>1. Sent' = Sent
    BY <1>2 DEF Sent
  <2>2. wire' \in Seq(Byte)
    BY <1>1, <1>2, <1>10, ConcatProperties
  <2>3. writes' \subseteq [next : Nat \ {0}, end : Nat, in_data : BOOLEAN]
        /\ \A v \in writes' : v.next <= v.end
    BY <1>2, <1>7
  <2>4. taken' \in 0 .. Len(wire')
    <3>1. Len(wire') = Len(wire) + Len(given) /\ Len(given) \in Nat /\ Len(wire) \in Nat
      BY <1>1, <1>2, <1>10, ConcatProperties, LenProperties
    <3>2. taken \in 0 .. Len(wire) /\ taken' = taken
      BY <1>2 DEF SessionInv, TypeOK
    <3> QED
      BY <3>1, <3>2
  <2> QED
    BY <1>2, <2>1, <2>2, <2>3, <2>4 DEF SessionInv, TypeOK, read_vars
<1>12. WritesEndReply'
  BY <1>1, <1>2, <1>7, <1>8 DEF WritesEndReply, e
<1>13. Unsent' = left
  <2>1. CASE a + n <= e
    <3>1. writes' = {u}
      BY <1>2, <1>7, <2>1
    <3>2. (CHOOSE v \in writes' : TRUE) = u
      BY <3>1
    <3> QED
      BY <1>2, <1>7, <3>1, <3>2 DEF Unsent, left
  <2>2. CASE ~ (a + n <= e)
    <3>1. writes' = {}
      BY <1>8, <2>2
    <3>2. e < a + n /\ a + n \in Int /\ e \in Int
      BY <1>6, <2>2
    <3>3. left = << >>
      BY <3>2, SubSeqEmpty DEF left
    <3> QED
      BY <3>1, <3>3 DEF Unsent
  <2> QED
    BY <2>1, <2>2
<1>14. wire' \o Unsent' = RepliesTo(packets)
  <2>1. (wire \o given) \o left = wire \o (given \o left)
    <3>1. wire \in Seq(Byte) /\ given \in Seq(Byte) /\ left \in Seq(Byte)
      BY <1>1, <1>10
    <3> QED
      BY <3>1, ConcatAssociative
  <2>2. wire \o Unsent = RepliesTo(packets)
    BY <1>2 DEF SessionInv, RepliesIntact
  <2> QED
    BY <1>2, <1>10, <1>13, <2>1, <2>2
<1>15. RepliesIntact'
  BY <1>2, <1>7, <1>8, <1>14 DEF RepliesIntact
<1> QED
  BY <1>3, <1>5, <1>11, <1>12, <1>15 DEF SessionInv

\* An iteration that only moves bytes into packet_buffer_.
LEMMA QuietIteration ==
    ASSUME SessionInv, Iteration, UNCHANGED <<wire, data_vars, packets, writes>>,
           packet_buffer' \in PacketBufferRecord, alive' \in BOOLEAN,
           alive' => FramePart'
    PROVE  SessionInv'
<1>1. /\ UNCHANGED <<script, requested, peer_closed, taken, wire, memory, size, received,
                     bytes_transferred, packets, writes, open, up>>
      /\ open
      /\ Sent' = Sent
      /\ offset' \in 0 .. bytes_transferred' /\ bytes_transferred' <= received'
      /\ ReadKept'
  BY IterationStep DEF data_vars, SessionInv, Turns
<1>2. TypeOK'
  BY <1>1 DEF SessionInv, TypeOK
<1>3. Handled' = Handled
  BY <1>1 DEF Handled
<1>4. Turns' /\ WritesEndReply' /\ RepliesIntact'
  BY <1>1, <1>3 DEF SessionInv, Turns, WritesEndReply, RepliesIntact, Unsent
<1> QED
  BY <1>1, <1>2, <1>4 DEF SessionInv

\* The part grew by the bytes fed.
LEMMA FedFramePart ==
    ASSUME SessionInv, Iteration, packet_buffer' = Fed, UNCHANGED packets
    PROVE  FramePart'
<1> DEFINE d == packet_buffer.data
<1>1. /\ alive /\ LoopRuns
      /\ Consumed' = Consumed + Pushed /\ Stream' = Stream
      /\ UNCHANGED <<script, requested>>
  BY IterationStep
<1>2. Handled' = Handled /\ Place(Handled)' = Place(Handled)
  BY <1>1 DEF Handled, Place, BytesTo
<1>3. /\ Consumed \in Nat /\ Pushed \in Nat /\ Len(d) \in Nat
      /\ packet_buffer.bytes_left \in Nat /\ Place(Handled) \in Nat
      /\ Fed.bytes_left = packet_buffer.bytes_left - Pushed
      /\ Len(Fed.data) = Len(d) + Pushed
      /\ Fed.state = packet_buffer.state /\ Fed.total_bytes = packet_buffer.total_bytes
  BY <1>1, FedIsStream, WalkPosition, Standing DEF SessionInv
<1>4. Len(Fed.data) + Fed.bytes_left = Len(d) + packet_buffer.bytes_left
      /\ Consumed' - Len(Fed.data) = Consumed - Len(d)
  BY <1>1, <1>3
<1>5. Fed.state = AwaitHeader =>
         /\ Len(Fed.data) + Fed.bytes_left = SIZE_HEADER_SIZE
         /\ Consumed' = Place(Handled) + Len(Fed.data)
  <2> HAVE Fed.state = AwaitHeader
  <2>1. Len(d) + packet_buffer.bytes_left = SIZE_HEADER_SIZE /\ Consumed = Place(Handled) + Len(d)
    BY <1>1, <1>3 DEF SessionInv, FramePart
  <2> QED
    BY <1>1, <1>3, <1>4, <2>1
<1>6. Fed.state = AwaitPayload =>
         /\ requested = Handled + 1
         /\ Fed.total_bytes = Len(script[Handled + 1])
         /\ Len(Fed.data) + Fed.bytes_left = Fed.total_bytes
         /\ Consumed' = Place(Handled) + SIZE_HEADER_SIZE + Len(Fed.data)
  <2> HAVE Fed.state = AwaitPayload
  <2>1. /\ requested = Handled + 1
        /\ packet_buffer.total_bytes = Len(script[Handled + 1])
        /\ Len(d) + packet_buffer.bytes_left = packet_buffer.total_bytes
        /\ Consumed = Place(Handled) + SIZE_HEADER_SIZE + Len(d)
    BY <1>1, <1>3 DEF SessionInv, FramePart
  <2>2. Consumed' = Place(Handled) + SIZE_HEADER_SIZE + Len(Fed.data)
    BY <1>1, <1>3, <2>1 DEF SIZE_HEADER_SIZE
  <2> QED
    BY <1>3, <1>4, <2>1, <2>2
<1>7. \A i \in 1 .. Len(Fed.data) : Fed.data[i] = Stream[Consumed' - Len(Fed.data) + i]
  BY <1>1, <1>4, FedIsStream
<1> QED
  BY <1>1, <1>2, <1>5, <1>6, <1>7 DEF FramePart

\* The part is not complete.
LEMMA KeepWaitingStep ==
    ASSUME SessionInv, KeepWaiting
    PROVE  SessionInv'
<1>1. Iteration /\ packet_buffer' = Fed /\ UNCHANGED <<wire, data_vars, packets, writes>>
      /\ alive' = alive /\ alive /\ LoopRuns
  BY IterationStep DEF KeepWaiting
<1> QED
  BY <1>1, FedIsStream, FedFramePart, QuietIteration

\* The packet could not be decoded.
LEMMA ThrowFromRawStep ==
    ASSUME SessionInv, ThrowFromRaw
    PROVE  SessionInv'
<1>1. Iteration /\ packet_buffer' = Fed /\ UNCHANGED <<wire, data_vars, packets, writes>>
      /\ alive' = FALSE /\ alive /\ LoopRuns
  BY IterationStep DEF ThrowFromRaw
<1> QED
  BY <1>1, FedIsStream, QuietIteration

\* A complete header says how long the payload of the request is.
LEMMA FinishHeaderStep ==
    ASSUME SessionInv, FinishHeader
    PROVE  SessionInv'
<1> DEFINE d == packet_buffer.data
           p == script[Handled + 1]
<1>1. /\ Iteration /\ alive /\ LoopRuns
      /\ Fed.bytes_left = 0 /\ packet_buffer.state = AwaitHeader
      /\ packet_buffer' = CommitHeader(Fed)
      /\ UNCHANGED <<wire, data_vars, packets, writes, alive>>
      /\ Consumed' = Consumed + Pushed /\ Stream' = Stream
      /\ UNCHANGED <<script, requested>>
  BY IterationStep, FedIsStream DEF FinishHeader, HeaderComplete
<1>2. /\ Consumed \in Nat /\ Pushed \in Nat /\ Len(d) \in Nat /\ Place(Handled) \in Nat
      /\ Len(Fed.data) = Len(d) + Pushed /\ Fed.data \in Seq(Byte)
      /\ Pushed = packet_buffer.bytes_left
      /\ \A i \in 1 .. Len(Fed.data) : Fed.data[i] = Stream[Consumed - Len(d) + i]
  <2>1. /\ Consumed \in Nat /\ Len(d) \in Nat /\ packet_buffer.bytes_left \in Nat
    BY WalkPosition
  <2>2. Place(Handled) \in Nat
    BY Standing DEF SessionInv
  <2>3. /\ Pushed \in Nat /\ Fed.bytes_left = packet_buffer.bytes_left - Pushed
        /\ Len(Fed.data) = Len(d) + Pushed /\ Fed.data \in Seq(Byte)
        /\ \A i \in 1 .. Len(Fed.data) : Fed.data[i] = Stream[Consumed - Len(d) + i]
    BY <1>1, FedIsStream
  <2>4. Pushed = packet_buffer.bytes_left
    BY <1>1, <2>1, <2>3
  <2> QED
    BY <2>1, <2>2, <2>3, <2>4
<1>3. Len(d) + Pushed = 4 /\ Consumed = Place(Handled) + Len(d)
  <2>1. Len(d) + packet_buffer.bytes_left = SIZE_HEADER_SIZE /\ Consumed = Place(Handled) + Len(d)
    BY <1>1 DEF SessionInv, FramePart
  <2> QED
    BY <1>2, <2>1 DEF SIZE_HEADER_SIZE
<1>4. Len(Fed.data) = 4 /\ Consumed' = Place(Handled) + 4 /\ Consumed - Len(d) = Place(Handled)
  <2>1. Consumed' = Consumed + Pushed
    BY <1>1
  <2> HIDE DEF d
  <2> QED
    BY <1>2, <1>3, <2>1
<1>5. requested = Handled + 1
  <2>1. Consumed' <= received
    <3>1. Pushed <= bytes_transferred - offset
      BY <1>1, FedIsStream
    <3> QED
      BY <1>1, <1>2, <3>1, WalkPosition
  <2>2. /\ received <= Sent /\ Sent \in Nat /\ received \in Nat
        /\ requested = Handled => Sent = Place(Handled)
    BY Standing DEF SessionInv
  <2>3. Place(Handled) < Sent
    BY <1>2, <1>4, <2>1, <2>2
  <2>4. requested # Handled
    BY <1>2, <2>2, <2>3
  <2> QED
    BY <2>4 DEF SessionInv, Turns
<1>6. Handled < Len(script) /\ script \in Seq(Payloads) /\ Handled \in Nat
  BY <1>5, Standing DEF SessionInv
<1>7. p \in Payloads /\ \A i \in 1 .. 4 : Stream[Place(Handled) + i] = Header(Len(p))[i]
  BY <1>6, StreamFrames
<1>8. /\ Len(p) \in Nat
      /\ Header(Len(p)) \in Seq(Byte) /\ Len(Header(Len(p))) = 4
      /\ Ntoh(Header(Len(p))) = Len(p)
  BY <1>7, FrameParts
<1> HIDE DEF d, p
<1>9. Fed.data = Header(Len(p))
  <2>1. \A i \in 1 .. 4 : Fed.data[i] = Header(Len(p))[i]
    BY <1>2, <1>4, <1>7
  <2> QED
    BY <1>2, <1>4, <1>8, <2>1, SeqEqual
<1>10. /\ packet_buffer'.state = AwaitPayload
       /\ packet_buffer'.bytes_left = Len(p) /\ packet_buffer'.total_bytes = Len(p)
       /\ packet_buffer'.data = << >>
       /\ packet_buffer' \in PacketBufferRecord
  BY <1>1, <1>8, <1>9, EmptySeq DEF CommitHeader, PacketBufferRecord
<1>11. Handled' = Handled /\ Place(Handled)' = Place(Handled)
  BY <1>1 DEF Handled, Place, BytesTo
<1>12. FramePart'
  <2>1. AwaitPayload # AwaitHeader
    BY DEF AwaitPayload, AwaitHeader
  <2>2. Len(packet_buffer'.data) = 0
    BY <1>10, EmptySeq
  <2>3. /\ requested' = Handled' + 1
        /\ packet_buffer'.total_bytes = Len(script'[Handled' + 1])
        /\ Len(packet_buffer'.data) + packet_buffer'.bytes_left = packet_buffer'.total_bytes
        /\ Consumed' = Place(Handled)' + SIZE_HEADER_SIZE + Len(packet_buffer'.data)
    BY <1>1, <1>2, <1>4, <1>5, <1>8, <1>10, <1>11, <2>2 DEF SIZE_HEADER_SIZE, p
  <2> QED
    BY <1>10, <2>1, <2>2, <2>3 DEF FramePart
<1>13. alive' \in BOOLEAN
  BY <1>1 DEF SessionInv, TypeOK
<1> QED
  BY <1>1, <1>10, <1>12, <1>13, QuietIteration

\* After send(), data_ starts with the reply.
LEMMA AssignedReply ==
    ASSUME memory \in Seq(Byte), NEW reply \in Seq(Byte), Assign(reply)
    PROVE  /\ memory' \in Seq(Byte) /\ size' = Len(reply)
           /\ Len(reply) \in Nat /\ Len(memory') \in Nat
           /\ Len(reply) <= Len(memory') /\ Len(memory) <= Len(memory')
           /\ \A i \in 1 .. Len(reply) : memory'[i] = reply[i]
<1>1. Len(memory) \in Nat /\ Len(reply) \in Nat /\ size' = Len(reply)
  BY LenProperties DEF Assign
<1>2. CASE Fits(reply)
  <2> DEFINE tail == SubSeq(memory, Len(reply) + 1, Len(memory))
  <2>1. memory' = reply \o tail /\ Len(reply) <= Len(memory)
    BY <1>2 DEF Assign, Fits
  <2>2. tail \in Seq(Byte) /\ Len(tail) = Len(memory) - Len(reply)
    <3>1. Len(reply) \in 0 .. Len(memory) /\ Len(memory) \in Len(reply) .. Len(memory)
      BY <1>1, <2>1
    <3> QED
      BY <3>1, Slice
  <2> HIDE DEF tail
  <2>3. /\ reply \o tail \in Seq(Byte)
        /\ Len(reply \o tail) = Len(reply) + Len(tail)
        /\ \A i \in 1 .. Len(reply) + Len(tail) :
              (reply \o tail)[i] = IF i <= Len(reply) THEN reply[i] ELSE tail[i - Len(reply)]
    BY <2>2, ConcatProperties
  <2>4. Len(reply) + Len(tail) = Len(memory)
    BY <1>1, <2>2
  <2>5. ASSUME NEW i \in 1 .. Len(reply) PROVE (reply \o tail)[i] = reply[i]
    <3>1. i \in 1 .. Len(reply) + Len(tail) /\ i <= Len(reply)
      BY <1>1, <2>1, <2>4
    <3> QED
      BY <2>3, <3>1
  <2> QED
    BY <1>1, <2>1, <2>3, <2>4, <2>5
<1>3. CASE ~ Fits(reply)
  <2>1. memory' = reply /\ ~ (Len(reply) <= Len(memory))
    BY <1>3 DEF Assign, Fits
  <2> QED
    BY <1>1, <2>1
<1> QED
  BY <1>2, <1>3

\* A complete payload is that of the request being waited for, and the read holds
\* nothing behind it.
LEMMA CompletePacket ==
    ASSUME SessionInv, Iteration, PacketComplete(Fed)
    PROVE  /\ requested = Handled + 1 /\ Handled < Len(script)
           /\ Payload(Fed) = script[Handled + 1]
           /\ script[Handled + 1] \in Payloads
           /\ Consumed' = Place(Handled + 1)
           /\ offset' = bytes_transferred'
<1> DEFINE d == packet_buffer.data
           p == script[Handled + 1]
<1>1. /\ alive /\ LoopRuns
      /\ Fed.bytes_left = 0 /\ packet_buffer.state = AwaitPayload
      /\ Consumed' = Consumed + Pushed
  BY IterationStep, FedIsStream DEF PacketComplete
<1>2. /\ requested = Handled + 1
      /\ packet_buffer.total_bytes = Len(p)
      /\ Len(d) + packet_buffer.bytes_left = packet_buffer.total_bytes
      /\ Consumed = Place(Handled) + SIZE_HEADER_SIZE + Len(d)
  BY <1>1 DEF SessionInv, FramePart
<1>3. /\ script \in Seq(Payloads) /\ Handled \in Nat /\ Handled < Len(script)
      /\ p \in Payloads /\ Len(p) \in Nat /\ Place(Handled) \in Nat
      /\ Sent = Place(Handled) + 4 + Len(p)
      /\ received \in Nat /\ received <= Sent
  BY <1>2, Standing DEF SessionInv
<1>4. /\ Consumed \in Nat /\ Len(d) \in Nat /\ packet_buffer.bytes_left \in Nat
      /\ received - Consumed = bytes_transferred - offset
      /\ offset \in Nat /\ bytes_transferred \in Nat
  BY WalkPosition
<1>5. /\ Pushed \in Nat /\ Fed.bytes_left = packet_buffer.bytes_left - Pushed
      /\ Pushed <= bytes_transferred - offset
      /\ Len(Fed.data) = Len(d) + Pushed /\ Fed.data \in Seq(Byte)
      /\ Fed.total_bytes = packet_buffer.total_bytes
      /\ \A i \in 1 .. Len(Fed.data) : Fed.data[i] = Stream[Consumed - Len(d) + i]
  BY <1>1, FedIsStream
<1>6. /\ \A i \in 1 .. Len(p) : Stream[Place(Handled) + 4 + i] = p[i]
      /\ Place(Handled + 1) = Place(Handled) + 4 + Len(p)
  BY <1>3, StreamFrames
<1>7. p \in Seq(Byte)
  BY <1>3, FrameParts
<1> HIDE DEF d, p
<1>8. /\ Len(Fed.data) = Len(p)
      /\ Consumed - Len(d) = Place(Handled) + 4
      /\ Consumed + Pushed = Place(Handled) + 4 + Len(p)
  <2>1. Pushed = packet_buffer.bytes_left
    BY <1>1, <1>4, <1>5
  <2>2. Consumed = Place(Handled) + 4 + Len(d)
    BY <1>2 DEF SIZE_HEADER_SIZE
  <2>3. Len(d) + Pushed = Len(p)
    BY <1>2, <2>1
  <2>4. Len(Fed.data) = Len(d) + Pushed
    BY <1>5
  <2>5. Place(Handled) \in Nat /\ Len(d) \in Nat /\ Pushed \in Nat
    BY <1>3, <1>4, <1>5
  <2>6. Consumed - Len(d) = Place(Handled) + 4
    BY <2>2, <2>5
  <2>7. Consumed + Pushed = Place(Handled) + 4 + (Len(d) + Pushed)
    BY <2>2, <2>5
  <2> QED
    BY <2>3, <2>4, <2>6, <2>7
<1>9. Fed.data = p
  <2>1. \A i \in 1 .. Len(p) : Fed.data[i] = p[i]
    BY <1>5, <1>6, <1>8
  <2> QED
    BY <1>5, <1>7, <1>8, <2>1, SeqEqual
<1>10. Payload(Fed) = p
  BY <1>2, <1>5, <1>7, <1>9, WholeSlice DEF Payload
<1>11. Pushed = bytes_transferred - offset
  BY <1>3, <1>4, <1>5, <1>8
<1>12. offset' = bytes_transferred'
  <2>1. offset' = offset + Pushed /\ bytes_transferred' = bytes_transferred
    BY IterationStep
  <2> QED
    BY <1>4, <1>11, <2>1
<1> QED
  BY <1>1, <1>2, <1>3, <1>6, <1>8, <1>10, <1>12 DEF p

\* The handler replies while the walk is going on: the walk is over with it, so the
\* reply overwrites nothing that is still to be read.
LEMMA FinishPacketStep ==
    ASSUME SessionInv, FinishPacket
    PROVE  SessionInv'
<1> DEFINE p == script[Handled + 1]
           reply == Reply(p)
<1>1. /\ Iteration /\ alive /\ LoopRuns /\ alive' = alive
      /\ PacketComplete(Fed)
      /\ packet_buffer' = CommitPacket(Fed)
      /\ packets' = Append(packets, Payload(Fed))
      /\ UNCHANGED <<script, requested, peer_closed, taken, received, bytes_transferred, open, up>>
      /\ Sent' = Sent
      /\ offset' \in 0 .. bytes_transferred' /\ bytes_transferred' <= received'
  BY IterationStep DEF FinishPacket
<1>2. /\ requested = Handled + 1 /\ Handled < Len(script)
      /\ Payload(Fed) = p /\ p \in Payloads
      /\ Consumed' = Place(Handled + 1)
      /\ offset' = bytes_transferred'
  BY <1>1, CompletePacket
<1>3. /\ script \in Seq(Payloads) /\ Handled \in Nat /\ packets \in Seq(Payloads)
      /\ memory \in Seq(Byte) /\ wire \in Seq(Byte)
  BY Standing DEF SessionInv, TypeOK
<1>4. reply \in Seq(Byte) /\ Len(reply) \in Nat /\ Len(reply) >= 1
  <2>1. reply \in Seq(Byte) /\ reply # << >>
    BY <1>2, RepliesAssumption
  <2>2. Len(reply) \in Nat \ {0}
    BY <2>1, EmptySeq
  <2> QED
    BY <2>1, <2>2
<1>5. writes = {} /\ open /\ open'
  BY <1>1, <1>2, <1>3 DEF SessionInv, Turns
<1>6. PICK n \in 0 .. Len(reply) : Send(reply, n)
  BY <1>2 DEF FinishPacket
<1> HIDE DEF p, reply
<1>7. n \in Nat /\ n <= Len(reply)
  BY <1>4, <1>6
<1>8. /\ memory' \in Seq(Byte) /\ size' = Len(reply) /\ Len(memory') \in Nat
      /\ Len(reply) <= Len(memory') /\ Len(memory) <= Len(memory')
      /\ \A i \in 1 .. Len(reply) : memory'[i] = reply[i]
  BY <1>3, <1>4, <1>6, AssignedReply DEF Send
<1> DEFINE w == PendingWrite(n + 1, size')
           begun == SubSeq(reply, 1, n)
           left == SubSeq(reply, n + 1, Len(reply))
<1>9. /\ wire' = wire \o begun
      /\ writes' = {v \in {w} : v.next <= v.end}
  BY <1>5, <1>6 DEF Send
<1>10. w \in [next : Nat \ {0}, end : Nat, in_data : BOOLEAN]
       /\ w.next = n + 1 /\ w.end = Len(reply) /\ w.in_data
  BY <1>4, <1>7, <1>8 DEF PendingWrite
<1>11. begun \in Seq(Byte) /\ left \in Seq(Byte) /\ begun \o left = reply
  <2>1. /\ 0 \in Nat /\ 0 \in 0 .. Len(reply) /\ n \in 0 .. Len(reply) /\ 0 + 1 = 1
        /\ Len(reply) \in n .. Len(reply)
    BY <1>4, <1>7
  <2>2. SubSeq(reply, 0 + 1, n) \in Seq(Byte)
    BY <1>4, <2>1, Slice
  <2>3. SubSeq(reply, n + 1, Len(reply)) \in Seq(Byte)
    BY <1>4, <2>1, Slice
  <2>4. SubSeq(reply, 0 + 1, n) \o SubSeq(reply, n + 1, Len(reply)) = SubSeq(reply, 0 + 1, Len(reply))
    BY <1>4, <2>1, AdjacentSlices
  <2>5. SubSeq(reply, 1, Len(reply)) = reply
    BY <1>4, WholeSlice
  <2> QED
    BY <2>1, <2>2, <2>3, <2>4, <2>5
<1>12. Unsent' = left
  <2>1. CASE n < Len(reply)
    <3>1. writes' = {w}
      BY <1>4, <1>7, <1>9, <1>10, <2>1
    <3>2. (CHOOSE v \in writes' : TRUE) = w
      BY <3>1
    <3>3. Unsent' = SubSeq(memory', n + 1, Len(reply))
      <4> HIDE DEF w
      <4> QED
        BY <1>10, <3>1, <3>2 DEF Unsent
    <3>4. SubSeq(memory', n + 1, Len(reply)) = left
      <4>1. /\ n \in 0 .. Len(reply) /\ Len(reply) \in n .. Len(reply)
            /\ n \in 0 .. Len(memory') /\ Len(reply) \in n .. Len(memory')
        BY <1>4, <1>7, <1>8
      <4>2. /\ SubSeq(memory', n + 1, Len(reply)) \in Seq(Byte)
            /\ Len(SubSeq(memory', n + 1, Len(reply))) = Len(reply) - n
            /\ \A i \in 1 .. Len(reply) - n : SubSeq(memory', n + 1, Len(reply))[i] = memory'[n + i]
        BY <1>8, <4>1, Slice
      <4>3. /\ left \in Seq(Byte)
            /\ Len(left) = Len(reply) - n
            /\ \A i \in 1 .. Len(reply) - n : left[i] = reply[n + i]
        BY <1>4, <4>1, Slice
      <4> HIDE DEF left
      <4>4. \A i \in 1 .. Len(reply) - n : memory'[n + i] = reply[n + i]
        BY <1>4, <1>7, <1>8
      <4> QED
        BY <4>2, <4>3, <4>4, SeqEqual
    <3> QED
      BY <3>3, <3>4
  <2>2. CASE ~ (n < Len(reply))
    <3>1. writes' = {}
      BY <1>4, <1>7, <1>9, <1>10, <2>2
    <3>2. n + 1 \in Int /\ Len(reply) \in Int /\ Len(reply) < n + 1
      BY <1>4, <1>7, <2>2
    <3>3. left = << >>
      BY <3>2, SubSeqEmpty
    <3> QED
      BY <3>1, <3>3 DEF Unsent
  <2> QED
    BY <2>1, <2>2
<1> HIDE DEF w, begun, left
<1>13. /\ packets' = SubSeq(script, 1, Handled + 1)
       /\ packets' \in Seq(Payloads) /\ Handled' = Handled + 1
       /\ SaidTo(script, Handled + 1) = SaidTo(script, Handled) \o reply
  <2>1. /\ SubSeq(script, 1, Handled + 1) = Append(SubSeq(script, 1, Handled), p)
        /\ SaidTo(script, Handled + 1) = SaidTo(script, Handled) \o reply
    BY <1>2, <1>3, OneMoreRequest DEF p, reply
  <2>2. packets = SubSeq(script, 1, Handled)
    BY DEF SessionInv, Turns
  <2>3. packets' = Append(packets, p)
    BY <1>1, <1>2
  <2>4. packets' \in Seq(Payloads) /\ Len(packets') = Handled + 1
    BY <1>2, <1>3, <2>3, AppendProperties DEF Handled
  <2> QED
    BY <2>1, <2>2, <2>3, <2>4 DEF Handled
<1>14. Turns'
  <2>1. requested' = Handled' /\ open' /\ Handled' \in Nat
    BY <1>1, <1>2, <1>3, <1>5, <1>13
  <2>2. packets' = SubSeq(script', 1, Handled')
    BY <1>1, <1>13
  <2> QED
    BY <2>1, <2>2 DEF Turns
<1>15. \A v \in writes' : v = w
  BY <1>9
<1>16. WritesEndReply'
  BY <1>8, <1>10, <1>15 DEF WritesEndReply
<1>17. RepliesIntact'
  <2>1. wire \o << >> = wire /\ Unsent = << >>
    BY <1>3, <1>5, ConcatEmptySeq DEF Unsent
  <2>2. wire = SaidTo(script, Handled)
    BY <1>5, <2>1 DEF SessionInv, RepliesIntact, Turns, SaidTo
  <2>3. (wire \o begun) \o left = wire \o (begun \o left)
    <3>1. wire \in Seq(Byte) /\ begun \in Seq(Byte) /\ left \in Seq(Byte)
      BY <1>3, <1>11
    <3> QED
      BY <3>1, ConcatAssociative
  <2>4. wire' \o Unsent' = SaidTo(script, Handled + 1)
    BY <1>9, <1>11, <1>12, <1>13, <2>2, <2>3
  <2>5. RepliesTo(packets') = SaidTo(script, Handled + 1)
    BY <1>13 DEF SaidTo
  <2> QED
    BY <1>5, <1>10, <1>15, <2>4, <2>5 DEF RepliesIntact
<1>18. TypeOK'
  <2>1. wire' \in Seq(Byte)
    BY <1>3, <1>9, <1>11, ConcatProperties
  <2>2. writes' \subseteq [next : Nat \ {0}, end : Nat, in_data : BOOLEAN]
        /\ \A v \in writes' : v.next <= v.end
    BY <1>9, <1>10
  <2>3. size' \in 1 .. Len(memory') /\ bytes_transferred' \in 0 .. Len(memory')
    BY <1>1, <1>4, <1>8, WalkPosition
  <2>4. packet_buffer' \in PacketBufferRecord
    BY <1>1, EmptySeq DEF CommitPacket, PacketBufferRecord, SIZE_HEADER_SIZE
  <2>5. taken' \in 0 .. Len(wire')
    <3>1. Len(wire') = Len(wire) + Len(begun) /\ Len(begun) \in Nat /\ Len(wire) \in Nat
      BY <1>3, <1>9, <1>11, ConcatProperties, LenProperties
    <3>2. taken \in 0 .. Len(wire) /\ taken' = taken
      BY <1>1 DEF SessionInv, TypeOK
    <3> QED
      BY <3>1, <3>2
  <2> QED
    BY <1>1, <1>8, <1>13, <2>1, <2>2, <2>3, <2>4, <2>5 DEF SessionInv, TypeOK
<1>19. FramePart'
  <2>1. /\ packet_buffer'.state = AwaitHeader /\ packet_buffer'.data = << >>
        /\ packet_buffer'.bytes_left = SIZE_HEADER_SIZE
    BY <1>1 DEF CommitPacket
  <2>2. AwaitHeader # AwaitPayload
    BY DEF AwaitHeader, AwaitPayload
  <2>3. Place(Handled)' = Place(Handled + 1) /\ Place(Handled + 1) \in Nat
    <3>1. Handled + 1 \in 0 .. Len(script)
      BY <1>2, <1>3, Standing DEF SessionInv
    <3> QED
      BY <1>1, <1>3, <1>13, <3>1, PlaceBounds DEF Place, BytesTo
  <2>4. Len(packet_buffer'.data) = 0
    BY <2>1, EmptySeq
  <2> QED
    BY <1>2, <2>1, <2>2, <2>3, <2>4 DEF FramePart, SIZE_HEADER_SIZE
<1>20. ReadKept'
  <2>1. offset' + 1 .. bytes_transferred' = {}
    BY <1>1, <1>2, WalkPosition
  <2> QED
    BY <2>1 DEF ReadKept
<1> QED
  BY <1>1, <1>14, <1>16, <1>17, <1>18, <1>19, <1>20 DEF SessionInv

\* A step that changes nothing.
LEMMA StutterStep ==
    ASSUME SessionInv, UNCHANGED vars
    PROVE  SessionInv'
<1>1. UNCHANGED <<script, requested, peer_closed, taken, wire, received, bytes_transferred, offset,
                  packet_buffer, packets, memory, size, writes, alive, open, up>>
  BY DEF vars, peer_vars, read_vars, data_vars
<1>2. UNCHANGED <<Handled, Consumed, Stream, Sent>>
  BY <1>1 DEF Handled, Consumed, Stream, Sent
<1>3. Place(Handled)' = Place(Handled)
  BY <1>1, <1>2 DEF Place, BytesTo
<1>4. TypeOK'
  BY <1>1, <1>2 DEF SessionInv, TypeOK
<1>5. Turns' /\ WritesEndReply' /\ RepliesIntact'
  BY <1>1, <1>2 DEF SessionInv, Turns, WritesEndReply, RepliesIntact, Unsent, LoopRuns
<1>6. alive' => FramePart' /\ ReadKept'
  BY <1>1, <1>2, <1>3 DEF SessionInv, FramePart, ReadKept
<1> QED
  BY <1>1, <1>4, <1>5, <1>6 DEF SessionInv

\* Every step of a session whose peer waits for its replies keeps the invariant.
LEMMA NextSessionInv ==
    ASSUME Window = 1
    PROVE  SessionInv /\ [Next]_vars => SessionInv'
<1> SUFFICES ASSUME SessionInv, [Next]_vars PROVE SessionInv'
  OBVIOUS
<1>1. CASE SendRequest
  BY <1>1, SendRequestStep
<1>2. CASE ClosePeer
  BY <1>2, ClosePeerStep
<1>3. CASE Read
  BY <1>3, HandleReadStep DEF Read
<1>4. CASE HandleEof
  BY <1>4, HandleEofStep
<1>11. CASE RemoteEndpointThrows
  BY <1>11, RemoteEndpointThrowsStep
<1>5. CASE SomeWrite
  BY <1>5, WriteSomeStep DEF SomeWrite
<1>6. CASE KeepWaiting
  BY <1>6, KeepWaitingStep
<1>7. CASE FinishHeader
  BY <1>7, FinishHeaderStep
<1>8. CASE FinishPacket
  BY <1>8, FinishPacketStep
<1>9. CASE ThrowFromRaw
  BY <1>9, ThrowFromRawStep
<1>10. CASE UNCHANGED vars
  BY <1>10, StutterStep
<1> QED
  BY <1>1, <1>2, <1>3, <1>4, <1>5, <1>6, <1>7, <1>8, <1>9, <1>10, <1>11
     DEF Next, LoopStep

\* The inductive invariant: turns, the write under way, and the read buffer mirroring
\* the frames of the stream.
THEOREM SessionInvariant ==
    ASSUME Window = 1
    PROVE  Spec => []SessionInv
<1>1. SessionInv /\ [Next]_vars => SessionInv'
  BY NextSessionInv
<1> QED
  BY <1>1, InitSessionInv, PTL DEF Spec

\* Type correctness: data_ and the counters into it stay within its allocation
\* (JsonNetSession.tcc:85-143).
THEOREM SessionTypes ==
    ASSUME Window = 1
    PROVE  Spec => []TypeOK
<1>1. SessionInv => TypeOK
  BY DEF SessionInv
<1> QED
  BY <1>1, SessionInvariant, PTL

\* What a peer that waits for its replies is sent is the replies to its packets, bit
\* for bit, however its bytes are cut into reads and the replies into writes
\* (JsonNetSession.tcc:42-48, 124-125).
THEOREM RepliesAreIntact ==
    ASSUME Window = 1
    PROVE  Spec => []RepliesIntact
<1>1. SessionInv => RepliesIntact
  BY DEF SessionInv
<1> QED
  BY <1>1, SessionInvariant, PTL

--------------------------------------------------------------------------------
(* The refinement. *)

\* A read hands over no more than the largest buffer there ever is.
ReadsFit == size <= MaxRead

\* MaxRead is the largest size of data_.
LEMMA MaxReadIsLargest ==
    /\ MaxRead \in Nat \ {0}
    /\ DEFAULT_BUFFER_SIZE <= MaxRead
    /\ \A p \in Payloads \ Undecodable : Len(Reply(p)) <= MaxRead
<1>1. MaxRead \in BufferSizes /\ Largest(MaxRead)
  BY BufferSizesAssumption DEF MaxRead
<1>2. DEFAULT_BUFFER_SIZE \in BufferSizes
      /\ \A p \in Payloads \ Undecodable : Len(Reply(p)) \in BufferSizes
  BY DEF BufferSizes
<1>3. \A n \in BufferSizes : n \in Nat \ {0}
  <2>1. \A p \in Payloads : Len(Reply(p)) \in Nat \ {0}
    BY RepliesAssumption, EmptySeq
  <2> QED
    BY <2>1, BufferAssumption DEF BufferSizes
<1> QED
  BY <1>1, <1>2, <1>3 DEF Largest

\* data_ never gets larger than that.
LEMMA NextReadsFit ==
    ASSUME SessionInv, ReadsFit, [Next]_vars
    PROVE  ReadsFit'
<1>1. CASE FinishPacket
  <2>1. /\ Iteration /\ PacketComplete(Fed) /\ Payload(Fed) \notin Undecodable
        /\ size' = Len(Reply(Payload(Fed)))
    BY <1>1 DEF FinishPacket, Send, Assign
  <2>2. Payload(Fed) \in Payloads
    BY <2>1, CompletePacket
  <2> QED
    BY <2>1, <2>2, MaxReadIsLargest DEF ReadsFit
<1>2. ASSUME UNCHANGED size PROVE ReadsFit'
  BY <1>2 DEF ReadsFit
<1>3. CASE SendRequest \/ ClosePeer \/ HandleEof \/ RemoteEndpointThrows
  BY <1>2, <1>3 DEF SendRequest, ClosePeer, HandleEof, RemoteEndpointThrows, data_vars
<1>4. CASE Read
  BY <1>2, <1>4 DEF Read, HandleRead
<1>5. CASE SomeWrite
  BY <1>2, <1>5 DEF SomeWrite, WriteSome, data_vars
<1>6. CASE KeepWaiting \/ FinishHeader \/ ThrowFromRaw
  BY <1>2, <1>6 DEF KeepWaiting, FinishHeader, ThrowFromRaw, data_vars
<1>7. CASE UNCHANGED vars
  BY <1>2, <1>7 DEF vars, data_vars
<1> QED
  BY <1>1, <1>3, <1>4, <1>5, <1>6, <1>7 DEF Next, LoopStep

\* A new session is a new reassembly loop.
LEMMA InitRefines == Init => Loop!Init
BY DEF Init, Loop!Init, Stream, NewPacketBuffer, Loop!NewPacketBuffer,
       SIZE_HEADER_SIZE, Loop!SIZE_HEADER_SIZE, AwaitHeader, Loop!AwaitHeader

\* What is left of the read in data_ is what is left of it in the stream.
LEMMA SameFed ==
    ASSUME SessionInv, alive, LoopRuns
    PROVE  Loop!Fed = Fed /\ Loop!Pushed = Pushed
<1>1. /\ Stream \in Seq(Byte) /\ Len(Stream) \in Nat
      /\ received \in Nat /\ received <= Len(Stream)
      /\ Consumed \in Nat /\ Consumed <= received
      /\ received - Consumed = bytes_transferred - offset
  <2>1. Sent <= Len(Stream) /\ Sent \in Nat /\ Len(Stream) \in Nat /\ received <= Sent
        /\ Stream \in Seq(Byte)
    BY Standing DEF SessionInv
  <2> QED
    BY <2>1, WalkPosition
<1>2. /\ Loop!Rest \in Seq(Byte)
      /\ Len(Loop!Rest) = received - Consumed
      /\ \A i \in 1 .. received - Consumed : Loop!Rest[i] = Stream[Consumed + i]
  <2>1. Loop!Rest = SubSeq(Stream, Consumed + 1, received)
    BY DEF Loop!Rest, Loop!Consumed, Consumed
  <2>2. Consumed \in 0 .. Len(Stream) /\ received \in Consumed .. Len(Stream)
    BY <1>1
  <2> QED
    BY <1>1, <2>1, <2>2, Slice
<1>3. /\ Rest \in Seq(Byte) /\ Len(Rest) = bytes_transferred - offset
      /\ \A i \in 1 .. bytes_transferred - offset : Rest[i] = Stream[Consumed + i]
  BY FedIsStream
<1>4. Loop!Rest = Rest
  BY <1>1, <1>2, <1>3, SeqEqual
<1> QED
  BY <1>4 DEF Loop!Fed, Fed, Loop!Feed, Feed, Loop!FeedSize, FeedSize, Loop!Pushed, Pushed

\* An iteration of the walk is an iteration of the loop.
LEMMA IterationRefines ==
    ASSUME SessionInv, Iteration
    PROVE  Loop!Iteration /\ Loop!Fed = Fed
<1>1. alive /\ LoopRuns /\ offset' = offset + Pushed
      /\ UNCHANGED <<received, bytes_transferred>> /\ Stream' = Stream
  BY IterationStep
<1>2. Loop!Fed = Fed /\ Loop!Pushed = Pushed
  BY <1>1, SameFed
<1> QED
  BY <1>1, <1>2 DEF Loop!Iteration, Loop!LoopRuns, LoopRuns

\* Every step is one of the loop, or changes nothing the loop knows of.
LEMMA NextRefines ==
    ASSUME SessionInv, ReadsFit, [Next]_vars
    PROVE  [Loop!Next]_(Loop!vars)
<1>1. CASE SendRequest \/ ClosePeer \/ HandleEof \/ RemoteEndpointThrows
  BY <1>1 DEF SendRequest, ClosePeer, HandleEof, RemoteEndpointThrows, peer_vars, read_vars, Loop!vars,
              Stream
<1>2. CASE SomeWrite
  BY <1>2 DEF SomeWrite, WriteSome, peer_vars, read_vars, Loop!vars, Stream
<1>3. ASSUME NEW n \in 1 .. ReadLimit, HandleRead(n) PROVE Loop!Next
  <2>1. /\ alive /\ ~ LoopRuns /\ received + n <= Sent
        /\ received' = received + n /\ bytes_transferred' = n /\ offset' = 0
        /\ UNCHANGED <<script, packet_buffer, packets, alive>>
    BY <1>3 DEF HandleRead, Idle, peer_vars
  <2>2. Stream' = Stream
    BY <2>1 DEF Stream
  <2>3. received + n <= Len(Stream) /\ n \in 1 .. MaxRead
    <3>1. Sent \in Nat /\ Len(Stream) \in Nat /\ Sent <= Len(Stream) /\ received \in Nat
      BY Standing DEF SessionInv
    <3>2. size \in Nat /\ n \in 1 .. size
      BY WalkPosition DEF SessionInv, TypeOK, ReadLimit
    <3> QED
      BY <2>1, <3>1, <3>2, MaxReadIsLargest DEF ReadsFit
  <2>4. Loop!Read(n)
    BY <2>1, <2>2, <2>3 DEF Loop!Read, Loop!LoopRuns, LoopRuns
  <2> QED
    BY <2>3, <2>4 DEF Loop!Next
<1>4. CASE KeepWaiting
  BY <1>4, IterationRefines DEF KeepWaiting, Loop!KeepWaiting, Loop!Next, Loop!LoopStep
<1>5. CASE FinishHeader
  BY <1>5, IterationRefines
     DEF FinishHeader, HeaderComplete, CommitHeader, Ntoh, AwaitHeader, AwaitPayload,
         Loop!FinishHeader, Loop!HeaderComplete, Loop!CommitHeader, Loop!Ntoh,
         Loop!AwaitHeader, Loop!AwaitPayload, Loop!Next, Loop!LoopStep
<1>6. CASE FinishPacket
  BY <1>6, IterationRefines
     DEF FinishPacket, PacketComplete, Payload, CommitPacket, AwaitHeader, AwaitPayload,
         SIZE_HEADER_SIZE,
         Loop!FinishPacket, Loop!PacketComplete, Loop!Payload, Loop!CommitPacket,
         Loop!AwaitHeader, Loop!AwaitPayload, Loop!SIZE_HEADER_SIZE, Loop!Next, Loop!LoopStep
<1>7. CASE ThrowFromRaw
  BY <1>7, IterationRefines
     DEF ThrowFromRaw, PacketComplete, Payload, AwaitPayload,
         Loop!ThrowFromRaw, Loop!PacketComplete, Loop!Payload, Loop!AwaitPayload,
         Loop!Next, Loop!LoopStep
<1>8. CASE UNCHANGED vars
  BY <1>8 DEF vars, peer_vars, read_vars, Loop!vars, Stream
<1> QED
  BY <1>1, <1>2, <1>3, <1>4, <1>5, <1>6, <1>7, <1>8 DEF Next, LoopStep, Read

\* With a peer that waits for its replies, the walk over data_ is the reassembly loop
\* over the peer's stream: no send() overwrites what it has not come to
\* (JsonNetSession.tcc:137-143).
THEOREM RefinesPacketBuffer ==
    ASSUME Window = 1
    PROVE  Spec => ImplementsPacketBuffer
<1>1. Init => SessionInv /\ ReadsFit
  BY InitSessionInv, MaxReadIsLargest DEF Init, ReadsFit
<1>2. SessionInv /\ ReadsFit /\ [Next]_vars => SessionInv' /\ ReadsFit'
  BY NextSessionInv, NextReadsFit
<1>3. SessionInv /\ ReadsFit /\ [Next]_vars => [Loop!Next]_(Loop!vars)
  BY NextRefines
<1> QED
  BY <1>1, <1>2, <1>3, InitRefines, PTL DEF Spec, ImplementsPacketBuffer, Loop!Spec

================================================================================

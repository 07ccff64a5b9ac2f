----------------------------- MODULE JsonNetSession -----------------------------
(****************************************************************************)
(* One JsonNetSession and its peer.  The session has a single buffer,       *)
(* data_: the kernel reads the peer's bytes into it, handle_read_packet     *)
(* walks over it, and send() replaces its content by the reply, from which  *)
(* async_write takes the bytes later.  The handler NetCodersRunner installs *)
(* replies to a packet while the walk is still going on.                    *)
(*                                                                          *)
(* The io_service has one thread, so the peer and the kernel interleave     *)
(* with handlers, but two handlers never do; every iteration of the walk is *)
(* a step.  The bytes of requests and replies are real, as the corruption   *)
(* the properties exclude is one of bytes.                                  *)
(****************************************************************************)
EXTENDS PacketBufferOps, SequencesExt

CONSTANTS Payloads,             \* the payloads requests are made of
          Scripts,              \* the sequences of payloads a peer may send
          Undecodable,          \* the payloads CoderMessage::from_raw throws on
          Reply(_),             \* what to_raw makes of the runner's response
          Window,               \* how many requests a peer sends ahead of replies
          DEFAULT_BUFFER_SIZE   \* the initial size of data_

ASSUME WindowAssumption == Window \in Nat \ {0}
ASSUME BufferAssumption == DEFAULT_BUFFER_SIZE \in Nat \ {0}
ASSUME ScriptsAssumption == Scripts \subseteq Seq(Payloads) /\ Payloads \subseteq Seq(Byte)
\* The peer waits for a reply to what turns out undecodable, too.
ASSUME RepliesAssumption ==
    \A p \in Payloads : Reply(p) \in Seq(Byte) \ { << >> }
\* A size header has 32 bits.
ASSUME SizesAssumption == \A p \in Payloads : Len(p) \div (256 * 256 * 256) \in Byte

VARIABLES
    script,             \* the payloads the peer wants processed
    requested,          \* how many of the requests it has sent
    peer_closed,        \* it has closed its socket
    taken,              \* how many bytes of replies it had read when it did
    wire,               \* the bytes the kernel took from the session for the peer
    received,           \* how many of the peer's bytes were read
    memory,             \* the allocation of data_: capacity() bytes
    size,               \* data_.size()
    bytes_transferred,  \* the last completed read
    offset,             \* how far handle_read_packet is in it
    packet_buffer,      \* packet_buffer_
    packets,            \* the payloads given to emitPacketReceive
    writes,             \* the async_writes under way
    alive,              \* FALSE once from_raw has thrown out of io_service::run
    open,               \* FALSE once closeSession has destroyed the session
    up                  \* FALSE once something else has ended the process

peer_vars == <<script, requested, peer_closed, taken>>
read_vars == <<received, bytes_transferred, offset, packet_buffer, packets>>
data_vars == <<memory, size>>
vars == <<peer_vars, wire, read_vars, data_vars, writes, alive, open, up>>

\* The payload with its size header, as the test client serialises it: htonl(n).
Header(n) == <<n \div (256 * 256 * 256), (n \div (256 * 256)) % 256,
               (n \div 256) % 256, n % 256>>
Frame(p)  == Header(Len(p)) \o p

StreamOf(s) == FlattenSeq([i \in DOMAIN s |-> Frame(s[i])])
Stream      == StreamOf(script)
Sent        == Len(StreamOf(SubSeq(script, 1, requested)))

\* What the peer expects: the replies to its requests, one after the other.
RepliesTo(s) == FlattenSeq([i \in DOMAIN s |-> Reply(s[i])])
Upto(k)      == Len(RepliesTo(SubSeq(script, 1, k)))
Answered(k)  == Len(wire) >= Upto(k)

Init == /\ script \in Scripts
        /\ requested = 0
        /\ peer_closed = FALSE
        /\ taken = 0
        /\ wire = << >>
        /\ received = 0
        /\ memory = [i \in 1 .. DEFAULT_BUFFER_SIZE |-> 0]
        /\ size = DEFAULT_BUFFER_SIZE
        /\ bytes_transferred = 0
        /\ offset = 0
        /\ packet_buffer = NewPacketBuffer
        /\ packets = << >>
        /\ writes = {}
        /\ alive = TRUE
        /\ open = TRUE
        /\ up = TRUE

--------------------------------------------------------------------------------
(* The peer. *)

SendRequest ==
    /\ ~peer_closed
    /\ requested < Len(script)
    /\ \A k \in 1 .. requested : requested + 1 - k >= Window => Answered(k)
    /\ requested' = requested + 1
    /\ UNCHANGED <<script, peer_closed, taken, wire, read_vars, data_vars, writes, alive, open,
                   up>>

\* The test client closes its socket when it has its reply, or has waited for five
\* seconds; what else it was sent by then it never reads.
ClosePeer ==
    /\ ~peer_closed
    /\ peer_closed' = TRUE
    /\ taken' \in 0 .. Len(wire)
    /\ UNCHANGED <<script, requested, wire, read_vars, data_vars, writes, alive, open, up>>

--------------------------------------------------------------------------------
(* The reactor. *)

LoopRuns == offset < bytes_transferred
Idle     == alive /\ up /\ open /\ ~LoopRuns

\* asio::buffer(data_, n) is never longer than data_.size().
ReadLimit == size

\* async_read_some completes: the kernel has put n bytes at the start of data_.
HandleRead(n) ==
    /\ Idle
    /\ received + n <= Sent
    /\ memory' = SubSeq(Stream, received + 1, received + n)
                    \o SubSeq(memory, n + 1, Len(memory))
    /\ received' = received + n
    /\ bytes_transferred' = n
    /\ offset' = 0
    /\ UNCHANGED <<peer_vars, wire, size, packet_buffer, packets, writes, alive, open, up>>

\* Mutant: the error of every read is printed, that of the end of the stream too.
HandleEofPrinted ==
    /\ Idle
    /\ peer_closed
    /\ received = Sent
    /\ UNCHANGED vars

\* async_read_some completes with asio::error::eof: closeSession destroys the
\* session, and with its socket it cancels the write still under way.  Its handler
\* runs all the same, on an object that is not there, which may go well or not.
HandleEof ==
    /\ Idle
    /\ peer_closed
    /\ received = Sent
    /\ open' = FALSE
    /\ writes' = {}
    /\ up' \in IF writes = {} THEN {up} ELSE BOOLEAN
    /\ UNCHANGED <<peer_vars, wire, read_vars, data_vars, alive>>

\* The kernel of a peer that closed answers bytes the peer has not read with a reset;
\* then the handler of the next read, or of a write that failed, calls
\* remote_endpoint() on a socket that is not connected, and that throws out of
\* io_service::run.
RemoteEndpointThrows ==
    /\ Idle
    /\ peer_closed
    /\ Len(wire) > taken
    /\ up' = FALSE
    /\ UNCHANGED <<peer_vars, wire, read_vars, data_vars, writes, alive, open>>

\* An async_write under way: the allocation it reads from and what is left of it.
\* in_data says that this is still the allocation of data_.
PendingWrite(next, end) == [next |-> next, end |-> end, in_data |-> TRUE]

\* The kernel takes one or more bytes of a pending write; the operation is over
\* with its last byte.  Bytes of a freed allocation may be any.
WriteSome(w, n) ==
    /\ Idle
    /\ n \in 1 .. w.end - w.next + 1
    /\ \/ /\ w.in_data
          /\ wire' = wire \o SubSeq(memory, w.next, w.next + n - 1)
       \/ /\ ~w.in_data
          /\ \E b \in {0, 255} : wire' = wire \o [i \in 1 .. n |-> b]
    /\ writes' = (writes \ {w}) \union
                 {u \in {[w EXCEPT !.next = @ + n]} : u.next <= u.end}
    /\ UNCHANGED <<peer_vars, read_vars, data_vars, alive, open, up>>

--------------------------------------------------------------------------------
(* handle_read_packet, one iteration of its loop. *)

\* Mutant: every iteration starts at data_.cbegin().
RestFromBegin == SubSeq(memory, 1, bytes_transferred - offset)

\* data_.cbegin() + offset, for bytes_transferred - offset bytes.
Rest == SubSeq(memory, offset + 1, bytes_transferred)
Fed  == Feed(packet_buffer, Rest)

Iteration ==
    /\ alive
    /\ LoopRuns
    /\ offset' = offset + FeedSize(packet_buffer, Len(Rest))
    /\ UNCHANGED <<peer_vars, received, bytes_transferred, open, up>>

KeepWaiting ==
    /\ Iteration
    /\ Fed.bytes_left # 0
    /\ packet_buffer' = Fed
    /\ UNCHANGED <<wire, data_vars, packets, writes, alive>>

FinishHeader ==
    /\ Iteration
    /\ HeaderComplete(Fed)
    /\ packet_buffer' = CommitHeader(Fed)
    /\ UNCHANGED <<wire, data_vars, packets, writes, alive>>

\* data_ = data: the vector keeps its allocation if the reply fits in it.
Fits(reply) == Len(reply) <= Len(memory)

\* Mutant: a buffer that only ever grows.
AssignNoShrink(reply) ==
    /\ size' = IF Fits(reply) THEN Len(memory) ELSE Len(reply)
    /\ memory' = IF Fits(reply)
                 THEN reply \o SubSeq(memory, Len(reply) + 1, Len(memory))
                 ELSE reply

\* Mutant: a copy into the buffer there is.
AssignNoGrowth(reply) ==
    /\ size' = Len(reply)
    /\ memory' = IF Fits(reply)
                 THEN reply \o SubSeq(memory, Len(reply) + 1, Len(memory))
                 ELSE SubSeq(reply, 1, Len(memory))

Assign(reply) ==
    /\ size' = Len(reply)
    /\ memory' = IF Fits(reply)
                 THEN reply \o SubSeq(memory, Len(reply) + 1, Len(memory))
                 ELSE reply

\* Mutant: async_write_some, whose short writes nobody continues.
SendSome(reply, n) ==
    /\ Assign(reply)
    /\ wire' = wire \o SubSeq(reply, 1, n)
    /\ writes' = writes

\* send(): the assignment, then async_write, which tries to write at once; the
\* kernel takes n bytes, fewer than all of them when its buffer is full.
Send(reply, n) ==
    /\ Assign(reply)
    /\ wire' = wire \o SubSeq(reply, 1, n)
    /\ writes' = {[w EXCEPT !.in_data = @ /\ Fits(reply)] : w \in writes} \union
                 {w \in {PendingWrite(n + 1, size')} : w.next <= w.end}

FinishPacket ==
    /\ Iteration
    /\ PacketComplete(Fed)
    /\ Payload(Fed) \notin Undecodable
    /\ packet_buffer' = CommitPacket(Fed)
    /\ packets' = Append(packets, Payload(Fed))
    /\ LET reply == Reply(Payload(Fed))
       IN  \E n \in 0 .. Len(reply) : Send(reply, n)
    /\ UNCHANGED alive

ThrowFromRaw ==
    /\ Iteration
    /\ PacketComplete(Fed)
    /\ Payload(Fed) \in Undecodable
    /\ packet_buffer' = Fed
    /\ alive' = FALSE
    /\ UNCHANGED <<wire, data_vars, packets, writes>>

LoopStep == KeepWaiting \/ FinishHeader \/ FinishPacket \/ ThrowFromRaw

--------------------------------------------------------------------------------

Read       == \E n \in 1 .. ReadLimit : HandleRead(n)
SomeWrite  == \E w \in writes : \E n \in 1 .. Len(memory) : WriteSome(w, n)

Next == \/ SendRequest
        \/ ClosePeer
        \/ Read
        \/ HandleEof
        \/ RemoteEndpointThrows
        \/ SomeWrite
        \/ LoopStep

Spec == Init /\ [][Next]_vars

\* The io_service runs its handlers, and the network moves bytes both ways.  The
\* peer is under no obligation: it may stop sending, close at any time, or never.
Fairness == WF_vars(Read) /\ WF_vars(HandleEof) /\ WF_vars(SomeWrite) /\ WF_vars(LoopStep)

FairSpec == Spec /\ Fairness

--------------------------------------------------------------------------------

TypeOK ==
    /\ script \in Scripts
    /\ requested \in 0 .. Len(script)
    /\ peer_closed \in BOOLEAN
    /\ taken \in 0 .. Len(wire)
    /\ wire \in Seq(Byte)
    /\ received \in 0 .. Sent
    /\ memory \in Seq(Byte)
    /\ size \in 1 .. Len(memory)
    /\ bytes_transferred \in 0 .. Len(memory)
    /\ offset \in 0 .. bytes_transferred
    /\ packet_buffer \in PacketBufferRecord
    /\ packets \in Seq(Payloads)
    /\ writes \subseteq [next : Nat \ {0}, end : Nat, in_data : BOOLEAN]
    /\ \A w \in writes : w.next <= w.end
    /\ alive \in BOOLEAN
    /\ open \in BOOLEAN
    /\ up \in BOOLEAN

\* The bytes pending writes will take from data_ if nothing more happens to it.
Unsent == IF \E w \in writes : TRUE
          THEN LET w == CHOOSE w \in writes : TRUE
               IN  SubSeq(memory, w.next, w.end)
          ELSE << >>

\* The shared buffer serves one purpose at a time: at most one write is under way,
\* it reads from the live allocation, and what the peer has been sent, followed by
\* what data_ still holds of the last reply, is the replies to the packets so far,
\* bit for bit; the peer of a session that was destroyed got a beginning of them
\* (JsonNetSession.tcc:42-48, 124-127).
RepliesIntact ==
    /\ \A v, w \in writes : v = w /\ w.in_data
    /\ IF open THEN wire \o Unsent = RepliesTo(packets)
               ELSE IsPrefix(wire, RepliesTo(packets))

\* The session implements the reassembly loop of PacketBuffer, which takes it that
\* the read buffer keeps its bytes while the loop runs over it: no send() overwrites
\* the part of a read that the walk has not come to (JsonNetSession.tcc:137-143).
BufferSizes == {DEFAULT_BUFFER_SIZE} \union {Len(Reply(p)) : p \in Payloads \ Undecodable}
Largest(m)  == \A n \in BufferSizes : n <= m

\* There is a longest reply.
ASSUME BufferSizesAssumption == \E m \in BufferSizes : Largest(m)

MaxRead == CHOOSE m \in BufferSizes : Largest(m)

Loop == INSTANCE PacketBuffer WITH
            Streams   <- {StreamOf(s) : s \in Scripts},
            ReadLimit <- MaxRead,
            stream    <- Stream

ImplementsPacketBuffer == Loop!Spec

\* Every request is answered to the last byte, as long as its peer stays until it has
\* read the answer, and whenever it leaves then; unless a request of the peer could not
\* be decoded, which takes the process down (JsonNetSession.tcc:42-48, 117-143).
AnsweredInFull(k) == k <= Len(script) /\ IsPrefix(RepliesTo(SubSeq(script, 1, k)), wire)
LeftBefore(k)     == k <= Len(script) /\ peer_closed /\ taken < Upto(k)

EveryRequestAnswered ==
    \A k \in UNION {DOMAIN s : s \in Scripts} :
        k <= requested ~> (~alive \/ AnsweredInFull(k) \/ LeftBefore(k))

\* The session of a peer that closes, whatever is still under way, is destroyed, unless
\* the process ends first (JsonNetSession.tcc:118, 126-127).
SessionReleased == peer_closed ~> (~open \/ ~alive \/ ~up)

================================================================================

------------------------------ MODULE PacketBuffer ------------------------------
(****************************************************************************)
(* The reassembly loop of one session: JsonNetSession::handle_read_packet   *)
(* around PacketBufferType::feed and commit.  A completed read hands over   *)
(* the next bytes of the peer's stream, split wherever the network split    *)
(* them; every iteration of the loop is a step.  The read buffer is taken   *)
(* to keep its bytes while the loop runs over it (JsonNetSession checks     *)
(* when that is so).                                                        *)
(****************************************************************************)
EXTENDS PacketBufferOps

CONSTANTS Streams,      \* the byte streams a peer may send
          Undecodable,  \* the payloads PacketClass_::from_raw throws on
          ReadLimit     \* data_.size(): the most one read can hand over

ASSUME ReadLimitAssumption == ReadLimit \in Nat \ {0}
ASSUME StreamsAssumption == Streams \subseteq Seq(Byte)
\* nlohmann::json::parse rejects the empty text.
ASSUME UndecodableAssumption == << >> \in Undecodable

VARIABLES stream,             \* the bytes of the peer, from the first to the last
          received,           \* how many of them completed reads handed over
          bytes_transferred,  \* the size of the last read
          offset,             \* how far handle_read_packet is in that read
          packet_buffer,      \* packet_buffer_
          packets,            \* the payloads given to emitPacketReceive so far
          alive               \* FALSE once from_raw has thrown out of the handler

vars == <<stream, received, bytes_transferred, offset, packet_buffer, packets, alive>>

Init == /\ stream \in Streams
        /\ received = 0
        /\ bytes_transferred = 0
        /\ offset = 0
        /\ packet_buffer = NewPacketBuffer
        /\ packets = << >>
        /\ alive = TRUE

LoopRuns == offset < bytes_transferred

\* How many bytes of the stream went through feed().
Consumed == received - bytes_transferred + offset

\* What is left of the read: data_.cbegin() + offset up to bytes_transferred.
Rest == SubSeq(stream, Consumed + 1, received)

\* A read completes with n bytes and handle_read enters handle_read_packet.
Read(n) ==
    /\ alive
    /\ ~LoopRuns
    /\ received + n <= Len(stream)
    /\ received' = received + n
    /\ bytes_transferred' = n
    /\ offset' = 0
    /\ UNCHANGED <<stream, packet_buffer, packets, alive>>

\* One iteration of the loop: feed(), then the case of commit() that applies.
Fed == Feed(packet_buffer, Rest)

Pushed == FeedSize(packet_buffer, Len(Rest))

Iteration ==
    /\ alive
    /\ LoopRuns
    /\ offset' = offset + Pushed
    /\ UNCHANGED <<stream, received, bytes_transferred>>

\* commit() finds bytes_left > 0 and returns nullptr.
KeepWaiting ==
    /\ Iteration
    /\ Fed.bytes_left # 0
    /\ packet_buffer' = Fed
    /\ UNCHANGED <<packets, alive>>

FinishHeader ==
    /\ Iteration
    /\ HeaderComplete(Fed)
    /\ packet_buffer' = CommitHeader(Fed)
    /\ UNCHANGED <<packets, alive>>

FinishPacket ==
    /\ Iteration
    /\ PacketComplete(Fed)
    /\ Payload(Fed) \notin Undecodable
    /\ packet_buffer' = CommitPacket(Fed)
    /\ packets' = Append(packets, Payload(Fed))
    /\ UNCHANGED alive

\* from_raw throws before commit() resets anything, and nothing up to
\* io_service::run catches it.
ThrowFromRaw ==
    /\ Iteration
    /\ PacketComplete(Fed)
    /\ Payload(Fed) \in Undecodable
    /\ packet_buffer' = Fed
    /\ alive' = FALSE
    /\ UNCHANGED packets

LoopStep == KeepWaiting \/ FinishHeader \/ FinishPacket \/ ThrowFromRaw

Next == (\E n \in 1 .. ReadLimit : Read(n)) \/ LoopStep

Spec == Init /\ [][Next]_vars

\* The io_service thread keeps running the handler, and the bytes a peer has
\* sent reach the socket.
Fairness == /\ WF_vars(\E n \in 1 .. ReadLimit : Read(n))
            /\ WF_vars(LoopStep)

FairSpec == Spec /\ Fairness

--------------------------------------------------------------------------------

\* Type correctness.
TypeOK ==
    /\ stream \in Seq(Byte)
    /\ received \in 0 .. Len(stream)
    /\ bytes_transferred \in 0 .. received
    /\ offset \in 0 .. bytes_transferred
    /\ packet_buffer \in PacketBufferRecord
    /\ packets \in Seq(Seq(Byte))
    /\ alive \in BOOLEAN

\* The counters of the buffer add up to the part being read.
PartSize == IF packet_buffer.state = AwaitHeader
            THEN SIZE_HEADER_SIZE ELSE packet_buffer.total_bytes

CountersAgree == Len(packet_buffer.data) + packet_buffer.bytes_left = PartSize

\* The buffer holds the last bytes consumed, in the order they came.
DataStart == Consumed - Len(packet_buffer.data)

DataIsStream ==
    /\ DataStart >= 0
    /\ packet_buffer.data = SubSeq(stream, DataStart + 1, Consumed)

\* The size being waited for is the one in the four bytes before the payload.
AnnouncedSize ==
    packet_buffer.state = AwaitPayload =>
        /\ DataStart >= SIZE_HEADER_SIZE
        /\ packet_buffer.total_bytes =
              Ntoh(SubSeq(stream, DataStart - SIZE_HEADER_SIZE + 1, DataStart))

\* The buffer mirrors the stream however it was split into reads: its bytes are
\* the last ones consumed, its counters say what is missing of the header or of
\* the size announced before, so from_raw never reads past data
\* (JsonNetSession.tcc:162-164, 176-184).
BufferMirrorsStream == CountersAgree /\ DataIsStream /\ AnnouncedSize

\* Where the frame being read starts.
FrameStart == IF packet_buffer.state = AwaitHeader
              THEN DataStart ELSE DataStart - SIZE_HEADER_SIZE

\* The loop implements the framing of the whole stream: every step delivers the
\* next frame, rejects it, or changes nothing a user of the session can see.
Framing == INSTANCE PacketFraming WITH pos <- FrameStart

ImplementsFraming == Framing!Spec

\* Every frame the peer completed is handled in the end, with one exception the
\* code makes: a frame of length zero at the end of the stream waits for another
\* byte, because the loop is left before commit() is called for it.
Handled ==
    \/ ~alive
    \/ ~Framing!FrameComplete(FrameStart)
    \/ Framing!FrameLength(FrameStart) = 0 /\ FrameStart + Framing!HeaderSize = Len(stream)

EveryFrameHandled == <>[]Handled

================================================================================

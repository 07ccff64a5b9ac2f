--------------------------- MODULE PacketBufferProofs ---------------------------
(****************************************************************************)
(* The reassembly loop is correct for every set of streams, every set of    *)
(* payloads from_raw rejects and every size of the read buffer: its data    *)
(* structure mirrors the stream (BufferMirrorsStream), and it implements    *)
(* the framing of the stream as a whole (PacketFraming).                    *)
(****************************************************************************)
EXTENDS PacketBuffer, SequenceLemmas, SequenceTheorems, TLAPS

--------------------------------------------------------------------------------
(* Lemmas about feed() and the size header. *)

\* A size header is a natural number.
LEMMA NtohNat ==
    ASSUME NEW h \in Seq(Byte), Len(h) = SIZE_HEADER_SIZE
    PROVE  Ntoh(h) \in Nat
<1> DEFINE a == h[1]
           b == h[2]
           c == h[3]
           d == h[4]
<1>1. a \in Byte /\ b \in Byte /\ c \in Byte /\ d \in Byte
  BY ElementOfSeq DEF SIZE_HEADER_SIZE
<1>2. Ntoh(h) = ((a * 256 + b) * 256 + c) * 256 + d
  BY DEF Ntoh
<1> HIDE DEF a, b, c, d
<1>3. ((a * 256 + b) * 256 + c) * 256 + d \in Nat
  BY <1>1 DEF Byte
<1>4. QED
  BY <1>2, <1>3

\* feed() takes what the part still needs, but no more than there is.
LEMMA FeedSizeBounds ==
    ASSUME NEW pb \in PacketBufferRecord, NEW n \in Nat
    PROVE  /\ FeedSize(pb, n) \in 0 .. n
           /\ FeedSize(pb, n) <= pb.bytes_left
BY DEF FeedSize, PacketBufferRecord

--------------------------------------------------------------------------------
(* One iteration of the loop. *)

BufferInv == TypeOK /\ BufferMirrorsStream

\* What feed() makes of the buffer: the same part, extended by the next bytes of
\* the stream, with the counters moved by as much.
LEMMA FedIsStream ==
    ASSUME BufferInv, LoopRuns
    PROVE  /\ Consumed \in Nat
           /\ Pushed \in 0 .. bytes_transferred - offset
           /\ Consumed + Pushed \in 0 .. received
           /\ Fed \in PacketBufferRecord
           /\ Fed.state = packet_buffer.state
           /\ Fed.total_bytes = packet_buffer.total_bytes
           /\ Len(Fed.data) + Fed.bytes_left = PartSize
           /\ Len(Fed.data) = Len(packet_buffer.data) + Pushed
           /\ Fed.data = SubSeq(stream, DataStart + 1, Consumed + Pushed)
<1> DEFINE pushed == SubSeq(Rest, 1, Pushed)
<1>1. /\ stream \in Seq(Byte) /\ Len(stream) \in Nat
      /\ received \in 0 .. Len(stream)
      /\ Consumed \in 0 .. received
      /\ received - Consumed = bytes_transferred - offset
      /\ packet_buffer \in PacketBufferRecord
  BY LenProperties DEF BufferInv, TypeOK, Consumed, LoopRuns
<1>2. Rest \in Seq(Byte) /\ Len(Rest) = received - Consumed
  BY <1>1, Slice DEF Rest
<1>3. Pushed \in 0 .. received - Consumed /\ Pushed <= packet_buffer.bytes_left
  BY <1>1, <1>2, FeedSizeBounds, received - Consumed \in Nat DEF Pushed
<1>4. packet_buffer.data \in Seq(Byte) /\ Len(packet_buffer.data) \in Nat
  BY <1>1, LenProperties DEF PacketBufferRecord
<1>5. /\ Fed = [packet_buffer EXCEPT !.bytes_left = @ - Pushed, !.data = @ \o pushed]
      /\ Fed.data = packet_buffer.data \o pushed
      /\ Fed.bytes_left = packet_buffer.bytes_left - Pushed
      /\ Fed.state = packet_buffer.state
      /\ Fed.total_bytes = packet_buffer.total_bytes
  BY <1>1 DEF Fed, Feed, Pushed, PacketBufferRecord
<1>6. pushed = SubSeq(stream, Consumed + 1, Consumed + Pushed)
  <2>1. CASE Pushed = 0
    BY <1>1, <2>1, SubSeqEmpty, Consumed + 1 \in Int, 1 \in Int, 0 \in Int
  <2>2. CASE Pushed # 0
    <3>1. /\ Consumed + 1 \in 1 .. Len(stream)
          /\ received \in 1 .. Len(stream)
          /\ 1 \in 1 .. received - (Consumed + 1) + 1
          /\ Pushed \in 1 .. received - (Consumed + 1) + 1
      BY <1>1, <1>3, <2>2
    <3>2. SubSeq(Rest, 1, Pushed)
            = SubSeq(stream, (Consumed + 1) + 1 - 1, (Consumed + 1) + Pushed - 1)
      BY <1>1, <3>1, SubSeqOfSubSeq DEF Rest
    <3>3. (Consumed + 1) + 1 - 1 = Consumed + 1 /\ (Consumed + 1) + Pushed - 1 = Consumed + Pushed
      BY <1>1, <3>1
    <3>4. QED
      BY <3>2, <3>3
  <2>3. QED
    BY <2>1, <2>2
<1> HIDE DEF pushed
<1>7. pushed \in Seq(Byte) /\ Len(pushed) = Pushed
  <2>1. Consumed \in 0 .. Len(stream) /\ Consumed + Pushed \in Consumed .. Len(stream)
    BY <1>1, <1>3
  <2>2. QED
    BY <1>1, <1>3, <1>6, <2>1, Slice
<1>8. Fed.data \in Seq(Byte) /\ Len(Fed.data) = Len(packet_buffer.data) + Pushed
  BY <1>4, <1>5, <1>7, ConcatProperties
<1>9. Fed.bytes_left \in Nat
  BY <1>1, <1>3, <1>5 DEF PacketBufferRecord
<1>10. Fed \in PacketBufferRecord
  BY <1>1, <1>4, <1>5, <1>8, <1>9 DEF PacketBufferRecord
<1>11. Len(Fed.data) + Fed.bytes_left = PartSize
  BY <1>1, <1>3, <1>4, <1>5, <1>8
     DEF BufferInv, BufferMirrorsStream, CountersAgree, PacketBufferRecord
<1>12. Fed.data = SubSeq(stream, DataStart + 1, Consumed + Pushed)
  <2>1. DataStart \in Nat /\ DataStart <= Consumed
    <3>1. DataStart >= 0
      BY DEF BufferInv, BufferMirrorsStream, DataIsStream
    <3>2. QED
      BY <1>1, <1>4, <3>1 DEF DataStart
  <2>2. SubSeq(stream, DataStart + 1, Consumed) \o SubSeq(stream, Consumed + 1, Consumed + Pushed)
          = SubSeq(stream, DataStart + 1, Consumed + Pushed)
    <3>1. Consumed \in DataStart .. Len(stream) /\ Consumed + Pushed \in Consumed .. Len(stream)
      BY <1>1, <1>3, <2>1
    <3>2. QED
      BY <1>1, <2>1, <3>1, AdjacentSlices
  <2>3. packet_buffer.data = SubSeq(stream, DataStart + 1, Consumed)
    BY DEF BufferInv, BufferMirrorsStream, DataIsStream
  <2>4. QED
    BY <1>5, <1>6, <2>2, <2>3
<1>13. Consumed + Pushed \in 0 .. received /\ Pushed \in 0 .. bytes_transferred - offset
  BY <1>1, <1>3
<1>14. Consumed \in Nat
  BY <1>1
<1>15. QED
  BY <1>5, <1>8, <1>10, <1>11, <1>12, <1>13, <1>14

\* A part that is complete ends where the loop is in the stream; the packet it
\* makes is the payload of the frame that started at FrameStart.
LEMMA CompletePart ==
    ASSUME BufferInv, LoopRuns, Fed.bytes_left = 0
    PROVE  /\ Len(Fed.data) = PartSize
           /\ DataStart \in Nat
           /\ Consumed + Pushed = DataStart + PartSize
<1>1. DataStart >= 0
  BY DEF BufferInv, BufferMirrorsStream, DataIsStream
<1>2. Len(packet_buffer.data) \in Nat /\ Len(Fed.data) \in Nat
  BY FedIsStream, LenProperties DEF BufferInv, TypeOK, PacketBufferRecord
<1>3. Consumed \in Nat /\ Pushed \in Nat
  <2>1. bytes_transferred - offset \in Nat
    BY DEF LoopRuns, BufferInv, TypeOK
  <2>2. QED
    BY FedIsStream, <2>1
<1>4. QED
  BY <1>1, <1>2, <1>3, FedIsStream DEF DataStart

\* ntoh of the header is the length the framing reads from the stream.
LEMMA FramingHeader ==
    ASSUME stream \in Seq(Byte), NEW p \in Nat, p + SIZE_HEADER_SIZE <= Len(stream)
    PROVE  Framing!FrameLength(p) = Ntoh(SubSeq(stream, p + 1, p + SIZE_HEADER_SIZE))
<1> DEFINE h == SubSeq(stream, p + 1, p + SIZE_HEADER_SIZE)
           a == stream[p + 1]
           b == stream[p + 2]
           c == stream[p + 3]
           d == stream[p + 4]
<1>1. Len(stream) \in Nat /\ SIZE_HEADER_SIZE = 4
  BY LenProperties DEF SIZE_HEADER_SIZE
<1>2. \A i \in p + 1 .. p + 4 : stream[i] \in Byte
  BY <1>1, ElementOfSeq
<1>3. \A i \in 1 .. 4 : h[i] = stream[p + i]
  <2>1. \A i \in 1 .. (p + 4) - (p + 1) + 1 : h[i] = stream[(p + 1) + i - 1]
    BY <1>1, <1>2, SubSeqProperties, p + 1 \in Int, p + 4 \in Int
  <2>2. (p + 4) - (p + 1) + 1 = 4
    OBVIOUS
  <2>3. \A i \in 1 .. 4 : (p + 1) + i - 1 = p + i
    OBVIOUS
  <2>4. QED
    BY <2>1, <2>2, <2>3
<1>4. h[1] = a /\ h[2] = b /\ h[3] = c /\ h[4] = d
  BY <1>3, 1 \in 1 .. 4, 2 \in 1 .. 4, 3 \in 1 .. 4, 4 \in 1 .. 4
<1>5. a \in Byte /\ b \in Byte /\ c \in Byte /\ d \in Byte
  BY <1>2
<1>6. /\ Framing!FrameLength(p) = a * 256 * 256 * 256 + b * 256 * 256 + c * 256 + d
      /\ Ntoh(h) = ((a * 256 + b) * 256 + c) * 256 + d
  BY <1>4 DEF Framing!FrameLength, Ntoh
<1> HIDE DEF a, b, c, d
<1>7. a * 256 * 256 * 256 + b * 256 * 256 + c * 256 + d = ((a * 256 + b) * 256 + c) * 256 + d
  BY <1>5 DEF Byte
<1>8. QED
  BY <1>6, <1>7

\* When commit() hands a packet over, the frame that starts at FrameStart is complete
\* in the stream, its payload is the packet, and it ends where the loop is.
LEMMA PacketIsFrame ==
    ASSUME BufferInv, LoopRuns, PacketComplete(Fed)
    PROVE  /\ Framing!FrameComplete(FrameStart)
           /\ Payload(Fed) = Framing!FramePayload(FrameStart)
           /\ Payload(Fed) \in Seq(Byte)
           /\ FrameStart \in Nat
           /\ Consumed + Pushed = FrameStart + SIZE_HEADER_SIZE + Framing!FrameLength(FrameStart)
<1>1. Fed.bytes_left = 0 /\ packet_buffer.state = AwaitPayload
  BY FedIsStream DEF PacketComplete
<1>2. AwaitPayload # AwaitHeader
  BY DEF AwaitPayload, AwaitHeader
<1>3. /\ FrameStart = DataStart - SIZE_HEADER_SIZE
      /\ PartSize = packet_buffer.total_bytes
  BY <1>1, <1>2 DEF FrameStart, PartSize
<1>4. /\ DataStart \in Nat /\ SIZE_HEADER_SIZE \in Nat
      /\ FrameStart \in Nat
      /\ DataStart = FrameStart + SIZE_HEADER_SIZE
  BY <1>1, <1>3, CompletePart
     DEF BufferInv, BufferMirrorsStream, AnnouncedSize, SIZE_HEADER_SIZE
<1>5. Framing!FrameLength(FrameStart) = packet_buffer.total_bytes
  <2>1. packet_buffer.total_bytes
          = Ntoh(SubSeq(stream, DataStart - SIZE_HEADER_SIZE + 1, DataStart))
    BY <1>1 DEF BufferInv, BufferMirrorsStream, AnnouncedSize
  <2>2. stream \in Seq(Byte) /\ FrameStart + SIZE_HEADER_SIZE <= Len(stream)
    <3>1. DataStart <= Consumed + Pushed /\ Consumed + Pushed <= Len(stream)
      <4>1. packet_buffer.total_bytes \in Nat /\ Len(stream) \in Nat /\ stream \in Seq(Byte)
        BY LenProperties DEF BufferInv, TypeOK, PacketBufferRecord
      <4>2. Consumed + Pushed \in 0 .. received /\ received \in 0 .. Len(stream)
        BY FedIsStream DEF BufferInv, TypeOK
      <4>3. QED
        BY <1>1, <1>3, <1>4, <4>1, <4>2, CompletePart
    <3>2. QED
      BY <1>4, <3>1, FedIsStream, LenProperties DEF BufferInv, TypeOK
  <2>3. QED
    BY <1>3, <1>4, <2>1, <2>2, FramingHeader
<1>6. packet_buffer.total_bytes \in Nat
  BY DEF BufferInv, TypeOK, PacketBufferRecord
<1>7. Consumed + Pushed = DataStart + packet_buffer.total_bytes
  BY <1>1, <1>3, CompletePart
<1>8. Framing!FrameComplete(FrameStart)
  <2>1. Consumed + Pushed <= Len(stream) /\ Len(stream) \in Nat
    BY FedIsStream, LenProperties DEF BufferInv, TypeOK
  <2>2. QED
    BY <1>4, <1>5, <1>6, <1>7, <2>1
       DEF Framing!FrameComplete, Framing!HeaderSize, SIZE_HEADER_SIZE
<1>9. Payload(Fed) = Fed.data /\ Fed.data \in Seq(Byte)
  <2>1. Fed.data \in Seq(Byte) /\ Len(Fed.data) = Fed.total_bytes
    BY <1>1, <1>3, CompletePart, FedIsStream DEF PacketBufferRecord
  <2>2. QED
    BY <2>1, WholeSlice DEF Payload
<1>10. Fed.data = Framing!FramePayload(FrameStart)
  <2>1. FrameStart + SIZE_HEADER_SIZE + packet_buffer.total_bytes = Consumed + Pushed
    BY <1>4, <1>6, <1>7
  <2>2. QED
    BY <1>4, <1>5, <2>1, FedIsStream
       DEF Framing!FramePayload, Framing!HeaderSize, SIZE_HEADER_SIZE
<1>11. Consumed + Pushed = FrameStart + SIZE_HEADER_SIZE + Framing!FrameLength(FrameStart)
  BY <1>4, <1>5, <1>6, <1>7
<1>12. QED
  BY <1>4, <1>8, <1>9, <1>10, <1>11

--------------------------------------------------------------------------------
(* The invariant. *)

\* A new session's buffer mirrors the stream nothing was read of.
LEMMA InitBufferInv == Init => BufferInv
<1> SUFFICES ASSUME Init PROVE BufferInv
  OBVIOUS
<1>1. stream \in Seq(Byte) /\ Len(stream) \in Nat
  BY StreamsAssumption, LenProperties DEF Init
<1>2. << >> \in Seq(Byte) /\ << >> \in Seq(Seq(Byte)) /\ Len(<< >>) = 0
  BY EmptySeq
<1>3. NewPacketBuffer \in PacketBufferRecord
  BY <1>2 DEF NewPacketBuffer, PacketBufferRecord, SIZE_HEADER_SIZE
<1>4. TypeOK
  BY <1>1, <1>2, <1>3 DEF Init, TypeOK
<1>5. packet_buffer.state = AwaitHeader /\ packet_buffer.data = << >>
      /\ packet_buffer.bytes_left = SIZE_HEADER_SIZE
  BY DEF Init, NewPacketBuffer
<1>6. DataStart = 0 /\ Consumed = 0
  <2>1. Consumed = 0
    BY DEF Init, Consumed
  <2>2. Len(packet_buffer.data) = 0
    BY <1>2, <1>5
  <2>3. QED
    BY <2>1, <2>2 DEF DataStart
<1>7. CountersAgree
  BY <1>2, <1>5 DEF CountersAgree, PartSize, SIZE_HEADER_SIZE
<1>8. DataIsStream
  BY <1>5, <1>6, SubSeqEmpty DEF DataIsStream
<1>9. AnnouncedSize
  BY <1>5 DEF AnnouncedSize, AwaitHeader, AwaitPayload
<1>10. QED
  BY <1>4, <1>7, <1>8, <1>9 DEF BufferInv, BufferMirrorsStream

\* A read moves no byte into the buffer.
LEMMA ReadStep ==
    ASSUME BufferInv, NEW n \in 1 .. ReadLimit, Read(n)
    PROVE  BufferInv' /\ FrameStart' = FrameStart
<1>1. received \in Nat /\ n \in Nat /\ bytes_transferred = offset
  BY ReadLimitAssumption, LenProperties DEF BufferInv, TypeOK, Read, LoopRuns
<1>2. Consumed' = Consumed
  BY <1>1 DEF Read, Consumed, BufferInv, TypeOK
<1>3. TypeOK'
  BY <1>1, LenProperties DEF BufferInv, TypeOK, Read
<1>4. UNCHANGED <<stream, packet_buffer, Consumed>>
  BY <1>2 DEF Read
<1>5. UNCHANGED <<DataStart, PartSize>>
  BY <1>4 DEF DataStart, PartSize
<1>6. BufferMirrorsStream'
  BY <1>4, <1>5
     DEF BufferInv, BufferMirrorsStream, CountersAgree, DataIsStream, AnnouncedSize
<1>7. QED
  BY <1>3, <1>4, <1>5, <1>6 DEF BufferInv, FrameStart

\* What every iteration of the loop does to the position in the stream.
LEMMA IterationStep ==
    ASSUME BufferInv, Iteration
    PROVE  /\ LoopRuns
           /\ Consumed' = Consumed + Pushed
           /\ offset' \in 0 .. bytes_transferred'
           /\ stream' \in Seq(Byte)
           /\ received' \in 0 .. Len(stream')
           /\ bytes_transferred' \in 0 .. received'
<1>1. LoopRuns
  BY DEF Iteration
<1>2. Pushed \in 0 .. bytes_transferred - offset
  BY <1>1, FedIsStream
<1>3. QED
  BY <1>1, <1>2, LenProperties DEF BufferInv, TypeOK, Iteration, Consumed, LoopRuns

\* The part is not complete, or from_raw threw: what was fed stays in the buffer.
LEMMA BufferFedStep ==
    ASSUME BufferInv, Iteration, packet_buffer' = Fed, packets' = packets,
           alive' \in BOOLEAN
    PROVE  BufferInv' /\ FrameStart' = FrameStart
<1>1. /\ LoopRuns
      /\ Consumed' = Consumed + Pushed
      /\ stream' = stream
  BY IterationStep DEF Iteration
<1>2. TypeOK'
  BY <1>1, IterationStep, FedIsStream DEF BufferInv, TypeOK
<1>3. /\ packet_buffer.data \in Seq(Byte) /\ Len(packet_buffer.data) \in Nat
      /\ Consumed \in Nat /\ Pushed \in Nat
  <2>1. bytes_transferred - offset \in Nat
    BY <1>1 DEF LoopRuns, BufferInv, TypeOK
  <2>2. QED
    BY <1>1, <2>1, FedIsStream, LenProperties DEF BufferInv, TypeOK, PacketBufferRecord
<1>4. DataStart' = DataStart /\ PartSize' = PartSize
  <2>1. PartSize' = PartSize
    BY <1>1, FedIsStream DEF PartSize
  <2>2. Len(packet_buffer'.data) = Len(packet_buffer.data) + Pushed
    BY <1>1, FedIsStream
  <2>3. DataStart' = (Consumed + Pushed) - (Len(packet_buffer.data) + Pushed)
    BY <1>1, <2>2 DEF DataStart
  <2>4. DataStart' = Consumed - Len(packet_buffer.data)
    BY <1>3, <2>3
  <2>5. QED
    BY <2>1, <2>4 DEF DataStart
<1>5. CountersAgree'
  BY <1>1, <1>4, FedIsStream DEF CountersAgree
<1>6. DataIsStream'
  BY <1>1, <1>4, FedIsStream DEF DataIsStream, BufferInv, BufferMirrorsStream
<1>7. AnnouncedSize'
  BY <1>1, <1>4, FedIsStream DEF AnnouncedSize, BufferInv, BufferMirrorsStream
<1>8. QED
  BY <1>1, <1>2, <1>4, <1>5, <1>6, <1>7, FedIsStream
     DEF BufferInv, BufferMirrorsStream, FrameStart

\* An empty buffer trivially mirrors the stream.
LEMMA EmptyBufferStep ==
    ASSUME BufferInv, Iteration, packet_buffer'.data = << >>
    PROVE  DataStart' = Consumed + Pushed /\ DataIsStream'
<1>1. Consumed' = Consumed + Pushed /\ Consumed + Pushed \in Nat
  BY IterationStep, FedIsStream DEF BufferInv, TypeOK
<1>2. DataStart' = Consumed + Pushed
  BY <1>1, EmptySeq DEF DataStart
<1>3. QED
  BY <1>1, <1>2, SubSeqEmpty, Consumed + Pushed + 1 \in Int,
     Consumed + Pushed < Consumed + Pushed + 1 DEF DataIsStream

\* commit() of a size header starts the payload of the same frame.
LEMMA FinishHeaderStep ==
    ASSUME BufferInv, FinishHeader
    PROVE  BufferInv' /\ FrameStart' = FrameStart
<1>1. /\ LoopRuns /\ Iteration
      /\ Fed.bytes_left = 0 /\ packet_buffer.state = AwaitHeader
      /\ packet_buffer' = CommitHeader(Fed)
      /\ packets' = packets /\ alive' = alive /\ stream' = stream
  BY IterationStep, FedIsStream DEF FinishHeader, HeaderComplete, Iteration
<1>2. /\ Len(Fed.data) = SIZE_HEADER_SIZE
      /\ Fed.data \in Seq(Byte)
      /\ DataStart \in Nat
      /\ Consumed + Pushed = DataStart + SIZE_HEADER_SIZE
  BY <1>1, CompletePart, FedIsStream DEF PartSize, PacketBufferRecord
<1>3. Ntoh(Fed.data) \in Nat
  BY <1>2, NtohNat
<1>4. /\ packet_buffer'.state = AwaitPayload
      /\ packet_buffer'.bytes_left = Ntoh(Fed.data)
      /\ packet_buffer'.total_bytes = Ntoh(Fed.data)
      /\ packet_buffer'.data = << >>
      /\ packet_buffer' \in PacketBufferRecord
  BY <1>1, <1>3, EmptySeq DEF CommitHeader, PacketBufferRecord
<1>5. TypeOK'
  BY <1>1, <1>4, IterationStep DEF BufferInv, TypeOK
<1>6. DataStart' = Consumed + Pushed /\ DataIsStream'
  BY <1>1, <1>4, EmptyBufferStep
<1>7. AwaitPayload # AwaitHeader
  BY DEF AwaitPayload, AwaitHeader
<1>8. CountersAgree'
  BY <1>3, <1>4, <1>7, EmptySeq DEF CountersAgree, PartSize
<1>9. DataStart' - SIZE_HEADER_SIZE = DataStart /\ DataStart' >= SIZE_HEADER_SIZE
  BY <1>2, <1>6 DEF SIZE_HEADER_SIZE
<1>10. AnnouncedSize'
  <2>1. Fed.data = SubSeq(stream', DataStart + 1, DataStart')
    BY <1>1, <1>6, FedIsStream
  <2>2. QED
    BY <1>4, <1>9, <2>1 DEF AnnouncedSize
<1>11. FrameStart' = FrameStart
  BY <1>1, <1>4, <1>7, <1>9 DEF FrameStart
<1>12. QED
  BY <1>5, <1>6, <1>8, <1>10, <1>11 DEF BufferInv, BufferMirrorsStream

\* commit() of a packet starts the size header of the frame behind it.
LEMMA FinishPacketStep ==
    ASSUME BufferInv, FinishPacket
    PROVE  BufferInv' /\ FrameStart' = Consumed + Pushed
<1>1. /\ LoopRuns /\ Iteration
      /\ PacketComplete(Fed) /\ Fed.bytes_left = 0
      /\ packet_buffer' = CommitPacket(Fed)
      /\ packets' = Append(packets, Payload(Fed))
      /\ alive' = alive
  BY IterationStep DEF FinishPacket, PacketComplete
<1>2. /\ packet_buffer'.state = AwaitHeader
      /\ packet_buffer'.bytes_left = SIZE_HEADER_SIZE
      /\ packet_buffer'.data = << >>
      /\ packet_buffer' \in PacketBufferRecord
  BY <1>1, EmptySeq DEF CommitPacket, PacketBufferRecord, SIZE_HEADER_SIZE
<1>3. packets' \in Seq(Seq(Byte))
  <2>1. Payload(Fed) \in Seq(Byte)
    BY <1>1, PacketIsFrame
  <2>2. QED
    BY <1>1, <2>1, AppendProperties DEF BufferInv, TypeOK
<1>4. TypeOK'
  BY <1>1, <1>2, <1>3, IterationStep DEF BufferInv, TypeOK
<1>5. DataStart' = Consumed + Pushed /\ DataIsStream'
  BY <1>1, <1>2, EmptyBufferStep
<1>6. CountersAgree'
  BY <1>2, EmptySeq DEF CountersAgree, PartSize, SIZE_HEADER_SIZE
<1>7. AnnouncedSize'
  BY <1>2 DEF AnnouncedSize, AwaitPayload, AwaitHeader
<1>8. FrameStart' = Consumed + Pushed
  BY <1>2, <1>5 DEF FrameStart
<1>9. QED
  BY <1>4, <1>5, <1>6, <1>7, <1>8 DEF BufferInv, BufferMirrorsStream

\* Every read and every iteration of the loop keeps the invariant.
LEMMA NextBufferInv == BufferInv /\ [Next]_vars => BufferInv'
<1> SUFFICES ASSUME BufferInv, [Next]_vars PROVE BufferInv'
  OBVIOUS
<1>1. ASSUME NEW n \in 1 .. ReadLimit, Read(n) PROVE BufferInv'
  BY <1>1, ReadStep
<1>2. CASE KeepWaiting
  BY <1>2, BufferFedStep DEF KeepWaiting, BufferInv, TypeOK
<1>3. CASE FinishHeader
  BY <1>3, FinishHeaderStep
<1>4. CASE FinishPacket
  BY <1>4, FinishPacketStep
<1>5. CASE ThrowFromRaw
  BY <1>5, BufferFedStep DEF ThrowFromRaw
<1>6. CASE UNCHANGED vars
  BY <1>6 DEF vars, BufferInv, BufferMirrorsStream, TypeOK, CountersAgree, PartSize,
              DataIsStream, AnnouncedSize, DataStart, Consumed
<1>7. QED
  BY <1>1, <1>2, <1>3, <1>4, <1>5, <1>6 DEF Next, LoopStep

\* The inductive invariant: the types, and the buffer mirroring the stream.
THEOREM BufferInvariant == Spec => []BufferInv
<1>1. QED
  BY InitBufferInv, NextBufferInv, PTL DEF Spec

\* Type correctness (the state of JsonNetSession.h:85-95 and of the loop around it).
THEOREM TypeCorrect == Spec => []TypeOK
<1>1. BufferInv => TypeOK
  BY DEF BufferInv
<1>2. QED
  BY <1>1, BufferInvariant, PTL

\* However the stream is cut into reads, packet_buffer_ holds the bytes of the
\* stream that belong to the part being read, and no others.
THEOREM MirrorsStream == Spec => []BufferMirrorsStream
<1>1. BufferInv => BufferMirrorsStream
  BY DEF BufferInv
<1>2. QED
  BY <1>1, BufferInvariant, PTL

--------------------------------------------------------------------------------
(* The refinement. *)

\* A new session is at the start of the stream's first frame.
LEMMA InitRefines == Init => Framing!Init
<1> SUFFICES ASSUME Init PROVE Framing!Init
  OBVIOUS
<1>1. packet_buffer.state = AwaitHeader /\ Len(packet_buffer.data) = 0
  BY EmptySeq DEF Init, NewPacketBuffer
<1>2. Consumed = 0
  BY DEF Init, Consumed
<1>3. FrameStart = 0
  BY <1>1, <1>2 DEF FrameStart, DataStart
<1>4. QED
  BY <1>3 DEF Init, Framing!Init

\* A step of the loop delivers the next frame, rejects it, or only moves data about.
LEMMA NextRefines == BufferInv /\ [Next]_vars => [Framing!Next]_(Framing!vars)
<1> SUFFICES ASSUME BufferInv, [Next]_vars
             PROVE  [Framing!Next]_(Framing!vars)
  OBVIOUS
<1>1. ASSUME NEW n \in 1 .. ReadLimit, Read(n) PROVE UNCHANGED Framing!vars
  BY <1>1, ReadStep DEF Read, Framing!vars
<1>2. CASE KeepWaiting
  BY <1>2, BufferFedStep DEF KeepWaiting, Iteration, Framing!vars, BufferInv, TypeOK
<1>3. CASE FinishHeader
  BY <1>3, FinishHeaderStep DEF FinishHeader, Iteration, Framing!vars
<1>4. CASE FinishPacket
  <2>1. LoopRuns /\ PacketComplete(Fed) /\ FrameStart' = Consumed + Pushed
    BY <1>4, FinishPacketStep, IterationStep DEF FinishPacket
  <2>2. Framing!Deliver
    BY <1>4, <2>1, PacketIsFrame
       DEF FinishPacket, Iteration, Framing!Deliver, Framing!HeaderSize, SIZE_HEADER_SIZE
  <2>3. QED
    BY <2>2 DEF Framing!Next
<1>5. CASE ThrowFromRaw
  <2>1. LoopRuns /\ PacketComplete(Fed)
    BY <1>5, IterationStep DEF ThrowFromRaw
  <2>2. FrameStart' = FrameStart
    BY <1>5, BufferFedStep DEF ThrowFromRaw
  <2>3. Framing!Reject
    BY <1>5, <2>1, <2>2, PacketIsFrame DEF ThrowFromRaw, Iteration, Framing!Reject
  <2>4. QED
    BY <2>3 DEF Framing!Next
<1>6. CASE UNCHANGED vars
  BY <1>6 DEF vars, Framing!vars, FrameStart, DataStart, Consumed
<1>7. QED
  BY <1>1, <1>2, <1>3, <1>4, <1>5, <1>6 DEF Next, LoopStep

\* The loop of JsonNetSession::handle_read_packet implements the framing of the
\* whole stream: it hands over the payloads the size headers delimit, in order and
\* once each, for every way the network can split the stream.
THEOREM RefinesFraming == Spec => ImplementsFraming
<1>1. QED
  BY BufferInvariant, InitRefines, NextRefines, PTL
  DEF Spec, ImplementsFraming, Framing!Spec

================================================================================

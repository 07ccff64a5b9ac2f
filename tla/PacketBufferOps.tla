---------------------------- MODULE PacketBufferOps ----------------------------
(****************************************************************************)
(* The pure part of JsonNetSession::PacketBufferType, the reassembly buffer *)
(* every session owns: feed() moves bytes of a read into the buffer,        *)
(* commit() closes the size header or the packet once all of it is there.   *)
(* A buffer is a record with the fields of the C++ struct.  The wire format *)
(* is a 4-byte big-endian length followed by that many payload bytes.       *)
(****************************************************************************)
EXTENDS Integers, Sequences

Byte == 0 .. 255

SIZE_HEADER_SIZE == 4

\* enum class State
AwaitHeader  == "AWAIT_MORE_SIZE_HEADER_DATA"
AwaitPayload == "AWAIT_MORE_DATA"

PacketBufferRecord ==
    [state : {AwaitHeader, AwaitPayload}, bytes_left : Nat,
     total_bytes : Nat, data : Seq(Byte)]

\* The member initialisers of the struct.
NewPacketBuffer ==
    [state |-> AwaitHeader, bytes_left |-> SIZE_HEADER_SIZE,
     total_bytes |-> 0, data |-> << >>]

\* Mutant: the header is used as it came, on a little-endian machine.
NtohSwapped(h) == ((h[4] * 256 + h[3]) * 256 + h[2]) * 256 + h[1]

\* memcpy of the four header bytes and ntoh: the most significant comes first.
Ntoh(h) == ((h[1] * 256 + h[2]) * 256 + h[3]) * 256 + h[4]

--------------------------------------------------------------------------------

\* What one feed() takes of the bytes that are left of the read.
FeedSize(pb, available) ==
    IF pb.bytes_left < available THEN pb.bytes_left ELSE available

Feed(pb, source) ==
    LET pushed == FeedSize(pb, Len(source))
    IN  [pb EXCEPT !.bytes_left = @ - pushed,
                   !.data = @ \o SubSeq(source, 1, pushed)]

\* The two cases of commit() that do something, both with bytes_left = 0.
HeaderComplete(pb) == pb.bytes_left = 0 /\ pb.state = AwaitHeader
PacketComplete(pb) == pb.bytes_left = 0 /\ pb.state = AwaitPayload

\* Mutant: data.clear() is forgotten.
CommitHeaderNoClear(pb) ==
    [state |-> AwaitPayload, bytes_left |-> Ntoh(pb.data),
     total_bytes |-> Ntoh(pb.data), data |-> pb.data]

\* Mutant: the size is taken to count its own header.
CommitHeaderInclusive(pb) ==
    [state |-> AwaitPayload, bytes_left |-> Ntoh(pb.data) - SIZE_HEADER_SIZE,
     total_bytes |-> Ntoh(pb.data), data |-> << >>]

CommitHeader(pb) ==
    [state |-> AwaitPayload, bytes_left |-> Ntoh(pb.data),
     total_bytes |-> Ntoh(pb.data), data |-> << >>]

\* from_raw reads total_bytes bytes from the start of data.
Payload(pb) == SubSeq(pb.data, 1, pb.total_bytes)

\* Mutant: the state is not set back.
CommitPacketStays(pb) ==
    [state |-> AwaitPayload, bytes_left |-> SIZE_HEADER_SIZE,
     total_bytes |-> SIZE_HEADER_SIZE, data |-> << >>]

CommitPacket(pb) ==
    [state |-> AwaitHeader, bytes_left |-> SIZE_HEADER_SIZE,
     total_bytes |-> SIZE_HEADER_SIZE, data |-> << >>]

================================================================================

----------------------------- MODULE PacketFraming -----------------------------
(****************************************************************************)
(* What the reassembly buffer promises, without reads, chunks or partial    *)
(* data: the byte stream of a peer is cut at the frame boundaries its size  *)
(* headers announce, and the payloads are handed over one by one, whole, in *)
(* order and exactly once, until one of them is not a packet.  Nothing here *)
(* depends on how the stream was split into reads.                          *)
(****************************************************************************)
EXTENDS Integers, Sequences

CONSTANTS Streams,      \* the byte streams a peer may send
          Undecodable   \* the payloads PacketClass_::from_raw throws on

VARIABLES stream,       \* the bytes of the peer, from the first to the last
          pos,          \* how many of them belong to frames already handled
          packets,      \* the payloads handed over so far
          alive         \* no payload was rejected yet

vars == <<stream, pos, packets, alive>>

Init == /\ stream \in Streams
        /\ pos = 0
        /\ packets = << >>
        /\ alive = TRUE

\* A frame is a big-endian 32-bit length and as many bytes of payload.
HeaderSize == 4

FrameLength(p) == stream[p + 1] * 256 * 256 * 256
                 + stream[p + 2] * 256 * 256
                 + stream[p + 3] * 256
                 + stream[p + 4]

FramePayload(p) == SubSeq(stream, p + HeaderSize + 1, p + HeaderSize + FrameLength(p))

\* The frame that starts after the first p bytes is there to its last byte.
FrameComplete(p) ==
    /\ p + HeaderSize <= Len(stream)
    /\ p + HeaderSize + FrameLength(p) <= Len(stream)

Deliver ==
    /\ alive
    /\ FrameComplete(pos)
    /\ FramePayload(pos) \notin Undecodable
    /\ packets' = Append(packets, FramePayload(pos))
    /\ pos' = pos + HeaderSize + FrameLength(pos)
    /\ UNCHANGED <<stream, alive>>

Reject ==
    /\ alive
    /\ FrameComplete(pos)
    /\ FramePayload(pos) \in Undecodable
    /\ alive' = FALSE
    /\ UNCHANGED <<stream, pos, packets>>

Next == Deliver \/ Reject

Spec == Init /\ [][Next]_vars

================================================================================

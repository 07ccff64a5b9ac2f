----------------------------- MODULE MCPacketBuffer -----------------------------
(* Small streams for PacketBuffer: several frames in one stream, frames cut   *)
(* short by the end of the stream, empty frames in the middle and at the end, *)
(* a frame longer than a read, and payloads that are not packets.             *)
EXTENDS PacketBuffer

Frame(p) == <<0, 0, 0, Len(p)>> \o p

MCUndecodable == { << >>, <<255>> }

MCStreams ==
    { Frame(<<1>>) \o Frame(<<2, 3>>) \o Frame(<<4>>),
      Frame(<<1, 2, 3, 4, 5, 6, 7>>) \o Frame(<<0, 0, 0, 1>>),
      Frame(<<1, 2>>) \o <<0, 0>>,
      Frame(<<1, 2>>) \o <<0, 0, 0, 5, 8>>,
      Frame(<<1>>) \o <<0, 0, 1, 0>> \o <<0, 0, 0, 1, 9>>,
      Frame(<<1>>) \o Frame(<< >>),
      Frame(<<1>>) \o Frame(<< >>) \o Frame(<<2>>),
      Frame(<<1>>) \o Frame(<<255>>) \o Frame(<<2>>) }

================================================================================

------------------------------ MODULE HammingCoder ------------------------------
(****************************************************************************)
(* HammingCoder<7, 4> between two requests of a client: encode() turns the  *)
(* bytes of a message into a base64 text of one byte per four bits, the     *)
(* client takes the text apart, damages it, and puts it together again, and *)
(* decode() has to give back the message and the number of the errors.      *)
(* The client has a base64 of its own.                                      *)
(****************************************************************************)
EXTENDS HammingBlock, Base64

CONSTANTS Messages,    \* the messages clients encode
          MaxErrors    \* bound: how many blocks of a message are damaged

ASSUME MessagesAssumption == Messages \subseteq Seq(Byte)
ASSUME MaxErrorsAssumption == MaxErrors \in Nat

VARIABLES data,           \* the message
          phase,          \* how far it got
          text,           \* msg->input, of the last reply or of the next request
          errors,         \* the bits the client turned, as <<block, position>>
          result,         \* what decode() gave back
          decode_errors,  \* last_single_errors
          overrun         \* encode() or decode() wrote past its result

vars == <<data, phase, text, errors, result, decode_errors, overrun>>

Init == /\ data \in Messages
        /\ phase = "new"
        /\ text = << >>
        /\ errors = {}
        /\ result = << >>
        /\ decode_errors = 0
        /\ overrun = FALSE

--------------------------------------------------------------------------------
(* Bits and bytes. *)

\* getBit(), with bits counted from 0.
GetBit(byte, bit) == (byte \div 2^bit) % 2 = 1

\* The byte with these bits set.
ByteOf(bits) ==
    LET Weight(i) == IF i \in bits THEN 2^i ELSE 0
    IN  Weight(0) + Weight(1) + Weight(2) + Weight(3)
          + Weight(4) + Weight(5) + Weight(6) + Weight(7)

BlockOf(byte)    == [i \in 1 .. CHBits |-> GetBit(byte, i - 1)]
BlockByte(block) == ByteOf({i \in 0 .. CHBits - 1 : block[i + 1]})

--------------------------------------------------------------------------------
(* The server. *)

encoded_size(n) == (n * CHBits) \div InfoBits
decoded_size(n) == (n * InfoBits) \div CHBits

\* encode() fills blocks with the bits of the input, the lowest of each byte first.
InfoOf(bytes, b) ==
    [k \in 1 .. InfoBits |->
        LET n == InfoBits * (b - 1) + k - 1
        IN  GetBit(bytes[(n \div CHBits) + 1], n % CHBits)]

Encoded(bytes, stale) ==
    [b \in 1 .. encoded_size(Len(bytes)) |-> BlockByte(EncodeBlock(InfoOf(bytes, b), stale))]

\* append_data() runs for the last block whether or not there was one.
BlocksWritten(n) == IF n = 0 THEN 1 ELSE encoded_size(n)

\* processInput: the array of the block is not initialised, and its last bit is never
\* set, so every block has the same one.
ProcessInput ==
    /\ phase = "new"
    /\ phase' = "encoded"
    /\ \E stale \in {BlockOf(0), BlockOf(255)} :
          text' = base64_encode(Encoded(data, stale))
    /\ overrun' = (BlocksWritten(Len(data)) > encoded_size(Len(data)))
    /\ UNCHANGED <<data, errors, result, decode_errors>>

Blocks(bytes) == [b \in DOMAIN bytes |-> BlockOf(bytes[b])]

\* decode() puts the information bits one after the other into the result.
Decoded(blocks) ==
    [i \in 1 .. decoded_size(Len(blocks)) |->
        ByteOf({bit \in 0 .. CHBits - 1 :
            LET n == CHBits * (i - 1) + bit
            IN  DecodeBlock(blocks[(n \div InfoBits) + 1])[(n % InfoBits) + 1]})]

SingleErrors(blocks) == Cardinality({b \in DOMAIN blocks : ErrIndex(blocks[b]) # 0})

\* Mutant: the whole of a block is put into the result.
BitsOfBlocks(n) == n * CHBits

BitsWritten(n) == n * InfoBits

\* processOutput
ProcessOutput ==
    /\ phase \in {"encoded", "truncated"}
    /\ phase' = "decoded"
    /\ LET blocks == Blocks(base64_decode(text))
       IN  /\ result' = Decoded(blocks)
           /\ decode_errors' = SingleErrors(blocks)
           /\ overrun' = (BitsWritten(Len(blocks)) > CHBits * decoded_size(Len(blocks)))
    /\ UNCHANGED <<data, text, errors>>

--------------------------------------------------------------------------------
(* The client, with the base64 of RFC 4648: a text is its bits, the highest first, *)
(* six to a character.                                                             *)

\* Up to the padding.
Characters(t) ==
    SubSeq(t, 1, Min({Len(t) + 1} \union {c \in DOMAIN t : t[c] = Pad}) - 1)

TextBit(t, n) == GetBit(Characters(t)[(n \div 6) + 1], 5 - (n % 6))

ClientDecode(t) ==
    [i \in 1 .. (6 * Len(Characters(t))) \div 8 |->
        ByteOf({bit \in 0 .. 7 : TextBit(t, 8 * (i - 1) + 7 - bit)})]

BytesBit(bytes, n) == n < 8 * Len(bytes) /\ GetBit(bytes[(n \div 8) + 1], 7 - (n % 8))

ClientEncode(bytes) ==
    LET full == (8 * Len(bytes) + 5) \div 6
    IN  [c \in 1 .. 4 * ((Len(bytes) + 2) \div 3) |->
            IF c <= full
            THEN ByteOf({bit \in 0 .. 5 : BytesBit(bytes, 6 * (c - 1) + 5 - bit)})
            ELSE Pad]

TurnBit(byte, i) == BlockByte([BlockOf(byte) EXCEPT ![i] = ~@])

\* One bit of a block that is whole yet.
Damage(b, i) ==
    /\ phase = "encoded"
    /\ b \in DOMAIN ClientDecode(text)
    /\ \A e \in errors : e[1] # b
    /\ Cardinality(errors) < MaxErrors
    /\ errors' = errors \union {<<b, i>>}
    /\ text' = ClientEncode([ClientDecode(text) EXCEPT ![b] = TurnBit(@, i)])
    /\ UNCHANGED <<data, phase, result, decode_errors, overrun>>

\* The last byte of the text is lost.
Truncate ==
    /\ phase = "encoded"
    /\ ClientDecode(text) # << >>
    /\ LET bytes == ClientDecode(text)
       IN  text' = ClientEncode(SubSeq(bytes, 1, Len(bytes) - 1))
    /\ phase' = "truncated"
    /\ UNCHANGED <<data, errors, result, decode_errors, overrun>>

Next == \/ ProcessInput
        \/ \E b \in DOMAIN text, i \in 1 .. CHBits : Damage(b, i)
        \/ Truncate
        \/ ProcessOutput

Spec == Init /\ [][Next]_vars

--------------------------------------------------------------------------------

TypeOK ==
    /\ data \in Messages
    /\ phase \in {"new", "encoded", "truncated", "decoded"}
    /\ text \in Seq(Char)
    /\ \A e \in errors : e[1] \in 1 .. encoded_size(Len(data)) /\ e[2] \in 1 .. CHBits
    /\ result \in Seq(Byte)
    /\ decode_errors \in 0 .. encoded_size(Len(data))
    /\ overrun \in BOOLEAN

\* One turned bit in each block does not matter, and decode() tells how many blocks
\* it hit; the unused bit counts for nothing, and of a text cut short all bytes come
\* back that it has both blocks of (Hamming.tcc:82-118, test_hamming.py:41-58).
SingleErrorsCorrected ==
    phase = "decoded" =>
        LET n == Len(ClientDecode(text))
        IN  /\ result = SubSeq(data, 1, decoded_size(n))
            /\ decode_errors = Cardinality({e \in errors : e[1] <= n /\ e[2] <= PacketBits})

\* Server and client read the same bytes from every text that goes between them, so
\* neither the padding nor what base64_chars.find gives for the characters missing in
\* the last group (base64.cc:110-121) gets into the bytes.
TextsAgree == base64_decode(text) = ClientDecode(text)

\* encode() and decode() write results of the lengths they announce (Hamming.h:36-40)
\* and stay within them, but for two inputs a client may send: the empty message, for
\* which one block is written, and an odd number of blocks, the last four bits of which
\* go behind the result.
ResultsFit ==
    overrun = \/ phase \in {"encoded", "truncated"} /\ data = << >>
              \/ phase = "decoded" /\ Len(ClientDecode(text)) % 2 = 1

================================================================================

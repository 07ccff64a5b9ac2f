# TLA+ models of the network coders tester

This directory holds a formal model of the server under `src/npct`: TLA+ modules,
the TLC configurations that check them, and proofs, checked by TLAPS: that the packet
reassembly is right for every stream and every way of splitting it; that one buffer is
enough for a session whose peer waits for its replies; that sessions are owned as long as
operations are bound to them; that the first registered coder answers and no result is
lost; that the server as a whole serves each client its own conversation; that
callbacks may come and go in the walk that calls them; that both coders compute what they
stand for, for every message; and what the logger, the command line and the test client
promise.  Every safety property that a passing run checks is proved for every value of the
constants, where the run shows a small instance.

## 1. The system

`example_main.cc` builds one `NetCodersRunner` on port 10000, registers the CRC32
and the Hamming(7,4) coder and runs one `asio::io_service` in one thread. A client
connects, sends a request (a JSON object behind a 4-byte big-endian length) and gets
a JSON object back, without a length. Everything that happens is a handler of that
one thread, so handlers never overlap; clients, the network and the kernel interleave
with them freely. That is the concurrency of the system, and the reason why its hard
behaviour is in the order of events and in the state that survives from one handler
to the next.

| Component | State | Operations | Talks to |
|---|---|---|---|
| `PacketBufferType` (`net/impl/JsonNetSession.{h,tcc}`, `net/utils/utils.h`) | phase, `bytes_left`, `total_bytes`, `data` | `feed`, `commit` | driven by `handle_read_packet`; calls `PacketClass::from_raw` |
| `JsonNetSession` | `socket_`, `data_` (read buffer, and source of the bytes being written), `packet_buffer_` | `start`, `send`, `handle_read`, `handle_read_packet`, `handle_write` | asio; `emitX` and `closeSession` of the receiver |
| `JsonNetReceiver` | `sessions_`, the acceptor, handlers by event | `start`, `start_accept_`, `handle_accept_`, `closeSession`, `onX`, `emitX` | owns the sessions; calls the runner's handler through `MultiHandlerHelper` |
| `CodersRunner`, `NetCodersRunner` | `coder_queue_`, `queue_` of results | `registerCoder`, `commitMessage`, `acquireResult`, `handle_receive_message_` | coders; `send` of the session the message came from |
| `HandlerHelper`, `MultiHandlerHelper` | a set of callbacks for each event | `addCallback`, `removeCallback`, `triggerCallbacks` | receiver, runner, session |
| `CRC32Coder` | none | `algo`, `processInput`, `processOutput` | runner |
| `HammingCoder`, `Hamming<7,4>`, `base64` | none (`last_single_errors`) | `encode`, `decode`, `base64_encode`, `base64_decode` | runner, logger |
| `CommandProcessor`, `CommandLine`, `NetPacketCommandLine` | the options set | `start`, `ProcessToken`, `parseArgs_`, `setMode_`, `setOpt` | nothing: `main` has the call commented out |
| `Log4JLogger`, `GenericLogger` | root and default appender, level | `log`, `setLevel`, `GetRoot` | log4cpp's categories and appenders |
| `utils` (`split`, `to_hex`, `to_bin`, `generate_alnum_str`) | none | pure functions | |
| the test client (`tests/client`) | one connection, the bytes received and their balance of braces | connect, send one request, receive one JSON object, close | the server |

What makes the system hard:

* TCP splits and joins packets as it likes, and the reassembly buffer carries what is
  left from one read to the next.
* One vector, `data_`, is the buffer of the read, the text `handle_read_packet` walks
  over, and the source of the asynchronous write of the reply.
* Pending operations hold the raw pointer of their session, and `closeSession`
  destroys sessions.
* Exceptions leave handlers in several places, and nothing in the thread catches them.
* `commitMessage` has four ways to end and pushes its result before anybody looks at it.
* Connections break, and what a handler then does depends on what the kernel says: it throws,
  destroys the session, or prints and forgets it.
* Callbacks may add and remove callbacks of the event that is calling them.
* Replies are not framed: the test client has to find their end by counting braces.
* Appenders have three kinds of owners, which release them in turn when the process exits.

What makes each component correct, and where it is stated:

| Component | Correct when | Property |
|---|---|---|
| `PacketBufferType` | its bytes and counters mirror the stream at every split | `PacketBuffer!BufferMirrorsStream` |
| | packets come out whole, in order, once; none is left behind | `ImplementsFraming`, `EveryFrameHandled` |
| `JsonNetSession` | what the peer gets is the replies, bit for bit, though reads and writes share `data_` | `RepliesIntact` |
| | no `send` disturbs the read that is being walked over | `ImplementsPacketBuffer` |
| | each request is answered unless its peer leaves first; a closed session goes | `EveryRequestAnswered`, `SessionReleased` |
| `JsonNetReceiver` | a session lives as long as the operations bound to it, and no longer, but for a read error that is only printed | `SessionsOwned`, `WritesOwned` |
| | orderly clients end the process by requests only | `StaysAlive` |
| | only a client that closed or was cut off loses its session; every client is accepted and released | `OnlyClosedReleased`, `EveryConnectionAccepted`, `EverySessionReleased` |
| `CodersRunner` | the first registered coder a message is for answers or refuses it, once | `FirstRegisteredAnswers` |
| | results are neither lost nor doubled by acquisitions in any order | `ResultsPreserved` |
| the server as a whole | each client has a conversation of its own, and only fatal requests end it | `ImplementsService` |
| | every message is answered; the queue holds the results of the replies | `EveryMessageAnswered`, `ResultsOfReplies` |
| `HandlerHelper` | who stays registered through a trigger is called once, whatever callbacks add and remove | `StayedAreCalledOnce`, `EndsComplete` |
| | a removal by address hits the callback it means, and nothing that runs | `RemovalIsOwn` |
| `MultiHandlerHelper` | handlers and triggers of an event agree in their type | `TypesAgree` (proved only) |
| `HammingCoder` | one turned bit for each block is corrected and counted | `SingleErrorsCorrected` |
| | its base64 agrees with that of the client | `TextsAgree` |
| | results hold what is written, but in two cases | `ResultsFit` |
| `CRC32Coder` | the register is the remainder of the polynomial division after every turn | `IsRemainder` |
| | the wrapped counter ends the loop with the text | `ReadsTheText` |
| `Log4JLogger` | a logger's level and its category's priority never part | `LevelFilters` |
| | shared appenders are deleted once | `FreedOnce` |
| `CommandLine` | token by token, it takes a grammar and sets what it names, over what was set before | `ParserFollowsGrammar` |
| the test client | a plain reply is taken whole, and every call ends | `PlainReplyTaken`, `CallEnds` |

The hazards behind these properties are listed, each with its line, under `hazards`
in `PROJECT.json`.

## 2. The modules

| Module | Models | Kind |
|---|---|---|
| `PacketBufferOps` | `feed`, `commit`, `ntoh` as operators on the buffer record | pure |
| `PacketFraming` | what the buffer promises: the frames of the whole stream, in order, once | abstract specification |
| `PacketBuffer` | `handle_read_packet` over all splits of a stream into reads | state machine, implements `PacketFraming` |
| `SequenceLemmas` | facts about sequences and places that several proofs cite | lemmas |
| `PacketBufferProofs` | proofs about `PacketBuffer` | proofs |
| `JsonNetSession` | a session, its `data_`, its peer and the kernel in between | state machine, implements `PacketBuffer` |
| `JsonNetSessionProofs` | proofs about `JsonNetSession` | proofs |
| `JsonNetReceiver` | accepting, sessions and their pending operations, the clients | state machine |
| `JsonNetReceiverProofs` | proofs about `JsonNetReceiver` | proofs |
| `CodersRunner` | the registry, `commitMessage`, the reply of `handle_receive_message_` | state machine |
| `CodersRunnerProofs` | proofs about `CodersRunner` | proofs |
| `CoderService` | what the server promises its clients: a conversation each | abstract specification |
| `NPCTServer` | the receiver and the runner behind its sessions | composition of `JsonNetReceiver` and `CodersRunner`, implements `CoderService` |
| `NPCTServerProofs` | the proof that it does | proofs |
| `HandlerHelper` | callbacks added, removed and called | state machine |
| `MultiHandlerHelper` | the type of handler of each event, in three classes | state machine |
| `HammingBlock` | one block of Hamming(7,4) | pure |
| `Base64` | `base64_encode`, `base64_decode` | pure |
| `HammingCoder` | encode, damage on the way, decode, for whole messages | state machine |
| `CRC32Coder` | `algo`, one turn of its loop a step | state machine |
| `Log4JLogger` | loggers, categories, priorities, and the owners of appenders | state machine |
| `CommandLine` | `start`, its token loop and the options it leaves | state machine |
| `TestClient` | `_recv_result`, byte by byte | state machine |
| `CoderProofs` | proofs about `HammingCoder` with `HammingBlock` and `Base64`, and `CRC32Coder` | proofs |
| `SupportProofs` | proofs about `HandlerHelper`, `MultiHandlerHelper`, `Log4JLogger`, `TestClient` and `CommandLine` | proofs |

The `MC*` modules only give TLC values for the constants.  Definitions marked as
mutants are variants of the definition that follows them, each with one plausible
error; they are used by no specification, and are named under `mutants` in
`PROJECT.json` with the property that notices the error.

### Packet reassembly: `PacketBufferOps`, `PacketBuffer`, `PacketFraming`

`packet_buffer_` is a record with the fields of `PacketBufferType`.  `Feed` is
`feed()`; `commit()` is split at its early returns: `KeepWaiting` (bytes are missing),
`CommitHeader` (the size is known), `CommitPacket` (a payload is complete) and
`ThrowFromRaw` (`from_raw` throws before anything is reset).  `Read(n)` is the
completion of an `async_read_some` with `n` bytes, and each iteration of the `while`
of `handle_read_packet` is a step.  The peer's bytes are one sequence, `stream`, and
`received` is how much of it was read, so that every split is a behaviour.
`bytes_left` and `total_bytes` are naturals: sizes of 2^31 and more do not occur in
the streams, and the code's `uint32_t` holds every announced size.

`PacketFraming` knows no reads.  It cuts `stream` where the size headers say and hands
payloads over one at a time.  The refinement mapping is `pos <- FrameStart`, the place
where the frame being assembled starts, computed from the buffer and the count of
bytes consumed.

### A session: `JsonNetSession`

`data_` is its allocation (`memory`, of `capacity()` bytes) and its `size`.  Reads put
bytes at its start (`HandleRead`), the walk takes `Rest` from it (`KeepWaiting`,
`FinishHeader`, `FinishPacket`, `ThrowFromRaw`), and `Send` assigns the reply to it:
`size` becomes the reply's length, and a reply that does not fit gets a new
allocation.  `async_write` tries to send at once and goes on with the rest as the
kernel takes it (`WriteSome`); a write whose allocation was freed takes bytes of any
value.  `FinishPacket` is the whole handler chain: `commit`, `emitPacketReceive`, the
runner's handler and `send`.  The reply is a constant operator `Reply`, as the bytes
are all that matters here; `CodersRunner` models what decides between replies.  `Frame`
puts the size in front of a payload as four bytes, as the clients do, so that payloads are
of any size of 32 bits.  A buffer is of the default size or of that of a reply, and
`BufferSizesAssumption` says that there is a longest one: it is `MaxRead`, the `ReadLimit`
of the `PacketBuffer` that the session implements.

The peer sends a request only when at most `Window - 1` replies are outstanding.  The
clients in `tests/client` wait for each reply, which is `Window = 1`.  It may close at any
point (`ClosePeer`), as the test client does after five seconds; `taken` is how much of the
replies it has read by then.  The end of the stream then destroys the session (`HandleEof`)
and cancels a write still under way, whose handler meets an object that is gone, which may
go well or end the process (`up`).  If the peer left bytes unread, its kernel may reset the
connection, and the next handler ends the process before (`RemoteEndpointThrows`).  What the
network does to connections whose peer stays is in `JsonNetReceiver`.

### The receiver: `JsonNetReceiver`

`sessions_` holds the sessions by their address, `accepting`, `reading` and `writing`
the sessions pending operations are bound to.  `HandleAccept` is `handle_accept_` with
`start` of the new session and `start_accept_`; `HandleWrite(s)` ends a write; `HandleRead(s)`
is `handle_read` with each of its ends:

| `handle_read` | When | Action |
|---|---|---|
| a request, answered, and the next read | no error | `HandleRequest` |
| a request that throws or faults (`tcc:182`, `NetCodersRunner.cc:32`) | the client is in `deadly` | `HandleDeadlyRequest` |
| `remote_endpoint()` throws (`tcc:118`) | `client[c] = "reset"` | `Die` |
| `closeSession` (`tcc:126-127`) | the end of the stream, or error 10053 (`"aborted"`) | `HandleEof` |
| the error is printed, no read is started (`tcc:128-129`) | any other error while the peer is known (`"failed"`) | `HandleOtherError` |

Clients connect, send, and close at any time, and their connections break in these ways
(`Break`), also a closed client's that has not had all its replies.  Any request may be
`deadly`: what is in it is for `JsonNetSession` and `CodersRunner` to say.  `orderly`, fixed at
the start, says of a behaviour that clients close only when they have all their replies,
connections do not break and no accept fails; orderly clients may send deadly requests.

### The runner: `CodersRunner`

`coder_queue_` and `queue_` are the deques of the code.  One step is one message:
`HandleReceiveMessage` runs `commitMessage` and the reply or its `catch` branches,
which have four ends: `NoCoderFound`, `CoderThrows`, `CoderSucceeds` and
`CoderGivesNoMessage`.  `AcquireResult(i)` is `acquireResult` with the address of the
i-th result.  Coders are CRC32, Hamming and a second one of the name "crc32".

### The whole: `NPCTServer`, `CoderService`

`NetCodersRunner` is a `CodersRunner` and a `JsonNetReceiver` at once, and so is
`NPCTServer`: it instantiates both modules over shared variables, and each of its steps is
a step of one or of both.  `Serve(s)` is the read handler of a session that has the last
byte of a message, down to `send` and back; `ServeDies(s)` the same when the process ends
in it; `Deliver(s)` the end of the write.  It adds what the two leave out: the messages
(`asked`), the reply in each session's `data_` (`sent`) and those the clients have
(`got`).  `CoderService` has neither sessions nor coders: a client asks, gets one of the
answers its message allows, and asks again; the service may fail, at a fatal request only
if it is sheltered.  Which requests are fatal follows from their content here, so `deadly`
is empty, and the one there is is a message for CRC32 to decode; payloads that are no message
are in `JsonNetSession`.  The refinement maps `up` to `alive` and `sheltered` to `orderly`, and
states the answers (`Answers`, `Fatal`) from the request and the registry alone, by name and
direction; names are compared regardless of case, so `RegistryAssumption` has no two coders
whose names differ in nothing else, as those of `example_main.cc` do not.

### Handlers: `HandlerHelper`, `MultiHandlerHelper`

`callbacks_` is a `std::set` of pointers, so the walk of `triggerCallbacks` goes by
address, and the heap decides where a new callback lies: `AddCallback(a)` takes any free
address, those of removed callbacks among them.  `iter` is the node whose callback runs.
While it runs, callbacks come and go (`AddCallback`, `RemoveCallback`), it returns
(`Return`: `++begin`, the next call) or throws into the `noexcept` (`Throw`).  `stayed` and
`considerate` are history: who was registered all through the walk, and whether all
registrants removed their callbacks once and not from within.  `MultiHandlerHelper` has,
for each event of the three classes, the alternative its variant holds, and the tables of
`onX`, `emitX` and `on`.

### The coders: `HammingBlock`, `Base64`, `HammingCoder`, `CRC32Coder`

`HammingBlock` keeps the names and the arithmetic of `Hamming.tcc` for one block: the
positions of information and parity bits, `calculateParityBit`, `err_index` and the
condition of its correction.  Its block array is not initialised in the code, so the
one bit that nobody writes is either value.  `Base64` is both functions of `base64.cc`,
with what `find(0)` gives for missing characters.  `HammingCoder` runs a message
through `processInput`, lets the client turn one bit of any block or drop the last
byte, and runs the text through `processOutput`.  The client has a base64 written
from the definition instead of from `base64.cc`: a text is its `Characters` up to the
padding, and those are bits, six to a character; `ByteOf` is the byte with given bits.

`CRC32Coder` keeps the table and the counter of `algo`; words are sets of bits.  The
definition it is compared with is the long division of the message polynomial by the
generator.  An `ASSUME` of `MCCRC32Coder` checks that definition against the published
check value of CRC-32, 0xCBF43926 for "123456789".

### The logger: `Log4JLogger`

A logger is its category and its `log_level_`; a category its priority, the appenders it
writes to and those of them it owns.  `configureFromFile` is log4cpp's reading of a
properties file, `New` the constructor with both values of `configured`, `SetLevel`,
`GetRoot` and `log` the functions of these names, and the exit has the three releases in
the order of static destruction: the categories, the default appender's `shared_ptr`, and
log4cpp's register.  Categories are the root and its children, as the program makes them.

### The command line: `CommandLine`

A token is what `ProcessToken` makes of it.  `start` begins a reading of arguments, and
each argument is an action by the way its iteration of `parseArgs_` goes: `BadToken`,
`UnexpectedToken`, `UnknownOption`, `Flag`, `ValuedName`, `Value`; `Finish` is the end of
them with `setMode_`.  The options stay between starts, also after a throw.

### The test client: `TestClient`

The reply is a sequence of classes of bytes (braces of the object and braces in a string,
which the client does not tell apart, ASCII, and bytes of longer characters).  They arrive
when they please, or the connection ends before.  Each iteration of the `while` is a step:
`RecvByte`, `RecvWide`, `Timeout`, `RecvReset`, `RecvEof`.

## 3. The runs

| Run | Module, configuration | Shows | Distinct states |
|---|---|---|---|
| `packet_buffer` | `MCPacketBuffer`, `PacketBuffer.cfg` | the buffer mirrors the stream; the loop implements the framing; every complete frame is handled | 1313 |
| `session` | `MCJsonNetSession`, `JsonNetSession.cfg` | one buffer is enough for a peer that has one request out, and closes at any point | 20771 |
| `session_pipelined` | `JsonNetSessionPipelined.cfg` | a second request sent ahead of the first reply may never be answered | violation |
| `coders_runner` | `MCCodersRunner`, `CodersRunner.cfg` | the first match answers, results are preserved | 1112482 |
| `receiver` | `JsonNetReceiver`, `JsonNetReceiver.cfg` | ownership and service, with orderly clients and with early closes, broken connections and failing accepts; what ends the process of orderly ones | 39895 |
| `npct_server` | `MCNPCTServer`, `NPCTServer.cfg` | conversations are not mixed up, each message is answered, results match replies | 465125 |
| `hamming` | `MCHammingCoder`, `HammingCoder.cfg` | single errors are corrected and counted, texts are read alike, results fit but in two cases | 19942 |
| `crc32` | `MCCRC32Coder`, `CRC32Coder.cfg` | every turn keeps the remainder; the loop ends with the text | 762 |
| `handler_helper` | `HandlerHelper`, `HandlerHelper.cfg` | who stays is called once; considerate removals hit their own | 1028364 |
| `log4j_logger` | `MCLog4JLogger`, `Log4JLogger.cfg` | levels and priorities agree; appenders of a file are deleted once | 2882735 |
| `command_line` | `CommandLine`, `CommandLine.cfg` | the token loop accepts a grammar and sets what it names | 51817 |
| `test_client` | `MCTestClient`, `TestClient.cfg` | a plain object is taken whole, and the call ends | 9065 |

Bounds, and why they are enough:

* `PacketBuffer`: eight streams of up to 16 bytes with one to three frames, ending
  between frames, in a header and in a payload; empty, undecodable and long frames; a
  header with a size above one byte.  `ReadLimit = 6` is more than a header, so a read
  can hold the end of one frame and the start of the next, and less than the longest
  frame, so that a frame needs several reads.  All splits are taken.
* `JsonNetSession`: three scripts of three requests, with replies shorter than the
  buffer, longer than it (a new allocation) and shorter again, and requests longer
  than the buffer.  `DEFAULT_BUFFER_SIZE = 5` for the code's 512 keeps the buffer
  smaller than some packets and some replies, which is what the size matters for.
* `CodersRunner`: three messages (`MaxMessages`), with the registry growing to three
  coders in any order, a coder possibly twice; two results can be queued while a third
  is made and any is acquired.
* `JsonNetReceiver`: two clients with two requests each, orderly or not, so that a session
  that is destroyed or forgotten may lie before another in the vector, and behind both the
  one that accepts; a second request may be deadly after a first that was not.
* `NPCTServer`: two clients with two messages each, so that conversations overlap in every
  way and have an order to keep; a message that is answered with a result, one that is
  refused, and one that ends the process (CRC32's to decode).  The other end of a message is
  `CodersRunner`'s; it differs in the reply alone.
* `HandlerHelper`: five callbacks at four addresses.  A walk at one of them can lose one
  before and one behind it and get one at each freed address, and a fifth callback needs
  an address used before.
* `Log4JLogger`: two categories under the root, which two loggers may share, two appenders
  and the default one; files give each category none, one or both appenders and a
  priority more urgent than any log level or none.
* `CommandLine`: six arguments, a valued name with its value three times; two valued
  options, a flag and an unknown name.  Longer lines repeat states of the loop, which
  has three for what is expected and one for the last option.
* `TestClient`: every object of up to five bytes: two nested objects with a byte between,
  or three bytes of any class in one.
* `HammingCoder`: messages of none to three bytes, so that encodings have each of the
  base64 remainders and each of the sixteen blocks occurs; `MaxErrors = 2` blocks are
  damaged, in every position of every pair.  Blocks are corrected independently, so
  two show what more would.
* `CRC32Coder`: all texts of up to three characters out of five, both signs among
  them, and two longer than the register.  `SIZE_MAX = 15` for 2^64 - 1: all that
  matters is that the counter wraps and the texts are shorter.

Fairness.  `main` runs one thread that does nothing but `io_service::run`
(`example_main.cc:109`): a handler that is ready will run, and nothing else can keep
the thread.  That is weak fairness of the handlers (`Read`, `HandleEof`, `LoopStep`,
`HandleAccept`, `HandleRead(s)`, `HandleWrite(s)`; in `NPCTServer` `Accept`, `HandleRead(s)`,
`Deliver(s)`); for each session separately, as asio's queue is first in, first out.  Weak
fairness of `Read` and of the writes also says that the network delivers what was sent.
Nothing is assumed of peers and clients but that they wait for a reply before they send
again: they may stop at any point, never send and never close, or close at any point, with
a request unanswered and a reply half-way.  `TestClient` assumes that the interpreter runs on (`RecvResult`), which includes
that `select` returns after its five seconds; bytes need not come.  The other modules
state safety only and assume nothing.

`CHECK_DEADLOCK FALSE` is set in every configuration but that of `CommandLine`, as peers
may stop for good, the process may end, and the bounded runs of messages come to an end.

## 4. What is proved

Each theorem holds for every value of the constants that satisfies the named assumptions.
Checked by TLC as invariants of the component's run, the inductive invariants hold there
too.  Modules that are proved about together have names of their own for what both would
define: `LoggerSpec`, `CommandSpec`, `ClientSpec` and `CrcSpec` are the specifications of
`Log4JLogger`, `CommandLine`, `TestClient` and `CRC32Coder`, and so with their initial states,
next-state relations and type invariants.

`SequenceLemmas` has what several proofs cite: what `std::vector::erase`
leaves (`FirstRemoved`, `OthersStay`), that the first of some places exists (`FirstPlace`),
how parts of a sequence join (`Slice`, `AdjacentSlices`, `WholeSlice`), and what messages
one after the other are (`JoinedAppend`).

### `PacketBufferProofs`

For every set of streams, every `ReadLimit` above zero and every set of undecodable
payloads:

* `TypeCorrect`: `Spec => []TypeOK`;
* `MirrorsStream`: `Spec => []BufferMirrorsStream`;
* `RefinesFraming`: `Spec => ImplementsFraming`.

The assumptions are two of `PacketBuffer`'s: `ReadLimitAssumption` and
`StreamsAssumption`.  `UndecodableAssumption`, that nlohmann's parser refuses the empty
text, keeps the instances real; no proof uses it.

The inductive invariant is `BufferInv == TypeOK /\ BufferMirrorsStream`.  Types alone
are not inductive: that `offset` stays within the read needs `FeedSize`, and that
`packet_buffer` stays a record of naturals needs the count of missing bytes to be that
of a part whose size was announced (`CountersAgree`).  `DataIsStream` says which bytes
of the stream are in the buffer, and `AnnouncedSize` that the size waited for is the
one in the four bytes before; without it nothing ties a completed payload to a frame.

The step lemmas are those of the actions (`ReadStep`, `BufferFedStep` for `KeepWaiting`
and `ThrowFromRaw`, `FinishHeaderStep`, `FinishPacketStep`).  For the refinement,
`FramingHeader` says that the size the buffer announces is the `FrameLength` at
`FrameStart`, and `PacketIsFrame` that a completed payload is the `FramePayload` there: so
`FinishPacket` is `Deliver`, `ThrowFromRaw` is `Reject`, and the other steps leave
`FrameStart` where it is.

### `JsonNetSessionProofs`

For any requests and replies, any default size of the buffer, any split into reads and any
short writes:

* `SessionTypes`: `Spec => []TypeOK`;
* `RepliesAreIntact`: `Spec => []RepliesIntact`;
* `RefinesPacketBuffer`: `Spec => ImplementsPacketBuffer`.

All three have the hypothesis `Window = 1`, a peer that waits for the reply before its next
request, as the clients in `tests/client` do; it may close at any point.  The hypothesis cannot be dropped: `session_pipelined`
shows a peer that does not wait and a packet that is lost.  The assumptions are
`BufferAssumption`, `ScriptsAssumption`, `RepliesAssumption` (every reply is at least one
byte: it is a JSON object), `SizesAssumption` (the sizes fit their header) and, for
the refinement alone, `BufferSizesAssumption`.

`RepliesIntact` is not inductive: nothing in it says why a write may read from `data_`
while a read is pending on it.  `SessionInv` adds the reason.  `Turns`: the peer has at most
one request that is not handled, and while it has, no write is pending, so that reads that
bring bytes and writes that take them never share the buffer; and a session that is gone has
neither.  `WritesEndReply`: a pending
write ends where the reply in `data_` does.  `FramePart`: what `packet_buffer_` holds is a
part of the frame of the next request, at its place in the stream; so the last byte of a
frame is the last byte of the read, and `send`, which assigns the reply over the read,
finds nothing left to walk over.  `ReadKept` says the same of the bytes not walked over yet.
The refinement uses these and `ReadsFit`, that a read is never longer than the longest
buffer.

### `JsonNetReceiverProofs`

For any finite set of clients and any number of requests of each (`ClientsAssumption`,
`NobodyAssumption`, `MaxRequestsAssumption`):

* `ReceiverTypes`, `OwnsItsSessions`, `OwnsWriters`, `DiesOfRequestsOnly`: `TypeOK`,
  `SessionsOwned`, `WritesOwned` and `StaysAlive` are invariants;
* `ReleasesOnlyClosed`: `Spec => OnlyClosedReleased`.

`SessionsOwned` has two halves.  That sessions with a pending read are owned follows from
`closeSession` being called by such a read only; that nothing else is kept but sessions whose
read error was printed needs `OnlyAcceptedOperate`, and that a connection that failed stays so.
That a pending write finds its session (`WritesOwned`) and that a deadly request alone ends the
process (`StaysAlive`) rest on the clients: `Orderliness` says what an orderly client has
received when it closes, and `OneOutstanding` that a write to it is then over;
`EachConnectionOnce` that a client's counters are those of one session, so that the end of one
client's stream says nothing of another's writes.  `CloseSessionRemoves` is `closeSession`: its session leaves `sessions_`, the
others stay in their order.

### `CodersRunnerProofs`

For any coders and names, any growth of the registry, and any number of messages
(`MaxMessagesAssumption`):

* `RunnerTypes`, `AnswersInOrder`, `PreservesAll`: `TypeOK`, `FirstRegisteredAnswers` and
  `ResultsPreserved` are invariants.

`FirstRegisteredAnswers` speaks of the registry as it is now, which has grown since a reply
was made: that `registerCoder` adds at the end keeps the first coder for a message the first
(`RegistryStep`).  It does not mention `Chosen`, by which the model picks the coder:
`MatchingIsFor` and `ChosenIsFirst` say that the loop of `commitMessage` picks the one meant.
That a 555 never follows another answer to a message alike is the same fact read backwards: a
coder that answered before is still registered.
`ResultsPreserved` needs `SerialsInRange`: without it a new result could have the number
of a queued one.

### `NPCTServerProofs`

For any clients, requests, coders and registry, from `RegistryAssumption`,
`RequestsAssumption`, `MaxRequestsIsNat` and, for the second, `NobodyIsNoCoder`:

* `ServesEachClient`: `Spec => ImplementsService`;
* `ResultsOfAllSessions`: `Spec => []ResultsOfReplies`.

`TalkInv` ties a client's
conversation to its session over the handlers of other sessions that run between the read
of a request and the end of its reply: `Counted` (the conversations have the lengths the
receiver counts), `WritesAnswer` (a write to a client that is still there holds an answer to
the last request read from it, and no other session writes to it), `Opened`, `ReadersOwned`
and `Orderliness`.  `ClientSends` is `Ask`; `Deliver` is `Answer`, as what the session wrote
is in `Answers` of the request; `ServeDies` is `Fail`, as a runner that dies had a fatal
message; an accept that dies is `Fail` with clients that are not orderly; all other steps
stutter.  What this needs of the receiver, a part of `JsonNetReceiverProofs`' invariant, is
proved again over the composition's variables, since the prover cannot cite the theorems of
an instantiated module.

`ResultsOfReplies` compares the queue with what clients have.  `LedgerInv` adds to `TalkInv`
what connects the two: `Ledger` says that the results in the queue are those of the replies
that a coder made, under their numbers and in their order, and `Owed` that the replies of a
coder that clients have and those still being written to them are, together, no more than
its results in the queue.

### `CoderProofs`: `HammingCoder`

For any set of messages and any number of damaged blocks (`MessagesAssumption`;
`MaxErrorsAssumption` is not used):

* `CorrectsSingleErrors`, `SidesAgree`, `OverrunsKnown`, `HammingTypes`:
  `SingleErrorsCorrected`, `TextsAgree`, `ResultsFit` and `TypeOK` are invariants.

`SingleErrorsCorrected` speaks of the end alone.  `HammingInv` says what is true on the way:
`TextIsOfBytes` (every text on the wire is the encoding of some bytes, whoever wrote it),
`OneErrorInABlock`, `BlocksFit` (all blocks of the message arrive, or all but last ones) and
`BlocksAreDamaged` (they are the encoded blocks with the bits turned that `errors` names,
for one value of the bit that is not initialised).  It rests on three groups of lemmas, none
of which needs an induction:

* *Bits.*  `BitsOfByte` and `ByteOfHas`: the eight bits of a byte make the byte, and a sum of
  distinct powers of two has the bits it was made of.
* *One block.*  `EncodesCodeWord`: `EncodeBlock` gives a `CodeWord`, a block whose three
  parities are even.  `CodeWordIntact` and `ErrorFound`: with no bit turned `ErrIndex` is zero,
  with one turned it is the position of that bit, for each of the seven.  `BlockOutcome` puts
  these together, with the eighth bit, which counts for nothing.
* *Base64.*  `EncodesAlike`: `base64_encode` and the client's encoding give the same text for
  all bytes.  `ClientReads` and `ServerReads`: both decodings give back the bytes, whatever is
  missing in the last group of characters.

`DecodesReceived` is what `decode()` makes of all blocks: result byte by byte, and the count
of errors, by a bijection between the blocks with a non-zero `ErrIndex` and the errors in
positions that are used.

### `CoderProofs`: `CRC32Coder`

For any texts no longer than `SIZE_MAX`, and any `SIZE_MAX` (`BuffersAssumption`,
`SizeAssumption`):

* `ComputesRemainder`, `ReadsEveryText`, `CrcTypes`: `IsRemainder`, `ReadsTheText` and
  `CrcTypeOK` are invariants.

`IsRemainder` says that after every turn the register is that of the text read so far, where
`Register` is the long division of a polynomial, a function defined by recursion over its
degrees.  No induction over texts is needed, as the execution is the induction; what a turn
needs is that one more byte changes the remainder as the table says.  `RoundsByTable` is about
the table, that eight shifts of a word depend on its low byte as the entry says;
`RegisterOneMore` about the division, that the
elimination of the degrees above those of the new byte is that of the shorter text, eight
degrees higher.  It looks at the first degree where the two would differ, and `RestExists`,
that the recursive definition has a value, at the first degree where it would have none
(`FirstPlace`), as the induction theorems of the library are out of reach.  `CounterIsLeft`
ties the counter, which ends the loop by wrapping to -1, to the place in the text; it is what
`ReadsTheText` needs.

### `SupportProofs`: `HandlerHelper`

For any set of addresses and any number of callbacks (`AddressesAssumption`,
`MaxCallbacksAssumption`):

* `HelperTypes`, `CalledOnce`, `RemovesItsOwn`: `TypeOK`, `StayedAreCalledOnce` and
  `RemovalIsOwn` are invariants;
* `WalkIsComplete`: `Spec => EndsComplete`.

`StayedAreCalledOnce` is not inductive alone.  `AtItsAddress` and `Numbered` say that a
callback lives at the address returned for it and nowhere else; `CalledArePassed` that what
was called lies behind the walk, and so is not called again though its address may be
occupied anew.

### `SupportProofs`: `MultiHandlerHelper`

`TypesAlwaysAgree`: `Spec => []TypesAgree`.  The types of the three classes' handlers agree
for any number of handlers and any order of calls.  The invariant is `TableInv`: what an
event's variant holds was put there by a registration of the same event, and
`OneTypeForAnEvent` says of the tables that an event has one type.  The module has no
run: its state is so small that the proof says all there is.

### `SupportProofs`: `Log4JLogger`

For any files, loggers, categories and appenders (`NamesAssumption`: no category or logger
has the name of the root, and no appender is the default one; `FilesAssumption`: a file gives
a category a priority and finitely many appenders):

* `LoggerTypes`, `AppendersFreedOnce`, `LoggersFilter`: `LoggerTypeOK`, `FreedOnce` and
  `LevelFilters` are invariants.

`LevelFilters` is about the last line logged; `Synced` says why it holds: a category with a
logger has a priority of its own, and if no other logger sets it, it lets the same messages
through as the logger's level.  It needs `HasLevels`, that no file puts the root above ERROR:
no log level stands for that priority, and `GetRoot()` says LL_ERROR of a logger that writes no
errors.  `FreedOnce` rests on `OwnsDefault`, that no category ever owns an appender of a file,
and `KeptUntilExit`: until the register deletes them, nobody has.

### `SupportProofs`: `TestClient`

* `PlainRepliesTaken`: `Spec => []PlainReplyTaken`, for any replies that are objects
  (`RepliesAssumption`: the last of their braces closes the first).

`BalanceIsDepth` says that the count of the client is the depth of the object, `RunsWhileOpen`
that the loop goes on just as long as the object is open, and `TakenIsPrefix` that what was
taken is the beginning of the reply.  An object is one by the depths of its beginnings, which
are cardinalities, so that nothing is defined by recursion.

### `SupportProofs`: `CommandLine`

For any options and values and argument lists of any length (`OptionsAssumption`: names are
of one kind, and "mode", "h" and "" are none):

* `CommandTypes`, `ParserIsGrammar`: `CommandTypeOK` and `ParserFollowsGrammar` are
  invariants.

The grammar is about whole lists of arguments and the parser sees one at a time.  `ParseInv`
says of the arguments read that they may begin grammatical ones (`BeginsGrammatical`), that
`expect` and `last_option` tell all of them that matters (`ExpectsNext`, `RemembersLast`), and
that the options are what these arguments give (`OptionsSoFar`).  `OwnersAreValued`,
`GrammarGrows`, `GivenKept` and `SetsGrow` say what one more argument changes of each.

### Only model-checked

All liveness (`EveryFrameHandled`, `EveryRequestAnswered`, `SessionReleased`,
`EveryConnectionAccepted`, `EverySessionReleased`, `EveryMessageAnswered`, `CallEnds`): neither
fairness nor ENABLED is within the prover's reach.  `CheckValue`, that the division
`CRC32Coder` is compared with is that of CRC-32, is the evaluation of one checksum and is left
to TLC as well.  So is that without `Window = 1` a session may lose a packet
(`session_pipelined`): it is a counterexample.

## 5. Where code and documents differ

`session_pipelined` ends in a violation on purpose.  `IPeerSession.h:29` says that a session
"uses concept of messages which, in fact, can be a streamable object", and
`handle_read_packet` loops to take several packets out of one read; but the reply to the
first overwrites the rest of the read in `data_`, so a second packet in it is lost.

The other places are part of the models, and the properties are stated around them:

| Where | A document says | The code does | In the models |
|---|---|---|---|
| `JsonNetSession.tcc:182` | `NetCodersRunner.cc:25,48`: "try to parse this message", "Unknown message format sent" | parses before that `try`, and the exception ends `io_service::run` | `ThrowFromRaw`; the framing rejects the frame and stops |
| `NetCodersRunner.cc:32` | `ECoderErrorCodes.h:16`: "if message is not processed" | CRC32 makes a result without a message for a text to decode, and it is dereferenced | `CoderGivesNoMessage`; `Fatal` in `NPCTServer` |
| `Hamming.tcc:77` | `Hamming.h:36`: "encodes packet of length getEncodedLength" | one block is written for the empty message, whose encoded size is zero | first exception of `ResultsFit` |
| `Hamming.tcc:111` | `Hamming.h:39`: "decodes a packet of length getDecodedLength" | the last four bits of an odd number of blocks go behind the result | second exception of `ResultsFit` |
| `Log4JLogger.cc:48` | `Category.hh:150`: addAppender "passes ownership from the caller to the Category" | the logger keeps its `shared_ptr`, so the default appender is deleted by both; `main` makes no such logger | `NewUnconfigured`; `FreedOnce` is about the file's appenders |
| `cmd.h:212` | `NetPacketCommandLine.cc:18`: "-max_source_size <int> ..." | a value after a flag goes to the valued option named last, wherever that was | `Owner` in `ParserFollowsGrammar` |
| `cmd.h:266` | `NetPacketCommandLine.cc:15`: "Usage <mode> [parameters...]" | `setMode_` asks for an option "mode" the class does not have, so `start` always throws | `Finish` |
| `_test_runner.py:33` | `_test_runner.py:31`: "check if full JSON object received" | braces inside strings are counted too, so part of a reply may pass for all of it | `Plain` in `PlainReplyTaken` |
| `_test_runner.py:28` | | when the stream is over and what came ends inside an object, as the client counts, the loop never ends | `CutOff` in `CallEnds` |
| `JsonNetSession.tcc:128` | | after an error that is only printed the session has no pending operation, and stays in `sessions_` for good | `HandleOtherError`; exception of `SessionsOwned` |

Also met, and not stated as properties: a frame of length zero at the end of a read waits
for the peer's next byte, because `handle_read_packet` tests `offset` before it calls
`commit` for it (written into `EveryFrameHandled`).  The session files handlers of sent
packets under `DATA_SENT` and those of sent buffers under `PACKET_SENT`, the other way round
than for received ones; nothing triggers them.  After `handle_read_packet`, the bytes for
`emitPartialReceive` are copied from `data_` again, which may hold the reply by then.
`CoderError(size_t)` initialises its base from the member `msg` before `msg` is constructed;
the format string has one placeholder and the error code fills it, so `msg` is never read as
text.  `HammingCoder.tcc:47-48` passes `std::string` through varargs to "%s".  `getFlagVal` is
`noexcept` around a check that throws.

## 6. What is not modelled

* `resize_buffer` and `setSettings` of the session, `GenericLogger` (a header whose functions
  have no bodies), `runWithMode` (`setMode_` never reaches it), `Parse` and the validators
  of the command line (commented out): nothing in the program calls or can call them.
* The string helpers in `utils`: `to_bin` is used for log lines; `to_hex`, `from_hex`,
  `split` and `generate_alnum_str` are not called.
* Triggers of an event from within its own callbacks: nothing nests them.
* Categories below those of the root, which log4cpp allows and the program does not make,
  and what appenders do with a message.
* The interior of JSON values: a message is its algorithm, its direction and whether
  its input is a string; a payload is decodable or not.
* asio, nlohmann::json, fmt, mpark::variant and log4cpp, other than what the code above
  sees of them.  They are nearly all of the 139,000 lines in the repository, so that the
  lines the models map are a small share of all lines and a large one of `src/npct`.

## 7. What could come next

Every action of the parts above is modelled, every property of theirs is checked, and of the
safety properties every one is proved.  What is left lies outside of what is modelled:

1. Sizes of 2^31 and above.  `PacketBuffer`'s counters are naturals, and every announced size
   fits the code's 32 bits; a version with words of 32 bits would say so instead of the text.
2. `resize_buffer`, `setSettings`, `runWithMode` and the validators, once something calls them.
3. The liveness properties for any number of sessions, should the prover learn fairness.

------------------------------ MODULE CodersRunner ------------------------------
(****************************************************************************)
(* CodersRunner and the packet handler NetCodersRunner puts in front of it: *)
(* a registry of coders tried in the order of registration, a queue that    *)
(* keeps every result, and the reply each message gets.  The handler runs   *)
(* to completion in the io_service thread, so a message is one step.        *)
(*                                                                          *)
(* A message is what the runner looks at: its algorithm (names compare      *)
(* without regard to case), its direction byte, and whether its "input" is  *)
(* a string.                                                                *)
(****************************************************************************)
EXTENDS Integers, Sequences, FiniteSets, FiniteSetsExt

CONSTANTS Coders,       \* the coder objects that may be registered
          Name(_),      \* ICoder::name() of a coder
          Algorithms,   \* the algorithm names of messages
          Lower(_),     \* std::tolower of a name
          Nobody,       \* in the place of a coder where none answered
          MaxMessages   \* bound: how many messages are handled

ASSUME NobodyAssumption == Nobody \notin Coders
ASSUME MaxMessagesAssumption == MaxMessages \in Nat

\* enum MessageDirectionType; the cast from uint8_t admits other values.
MT_INPUT  == 1
MT_OUTPUT == 2
MT_NONE   == 255
Directions == {MT_INPUT, MT_OUTPUT, 3, MT_NONE}

Messages == [algorithm : Algorithms, direction : Directions, input : {"string", "other"}]

\* enum ECoderErrorCodes, the values the code uses.
E_INTERNAL_SERVER_ERROR == 500
E_NO_CODERS_FOUND       == 555

VARIABLES coder_queue_,  \* the registered coders
          queue_,        \* the results not acquired yet, oldest first
          acquired,      \* the results a caller has taken over
          replies,       \* the replies sent, one for each message handled
          alive          \* the process has not died

vars == <<coder_queue_, queue_, acquired, replies, alive>>

\* A result is named after the message it was made for.
Result(c, n) == [coder |-> c, serial |-> n]

Init == /\ coder_queue_ = << >>
        /\ queue_ = << >>
        /\ acquired = {}
        /\ replies = << >>
        /\ alive = TRUE

--------------------------------------------------------------------------------
(* The coders. *)

CanProcess(c, m) ==
    IF Lower(m.algorithm) = Lower(Name(c)) /\ m.direction # MT_NONE
    THEN m.direction ELSE MT_NONE

\* CRC32Coder and HammingCoder read "input" as a string; anything else makes the
\* json library throw.
Throws(m) == m.input # "string"

\* CRC32Coder::processOutput makes a result without a message, and never looks at
\* the one it got.
Unimplemented(c, m) == Name(c) = "crc32" /\ m.direction = MT_OUTPUT

\* The coders that a message matches, by their place in the registry.
Matching(m) == {i \in DOMAIN coder_queue_ :
                   CanProcess(coder_queue_[i], m) \in {MT_INPUT, MT_OUTPUT}}

\* Mutant: the loop does not stop at the first coder that took the message.
LastChosen(m) == coder_queue_[Max(Matching(m))]

Chosen(m) == coder_queue_[Min(Matching(m))]

--------------------------------------------------------------------------------

RegisterCoder(c) ==
    /\ alive
    /\ coder_queue_' = Append(coder_queue_, c)
    /\ UNCHANGED <<queue_, acquired, replies, alive>>

Serial == Len(replies) + 1

\* to_raw of the result's message or of a CoderErrorMessage, as far as the peer can
\* tell them apart: the error code, 0 for none, and the coder that answered.
ResultReply(m)      == [to |-> m, error |-> 0, coder |-> Chosen(m)]
ErrorReply(m, code) == [to |-> m, error |-> code, coder |-> Nobody]

\* Mutant: the code of a message that could not be parsed.
NoCoderFoundUnknown(m) ==
    /\ Matching(m) = {}
    /\ replies' = Append(replies, ErrorReply(m, 422))
    /\ UNCHANGED <<queue_, alive>>

\* commitMessage throws CoderError: there is no coder, or none took the message.
NoCoderFound(m) ==
    /\ Matching(m) = {}
    /\ replies' = Append(replies, ErrorReply(m, E_NO_CODERS_FOUND))
    /\ UNCHANGED <<queue_, alive>>

\* Mutant: the place in the queue is taken before the coder is called.
CoderThrowsLate(m) ==
    /\ Matching(m) # {}
    /\ ~Unimplemented(Chosen(m), m)
    /\ Throws(m)
    /\ queue_' = Append(queue_, Result(Chosen(m), Serial))
    /\ replies' = Append(replies, ErrorReply(m, E_INTERNAL_SERVER_ERROR))
    /\ UNCHANGED alive

\* The coder throws; nothing was pushed, and catch (...) replies.
CoderThrows(m) ==
    /\ Matching(m) # {}
    /\ ~Unimplemented(Chosen(m), m)
    /\ Throws(m)
    /\ replies' = Append(replies, ErrorReply(m, E_INTERNAL_SERVER_ERROR))
    /\ UNCHANGED <<queue_, alive>>

CoderSucceeds(m) ==
    /\ Matching(m) # {}
    /\ ~Unimplemented(Chosen(m), m)
    /\ ~Throws(m)
    /\ queue_' = Append(queue_, Result(Chosen(m), Serial))
    /\ replies' = Append(replies, ResultReply(m))
    /\ UNCHANGED alive

\* The result is pushed, and send(*response->second) dereferences its null message.
CoderGivesNoMessage(m) ==
    /\ Matching(m) # {}
    /\ Unimplemented(Chosen(m), m)
    /\ queue_' = Append(queue_, Result(Chosen(m), Serial))
    /\ alive' = FALSE
    /\ UNCHANGED replies

\* handle_receive_message_ with commitMessage.
HandleReceiveMessage(m) ==
    /\ alive
    /\ Len(replies) < MaxMessages
    /\ UNCHANGED <<coder_queue_, acquired>>
    /\ \/ NoCoderFound(m)
       \/ CoderThrows(m)
       \/ CoderSucceeds(m)
       \/ CoderGivesNoMessage(m)

\* Mutant: the result found is moved out, the oldest one is erased.
AcquireResultPopFront(i) ==
    /\ alive
    /\ i \in DOMAIN queue_
    /\ acquired' = acquired \union {queue_[i]}
    /\ queue_' = Tail(queue_)
    /\ UNCHANGED <<coder_queue_, replies, alive>>

\* acquireResult with the reference of the i-th result; for one that is not in the queue
\* it throws std::range_error, and nothing changes.
AcquireResult(i) ==
    /\ alive
    /\ i \in DOMAIN queue_
    /\ acquired' = acquired \union {queue_[i]}
    /\ queue_' = SubSeq(queue_, 1, i - 1) \o SubSeq(queue_, i + 1, Len(queue_))
    /\ UNCHANGED <<coder_queue_, replies, alive>>

Next == \/ \E c \in Coders : Len(coder_queue_) < Cardinality(Coders) /\ RegisterCoder(c)
        \/ \E m \in Messages : HandleReceiveMessage(m)
        \/ \E i \in DOMAIN queue_ : AcquireResult(i)

Spec == Init /\ [][Next]_vars

--------------------------------------------------------------------------------

Results == {Result(c, n) : c \in Coders, n \in 1 .. MaxMessages}

TypeOK ==
    /\ coder_queue_ \in Seq(Coders)
    /\ queue_ \in Seq(Results)
    /\ acquired \subseteq Results
    /\ replies \in Seq([to : Messages, error : {0, E_INTERNAL_SERVER_ERROR, E_NO_CODERS_FOUND},
                        coder : Coders \union {Nobody}])
    /\ alive \in BOOLEAN

\* Registration decides, and for good: a message answered by a coder was answered by the
\* first in the registry that has its name, however many are registered now; one refused
\* by a coder had one; and one refused for want of a coder came before every message like
\* it that found one (CodersRunner.cc:14-34).
IsFor(c, m) == Lower(Name(c)) = Lower(m.algorithm) /\ m.direction \in {MT_INPUT, MT_OUTPUT}
Alike(m, n) == Lower(m.algorithm) = Lower(n.algorithm) /\ m.direction = n.direction

FirstRegisteredAnswers ==
    \A n \in DOMAIN replies :
        LET r == replies[n]
        IN  /\ r.error = 0 =>
                  /\ r.to.input = "string"
                  /\ \E i \in DOMAIN coder_queue_ :
                        /\ coder_queue_[i] = r.coder /\ IsFor(r.coder, r.to)
                        /\ \A j \in 1 .. i - 1 : ~IsFor(coder_queue_[j], r.to)
            /\ r.error = E_INTERNAL_SERVER_ERROR =>
                  /\ r.to.input # "string"
                  /\ \E i \in DOMAIN coder_queue_ : IsFor(coder_queue_[i], r.to)
            /\ r.error = E_NO_CODERS_FOUND =>
                  \A k \in 1 .. n - 1 : Alike(replies[k].to, r.to) => replies[k].error = r.error

\* PRESERVE_ALL: every result handed out in a reply is in the queue or acquired,
\* never both nor twice, a reply that refuses has none, and the queue keeps the order
\* they were made in (CodersRunner.cc:20-31, 58-68).
Serials(S) == {r.serial : r \in S}
Queued     == {queue_[i] : i \in DOMAIN queue_}

ResultsPreserved ==
    /\ \A i, j \in DOMAIN queue_ : i < j => queue_[i].serial < queue_[j].serial
    /\ Serials(Queued) \intersect Serials(acquired) = {}
    /\ {Result(replies[n].coder, n) : n \in {k \in DOMAIN replies : replies[k].error = 0}}
          = {r \in Queued \union acquired : r.serial <= Len(replies)}

================================================================================

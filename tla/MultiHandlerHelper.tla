--------------------------- MODULE MultiHandlerHelper ---------------------------
(****************************************************************************)
(* MultiHandlerHelper: for each event a HandlerHelper of one type of        *)
(* handler, chosen by whoever registers first, inside a variant.  Taking    *)
(* the variant for another type throws, and every function here is          *)
(* noexcept, so the types that register for an event, and the type it is    *)
(* triggered with, have to agree across the whole class.  The tables are    *)
(* those of the three classes that have one: JsonNetReceiver,               *)
(* JsonNetSession and CodersRunner.  Nothing removes from one:              *)
(* removeCallback cannot be instantiated.                                   *)
(*                                                                          *)
(* How many handlers an event has is left to HandlerHelper.                 *)
(****************************************************************************)
\* The event and the type of handler of onPartialReceive, onPeerConnect and
\* onPacketReceive; the emitX functions trigger each event with the same type.
ReceiverEvents == {<<"PARTIAL_RECEIVED", "partial">>, <<"PEER_CONEECTED", "connect">>,
                   <<"PACKET_RECEIVED", "packet">>}
ReceiverTriggers == {<<"PARTIAL_RECEIVED", "partial">>, <<"PEER_CONEECTED", "connect">>,
                     <<"PACKET_RECEIVED", "packet">>}

\* Those of the onX functions of the session.  The handlers of sent packets have the
\* event DATA_SENT and those of sent buffers PACKET_SENT; nothing triggers them.
SessionEvents == {<<"SESSION_CLOSING", "event">>, <<"DATA_RECEIVED", "buffer">>,
                  <<"PACKET_RECEIVED", "packet">>, <<"DATA_SENT", "packet">>,
                  <<"PACKET_SENT", "buffer">>}

\* CodersRunner::on takes the event from its caller.
RunnerEvents == {"ON_DECODE", "ON_ENCODE", "ON_MESSAGE"} \X {"message"}

Registrations == ({"receiver"} \X ReceiverEvents) \union ({"session"} \X SessionEvents)
                    \union ({"runner"} \X RunnerEvents)
Triggers      == {"receiver"} \X ReceiverTriggers

\* An event is one of an object's own map.
Key(r)  == <<r[1], r[2][1]>>
Type(r) == r[2][2]
Keys    == {Key(r) : r \in Registrations}
Types   == {Type(r) : r \in Registrations}

VARIABLES alternative,  \* the alternative the variant of an event holds, or Absent
          alive         \* no exception has met a noexcept

vars == <<alternative, alive>>

Absent == "absent"

Init == /\ alternative = [k \in Keys |-> Absent]
        /\ alive = TRUE

\* addCallback: an event without handlers gets a helper of the handler's type;
\* mpark::get throws if it has one of another.
AddCallback(r) ==
    /\ alive
    /\ IF alternative[Key(r)] \in {Absent, Type(r)}
       THEN /\ alternative' = [alternative EXCEPT ![Key(r)] = Type(r)]
            /\ UNCHANGED alive
       ELSE /\ alive' = FALSE
            /\ UNCHANGED alternative

\* triggerCallbacks of an event: there may be no helper, or one of another type.
TriggerCallbacks(t) ==
    /\ alive
    /\ alive' = (alternative[Key(t)] \in {Absent, Type(t)})
    /\ UNCHANGED alternative

Next == \/ \E r \in Registrations : AddCallback(r)
        \/ \E t \in Triggers : TriggerCallbacks(t)

Spec == Init /\ [][Next]_vars

--------------------------------------------------------------------------------

\* In whatever order handlers are registered and events triggered, no event meets a
\* handler of another type: the process does not end in mpark::get
\* (handler_helpers.tcc:36-50; JsonNetReceiver.tcc:22-56; JsonNetSession.tcc:83-114).
TypesAgree == alive

\* What an event's variant holds was put there by a registration of that event.
HeldIsRegistered ==
    /\ alternative \in [Keys -> Types \union {Absent}]
    /\ \A k \in Keys : alternative[k] # Absent =>
          \E r \in Registrations : Key(r) = k /\ Type(r) = alternative[k]

TableInv == TypesAgree /\ HeldIsRegistered

================================================================================

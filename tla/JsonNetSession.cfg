SPECIFICATION FairSpec
CONSTANTS
    Payloads <- MCPayloads
    Scripts <- MCScripts
    Undecodable <- MCUndecodable
    Reply <- MCReply
    Window = 1
    DEFAULT_BUFFER_SIZE = 5
INVARIANTS TypeOK RepliesIntact
PROPERTIES ImplementsPacketBuffer EveryRequestAnswered SessionReleased
CHECK_DEADLOCK FALSE

SPECIFICATION FairSpec
CONSTANTS
    Payloads <- MCPayloads
    Scripts <- MCScripts
    Undecodable <- MCUndecodable
    Reply <- MCReply
    Window = 2
    DEFAULT_BUFFER_SIZE = 5
PROPERTIES EveryRequestAnswered
CHECK_DEADLOCK FALSE

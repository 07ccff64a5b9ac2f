SPECIFICATION FairSpec
CONSTANTS
    Streams <- MCStreams
    Undecodable <- MCUndecodable
    ReadLimit = 6
INVARIANTS TypeOK BufferMirrorsStream
PROPERTIES ImplementsFraming EveryFrameHandled
CHECK_DEADLOCK FALSE

SPECIFICATION FairSpec
CONSTANTS
    Clients = {c1, c2}
    Nobody = Nobody
    Crc32 = Crc32
    Hamming = Hamming
    MaxRequests = 2
    Coders <- MCCoders
    Registry <- MCRegistry
    Name <- MCName
    Lower <- MCLower
    Algorithms <- MCAlgorithms
    Requests <- MCRequests
INVARIANTS ResultsOfReplies
PROPERTIES ImplementsService EveryMessageAnswered
CHECK_DEADLOCK FALSE

SPECIFICATION Spec
CONSTANTS
    Crc32 = Crc32
    Crc32Again = Crc32Again
    Hamming = Hamming
    Nobody = Nobody
    Coders <- MCCoders
    Name <- MCName
    Lower <- MCLower
    Algorithms <- MCAlgorithms
    MaxMessages = 3
INVARIANTS TypeOK FirstRegisteredAnswers ResultsPreserved
CHECK_DEADLOCK FALSE

SPECIFICATION CommandSpec
CONSTANTS
    VALUED_OPTS = {"num_sources", "io_source"}
    FLAG_OPTS = {"g"}
    Unknown = {"x"}
    Values = {"1", "2"}
    MaxArgs = 6
INVARIANTS
    CommandTypeOK
    ParserFollowsGrammar

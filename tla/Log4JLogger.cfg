SPECIFICATION LoggerSpec
CONSTANTS
    Names = {"hamming", "other"}
    Appenders = {"rootAppender", "file"}
    Files <- MCFiles
    Loggers = {"h", "o"}
INVARIANTS
    LoggerTypeOK
    FreedOnce
    LevelFilters
CHECK_DEADLOCK FALSE

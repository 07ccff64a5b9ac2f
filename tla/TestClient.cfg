SPECIFICATION ClientSpec
CONSTANTS
    MaxReply = 5
    Replies <- MCReplies
    MayBreak = TRUE
INVARIANTS PlainReplyTaken
PROPERTIES CallEnds
CHECK_DEADLOCK FALSE

SPECIFICATION SeqSpec
CONSTANTS
    MaxLength = 4
    Inputs <- AllTexts
    TokenCounts = {2, 30}
    Requests <- AllRequests
    max_header_size = 16
    max_body_size = 2
    MaxFrames = 2
    Streams <- AllStreams
    payload_size_basic = 2
    payload_size_extended = 5
    SizeRange = 32
    max_message_size = 8
    MaxTimers = 7
    MaxTime = 2
    MaxOps = 8
    MaxCalls = 2
INVARIANTS TypeOK TokensOfText Recognized CountSuffices KeysWalked ItemPerDelimiter RequestRead FramesRead QueueConsistent
CHECK_DEADLOCK FALSE

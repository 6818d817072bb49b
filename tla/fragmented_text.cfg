SPECIFICATION FrameSpec
CONSTANTS
    MaxFrames = 2
    Streams <- FrameStreams
    payload_size_basic = 2
    payload_size_extended = 5
    SizeRange = 32
    max_message_size = 8
INVARIANTS TextComplete
CHECK_DEADLOCK FALSE

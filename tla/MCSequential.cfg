SPECIFICATION MCSpec
CONSTANTS
    Byte = {b1, b2}
    MaxChunk = 3
    Chunks <- MCChunks
    Sizes = {0, 1, 2, 3, 4, 5, 6, 7, 8}
    COMPACT_THRESHOLD = 2
    MaxStorage = 7
    Objects = {o1, o2, o3}
    Fds = {3, 4, 5}
    Words <- MCWords
    Space = " "
    NoWord = ""
    Upper <- MCUpper
    Digits <- MCDigits
    IntMax = 12
    Lines <- MCLines
    Requests <- MCRequests
    Keys <- MCKeys
    Nil = Nil
    NoExpiry = NoExpiry
    TicksPerSecond = 2
    MaxClock = 3
    Base = 2
    HEADER_SIZE = 2
    MAX_FRAME_SIZE = 2
    Payloads <- MCPayloads
    ReadChunk = 7
    MaxFrames = 4
    Inputs = {"PING", "QUIT", "Quit", "too long"}
    EmptyLine = ""
    Text <- MCText
    Answer <- MCAnswer
    ServerQuits = {"QUIT", "Quit"}
    ClientQuits = {"QUIT"}
    RecvSize = 3
    MaxLines = 4
INVARIANTS
    BufferBounded
    DescriptorsOwned
    ParserExact
    ResponsesTrue
    StreamDecoded
    ClientInStep
PROPERTIES
    RefinesByteQueue
    ImplementsChannel
    ClientComesBack
CHECK_DEADLOCK FALSE

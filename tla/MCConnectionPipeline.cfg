SPECIFICATION Spec
CONSTANTS
    RequestSize <- MCRequestSize
    ResponseSize <- MCResponseSize
    HeaderSize = 1
    ErrorSize = 1
    ReadChunk = 3
    MaxReadBufferBytes = 4
    WriteLowWatermarkBytes = 0
    WriteHighWatermarkBytes = 3
    WriteHardLimitBytes = 4
    MaxWriteBytesPerEvent = 2
    SendRoom = 3
    MaxRequests = 4
INVARIANT
    PipelinedExecuted
CHECK_DEADLOCK FALSE

SPECIFICATION SessionSpec
CONSTANTS
    Radix = 2
    StringSpan = 16
    MaxPacketSize = 12
    ProtocolName <- Name
    Messages <- DeviceMessages
    StrayStreams <- Strays
    MaxWrites = 3
    Topics <- OwnTopics
INVARIANTS
    TypeOK
    InStep
    WrittenIsReadable
    DecodedIsWhole
    AnswersInOrder
    ToldOnce
CHECK_DEADLOCK FALSE

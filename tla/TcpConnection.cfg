\* Two messages of three bytes, a kernel buffer that takes two at a time.
SPECIFICATION FairSpec
CONSTANTS
    MaxSends = 2
    MessageLen = 3
    Room = 2
    HighWaterMark = 3
INVARIANTS
    WritingIffWaiting
    OnlyRacesHurt
PROPERTIES
    ImplementsOutputStream
    SentIsWritten
    ShutdownCompletes

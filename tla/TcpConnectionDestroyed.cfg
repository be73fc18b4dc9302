\* One short message is enough: the peer closes the connection.
CONSTANTS
    MaxSends = 1
    MessageLen = 1
    Room = 1
    HighWaterMark = 2
SPECIFICATION Spec
INVARIANT
    DestroyedWhileOpen

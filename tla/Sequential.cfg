\* Bytes are bits.  The linear array starts with two free cells and may grow
\* to six; the ring starts with three and may grow to seven.  The calendar is
\* walked from 1900 to 2500, the years that date.h allows, and the zones are
\* looked at every ten minutes for two hours around their transitions.
\* The integers are those of eleven bits, from -1024 to 1023.
SPECIFICATION MCSpec
CONSTANTS
    kCheapPrepend = 2
    kInitialSize = 2
    kExtraSize = 2
    Bytes = {0, 1}
    MaxLen = 3
    MaxSize = 6
    Uninitialized = Uninitialized
    MaxRingLen = 2
    MaxRingSize = 7
    FirstYear = 1900
    LastYear = 2500
    Around = 7200
    Step = 600
    Greatest = 1023
INVARIANTS
    CalendarAgrees
    TimesReadBack
    IntegersReadBack
PROPERTIES
    ImplementsByteQueue
    RingImplementsByteQueue
\* a walk of the calendar or of a zone ends
CHECK_DEADLOCK FALSE

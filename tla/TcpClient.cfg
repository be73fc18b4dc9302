\* Two calls of connect(), two calls of stop() from the loop's thread or another, any
\* number of attempts, retries and reconnections.
CONSTANTS
    kInitRetryDelayMs = 1
    kMaxRetryDelayMs = 3
    MaxConnects = 2
    MaxStops = 2
SPECIFICATION Spec
\* A failed assertion ends the program.
CHECK_DEADLOCK FALSE
INVARIANTS
    OneAttempt
    KeepsTrying
    DestroyedIsNotCalled
PROPERTY
    StopIsFinal

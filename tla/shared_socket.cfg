\* One connection is enough for its two threads to meet.
SPECIFICATION EchoSpec
CONSTANTS
    t1 = t1
    Tasks <- OneConnection
INVARIANT LivesAsLongAsHeld
\* The server waits for connections for ever.
CHECK_DEADLOCK FALSE

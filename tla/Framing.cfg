\* Messages of up to two pieces.
SPECIFICATION Spec
CHECK_DEADLOCK FALSE
CONSTANTS
    MaxSize = 2
    Window = 2
INVARIANT
    EofMeansClosed

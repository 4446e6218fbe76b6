\* One stream; h2 is longer than the two length bytes can say, and h3 has a type
\* without a handler.  Handlers that have returned stay so.
SPECIFICATION FairSpec
CHECK_DEADLOCK FALSE
CONSTANTS
    h1 = h1
    h2 = h2
    h3 = h3
    Streams = {s1}
    Headers = {h1, h2, h3}
    HeaderSize <- Sizes
    MaxHeader = 2
    Handled = {h1, h2}
    Chunks = 3
    Window = 2
    NoHeader = NoHeader
INVARIANTS
    TypeOK
    HeadersUnderstood
    HandlerReleases
    AnswerComplete
PROPERTIES
    ImplementsRelay
    EndedStreamsReleased

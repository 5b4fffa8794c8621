SPECIFICATION FairSpec
CONSTANTS
    Buffers = {1, 2, 3, 4, 5, 6, 7, 8, 9, 10, 11}
    BufferSize = 3
    MaxBuffers = 3
    MaxLines = 10
INVARIANTS
    NoSilentLoss
    BuffersAreExclusive
PROPERTY LinesGetWritten

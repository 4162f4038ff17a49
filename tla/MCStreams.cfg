SPECIFICATION FairSpec
CONSTANTS
    Writers = {w1, w2}
    ChunksPerWrite = 2
    MaxOps = 2
    MaxChunks = 2
    Readers = {r1}
    Window = 1
INVARIANTS TypeOK WritesNeverInterleave FinTruncatesNothing
PROPERTIES ViaOwnsTheStream ImplementsByteStream ReaderLearns WriterReleased
CHECK_DEADLOCK FALSE

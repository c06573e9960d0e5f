SPECIFICATION Spec
CONSTANTS
    Streams <- MCStreams
    ChunkLens = {0, 1, 2, 3, 5, 7}
    Stamps <- NoStamp
    BufMax = 14
    SlotSize = 9
INVARIANTS
    TypeOK
    EachByteOnce
    NalUnitsWhole
    Resynchronises

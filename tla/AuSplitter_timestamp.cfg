SPECIFICATION Spec
CONSTANTS
    Streams <- FewStreams
    ChunkLens = {0, 5}
    Stamps <- MCStamps
    BufMax = 40
    SlotSize = 20
INVARIANT VideoOnly

SPECIFICATION Spec
CONSTANTS
    Values <- MCArrays
    Size <- MCSize
    Type <- MCType
    SnapshotIds <- MCNone
    SnapshotValues <- MCNone
    Schemas <- MCNoSchemas
    Batches <- MCNone
    MicroBatches <- MCNone
    LoopsBack = FALSE
    None = None
    UnknownReference = UnknownReference
    InvalidData = InvalidData
    MaxBaseSnapshots = 2
    MaxSent = 4
    MaxLost = 0
INVARIANTS PatchesReconstruct

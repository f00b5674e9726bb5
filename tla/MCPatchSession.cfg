SPECIFICATION Spec
CONSTANTS
    Values <- MCValues
    Size <- MCSize
    Type <- MCType
    SnapshotIds <- MCSnapshotIds
    SnapshotValues <- MCSnapshotValues
    Schemas <- MCSchemas
    Batches <- MCBatches
    MicroBatches <- MCMicroBatches
    LoopsBack = TRUE
    None = None
    UnknownReference = UnknownReference
    InvalidData = InvalidData
    MaxBaseSnapshots = 2
    MaxSent = 4
    MaxLost = 1
INVARIANTS TypeOK PreviousInSync PatchesReconstruct SnapshotsHeld VectorsSentInFull
PROPERTIES ShrinkingFails

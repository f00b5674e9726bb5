SPECIFICATION Spec
CONSTANTS
    Peers = {peer1, peer2}
    Batches <- MCNoBatches
    MicroBatches <- MCSameSize
    MaxBaseSnapshots = 2
    None = None
    MaxSent = 3
    MaxLost = 0
    MaxResets = 0
INVARIANTS TemplatesInSync

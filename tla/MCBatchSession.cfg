SPECIFICATION Spec
CONSTANTS
    Peers = {peer1, peer2}
    Batches <- MCBatches
    MicroBatches <- MCMicroBatches
    MaxBaseSnapshots = 2
    None = None
    MaxSent = 3
    MaxLost = 1
    MaxResets = 1
SYMMETRY MCSymmetry
INVARIANTS TypeOK ColumnsAsLastSent LayoutsInSync RefusedAfterLoss
    OneTemplatePerLayout CellsReadable

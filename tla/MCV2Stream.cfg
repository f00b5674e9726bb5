SPECIFICATION Spec
CONSTANTS
    Depth = 3
    Docs <- MCDocs
    LongKeys = {}
    None = None
    InvalidData = InvalidData
INVARIANTS TypeOK TablesInSync Roundtrip LiteralOnce
PROPERTIES Returns

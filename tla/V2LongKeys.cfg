SPECIFICATION Spec
CONSTANTS
    Depth = 3
    Docs <- MCLongDocs
    LongKeys = {"long"}
    None = None
    InvalidData = InvalidData
INVARIANTS Roundtrip

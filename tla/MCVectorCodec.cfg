SPECIFICATION Spec
CONSTANTS
    W = 8
    I64Vectors <- MCSignedVectors
    U64Vectors <- MCUnsignedVectors
    StrVectors <- MCStrVectors
    None = None
    InvalidData = InvalidData
    Misread = Misread
INVARIANTS TypeOK NeverWrong FailsOnOverflowOnly FramePays

SPECIFICATION Spec
CONSTANTS
    Chars <- MCChars
    Strings <- MCStrings
    Fields <- MCFields
    NoField = NoField
    SndEnums <- MCSndEnums
    RcvEnums <- MCRcvEnums
    None = None
    ReferenceError = ReferenceError
    InvalidData = InvalidData
    MaxSent = 4
    MaxBroken = 2
INVARIANTS TypeOK TablesInSync RegisteredOnce
PROPERTIES RedeliveryHarmless ImplementsChannel

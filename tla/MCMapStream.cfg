SPECIFICATION Spec
CONSTANTS
    Maps <- MCMaps
    None = None
    UnknownReference = UnknownReference
    MaxSent = 3
INVARIANTS TypeOK OwnMessagesDecode MapMessagesDecode LiteralKeyOnce
PROPERTIES IdsAreForever

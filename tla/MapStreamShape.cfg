SPECIFICATION Spec
CONSTANTS
    Maps <- MCFlat
    None = None
    UnknownReference = UnknownReference
    MaxSent = 3
INVARIANTS RemoteDecodes

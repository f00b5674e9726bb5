SPECIFICATION Spec
CONSTANTS
    Maps <- MCNested
    None = None
    UnknownReference = UnknownReference
    MaxSent = 3
INVARIANTS RemoteNeverWrong

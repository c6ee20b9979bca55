CONSTANTS
    Accounts = {a1}
    None = None
    MaxDepth = 3
    MaxCalls = 1
SPECIFICATION Spec
INVARIANT LoginFindsDocument

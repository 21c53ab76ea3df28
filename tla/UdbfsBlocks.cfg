CONSTANTS
    h1 = h1
    sig1 = sig1
    NULL = NULL
    NoBlock = NoBlock
    Handle = {h1}
    W = 2
    NBlocks = 27
    NInodes = 4
    Meta = 2
    MaxSize = 24
    MaxFiles = 1
    MaxCrashes = 0
    Signature = {sig1}
    Allow = {}
SPECIFICATION Spec
INVARIANTS FilesReadBack

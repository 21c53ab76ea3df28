CONSTANTS
    h1 = h1
    sig1 = sig1
    NULL = NULL
    NoBlock = NoBlock
    Handle = {h1}
    W = 1
    NBlocks = 8
    NInodes = 8
    Meta = 3
    MaxSize = 2
    MaxFiles = 2
    MaxCrashes = 1
    Signature = {sig1}
    Allow = {"torn_unmount"}
SPECIFICATION Spec
INVARIANTS FilesReadBack OneOwner

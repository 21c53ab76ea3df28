CONSTANTS
    h1 = h1
    sig1 = sig1
    NULL = NULL
    NoBlock = NoBlock
    Handle = {h1}
    W = 1
    NBlocks = 10
    NInodes = 6
    Meta = 2
    MaxSize = 5
    MaxFiles = 2
    MaxCrashes = 0
    Signature = {sig1}
    Allow = {"free"}
SPECIFICATION Spec
INVARIANTS TypeOK FilesReadBack OneOwner CountsCovered  
 

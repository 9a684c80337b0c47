\* The planning node may be a worker, and a registered node a host.
CONSTANTS
    None = None
    MaxArgs = 0
    MaxName = 0
    MaxListing = 0
    Names <- ThreeNames
    SelfNodes <- Selves
    RemoteNodes <- Remotes
    Metas <- DenseModel
    Ctx = 8192
SPECIFICATION Spec
INVARIANT SplitAligns
CHECK_DEADLOCK FALSE

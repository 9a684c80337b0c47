\* Inputs grow up to a bound and then stop growing.
CONSTANTS
    None = None
    MaxArgs = 5
    MaxName = 6
    MaxListing = 4
    Names <- ThreeNames
    SelfNodes <- HostSelf
    RemoteNodes <- Remotes
    Metas <- CatalogAndSome
    Ctx = 8192
SPECIFICATION Spec
INVARIANTS LastPairDecides ServesAdvertised SlugJoinsWords PickIsRight
INVARIANTS ProfileIsForm LoadForgetsForm PlanIsLaunched
INVARIANTS PoolsWithinTotals SharesFit SplitAlignsOnHost EndpointsAreVersioned
CHECK_DEADLOCK FALSE

SPECIFICATION Spec
CONSTANTS
    Requests = {r1, r2}
    js = js
    sw = sw
    api = api
    Keys = {js, sw, api}
    Entrypoints = {sw}
    AssetPaths = {js, sw}
    Configs <- MCConfigs
    Inputs <- MCInputs
    Replies <- MCReplies
    AuthStatuses = {302}
    MaxReloads = 1
    MaxArrivals = 3
    NoRoute = NoRoute
    None = None
SYMMETRY Symmetry
INVARIANTS
    TypeOK
    OnlyCheckedReachUpstream
    OnlyEligibleAssets
    NothingTooBig
    HitsBelong
CHECK_DEADLOCK FALSE

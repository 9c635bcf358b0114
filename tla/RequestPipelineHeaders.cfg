SPECIFICATION Spec
CONSTANTS
    Requests = {r1, r2}
    js = js
    sw = sw
    api = api
    Keys = {js, sw, api}
    Entrypoints = {sw}
    AssetPaths = {js, sw}
    Configs <- MCConfigs
    Inputs <- MCInputs
    Replies <- MCReplies
    AuthStatuses = {302}
    MaxReloads = 1
    MaxArrivals = 2
    NoRoute = NoRoute
    None = None
INVARIANT SecurityHeadersOnEveryResponse
CHECK_DEADLOCK FALSE

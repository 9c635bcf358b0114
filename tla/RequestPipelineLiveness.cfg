SPECIFICATION FairSpec
CONSTANTS
    Requests = {r1, r2}
    js = js
    sw = sw
    api = api
    Keys = {js, sw, api}
    Entrypoints = {sw}
    AssetPaths = {js, sw}
    Configs <- MCPlain
    Inputs <- MCFewInputs
    Replies <- MCFewReplies
    AuthStatuses = {302}
    MaxReloads = 1
    MaxArrivals = 2
    NoRoute = NoRoute
    None = None
PROPERTIES
    RequestsSettle
    InsertsRun
CHECK_DEADLOCK FALSE

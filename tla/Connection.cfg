SPECIFICATION FairSpec
CONSTANTS
    Conns = {c1, c2}
    lb = lb
    client = client
    IPs = {lb, client}
    Trusted = lb
    PREFIX <- MCPrefix
    CRLF = CRLF
    MAX_HEADER = 5
    Streams <- MCStreams
    Snapshots <- MCSnapshots
    MaxTlsFailures = 0
    MaxRead = 2
    None = None
INVARIANTS
    TypeOK
    StreamIntact
    ResolvedIsClient
    OnlyHonestHeaders
    BanHoldsFromCheck
PROPERTIES
    HeaderStageEnds
CHECK_DEADLOCK FALSE

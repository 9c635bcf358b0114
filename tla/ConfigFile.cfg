SPECIFICATION Spec
CONSTANTS
    None = None
    Numerals <- MCNumerals
    UpperCase <- MCUpperCase
    Addresses <- MCAddresses
    Unloadable <- MCUnloadable
    U16_MAX = 99
    USIZE_MAX = 511
    Kilo = 2
    AvailableParallelism = 4
    Documents <- MCDocuments
    Annotated <- MCAnnotated
    Torn <- MCTorn
    LineComments <- MCLineComments
    BlockComments <- MCBlockComments
    Vocabulary <- MCVocabulary
    Urls <- MCUrls
    RequestHosts <- MCRequestHosts
    RequestPaths <- MCRequestPaths
    MaxItems = 4
    MaxBody = 4
INVARIANTS
    MeansWhatIsWritten
    TornFileIsPrefix
    SizesNeverWrap
    RoutesReachable
    RewriteKeepsRest
    CertificatesCoverHosts

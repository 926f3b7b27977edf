SPECIFICATION FairSpec
CONSTANTS
    Streams <- MCStreams
    None = None
    Configs <- MCConfigs
    NumVkApps = 2
    maxCacheErrors = 2
INVARIANTS
    TypeOK
    FetchOnlyWhenStale
    VkProtected
    LimitMeansInvalidation
PROPERTIES
    CallAnswered

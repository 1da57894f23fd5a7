SPECIFICATION ServicesSpec
CONSTANTS
    Procs = {p1, p2, p3, p4}
    NoProc = NoProc
    MaxKills = 1
    MaxRemovals = 0
    Auditors = {a1, a2}
    MaxSeq = 4
    MaxClock = 2
    MaxDamages = 1
    Savers = {w1, w2}
    Keep = 2
    MaxVersions = 2
    MaxPowerCuts = 1
    MaxRotations = 2
    Corpus = 5
    EveryN = 1
    MaxAdapters = 4
    MaxRuns = 3
    NoCalibrator = NoCalibrator
    Ratios <- MCRatios
    Indexed = 3
    K = 2
    MAX_OVER_FETCH = 8
    Calibrators <- MCCalibrators
    MaxQueries = 1
    Encoders = {e1, e2}
    Profiles = {f1, f2}
    Requests <- MCRequests
    MaxCalls = 2
    MaxCutRows = 1
    Threads = {t1, t2}
    Docs = {1, 2, 3}
    Relevance <- MCRelevance
    Candidates = 3
    CascadeK = 2
    Capacity = 2
    MaxSearches = 2
    Openers = {o1, o2}
    MaxOpens = 4
    Load = 3
    InitialBatch = 0
    MinBatch = 3
    SuggestedBatch = 5
    MaxSignals = 3
    MaxInvocations = 2
    Records = {r1, r2, r3}
    DURABILITY_SAMPLE = 2
    MaxEngines = 2
    Vectors = 3
    MaxUpserts = 3
    MaxStoreKills = 2
    Sources = {1, 2, 3, 4}
    PoolMax = 3
    SampleSize = 3
    Heldout = 1
    MinSample = 1
    MaxEdits = 1
    Corpora <- MCCorpora
    PageSizes = {1, 2, 3}
    Cutoffs = {1, 2}
    Clusterings <- MCClusterings
INVARIANTS
    CollectionInv
    CopyOutlivesNeed
    TrailIsOneChain
    DamageIsFound
    PrunesAreDeclared
    TargetIsWhole
    AckedSurvives
    AdapterNeverGoesBack
    MergeKeepsOrder
    MergeFavoursNoSide
    SettledHitsAreInTheirSpace
    EndsGiveTheStoresAnswer
    RestingAnswerIsFull
    AnswersAreOfTheirTexts
    ModelSettlesTheWidth
    NothingIsStranded
    BestAreKept
    VersionNeverAhead
    OldManifestIsKept
    StopsWithinABatch
    SecondSignalEnds
    BridgingLosesNothing
    RetentionNeverHurts
    DecisionsAgree
    PassedMeansKept
    OneHandleAtATime
    RecordsKeepTheirVectors
    StratificationIsFair
    HealthIsExact
    SampleIsAligned
CHECK_DEADLOCK FALSE

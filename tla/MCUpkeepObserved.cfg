SPECIFICATION Spec
CONSTANTS
    Lines <- MCLines
    MaxLines = 3
    Limits = {0, 3}
    DefaultLimit = 1
    MaxLimit = 2
    MajorAbove = 2
    MaxBytes = 4
    MaxFileBytes = 3
    SniffBytes = 2
    MaxLineRange = 2
    MaxLine = 4
    DocIds <- MCDocIds
    ContentsOf <- MCContentsOf
    Trees <- MCTrees
    MaxRowId = 3
    NoSlug = "none"
    Slugify <- MCSlugs
    Openers = {o1, o2}
    GraphNodeCap = 3
    SearchLimit = 1
    Commands = {c1, c2, c3}
    Places <- MCPlaces
    Managed = {"x"}
    Kept = {"y"}
    BaseName <- MCBaseName
    NoRepo = NoRepo
    Holders = {h1, h2}
    SecretKeys = {k1, k2}
    SecretValues = {s1}
    Phrases = {f1, f2}
    NoSecret = NoSecret
    Hosts <- MCHosts
    MaxPuts = 3
    Binaries = {b1, b2}
    NoUnit = NoUnit
    RestartLimit = 2
    MaxMishaps = 2
SYMMETRY Alike
INVARIANTS
    TypeOK
    \* One at a time: each is violated.
    \* CountsNeverDrift
    \* LinksLeadThere
    \* ChangeIsShown
    \* InitialIsEmpty
    \* FilesAreKept
    \* InitRegisters
    \* MirrorsReposAdd
    \* SecretsShared
    \* NotFoundIsGone
    \* DetectedIsAvailable
    \* StartedIsNew
    \* DaemonHasItsFile
    \* BeyondIsBeyondEof
    \* NoCRShown
CHECK_DEADLOCK FALSE

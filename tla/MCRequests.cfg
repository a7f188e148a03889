SPECIFICATION RequestsSpec
CONSTANTS
    Projects <- MCProjects
    ScanIds = {s1, s2}
    ListIds = {l1}
    GenIds = {g1, g2}
    MaxConcurrent = 1
    NoScan = NoScan
    Tasks <- MCTasks
    Calls = {c1, c2}
    One = 3
    StoredLists <- MCLists
    Puts = {r1, r2}
    MaxWrites = 2
    Presses = {p1, p2, p3}
    Stops = {x1, x2}
    PttCap = 1
    Letters <- MCLetters
    Rules <- MCRules
    PartialRules <- MCPartialRules
    WakeWord <- MCWakeWord
    KnownVariants <- MCVariants
    Transcripts <- MCTranscripts
INVARIANTS
    RegisteredListed
    MicFollowsKey
    IntentIsRead
PROPERTIES
    MoveSettles
    SectionsKept
    WorkEnds
CHECK_DEADLOCK FALSE

SPECIFICATION FairSpec
CONSTANTS
    app = app
    lib = lib
    bad = bad
    nowhere = nowhere
    amd64 = amd64
    arm64 = arm64
    unspecified = unspecified
    Images = {app, lib, bad}
    PlaceOf <- Places
    NoPlace <- nowhere
    PinnedTo <- Pinned
    Digests = {"d0", "d1", "d2", "d3", "d4"}
    NoDigest = "none"
    Platforms <- AllPlatforms
    Platform <- amd64
    NoPlatform <- unspecified
    ContentsOf <- Contents
    Inputs <- Streams
    MirrorFlags <- Flags
    DefaultRegistry = "no Aqua registry"
    AquaRegistries <- AquaList
INVARIANTS
    TypeOK
    MirroredAsConfigured
    ExitZeroMeansScanned
    SummaryAddsUp
    NoImageScannedTwice
    ResolvesToPlatform
PROPERTIES
    ImplementsContract
    SignalEnds
CHECK_DEADLOCK FALSE

SPECIFICATION FairSpec
CONSTANTS
    ARCHES <- TwoProfiles
    TEST_CASES <- FourCases
    NoPkg = NoPkg
    AnyTier = AnyTier
    Lines <- AllLines
    Fates <- AllFates
INVARIANTS ReportIsTruth OwnWork
PROPERTIES ParallelIsSerial Terminates

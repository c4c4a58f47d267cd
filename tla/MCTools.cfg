SPECIFICATION FairSpec
CONSTANTS
    i1 = i1
    Handle <- MCHandle
    Instance = {i1}
    nullptr = nullptr
    CommandLine <- MCCommandLine
    World = {"w0", "w1"}
    FreshWorld = "w0"
    TargetBenchTime = 2
    MaxTicks = 3
    ArgumentList <- MCArgumentList
    arguments_names <- MCNames
    Tests = 2
CHECK_DEADLOCK FALSE
INVARIANTS
    InstanceAliveWhileUsed
    ExitCodeTells
    ExecutesWhatWasGiven
    WarningIsJustified
    ParseAsDocumented
PROPERTY
    ProgramEnds

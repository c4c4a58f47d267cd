SPECIFICATION FairSpec
CONSTANTS
    t1 = t1
    t2 = t2
    i1 = i1
    i2 = i2
    Thread <- MCThread
    Unasking <- MCUnasking
    File <- MCFile
    Exports <- MCExports
    NameSample <- MCNameSample
    Instance <- MCInstance
    NULL = NULL
    Config <- MCConfig
    PATH_MAX_LENGTH = 12
    MaxCalls = 2
INVARIANTS
    TypeOK
    MessageDescribesLastError
    OptionsInOrder
    ResultMatchesCode
    InstanceHasOneHolder
    CodeStaysLoaded
    CreateFunctionAsDocumented
PROPERTY
    EveryCallReturns

SPECIFICATION ApiSpec
CONSTANTS
    o1 = o1
    o2 = o2
    o3 = o3
    r1 = r1
    r2 = r2
    b1 = b1
    b2 = b2
    b3 = b3
    h1 = h1
    h2 = h2
    i1 = i1
    i2 = i2
    Obj <- MCObj
    Raw <- MCRaw
    Buffer <- MCBuffer
    NULL = NULL
    Static = Static
    HostResultOwned = FALSE
    Handle <- MCHandle
    Instance <- MCInstance
    nullptr = nullptr
SYMMETRY MCSymmetry
INVARIANTS
    OneOwner
    OutputReadable
    ReleasedAtMostOnce
    InstanceHasOneOwner

SPECIFICATION FairSpec
CONSTANTS
    render_threads = 2
    PARAM_SIZE = 2
    RoomMargin = 2
    WakeBelow = 2
    TEX_CACHE_MAX = 1
    Textures = {"a", "b"}
    MaxTris = 3
    MaxWrites = 1
INVARIANTS TextureKept
PROPERTIES ImplementsTriangles WaitsEnd

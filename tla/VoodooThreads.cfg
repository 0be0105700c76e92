SPECIFICATION Spec
CONSTANTS
    render_threads = 4
    PARAM_SIZE = 2
    RoomMargin = 2
    WakeBelow = 2
    TEX_CACHE_MAX = 1
    Textures = {"a", "b"}
    MaxTris = 2
    MaxWrites = 0
INVARIANT TextureKept

\* A read before a write: the write loses its block.
CONSTANTS
    a = a
    b = b
    ca = ca
    cb = cb
    ct = ct
    cz = cz
    ha = ha
    hb = hb
    hp = hp
    hq = hq
    p = p
    q = q
    Blocks = {a, b}
    Hashes = {ha, hb, hp, hq}
    HashOf <- DistinctHashes
    NoRecords = NoRecords
    MaxUse = 3
    DbFaults = {}
    Files = {f}
    NoFile = NoFile
    Fds = {d}
    NoFd = NoFd
    Hole = Hole
    Chunks = {ca, cb}
    Short = {}
    ZeroLed = {}
    Padded <- BlocksOfChunk
    BLOCK_SIZE = 8
    HASH_SIZE = 4
    FILLER_SIZE = 5
    Offsets = {0, 8}
    ReadSizes = {8}
    IoFaults = {}
    MaxBlocks = 2
    MaxSlots = 3
    MaxRows = 4
    Lossless = TRUE
SPECIFICATION Spec
INVARIANTS
    EveryReferenceResolves

\* Writes only, with short slices, crashes and restarts: no block is lost.
CONSTANTS
    a = a
    b = b
    ca = ca
    cb = cb
    ct = ct
    cz = cz
    ha = ha
    hb = hb
    hp = hp
    hq = hq
    p = p
    q = q
    Blocks = {a, p, q}
    Hashes = {ha, hb, hp, hq}
    HashOf <- DistinctHashes
    NoRecords = NoRecords
    MaxUse = 2
    DbFaults = {}
    Files = {f, g}
    NoFile = NoFile
    Fds = {d}
    NoFd = NoFd
    Hole = Hole
    Chunks = {ca, ct}
    Short = {ct}
    ZeroLed = {}
    Padded <- BlocksOfChunk
    BLOCK_SIZE = 8
    HASH_SIZE = 4
    FILLER_SIZE = 5
    Offsets = {0, 8}
    ReadSizes = {}
    IoFaults = {"crash"}
    MaxBlocks = 2
    MaxSlots = 2
    MaxRows = 5
    Lossless = TRUE
SPECIFICATION Spec
INVARIANTS
    EveryReferenceResolves
    AckedWriteLands
    UseCountCoversReferences
PROPERTIES
    ImplementsBackup

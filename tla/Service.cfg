\* Reads and writes while the database and the disk fail, with colliding digests.
CONSTANTS
    a = a
    b = b
    ca = ca
    cb = cb
    ct = ct
    cz = cz
    ha = ha
    hb = hb
    hp = hp
    hq = hq
    p = p
    q = q
    Blocks = {a, b, p}
    Hashes = {ha, hp}
    HashOf <- CollidingHashes
    NoRecords = NoRecords
    MaxUse = 3
    DbFaults = {"insert", "update", "conn"}
    Files = {f}
    NoFile = NoFile
    Fds = {d}
    NoFd = NoFd
    Hole = Hole
    Chunks = {ca, cb, ct}
    Short = {ct}
    ZeroLed = {}
    Padded <- BlocksOfChunk
    BLOCK_SIZE = 8
    HASH_SIZE = 4
    FILLER_SIZE = 5
    Offsets = {0, 8}
    ReadSizes = {3, 8}
    IoFaults = {"pwrite", "read", "crash"}
    MaxBlocks = 2
    MaxSlots = 2
    MaxRows = 3
    Lossless = FALSE
SPECIFICATION FairSpec
INVARIANTS
    TypeOK
    RowsAddressed
    OneRowPerHash
    ServedBlocksMatch
PROPERTIES
    HandlerReturns

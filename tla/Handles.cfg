\* Two descriptors on the files, with append, truncation and unlink, and reads
\* between the writes, on a session that may break.
CONSTANTS
    a = a
    b = b
    ca = ca
    cb = cb
    ct = ct
    cz = cz
    ha = ha
    hb = hb
    hp = hp
    hq = hq
    p = p
    q = q
    Blocks = {a, b}
    Hashes = {ha, hb, hp, hq}
    HashOf <- DistinctHashes
    NoRecords = NoRecords
    MaxUse = 2
    DbFaults = {"update", "conn"}
    Files = {f, g}
    NoFile = NoFile
    Fds = {d, e}
    NoFd = NoFd
    Hole = Hole
    Chunks = {ca, cb}
    Short = {}
    ZeroLed = {}
    Padded <- BlocksOfChunk
    BLOCK_SIZE = 8
    HASH_SIZE = 4
    FILLER_SIZE = 5
    Offsets = {0, 8}
    ReadSizes = {8}
    IoFaults = {"pwrite", "crash"}
    MaxBlocks = 2
    MaxSlots = 2
    MaxRows = 4
    Lossless = FALSE
SYMMETRY Symmetry
SPECIFICATION Spec
INVARIANTS
    CleanWriteStores
PROPERTIES
    WritesStayInWindow
    ImplementsBackup

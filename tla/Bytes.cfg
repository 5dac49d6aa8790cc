\* Blocks of two bytes, a raw file of three slots, requests of all sizes and
\* offsets that fit.
CONSTANTS
    BLOCK_SIZE = 2
    HASH_SIZE = 1
    Bytes = {0, 1}
    Unsure = Unsure
    Hole = Hole
    Filler <- FillerBytes
    Offsets = {0, 1, 2, 3, 4, 5}
    Sizes = {1, 2, 3, 4, 5, 6}
    MaxSlots = 3
SPECIFICATION Spec
INVARIANTS
    TypeOK
    PromisesKept
    ReadGathersTooMuch
PROPERTIES
    WriteStaysInRange

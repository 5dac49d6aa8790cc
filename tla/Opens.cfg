\* Two clients open, create and remove two files.
CONSTANTS
    Clients = {c1, c2}
    Names = {a, b}
    Inner = {a}
    LinkNames = {}
    Fds = {d1, d2}
    Dirs = {h}
    NoDir = NoDir
    NoPath = NoPath
    Gone = Gone
    NotDirIsLeft = TRUE
    Operations = {"mkdir", "rmdir", "create", "open", "unlink", "mknod", "symlink", "statfs"}
    Operator = {}
    MaxCalls = 0
SPECIFICATION Spec
INVARIANTS
    OpenIsBacked

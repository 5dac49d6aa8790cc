\* Listings, through links and renames that do not happen, while the operator
\* adds and removes names.
CONSTANTS
    Clients = {c}
    Names = {a, b}
    Inner = {a}
    LinkNames = {b}
    Fds = {d}
    Dirs = {h}
    NoDir = NoDir
    NoPath = NoPath
    Gone = Gone
    NotDirIsLeft = TRUE
    Operations = {"create", "unlink", "rmdir", "opendir", "rename"}
    Operator = {"add", "remove"}
    MaxCalls = 2
SPECIFICATION Spec
INVARIANTS
    TypeOK
    ListingsKeepNames

\* Requests of two clients, while the operator adds names.
CONSTANTS
    Clients = {c1, c2}
    Names = {a, b}
    Inner = {a}
    LinkNames = {}
    Fds = {d}
    Dirs = {h}
    NoDir = NoDir
    NoPath = NoPath
    Gone = Gone
    NotDirIsLeft = FALSE
    Operations = {"mkdir", "rmdir", "create", "open", "unlink", "opendir"}
    Operator = {"add"}
    MaxCalls = 0
SPECIFICATION Spec
PROPERTIES
    RequestsStayInPlace

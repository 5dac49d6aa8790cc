---------------------------- MODULE QubeNamespace ----------------------------
(***************************************************************************)
(* Names of the mount: q_fuse's handlers for directories, for creating,    *)
(* opening and removing names, and for what they ignore, over              *)
(* q_FS::qfs_get_root_path, which turns a path of the mount into one of    *)
(* the raw directory.                                                      *)
(*                                                                         *)
(* The kernel looks a path up (qfs_getattr) before it sends a request for  *)
(* it.  Requests of several clients may wait for the one thread of q_fuse, *)
(* so that others are served, and an operator may change the raw directory,*)
(* between the lookup and the handler.  The kernel locks the directories   *)
(* of the mount that a request is to change from one to the other.         *)
(* libfuse is external: it names what a request is for, and an open file   *)
(* or directory, by the path it has in the library's own tree of names,    *)
(* which follows the answers of the handlers and not the raw directory.    *)
(*                                                                         *)
(* A path is a sequence of one or two names.                               *)
(***************************************************************************)
EXTENDS Integers, Sequences, FiniteSets

CONSTANTS
    Clients,     \* threads of the kernel that send requests
    Names,       \* names in the root of the mount
    Inner,       \* bound: the names that may be used inside a directory
    LinkNames,   \* names that may be symbolic links of the raw directory
    Fds,         \* open files of the kernel
    Dirs,        \* open directories of the kernel, current ones included
    NoDir,       \* none of them
    NoPath,      \* not a path: a name that the library forgot
    Gone,        \* the hidden name of a file removed while open, a directory
                 \* that was removed: nothing of the raw directory
    NotDirIsLeft, \* of the C library: realpath leaves the path of a file
                 \* that should be a directory, as it does of what is missing
    Operations,  \* what clients ask for
    Operator,    \* what the operator does in the raw directory meanwhile
    MaxCalls     \* bound: calls of readdir on an open directory

Root == <<>>

Tops == {<<n>> : n \in Names}

Paths == Tops \cup (Names \X Inner)

\* The handlers that do nothing and report success.
IgnoredChanges == {"link", "chmod", "chown", "truncate"}
IgnoredXattrs == {"setxattr", "getxattr", "listxattr", "removexattr"}
IgnoredChecks == {"fsyncdir", "destroy", "access"}
IgnoredCalls == {"lock", "utimens", "bmap", "ioctl", "poll", "flock", "fallocate"}

\* Those that the kernel locks a directory for.
Changes == {"mkdir", "rmdir", "create", "unlink", "rename", "mknod", "symlink"}

\* Those that only ask the host about the raw path.
Inquiries == {"readlink", "statfs"}

NoChange == IgnoredChanges \cup IgnoredXattrs \cup IgnoredChecks \cup IgnoredCalls
                \cup Inquiries

OperationKinds == Changes \cup {"open", "opendir"} \cup NoChange

ASSUME NamespaceAssumption ==
    /\ Inner \subseteq Names
    /\ LinkNames \subseteq Names
    /\ NoDir \notin Dirs
    /\ NoPath \notin Paths \cup {Root}
    /\ Gone \notin Paths \cup {Root, NoPath}
    /\ NotDirIsLeft \in BOOLEAN
    /\ Operations \subseteq OperationKinds
    /\ Operator \subseteq {"add", "remove"}
    /\ MaxCalls \in Nat

VARIABLES
    raw,      \* what each path of the raw directory is
    links,    \* where the names that are links point
    outside,  \* paths of the host that requests brought about
    fds,      \* open files: the library's path, and the raw descriptor
    dirs,     \* open directories, with what readdir has left and has shown
    reading,  \* the open directory that the loop of qfs_readdir is at
    reqs      \* the request of each client that waits for its handler

vars == <<raw, links, outside, fds, dirs, reading, reqs>>

Kinds == {"none", "file", "dir", "link"}

ClosedFile == [node |-> NoPath, fd |-> "none"]

ClosedDir == [node |-> NoPath, dir |-> NoPath, left |-> {}, shown |-> {}, calls |-> 0,
              base |-> {}, kept |-> {}, whole |-> TRUE]

NoReq == [op |-> "none", path |-> NoPath, to |-> NoPath, excl |-> FALSE]

\* A directory holds what is in it; links are in the root only and point to
\* a name of the root that is not one.
Tree ==
    /\ \A p \in Paths \ Tops : raw[p] # "none" => raw[<<p[1]>>] = "dir"
    /\ \A p \in Paths : raw[p] = "link" => Len(p) = 1 /\ p[1] \in LinkNames

OpenFiles == [node : Paths \cup {Gone, NoPath}, fd : {"none", "real", "bad"}]

\* node is the library's path and dir the raw directory; left is what the
\* stream still has, shown what clients were shown.  What has happened to the
\* names since the stream got them: those that stayed in the directory (base),
\* those that could be found in the root as well (kept), and whether that was
\* so of all (whole).
OpenDirs ==
    [node : Paths \cup {Root, NoPath}, dir : Paths \cup {Root, Gone, NoPath},
     left : SUBSET Names, shown : SUBSET Names, calls : Nat,
     base : SUBSET Names, kept : SUBSET Names, whole : BOOLEAN]

Requests ==
    [op : OperationKinds \cup {"none"}, path : Paths \cup {Root, NoPath},
     to : Paths \cup {NoPath}, excl : BOOLEAN]

\* The types of the variables, and a raw directory that is a tree.
TypeOK ==
    /\ raw \in [Paths -> Kinds]
    /\ links \in [LinkNames -> Names \ LinkNames]
    /\ outside \subseteq Paths
    /\ fds \in [Fds -> OpenFiles]
    /\ dirs \in [Dirs -> OpenDirs]
    /\ reading \in Dirs \cup {NoDir}
    /\ reqs \in [Clients -> Requests]
    /\ Tree

\* Any tree may be in the raw directory when it is mounted.
Init ==
    /\ raw \in [Paths -> Kinds]
    /\ links \in [LinkNames -> Names \ LinkNames]
    /\ Tree
    /\ outside = {}
    /\ fds = [d \in Fds |-> ClosedFile]
    /\ dirs = [h \in Dirs |-> ClosedDir]
    /\ reading = NoDir
    /\ reqs = [c \in Clients |-> NoReq]
-----------------------------------------------------------------------------
(***************************************************************************)
(* qfs_get_root_path.  realpath follows a link; when a component does not  *)
(* exist it leaves the path of that component in the buffer, and when one  *)
(* is a file that should be a directory it leaves, by the version of the   *)
(* C library, that component or nothing.  Nobody looks at its result.      *)
(***************************************************************************)
Followed(n) == IF raw[<<n>>] = "link" THEN links[n] ELSE n

\* Fault: the name alone, as readdir does with the names it finds.
RootPathOfName(p) == IF p = Root THEN Root ELSE <<Followed(p[Len(p)])>>

RootPath(p) ==
    IF p = Root THEN Root
    ELSE LET top == Followed(p[1])
         IN  IF Len(p) = 1 \/ raw[<<top>>] = "none" THEN <<top>>
             ELSE IF raw[<<top>>] = "dir" THEN <<top, p[2]>>
             ELSE IF NotDirIsLeft THEN <<top>> ELSE NoPath

KindOf(r) == IF r = Root THEN "dir" ELSE IF r \in Paths THEN raw[r] ELSE "none"

\* qfs_getattr: what the kernel is told that a path is.
Getattr(p) == KindOf(RootPath(p))

Entries(dir) ==
    IF dir = Root THEN {n \in Names : raw[<<n>>] # "none"}
    ELSE {n \in Inner : dir \in Tops /\ raw[<<dir[1], n>>] # "none"}

\* The names that qfs_readdir's lstat fails on: it is asked for the name in
\* the root, be it a name of another directory.
Unstatable == {n \in Names : Getattr(<<n>>) = "none"}
-----------------------------------------------------------------------------
(***************************************************************************)
(* The kernel sends a request for a path that it has just looked up in the *)
(* root, in a directory that it has looked up, or in one that it has open. *)
(***************************************************************************)
Reaches(p) ==
    Len(p) = 2 =>
        \/ Getattr(<<p[1]>>) = "dir"
        \/ \E h \in Dirs : dirs[h].node = <<p[1]>>

Parent(p) == IF p \in Tops THEN Root ELSE <<p[1]>>

\* The directories of the mount that the kernel keeps locked until r is
\* answered.  They are the kernel's: two that lead to one raw directory are
\* two.
Locked(r) ==
    IF r.path = NoPath \/ r.op \notin Changes THEN {}
    ELSE {Parent(r.path)}
            \cup (IF r.op \in {"unlink", "rmdir"} THEN {r.path} ELSE {})
            \cup (IF r.op = "rename" THEN {Parent(r.to), r.to} ELSE {})

AllLocked == UNION {Locked(reqs[c]) : c \in Clients}

Expected(op) ==
    CASE op \in {"mkdir", "create", "mknod", "symlink"} -> {"none"}
      [] op \in {"open", "unlink"} -> {"file"}
      [] op \in {"rmdir", "opendir"} -> {"dir"}
      [] OTHER -> {"file", "dir"}

\* Where the kernel lets p be moved to: not into itself, and over nothing
\* but what is of its kind.
Targets(p) ==
    {to \in Paths \ {p} :
        /\ Reaches(to)
        /\ Len(to) = 2 => <<to[1]>> # p
        /\ Getattr(to) \in {"none", Getattr(p)}}

\* The lookup is a request as well, for which the thread must be free.
Request(c) ==
    /\ reading = NoDir
    /\ reqs[c] = NoReq
    /\ \E op \in Operations, p \in Paths \cup {Root}, excl \in BOOLEAN :
        /\ Reaches(p)
        /\ Getattr(p) \in Expected(op)
        /\ p = Root => op = "opendir"
        /\ excl => op = "create"
        /\ \E to \in IF op = "rename" THEN Targets(p) ELSE {NoPath} :
            LET r == [op |-> op, path |-> p, to |-> to, excl |-> excl]
            IN  /\ Locked(r) \cap AllLocked = {}
                /\ reqs' = [reqs EXCEPT ![c] = r]
    /\ UNCHANGED <<raw, links, outside, fds, dirs, reading>>

\* The thread is free to serve the request of c, which is for op, and the
\* library still has a path for it.
Serves(c, op) ==
    /\ reading = NoDir
    /\ reqs[c].op = op
    /\ reqs[c].path # NoPath

Answer(c) == reqs' = [reqs EXCEPT ![c] = NoReq]

\* The library has no path for the request and answers it with an error.
NotFound(c) ==
    /\ reading = NoDir
    /\ reqs[c] # NoReq
    /\ reqs[c].path = NoPath
    /\ Answer(c)
    /\ UNCHANGED <<raw, links, outside, fds, dirs, reading>>

IsOpen(p) == \E d \in Fds : fds[d].node = p

\* The library's tree of names: what is at p or in it.
Below(node, p) == node = p \/ (node \in Paths \ Tops /\ <<node[1]>> = p)

\* A node after the one at p got the name q.
Moved(node, p, q) ==
    IF node = p THEN q
    ELSE IF node \in Paths \ Tops /\ <<node[1]>> = p
         THEN IF q \in Tops /\ <<q[1], node[2]>> \in Paths THEN <<q[1], node[2]>> ELSE NoPath
    ELSE node

\* A request whose names are now path and to.
Renamed(r, path, to) ==
    IF path = NoPath \/ (r.op = "rename" /\ to = NoPath)
    THEN [op |-> r.op, path |-> NoPath, to |-> NoPath, excl |-> r.excl]
    ELSE [op |-> r.op, path |-> path, to |-> to, excl |-> r.excl]

\* What becomes of a node when the library forgets the name p.
Without(node, p) == IF Below(node, p) THEN NoPath ELSE node

FilesWithout(p) ==
    [d \in Fds |-> [node |-> IF Below(fds[d].node, p) THEN Gone ELSE fds[d].node,
                    fd |-> fds[d].fd]]

\* The names that an open directory at dir loses with the raw path r, and
\* those that cannot be found in the root any more.
Taken(dir, r) ==
    {n \in Names : (dir = Root /\ r = <<n>>) \/ (dir \in Tops /\ r = <<dir[1], n>>)}

Missed(dir, r) == Taken(dir, r) \cup {n \in Names : r \in {<<n>>, <<Followed(n)>>}}

\* The open directories after the library forgot the name p, and the raw
\* path r went if it is one.
DirsWithout(p, r) ==
    [h \in Dirs |->
        LET o == dirs[h]
        IN  [node  |-> Without(o.node, p),
             dir   |-> IF r = NoPath \/ o.dir # r THEN o.dir ELSE Gone,
             left  |-> o.left,
             shown |-> o.shown,
             calls |-> o.calls,
             base  |-> o.base \ Taken(o.dir, r),
             kept  |-> o.kept \ Missed(o.dir, r),
             whole |-> o.whole /\ o.kept \cap Missed(o.dir, r) = {}]]

\* The library answers c and forgets the name p, that of open files too.
Forget(c, p, r) ==
    /\ fds' = FilesWithout(p)
    /\ dirs' = DirsWithout(p, r)
    /\ reqs' = [x \in Clients |->
                IF x = c THEN NoReq
                ELSE Renamed(reqs[x], Without(reqs[x].path, p), Without(reqs[x].to, p))]
-----------------------------------------------------------------------------
(***************************************************************************)
(* The handlers.                                                           *)
(***************************************************************************)
\* mkdir, rmdir and unlink of the raw directory may always fail.
Mkdir(c) ==
    /\ Serves(c, "mkdir")
    /\ LET r == RootPath(reqs[c].path)
       IN  raw' \in {raw} \cup (IF KindOf(r) = "none" /\ r \in Paths
                                THEN {[raw EXCEPT ![r] = "dir"]} ELSE {})
    /\ Answer(c)
    /\ UNCHANGED <<links, outside, fds, dirs, reading>>

\* Fault: a directory goes while something is in it.
RmdirAll(c) ==
    /\ Serves(c, "rmdir")
    /\ LET r == RootPath(reqs[c].path)
       IN  /\ KindOf(r) = "dir"
           /\ raw' = [raw EXCEPT ![r] = "none"]
           /\ Forget(c, reqs[c].path, r)
    /\ UNCHANGED <<links, outside, reading>>

\* The raw path r went, or nothing.
Removed(r) == IF r = NoPath THEN raw ELSE [raw EXCEPT ![r] = "none"]

\* The answer is a success whatever rmdir says, and the kernel and the
\* library let nothing more through to a directory that they take for removed.
Rmdir(c) ==
    /\ Serves(c, "rmdir")
    /\ \E p \in {reqs[c].path} :
        \E r \in {NoPath} \cup {q \in {RootPath(p)} : KindOf(q) = "dir" /\ Entries(q) = {}} :
            raw' = Removed(r) /\ Forget(c, p, r)
    /\ UNCHANGED <<links, outside, reading>>

\* The library renames an open file instead, which changes its own tree and
\* nothing else.  Any other file is removed; the answer is a success.
Unlink(c) ==
    /\ Serves(c, "unlink")
    /\ \E p \in {reqs[c].path} :
        \E r \in {NoPath} \cup {q \in {RootPath(p)} : KindOf(q) = "file" /\ ~IsOpen(p)} :
            raw' = Removed(r) /\ Forget(c, p, r)
    /\ UNCHANGED <<links, outside, reading>>

\* qfs_rename does nothing and reports success.  The library then moves the
\* names in its own tree, after it forgot those that were there first.
Rename(c) ==
    /\ Serves(c, "rename")
    /\ \E p \in {reqs[c].path}, q \in {reqs[c].to} :
        /\ fds' = [d \in Fds |->
                    [node |-> IF Below(fds[d].node, q) THEN Gone ELSE Moved(fds[d].node, p, q),
                     fd |-> fds[d].fd]]
        /\ dirs' = [h \in Dirs |->
                    [dirs[h] EXCEPT !.node = Moved(Without(@, q), p, q)]]
        /\ reqs' = [x \in Clients |->
                    IF x = c THEN NoReq
                    ELSE Renamed(reqs[x], Moved(Without(reqs[x].path, q), p, q),
                                          Moved(Without(reqs[x].to, q), p, q))]
    /\ UNCHANGED <<raw, links, outside, reading>>

\* What the host has after a call that makes a node at path, from its own
\* root: mknod_wrapper calls one of several, which may fail.
MadeAt(path) == {outside, outside \cup {path}}

\* These do not ask for the path in the raw directory.
Mknod(c) ==
    /\ Serves(c, "mknod")
    /\ outside' \in MadeAt(reqs[c].path)
    /\ Answer(c)
    /\ UNCHANGED <<raw, links, fds, dirs, reading>>

Symlink(c) ==
    /\ Serves(c, "symlink")
    /\ outside' \in MadeAt(reqs[c].path)
    /\ Answer(c)
    /\ UNCHANGED <<raw, links, fds, dirs, reading>>

ChangeNothing(c) ==
    /\ \E op \in NoChange : Serves(c, op)
    /\ Answer(c)
    /\ UNCHANGED <<raw, links, outside, fds, dirs, reading>>

\* Fault: a failed open is answered with a success, as in qfs_create.
OpenAnyway(c) ==
    /\ Serves(c, "open")
    /\ \E d \in Fds, fd \in {"real", "bad"} :
        /\ fds[d] = ClosedFile
        /\ fds' = [fds EXCEPT ![d] = [node |-> reqs[c].path, fd |-> fd]]
    /\ Answer(c)
    /\ UNCHANGED <<raw, links, outside, dirs, reading>>

\* open may fail for want of resources; the kernel learns of it.
Open(c) ==
    /\ Serves(c, "open")
    /\ \/ /\ Getattr(reqs[c].path) = "file"
          /\ \E d \in Fds :
                /\ fds[d] = ClosedFile
                /\ fds' = [fds EXCEPT ![d] = [node |-> reqs[c].path, fd |-> "real"]]
       \/ UNCHANGED fds
    /\ Answer(c)
    /\ UNCHANGED <<raw, links, outside, dirs, reading>>

\* The answer is a success whether open works or not; the library then looks
\* the path up, and gives the file up unless there is one.  Bound: the file is
\* one of Fds.
Create(c) ==
    /\ Serves(c, "create")
    /\ UNCHANGED <<links, outside, dirs, reading>>
    /\ \E p \in {reqs[c].path}, d \in Fds, fails \in BOOLEAN :
        LET r     == RootPath(p)
            opens == /\ ~fails
                     /\ r \in Paths
                     /\ raw[r] \in {"none"} \cup (IF reqs[c].excl THEN {} ELSE {"file"})
            file  == [node |-> p, fd |-> IF opens THEN "real" ELSE "bad"]
        IN  /\ fds[d] = ClosedFile
            /\ raw' = IF opens THEN [raw EXCEPT ![r] = "file"] ELSE raw
            /\ fds' = IF Getattr(p)' = "file" THEN [fds EXCEPT ![d] = file] ELSE fds
    /\ Answer(c)

\* Closing the last descriptor of a hidden file unlinks its hidden name,
\* which the raw directory does not have.
Release(d) ==
    /\ reading = NoDir
    /\ fds[d] # ClosedFile
    /\ fds' = [fds EXCEPT ![d] = ClosedFile]
    /\ UNCHANGED <<raw, links, outside, dirs, reading, reqs>>

Opendir(c) ==
    /\ Serves(c, "opendir")
    /\ \/ /\ Getattr(reqs[c].path) = "dir"
          /\ \E h \in Dirs :
                /\ dirs[h] = ClosedDir
                /\ dirs' = [dirs EXCEPT ![h].node = reqs[c].path,
                                        ![h].dir = RootPath(reqs[c].path)]
       \/ UNCHANGED dirs
    /\ Answer(c)
    /\ UNCHANGED <<raw, links, outside, fds, reading>>
-----------------------------------------------------------------------------
(***************************************************************************)
(* qfs_readdir, which is a loop: the operator may work between two of its  *)
(* steps.  Its buffer is empty when it begins, as it is called again only  *)
(* after a rewind, but the stream goes on where it was left.  Bound: the   *)
(* names of a directory fit in one buffer of the C library, which is       *)
(* filled when it is empty and readdir is called.                          *)
(***************************************************************************)
\* The stream of o got the names new.
Filled(o, new) ==
    [node  |-> o.node,
     dir   |-> o.dir,
     left  |-> o.left \cup new,
     shown |-> o.shown,
     calls |-> o.calls,
     base  |-> o.base \cup new,
     kept  |-> o.kept \cup (new \ Unstatable),
     whole |-> o.whole /\ new \cap Unstatable = {}]

ReaddirEnter(h) ==
    /\ reading = NoDir
    /\ dirs[h].node \notin {NoPath} \cup AllLocked
    /\ dirs[h].calls < MaxCalls
    /\ reading' = h
    /\ LET o == [dirs[h] EXCEPT !.calls = @ + 1]
       IN  dirs' = [dirs EXCEPT ![h] =
                        IF o.calls = 1 THEN Filled(o, Entries(o.dir)) ELSE o]
    /\ UNCHANGED <<raw, links, outside, fds, reqs>>

\* A name that came since may be in what the stream gets, or not.
ReaddirMore(h) ==
    /\ reading = h
    /\ dirs[h].left = {}
    /\ \E new \in SUBSET (Entries(dirs[h].dir) \ dirs[h].base) :
        /\ new # {}
        /\ dirs' = [dirs EXCEPT ![h] = Filled(@, new)]
    /\ UNCHANGED <<raw, links, outside, fds, reading, reqs>>

\* Fault: a name that cannot be found takes with it what comes after it.
ReaddirEntryDrops(h) ==
    /\ reading = h
    /\ \E n \in dirs[h].left :
        IF n \in Unstatable
        THEN /\ dirs' = [dirs EXCEPT ![h].left = {}]
             /\ reading' = NoDir
        ELSE /\ dirs' = [dirs EXCEPT ![h].left = @ \ {n}, ![h].shown = @ \cup {n}]
             /\ UNCHANGED reading
    /\ UNCHANGED <<raw, links, outside, fds, reqs>>

\* A name that cannot be found ends the call; the stream is past it.
ReaddirEntry(h) ==
    /\ reading = h
    /\ \E n \in dirs[h].left :
        IF n \in Unstatable
        THEN /\ dirs' = [dirs EXCEPT ![h].left = @ \ {n}]
             /\ reading' = NoDir
        ELSE /\ dirs' = [dirs EXCEPT ![h].left = @ \ {n}, ![h].shown = @ \cup {n}]
             /\ UNCHANGED reading
    /\ UNCHANGED <<raw, links, outside, fds, reqs>>

ReaddirEnd(h) ==
    /\ reading = h
    /\ dirs[h].left = {}
    /\ reading' = NoDir
    /\ UNCHANGED <<raw, links, outside, fds, dirs, reqs>>

Releasedir(h) ==
    /\ reading = NoDir
    /\ dirs[h] # ClosedDir
    /\ dirs' = [dirs EXCEPT ![h] = ClosedDir]
    /\ UNCHANGED <<raw, links, outside, fds, reading, reqs>>
-----------------------------------------------------------------------------
(***************************************************************************)
(* The operator works in the raw directory itself.                         *)
(***************************************************************************)
OperatorAdds ==
    /\ "add" \in Operator
    /\ \E p \in Paths, kind \in {"file", "dir"} :
        /\ raw[p] = "none"
        /\ Len(p) = 2 => raw[<<p[1]>>] = "dir"
        /\ raw' = [raw EXCEPT ![p] = kind]
    /\ UNCHANGED <<links, outside, fds, dirs, reading, reqs>>

OperatorRemoves ==
    /\ "remove" \in Operator
    /\ \E p \in Paths :
        /\ raw[p] # "none"
        /\ raw[p] = "dir" => Entries(p) = {}
        /\ raw' = [raw EXCEPT ![p] = "none"]
        /\ dirs' = DirsWithout(NoPath, p)
    /\ UNCHANGED <<links, outside, fds, reading, reqs>>

\* The process ends; the raw directory and the host keep what they have.
Restart ==
    /\ fds' = [d \in Fds |-> ClosedFile]
    /\ dirs' = [h \in Dirs |-> ClosedDir]
    /\ reading' = NoDir
    /\ reqs' = [c \in Clients |-> NoReq]
    /\ UNCHANGED <<raw, links, outside>>
-----------------------------------------------------------------------------
Readdir(h) ==
    \/ ReaddirEnter(h)
    \/ ReaddirMore(h)
    \/ ReaddirEntry(h)
    \/ ReaddirEnd(h)

Next ==
    \/ \E c \in Clients :
        \/ Request(c)
        \/ NotFound(c)
        \/ Mkdir(c)
        \/ Rmdir(c)
        \/ Unlink(c)
        \/ Rename(c)
        \/ Mknod(c)
        \/ Symlink(c)
        \/ ChangeNothing(c)
        \/ Open(c)
        \/ Create(c)
        \/ Opendir(c)
    \/ \E d \in Fds : Release(d)
    \/ \E h \in Dirs : Readdir(h) \/ Releasedir(h)
    \/ OperatorAdds
    \/ OperatorRemoves
    \/ Restart

Spec == Init /\ [][Next]_vars
-----------------------------------------------------------------------------
(***************************************************************************)
(* Properties.                                                             *)
(***************************************************************************)
\* What the kernel looked up is still what qfs_get_root_path finds: nothing is
\* a link, names do not move and nobody else removes a directory.
StaysInPlace ==
    /\ LinkNames = {}
    /\ "rename" \notin Operations
    /\ "remove" \notin Operator

\* The handler of a request, whatever was served and made between its lookup
\* and its turn, changes the raw path that it names and no other.
RequestsStayInPlace ==
    [][StaysInPlace =>
        \A c \in Clients : (reqs[c] # NoReq /\ reqs'[c] = NoReq) =>
            \A q \in Paths : raw'[q] = raw[q] \/ q = reqs[c].path]_vars

\* A file that a client gets to open has a descriptor of the raw file behind
\* it, though qfs_create reports success when open fails: the lookup that
\* follows finds no file then, because no other request can have made one
\* since the kernel found that there is none.  Each condition is needed:
\* through a link, after a rename that did not happen, and below a directory
\* that the operator removed, the handler comes to a raw path that the kernel
\* has not looked up or locked; and the operator may make the file.
OpenIsBacked ==
    (StaysInPlace /\ "add" \notin Operator) => \A d \in Fds : fds[d].fd # "bad"

\* A name that stays where clients and lstat can find it is shown, or still
\* in the stream for a call after a rewind, though a name that went or that
\* the root does not have ends a call; and when all the names of the stream
\* stay so, a call that has returned has shown them all.
ListingsKeepNames ==
    \A h \in Dirs :
        /\ dirs[h].kept \subseteq dirs[h].shown \cup dirs[h].left
        /\ (reading # h /\ dirs[h].whole) => dirs[h].left = {}
=============================================================================

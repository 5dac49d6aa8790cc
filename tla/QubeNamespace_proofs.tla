------------------------- MODULE QubeNamespace_proofs -------------------------
(***************************************************************************)
(* Proofs about the names of the mount, for every instance.                *)
(***************************************************************************)
EXTENDS QubeNamespace, TLAPS

\* A request that waits is one that clients make; only opendir is sent for
\* the root.
ReqInv ==
    \A c \in Clients :
        IF reqs[c].op = "none" THEN reqs[c] = NoReq
        ELSE /\ reqs[c].op \in Operations
             /\ reqs[c].path = Root => reqs[c].op = "opendir"

TypeInv == TypeOK /\ ReqInv

-----------------------------------------------------------------------------
(***************************************************************************)
(* Lemmas about paths.                                                     *)
(***************************************************************************)

\* A path is one name, or a name and one of a directory.
LEMMA PathShape ==
    ASSUME NEW p \in Paths
    PROVE  /\ p[1] \in Names /\ <<p[1]>> \in Paths /\ p # Root
           /\ Len(p) = 1 \/ Len(p) = 2
           /\ Len(p) = 1 => p = <<p[1]>> /\ p \in Tops
           /\ Len(p) = 2 => p = <<p[1], p[2]>> /\ p \notin Tops /\ p[2] \in Inner
<1>1. CASE p \in Tops
    <2>1. PICK n \in Names : p = <<n>>
        BY <1>1 DEF Tops
    <2> QED BY <2>1 DEF Tops, Paths, Root
<1>2. CASE p \in Names \X Inner
    <2>1. PICK n \in Names, m \in Inner : p = <<n, m>>
        BY <1>2
    <2>2. Len(p) = 2 /\ p[1] = n /\ p[2] = m
        BY <2>1
    <2>3. p \notin Tops
        BY <2>2 DEF Tops
    <2> QED BY <2>1, <2>2, <2>3 DEF Tops, Paths, Root
<1> QED BY <1>1, <1>2 DEF Paths

\* What a name leads to is a name.
LEMMA FollowedName ==
    ASSUME TypeOK, NEW n \in Names
    PROVE  Followed(n) \in Names
<1>1. CASE raw[<<n>>] = "link"
    <2>1. <<n>> \in Paths
        BY DEF Paths, Tops
    <2>2. n \in LinkNames
        BY <1>1, <2>1 DEF TypeOK, Tree
    <2> QED BY <1>1, <2>2 DEF TypeOK, Followed
<1>2. CASE raw[<<n>>] # "link"
    BY <1>2 DEF Followed
<1> QED BY <1>1, <1>2

\* qfs_get_root_path of a path is a path of the raw directory, or nothing.
LEMMA RootPathType ==
    ASSUME TypeOK, NEW p \in Paths \cup {Root}
    PROVE  /\ RootPath(p) \in Paths \cup {Root, NoPath}
           /\ p # Root => RootPath(p) # Root
<1>1. CASE p = Root
    BY <1>1 DEF RootPath
<1>2. CASE p # Root
    <2>1. p \in Paths
        BY <1>2
    <2> DEFINE top == Followed(p[1])
    <2>2. top \in Names
        BY <2>1, PathShape, FollowedName
    <2>3. <<top>> \in Paths /\ <<top>> # Root
        BY <2>2 DEF Paths, Tops, Root
    <2>4. Len(p) = 2 => <<top, p[2]>> \in Paths /\ <<top, p[2]>> # Root
        <3>1. ASSUME Len(p) = 2 PROVE p[2] \in Inner
            BY <2>1, <3>1, PathShape
        <3>2. ASSUME NEW m \in Inner PROVE <<top, m>> \in Paths /\ <<top, m>> # Root
            BY <2>2 DEF Paths, Root
        <3> QED BY <3>1, <3>2
    <2>5. NoPath # Root
        BY NamespaceAssumption
    <2>6. RootPath(p) =
            IF Len(p) = 1 \/ raw[<<top>>] = "none" THEN <<top>>
            ELSE IF raw[<<top>>] = "dir" THEN <<top, p[2]>>
            ELSE IF NotDirIsLeft THEN <<top>> ELSE NoPath
        BY <1>2 DEF RootPath
    <2> HIDE DEF top
    <2>7. Len(p) = 1 \/ Len(p) = 2
        BY <2>1, PathShape
    <2> QED BY <2>3, <2>4, <2>5, <2>6, <2>7, <1>2
<1> QED BY <1>1, <1>2

\* Without links, and below a directory that is there, a path of the mount is
\* the path of the raw directory.
LEMMA RootPathInPlace ==
    ASSUME TypeOK, LinkNames = {}, NEW p \in Paths,
           Len(p) = 2 => raw[<<p[1]>>] = "dir"
    PROVE  RootPath(p) = p
<1>1. raw[<<p[1]>>] # "link"
    <2>1. <<p[1]>> \in Paths
        BY PathShape
    <2>2. raw[<<p[1]>>] = "link" => <<p[1]>>[1] \in LinkNames
        BY <2>1 DEF TypeOK, Tree
    <2> QED BY <2>2
<1>2. Followed(p[1]) = p[1]
    BY <1>1 DEF Followed
<1>3. p # Root
    BY PathShape
<1>4. CASE Len(p) = 1
    <2>1. p = <<p[1]>>
        BY <1>4, PathShape
    <2>2. RootPath(p) = <<p[1]>>
        BY <1>2, <1>3, <1>4 DEF RootPath
    <2> QED BY <2>1, <2>2
<1>5. CASE Len(p) = 2
    <2>1. p = <<p[1], p[2]>>
        BY <1>5, PathShape
    <2>2. RootPath(p) = <<p[1], p[2]>>
        BY <1>2, <1>3, <1>5 DEF RootPath
    <2> QED BY <2>1, <2>2
<1> QED BY <1>4, <1>5, PathShape

\* What qfs_get_root_path finds below a directory is below a directory.
LEMMA RootPathParent ==
    ASSUME TypeOK, NEW p \in Paths, RootPath(p) \in Paths \ Tops
    PROVE  raw[<<RootPath(p)[1]>>] = "dir"
<1> DEFINE top == Followed(p[1])
<1>1. top \in Names
    BY PathShape, FollowedName
<1>2. <<top>> \in Tops
    BY <1>1 DEF Tops
<1>3. NoPath \notin Paths
    BY NamespaceAssumption
<1>4. p # Root
    BY PathShape
<1>5. RootPath(p) =
        IF Len(p) = 1 \/ raw[<<top>>] = "none" THEN <<top>>
        ELSE IF raw[<<top>>] = "dir" THEN <<top, p[2]>>
        ELSE IF NotDirIsLeft THEN <<top>> ELSE NoPath
    BY <1>4 DEF RootPath
<1>6. <<top, p[2]>>[1] = top
    OBVIOUS
<1> HIDE DEF top
<1>7. RootPath(p) = <<top, p[2]>> /\ raw[<<top>>] = "dir"
    BY <1>2, <1>3, <1>5
<1> QED BY <1>6, <1>7

\* One path of a tree changes: it stays a tree if what is new is in a
\* directory and what is no directory any more was empty.
LEMMA TreeKept ==
    ASSUME TypeOK, NEW r, NEW k \in Kinds \ {"link"},
           raw' = [raw EXCEPT ![r] = k],
           (r \in Paths \ Tops /\ k # "none") => raw[<<r[1]>>] = "dir",
           (r \in Tops /\ k # "dir") => (raw[r] # "dir" \/ Entries(r) = {})
    PROVE  raw' \in [Paths -> Kinds] /\ Tree'
<1>1. raw' \in [Paths -> Kinds]
    BY DEF TypeOK
<1>2. ASSUME NEW p \in Paths, raw'[p] = "link"
      PROVE  Len(p) = 1 /\ p[1] \in LinkNames
    <2>1. raw[p] = "link"
        BY <1>2 DEF TypeOK
    <2> QED BY <2>1 DEF TypeOK, Tree
<1>3. ASSUME NEW p \in Paths \ Tops, raw'[p] # "none"
      PROVE  raw'[<<p[1]>>] = "dir"
    <2>1. <<p[1]>> \in Tops /\ <<p[1]>> \in Paths /\ <<p[1]>> # p
        BY PathShape DEF Tops
    <2>2. raw[<<p[1]>>] = "dir"
        <3>1. CASE p = r
            BY <1>3, <3>1 DEF TypeOK
        <3>2. CASE p # r
            <4>1. raw[p] # "none"
                BY <1>3, <3>2 DEF TypeOK
            <4> QED BY <4>1 DEF TypeOK, Tree
        <3> QED BY <3>1, <3>2
    <2>3. CASE r # <<p[1]>> \/ k = "dir"
        BY <2>1, <2>2, <2>3 DEF TypeOK
    <2>4. CASE r = <<p[1]>> /\ k # "dir"
        <3>1. Entries(r) = {}
            BY <2>1, <2>2, <2>4
        <3>2. r # Root
            BY <2>1, <2>4, PathShape
        <3>3. p = <<r[1], p[2]>> /\ p[2] \in Inner
            BY <2>4, PathShape
        <3>4. raw[p] = "none"
            BY <2>1, <2>4, <3>1, <3>2, <3>3 DEF Entries
        <3>5. p # r
            BY <2>1, <2>4
        <3> QED BY <1>3, <3>4, <3>5 DEF TypeOK
    <2> QED BY <2>3, <2>4
<1> QED BY <1>1, <1>2, <1>3 DEF Tree

\* A node of the library's tree that moves has a path of the mount, or none.
LEMMA MovedPath ==
    ASSUME NEW node, NEW p, NEW q \in Paths \cup {NoPath}
    PROVE  Moved(node, p, q) \in Paths \cup {NoPath, node}
BY DEF Moved

\* What has no path gets none.
LEMMA NoPathStays ==
    ASSUME NEW p \in Paths, NEW q
    PROVE  /\ Without(NoPath, p) = NoPath /\ Moved(NoPath, p, q) = NoPath
           /\ Without(Root, p) = Root /\ Moved(Root, p, q) = Root
BY NamespaceAssumption, PathShape DEF Without, Below, Moved

\* A request that another one renames is one for the same, with the path that
\* it was given or none.
LEMMA RenamedType ==
    ASSUME NEW r \in Requests, NEW path \in Paths \cup {Root, NoPath},
           NEW to \in Paths \cup {NoPath}
    PROVE  /\ Renamed(r, path, to) \in Requests
           /\ Renamed(r, path, to).op = r.op
           /\ Renamed(r, path, to).path \in {path, NoPath}
           /\ r = NoReq /\ path = NoPath => Renamed(r, path, to) = NoReq
<1> DEFINE lost == [op |-> r.op, path |-> NoPath, to |-> NoPath, excl |-> r.excl]
           kept == [op |-> r.op, path |-> path, to |-> to, excl |-> r.excl]
<1>1. r.op \in OperationKinds \cup {"none"} /\ r.excl \in BOOLEAN
    BY DEF Requests
<1>2. lost \in Requests /\ kept \in Requests
    BY <1>1 DEF Requests
<1>3. lost.op = r.op /\ kept.op = r.op /\ lost.path = NoPath /\ kept.path = path
    OBVIOUS
<1>4. r = NoReq => lost = NoReq
    BY DEF NoReq
<1>5. Renamed(r, path, to) = IF path = NoPath \/ (r.op = "rename" /\ to = NoPath)
                             THEN lost ELSE kept
    BY DEF Renamed
<1> HIDE DEF lost, kept
<1> QED BY <1>2, <1>3, <1>4, <1>5

\* What the invariant says of one request.
LEMMA RequestAfter ==
    ASSUME TypeInv, NEW x \in Clients, NEW path \in Paths \cup {reqs[x].path, NoPath},
           NEW to \in Paths \cup {NoPath},
           reqs[x].path = NoPath => path = NoPath
    PROVE  /\ Renamed(reqs[x], path, to) \in Requests
           /\ IF Renamed(reqs[x], path, to).op = "none"
              THEN Renamed(reqs[x], path, to) = NoReq
              ELSE /\ Renamed(reqs[x], path, to).op \in Operations
                   /\ Renamed(reqs[x], path, to).path = Root =>
                        Renamed(reqs[x], path, to).op = "opendir"
<1>1. reqs[x] \in Requests /\ reqs[x].path \in Paths \cup {Root, NoPath}
    BY DEF TypeInv, TypeOK, Requests
<1>2. path \in Paths \cup {Root, NoPath}
    BY <1>1
<1>3. path = Root => reqs[x].path = Root
    BY NamespaceAssumption, PathShape
<1>4. NoReq.path = NoPath
    BY DEF NoReq
<1> DEFINE q == Renamed(reqs[x], path, to)
<1>5. /\ q \in Requests /\ q.op = reqs[x].op /\ q.path \in {path, NoPath}
      /\ reqs[x] = NoReq /\ path = NoPath => q = NoReq
    BY <1>1, <1>2, RenamedType
<1>6. IF reqs[x].op = "none" THEN reqs[x] = NoReq
      ELSE /\ reqs[x].op \in Operations
           /\ reqs[x].path = Root => reqs[x].op = "opendir"
    BY DEF TypeInv, ReqInv
<1>7. NoPath # Root
    BY NamespaceAssumption
<1> HIDE DEF q
<1>8. q \in Requests /\ IF q.op = "none" THEN q = NoReq
                        ELSE q.op \in Operations /\ (q.path = Root => q.op = "opendir")
    BY <1>3, <1>4, <1>5, <1>6, <1>7
<1> QED BY <1>8 DEF q

\* An answered client waits no more, and the others wait as before.
LEMMA Answered ==
    ASSUME TypeInv, NEW c \in Clients, Answer(c)
    PROVE  /\ reqs' \in [Clients -> Requests] /\ ReqInv'
           /\ reqs'[c] = NoReq
           /\ \A x \in Clients : x # c => reqs'[x] = reqs[x]
<1>1. NoReq \in Requests /\ NoReq.op = "none"
    BY DEF NoReq, Requests
<1>2. \A x \in Clients : reqs'[x] = IF x = c THEN NoReq ELSE reqs[x]
    BY DEF Answer, TypeInv, TypeOK
<1>3. reqs' \in [Clients -> Requests]
    BY <1>1 DEF Answer, TypeInv, TypeOK
<1>4. ReqInv'
    BY <1>1, <1>2 DEF TypeInv, ReqInv
<1> QED BY <1>2, <1>3, <1>4

\* What the library forgets leaves files, directories and requests of their
\* types; each client that was not answered has the request that it had, or
\* one without a path, and nothing that is open has the name.
LEMMA Forgotten ==
    ASSUME TypeInv, NEW c \in Clients, NEW p \in Paths, NEW r, Forget(c, p, r)
    PROVE  /\ fds' \in [Fds -> OpenFiles] /\ \A d \in Fds : fds'[d].fd = fds[d].fd
           /\ reqs' \in [Clients -> Requests] /\ ReqInv'
           /\ reqs'[c] = NoReq
           /\ \A x \in Clients : x # c =>
                reqs'[x].op = reqs[x].op /\ reqs'[x].path \in {reqs[x].path, NoPath}
<1> USE DEF TypeInv
<1>1. ASSUME NEW d \in Fds
      PROVE  [node |-> IF Below(fds[d].node, p) THEN Gone ELSE fds[d].node,
              fd |-> fds[d].fd] \in OpenFiles
    BY DEF TypeOK, OpenFiles
<1>2. fds' \in [Fds -> OpenFiles] /\ \A d \in Fds : fds'[d].fd = fds[d].fd
    BY <1>1 DEF Forget, FilesWithout
<1> DEFINE after(x) == Renamed(reqs[x], Without(reqs[x].path, p), Without(reqs[x].to, p))
<1>3. reqs' = [x \in Clients |-> IF x = c THEN NoReq ELSE after(x)]
    BY DEF Forget
<1>4. ASSUME NEW x \in Clients
      PROVE  /\ after(x) \in Requests
             /\ IF after(x).op = "none" THEN after(x) = NoReq
                ELSE after(x).op \in Operations /\ (after(x).path = Root => after(x).op = "opendir")
             /\ after(x).op = reqs[x].op
             /\ after(x).path \in {reqs[x].path, NoPath}
    <2>1. reqs[x] \in Requests /\ reqs[x].to \in Paths \cup {NoPath}
          /\ reqs[x].path \in Paths \cup {Root, NoPath}
        BY DEF TypeOK, Requests
    <2>2. PICK path \in {reqs[x].path, NoPath}, to \in {reqs[x].to, NoPath} :
            /\ path = Without(reqs[x].path, p) /\ to = Without(reqs[x].to, p)
            /\ after(x) = Renamed(reqs[x], path, to)
        BY DEF Without
    <2>3. reqs[x].path = NoPath => path = NoPath
        BY <2>2
    <2>4. /\ Renamed(reqs[x], path, to) \in Requests
          /\ IF Renamed(reqs[x], path, to).op = "none"
             THEN Renamed(reqs[x], path, to) = NoReq
             ELSE /\ Renamed(reqs[x], path, to).op \in Operations
                  /\ Renamed(reqs[x], path, to).path = Root =>
                        Renamed(reqs[x], path, to).op = "opendir"
        BY <2>1, <2>2, <2>3, RequestAfter
    <2>5. /\ Renamed(reqs[x], path, to).op = reqs[x].op
          /\ Renamed(reqs[x], path, to).path \in {path, NoPath}
        <3>1. path \in Paths \cup {Root, NoPath} /\ to \in Paths \cup {NoPath}
            BY <2>1
        <3> QED BY <2>1, <3>1, RenamedType
    <2>6. after(x) = Renamed(reqs[x], path, to)
        BY <2>2
    <2> HIDE DEF after
    <2> QED BY <2>2, <2>4, <2>5, <2>6
<1> HIDE DEF after
<1>5. NoReq \in Requests /\ NoReq.op = "none"
    BY DEF NoReq, Requests
<1>6. \A x \in Clients : reqs'[x] = IF x = c THEN NoReq ELSE after(x)
    BY <1>3
<1>7. reqs' \in [Clients -> Requests]
    BY <1>3, <1>4, <1>5
<1>8. ReqInv'
    BY <1>4, <1>5, <1>6 DEF ReqInv
<1> QED BY <1>2, <1>4, <1>6, <1>7, <1>8

\* The same of open directories, of what they have lost with a raw path.
LEMMA DirsForgotten ==
    ASSUME TypeOK, NEW p, NEW r, dirs' = DirsWithout(p, r)
    PROVE  /\ dirs' \in [Dirs -> OpenDirs]
           /\ \A h \in Dirs :
                /\ dirs'[h].node = Without(dirs[h].node, p)
                /\ dirs'[h].dir \in {dirs[h].dir, Gone}
                /\ dirs'[h].dir = dirs[h].dir \/ dirs[h].dir = r
                /\ dirs'[h].left = dirs[h].left /\ dirs'[h].shown = dirs[h].shown
                /\ dirs'[h].kept = dirs[h].kept \ Missed(dirs[h].dir, r)
                /\ dirs'[h].whole = (dirs[h].whole /\ dirs[h].kept \cap Missed(dirs[h].dir, r) = {})
<1> DEFINE after(h) ==
        [node  |-> Without(dirs[h].node, p),
         dir   |-> IF r = NoPath \/ dirs[h].dir # r THEN dirs[h].dir ELSE Gone,
         left  |-> dirs[h].left,
         shown |-> dirs[h].shown,
         calls |-> dirs[h].calls,
         base  |-> dirs[h].base \ Taken(dirs[h].dir, r),
         kept  |-> dirs[h].kept \ Missed(dirs[h].dir, r),
         whole |-> dirs[h].whole /\ dirs[h].kept \cap Missed(dirs[h].dir, r) = {}]
<1>1. dirs' = [h \in Dirs |-> after(h)]
    BY DEF DirsWithout
<1>2. ASSUME NEW h \in Dirs PROVE after(h) \in OpenDirs
    <2>1. dirs[h] \in OpenDirs
        BY DEF TypeOK
    <2>2. Without(dirs[h].node, p) \in Paths \cup {Root, NoPath}
        BY <2>1 DEF OpenDirs, Without
    <2>3. dirs[h].dir \in Paths \cup {Root, Gone, NoPath}
        BY <2>1 DEF OpenDirs
    <2>4. /\ dirs[h].left \in SUBSET Names /\ dirs[h].shown \in SUBSET Names
          /\ dirs[h].calls \in Nat
          /\ dirs[h].base \ Taken(dirs[h].dir, r) \in SUBSET Names
          /\ dirs[h].kept \ Missed(dirs[h].dir, r) \in SUBSET Names
        BY <2>1 DEF OpenDirs
    <2>5. (dirs[h].whole /\ dirs[h].kept \cap Missed(dirs[h].dir, r) = {}) \in BOOLEAN
        OBVIOUS
    <2> QED BY <2>2, <2>3, <2>4, <2>5 DEF OpenDirs
<1>3. \A h \in Dirs : dirs'[h] = after(h)
    BY <1>1
<1>4. dirs' \in [Dirs -> OpenDirs]
    BY <1>1, <1>2
<1> QED BY <1>3, <1>4

-----------------------------------------------------------------------------
(***************************************************************************)
(* Types.                                                                  *)
(***************************************************************************)

\* The raw directory stays a tree when what goes from it is no directory, or
\* one in which nothing is.
LEMMA RemovedTree ==
    ASSUME TypeOK, NEW r, raw' = Removed(r),
           r \in Tops => (raw[r] # "dir" \/ Entries(r) = {})
    PROVE  raw' \in [Paths -> Kinds] /\ Tree'
<1>1. CASE r = NoPath
    BY <1>1 DEF Removed, TypeOK, Tree
<1>2. CASE r # NoPath
    <2>1. raw' = [raw EXCEPT ![r] = "none"]
        BY <1>2 DEF Removed
    <2> QED BY <2>1, TreeKept DEF Kinds
<1> QED BY <1>1, <1>2

\* The names that a stream gets leave an open directory of its type.
LEMMA FilledType ==
    ASSUME NEW o \in OpenDirs, NEW new \in SUBSET Names
    PROVE  /\ Filled(o, new) \in OpenDirs
           /\ Filled(o, new).node = o.node /\ Filled(o, new).dir = o.dir
           /\ Filled(o, new).shown = o.shown
           /\ Filled(o, new).left = o.left \cup new
           /\ Filled(o, new).kept = o.kept \cup (new \ Unstatable)
           /\ Filled(o, new).whole = (o.whole /\ new \cap Unstatable = {})
<1> DEFINE after == [node  |-> o.node, dir |-> o.dir, left |-> o.left \cup new,
                    shown |-> o.shown, calls |-> o.calls, base |-> o.base \cup new,
                    kept  |-> o.kept \cup (new \ Unstatable),
                    whole |-> o.whole /\ new \cap Unstatable = {}]
<1>1. Filled(o, new) = after
    BY DEF Filled
<1>2. after \in OpenDirs
    <2>1. /\ o.node \in Paths \cup {Root, NoPath} /\ o.dir \in Paths \cup {Root, Gone, NoPath}
          /\ o.left \cup new \in SUBSET Names /\ o.shown \in SUBSET Names /\ o.calls \in Nat
          /\ o.base \cup new \in SUBSET Names
          /\ o.kept \cup (new \ Unstatable) \in SUBSET Names
        BY DEF OpenDirs
    <2>2. (o.whole /\ new \cap Unstatable = {}) \in BOOLEAN
        OBVIOUS
    <2> QED BY <2>1, <2>2 DEF OpenDirs
<1> QED BY <1>1, <1>2

\* What is served has a path; opendir alone is served for the root.
LEMMA ServedPath ==
    ASSUME TypeInv, NEW c \in Clients, NEW op, Serves(c, op), op # "none"
    PROVE  /\ reqs[c].op = op /\ op \in Operations
           /\ reqs[c].path \in Paths \cup {Root}
           /\ op # "opendir" => reqs[c].path \in Paths
           /\ reqs[c].to \in Paths \cup {NoPath}
<1>1. reqs[c] \in Requests /\ reqs[c].op = op /\ reqs[c].path # NoPath
    BY DEF Serves, TypeInv, TypeOK
<1>2. reqs[c].path \in Paths \cup {Root, NoPath} /\ reqs[c].to \in Paths \cup {NoPath}
    BY <1>1 DEF Requests
<1> QED BY <1>1, <1>2 DEF TypeInv, ReqInv

\* The step of a client keeps the types if it answers its request.
LEMMA ClientTypes ==
    ASSUME TypeInv, NEW c \in Clients, Answer(c), UNCHANGED <<links, reading>>,
           raw' \in [Paths -> Kinds] /\ Tree', outside' \subseteq Paths,
           fds' \in [Fds -> OpenFiles], dirs' \in [Dirs -> OpenDirs]
    PROVE  TypeInv'
BY Answered DEF TypeInv, TypeOK

\* A step that changes open files and directories only keeps the types.
LEMMA HandleTypes ==
    ASSUME TypeInv, UNCHANGED <<raw, links, outside, reqs>>,
           fds' \in [Fds -> OpenFiles], dirs' \in [Dirs -> OpenDirs],
           reading' \in Dirs \cup {NoDir}
    PROVE  TypeInv'
BY DEF TypeInv, TypeOK, Tree, ReqInv

\* A removal from the raw directory and from the library's tree keeps the
\* types, if no directory goes that something is in.
LEMMA RemovalTypes ==
    ASSUME TypeInv, NEW c \in Clients, NEW p \in Paths, NEW r,
           r \in Tops => (raw[r] # "dir" \/ Entries(r) = {}),
           raw' = Removed(r), Forget(c, p, r), UNCHANGED <<links, outside, reading>>
    PROVE  TypeInv'
<1>1. raw' \in [Paths -> Kinds] /\ Tree'
    BY RemovedTree DEF TypeInv
<1>2. dirs' = DirsWithout(p, r)
    BY DEF Forget
<1>3. dirs' \in [Dirs -> OpenDirs]
    BY <1>2, DirsForgotten DEF TypeInv
<1>4. fds' \in [Fds -> OpenFiles] /\ reqs' \in [Clients -> Requests] /\ ReqInv'
    BY Forgotten
<1> QED BY <1>1, <1>3, <1>4 DEF TypeInv, TypeOK

\* Every handler keeps the types and the shape of the tree.
LEMMA ServeTypes ==
    ASSUME TypeInv, NEW c \in Clients,
           \/ Request(c) \/ NotFound(c) \/ Mkdir(c) \/ Rmdir(c) \/ Unlink(c) \/ Rename(c)
           \/ Mknod(c) \/ Symlink(c) \/ ChangeNothing(c) \/ Open(c) \/ Create(c) \/ Opendir(c)
    PROVE  TypeInv'
<1>1. /\ raw \in [Paths -> Kinds] /\ Tree /\ outside \subseteq Paths
      /\ fds \in [Fds -> OpenFiles] /\ dirs \in [Dirs -> OpenDirs]
    BY DEF TypeInv, TypeOK
<1>2. Tree /\ raw' = raw => Tree'
    BY DEF Tree
<1>3. CASE Mkdir(c)
    <2>1. reqs[c].path \in Paths
        BY <1>3, ServedPath DEF Mkdir
    <2>2. PICK r \in {RootPath(reqs[c].path)} :
            raw' \in {raw} \cup (IF KindOf(r) = "none" /\ r \in Paths
                                THEN {[raw EXCEPT ![r] = "dir"]} ELSE {})
        BY <1>3 DEF Mkdir
    <2>3. raw' \in [Paths -> Kinds] /\ Tree'
        <3>1. CASE raw' = raw
            BY <1>1, <1>2, <3>1
        <3>2. CASE r \in Paths /\ raw' = [raw EXCEPT ![r] = "dir"]
            <4>1. r \in Paths \ Tops => raw[<<r[1]>>] = "dir"
                BY <2>1, RootPathParent DEF TypeInv
            <4> QED BY <3>2, <4>1, TreeKept DEF Kinds, TypeInv
        <3> QED BY <2>2, <3>1, <3>2
    <2> QED BY <1>1, <1>3, <2>3, ClientTypes DEF Mkdir
<1>4. CASE Rmdir(c)
    <2>1. PICK p \in {reqs[c].path} :
            \E r \in {NoPath} \cup {q \in {RootPath(p)} : KindOf(q) = "dir" /\ Entries(q) = {}} :
                raw' = Removed(r) /\ Forget(c, p, r)
        BY <1>4 DEF Rmdir
    <2>2. PICK r : /\ r = NoPath \/ Entries(r) = {}
                   /\ raw' = Removed(r) /\ Forget(c, p, r)
        BY <2>1
    <2>3. p \in Paths /\ UNCHANGED <<links, outside, reading>>
        BY <1>4, <2>1, ServedPath DEF Rmdir
    <2>4. r \in Tops => Entries(r) = {}
        BY <2>2, NamespaceAssumption DEF Paths
    <2> QED BY <2>2, <2>3, <2>4, RemovalTypes
<1>5. CASE Unlink(c)
    <2>1. PICK p \in {reqs[c].path} :
            \E r \in {NoPath} \cup {q \in {RootPath(p)} : KindOf(q) = "file" /\ ~IsOpen(p)} :
                raw' = Removed(r) /\ Forget(c, p, r)
        BY <1>5 DEF Unlink
    <2>2. PICK r : /\ r = NoPath \/ KindOf(r) = "file"
                   /\ raw' = Removed(r) /\ Forget(c, p, r)
        BY <2>1
    <2>3. p \in Paths /\ UNCHANGED <<links, outside, reading>>
        BY <1>5, <2>1, ServedPath DEF Unlink
    <2>4. r \in Tops => raw[r] # "dir"
        BY <2>2, NamespaceAssumption, PathShape DEF Paths, KindOf
    <2> QED BY <2>2, <2>3, <2>4, RemovalTypes
<1>6. CASE Mknod(c) \/ Symlink(c) \/ ChangeNothing(c) \/ Request(c) \/ NotFound(c)
    <2>1. CASE Mknod(c) \/ Symlink(c)
        <3>1. reqs[c].path \in Paths /\ outside' \in MadeAt(reqs[c].path)
            BY <2>1, ServedPath DEF Mknod, Symlink
        <3>2. outside' \subseteq Paths
            BY <1>1, <3>1 DEF MadeAt
        <3> QED BY <1>1, <1>2, <2>1, <3>2, ClientTypes DEF Mknod, Symlink
    <2>2. CASE ChangeNothing(c) \/ NotFound(c)
        BY <1>1, <1>2, <2>2, ClientTypes DEF ChangeNothing, NotFound
    <2>3. CASE Request(c)
        <3>1. PICK op \in Operations, p \in Paths \cup {Root}, excl \in BOOLEAN,
                   to \in Paths \cup {NoPath} :
                /\ p = Root => op = "opendir"
                /\ reqs' = [reqs EXCEPT ![c] = [op |-> op, path |-> p, to |-> to, excl |-> excl]]
            BY <2>3 DEF Request, Targets
        <3>2. [op |-> op, path |-> p, to |-> to, excl |-> excl] \in Requests
            BY <3>1, NamespaceAssumption DEF Requests
        <3>3. op # "none"
            BY <3>1, NamespaceAssumption DEF OperationKinds, NoChange, Changes, IgnoredChanges,
                   IgnoredXattrs, IgnoredChecks, IgnoredCalls, Inquiries
        <3>4. \A x \in Clients : reqs'[x] = IF x = c
                THEN [op |-> op, path |-> p, to |-> to, excl |-> excl] ELSE reqs[x]
            BY <3>1 DEF TypeInv, TypeOK
        <3>5. reqs' \in [Clients -> Requests]
            BY <3>1, <3>2 DEF TypeInv, TypeOK
        <3>6. ReqInv'
            BY <3>1, <3>3, <3>4 DEF TypeInv, ReqInv
        <3> QED BY <1>1, <1>2, <2>3, <3>5, <3>6 DEF Request, TypeInv, TypeOK
    <2> QED BY <1>6, <2>1, <2>2, <2>3
<1>7. CASE Open(c)
    <2>1. reqs[c].path \in Paths
        BY <1>7, ServedPath DEF Open
    <2>2. [node |-> reqs[c].path, fd |-> "real"] \in OpenFiles
        BY <2>1 DEF OpenFiles
    <2>3. fds' \in [Fds -> OpenFiles]
        BY <1>1, <1>7, <2>2 DEF Open
    <2> QED BY <1>1, <1>2, <1>7, <2>3, ClientTypes DEF Open
<1>8. CASE Create(c)
    <2>1. reqs[c].path \in Paths
        BY <1>8, ServedPath DEF Create
    <2>2. PICK d \in Fds, fails \in BOOLEAN, r \in {RootPath(reqs[c].path)} :
            LET opens == /\ ~fails
                         /\ r \in Paths
                         /\ raw[r] \in {"none"} \cup (IF reqs[c].excl THEN {} ELSE {"file"})
                file  == [node |-> reqs[c].path, fd |-> IF opens THEN "real" ELSE "bad"]
            IN  /\ raw' = IF opens THEN [raw EXCEPT ![r] = "file"] ELSE raw
                /\ \/ fds' = [fds EXCEPT ![d] = file]
                   \/ UNCHANGED fds
        BY <1>8 DEF Create
    <2>3. \A fd \in {"real", "bad"} : [node |-> reqs[c].path, fd |-> fd] \in OpenFiles
        BY <2>1 DEF OpenFiles
    <2>4. fds' \in [Fds -> OpenFiles]
        BY <1>1, <2>2, <2>3
    <2>5. raw' \in [Paths -> Kinds] /\ Tree'
        <3>1. CASE raw' = raw
            BY <1>1, <1>2, <3>1
        <3>2. CASE r \in Paths /\ raw[r] \in {"none", "file"} /\ raw' = [raw EXCEPT ![r] = "file"]
            <4>1. r \in Paths \ Tops => raw[<<r[1]>>] = "dir"
                BY <2>1, <2>2, <3>2, RootPathParent DEF TypeInv
            <4> QED BY <3>2, <4>1, TreeKept DEF Kinds, TypeInv
        <3> QED BY <2>2, <3>1, <3>2
    <2> QED BY <1>1, <1>8, <2>4, <2>5, ClientTypes DEF Create
<1>9. CASE Opendir(c)
    <2>1. reqs[c].path \in Paths \cup {Root}
        BY <1>9, ServedPath DEF Opendir
    <2>2. dirs' \in [Dirs -> OpenDirs]
        <3>1. CASE UNCHANGED dirs
            BY <1>1, <3>1
        <3>2. ASSUME NEW r \in {RootPath(reqs[c].path)}, NEW h \in Dirs,
                     dirs' = [dirs EXCEPT ![h].node = reqs[c].path, ![h].dir = r]
              PROVE  dirs' \in [Dirs -> OpenDirs]
            <4>1. r \in Paths \cup {Root, NoPath}
                BY <2>1, RootPathType DEF TypeInv
            <4> QED BY <1>1, <2>1, <3>2, <4>1 DEF OpenDirs
        <3> QED BY <1>9, <3>1, <3>2 DEF Opendir
    <2> QED BY <1>1, <1>2, <1>9, <2>2, ClientTypes DEF Opendir
<1>10. CASE Rename(c)
    <2>1. PICK p \in {reqs[c].path}, q \in {reqs[c].to} :
            /\ fds' = [d \in Fds |->
                        [node |-> IF Below(fds[d].node, q) THEN Gone ELSE Moved(fds[d].node, p, q),
                         fd |-> fds[d].fd]]
            /\ dirs' = [h \in Dirs |-> [dirs[h] EXCEPT !.node = Moved(Without(@, q), p, q)]]
            /\ reqs' = [x \in Clients |->
                        IF x = c THEN NoReq
                        ELSE Renamed(reqs[x], Moved(Without(reqs[x].path, q), p, q),
                                              Moved(Without(reqs[x].to, q), p, q))]
        BY <1>10 DEF Rename
    <2>2. p \in Paths /\ q \in Paths \cup {NoPath} /\ UNCHANGED <<raw, links, outside, reading>>
        BY <1>10, <2>1, ServedPath DEF Rename
    <2>3. ASSUME NEW d \in Fds
          PROVE  [node |-> IF Below(fds[d].node, q) THEN Gone ELSE Moved(fds[d].node, p, q),
                  fd |-> fds[d].fd] \in OpenFiles
        <3>1. fds[d] \in OpenFiles
            BY <1>1
        <3>2. Moved(fds[d].node, p, q) \in Paths \cup {NoPath, fds[d].node}
            BY <2>2, MovedPath
        <3> QED BY <3>1, <3>2 DEF OpenFiles
    <2>4. \A node : Moved(Without(node, q), p, q) \in Paths \cup {NoPath, node}
        <3>1. ASSUME NEW node PROVE Moved(Without(node, q), p, q) \in Paths \cup {NoPath, node}
            <4>1. PICK w : w = Without(node, q)
                OBVIOUS
            <4>2. w \in {node, NoPath}
                BY <4>1 DEF Without
            <4>3. Moved(w, p, q) \in Paths \cup {NoPath, w}
                BY <2>2, MovedPath
            <4> QED BY <4>1, <4>2, <4>3
        <3> QED BY <3>1
    <2>5. ASSUME NEW h \in Dirs
          PROVE  [dirs[h] EXCEPT !.node = Moved(Without(@, q), p, q)] \in OpenDirs
        <3>1. dirs[h] \in OpenDirs
            BY <1>1
        <3>2. Moved(Without(dirs[h].node, q), p, q) \in Paths \cup {Root, NoPath}
            BY <2>4, <3>1 DEF OpenDirs
        <3> QED BY <3>1, <3>2 DEF OpenDirs
    <2>6. fds' \in [Fds -> OpenFiles] /\ dirs' \in [Dirs -> OpenDirs]
        BY <2>1, <2>3, <2>5
    <2>7. NoReq \in Requests /\ NoReq.op = "none"
        BY DEF NoReq, Requests
    <2> DEFINE after(x) == Renamed(reqs[x], Moved(Without(reqs[x].path, q), p, q),
                                            Moved(Without(reqs[x].to, q), p, q))
    <2>8. ASSUME NEW x \in Clients
          PROVE  /\ after(x) \in Requests
                 /\ IF after(x).op = "none" THEN after(x) = NoReq
                    ELSE /\ after(x).op \in Operations
                         /\ after(x).path = Root => after(x).op = "opendir"
        <3>1. PICK path, to : /\ path = Moved(Without(reqs[x].path, q), p, q)
                              /\ to = Moved(Without(reqs[x].to, q), p, q)
            OBVIOUS
        <3>2. path \in Paths \cup {reqs[x].path, NoPath} /\ to \in Paths \cup {NoPath, reqs[x].to}
            BY <2>4, <3>1
        <3>3. reqs[x].to \in Paths \cup {NoPath}
            BY DEF TypeInv, TypeOK, Requests
        <3>4. reqs[x].path = NoPath => path = NoPath
            <4>1. Without(NoPath, q) = NoPath
                BY DEF Without
            <4>2. Moved(NoPath, p, q) = NoPath
                BY <2>2, NoPathStays
            <4> QED BY <3>1, <4>1, <4>2
        <3>5. to \in Paths \cup {NoPath}
            BY <3>2, <3>3
        <3>6. after(x) = Renamed(reqs[x], path, to)
            BY <3>1
        <3> HIDE DEF after
        <3>7. /\ Renamed(reqs[x], path, to) \in Requests
              /\ IF Renamed(reqs[x], path, to).op = "none"
                 THEN Renamed(reqs[x], path, to) = NoReq
                 ELSE /\ Renamed(reqs[x], path, to).op \in Operations
                      /\ Renamed(reqs[x], path, to).path = Root =>
                            Renamed(reqs[x], path, to).op = "opendir"
            BY <3>2, <3>4, <3>5, RequestAfter
        <3> QED BY <3>6, <3>7
    <2>9. reqs' = [x \in Clients |-> IF x = c THEN NoReq ELSE after(x)]
        BY <2>1
    <2> HIDE DEF after
    <2>10. reqs' \in [Clients -> Requests]
        BY <2>7, <2>8, <2>9
    <2>11. ReqInv'
        BY <2>7, <2>8, <2>9 DEF ReqInv
    <2> QED BY <1>2, <2>2, <2>6, <2>10, <2>11 DEF TypeInv, TypeOK
<1> QED BY <1>3, <1>4, <1>5, <1>6, <1>7, <1>8, <1>9, <1>10

\* What a directory holds are names.
LEMMA EntriesAreNames == \A dir : Entries(dir) \subseteq Names
BY NamespaceAssumption DEF Entries

\* The steps of a listing change that open directory only: its stream gets
\* names, or a name of it is taken, shown if it can be found.
LEMMA ReaddirSteps ==
    ASSUME TypeOK, NEW h \in Dirs, Readdir(h)
    PROVE  /\ UNCHANGED <<raw, links, outside, fds, reqs>>
           /\ dirs' \in [Dirs -> OpenDirs] /\ reading' \in Dirs \cup {NoDir}
           /\ \A g \in Dirs : dirs'[g].node = dirs[g].node /\ dirs'[g].dir = dirs[g].dir
           /\ \A g \in Dirs : g # h => dirs'[g] = dirs[g]
           /\ \/ /\ reading' = h
                 /\ \/ dirs'[h].left = dirs[h].left /\ dirs'[h].shown = dirs[h].shown
                       /\ dirs'[h].kept = dirs[h].kept /\ dirs'[h].whole = dirs[h].whole
                    \/ \E new \in SUBSET Entries(dirs[h].dir) :
                        /\ dirs'[h].left = dirs[h].left \cup new
                        /\ dirs'[h].shown = dirs[h].shown
                        /\ dirs'[h].kept = dirs[h].kept \cup (new \ Unstatable)
                        /\ dirs'[h].whole = (dirs[h].whole /\ new \cap Unstatable = {})
                    \/ \E n \in dirs[h].left \ Unstatable :
                        /\ dirs'[h].left = dirs[h].left \ {n}
                        /\ dirs'[h].shown = dirs[h].shown \cup {n}
                        /\ dirs'[h].kept = dirs[h].kept /\ dirs'[h].whole = dirs[h].whole
              \/ /\ reading = h /\ reading' = NoDir
                 /\ dirs'[h].shown = dirs[h].shown
                 /\ dirs'[h].kept = dirs[h].kept /\ dirs'[h].whole = dirs[h].whole
                 /\ \/ dirs[h].left = {} /\ dirs'[h].left = {}
                    \/ \E n \in dirs[h].left \cap Unstatable : dirs'[h].left = dirs[h].left \ {n}
<1>1. dirs \in [Dirs -> OpenDirs] /\ dirs[h] \in OpenDirs
    BY DEF TypeOK
<1>2. CASE ReaddirEnter(h)
    <2>1. PICK o : o = [dirs[h] EXCEPT !.calls = @ + 1]
        OBVIOUS
    <2>2. /\ o \in OpenDirs
          /\ o.node = dirs[h].node /\ o.dir = dirs[h].dir /\ o.left = dirs[h].left
          /\ o.shown = dirs[h].shown /\ o.kept = dirs[h].kept /\ o.whole = dirs[h].whole
        BY <1>1, <2>1 DEF OpenDirs
    <2>3. /\ reading' = h /\ UNCHANGED <<raw, links, outside, fds, reqs>>
          /\ dirs' = [dirs EXCEPT ![h] = IF o.calls = 1 THEN Filled(o, Entries(o.dir)) ELSE o]
        BY <1>2, <2>1 DEF ReaddirEnter
    <2>4. CASE o.calls = 1
        <3>1. PICK new \in SUBSET Names : new = Entries(o.dir)
            BY EntriesAreNames
        <3>2. dirs' = [dirs EXCEPT ![h] = Filled(o, new)]
            BY <2>3, <2>4, <3>1
        <3>3. Filled(o, new) \in OpenDirs
            BY <2>2, FilledType
        <3>4. dirs' \in [Dirs -> OpenDirs] /\ dirs'[h] = Filled(o, new)
              /\ \A g \in Dirs : g # h => dirs'[g] = dirs[g]
            BY <1>1, <3>2, <3>3
        <3>5. /\ dirs'[h].node = o.node /\ dirs'[h].dir = o.dir
              /\ dirs'[h].shown = o.shown
              /\ dirs'[h].left = o.left \cup new
              /\ dirs'[h].kept = o.kept \cup (new \ Unstatable)
              /\ dirs'[h].whole = (o.whole /\ new \cap Unstatable = {})
            BY <2>2, <3>4, FilledType
        <3> QED BY <2>2, <2>3, <3>1, <3>4, <3>5
    <2>5. CASE o.calls # 1
        <3>1. dirs' \in [Dirs -> OpenDirs] /\ dirs'[h] = o
              /\ \A g \in Dirs : g # h => dirs'[g] = dirs[g]
            BY <1>1, <2>2, <2>3, <2>5
        <3> QED BY <2>2, <2>3, <3>1
    <2> QED BY <2>4, <2>5
<1>3. CASE ReaddirMore(h)
    <2>1. PICK new \in SUBSET Entries(dirs[h].dir) : dirs' = [dirs EXCEPT ![h] = Filled(@, new)]
        BY <1>3 DEF ReaddirMore
    <2>2. /\ reading' = h /\ UNCHANGED <<raw, links, outside, fds, reqs>>
        BY <1>3 DEF ReaddirMore
    <2>3. new \in SUBSET Names
        BY <2>1, EntriesAreNames
    <2>4. Filled(dirs[h], new) \in OpenDirs
        BY <1>1, <2>3, FilledType
    <2>5. dirs' \in [Dirs -> OpenDirs] /\ dirs'[h] = Filled(dirs[h], new)
          /\ \A g \in Dirs : g # h => dirs'[g] = dirs[g]
        BY <1>1, <2>1, <2>4
    <2>6. /\ dirs'[h].node = dirs[h].node /\ dirs'[h].dir = dirs[h].dir
          /\ dirs'[h].shown = dirs[h].shown
          /\ dirs'[h].left = dirs[h].left \cup new
          /\ dirs'[h].kept = dirs[h].kept \cup (new \ Unstatable)
          /\ dirs'[h].whole = (dirs[h].whole /\ new \cap Unstatable = {})
        BY <1>1, <2>3, <2>5, FilledType
    <2> QED BY <2>2, <2>5, <2>6
<1>4. CASE ReaddirEntry(h)
    <2>1. reading = h /\ UNCHANGED <<raw, links, outside, fds, reqs>>
        BY <1>4 DEF ReaddirEntry
    <2>2. PICK n \in dirs[h].left :
            IF n \in Unstatable
            THEN dirs' = [dirs EXCEPT ![h].left = @ \ {n}] /\ reading' = NoDir
            ELSE /\ dirs' = [dirs EXCEPT ![h].left = @ \ {n}, ![h].shown = @ \cup {n}]
                 /\ UNCHANGED reading
        BY <1>4 DEF ReaddirEntry
    <2>3. n \in Names
        BY <1>1, <2>2 DEF OpenDirs
    <2>4. CASE n \in Unstatable
        <3>1. dirs' = [dirs EXCEPT ![h].left = @ \ {n}] /\ reading' = NoDir
            BY <2>2, <2>4
        <3>2. /\ dirs' \in [Dirs -> OpenDirs]
              /\ \A g \in Dirs : g # h => dirs'[g] = dirs[g]
              /\ dirs'[h].node = dirs[h].node /\ dirs'[h].dir = dirs[h].dir
              /\ dirs'[h].shown = dirs[h].shown /\ dirs'[h].left = dirs[h].left \ {n}
              /\ dirs'[h].kept = dirs[h].kept /\ dirs'[h].whole = dirs[h].whole
            BY <1>1, <3>1 DEF OpenDirs
        <3> QED BY <2>1, <2>2, <2>4, <3>1, <3>2
    <2>5. CASE n \notin Unstatable
        <3>1. /\ dirs' = [dirs EXCEPT ![h].left = @ \ {n}, ![h].shown = @ \cup {n}]
              /\ reading' = h
            BY <2>1, <2>2, <2>5
        <3>2. /\ dirs' \in [Dirs -> OpenDirs]
              /\ \A g \in Dirs : g # h => dirs'[g] = dirs[g]
              /\ dirs'[h].node = dirs[h].node /\ dirs'[h].dir = dirs[h].dir
              /\ dirs'[h].shown = dirs[h].shown \cup {n} /\ dirs'[h].left = dirs[h].left \ {n}
              /\ dirs'[h].kept = dirs[h].kept /\ dirs'[h].whole = dirs[h].whole
            BY <1>1, <2>3, <3>1 DEF OpenDirs
        <3> QED BY <2>1, <2>2, <2>5, <3>1, <3>2
    <2> QED BY <2>4, <2>5
<1>5. CASE ReaddirEnd(h)
    BY <1>1, <1>5 DEF ReaddirEnd
<1> QED BY <1>2, <1>3, <1>4, <1>5 DEF Readdir

\* Every step keeps the types and the shape of the tree.
LEMMA TypeStep == TypeInv /\ [Next]_vars => TypeInv'
<1> SUFFICES ASSUME TypeInv, [Next]_vars PROVE TypeInv'
    OBVIOUS
<1>1. ClosedFile \in OpenFiles /\ ClosedDir \in OpenDirs
    BY DEF ClosedFile, OpenFiles, ClosedDir, OpenDirs
<1>2. NoReq \in Requests /\ NoReq.op = "none"
    BY DEF NoReq, Requests
<1>3. /\ fds \in [Fds -> OpenFiles] /\ dirs \in [Dirs -> OpenDirs]
      /\ reading \in Dirs \cup {NoDir}
    BY DEF TypeInv, TypeOK
<1>4. ASSUME NEW c \in Clients,
             \/ Request(c) \/ NotFound(c) \/ Mkdir(c) \/ Rmdir(c) \/ Unlink(c) \/ Rename(c)
             \/ Mknod(c) \/ Symlink(c) \/ ChangeNothing(c) \/ Open(c) \/ Create(c) \/ Opendir(c)
      PROVE  TypeInv'
    BY <1>4, ServeTypes
<1>5. ASSUME NEW d \in Fds, Release(d) PROVE TypeInv'
    BY <1>1, <1>3, <1>5, HandleTypes DEF Release
<1>6. ASSUME NEW h \in Dirs, Readdir(h) PROVE TypeInv'
    <2>1. /\ UNCHANGED <<raw, links, outside, fds, reqs>>
          /\ dirs' \in [Dirs -> OpenDirs] /\ reading' \in Dirs \cup {NoDir}
        BY <1>6, ReaddirSteps DEF TypeInv
    <2> QED BY <1>3, <2>1, HandleTypes
<1>7. ASSUME NEW h \in Dirs, Releasedir(h) PROVE TypeInv'
    BY <1>1, <1>3, <1>7, HandleTypes DEF Releasedir
<1>8. CASE OperatorAdds
    <2>1. PICK p \in Paths, kind \in {"file", "dir"} :
            /\ Len(p) = 2 => raw[<<p[1]>>] = "dir"
            /\ raw[p] = "none"
            /\ raw' = [raw EXCEPT ![p] = kind]
        BY <1>8 DEF OperatorAdds
    <2>2. p \in Paths \ Tops => Len(p) = 2
        BY PathShape
    <2>3. raw' \in [Paths -> Kinds] /\ Tree'
        BY <2>1, <2>2, TreeKept DEF Kinds, TypeInv
    <2> QED BY <1>8, <2>3 DEF OperatorAdds, TypeInv, TypeOK, ReqInv
<1>9. CASE OperatorRemoves
    <2>1. PICK p \in Paths :
            /\ raw[p] = "dir" => Entries(p) = {}
            /\ raw' = [raw EXCEPT ![p] = "none"]
            /\ dirs' = DirsWithout(NoPath, p)
        BY <1>9 DEF OperatorRemoves
    <2>2. raw' \in [Paths -> Kinds] /\ Tree'
        BY <2>1, TreeKept DEF Kinds, TypeInv
    <2>3. dirs' \in [Dirs -> OpenDirs]
        BY <2>1, DirsForgotten DEF TypeInv
    <2> QED BY <1>9, <2>2, <2>3 DEF OperatorRemoves, TypeInv, TypeOK, ReqInv
<1>10. CASE Restart
    BY <1>1, <1>2, <1>10 DEF Restart, TypeInv, TypeOK, Tree, ReqInv
<1>11. CASE UNCHANGED vars
    BY <1>11 DEF vars, TypeInv, TypeOK, Tree, ReqInv
<1> QED BY <1>4, <1>5, <1>6, <1>7, <1>8, <1>9, <1>10, <1>11 DEF Next

\* The invariant holds at the start.
LEMMA TypeInit == Init => TypeInv
<1>1. ClosedFile \in OpenFiles /\ ClosedDir \in OpenDirs
    BY DEF ClosedFile, OpenFiles, ClosedDir, OpenDirs
<1>2. NoReq \in Requests /\ NoReq.op = "none"
    BY DEF NoReq, Requests
<1> QED BY <1>1, <1>2 DEF Init, TypeInv, TypeOK, ReqInv

\* The raw directory stays a tree under all requests, also those that answer
\* what they did not do, and the variables keep their types.
THEOREM NamesTypeCorrect == Spec => []TypeOK
<1>1. TypeInv => TypeOK
    BY DEF TypeInv
<1> QED BY <1>1, TypeInit, TypeStep, PTL DEF Spec

-----------------------------------------------------------------------------
(***************************************************************************)
(* Requests stay in place.                                                 *)
(***************************************************************************)

\* What keeps qfs_get_root_path from stopping at a component above: a
\* directory that a client holds, and the one that a request is to change,
\* are there; the latter is locked for one request at a time.
PlaceInv ==
    StaysInPlace =>
        /\ \A h \in Dirs : dirs[h].node \in Tops => raw[dirs[h].node] = "dir"
        /\ \A c \in Clients :
            (reqs[c].op \in Changes /\ reqs[c].path \in Paths \ Tops) =>
                raw[<<reqs[c].path[1]>>] = "dir"
        /\ \A c, x \in Clients : c # x => Locked(reqs[c]) \cap Locked(reqs[x]) = {}

\* Each request is the one that it was, has lost its path, or was answered.
RequestsKept ==
    \A c \in Clients :
        \/ reqs'[c] = NoReq
        \/ reqs'[c].op = reqs[c].op /\ reqs'[c].path \in {reqs[c].path, NoPath}

\* What locks its parent.
LEMMA LocksParent ==
    ASSUME NEW r, NEW p \in Paths, r.path = p, r.op \in Changes
    PROVE  /\ Parent(p) \in Locked(r)
           /\ p \in Paths \ Tops => <<p[1]>> \in Locked(r)
           /\ r.op \in {"rmdir", "unlink"} => p \in Locked(r)
BY NamespaceAssumption DEF Locked, Parent

\* qfs_get_root_path returns the path of a request that is to change it.
LEMMA RequestPath ==
    ASSUME TypeInv, PlaceInv, StaysInPlace, NEW c \in Clients,
           reqs[c].op \in Changes, reqs[c].path \in Paths
    PROVE  RootPath(reqs[c].path) = reqs[c].path
<1>1. Len(reqs[c].path) = 2 => raw[<<reqs[c].path[1]>>] = "dir"
    BY PathShape DEF PlaceInv
<1>2. LinkNames = {}
    BY DEF StaysInPlace
<1> QED BY <1>1, <1>2, RootPathInPlace DEF TypeInv

\* It does so too for a path that the kernel reaches.
LEMMA ReachedPath ==
    ASSUME TypeInv, PlaceInv, StaysInPlace, NEW p \in Paths, Reaches(p)
    PROVE  /\ RootPath(p) = p
           /\ p \in Paths \ Tops => raw[<<p[1]>>] = "dir"
<1>1. LinkNames = {}
    BY DEF StaysInPlace
<1>2. CASE Len(p) = 1
    BY <1>1, <1>2, RootPathInPlace, PathShape DEF TypeInv
<1>3. CASE Len(p) = 2
    <2>1. p[1] \in Names /\ <<p[1]>> \in Paths /\ <<p[1]>> \in Tops /\ <<p[1]>> # Root
        BY PathShape DEF Tops, Root
    <2>2. raw[<<p[1]>>] = "dir"
        <3>1. CASE Getattr(<<p[1]>>) = "dir"
            <4>1. Len(<<p[1]>>) = 1
                OBVIOUS
            <4>2. RootPath(<<p[1]>>) = <<p[1]>>
                BY <1>1, <2>1, <4>1, RootPathInPlace DEF TypeInv
            <4>3. KindOf(<<p[1]>>) = raw[<<p[1]>>]
                BY <2>1 DEF KindOf
            <4> QED BY <3>1, <4>2, <4>3 DEF Getattr
        <3>2. CASE \E h \in Dirs : dirs[h].node = <<p[1]>>
            BY <2>1, <3>2 DEF PlaceInv
        <3> QED BY <1>3, <3>1, <3>2 DEF Reaches
    <2> QED BY <1>1, <2>2, RootPathInPlace DEF TypeInv
<1> QED BY <1>2, <1>3, PathShape

\* Requests that wait lock no more than before.
LEMMA LocksKept ==
    ASSUME TypeInv, PlaceInv, StaysInPlace, RequestsKept
    PROVE  \A c, x \in Clients : c # x => Locked(reqs'[c]) \cap Locked(reqs'[x]) = {}
<1>1. ASSUME NEW c \in Clients PROVE Locked(reqs'[c]) \subseteq Locked(reqs[c])
    <2>1. CASE reqs'[c].path = NoPath
        BY <2>1 DEF Locked
    <2>2. CASE reqs'[c] = NoReq
        BY <2>2 DEF Locked, NoReq
    <2>3. CASE reqs'[c].path # NoPath /\ reqs'[c] # NoReq
        <3>1. reqs'[c].op = reqs[c].op /\ reqs'[c].path = reqs[c].path
            BY <2>3 DEF RequestsKept
        <3>2. reqs[c].op # "rename"
            BY DEF TypeInv, ReqInv, StaysInPlace, NoReq
        <3> QED BY <3>1, <3>2 DEF Locked
    <2> QED BY <2>1, <2>2, <2>3
<1> QED BY <1>1 DEF PlaceInv

\* A step keeps what is in place if directories that are held stay.
LEMMA PlaceKept ==
    ASSUME TypeInv, PlaceInv, StaysInPlace, RequestsKept,
           \A h \in Dirs : dirs'[h].node \in Tops => dirs'[h].node = dirs[h].node,
           NEW gone,
           \A t \in Tops : t # gone /\ raw[t] = "dir" => raw'[t] = "dir",
           gone \in Tops =>
                /\ \A h \in Dirs : dirs'[h].node # gone
                /\ \A c \in Clients :
                    (reqs'[c].op \in Changes /\ reqs'[c].path \in Paths \ Tops) =>
                        <<reqs'[c].path[1]>> # gone
    PROVE  PlaceInv'
<1>1. ASSUME NEW h \in Dirs, dirs'[h].node \in Tops
      PROVE  raw'[dirs'[h].node] = "dir"
    BY <1>1 DEF PlaceInv
<1>2. ASSUME NEW c \in Clients, reqs'[c].op \in Changes, reqs'[c].path \in Paths \ Tops
      PROVE  raw'[<<reqs'[c].path[1]>>] = "dir"
    <2>1. reqs'[c].op = reqs[c].op /\ reqs'[c].path = reqs[c].path
        BY <1>2, NamespaceAssumption DEF RequestsKept, NoReq
    <2>2. raw[<<reqs[c].path[1]>>] = "dir"
        BY <1>2, <2>1 DEF PlaceInv
    <2>3. <<reqs'[c].path[1]>> \in Tops
        BY <1>2, PathShape DEF Tops
    <2>4. <<reqs'[c].path[1]>> # gone
        BY <1>2, <2>3
    <2> QED BY <2>1, <2>2, <2>3, <2>4
<1>3. \A c, x \in Clients : c # x => Locked(reqs'[c]) \cap Locked(reqs'[x]) = {}
    BY LocksKept
<1> QED BY <1>1, <1>2, <1>3 DEF PlaceInv, Locked, Parent

\* What a handler does in place to the raw directory.
LEMMA ServedInPlace ==
    ASSUME TypeInv, PlaceInv, StaysInPlace, NEW c \in Clients,
           Mkdir(c) \/ Rmdir(c) \/ Unlink(c) \/ Create(c)
    PROVE  /\ reqs[c].op \in Changes /\ reqs[c].path \in Paths
           /\ RootPath(reqs[c].path) = reqs[c].path
           /\ \/ raw' = raw
              \/ Mkdir(c) /\ raw[reqs[c].path] = "none"
                    /\ raw' = [raw EXCEPT ![reqs[c].path] = "dir"]
              \/ Create(c) /\ raw[reqs[c].path] \in {"none", "file"}
                    /\ raw' = [raw EXCEPT ![reqs[c].path] = "file"]
              \/ Unlink(c) /\ raw[reqs[c].path] = "file"
                    /\ raw' = [raw EXCEPT ![reqs[c].path] = "none"]
              \/ Rmdir(c) /\ raw' = [raw EXCEPT ![reqs[c].path] = "none"]
           /\ RequestsKept /\ reqs'[c] = NoReq
<1>1. reqs[c].op \in Changes /\ reqs[c].path \in Paths
    BY ServedPath DEF Mkdir, Rmdir, Unlink, Create, Changes
<1>2. RootPath(reqs[c].path) = reqs[c].path
    BY <1>1, RequestPath
<1>3. KindOf(reqs[c].path) = raw[reqs[c].path]
    BY <1>1, PathShape DEF KindOf
<1>4. CASE Mkdir(c)
    BY <1>1, <1>2, <1>3, <1>4, Answered DEF Mkdir, RequestsKept
<1>5. CASE Create(c)
    <2>1. raw' = raw \/ (raw[reqs[c].path] \in {"none", "file"}
                         /\ raw' = [raw EXCEPT ![reqs[c].path] = "file"])
        BY <1>2, <1>5 DEF Create
    <2>2. Answer(c)
        BY <1>5 DEF Create
    <2> QED BY <1>1, <1>2, <1>5, <2>1, <2>2, Answered DEF RequestsKept
<1>6. CASE Unlink(c)
    <2>1. PICK p \in {reqs[c].path} :
            \E r \in {NoPath} \cup {q \in {RootPath(p)} : KindOf(q) = "file" /\ ~IsOpen(p)} :
                raw' = Removed(r) /\ Forget(c, p, r)
        BY <1>6 DEF Unlink
    <2>2. PICK r : /\ r = NoPath \/ (r = RootPath(p) /\ KindOf(r) = "file")
                   /\ raw' = Removed(r) /\ Forget(c, p, r)
        BY <2>1
    <2>3. p \in Paths /\ RootPath(p) = p /\ KindOf(p) = raw[p] /\ p = reqs[c].path
        BY <1>1, <1>2, <1>3, <2>1
    <2>4. RequestsKept /\ reqs'[c] = NoReq
        BY <2>2, <2>3, Forgotten DEF RequestsKept
    <2> QED BY <1>1, <1>2, <1>6, <2>2, <2>3, <2>4 DEF Removed
<1>7. CASE Rmdir(c)
    <2>1. PICK p \in {reqs[c].path} :
            \E r \in {NoPath} \cup {q \in {RootPath(p)} : KindOf(q) = "dir" /\ Entries(q) = {}} :
                raw' = Removed(r) /\ Forget(c, p, r)
        BY <1>7 DEF Rmdir
    <2>2. PICK r : /\ r = NoPath \/ r = RootPath(p)
                   /\ raw' = Removed(r) /\ Forget(c, p, r)
        BY <2>1
    <2>3. p \in Paths /\ RootPath(p) = p /\ p = reqs[c].path
        BY <1>1, <1>2, <2>1
    <2>4. RequestsKept /\ reqs'[c] = NoReq
        BY <2>2, <2>3, Forgotten DEF RequestsKept
    <2> QED BY <1>1, <1>2, <1>7, <2>2, <2>3, <2>4 DEF Removed
<1> QED BY <1>4, <1>5, <1>6, <1>7

\* A handler that changes the raw directory keeps what is in place.
LEMMA PlaceServed ==
    ASSUME TypeInv, PlaceInv, StaysInPlace, NEW c \in Clients,
           Mkdir(c) \/ Rmdir(c) \/ Unlink(c) \/ Create(c)
    PROVE  PlaceInv'
<1>1. /\ reqs[c].op \in Changes /\ reqs[c].path \in Paths
      /\ RequestsKept /\ reqs'[c] = NoReq
    BY ServedInPlace
<1>2. NoPath \notin Tops /\ Tops \subseteq Paths /\ NoPath \notin Paths
    BY NamespaceAssumption DEF Paths
<1>3. raw \in [Paths -> Kinds]
    BY DEF TypeInv, TypeOK
<1>4. CASE Mkdir(c) \/ Create(c)
    <2>1. \/ raw' = raw
          \/ raw[reqs[c].path] = "none" /\ raw' = [raw EXCEPT ![reqs[c].path] = "dir"]
          \/ raw[reqs[c].path] \in {"none", "file"} /\ raw' = [raw EXCEPT ![reqs[c].path] = "file"]
        BY <1>4, ServedInPlace DEF Mkdir, Create, Unlink, Rmdir, Serves
    <2>2. \A t \in Tops : raw[t] = "dir" => raw'[t] = "dir"
        BY <1>2, <1>3, <2>1
    <2>3. dirs' = dirs
        BY <1>4 DEF Mkdir, Create
    <2>4. PICK gone : gone = NoPath
        OBVIOUS
    <2> QED BY <1>1, <1>2, <2>2, <2>3, <2>4, PlaceKept
<1>5. CASE Unlink(c) \/ Rmdir(c)
    <2>1. PICK p, r : p = reqs[c].path /\ Forget(c, p, r)
        BY <1>5 DEF Unlink, Rmdir
    <2>2. p \in Paths /\ p = reqs[c].path /\ reqs[c].op \in {"unlink", "rmdir"}
        BY <1>1, <1>5, <2>1 DEF Unlink, Rmdir, Serves
    <2>3. raw' = raw \/ raw' = [raw EXCEPT ![p] = "none"]
        BY <1>5, <2>2, ServedInPlace DEF Mkdir, Create, Unlink, Rmdir, Serves
    <2>4. \A t \in Tops : t # p /\ raw[t] = "dir" => raw'[t] = "dir"
        BY <1>2, <1>3, <2>3
    <2>5. dirs' = DirsWithout(p, r)
        BY <2>1 DEF Forget
    <2>6. \A h \in Dirs : dirs'[h].node = Without(dirs[h].node, p)
        BY <2>5, DirsForgotten DEF TypeInv
    <2>7. \A h \in Dirs : /\ dirs'[h].node \in Tops => dirs'[h].node = dirs[h].node
                          /\ dirs'[h].node # p
        BY <1>2, <2>2, <2>6 DEF Without, Below
    <2>8. ASSUME p \in Tops, NEW x \in Clients, reqs'[x].op \in Changes,
                 reqs'[x].path \in Paths \ Tops, <<reqs'[x].path[1]>> = p
          PROVE  FALSE
        <3>1. x # c
            BY <1>1, <1>2, <2>8 DEF NoReq
        <3>2. reqs'[x].op = reqs[x].op /\ reqs'[x].path = reqs[x].path
            BY <1>1, <1>2, <2>8 DEF RequestsKept, NoReq
        <3>3. p \in Locked(reqs[x])
            BY <2>8, <3>2, LocksParent
        <3>4. p \in Locked(reqs[c])
            BY <1>1, <2>2, LocksParent
        <3> QED BY <3>1, <3>3, <3>4 DEF PlaceInv
    <2> QED BY <1>1, <2>4, <2>7, <2>8, PlaceKept
<1> QED BY <1>4, <1>5

\* Nothing removes a directory that is open or that a request goes through.
LEMMA PlaceStep == TypeInv /\ PlaceInv /\ [Next]_vars => PlaceInv'
<1> SUFFICES ASSUME TypeInv, PlaceInv, StaysInPlace, [Next]_vars PROVE PlaceInv'
    BY DEF PlaceInv, StaysInPlace
<1>1. NoPath \notin Tops /\ Tops \subseteq Paths
    BY NamespaceAssumption DEF Paths
<1>2. raw \in [Paths -> Kinds] /\ dirs \in [Dirs -> OpenDirs]
    BY DEF TypeInv, TypeOK
<1>3. ASSUME RequestsKept, \A t \in Tops : raw[t] = "dir" => raw'[t] = "dir",
             \A h \in Dirs : dirs'[h].node \in Tops => dirs'[h].node = dirs[h].node
      PROVE  PlaceInv'
    <2>1. PICK gone : gone = NoPath
        OBVIOUS
    <2> QED BY <1>1, <1>3, <2>1, PlaceKept
<1>4. UNCHANGED reqs => RequestsKept
    BY DEF RequestsKept
<1>5. ASSUME NEW c \in Clients, Mkdir(c) \/ Rmdir(c) \/ Unlink(c) \/ Create(c) PROVE PlaceInv'
    BY <1>5, PlaceServed
<1>6. ASSUME NEW c \in Clients, Rename(c) PROVE FALSE
    BY <1>6, ServedPath DEF Rename, StaysInPlace
<1>7. ASSUME NEW c \in Clients,
             NotFound(c) \/ Mknod(c) \/ Symlink(c) \/ ChangeNothing(c) \/ Open(c)
      PROVE  PlaceInv'
    <2>1. Answer(c) /\ UNCHANGED <<raw, dirs>>
        BY <1>7 DEF NotFound, Mknod, Symlink, ChangeNothing, Open
    <2>2. RequestsKept
        BY <2>1, Answered DEF RequestsKept
    <2> QED BY <1>3, <2>1, <2>2
<1>8. ASSUME NEW c \in Clients, Opendir(c) PROVE PlaceInv'
    <2>1. RequestsKept /\ raw' = raw /\ Serves(c, "opendir")
        BY <1>8, Answered DEF Opendir, RequestsKept
    <2>2. CASE UNCHANGED dirs
        BY <1>3, <2>1, <2>2
    <2>3. ASSUME NEW r \in {RootPath(reqs[c].path)}, NEW h \in Dirs, KindOf(r) = "dir",
                 dirs' = [dirs EXCEPT ![h].node = reqs[c].path, ![h].dir = r]
          PROVE  PlaceInv'
        <3>1. ASSUME reqs[c].path \in Tops PROVE raw[reqs[c].path] = "dir"
            <4>1. PICK p \in Paths : p = reqs[c].path /\ p \in Tops
                BY <1>1, <3>1
            <4>2. Len(p) = 1 /\ p # Root
                BY <4>1, PathShape
            <4>3. LinkNames = {}
                BY DEF StaysInPlace
            <4>4. RootPath(p) = p
                <5>1. Len(p) = 2 => raw[<<p[1]>>] = "dir"
                    BY <4>2
                <5>2. TypeOK
                    BY DEF TypeInv
                <5> QED BY <4>3, <5>1, <5>2, RootPathInPlace
            <4>5. KindOf(p) = "dir"
                BY <2>3, <4>1, <4>4
            <4>6. raw[p] = "dir"
                BY <4>1, <4>2, <4>5 DEF KindOf
            <4> QED BY <4>1, <4>6
        <3>2. dirs'[h].node = reqs[c].path /\ \A g \in Dirs \ {h} : dirs'[g] = dirs[g]
            BY <1>2, <2>3 DEF OpenDirs
        <3>3. \A g \in Dirs : dirs'[g].node \in Tops => raw'[dirs'[g].node] = "dir"
            BY <2>1, <3>1, <3>2 DEF PlaceInv
        <3>4. \A x \in Clients :
                (reqs'[x].op \in Changes /\ reqs'[x].path \in Paths \ Tops) =>
                    raw'[<<reqs'[x].path[1]>>] = "dir"
            BY <2>1, NamespaceAssumption DEF PlaceInv, RequestsKept, NoReq
        <3>5. \A x, y \in Clients : x # y => Locked(reqs'[x]) \cap Locked(reqs'[y]) = {}
            BY <2>1, LocksKept
        <3> QED BY <3>3, <3>4, <3>5 DEF PlaceInv, Locked, Parent
    <2> QED BY <1>8, <2>2, <2>3 DEF Opendir, Getattr
<1>9. ASSUME NEW c \in Clients, Request(c) PROVE PlaceInv'
    <2>1. PICK op \in Operations, p \in Paths \cup {Root}, excl \in BOOLEAN,
               to \in Paths \cup {NoPath} :
            \E r \in {[op |-> op, path |-> p, to |-> to, excl |-> excl]} :
                /\ Reaches(p) /\ Locked(r) \cap AllLocked = {}
                /\ reqs' = [reqs EXCEPT ![c] = r]
        BY <1>9 DEF Request, Targets
    <2> PICK r \in {[op |-> op, path |-> p, to |-> to, excl |-> excl]} :
                /\ Reaches(p) /\ Locked(r) \cap AllLocked = {}
                /\ reqs' = [reqs EXCEPT ![c] = r]
        BY <2>1
    <2>2. UNCHANGED <<raw, dirs>> /\ \A x \in Clients : reqs'[x] = IF x = c THEN r ELSE reqs[x]
        BY <1>9, <2>1 DEF Request, TypeInv, TypeOK
    <2>3. r.op = op /\ r.path = p
        BY <2>1
    <2>4. ASSUME p \in Paths \ Tops PROVE raw[<<p[1]>>] = "dir"
        BY <2>1, <2>4, ReachedPath
    <2>5. \A x \in Clients :
            (reqs'[x].op \in Changes /\ reqs'[x].path \in Paths \ Tops) =>
                raw'[<<reqs'[x].path[1]>>] = "dir"
        BY <2>2, <2>3, <2>4 DEF PlaceInv
    <2>6. \A x, y \in Clients : x # y => Locked(reqs'[x]) \cap Locked(reqs'[y]) = {}
        <3>1. \A x \in Clients : Locked(reqs[x]) \subseteq AllLocked
            BY DEF AllLocked
        <3>2. \A x \in Clients : Locked(r) \cap Locked(reqs[x]) = {}
            BY <2>1, <3>1
        <3> QED BY <2>2, <3>2 DEF PlaceInv
    <2> QED BY <2>2, <2>5, <2>6 DEF PlaceInv, Locked, Parent
<1>10. ASSUME NEW d \in Fds, Release(d) PROVE PlaceInv'
    BY <1>3, <1>4, <1>10 DEF Release
<1>11. ASSUME NEW h \in Dirs, Readdir(h) PROVE PlaceInv'
    <2>1. UNCHANGED <<raw, reqs>> /\ \A g \in Dirs : dirs'[g].node = dirs[g].node
        BY <1>11, ReaddirSteps DEF TypeInv
    <2> QED BY <1>3, <1>4, <2>1
<1>12. ASSUME NEW h \in Dirs, Releasedir(h) PROVE PlaceInv'
    <2>1. ClosedDir.node = NoPath
        BY DEF ClosedDir
    <2>2. \A g \in Dirs : dirs'[g].node \in {dirs[g].node, NoPath}
        BY <1>2, <1>12, <2>1 DEF Releasedir
    <2> QED BY <1>1, <1>3, <1>4, <1>12, <2>2 DEF Releasedir
<1>13. CASE OperatorAdds
    <2>1. \A t \in Tops : raw[t] = "dir" => raw'[t] = "dir"
        BY <1>1, <1>2, <1>13 DEF OperatorAdds
    <2> QED BY <1>3, <1>4, <1>13, <2>1 DEF OperatorAdds
<1>14. CASE OperatorRemoves
    BY <1>14 DEF OperatorRemoves, StaysInPlace
<1>15. CASE Restart
    <2>1. RequestsKept /\ \A h \in Dirs : dirs'[h].node = NoPath
        BY <1>15 DEF Restart, ClosedDir, RequestsKept
    <2> QED BY <1>1, <1>3, <1>15, <2>1 DEF Restart
<1>16. CASE UNCHANGED vars
    BY <1>3, <1>4, <1>16 DEF vars
<1> QED
    BY <1>5, <1>6, <1>7, <1>8, <1>9, <1>10, <1>11, <1>12, <1>13, <1>14, <1>15, <1>16
    DEF Next

\* The invariant holds at the start.
LEMMA PlaceInit == Init => PlaceInv
<1>1. NoReq.path = NoPath /\ ClosedDir.node = NoPath
    BY DEF NoReq, ClosedDir
<1>2. NoPath \notin Paths /\ NoPath \notin Tops
    BY NamespaceAssumption DEF Paths
<1> QED BY <1>1, <1>2 DEF Init, PlaceInv, Locked

\* The client that a step answers is the one whose handler ran.
LEMMA PlaceAction ==
    ASSUME TypeInv, PlaceInv, StaysInPlace, [Next]_vars, NEW c \in Clients,
           reqs[c] # NoReq, reqs'[c] = NoReq, NEW q \in Paths
    PROVE  raw'[q] = raw[q] \/ q = reqs[c].path
<1>1. ASSUME raw' = raw PROVE raw'[q] = raw[q]
    BY <1>1
<1>2. reqs[c].op # "none" /\ NoReq.op = "none"
    BY DEF TypeInv, ReqInv, NoReq
<1>3. ASSUME NEW x \in Clients, Mkdir(x) \/ Rmdir(x) \/ Unlink(x) \/ Create(x)
      PROVE  raw'[q] = raw[q] \/ q = reqs[c].path
    <2>1. x = c
        <3>1. CASE Mkdir(x) \/ Create(x)
            <4>1. Answer(x)
                BY <3>1 DEF Mkdir, Create
            <4> QED BY <4>1, Answered
        <3>2. CASE Rmdir(x) \/ Unlink(x)
            <4>1. PICK p, r : p = reqs[x].path /\ Forget(x, p, r)
                BY <3>2 DEF Rmdir, Unlink
            <4>2. p \in Paths
                BY <1>3, <4>1, ServedInPlace
            <4>3. x # c => reqs'[c].op = reqs[c].op
                BY <4>1, <4>2, Forgotten
            <4> QED BY <1>2, <4>3
        <3> QED BY <1>3, <3>1, <3>2
    <2>2. raw' = raw \/ \E k : raw' = [raw EXCEPT ![reqs[x].path] = k]
        BY <1>3, ServedInPlace
    <2> QED BY <2>1, <2>2 DEF TypeInv, TypeOK
<1>4. ASSUME NEW x \in Clients,
             \/ Request(x) \/ NotFound(x) \/ Rename(x) \/ Mknod(x) \/ Symlink(x)
             \/ ChangeNothing(x) \/ Open(x) \/ Opendir(x)
      PROVE  raw' = raw
    BY <1>4 DEF Request, NotFound, Rename, Mknod, Symlink, ChangeNothing, Open, Opendir
<1>5. ASSUME \/ \E d \in Fds : Release(d)
             \/ \E h \in Dirs : Releasedir(h)
             \/ OperatorAdds \/ OperatorRemoves \/ UNCHANGED vars
      PROVE  FALSE
    BY <1>5 DEF Release, Releasedir, OperatorAdds, OperatorRemoves, vars
<1>6. ASSUME NEW h \in Dirs, Readdir(h) PROVE FALSE
    BY <1>6, ReaddirSteps DEF TypeInv
<1>7. ASSUME Restart PROVE raw' = raw
    BY <1>7 DEF Restart
<1> QED BY <1>1, <1>3, <1>4, <1>5, <1>6, <1>7 DEF Next

\* Without links, renames and an operator who removes directories, the
\* handler of each request changes the raw path that it names and no other,
\* whatever was served since the kernel looked it up.
THEOREM RequestsStayInPlaceAlways == Spec => RequestsStayInPlace
<1>1. TypeInv /\ PlaceInv /\ [Next]_vars =>
        [StaysInPlace =>
            \A c \in Clients : (reqs[c] # NoReq /\ reqs'[c] = NoReq) =>
                \A q \in Paths : raw'[q] = raw[q] \/ q = reqs[c].path]_vars
    BY PlaceAction
<1> QED BY <1>1, TypeInit, PlaceInit, TypeStep, PlaceStep, PTL DEF Spec, RequestsStayInPlace
-----------------------------------------------------------------------------
(***************************************************************************)
(* Open files are backed.                                                  *)
(***************************************************************************)

\* A path that a client asks to create was none when the kernel looked it up,
\* and still is.
BackedInv ==
    (StaysInPlace /\ "add" \notin Operator) =>
        /\ \A d \in Fds : fds[d].fd # "bad"
        /\ \A c \in Clients :
            (reqs[c].op = "create" /\ reqs[c].path \in Paths) => raw[reqs[c].path] = "none"

\* A step keeps files backed if none goes bad and paths that are to be created
\* stay free.
LEMMA BackedKept ==
    ASSUME TypeInv, BackedInv, StaysInPlace, "add" \notin Operator, RequestsKept,
           \A d \in Fds : fds'[d].fd \in {fds[d].fd, "real", "none"},
           \A c \in Clients : (reqs'[c].op = "create" /\ reqs'[c].path \in Paths
                               /\ reqs'[c].path = reqs[c].path /\ raw[reqs[c].path] = "none") =>
                raw'[reqs'[c].path] = "none"
    PROVE  BackedInv'
<1>1. ASSUME NEW c \in Clients, reqs'[c].op = "create", reqs'[c].path \in Paths
      PROVE  raw'[reqs'[c].path] = "none"
    <2>1. reqs'[c].op = reqs[c].op /\ reqs'[c].path = reqs[c].path
        BY <1>1, NamespaceAssumption DEF RequestsKept, NoReq
    <2> QED BY <1>1, <2>1 DEF BackedInv
<1> QED BY <1>1 DEF BackedInv

\* While a client waits to create a path, nobody else makes it: the handler
\* of another request does not come to it, as both would lock its directory.
LEMMA OthersKeepFree ==
    ASSUME TypeInv, PlaceInv, StaysInPlace, NEW c \in Clients, NEW x \in Clients, x # c,
           Mkdir(x) \/ Rmdir(x) \/ Unlink(x) \/ Create(x),
           reqs[c].op = "create", reqs[c].path \in Paths, raw[reqs[c].path] = "none"
    PROVE  raw'[reqs[c].path] = "none"
<1>1. /\ reqs[x].op \in Changes /\ reqs[x].path \in Paths
      /\ raw' = raw \/ \E k : raw' = [raw EXCEPT ![reqs[x].path] = k]
    BY ServedInPlace
<1>2. reqs[c].op \in Changes
    BY DEF Changes
<1>3. reqs[x].path # reqs[c].path
    <2>1. ASSUME reqs[x].path = reqs[c].path PROVE FALSE
        <3>1. Parent(reqs[c].path) \in Locked(reqs[c])
            BY <1>2, LocksParent
        <3>2. Parent(reqs[x].path) \in Locked(reqs[x])
            BY <1>1, LocksParent
        <3> QED BY <2>1, <3>1, <3>2 DEF PlaceInv
    <2> QED BY <2>1
<1> QED BY <1>1, <1>3 DEF TypeInv, TypeOK

\* qfs_create makes the file it was asked for, or none is there.
LEMMA CreateBacked ==
    ASSUME TypeInv, PlaceInv, BackedInv, StaysInPlace, "add" \notin Operator,
           NEW c \in Clients, Create(c)
    PROVE  \A d \in Fds : fds'[d].fd \in {fds[d].fd, "real"}
<1>1. PICK p \in {reqs[c].path}, r \in {RootPath(reqs[c].path)}, d \in Fds,
           opens \in BOOLEAN :
        /\ raw' = IF opens THEN [raw EXCEPT ![r] = "file"] ELSE raw
        /\ fds' = IF Getattr(p)' = "file"
                  THEN [fds EXCEPT ![d] = [node |-> p, fd |-> IF opens THEN "real" ELSE "bad"]]
                  ELSE fds
    BY DEF Create
<1>2. p \in Paths /\ RootPath(p) = p /\ raw[p] = "none" /\ links' = links
    BY <1>1, ServedInPlace DEF Create, Serves, BackedInv
<1>3. Getattr(p) = "none"
    BY <1>2, PathShape DEF Getattr, KindOf
<1>4. raw' = raw => Getattr(p)' = Getattr(p)
    BY <1>2 DEF Getattr, RootPath, KindOf, Followed
<1>5. CASE opens
    <2>1. \A e \in Fds : [node |-> p, fd |-> IF opens THEN "real" ELSE "bad"].fd = "real"
        BY <1>5
    <2> QED BY <1>1, <2>1 DEF TypeInv, TypeOK
<1>6. CASE ~opens
    BY <1>1, <1>3, <1>4, <1>6
<1> QED BY <1>5, <1>6

\* No step makes an open file bad, or a path that a client is to create.
LEMMA BackedStep == TypeInv /\ PlaceInv /\ BackedInv /\ [Next]_vars => BackedInv'
<1> SUFFICES ASSUME TypeInv, PlaceInv, BackedInv, StaysInPlace, "add" \notin Operator,
                    [Next]_vars
             PROVE  BackedInv'
    BY DEF BackedInv, StaysInPlace
<1>1. raw \in [Paths -> Kinds] /\ fds \in [Fds -> OpenFiles]
    BY DEF TypeInv, TypeOK
<1>2. NoReq.op = "none" /\ ClosedFile.fd = "none"
    BY DEF NoReq, ClosedFile
<1>3. UNCHANGED reqs => RequestsKept
    BY DEF RequestsKept
<1>4. ASSUME NEW c \in Clients, Mkdir(c) \/ Rmdir(c) \/ Unlink(c) \/ Create(c)
      PROVE  BackedInv'
    <2>1. RequestsKept /\ reqs'[c] = NoReq
        BY <1>4, ServedInPlace
    <2>2. \A d \in Fds : fds'[d].fd \in {fds[d].fd, "real", "none"}
        <3>1. CASE Mkdir(c)
            BY <3>1 DEF Mkdir
        <3>2. CASE Create(c)
            BY <3>2, CreateBacked
        <3>3. CASE Rmdir(c) \/ Unlink(c)
            <4>1. PICK p, r : p = reqs[c].path /\ Forget(c, p, r)
                BY <3>3 DEF Rmdir, Unlink
            <4>2. p \in Paths
                BY <1>4, <4>1, ServedInPlace
            <4> QED BY <4>1, <4>2, Forgotten
        <3> QED BY <1>4, <3>1, <3>2, <3>3
    <2>3. ASSUME NEW x \in Clients, reqs'[x].op = "create", reqs'[x].path \in Paths,
                 reqs'[x].path = reqs[x].path, raw[reqs[x].path] = "none"
          PROVE  raw'[reqs'[x].path] = "none"
        <3>1. x # c
            BY <1>2, <2>1, <2>3
        <3>2. reqs[x].op = "create"
            BY <1>2, <2>1, <2>3 DEF RequestsKept
        <3> QED BY <1>4, <2>3, <3>1, <3>2, OthersKeepFree
    <2> QED BY <2>1, <2>2, <2>3, BackedKept
<1>5. ASSUME RequestsKept, \A p \in Paths : raw'[p] = raw[p] \/ raw'[p] = "none",
             \A d \in Fds : fds'[d].fd \in {fds[d].fd, "real", "none"}
      PROVE  BackedInv'
    BY <1>5, BackedKept
<1>6. ASSUME NEW c \in Clients, Rename(c) PROVE FALSE
    BY <1>6, ServedPath DEF Rename, StaysInPlace
<1>7. ASSUME NEW c \in Clients,
             \/ NotFound(c) \/ Mknod(c) \/ Symlink(c) \/ ChangeNothing(c)
             \/ Open(c) \/ Opendir(c)
      PROVE  BackedInv'
    <2>1. Answer(c) /\ raw' = raw
        BY <1>7 DEF NotFound, Mknod, Symlink, ChangeNothing, Open, Opendir
    <2>2. RequestsKept
        BY <2>1, Answered DEF RequestsKept
    <2>3. \A d \in Fds : fds'[d].fd \in {fds[d].fd, "real"}
        <3>1. CASE Open(c)
            <4>1. \/ fds' = fds
                  \/ \E d \in Fds, file \in {[node |-> reqs[c].path, fd |-> "real"]} :
                        fds' = [fds EXCEPT ![d] = file]
                BY <3>1 DEF Open
            <4>2. \A file \in {[node |-> reqs[c].path, fd |-> "real"]} : file.fd = "real"
                OBVIOUS
            <4> QED BY <1>1, <4>1, <4>2
        <3>2. CASE UNCHANGED fds
            BY <3>2
        <3> QED BY <1>7, <3>1, <3>2 DEF NotFound, Mknod, Symlink, ChangeNothing, Opendir
    <2> QED BY <1>5, <2>1, <2>2, <2>3
<1>8. ASSUME NEW c \in Clients, Request(c) PROVE BackedInv'
    <2>1. PICK op \in Operations, p \in Paths \cup {Root}, excl \in BOOLEAN,
               to \in Paths \cup {NoPath} :
            /\ Reaches(p) /\ Getattr(p) \in Expected(op)
            /\ reqs' = [reqs EXCEPT ![c] = [op |-> op, path |-> p, to |-> to, excl |-> excl]]
        BY <1>8 DEF Request, Targets
    <2>2. UNCHANGED <<raw, fds>>
        BY <1>8 DEF Request
    <2>3. reqs'[c].op = op /\ reqs'[c].path = p
        BY <2>1 DEF TypeInv, TypeOK
    <2>4. \A x \in Clients : x # c => reqs'[x] = reqs[x]
        BY <2>1 DEF TypeInv, TypeOK
    <2>5. ASSUME op = "create", p \in Paths PROVE raw[p] = "none"
        <3>1. RootPath(p) = p
            BY <2>1, <2>5, ReachedPath
        <3>2. Getattr(p) = "none"
            BY <2>1, <2>5 DEF Expected
        <3> QED BY <2>5, <3>1, <3>2, PathShape DEF Getattr, KindOf
    <2>6. \A x \in Clients : (reqs'[x].op = "create" /\ reqs'[x].path \in Paths) =>
                raw'[reqs'[x].path] = "none"
        BY <2>2, <2>3, <2>4, <2>5 DEF BackedInv
    <2> QED BY <2>2, <2>6 DEF BackedInv
<1>9. ASSUME NEW d \in Fds, Release(d) PROVE BackedInv'
    BY <1>1, <1>2, <1>3, <1>5, <1>9 DEF Release
<1>10. ASSUME NEW h \in Dirs, Readdir(h) \/ Releasedir(h) PROVE BackedInv'
    <2>1. UNCHANGED <<raw, fds, reqs>>
        BY <1>10, ReaddirSteps DEF TypeInv, Releasedir
    <2> QED BY <1>3, <1>5, <2>1
<1>11. CASE OperatorAdds \/ OperatorRemoves
    BY <1>11 DEF OperatorAdds, OperatorRemoves, StaysInPlace
<1>12. CASE Restart
    <2>1. RequestsKept /\ raw' = raw /\ \A d \in Fds : fds'[d].fd = "none"
        BY <1>2, <1>12 DEF Restart, RequestsKept
    <2> QED BY <1>5, <2>1
<1>13. CASE UNCHANGED vars
    BY <1>3, <1>5, <1>13 DEF vars
<1> QED
    BY <1>4, <1>6, <1>7, <1>8, <1>9, <1>10, <1>11, <1>12, <1>13 DEF Next

\* The invariant holds at the start.
LEMMA BackedInit == Init => BackedInv
BY DEF Init, BackedInv, ClosedFile, NoReq

\* What a client gets to open has a descriptor behind it, whatever other
\* clients ask for meanwhile, if nobody works in the raw directory itself,
\* nothing in it is a link and clients rename nothing.
THEOREM OpenIsBackedAlways == Spec => []OpenIsBacked
<1>1. BackedInv => OpenIsBacked
    BY DEF BackedInv, OpenIsBacked
<1> QED BY <1>1, TypeInit, PlaceInit, BackedInit, TypeStep, PlaceStep, BackedStep, PTL DEF Spec
-----------------------------------------------------------------------------
(***************************************************************************)
(* Listings.                                                               *)
(***************************************************************************)

\* The names that listings are judged by are in the directory and can be
\* found in the root.
KeptInv == \A h \in Dirs : dirs[h].kept \subseteq Entries(dirs[h].dir) \ Unstatable

\* They are shown or still to come; a listing that none went from has only
\* such names left, and none when its call has returned.
ShownInv ==
    \A h \in Dirs :
        /\ dirs[h].kept \subseteq dirs[h].shown \cup dirs[h].left
        /\ dirs[h].whole => dirs[h].left \subseteq dirs[h].kept
        /\ (reading # h /\ dirs[h].whole) => dirs[h].left = {}

\* A name that can be found can still be found if what it names stays.
LEMMA StaysFound ==
    ASSUME TypeOK, links' = links, NEW n \in Names \ Unstatable,
           \A m \in {n, Followed(n)} : raw[<<m>>] # "none" => raw'[<<m>>] = raw[<<m>>]
    PROVE  n \notin Unstatable'
<1>1. PICK top \in Names : top = Followed(n)
    BY FollowedName
<1>2. <<top>> \in Paths /\ <<top>> # Root /\ <<n>> # Root /\ Len(<<n>>) = 1 /\ <<n>>[1] = n
    BY DEF Paths, Tops, Root
<1>3. RootPath(<<n>>) = <<top>>
    BY <1>1, <1>2 DEF RootPath
<1>4. raw[<<top>>] # "none"
    BY <1>2, <1>3 DEF Unstatable, Getattr, KindOf
<1>5. raw[<<n>>] # "none"
    BY <1>1, <1>4 DEF Followed
<1>6. raw'[<<top>>] = raw[<<top>>] /\ raw'[<<n>>] = raw[<<n>>]
    BY <1>1, <1>4, <1>5
<1>7. Followed(n)' = top
    BY <1>1, <1>6 DEF Followed
<1>8. RootPath(<<n>>)' = <<top>>
    BY <1>2, <1>7 DEF RootPath
<1>9. Getattr(<<n>>)' # "none"
    BY <1>2, <1>4, <1>6, <1>8 DEF Getattr, KindOf
<1> QED BY <1>9 DEF Unstatable

\* Entries of a directory stay if their paths do.
LEMMA StaysIn ==
    ASSUME NEW dir, NEW n \in Entries(dir),
           \A p \in Paths : n \in Taken(dir, p) => raw'[p] = raw[p]
    PROVE  n \in Entries(dir)'
<1>1. CASE dir = Root
    <2>1. n \in Names /\ raw[<<n>>] # "none"
        BY <1>1 DEF Entries
    <2>2. <<n>> \in Paths
        BY <2>1 DEF Paths, Tops
    <2>3. n \in Taken(dir, <<n>>)
        BY <1>1, <2>1 DEF Taken
    <2> QED BY <1>1, <2>1, <2>2, <2>3 DEF Entries
<1>2. CASE dir # Root
    <2>1. n \in Inner /\ dir \in Tops /\ raw[<<dir[1], n>>] # "none"
        BY <1>2 DEF Entries
    <2>2. dir[1] \in Names
        BY <2>1 DEF Tops
    <2>3. <<dir[1], n>> \in Paths /\ n \in Names
        BY <2>1, <2>2, NamespaceAssumption DEF Paths
    <2>4. n \in Taken(dir, <<dir[1], n>>)
        BY <2>1, <2>3 DEF Taken
    <2> QED BY <1>2, <2>1, <2>3, <2>4 DEF Entries
<1> QED BY <1>1, <1>2

\* The names are kept when what is in the raw directory stays as it is.
LEMMA KeptGrows ==
    ASSUME TypeOK, KeptInv, links' = links,
           \A p \in Paths : raw[p] # "none" => raw'[p] = raw[p],
           \A h \in Dirs : \/ dirs'[h].kept = {}
                           \/ dirs'[h].kept = dirs[h].kept /\ dirs'[h].dir = dirs[h].dir
    PROVE  KeptInv'
<1> SUFFICES ASSUME NEW h \in Dirs, NEW n \in dirs'[h].kept
             PROVE  n \in Entries(dirs[h].dir)' /\ n \notin Unstatable'
    BY DEF KeptInv
<1>1. PICK dir : dir = dirs[h].dir /\ dir = dirs'[h].dir
    OBVIOUS
<1>2. n \in Entries(dir) \ Unstatable /\ n \in Names
    BY <1>1, EntriesAreNames DEF KeptInv
<1>3. n \notin Unstatable'
    <2>1. \A m \in {n, Followed(n)} : <<m>> \in Paths
        BY <1>2, FollowedName DEF Paths, Tops
    <2> QED BY <1>2, <2>1, StaysFound
<1>4. n \in Entries(dir)'
    <2>1. CASE dir = Root
        <3>1. <<n>> \in Paths
            BY <1>2 DEF Paths, Tops
        <3> QED BY <1>2, <2>1, <3>1 DEF Entries
    <2>2. CASE dir # Root
        <3>1. n \in Inner /\ dir \in Tops /\ raw[<<dir[1], n>>] # "none"
            BY <1>2, <2>2 DEF Entries
        <3>2. dir[1] \in Names
            BY <3>1 DEF Tops
        <3>3. <<dir[1], n>> \in Paths
            BY <3>1, <3>2 DEF Paths
        <3> QED BY <2>2, <3>1, <3>3 DEF Entries
    <2> QED BY <2>1, <2>2
<1>5. n \in Entries(dirs[h].dir)'
    BY <1>1, <1>4 DEF Entries
<1> QED BY <1>3, <1>5

\* What is removed from the raw directory holds nothing.
LEMMA NothingBelow ==
    ASSUME TypeOK, NEW r \in Paths, raw[r] # "dir" \/ Entries(r) = {}
    PROVE  Entries(r) = {}
<1>1. ASSUME NEW n \in Entries(r), raw[r] # "dir" PROVE FALSE
    <2>1. n \in Inner /\ r \in Tops /\ raw[<<r[1], n>>] # "none"
        BY PathShape DEF Entries
    <2>2. PICK m \in Names : r = <<m>>
        BY <2>1 DEF Tops
    <2>3. r[1] = m /\ <<m, n>> \in Paths /\ <<m, n>> \notin Tops /\ <<m, n>>[1] = m
        BY <2>1, <2>2 DEF Paths, Tops
    <2> QED BY <1>1, <2>1, <2>2, <2>3 DEF TypeOK, Tree
<1> QED BY <1>1

\* The names are kept, but those that went with a path.
LEMMA KeptShrinks ==
    ASSUME TypeOK, KeptInv, links' = links, NEW p, NEW r \in Paths \cup {NoPath},
           r \in Paths => (raw[r] # "dir" \/ Entries(r) = {}),
           raw' = Removed(r), dirs' = DirsWithout(p, r)
    PROVE  KeptInv'
<1> SUFFICES ASSUME NEW h \in Dirs, NEW n \in dirs'[h].kept
             PROVE  n \in Entries(dirs[h].dir)' /\ n \notin Unstatable'
    BY DEF KeptInv
<1>1. PICK dir : dir = dirs[h].dir
    OBVIOUS
<1>2. /\ n \in dirs[h].kept /\ n \notin Missed(dir, r)
      /\ dirs'[h].dir = dir \/ dir = r
    BY <1>1, DirsForgotten
<1>3. n \in Entries(dir) \ Unstatable /\ n \in Names
    BY <1>1, <1>2, EntriesAreNames DEF KeptInv
<1>4. dirs'[h].dir = dir
    <2>1. CASE dir = r /\ r \in Paths
        BY <1>3, <2>1, NothingBelow
    <2>2. CASE dir = NoPath
        <3>1. NoPath # Root /\ NoPath \notin Tops
            BY NamespaceAssumption DEF Paths
        <3> QED BY <1>3, <2>2, <3>1 DEF Entries
    <2> QED BY <1>2, <2>1, <2>2
<1>5. \A q \in Paths : q # r => raw'[q] = raw[q]
    BY DEF Removed, TypeOK
<1>6. n \notin Taken(dir, r) /\ r \notin {<<n>>, <<Followed(n)>>}
    BY <1>2, <1>3 DEF Missed
<1>7. n \notin Unstatable'
    <2>1. \A m \in {n, Followed(n)} : <<m>> \in Paths /\ <<m>> # r
        BY <1>3, <1>6, FollowedName DEF Paths, Tops
    <2> QED BY <1>3, <1>5, <2>1, StaysFound
<1>8. n \in Entries(dir)'
    BY <1>3, <1>5, <1>6, StaysIn
<1>9. n \in Entries(dirs[h].dir)'
    BY <1>4, <1>8 DEF Entries
<1> QED BY <1>7, <1>9

\* What went from the names is known of the listings that had them.
LEMMA ShownForgotten ==
    ASSUME TypeOK, ShownInv, UNCHANGED reading, NEW p, NEW r, dirs' = DirsWithout(p, r)
    PROVE  ShownInv'
<1>1. ASSUME NEW h \in Dirs
      PROVE  /\ dirs'[h].left = dirs[h].left /\ dirs'[h].shown = dirs[h].shown
             /\ dirs'[h].kept \subseteq dirs[h].kept
             /\ dirs'[h].whole => dirs[h].whole /\ dirs'[h].kept = dirs[h].kept
    <2>1. /\ dirs'[h].left = dirs[h].left /\ dirs'[h].shown = dirs[h].shown
          /\ dirs'[h].kept = dirs[h].kept \ Missed(dirs[h].dir, r)
        BY DirsForgotten
    <2>2. dirs'[h].whole = (dirs[h].whole /\ dirs[h].kept \cap Missed(dirs[h].dir, r) = {})
        BY DirsForgotten
    <2>3. dirs'[h].whole => dirs[h].whole /\ dirs[h].kept \cap Missed(dirs[h].dir, r) = {}
        BY <2>2
    <2> QED BY <2>1, <2>3
<1> QED BY <1>1 DEF ShownInv

\* A path goes, or nothing.
LEMMA RemovedNames ==
    ASSUME TypeInv, KeptInv, ShownInv, NEW c \in Clients, Rmdir(c) \/ Unlink(c)
    PROVE  KeptInv' /\ ShownInv'
<1>1. PICK p, r :
        /\ p = reqs[c].path
        /\ r = NoPath \/ (r = RootPath(p) /\ (KindOf(r) = "file" \/ Entries(r) = {}))
        /\ raw' = Removed(r) /\ Forget(c, p, r)
    BY DEF Rmdir, Unlink
<1>2. p \in Paths
    BY <1>1, ServedPath DEF Rmdir, Unlink
<1>3. r \in Paths \cup {NoPath}
    BY <1>1, <1>2, RootPathType DEF TypeInv
<1>4. r \in Paths => (raw[r] # "dir" \/ Entries(r) = {})
    BY <1>1, PathShape, NamespaceAssumption DEF KindOf
<1>5. dirs' = DirsWithout(p, r)
    BY <1>1 DEF Forget
<1>6. TypeOK /\ UNCHANGED <<links, reading>>
    BY DEF TypeInv, Rmdir, Unlink
<1> QED BY <1>1, <1>3, <1>4, <1>5, <1>6, KeptShrinks, ShownForgotten

\* No step loses names of a listing.
LEMMA ListingStep == TypeInv /\ KeptInv /\ ShownInv /\ [Next]_vars => KeptInv' /\ ShownInv'
<1> SUFFICES ASSUME TypeInv, KeptInv, ShownInv, [Next]_vars PROVE KeptInv' /\ ShownInv'
    OBVIOUS
<1>1. raw \in [Paths -> Kinds] /\ dirs \in [Dirs -> OpenDirs] /\ TypeOK
    BY DEF TypeInv, TypeOK
<1>2. /\ ClosedDir.kept = {} /\ ClosedDir.left = {}
      /\ ClosedDir.dir = NoPath /\ ClosedDir.node = NoPath
    BY DEF ClosedDir
<1>3. ASSUME UNCHANGED <<links, reading>>,
             \A p \in Paths : raw[p] # "none" => raw'[p] = raw[p],
             \A h \in Dirs :
                /\ \/ dirs'[h].kept = {}
                   \/ dirs'[h].kept = dirs[h].kept /\ dirs'[h].dir = dirs[h].dir
                /\ \/ dirs'[h] = ClosedDir
                   \/ /\ dirs'[h].kept = dirs[h].kept /\ dirs'[h].left = dirs[h].left
                      /\ dirs'[h].shown = dirs[h].shown /\ dirs'[h].whole = dirs[h].whole
      PROVE  KeptInv' /\ ShownInv'
    <2>1. KeptInv'
        BY <1>1, <1>3, KeptGrows
    <2>2. ShownInv'
        BY <1>2, <1>3 DEF ShownInv
    <2> QED BY <2>1, <2>2
<1>4. ASSUME NEW c \in Clients,
             \/ Request(c) \/ NotFound(c) \/ Mknod(c) \/ Symlink(c) \/ ChangeNothing(c)
             \/ Open(c)
      PROVE  KeptInv' /\ ShownInv'
    BY <1>3, <1>4 DEF Request, NotFound, Mknod, Symlink, ChangeNothing, Open
<1>5. ASSUME NEW c \in Clients, Mkdir(c) \/ Create(c) PROVE KeptInv' /\ ShownInv'
    <2>1. \/ raw' = raw
          \/ \E r, k : raw[r] \in {"none", "file"} /\ (raw[r] = "file" => k = "file")
                        /\ raw' = [raw EXCEPT ![r] = k]
        <3>1. CASE Mkdir(c)
            BY <3>1 DEF Mkdir, KindOf, Root
        <3>2. CASE Create(c)
            BY <3>2 DEF Create
        <3> QED BY <1>5, <3>1, <3>2
    <2>2. \A p \in Paths : raw[p] # "none" => raw'[p] = raw[p]
        BY <1>1, <2>1
    <2> QED BY <1>3, <1>5, <2>2 DEF Mkdir, Create
<1>6. ASSUME NEW c \in Clients, Rmdir(c) \/ Unlink(c) PROVE KeptInv' /\ ShownInv'
    BY <1>6, RemovedNames
<1>7. ASSUME NEW c \in Clients, Rename(c) PROVE KeptInv' /\ ShownInv'
    <2>1. PICK p \in {reqs[c].path}, q \in {reqs[c].to} :
                dirs' = [h \in Dirs |->
                            [dirs[h] EXCEPT !.node = Moved(Without(@, q), p, q)]]
        BY <1>7 DEF Rename
    <2>2. \A h \in Dirs :
            /\ dirs'[h].kept = dirs[h].kept /\ dirs'[h].dir = dirs[h].dir
            /\ dirs'[h].left = dirs[h].left /\ dirs'[h].shown = dirs[h].shown
            /\ dirs'[h].whole = dirs[h].whole
        BY <1>1, <2>1 DEF OpenDirs
    <2> QED BY <1>3, <1>7, <2>2 DEF Rename
<1>8. ASSUME NEW c \in Clients, Opendir(c) PROVE KeptInv' /\ ShownInv'
    <2>1. UNCHANGED <<raw, links, reading>>
        BY <1>8 DEF Opendir
    <2>2. CASE UNCHANGED dirs
        BY <1>3, <2>1, <2>2
    <2>3. ASSUME NEW h \in Dirs, NEW p, NEW r, dirs[h] = ClosedDir,
                 dirs' = [dirs EXCEPT ![h].node = p, ![h].dir = r]
          PROVE  KeptInv' /\ ShownInv'
        <3>1. /\ dirs'[h].kept = dirs[h].kept /\ dirs'[h].left = dirs[h].left
              /\ dirs'[h].shown = dirs[h].shown /\ dirs'[h].whole = dirs[h].whole
            BY <1>1, <2>3 DEF OpenDirs
        <3>2. \A g \in Dirs : g # h => dirs'[g] = dirs[g]
            BY <1>1, <2>3
        <3>3. dirs'[h].kept = {}
            BY <1>2, <2>3, <3>1
        <3>4. \A g \in Dirs : \/ dirs'[g].kept = {}
                              \/ dirs'[g].kept = dirs[g].kept /\ dirs'[g].dir = dirs[g].dir
            BY <3>2, <3>3
        <3>5. \A g \in Dirs : /\ dirs'[g].kept = dirs[g].kept /\ dirs'[g].left = dirs[g].left
                              /\ dirs'[g].shown = dirs[g].shown /\ dirs'[g].whole = dirs[g].whole
            BY <3>1, <3>2
        <3> QED BY <1>3, <2>1, <3>4, <3>5
    <2> QED BY <1>8, <2>2, <2>3 DEF Opendir
<1>9. ASSUME NEW d \in Fds, Release(d) PROVE KeptInv' /\ ShownInv'
    BY <1>3, <1>9 DEF Release
<1>10. ASSUME NEW h \in Dirs, Readdir(h) PROVE KeptInv' /\ ShownInv'
    <2>1. /\ UNCHANGED <<raw, links>>
          /\ \A g \in Dirs : dirs'[g].dir = dirs[g].dir
          /\ \A g \in Dirs : g # h => dirs'[g] = dirs[g]
        BY <1>1, <1>10, ReaddirSteps
    <2>2. KeptInv => KeptInv'
        <3>1. PICK dir : dir = dirs[h].dir /\ dir = dirs'[h].dir
            BY <2>1
        <3>2. dirs'[h].kept \subseteq dirs[h].kept \cup (Entries(dir) \ Unstatable)
            BY <1>1, <1>10, <3>1, ReaddirSteps
        <3>3. Unstatable' = Unstatable /\ \A d : Entries(d)' = Entries(d)
            BY <2>1 DEF Unstatable, Getattr, KindOf, RootPath, Followed, Entries
        <3>4. ASSUME NEW g \in Dirs
              PROVE  dirs'[g].kept \subseteq Entries(dirs[g].dir) \ Unstatable
            BY <2>1, <3>1, <3>2 DEF KeptInv
        <3>5. \A g \in Dirs : Entries(dirs[g].dir)' = Entries(dirs[g].dir)
            BY <2>1, <3>3 DEF Entries
        <3> QED BY <3>3, <3>4, <3>5 DEF KeptInv
    <2>3. reading \in {NoDir, h} /\ NoDir \notin Dirs
        BY <1>10, NamespaceAssumption
        DEF Readdir, ReaddirEnter, ReaddirMore, ReaddirEntry, ReaddirEnd
    <2>4. ASSUME NEW g \in Dirs, g # h
          PROVE  /\ dirs'[g].kept \subseteq dirs'[g].shown \cup dirs'[g].left
                 /\ dirs'[g].whole => dirs'[g].left \subseteq dirs'[g].kept
                 /\ dirs'[g].whole => dirs'[g].left = {}
        BY <2>1, <2>3, <2>4 DEF ShownInv
    <2>5. /\ dirs'[h].kept \subseteq dirs'[h].shown \cup dirs'[h].left
          /\ dirs'[h].whole => dirs'[h].left \subseteq dirs'[h].kept
          /\ (reading' # h /\ dirs'[h].whole) => dirs'[h].left = {}
        <3>1. /\ dirs[h].kept \subseteq dirs[h].shown \cup dirs[h].left
              /\ dirs[h].whole => dirs[h].left \subseteq dirs[h].kept
              /\ dirs[h].kept \cap Unstatable = {}
            BY DEF ShownInv, KeptInv
        <3>2. CASE reading' = h
            BY <1>1, <1>10, <2>3, <3>1, <3>2, ReaddirSteps
        <3>3. CASE reading' # h
            BY <1>1, <1>10, <3>1, <3>3, ReaddirSteps
        <3> QED BY <3>2, <3>3
    <2> QED BY <2>2, <2>4, <2>5 DEF ShownInv
<1>11. ASSUME NEW h \in Dirs, Releasedir(h) PROVE KeptInv' /\ ShownInv'
    <2>1. \A g \in Dirs : dirs'[g] = IF g = h THEN ClosedDir ELSE dirs[g]
        BY <1>1, <1>11 DEF Releasedir
    <2> QED BY <1>2, <1>3, <1>11, <2>1 DEF Releasedir
<1>12. CASE OperatorAdds
    <2>1. \A p \in Paths : raw[p] # "none" => raw'[p] = raw[p]
        BY <1>1, <1>12 DEF OperatorAdds
    <2> QED BY <1>3, <1>12, <2>1 DEF OperatorAdds
<1>13. CASE OperatorRemoves
    <2>1. PICK p \in Paths :
            /\ raw[p] = "dir" => Entries(p) = {}
            /\ raw' = [raw EXCEPT ![p] = "none"]
            /\ dirs' = DirsWithout(NoPath, p)
        BY <1>13 DEF OperatorRemoves
    <2>2. raw' = Removed(p)
        BY <2>1, NamespaceAssumption DEF Removed
    <2> QED BY <1>1, <1>13, <2>1, <2>2, KeptShrinks, ShownForgotten DEF OperatorRemoves
<1>14. CASE Restart
    <2>1. \A h \in Dirs : dirs'[h].kept = {} /\ dirs'[h].left = {}
        BY <1>2, <1>14 DEF Restart
    <2> QED BY <2>1 DEF KeptInv, ShownInv
<1>15. CASE UNCHANGED vars
    BY <1>3, <1>15 DEF vars
<1> QED
    BY <1>4, <1>5, <1>6, <1>7, <1>8, <1>9, <1>10, <1>11, <1>12, <1>13, <1>14, <1>15 DEF Next

\* The invariant holds at the start.
LEMMA ListingInit == Init => KeptInv /\ ShownInv
BY DEF Init, KeptInv, ShownInv, ClosedDir

\* Whatever other clients and the operator do between two names of a listing,
\* in whatever directory, readdir loses no name that stays where lstat finds
\* it: it is shown, or a call after a rewind goes on with it; and a listing
\* none of whose names went is complete when its call returns.
THEOREM ListingsKeepNamesAlways == Spec => []ListingsKeepNames
<1>1. ShownInv => ListingsKeepNames
    BY DEF ShownInv, ListingsKeepNames
<1> QED BY <1>1, TypeInit, ListingInit, TypeStep, ListingStep, PTL DEF Spec
=============================================================================

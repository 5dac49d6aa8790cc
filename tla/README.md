# qubeFS: specifications, model checking and proofs

qubeFS is a FUSE file system for backups. What a user writes to a file of the
mount is cut into blocks of 4096 bytes; each block is kept once, in a
PostgreSQL table, under its SHA-512 digest, and the file of the raw directory
holds the digests. This directory specifies that program in TLA+, checks the
specification with TLC on small instances and proves theorems about it with
TLAPS for every instance.

## The system

| part | source | state | operations |
|---|---|---|---|
| entry, start-up | `qube.cpp`, `q_fuse.cpp:67-164` | `settings`, working directory | `main`, `run`, `qfs_init`, `print_usage` |
| data path | `q_fuse.cpp:240-257, 325-491, 648-667` | open descriptors (`fi->fh`), local buffers | `qfs_open`, `qfs_create`, `qfs_read`, `qfs_write`, `qfs_release`, `qfs_unlink` |
| namespace | rest of `q_fuse.cpp` | `last_full_path` | `getattr`, `readlink`, `mknod`, `mkdir`, `rmdir`, `symlink`, `opendir`, `readdir`, and the no-ops `rename`, `link`, `chmod`, `chown`, `truncate`, `fallocate`, ... |
| raw files | `q_fs_layer.cpp` | `cur_block` | `qfs_get_root_path`, `qfs_write_to_file`, `qfs_read_from_file`, `get_a_block_from_buffer`, the stubs `handle_a_collision` and `qfs_compare_existing_hashes` |
| database session | `q_psql.cpp` | statics `conn`, `rec_count`, `last_res`, `quoted_hash` | connect, `qpsql_get_block_from_hash`, `qpsql_insert_hash`, `qpsql_incr_hash_count`, disconnect (`qpsql_decr_hash_count` is never called) |
| digest | `q_dedupe.cpp` | statics `hash`, `ss` | `get_sha512_hash` |
| conversions | `q_convert.cpp` | none | `char2vect`, `substr_of_vect`, ... |
| log | `q_log.cpp` | the logger, `exStatus` | `getInstance`, the destructor, which calls `exit` |
| external | the kernel and libfuse, the raw file system, PostgreSQL | page cache, files, the table `hashes` | requests; `open`, `pwrite`, `read`; SELECT, INSERT, UPDATE |

How they interact. `main` builds a `q_fuse` object, whose base `q_psql` connects
to the database or exits, and hands the operations table to `fuse_main`. The
library calls a handler for each request; with `-s`, as the manual says to run
it (`archive/dedupe-working-example/How-to-Use.README:24`), one at a time.
`qfs_write` goes through its blocks: cut (`q_FS`), digest (`q_dedupe`), look up
(`q_psql`), then insert, count up or report a collision; at the end it writes
the digests to the raw file with one `pwrite` and answers the full size,
whatever happened. `qfs_read` reads digests and looks each up. All members are
static: one handler leaves `rec_count`, `last_res` and the session to the next.

What is hard about it:

- **State that crosses calls.** `rec_count` is set by a lookup that hits only,
  and `qfs_write` decides with it whether a block is new. Whether a block is
  stored depends on what the previous requests left.
- **Two stores, no transaction.** Rows, counts and the raw file change in
  separate steps, and the process or the session may end between any two.
- **Failures nobody looks at.** The results of INSERT, UPDATE and `pwrite` are
  logged at most. A session that broke is never reset.
- **Boundaries.** The tail of a buffer shorter than a block, a leading NUL byte,
  the end of a file, holes, the width of `use_count`, O_APPEND and O_TRUNC on
  the raw descriptor.
- **Two views of the names.** The kernel and the library keep trees of names that
  follow the answers of the handlers; several answers are a success when nothing
  was done (`rename`, a failed `rmdir`, `unlink` or `create`), each handler
  resolves its path anew, requests of several clients wait for the one thread
  after their lookup, and somebody else may work in the raw directory, between
  the steps of `readdir` too.
- **Shutdown.** A freed result is freed again before the session is closed.
- **Several mounts.** The host of the database is a constant (`qube.hpp:72`): all mounts
  share one table, which has no key and which nobody locks.
- **Threads**, when the program runs without `-s`: all those statics are shared.

Correctness, by component: the table has one row for each digest and each row
the digest of its block (session); a reference in a raw file has its row, and
the count of the row covers it, also after a crash (data path); a write changes
its own window and nothing else, and is there once it is acknowledged; a read
gathers the blocks of its place (data path, raw files), down to the byte
(conversions), and should gather no others; the references resolve and are
counted when several mounts write; a request changes the raw path it names and no other, an open file has a descriptor, a listing loses no name that stays
where it can be found (namespace); each request is answered (handlers).

## The modules

| module | models | status |
|---|---|---|
| `QubePsql` | `q_psql` and the table: the life of the session, lookup, insert, count-up | written |
| `QubeIO` | the data path over `QubePsql`: a handler as a sequence of steps, the raw files, the descriptors, crash and restart; all the properties | written |
| `QubeBackup` | abstract specification: a block store with files, kept blocks and requests, lossless or not | written |
| `QubeIORefines` | the refinement mapping from `QubeIO` to `QubeBackup` | written |
| `MCQubeIO` | instances for TLC | written |
| `QubeIO_proofs` | theorems about `QubeIO` | written |
| `QubeIORefines_proofs` | proof of the refinement | written |
| `QubeIOCounts_proofs` | proof that use counts cover references | written |
| `QubeNamespace` | `q_fuse`'s handlers of names over `qfs_get_root_path`: lookups, requests, open files and directories, `readdir`, the no-ops, with the kernel, the library and an operator around them | written |
| `QubeNamespace_proofs` | theorems about `QubeNamespace` | written |
| `QubeClients` | several mounts, each with the handler of `qfs_write` cut at its calls, over one table without a key | written |
| `MCQubeClients` | the symmetry of its instances | written |
| `QubeClients_proofs` | theorems about `QubeClients` | written |
| `QubeBytes` | `qfs_write` and `qfs_read` byte by byte: offsets, number of blocks, the cutting of a buffer and of its tail, the digests that a read looks up | written |
| `MCQubeBytes` | the filler of its instances | written |
| `QubeBytes_proofs` | theorems about `QubeBytes` | written |

How they compose. `QubeIO` extends `QubePsql`: one process over its session, with every
failure. `QubeClients` has the same handler with the table in the middle and several
processes around it; it leaves out the failures that `QubeIO` has and keeps one block
for each request, so that interleavings stay the subject. `QubeBytes` takes an answering
database for granted and looks below the blocks and slots that `QubeIO` works with.
`QubeNamespace` decides which raw file a descriptor is of.

### State and code

| TLA+ | code |
|---|---|
| `hashes` | rows of the table, in the order of their insertion |
| `rec_count`, `last_res` | the statics of `q_psql`; `last_res` is null or dangling, since nothing else ever happens to it |
| `conn` | the session: never opened or closed (`none`), working, broken, or how the process ended (`aborted` in the destructor, `killed`) |
| `present`, `slots` | the raw files; a slot is HASH_SIZE bytes, and `Hole` is a slot that reads as zeros |
| `fds` | the open files of the kernel, with the descriptor in `fi->fh` and its O_APPEND |
| `pc`, `req` | where the running handler is, and its arguments; `req.clean` is a history variable: was `rec_count` 0 when the request came in? |
| `hash_buffer`, `data_block`, `block_in_DB`, `actual_contents` | the locals of `qfs_write` and `qfs_read` |

Each handler is an `Enter` action (the kernel's request), one action for each call
that reads or writes the database or the raw file, and a `Reply`. `qfs_write` is
`WriteEnter`; for each block `WriteLookup` and then one of `StoreNew`,
`StoreCollision`, `StoreKnown`; `WriteToFile`; `WriteReply`. `qfs_read` is
`ReadEnter`, `ReadHash` for each slot, and `ReadReply` or `ReadOverrun`. `Open`,
`Create`, `Release` and `Unlink` make one system call and are one action each.
`Mount`, `Unmount`, `Crash` and `SessionLost` are the environment.

The namespace, in `QubeNamespace`:

| TLA+ | code |
|---|---|
| `raw`, `links` | the source directory: what each path is, and where a link of the root points |
| `RootPath(p)` | `qfs_get_root_path`: what the buffer holds after `realpath`, whose result nobody looks at. A missing component leaves the path of that component; a file in place of a directory leaves, by the version of the C library (`NotDirIsLeft`), that component or nothing |
| `Getattr(p)` | what `qfs_getattr` may tell of a path |
| `fds`, `dirs` | the open files and directories: the path by which the library names them in its calls (`node`), and the raw descriptor or stream in `fi->fh`; of a stream, the entries it has left and the names it has shown. History variables of a stream: the names that stayed in the directory since they came to it (`base`), those that `lstat` could find all the time (`kept`), and whether that was so of all (`whole`) |
| `reading` | the open directory that the loop of `qfs_readdir` is at: the thread is busy |
| `outside` | paths of the host that `mknod` and `symlink` brought about: both pass the path of the mount to the system as it is |
| `reqs` | the request of each client that the kernel has looked up and that waits for the thread |

`Request` is the kernel: it has looked the path up (`Reaches`, `Expected`) and sends
the request. Until its handler runs, the thread may serve others, of clients that
looked their paths up before or after, and the operator may add and remove names.
What the kernel does about it is in the model: it locks the directory of a name that
is to be made, removed or renamed, and the name that goes, from the lookup to the
answer (`Locked`). The locks are of directories of the mount: two of them that
lead to one raw directory, through a link, are two locks. A request whose path the
library has forgotten meanwhile is answered with an error (`NotFound`). The kernel
keeps no names and attributes of its own, since `qfs_init` sets the time that they are good
for to 0 (`q_fuse.cpp:156-158`): each lookup is made anew.
Each handler but `readdir` is one action: it makes one system call on the path it
resolves. `qfs_readdir` is a loop over `readdir`, `realpath` and `lstat`, and so it is here:
`ReaddirEnter`, for each name `ReaddirEntry`, which may end the call, `ReaddirMore` when
the stream is asked for names that came since, and `ReaddirEnd`; the operator may
add and remove names between any two of them.
`Create` includes the lookup that the library makes after it, `Unlink` the
library's rename of an open file, `Rename`, `Rmdir` what the library does to its
tree when the answer is a success. `ChangeNothing` stands for the handlers that do
nothing and report success (`IgnoredChanges`, `IgnoredXattrs`, `IgnoredChecks`,
`IgnoredCalls`) and for those that only ask (`Inquiries`). `Restart` ends the process
and mounts again.

Several mounts, in `QubeClients`:

| TLA+ | code |
|---|---|
| `hashes[b]` | the use counts of the rows of digest `b`, in the order of their insertion |
| `rec_count[ProcessOf(c)]` | the static of the process that the client runs in: its own |
| `pc[c]`, `data_block[c]`, `block_in_DB[c]` | where the handler is, and its locals |
| `slots[c]` | digests in the raw directory of the mount |

`Enter` is the request, `Lookup` the SELECT, `StoreNew`, `StoreCollision` and
`StoreKnown` the branches of `q_fuse.cpp:420-438` with their INSERT or UPDATE, and
`WriteToFile` the `pwrite`; `Read` is a lookup of `qfs_read`. An UPDATE counts up all
rows of the digest, because its WHERE has no more than the digest. `Restart` kills a
process at any step.

Bytes, in `QubeBytes`: `slots` holds, for each digest of the raw file, the block behind
it; `Write` and `Truncate` change it. `ActualContents` is the vector that the loop of a read
fills, and `Overrun` by how much `memcpy` (`q_fuse.cpp:377`) and the answer (`q_fuse.cpp:380`)
exceed what was asked for: both take the length of the vector.
`promised` and `touched` are history variables that belong to the specification: the
bytes that a client may rely on, and those that the last write was for. The handler is
one step here, since `QubeIO` has the steps.

What is abstracted in the data path: a block is a member of a set, its digest a value of a
function that may collide; buffers are sequences of slices. A slice shorter than
a block becomes, nondeterministically, any of several blocks, because
`substr_of_vect` reads past the end of the vector (`q_convert.cpp:93`), and reads
of heap memory return whatever is there. Sizes keep their order: a digest is
shorter than the filler of a failed lookup (153 bytes), which is shorter than a
block; the instances use 4, 5 and 8 for 128, 153 and 4096. A copy past the end of the
read buffer either goes unnoticed or kills the process. A double free either
goes unnoticed or aborts. A digest row may be any of several when a lookup finds
more than one. Two opens through `qfs_create` and `qfs_open` differ in caching
by the kernel only, which is outside of the model.

The mutated operators next to the definitions (marked *Fault*) are not part of
the specification: each is a plausible bug that one of the properties must find. That the
raw directory stays a tree is for the most part what its host guarantees; its *Fault*,
`RmdirAll`, is an `rmdir` that no host would do.

## What is checked

| run | properties | shows |
|---|---|---|
| `Ingest` | `EveryReferenceResolves`, `AckedWriteLands`, `UseCountCoversReferences`, `ImplementsBackup` (lossless) | a mount that only takes writes, with short tails, killed and restarted at any step and with counts at the limit of the column, loses no block; rows go in before references; an acknowledged write is in the file where it was sent; counts cover references |
| `Service` | `TypeOK`, `RowsAddressed`, `OneRowPerHash`, `ServedBlocksMatch`, `HandlerReturns` | with collisions, short tails and all failures but that of a lookup on a working session, the table stays content-addressed with one row for each digest, reads serve blocks of their own place only, and each request is answered or its process is gone |
| `Handles` | `CleanWriteStores`, `WritesStayInWindow`, `ImplementsBackup` (lossy) | two descriptors, plain and append, on two files, with truncation, unlink, holes and short pwrites, and reads between the writes on a session that may break: a write that starts clean stores everything and ends clean; a write changes its own window only; what the data path does is what a lossy block store may do |
| `Names` | `RequestsStayInPlace` | requests of two clients that wait at once, while an operator adds names: whatever was served and made since the kernel looked its path up, a request changes the raw path it names and no other |
| `Opens` | `OpenIsBacked` | two clients create, open and remove two files, with calls that fail: no client holds a file without a descriptor, though `qfs_create` reports success when it fails |
| `Listings` | `TypeOK`, `ListingsKeepNames` | listings name by name, with a link and with renames that do nothing, while a client and an operator make and remove names: a call that ends at a name that is gone, or that the root does not have, loses no other name, and one that no name went from is complete; the raw directory stays a tree |
| `Clients` | `TypeOK`, `EveryReferenceResolves`, `RowsBounded`, `UseCountsCoverReferences` | three mounts over one table, one of which reads too: the digests of those that only write resolve; a race may give a digest several rows, but never more than there are mounts, restarts included; the rows of a digest together count its references |
| `Bytes` | `TypeOK`, `PromisesKept`, `ReadGathersTooMuch`, `WriteStaysInRange` | writes of all sizes and offsets, plain and appended: what was written from a block on stays until a write meets its block; a write changes the blocks it meets; the vector of a read at a block has the promised bytes at their places, and whenever a lookup found a block it is longer than the buffer that it is copied to |

Runs that find a violation, each of one property that a comment or the manual
states:

| run | property | what happens |
|---|---|---|
| `StaleCount` | `EveryReferenceResolves` | write a block, read it (`rec_count` stays 1), write another block: the lookup misses, `rec_count` is still 1, the new block is taken for a collision and not inserted, but its digest goes to the file (`q_fuse.cpp:420`) |
| `ReadWindow` | `ReadReturnsStoredData` | a read of one block looks up a digest for each HASH_SIZE bytes (`q_fuse.cpp:353`): blocks beyond the window and filler are returned, past the end of the buffer |
| `ZeroLedBuffer` | `AckedWriteLands` | a buffer that begins with NUL is acknowledged in full and dropped (`q_fuse.cpp:397`) |
| `Shutdown` | `ShutdownIsGraceful` | the destructor frees the result of the last insert again (`q_psql.cpp:55`) and may abort before it closes the session |

Bounds. `MaxBlocks` = 2 blocks in a write are enough for an iteration that
depends on the one before it and for a prefix written short; `MaxSlots` = 2, or 3,
slots for a window inside a file, one that overlaps its end and a hole;
`MaxRows` is large enough that all blocks of an instance get a row and a failed
insert is tried again; `MaxUse` = 2 or 3 makes counts reach the limit of the
column. Two or three blocks cover equal and different digests, collisions and both
outcomes of a short tail. One file suffices where references are counted per
digest; `Ingest` and `Handles` have two, because unlink and windows are per file. Files and
descriptors of `Handles` are interchangeable, and `Symmetry` permutes them (its
properties are about states and single steps). The bounds are guards on the requests
that the kernel sends, never on a handler's steps.

For names: two in the root and one inside each directory give paths with a
present, a missing and a misplaced parent, siblings, and an inner name that is
and that is not in the root, which is what `RootPath` and `readdir` tell apart. Two
clients are enough for a request that is served between the lookup and the handler
of another; `Opens` has two files that may be open at once. In `Listings` the second
actor is the operator, who is not held up by the thread; one open directory is
enough, and `MaxCalls` = 2 calls of `readdir` show what a second one finds in a
stream that the first left in the middle. The names of a directory fit into one
buffer of the C library, so that a stream is filled when it is empty. Every tree
over these names is an initial state.

`Names` has the C library that leaves nothing for a file in place of a directory,
`Opens` and `Listings` the other one.

For mounts: three are enough for two that race and a third that comes in between or
reads; two blocks for a count that belongs to another block; `MaxUse` = 3 is reached.
`MaxRows` lies above the number of mounts, so that it never stands in the way of what
`RowsBounded` says. The mounts that only write, and the blocks, are interchangeable:
`Symmetry` permutes them, and all properties of the run are invariants.

For bytes: blocks of two bytes, with a digest of one, three slots, sizes 1 to 6 and
offsets 0 to 5 give short and whole blocks, writes that begin and end inside a block,
span several, overlap others, or leave a hole; two byte values, one of them NUL, show
a byte that moved.

Conditions. `RequestsStayInPlace` is stated of a raw directory without links, of clients
that do not rename and of an operator who does not remove (`StaysInPlace`), and each
is needed. Through a link a handler comes to another raw path than the one named.
After a rename of a directory that is open, the library names it by a path the raw
directory does not have, and a `mkdir` below it makes a directory of that name in the
root; so it is for a directory that the operator removes between the lookup and the
request. `OpenIsBacked` needs the same and nobody else who makes files; without any one
of these TLC finds a client that holds a descriptor which is -errno. In each case an
exclusive `create` that the kernel looked up finds a file when its handler runs: one that
the operator added; one that another client made through a second mount directory,
a link, that leads to the same raw directory, whose lock is another; one at the path
that the library moved the request to by a rename that did not happen; or one at the
path of a directory that went, where `realpath` stops. The `open` fails, the answer
is 0, and the lookup after it finds that file. In `QubeClients`, `EveryReferenceResolves` is stated of
mounts that do not read, as `StaleCount` makes necessary, and without failing statements,
which `QubeIO` has. Its mutant `OneProcess` makes the clients threads of one process, as
without `-s`: `rec_count` is then set by the lookup of another thread, and the property
fails. `PromisesKept` promises nothing of a write that begins inside a block or with NUL.

Observations that no text of the repository contradicts in so many words. `qfs_readdir`
looks each entry up in the root (`q_fuse.cpp:594`), whatever directory it lists, and ends
the call at the first that is not there; a name that is not in the root is therefore never
shown in the listing of another directory, and those after it come with a call after a
rewind only. `ListingsKeepNames` says what is left: such a name takes no other with it,
because the stream goes on where the call ended. `Qube.README:12-14` says that what is
stored comes back scrambled and looks for the cause in the conversions.
In the models the conversions copy bytes as the code does and `PromisesKept` holds: the
bytes are in their blocks. What the caller gets is wrong all the same, by more than one
way: a read looks up too many digests and copies all it found past the end of its
buffer (`ReadGathersTooMuch`, `ReadWindow`), and blocks are lost before (`StaleCount`).

Fairness. `FairSpec` assumes weak fairness of `HandlerStep` only: the one thread of
the library runs its handler as long as it can take a step, which assumes that
libpq and the raw file system return or fail. Nothing is assumed of requests,
of mounting or of failures.

## What is proved

`QubeIO_proofs`, `QubeIORefines_proofs` and `QubeIOCounts_proofs`, for every value of
the constants that satisfies `PsqlAssumption` and `IOAssumption`; `QubeNamespace_proofs`,
under `NamespaceAssumption`; `QubeClients_proofs`, under `ClientsAssumption`; and
`QubeBytes_proofs`, under `BytesAssumption`. Files and mounts are finitely many, a block
is at least two digests long (4096 and 128 in `qube.hpp`), the filler of a failed lookup at
least one (153 bytes, `q_psql.cpp:86`), and a hole is not a block; the
other assumptions give the constants their types.

| theorem | statement |
|---|---|
| `TypeCorrect` | `Spec => []TypeOK` |
| `RowsAddressedAlways` | `Spec => []RowsAddressed` |
| `OneRowPerHashAlways` | `Spec => []OneRowPerHash` |
| `ServedBlocksMatchAlways` | `Spec => []ServedBlocksMatch` |
| `CleanWriteStoresAlways` | `Spec => []CleanWriteStores` |
| `WritesStayInWindowAlways` | `Spec => WritesStayInWindow` |
| `AckedWriteLandsAlways` | `ZeroLed = {}` implies `Spec => []AckedWriteLands` |
| `IngestLosesNothing` | `WritesOnly` implies `Spec => []EveryReferenceResolves` |
| `UseCountsCover` | `CountsKept` implies `Spec => []UseCountCoversReferences` |
| `BackupsAreKept` | `WritesOnly`, `ZeroLed = {}` and no short `pwrite` imply `Spec => ImplementsBackup`, lossless |
| `WhateverFails` | `CollisionFree` implies `Spec => ImplementsBackup`, not lossless |
| `NamesTypeCorrect` | `Spec => []TypeOK` of `QubeNamespace` |
| `RequestsStayInPlaceAlways` | `Spec => RequestsStayInPlace` |
| `OpenIsBackedAlways` | `Spec => []OpenIsBacked` |
| `ListingsKeepNamesAlways` | `Spec => []ListingsKeepNames` |
| `ClientsTypeCorrect` | `Spec => []TypeOK` of `QubeClients` |
| `EveryReferenceResolvesAlways` | `Spec => []EveryReferenceResolves` of `QubeClients` |
| `RowsBoundedAlways` | `Spec => []RowsBounded` |
| `UseCountsCoverReferencesAlways` | `Spec => []UseCountsCoverReferences` |
| `BytesTypeCorrect` | `Spec => []TypeOK` of `QubeBytes` |
| `PromisesAlwaysKept` | `Spec => []PromisesKept` |
| `WritesStayInRange` | `Spec => WriteStaysInRange` |
| `ReadsGatherTooMuch` | `Spec => []ReadGathersTooMuch` |

The arguments. Types alone are not inductive: a handler about to store must have
a block whose digest is the last of `hash_buffer` (`StoreReady`). `RowsStay` says
that rows keep their place, digest and block, and that a new row is the block of
`StoreNew`; with it `RowsAddressed` is inductive. `OneRowPerHash` needs
`CountTells`: a count of 0 on a working session means that the lookup just made
found no row, for a lookup that hits leaves a positive count (`LookupCounts`).
`ServedBlocksMatch` rests on `RowsAddressed` and on buffers that start empty
(`FreshBuffers`). `CleanWriteStores` is strengthened to `CleanInv`: before each
iteration the count is 0 and all digests so far have rows; between lookup and
store a count that is not 0 comes from this lookup, so that without collisions
the block of the answer is the block of the iteration. `IngestLosesNothing` adds
that without lookups from outside of `qfs_write` every write starts clean
(`IngestInv`); the assumption `WritesOnly` excludes reads, collisions and failing
lookups, inserts and sessions, but no crash, failing update or short pwrite. The
run `StaleCount` shows that the assumption on reads is needed. `AckedWriteLands` is
strengthened with `DigestsOfBuffer`: what a write has collected so far are the digests of
the slices of its buffer, in their order; `OverlayPuts` says where `pwrite` puts them. Its
assumption leaves out buffers that begin with NUL, and the run `ZeroLedBuffer` shows why.

The refinement. A raw file maps to the blocks that its digests were computed from, the
rows to the blocks that are kept, a handler to the call of its request. `RefineInv` has
what the mapping needs: the row of a digest holds the block that the mapping gives it
(`RowsAreKept`, from `RowsAddressed` and `CollisionFree`), what a write has collected are
the blocks of its buffer in their order (`DigestsOfBuffer`), and, for the lossless store,
`IngestInv`. There is a lemma for each kind of step: mounting, crashes and
the session are `Start`, `Stop` or a stutter, truncation and `Unlink` are `Erase`,
`WriteEnter` and `ReadEnter` are `Request`, `StoreNew` is `Keep` (or, when the insert
fails, a stutter, like the other stores), `WriteToFile` is `Put`, `ReadHash` is `Serve`,
and a reply is `Return`. Lossless, `Put` asks that all blocks of the
request are kept, and `CleanInv` says that at the `pwrite` they are. The two theorems
are the two promises: `BackupsAreKept` has writes only (`StaleCount` shows why),
none that begins with NUL (`ZeroLedBuffer`) and none cut short; `WhateverFails` has none but that digests do not
collide, without which a block of an answer is not determined by its digest.

Use counts. Between the UPDATE and the `pwrite` a row counts a digest that no file has.
`UseInv` adds these (`DueSet`: the digests of `hash_buffer` that have been counted, which
after the lookup of a block are all but the last) to the slots that refer to the digest,
and bounds the sum by the count, unless the count is at the limit of its column. A store moves one
digest into `DueSet` and counts one up; `WriteToFile` moves what it writes into the
slots, each slot once (`PutsAreCounted`), or less when it is cut short; a crash drops
`DueSet`. `CountsKept` excludes failing updates, which leave a count too low, and is
otherwise `WritesOnly`. Several mounts have `CoverInv` with `Writers`, the mounts
between the count and the `pwrite`; the sum of the counts of a digest is the number of
pairs of a row and a unit of its count (`Uses`), so that it needs no recursion.

For names, types are inductive with the shape of the tree (`Tree`): nothing is in a
path whose parent is not a directory. The lemmas `RootPathType`, `RootPathInPlace` and
`RootPathParent` say what `qfs_get_root_path` may return; the one that matters is
that a path whose parent is a directory is itself. `RequestsStayInPlace` therefore
needs that the parent of a request that changes names, and the path of each open
directory, is still a directory of the raw tree when the handler runs (`PlaceInv`).
Only `rmdir` removes one, and it makes the library forget the name for open
directories and files; that no request for something in it waits at the same time is
the third part of `PlaceInv`: requests that wait lock disjoint sets of directories, and
`rmdir` locks the directory that goes. `OpenIsBacked` needs `BackedInv`: the path of a
`create` that waits is none, since the kernel found none there. Another request comes to
the path it names only (`ServedInPlace`), and one that names this path would lock the same
directory (`OthersKeepFree`). So a create that fails leaves nothing that the lookup after
it could find. Without links, the directories of the mount and of the raw tree are the
same, which is why the kernel's locks suffice.

`ListingsKeepNames` is split in two. `KeptInv`: the names that a listing is judged by
are in its directory and found in the root, so that `ReaddirEntry` never ends a call at
one of them; that takes a lemma for what is made (`KeptGrows`) and one for what goes
(`KeptShrinks`), which show that the history variables miss no change, links
included. `ShownInv`: those names are shown or in the stream; and of a stream that
none went from nothing else is in it, so that a call ends with the stream empty.

For several mounts, `RowsBounded` is not inductive by itself: a mount that found no row
may still insert one. `RowInv` adds, to the rows of a digest, the mounts that found it
missing and have not inserted it (`Pending`), and bounds the sum: a mount becomes one of
them only while there is no row at all, and stops being one when it inserts. It also says
that a count of 0 before the store means that the lookup found nothing. `EveryReferenceResolves`
is strengthened to `ResolveInv`: a mount that only writes enters with a count of 0, holds a
positive one only for a digest that has rows, and reaches the `pwrite` with a digest that
has a row; rows never go, whoever writes.

For bytes, everything rests on division with remainder (`DivMod`, `DivUnique`) for any
size of a block. `SlotRange` and `SlotUnique` say which bytes a slot has, `SlotShift` that
moving by whole blocks keeps a byte's place, `Buffers` that a buffer fits into its number
of blocks and needs the last. The lemma that matters is `Met`: each slot that a buffer is
stored at has a byte of the request, also when the request begins inside a block, where the
code rounds the offset down. With it a write disturbs no block that its bytes do not meet:
`PromisesKept` is inductive under `TypeOK`, with `Blocks` for what `substr_of_vect` cuts out
and `Overlaid` for what `pwrite` leaves. For reads, `EnoughHashes` shows that one lookup per
HASH_SIZE bytes is never too few, because a block is at least two digests long. That it is too many is `FlattenAtLeast`:
each lookup adds at least HASH_SIZE bytes, be it the filler, and a block adds
HASH_SIZE more than its share, which is more than rounding leaves. That appending the
pieces keeps their order, and how long the result is, holds for any number of
them: `AllNumbers` (a set that has 0 and with each number the next has all), from the
library's well-founded minimum, stands in for induction and is used on sets of numbers,
to show that the function by which `FlattenSeq` is defined exists and for what it returns
(`FlattenInOrder`, `FlattenAtLeast`).

Only model-checked: `HandlerReturns`, since liveness under fairness is beyond the prover,
and the properties of the runs that find a violation.

## What is not modelled

- An INSERT or UPDATE of a process that was killed and that the server commits later than
  the next process begins to look up: a statement commits or does not before its
  process is mounted again. That libpq never returns: fairness assumes that it does.
- Writes that the raw file system cuts in the middle of a digest: a short `pwrite` ends
  between two digests. `Handles` has those cuts. It has no
  slice shorter than a block; `Ingest`, `Service` and `Bytes` have.
- Attributes; `flush` and `fsync`, which change nothing that the models have; links to links and links inside directories. Where `mknod` and
  `symlink` act is in `outside`, and no property is stated of it.
- In `QubeIO`, a file that is removed while it is open: the first unlink does nothing
  (`QubeNamespace` has it), but a second one reaches `qfs_unlink`, and what is then
  written to the old descriptor is in no file of the model. `QubeIO` has the unlink of
  files that are not open.
- What becomes of a block that collides: saving it is a TODO of the source
  (`q_fs_layer.cpp:117`), and it is lost.
- Data races of several threads inside a call (the digest buffers, the block buffer, the
  one session): C++ and libpq leave their outcome undefined. That handlers interleave over
  `rec_count` is in `QubeClients`.
- Start-up (`run`) and exit status: a straight line before the first request and after the
  last, with nothing that interleaves; the log, which decides nothing.
- `qpsql_decr_hash_count`, `qpsql_release_query`, `q_convert`'s unused members: never called.
- The prototypes under `archive/` and the generated files under `build/`.

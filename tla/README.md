# Verification of gd2fuse

gd2fuse mounts a Google Drive account through libfuse. These modules describe
what the daemon does between a system call and the drive: where the bytes of a
file are, what the directory tree and its cache hold, which of the mounted file
systems answers a path, and what a failure is reported as; and how it gets from
the command line to a mounted drive. TLC checks small instances, TLAPS proves some of
the results for every instance. Paths below are relative to the repository's
`src/`.

## 1. The system

| part | state | operations | talks to |
|---|---|---|---|
| `presentation/handler.cpp`, `FuseGate.cpp` | handle pointers in `fi->fh` | one function per FUSE request; `FuseGate` turns exceptions into an errno for lookup, open, create, mkdir, unlink, rmdir and rename, and for nothing else | the mounted `IFileSystem` |
| `fs/JoinedFileSystem.cpp` | the tree of mounts | routes a path, merges listings, renames across mounts | drive and control file systems |
| `fs/AbstractFileSystem.cpp` | tree of `Node`s, `_dirFilled`, `_root` | `get`, `fillDir`, `createNode`, `removeNode`, `renameNode`, `importNreplace`; `FileHandle` | cache and content updates through `Notifier` signals; the drive |
| `cache/Cache.cpp` | path to node, node to path | `findByPath`, `insert`, slots for removed and changed nodes | |
| `fs/ContentManager.cpp` | copies of files under the data directory, by id | download, open, pread, pwrite, truncate, delete | the drive, through readers |
| `providers/google/GoogleProvider.cpp` | none of its own | metadata, children, create, patch, delete, download, upload; no retries | Google Drive |
| `fs/ConfFileSystem.cpp`, `control/props`, `control/ChainedCofiguration.cpp` | value and change time of each property, in memory | read, write, truncate of a property's file | |
| `control/Configuration.cpp`, `control/props`, `control/types` | tables of properties, lists built of them on first use, one registry of enumerations | lookup and iteration along the chain program, provider, session | |
| `error/` | | codes, their conditions, exceptions and messages | thrown through every part above |
| `control/paths` | a root, and the levels that provider and session add | directories CONFIG and DATA | the environment, `--conf-dir` |
| `main.cpp`, `control/Application.cpp`, `Auth.cpp`, `ProvidersRegistry.cpp` | credentials and client secret on the disk | GETAUTH, SERVICE: provider, session, OAuth2, `FuseGate::run` | OAuth2 library, libfuse |

libfuse runs the handlers on several threads unless `-s` is given. The code
locks two of the cache's three operations and nothing else. The kernel and
libfuse 2.9 (`FUSE_USE_VERSION 29`) keep some requests apart: lookups, listings
and changes of one directory (no parallel directory operations are asked for),
write and truncate of one file, and a removal or rename of a directory and
requests below it (libfuse locks paths). Hard behaviours:

- handlers of one file interleave at every system call and request (two
  downloads into one copy, a write during an upload, a release while others write);
- every request to the drive may fail with or without effect, at any point of a
  handler that has already changed the tree, the cache or the store; most
  handlers do not catch what is thrown, so the process ends; a removal is a request
  to the drive, a system call and a change of the tree, any of which may be the last;
- the store outlives the process, and nothing in it says whether a copy is
  complete, newer or older than the drive;
- raw pointers to nodes are kept in the cache by path, and in the handles of open
  files and directories, while nodes are moved and freed;
- directories are read lazily, so what a request does depends on what was asked before;
- one request may be several calls on several mounts;
- authorizing and serving are separate processes, of several accounts, that
  share credentials and secrets without a lock and may end at any point, also
  within the write of a credential.

What makes each part correct: the bytes a reader gets are the file's, what is
written is uploaded by the handle that wrote it and nothing else is, and no copy is
deleted while the drive may still need it (content path); tree, cache and
drive agree, and only what was named is deleted (tree); a path means the same
thing to a listing, a lookup and a change (mounts); a property has the last
value it was given, and a valid one (control directory); a failure is told as
one, and not as an answer of the tree's own (errors); what was
authorized is served, from directories of its own (start-up). `PROJECT.json` lists
the hazards line by line, with the property for each or the reason there is none.

## 2. The modules

| module | models | form |
|---|---|---|
| `FileContent` | ContentManager, FileHandle, `openContent`, `truncate`, `updateNodeContent`, the media requests, and the handlers open, create, write, truncate, release, unlink | interleaving at each system call and request |
| `CloseToOpen` | what the above promises with one handler at a time | abstract |
| `FileContent_proofs` | type correctness, four safety properties | proofs |
| `FileContentSerial_proofs` | with one worker: `QuietMirrored`, and that FileContent implements CloseToOpen | proofs |
| `NodeTree` | AbstractFileSystem's tree, `Cache`, metadata requests, and the handlers getattr, readdir, create, mkdir, unlink, rmdir, rename | one action per request, failing anywhere inside |
| `Namespace` | what the above promises: a tree of paths | abstract |
| `NodeTreeShape_proofs` | induction on the turns of a loop, walks from the root, trees that grow, what is below a file, the order of a recursive removal | lemmas |
| `NodeTree_proofs` | without renames, under any failures: types, the shape of the tree, the cache, directories marked as read, handles, what is removed | proofs |
| `NodeTreeMirror_proofs` | with renames of files, without failures: the above, the tree mirrors the drive, lookups answer what it has, and NodeTree implements Namespace | proofs |
| `ControlFs` | JoinedFileSystem, ConfFileSystem, InMemoryProperty | one action per request |
| `ControlFs_proofs` | types, values, listings, isolation of the mounts, renames | proofs |
| `ErrorCodes` | G2FErrorCodes, `checkHttpResponse`, `_compileMessage` | operators |
| `Failures` | FuseGate's catch blocks, all operations of libfuse as stages that succeed, refuse or throw | interleaving at each stage |
| `Failures_proofs` | types, no failure answered as success or as a refusal | proofs |
| `Paths` | the path managers | operators |
| `Settings` | tables of properties, AbstractStaticInitPropertiesList, PropertyTypesRegistry, ChainedConfiguration | operators |
| `Startup` | main, Application, sessions, Auth, GoogleOAuth2, `FuseGate::run` | interleaving of processes at each call that may fail or wait |
| `Startup_proofs` | types, accounts and their directories, authorization is kept | proofs |
| `MC*` | values of the constants for TLC | |

Names of operators and actions follow the code where they can (`FillDir`,
`Descend` for one turn of `get`'s loop, `RemoveNodes`, `SetValue`,
`FindMountPoint`). Operators whose name has an underscore (`Write_Unmarked`,
`Settle_NoEvict`, ...) are plausible mistakes; no specification uses them, and
`PROJECT.json` pairs each with the property that finds it.

### FileContent

A *session* is one file handle from open or create to the end of release, one
truncate or one unlink; `pc[s]` says how far its handler is. `store`, `remote` and `meta`
are the copy on disk, the content on the drive and `Node::_size`. A download is
`CreatCopy`, `Fetch`, `AppendChunk`..., an upload `OpenForUpload`, `SendChunk`...,
`UploadLands`, `FetchMeta`, a removal `Unlink`, `RemoveRemote`, `DeleteCopy`, so that
other handlers, failures and the end of the process come in between. A download's
`write()` may take less than it is given, which the code does not notice: `ShortWrite`
drops a chunk and goes on. `RemoveFails` is a removal that ends with the copy and the
node in place, the drive's file gone or not. `Workers`
is the number of threads (1 is `-s`). `Faults` lets requests fail and the daemon
die; `Die` is also what an exception in a handler does that nobody catches.
`wrote` (sessions that have written) and `dirty`, `touched`, `orphan`, `aborted` and
`edited` (files) are history that only the properties read. `dirty` is a flag per file:
it says that an upload has to begin, not what it will find. With two workers it may find
less than was written, when a download that began before the write empties the copy
with `creat()`; nothing in the code prevents that, and `PROJECT.json` lists it as a
hazard without a property. What the model takes from the kernel and libfuse: a file is
looked up before it is opened, write and truncate of one inode exclude each
other, and an unlink waits for the handles of its file (libfuse renames an
open file instead of unlinking it).

### NodeTree

The heap of nodes, the root pointer, the two maps of the cache and the drive
are variables. A handler is one action, computed on a record that carries all
of them and a count of the requests that still succeed: when it reaches zero
the handler throws, with all that it changed so far left in place, and if
`late` with its effect on the drive although the answer was lost. The kernel's
part is that it resolves a path name by name and checks the kinds of what a
rename replaces. Handles of open files and directories are raw pointers to nodes
(`fh`); libfuse hides a file that is open instead of removing it, and the kernel
asks nothing more of a directory that was removed (`Removable`, `CommitRemoval`).
That handlers run one at a time loses little here: the requests that read and
change one directory exclude each other (section 1), and what is left are races
on a list or a map, which no model at this level tells from a crash.

### ControlFs

The drive is the files of its root and the entries that a folder of its own
called ".control" may have, which the mount hides. Properties have classes of
values: default, accepted by the type, not accepted. `told` is history: what the last
successful request has made of a property. A rename of a property into the drive
(`ReplaceNode`, `InsertNode`) makes an empty file of the property's name there, and is then
refused by the control directory, which nobody hears of. `replaceNode` tells the cache
afterwards of a change of the node that `importNreplace` has freed; the cache, the only
one that listens, uses the address as a key and nothing behind it, so that at worst it
forgets the new node, which the next lookup finds without it.

### ErrorCodes and Failures

A request is a sequence of stages: a handler's calls into FuseGate, which have a
catch block ("gate"; `getINode` has one of its own that answers a null pointer),
and its calls past it, which have none. In a stage the drive may answer anything
(`CheckHttpResponse` decides), a digest may have the wrong length or digits, a download may
break off, the parent of a new file may be gone (`createFile` then uses a null pointer,
`NoParent`), a system call on the store may fail, boost may throw, a path may be
unknown; the exception carries the code and the message that `_compileMessage` makes
of a template and arguments. `Unwind` is what the frame does with it. A refused write of a
property answers the number of what `setValue` returns, of whatever category; all lists of
the program are in memory, whose only refusal is EINVAL (`SetValueErrors`). What the
stages do to files, nodes and mounts is left to the modules above. Messages are
sequences of characters, of which only `%N` and `{`, `|`, `}` are told apart.

### Paths, Settings and Startup

`procs[p]` is one process from its command line to its end, with an exit status;
`stored` and `secret` are the files that processes share, `authorized` is history:
which settings (account, `--conf-dir`, environment, and the working directory for a
relative one) the user has authorized. `RefreshCredentialWithOptions` of the OAuth2
library is `Refresh` if the stored credential is of the flow's client and still
good, `Ask` otherwise; the callback of GETAUTH gives the code or waits at a prompt,
that of SERVICE throws. `getFileSystem` asks for the store and for the credential
as arguments of one call, in either order (`NoStore`). The credential is written in two
steps, `Obtain` and `Save`: in between the file is `Torn`, for other processes and, after a
kill, for good. A user without an entry in the password database crashes the process
where HOME would have to be looked up (`ReadHomeDir`, `NoEntry`). A factory that does not
exist is called all the same and crashes the process (`Create`). `Settings` builds
the lists as the first question to each of them does, and walks the chained
iterators over them.

## 3. What is checked

| run | shows | instance |
|---|---|---|
| `content_serial` | with `-s`, under failures, crashes, restarts and edits elsewhere, FileContent implements CloseToOpen, and a file of the drive that nobody owes an upload is the same in the store (`QuietMirrored`) | 1 file of up to 2 chunks of 2 values, 2 sessions |
| `content_concurrent` | with two handlers at once, under failures and crashes: overlapping downloads still give a whole copy (`CleanCopyComplete`), a file that was written has a handle that will upload it (`DirtyHasPublisher`) and that upload begins, or the process ends (`DirtyPublished`); the content on the drive is replaced only by what a session that wrote has read from the copy (`OnlyWritersUpload`); a copy is deleted only after the drive's file (`CopyGoesLast`); every handler ends (`HandlersReturn`) | 1 file of up to 2 chunks, 2 sessions, 2 workers |
| `content_short_read` | finding: an aborted download is served as the file | as `content_serial` |
| `content_create` | finding: the first create on a fresh store ends the daemon | no failures |
| `tree_serial` | tree and drive agree, a getattr answers what the drive has, and NodeTree implements Namespace, after any sequence of requests | 4 files beside the root, 2 names, depth 2, renames of files |
| `tree_handles` | an open file or directory keeps its node, whatever else is listed, made, renamed or removed (`HandlesValid`) | 3 files, 1 handle, removals of files and empty directories |
| `tree_faults` | requests fail half-way: the tree stays a tree, the cache has no dangling pointer, a directory read in part is not marked as read, only what is named is deleted | 3 files, failure at the first or third request of a handler, no renames |
| `tree_dir_rename` | finding: a stale path below a renamed directory deletes the wrong file | 3 files, all renames |
| `control_mounts` | listings and lookups agree, hidden entries stay untouched, a rename loses no file but the one it replaces (`RenameLosesNothing`), properties hold what was last accepted | 3 files, 2 properties, 2 handles |
| `control_export` | finding: a property renamed into the drive is answered as a success, and is not at its new path | as `control_mounts` |
| `failures` | a failed request, store or stream is never answered as success (`FailuresReported`) or with a number that the tree uses for its own answers (`RefusalsAreReal`); messages hold their arguments as they are (`ArgumentsVerbatim`) | 2 threads, all requests, statuses at the borders of 400-499 and 500-599, arguments with and without template characters |
| `startup` | accounts keep apart, what GETAUTH stored SERVICE finds, the store is below `--conf-dir`, the control directory shows each setting once with its own enumeration and all lists are built before the threads start, and a service that ends with 0 was mounted | 2 processes, 12 command lines over 4 accounts (one without provider, one missing), 5 environments, 3 secrets |

Bounds. One file suffices for the content path because nothing but the
directory `dirs` is shared between files; two sessions make every pair of
overlapping handlers, and two chunks distinguish a partial copy from an empty
and a whole one, and a write before from one behind a transfer's position. In
the tree, four ids and depth 2 give a directory with entries, a moved entry, a
name that is used again and a target to replace; addresses are as many as a
handler may need (`Room`). A failure at request 0 hits a handler before it did
anything, at request 2 in the middle of `fillDir` or of a recursive remove.
Where a call is a lookup and a handler, one of the two fails at most.
A removal that ends half-way needs one file and one session. The two workers'
run has one value of chunks beside the hole, as its properties tell contents apart
by length and holes too and liveness allows no symmetry; its safety properties hold with
two values as well.
In ControlFs three files of the drive are a visible one, a hidden folder and
its entry, or the source and the target of a rename. Sizes of a truncate are 0, 1, the
maximum and one more. Two threads are enough for
`failures`, where they meet only in the end of the daemon. In `startup` two
processes make a service and an authorization of one account, two of two accounts,
and two authorizations of one; secrets change in one of the directories used.

Fairness (`content_concurrent` only). `WF(HandlerStep(s))`: a handler has a
thread of its own, does not wait for another one, and the transport ends every
request. `SF(Release(s))`: the kernel sends a release for every handle when its
last descriptor is closed, at the latest when the process ends, but a thread
may be free only now and then. No fairness is assumed of failures, requests or
restarts.

### Findings

The four violation runs are disagreements between the code and what its comments
say; `PROJECT.json` quotes both sides:

- `content_short_read`: a partial copy after a failed download (`ContentManager.cpp:137`);
- `content_create`: `open` before `mkdir` in create (`ContentManager.cpp:72`);
- `tree_dir_rename`: stale cache below a renamed directory (`Cache.cpp:38`);
- `control_export`: a property renamed into the drive becomes an empty file of its own
  name, in place of the target, and the rename is answered as a success
  (`JoinedFileSystem.cpp:345`).

With `AssertsOn <- FALSE`, a build with NDEBUG, NodeTree violates `TreeShape`, because
`detachNode` is called inside `assert` (`AbstractFileSystem.cpp:751`).

Read in the code while modelling it, and part of the models as it is:

- `truncate` changes the copy only: the size that getattr reports stays, and nothing is
  uploaded (`AbstractFileSystem.cpp:339`, where `handler.cpp:237` says "Change the size of a
  file"; `ResizeCopy` and `meta` of FileContent);
- a variable of XDG that is set but empty is refused as a path that is not absolute
  (`PathManager.cpp:61`), where the comment at `:25` promises the default (`XDGDir`);
- a relative `--conf-dir` is kept as it is, and a process in the background moves to `/`
  before it makes its store: the store is not below the directory of the credentials
  (`PathManager.cpp:121`, where `PathManager.h:9` says "single directory");
- the errno of a failure is the number of the program's code, not the condition
  that `appError.cpp:69` declares: HttpReadError is ENOENT, HttpTransportError ESRCH,
  MD5Error EXDEV to the caller; 401 to 403 and 408 never become permission errors
  and timeouts, since 400-499 is asked first (`GoogleProvider.cpp:136`);
- 3xx, and what is above 599, pass as success; a failed `pread` is the end of a file;
- a block `{a|b}` of a message opens only in front of another control character; no
  message of the program has one;
- an account without provider crashes the process before the check for it
  (`Application.cpp:17`); GETAUTH ends with 1 on success if a code was given, with 0
  on any failure, and says that the authorization is saved before it is exchanged;
- `ssl-ca-path=` is passed to the transport in lower case and with the name of the
  option in front (`GoogleProvider.cpp:988`);
- an access token is fetched once and never renewed (`GoogleProvider.cpp:770`).

## 4. What is proved

`FileContent_proofs`, for all sets of files, sessions and chunks, any number of
workers and any length:

- `TypeCorrect`, `CleanCopiesComplete`, `WritesHavePublishers` (invariants),
  `UploadsAreWrites` and `CopiesGoLast` (action properties). All rest on `Spec => []IInv`
  with `IInv == TypeOK /\ SessionOK /\ DownloadOK /\ DirtyHasPublisher`.
- `CleanCopyComplete` is not inductive: it says nothing while downloads run.
  `DownloadOK` is the strengthening: each chunk that a clean copy lacks, some
  running download has yet to write, because a `creat()` that empties the copy
  begins a download of its own. `SessionOK` ties the place of a handler to what
  exists and to who has written: a session that uploads is one that wrote (`wrote`), a
  file that is being removed has no other session, and one whose copy is about to be
  deleted has gone from the drive. The last two are `CopyGoesLast`.
- From the assumptions that `Workers`, `MaxLen` and `DirOf` have their types and
  that the sentinels are no data.

`FileContentSerial_proofs`, for one worker (`Workers = 1`, the option `-s`) and all sets
of files, sessions and chunks and any length, failures and restarts included:

- `QuietFilesAreMirrored`, the invariant `QuietMirrored`. The induction is
  `IInv /\ SerialOK`: at most one handler is on its way; what it has to itself is said by
  `Alone` (a download has written the part of the drive's content that it has read, an
  upload has sent a prefix of the copy, nobody else writes either); and a file of the drive
  that is `Unowed` is `Mirrored`: whole, or absent, and equal to the drive's wherever there is a
  copy. `QuietMirrored` follows with `DirtyHasPublisher` of the first proofs: a file
  with a dirty copy has a handle that owes an upload.
- `SerialIsCloseToOpen`, the refinement `ImplementsCloseToOpen`. `AbsView`, `AbsStatus`
  and `AbsOf` map a copy and the state of a handler to what the abstract file is seen as.
  One lemma per action says which step of CloseToOpen it is: the steps of a download
  and the chunks of an upload are hidden, an upload is `Publish` at the moment the drive
  takes it, a removal is `Unlink` when the drive deletes the file and `Discard` when the copy
  goes, a download that breaks off is `Cut` or a refused open, a short write `Lose`, the end of
  the process is `Crash` whatever was running. The lemmas need `SerialOK`: that a second handler
  could change the copy under a transfer is what the refinement fails on otherwise.

`ControlFs_proofs`, for all sets of files, properties, values and names:

- `ControlTypeCorrect`, `PropertiesUsable`, `PropertiesReadBack`: the invariants
  `TypeOK`, `ValuesUsable` and `ReadersSeeWrites`. `ReadersSeeWrites` is inductive
  only for one that knows the stored values; `PropsOK` adds that each of them was
  accepted (`StoredAccepted`), which also gives `ValuesUsable`.
- `HiddenEntriesUntouched`: the action property `HiddenUntouched`, whatever is
  renamed where. `DrivePaths` and `ControlPaths` say which paths are routed to
  which file system; a step lemma for each change of the drive (create, remove,
  rename, import) then shows that it starts from a path the drive answers for and
  leaves hidden files alone (`KeepsHidden`).
- `ListingsResolve`: the invariant `ListingResolves`, renames of properties into the drive
  included. It rests on the invariant `DriveOK /\ OnePathEach`, by which only the names of
  properties may be those of several files: for any other name the file a lookup finds, by CHOOSE
  over the files of the path, is the only one.
- `RenamesLoseNothing`: the action property `RenameLosesNothing`.
- From the assumptions that names of properties, of other files and of the
  control directory differ, that the sentinels are no data, and that defaults and
  accepted values are values.

`Failures_proofs`, for all requests, frames and disk errors, and any number of threads:

- `FailuresTypes`, `NoFailureIsSuccess`, `RefusalsAreTheTrees`: the invariants `TypeOK`,
  `FailuresReported` and `RefusalsAreReal`. The invariant follows an exception from the stage that throws it to the
  answer: its code is one that the thrower can give, none of these is 0 as an errno, and
  what unwinds out of a frame without a catch block leaves no answer at all. That the
  drive's statuses map to codes that are not 0 is a lemma about `CheckHttpResponse`.
- From `StatusesAssumption` (HTTP statuses are numbers) and `DiskErrorsAssumption` (a
  failed system call sets an errno that is not 0).

`Startup_proofs`, for all accounts, roots, environments, command lines, secrets and
processes:

- `StartupTypes`, `ZeroIsServed`, `StoreIsBelowConf`, `AccountsStayApart`: the invariants
  `TypeOK`, `ZeroMeansServed`, `StoreBelowConf` and `AccountsApart`;
  `WhatIsAuthorizedServes`: what GETAUTH has stored, a service of the same settings finds,
  unless the write of it was broken off or is under way. `StoreIsBelowConf` is about an
  absolute `--conf-dir` or a process in the foreground (for the rest it is false).
  The induction adds, of each process, that its store is the one its command line and
  environment name (`Lawful`), and of the history that every authorization is in the
  store it names and of the secret that was used, or that file is half written
  (`AuthorizedStored`). Two accounts have two directories because
  a path is its root and the names of provider and session, in that order, and these
  are names and not separators (lemmas about `Paths`).
- From `NamesAssumption`, `AccountsAssumption`, `InvocationsAssumption`, `RootsAssumption`
  (names, accounts, command lines and roots have their types), `UnsetAssumption` and
  `NoneAssumption` (the sentinels are no roots and no secrets).

`NodeTree_proofs`, for all sets of files, nodes, names and handles, any depth and any
requests that fail, with or without effect on the drive, as long as nothing is renamed
(`Renames = "none"`, as in `tree_faults`):

- `TypesHold`, `ShapeHolds`, `CacheHolds`: the invariants `TypeOK`, `TreeShape` and
  `CacheAgrees`; `FilledHolds`: the action property `FilledWhenComplete`.
- `HandlesHold`: the invariant `HandlesValid`, when `rm(1)` removes empty directories only
  (`RmFull = FALSE`, as in `tree_handles`; with a full one goes the node of a file that is
  open in it).
- `RemovesHold`: the action property `RemovesOnlyNamed`.
- None of them is inductive. Without renames a file keeps the path at which it was born,
  and so does every node made of it: the invariant `TreeInv` says that there is a
  function `born` from ids to paths to which the drive, the tree and the cache conform
  (`Sound`). A child's path is its directory's and its name (`CloudOK`, `ListOK`), so no
  directory is above itself, a node is in one list, and the recursion of `removeNodes`
  reaches every node below before the one above (`PostOrderLists`). A cached path leads
  to its node and the node knows that path (`CacheOK`), so evicting a node by the path
  it knows leaves no other way to it.
- A handler is one action of many calls, each of which may be its last: the lemmas
  (`FillDirKeeps`, `GetKeeps`, `CreateNodeKeeps`, `RemoveNodesKeeps`, ...) show `Sound` of
  the record that the handler works on after each of them. `Looks` says of a handler
  that it changed nothing but to read and to cache, `Fills` that what it has marked as
  read is whole. The only calls that do not leave `born` as it was are those that make a file.
- What a removal takes is found the same way. On the drive a file is at the path `born` of
  it (`DriveAt`), and what is below a directory is closed under children (`Under`).
  `removeNodes` frees the nodes below the one it is given, each once, and each request to
  delete strikes the file of such a node with what is below that file (`Removes`,
  `Strikes`): so no file goes that is not below the path of the request, wherever the
  recursion breaks off, and no handle loses its node but one of a node below.
- The loops of the code are loops of `NodeTree` (`Loop`): that they end where they should
  is proved by induction on their turns (`NodeTreeShape_proofs`, from the finiteness of the
  numbers up to n; no induction theorem of the library is needed).
- From the assumptions of `NodeTree`: ids and nodes are finite sets of numbers, the root's id
  is one of the ids, the null pointer is no node, `MaxDepth` and the budgets are numbers.

`NodeTreeMirror_proofs`, for the same sets and depths, when files at most are renamed, with
assertions compiled in, and no request fails (`Renames # "all"`, `AssertsOn` or nothing is
renamed, `FailAt = {}`: the constants of `tree_serial` and `tree_handles` among others):

- `MirrorHolds`, `AnswersHold`: the invariants `TreeMirrorsDrive` and `LookupAnswersDrive`.
  The inductive invariant is `MirrorInv`: `TreeInv`, and for the function `born` of it
  `Mirrors`: the files of the drive are a tree of directories in which no two have one path
  (`DriveTree`), no two nodes are of one file (`OneNode`), each node has its file's kind and
  name and the file is there (`Shows`), and a list is all of what the drive has in the
  directory if it was read, and empty if not (`ReadOrEmpty`). The last one is why the
  hypothesis on failures is needed: a `fillDir` that fails half-way leaves a list in part,
  and the next one adds the whole again.
- `Ready` says what a handler holds between two calls: `Mirrors`, and no failure to come.
  `get` answers the node of the file that the drive has at the path (`GetGood`), and null only
  where the drive has none (`MissNoFile`). `createNode` adds to the list what it adds to the drive
  (`CreateNodeGood`), `removeNodes` takes from both what is below one file
  (`RemoveNodesGood`). A node for each file and one more are enough, since no file has
  two (`RoomyVacant`, from `Room`).
- A rename of a file is a step from `born` to the function with another path at one id
  (`Renamed`). The node is taken from the list it is in; what is left is a tree for the
  paths before and after, since no other node is of that file and nothing is below it
  (`ErasedFits`). Entered in the other list, and evicted from the cache, it is one for
  those after (`MoveTree`, `MoveGood`). For a moment two files may have the new path, on
  the drive and in the list: the invariant that holds between these two requests (`Calm`)
  does not exclude it, and `removeNodes` of the node that was there first restores
  `Ready` (`ReplaceGood`). The handles that are closed are those of the node that the kernel's
  lookup has found; it is the one that is freed because the second `get` of the path
  answers as that lookup did (`SameAnswer`). Without assertions `detachNode` is not
  called, the node stays in the old list as well, and `ShapeHoldsRenamed` would be false.
- `TypesHoldRenamed`, `ShapeHoldsRenamed`, `CacheHoldsRenamed`, `HandlesHoldRenamed` (with
  `RmFull = FALSE`) and `RemovesHoldRenamed`: the properties of `NodeTree_proofs` but
  `FilledWhenComplete` again. A step is a rename, which closes the handles of the node it frees and
  strikes no file but the one at the new path (`RenamingKeeps`), or one that the lemmas of
  `NodeTree_proofs` are about (`StepKeeps`, `NextIs`).
- `NamespaceHolds`: the refinement `ImplementsNamespace`. `MirrorStep` says that a
  step leaves the drive as it is, adds a file at a path where none is and whose directory
  is (`Begets`), takes one with all that is below it (`Cut`), or renames a file (`Renamed`):
  the stutter, `Make`, `Discard` and `Rename` of Namespace (`BegetsMakes`, `CutDiscards`,
  `RenamedMoves`). The paths of `AbsFs`, a recursive function over the parents, are those of
  `born` (`SpaceOfIs`), and to be below a file is to have its path for a prefix (`UnderPrefix`).

When a directory is renamed these arguments do not hold: the paths of all below it change, but
what is cached of them does not (`tree_dir_rename`). When a rename may fail they do not
either: it has changed the tree before it asks the drive. `FilledWhenComplete` is proved
without renames only, since it compares a list with the drive before the step: a rename that
reads the directory of its new path and then replaces a file there leaves the list of the
drive after the step.

Only model-checked:

- the liveness properties, since they rest on fairness;
- `ArgumentsVerbatim`, a property of a text substitution that is recursive, and
  `ControlShowsSettings`, of the iteration over the tables of one build: both are
  computations, and an induction over their data is out of the prover's reach.

## 5. What is not modelled

Races of two handlers on one list of nodes, one map of the cache or the string of
one property; importing whole directories between mounts (the control directory
has none); the pages of a long children list; JSON, MIME types, times, attributes and
permissions; reading (it changes nothing, and `pread` of the copy is the model's
`store[f]`); the text of a property's file; two services of one account on one
store; the parsing of options; the directories CACHE and RUNTIME, which nothing asks
for; the file-backed properties and the backoff, which nothing uses; `utils/Enum.h`,
logging and the wording of messages.

## 6. Plan

1. `GoogleProvider`'s descriptions of files in more detail (pages, parents, MIME
   types), and `importNreplace` of a subtree.
2. A composition of `Failures` with `NodeTree`: which errno follows from which state
   of the tree.

# rclone-studip-backend: specification and proofs

This directory holds TLA+ specifications of the Stud.IP backend for rclone
(`src/backend/studip`) and of the parts of rclone that decide what a backend is
asked to do (`src/fs/sync`, `src/fs/operations`), the TLC configurations that
check them on small instances, and TLAPS proofs of what holds for every
instance. File names without a path are of `src/backend/studip` in the parts on
the backend; `sync.go` and `pipe.go` are of `src/fs/sync`, `copy.go`,
`operations.go`, `multithread.go` and `reopen.go` of `src/fs/operations`.

Contents: 1 the system, 2 the modules and the code they stand for, 3 the runs,
4 the proofs, 5 disagreements found, 6 what is left out, 7 what could come next.

## 1. The system

The program is rclone with one more backend. `rclone.go` imports rclone's
commands and `backend/studip`; the backend maps the file area of one Stud.IP
course to an rclone remote. `fs/` and `fstest/` are rclone's own packages: the
sync that calls the backend, its operations on single files, and the tests.

| component | state it keeps | operations |
|---|---|---|
| requests (`requests.go`) | none; a paged listing's partial response | one function for each JSON:API request; listings follow `meta.page` page by page |
| tree of a course (`filetree.go`, `directory.go`) | nodes with id, name, children, size | lookup by path, append, remove, listing a node |
| crawl (`fs.go:560-673`) | one goroutine and one channel for each folder | `GetCourseFileTree`, `FillFolderNode` |
| tree cache (`fs.go:28-549`) | per process and course: generation counter, published snapshot, mutation lock; per instance: root, label, `activeMutations`, `ft.mu` | `ensureCurrentFileTree`, `refreshFileTree`, `lockMutationCourses`, `beginMutation`, `bumpTreeGeneration...` |
| calls that change the course (`fs.go:785-1690`, `object.go:102-433`) | the object passed in | `Put`, `Mkdir`, `Rmdir`, `Purge`, `Move`, `DirMove`, `Update`, `Remove` |
| lookups (`fs.go:1690-1892`) | none | `List`, `NewObject` |
| opening (`fs.go:100-267`) | the new instance | `NewFs` |
| options, assertions, stack (`studip.go`, `stack.go`) | none | registration, `Assert` |
| pipe (`pipe.go`) | queue, tokens in a channel, total size | `Put`, `GetMax`, `Close` |
| sync of two directories (`sync.go`) | two contexts, three pipes, the delete channel, rename maps, sets of directories, three errors | `SrcOnly`, `DstOnly`, `Match`, checkers, renamers, transfers, deleters, `run` |
| copy or move of a file (`copy.go`, `operations.go`, `multithread.go`) | the upload of the current try | `moveOrCopyFile`, `Move`, `Copy`, `multiThreadCopy`, `Rcat`, `MoveBackupDir`, `copyDest` |
| reading with retries (`reopen.go`) | offset, pending seek, tries | `Open`, `Read`, `Seek`, `Close` |
| the rest of rclone (`src/fs/operations`, `src/fstest`, `magefile.go`) | - | check, dedupe, lists, remote control, tests, build |

How they interact. A sync marches over two trees and calls back for every entry.
The callbacks put pairs of files into pipes; checkers, renamers, transfers and
deleters take them and copy, move or delete files one by one, which calls the
backend. A copy reads its source through a handle that reopens it where a read
broke, and may try several times. rclone calls a backend from many goroutines,
and may open several instances of one course, each rooted at a folder
(`relativeRootPath`). Every call that changes the course takes the course's
mutation lock, makes the instances it is about current (clone the published
snapshot or crawl the course), counts itself in `activeMutations`, sends its
requests, enters in its own tree what the requests did, increments the course's
generation, marks its own tree and publishes a snapshot of it. `List`,
`NewObject` and `NewFs` refresh without the mutation lock and go on with the tree
they have if that fails.

What is hard.

* *Interleaving*: lookups and `NewFs` refresh beside a running mutation, reading
  the counter, the snapshot and the server at different moments; a refresh swaps
  the root under node pointers that a handler holds over its requests. In a sync
  every stage runs beside every other, and a pair is queued under a lock while
  its token is sent without it.
* *Stale state*: every handler decides by a cached tree (is the folder empty, is
  there a file to overwrite, what is the parent's id). Other instances and other
  clients of the course change it meanwhile. Objects outlive their files; a
  caller's object may have been moved to the backup directory by its callee.
* *Partial failure*: most calls are several requests. Each may be refused, or be
  done and its answer lost. `Move` across folders copies and deletes; `Update`
  deletes and creates; `CreateParentDirectories` makes folder by folder. A copy
  leaves part of a file, a chunk of several fails, a deletion comes before the
  move it makes room for.
* *Ordering*: stages are shut down one after another; extra files go only after
  the others have come; directories get their times after all that changes them.
* *Cancellation, deadlines, retries*: two contexts, one of which ends with the
  other; a soft and a hard deadline; reads and copies that are tried again.
* *Concurrency of the crawl*: errors of one of many goroutines must reach the caller.
* *Paging*: the listing changes between two pages, totals and limits are the
  server's word.
* *Boundaries*: sizes of -1, page limits of 0, full channels, the instance's own
  root removed, made or moved.

What makes each part correct.

| component | properties |
|---|---|
| paged listings | nothing listed throughout is skipped; nothing is loaded twice; the loop ends |
| crawl | a tree returned without error is whole, and no goroutine still works on it; the crawl returns; only a failed call strands goroutines |
| tree cache | a tree that counts as current is the course; a handler acts on the course; one mutation at a time; an undisturbed lookup answers with the course; labels never lead the counter nor go back; every call returns |
| calls | each handler enters in its tree exactly what its requests did; no duplicates come about; a move keeps the file; a call touches only what it is about; an upload that returns is there, and in full unless it overwrote a shorter file; all in all, the calls do to the paths what their names say |
| pipe | every token finds a pair; a closed pipe is emptied before its consumers end; the size is that of the queue; nobody waits for ever |
| sync | success means that each file of the source is at dst, or that there is what the options say to leave there; a move loses nothing but that; what is overwritten or deleted is in the backup; what is the same is left alone; extra files outlive a sync that failed; times of directories are right at the end; no pipe is written after it was closed; the sync returns |
| copy of a file | success means the file is there in full, unless an option lets it stay away; the source is kept until then; the old file is kept until the new one has its name, or is in the backup; no wrong data under the right time; no partial file stays; the call returns |

`PROJECT.json` lists all components with their status and, under `hazards`, every
place where these go wrong in ways tests hardly reach.

## 2. The modules

```
Paging     <- PagingProofs      one listing call and its server
Crawl      <- CrawlProofs       one goroutine per folder
TreeCache  <- TreeCacheProofs   generations, snapshots and locks of a course
CourseTree <- StudIPFs <- StudIPFsProofs <- StudIPFsFaults
                                trees; handlers request by request
FileSystem <- StudIPFs          (abstract) what the calls promise, by INSTANCE
Pipe       <- PipeProofs        the queue between two stages of a sync
Sync       <- SyncProofs        the stages of a sync and both trees
ReOpen     <- Copy <- CopyProofs
                                a handle on a source; one file copied or moved
MC*                             the same modules with constants for TLC
```

The concurrency and the handlers are modelled apart. `TreeCache` interleaves
everything at the grain of the code's reads and writes of shared state, and
leaves open what a mutation's requests are. `StudIPFs` spells out the requests and runs one
call at a time. That is what `OneMutation` and `ActsOnTheCourse`, proved for
`TreeCache`, allow: a mutation has the course's lock from before its first read to after its
last, and reads its course throughout (unless a failure or a race that
`TreeCache` names came in between).

The same cut runs through rclone's side. `Pipe` interleaves the steps of `Put`,
`GetMax` and `Close`. `Sync` uses a pipe by what `Pipe` shows of it (every pair is
handed out once, in any order, and a closed pipe is drained first) and takes the copy
of a file as one step that may fail at any point. `Copy` is that step in full. The backend under
`Copy` is any backend rclone has: a request takes effect, or fails, or fails after it
took effect.

### Paging (`requests.go:105-298`)

The loop shared by the three listings. `FirstPage`, `NextPage` and
`EmptyPage` are the answered requests, `RequestFails` any error return.
`data`, `total` and `limit` are the fields of the response the
loop merges into; `nextPageLimit` has the code's two fallbacks. The server may
leave the limit out (`Reported`), cap it (`MaxLimit`) and count items that it does not list
(`Overcount`). Other clients insert, append and remove between two pages.
`kept` and `edits` are history.

### Crawl (`fs.go:560-673`)

`pc[n]` is where `FillFolderNode` is for folder n: before its folder listing,
waiting for its subfolders, blocked on the parent's unbuffered channel, or through.
A channel operation is one step of both ends (`Receive`). The first error
received ends the call while the other goroutines keep running, as in the code.
The course does not change during the crawl; `TreeCache` has that part.

### TreeCache (`fs.go:28-549` and the shape of every call)

| model | code |
|---|---|
| `counter`, `snapshot`, `lock` | `fileTreeGenerations`, `fileTreeSnapshots`, `fileTreeMutationLocks` of the course |
| `tree`, `label`, `active`, `mu` | `ft.root`, `treeGeneration` (and `treeRefreshGeneration`, always set together), `activeMutations`, `ft.mu` |
| `Check` ... `Store` | `fileTreeNeedsRefresh` (`activeMutations`, then the counter, then the labels: `Check`, `Count`, `Compare`), `refreshFileTree`, `clonedSnapshotForCurrentGeneration` |
| `Lock`, `Begin`, `EndMutation`, `Unlock` | `lockMutationCourses`, `beginMutation`, `endMutation`, the deferred unlock |
| `Locate`, `MakeParents`, `MakeDir`, `ParentsMade` | node pointers; `CreateParentDirectories` under `ft.mu` |
| `Request`, `Commit`, `CommitAgain`, `Bump`, `Record`, `Forget` | a request; the edit of the tree with `bumpTreeGenerationAndMarkCurrent`; `bumpTreeGeneration` alone |
| `BeginOpen`, `Stamp`, `Publish`, `Label` | `NewFs` |

A "folder" of this model is one listing and its content is a model value, so a
crawl that reads folder by folder can see a course that never existed.
`delta` is what was done on the server but not yet entered. A critical section that is one read or one write is one step with
`mu` free as its guard; `mu` is held where the code holds it over several steps.

Two history variables bound the promises. `raced` is set when an unlocked
refresh overlaps a mutation: then the code does install a tree from before
the change under a generation from after it. `faulted` is set when a call fails
after a change that took effect, which leaves the counter alone. The coherence
properties hold until then; `OneMutation` and `NoFutureLabel` (proved, not run),
`LabelsGrow` and `CallsReturn` hold regardless.

### CourseTree, StudIPFs, FileSystem

A tree is a function from ids to nodes. Paths are sequences of names. A name is
a token: case folding and escaping are left out, and names that the code takes for
equal are one token. Names of folders and of files are disjoint (`NamesAssumption`). `Child` takes the child of the
smallest id, which is the first in the order of creation; the code takes the first of the slice `Children`, at the end of which
`moveNodeInTree` puts a node that it moves (`fs.go:543`). The two differ only where a tree has two of a name in one folder.

A call of `StudIPFs` is a record with the `step` it is at, which is the request it is about to
send or a decision before the first one. `Outcomes` are the courses that the server may
have after the pending request; the operators for requests have the names of the code's
(`MkDir`, `CreateFileContent`, `UpdateFileRef`, ...). A request is answered
(one action for each handler and answer), refused, or done with its answer lost
(`RequestFails`). Two things that the code's comments say of Stud.IP are outcomes. A folder whose name its parent has already
gets a suffix (`requests.go:18`; `Suffixed` are the names the server makes up), so that a `mkdir` tried again after a lost answer makes a
second folder that no tree knows under that name; a file gets no suffix. And what is written over a shorter file may be cut to the size that
this file had (`object.go:182`), whatever the call enters in its tree. The handlers:

| handler | actions |
|---|---|
| `Put` | `BeginPut`, then overwrite (`Overwrote`, `Licensed`) or `MakeSegment`*, `ParentsMade`, `Created`, `EnterFile` |
| `Update` | `BeginUpdate`, overwrite as above, or parents, `Unlinked`, `Created`, `LicenseAgain`, `Licensed` |
| `Mkdir` | `BeginMkdir`, parents, `AlreadyThere` or `MadeDir` |
| `Rmdir`, `Purge` | `BeginRmdir`, `LookAgain`, `RemovedDir` |
| `Move` | `BeginMove`, `Seen`, then rename (`Moved`) or parents, `Copied`, `Moved`, with `CleanedUp` after a failed delete |
| `DirMove` | `DirMoveOntoItself` or `BeginDirMove`, parents, `Moved` |
| `Remove` | `BeginRemove`, `Removed` |
| `List`, `NewObject` | `NewObject` |

`moveNodeInTree`, `updateRelativeRootFromTree`, `Commit`
(`bumpTreeGenerationAndMarkCurrent`) and `Forget` (`bumpTreeGeneration`) are the
functions of those names. `Invoke` considers the calls rclone makes: `Move` has a
free destination, because `src/fs/operations/operations.go:462-468` removes what is there
first, and `Put` no folder at its path (`Taken`), because `sync.go:1279-1292` refuses to overwrite a
directory with a file. A `Fresh` object is a file still at its path and of its size. `NewObject` answers
nothing for a folder. `findDirectoryByName` is part of the mkdir it precedes; its failing is
that of an answer lost.

`drifted` records that the course changed behind the caches: a call failed after a change, an answer
was lost, an upload was cut, an object was used that its file had outlived, or
another client edited the course. Other clients act between two calls.

Much still holds after `drifted`, because the code goes by ids and by what it has looked up itself, and
the properties on single calls do not stop there. They stop at the first call that takes one thing of the
course for another (`Misleads`, `misled`), of which the code has four kinds: an rmdir or purge whose refresh failed and which goes
on with its old tree, deletes what was at the path and publishes that tree as the newest (`fs.go:1358-1430`); a file or
folder renamed or moved, by a request that is reported as failed; a `Remove`, `Update` or `Move` of an object whose
path is another's by now; and a `Move` or `DirMove` between two instances that both count
as current and differ about either end of it, because a failed call has made folders for one of them. `InPlace`
is what keeps all other calls right: a current tree may lack things or have too much, but nothing is elsewhere.

`FileSystem` is the abstract specification: a set of entries (path, kind, size),
and for each call the effect it has if it returns and what it may leave if it fails.
`Implements` is the refinement, `INSTANCE FileSystem` with the
entries of the course, taken at the ends of calls, for its set; it makes no promise once `drifted` holds.

One module serves several scenarios. `Scenarios` is a set of records (which calls,
which paths, which faults, whether others act, whether objects may be out of date), and
`opt`, chosen at the start and never changed, is one of them. `Sync` and `Copy` are set up the
same way with rclone's options. In this way one run answers a question for several
set-ups that share no state.

### Pipe (`src/fs/sync/pipe.go`)

| model | code |
|---|---|
| `queue`, `totalSize`, `tokens`, `closed` | `p.queue`, `p.totalSize`, the channel `p.c` |
| `Enqueue`, then `Send` or `PutCancelled` | `Put`: under the lock, then the `select` on the channel and the context |
| `Receive`, then `Take` | `GetMax`: the `select`, then under the lock |
| `End` | `GetMax` returns `ok = false`, and the worker ends |
| `Close`, `Cancel` | `Close`; the end of the caller's context |
| `order`, `Rank`, `Fraction` | `--order-by`: the heap, and the end of it that a worker takes from |

Between the two steps of an operation anything may happen: the token of one pair may
be used for another. A pair has a size, may have an unknown one, or may stand for a deletion
(source and destination are one object), which the total does not count.

### Sync (`src/fs/sync/sync.go`)

| model | code |
|---|---|
| `jobs`, `todo`, `List` | the march (`fs/march`), by how sync uses it: every directory asked for is listed once, its entries reported in any order |
| `SrcOnlyFile` ... `MatchDir` | the callbacks `SrcOnly`, `DstOnly`, `Match`, with `copyDirMetadata`, `markParentNotEmpty`, `markDirModified` |
| `pipe`, `closed`, `stage` | `toBeChecked`, `toBeRenamed`, `toBeUploaded`; the workers of each: what they hold, how many are left |
| `Get`, `GetFails`, `PassOn` | the loops around `GetMax` and `Put` |
| `CheckDiffers`, `CheckEqual` | `pairChecker` |
| `PopRenameMap`, `Rename`, `MarchEnds` | `tryRename`, `popRenameMap`, `makeRenameMap` |
| `Transfer`, `DeleteSource` | `pairCopyOrMove` |
| `Delete`, `DeleteFile`, `Deleted`, `Feed` | `startDeleters`, `deleteFiles`, `DeleteFilesWithBackupDir` |
| `MarchEnds`, `PutRename`, `StopCheckers` ... `Finish` | `run`, one step for each stage it stops |
| `errs`, `errored`, `ctx`, `inCtx` | `s.err`, `s.noRetryErr`, `s.fatalErr`; the errors accounting has counted; `s.ctx`, `s.inCtx` |
| `dstEmpty`, `srcEmpty`, `moveEmpty`, `delayed`, `modified` | the maps of directories to look at again |

A file is its content, so "needs transfer" is that the contents differ, unless `--ignore-existing`, or `--update` with a newer file at
dst (`opt.newer`), says to leave what is there (`NeedTransfer`). `Wanted` of a path is what a sync is to have at dst in the end: the
source's file, or the one to be left there. `Discards` is whether a move removes a source that needs no transfer: under `--update` it
does (`sync.go:437-457`), and the content of what was older is then at neither place. `Class` sorts
errors as `processError` does; some errors are counted by accounting and never reported to the
sync, and the deletions look at both counts. `Due` is what `setDelayedDirModTimes` sets, deepest first.
`Gone` is what `deleteEmptyDirectories` removes of a tree. `Called` is the caller's cancellation.

### ReOpen and Copy (`src/fs/operations`)

A handle of `ReOpen` is a record, and each of its operations takes it to a next one.
`at`, which the code never sees, is where the stream really is. `Copy` goes through
`moveOrCopyFile` (`Find`, `NeedTransfer`, `CopyDest` ... `CopyDestCopy`, `Backup`, `Skip`, `Op`), `Move` and
`MoveCaseInsensitive` (`ServerMove`, `MoveAside`, `MoveBack`, `DeleteSource`) and `Copy` with its
tries (`Try`, `Stream`, `Stored`, the chunks of `multiThreadCopy`, `Tried`, `Ended`, `Verify`,
`Rename`, `Clean`). Data is a sequence of blocks: the block's number, `Hole` where nothing was written,
`Bad` for one changed on its way. `Exit` is the signal handler: it runs what `manualCopy` and
`multiThreadCopy` have registered and ends the program.

The options that decide whether a file is copied at all are those of `NeedTransfer`, `equal` and `CompareOrCopyDest`:
`--ignore-existing`, `--ignore-times`, `--update` with its three cases (`Newer`, `Basis`), `--size-only`, `--checksum` and remotes without
times (`check`), `--immutable`, `--no-update-modtime` and backends that cannot set a time, or not without removing the file (`setTime`),
`--no-check-dest`, `--compare-dest`, `--copy-dest`, `--backup-dir` and `--suffix`. `--update` and `--compare-dest` may let a move remove a
source whose content is not at dst; `KeepsNewer` and `Settled` name these cases. A third is a slip of `copyDest`
(`ForgetsRemoval`): it compares with the object at dst a second time (`operations.go:1680`), by rules under which the file is equal that
`NeedTransfer`, under `--update` and for remotes without times, has just removed to have its time set.

What rclone compares may lie: a file of the source's size and time need not be the source. The
promises of `Copy` about such files hold where it does not (`Trusted`); a backend without hashes, for which `--ignore-checksum` stands too, is a scenario.

## 3. The runs

| run | properties | instance | distinct states |
|---|---|---|---|
| `paging` | `NothingSkipped`, `NoDuplicates`, `CallReturns` | 4 items, first page 1, later at most 2, total 1 too high | 406k |
| `crawl` | `Whole`, `CrawlReturns`, `Delivered` | 7 folders, depth 3, one unreadable; any listing may fail | 660 |
| `cache_writers` | `TypeOK`, `Coherent`, `ActsOnTheCourse`, `FreshAnswer`, `LabelsGrow` | a move f to g, an rmdir of g, a lookup on f; 2 folders, 2 contents, 2 requests each | 1.92M |
| `cache_live` | `CallsReturn` | a move g to f, an rmdir of f, a lookup of f, `NewFs` of g beside them; one folder, 2 contents, 1 request each | 49k |
| `fs_files` | `OneOfAName`, `MoveKeepsFile`, `OthersUntouched`, `Implements` | 3 calls among Put, Update, Remove, Move on 2 instances, in six scenarios: one request fails either way, renames, moves that rename, objects out of date, purges with old trees, folders whose move is not confirmed | 1.11M |
| `fs_folders` | `CachesAgree`, `RootResolved`, `InPlace`, `UploadsWhole`, `Implements` | 3 calls among Put, Mkdir, Rmdir, Purge, DirMove, the second root may be missing; two instances with different trees; 2 calls with other clients between | 1.18M |
| `fs_rmdir` | `RmdirOnlyEmpty`, violated | an upload by another client, then rmdir | - |
| `fs_unknown` | `SizesKnown`, violated | a Put of unknown size | - |
| `pipe` | `TokenBacked`, `Drained`, `SizeOfBacklog`, `ConsumersEnd` | 2 producers, 2 consumers, 4 pairs, a channel of 1; no order, an order, a mixed one | 27k |
| `sync` | `Synced`, `NothingLost`, `Backed`, `SameKept`, `KeptUntilComplete`, `DirTimes`, `NoPutAfterClose`, `RunReturns` | 2 files, a directory with a file and a directory that has one too; 2 checkers, 2 transfers, backlog 1, at most 2 faults; 22 scenarios | 146k |
| `copy` | `NothingLost`, `Done`, `OldOrNew`, `Backed`, `TrueTimes`, `NoPartialLeft`, `Returns` | a file of 3 blocks, 2 streams, 2 tries, at most 3 faults; 36 scenarios | 118k |
| `copy_backup` | `BackedUp`, violated | `--copy-dest` with `--backup-dir`, one request fails | - |

Why the bounds are enough.

* *Paging*: four items are three pages or more, so that edits fall before, in and
  after the loaded part. The proof takes the bounds away for the safety properties.
* *TreeCache*: two instances are what the protocol distinguishes, the one that
  changes the course and another. Two folders are what it takes for a crawl to
  read one before and one after a change; two contents tell changed from unchanged. A mutation
  with two requests can be interrupted between its change and its commit, and
  have one after it. The proofs take these bounds away too.
* *StudIPFs*: three calls are one to change the course from one instance, one to use
  the outdated tree of the other and one to run into what that left; one
  failure per behaviour, because after the first most promises are lifted; what is left of
  them is met by the two calls that follow. Each of the four ways to mislead a call has a scenario in which it breaks a property that asks
  for no `misled`.
  There are two suffixes, so that a second folder beside one of its name can be told from a third; two sizes are what a cut takes.
  `maxIds` is not reached in the scenarios without other clients.
* *Pipe*: with four pairs and a channel of one, both producers can wait for room
  while both consumers are between their two steps, with all four pairs in the queue.
* *Sync*: a pair waits while another is held by each of the two workers, so that every
  pipe can be full with its workers busy. Two files of the source for one at dst are
  what a race of renamers takes; a directory in a directory, what the order
  of times and of pruning takes; two faults, one to be counted and one to
  meet a sync that goes on with it.
* *Copy*: of three blocks on two streams one waits for a slot while one fails and
  one is being written. Two tries are one that fails and the last. A break in every block's read
  uses up `MaxTries` of the handle.

`Overcount`, `MaxRequests`, `maxCalls`, `maxFaults`, `maxIds`, `MaxBacklog`, `MaxTries`
and the finite sets are all the bounds there are (`MaxBacklog` and `MaxTries` are
the code's own limits, made small).

Every module but `StudIPFs` stops when its calls are through, so those configurations do not
check for deadlock. That nobody is stuck before is what `CallsReturn`, `CallReturns`,
`CrawlReturns`, `ConsumersEnd`, `RunReturns` and `Returns` say. `StudIPFs` is checked for deadlock.

Fairness. Goroutines are scheduled by the Go runtime, and a request is answered
or fails (rclone's `fshttp` client has timeouts), so a step that stays enabled is
taken. Fairness is weak throughout:

* `Paging`: of the answered requests, so that the loop is not ended by a failure.
* `Crawl`: of each folder's goroutine. `TreeCache`: of each call. Each call takes the course's lock
  once, and Go's mutexes are fair to waiters.
* `Pipe`: of the close and of each goroutine that is in `Put` or `GetMax`; not of the
  cancellation.
* `Sync`: of the march, of `run`, of the deleters, and of the workers of each stage as a
  group, where any of them may take the step. None of deadlines and cancellations.
* `Copy`: of the file's own steps. None of the cancellation and the signal.

Nothing is assumed of other clients.

Each property of each passing run has a mutant, under `mutants` in
`PROJECT.json`: a plausible bug (a dropped guard, a wrong count, a
forgotten reset) that breaks exactly what the property guards. They stand before the
definitions they vary, as "Plausible bug".

## 4. The proofs

TLAPS proves, for every value of the constants:

| theorem | says |
|---|---|
| `NothingSkippedHolds`, `NoDuplicatesHolds` (PagingProofs) | a listing call that returns has every item listed throughout; it loads nothing twice while others only append and remove |
| `WholeHolds` (CrawlProofs) | a crawl that returns without error has filled all readable folders |
| `OneMutationHolds`, `NoFutureLabelHolds`, `LabelsGrowHolds` (TreeCacheProofs) | mutual exclusion, and the order of labels and counter |
| `TypeCorrect` (TreeCacheProofs) | every variable stays in its range, no half crawled tree is kept |
| `CoherentHolds`, `ActsOnTheCourseHolds`, `FreshAnswerHolds` (TreeCacheProofs) | the caches are the course; the handler reads the course; the undisturbed lookup answers with the course |
| `CachesAgreeHolds` (StudIPFsProofs) | between calls every tree and snapshot that counts as current is the course, node by node: each handler has entered what its requests did |
| `OneOfANameHolds` (StudIPFsProofs) | no folder of the course gets two children of a name, although the server would take a second file, nor a folder beside one of its name, until the course drifts |
| `InvHolds` (StudIPFsProofs) | the inductive invariant behind the two |
| `ImplementsHolds` (StudIPFsProofs) | `StudIPFs` implements `FileSystem`: each call does what it promises, or fails within what it may leave |
| `TrackHolds` (StudIPFsProofs) | at each request of a call, what the course has become of what it was when the call began |
| `RootResolvedHolds` (StudIPFsFaults) | an instance's root is the folder at its path, or none, whichever instance makes, moves or removes it and whatever failed halfway, until a call is `misled` |
| `OthersUntouchedHolds` (StudIPFsFaults) | a call that is not `misled` touches nothing but what it is about, whatever failed before and whatever other clients did; off its way it makes only the folder with a suffix, beside one that is there |
| `MoveKeepsFileHolds` (StudIPFsFaults) | a move that returns has left the file where it was or where it should go, whichever request failed, unless it was `misled` or the removal of the source was not confirmed |
| `UploadsWholeHolds` (StudIPFsFaults) | an upload that returns well and was not `misled` has left the file at its path, whole but where `Put` (or `Update` of an object out of date) wrote over a shorter one |
| `InPlaceHolds` (StudIPFsFaults) | what a tree that counts and the course both have is in one folder under one name, until a call is `misled` |
| `UprightHolds` (StudIPFsFaults) | the inductive invariant behind the five |
| `TypeOKHolds`, `TokenBackedHolds`, `OnePlaceHolds`, `DrainedHolds` (PipeProofs) | the total is never negative; every token finds a pair; no pair is lost or doubled; a closed pipe is emptied before its consumers end |
| `SizeOfBacklogHolds` (PipeProofs) | the total is the sum of the known sizes in the queue, however pairs come and go |
| `NoPutAfterCloseHolds` (SyncProofs) | nobody can put to the transfers' pipe once it is closed |
| `SyncedHolds` (SyncProofs) | a sync that returns nil has brought every file it is to bring (`Wanted`) and left nothing else; no error is lost on the way |
| `NothingLostHolds`, `SameKeptHolds`, `BackedHolds` (SyncProofs) | no file of the source is lost (but one older than dst's that a move with `--update` drops), nothing that is the same or to be left alone is touched, and what makes room is in the backup |
| `KeptUntilCompleteHolds` (SyncProofs) | delete-after deletes nothing before all files have arrived |
| `DirTimesHolds` (SyncProofs) | after a copy or move that returns nil, the directories it copied have the times of the source |
| `NothingLostAlways`, `DoneAlways` (CopyProofs) | a copy or move of one file keeps its content throughout, and a success means that it has arrived, or that an option lets it stay away (`Settled`) |
| `OldOrNewAlways`, `BackedAlways` (CopyProofs) | the old file stands until the new one has its name, or is in the backup |
| `TrueTimesAlways`, `NoPartialLeftAlways` (CopyProofs) | no wrong data under the right time, however the call ended; no partial file stays |

Assumptions: `LimitsAssumption`, `FoldersAssumption` (finitely many folders, each but the
root with a parent), `CallsAssumption` (calls, instances and `NewFs` are told apart; a
lookup and an rmdir are about one instance), `ValuesAssumption` (`None` is no content,
`Free` is no process, there is a folder), `PipeAssumption`, `SyncAssumption`, `ReOpenAssumption`, `CopyAssumption` and the `ConstantsAssumption` of `StudIPFs` (finite sets,
limits that are positive, scenarios of their type; of `Sync`, that the paths are a tree, which is
said by an induction over sets of paths, and that what a side has is in directories that it has;
of `Copy`, that there is a source, no leftover of an earlier call under the names that it makes up, and that a change of case is a move of one file; which backend can copy or move on the server, and between which remotes, is free;
of `StudIPFs`, that a course starts as one, `IsCourse`, with ids of at most `maxIds` and folders without a size, and that the names with suffixes are no names of files). The refinement
also needs `NamesAssumption`: no name is a folder's in one place of a scenario and a file's in another. `FileSystem` has one entry for each
path, while the code looks for files and folders apart. TLC evaluates the assumptions on each run.

*Paging.* `Inv` of `PagingProofs` has, besides `Types`: what is loaded was listed
(`Known`); the items listed throughout that are not loaded lie at or behind the offset of the next request
(`Ahead`), which is what the merge of `meta.page` must keep up; and while nothing is
inserted before the end, what is loaded and what is still ahead are different items (`Apart`).

*The crawl.* `Whole` is not inductive: it speaks of the root's result only. `Inv` of
`CrawlProofs` adds that nothing starts below a folder not listed yet
(`Untouched`), that a result is nil exactly for the filled folders (`Results`), and the
heart: a folder waits for exactly as many answers as it has goroutines not yet heard, and those it
heard were nil (`Waits`). When the count is zero, all are heard, hence filled (`Closed`).

*The cache.* `Inv == Base /\ Kept`. `Base` holds whatever fails or races: types; the
lock is held by exactly the call that is past it (`LockHeld`), each call is at the
instance its place calls for (`InPlace`), `activeMutations` counts the running ones (`ActiveCounts`),
no label leads the counter (`NoneAhead`), kept trees are whole (`WholeTrees`), and only a running
mutation has changes pending (`PendingRuns`). `Kept` is the
coherence proper, as long as nothing raced or faulted: with `Coherent` and `ActsOnTheCourse` it
needs that a fetch under way reads the course and the course stands still until it is
installed (`FetchesTheCourse`), that the lock's holder is as current as its place says
(`HolderIsCurrent`) and so is a lookup nobody disturbs (`LookupIsCurrent`). Without these a
label equal to the counter could have been put on anything.

*The pipe.* `Drained` speaks of the end only. `Inv` of `PipeProofs` adds that every pair is in one
place (`OnePlace`), that the queue has a pair for each token sent, for each received and not yet used, and
for each producer between its two steps (`Counts`), and that a consumer ends only at a cancelled pipe or
at one that is closed and without tokens (`Ends`). Then a queue left over at the end would need a token, and there is none. (The first of these is an
equation as long as nothing is cancelled.)

`SizeOfBacklog` sums over a sequence, and what the queue loses is not always the pair that it got
last. The sum is a fold, and the fold of the library picks its elements by `CHOOSE`. So the proof
shows first that the sum has a recursion over the length of the queue, by an induction over
sets of numbers (`NatInd`, which needs no operator as a parameter), then that a pair in the
middle adds its size and nothing else.

*The handlers.* Between two calls `CachesAgree` says what matters; within one the course is ahead of the
tree, and the proof must say by how much. `Inv` of `StudIPFsProofs` is `Sound` until `drifted` (`LostAtLast` is the one
state between a removal of which a move has not heard and its cleaning up, which sets
`drifted`). Its heart is `Lag`: the tree of the called instance is the course, except that an update has
removed its file, an upload or a copy has one file more, where the call says (`Leads`). `Steps` says what
a handler has found out and relies on later: that its goal is free, that its node is at its path
(`Aimed`). `Caches` says that between the requests no other tree counts as current that differs (`Shows`), and
`Roots` where the root is, except while `MakeSegment` enters folders in the tree without updating it.
`Trees` says that every tree is a course, `Course`: nodes are in folders, names are unique in them, and some
function ranks every node above its folder. Without unique names a path could lead to another node after
an append; without the ranks a folder could be below itself.

The first part of the module is what makes that usable: `GetNodeAtPath` is a fold over the names of a path, which is first shown to
be a recursion (`PathStep`), so that a path leads where its front leads and one name on; then every
edit of a tree is a lemma that says where all paths lead afterwards: `AddNode`, `Drop`, `MoveNode`, `ReIdIs`, with
`BelowIs` (the subtree of a node has exactly the paths that continue its own).

*What the calls promise.* `Implements` maps a course to the entries of its paths, and `Paths` is a recursion over
the tree from the top, while everything proved so far says where a path leads. So the third part of `StudIPFsProofs` first shows
that `Paths` is the inverse of `GetNodeAtPath` (`PathsIs`, `EntriesAre`: the
recursive function has a fixed point, and in a course just one), and then what each edit of a tree does to its entries
(`GainedEntry`, `LostEntries`, `RenewedEntries`, `MovedEntries`). `Track` says what has become of the entries at each
step of a call, besides what `Sound` knows: before its first request that changes something the course is what
it was (`Quiet`); later the tree of the instance has what was there and some of the folders on the way,
and with `Lag` so has the course, but for what the handler is in the middle of; and an upload that waits for its license has
replaced the file in full (`Replaced`, `Written`). Each action is then a step of the promise or a stutter of it (`Answer`), one lemma
for each, and `PromisedStep` puts them together. The initial states map to initial
states (`InitTrack`). A step that sets `drifted` is one of `FileSystem` that ends the promise.

*What holds whatever failed.* After `drifted` all of the above says nothing: a request failed halfway, its answer was lost, or
another client came between, and the trees are no copies of the course. Five properties hold even then, and
`StudIPFsFaults` proves them from `Upright`: until a call is `misled`, `Straight`. Four of them need no `KnownSizes`
(`RootResolved` does for what it says of the time before `drifted`).

What is left of `CachesAgree` is `Like`: where a tree that counts shows what is on the course, it
shows it as a folder or file, in the folder and under the name that it has there. The tree may lack the rest
and have more, so it is no course any more: a folder may have two of a name, a name may stand for a node that is
gone, and a node of the tree may be where on the course nothing is. It is only a `Forest`, each node in a folder
(`Good`), and even a loop would do no harm there; the course itself remains a `Wood`, graded below the top, though with no names to be
trusted (`Grown`). The first sections show of such trees what `CourseTree` shows of courses: where paths lead after an
append (`PlusGood`), a removal (`WithoutGood`), a new id (`ReIdGood`) or a move (`ShiftedGood`), without unique names.

`Like` alone would not survive a call, since a handler enters in its tree what it believes to have done. So
`Knows` says for each step what the call's node is. A call that changes a node has it at the call's path in the tree
(`Located`), an upload before its license has its file in the folder and under the name of the call (`Licensing`), a move its
copy at the goal, and with the source's size before it unlinks (`Copying`), and until a move has its answer every node of
`before` is on the course as it was (`Was`). An
id found in the tree may be gone from the course; then the request is refused and nothing is entered. What is
there is, by `Like`, in its place, and what the request does to it is what the handler enters. Each request either leaves all that stays in its
place (`Remains`) or is entered by a step that does the same to the tree; where a request fails and its effect stays,
the tree lacks it, and that is no harm to `Like` for an append and a removal. It is for a rename and a
reparenting, which is why these are among what makes a call `misled`, with rmdir and purge that go on with an
old tree, objects that are not what the tree has at their paths, and moves between two instances whose trees differ at its ends.
The attempt to prove the properties without these exceptions is how they were found.

`OthersUntouched` and `MoveKeepsFile` then speak of the paths of the course and not of ids: `Located` and `Like` put the
node that a request changes below the path that the call is about (`TrailOf`, `TrailTo`), so all other paths
keep what they lead to (`TrailsKept`, `GoesApart`). For `MoveKeepsFile`, `MoveEnds` says from which steps a move returns, and
`SourceKept` that at each of them the source stands (`Was`) or the copy is whole and at the goal (`Copying`).
`UploadsWhole` rests on `Weighed`, which adds `Sized` to `Upright`: until an upload overwrites, the course is that of its
beginning, and an `Update` of an object that is up to date overwrites only what is not shorter, since a change of size goes the other
way; so what is cut is the file of before, at its size. The folder with a suffix is in no tree: the call looks its new folder up
by name (`findDirectoryByName`), finds the one that was there before and goes on in that. So `Like` stands, and `OthersUntouched` finds
the other beside the folder that was asked for (`Again`).

The other theorems on the handlers assume `KnownSizes`: rclone knows the size of what it uploads. It is a fact about
callers and not about constants, since with a size of -1 the tree records a size that the course has not;
that is the finding `fs_unknown`, whose scenario is the only one without it.

*The sync.* `SyncProofs` has the control, which knows nothing of the two trees. `Base` has `Types`, how
many workers each stage has left (`Crew`), and `Order`: `run` is past the place where a stage was
stopped only when that stage's pipe is closed and nobody of it is left, so that whoever could still put
to the transfers comes before their close. `Control` adds what a nil rests on: errors stay, and a
context that ended has left one or is its caller's (`Contexts`); workers leave a live pipe only
closed and empty (`Drained`), and so do the deleters their channel (`Deletions`); a failed march is an
error before anything is closed (`Results`). So after a nil that is not the caller's, no error was met
(`NilIsFine`) and all pairs are through (`AllThrough`).

The five properties of the trees are conjuncts of one invariant, its `Inv`, and none is inductive
alone. `Inv` says that there is a set `V` of directories the march has listed, for which `Sane(V)` holds: a
history variable that the code does not have, and that the proof extends when `List` lists one. Each path has one of a
few stories (`Good`). The march is still ahead of it, and nothing has changed there (`Place`); or
it is on its way as one pair, which fits both sides (`Traffic`, `Fit`); or it waits for its deletion,
which only dst's own files do (`Extra`); or it is through. `Kept` says what may have
become of either side, `Copied` that a file of the source is through only by arriving, `Cleared` that an
extra one is so only by going, both as long as nothing has gone wrong (`Fine`). `Reaches` and `Sides` say that
a march without errors still gets to each directory it must list, on the sides that have it: when
it ends, the induction over the tree makes that all of them (`MarchedSource`, `MarchedDst`). `Froms`
keeps the file that a renamer has taken from the map for it alone, and `Waits` is delete-after's promise, which needs
`AllArrived` when the deletions start.

Most of the proof is that a step about one path leaves the others alone (`Others`, `OthersGood`), which
fails for one thing only: a transfer makes the directories on its way (`Stored`). Those are directories of the
source that the march has been to (`AboveListed`). Then there is one lemma per action, for its own path. TLC finds `Inv` true
in all states of the run `sync` too, with a module that extends `SyncProofs` instead of `Sync`.

`DirTimes` is about sets of directories that `Sane` does not look at, and only about copies and moves that
go well (`Simple`, which a step cannot restore: `SimpleBack`). `Timed(V)` goes with `Sane(V)` for the same `V`, and
`TimedInv` is the two together. A directory that the march has reported has its time, or is noted in `delayed` and is
going to get it (`DirTimed`): it counts as modified (`Stirred`), or one that is set just below it does. A file above which the march
has been leaves none of its directories in `srcEmpty`, and that of a file on its way to be written is already modified
(`FileTimed`). So a write, which changes the time of its directory and of those above directories it makes (`Touched`),
stirs all of them (`WriteStirs`, `WriteKeeps`); and what is stirred is `Due` when `run` sets the times, since
the recursive function in `Due` has a fixed point (`DueIs`). After that nothing writes (`WorkerLeaves`). TLC finds
`TimedInv` true as well, also with a file two directories down.

*The copy of a file.* The six promises are conjuncts of `Inv` of `CopyProofs` (`Promises`) and none is
inductive: "nil" at the end says nothing of what was stored on the way there. `Inv` follows the data.
While a stream runs, the handle believes to be where the stream is, and what was sent is the
source up to there (`Streamed`); `Handles`' lemmas (`Advances`, `Opens`, `Sought`, `Reads`) show it
for a reader that breaks, is reopened and seeks. Each chunk is at its own range, and one that is
done is no hole (`Chunked`): so a file joined of chunks that all went well is whole, and one with holes
comes only of a cancellation, which the loop of the tries sees (`Arrived`). A target that is taken for
verified has the source's content, because it was stored whole or because size or hash say so; hence `Done`. `TrueTimes` must hold
before the end as well, since the program may be ended anywhere (`Timely`). The rest is about order:
the source stands until the deletion, which only follows an equal dst (`Source`, `Found`); the
old file is at dst until the backup is made, and from then on in the backup (`Secured`); a partial file exists only
between two places of an upload (`Clear`).

`OneMutation`, `NoFutureLabel`, `OnePlace` and the `TypeOK` of `Pipe` are proved and not run.

Only model-checked: `Delivered`, `CallReturns`, `CrawlReturns`, `CallsReturn`, `ConsumersEnd`, `RunReturns` and
`Returns`. They are liveness, which is out of the prover's reach. Every invariant and action property of the passing runs
is proved, and so is the refinement.

## 5. Disagreements found

* `fs_rmdir`. `Rmdir` goes by the cached tree. When another client has uploaded into a folder
  since, the folder is removed with its content; the README and rclone's own
  test suite promise that only empty directories are. No request asks the server first.
* `fs_unknown`. A `Put` of unknown size stores -1 in the tree, on which the next
  `List` panics (`filetree.go:212-218`).
* `copy_backup`. With `--copy-dest` and `--backup-dir`, `copyDest` moves the old file to the backup
  and forgets it (`operations.go:1680-1692`). When its copy fails it says so by returning
  false, and its caller moves the old file to the backup again (`operations.go:2098-2105`): `Move` deletes what
  has the backup's name, which is the backup, and finds nothing to move.

The following are hazards and not findings, because no document promises otherwise, or because the
comment leaves the case open:

* `DirMove` compares remotes of two instances without their roots (`fs.go:1630`), so that moving a
  folder to the same relative place of another root is answered with "exists".
* `Put` overwrites in place, while `object.go:182` says that the server sometimes cuts what is written over a
  shorter file and `Update` goes round that. `StudIPFs` lets the server do so, and `UploadsWhole` says what is left.
* With `--update` a move removes a source that is older than the file at dst and of other content, which is then at neither place
  (`operations.go:1767-1770`, `2111-2116`, `sync.go:437-457`). The option asks for no less.
* With `--suffix` alone a file whose time cannot be set is removed before the upload, as `operations.go:341` looks at
  `--backup-dir` only; it has the source's content.
* `processError` takes the caller's cancellation for that of its own deadline, since `inCtx` ends with the
  caller's context (`sync.go:332`); a cancelled sync may return nil.
* A cancelled multi-thread copy in place may be left with holes and the new time, because the
  loop over the chunks ends without an error (`multithread.go:248`).
* After a soft deadline the deletions of `--delete-after` still run, although
  files were not transferred (`sync.go:977`).

## 6. What is left out

* Of the backend: URLs, JSON, multipart bodies, error texts, headers, modification times, and
  `Open`, which passes a body on. None of them touches shared state. Permissions and licenses
  as data: a missing permission is a refused request. (A folder that may
  not be read is in `Crawl`; what rmdir makes of one is in the hazard at `fs.go:1396`.)
* A root that is a file (`ErrorIsFile`, `fs.go:193-199`). `Remove`'s fallback to the relative root is unreachable
  in the model, which is `RootResolved`.
* Other clients' edits in the middle of a call, in `StudIPFs`.
* The locks of several courses: a call that would need two is refused.
* Of `sync.go`: `--ignore-times`, `--compare-dest`, `--copy-dest` (in `Copy`, for one file), `--fix-case`, the loggers, and
  `moveDir`'s attempt to move the whole directory on the server.
* Of `operations.go`, in `Copy`: `--refresh-times`, `--ignore-size`, a comparison of the caller's own (`equalFn`), source and destination
  that are one object (`SameObject`), more than one `--compare-dest` or `--copy-dest`, and two files of one name, which
  `--no-check-dest` may leave at backends that have them (here the new one takes the place of the old). The copy from `--copy-dest` and each of the two
  moves of a change of case are one step, which may fail having done what it likes at its own end.
* The order of `Children` in a tree with two of a name (section 2).
* Of `reopen.go`: `ReadAt`, which reads apart from the handle's state, and sources of unknown end.
* The rest of rclone's operations (check, dedupe, rmdirs, listings, settier, the remote control): loops
  over requests that share nothing and that no other part here waits for.
* `fstest`, the test framework, and the build.

## 7. What could come next

1. `StudIPFs`: what is left of `FileSystem`'s promise after `drifted`, as a second abstract specification.
2. `TreeCache` as the abstract specification of `StudIPFs`' caches: contents are the sets of
   children, the counter and labels are the same.
3. `Sync` with `Pipe` and `Copy` in place of its sets and its single step, or refined by them.
4. `DirTimes` of `Sync` for syncs that delete or rename, if the code came to mark the directories these change.
5. The order in which a call takes the locks of several courses (sorted and deduplicated,
   `fs.go:416-453`), should calls over two courses be allowed.
6. `NewFs` of a root that is a file; unreadable folders in `StudIPFs`; `ReOpen.ReadAt`.

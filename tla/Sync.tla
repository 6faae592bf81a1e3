-------------------------------- MODULE Sync ---------------------------------
(***************************************************************************)
(* rclone's sync, copy and move of a directory (fs/sync/sync.go).  A march *)
(* over both trees calls back for every entry.  The callbacks feed pipes,  *)
(* from which checkers, renamers and transfers take pairs; deleters take   *)
(* from a channel, during or after.  Stages are shut down one by one.      *)
(*                                                                         *)
(* A file is its content, a directory is Dir, and None is no entry.  The   *)
(* pipes are used by what Pipe shows of them: a pair that is put is got by *)
(* one worker, in any order, and a closed pipe is drained first.           *)
(***************************************************************************)
EXTENDS Integers, FiniteSets

CONSTANTS
  Paths,       \* below the root of either side
  Top,         \* the root
  Parent,      \* of a path
  Contents, Dir, None,
  Checkers, Transfers,   \* how many goroutines there are of each
  MaxBacklog,  \* --max-backlog
  Scenarios    \* options, trees and faults to start from: see ScenarioType

ScenarioType ==
  [ mode : {"off", "before", "during", "after"},  \* when extra files go
    move : BOOLEAN, deleteEmpty : BOOLEAN, copyEmpty : BOOLEAN,
    checkFirst : BOOLEAN, ordered : BOOLEAN, rename : BOOLEAN,
    immutable : BOOLEAN, ignoreErrors : BOOLEAN, backup : BOOLEAN,
    ignoreExisting : BOOLEAN,
    newer : SUBSET Paths,  \* with --update: what is newer at dst
    dirTimes : BOOLEAN,   \* times of directories are to be set
    touches : BOOLEAN,    \* a write changes the time of its directory
    cutoff : {"none", "soft", "hard"}, cancel : BOOLEAN,
    faults : SUBSET {"err", "noretry", "fatal", "graceful"}, maxFaults : Nat,
    src : [Paths -> Contents \cup {Dir, None}],
    dst : [Paths -> Contents \cup {Dir, None}] ]

ASSUME SyncAssumption ==
  /\ IsFiniteSet(Paths) /\ Top \notin Paths
  /\ Parent \in [Paths -> Paths \cup {Top}]
  /\ Dir \notin Contents /\ None \notin Contents /\ Dir # None
  /\ Checkers \in Nat \ {0} /\ Transfers \in Nat \ {0}
  /\ MaxBacklog \in Nat \ {0}
  /\ Scenarios \subseteq ScenarioType
  /\ \A o \in Scenarios :
       \* runSyncCopyMove refuses these
       /\ o.move => o.mode = "off"
       /\ o.rename => o.mode \in {"during", "after"}
  \* the paths are a tree, and what is in a directory has one on its side
  /\ \A S \in SUBSET Paths :
       (\A p \in Paths : Parent[p] \in S \cup {Top} => p \in S) => S = Paths
  /\ \A o \in Scenarios : \A p \in Paths : Parent[p] # Top =>
       /\ o.src[p] # None => o.src[Parent[p]] = Dir
       /\ o.dst[p] # None => o.dst[Parent[p]] = Dir

VARIABLES
  opt,                 \* one of Scenarios
  src, dst, backup,    \* what is stored where
  times,               \* directories of dst that have the time of the source's
  pc, pass,            \* where run is, in which pass
  jobs, todo, marchErr,            \* the march: directories to list, entries to report
  pipe, closed, stage,             \* pairs in each pipe; the goroutines that take them
  deleteCh, deleteOpen, deleters, deleteErr,
  renameCheck, renameMap, dstFiles,
  dstEmpty, srcEmpty, moveEmpty, delayed, modified,  \* directories to look at again
  errs, errored, ctx, inCtx, faults,
  result

sides == <<src, dst, backup, times>>
march == <<jobs, todo, marchErr>>
deletion == <<deleteCh, deleteOpen, deleters, deleteErr>>
files == <<renameCheck, renameMap, dstFiles>>
dirs == <<dstEmpty, srcEmpty, moveEmpty, delayed, modified>>
status == <<errs, errored, ctx, inCtx, faults>>
run == <<opt, pc, pass, result>>
vars == <<run, sides, march, pipe, closed, stage, deletion, files, dirs, status>>

-----------------------------------------------------------------------------
(* What the options come to. *)

\* newSyncCopyMove: renames are tracked by deleting after; the first pass of
\* delete-before only deletes, the second only copies.
Mode ==
  IF opt.mode = "before" THEN (IF pass = 1 THEN "only" ELSE "off")
  ELSE IF opt.rename THEN "after" ELSE opt.mode

Renaming == opt.rename /\ Mode # "only"

\* When the times of directories are set at the end.
TimesAfter == opt.dirTimes /\ (~opt.copyEmpty \/ opt.touches)

\* Plausible bug: the backlog stays bounded when all checks come first.
RoomBounded(queue) == Cardinality(queue) < MaxBacklog

\* newSyncCopyMove lifts the bound on the backlog for --check-first.
Room(queue) == opt.checkFirst \/ Cardinality(queue) < MaxBacklog

\* A move deletes a file of the source that need not be transferred.
Discards == opt.move /\ ~opt.ignoreExisting

IsFile(e) == e \in Contents
Under(d) == {p \in Paths : Parent[p] = d}
\* What a march over directory d is going to report.
Listed(d, inSrc, inDst) ==
  {p \in Under(d) : (inSrc /\ src[p] # None) \/ (inDst /\ dst[p] # None)}

\* All the directories above p.
Above[p \in Paths] ==
  {d \in Paths \cup {Top} :
     \A S \in SUBSET (Paths \cup {Top}) :
       Parent[p] \in S /\ (\A q \in S \ {Top} : Parent[q] \in S) => d \in S}

-----------------------------------------------------------------------------
(* Errors. *)

Class(e) == CASE e = "fatal" -> "fatal"
              [] e \in {"deadline", "noretry", "graceful"} -> "noretry"
              [] OTHER -> "err"

Ignored(e) == e = "nil" \/ (e = "canceled" /\ inCtx # "live")

\* processError: a fatal error cancels everything, the graceful limit only the
\* march and the pipes.  inCtx is a child of ctx.
ProcessError(e) ==
  /\ errs' = IF Ignored(e) THEN errs ELSE errs \cup {Class(e)}
  /\ ctx' = IF e = "fatal" /\ ctx = "live" THEN "canceled" ELSE ctx
  /\ inCtx' = IF e \in {"fatal", "graceful"} /\ inCtx = "live" THEN "canceled" ELSE inCtx

\* currentError is not nil.
CurrentError == errs # {}

\* How an operation may end: a fault of the scenario, or the context.
Outcomes ==
  {"nil"} \cup (IF faults > 0 THEN opt.faults ELSE {})
          \cup (IF ctx # "live" THEN {"err"} ELSE {})

\* The operation ended with e, and counted it.
Counted(e) ==
  /\ errored' = (errored \/ e # "nil")
  /\ faults' = IF e = "nil" \/ ctx # "live" THEN faults ELSE faults - 1

Ended(e) == Counted(e) /\ ProcessError(e)

\* Of everything but a transfer.
Faults == Outcomes \ {"graceful"}

-----------------------------------------------------------------------------
(* A pass starts. *)

Pipes == {"check", "rename", "upload"}
Idle(n) == [hand |-> {}, left |-> n]
Root == [dir |-> Top, inSrc |-> TRUE, inDst |-> TRUE]

\* The pairs that go through the pipes.  dst is the file that is there, none,
\* or the source itself when that is all there is to delete.  A worker holds
\* a pair until it is ready for the next pipe, a renamer with the file it
\* has taken from the map.
Pair(p, d) == [path |-> p, dst |-> d, from |-> None, ready |-> FALSE]

PairType == [path : Paths, dst : {"old", "none", "same"}, from : Paths \cup {None},
             ready : BOOLEAN]

\* run starts the checkers and renamers, the transfers unless all checks come
\* first, and the deleters of delete-during and of a pass that only deletes.
Started(o) ==
  [n \in Pipes |-> CASE n = "check" -> Idle(Checkers)
                      [] n = "rename" -> Idle(IF o.rename THEN Checkers ELSE 0)
                      [] n = "upload" -> Idle(IF o.checkFirst THEN 0 ELSE Transfers)]
DeletesFrom(o, n) ==
  \/ o.mode = "before" /\ n = 1
  \/ o.mode = "during" /\ ~o.rename

Init ==
  /\ opt \in Scenarios
  /\ src = opt.src /\ dst = opt.dst /\ backup = [p \in Paths |-> None]
  /\ times = {}
  /\ pc = "march" /\ pass = 1 /\ result = "none"
  /\ jobs = {Root} /\ todo = {} /\ marchErr = FALSE
  /\ pipe = [n \in Pipes |-> {}] /\ closed = {} /\ stage = Started(opt)
  /\ deleteCh = {} /\ deleteOpen = TRUE
  /\ deleters = Idle(IF DeletesFrom(opt, 1) THEN Checkers ELSE 0)
  /\ deleteErr = IF DeletesFrom(opt, 1) THEN "nil" ELSE "off"
  /\ renameCheck = {} /\ renameMap = {} /\ dstFiles = {}
  /\ dstEmpty = {} /\ srcEmpty = {} /\ moveEmpty = {} /\ delayed = {} /\ modified = {}
  /\ errs = {} /\ errored = FALSE /\ ctx = "live" /\ inCtx = "live"
  /\ faults = opt.maxFaults

\* The pass that only deleted returned nil: runSyncCopyMove starts the other,
\* with contexts of its own under the caller's.
SecondPass ==
  /\ pass' = 2 /\ pc' = "march" /\ jobs' = {Root} /\ todo' = {} /\ marchErr' = FALSE
  /\ pipe' = [n \in Pipes |-> {}] /\ closed' = {} /\ stage' = Started(opt)
  /\ deleteCh' = {} /\ deleteOpen' = TRUE /\ deleters' = Idle(0) /\ deleteErr' = "off"
  /\ renameCheck' = {} /\ renameMap' = {} /\ dstFiles' = {}
  /\ dstEmpty' = {} /\ srcEmpty' = {} /\ moveEmpty' = {} /\ delayed' = {}
  /\ modified' = {}
  /\ UNCHANGED <<opt, result, sides, status>>

-----------------------------------------------------------------------------
(* What the stages do to the two sides. *)

\* dst with c at p: the directories on the way come with it, and what gets
\* something new gets another time.
Made(p) == {q \in Above[p] \ {Top} : dst[q] = None}
Stored(p, c) ==
  [q \in Paths |-> IF q = p THEN c ELSE IF q \in Made(p) THEN Dir ELSE dst[q]]
Touched(p) == IF opt.touches THEN times \ {Parent[q] : q \in Made(p) \cup {p}} ELSE times

\* Plausible bug: --backup-dir is not passed on.
BackedUpNot(p) == backup

\* The backup directory after p of dst has been moved to it.
BackedUp(p) == [backup EXCEPT ![p] = dst[p]]

\* markDirModified
Modify(d) == modified' = IF TimesAfter THEN modified \cup {d} ELSE modified

\* Pipe.Put fails on a cancelled context.
CanPut(n) == inCtx = "live" /\ Room(pipe[n])
PutTo(n, x) == pipe' = [pipe EXCEPT ![n] = @ \cup {x}]

-----------------------------------------------------------------------------
(* The march, which is not this code, and its callbacks. *)

\* A directory is listed on the sides it is on; a side that fails leaves all of
\* its entries out.
List(j) ==
  /\ pc = "march" /\ inCtx = "live" /\ j \in jobs
  /\ jobs' = jobs \ {j}
  /\ \/ todo' = todo \cup Listed(j.dir, j.inSrc, j.inDst)
        /\ UNCHANGED <<marchErr, errored, faults>>
     \/ /\ faults > 0 /\ "err" \in opt.faults
        /\ marchErr' = TRUE /\ errored' = TRUE /\ faults' = faults - 1
        /\ UNCHANGED todo
  /\ UNCHANGED <<run, sides, pipe, closed, stage, deletion, files, dirs, errs, ctx, inCtx>>

\* The march is about to report p, and then lists it on the given sides.
Reports(p) == pc = "march" /\ p \in todo /\ todo' = todo \ {p}
Recurse(p, inSrc, inDst) == jobs' = jobs \cup {[dir |-> p, inSrc |-> inSrc, inDst |-> inDst]}

\* markParentNotEmpty, of a file and of a directory
NotEmpty(p) == srcEmpty' = srcEmpty \ Above[p]
MaybeEmpty(p) ==
  /\ srcEmpty' = (srcEmpty \cup {p}) \ (IF opt.copyEmpty THEN {Parent[p]} ELSE {})
  /\ moveEmpty' = IF opt.move /\ opt.deleteEmpty THEN moveEmpty \cup {p} ELSE moveEmpty

SrcOnlyFile(p) ==
  /\ Reports(p) /\ IsFile(src[p]) /\ dst[p] = None
  /\ \/ /\ Mode = "only"
        /\ UNCHANGED <<renameCheck, srcEmpty, modified, pipe>>
     \/ /\ Mode # "only" /\ Renaming /\ NotEmpty(p)
        /\ renameCheck' = IF ctx = "live" THEN renameCheck \cup {p} ELSE renameCheck
        /\ UNCHANGED <<modified, pipe>>
     \/ /\ Mode # "only" /\ ~Renaming /\ NotEmpty(p)
        /\ Modify(Parent[p])
        /\ \/ CanPut("upload") /\ PutTo("upload", Pair(p, "none"))
           \/ inCtx # "live" /\ UNCHANGED pipe
        /\ UNCHANGED renameCheck
  /\ UNCHANGED <<run, sides, jobs, marchErr, closed, stage, deletion, renameMap, dstFiles,
                 dstEmpty, moveEmpty, delayed, status>>

\* SrcOnly and copyDirMetadata: the directory is made now when empty ones are
\* to be copied, and else with its first file.
SrcOnlyDir(p) ==
  /\ Reports(p) /\ src[p] = Dir /\ dst[p] = None
  /\ \/ /\ Mode = "only"
        /\ UNCHANGED <<jobs, dirs, dst, times, status>>
     \/ /\ Mode # "only" /\ MaybeEmpty(p) /\ Modify(p) /\ Recurse(p, TRUE, FALSE)
        /\ \E e \in IF opt.copyEmpty THEN Faults ELSE {"nil"} :
             /\ Ended(e)
             /\ IF opt.copyEmpty /\ e = "nil"
                THEN /\ dst' = Stored(p, Dir)
                     /\ times' = IF opt.dirTimes THEN Touched(p) \cup {p} ELSE Touched(p)
                ELSE UNCHANGED <<dst, times>>
             /\ delayed' = IF TimesAfter /\ e = "nil" THEN delayed \cup {p} ELSE delayed
        /\ UNCHANGED dstEmpty
  /\ UNCHANGED <<run, src, backup, marchErr, pipe, closed, stage, deletion, files>>

DstOnlyFile(p) ==
  /\ Reports(p) /\ src[p] = None /\ IsFile(dst[p])
  /\ \/ Mode = "off" /\ UNCHANGED <<dstFiles, deleteCh>>
     \/ Mode = "after" /\ dstFiles' = dstFiles \cup {p} /\ UNCHANGED deleteCh
     \/ /\ Mode \in {"during", "only"}
        /\ \/ Cardinality(deleteCh) < Checkers /\ deleteCh' = deleteCh \cup {p}
           \/ ctx # "live" /\ UNCHANGED deleteCh
        /\ UNCHANGED dstFiles
  /\ UNCHANGED <<run, sides, jobs, marchErr, pipe, closed, stage, deleteOpen, deleters,
                 deleteErr, renameCheck, renameMap, dirs, status>>

DstOnlyDir(p) ==
  /\ Reports(p) /\ src[p] = None /\ dst[p] = Dir
  /\ IF Mode = "off" THEN UNCHANGED <<jobs, dstEmpty>>
     ELSE Recurse(p, FALSE, TRUE) /\ dstEmpty' = dstEmpty \cup {p}
  /\ UNCHANGED <<run, sides, marchErr, pipe, closed, stage, deletion, files, srcEmpty,
                 moveEmpty, delayed, modified, status>>

MatchFile(p) ==
  /\ Reports(p) /\ IsFile(src[p]) /\ dst[p] # None
  /\ NotEmpty(p)
  /\ \/ Mode = "only" /\ UNCHANGED <<pipe, errs, ctx, inCtx>>
     \/ /\ Mode # "only" /\ IsFile(dst[p])
        /\ \/ CanPut("check") /\ PutTo("check", Pair(p, "old"))
           \/ inCtx # "live" /\ UNCHANGED pipe
        /\ UNCHANGED <<errs, ctx, inCtx>>
     \/ /\ Mode # "only" /\ dst[p] = Dir
        /\ ProcessError("err")      \* which nobody counts
        /\ UNCHANGED pipe
  /\ UNCHANGED <<run, sides, jobs, marchErr, closed, stage, deletion, files, dstEmpty,
                 moveEmpty, delayed, modified, errored, faults>>

\* Match and copyDirMetadata: a time that differs is set at once, and again at
\* the end if a write may change it.
MatchDir(p) ==
  /\ Reports(p) /\ src[p] = Dir /\ dst[p] # None
  /\ MaybeEmpty(p)
  /\ \/ /\ dst[p] = Dir /\ Recurse(p, TRUE, TRUE)
        /\ LET equal == ~opt.dirTimes \/ p \in times
           IN \E e \in IF equal THEN {"nil"} ELSE Faults :
                /\ Ended(e)
                /\ times' = IF ~equal /\ e = "nil" THEN times \cup {p} ELSE times
                /\ delayed' = IF TimesAfter /\ e = "nil" THEN delayed \cup {p} ELSE delayed
     \/ /\ IsFile(dst[p])
        /\ ProcessError("err")
        /\ UNCHANGED <<jobs, times, delayed, errored, faults>>
  /\ UNCHANGED <<run, src, dst, backup, marchErr, pipe, closed, stage, deletion, files,
                 dstEmpty, modified>>

-----------------------------------------------------------------------------
(* The goroutines of the stages. *)

Free(n) == stage[n].left > Cardinality(stage[n].hand)
\* The worker of stage n puts new in place of x, which it holds.
Holds(n, x, new) == stage' = [stage EXCEPT ![n].hand = (@ \ {x}) \cup new]
\* The worker that holds x ends.
Leaves(n, x) ==
  stage' = [stage EXCEPT ![n] = [hand |-> @.hand \ {x}, left |-> @.left - 1]]

\* Pipe.GetMax
Get(n) ==
  /\ Free(n) /\ inCtx = "live"
  /\ \E x \in pipe[n] :
       /\ pipe' = [pipe EXCEPT ![n] = @ \ {x}]
       /\ stage' = [stage EXCEPT ![n].hand = @ \cup {x}]
  /\ UNCHANGED <<run, sides, march, closed, deletion, files, dirs, status>>

\* Plausible bug: a worker ends as soon as the pipe is closed.
GetFailsAtClose(n) ==
  /\ Free(n) /\ (inCtx # "live" \/ n \in closed)
  /\ stage' = [stage EXCEPT ![n].left = @ - 1]
  /\ UNCHANGED <<run, sides, march, pipe, closed, deletion, files, dirs, status>>

GetFails(n) ==
  /\ Free(n) /\ (inCtx # "live" \/ (n \in closed /\ pipe[n] = {}))
  /\ stage' = [stage EXCEPT ![n].left = @ - 1]
  /\ UNCHANGED <<run, sides, march, pipe, closed, deletion, files, dirs, status>>

\* A checker or a renamer passes a pair on to the transfers, or ends.
PassOn(n) ==
  /\ n \in {"check", "rename"}
  /\ \E x \in stage[n].hand :
       /\ x.ready
       /\ \/ /\ CanPut("upload") /\ Holds(n, x, {})
             /\ PutTo("upload", [x EXCEPT !.ready = FALSE])
          \/ inCtx # "live" /\ Leaves(n, x) /\ UNCHANGED pipe
  /\ UNCHANGED <<run, sides, march, closed, deletion, files, dirs, status>>

Checking(x) == x \in stage["check"].hand /\ ~x.ready
\* Plausible bug: it is enough that the file is there.
NeedTransferNew(x) == dst[x.path] = None

\* A file at dst is left alone under --ignore-existing, and under --update when it is
\* newer, although it may differ.
NeedTransfer(x) ==
  ~opt.ignoreExisting /\ x.path \notin opt.newer /\ src[x.path] # dst[x.path]

\* pairChecker, on a file that is to be transferred.
CheckDiffers(x) ==
  /\ Checking(x) /\ NeedTransfer(x)
  /\ \/ /\ opt.immutable
        /\ ProcessError("noretry") /\ errored' = TRUE
        /\ Holds("check", x, {})
        /\ UNCHANGED <<dst, backup, times, modified, faults>>
     \/ /\ ~opt.immutable /\ opt.backup /\ Modify(Parent[x.path])
        /\ \E e \in Faults :
             /\ Ended(e)
             /\ IF e = "nil"
                THEN /\ backup' = BackedUp(x.path)
                     /\ dst' = [dst EXCEPT ![x.path] = None]
                     /\ times' = Touched(x.path)
                     /\ Holds("check", x, {[x EXCEPT !.dst = "none", !.ready = TRUE]})
                ELSE Holds("check", x, {}) /\ UNCHANGED <<dst, backup, times>>
     \/ /\ ~opt.immutable /\ ~opt.backup /\ Modify(Parent[x.path])
        /\ Holds("check", x, {[x EXCEPT !.ready = TRUE]})
        /\ UNCHANGED <<dst, backup, times, status>>
  /\ UNCHANGED <<run, src, march, pipe, closed, deletion, files, dstEmpty, srcEmpty,
                 moveEmpty, delayed>>

\* pairChecker, on a file that is there already.  A move deletes the source,
\* here or, to keep to the order, in a transfer, unless --ignore-existing is set.
CheckEqual(x) ==
  /\ Checking(x) /\ ~NeedTransfer(x)
  /\ \/ /\ ~Discards /\ Holds("check", x, {})
        /\ UNCHANGED <<src, status>>
     \/ /\ Discards /\ opt.checkFirst /\ opt.ordered
        /\ Holds("check", x, {[x EXCEPT !.dst = "same", !.ready = TRUE]})
        /\ UNCHANGED <<src, status>>
     \/ /\ Discards /\ ~(opt.checkFirst /\ opt.ordered)
        /\ Holds("check", x, {})
        /\ \E e \in Faults :
             /\ Ended(e)
             /\ src' = IF e = "nil" THEN [src EXCEPT ![x.path] = None] ELSE src
  /\ UNCHANGED <<run, dst, backup, times, march, pipe, closed, deletion, files, dirs>>

\* tryRename and popRenameMap, under the lock of the map.
PopRenameMap(x) ==
  /\ x \in stage["rename"].hand /\ ~x.ready /\ x.from = None
  /\ LET matches == {q \in renameMap : dst[q] = src[x.path]}
     IN \/ \E q \in matches :
             /\ renameMap' = renameMap \ {q}
             /\ Holds("rename", x, {[x EXCEPT !.from = q]})
        \/ /\ matches = {}
           /\ Holds("rename", x, {[x EXCEPT !.ready = TRUE]})
           /\ UNCHANGED renameMap
  /\ UNCHANGED <<run, sides, march, pipe, closed, deletion, renameCheck, dstFiles, dirs,
                 status>>

\* tryRename: a file of dst gets the new name.  When it cannot, which is
\* counted as an error and not reported, the file is transferred.
Rename(x) ==
  /\ x \in stage["rename"].hand /\ ~x.ready /\ x.from # None
  /\ \E e \in Faults :
       /\ Counted(e)
       /\ IF e = "nil"
          THEN /\ dst' = [Stored(x.path, dst[x.from]) EXCEPT ![x.from] = None]
               /\ times' = IF opt.touches THEN Touched(x.path) \ {Parent[x.from]} ELSE times
               /\ dstFiles' = dstFiles \ {x.from}
               /\ Holds("rename", x, {})
          ELSE /\ Holds("rename", x, {[x EXCEPT !.from = None, !.ready = TRUE]})
               /\ UNCHANGED <<dst, times, dstFiles>>
  /\ UNCHANGED <<run, src, backup, march, pipe, closed, deletion, renameCheck, renameMap,
                 dirs, errs, ctx, inCtx>>

\* pairCopyOrMove.  A transfer that fails leaves the file at dst as it was, or
\* has removed it; a move may fail after its copy.
Transfer(x) ==
  /\ x \in stage["upload"].hand /\ x.dst # "same"
  /\ Holds("upload", x, {})
  /\ LET p == x.path
         Copied == dst' = Stored(p, src[p]) /\ times' = Touched(p)
     IN \E e \in Outcomes :
          /\ Ended(e)
          /\ \/ /\ e = "nil" /\ Copied
                /\ src' = IF opt.move THEN [src EXCEPT ![p] = None] ELSE src
             \/ /\ e # "nil" /\ UNCHANGED <<src, times>>
                /\ dst' \in {dst, [dst EXCEPT ![p] = None]}
             \/ e # "nil" /\ opt.move /\ Copied /\ UNCHANGED src
  /\ UNCHANGED <<run, backup, march, pipe, closed, deletion, files, dirs>>

\* pairCopyOrMove, of a pair that only stands for its source.
DeleteSource(x) ==
  /\ x \in stage["upload"].hand /\ x.dst = "same"
  /\ Holds("upload", x, {})
  /\ \E e \in Faults :
       /\ Ended(e)
       /\ src' = IF e = "nil" THEN [src EXCEPT ![x.path] = None] ELSE src
  /\ UNCHANGED <<run, dst, backup, times, march, pipe, closed, deletion, files, dirs>>

\* DeleteFilesWithBackupDir: a deleter takes files until the channel is closed
\* and empty, or until one fails for good.
Delete ==
  /\ deleteErr # "off" /\ deleters.left > Cardinality(deleters.hand)
  /\ \/ \E p \in deleteCh :
          /\ deleteCh' = deleteCh \ {p}
          /\ deleters' = [deleters EXCEPT !.hand = @ \cup {p}]
     \/ /\ ~deleteOpen /\ deleteCh = {}
        /\ deleters' = [deleters EXCEPT !.left = @ - 1]
        /\ UNCHANGED deleteCh
  /\ UNCHANGED <<run, sides, march, pipe, closed, stage, deleteOpen, deleteErr, files, dirs,
                 status>>

DeleteFile(p) ==
  /\ p \in deleters.hand
  /\ \E e \in Faults :
       /\ Counted(e)
       /\ deleters' = [hand |-> deleters.hand \ {p},
                       left |-> IF e = "fatal" THEN deleters.left - 1 ELSE deleters.left]
       /\ deleteErr' = IF "fatal" \in {e, deleteErr} THEN "fatal"
                       ELSE IF e = "nil" THEN deleteErr ELSE "err"
       /\ IF e = "nil"
          THEN /\ dst' = [dst EXCEPT ![p] = None] /\ times' = Touched(p)
               /\ backup' = IF opt.backup THEN BackedUp(p) ELSE backup
          ELSE UNCHANGED <<dst, times, backup>>
  /\ UNCHANGED <<run, src, march, pipe, closed, stage, deleteCh, deleteOpen, files, dirs,
                 errs, ctx, inCtx>>

\* All deleters have ended, and the error of them together is processed.
Deleted ==
  /\ deleteErr # "off" /\ deleters.left = 0
  /\ ProcessError(deleteErr)
  /\ deleteErr' = "off"
  /\ UNCHANGED <<run, sides, march, pipe, closed, stage, deleteCh, deleteOpen, deleters,
                 files, dirs, errored, faults>>

-----------------------------------------------------------------------------
(* run, which shuts the stages down in this order. *)

\* Plausible bug: files that the source has too are renamed away.
RenameSourcesAll == {p \in Paths : IsFile(dst[p])}

\* makeRenameMap, which does nothing on a cancelled context.
RenameSources == IF Renaming /\ ctx = "live" THEN dstFiles ELSE {}

\* The march is over; what it left to rename is matched with the extra files.
MarchEnds ==
  /\ pc = "march" /\ ((todo = {} /\ jobs = {}) \/ inCtx # "live")
  /\ \E e \in IF marchErr THEN {"err"} ELSE {"nil", IF inCtx = "live" THEN "nil" ELSE inCtx} :
       ProcessError(e)
  /\ renameMap' = RenameSources
  /\ jobs' = {} /\ todo' = {} /\ UNCHANGED marchErr
  /\ pc' = "renames"
  /\ UNCHANGED <<opt, pass, result, sides, pipe, closed, stage, deletion, renameCheck, dstFiles,
                 dirs, errored, faults>>

PutRename(p) ==
  /\ pc = "renames" /\ p \in renameCheck
  /\ \/ /\ CanPut("rename") /\ PutTo("rename", Pair(p, "none"))
        /\ renameCheck' = renameCheck \ {p}
     \/ inCtx # "live" /\ renameCheck' = {} /\ UNCHANGED pipe
  /\ UNCHANGED <<run, sides, march, closed, stage, deletion, renameMap, dstFiles, dirs, status>>

Over(n) == n \in closed /\ stage[n].left = 0
Goes(from, to) ==
  /\ pc = from /\ pc' = to
  /\ UNCHANGED <<opt, pass, result, sides, march, pipe, files, dirs>>

StopCheckers ==
  /\ Goes("renames", "checkers") /\ renameCheck = {}
  /\ closed' = closed \cup {"check"}
  /\ UNCHANGED <<stage, deletion, status>>

\* Plausible bug: the pipe to the transfers is closed before the renamers, who
\* put to it, have ended.
StopRenamersLate ==
  /\ Goes("checkers", "renamers") /\ Over("check")
  /\ stage' = IF opt.checkFirst THEN [stage EXCEPT !["upload"].left = Transfers] ELSE stage
  /\ closed' = closed \cup {"rename", "upload"}
  /\ UNCHANGED <<deletion, status>>

\* The checkers have ended, and with checkFirst the transfers begin.
StopRenamers ==
  /\ Goes("checkers", "renamers") /\ Over("check")
  /\ stage' = IF opt.checkFirst THEN [stage EXCEPT !["upload"].left = Transfers] ELSE stage
  /\ closed' = closed \cup {"rename"}
  /\ UNCHANGED <<deletion, status>>

StopTransfers ==
  /\ Goes("renamers", "transfers") /\ Over("rename")
  /\ closed' = closed \cup {"upload"}
  /\ UNCHANGED <<stage, deletion, status>>

StopDeleters ==
  /\ Goes("transfers", "deleters") /\ Over("upload")
  /\ deleteOpen' = FALSE
  /\ UNCHANGED <<closed, stage, deleteCh, deleters, deleteErr, status>>

\* Plausible bug: deletions go ahead after an error.
DeleteAfterAnyway ==
  /\ Goes("deleters", "deleting") /\ deleteErr = "off"
  /\ IF Mode # "after" THEN UNCHANGED <<deletion, status>>
     ELSE /\ deleters' = Idle(Checkers) /\ deleteErr' = "nil" /\ deleteOpen' = TRUE
          /\ UNCHANGED <<deleteCh, status>>
  /\ UNCHANGED <<closed, stage>>

\* deleteFiles, if there has been no error.
DeleteAfter ==
  /\ Goes("deleters", "deleting") /\ deleteErr = "off"
  /\ \/ /\ Mode # "after" \/ (CurrentError /\ ~opt.ignoreErrors)
        /\ UNCHANGED <<deletion, status>>
     \/ /\ Mode = "after" /\ (CurrentError => opt.ignoreErrors)
        /\ errored /\ ~opt.ignoreErrors
        /\ ProcessError("err") /\ UNCHANGED <<deletion, errored, faults>>
     \/ /\ Mode = "after" /\ (CurrentError \/ errored => opt.ignoreErrors)
        /\ deleters' = Idle(Checkers) /\ deleteErr' = "nil" /\ deleteOpen' = TRUE
        /\ UNCHANGED <<deleteCh, status>>
  /\ UNCHANGED <<closed, stage>>

\* The goroutine of deleteFiles feeds the deleters, until the context ends.
Feed ==
  /\ pc = "deleting" /\ deleteErr # "off" /\ deleteOpen
  /\ \/ /\ ctx = "live" /\ Cardinality(deleteCh) < Checkers
        /\ \E p \in dstFiles :
             dstFiles' = dstFiles \ {p} /\ deleteCh' = deleteCh \cup {p}
        /\ UNCHANGED deleteOpen
     \/ /\ dstFiles = {} \/ ctx # "live"
        /\ deleteOpen' = FALSE /\ UNCHANGED <<dstFiles, deleteCh>>
  /\ UNCHANGED <<run, sides, march, pipe, closed, stage, deleters, deleteErr, renameCheck,
                 renameMap, dirs, status>>

\* Plausible bug: the parents of a directory whose time is set are not set again.
DueAlone == {p \in delayed \cap modified : opt.copyEmpty \/ p \notin srcEmpty}

\* Directories whose times setDelayedDirModTimes sets, deepest first: one that
\* is set counts as a modification of its parent.
Due ==
  LET due[p \in Paths] == /\ p \in delayed
                          /\ opt.copyEmpty \/ p \notin srcEmpty
                          /\ p \in modified \/ \E q \in Under(p) : due[q]
  IN {p \in Paths : due[p]}

\* Nothing is set on a cancelled context, and nothing said of it.
SetDirTimes ==
  /\ pc = "deleting" /\ deleteErr = "off" /\ pc' = "prune"
  /\ LET due == IF ctx = "live" /\ TimesAfter THEN Due ELSE {}
     IN \E e \in Faults :
          \/ e = "nil" /\ times' = times \cup due /\ UNCHANGED status
          \/ /\ e # "nil" /\ due # {} /\ Ended(e)
             /\ \E p \in due : times' = times \cup (due \ {p})
  /\ UNCHANGED <<opt, pass, result, src, dst, backup, march, pipe, closed, stage, deletion,
                 files, dirs>>

\* What deleteEmptyDirectories removes of a tree: longest paths first, so that a
\* directory goes if all that is in it goes.
Gone(tree, empty) ==
  UNION {G \in SUBSET {p \in empty : tree[p] = Dir} :
           \A p \in G : \A q \in Under(p) : tree[q] = None \/ q \in G}
Pruned(tree, empty) == [p \in Paths |-> IF p \in Gone(tree, empty) THEN None ELSE tree[p]]

Prune ==
  /\ pc = "prune" /\ pc' = "move"
  /\ \/ /\ Mode = "off" \/ (CurrentError /\ ~opt.ignoreErrors)
        /\ UNCHANGED <<dst, times, errs, ctx, inCtx>>
     \/ /\ Mode # "off" /\ (CurrentError => opt.ignoreErrors)
        /\ IF dstEmpty # {} /\ errored /\ ~opt.ignoreErrors
           THEN ProcessError("err") /\ UNCHANGED <<dst, times>>
           ELSE /\ dst' = Pruned(dst, dstEmpty)
                /\ times' = IF opt.touches THEN times \ {Parent[p] : p \in Gone(dst, dstEmpty)}
                            ELSE times
                /\ UNCHANGED <<errs, ctx, inCtx>>
  /\ UNCHANGED <<opt, pass, result, src, backup, march, pipe, closed, stage, deletion, files,
                 dirs, errored, faults>>

\* A move deletes the directories of the source that it has emptied.
PruneSource ==
  /\ pc = "move" /\ pc' = "finish"
  /\ \/ /\ moveEmpty # {} /\ errored /\ ~opt.ignoreErrors
        /\ ProcessError("err") /\ UNCHANGED src
     \/ /\ ~errored \/ opt.ignoreErrors
        /\ src' = Pruned(src, moveEmpty) /\ UNCHANGED <<errs, ctx, inCtx>>
     \/ moveEmpty = {} /\ errored /\ UNCHANGED <<src, errs, ctx, inCtx>>
  /\ UNCHANGED <<opt, pass, result, dst, backup, times, march, pipe, closed, stage, deletion,
                 files, dirs, errored, faults>>

\* The errors of the contexts; a deadline that has passed is fatal.
FinalErrors ==
  errs \cup (IF "deadline" \in {ctx, inCtx} THEN {"noretry", "fatal"} ELSE {})

Finish ==
  /\ pc = "finish"
  /\ IF pass = 1 /\ opt.mode = "before" /\ FinalErrors = {}
     THEN SecondPass
     ELSE /\ pc' = "done"
          /\ result' = IF FinalErrors = {} THEN "nil" ELSE "error"
          /\ UNCHANGED <<opt, pass, sides, march, pipe, closed, stage, deletion, files, dirs,
                         status>>

\* --max-duration: with the soft cutoff only the march and the pipes stop.
Deadline ==
  /\ pc # "done" /\ opt.cutoff # "none" /\ inCtx = "live"
  /\ inCtx' = "deadline"
  /\ ctx' = IF opt.cutoff = "hard" THEN "deadline" ELSE ctx
  /\ UNCHANGED <<run, sides, march, pipe, closed, stage, deletion, files, dirs, errs, errored,
                 faults>>

\* The caller's context is cancelled.
Cancel ==
  /\ pc # "done" /\ opt.cancel /\ ctx = "live"
  /\ ctx' = "canceled" /\ inCtx' = IF inCtx = "live" THEN "canceled" ELSE inCtx
  /\ UNCHANGED <<run, sides, march, pipe, closed, stage, deletion, files, dirs, errs, errored,
                 faults>>

March ==
  \/ \E j \in jobs : List(j)
  \/ \E p \in todo : SrcOnlyFile(p) \/ SrcOnlyDir(p) \/ DstOnlyFile(p) \/ DstOnlyDir(p)
                     \/ MatchFile(p) \/ MatchDir(p)
Stage(n) == Get(n) \/ GetFails(n) \/ PassOn(n)
Checker == \E x \in stage["check"].hand : CheckDiffers(x) \/ CheckEqual(x)
Renamer == \E x \in stage["rename"].hand : PopRenameMap(x) \/ Rename(x)
Transferrer == \E x \in stage["upload"].hand : Transfer(x) \/ DeleteSource(x)
Deleter == Delete \/ (\E p \in deleters.hand : DeleteFile(p)) \/ Deleted
Run ==
  \/ MarchEnds \/ (\E p \in renameCheck : PutRename(p)) \/ StopCheckers \/ StopRenamers
  \/ StopTransfers \/ StopDeleters \/ DeleteAfter \/ Feed \/ SetDirTimes \/ Prune
  \/ PruneSource \/ Finish

Next ==
  \/ March \/ (\E n \in Pipes : Stage(n)) \/ Checker \/ Renamer \/ Transferrer \/ Deleter
  \/ Run \/ Deadline \/ Cancel

Spec == Init /\ [][Next]_vars
\* Every goroutine runs on: one that holds a pair does something with it, and a
\* free one takes the next.  Neither deadlines nor cancellations need happen.
FairSpec ==
  /\ Spec
  /\ WF_vars(March) /\ WF_vars(Run) /\ WF_vars(Deleter)
  /\ \A n \in Pipes : WF_vars(Stage(n))
  /\ WF_vars(Checker) /\ WF_vars(Renamer) /\ WF_vars(Transferrer)

-----------------------------------------------------------------------------
(* Properties. *)

\* The caller, and nobody else, has cancelled.
Called == ctx = "canceled" /\ errs = {}

\* What a sync is to have at p: the file of the source, but the one of dst under
\* --ignore-existing, and under --update where that is newer.
Both(o, p) == IsFile(o.src[p]) /\ IsFile(o.dst[p])
Existing(o, p) == o.ignoreExisting /\ Both(o, p)
Newer(o, p) == p \in o.newer /\ Both(o, p)
Wanted(o, p) == IF Existing(o, p) \/ Newer(o, p) THEN o.dst[p] ELSE o.src[p]

\* A sync that returns nil, and was not cancelled by its caller, has at dst what it
\* is to have there of every file of the source; a sync has nothing else there, a move
\* has left nothing but what exists under --ignore-existing (sync.go:923-1026).
Synced ==
  result = "nil" /\ ~Called =>
    /\ \A p \in Paths : IsFile(opt.src[p]) => dst[p] = Wanted(opt, p)
    /\ opt.mode # "off" => \A p \in Paths : opt.src[p] = None => dst[p] = None
    /\ opt.move => \A p \in Paths : IsFile(src[p]) => Existing(opt, p)

\* What the source held is at the source or at dst, whatever fails or is cancelled.
\* A move loses nothing, except what is older than the file at dst that --update
\* leaves alone, and that file stays (sync.go:395-458, 487-512).
NothingLost ==
  \A p \in Paths : IsFile(opt.src[p]) =>
    src[p] = opt.src[p] \/ (dst[p] = Wanted(opt, p) /\ ~Existing(opt, p))

\* With --backup-dir what dst held is at dst, under that name or one it was
\* given, or in the backup (sync.go:416-430, operations.go:550-628).
Backed ==
  opt.backup =>
    \A p \in Paths : IsFile(opt.dst[p]) =>
      \/ backup[p] = opt.dst[p] \/ \E q \in Paths : dst[q] = opt.dst[p]

\* An entry of dst that is the same at the source, or is to be left alone, keeps its
\* place through transfers, deletions, renames and the pruning of directories
\* (sync.go:395-458, 614-697, 883-914).
SameKept == \A p \in Paths : Wanted(opt, p) = opt.dst[p] => dst[p] = opt.dst[p]

\* With delete-after, nothing is deleted as long as a file of the source has
\* not arrived, except after a soft deadline (sync.go:977-984).
KeptUntilComplete ==
  Mode = "after" /\ ~opt.ignoreErrors /\ inCtx # "deadline"
  /\ (\E p \in Paths : IsFile(opt.src[p]) /\ dst[p] # Wanted(opt, p))
    => \A p \in Paths : opt.src[p] = None /\ IsFile(opt.dst[p]) =>
         \E q \in IF opt.rename THEN Paths ELSE {p} : dst[q] = opt.dst[p]

\* After a sync that returned nil and neither deleted nor renamed anything, every
\* directory it copied has the time of its source, although the writes of the
\* transfers changed it (sync.go:1106-1220).
DirTimes ==
  result = "nil" /\ ~Called /\ opt.dirTimes /\ opt.mode = "off" =>
    \A p \in Paths : opt.src[p] = Dir /\ dst[p] = Dir => p \in times

\* The pipe to the transfers is closed when nobody is left to put to it, which
\* would panic (sync.go:967-974, pipe.go:173-181).
NoPutAfterClose ==
  "upload" \in closed =>
    /\ stage["check"].left = 0 /\ stage["rename"].left = 0
    /\ todo = {} /\ renameCheck = {}

\* The sync returns: no stage waits for room in a pipe or a channel that nobody
\* will make, whatever fails and whenever it is cancelled (sync.go:178-182, 923-1026).
RunReturns == <>(pc = "done")
=============================================================================

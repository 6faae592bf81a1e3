------------------------------ MODULE StudIPFs ------------------------------
(***************************************************************************)
(* What the calls of the backend do, request by request, to the course and *)
(* to the trees its instances keep (backend/studip/fs.go, object.go).      *)
(*                                                                         *)
(* One call runs at a time: the calls that change the course hold its lock *)
(* (TreeCache).  A refresh is one step here, for the same reason.          *)
(***************************************************************************)
EXTENDS CourseTree

CONSTANTS
  Fs,          \* the instances on the course
  Root,        \* relativeRootPath of each
  Suffixed,    \* the names the server makes up for folders whose own is taken
  Scenarios    \* what the calls may be and meet, records of
               \*   dirs, paths : where calls make, remove and move folders, and files
               \*   sizes       : of uploads; -1 when rclone does not know it
               \*   starts      : the trees the course may have
               \*   faults      : how a request may fail: "refused" or "lost", its
               \*                 answer, and maxFaults, how many do
               \*   others      : what other clients of the course do: "upload", "remove"
               \*   stale       : may a caller use an object the file has outlived?
               \*   ops         : the calls considered, and maxCalls, how many
               \*   maxIds      : the last id the course gives

ASSUME ConstantsAssumption ==
  /\ \A f \in Fs : Root[f] \in Seq(STRING)
  /\ Suffixed \subseteq STRING
  /\ \A o \in Scenarios :
       /\ \A p \in o.dirs \cup o.paths : p \in Seq(STRING) /\ p # <<>>
       /\ o.dirs \cap o.paths = {} /\ {o.maxFaults, o.maxCalls, o.maxIds} \subseteq Nat
       /\ o.sizes \subseteq Int
       /\ \A t \in o.starts : IsCourse(t) /\ DOMAIN t \subseteq 1..o.maxIds
       /\ o.faults \subseteq {"refused", "lost"} /\ o.others \subseteq {"upload", "remove"}
       /\ o.stale \in BOOLEAN

\* No name is that of a folder here and of a file there.
FolderNames(o) ==
  UNION {ToSet(p) : p \in o.dirs \cup {Root[f] : f \in Fs} \cup {Front(p) : p \in o.paths}}
FileNames(o) == {Last(p) : p \in o.paths}
Named(t, o) ==
  \A i \in DOMAIN t : t[i].name \notin (IF t[i].dir THEN FileNames(o) ELSE FolderNames(o))

ASSUME NamesAssumption ==
  \A o \in Scenarios :
    /\ FolderNames(o) \cap FileNames(o) = {} /\ Suffixed \cap FileNames(o) = {}
    /\ \A t \in o.starts : Named(t, o)

VARIABLES
  opt,          \* one of Scenarios
  server,       \* the course
  next,         \* the id of the next folder or file
  counter,      \* fileTreeGenerations
  snapshot,     \* fileTreeSnapshots
  tree,         \* ft.root of each instance
  relativeRoot, \* ft.relativeRoot, None when it is nil
  label,        \* treeGeneration
  held,         \* an Object the caller has of each instance
  call,         \* the call that runs, or ran last
  calls,        \* how many there were
  faults,       \* how many requests failed
  before,       \* history: the course when no call ran
  drifted,      \* history: the course changed behind the caches
  misled        \* history: a call may go by a tree that is wrong

course == <<server, next>>
caches == <<counter, snapshot, tree, relativeRoot, label>>
ghosts == <<calls, faults, before>>
vars == <<opt, course, caches, held, call, ghosts, drifted, misled>>

NoObject == [id |-> None, at |-> <<>>, size |-> 0]

Call(op, f) ==
  [op |-> op, f |-> f, src |-> f, at |-> <<>>, to |-> <<>>, size |-> 0, id |-> None,
   new |-> None, made |-> FALSE, again |-> FALSE, dirty |-> FALSE, lost |-> FALSE,
   step |-> "ensure", result |-> "none"]

Own(f, paths) == {p \in paths : IsPrefix(Root[f], p)}
Folders(f) == Own(f, opt.dirs \cup {Root[f]})
Files(f) == Own(f, opt.paths) \ {Root[f]}

\* A path of the instance, relative to its root, and the node that
\* f.ft.relativeRoot.GetNodeAtPath finds for it.
Rest(p, f) == SubSeq(p, Len(Root[f]) + 1, Len(p))
NodeOf(t, root, f, p) == GetNodeAtPath(t, root, Rest(p, f))
Find(f, p) == NodeOf(tree[f], relativeRoot[f], f, p)

Go(step) == call' = [call EXCEPT !.step = step]
Done == call.step = "done"

-----------------------------------------------------------------------------
\* rclone opens every instance before the first call.
Init ==
  /\ opt \in Scenarios
  /\ server \in opt.starts
  /\ next = 1 + Max({Top} \cup DOMAIN server)
  /\ counter = 0
  /\ snapshot = [gen |-> 0, tree |-> server]
  /\ tree = [f \in Fs |-> server]
  /\ relativeRoot = [f \in Fs |-> GetNodeAtPath(server, Top, Root[f])]
  /\ label = [f \in Fs |-> 0]
  /\ held = [f \in Fs |-> NoObject]
  /\ call \in {[Call("none", f) EXCEPT !.step = "done", !.result = "ok"] : f \in Fs}
  /\ calls = 0 /\ faults = 0
  /\ before = server
  /\ drifted = FALSE /\ misled = FALSE

-----------------------------------------------------------------------------
(* Refreshing. *)

\* The tree a refresh installs: the snapshot if it is current, else a crawl.
Latest == IF snapshot.gen = counter THEN snapshot.tree ELSE server

\* Plausible bug: the relative root is kept over the refresh.
RefreshTreeOnly(some) ==
  /\ tree' = [f \in Fs |-> IF f \in some THEN Latest ELSE tree[f]]
  /\ label' = [f \in Fs |-> IF f \in some THEN counter ELSE label[f]]
  /\ snapshot' = IF some = {} THEN snapshot ELSE [gen |-> counter, tree |-> Latest]
  /\ UNCHANGED <<counter, relativeRoot>>

Refresh(some) ==
  /\ tree' = [f \in Fs |-> IF f \in some THEN Latest ELSE tree[f]]
  /\ relativeRoot' = [f \in Fs |-> IF f \in some THEN GetNodeAtPath(Latest, Top, Root[f])
                                   ELSE relativeRoot[f]]
  /\ label' = [f \in Fs |-> IF f \in some THEN counter ELSE label[f]]
  /\ snapshot' = IF some = {} THEN snapshot ELSE [gen |-> counter, tree |-> Latest]
  /\ UNCHANGED counter

Outdated(some) == {f \in some : label[f] # counter}

\* Only a refresh that has to crawl sends requests.
MayFail(some) ==
  /\ some # {} /\ snapshot.gen # counter
  /\ "refused" \in opt.faults /\ faults < opt.maxFaults
  /\ faults' = faults + 1

\* NewObject, and List less what it answers.  Either goes on without the
\* refresh when that fails.
NewObject(f, p) ==
  /\ Done
  /\ \/ Refresh(Outdated({f})) /\ UNCHANGED faults
     \/ MayFail(Outdated({f})) /\ UNCHANGED caches
  /\ LET id == NodeOf(tree'[f], relativeRoot'[f], f, p)
     IN held' = IF id = None \/ IsDir(tree'[f], id) THEN held
                ELSE [held EXCEPT ![f] = [id |-> id, at |-> p, size |-> tree'[f][id].size]]
  /\ UNCHANGED <<course, call, calls, before, drifted>>

-----------------------------------------------------------------------------
(* Calls that change the course begin and end. *)

\* rclone overwrites no directory with a file, and removes what is at the
\* destination before it moves a file there.
Taken(p) == LET id == GetNodeAtPath(server, Top, p) IN id # None /\ IsDir(server, id)
Put(f) == {[Call("put", f) EXCEPT !.at = p, !.size = s] :
             p \in {q \in Files(f) : ~Taken(q)}, s \in opt.sizes}
OfFolder(op, f) == {[Call(op, f) EXCEPT !.at = p] : p \in Folders(f)}
OfObject(op, f) == [Call(op, f) EXCEPT !.src = f, !.at = held[f].at, !.id = held[f].id]
Update(f) == {[OfObject("update", f) EXCEPT !.size = s] : s \in opt.sizes}

Move(f, g) == {[OfObject("move", f) EXCEPT !.f = g, !.to = p] :
                 p \in {q \in Files(g) : q = held[f].at \/ GetNodeAtPath(server, Top, q) = None}}
DirMove(f, g) == {[Call("dirmove", g) EXCEPT !.src = f, !.at = p, !.to = q] :
                    p \in Folders(f), q \in Folders(g)}

Fresh(o) ==
  /\ o.id \in DOMAIN server /\ ~server[o.id].dir /\ server[o.id].size = o.size
  /\ GetNodeAtPath(server, Top, o.at) = o.id

Invocations ==
  LET of == {f \in Fs : held[f] # NoObject /\ (opt.stale \/ Fresh(held[f]))}
  IN (UNION {Put(f) \cup OfFolder("mkdir", f) \cup OfFolder("rmdir", f)
               \cup OfFolder("purge", f) : f \in Fs})
     \cup (UNION {Update(f) \cup {OfObject("remove", f)} : f \in of})
     \cup (UNION {Move(f, g) : f \in of, g \in Fs})
     \cup (UNION {DirMove(f, g) : f, g \in Fs})

Invoke ==
  /\ Done /\ calls < opt.maxCalls /\ next <= opt.maxIds
  /\ call' \in {c \in Invocations : c.op \in opt.ops}
  /\ calls' = calls + 1
  /\ drifted' = (drifted \/ (call'.id # None /\ ~Fresh(held[call'.src])))
  /\ UNCHANGED <<course, caches, held, faults, before>>

Return(result) ==
  /\ call' = [call EXCEPT !.step = "done", !.result = result, !.id = None, !.new = None,
                          !.made = FALSE, !.again = FALSE, !.dirty = FALSE]
  /\ before' = server'

OntoItself == call.op = "dirmove" /\ Rest(call.at, call.src) = Rest(call.to, call.f)

\* Plausible bug: nobody looks whether the tree is current.
EnsureNothing ==
  /\ call.step = "ensure" /\ ~OntoItself
  /\ Refresh({})
  /\ Go("begin")
  /\ UNCHANGED <<course, held, ghosts, drifted>>

Ensure ==
  /\ call.step = "ensure" /\ ~OntoItself
  /\ Refresh(Outdated({call.f, call.src}))
  /\ Go("begin")
  /\ UNCHANGED <<course, held, ghosts, drifted>>

\* rmdir and purge log that the refresh failed, and go on.
EnsureFails ==
  /\ call.step = "ensure" /\ ~OntoItself /\ MayFail(Outdated({call.f, call.src}))
  /\ UNCHANGED <<course, caches, held, calls>>
  /\ IF call.op \in {"rmdir", "purge"} THEN Go("begin") /\ UNCHANGED before
     ELSE Return("failed")
  /\ drifted' = (drifted \/ call.op \in {"rmdir", "purge"})

\* A call that stops without having changed anything.
Stop(result) ==
  /\ UNCHANGED <<course, caches, held, calls, faults, drifted>>
  /\ Return(result)

Pass(step, id, again) ==
  /\ call' = [call EXCEPT !.step = step, !.id = id, !.again = again]
  /\ UNCHANGED <<course, caches, held, ghosts, drifted>>

-----------------------------------------------------------------------------
(* What a handler decides before its first request. *)

\* Plausible bug: a file that is there already is not overwritten.
BeginPutAnew ==
  /\ call.op = "put" /\ call.step = "begin"
  /\ Pass("parents", None, FALSE)

BeginPut ==
  LET id == Find(call.f, call.at)
  IN /\ call.op = "put" /\ call.step = "begin"
     /\ IF id # None /\ ~IsDir(tree[call.f], id) THEN Pass("overwrite", id, FALSE)
        ELSE Pass("parents", None, FALSE)

\* Mkdir of an instance's root has nothing to do if the root is there.
BeginMkdir ==
  /\ call.op = "mkdir" /\ call.step = "begin"
  /\ IF call.at = Root[call.f] /\ relativeRoot[call.f] # None THEN Stop("ok")
     ELSE Pass("parents", None, FALSE)

\* Plausible bug: a folder is taken for empty when it holds no folders.
BeginRmdirOfFiles ==
  LET id == Find(call.f, call.at)
      t == tree[call.f]
  IN /\ call.op \in {"rmdir", "purge"} /\ call.step \in {"begin", "again"}
     /\ IF id \in {None, Top} THEN Stop("failed")
        ELSE IF call.op = "purge" \/ {i \in Children(t, id) : IsDir(t, i)} = {}
             THEN Pass("rmdir", id, FALSE)
        ELSE IF call.step = "begin" THEN Pass("look", id, FALSE)
        ELSE Stop("failed")

\* rmdir goes by the tree, and looks twice before it gives up.
BeginRmdir ==
  LET id == Find(call.f, call.at)
  IN /\ call.op \in {"rmdir", "purge"} /\ call.step \in {"begin", "again"}
     /\ IF id \in {None, Top} THEN Stop("failed")
        ELSE IF call.op = "purge" \/ Children(tree[call.f], id) = {}
             THEN Pass("rmdir", id, FALSE)
        ELSE IF call.step = "begin" THEN Pass("look", id, FALSE)
        ELSE Stop("failed")

LookAgain ==
  /\ call.step = "look"
  /\ \/ Refresh({call.f}) /\ UNCHANGED faults
     \/ MayFail({call.f}) /\ UNCHANGED caches
  /\ Go("again")
  /\ UNCHANGED <<course, held, calls, before, drifted>>

\* Plausible bug: an update overwrites the file whatever its size.
BeginUpdateInPlace ==
  call.op = "update" /\ call.step = "begin" /\ Pass("overwrite", call.id, FALSE)

\* A file whose size changes is not overwritten but replaced.
BeginUpdate ==
  LET old == held[call.f].size
  IN /\ call.op = "update" /\ call.step = "begin"
     /\ IF call.size >= 0 /\ old >= 0 /\ call.size # old THEN Pass("parents", call.id, TRUE)
        ELSE Pass("overwrite", call.id, FALSE)

BeginRemove ==
  /\ call.op = "remove" /\ call.step = "begin"
  /\ Pass("unlink", call.id, FALSE)

BeginMove ==
  LET id == GetNodeAtPath(tree[call.src], Top, call.at)
  IN /\ call.op = "move" /\ call.step = "begin"
     /\ IF call.at # call.to /\ (id = None \/ IsDir(tree[call.src], id)) THEN Stop("failed")
        ELSE Pass("stat", call.id, FALSE)

\* Before it takes the lock DirMove compares the two remotes, not the paths.
DirMoveOntoItself ==
  /\ call.step = "ensure" /\ OntoItself
  /\ Stop("exists")

BeginDirMove ==
  LET id == GetNodeAtPath(tree[call.src], Top, call.at)
  IN /\ call.op = "dirmove" /\ call.step = "begin"
     /\ IF GetNodeAtPath(tree[call.src], Top, call.to) # None THEN Stop("exists")
        ELSE IF id \in {None, Top} \/ ~IsDir(tree[call.src], id) THEN Stop("failed")
        ELSE Pass("parents", id, FALSE)

-----------------------------------------------------------------------------
(* The requests, and the course once the pending one is answered: no course *)
(* if the server refuses it.                                               *)

Goal == IF call.op \in {"move", "dirmove"} THEN call.to ELSE call.at
ParentPath == Front(Goal)
NodeAt(p) == GetNodeAtPath(tree[call.f], Top, p)

\* The first folder on the way to the parent that the tree does not have.
Segment ==
  LET missing == {n \in 1..Len(ParentPath) : NodeAt(SubSeq(ParentPath, 1, n)) = None}
  IN IF missing = {} THEN <<>> ELSE SubSeq(ParentPath, 1, Min(missing))

\* "If the Directory already exists, studip will create a Directory with a suffix".
MkDir(p) ==
  LET up == NodeAt(Front(p))
      free(name) == Child(server, up, name) = None
      names == IF free(Last(p)) THEN {Last(p)} ELSE {name \in Suffixed : free(name)}
  IN IF IsDir(server, up) THEN {With(server, next, Folder(up, name)) : name \in names} ELSE {}

\* The size the server stores of an upload.
Stored == IF call.size >= 0 THEN {call.size} ELSE {s \in opt.sizes : s >= 0}

CreateFileContent(p) ==
  LET up == NodeAt(Front(p))
  IN IF IsDir(server, up) THEN {With(server, next, File(up, Last(p), s)) : s \in Stored} ELSE {}

\* The requests about a file or folder that exists.  An overwrite may keep the
\* file's id or give it another; what is longer than the file may be cut to the
\* size that the file has (object.go:182).
UpdateFileContent(id) ==
  {ReId(server, id, new, s) :
     new \in {id, next}, s \in Stored \cup ({server[id].size} \cap 0..(call.size - 1))}
UpdateFileRef(id) == {[server EXCEPT ![id].name = Last(call.to)]}
CreateFileRefByReference(id) ==
  LET up == NodeAt(ParentPath)
  IN IF IsDir(server, up) THEN {With(server, next, File(up, Last(call.to), server[id].size))}
     ELSE {}
DeleteFolder(id) == {Without(server, Subtree(server, id))}
GetFileRef == {server}
SetTermsOfUse == {server}

\* A folder does not go below itself.
UpdateFolder(id) ==
  {[server EXCEPT ![id].parent = up, ![id].name = Last(call.to)] :
     up \in {u \in {NodeAt(ParentPath)} : IsDir(server, u) /\ u \notin Subtree(server, id)}}

\* That the file is gone already is no error.
DeleteFile(id) == {Without(server, {id})}

Outcomes ==
  LET id == call.id
      If(there, outcomes) == IF there THEN outcomes ELSE {}
      exists == id \in DOMAIN server
  IN CASE call.step = "parents" -> MkDir(Segment)
       [] call.step = "mkdir" -> MkDir(call.at)
       [] call.step = "create" -> CreateFileContent(call.at)
       [] call.step = "copy" -> If(exists, CreateFileRefByReference(id))
       [] call.step = "stat" -> If(exists, GetFileRef)
       [] call.step = "license" -> If(exists, SetTermsOfUse)
       [] call.step = "overwrite" -> If(exists, UpdateFileContent(id))
       [] call.step = "rename" -> If(exists, UpdateFileRef(id))
       [] call.step = "reparent" -> If(exists, UpdateFolder(id))
       [] call.step = "rmdir" -> If(exists, DeleteFolder(id))
       [] call.step = "unlink" -> DeleteFile(id)
       [] call.step = "cleanup" -> DeleteFile(call.new)

Requesting ==
  /\ call.step \notin {"ensure", "begin", "look", "again", "done"}
  /\ call.step = "parents" => Segment # <<>>
  /\ call.step = "mkdir" => NodeAt(call.at) = None

Serve ==
  /\ server' \in Outcomes
  /\ next' = IF next \in DOMAIN server' THEN next + 1 ELSE next

Answered(step) == call.step = step /\ Requesting /\ Serve /\ UNCHANGED <<calls, faults>>

\* The server refuses, or cannot be reached, or does what it was asked and the
\* answer is lost.  Move then removes the copy it has made; no other call
\* cleans up.
RequestFails ==
  /\ Requesting
  /\ \/ Outcomes = {} /\ UNCHANGED <<course, faults>>
     \/ /\ faults < opt.maxFaults /\ faults' = faults + 1
        /\ \/ "refused" \in opt.faults /\ UNCHANGED course
           \/ "lost" \in opt.faults /\ Serve
  /\ LET lost == call.lost \/ server' # server
     IN IF call.op = "move" /\ call.step = "unlink"
        THEN /\ call' = [call EXCEPT !.step = "cleanup", !.lost = lost]
             /\ UNCHANGED <<before, drifted>>
        ELSE /\ call' = [call EXCEPT !.step = "done", !.result = "failed", !.id = None,
                            !.new = None, !.made = FALSE, !.again = FALSE,
                            !.dirty = FALSE, !.lost = lost]
             /\ before' = server'
             /\ drifted' = (drifted \/ call.dirty \/ lost)
  /\ UNCHANGED <<caches, held, calls>>

-----------------------------------------------------------------------------
(* What a handler does with an answer. *)

\* bumpTreeGenerationAndMarkCurrent, with the tree it marks.
Commit(t, root) ==
  /\ tree' = [tree EXCEPT ![call.f] = t]
  /\ relativeRoot' = [relativeRoot EXCEPT ![call.f] = root]
  /\ counter' = counter + 1
  /\ label' = [label EXCEPT ![call.f] = counter + 1]
  /\ snapshot' = [gen |-> counter + 1, tree |-> t]

\* Every tree is out of date, this one included.
Forget ==
  /\ counter' = counter + 1
  /\ UNCHANGED <<snapshot, tree, relativeRoot, label>>

updateRelativeRootFromTree(t) ==
  LET root == relativeRoot[call.f]
  IN IF root # None THEN root ELSE GetNodeAtPath(t, Top, Root[call.f])

\* A folder just made, as a listing of its parent shows it.
WithFolder(p) ==
  LET id == Child(server', NodeAt(Front(p)), Last(p))
  IN With(tree[call.f], id, server'[id])

\* The node of the call's path, as the upload has left the file.
WithUpload(id) ==
  LET t == tree[call.f]
      node == Find(call.f, call.at)
  IN IF node = None \/ IsDir(t, node) THEN t ELSE ReId(t, node, id, call.size)

MakeSegment ==
  /\ Answered("parents")
  /\ tree' = [tree EXCEPT ![call.f] = WithFolder(Segment)]
  /\ call' = [call EXCEPT !.made = TRUE, !.dirty = TRUE]
  /\ UNCHANGED <<counter, snapshot, relativeRoot, label, held, before, drifted>>

AfterParents ==
  CASE call.op = "put" -> "create" [] call.op = "update" -> "unlink"
    [] call.op = "mkdir" -> "mkdir" [] call.op = "move" -> "copy"
    [] call.op = "dirmove" -> "reparent"

\* Plausible bug: the folders made are in no other instance's tree.
ParentsMadeUnsaid ==
  LET t == tree[call.f]
  IN /\ call.step = "parents" /\ Segment = <<>>
     /\ relativeRoot' = [relativeRoot EXCEPT ![call.f] = updateRelativeRootFromTree(t)]
     /\ call' = [call EXCEPT !.made = FALSE, !.dirty = FALSE, !.step = AfterParents]
     /\ UNCHANGED <<course, counter, snapshot, tree, label, held, ghosts, drifted>>

ParentsMade ==
  LET t == tree[call.f]
      root == updateRelativeRootFromTree(t)
  IN /\ call.step = "parents" /\ Segment = <<>>
     /\ IF call.made THEN Commit(t, root)
        ELSE /\ relativeRoot' = [relativeRoot EXCEPT ![call.f] = root]
             /\ UNCHANGED <<counter, snapshot, tree, label>>
     /\ call' = [call EXCEPT !.made = FALSE, !.dirty = FALSE, !.step = AfterParents]
     /\ UNCHANGED <<course, held, ghosts, drifted>>

\* Mkdir has made the parents; the folder may be there already.
AlreadyThere ==
  /\ call.step = "mkdir" /\ NodeAt(call.at) # None
  /\ Stop("ok")

MadeDir ==
  /\ Answered("mkdir")
  /\ LET t == WithFolder(call.at) IN Commit(t, updateRelativeRootFromTree(t))
  /\ Return("ok")
  /\ UNCHANGED <<held, drifted>>

RemovedDir ==
  LET t == tree[call.f]
      root == relativeRoot[call.f]
  IN /\ Answered("rmdir")
     /\ Commit(Without(t, Subtree(t, call.id)), IF root = call.id THEN None ELSE root)
     /\ Return("ok")
     /\ UNCHANGED <<held, drifted>>

\* The object passed to Update takes over the new id and size.
Hold(id) ==
  held' = IF call.op = "update" THEN [held EXCEPT ![call.f].id = id, ![call.f].size = call.size]
          ELSE held

Created ==
  /\ Answered("create")
  /\ IF call.op = "put" THEN UNCHANGED caches
     ELSE Commit(WithUpload(next), relativeRoot[call.f])
  /\ Hold(next)
  /\ call' = [call EXCEPT !.id = next, !.dirty = call.op = "put", !.step = "license"]
  /\ UNCHANGED <<before, drifted>>

Overwrote ==
  /\ Answered("overwrite")
  /\ LET id == IF call.id \in DOMAIN server' THEN call.id ELSE next
     IN /\ Commit(WithUpload(id), relativeRoot[call.f])
        /\ Hold(id)
        /\ call' = [call EXCEPT !.id = id, !.step = "license"]
        /\ drifted' = (drifted \/ server'[id].size < call.size)
  /\ UNCHANGED before

\* Put enters a new file in the tree only when its license is set.
EnterFile ==
  LET t == tree[call.f]
      up == NodeAt(ParentPath)
      node == Child(t, up, Last(call.at))
  IN /\ call.dirty /\ Answered("license")
     /\ Commit(IF node # None /\ ~IsDir(t, node) THEN ReId(t, node, call.id, call.size)
               ELSE With(t, call.id, File(up, Last(call.at), call.size)),
               relativeRoot[call.f])
     /\ Return("ok")
     /\ UNCHANGED <<held, drifted>>

\* Update has replaced the file, and goes over tree and license once more.
LicenseAgain ==
  /\ call.again /\ Answered("license")
  /\ Commit(WithUpload(call.id), relativeRoot[call.f])
  /\ call' = [call EXCEPT !.again = FALSE]
  /\ UNCHANGED <<held, before, drifted>>

Licensed ==
  /\ ~call.dirty /\ ~call.again /\ Answered("license")
  /\ Return("ok")
  /\ UNCHANGED <<caches, held, drifted>>

\* Plausible bug: the folders are compared as the instances name them.
SeenByName ==
  LET folder(p, f) == Front(Rest(p, f))
  IN /\ Answered("stat")
     /\ IF call.at = call.to THEN Return("ok")
        ELSE /\ Go(IF folder(call.at, call.src) = folder(call.to, call.f)
                   THEN "rename" ELSE "parents")
             /\ UNCHANGED before
     /\ UNCHANGED <<caches, held, drifted>>

\* A move that keeps the folder renames the file; any other copies it by
\* reference and removes the old one.
Seen ==
  /\ Answered("stat")
  /\ IF call.at = call.to THEN Return("ok")
     ELSE /\ Go(IF Front(call.at) = Front(call.to) THEN "rename" ELSE "parents")
          /\ UNCHANGED before
  /\ UNCHANGED <<caches, held, drifted>>

Copied ==
  /\ Answered("copy")
  /\ call' = [call EXCEPT !.new = next, !.dirty = TRUE, !.step = "unlink"]
  /\ UNCHANGED <<caches, held, before, drifted>>

\* Only a file takes over what the answer says of it.
moveNodeInTree(newId) ==
  LET t == tree[call.f]
      id == GetNodeAtPath(t, Top, call.at)
      up == NodeAt(ParentPath)
      new == IF IsDir(t, id) THEN id ELSE newId
      moved == [(IF IsDir(t, id) THEN t ELSE ReId(t, id, newId, server'[newId].size))
                  EXCEPT ![new].parent = up, ![new].name = Last(call.to)]
  IN IF id = None \/ ~IsDir(t, up) THEN Forget
     ELSE Commit(moved, updateRelativeRootFromTree(moved))

Moved ==
  /\ \/ Answered("rename") /\ moveNodeInTree(call.id)
     \/ Answered("reparent") /\ moveNodeInTree(call.id)
     \/ call.op = "move" /\ Answered("unlink") /\ moveNodeInTree(call.new)
  /\ Return("ok")
  /\ UNCHANGED <<held, drifted>>

CleanedUp ==
  /\ Answered("cleanup")
  /\ Return("failed")
  /\ drifted' = (drifted \/ call.lost)
  /\ UNCHANGED <<caches, held>>

\* Update removes the file it will create anew.
Unlinked ==
  /\ call.op = "update" /\ Answered("unlink")
  /\ call' = [call EXCEPT !.dirty = server' # server, !.step = "create"]
  /\ UNCHANGED <<caches, held, before, drifted>>

\* The node at the path goes, whatever its id.
Removed ==
  LET t == tree[call.f]
      id == NodeAt(call.at)
  IN /\ call.op = "remove" /\ Answered("unlink")
     /\ IF id = None THEN Forget ELSE Commit(Without(t, {id}), relativeRoot[call.f])
     /\ Return("ok")
     /\ UNCHANGED <<held, drifted>>

-----------------------------------------------------------------------------
(* Other clients, in between two calls. *)

OtherUploads(p, size) ==
  LET up == GetNodeAtPath(server, Top, Front(p))
  IN /\ "upload" \in opt.others /\ Done /\ next <= opt.maxIds
     /\ IsDir(server, up) /\ Child(server, up, Last(p)) = None
     /\ server' = With(server, next, File(up, Last(p), size))
     /\ next' = next + 1

OtherRemoves(p) ==
  LET id == GetNodeAtPath(server, Top, p)
  IN /\ "remove" \in opt.others /\ Done /\ id \in DOMAIN server
     /\ server' = Without(server, Subtree(server, id))
     /\ UNCHANGED next

OtherClient ==
  /\ \/ \E p \in opt.paths, s \in opt.sizes : s >= 0 /\ OtherUploads(p, s)
     \/ \E p \in opt.paths \cup opt.dirs : OtherRemoves(p)
  /\ before' = server' /\ drifted' = TRUE
  /\ UNCHANGED <<caches, held, call, calls, faults>>

Handler ==
  \/ BeginPut \/ BeginMkdir \/ BeginRmdir \/ LookAgain \/ BeginUpdate \/ BeginRemove
  \/ BeginMove \/ BeginDirMove \/ DirMoveOntoItself
  \/ MakeSegment \/ ParentsMade \/ AlreadyThere \/ MadeDir \/ RemovedDir
  \/ Created \/ Overwrote \/ EnterFile \/ LicenseAgain \/ Licensed
  \/ Seen \/ Copied \/ Moved \/ CleanedUp \/ Unlinked \/ Removed

\* What a call goes by need not be so when rmdir or purge goes on with an old tree;
\* when a file or folder is moved and the answer lost; when an object is not what
\* the tree has at its path; when two instances, one of which has made folders
\* for a call that failed, have different trees of where a move starts or ends.
Misleads ==
  \/ call.step = "ensure" /\ call'.step = "begin" /\ faults' # faults
  \/ call.step \in {"rename", "reparent"} /\ call'.result = "failed" /\ server' # server
  \/ /\ call.step = "begin"
     /\ \/ call.id # None /\ GetNodeAtPath(tree[call.src], Top, call.at) # call.id
        \/ \E p \in {call.at, call.to} :
             GetNodeAtPath(tree[call.f], Top, p) # GetNodeAtPath(tree[call.src], Top, p)

Next ==
  /\ UNCHANGED opt
  /\ \/ \E f \in Fs : \E p \in Files(f) : NewObject(f, p)
     \/ Invoke \/ Ensure \/ EnsureFails \/ Handler \/ RequestFails \/ OtherClient
  /\ misled' = (misled \/ Misleads)

Spec == Init /\ [][Next]_vars
-----------------------------------------------------------------------------
(* Properties. *)

\* Between two calls, each tree that counts as current is the course, node by
\* node, and so is the snapshot.  It takes every handler to enter in the tree
\* exactly what its requests did (fs.go:269-382, 506-549, 911-1082, 1417-1430,
\* object.go:203-285, 399-433).
CachesAgree ==
  Done /\ ~drifted =>
    /\ \A f \in Fs : label[f] = counter => tree[f] = server
    /\ snapshot.gen = counter => snapshot.tree = server

\* An instance has no root but the folder at its root's path, and has that if
\* it counts as current: the folder may be made, removed and moved by calls of
\* every instance (fs.go:361-370, 1304-1338, 1419-1421).  The former is so after
\* calls that failed halfway, too, until one is misled.
RootResolved ==
  \A f \in Fs :
    /\ ~misled => relativeRoot[f] \in {None, GetNodeAtPath(tree[f], Top, Root[f])}
    /\ Done /\ ~drifted /\ label[f] = counter =>
         relativeRoot[f] = GetNodeAtPath(server, Top, Root[f])

\* Whatever failed, and whatever others did: a tree that counts as current may
\* lack what the course has, and have what it has not, but what both have is in
\* one folder under one name.  So no call by path takes one thing for another
\* (fs.go:337-382, 506-549, 1195-1217, object.go:385-433).
InPlace ==
  ~misled =>
    \A t \in {tree[f] : f \in {g \in Fs : label[g] = counter}}
            \cup (IF snapshot.gen = counter THEN {snapshot.tree} ELSE {}) :
      \A i \in DOMAIN t \cap DOMAIN server :
        t[i].dir = server[i].dir /\ t[i].parent = server[i].parent /\ t[i].name = server[i].name

\* No folder gets two children of one name.  Nothing says that the server would
\* refuse a second file; it is the trees that keep the calls from making one
\* (fs.go:798-856, 1038-1044, 1196-1210).  A folder would get another name, which
\* Implements does not allow.
OneOfAName ==
  ~drifted => \A i, j \in DOMAIN server :
    server[i].parent = server[j].parent /\ server[i].name = server[j].name => i = j

\* A move that returns leaves the file where it was or where it should go,
\* whatever request failed, of this call and of earlier ones, and whatever others
\* did, unless the server did what it failed to confirm (fs.go:1581-1604).
MoveKeepsFile ==
  [][call.op = "move" /\ ~Done /\ Done' /\ ~misled /\ ~call'.lost =>
       \A e \in Entries(before) : e.at = call.at =>
         e \in Entries(server') \/ [e EXCEPT !.at = call.to] \in Entries(server')]_vars

\* The course has the folder that is asked for, which leads to the goal.
Again(node) ==
  \E i \in DOMAIN server :
    server[i].dir /\ server[i].parent = node.parent /\ IsPrefix(Paths(server)[i], Goal)

\* A call changes and removes on the course only what is at its path or below,
\* and makes only what leads to its goal, also when earlier calls failed halfway,
\* or did what they failed to confirm, and others have edited the course
\* (fs.go:102-137, 1365-1428, object.go:246): no call of one path reaches
\* another, except one that was misled.  Off its way there is only the folder that
\* the server makes beside one it has already (requests.go:18).
OthersUntouched ==
  [][~Done /\ ~misled =>
       /\ \A i \in DOMAIN server :
            \/ i \in DOMAIN server' /\ server'[i] = server[i]
            \/ i = call.new \/ IsPrefix(call.at, Paths(server)[i])
       /\ \A i \in DOMAIN server' \ DOMAIN server :
            \/ IsPrefix(Paths(server')[i], Goal)
            \/ server'[i].dir /\ Again(server'[i])]_vars

\* "Remove ... empty directories": rmdir removes no folder that holds something.
RmdirOnlyEmpty ==
  [][call.op = "rmdir" /\ call.step = "rmdir" /\ call'.result = "ok" =>
       Children(server, call.id) = {}]_vars

\* The size of a file in a tree is known: List asserts it (filetree.go:212-218).
SizesKnown ==
  \A f \in Fs : \A i \in DOMAIN tree[f] : tree[f][i].dir \/ tree[f][i].size >= 0

\* An upload that returns has left its file at its path, whoever removed or added
\* files since the tree was read and whichever calls failed before: in full when
\* the file is new there or has been replaced, and after an Update whatever was
\* there, as long as the object is up to date.  Only where Put overwrites a shorter file
\* may the content be cut, to the size of that file: "sometimes a file update get's
\* truncated to it's size instead of updating the size", which Update goes round and
\* Put does not (object.go:182-197, fs.go:798-898).
UploadsWhole ==
  [][call.op \in {"put", "update"} /\ ~Done /\ ~misled /\ call'.result = "ok" =>
       \E e \in Entries(server') :
         /\ e.at = call.at /\ ~e.dir
         /\ \/ call.size < 0 \/ e.size = call.size
            \/ /\ call.op = "put" \/ opt.stale
               /\ e \in Entries(before) /\ e.size < call.size]_vars

AllPaths ==
  (UNION {o.dirs \cup o.paths : o \in Scenarios}) \cup {Root[f] : f \in Fs} \cup {<<>>}

\* The calls do what the backend promises: FileSystem.
Promised == INSTANCE FileSystem WITH
  Calls <- [op : UNION {o.ops : o \in Scenarios}, at : AllPaths, to : AllPaths,
            size : (UNION {o.sizes : o \in Scenarios}) \cup {0}],
  entries <- Entries(before),
  call <- [op |-> call.op, at |-> call.at, to |-> call.to, size |-> call.size],
  result <- call.result,
  sound <- ~drifted
Implements == Promised!Spec
=============================================================================

------------------------------ MODULE TreeCache ------------------------------
(***************************************************************************)
(* How the Fs instances of one course share what they know of it           *)
(* (backend/studip/fs.go).  Each instance caches the course's tree under   *)
(* the generation it stands for; one counter, one published snapshot and   *)
(* one mutation lock per course are shared by all.  A call that changes    *)
(* the course holds the lock; List, NewObject and NewFs refresh the cache  *)
(* without it.                                                             *)
(*                                                                         *)
(* A tree gives each folder its contents.  Which request a call sends and  *)
(* what it does to the contents is left open here.                         *)
(***************************************************************************)
EXTENDS Integers

CONSTANTS
  Fs,           \* the instances on the course
  Opened,       \* those open from the start; NewFs runs for the others
  Mutations,    \* calls of Put, Update, Remove, Mkdir, Rmdir, Purge, Move, DirMove
  Rmdirs,       \* those that are Rmdir or Purge
  Lookups,      \* calls of List and NewObject
  Src, Dst,     \* the instances a call is about (they differ in a move only)
  Folders,      \* the folders of the course
  Contents,     \* what a folder may hold
  None,         \* a folder not read, or not changed
  Free,         \* nobody holds the lock
  MaxRequests   \* requests and loops of one mutation

Calls == Mutations \cup Lookups
Procs == Calls \cup (Fs \ Opened)

ASSUME CallsAssumption ==
  /\ Opened \subseteq Fs /\ Rmdirs \subseteq Mutations
  /\ Mutations \cap Lookups = {} /\ Calls \cap Fs = {}
  /\ Src \in [Calls -> Fs] /\ Dst \in [Calls -> Fs]
  /\ \A c \in Lookups \cup Rmdirs : Src[c] = Dst[c]

ASSUME ValuesAssumption ==
  /\ None \notin Contents /\ Free \notin Procs
  /\ Folders # {} /\ MaxRequests \in Nat

Trees == [Folders -> Contents]
PartTrees == [Folders -> Contents \cup {None}]
Blank == [k \in Folders |-> None]
Nothing == [gen |-> 0, tree |-> Blank]
Overlay(d, t) == [k \in Folders |-> IF d[k] = None THEN t[k] ELSE d[k]]

VARIABLES
  server,     \* the course
  counter,    \* fileTreeGenerations
  snapshot,   \* fileTreeSnapshots; a Blank tree stands for none
  lock,       \* fileTreeMutationLocks: who holds it
  tree,       \* ft.root of each instance; Blank until it is open
  label,      \* treeGeneration and treeRefreshGeneration, always set together
  active,     \* activeMutations
  mu,         \* who holds the write lock over more than one step
  pc,         \* where each call is
  at,         \* the instance it refreshes
  seen,       \* a generation it loaded from the counter
  loaded,     \* the snapshot it loaded
  root,       \* the tree it clones or crawls
  delta,      \* what a mutation changed on the server but not in the tree
  made,       \* createdAny
  ref,        \* does its node pointer reach the current tree
  left,       \* requests and loops it may still do
  raced,      \* history: an unlocked refresh overlapped a mutation
  faulted,    \* history: a failure left caches behind the server
  undisturbed \* history: no mutation ran, and no refresh failed, in this lookup

shared == <<server, counter, snapshot, lock>>
caches == <<tree, label, active, mu>>
locals == <<at, seen, loaded, root, delta, made, ref, left>>
history == <<raced, faulted, undisturbed>>
vars == <<shared, caches, pc, locals, history>>

Goto(c, l) == pc' = [pc EXCEPT ![c] = l]
Set(v, c, x) == [v EXCEPT ![c] = x]
Opens == Fs \ Opened
Open(f) == f \in Opens => pc[f] = "done"

\* Refreshing without the mutation lock, from the fetch to the new label.
Refreshing == {"load", "match", "crawl", "install", "stamp", "publish", "label"}
Reader == Lookups \cup Opens
ReaderRefreshing == \E c \in Reader : pc[c] \in Refreshing

\* Some mutation is between its beginMutation and its endMutation.
MutationRunning == \E f \in Fs : active[f] # 0
Running == {"run", "make", "record"}

-----------------------------------------------------------------------------
Init ==
  /\ server \in Trees
  /\ counter = 0
  /\ snapshot = [gen |-> 0, tree |-> IF Opened = {} THEN Blank ELSE server]
  /\ lock = Free
  /\ tree = [f \in Fs |-> IF f \in Opened THEN server ELSE Blank]
  /\ label = [f \in Fs |-> 0]
  /\ active = [f \in Fs |-> 0]
  /\ mu = [f \in Fs |-> Free]
  /\ pc = [c \in Procs |-> "start"]
  /\ at = [c \in Procs |-> IF c \in Calls THEN Src[c] ELSE c]
  /\ seen = [c \in Procs |-> 0]
  /\ loaded = [c \in Procs |-> Nothing]
  /\ root = [c \in Procs |-> Blank]
  /\ delta = [m \in Mutations |-> Blank]
  /\ made = [m \in Mutations |-> FALSE]
  /\ ref = [m \in Mutations |-> "none"]
  /\ left = [m \in Mutations |-> MaxRequests]
  /\ raced = FALSE /\ faulted = FALSE
  /\ undisturbed = [l \in Lookups |-> FALSE]

-----------------------------------------------------------------------------
(* fileTreeNeedsRefresh and refreshFileTree, for any call. *)

\* The instance at[c] is as current as it gets: ensureCurrentFileTree returns.
\* A move then turns to its destination; rmdir may come here a second time.
Ensured(c) ==
  /\ at' = Set(at, c, IF c \in Mutations THEN Dst[c] ELSE at[c])
  /\ Goto(c, IF c \in Lookups THEN "answer"
             ELSE IF active[at[c]] # 0 THEN "run"
             ELSE IF at[c] = Dst[c] THEN "begin" ELSE "check")

\* No refresh while a mutation runs on the instance.
Check(c) ==
  /\ c \in Calls /\ pc[c] = "check"
  /\ \/ active[at[c]] # 0 /\ Ensured(c)
     \/ active[at[c]] = 0 /\ Goto(c, "count") /\ UNCHANGED at
  /\ UNCHANGED <<shared, caches, seen, loaded, root, delta, made, ref, left, history>>

\* Else the counter is loaded, by when one may have begun.
Count(c) ==
  /\ pc[c] = "count"
  /\ seen' = Set(seen, c, counter)
  /\ Goto(c, "compare")
  /\ UNCHANGED <<shared, caches, at, loaded, root, delta, made, ref, left, history>>

Compare(c) ==
  /\ c \in Calls /\ pc[c] = "compare" /\ mu[at[c]] = Free
  /\ \/ /\ label[at[c]] = seen[c]
        /\ Ensured(c) /\ UNCHANGED raced
     \/ /\ label[at[c]] # seen[c]
        /\ Goto(c, "load") /\ UNCHANGED at
        /\ raced' = (raced \/ (c \in Lookups /\ MutationRunning))
  /\ UNCHANGED <<shared, caches, seen, loaded, root, delta, made, ref, left,
                 faulted, undisturbed>>

\* clonedSnapshotForCurrentGeneration: the snapshot first, then the counter.
LoadSnapshot(c) ==
  /\ pc[c] = "load"
  /\ loaded' = Set(loaded, c, snapshot)
  /\ Goto(c, "match")
  /\ UNCHANGED <<shared, caches, at, seen, root, delta, made, ref, left, history>>

Match(c) ==
  LET usable == loaded[c].gen = counter /\ loaded[c].tree # Blank
  IN /\ pc[c] = "match"
     /\ root' = Set(root, c, IF usable THEN loaded[c].tree ELSE Blank)
     /\ loaded' = Set(loaded, c, Nothing)
     /\ Goto(c, IF ~usable THEN "crawl" ELSE IF c \in Calls THEN "install" ELSE "label")
     /\ UNCHANGED <<shared, caches, at, seen, delta, made, ref, left, history>>

\* GetCourseFileTree reads folder by folder, with no lock of its own.
CrawlFolder(c) ==
  /\ pc[c] = "crawl"
  /\ \E k \in Folders :
       /\ root[c][k] = None
       /\ root' = [root EXCEPT ![c][k] = server[k]]
  /\ UNCHANGED <<shared, caches, pc, at, seen, loaded, delta, made, ref, left, history>>

\* Plausible bug: an error of a folder ends the crawl, and what was read is kept.
CrawlDoneInPart(c) ==
  /\ pc[c] = "crawl"
  /\ Goto(c, IF c \in Calls THEN "install" ELSE "stamp")
  /\ UNCHANGED <<shared, caches, locals, history>>

CrawlDone(c) ==
  /\ pc[c] = "crawl" /\ root[c] \in Trees
  /\ Goto(c, IF c \in Calls THEN "install" ELSE "stamp")
  /\ UNCHANGED <<shared, caches, locals, history>>

\* The context is cancelled before a refresh, or a request of its crawl fails.
\* Most mutations return the error; rmdir logs it and goes on with the tree it
\* has, and its second refresh leaves it with a folder that is not empty.  A
\* lookup answers from the tree it has.  NewFs fails.
RefreshFails(c) ==
  /\ pc[c] \in {"load", "crawl"}
  /\ \/ c \in Rmdirs /\ active[at[c]] = 0 /\ Goto(c, "begin") /\ faulted' = TRUE
     \/ /\ c \in Mutations /\ (c \notin Rmdirs \/ active[at[c]] # 0)
        /\ Goto(c, IF active[at[c]] = 0 THEN "unlock" ELSE "end")
        /\ UNCHANGED faulted
     \/ c \in Lookups /\ Goto(c, "answer") /\ UNCHANGED faulted
     \/ c \in Opens /\ Goto(c, "failed") /\ UNCHANGED faulted
  /\ undisturbed' = [l \in Lookups |-> undisturbed[l] /\ l # c]
  /\ UNCHANGED <<shared, caches, locals, raced>>

\* Plausible bug: the label is the generation seen before the crawl.
InstallSeen(c) ==
  /\ c \in Calls /\ pc[c] = "install" /\ mu[at[c]] = Free
  /\ mu' = Set(mu, at[c], c)
  /\ tree' = Set(tree, at[c], root[c])
  /\ label' = Set(label, at[c], seen[c])
  /\ root' = Set(root, c, Blank)
  /\ ref' = [m \in Mutations |->
               IF Dst[m] = at[c] /\ ref[m] = "attached" THEN "detached" ELSE ref[m]]
  /\ Goto(c, "store")
  /\ UNCHANGED <<shared, active, at, seen, loaded, delta, made, left, history>>

\* Under the instance's lock the new root goes in, labelled with the counter
\* as it is now.  Node pointers into the old root no longer reach the tree.
Install(c) ==
  /\ c \in Calls /\ pc[c] = "install" /\ mu[at[c]] = Free
  /\ mu' = Set(mu, at[c], c)
  /\ tree' = Set(tree, at[c], root[c])
  /\ label' = Set(label, at[c], counter)
  /\ root' = Set(root, c, Blank)
  /\ ref' = [m \in Mutations |->
               IF Dst[m] = at[c] /\ ref[m] = "attached" THEN "detached" ELSE ref[m]]
  /\ Goto(c, "store")
  /\ UNCHANGED <<shared, active, at, seen, loaded, delta, made, left, history>>

Store(c) ==
  /\ c \in Calls /\ pc[c] = "store"
  /\ snapshot' = [gen |-> label[at[c]], tree |-> tree[at[c]]]
  /\ mu' = Set(mu, at[c], Free)
  /\ Ensured(c)
  /\ UNCHANGED <<server, counter, lock, tree, label, active, seen, loaded, root,
                 delta, made, ref, left, history>>

-----------------------------------------------------------------------------
(* List and NewObject. *)

Ask(l) ==
  /\ l \in Lookups /\ pc[l] = "start" /\ Open(Dst[l])
  /\ undisturbed' = Set(undisturbed, l, lock = Free)
  /\ Goto(l, "check")
  /\ UNCHANGED <<shared, caches, locals, raced, faulted>>

Answer(l) ==
  /\ l \in Lookups /\ pc[l] = "answer" /\ mu[at[l]] = Free
  /\ Goto(l, "done")
  /\ UNCHANGED <<shared, caches, locals, history>>

(* NewFs, for the instance it makes. *)

BeginOpen(f) ==
  /\ f \in Opens /\ pc[f] = "start"
  /\ Goto(f, "load")
  /\ raced' = (raced \/ MutationRunning)
  /\ UNCHANGED <<shared, caches, locals, faulted, undisturbed>>

\* The crawled tree is published under the counter's value after the crawl ...
Stamp(f) ==
  /\ f \in Opens /\ pc[f] = "stamp"
  /\ seen' = Set(seen, f, counter)
  /\ Goto(f, "publish")
  /\ UNCHANGED <<shared, caches, at, loaded, root, delta, made, ref, left, history>>

Publish(f) ==
  /\ f \in Opens /\ pc[f] = "publish"
  /\ snapshot' = [gen |-> seen[f], tree |-> root[f]]
  /\ Goto(f, "label")
  /\ UNCHANGED <<server, counter, lock, caches, locals, history>>

\* ... and labelled with the value it has by the time NewFs returns.
Label(f) ==
  /\ f \in Opens /\ pc[f] = "label"
  /\ tree' = Set(tree, f, root[f])
  /\ label' = Set(label, f, counter)
  /\ Goto(f, "done")
  /\ UNCHANGED <<shared, active, mu, locals, history>>

-----------------------------------------------------------------------------
(* The calls that change the course. *)

\* Plausible bug: the tree is not brought up to date.
LockOnly(m) ==
  /\ m \in Mutations /\ pc[m] = "start" /\ lock = Free
  /\ Open(Src[m]) /\ Open(Dst[m])
  /\ lock' = m
  /\ undisturbed' = [l \in Lookups |-> FALSE]
  /\ Goto(m, "begin")
  /\ UNCHANGED <<server, counter, snapshot, caches, locals, raced, faulted>>

Lock(m) ==
  /\ m \in Mutations /\ pc[m] = "start" /\ lock = Free
  /\ Open(Src[m]) /\ Open(Dst[m])
  /\ lock' = m
  /\ undisturbed' = [l \in Lookups |-> FALSE]
  /\ Goto(m, "check")
  /\ UNCHANGED <<server, counter, snapshot, caches, locals, raced, faulted>>

Begin(m) ==
  /\ m \in Mutations /\ pc[m] = "begin"
  /\ active' = [f \in Fs |-> IF f \in {Src[m], Dst[m]} THEN active[f] + 1 ELSE active[f]]
  /\ raced' = (raced \/ ReaderRefreshing)
  /\ Goto(m, "run")
  /\ UNCHANGED <<shared, tree, label, mu, locals, faulted, undisturbed>>

\* DirMove finds no source, or something at its destination, and gives up
\* before it counts as a mutation.
Refuse(m) ==
  /\ m \in Mutations \ Rmdirs /\ pc[m] = "begin"
  /\ Goto(m, "unlock")
  /\ UNCHANGED <<shared, caches, locals, history>>

\* rmdir looks again before it believes a folder is not empty.
LookAgain(m) ==
  /\ m \in Rmdirs /\ pc[m] = "run" /\ delta[m] = Blank /\ left[m] > 0
  /\ left' = Set(left, m, left[m] - 1)
  /\ ref' = Set(ref, m, "none")
  /\ Goto(m, "load")
  /\ UNCHANGED <<shared, caches, at, seen, loaded, root, delta, made, history>>

\* The handler looks up the node it will change.
Locate(m) ==
  /\ m \in Mutations /\ pc[m] = "run" /\ delta[m] = Blank /\ mu[Dst[m]] = Free
  /\ ref[m] # "attached"
  /\ ref' = Set(ref, m, "attached")
  /\ UNCHANGED <<shared, caches, pc, at, seen, loaded, root, delta, made, left, history>>

\* CreateParentDirectories keeps the instance's lock over all its requests.
MakeParents(m) ==
  /\ m \in Mutations /\ pc[m] = "run" /\ delta[m] = Blank /\ mu[Dst[m]] = Free
  /\ left[m] > 0
  /\ left' = Set(left, m, left[m] - 1)
  /\ mu' = Set(mu, Dst[m], m)
  /\ made' = Set(made, m, FALSE)
  /\ Goto(m, "make")
  /\ UNCHANGED <<shared, tree, label, active, at, seen, loaded, root, delta, ref, history>>

\* A segment is made and appended to its parent's node.
MakeDir(m) ==
  /\ m \in Mutations /\ pc[m] = "make" /\ left[m] > 0
  /\ left' = Set(left, m, left[m] - 1)
  /\ \E k \in Folders, v \in Contents :
       /\ server' = [server EXCEPT ![k] = v]
       /\ tree' = [tree EXCEPT ![Dst[m]][k] = v]
  /\ made' = Set(made, m, TRUE)
  /\ UNCHANGED <<counter, snapshot, lock, label, active, mu, pc, at, seen, loaded,
                 root, delta, ref, history>>

\* Plausible bug: the error path keeps the instance's lock.
MakeFailsHolding(m) ==
  /\ m \in Mutations /\ pc[m] = "make"
  /\ faulted' = (faulted \/ made[m])
  /\ Goto(m, "end")
  /\ UNCHANGED <<shared, caches, locals, raced, undisturbed>>

\* A request fails, before or after the server made the folder.
MakeFails(m) ==
  /\ m \in Mutations /\ pc[m] = "make"
  /\ \/ UNCHANGED server /\ faulted' = (faulted \/ made[m])
     \/ /\ \E k \in Folders, v \in Contents : server' = [server EXCEPT ![k] = v]
        /\ faulted' = TRUE
  /\ mu' = Set(mu, Dst[m], Free)
  /\ Goto(m, "end")
  /\ UNCHANGED <<counter, snapshot, lock, tree, label, active, locals, raced, undisturbed>>

\* Plausible bug: the other instances are not told.
BumpForSelf(m) ==
  /\ label' = Set(label, Dst[m], counter)
  /\ Goto(m, "record")
  /\ UNCHANGED counter

\* bumpTreeGenerationAndMarkCurrent, up to its snapshot; the caller holds mu.
Bump(m) ==
  /\ counter' = counter + 1
  /\ label' = Set(label, Dst[m], counter + 1)
  /\ Goto(m, "record")

ParentsMade(m) ==
  /\ m \in Mutations /\ pc[m] = "make"
  /\ \/ made[m] /\ Bump(m) /\ UNCHANGED mu
     \/ ~made[m] /\ Goto(m, "run") /\ mu' = Set(mu, Dst[m], Free)
        /\ UNCHANGED <<counter, label>>
  /\ made' = Set(made, m, FALSE)
  /\ ref' = Set(ref, m, "attached")
  /\ UNCHANGED <<server, snapshot, lock, tree, active, at, seen, loaded, root,
                 delta, left, history>>

\* A request that changes the course, sent without the instance's lock.
Request(m) ==
  /\ m \in Mutations /\ pc[m] = "run" /\ left[m] > 0
  /\ left' = Set(left, m, left[m] - 1)
  /\ \E k \in Folders, v \in Contents :
       /\ server' = [server EXCEPT ![k] = v]
       /\ delta' = [delta EXCEPT ![m][k] = v]
  /\ UNCHANGED <<counter, snapshot, lock, caches, pc, at, seen, loaded, root, made,
                 ref, history>>

\* The change goes into the tree, at a path looked up now or through the node
\* pointer taken before the requests.
Commit(m) ==
  /\ m \in Mutations /\ pc[m] = "run" /\ delta[m] # Blank /\ mu[Dst[m]] = Free
  /\ mu' = Set(mu, Dst[m], m)
  /\ \/ tree' = Set(tree, Dst[m], Overlay(delta[m], tree[Dst[m]]))
     \/ ref[m] = "detached" /\ UNCHANGED tree
  /\ Bump(m)
  /\ delta' = Set(delta, m, Blank)
  /\ UNCHANGED <<server, snapshot, lock, active, at, seen, loaded, root, made, ref,
                 left, history>>

\* Update bumps once more when it has replaced the file.
CommitAgain(m) ==
  /\ m \in Mutations \ Rmdirs /\ pc[m] = "run" /\ delta[m] = Blank /\ mu[Dst[m]] = Free
  /\ left[m] > 0
  /\ left' = Set(left, m, left[m] - 1)
  /\ mu' = Set(mu, Dst[m], m)
  /\ Bump(m)
  /\ UNCHANGED <<server, snapshot, lock, tree, active, at, seen, loaded, root, delta,
                 made, ref, history>>

Record(m) ==
  /\ m \in Mutations /\ pc[m] = "record"
  /\ snapshot' = [gen |-> label[Dst[m]], tree |-> tree[Dst[m]]]
  /\ mu' = Set(mu, Dst[m], Free)
  /\ Goto(m, "run")
  /\ UNCHANGED <<server, counter, lock, tree, label, active, locals, history>>

\* Plausible bug: the tree the change is missing from is marked current.
ForgetMarked(m) ==
  /\ m \in Mutations \ Rmdirs /\ pc[m] = "run" /\ delta[m] # Blank
  /\ counter' = counter + 1
  /\ label' = Set(label, Dst[m], counter + 1)
  /\ delta' = Set(delta, m, Blank)
  /\ Goto(m, "end")
  /\ UNCHANGED <<server, snapshot, lock, tree, active, mu, at, seen, loaded, root,
                 made, ref, left, history>>

\* Move, DirMove and Remove: the path is not in the tree, so every tree is
\* declared out of date, this one included.
Forget(m) ==
  /\ m \in Mutations \ Rmdirs /\ pc[m] = "run" /\ delta[m] # Blank
  /\ counter' = counter + 1
  /\ delta' = Set(delta, m, Blank)
  /\ Goto(m, "end")
  /\ UNCHANGED <<server, snapshot, lock, caches, at, seen, loaded, root, made, ref,
                 left, history>>

\* The call returns.  An error after a change that did take effect leaves the
\* counter alone.
Finish(m) ==
  /\ m \in Mutations /\ pc[m] = "run"
  /\ faulted' = (faulted \/ delta[m] # Blank)
  /\ delta' = Set(delta, m, Blank)
  /\ Goto(m, "end")
  /\ UNCHANGED <<shared, caches, at, seen, loaded, root, made, ref, left, raced, undisturbed>>

EndMutation(m) ==
  /\ m \in Mutations /\ pc[m] = "end"
  /\ active' = [f \in Fs |-> IF f \in {Src[m], Dst[m]} THEN active[f] - 1 ELSE active[f]]
  /\ ref' = Set(ref, m, "none")
  /\ Goto(m, "unlock")
  /\ UNCHANGED <<shared, tree, label, mu, at, seen, loaded, root, delta, made, left, history>>

Unlock(m) ==
  /\ m \in Mutations /\ pc[m] = "unlock"
  /\ lock' = Free
  /\ Goto(m, "done")
  /\ UNCHANGED <<server, counter, snapshot, caches, locals, history>>

-----------------------------------------------------------------------------
Refresh(c) ==
  \/ Check(c) \/ Count(c) \/ Compare(c) \/ LoadSnapshot(c) \/ Match(c) \/ CrawlFolder(c)
  \/ CrawlDone(c) \/ RefreshFails(c) \/ Install(c) \/ Store(c)
Lookup(l) == Ask(l) \/ Answer(l)
NewFs(f) == BeginOpen(f) \/ Stamp(f) \/ Publish(f) \/ Label(f)
Mutation(m) ==
  \/ Lock(m) \/ Begin(m) \/ Refuse(m) \/ LookAgain(m) \/ Locate(m) \/ MakeParents(m)
  \/ MakeDir(m) \/ MakeFails(m) \/ ParentsMade(m) \/ Request(m) \/ Commit(m)
  \/ CommitAgain(m) \/ Record(m) \/ Forget(m) \/ Finish(m) \/ EndMutation(m) \/ Unlock(m)

Step(c) == Refresh(c) \/ Lookup(c) \/ NewFs(c) \/ Mutation(c)
Next == \E c \in Procs : Step(c)

Spec == Init /\ [][Next]_vars
FairSpec == Spec /\ \A c \in Procs : WF_vars(Step(c))
-----------------------------------------------------------------------------
(* Properties. *)

Places == Refreshing \cup Running \cup
  {"start", "check", "count", "compare", "store", "answer", "begin", "end", "unlock", "done",
   "failed"}

\* The variables range over what the declarations say; in particular no half
\* crawled tree gets into an instance or is published (fs.go:28-49, 343-350).
TypeOK ==
  /\ server \in Trees /\ counter \in Nat
  /\ snapshot \in [gen : Nat, tree : Trees \cup {Blank}]
  /\ lock \in Mutations \cup {Free}
  /\ tree \in [Fs -> Trees \cup {Blank}] /\ label \in [Fs -> Nat]
  /\ active \in [Fs -> Nat] /\ mu \in [Fs -> Calls \cup {Free}]
  /\ pc \in [Procs -> Places]
  /\ at \in [Procs -> Fs] /\ seen \in [Procs -> Nat]
  /\ loaded \in [Procs -> [gen : Nat, tree : Trees \cup {Blank}]]
  /\ root \in [Procs -> PartTrees] /\ delta \in [Mutations -> PartTrees]
  /\ made \in [Mutations -> BOOLEAN]
  /\ ref \in [Mutations -> {"none", "attached", "detached"}]
  /\ left \in [Mutations -> Nat]
  /\ raced \in BOOLEAN /\ faulted \in BOOLEAN
  /\ undisturbed \in [Lookups -> BOOLEAN]

Clean == ~raced /\ ~faulted
Settled == \A m \in Mutations : delta[m] = Blank /\ ~made[m]

\* The generation protocol keeps the caches right: whenever no mutation is
\* between its change and its bump, each instance whose label equals the
\* counter, and the snapshot if it does, shows the course as it is.  It holds
\* until an unlocked refresh overlaps a mutation or a failure comes between a
\* change and its bump (fs.go:269-382, 489-549, 898-949).
Coherent ==
  Clean /\ Settled =>
    /\ \A f \in Fs : Open(f) /\ label[f] = counter => tree[f] = server
    /\ snapshot.gen = counter /\ snapshot.tree # Blank => snapshot.tree = server

\* While a mutation runs, the tree its handler reads is the course, less the
\* changes it has made itself: ensureCurrentFileTree once at the start is
\* enough, because the course's lock is held until the end (fs.go:377-414).
ActsOnTheCourse ==
  Clean => \A m \in Mutations : pc[m] \in Running =>
    /\ label[Dst[m]] = counter
    /\ Overlay(delta[m], tree[Dst[m]]) = server

\* At most one call of the course is past its lock (fs.go:416-453), also when
\* a move takes the lock for two instances.
OneMutation ==
  \A m, n \in Mutations :
    pc[m] \notin {"start", "done"} /\ pc[n] \notin {"start", "done"} => m = n

\* A lookup that no mutation overlapped, and whose refresh did not fail, reads
\* the course and not an older tree (fs.go:327-382, 1690-1824).
FreshAnswer ==
  Clean => \A l \in Lookups :
    pc[l] = "answer" /\ undisturbed[l] => tree[at[l]] = server

\* No cache is labelled with a generation still to come: it would pass for
\* current once the counter got there (fs.go:263-305, 356-372).
NoFutureLabel ==
  /\ \A f \in Fs : label[f] <= counter
  /\ snapshot.gen <= counter

\* An instance's label never goes back, however refreshes and mutations of the
\* instance interleave: the counter is read under the lock (fs.go:353-359).
LabelsGrow == [][\A f \in Fs : label'[f] >= label[f]]_vars

\* Every call returns: waiting for the course's lock and for an instance's lock
\* never becomes waiting on each other (fs.go:416-453, 1187-1188, 353-354).
CallsReturn ==
  \A c \in Procs :
    (c \in Calls => Open(Src[c]) /\ Open(Dst[c])) ~> pc[c] \in {"done", "failed"}
=============================================================================

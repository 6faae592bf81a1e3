--------------------------- MODULE TreeCacheProofs ---------------------------
(* What TreeCache promises for any instances, calls, folders and contents. *)
EXTENDS TreeCache, TLAPS

(* The inductive invariant behind these properties, in parts. *)

\* The types, with trees that may be incomplete and counts below zero.
Types ==
  /\ server \in Trees /\ counter \in Nat
  /\ snapshot \in [gen : Nat, tree : PartTrees]
  /\ lock \in Mutations \cup {Free}
  /\ tree \in [Fs -> PartTrees] /\ label \in [Fs -> Nat]
  /\ active \in [Fs -> Int] /\ mu \in [Fs -> Calls \cup {Free}]
  /\ pc \in [Procs -> Places]
  /\ at \in [Procs -> Fs] /\ seen \in [Procs -> Nat]
  /\ loaded \in [Procs -> [gen : Nat, tree : PartTrees]]
  /\ root \in [Procs -> PartTrees] /\ delta \in [Mutations -> PartTrees]
  /\ made \in [Mutations -> BOOLEAN]
  /\ ref \in [Mutations -> {"none", "attached", "detached"}]
  /\ left \in [Mutations -> Nat]
  /\ raced \in BOOLEAN /\ faulted \in BOOLEAN
  /\ undisturbed \in [Lookups -> BOOLEAN]

\* The holder of the course's lock is the one mutation on its way.
LockHeld == \A m \in Mutations : pc[m] \notin {"start", "done"} <=> lock = m

\* A call is where its place says.
PlaceOf(c, l, f) ==
  /\ c \in Opens => f = c /\ l \in {"start", "load", "match", "crawl", "stamp", "publish",
                                     "label", "done", "failed"}
  /\ c \in Lookups => f = Dst[c] /\ l \in {"start", "check", "count", "compare", "load", "match",
                                            "crawl", "install", "store", "answer", "done"}
  /\ c \in Mutations =>
       /\ f \in {Src[c], Dst[c]}
       /\ l \in {"run", "make", "record", "begin"} => f = Dst[c]
       /\ l \in {"start", "check", "count", "compare", "load", "match", "crawl", "install", "store",
                 "begin", "run", "make", "record", "end", "unlock", "done"}

InPlace == \A c \in Procs : PlaceOf(c, pc[c], at[c])

\* activeMutations counts the running mutation, on its instances.
Zeros == [f \in Fs |-> 0]
Ones(m) == [f \in Fs |-> IF f \in {Src[m], Dst[m]} THEN 1 ELSE 0]

ActiveOf(m, l, act) ==
  /\ l \in {"run", "make", "record", "end"} => act = Ones(m)
  /\ l \in {"check", "count", "compare", "begin", "unlock"} => act = Zeros
  /\ l \in {"load", "match", "crawl", "install", "store"} =>
       act = Zeros \/ (m \in Rmdirs /\ act = Ones(m))

ActiveCounts ==
  /\ \A m \in Mutations : ActiveOf(m, pc[m], active)
  /\ lock = Free => active = Zeros

\* No generation is ahead of the counter.
NoneAhead ==
  /\ NoFutureLabel
  /\ \A c \in Procs : seen[c] <= counter /\ loaded[c].gen <= counter

-----------------------------------------------------------------------------
USE DEF Set, Goto

LEMMA Constants ==
  /\ Mutations \subseteq Procs /\ Lookups \subseteq Procs /\ Opens \subseteq Procs
  /\ \A c \in Procs : c \in Mutations \/ c \in Lookups \/ c \in Opens
  /\ \A c \in Calls : c \in Mutations \/ c \in Lookups
  /\ Mutations \subseteq Calls /\ Lookups \subseteq Calls
  /\ \A c \in Opens : c \notin Calls /\ c \notin Mutations /\ c \notin Lookups /\ c \in Fs
  /\ \A c \in Mutations : c \notin Lookups
  /\ \A c \in Calls : Src[c] \in Fs /\ Dst[c] \in Fs
  /\ \A c \in Lookups : Src[c] = Dst[c]
  /\ \A c \in Rmdirs : c \in Mutations /\ Src[c] = Dst[c]
  /\ Free \notin Procs /\ MaxRequests \in Nat
  /\ Blank \in PartTrees /\ Trees \subseteq PartTrees /\ Blank \notin Trees
  BY CallsAssumption, ValuesAssumption
  DEF Procs, Calls, Opens, Blank, PartTrees, Trees

\* All the places a call may be at, in one set.
LEMMA PlacesAre ==
  Places = {"start", "check", "count", "compare", "store", "answer", "begin", "end", "unlock",
            "done", "failed", "load", "match", "crawl", "install", "stamp", "publish",
            "label", "run", "make", "record"}
  BY DEF Places, Refreshing, Running

LEMMA TypesInit == Init => Types
<1> SUFFICES ASSUME Init PROVE Types
  OBVIOUS
<1> USE Constants
<1>1. at \in [Procs -> Fs]
  BY DEF Init, Calls
<1>2. /\ loaded \in [Procs -> [gen : Nat, tree : PartTrees]]
      /\ snapshot \in [gen : Nat, tree : PartTrees]
      /\ tree \in [Fs -> PartTrees]
  BY DEF Init, Nothing
<1>3. pc \in [Procs -> Places]
  BY PlacesAre DEF Init
<1>4. /\ label \in [Fs -> Nat] /\ active \in [Fs -> Int]
      /\ mu \in [Fs -> Calls \cup {Free}] /\ seen \in [Procs -> Nat]
      /\ root \in [Procs -> PartTrees] /\ delta \in [Mutations -> PartTrees]
  BY DEF Init
<1> QED
  BY <1>1, <1>2, <1>3, <1>4 DEF Init, Types

LEMMA EnsuredType ==
  ASSUME Types, NEW c \in Calls, Ensured(c)
  PROVE  at' \in [Procs -> Fs] /\ pc' \in [Procs -> Places]
<1>1. at' \in [Procs -> Fs]
  BY Constants DEF Ensured, Types
<1>2. pc' \in [Procs -> Places]
  BY Constants, PlacesAre DEF Ensured, Types
<1> QED
  BY <1>1, <1>2

LEMMA MutationCall ==
  ASSUME NEW m, Mutation(m)
  PROVE  m \in Mutations /\ m \in Calls /\ Dst[m] \in Fs /\ Src[m] \in Fs
<1>1. m \in Mutations
  BY Constants DEF Mutation, Lock, Begin, Refuse, CommitAgain, LookAgain, Locate, MakeParents, MakeDir, MakeFails,
         ParentsMade, Request, Commit, Record, Forget, Finish, EndMutation, Unlock
<1> QED
  BY <1>1, Constants

LEMMA TypesStep == Types /\ [Next]_vars => Types'
<1> SUFFICES ASSUME Types, [Next]_vars PROVE Types'
  OBVIOUS
<1> USE DEF shared, caches, locals, history
<1>1. CASE UNCHANGED vars
  BY <1>1 DEF Types, vars
<1>2. ASSUME NEW c \in Procs, Refresh(c) PROVE Types'
  <2> USE Constants
  <2>1. CASE Check(c)
    <3>1. at' \in [Procs -> Fs] /\ pc' \in [Procs -> Places]
      BY <2>1, EnsuredType, PlacesAre DEF Check, Types
    <3>2. UNCHANGED <<shared, caches, seen, loaded, root, delta, made, ref, left, history>>
      BY <2>1 DEF Check
    <3> QED
      BY <3>1, <3>2 DEF Types
  <2>10. CASE Count(c)
    BY <2>10, PlacesAre DEF Count, Types
  <2>2. CASE Compare(c)
    <3>1. at' \in [Procs -> Fs] /\ pc' \in [Procs -> Places]
      <4>1. CASE Ensured(c)
        BY <2>2, <4>1, EnsuredType DEF Compare
      <4>2. CASE Goto(c, "load") /\ UNCHANGED at
        BY <2>2, <4>2, PlacesAre DEF Types
      <4> QED
        BY <2>2, <4>1, <4>2 DEF Compare
    <3>2. seen' \in [Procs -> Nat] /\ raced' \in BOOLEAN
      BY <2>2 DEF Compare, Types
    <3> QED
      BY <2>2, <3>1, <3>2 DEF Compare, Types
  <2>3. CASE LoadSnapshot(c)
    BY <2>3, PlacesAre DEF LoadSnapshot, Types
  <2>4. CASE Match(c)
    BY <2>4, PlacesAre DEF Match, Types, Nothing
  <2>5. CASE CrawlFolder(c)
    BY <2>5 DEF CrawlFolder, Types, Trees, PartTrees
  <2>6. CASE CrawlDone(c)
    BY <2>6, PlacesAre DEF CrawlDone, Types
  <2>7. CASE RefreshFails(c)
    BY <2>7, PlacesAre DEF RefreshFails, Types
  <2>8. CASE Install(c)
    BY <2>8, PlacesAre DEF Install, Types
  <2>9. CASE Store(c)
    <3>1. at' \in [Procs -> Fs] /\ pc' \in [Procs -> Places]
      BY <2>9, EnsuredType DEF Store, Types
    <3> QED
      BY <2>9, <3>1 DEF Store, Types
  <2> QED
    BY <1>2, <2>1, <2>2, <2>3, <2>4, <2>5, <2>6, <2>7, <2>8, <2>9, <2>10 DEF Refresh
<1>3. ASSUME NEW l \in Procs, Lookup(l) PROVE Types'
  <2> USE Constants
  <2>1. CASE Ask(l)
    <3>1. undisturbed' \in [Lookups -> BOOLEAN]
      BY <2>1 DEF Ask, Types
    <3> QED
      BY <2>1, <3>1, PlacesAre DEF Ask, Types
  <2>2. CASE Answer(l)
    BY <2>2, PlacesAre DEF Answer, Types
  <2> QED
    BY <1>3, <2>1, <2>2 DEF Lookup
<1>4. ASSUME NEW f \in Procs, NewFs(f) PROVE Types'
  <2> USE Constants
  <2>1. CASE BeginOpen(f)
    BY <2>1, PlacesAre DEF BeginOpen, Types
  <2>2. CASE Stamp(f)
    BY <2>2, PlacesAre DEF Stamp, Types
  <2>3. CASE Publish(f)
    BY <2>3, PlacesAre DEF Publish, Types
  <2>4. CASE Label(f)
    BY <2>4, PlacesAre DEF Label, Types
  <2> QED
    BY <1>4, <2>1, <2>2, <2>3, <2>4 DEF NewFs
<1>5. ASSUME NEW m \in Procs, Mutation(m) PROVE Types'
  <2>0. /\ m \in Mutations /\ m \in Calls /\ m \in Procs
        /\ Dst[m] \in Fs /\ Src[m] \in Fs
        /\ Blank \in PartTrees
    BY <1>5, MutationCall, Constants
  <2> USE <2>0
  <2>1. CASE Lock(m)
    BY <2>1, PlacesAre DEF Lock, Types
  <2>2. CASE Begin(m)
    <3>1. active' \in [Fs -> Int]
      BY <2>2 DEF Begin, Types
    <3> QED
      BY <2>2, <3>1, PlacesAre DEF Begin, Types
  <2>3. CASE LookAgain(m)
    BY <2>3, PlacesAre DEF LookAgain, Types
  <2>4. CASE Locate(m)
    BY <2>4 DEF Locate, Types
  <2>5. CASE MakeParents(m)
    BY <2>5, PlacesAre DEF MakeParents, Types
  <2>6. CASE MakeDir(m)
    <3>1. server' \in Trees
      BY <2>6 DEF MakeDir, Types, Trees
    <3>2. tree' \in [Fs -> PartTrees]
      BY <2>6 DEF MakeDir, Types, PartTrees
    <3> QED
      BY <2>6, <3>1, <3>2 DEF MakeDir, Types
  <2>7. CASE MakeFails(m)
    <3>1. server' \in Trees
      BY <2>7 DEF MakeFails, Types, Trees
    <3>2. /\ faulted' \in BOOLEAN /\ mu' \in [Fs -> Calls \cup {Free}]
          /\ pc' \in [Procs -> Places]
      BY <2>7, PlacesAre DEF MakeFails, Types
    <3>3. UNCHANGED <<counter, snapshot, lock, tree, label, active, locals, raced,
                      undisturbed>>
      BY <2>7 DEF MakeFails
    <3> QED
      BY <3>1, <3>2, <3>3 DEF Types
  <2>8. CASE ParentsMade(m)
    <3>1. /\ counter' \in Nat /\ label' \in [Fs -> Nat]
          /\ mu' \in [Fs -> Calls \cup {Free}] /\ pc' \in [Procs -> Places]
      <4>1. CASE Bump(m) /\ UNCHANGED mu
        BY <4>1, PlacesAre DEF Bump, Types
      <4>2. CASE /\ Goto(m, "run") /\ mu' = Set(mu, Dst[m], Free)
                 /\ UNCHANGED <<counter, label>>
        BY <4>2, PlacesAre DEF Types
      <4> QED
        BY <2>8, <4>1, <4>2 DEF ParentsMade
    <3>2. /\ made' \in [Mutations -> BOOLEAN]
          /\ ref' \in [Mutations -> {"none", "attached", "detached"}]
      BY <2>8 DEF ParentsMade, Types
    <3>3. UNCHANGED <<server, snapshot, lock, tree, active, at, seen, loaded, root,
                      delta, left, history>>
      BY <2>8 DEF ParentsMade
    <3> QED
      BY <3>1, <3>2, <3>3 DEF Types
  <2>9. CASE Request(m)
    <3>1. server' \in Trees
      BY <2>9 DEF Request, Types, Trees
    <3>2. delta' \in [Mutations -> PartTrees]
      BY <2>9 DEF Request, Types, PartTrees
    <3> QED
      BY <2>9, <3>1, <3>2 DEF Request, Types
  <2>10. CASE Commit(m)
    <3>1. m \in Mutations /\ Dst[m] \in Fs
      BY <2>10 DEF Commit
    <3>2. delta[m] \in PartTrees /\ tree[Dst[m]] \in PartTrees
      BY <3>1 DEF Types
    <3>3. Overlay(delta[m], tree[Dst[m]]) \in PartTrees
      BY <3>2 DEF PartTrees, Overlay
    <3>4. tree' \in [Fs -> PartTrees]
      BY <2>10, <3>1, <3>3 DEF Commit, Types
    <3>5. /\ label' \in [Fs -> Nat] /\ mu' \in [Fs -> Calls \cup {Free}]
          /\ pc' \in [Procs -> Places] /\ counter' \in Nat
          /\ delta' \in [Mutations -> PartTrees]
      BY <2>10, PlacesAre DEF Commit, Bump, Types
    <3> QED
      BY <2>10, <3>4, <3>5 DEF Commit, Types
  <2>11. CASE Record(m)
    BY <2>11, PlacesAre DEF Record, Types
  <2>12. CASE Forget(m)
    BY <2>12, PlacesAre DEF Forget, Types
  <2>13. CASE Finish(m)
    BY <2>13, PlacesAre DEF Finish, Types
  <2>14. CASE EndMutation(m)
    <3>1. active' \in [Fs -> Int]
      BY <2>14 DEF EndMutation, Types
    <3> QED
      BY <2>14, <3>1, PlacesAre DEF EndMutation, Types
  <2>15. CASE Unlock(m)
    BY <2>15, PlacesAre DEF Unlock, Types
  <2>16. CASE Refuse(m)
    BY <2>16, PlacesAre DEF Refuse, Types
  <2>17. CASE CommitAgain(m)
    <3>1. /\ label' \in [Fs -> Nat] /\ mu' \in [Fs -> Calls \cup {Free}]
          /\ pc' \in [Procs -> Places] /\ counter' \in Nat /\ left' \in [Mutations -> Nat]
      BY <2>17, PlacesAre DEF CommitAgain, Bump, Types
    <3> QED
      BY <2>17, <3>1 DEF CommitAgain, Types
  <2> QED
    BY <1>5, <2>16, <2>17, <2>1, <2>2, <2>3, <2>4, <2>5, <2>6, <2>7, <2>8, <2>9, <2>10, <2>11,
       <2>12, <2>13, <2>14, <2>15 DEF Mutation
<1> QED
  BY <1>1, <1>2, <1>3, <1>4, <1>5 DEF Next, Step


\* The step of one call that a step of the system is.
LEMMA Actions ==
  ASSUME Next
  PROVE  \E c \in Procs :
    \/ Check(c) \/ Count(c) \/ Compare(c) \/ LoadSnapshot(c) \/ Match(c) \/ CrawlFolder(c)
    \/ CrawlDone(c) \/ RefreshFails(c) \/ Install(c) \/ Store(c)
    \/ Ask(c) \/ Answer(c)
    \/ BeginOpen(c) \/ Stamp(c) \/ Publish(c) \/ Label(c)
    \/ Lock(c) \/ Begin(c) \/ Refuse(c) \/ LookAgain(c) \/ Locate(c)
    \/ MakeParents(c) \/ MakeDir(c) \/ MakeFails(c) \/ ParentsMade(c) \/ Request(c) \/ Commit(c)
    \/ CommitAgain(c) \/ Record(c) \/ Forget(c) \/ Finish(c) \/ EndMutation(c) \/ Unlock(c)
  BY DEF Next, Step, Refresh, Lookup, NewFs, Mutation

\* The lock's holder is the one call between its Lock and its Unlock.
LEMMA LockHeldStep ==
  ASSUME Types, LockHeld, [Next]_vars
  PROVE  LockHeld'
<1> USE Constants DEF Types, LockHeld, shared, caches, locals, history
<1>1. CASE UNCHANGED vars
  BY <1>1 DEF vars
<1>2. ASSUME NEW c \in Procs,
             Check(c) \/ Count(c) \/ Compare(c) \/ LoadSnapshot(c) \/ Match(c) \/ CrawlFolder(c) \/
             CrawlDone(c) \/ Install(c) \/ Store(c) \/ Ask(c) \/ Answer(c) \/ BeginOpen(c)
             \/ Stamp(c) \/ Publish(c) \/ Label(c) \/ Begin(c) \/ Refuse(c) \/
             LookAgain(c) \/ Locate(c) \/ MakeParents(c) \/ MakeDir(c) \/ MakeFails(c) \/
             ParentsMade(c) \/ Request(c) \/ Commit(c) \/ CommitAgain(c) \/ Record(c) \/
             Forget(c) \/ Finish(c) \/ EndMutation(c)
       PROVE  LockHeld'
  BY <1>2 DEF Check, Count, Compare, LoadSnapshot, Match, CrawlFolder, CrawlDone, Install, Store,
     Ask, Answer, BeginOpen, Stamp, Publish, Label, Begin, Refuse, LookAgain, Locate,
     MakeParents, MakeDir, MakeFails, ParentsMade, Request, Commit, CommitAgain, Record,
     Forget, Finish, EndMutation, Ensured, Bump
<1>3. ASSUME NEW c \in Procs, RefreshFails(c) PROVE LockHeld'
  <2>1. /\ pc[c] \in {"load", "crawl"} /\ UNCHANGED lock
        /\ \E l \in {"begin", "unlock", "end", "answer", "failed"} : Goto(c, l)
    BY <1>3 DEF RefreshFails
  <2> QED
    BY <2>1
<1>4. ASSUME NEW c \in Procs, Lock(c) PROVE LockHeld'
  BY <1>4 DEF Lock
<1>5. ASSUME NEW c \in Procs, Unlock(c) PROVE LockHeld'
  BY <1>5 DEF Unlock
<1> QED
  BY Actions, <1>1, <1>2, <1>3, <1>4, <1>5

\* Every step leads where the code goes on.
LEMMA InPlaceStep ==
  ASSUME Types, InPlace, [Next]_vars
  PROVE  InPlace'
<1> DEFINE Moved(c) == /\ PlaceOf(c, pc'[c], at'[c])
                       /\ \A d \in Procs \ {c} : pc'[d] = pc[d] /\ at'[d] = at[d]
<1> USE Constants DEF Types, PlaceOf, shared, caches, locals, history
<1>0. \A c \in Procs : PlaceOf(c, pc[c], at[c])
  BY DEF InPlace
<1> USE <1>0
<1>1. CASE UNCHANGED vars
  BY <1>1 DEF vars, InPlace
<1>2. ASSUME NEW c \in Procs, Check(c) \/ Count(c) PROVE Moved(c)
  <2>1. CASE Check(c)
    BY <2>1 DEF Check, Ensured
  <2>2. CASE Count(c)
    <3>1. pc'[c] = "compare" /\ pc[c] = "count" /\ at' = at /\ \A d \in Procs \ {c} : pc'[d] = pc[d]
      BY <2>2 DEF Count
    <3> QED BY <3>1
  <2> QED BY <1>2, <2>1, <2>2
<1>3. ASSUME NEW c \in Procs, Compare(c) PROVE Moved(c)
  BY <1>3 DEF Compare, Ensured
<1>4. ASSUME NEW c \in Procs,
             LoadSnapshot(c) \/ Match(c) \/ CrawlFolder(c) \/ CrawlDone(c) \/ Install(c)
       PROVE  Moved(c)
  BY <1>4 DEF LoadSnapshot, Match, CrawlFolder, CrawlDone, Install
<1>5. ASSUME NEW c \in Procs, RefreshFails(c) PROVE Moved(c)
  BY <1>5 DEF RefreshFails
<1>6. ASSUME NEW c \in Procs, Store(c) PROVE Moved(c)
  BY <1>6 DEF Store, Ensured
<1>7. ASSUME NEW c \in Procs,
             Ask(c) \/ Answer(c) \/ BeginOpen(c) \/ Stamp(c) \/ Publish(c) \/ Label(c)
       PROVE  Moved(c)
  BY <1>7 DEF Ask, Answer, BeginOpen, Stamp, Publish, Label
<1>8. ASSUME NEW c \in Procs, ParentsMade(c) PROVE Moved(c)
  BY <1>8 DEF ParentsMade, Bump
<1>9. ASSUME NEW c \in Procs, Commit(c) PROVE Moved(c)
  BY <1>9 DEF Commit, Bump
<1>10. ASSUME NEW c \in Procs, CommitAgain(c) PROVE Moved(c)
  BY <1>10 DEF CommitAgain, Bump
<1>11. ASSUME NEW c \in Procs,
             Lock(c) \/ Begin(c) \/ Refuse(c) \/ LookAgain(c) \/ Locate(c) \/
             MakeParents(c) \/ MakeDir(c) \/ MakeFails(c) \/ Request(c) \/ Record(c) \/
             Forget(c) \/ Finish(c) \/ EndMutation(c) \/ Unlock(c)
       PROVE  Moved(c)
  BY <1>11 DEF Lock, Begin, Refuse, LookAgain, Locate, MakeParents, MakeDir, MakeFails,
     Request, Record, Forget, Finish, EndMutation, Unlock
<1>12. ASSUME NEW c \in Procs, Moved(c) PROVE InPlace'
  BY <1>12 DEF InPlace
<1> QED
  BY Actions, <1>1, <1>2, <1>3, <1>4, <1>5, <1>6, <1>7, <1>8, <1>9, <1>10, <1>11, <1>12

\* Labels and generations seen are values the counter has had.
LEMMA NoneAheadStep ==
  ASSUME Types, NoneAhead, [Next]_vars
  PROVE  NoneAhead'
<1> USE Constants DEF Types, NoneAhead, NoFutureLabel, shared, caches, locals, history
<1> DEFINE Bumped(c) == /\ counter' = counter + 1
                        /\ label' = [label EXCEPT ![Dst[c]] = counter + 1]
<1>b. ASSUME NEW c, UNCHANGED <<snapshot, seen, loaded>>,
             Bumped(c) \/ UNCHANGED <<counter, label>>
      PROVE  NoneAhead'
  <2>1. CASE Bumped(c)
    <3>1. \A f \in Fs : label'[f] <= counter'
      BY <2>1
    <3> QED
      BY <1>b, <2>1, <3>1
  <2>2. CASE UNCHANGED <<counter, label>>
    BY <1>b, <2>2
  <2> QED
    BY <1>b, <2>1, <2>2
<1>1. CASE UNCHANGED vars
  BY <1>1 DEF vars
<1>2. ASSUME NEW c \in Procs, Check(c) \/ Count(c) PROVE NoneAhead'
  BY <1>2 DEF Check, Count, Ensured
<1>3. ASSUME NEW c \in Procs, LoadSnapshot(c) PROVE NoneAhead'
  BY <1>3 DEF LoadSnapshot
<1>4. ASSUME NEW c \in Procs, Match(c) PROVE NoneAhead'
  BY <1>4 DEF Match, Nothing
<1>5. ASSUME NEW c \in Procs, Install(c) PROVE NoneAhead'
  BY <1>5 DEF Install
<1>6. ASSUME NEW c \in Procs, Store(c) PROVE NoneAhead'
  BY <1>6 DEF Store, Ensured
<1>7. ASSUME NEW c \in Procs, Stamp(c) PROVE NoneAhead'
  BY <1>7 DEF Stamp
<1>8. ASSUME NEW c \in Procs, Publish(c) PROVE NoneAhead'
  BY <1>8 DEF Publish
<1>9. ASSUME NEW c \in Procs, Label(c) PROVE NoneAhead'
  BY <1>9 DEF Label
<1>10. ASSUME NEW c \in Procs, ParentsMade(c) PROVE NoneAhead'
  <2>1. /\ Bumped(c) \/ UNCHANGED <<counter, label>>
        /\ UNCHANGED <<snapshot, seen, loaded>>
    BY <1>10 DEF ParentsMade, Bump
  <2> QED
    BY <2>1, <1>b
<1>11. ASSUME NEW c \in Procs, Commit(c) PROVE NoneAhead'
  <2>1. Bumped(c) /\ UNCHANGED <<snapshot, seen, loaded>>
    BY <1>11 DEF Commit, Bump
  <2> QED
    BY <2>1, <1>b
<1>12. ASSUME NEW c \in Procs, CommitAgain(c) PROVE NoneAhead'
  <2>1. Bumped(c) /\ UNCHANGED <<snapshot, seen, loaded>>
    BY <1>12 DEF CommitAgain, Bump
  <2> QED
    BY <2>1, <1>b
<1>13. ASSUME NEW c \in Procs, Record(c) PROVE NoneAhead'
  BY <1>13 DEF Record
<1>14. ASSUME NEW c \in Procs, Forget(c) PROVE NoneAhead'
  BY <1>14 DEF Forget
<1>15. ASSUME NEW c \in Procs,
             Compare(c) \/ CrawlFolder(c) \/ CrawlDone(c) \/ RefreshFails(c) \/ Ask(c) \/
             Answer(c) \/ BeginOpen(c) \/ Lock(c) \/ Begin(c) \/ Refuse(c) \/ LookAgain(c)
             \/ Locate(c) \/ MakeParents(c) \/ MakeDir(c) \/ MakeFails(c) \/ Request(c) \/
             Finish(c) \/ EndMutation(c) \/ Unlock(c)
       PROVE  NoneAhead'
  BY <1>15 DEF Compare, CrawlFolder, CrawlDone, RefreshFails, Ask, Answer, BeginOpen,
     Lock, Begin, Refuse, LookAgain, Locate, MakeParents, MakeDir, MakeFails, Request,
     Finish, EndMutation, Unlock, Ensured
<1> QED
  BY Actions, <1>1, <1>2, <1>3, <1>4, <1>5, <1>6, <1>7, <1>8, <1>9, <1>10, <1>11, <1>12,
     <1>13, <1>14, <1>15

\* A label is set to the counter, or to the value it is about to have.
LEMMA LabelsGrowStep ==
  ASSUME Types, NoneAhead, [Next]_vars
  PROVE  \A f \in Fs : label'[f] >= label[f]
<1> USE Constants DEF Types, NoneAhead, NoFutureLabel, shared, caches, locals, history
<1>1. CASE UNCHANGED vars
  BY <1>1 DEF vars
<1>2. ASSUME NEW c \in Procs, Install(c) PROVE \A f \in Fs : label'[f] >= label[f]
  BY <1>2 DEF Install
<1>3. ASSUME NEW c \in Procs, Label(c) PROVE \A f \in Fs : label'[f] >= label[f]
  BY <1>3 DEF Label
<1>4. ASSUME NEW c \in Procs, ParentsMade(c) PROVE \A f \in Fs : label'[f] >= label[f]
  <2>1. /\ \/ counter' = counter + 1 /\ label' = [label EXCEPT ![Dst[c]] = counter + 1]
           \/ UNCHANGED <<counter, label>>
        /\ UNCHANGED <<snapshot, seen, loaded>>
    BY <1>4 DEF ParentsMade, Bump
  <2>2. /\ counter' \in Nat /\ counter' >= counter
        /\ \A f \in Fs : label'[f] = label[f] \/ label'[f] = counter'
    BY <2>1
  <2> QED
    BY <2>1, <2>2
<1>5. ASSUME NEW c \in Procs, Commit(c) PROVE \A f \in Fs : label'[f] >= label[f]
  BY <1>5 DEF Commit, Bump
<1>6. ASSUME NEW c \in Procs, CommitAgain(c) PROVE \A f \in Fs : label'[f] >= label[f]
  BY <1>6 DEF CommitAgain, Bump
<1>7. ASSUME NEW c \in Procs,
             Check(c) \/ Count(c) \/ Compare(c) \/ LoadSnapshot(c) \/ Match(c) \/ CrawlFolder(c) \/
             CrawlDone(c) \/ RefreshFails(c) \/ Store(c) \/ Ask(c) \/ Answer(c) \/
             BeginOpen(c) \/ Stamp(c) \/ Publish(c) \/ Lock(c) \/ Begin(c) \/ Refuse(c) \/
             LookAgain(c) \/ Locate(c) \/ MakeParents(c) \/ MakeDir(c) \/ MakeFails(c) \/
             Request(c) \/ Record(c) \/ Forget(c) \/ Finish(c) \/ EndMutation(c) \/
             Unlock(c)
       PROVE  \A f \in Fs : label'[f] >= label[f]
  BY <1>7 DEF Check, Count, Compare, LoadSnapshot, Match, CrawlFolder, CrawlDone, RefreshFails,
     Store, Ask, Answer, BeginOpen, Stamp, Publish, Lock, Begin, Refuse, LookAgain,
     Locate, MakeParents, MakeDir, MakeFails, Request, Record, Forget, Finish,
     EndMutation, Unlock, Ensured
<1> QED
  BY Actions, <1>1, <1>2, <1>3, <1>4, <1>5, <1>6, <1>7

\* activeMutations is raised by Begin and lowered by EndMutation.
LEMMA ActiveStep ==
  ASSUME Types, LockHeld, InPlace, ActiveCounts, [Next]_vars
  PROVE  ActiveCounts'
<1> USE Constants DEF shared, caches, locals, history
<1>t. pc \in [Procs -> Places] /\ at \in [Procs -> Fs] /\ active \in [Fs -> Int]
  BY DEF Types
<1> USE <1>t
<1>0. /\ \A m \in Mutations : PlaceOf(m, pc[m], at[m]) /\ ActiveOf(m, pc[m], active)
      /\ \A m \in Mutations : pc[m] \notin {"start", "done"} <=> lock = m
      /\ lock = Free => active = Zeros
  BY DEF InPlace, ActiveCounts, LockHeld
<1> DEFINE Others(c) == \A d \in Procs \ {c} : pc'[d] = pc[d]
<1> DEFINE Aside(c) == c \notin Mutations /\ Others(c) /\ UNCHANGED <<active, lock>>
<1> DEFINE Moved(c) ==
       /\ c \in Mutations /\ lock = c /\ lock' = c /\ Others(c)
       /\ ActiveOf(c, pc'[c], active')
<1>a. ASSUME NEW c \in Procs, Aside(c) PROVE ActiveCounts'
  BY <1>0, <1>a DEF ActiveCounts
<1>m. ASSUME NEW c \in Procs, Moved(c) PROVE ActiveCounts'
  <2>1. ASSUME NEW m \in Mutations, m # c PROVE ActiveOf(m, pc'[m], active')
    <3>1. pc'[m] \in {"start", "done"}
      BY <1>0, <1>m, <2>1
    <3> QED
      BY <3>1 DEF ActiveOf
  <2> QED
    BY <1>m, <2>1 DEF ActiveCounts
<1> HIDE DEF Aside, Moved
<1>o. \A m \in Mutations : Ones(m)[Dst[m]] = 1 /\ Ones(m)[Src[m]] = 1
  BY DEF Ones
<1>z. \A f \in Fs : Zeros[f] = 0
  BY DEF Zeros
<1>1. CASE UNCHANGED vars
  BY <1>1 DEF vars, ActiveCounts
<1>2. ASSUME NEW c \in Procs,
             Ask(c) \/ Answer(c) \/ BeginOpen(c) \/ Stamp(c) \/ Publish(c) \/ Label(c)
       PROVE  ActiveCounts'
  <2>1. Aside(c)
    BY <1>2 DEF Ask, Answer, BeginOpen, Stamp, Publish, Label, Aside
  <2> QED
    BY <2>1, <1>a
<1>3. ASSUME NEW c \in Procs, Check(c) \/ Count(c) PROVE ActiveCounts'
  <2>1. CASE c \in Mutations
    <3>1. /\ pc[c] \in {"check", "count"} /\ at[c] \in Fs
          /\ Others(c) /\ UNCHANGED <<active, lock>>
      BY <1>3, <2>1 DEF Check, Count, Ensured
    <3>2. active = Zeros
      BY <3>1, <2>1, <1>0 DEF ActiveOf
    <3>3. pc'[c] \in {"count", "compare"}
      BY <1>3, <2>1, <3>1, <3>2, <1>z DEF Check, Count
    <3>4. Moved(c)
      BY <3>1, <3>2, <3>3, <2>1, <1>0 DEF ActiveOf, Moved
    <3> QED
      BY <3>4, <1>m
  <2>2. CASE c \notin Mutations
    <3>1. Aside(c)
      BY <1>3, <2>2 DEF Check, Count, Ensured, Aside
    <3> QED
      BY <3>1, <1>a
  <2> QED
    BY <2>1, <2>2
<1>4. ASSUME NEW c \in Procs, Store(c) PROVE ActiveCounts'
  <2>1. CASE c \in Mutations
    <3>1. /\ pc[c] = "store" /\ Others(c) /\ UNCHANGED <<active, lock>>
          /\ at[c] \in {Src[c], Dst[c]}
      BY <1>4, <2>1, <1>0 DEF Store, Ensured, PlaceOf
    <3>2. pc'[c] = IF active[at[c]] # 0 THEN "run"
                    ELSE IF at[c] = Dst[c] THEN "begin" ELSE "check"
      BY <1>4, <2>1 DEF Store, Ensured
    <3>3. active = Zeros \/ active = Ones(c)
      BY <3>1, <2>1, <1>0 DEF ActiveOf
    <3>4. CASE active = Zeros
      <4>1. Moved(c)
        BY <3>1, <3>2, <3>4, <2>1, <1>0, <1>z DEF ActiveOf, Moved
      <4> QED
        BY <4>1, <1>m
    <3>5. CASE active = Ones(c)
      <4>1. Moved(c)
        BY <3>1, <3>2, <3>5, <2>1, <1>0, <1>o DEF ActiveOf, Moved
      <4> QED
        BY <4>1, <1>m
    <3> QED
      BY <3>3, <3>4, <3>5
  <2>2. CASE c \notin Mutations
    <3>1. Aside(c)
      BY <1>4, <2>2 DEF Store, Ensured, Aside
    <3> QED
      BY <3>1, <1>a
  <2> QED
    BY <2>1, <2>2
<1>5. ASSUME NEW c \in Procs, LoadSnapshot(c) PROVE ActiveCounts'
  <2>1. CASE c \in Mutations
    <3>1. /\ {pc[c], pc'[c]} \subseteq {"load", "match", "crawl", "install", "store"}
          /\ Others(c) /\ UNCHANGED <<active, lock>>
      BY <1>5, <2>1 DEF LoadSnapshot
    <3>2. Moved(c)
      BY <3>1, <2>1, <1>0 DEF ActiveOf, Moved
    <3> QED
      BY <3>2, <1>m
  <2>2. CASE c \notin Mutations
    <3>1. Aside(c)
      BY <1>5, <2>2 DEF LoadSnapshot, Aside
    <3> QED
      BY <3>1, <1>a
  <2> QED
    BY <2>1, <2>2
<1>6. ASSUME NEW c \in Procs, Match(c) PROVE ActiveCounts'
  <2>1. CASE c \in Mutations
    <3>1. /\ {pc[c], pc'[c]} \subseteq {"load", "match", "crawl", "install", "store"}
          /\ Others(c) /\ UNCHANGED <<active, lock>>
      BY <1>6, <2>1 DEF Match
    <3>2. Moved(c)
      BY <3>1, <2>1, <1>0 DEF ActiveOf, Moved
    <3> QED
      BY <3>2, <1>m
  <2>2. CASE c \notin Mutations
    <3>1. Aside(c)
      BY <1>6, <2>2 DEF Match, Aside
    <3> QED
      BY <3>1, <1>a
  <2> QED
    BY <2>1, <2>2
<1>7. ASSUME NEW c \in Procs, CrawlFolder(c) PROVE ActiveCounts'
  <2>1. CASE c \in Mutations
    <3>1. /\ {pc[c], pc'[c]} \subseteq {"load", "match", "crawl", "install", "store"}
          /\ Others(c) /\ UNCHANGED <<active, lock>>
      BY <1>7, <2>1 DEF CrawlFolder
    <3>2. Moved(c)
      BY <3>1, <2>1, <1>0 DEF ActiveOf, Moved
    <3> QED
      BY <3>2, <1>m
  <2>2. CASE c \notin Mutations
    <3>1. Aside(c)
      BY <1>7, <2>2 DEF CrawlFolder, Aside
    <3> QED
      BY <3>1, <1>a
  <2> QED
    BY <2>1, <2>2
<1>8. ASSUME NEW c \in Procs, CrawlDone(c) PROVE ActiveCounts'
  <2>1. CASE c \in Mutations
    <3>1. /\ {pc[c], pc'[c]} \subseteq {"load", "match", "crawl", "install", "store"}
          /\ Others(c) /\ UNCHANGED <<active, lock>>
      BY <1>8, <2>1 DEF CrawlDone
    <3>2. Moved(c)
      BY <3>1, <2>1, <1>0 DEF ActiveOf, Moved
    <3> QED
      BY <3>2, <1>m
  <2>2. CASE c \notin Mutations
    <3>1. Aside(c)
      BY <1>8, <2>2 DEF CrawlDone, Aside
    <3> QED
      BY <3>1, <1>a
  <2> QED
    BY <2>1, <2>2
<1>9. ASSUME NEW c \in Procs, Install(c) PROVE ActiveCounts'
  <2>1. CASE c \in Mutations
    <3>1. /\ {pc[c], pc'[c]} \subseteq {"load", "match", "crawl", "install", "store"}
          /\ Others(c) /\ UNCHANGED <<active, lock>>
      BY <1>9, <2>1 DEF Install
    <3>2. Moved(c)
      BY <3>1, <2>1, <1>0 DEF ActiveOf, Moved
    <3> QED
      BY <3>2, <1>m
  <2>2. CASE c \notin Mutations
    <3>1. Aside(c)
      BY <1>9, <2>2 DEF Install, Aside
    <3> QED
      BY <3>1, <1>a
  <2> QED
    BY <2>1, <2>2
<1>10. ASSUME NEW c \in Procs, Compare(c) PROVE ActiveCounts'
  <2>1. CASE c \in Mutations
    <3>1. /\ pc[c] = "compare" /\ Others(c) /\ UNCHANGED <<active, lock>>
          /\ active = Zeros /\ at[c] \in Fs
      BY <1>10, <2>1, <1>0 DEF Compare, Ensured, ActiveOf
    <3>2. pc'[c] \in {"load", "begin", "check"}
      BY <1>10, <2>1, <3>1, <1>z DEF Compare, Ensured
    <3>3. Moved(c)
      BY <3>1, <3>2, <2>1, <1>0 DEF ActiveOf, Moved
    <3> QED
      BY <3>3, <1>m
  <2>2. CASE c \notin Mutations
    <3>1. Aside(c)
      BY <1>10, <2>2 DEF Compare, Ensured, Aside
    <3> QED
      BY <3>1, <1>a
  <2> QED
    BY <2>1, <2>2
<1>11. ASSUME NEW c \in Procs, Refuse(c) PROVE ActiveCounts'
  <2>1. Moved(c)
    BY <1>11, <1>0 DEF Refuse, ActiveOf, Moved
  <2> QED
    BY <2>1, <1>m
<1>12. ASSUME NEW c \in Procs, LookAgain(c) PROVE ActiveCounts'
  <2>1. Moved(c)
    BY <1>12, <1>0 DEF LookAgain, ActiveOf, Moved
  <2> QED
    BY <2>1, <1>m
<1>13. ASSUME NEW c \in Procs, Locate(c) PROVE ActiveCounts'
  <2>1. Moved(c)
    BY <1>13, <1>0 DEF Locate, ActiveOf, Moved
  <2> QED
    BY <2>1, <1>m
<1>14. ASSUME NEW c \in Procs, MakeParents(c) PROVE ActiveCounts'
  <2>1. Moved(c)
    BY <1>14, <1>0 DEF MakeParents, ActiveOf, Moved
  <2> QED
    BY <2>1, <1>m
<1>15. ASSUME NEW c \in Procs, MakeDir(c) PROVE ActiveCounts'
  <2>1. Moved(c)
    BY <1>15, <1>0 DEF MakeDir, ActiveOf, Moved
  <2> QED
    BY <2>1, <1>m
<1>16. ASSUME NEW c \in Procs, MakeFails(c) PROVE ActiveCounts'
  <2>1. Moved(c)
    BY <1>16, <1>0 DEF MakeFails, ActiveOf, Moved
  <2> QED
    BY <2>1, <1>m
<1>17. ASSUME NEW c \in Procs, ParentsMade(c) PROVE ActiveCounts'
  <2>1. Moved(c)
    BY <1>17, <1>0 DEF ParentsMade, Bump, ActiveOf, Moved
  <2> QED
    BY <2>1, <1>m
<1>18. ASSUME NEW c \in Procs, Request(c) PROVE ActiveCounts'
  <2>1. Moved(c)
    BY <1>18, <1>0 DEF Request, ActiveOf, Moved
  <2> QED
    BY <2>1, <1>m
<1>19. ASSUME NEW c \in Procs, Record(c) PROVE ActiveCounts'
  <2>1. Moved(c)
    BY <1>19, <1>0 DEF Record, ActiveOf, Moved
  <2> QED
    BY <2>1, <1>m
<1>20. ASSUME NEW c \in Procs, Forget(c) PROVE ActiveCounts'
  <2>1. Moved(c)
    BY <1>20, <1>0 DEF Forget, ActiveOf, Moved
  <2> QED
    BY <2>1, <1>m
<1>21. ASSUME NEW c \in Procs, Finish(c) PROVE ActiveCounts'
  <2>1. Moved(c)
    BY <1>21, <1>0 DEF Finish, ActiveOf, Moved
  <2> QED
    BY <2>1, <1>m
<1>22. ASSUME NEW c \in Procs, RefreshFails(c) PROVE ActiveCounts'
  <2>1. CASE c \in Mutations
    <3>1. /\ pc[c] \in {"load", "crawl"} /\ Others(c) /\ UNCHANGED <<active, lock>>
          /\ at[c] \in {Src[c], Dst[c]}
      BY <1>22, <2>1, <1>0 DEF RefreshFails, PlaceOf
    <3>2. \/ active[at[c]] = 0 /\ pc'[c] \in {"begin", "unlock"}
          \/ active[at[c]] # 0 /\ pc'[c] = "end"
      BY <1>22, <2>1 DEF RefreshFails
    <3>3. active = Zeros \/ active = Ones(c)
      BY <3>1, <2>1, <1>0 DEF ActiveOf
    <3>4. CASE active = Zeros
      <4>1. Moved(c)
        BY <3>1, <3>2, <3>4, <2>1, <1>0, <1>z DEF ActiveOf, Moved
      <4> QED
        BY <4>1, <1>m
    <3>5. CASE active = Ones(c)
      <4>1. Moved(c)
        BY <3>1, <3>2, <3>5, <2>1, <1>0, <1>o DEF ActiveOf, Moved
      <4> QED
        BY <4>1, <1>m
    <3> QED
      BY <3>3, <3>4, <3>5
  <2>2. CASE c \notin Mutations
    <3>1. Aside(c)
      BY <1>22, <2>2 DEF RefreshFails, Aside
    <3> QED
      BY <3>1, <1>a
  <2> QED
    BY <2>1, <2>2
<1>23. ASSUME NEW c \in Procs, Lock(c) PROVE ActiveCounts'
  <2>1. /\ \A m \in Mutations \ {c} : pc'[m] = pc[m] /\ pc[m] \in {"start", "done"}
        /\ lock' = c /\ pc'[c] = "check" /\ active' = Zeros
    BY <1>23, <1>0 DEF Lock
  <2> QED
    BY <2>1 DEF ActiveCounts, ActiveOf
<1>24. ASSUME NEW c \in Procs, Commit(c) PROVE ActiveCounts'
  <2>1. /\ c \in Mutations /\ pc[c] = "run" /\ pc'[c] = "record" /\ Others(c)
        /\ UNCHANGED <<active, lock>>
    BY <1>24 DEF Commit, Bump
  <2>2. Moved(c)
    BY <2>1, <1>0 DEF ActiveOf, Moved
  <2> QED
    BY <2>2, <1>m
<1>25. ASSUME NEW c \in Procs, CommitAgain(c) PROVE ActiveCounts'
  <2>1. /\ c \in Mutations /\ pc[c] = "run" /\ pc'[c] = "record" /\ Others(c)
        /\ UNCHANGED <<active, lock>>
    BY <1>25 DEF CommitAgain, Bump
  <2>2. Moved(c)
    BY <2>1, <1>0 DEF ActiveOf, Moved
  <2> QED
    BY <2>2, <1>m
<1>26. ASSUME NEW c \in Procs, Begin(c) PROVE ActiveCounts'
  <2>1. c \in Mutations /\ lock = c /\ lock' = c /\ Others(c) /\ pc'[c] = "run" /\ active = Zeros
    BY <1>26, <1>0 DEF Begin, ActiveOf
  <2>2. active' = Ones(c)
    BY <1>26, <2>1 DEF Begin, Zeros, Ones
  <2>3. Moved(c)
    BY <2>1, <2>2 DEF ActiveOf, Moved
  <2> QED
    BY <2>3, <1>m
<1>27. ASSUME NEW c \in Procs, EndMutation(c) PROVE ActiveCounts'
  <2>1. c \in Mutations /\ lock = c /\ lock' = c /\ Others(c) /\ pc'[c] = "unlock" /\ active = Ones(c)
    BY <1>27, <1>0 DEF EndMutation, ActiveOf
  <2>2. active' = Zeros
    BY <1>27, <2>1 DEF EndMutation, Zeros, Ones
  <2>3. Moved(c)
    BY <2>1, <2>2 DEF ActiveOf, Moved
  <2> QED
    BY <2>3, <1>m
<1>28. ASSUME NEW c \in Procs, Unlock(c) PROVE ActiveCounts'
  <2>1. /\ \A m \in Mutations \ {c} : pc'[m] = pc[m] /\ pc[m] \in {"start", "done"}
        /\ lock' = Free /\ pc'[c] = "done" /\ active' = Zeros
    BY <1>28, <1>0 DEF Unlock, ActiveOf
  <2> QED
    BY <2>1 DEF ActiveCounts, ActiveOf
<1> QED
  BY Actions, <1>1, <1>2, <1>3, <1>4, <1>5, <1>6, <1>7, <1>8, <1>9, <1>10, <1>11, <1>12,
     <1>13, <1>14, <1>15, <1>16, <1>17, <1>18, <1>19, <1>20, <1>21, <1>22, <1>23, <1>24,
     <1>25, <1>26, <1>27, <1>28

LEMMA InitParts == Init => LockHeld /\ InPlace /\ NoneAhead
<1> SUFFICES ASSUME Init PROVE LockHeld /\ InPlace /\ NoneAhead
  OBVIOUS
<1> USE Constants
<1>1. LockHeld
  BY DEF Init, LockHeld
<1>2. InPlace
  BY DEF Init, InPlace, PlaceOf
<1>3. NoneAhead
  BY DEF Init, NoneAhead, NoFutureLabel, Nothing
<1> QED
  BY <1>1, <1>2, <1>3

\* At most one call of a course is past the course's lock (fs.go:416-453).
THEOREM OneMutationHolds == Spec => []OneMutation
<1>1. Types /\ LockHeld /\ [Next]_vars => (Types /\ LockHeld)'
  BY TypesStep, LockHeldStep
<1>2. LockHeld => OneMutation
  BY DEF LockHeld, OneMutation
<1> QED
  BY TypesInit, InitParts, <1>1, <1>2, PTL DEF Spec

\* No cache and no snapshot carries a generation still to come.
THEOREM NoFutureLabelHolds == Spec => []NoFutureLabel
<1>1. Types /\ NoneAhead /\ [Next]_vars => (Types /\ NoneAhead)'
  BY TypesStep, NoneAheadStep
<1>2. NoneAhead => NoFutureLabel
  BY DEF NoneAhead
<1> QED
  BY TypesInit, InitParts, <1>1, <1>2, PTL DEF Spec

\* An instance's generation never goes back.
THEOREM LabelsGrowHolds == Spec => LabelsGrow
<1>1. Types /\ NoneAhead /\ [Next]_vars => (Types /\ NoneAhead)'
  BY TypesStep, NoneAheadStep
<1>2. Types /\ NoneAhead /\ [Next]_vars => [\A f \in Fs : label'[f] >= label[f]]_vars
  BY LabelsGrowStep
<1> QED
  BY TypesInit, InitParts, <1>1, <1>2, PTL DEF Spec, LabelsGrow

-----------------------------------------------------------------------------
(* The caches are coherent. *)

Whole(t) == t \in Trees \cup {Blank}
Fetched == {"install", "stamp", "publish", "label"}

\* Trees are whole when they are kept, and the instances calls use have one.
WholeTrees ==
  /\ Whole(snapshot.tree)
  /\ \A f \in Fs : Whole(tree[f]) /\ (Open(f) => tree[f] \in Trees)
  /\ \A c \in Calls : pc[c] # "start" => Open(Src[c]) /\ Open(Dst[c])
  /\ \A c \in Procs :
       Whole(loaded[c].tree) /\ (pc[c] \in Fetched => root[c] \in Trees)

\* Changes are pending, and node pointers held, by a running mutation only.
PendingOf(m) ==
  /\ pc[m] # "run" => delta[m] = Blank
  /\ pc[m] # "make" => ~made[m] \/ faulted
  /\ ref[m] # "none" => pc[m] \in {"run", "make", "record", "end"}

PendingRuns == \A m \in Mutations : PendingOf(m)

\* What a fetch has so far is the course, and stays it until it is installed.
FetchesTheCourse ==
  /\ MutationRunning => ~ReaderRefreshing
  /\ \A m \in Mutations : ref[m] # "detached"
  /\ \A c \in Procs :
       /\ pc[c] = "match" /\ loaded[c].gen = counter /\ loaded[c].tree # Blank =>
            loaded[c].tree = server
       /\ pc[c] = "crawl" => \A k \in Folders : root[c][k] \in {None, server[k]}
       /\ pc[c] \in Fetched => root[c] = server

\* The lock's holder is as current as its place says.
HolderIsCurrent == \A m \in Mutations :
  /\ pc[m] = "compare" => seen[m] = counter
  /\ pc[m] \in {"store", "begin"} => label[at[m]] = counter

\* So is a lookup nobody disturbs.
LookupIsCurrent == \A l \in Lookups : undisturbed[l] =>
  /\ lock = Free
  /\ pc[l] = "compare" => seen[l] = counter
  /\ pc[l] \in {"store", "answer"} => label[at[l]] = counter

Kept ==
  /\ Coherent /\ ActsOnTheCourse
  /\ Clean => FetchesTheCourse /\ HolderIsCurrent /\ LookupIsCurrent

Base ==
  /\ Types /\ LockHeld /\ InPlace /\ ActiveCounts /\ NoneAhead /\ WholeTrees /\ PendingRuns

Inv == Base /\ Kept

-----------------------------------------------------------------------------
USE DEF Set, Goto

\* Only whole trees are kept, and an open instance stays open.
LEMMA WholeTreesStep ==
  ASSUME Types, InPlace, WholeTrees, [Next]_vars
  PROVE  WholeTrees'
<1> USE Constants DEF Types, shared, caches, locals, history
<1>0. /\ \A c \in Procs : PlaceOf(c, pc[c], at[c])
      /\ Whole(snapshot.tree)
      /\ \A f \in Fs : Whole(tree[f]) /\ (Open(f) => tree[f] \in Trees)
      /\ \A c \in Calls : pc[c] # "start" => Open(Src[c]) /\ Open(Dst[c])
      /\ \A c \in Procs :
           Whole(loaded[c].tree) /\ (pc[c] \in Fetched => root[c] \in Trees)
  BY DEF InPlace, WholeTrees
<1> DEFINE Others(c) == \A d \in Procs \ {c} : pc'[d] = pc[d] /\ root'[d] = root[d]
<1> DEFINE Moved(c) ==
       /\ Others(c) /\ pc[c] \notin {"done", "failed"}
       /\ Whole(snapshot'.tree)
       /\ \A d \in Procs : Whole(loaded'[d].tree)
       /\ \A f \in Fs : tree'[f] = tree[f] \/ (tree'[f] \in Trees)
       /\ c \in Opens /\ pc'[c] = "done" => tree'[c] \in Trees
       /\ c \in Calls /\ pc[c] = "start" => Open(Src[c]) /\ Open(Dst[c])
       /\ pc'[c] \in Fetched => root'[c] \in Trees
<1>a. ASSUME NEW c \in Procs, Moved(c) PROVE WholeTrees'
  <2>1. \A f \in Fs : Open(f) => Open(f)'
    BY <1>a DEF Open
  <2>2. \A d \in Calls : pc'[d] # "start" => Open(Src[d])' /\ Open(Dst[d])'
    BY <1>0, <1>a, <2>1
  <2>3. \A f \in Fs : Open(f)' => tree'[f] \in Trees
    BY <1>0, <1>a DEF Open
  <2>4. \A f \in Fs : Whole(tree'[f])
    BY <1>0, <1>a DEF Whole
  <2> QED
    BY <1>0, <1>a, <2>2, <2>3, <2>4 DEF WholeTrees
<1> HIDE DEF Moved
<1>1. CASE UNCHANGED vars
  BY <1>1 DEF vars, WholeTrees, Open, Whole
<1>2. ASSUME NEW c \in Procs, LoadSnapshot(c) PROVE WholeTrees'
  <2>1. Moved(c)
    BY <1>2, <1>0 DEF LoadSnapshot, Moved, Whole, PlaceOf, Fetched
  <2> QED
    BY <2>1, <1>a
<1>3. ASSUME NEW c \in Procs, Match(c) PROVE WholeTrees'
  <2>1. Moved(c)
    BY <1>3, <1>0 DEF Match, Moved, Whole, PlaceOf, Fetched, Nothing
  <2> QED
    BY <2>1, <1>a
<1>4. ASSUME NEW c \in Procs, CrawlFolder(c) PROVE WholeTrees'
  <2>1. Moved(c)
    BY <1>4, <1>0 DEF CrawlFolder, Moved, Whole, PlaceOf, Fetched
  <2> QED
    BY <2>1, <1>a
<1>5. ASSUME NEW c \in Procs, CrawlDone(c) PROVE WholeTrees'
  <2>1. Moved(c)
    BY <1>5, <1>0 DEF CrawlDone, Moved, Whole, PlaceOf, Fetched
  <2> QED
    BY <2>1, <1>a
<1>6. ASSUME NEW c \in Procs, Install(c) PROVE WholeTrees'
  <2>1. Moved(c)
    BY <1>6, <1>0 DEF Install, Moved, Whole, PlaceOf, Fetched
  <2> QED
    BY <2>1, <1>a
<1>7. ASSUME NEW c \in Procs, Store(c) PROVE WholeTrees'
  <2>1. Moved(c)
    BY <1>7, <1>0 DEF Store, Ensured, Moved, Whole, PlaceOf, Fetched
  <2> QED
    BY <2>1, <1>a
<1>8. ASSUME NEW c \in Procs, Publish(c) PROVE WholeTrees'
  <2>1. Moved(c)
    BY <1>8, <1>0 DEF Publish, Moved, Whole, PlaceOf, Fetched
  <2> QED
    BY <2>1, <1>a
<1>9. ASSUME NEW c \in Procs, Label(c) PROVE WholeTrees'
  <2>1. Moved(c)
    BY <1>9, <1>0 DEF Label, Moved, Whole, PlaceOf, Fetched
  <2> QED
    BY <2>1, <1>a
<1>10. ASSUME NEW c \in Procs, ParentsMade(c) PROVE WholeTrees'
  <2>1. Moved(c)
    BY <1>10, <1>0 DEF ParentsMade, Bump, Moved, Whole, PlaceOf, Fetched
  <2> QED
    BY <2>1, <1>a
<1>11. ASSUME NEW c \in Procs, CommitAgain(c) PROVE WholeTrees'
  <2>1. Moved(c)
    BY <1>11, <1>0 DEF CommitAgain, Bump, Moved, Whole, PlaceOf, Fetched
  <2> QED
    BY <2>1, <1>a
<1>12. ASSUME NEW c \in Procs, Record(c) PROVE WholeTrees'
  <2>1. Moved(c)
    BY <1>12, <1>0 DEF Record, Moved, Whole, PlaceOf, Fetched
  <2> QED
    BY <2>1, <1>a
<1>13. ASSUME NEW c \in Procs,
             Check(c) \/ Count(c) \/ Compare(c) \/ RefreshFails(c)
       PROVE  WholeTrees'
  <2>1. Moved(c)
    BY <1>13, <1>0 DEF Check, Count, Compare, RefreshFails, Ensured, Moved, Whole, PlaceOf, Fetched
  <2> QED
    BY <2>1, <1>a
<1>14. ASSUME NEW c \in Procs,
             Ask(c) \/ Answer(c) \/ BeginOpen(c) \/ Stamp(c) \/ Lock(c) \/ Begin(c) \/
             Refuse(c) \/ LookAgain(c) \/ Locate(c) \/ MakeParents(c) \/ MakeFails(c) \/
             Request(c) \/ Forget(c) \/ Finish(c) \/ EndMutation(c) \/ Unlock(c)
       PROVE  WholeTrees'
  <2>1. Moved(c)
    BY <1>14, <1>0 DEF Ask, Answer, BeginOpen, Stamp, Lock, Begin, Refuse, LookAgain, Locate, MakeParents,
       MakeFails, Request, Forget, Finish, EndMutation, Unlock, Moved, Whole, PlaceOf, Fetched
  <2> QED
    BY <2>1, <1>a
<1>15. ASSUME NEW c \in Procs, MakeDir(c) PROVE WholeTrees'
  <2>1. /\ c \in Mutations /\ pc[c] = "make" /\ UNCHANGED <<pc, root, snapshot, loaded>>
        /\ Dst[c] \in Fs /\ tree[Dst[c]] \in Trees
    BY <1>15, <1>0 DEF MakeDir
  <2>2. \E k \in Folders, v \in Contents : tree' = [tree EXCEPT ![Dst[c]][k] = v]
    BY <1>15 DEF MakeDir
  <2>3. \A f \in Fs : tree'[f] = tree[f] \/ tree'[f] \in Trees
    BY <2>1, <2>2 DEF Trees
  <2>4. Moved(c)
    BY <2>1, <2>3, <1>0 DEF Moved, Fetched
  <2> QED
    BY <2>4, <1>a
<1>16. ASSUME NEW c \in Procs, Commit(c) PROVE WholeTrees'
  <2>1. /\ c \in Mutations /\ pc[c] = "run" /\ pc' = [pc EXCEPT ![c] = "record"]
        /\ UNCHANGED <<root, snapshot, loaded>>
        /\ Dst[c] \in Fs /\ tree[Dst[c]] \in Trees /\ delta[c] \in PartTrees
    BY <1>16, <1>0 DEF Commit, Bump
  <2>2. Overlay(delta[c], tree[Dst[c]]) \in Trees
    BY <2>1 DEF Overlay, Trees, PartTrees
  <2>3. \A f \in Fs : tree'[f] = tree[f] \/ tree'[f] \in Trees
    BY <1>16, <2>2 DEF Commit
  <2>4. Moved(c)
    BY <2>1, <2>3, <1>0 DEF Moved, Fetched
  <2> QED
    BY <2>4, <1>a
<1> QED
  BY Actions, <1>1, <1>2, <1>3, <1>4, <1>5, <1>6, <1>7, <1>8, <1>9, <1>10, <1>11, <1>12,
     <1>13, <1>14, <1>15, <1>16

\* Changes are pending, and node pointers held, while a call runs.
LEMMA PendingRunsStep ==
  ASSUME Types, InPlace, PendingRuns, [Next]_vars
  PROVE  PendingRuns'
<1> USE Constants DEF Types, shared, caches, locals, history
<1>0. \A m \in Mutations : PendingOf(m)
  BY DEF PendingRuns
<1> DEFINE Moved(c) ==
       /\ \A m \in Mutations \ {c} :
            /\ pc'[m] = pc[m] /\ delta'[m] = delta[m] /\ made'[m] = made[m]
            /\ ref'[m] = ref[m] \/ ref[m] # "none"
       /\ faulted => faulted'
       /\ c \in Mutations => PendingOf(c)'
<1>a. ASSUME NEW c \in Procs, Moved(c) PROVE PendingRuns'
  <2>1. ASSUME NEW m \in Mutations, m # c PROVE PendingOf(m)'
    BY <1>0, <1>a, <2>1 DEF PendingOf
  <2> QED
    BY <1>a, <2>1 DEF PendingRuns
<1> HIDE DEF Moved
<1>1. CASE UNCHANGED vars
  BY <1>1 DEF vars, PendingRuns, PendingOf
<1>2. ASSUME NEW c \in Procs, Check(c) \/ Count(c) PROVE PendingRuns'
  <2>1. Moved(c)
    BY <1>2, <1>0 DEF Check, Count, Ensured, Moved, PendingOf
  <2> QED
    BY <2>1, <1>a
<1>3. ASSUME NEW c \in Procs, Compare(c) PROVE PendingRuns'
  <2>1. Moved(c)
    BY <1>3, <1>0 DEF Compare, Ensured, Moved, PendingOf
  <2> QED
    BY <2>1, <1>a
<1>4. ASSUME NEW c \in Procs,
             LoadSnapshot(c) \/ Match(c) \/ CrawlFolder(c) \/ CrawlDone(c)
       PROVE  PendingRuns'
  <2>1. Moved(c)
    BY <1>4, <1>0 DEF LoadSnapshot, Match, CrawlFolder, CrawlDone, Moved, PendingOf
  <2> QED
    BY <2>1, <1>a
<1>5. ASSUME NEW c \in Procs, RefreshFails(c) PROVE PendingRuns'
  <2>1. Moved(c)
    BY <1>5, <1>0 DEF RefreshFails, Moved, PendingOf
  <2> QED
    BY <2>1, <1>a
<1>6. ASSUME NEW c \in Procs, Install(c) PROVE PendingRuns'
  <2>1. Moved(c)
    BY <1>6, <1>0 DEF Install, Moved, PendingOf
  <2> QED
    BY <2>1, <1>a
<1>7. ASSUME NEW c \in Procs, Store(c) PROVE PendingRuns'
  <2>1. Moved(c)
    BY <1>7, <1>0 DEF Store, Ensured, Moved, PendingOf
  <2> QED
    BY <2>1, <1>a
<1>8. ASSUME NEW c \in Procs,
             Ask(c) \/ Answer(c) \/ BeginOpen(c) \/ Stamp(c) \/ Publish(c) \/ Label(c)
       PROVE  PendingRuns'
  <2>1. Moved(c)
    BY <1>8, <1>0 DEF Ask, Answer, BeginOpen, Stamp, Publish, Label, Moved, PendingOf
  <2> QED
    BY <2>1, <1>a
<1>9. ASSUME NEW c \in Procs,
             Lock(c) \/ Begin(c) \/ Refuse(c) \/ LookAgain(c) \/ Locate(c) \/
             MakeParents(c) \/ MakeDir(c)
       PROVE  PendingRuns'
  <2>1. Moved(c)
    BY <1>9, <1>0 DEF Lock, Begin, Refuse, LookAgain, Locate, MakeParents, MakeDir, Moved, PendingOf
  <2> QED
    BY <2>1, <1>a
<1>10. ASSUME NEW c \in Procs, MakeFails(c) PROVE PendingRuns'
  <2>1. Moved(c)
    BY <1>10, <1>0 DEF MakeFails, Moved, PendingOf
  <2> QED
    BY <2>1, <1>a
<1>11. ASSUME NEW c \in Procs, ParentsMade(c) PROVE PendingRuns'
  <2>1. Moved(c)
    BY <1>11, <1>0 DEF ParentsMade, Bump, Moved, PendingOf
  <2> QED
    BY <2>1, <1>a
<1>12. ASSUME NEW c \in Procs, Request(c) PROVE PendingRuns'
  <2>1. Moved(c)
    BY <1>12, <1>0 DEF Request, Moved, PendingOf
  <2> QED
    BY <2>1, <1>a
<1>13. ASSUME NEW c \in Procs, Commit(c) PROVE PendingRuns'
  <2>1. Moved(c)
    BY <1>13, <1>0 DEF Commit, Bump, Moved, PendingOf
  <2> QED
    BY <2>1, <1>a
<1>14. ASSUME NEW c \in Procs, CommitAgain(c) PROVE PendingRuns'
  <2>1. Moved(c)
    BY <1>14, <1>0 DEF CommitAgain, Bump, Moved, PendingOf
  <2> QED
    BY <2>1, <1>a
<1>15. ASSUME NEW c \in Procs, Record(c) PROVE PendingRuns'
  <2>1. Moved(c)
    BY <1>15, <1>0 DEF Record, Moved, PendingOf
  <2> QED
    BY <2>1, <1>a
<1>16. ASSUME NEW c \in Procs, Forget(c) PROVE PendingRuns'
  <2>1. Moved(c)
    BY <1>16, <1>0 DEF Forget, Moved, PendingOf
  <2> QED
    BY <2>1, <1>a
<1>17. ASSUME NEW c \in Procs,
             Finish(c) \/ EndMutation(c) \/ Unlock(c)
       PROVE  PendingRuns'
  <2>1. Moved(c)
    BY <1>17, <1>0 DEF Finish, EndMutation, Unlock, Moved, PendingOf
  <2> QED
    BY <2>1, <1>a
<1> QED
  BY Actions, <1>1, <1>2, <1>3, <1>4, <1>5, <1>6, <1>7, <1>8, <1>9, <1>10, <1>11, <1>12,
     <1>13, <1>14, <1>15, <1>16, <1>17

\* What the invariant says of who is on the way.
LEMMA Standing ==
  ASSUME Inv, Clean
  PROVE  /\ \A m \in Mutations : pc[m] \in Running =>
              /\ lock = m /\ active = Ones(m) /\ ~ReaderRefreshing
              /\ \A n \in Mutations \ {m} : pc[n] \in {"start", "done"}
         /\ (\A m \in Mutations : pc[m] \notin Running) => Settled
         /\ \A c \in Reader : pc[c] \in Refreshing =>
              Settled /\ active = Zeros /\ \A m \in Mutations : pc[m] \notin Running
         /\ \A c \in Mutations : pc[c] \notin Running \cup {"start", "done"} =>
              Settled /\ \A m \in Mutations : pc[m] \notin Running
         /\ lock = Free =>
              Settled /\ active = Zeros /\ \A m \in Mutations : pc[m] \notin Running
<1>1. \A m \in Mutations : PendingOf(m)
  BY DEF Inv, Base, PendingRuns
<1>2. (\A m \in Mutations : pc[m] \notin Running) => Settled
  BY <1>1 DEF PendingOf, Settled, Running, Clean
<1>3. \A m \in Mutations : pc[m] \notin {"start", "done"} <=> lock = m
  BY DEF Inv, Base, LockHeld
<1>4. MutationRunning => ~ReaderRefreshing
  BY DEF Inv, Kept, FetchesTheCourse
<1>5. \A m \in Mutations : ActiveOf(m, pc[m], active)
  BY DEF Inv, Base, ActiveCounts
<1>6. ASSUME NEW m \in Mutations, pc[m] \in Running
      PROVE  /\ lock = m /\ active = Ones(m) /\ ~ReaderRefreshing
             /\ \A n \in Mutations \ {m} : pc[n] \in {"start", "done"}
  <2>1. lock = m /\ \A n \in Mutations \ {m} : pc[n] \in {"start", "done"}
    BY <1>3, <1>6 DEF Running
  <2>2. active = Ones(m)
    BY <1>5, <1>6 DEF ActiveOf, Running
  <2>3. MutationRunning
    BY <2>2, Constants DEF MutationRunning, Ones
  <2> QED
    BY <1>4, <2>1, <2>2, <2>3
<1>7. ASSUME NEW c \in Reader, pc[c] \in Refreshing
      PROVE  active = Zeros /\ \A m \in Mutations : pc[m] \notin Running
  <2>1. ReaderRefreshing
    BY <1>7 DEF ReaderRefreshing
  <2>2. active \in [Fs -> Int]
    BY DEF Inv, Base, Types
  <2>3. active = Zeros
    BY <1>4, <2>1, <2>2 DEF MutationRunning, Zeros
  <2> QED
    BY <1>6, <2>1, <2>3
<1>8. ASSUME NEW c \in Mutations, pc[c] \notin Running \cup {"start", "done"}
      PROVE  \A m \in Mutations : pc[m] \notin Running
  BY <1>3, <1>8 DEF Running
<1>9. ASSUME lock = Free
      PROVE  active = Zeros /\ \A m \in Mutations : pc[m] \notin Running
  <2>1. active = Zeros
    BY <1>9 DEF Inv, Base, ActiveCounts
  <2>2. \A m \in Mutations : m # Free
    BY Constants
  <2> QED
    BY <1>3, <1>9, <2>1, <2>2 DEF Running
<1> QED
  BY <1>2, <1>6, <1>7, <1>8, <1>9

\* The steps of a mutation while it runs.
Works(m) ==
  \/ LookAgain(m) \/ Locate(m) \/ MakeParents(m) \/ MakeDir(m) \/ MakeFails(m)
  \/ ParentsMade(m) \/ Request(m) \/ Commit(m) \/ CommitAgain(m) \/ Record(m)
  \/ Forget(m) \/ Finish(m)

LEMMA Working ==
  ASSUME Types, NEW m \in Procs, Works(m)
  PROVE  /\ m \in Mutations /\ pc[m] \in Running
         /\ pc'[m] \in Running \cup {"end", "load"}
         /\ \A d \in Procs \ {m} : pc'[d] = pc[d]
         /\ \A n \in Mutations : ref'[n] = ref[n] \/ ref'[n] \in {"none", "attached"}
         /\ UNCHANGED <<lock, active, at, seen, loaded, root, raced, undisturbed>>
<1> USE Constants DEF Types, shared, caches, locals, history, Running
<1>1. CASE ParentsMade(m)
  BY <1>1 DEF ParentsMade, Bump
<1>2. CASE Commit(m)
  BY <1>2 DEF Commit, Bump
<1>3. CASE CommitAgain(m)
  BY <1>3 DEF CommitAgain, Bump
<1>4. CASE MakeFails(m)
  BY <1>4 DEF MakeFails
<1>5. CASE LookAgain(m) \/ Locate(m) \/ MakeParents(m) \/ MakeDir(m) \/ Request(m)
  BY <1>5 DEF LookAgain, Locate, MakeParents, MakeDir, Request
<1>6. CASE Record(m) \/ Forget(m) \/ Finish(m)
  BY <1>6 DEF Record, Forget, Finish
<1> QED
  BY <1>1, <1>2, <1>3, <1>4, <1>5, <1>6 DEF Works

\* What a refresh or NewFs reads stays the course until it is installed.
LEMMA FetchesStep ==
  ASSUME Inv, Clean, Clean', [Next]_vars
  PROVE  FetchesTheCourse'
<1> USE Constants DEF shared, caches, locals, history
<1> DEFINE FetchOf(c) ==
       /\ pc[c] = "match" /\ loaded[c].gen = counter /\ loaded[c].tree # Blank =>
            loaded[c].tree = server
       /\ pc[c] = "crawl" => \A k \in Folders : root[c][k] \in {None, server[k]}
       /\ pc[c] \in Fetched => root[c] = server
<1>0. /\ Types /\ InPlace /\ LockHeld /\ PendingRuns /\ Coherent
      /\ MutationRunning => ~ReaderRefreshing
      /\ \A m \in Mutations : ref[m] # "detached"
      /\ \A c \in Procs : FetchOf(c)
  BY DEF Inv, Base, Kept, FetchesTheCourse
<1>s. /\ \A m \in Mutations : pc[m] \in Running =>
           /\ active = Ones(m) /\ ~ReaderRefreshing
           /\ \A n \in Mutations \ {m} : pc[n] \in {"start", "done"}
      /\ \A c \in Reader : pc[c] \in Refreshing => Settled /\ active = Zeros
      /\ \A c \in Mutations : pc[c] \notin Running \cup {"start", "done"} => Settled
  BY Standing
\* A call that leaves the course, the counter and the snapshots of others alone.
<1> DEFINE Moved(c) ==
       /\ \A d \in Procs \ {c} :
            pc'[d] = pc[d] /\ loaded'[d] = loaded[d] /\ root'[d] = root[d]
       /\ UNCHANGED <<server, counter>>
       /\ \A m \in Mutations : ref'[m] # "detached"
       /\ FetchOf(c)'
       /\ MutationRunning' => ~ReaderRefreshing'
<1>a. ASSUME NEW c \in Procs, Moved(c) PROVE FetchesTheCourse'
  <2>1. \A d \in Procs \ {c} : FetchOf(d)'
    BY <1>0, <1>a
  <2> QED
    BY <1>a, <2>1 DEF FetchesTheCourse
<1>b. ASSUME NEW c \in Procs, UNCHANGED active, \A d \in Procs \ {c} : pc'[d] = pc[d],
             c \in Reader /\ pc'[c] \in Refreshing => pc[c] \in Refreshing
      PROVE  MutationRunning' => ~ReaderRefreshing'
  <2>1. ReaderRefreshing' => ReaderRefreshing
    BY <1>b DEF ReaderRefreshing, Reader
  <2> QED
    BY <1>0, <1>b, <2>1 DEF MutationRunning
<1>w. ASSUME NEW c \in Procs, Works(c) PROVE FetchesTheCourse'
  <2>1. /\ c \in Mutations /\ pc[c] \in Running /\ pc'[c] \in Running \cup {"end", "load"}
        /\ \A d \in Procs \ {c} : pc'[d] = pc[d]
        /\ \A n \in Mutations : ref'[n] = ref[n] \/ ref'[n] \in {"none", "attached"}
        /\ UNCHANGED active
    BY <1>0, <1>w, Working
  <2>2. \A d \in Procs : pc'[d] \notin Fetched \cup {"match", "crawl"}
    <3>2. ASSUME NEW d \in Mutations, d # c PROVE pc'[d] \notin Fetched \cup {"match", "crawl"}
      BY <1>s, <2>1, <3>2 DEF Fetched
    <3>3. ASSUME NEW d \in Reader, d # c PROVE pc'[d] \notin Fetched \cup {"match", "crawl"}
      BY <1>s, <2>1, <3>3 DEF Fetched, ReaderRefreshing, Refreshing, Reader
    <3>4. pc'[c] \notin Fetched \cup {"match", "crawl"}
      BY <2>1 DEF Running, Fetched
    <3> QED
      BY <3>2, <3>3, <3>4 DEF Reader
  <2>3. MutationRunning' => ~ReaderRefreshing'
    BY <1>b, <2>1 DEF Reader
  <2>4. \A d \in Procs : FetchOf(d)'
    BY <2>2 DEF Fetched
  <2>5. \A m \in Mutations : ref'[m] # "detached"
    BY <1>0, <2>1
  <2> QED
    BY <2>3, <2>4, <2>5 DEF FetchesTheCourse
<1> HIDE DEF Moved
<1>1. CASE UNCHANGED vars
  BY <1>0, <1>1 DEF vars, FetchesTheCourse, MutationRunning, ReaderRefreshing
<1>2. ASSUME NEW c \in Procs,
             LookAgain(c) \/ Locate(c) \/ MakeParents(c) \/ MakeDir(c) \/ MakeFails(c) \/
             ParentsMade(c) \/ Request(c) \/ Commit(c) \/ CommitAgain(c) \/ Record(c) \/
             Forget(c) \/ Finish(c)
       PROVE  FetchesTheCourse'
  BY <1>2, <1>w DEF Works
<1>3. ASSUME NEW c \in Procs, Check(c) \/ Count(c) PROVE FetchesTheCourse'
  <2>1. /\ UNCHANGED active /\ \A d \in Procs \ {c} : pc'[d] = pc[d]
        /\ c \in Reader /\ pc'[c] \in Refreshing => pc[c] \in Refreshing
    BY <1>3, <1>0 DEF Check, Count, Ensured, Types, Refreshing, Reader
  <2>2. MutationRunning' => ~ReaderRefreshing'
    BY <2>1, <1>b
  <2>3. Moved(c)
    BY <1>3, <1>0, <2>2 DEF Check, Count, Ensured, Moved, Types, Fetched
  <2> QED
    BY <2>3, <1>a
<1>4. ASSUME NEW c \in Procs, Store(c) PROVE FetchesTheCourse'
  <2>1. /\ UNCHANGED active /\ \A d \in Procs \ {c} : pc'[d] = pc[d]
        /\ c \in Reader /\ pc'[c] \in Refreshing => pc[c] \in Refreshing
    BY <1>4, <1>0 DEF Store, Ensured, Types, Refreshing, Reader
  <2>2. MutationRunning' => ~ReaderRefreshing'
    BY <2>1, <1>b
  <2>3. Moved(c)
    BY <1>4, <1>0, <2>2 DEF Store, Ensured, Moved, Types, Fetched
  <2> QED
    BY <2>3, <1>a
<1>5. ASSUME NEW c \in Procs, Ask(c) PROVE FetchesTheCourse'
  <2>1. /\ UNCHANGED active /\ \A d \in Procs \ {c} : pc'[d] = pc[d]
        /\ c \in Reader /\ pc'[c] \in Refreshing => pc[c] \in Refreshing
    BY <1>5, <1>0 DEF Ask, Types, Refreshing, Reader
  <2>2. MutationRunning' => ~ReaderRefreshing'
    BY <2>1, <1>b
  <2>3. Moved(c)
    BY <1>5, <1>0, <2>2 DEF Ask, Moved, Types, Fetched
  <2> QED
    BY <2>3, <1>a
<1>6. ASSUME NEW c \in Procs, Answer(c) PROVE FetchesTheCourse'
  <2>1. /\ UNCHANGED active /\ \A d \in Procs \ {c} : pc'[d] = pc[d]
        /\ c \in Reader /\ pc'[c] \in Refreshing => pc[c] \in Refreshing
    BY <1>6, <1>0 DEF Answer, Types, Refreshing, Reader
  <2>2. MutationRunning' => ~ReaderRefreshing'
    BY <2>1, <1>b
  <2>3. Moved(c)
    BY <1>6, <1>0, <2>2 DEF Answer, Moved, Types, Fetched
  <2> QED
    BY <2>3, <1>a
<1>7. ASSUME NEW c \in Procs, Stamp(c) PROVE FetchesTheCourse'
  <2>1. /\ UNCHANGED active /\ \A d \in Procs \ {c} : pc'[d] = pc[d]
        /\ c \in Reader /\ pc'[c] \in Refreshing => pc[c] \in Refreshing
    BY <1>7, <1>0 DEF Stamp, Types, Refreshing, Reader
  <2>2. MutationRunning' => ~ReaderRefreshing'
    BY <2>1, <1>b
  <2>3. Moved(c)
    BY <1>7, <1>0, <2>2 DEF Stamp, Moved, Types, Fetched
  <2> QED
    BY <2>3, <1>a
<1>8. ASSUME NEW c \in Procs, Publish(c) PROVE FetchesTheCourse'
  <2>1. /\ UNCHANGED active /\ \A d \in Procs \ {c} : pc'[d] = pc[d]
        /\ c \in Reader /\ pc'[c] \in Refreshing => pc[c] \in Refreshing
    BY <1>8, <1>0 DEF Publish, Types, Refreshing, Reader
  <2>2. MutationRunning' => ~ReaderRefreshing'
    BY <2>1, <1>b
  <2>3. Moved(c)
    BY <1>8, <1>0, <2>2 DEF Publish, Moved, Types, Fetched
  <2> QED
    BY <2>3, <1>a
<1>9. ASSUME NEW c \in Procs, Label(c) PROVE FetchesTheCourse'
  <2>1. /\ UNCHANGED active /\ \A d \in Procs \ {c} : pc'[d] = pc[d]
        /\ c \in Reader /\ pc'[c] \in Refreshing => pc[c] \in Refreshing
    BY <1>9, <1>0 DEF Label, Types, Refreshing, Reader
  <2>2. MutationRunning' => ~ReaderRefreshing'
    BY <2>1, <1>b
  <2>3. Moved(c)
    BY <1>9, <1>0, <2>2 DEF Label, Moved, Types, Fetched
  <2> QED
    BY <2>3, <1>a
<1>10. ASSUME NEW c \in Procs, Lock(c) PROVE FetchesTheCourse'
  <2>1. /\ UNCHANGED active /\ \A d \in Procs \ {c} : pc'[d] = pc[d]
        /\ c \in Reader /\ pc'[c] \in Refreshing => pc[c] \in Refreshing
    BY <1>10, <1>0 DEF Lock, Types, Refreshing, Reader
  <2>2. MutationRunning' => ~ReaderRefreshing'
    BY <2>1, <1>b
  <2>3. Moved(c)
    BY <1>10, <1>0, <2>2 DEF Lock, Moved, Types, Fetched
  <2> QED
    BY <2>3, <1>a
<1>11. ASSUME NEW c \in Procs, Refuse(c) PROVE FetchesTheCourse'
  <2>1. /\ UNCHANGED active /\ \A d \in Procs \ {c} : pc'[d] = pc[d]
        /\ c \in Reader /\ pc'[c] \in Refreshing => pc[c] \in Refreshing
    BY <1>11, <1>0 DEF Refuse, Types, Refreshing, Reader
  <2>2. MutationRunning' => ~ReaderRefreshing'
    BY <2>1, <1>b
  <2>3. Moved(c)
    BY <1>11, <1>0, <2>2 DEF Refuse, Moved, Types, Fetched
  <2> QED
    BY <2>3, <1>a
<1>12. ASSUME NEW c \in Procs, Unlock(c) PROVE FetchesTheCourse'
  <2>1. /\ UNCHANGED active /\ \A d \in Procs \ {c} : pc'[d] = pc[d]
        /\ c \in Reader /\ pc'[c] \in Refreshing => pc[c] \in Refreshing
    BY <1>12, <1>0 DEF Unlock, Types, Refreshing, Reader
  <2>2. MutationRunning' => ~ReaderRefreshing'
    BY <2>1, <1>b
  <2>3. Moved(c)
    BY <1>12, <1>0, <2>2 DEF Unlock, Moved, Types, Fetched
  <2> QED
    BY <2>3, <1>a
<1>13. ASSUME NEW c \in Procs, CrawlFolder(c) PROVE FetchesTheCourse'
  <2>1. /\ UNCHANGED active /\ \A d \in Procs \ {c} : pc'[d] = pc[d]
        /\ c \in Reader /\ pc'[c] \in Refreshing => pc[c] \in Refreshing
    BY <1>13, <1>0 DEF CrawlFolder, Types, Refreshing, Reader
  <2>2. MutationRunning' => ~ReaderRefreshing'
    BY <2>1, <1>b
  <2>3. Moved(c)
    BY <1>13, <1>0, <2>2 DEF CrawlFolder, Moved, Types, Fetched
  <2> QED
    BY <2>3, <1>a
<1>14. ASSUME NEW c \in Procs, RefreshFails(c) PROVE FetchesTheCourse'
  <2>1. /\ pc[c] \in {"load", "crawl"}
        /\ pc'[c] \in {"begin", "unlock", "end", "answer", "failed"}
        /\ \A d \in Procs \ {c} : pc'[d] = pc[d]
        /\ UNCHANGED <<server, counter, active, loaded, root, ref>>
    BY <1>14, <1>0 DEF RefreshFails, Types
  <2>2. MutationRunning' => ~ReaderRefreshing'
    BY <2>1, <1>b DEF Refreshing
  <2>3. Moved(c)
    BY <2>1, <2>2, <1>0 DEF Moved, Fetched
  <2> QED
    BY <2>3, <1>a
<1>15. ASSUME NEW c \in Procs, Compare(c) PROVE FetchesTheCourse'
  <2>1. /\ \A d \in Procs \ {c} : pc'[d] = pc[d]
        /\ pc'[c] \in {"load", "answer", "run", "begin", "check"}
        /\ UNCHANGED <<server, counter, active, loaded, root, ref>>
    BY <1>15, <1>0 DEF Compare, Ensured, Types
  <2>2. MutationRunning' => ~ReaderRefreshing'
    <3>1. CASE c \in Lookups /\ pc'[c] = "load"
      <4>1. label[at[c]] # seen[c]
        BY <1>15, <3>1, <1>0 DEF Compare, Ensured, Types
      <4>2. ~MutationRunning
        BY <1>15, <3>1, <4>1 DEF Compare, Clean
      <4> QED
        BY <4>2, <2>1 DEF MutationRunning
    <3>2. CASE ~(c \in Lookups /\ pc'[c] = "load")
      <4>1. c \in Reader => pc'[c] \notin Refreshing
        BY <1>15, <2>1, <3>2 DEF Compare, Reader, Refreshing
      <4> QED
        BY <4>1, <2>1, <1>b
    <3> QED
      BY <3>1, <3>2
  <2>3. Moved(c)
    BY <2>1, <2>2, <1>0 DEF Moved, Fetched
  <2> QED
    BY <2>3, <1>a
<1>16. ASSUME NEW c \in Procs, CrawlDone(c) PROVE FetchesTheCourse'
  <2>1. /\ UNCHANGED active /\ \A d \in Procs \ {c} : pc'[d] = pc[d]
        /\ c \in Reader /\ pc'[c] \in Refreshing => pc[c] \in Refreshing
    BY <1>16, <1>0 DEF CrawlDone, Types, Refreshing, Reader
  <2>2. MutationRunning' => ~ReaderRefreshing'
    BY <2>1, <1>b
  <2>3. /\ pc[c] = "crawl" /\ root[c] \in Trees /\ server \in Trees
        /\ pc'[c] \in {"install", "stamp"} /\ UNCHANGED <<server, counter, loaded, root, ref>>
    BY <1>16, <1>0 DEF CrawlDone, Types
  <2>4. \A k \in Folders : root[c][k] = server[k]
    BY <2>3, <1>0, ValuesAssumption DEF Trees
  <2>5. root[c] = server
    BY <2>3, <2>4 DEF Trees
  <2>6. Moved(c)
    BY <2>1, <2>2, <2>3, <2>5, <1>0 DEF Moved, Fetched
  <2> QED
    BY <2>6, <1>a
<1>17. ASSUME NEW c \in Procs, LoadSnapshot(c) PROVE FetchesTheCourse'
  <2>1. /\ UNCHANGED active /\ \A d \in Procs \ {c} : pc'[d] = pc[d]
        /\ c \in Reader /\ pc'[c] \in Refreshing => pc[c] \in Refreshing
    BY <1>17, <1>0 DEF LoadSnapshot, Types, Refreshing, Reader
  <2>2. MutationRunning' => ~ReaderRefreshing'
    BY <2>1, <1>b
  <2>3. Settled
    BY <1>17, <1>s DEF LoadSnapshot, Running, Refreshing, Reader
  <2>4. snapshot.gen = counter /\ snapshot.tree # Blank => snapshot.tree = server
    BY <2>3, <1>0 DEF Coherent
  <2>5. Moved(c)
    BY <1>17, <1>0, <2>2, <2>4 DEF LoadSnapshot, Moved, Types, Fetched
  <2> QED
    BY <2>5, <1>a
<1>18. ASSUME NEW c \in Procs, Match(c) PROVE FetchesTheCourse'
  <2>1. /\ UNCHANGED active /\ \A d \in Procs \ {c} : pc'[d] = pc[d]
        /\ c \in Reader /\ pc'[c] \in Refreshing => pc[c] \in Refreshing
    BY <1>18, <1>0 DEF Match, Types, Refreshing, Reader
  <2>2. MutationRunning' => ~ReaderRefreshing'
    BY <2>1, <1>b
  <2>3. pc[c] = "match" /\ FetchOf(c) /\ pc'[c] \in {"crawl", "install", "label"}
    BY <1>18, <1>0 DEF Match, Types
  <2>4. FetchOf(c)'
    <3>1. CASE loaded[c].gen = counter /\ loaded[c].tree # Blank
      BY <1>18, <2>3, <3>1, <1>0 DEF Match, Types, Fetched
    <3>2. CASE ~(loaded[c].gen = counter /\ loaded[c].tree # Blank)
      BY <1>18, <2>3, <3>2, <1>0 DEF Match, Types, Fetched, Blank
    <3> QED
      BY <3>1, <3>2
  <2>5. /\ \A d \in Procs \ {c} :
             pc'[d] = pc[d] /\ loaded'[d] = loaded[d] /\ root'[d] = root[d]
        /\ UNCHANGED <<server, counter, ref>>
    BY <1>18, <1>0 DEF Match, Types
  <2>6. Moved(c)
    BY <1>0, <2>2, <2>4, <2>5 DEF Moved
  <2> QED
    BY <2>6, <1>a
<1>19. ASSUME NEW c \in Procs, Install(c) PROVE FetchesTheCourse'
  <2>1. /\ UNCHANGED active /\ \A d \in Procs \ {c} : pc'[d] = pc[d]
        /\ c \in Reader /\ pc'[c] \in Refreshing => pc[c] \in Refreshing
    BY <1>19, <1>0 DEF Install, Types, Refreshing, Reader
  <2>2. MutationRunning' => ~ReaderRefreshing'
    BY <2>1, <1>b
  <2>3. ASSUME NEW m \in Mutations PROVE ref'[m] # "detached"
    <3>1. CASE ref[m] # "attached"
      BY <1>19, <2>3, <3>1, <1>0 DEF Install
    <3>2. CASE ref[m] = "attached"
      <4>1. pc[m] \in {"run", "make", "record", "end"}
        BY <2>3, <3>2, <1>0 DEF PendingRuns, PendingOf
      <4>2. c \notin Mutations
        BY <1>19, <4>1, <2>3, <1>0 DEF Install, LockHeld
      <4>3. active = Zeros
        BY <1>19, <4>2, <1>s DEF Install, Reader, Refreshing
      <4>4. active = Ones(m)
        BY <4>1, <2>3 DEF Inv, Base, ActiveCounts, ActiveOf
      <4> QED
        BY <4>3, <4>4, <2>3 DEF Zeros, Ones
    <3> QED
      BY <3>1, <3>2
  <2>4. Moved(c)
    BY <1>19, <1>0, <2>2, <2>3 DEF Install, Moved, Types, Fetched
  <2> QED
    BY <2>4, <1>a
<1>20. ASSUME NEW c \in Procs, BeginOpen(c) PROVE FetchesTheCourse'
  <2>1. ~MutationRunning /\ UNCHANGED active
    BY <1>20 DEF BeginOpen, Clean
  <2>2. ~MutationRunning'
    BY <2>1 DEF MutationRunning
  <2>3. Moved(c)
    BY <1>20, <1>0, <2>2 DEF BeginOpen, Moved, Types, Fetched
  <2> QED
    BY <2>3, <1>a
<1>21. ASSUME NEW c \in Procs, Begin(c) PROVE FetchesTheCourse'
  <2>1. /\ ~ReaderRefreshing /\ c \in Mutations /\ pc'[c] = "run"
        /\ \A d \in Procs \ {c} : pc'[d] = pc[d]
        /\ UNCHANGED <<server, counter, loaded, root, ref>>
    BY <1>21, <1>0 DEF Begin, Clean, Types
  <2>2. ~ReaderRefreshing'
    BY <2>1 DEF ReaderRefreshing, Reader
  <2>3. Moved(c)
    BY <2>1, <2>2, <1>0 DEF Moved, Fetched
  <2> QED
    BY <2>3, <1>a
<1>22. ASSUME NEW c \in Procs, EndMutation(c) PROVE FetchesTheCourse'
  <2>1. /\ c \in Mutations /\ pc[c] = "end" /\ pc'[c] = "unlock"
        /\ \A d \in Procs \ {c} : pc'[d] = pc[d]
        /\ \A m \in Mutations : ref'[m] = ref[m] \/ ref'[m] = "none"
        /\ UNCHANGED <<server, counter, loaded, root>>
    BY <1>22, <1>0 DEF EndMutation, Types
  <2>2. active = Ones(c)
    BY <2>1 DEF Inv, Base, ActiveCounts, ActiveOf
  <2>3. ~ReaderRefreshing
    BY <2>1, <2>2, <1>0 DEF MutationRunning, Ones
  <2>4. ~ReaderRefreshing'
    BY <2>1, <2>3 DEF ReaderRefreshing, Reader
  <2>5. Moved(c)
    BY <2>1, <2>4, <1>0 DEF Moved, Fetched
  <2> QED
    BY <2>5, <1>a
<1> QED
  BY Actions, <1>1, <1>2, <1>3, <1>4, <1>5, <1>6, <1>7, <1>8, <1>9, <1>10, <1>11, <1>12,
     <1>13, <1>14, <1>15, <1>16, <1>17, <1>18, <1>19, <1>20, <1>21, <1>22

\* Once clean no more, never again.
LEMMA CleanBefore ==
  ASSUME Types, [Next]_vars, Clean'
  PROVE  Clean
<1> USE DEF shared, caches, locals, history, Clean, Types
<1>1. CASE UNCHANGED vars
  BY <1>1 DEF vars
<1>2. ASSUME NEW c \in Procs,
             Check(c) \/ Count(c) \/ LoadSnapshot(c) \/ Match(c) \/ CrawlFolder(c) \/ CrawlDone(c) \/
             Install(c) \/ Store(c) \/ Ask(c) \/ Answer(c) \/ Stamp(c) \/ Publish(c) \/
             Label(c) \/ Lock(c) \/ Refuse(c) \/ LookAgain(c) \/ Locate(c) \/
             MakeParents(c) \/ MakeDir(c) \/ ParentsMade(c) \/ Request(c) \/ Commit(c) \/
             CommitAgain(c) \/ Record(c) \/ Forget(c) \/ EndMutation(c) \/ Unlock(c)
       PROVE  Clean
  BY <1>2 DEF Check, Count, LoadSnapshot, Match, CrawlFolder, CrawlDone, Install, Store, Ask,
     Answer, Stamp, Publish, Label, Lock, Refuse, LookAgain, Locate, MakeParents, MakeDir,
     ParentsMade, Request, Commit, CommitAgain, Record, Forget, EndMutation, Unlock,
     Ensured, Bump
<1>3. ASSUME NEW c \in Procs, Compare(c) PROVE Clean
  BY <1>3 DEF Compare, Ensured
<1>4. ASSUME NEW c \in Procs, Begin(c) PROVE Clean
  BY <1>4 DEF Begin
<1>5. ASSUME NEW c \in Procs, BeginOpen(c) PROVE Clean
  BY <1>5 DEF BeginOpen
<1>6. ASSUME NEW c \in Procs, RefreshFails(c) PROVE Clean
  BY <1>6 DEF RefreshFails
<1>7. ASSUME NEW c \in Procs, MakeFails(c) PROVE Clean
  BY <1>7 DEF MakeFails
<1>8. ASSUME NEW c \in Procs, Finish(c) PROVE Clean
  BY <1>8 DEF Finish
<1> QED
  BY Actions, <1>1, <1>2, <1>3, <1>4, <1>5, <1>6, <1>7, <1>8

LEMMA BlankOverlay == \A t \in PartTrees : Overlay(Blank, t) = t
  BY DEF Overlay, Blank, PartTrees

\* A label set to the counter goes with a tree that shows the course.
LEMMA CoherentStep ==
  ASSUME Inv, [Next]_vars
  PROVE  Coherent'
<1> SUFFICES ASSUME Clean', Settled' PROVE Coherent'
  BY DEF Coherent
<1> USE Constants DEF shared, caches, locals, history
<1>c. Clean
  BY CleanBefore DEF Inv, Base
<1>0. /\ Types /\ InPlace /\ WholeTrees /\ NoneAhead /\ PendingRuns
      /\ Coherent /\ ActsOnTheCourse
  BY DEF Inv, Base, Kept
<1>r. FetchesTheCourse /\ HolderIsCurrent
  BY <1>c DEF Inv, Kept
<1>s. /\ \A c \in Reader : pc[c] \in Refreshing => Settled
      /\ \A c \in Mutations : pc[c] \notin Running \cup {"start", "done"} => Settled
  BY <1>c, Standing
<1>o. \A c \in Calls : pc[c] # "start" => Open(Src[c]) /\ Open(Dst[c])
  BY <1>0 DEF WholeTrees
\* An instance, or the snapshot, that shows the course if it is current.
<1> DEFINE Shows(f) == Open(f) /\ label[f] = counter => tree[f] = server
<1> DEFINE SnapshotShows == snapshot.gen = counter /\ snapshot.tree # Blank => snapshot.tree = server
<1>k. Settled => SnapshotShows /\ \A f \in Fs : Shows(f)
  BY <1>0, <1>c DEF Coherent
<1>q. ASSUME (\A f \in Fs : Shows(f)'), SnapshotShows' PROVE Coherent'
  BY <1>q DEF Coherent
\* A bump: nobody else is at the new generation.
<1>b. ASSUME NEW c \in Mutations, counter' = counter + 1,
             label' = [label EXCEPT ![Dst[c]] = counter + 1], UNCHANGED snapshot,
             tree'[Dst[c]] = server, UNCHANGED server
      PROVE  Coherent'
  <2>1. snapshot'.gen # counter'
    BY <1>b, <1>0 DEF NoneAhead, NoFutureLabel, Types
  <2>2. ASSUME NEW f \in Fs, label'[f] = counter' PROVE tree'[f] = server'
    <3>1. f = Dst[c]
      BY <1>b, <2>2, <1>0 DEF NoneAhead, NoFutureLabel, Types
    <3> QED
      BY <1>b, <3>1
  <2> QED
    BY <2>1, <2>2, <1>q
\* What makes no difference.
<1>u. ASSUME UNCHANGED <<server, counter, tree, label, snapshot, delta, made>>,
             \A f \in Opens : pc'[f] = "done" => pc[f] = "done"
      PROVE  Coherent'
  <2>1. Settled
    BY <1>u DEF Settled
  <2>2. \A f \in Fs : Open(f)' => Open(f)
    BY <1>u DEF Open
  <2> QED
    BY <1>k, <1>u, <2>1, <2>2, <1>q
<1>1. CASE UNCHANGED vars
  BY <1>1, <1>u DEF vars
<1>2. ASSUME NEW c \in Procs,
             Check(c) \/ Count(c) \/ Compare(c)
       PROVE  Coherent'
  <2>1. /\ UNCHANGED <<server, counter, tree, label, snapshot, delta, made>>
        /\ \A f \in Opens : pc'[f] = "done" => pc[f] = "done"
    BY <1>2, <1>0 DEF Check, Count, Compare, Ensured, Types
  <2> QED
    BY <2>1, <1>u
<1>3. ASSUME NEW c \in Procs,
             LoadSnapshot(c) \/ Match(c) \/ CrawlFolder(c) \/ CrawlDone(c)
       PROVE  Coherent'
  <2>1. /\ UNCHANGED <<server, counter, tree, label, snapshot, delta, made>>
        /\ \A f \in Opens : pc'[f] = "done" => pc[f] = "done"
    BY <1>3, <1>0 DEF LoadSnapshot, Match, CrawlFolder, CrawlDone, Types
  <2> QED
    BY <2>1, <1>u
<1>4. ASSUME NEW c \in Procs,
             Ask(c) \/ Answer(c) \/ BeginOpen(c) \/ Stamp(c)
       PROVE  Coherent'
  <2>1. /\ UNCHANGED <<server, counter, tree, label, snapshot, delta, made>>
        /\ \A f \in Opens : pc'[f] = "done" => pc[f] = "done"
    BY <1>4, <1>0 DEF Ask, Answer, BeginOpen, Stamp, Types
  <2> QED
    BY <2>1, <1>u
<1>5. ASSUME NEW c \in Procs,
             Lock(c) \/ Begin(c) \/ Refuse(c) \/ LookAgain(c) \/ Locate(c) \/
             EndMutation(c) \/ Unlock(c)
       PROVE  Coherent'
  <2>1. /\ UNCHANGED <<server, counter, tree, label, snapshot, delta, made>>
        /\ \A f \in Opens : pc'[f] = "done" => pc[f] = "done"
    BY <1>5, <1>0 DEF Lock, Begin, Refuse, LookAgain, Locate, EndMutation, Unlock, Types
  <2> QED
    BY <2>1, <1>u
<1>6. ASSUME NEW c \in Procs, RefreshFails(c) PROVE Coherent'
  <2>1. UNCHANGED <<server, counter, tree, label, snapshot, delta, made>>
    BY <1>6 DEF RefreshFails
  <2>2. \A f \in Opens : pc'[f] = "done" => pc[f] = "done"
    BY <1>6, <1>0 DEF RefreshFails, Types
  <2> QED
    BY <2>1, <2>2, <1>u
<1>7. ASSUME NEW c \in Procs, Install(c) PROVE Coherent'
  <2>1. Settled
    BY <1>7, <1>s DEF Install, Refreshing, Running, Reader
  <2>2. root[c] = server
    BY <1>7, <1>r DEF Install, FetchesTheCourse, Fetched
  <2>3. /\ UNCHANGED <<server, counter, snapshot>> /\ c \in Calls
        /\ tree' = [tree EXCEPT ![at[c]] = server]
        /\ \A f \in Fs : label'[f] = counter => label[f] = counter \/ f = at[c]
        /\ \A f \in Opens : pc'[f] = pc[f]
    BY <1>7, <2>2, <1>0 DEF Install, Types
  <2>4. \A f \in Fs : Shows(f)'
    BY <2>1, <2>3, <1>k, <1>0 DEF Open, Types
  <2> QED
    BY <2>1, <2>3, <2>4, <1>k, <1>q
<1>8. ASSUME NEW c \in Procs, Store(c) PROVE Coherent'
  <2>1. c \in Calls /\ pc[c] = "store"
    BY <1>8 DEF Store
  <2>2. Settled
    BY <1>8, <1>0 DEF Store, Settled
  <2>3. Open(at[c])
    <3>1. at[c] \in {Src[c], Dst[c]}
      BY <2>1, <1>0 DEF InPlace, PlaceOf
    <3> QED
      BY <2>1, <3>1, <1>o
  <2>4. /\ UNCHANGED <<server, counter, tree, label>> /\ at[c] \in Fs
        /\ snapshot' = [gen |-> label[at[c]], tree |-> tree[at[c]]]
        /\ \A f \in Opens : pc'[f] = pc[f]
    BY <1>8, <1>0 DEF Store, Ensured, Types
  <2>5. SnapshotShows'
    BY <2>2, <2>3, <2>4, <1>k
  <2>6. \A f \in Fs : Shows(f)'
    BY <2>2, <2>4, <1>k DEF Open
  <2> QED
    BY <2>5, <2>6, <1>q
<1>9. ASSUME NEW c \in Procs, Publish(c) PROVE Coherent'
  <2>1. Settled /\ UNCHANGED <<server, counter, tree, label>> /\ \A f \in Opens : pc'[f] # "done" \/ pc[f] = "done"
    BY <1>9, <1>0 DEF Publish, Settled, Types
  <2>2. root[c] = server
    BY <1>9, <1>r DEF Publish, FetchesTheCourse, Fetched
  <2>3. SnapshotShows'
    BY <1>9, <2>1, <2>2 DEF Publish
  <2>4. \A f \in Fs : Shows(f)'
    BY <2>1, <1>k DEF Open
  <2> QED
    BY <2>3, <2>4, <1>q
<1>10. ASSUME NEW c \in Procs, Label(c) PROVE Coherent'
  <2>1. Settled /\ UNCHANGED <<server, counter, snapshot>> /\ \A f \in Fs \ {c} : tree'[f] = tree[f] /\ label'[f] = label[f] /\ pc'[f] = pc[f]
    BY <1>10, <1>0 DEF Label, Settled, Types
  <2>2. root[c] = server
    BY <1>10, <1>r DEF Label, FetchesTheCourse, Fetched
  <2>3. tree'[c] = server
    BY <1>10, <2>2, <1>0 DEF Label, Types
  <2>4. \A f \in Fs : Shows(f)'
    BY <2>1, <2>3, <1>k DEF Open
  <2> QED
    BY <2>1, <2>4, <1>k, <1>q
<1>11. ASSUME NEW c \in Procs, MakeParents(c) PROVE Coherent'
  <2>1. UNCHANGED <<server, counter, tree, label, snapshot, delta>> /\ c \in Mutations /\ pc[c] = "run"
    BY <1>11 DEF MakeParents
  <2>2. Settled
    BY <1>11, <1>0, <1>c DEF MakeParents, Settled, Types, PendingRuns, PendingOf, Clean
  <2>3. \A f \in Opens : pc'[f] = pc[f]
    BY <1>11, <1>0 DEF MakeParents, Types
  <2> QED
    BY <2>1, <2>2, <2>3, <1>k, <1>q DEF Open
<1>12. ASSUME NEW c \in Procs, MakeDir(c) PROVE Coherent'
  <2>1. made'[c] /\ c \in Mutations
    BY <1>12, <1>0 DEF MakeDir, Types
  <2> QED
    BY <2>1 DEF Settled
<1>13. ASSUME NEW c \in Procs, MakeFails(c) PROVE Coherent'
  <2>1. UNCHANGED <<server, counter, tree, label, snapshot, delta, made>>
    BY <1>13 DEF MakeFails, Clean
  <2>2. \A f \in Opens : pc'[f] = pc[f]
    BY <1>13, <1>0 DEF MakeFails, Types
  <2> QED
    BY <2>1, <2>2, <1>u
<1>14. ASSUME NEW c \in Procs, ParentsMade(c) PROVE Coherent'
  <2>1. /\ c \in Mutations /\ pc[c] = "make" /\ delta[c] = Blank
        /\ UNCHANGED <<server, tree, snapshot, delta>>
    BY <1>14, <1>0 DEF ParentsMade, PendingRuns, PendingOf
  <2>2. tree[Dst[c]] = server
    <3>1. Overlay(delta[c], tree[Dst[c]]) = server
      BY <2>1, <1>0, <1>c DEF ActsOnTheCourse, Running
    <3>2. tree[Dst[c]] \in PartTrees
      BY <2>1, <1>0 DEF Types
    <3> QED
      BY <2>1, <3>1, <3>2, BlankOverlay
  <2>3. CASE Bump(c)
    BY <2>1, <2>2, <2>3, <1>b DEF Bump
  <2>4. CASE ~made[c] /\ UNCHANGED <<counter, label>> /\ Goto(c, "run")
    <3>1. made' = made
      BY <1>14, <2>4, <1>0 DEF ParentsMade, Types
    <3>2. \A f \in Opens : pc'[f] = pc[f]
      BY <2>1, <2>4, <1>0 DEF Types
    <3> QED
      BY <2>1, <2>4, <3>1, <3>2, <1>u
  <2> QED
    BY <1>14, <2>3, <2>4 DEF ParentsMade
<1>15. ASSUME NEW c \in Procs, Request(c) PROVE Coherent'
  <2>1. PICK k \in Folders, v \in Contents : delta' = [delta EXCEPT ![c][k] = v]
    BY <1>15 DEF Request
  <2>2. c \in Mutations /\ delta[c] \in PartTrees
    BY <1>15, <1>0 DEF Request, Types
  <2>3. delta'[c][k] = v /\ v # None
    BY <2>1, <2>2, <1>0, ValuesAssumption DEF Types, PartTrees
  <2>4. delta'[c] # Blank
    BY <2>3 DEF Blank
  <2> QED
    BY <2>2, <2>4 DEF Settled
<1>16. ASSUME NEW c \in Procs, Commit(c) PROVE Coherent'
  <2>1. c \in Mutations /\ pc[c] = "run" /\ UNCHANGED <<server, snapshot>> /\ Bump(c)
    BY <1>16 DEF Commit
  <2>2. Overlay(delta[c], tree[Dst[c]]) = server
    BY <2>1, <1>0, <1>c DEF ActsOnTheCourse, Running
  <2>3. ref[c] # "detached"
    BY <2>1, <1>r DEF FetchesTheCourse
  <2>4. tree'[Dst[c]] = server
    BY <1>16, <2>1, <2>2, <2>3, <1>0 DEF Commit, Types
  <2> QED
    BY <2>1, <2>4, <1>b DEF Bump
<1>17. ASSUME NEW c \in Procs, CommitAgain(c) PROVE Coherent'
  <2>1. /\ c \in Mutations /\ pc[c] = "run" /\ delta[c] = Blank
        /\ UNCHANGED <<server, snapshot, tree>> /\ Bump(c)
    BY <1>17 DEF CommitAgain
  <2>2. Overlay(delta[c], tree[Dst[c]]) = server
    BY <2>1, <1>0, <1>c DEF ActsOnTheCourse, Running
  <2>3. tree[Dst[c]] \in PartTrees
    BY <2>1, <1>0 DEF Types
  <2>4. tree[Dst[c]] = server
    BY <2>1, <2>2, <2>3, BlankOverlay
  <2> QED
    BY <2>1, <2>4, <1>b DEF Bump
<1>18. ASSUME NEW c \in Procs, Record(c) PROVE Coherent'
  <2>1. /\ c \in Mutations /\ pc[c] = "record" /\ delta[c] = Blank
        /\ UNCHANGED <<server, counter, tree, label, delta, made>>
        /\ snapshot' = [gen |-> label[Dst[c]], tree |-> tree[Dst[c]]]
        /\ \A f \in Opens : pc'[f] = pc[f]
    BY <1>18, <1>0 DEF Record, PendingRuns, PendingOf, Types
  <2>2. Overlay(delta[c], tree[Dst[c]]) = server
    BY <2>1, <1>0, <1>c DEF ActsOnTheCourse, Running
  <2>3. tree[Dst[c]] \in PartTrees
    BY <2>1, <1>0 DEF Types
  <2>4. tree[Dst[c]] = server
    BY <2>1, <2>2, <2>3, BlankOverlay
  <2>5. Settled
    BY <2>1 DEF Settled
  <2> QED
    BY <2>1, <2>4, <2>5, <1>k, <1>q DEF Open
<1>19. ASSUME NEW c \in Procs, Forget(c) PROVE Coherent'
  <2>1. counter' = counter + 1 /\ UNCHANGED <<label, snapshot>>
    BY <1>19 DEF Forget
  <2>2. snapshot'.gen # counter' /\ \A f \in Fs : label'[f] # counter'
    BY <2>1, <1>0 DEF NoneAhead, NoFutureLabel, Types
  <2> QED
    BY <2>2, <1>q
<1>20. ASSUME NEW c \in Procs, Finish(c) PROVE Coherent'
  <2>1. c \in Mutations /\ delta[c] = Blank /\ UNCHANGED <<server, counter, tree, label, snapshot, made>>
    BY <1>20 DEF Finish, Clean
  <2>2. delta' = delta /\ \A f \in Opens : pc'[f] = pc[f]
    BY <1>20, <2>1, <1>0 DEF Finish, Types
  <2> QED
    BY <2>1, <2>2, <1>u
<1> QED
  BY Actions, <1>1, <1>2, <1>3, <1>4, <1>5, <1>6, <1>7, <1>8, <1>9, <1>10, <1>11, <1>12,
     <1>13, <1>14, <1>15, <1>16, <1>17, <1>18, <1>19, <1>20

\* A running mutation keeps its tree and its changes together the course.
LEMMA ActsStep ==
  ASSUME Inv, [Next]_vars
  PROVE  ActsOnTheCourse'
<1> SUFFICES ASSUME Clean' PROVE ActsOnTheCourse'
  BY DEF ActsOnTheCourse
<1> USE Constants DEF shared, caches, locals, history
<1>c. Clean
  BY CleanBefore DEF Inv, Base
<1>0. /\ Types /\ InPlace /\ LockHeld /\ WholeTrees /\ NoneAhead /\ PendingRuns /\ ActiveCounts
      /\ Coherent /\ ActsOnTheCourse /\ FetchesTheCourse /\ HolderIsCurrent /\ LookupIsCurrent
  BY <1>c DEF Inv, Base, Kept
<1>s. /\ \A m \in Mutations : pc[m] \in Running =>
           /\ lock = m /\ ~ReaderRefreshing
           /\ \A n \in Mutations \ {m} : pc[n] \in {"start", "done"}
      /\ \A c \in Mutations : pc[c] \notin Running \cup {"start", "done"} =>
              Settled /\ \A m \in Mutations : pc[m] \notin Running
  BY <1>c, Standing
<1>o. \A c \in Calls : pc[c] # "start" => Open(Src[c]) /\ Open(Dst[c])
  BY <1>0 DEF WholeTrees
<1>z. \A f \in Fs : Zeros[f] = 0
  BY DEF Zeros
<1> DEFINE Acts(m) == label[Dst[m]] = counter /\ Overlay(delta[m], tree[Dst[m]]) = server
<1>a. \A m \in Mutations : pc[m] \in Running => Acts(m)
  BY <1>0, <1>c DEF ActsOnTheCourse
\* A mutation that goes on, or starts, to run acts on the course.
<1>m. ASSUME NEW c \in Mutations, \A d \in Procs \ {c} : pc'[d] = pc[d],
             pc[c] \notin {"start", "done"}, pc'[c] \in Running => Acts(c)'
      PROVE  ActsOnTheCourse'
  <2>1. ASSUME NEW m \in Mutations, m # c PROVE pc'[m] \notin Running
    <3>1. pc[m] \in {"start", "done"}
      BY <1>m, <2>1, <1>0 DEF LockHeld
    <3> QED
      BY <1>m, <2>1, <3>1 DEF Running
  <2> QED
    BY <1>m, <2>1 DEF ActsOnTheCourse
\* A step that nobody running notices.
<1>u. ASSUME UNCHANGED <<server, counter, tree, label, delta>>,
             \A m \in Mutations : pc'[m] \in Running => pc[m] \in Running
      PROVE  ActsOnTheCourse'
  BY <1>a, <1>u DEF ActsOnTheCourse
\* A mutation begins to run on a current instance.
<1>n. ASSUME NEW c \in Mutations, pc[c] \notin Running \cup {"start", "done"},
             label[Dst[c]] = counter,
             \A d \in Procs \ {c} : pc'[d] = pc[d], UNCHANGED <<server, counter, tree, label, delta>>
      PROVE  ActsOnTheCourse'
  <2>1. Settled /\ delta[c] = Blank
    BY <1>n, <1>s DEF Settled
  <2>2. tree[Dst[c]] = server
    BY <1>n, <2>1, <1>c, <1>0, <1>o DEF Coherent
  <2>3. Overlay(delta[c], tree[Dst[c]]) = server
    BY <2>1, <2>2, <1>0, BlankOverlay DEF Types
  <2> QED
    BY <1>n, <2>3, <1>m
<1>1. CASE UNCHANGED vars
  BY <1>1, <1>u DEF vars
<1>2. ASSUME NEW c \in Procs,
             LoadSnapshot(c) \/ Match(c) \/ CrawlFolder(c) \/ CrawlDone(c)
       PROVE  ActsOnTheCourse'
  <2>1. /\ UNCHANGED <<server, counter, tree, label, delta>>
        /\ \A m \in Mutations : pc'[m] \in Running => pc[m] \in Running
    BY <1>2, <1>0 DEF LoadSnapshot, Match, CrawlFolder, CrawlDone, Types, Running
  <2> QED
    BY <2>1, <1>u
<1>3. ASSUME NEW c \in Procs,
             Ask(c) \/ Answer(c) \/ BeginOpen(c) \/ Stamp(c) \/ Publish(c)
       PROVE  ActsOnTheCourse'
  <2>1. /\ UNCHANGED <<server, counter, tree, label, delta>>
        /\ \A m \in Mutations : pc'[m] \in Running => pc[m] \in Running
    BY <1>3, <1>0 DEF Ask, Answer, BeginOpen, Stamp, Publish, Types, Running
  <2> QED
    BY <2>1, <1>u
<1>4. ASSUME NEW c \in Procs,
             Lock(c) \/ Refuse(c) \/ LookAgain(c) \/ Locate(c) \/ EndMutation(c) \/
             Unlock(c)
       PROVE  ActsOnTheCourse'
  <2>1. /\ UNCHANGED <<server, counter, tree, label, delta>>
        /\ \A m \in Mutations : pc'[m] \in Running => pc[m] \in Running
    BY <1>4, <1>0 DEF Lock, Refuse, LookAgain, Locate, EndMutation, Unlock, Types, Running
  <2> QED
    BY <2>1, <1>u
<1>5. ASSUME NEW c \in Procs, MakeParents(c) PROVE ActsOnTheCourse'
  <2>1. /\ UNCHANGED <<server, counter, tree, label, delta>>
        /\ \A m \in Mutations : pc'[m] \in Running => pc[m] \in Running
    BY <1>5, <1>0 DEF MakeParents, Types, Running
  <2> QED
    BY <2>1, <1>u
<1>6. ASSUME NEW c \in Procs, RefreshFails(c) PROVE ActsOnTheCourse'
  <2>1. UNCHANGED <<server, counter, tree, label, delta>>
    BY <1>6 DEF RefreshFails
  <2>2. \A m \in Mutations : pc'[m] \in Running => pc[m] \in Running
    BY <1>6, <1>0 DEF RefreshFails, Types, Running
  <2> QED
    BY <2>1, <2>2, <1>u
<1>7. ASSUME NEW c \in Procs, Check(c) \/ Count(c) PROVE ActsOnTheCourse'
  <2>1. CASE c \in Mutations
    <3>1. /\ pc[c] \in {"check", "count"} /\ pc'[c] \notin Running
          /\ \A d \in Procs \ {c} : pc'[d] = pc[d]
      BY <1>7, <2>1, <1>0, <1>z DEF Check, Count, Ensured, Types, Running, ActiveCounts, ActiveOf
    <3> QED
      BY <2>1, <3>1, <1>m
  <2>2. CASE c \notin Mutations
    <3>1. /\ UNCHANGED <<server, counter, tree, label, delta>>
          /\ \A m \in Mutations : pc'[m] = pc[m]
      BY <1>7, <2>2, <1>0 DEF Check, Count, Ensured, Types
    <3> QED
      BY <3>1, <1>u
  <2> QED
    BY <2>1, <2>2
<1>8. ASSUME NEW c \in Procs, Compare(c) PROVE ActsOnTheCourse'
  <2>1. CASE c \in Mutations
    <3>1. /\ pc[c] = "compare" /\ pc'[c] \notin Running
          /\ \A d \in Procs \ {c} : pc'[d] = pc[d]
      BY <1>8, <2>1, <1>0, <1>z DEF Compare, Ensured, Types, Running, ActiveCounts, ActiveOf
    <3> QED
      BY <2>1, <3>1, <1>m
  <2>2. CASE c \notin Mutations
    <3>1. /\ UNCHANGED <<server, counter, tree, label, delta>>
          /\ \A m \in Mutations : pc'[m] = pc[m]
      BY <1>8, <2>2, <1>0 DEF Compare, Ensured, Types
    <3> QED
      BY <3>1, <1>u
  <2> QED
    BY <2>1, <2>2
<1>9. ASSUME NEW c \in Procs, Install(c) PROVE ActsOnTheCourse'
  <2>1. CASE c \in Mutations
    <3>1. /\ pc[c] = "install" /\ pc'[c] \notin Running
          /\ \A d \in Procs \ {c} : pc'[d] = pc[d]
      BY <1>9, <2>1, <1>0 DEF Install, Types, Running
    <3> QED
      BY <2>1, <3>1, <1>m
  <2>2. CASE c \notin Mutations
    <3>1. ReaderRefreshing /\ \A m \in Mutations : pc'[m] = pc[m]
      BY <1>9, <2>2, <1>0 DEF Install, Types, ReaderRefreshing, Reader, Refreshing
    <3>2. \A m \in Mutations : pc'[m] \notin Running
      BY <3>1, <1>s
    <3> QED
      BY <3>2 DEF ActsOnTheCourse
  <2> QED
    BY <2>1, <2>2
<1>10. ASSUME NEW c \in Procs, Label(c) PROVE ActsOnTheCourse'
  <2>1. ReaderRefreshing /\ \A m \in Mutations : pc'[m] = pc[m]
    BY <1>10, <1>0 DEF Label, Types, ReaderRefreshing, Reader, Refreshing
  <2>2. \A m \in Mutations : pc'[m] \notin Running
    BY <2>1, <1>s
  <2> QED
    BY <2>2 DEF ActsOnTheCourse
<1>11. ASSUME NEW c \in Procs, Store(c) PROVE ActsOnTheCourse'
  <2>0. UNCHANGED <<server, counter, tree, label, delta>> /\ \A d \in Procs \ {c} : pc'[d] = pc[d]
    BY <1>11, <1>0 DEF Store, Ensured, Types
  <2>1. CASE c \in Mutations /\ at[c] = Dst[c]
    <3>1. pc[c] = "store" /\ label[Dst[c]] = counter
      BY <1>11, <2>1, <1>0 DEF Store, HolderIsCurrent
    <3> QED
      BY <2>0, <2>1, <3>1, <1>n DEF Running
  <2>2. CASE c \in Mutations /\ at[c] # Dst[c]
    <3>1. at[c] = Src[c] /\ c \notin Rmdirs
      BY <2>2, <1>0 DEF InPlace, PlaceOf
    <3>2. pc[c] = "store" /\ active = Zeros
      BY <1>11, <2>2, <3>1, <1>0 DEF Store, ActiveCounts, ActiveOf
    <3>3. pc'[c] = "check"
      BY <1>11, <2>2, <3>1, <3>2, <1>0, <1>z DEF Store, Ensured, Types
    <3> QED
      BY <2>0, <2>2, <3>2, <3>3, <1>m DEF Running
  <2>3. CASE c \notin Mutations
    BY <2>0, <2>3, <1>u
  <2> QED
    BY <2>1, <2>2, <2>3
<1>12. ASSUME NEW c \in Procs, Begin(c) PROVE ActsOnTheCourse'
  <2>1. /\ c \in Mutations /\ pc[c] = "begin"
        /\ UNCHANGED <<server, counter, tree, label, delta>> /\ \A d \in Procs \ {c} : pc'[d] = pc[d]
    BY <1>12, <1>0 DEF Begin, Types
  <2>2. at[c] = Dst[c] /\ label[at[c]] = counter
    BY <2>1, <1>0 DEF InPlace, PlaceOf, HolderIsCurrent
  <2> QED
    BY <2>1, <2>2, <1>n DEF Running
<1>13. ASSUME NEW c \in Procs, MakeDir(c) PROVE ActsOnTheCourse'
  <2>1. /\ c \in Mutations /\ pc[c] = "make" /\ UNCHANGED <<pc, delta, label, counter>>
        /\ delta[c] = Blank
    BY <1>13, <1>0 DEF MakeDir, PendingRuns, PendingOf
  <2>2. PICK k \in Folders, v \in Contents :
          /\ server' = [server EXCEPT ![k] = v]
          /\ tree' = [tree EXCEPT ![Dst[c]][k] = v]
    BY <1>13 DEF MakeDir
  <2>3. label[Dst[c]] = counter /\ Overlay(delta[c], tree[Dst[c]]) = server
    BY <2>1, <1>a DEF Running
  <2>4. tree[Dst[c]] = server
    BY <2>1, <2>3, <1>0, BlankOverlay DEF Types
  <2>5. tree'[Dst[c]] = server' /\ server' \in PartTrees
    BY <2>1, <2>2, <2>4, <1>0 DEF Types, Trees, PartTrees
  <2>6. Acts(c)'
    BY <2>1, <2>3, <2>5, BlankOverlay
  <2> QED
    BY <2>1, <2>6, <1>m
<1>14. ASSUME NEW c \in Procs, MakeFails(c) PROVE ActsOnTheCourse'
  <2>1. c \in Mutations /\ pc[c] = "make" /\ pc' = [pc EXCEPT ![c] = "end"]
    BY <1>14 DEF MakeFails
  <2> QED
    BY <2>1, <1>0, <1>m DEF Types, Running
<1>15. ASSUME NEW c \in Procs, ParentsMade(c) PROVE ActsOnTheCourse'
  <2>1. /\ c \in Mutations /\ pc[c] = "make" /\ UNCHANGED <<server, tree, delta>>
    BY <1>15 DEF ParentsMade
  <2>2. label[Dst[c]] = counter /\ Overlay(delta[c], tree[Dst[c]]) = server
    BY <2>1, <1>a DEF Running
  <2>3. label'[Dst[c]] = counter' /\ \A d \in Procs \ {c} : pc'[d] = pc[d]
    <3>1. CASE Bump(c)
      BY <2>1, <2>2, <3>1, <1>0 DEF Bump, Types
    <3>2. CASE UNCHANGED <<counter, label>> /\ Goto(c, "run")
      BY <2>1, <2>2, <3>2, <1>0 DEF Types
    <3> QED
      BY <1>15, <3>1, <3>2 DEF ParentsMade
  <2>4. Acts(c)'
    BY <2>1, <2>2, <2>3
  <2> QED
    BY <2>1, <2>3, <2>4, <1>m
<1>16. ASSUME NEW c \in Procs, Request(c) PROVE ActsOnTheCourse'
  <2>1. c \in Mutations /\ pc[c] = "run" /\ UNCHANGED <<pc, counter, label, tree>>
    BY <1>16 DEF Request
  <2>2. PICK k \in Folders, v \in Contents :
          server' = [server EXCEPT ![k] = v] /\ delta' = [delta EXCEPT ![c][k] = v]
    BY <1>16 DEF Request
  <2>3. label[Dst[c]] = counter /\ Overlay(delta[c], tree[Dst[c]]) = server
    BY <2>1, <1>a DEF Running
  <2>4. delta[c] \in PartTrees /\ delta'[c] = [delta[c] EXCEPT ![k] = v] /\ v # None
    BY <2>1, <2>2, <1>0, ValuesAssumption DEF Types
  <2>a. /\ server' \in Trees /\ Overlay(delta'[c], tree[Dst[c]]) = [j \in Folders |-> server'[j]]
    <3>1. server \in Trees /\ server' \in Trees
      BY <2>2, <1>0 DEF Types, Trees
    <3>2. ASSUME NEW j \in Folders
          PROVE  server'[j] = IF delta'[c][j] = None THEN tree[Dst[c]][j] ELSE delta'[c][j]
      <4>1. server[j] = IF delta[c][j] = None THEN tree[Dst[c]][j] ELSE delta[c][j]
        BY <2>3 DEF Overlay
      <4>2. CASE j = k
        BY <2>2, <2>4, <3>1, <4>2 DEF PartTrees, Trees
      <4>3. CASE j # k
        BY <2>2, <2>4, <3>1, <4>1, <4>3 DEF PartTrees, Trees
      <4> QED
        BY <4>2, <4>3
    <3> QED
      BY <3>1, <3>2 DEF Overlay
  <2>5. Overlay(delta'[c], tree[Dst[c]]) = server'
    BY <2>a DEF Trees
  <2>6. Acts(c)'
    BY <2>1, <2>3, <2>5
  <2> QED
    BY <2>1, <2>6, <1>m
<1>17. ASSUME NEW c \in Procs, Commit(c) PROVE ActsOnTheCourse'
  <2>1. c \in Mutations /\ pc[c] = "run" /\ UNCHANGED server /\ Bump(c)
    BY <1>17 DEF Commit
  <2>2. label[Dst[c]] = counter /\ Overlay(delta[c], tree[Dst[c]]) = server
    BY <2>1, <1>a DEF Running
  <2>3. ref[c] # "detached"
    BY <2>1, <1>0 DEF FetchesTheCourse
  <2>4. tree'[Dst[c]] = server /\ delta'[c] = Blank /\ server \in PartTrees
    BY <1>17, <2>1, <2>2, <2>3, <1>0 DEF Commit, Types
  <2>5. label'[Dst[c]] = counter' /\ \A d \in Procs \ {c} : pc'[d] = pc[d]
    BY <2>1, <1>0 DEF Bump, Types
  <2>6. Acts(c)'
    BY <2>1, <2>4, <2>5, BlankOverlay
  <2> QED
    BY <2>1, <2>5, <2>6, <1>m
<1>18. ASSUME NEW c \in Procs, CommitAgain(c) PROVE ActsOnTheCourse'
  <2>1. c \in Mutations /\ pc[c] = "run" /\ UNCHANGED <<server, tree, delta>> /\ Bump(c)
    BY <1>18 DEF CommitAgain
  <2>2. label'[Dst[c]] = counter' /\ \A d \in Procs \ {c} : pc'[d] = pc[d]
    BY <2>1, <1>0 DEF Bump, Types
  <2>3. Acts(c)'
    BY <2>1, <2>2, <1>a DEF Running
  <2> QED
    BY <2>1, <2>2, <2>3, <1>m
<1>19. ASSUME NEW c \in Procs, Record(c) PROVE ActsOnTheCourse'
  <2>1. /\ c \in Mutations /\ pc[c] = "record"
        /\ UNCHANGED <<server, counter, tree, label, delta>> /\ \A d \in Procs \ {c} : pc'[d] = pc[d]
    BY <1>19, <1>0 DEF Record, Types
  <2>2. Acts(c)'
    BY <2>1, <1>a DEF Running
  <2> QED
    BY <2>1, <2>2, <1>m
<1>20. ASSUME NEW c \in Procs, Forget(c) PROVE ActsOnTheCourse'
  <2>1. c \in Mutations /\ pc[c] = "run" /\ pc' = [pc EXCEPT ![c] = "end"]
    BY <1>20 DEF Forget
  <2> QED
    BY <2>1, <1>0, <1>m DEF Types, Running
<1>21. ASSUME NEW c \in Procs, Finish(c) PROVE ActsOnTheCourse'
  <2>1. c \in Mutations /\ pc[c] = "run" /\ pc' = [pc EXCEPT ![c] = "end"]
    BY <1>21 DEF Finish
  <2> QED
    BY <2>1, <1>0, <1>m DEF Types, Running
<1> QED
  BY Actions, <1>1, <1>2, <1>3, <1>4, <1>5, <1>6, <1>7, <1>8, <1>9, <1>10, <1>11, <1>12,
     <1>13, <1>14, <1>15, <1>16, <1>17, <1>18, <1>19, <1>20, <1>21

\* The lock's holder finds its instance as current as it left it.
LEMMA HolderStep ==
  ASSUME Inv, Clean, Clean', [Next]_vars
  PROVE  HolderIsCurrent'
<1> USE Constants DEF shared, caches, locals, history
<1>c. Clean
  BY CleanBefore DEF Inv, Base
<1>0. /\ Types /\ InPlace /\ LockHeld /\ WholeTrees /\ NoneAhead /\ PendingRuns /\ ActiveCounts
      /\ Coherent /\ ActsOnTheCourse /\ FetchesTheCourse /\ HolderIsCurrent /\ LookupIsCurrent
  BY <1>c DEF Inv, Base, Kept
<1>z. \A f \in Fs : Zeros[f] = 0
  BY DEF Zeros
<1> DEFINE HolderOf(m) ==
       /\ pc[m] = "compare" => seen[m] = counter
       /\ pc[m] \in {"store", "begin"} => label[at[m]] = counter
<1>h. \A m \in Mutations : HolderOf(m)
  BY <1>0 DEF HolderIsCurrent
<1> DEFINE Alone(c) ==
       \A d \in Procs \ {c} : pc'[d] = pc[d] /\ seen'[d] = seen[d] /\ at'[d] = at[d]
<1> DEFINE Reads(c) ==
       c \notin Mutations =>
         UNCHANGED counter /\ \A f \in Fs : label'[f] = label[f] \/ label'[f] = counter
<1>g. ASSUME NEW c \in Procs, Alone(c), Reads(c),
             c \in Mutations => (pc[c] \notin {"start", "done"} \/ lock = Free) /\ HolderOf(c)'
      PROVE  HolderIsCurrent'
  <2>1. ASSUME NEW m \in Mutations, m # c PROVE HolderOf(m)'
    <3>1. CASE c \in Mutations
      <4>1. pc[m] \in {"start", "done"}
        BY <1>g, <2>1, <3>1, <1>0 DEF LockHeld
      <4> QED
        BY <1>g, <2>1, <4>1
    <3>2. CASE c \notin Mutations
      <4>1. at[m] \in Fs
        BY <1>0 DEF Types
      <4> QED
        BY <1>g, <2>1, <3>2, <4>1, <1>h
    <3> QED
      BY <3>1, <3>2
  <2> QED
    BY <1>g, <2>1 DEF HolderIsCurrent
<1>1. CASE UNCHANGED vars
  BY <1>0, <1>1 DEF vars, HolderIsCurrent
<1>2. ASSUME NEW c \in Procs,
             LoadSnapshot(c) \/ Match(c) \/ CrawlFolder(c) \/ CrawlDone(c)
       PROVE  HolderIsCurrent'
  <2>1. Alone(c) /\ Reads(c)
    BY <1>2, <1>0 DEF LoadSnapshot, Match, CrawlFolder, CrawlDone, Types
  <2>2. pc[c] \notin {"start", "done"} /\ pc'[c] \notin {"compare", "store", "begin"}
    BY <1>2, <1>0 DEF LoadSnapshot, Match, CrawlFolder, CrawlDone, Types
  <2> QED
    BY <2>1, <2>2, <1>g
<1>3. ASSUME NEW c \in Procs, RefreshFails(c) PROVE HolderIsCurrent'
  <2>1. Alone(c) /\ Reads(c)
    BY <1>3, <1>0 DEF RefreshFails, Types
  <2>2. pc[c] \notin {"start", "done"} /\ pc'[c] \notin {"compare", "store", "begin"}
    BY <1>3, <1>0 DEF RefreshFails, Types, Clean
  <2> QED
    BY <2>1, <2>2, <1>g
<1>4. ASSUME NEW c \in Procs,
             Ask(c) \/ Answer(c) \/ BeginOpen(c) \/ Stamp(c) \/ Publish(c) \/ Label(c)
       PROVE  HolderIsCurrent'
  <2>1. Alone(c) /\ Reads(c) /\ c \notin Mutations
    BY <1>4, <1>0 DEF Ask, Answer, BeginOpen, Stamp, Publish, Label, Types
  <2> QED
    BY <2>1, <1>g
<1>5. ASSUME NEW c \in Procs, Lock(c) PROVE HolderIsCurrent'
  <2>1. Alone(c) /\ c \in Mutations /\ lock = Free /\ pc'[c] = "check"
    BY <1>5, <1>0 DEF Lock, Types
  <2> QED
    BY <2>1, <1>g
<1>6. ASSUME NEW c \in Procs,
             Begin(c) \/ Refuse(c) \/ LookAgain(c) \/ Locate(c) \/ MakeParents(c) \/
             MakeDir(c) \/ MakeFails(c)
       PROVE  HolderIsCurrent'
  <2>1. Alone(c) /\ c \in Mutations
    BY <1>6, <1>0 DEF Begin, Refuse, LookAgain, Locate, MakeParents, MakeDir, MakeFails, Types
  <2>2. pc[c] \notin {"start", "done"} /\ pc'[c] \notin {"compare", "store", "begin"}
    BY <1>6, <1>0 DEF Begin, Refuse, LookAgain, Locate, MakeParents, MakeDir, MakeFails, Types
  <2> QED
    BY <2>1, <2>2, <1>g
<1>7. ASSUME NEW c \in Procs,
             ParentsMade(c) \/ Request(c) \/ Commit(c) \/ CommitAgain(c) \/ Record(c) \/
             Forget(c) \/ Finish(c) \/ EndMutation(c) \/ Unlock(c)
       PROVE  HolderIsCurrent'
  <2>1. Alone(c) /\ c \in Mutations
    BY <1>7, <1>0 DEF ParentsMade, Request, Commit, CommitAgain, Record, Forget, Finish, EndMutation, Unlock,
       Bump, Types
  <2>2. pc[c] \notin {"start", "done"} /\ pc'[c] \notin {"compare", "store", "begin"}
    BY <1>7, <1>0 DEF ParentsMade, Request, Commit, CommitAgain, Record, Forget, Finish, EndMutation, Unlock,
       Bump, Types
  <2> QED
    BY <2>1, <2>2, <1>g
<1>8. ASSUME NEW c \in Procs, Check(c) PROVE HolderIsCurrent'
  <2>1. Alone(c) /\ Reads(c) /\ pc[c] = "check"
    BY <1>8, <1>0 DEF Check, Ensured, Types
  <2>2. ASSUME c \in Mutations PROVE pc'[c] = "count"
    <3>1. active[at[c]] = 0
      BY <2>1, <2>2, <1>0, <1>z DEF ActiveCounts, ActiveOf, Types
    <3> QED
      BY <1>8, <2>2, <3>1, <1>0 DEF Check, Ensured, Types
  <2> QED
    BY <2>1, <2>2, <1>g
<1>9. ASSUME NEW c \in Procs, Compare(c) PROVE HolderIsCurrent'
  <2>1. Alone(c) /\ Reads(c) /\ pc[c] = "compare" /\ UNCHANGED <<counter, label>>
    BY <1>9, <1>0 DEF Compare, Ensured, Types
  <2>2. ASSUME c \in Mutations PROVE HolderOf(c)'
    <3>1. active[at[c]] = 0 /\ seen[c] = counter /\ at[c] \in Fs
      BY <2>1, <2>2, <1>0, <1>z, <1>h DEF ActiveCounts, ActiveOf, Types
    <3>2. CASE label[at[c]] # seen[c]
      BY <1>9, <3>1, <3>2, <1>0 DEF Compare, Ensured, Types
    <3>3. CASE label[at[c]] = seen[c]
      <4>1. at'[c] = Dst[c] /\ pc'[c] = IF at[c] = Dst[c] THEN "begin" ELSE "check"
        BY <1>9, <2>2, <3>1, <3>3, <1>0 DEF Compare, Ensured, Types
      <4> QED
        BY <2>1, <3>1, <3>3, <4>1
    <3> QED
      BY <3>2, <3>3
  <2> QED
    BY <2>1, <2>2, <1>g
<1>10. ASSUME NEW c \in Procs, Install(c) PROVE HolderIsCurrent'
  <2>1. /\ Alone(c) /\ Reads(c) /\ pc[c] = "install" /\ pc'[c] = "store" /\ at' = at
        /\ UNCHANGED counter /\ label'[at[c]] = counter
    BY <1>10, <1>0 DEF Install, Types
  <2> QED
    BY <2>1, <1>g
<1>11. ASSUME NEW c \in Procs, Store(c) PROVE HolderIsCurrent'
  <2>1. Alone(c) /\ Reads(c) /\ pc[c] = "store" /\ UNCHANGED <<counter, label>>
    BY <1>11, <1>0 DEF Store, Ensured, Types
  <2>2. ASSUME c \in Mutations PROVE HolderOf(c)'
    <3>1. at'[c] = Dst[c] /\ pc'[c] \in {"run", "check"} \cup {IF at[c] = Dst[c] THEN "begin" ELSE "check"}
      BY <1>11, <2>2, <1>0 DEF Store, Ensured, Types
    <3>2. label[at[c]] = counter
      BY <2>1, <2>2, <1>h
    <3> QED
      BY <2>1, <3>1, <3>2
  <2> QED
    BY <2>1, <2>2, <1>g
<1>12. ASSUME NEW c \in Procs, Count(c) PROVE HolderIsCurrent'
  <2>1. /\ Alone(c) /\ Reads(c) /\ pc[c] = "count" /\ UNCHANGED counter
        /\ pc'[c] = "compare" /\ seen'[c] = counter
    BY <1>12, <1>0 DEF Count, Types
  <2> QED
    BY <2>1, <1>g
<1> QED
  BY Actions, <1>1, <1>2, <1>3, <1>4, <1>5, <1>6, <1>7, <1>8, <1>9, <1>10, <1>11, <1>12

\* A lookup nobody disturbs finds the instance as current as it left it.
LEMMA LookupStep ==
  ASSUME Inv, Clean, [Next]_vars
  PROVE  LookupIsCurrent'
<1> USE Constants DEF shared, caches, locals, history
<1>0. /\ Types /\ InPlace /\ LockHeld /\ WholeTrees /\ NoneAhead /\ PendingRuns /\ ActiveCounts
      /\ Coherent /\ ActsOnTheCourse /\ FetchesTheCourse /\ HolderIsCurrent /\ LookupIsCurrent
  BY DEF Inv, Base, Kept
<1>z. \A f \in Fs : Zeros[f] = 0
  BY DEF Zeros
<1> DEFINE LookupOf(l) == undisturbed[l] =>
       /\ lock = Free
       /\ pc[l] = "compare" => seen[l] = counter
       /\ pc[l] \in {"store", "answer"} => label[at[l]] = counter
<1>h. \A l \in Lookups : LookupOf(l)
  BY <1>0 DEF LookupIsCurrent
<1> DEFINE Alone(c) == \A l \in Lookups \ {c} :
       /\ pc'[l] = pc[l] /\ seen'[l] = seen[l] /\ at'[l] = at[l]
       /\ undisturbed'[l] => undisturbed[l]
<1> DEFINE Reads ==
       UNCHANGED <<lock, counter>> /\ \A f \in Fs : label'[f] = label[f] \/ label'[f] = counter
\* A mutation's step finds every lookup disturbed.
<1>m. ASSUME NEW c \in Mutations, Alone(c), pc[c] \notin {"start", "done"}
      PROVE  LookupIsCurrent'
  <2>1. lock # Free
    BY <1>m, <1>0 DEF LockHeld
  <2> QED
    BY <1>m, <1>h, <2>1 DEF LookupIsCurrent
\* A reader's leaves the counter alone.
<1>g. ASSUME NEW c \in Procs, Alone(c), Reads, c \in Lookups => LookupOf(c)'
      PROVE  LookupIsCurrent'
  <2>1. ASSUME NEW l \in Lookups, l # c PROVE LookupOf(l)'
    <3>1. at[l] \in Fs
      BY <1>0 DEF Types
    <3> QED
      BY <1>g, <2>1, <3>1, <1>h
  <2> QED
    BY <1>g, <2>1 DEF LookupIsCurrent
<1>1. CASE UNCHANGED vars
  BY <1>0, <1>1 DEF vars, LookupIsCurrent
<1>2. ASSUME NEW c \in Procs,
             LoadSnapshot(c) \/ Match(c) \/ CrawlFolder(c) \/ CrawlDone(c)
       PROVE  LookupIsCurrent'
  <2>1. Alone(c) /\ Reads
    BY <1>2, <1>0 DEF LoadSnapshot, Match, CrawlFolder, CrawlDone, Types
  <2>2. c \in Lookups => LookupOf(c)'
    BY <1>2, <1>0, <1>h DEF LoadSnapshot, Match, CrawlFolder, CrawlDone, Types
  <2> QED
    BY <2>1, <2>2, <1>g
<1>3. ASSUME NEW c \in Procs, RefreshFails(c) PROVE LookupIsCurrent'
  <2>1. Alone(c) /\ Reads /\ (c \in Lookups => ~undisturbed'[c])
    BY <1>3, <1>0 DEF RefreshFails, Types
  <2> QED
    BY <2>1, <1>g
<1>4. ASSUME NEW c \in Procs,
             BeginOpen(c) \/ Stamp(c) \/ Publish(c) \/ Label(c)
       PROVE  LookupIsCurrent'
  <2>1. Alone(c) /\ Reads /\ c \notin Lookups
    BY <1>4, <1>0 DEF BeginOpen, Stamp, Publish, Label, Types
  <2> QED
    BY <2>1, <1>g
<1>5. ASSUME NEW c \in Procs,
             Ask(c) \/ Answer(c)
       PROVE  LookupIsCurrent'
  <2>1. Alone(c) /\ Reads /\ pc'[c] \in {"check", "done"}
    BY <1>5, <1>0 DEF Ask, Answer, Types
  <2>2. c \in Lookups => LookupOf(c)'
    BY <1>5, <2>1, <1>0, <1>h DEF Ask, Answer, Types
  <2> QED
    BY <2>1, <2>2, <1>g
<1>6. ASSUME NEW c \in Procs, Lock(c) PROVE LookupIsCurrent'
  <2>1. \A l \in Lookups : ~undisturbed'[l]
    BY <1>6, <1>0 DEF Lock
  <2> QED
    BY <2>1 DEF LookupIsCurrent
<1>7. ASSUME NEW c \in Procs,
             Begin(c) \/ Refuse(c) \/ LookAgain(c) \/ Locate(c) \/ MakeParents(c) \/
             MakeDir(c) \/ MakeFails(c)
       PROVE  LookupIsCurrent'
  <2>1. c \in Mutations /\ Alone(c) /\ pc[c] \notin {"start", "done"}
    BY <1>7, <1>0 DEF Begin, Refuse, LookAgain, Locate, MakeParents, MakeDir, MakeFails, Types
  <2> QED
    BY <2>1, <1>m
<1>8. ASSUME NEW c \in Procs,
             ParentsMade(c) \/ Request(c) \/ Commit(c) \/ CommitAgain(c) \/ Record(c) \/
             Forget(c) \/ Finish(c) \/ EndMutation(c) \/ Unlock(c)
       PROVE  LookupIsCurrent'
  <2>1. c \in Mutations /\ Alone(c) /\ pc[c] \notin {"start", "done"}
    BY <1>8, <1>0 DEF ParentsMade, Request, Commit, CommitAgain, Record, Forget, Finish, EndMutation, Unlock,
       Bump, Types
  <2> QED
    BY <2>1, <1>m
<1>9. ASSUME NEW c \in Procs, Check(c) PROVE LookupIsCurrent'
  <2>1. Alone(c) /\ Reads /\ pc[c] = "check"
    BY <1>9, <1>0 DEF Check, Ensured, Types
  <2>2. ASSUME c \in Lookups, undisturbed'[c] PROVE LookupOf(c)'
    <3>1. undisturbed[c] /\ lock = Free
      BY <1>9, <2>2, <1>h DEF Check
    <3>2. active[at[c]] = 0
      BY <3>1, <1>0, <1>z DEF ActiveCounts, Types
    <3> QED
      BY <1>9, <2>2, <3>1, <3>2, <1>0 DEF Check, Ensured, Types
  <2> QED
    BY <2>1, <2>2, <1>g
<1>13. ASSUME NEW c \in Procs, Count(c) PROVE LookupIsCurrent'
  <2>1. /\ Alone(c) /\ Reads /\ pc[c] = "count" /\ UNCHANGED undisturbed
        /\ pc'[c] = "compare" /\ seen'[c] = counter
    BY <1>13, <1>0 DEF Count, Types
  <2> QED
    BY <2>1, <1>g, <1>h
<1>10. ASSUME NEW c \in Procs, Compare(c) PROVE LookupIsCurrent'
  <2>1. Alone(c) /\ Reads /\ pc[c] = "compare" /\ label' = label
    BY <1>10, <1>0 DEF Compare, Ensured, Types
  <2>2. c \in Lookups => LookupOf(c)'
    BY <1>10, <2>1, <1>0, <1>h DEF Compare, Ensured, Types
  <2> QED
    BY <2>1, <2>2, <1>g
<1>11. ASSUME NEW c \in Procs, Install(c) PROVE LookupIsCurrent'
  <2>1. /\ Alone(c) /\ Reads /\ pc'[c] = "store" /\ at' = at /\ label'[at[c]] = counter
        /\ UNCHANGED undisturbed
    BY <1>11, <1>0 DEF Install, Types
  <2> QED
    BY <2>1, <1>g, <1>h
<1>12. ASSUME NEW c \in Procs, Store(c) PROVE LookupIsCurrent'
  <2>1. Alone(c) /\ Reads /\ pc[c] = "store" /\ label' = label /\ UNCHANGED undisturbed
    BY <1>12, <1>0 DEF Store, Ensured, Types
  <2>2. c \in Lookups => at'[c] = at[c] /\ pc'[c] = "answer"
    BY <1>12, <1>0 DEF Store, Ensured, Types
  <2>3. c \in Lookups => LookupOf(c)'
    BY <2>1, <2>2, <1>h
  <2> QED
    BY <2>1, <2>3, <1>g
<1> QED
  BY Actions, <1>1, <1>2, <1>3, <1>4, <1>5, <1>6, <1>7, <1>8, <1>9, <1>10, <1>11, <1>12, <1>13

LEMMA InvInit == Init => Inv
<1> SUFFICES ASSUME Init PROVE Inv
  OBVIOUS
<1> USE Constants
<1>1. Types /\ LockHeld /\ InPlace /\ NoneAhead
  BY TypesInit, InitParts
<1>2. /\ \A c \in Procs : pc[c] = "start" /\ loaded[c] = Nothing
      /\ \A m \in Mutations : delta[m] = Blank /\ made[m] = FALSE /\ ref[m] = "none"
      /\ \A l \in Lookups : undisturbed[l] = FALSE
      /\ \A f \in Fs : tree[f] = IF f \in Opened THEN server ELSE Blank
      /\ active = Zeros /\ server \in Trees
      /\ snapshot.tree \in {Blank, server}
  BY DEF Init, Zeros
<1>3. ActiveCounts
  BY <1>2 DEF ActiveCounts, ActiveOf
<1>4. WholeTrees
  BY <1>2 DEF WholeTrees, Whole, Open, Opens, Fetched, Nothing
<1>5. PendingRuns
  BY <1>2 DEF PendingRuns, PendingOf
<1>6. Coherent /\ ActsOnTheCourse
  BY <1>2 DEF Coherent, ActsOnTheCourse, Open, Opens, Running
<1>7. FetchesTheCourse
  BY <1>2 DEF FetchesTheCourse, ReaderRefreshing, Reader, Refreshing, Fetched
<1>8. HolderIsCurrent
  BY <1>2 DEF HolderIsCurrent
<1>9. LookupIsCurrent
  BY <1>2 DEF LookupIsCurrent
<1> QED
  BY <1>1, <1>3, <1>4, <1>5, <1>6, <1>7, <1>8, <1>9 DEF Inv, Base, Kept

LEMMA InvStep == Inv /\ [Next]_vars => Inv'
<1> SUFFICES ASSUME Inv, [Next]_vars PROVE Inv'
  OBVIOUS
<1>1. Types /\ LockHeld /\ InPlace /\ ActiveCounts /\ NoneAhead /\ WholeTrees /\ PendingRuns
  BY DEF Inv, Base
<1>2. Base'
  BY <1>1, TypesStep, LockHeldStep, InPlaceStep, ActiveStep, NoneAheadStep, WholeTreesStep,
     PendingRunsStep DEF Base
<1>3. Coherent' /\ ActsOnTheCourse'
  BY CoherentStep, ActsStep
<1>4. ASSUME Clean' PROVE FetchesTheCourse' /\ HolderIsCurrent' /\ LookupIsCurrent'
  <2>1. Clean
    BY <1>1, <1>4, CleanBefore
  <2> QED
    BY <2>1, <1>4, FetchesStep, HolderStep, LookupStep
<1> QED
  BY <1>2, <1>3, <1>4 DEF Inv, Kept

LEMMA InvHolds == Spec => []Inv
<1>1. Init => Inv
  BY InvInit
<1>2. Inv /\ [Next]_vars => Inv'
  BY InvStep
<1> QED
  BY <1>1, <1>2, PTL DEF Spec

\* The variables keep their types: no half crawled tree is installed in an
\* instance or published, and the count of active mutations never goes below
\* zero (fs.go:315-325, 339-375).
THEOREM TypeCorrect == Spec => []TypeOK
<1>1. Inv => TypeOK
  <2> SUFFICES ASSUME Inv PROVE TypeOK
    OBVIOUS
  <2> USE Constants
  <2>1. Types /\ LockHeld /\ InPlace /\ ActiveCounts /\ WholeTrees
    BY DEF Inv, Base
  <2>2. snapshot \in [gen : Nat, tree : Trees \cup {Blank}]
    BY <2>1 DEF Types, WholeTrees, Whole
  <2>3. tree \in [Fs -> Trees \cup {Blank}]
    BY <2>1 DEF Types, WholeTrees, Whole
  <2>4. loaded \in [Procs -> [gen : Nat, tree : Trees \cup {Blank}]]
    BY <2>1 DEF Types, WholeTrees, Whole
  <2>5. active \in [Fs -> Nat]
    <3>1. Zeros \in [Fs -> Nat] /\ \A m \in Mutations : Ones(m) \in [Fs -> Nat]
      BY DEF Zeros, Ones
    <3>2. CASE lock = Free
      BY <2>1, <3>1, <3>2 DEF ActiveCounts
    <3>3. CASE lock # Free
      <4> DEFINE m == lock
      <4>1. m \in Mutations /\ pc[m] \notin {"start", "done"}
        BY <2>1, <3>3 DEF Types, LockHeld
      <4>2. PlaceOf(m, pc[m], at[m]) /\ ActiveOf(m, pc[m], active)
        BY <2>1, <4>1 DEF InPlace, ActiveCounts
      <4>3. active \in {Zeros, Ones(m)}
        BY <4>1, <4>2 DEF PlaceOf, ActiveOf
      <4> QED
        BY <3>1, <4>1, <4>3
    <3> QED
      BY <3>2, <3>3
  <2> QED
    BY <2>1, <2>2, <2>3, <2>4, <2>5 DEF Types, TypeOK
<1> QED
  BY <1>1, InvHolds, PTL

\* Whatever the instances, calls, folders and contents: as long as no unlocked
\* refresh overlaps a mutation and no failure comes between a change and its
\* bump, an instance that counts as current shows the course (fs.go:269-382).
THEOREM CoherentHolds == Spec => []Coherent
<1>1. Inv => Coherent
  BY DEF Inv, Kept
<1> QED
  BY <1>1, InvHolds, PTL

\* The tree a running mutation reads is the course but for its own changes, so
\* one refresh under the course's lock is enough (fs.go:377-414).
THEOREM ActsOnTheCourseHolds == Spec => []ActsOnTheCourse
<1>1. Inv => ActsOnTheCourse
  BY DEF Inv, Kept
<1> QED
  BY <1>1, InvHolds, PTL

\* A lookup that nothing disturbs answers from the course as it is
\* (fs.go:327-382, 1690-1824).
THEOREM FreshAnswerHolds == Spec => []FreshAnswer
<1>1. Inv => FreshAnswer
  <2> SUFFICES ASSUME Inv, Clean, NEW l \in Lookups, pc[l] = "answer", undisturbed[l]
               PROVE  tree[at[l]] = server
    BY DEF FreshAnswer
  <2> USE Constants
  <2>1. /\ Types /\ LockHeld /\ InPlace /\ WholeTrees /\ PendingRuns /\ Coherent
        /\ LookupIsCurrent
    BY DEF Inv, Base, Kept
  <2>2. lock = Free /\ label[at[l]] = counter
    BY <2>1 DEF LookupIsCurrent
  <2>3. Settled
    <3>1. \A m \in Mutations : pc[m] \in {"start", "done"}
      BY <2>1, <2>2 DEF LockHeld
    <3> QED
      BY <2>1, <3>1 DEF PendingRuns, PendingOf, Settled, Clean
  <2>4. at[l] \in Fs /\ Open(at[l])
    BY <2>1 DEF Types, InPlace, PlaceOf, WholeTrees
  <2> QED
    BY <2>1, <2>2, <2>3, <2>4 DEF Coherent
<1> QED
  BY <1>1, InvHolds, PTL

=============================================================================

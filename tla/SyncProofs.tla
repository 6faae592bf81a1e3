----------------------------- MODULE SyncProofs ------------------------------
(***************************************************************************)
(* A sync, whatever the trees, the options, the numbers of goroutines and  *)
(* the failures.  First its control: in which order run stops the stages,  *)
(* what has become of the errors and the contexts, when a pipe or the      *)
(* channel of the deleters is empty for good, and what a sync may return.  *)
(* Then what a sync keeps, brings and clears: of every path it is said     *)
(* where it is on its way from the march to its place, and that nothing is *)
(* left out as long as nothing has gone wrong.                             *)
(***************************************************************************)
EXTENDS Sync, FiniteSetTheorems, TLAPS

Entries == Contents \cup {Dir, None}
Trees == [Paths -> Entries]
Stages == [Pipes -> [hand : SUBSET PairType, left : Nat]]

\* Where run is before the first stage has ended.
Starting == {"march", "renames", "checkers"}

\* Where run is when the pipe to the transfers is closed.
Later == {"transfers", "deleters", "deleting", "prune", "move", "finish", "done"}

\* Stages that put to that pipe.
Putters == {"check", "rename"}

Types ==
  /\ opt \in Scenarios
  /\ src \in Trees /\ dst \in Trees /\ backup \in Trees
  /\ pc \in Starting \cup {"renamers"} \cup Later
  /\ jobs \subseteq [dir : Paths \cup {Top}, inSrc : BOOLEAN, inDst : BOOLEAN]
  /\ todo \subseteq Paths /\ renameCheck \subseteq Paths
  /\ renameMap \subseteq Paths /\ dstFiles \subseteq Paths
  /\ pipe \in [Pipes -> SUBSET PairType]

\* No worker holds more than one pair.
Crew(s) ==
  /\ s \in Stages
  /\ \A n \in Pipes : IsFiniteSet(s[n].hand) /\ Cardinality(s[n].hand) <= s[n].left

\* What run waits for before it goes on.
Order ==
  /\ pc # "march" => todo = {}
  /\ pc \notin {"march", "renames"} => renameCheck = {}
  /\ pc \in Later \cup {"renamers"} => stage["check"].left = 0
  /\ pc \in Later => stage["rename"].left = 0
  /\ pc \in Later \ {"transfers"} => stage["upload"].left = 0
  /\ opt.checkFirst /\ pc \in Starting => stage["upload"].left = 0
  /\ "check" \in closed => pc \notin {"march", "renames"}
  /\ "rename" \in closed => pc \notin Starting
  /\ "upload" \in closed => pc \in Later

Base == Types /\ Crew(stage) /\ Order

-----------------------------------------------------------------------------
(* The workers of a stage. *)

\* t is s or has fewer workers.
Shrinks(s, t) == \A n \in Pipes : t[n].left <= s[n].left

LEMMA InStages ==
  ASSUME NEW s \in Stages, NEW n \in Pipes
  PROVE  /\ s[n].hand \in SUBSET PairType /\ s[n].left \in Nat
         /\ s[n] = [hand |-> s[n].hand, left |-> s[n].left]
<1> DEFINE R == [hand : SUBSET PairType, left : Nat]
<1>1. s[n] \in R
  BY DEF Stages
<1>2. \A r \in R : /\ r.hand \in SUBSET PairType /\ r.left \in Nat
                   /\ r = [hand |-> r.hand, left |-> r.left]
  OBVIOUS
<1> QED BY <1>1, <1>2

\* A stage whose record is replaced by one of hands g and l workers.
LEMMA Replaced ==
  ASSUME Crew(stage), NEW n \in Pipes, NEW g \in SUBSET PairType, NEW l \in Nat,
         IsFiniteSet(g), l <= stage[n].left, Cardinality(g) <= l,
         stage' = [stage EXCEPT ![n] = [hand |-> g, left |-> l]]
  PROVE  Crew(stage') /\ Shrinks(stage, stage')
<1>1. stage \in Stages
  BY DEF Crew
<1>2. [hand |-> g, left |-> l] \in [hand : SUBSET PairType, left : Nat]
  OBVIOUS
<1>3. stage' \in Stages
  BY <1>1, <1>2 DEF Stages
<1>4. \A m \in Pipes : m # n => stage'[m] = stage[m]
  BY <1>1 DEF Stages
<1>5. stage'[n] = [hand |-> g, left |-> l]
  BY <1>1 DEF Stages
<1>6. stage'[n].hand = g /\ stage'[n].left = l
  BY <1>5
<1>7. \A m \in Pipes : stage[m].left \in Nat
  BY <1>1, InStages
<1>8. Shrinks(stage, stage')
  BY <1>4, <1>6, <1>7 DEF Shrinks
<1> QED BY <1>3, <1>4, <1>6, <1>8 DEF Crew

LEMMA OneMore ==
  ASSUME NEW S, IsFiniteSet(S), NEW x
  PROVE  /\ IsFiniteSet(S \cup {x}) /\ Cardinality(S) \in Nat
         /\ Cardinality(S \cup {x}) <= Cardinality(S) + 1
<1>1. IsFiniteSet(S \cup {x}) /\ Cardinality(S) \in Nat
  BY FS_AddElement, FS_CardinalityType
<1>2. CASE x \in S
  <2>1. S \cup {x} = S
    BY <1>2
  <2> QED BY <1>1, <2>1
<1>3. CASE x \notin S
  <2>1. Cardinality(S \cup {x}) = Cardinality(S) + 1
    BY <1>3, FS_AddElement
  <2> QED BY <1>1, <2>1
<1> QED BY <1>2, <1>3

LEMMA HoldsCrew ==
  ASSUME Crew(stage), NEW n \in Pipes, NEW x \in stage[n].hand, NEW new \in SUBSET PairType,
         new = {} \/ \E y : new = {y}, Holds(n, x, new)
  PROVE  Crew(stage') /\ Shrinks(stage, stage')
<1> DEFINE h == stage[n].hand
           k == stage[n].left
           g == (h \ {x}) \cup new
<1>1. stage \in Stages /\ h \in SUBSET PairType /\ k \in Nat
  BY InStages DEF Crew
<1>2. IsFiniteSet(h) /\ Cardinality(h) <= k
  BY DEF Crew
<1>3. stage' = [stage EXCEPT ![n] = [hand |-> g, left |-> k]]
  BY <1>1, InStages DEF Holds, Stages
<1> HIDE DEF h, k
<1>4. x \in h
  BY DEF h
<1>5. IsFiniteSet(g) /\ Cardinality(g) <= Cardinality(h)
  <2>1. /\ IsFiniteSet(h \ {x}) /\ Cardinality(h \ {x}) = Cardinality(h) - 1
        /\ Cardinality(h) \in Nat
    BY <1>2, <1>4, FS_RemoveElement, FS_CardinalityType
  <2>2. CASE new = {}
    BY <2>1, <2>2
  <2>3. CASE \E y : new = {y}
    <3>1. PICK y : g = (h \ {x}) \cup {y}
      BY <2>3
    <3>2. Cardinality(g) <= Cardinality(h \ {x}) + 1 /\ IsFiniteSet(g)
      BY <2>1, <3>1, OneMore
    <3> QED BY <2>1, <3>2
  <2> QED BY <2>2, <2>3
<1>6. g \in SUBSET PairType
  BY <1>1
<1>7. Cardinality(g) <= k
  <2>1. Cardinality(g) \in Nat /\ Cardinality(h) \in Nat
    BY <1>2, <1>5, FS_CardinalityType
  <2> QED BY <2>1, <1>1, <1>2, <1>5
<1>8. k \in Nat /\ k <= stage[n].left
  BY <1>1 DEF k
<1> HIDE DEF g
<1> QED BY <1>3, <1>5, <1>6, <1>7, <1>8, Replaced

\* A worker leaves with its pair.
LEMMA LeavesCrew ==
  ASSUME Crew(stage), NEW n \in Putters, NEW x \in stage[n].hand, Leaves(n, x)
  PROVE  Crew(stage') /\ Shrinks(stage, stage')
<1> DEFINE h == stage[n].hand
           k == stage[n].left
<1>1. n \in Pipes
  BY DEF Putters, Pipes
<1>2. stage \in Stages /\ h \in SUBSET PairType /\ k \in Nat
  BY <1>1, InStages DEF Crew
<1>3. IsFiniteSet(h) /\ Cardinality(h) <= k /\ Cardinality(h) \in Nat
  BY <1>1, FS_CardinalityType DEF Crew
<1>4. stage' = [stage EXCEPT ![n] = [hand |-> h \ {x}, left |-> k - 1]]
  BY <1>1, <1>2, InStages DEF Leaves, Stages
<1>5. /\ IsFiniteSet(h \ {x}) /\ Cardinality(h \ {x}) = Cardinality(h) - 1
      /\ Cardinality(h \ {x}) \in Nat
  BY <1>3, FS_RemoveElement, FS_CardinalityType
<1>6. k - 1 \in Nat /\ k - 1 <= stage[n].left /\ Cardinality(h \ {x}) <= k - 1
  BY <1>2, <1>3, <1>5
<1>7. h \ {x} \in SUBSET PairType
  BY <1>2
<1> HIDE DEF h, k
<1> QED BY <1>1, <1>4, <1>5, <1>6, <1>7, Replaced

LEMMA GetCrew ==
  ASSUME Types, Crew(stage), NEW n \in Pipes, Get(n)
  PROVE  Crew(stage') /\ Shrinks(stage, stage')
<1> DEFINE h == stage[n].hand
           k == stage[n].left
<1>1. PICK x \in pipe[n] : stage' = [stage EXCEPT ![n].hand = @ \cup {x}]
  BY DEF Get
<1>2. stage \in Stages /\ h \in SUBSET PairType /\ k \in Nat /\ x \in PairType
  BY InStages DEF Crew, Types
<1>3. stage' = [stage EXCEPT ![n] = [hand |-> h \cup {x}, left |-> k]]
  BY <1>1, <1>2, InStages DEF Stages
<1>4. IsFiniteSet(h) /\ Cardinality(h) \in Nat /\ Cardinality(h) < k
  BY <1>2, FS_CardinalityType DEF Crew, Get, Free
<1> HIDE DEF h, k
<1>5. IsFiniteSet(h \cup {x}) /\ Cardinality(h \cup {x}) <= k
  <2>1. /\ IsFiniteSet(h \cup {x}) /\ Cardinality(h \cup {x}) <= Cardinality(h) + 1
        /\ Cardinality(h \cup {x}) \in Nat
    BY <1>4, OneMore, FS_CardinalityType
  <2> QED BY <1>2, <1>4, <2>1
<1>6. h \cup {x} \in SUBSET PairType /\ k <= stage[n].left
  BY <1>2 DEF k
<1> QED BY <1>2, <1>3, <1>5, <1>6, Replaced

LEMMA GetFailsCrew ==
  ASSUME Crew(stage), NEW n \in Pipes, GetFails(n)
  PROVE  Crew(stage') /\ Shrinks(stage, stage')
<1> DEFINE h == stage[n].hand
           k == stage[n].left
<1>1. stage \in Stages /\ h \in SUBSET PairType /\ k \in Nat
  BY InStages DEF Crew
<1>2. stage' = [stage EXCEPT ![n] = [hand |-> h, left |-> k - 1]]
  <2>1. stage' = [stage EXCEPT ![n].left = @ - 1]
    BY DEF GetFails
  <2>2. stage' = [stage EXCEPT ![n] = [stage[n] EXCEPT !.left = k - 1]]
    BY <2>1
  <2>3. stage[n] = [hand |-> h, left |-> k]
    BY <1>1, InStages
  <2> HIDE DEF h, k
  <2>4. [stage[n] EXCEPT !.left = k - 1] = [hand |-> h, left |-> k - 1]
    BY <2>3
  <2> QED BY <2>2, <2>4
<1>3. IsFiniteSet(h) /\ Cardinality(h) \in Nat /\ Cardinality(h) < k
  BY <1>1, FS_CardinalityType DEF Crew, GetFails, Free
<1>4. k - 1 \in Nat /\ Cardinality(h) <= k - 1 /\ k - 1 <= stage[n].left
  BY <1>1, <1>3
<1> HIDE DEF h, k
<1> QED BY <1>1, <1>2, <1>3, <1>4, Replaced

-----------------------------------------------------------------------------
(* Types, and the order in which the stages are stopped. *)

LEMMA StoredType ==
  ASSUME dst \in Trees, NEW p \in Paths, NEW c \in Entries
  PROVE  Stored(p, c) \in Trees
BY DEF Stored, Made, Trees, Entries

LEMMA BackedUpType == ASSUME Types, NEW p PROVE BackedUp(p) \in Trees
<1>1. p \in Paths => dst[p] \in Entries
  BY DEF Types, Trees
<1> QED BY <1>1 DEF BackedUp, Types, Trees

LEMMA PairTypes ==
  /\ \A p \in Paths : \A d \in {"old", "none", "same"} : Pair(p, d) \in PairType
  /\ \A x \in PairType : /\ x.path \in Paths /\ x.from \in Paths \cup {None}
                         /\ \A r \in BOOLEAN : [x EXCEPT !.ready = r] \in PairType
                         /\ \A f \in Paths \cup {None} : [x EXCEPT !.from = f] \in PairType
                         /\ \A d \in {"old", "none", "same"} : \A r \in BOOLEAN :
                              [x EXCEPT !.dst = d, !.ready = r] \in PairType
                         /\ [x EXCEPT !.from = None, !.ready = TRUE] \in PairType
BY DEF Pair, PairType

LEMMA PutType ==
  ASSUME Types, NEW n \in Pipes, NEW x \in PairType, PutTo(n, x)
  PROVE  pipe' \in [Pipes -> SUBSET PairType]
BY DEF Types, PutTo

\* The pairs of a stage are pairs.
LEMMA InHand ==
  ASSUME Base, NEW n \in Pipes, NEW x \in stage[n].hand
  PROVE  x \in PairType
BY InStages DEF Base, Crew

LEMMA Keeps ==
  ASSUME Base, Types', Crew(stage'), Shrinks(stage, stage'), UNCHANGED <<pc, closed>>,
         UNCHANGED opt,
         pc # "march" => todo' \subseteq todo /\ renameCheck' \subseteq renameCheck
  PROVE  Base'
<1>1. \A n \in Pipes : stage'[n].left \in Nat
  BY InStages DEF Crew
<1>2. \A n \in Pipes : stage[n].left = 0 => stage'[n].left = 0
  BY <1>1 DEF Shrinks
<1>3. Order'
  BY <1>2 DEF Base, Order, Later, Starting, Pipes
<1> QED BY <1>3 DEF Base

\* What leaves the workers alone.
LEMMA KeepsCrew ==
  ASSUME Base, Types', UNCHANGED <<opt, pc, closed, stage>>,
         pc # "march" => todo' \subseteq todo /\ renameCheck' \subseteq renameCheck
  PROVE  Base'
<1>1. \A n \in Pipes : stage[n].left \in Nat
  BY InStages DEF Base, Crew
<1>2. Crew(stage') /\ Shrinks(stage, stage')
  BY <1>1 DEF Base, Crew, Shrinks
<1> QED BY <1>2, Keeps

LEMMA RecurseType ==
  ASSUME Types, NEW p \in Paths, NEW s \in BOOLEAN, NEW d \in BOOLEAN,
         Recurse(p, s, d) \/ UNCHANGED jobs
  PROVE  jobs' \subseteq [dir : Paths \cup {Top}, inSrc : BOOLEAN, inDst : BOOLEAN]
BY DEF Recurse, Types

LEMMA MarchBase == ASSUME Base, March PROVE Base'
<1>1. UNCHANGED <<opt, pc, closed, stage>> /\ pc = "march"
  BY DEF March, List, SrcOnlyFile, SrcOnlyDir, DstOnlyFile, DstOnlyDir, MatchFile, MatchDir,
         Reports, run
<1>2. ASSUME NEW j \in jobs, List(j) PROVE Types'
  <2>1. todo' \subseteq Paths
    BY <1>2 DEF List, Listed, Under, Base, Types
  <2>2. jobs' \subseteq jobs
    BY <1>2 DEF List
  <2> QED BY <1>2, <2>1, <2>2 DEF List, Base, Types, run, sides, files
<1>3. ASSUME NEW p \in todo, SrcOnlyFile(p) PROVE Types'
  <2>1. pipe' \in [Pipes -> SUBSET PairType]
    BY <1>3, PutType, PairTypes DEF SrcOnlyFile, Base, Types, Pipes
  <2> QED BY <1>3, <2>1 DEF SrcOnlyFile, Reports, Base, Types, run, sides
<1>4. ASSUME NEW p \in todo, SrcOnlyDir(p) PROVE Types'
  <2>1. dst' \in Trees
    BY <1>4, StoredType DEF SrcOnlyDir, Base, Types, Entries
  <2>2. jobs' \subseteq [dir : Paths \cup {Top}, inSrc : BOOLEAN, inDst : BOOLEAN]
    <3>1. p \in Paths
      BY DEF Base, Types
    <3>2. \E s, d \in BOOLEAN : Recurse(p, s, d) \/ UNCHANGED jobs
      BY <1>4 DEF SrcOnlyDir
    <3> QED BY <3>1, <3>2, RecurseType DEF Base
  <2> QED BY <1>4, <2>1, <2>2 DEF SrcOnlyDir, Reports, Base, Types, run, files
<1>5. ASSUME NEW p \in todo, DstOnlyFile(p) PROVE Types'
  BY <1>5 DEF DstOnlyFile, Reports, Base, Types, run, sides
<1>6. ASSUME NEW p \in todo, DstOnlyDir(p) PROVE Types'
  <2>1. jobs' \subseteq [dir : Paths \cup {Top}, inSrc : BOOLEAN, inDst : BOOLEAN]
    <3>1. p \in Paths
      BY DEF Base, Types
    <3>2. \E s, d \in BOOLEAN : Recurse(p, s, d) \/ UNCHANGED jobs
      BY <1>6 DEF DstOnlyDir
    <3> QED BY <3>1, <3>2, RecurseType DEF Base
  <2> QED BY <1>6, <2>1 DEF DstOnlyDir, Reports, Base, Types, run, sides, files
<1>7. ASSUME NEW p \in todo, MatchFile(p) PROVE Types'
  <2>1. pipe' \in [Pipes -> SUBSET PairType]
    BY <1>7, PutType, PairTypes DEF MatchFile, Base, Types, Pipes
  <2> QED BY <1>7, <2>1 DEF MatchFile, Reports, Base, Types, run, sides, files
<1>8. ASSUME NEW p \in todo, MatchDir(p) PROVE Types'
  <2>1. jobs' \subseteq [dir : Paths \cup {Top}, inSrc : BOOLEAN, inDst : BOOLEAN]
    <3>1. p \in Paths
      BY DEF Base, Types
    <3>2. \E s, d \in BOOLEAN : Recurse(p, s, d) \/ UNCHANGED jobs
      BY <1>8 DEF MatchDir
    <3> QED BY <3>1, <3>2, RecurseType DEF Base
  <2> QED BY <1>8, <2>1 DEF MatchDir, Reports, Base, Types, run, files
<1>9. Types'
  BY <1>2, <1>3, <1>4, <1>5, <1>6, <1>7, <1>8 DEF March
<1> QED BY <1>1, <1>9, KeepsCrew

LEMMA StageBase == ASSUME Base, NEW n \in Pipes, Stage(n) PROVE Base'
<1>1. UNCHANGED <<opt, pc, closed, todo, renameCheck>>
  BY DEF Stage, Get, GetFails, PassOn, run, march, files
<1>2. CASE Get(n)
  <2>1. Crew(stage') /\ Shrinks(stage, stage')
    BY <1>2, GetCrew DEF Base
  <2>2. Types'
    BY <1>2 DEF Get, Base, Types, run, sides, march, files
  <2> QED BY <1>1, <2>1, <2>2, Keeps
<1>3. CASE GetFails(n)
  <2>1. Crew(stage') /\ Shrinks(stage, stage')
    BY <1>3, GetFailsCrew DEF Base
  <2>2. Types'
    BY <1>3 DEF GetFails, Base, Types, run, sides, march, files
  <2> QED BY <1>1, <2>1, <2>2, Keeps
<1>4. CASE PassOn(n)
  <2>1. n \in Putters
    BY <1>4 DEF PassOn, Putters
  <2>2. PICK x \in stage[n].hand :
          \/ Holds(n, x, {}) /\ PutTo("upload", [x EXCEPT !.ready = FALSE])
          \/ Leaves(n, x) /\ UNCHANGED pipe
    BY <1>4 DEF PassOn
  <2>3. Crew(stage') /\ Shrinks(stage, stage')
    BY <2>1, <2>2, HoldsCrew, LeavesCrew DEF Base
  <2>4. [x EXCEPT !.ready = FALSE] \in PairType
    BY InHand, PairTypes
  <2>5. pipe' \in [Pipes -> SUBSET PairType]
    BY <2>2, <2>4, PutType DEF Base, Types, Pipes
  <2>6. Types'
    BY <1>4, <2>5 DEF PassOn, Base, Types, run, sides, march, files
  <2> QED BY <1>1, <2>3, <2>6, Keeps
<1> QED BY <1>2, <1>3, <1>4 DEF Stage

LEMMA CheckerBase == ASSUME Base, Checker PROVE Base'
<1>1. UNCHANGED <<pc, closed, todo, renameCheck, pipe, opt, jobs, renameMap, dstFiles>>
  BY DEF Checker, CheckDiffers, CheckEqual, run, march, files
<1>2. "check" \in Pipes
  BY DEF Pipes
<1>3. ASSUME NEW x \in stage["check"].hand, CheckDiffers(x)
      PROVE  /\ Crew(stage') /\ Shrinks(stage, stage')
             /\ dst' \in Trees /\ backup' \in Trees /\ src' = src
  <2>1. x \in PairType
    BY <1>2, InHand
  <2>2. \E new \in SUBSET PairType : (new = {} \/ \E y : new = {y}) /\ Holds("check", x, new)
    BY <1>3, <2>1, PairTypes DEF CheckDiffers
  <2>3. Crew(stage') /\ Shrinks(stage, stage')
    BY <1>2, <2>2, HoldsCrew DEF Base
  <2>4. backup' \in Trees
    BY <1>3, BackedUpType DEF CheckDiffers, Base, Types
  <2> QED BY <1>3, <2>3, <2>4 DEF CheckDiffers, Base, Types, Trees, Entries
<1>4. ASSUME NEW x \in stage["check"].hand, CheckEqual(x)
      PROVE  /\ Crew(stage') /\ Shrinks(stage, stage')
             /\ src' \in Trees /\ UNCHANGED <<dst, backup>>
  <2>1. x \in PairType
    BY <1>2, InHand
  <2>2. \E new \in SUBSET PairType : (new = {} \/ \E y : new = {y}) /\ Holds("check", x, new)
    BY <1>4, <2>1, PairTypes DEF CheckEqual
  <2>3. Crew(stage') /\ Shrinks(stage, stage')
    BY <1>2, <2>2, HoldsCrew DEF Base
  <2> QED BY <1>4, <2>3 DEF CheckEqual, Base, Types, Trees, Entries
<1>5. /\ Crew(stage') /\ Shrinks(stage, stage')
      /\ src' \in Trees /\ dst' \in Trees /\ backup' \in Trees
  BY <1>3, <1>4 DEF Checker, Base, Types
<1>6. Types'
  BY <1>1, <1>5 DEF Base, Types
<1> QED BY <1>1, <1>5, <1>6, Keeps

LEMMA RenamerBase == ASSUME Base, Renamer PROVE Base'
<1>1. UNCHANGED <<pc, closed, todo, renameCheck, pipe, opt, jobs, src, backup>>
  BY DEF Renamer, PopRenameMap, Rename, run, march, sides, files
<1>2. "rename" \in Pipes
  BY DEF Pipes
<1>3. ASSUME NEW x \in stage["rename"].hand, PopRenameMap(x)
      PROVE  Crew(stage') /\ Shrinks(stage, stage') /\ Types'
  <2>1. x \in PairType /\ renameMap \subseteq Paths
    BY <1>2, InHand DEF Base, Types
  <2>2. /\ \E new \in SUBSET PairType : (new = {} \/ \E y : new = {y}) /\ Holds("rename", x, new)
        /\ renameMap' \subseteq renameMap
    <3>1. [x EXCEPT !.ready = TRUE] \in PairType
          /\ \A q \in renameMap : [x EXCEPT !.from = q] \in PairType
      BY <2>1, PairTypes
    <3>2. \/ \E q \in renameMap : /\ renameMap' = renameMap \ {q}
                                 /\ Holds("rename", x, {[x EXCEPT !.from = q]})
          \/ renameMap' = renameMap /\ Holds("rename", x, {[x EXCEPT !.ready = TRUE]})
      BY <1>3 DEF PopRenameMap
    <3> QED BY <3>1, <3>2
  <2>3. Crew(stage') /\ Shrinks(stage, stage')
    BY <1>2, <2>2, HoldsCrew DEF Base
  <2> QED BY <1>1, <1>3, <2>2, <2>3 DEF PopRenameMap, Base, Types, sides
<1>4. ASSUME NEW x \in stage["rename"].hand, Rename(x)
      PROVE  Crew(stage') /\ Shrinks(stage, stage') /\ Types'
  <2>1. x \in PairType /\ x.path \in Paths /\ x.from \in Paths
    BY <1>2, <1>4, InHand, PairTypes DEF Rename
  <2>2. /\ \E new \in SUBSET PairType : (new = {} \/ \E y : new = {y}) /\ Holds("rename", x, new)
        /\ dstFiles' \subseteq dstFiles
    BY <1>4, <2>1, PairTypes DEF Rename
  <2>3. Crew(stage') /\ Shrinks(stage, stage')
    BY <1>2, <2>2, HoldsCrew DEF Base
  <2>4. dst' \in Trees
    <3>1. dst \in Trees /\ dst[x.from] \in Entries
      BY <2>1 DEF Base, Types, Trees
    <3>2. Stored(x.path, dst[x.from]) \in Trees
      BY <2>1, <3>1, StoredType
    <3> QED BY <1>4, <3>1, <3>2 DEF Rename, Trees, Entries
  <2> QED BY <1>1, <1>4, <2>2, <2>3, <2>4 DEF Rename, Base, Types
<1>5. Crew(stage') /\ Shrinks(stage, stage') /\ Types'
  BY <1>3, <1>4 DEF Renamer
<1> QED BY <1>1, <1>5, Keeps

LEMMA TransferrerBase == ASSUME Base, Transferrer PROVE Base'
<1>1. UNCHANGED <<pc, closed, todo, renameCheck, pipe, opt, jobs, renameMap, dstFiles,
                  backup>>
  BY DEF Transferrer, Transfer, DeleteSource, run, march, files
<1>2. "upload" \in Pipes
  BY DEF Pipes
<1>3. ASSUME NEW x \in stage["upload"].hand, Transfer(x) \/ DeleteSource(x)
      PROVE  Crew(stage') /\ Shrinks(stage, stage') /\ src' \in Trees /\ dst' \in Trees
  <2>1. Crew(stage') /\ Shrinks(stage, stage')
    BY <1>2, <1>3, HoldsCrew DEF Transfer, DeleteSource, Base
  <2>2. x.path \in Paths
    BY <1>2, InHand, PairTypes
  <2>3. src \in Trees /\ dst \in Trees /\ src[x.path] \in Entries
    BY <2>2 DEF Base, Types, Trees
  <2>4. Stored(x.path, src[x.path]) \in Trees
    BY <2>2, <2>3, StoredType
  <2>5. [src EXCEPT ![x.path] = None] \in Trees /\ [dst EXCEPT ![x.path] = None] \in Trees
    BY <2>3 DEF Trees, Entries
  <2> QED BY <1>3, <2>1, <2>3, <2>4, <2>5 DEF Transfer, DeleteSource
<1>4. Crew(stage') /\ Shrinks(stage, stage') /\ src' \in Trees /\ dst' \in Trees
  BY <1>3 DEF Transferrer
<1>5. Types'
  BY <1>1, <1>4 DEF Base, Types
<1> QED BY <1>1, <1>4, <1>5, Keeps

LEMMA DeleterBase == ASSUME Base, Deleter PROVE Base'
<1>1. UNCHANGED <<pc, closed, stage, todo, renameCheck, pipe, opt, jobs, renameMap, dstFiles,
                  src>>
  BY DEF Deleter, Delete, DeleteFile, Deleted, run, march, files, sides
<1>2. dst' \in Trees /\ backup' \in Trees
  <2>1. \A p : [dst EXCEPT ![p] = None] \in Trees /\ BackedUp(p) \in Trees
    BY BackedUpType DEF Base, Types, Trees, Entries
  <2> QED BY <2>1 DEF Deleter, Delete, DeleteFile, Deleted, sides, Base, Types
<1>3. Types'
  BY <1>1, <1>2 DEF Base, Types
<1> QED BY <1>1, <1>3, KeepsCrew

\* What leaves the workers, the pipes and the files alone, and moves run on.
LEMMA GoesOn ==
  ASSUME Base, UNCHANGED <<opt, stage, closed, pipe, renameMap, backup>>,
         src' \in Trees, dst' \in Trees, dstFiles' \subseteq dstFiles,
         jobs' = {} \/ jobs' = jobs, todo' = {} \/ todo' = todo,
         renameCheck' \subseteq renameCheck, pc \in Later, pc' \in Later \ {"transfers"},
         pc = "transfers" => stage["upload"].left = 0
  PROVE  Base'
<1>1. Types'
  BY DEF Base, Types
<1> QED BY <1>1 DEF Base, Order, Later, Starting, Crew

LEMMA PrunedType ==
  ASSUME NEW tree \in Trees, NEW empty
  PROVE  Pruned(tree, empty) \in Trees
BY DEF Pruned, Trees, Entries

LEMMA StartedCrew ==
  ASSUME NEW o \in Scenarios
  PROVE  Crew(Started(o)) /\ (o.checkFirst => Started(o)["upload"].left = 0)
<1>1. IsFiniteSet({}) /\ Cardinality({}) = 0
  BY FS_EmptySet
<1>2. \A n \in Nat : Idle(n) \in [hand : SUBSET PairType, left : Nat] /\ Idle(n).hand = {}
                     /\ Idle(n).left = n
  BY DEF Idle
<1>3. Checkers \in Nat /\ Transfers \in Nat /\ 0 \in Nat
  BY SyncAssumption
<1>4. \A n \in Pipes : \E k \in Nat : Started(o)[n] = Idle(k)
  BY <1>3 DEF Started, Pipes
<1>5. \A n \in Pipes : /\ Started(o)[n] \in [hand : SUBSET PairType, left : Nat]
                       /\ Started(o)[n].hand = {} /\ Started(o)[n].left \in Nat
  BY <1>2, <1>4
<1>6. Started(o) \in Stages
  <2> DEFINE crew(n) == CASE n = "check" -> Idle(Checkers)
                          [] n = "rename" -> Idle(IF o.rename THEN Checkers ELSE 0)
                          [] n = "upload" -> Idle(IF o.checkFirst THEN 0 ELSE Transfers)
  <2>1. Started(o) = [n \in Pipes |-> crew(n)]
    BY DEF Started
  <2>2. \A n \in Pipes : crew(n) \in [hand : SUBSET PairType, left : Nat]
    <3> SUFFICES ASSUME NEW n \in Pipes
                 PROVE  crew(n) \in [hand : SUBSET PairType, left : Nat]
      OBVIOUS
    <3>1. crew(n) = Started(o)[n]
      BY <2>1
    <3> QED BY <3>1, <1>5
  <2> HIDE DEF crew
  <2> QED BY <2>1, <2>2 DEF Stages
<1>7. o.checkFirst => Started(o)["upload"].left = 0
  BY <1>2 DEF Started, Pipes
<1> QED BY <1>1, <1>5, <1>6, <1>7 DEF Crew

LEMMA RunBase == ASSUME Base, Run PROVE Base'
<1>1. CASE MarchEnds
  <2>1. Types'
    <3>1. renameMap' \subseteq Paths
      BY <1>1 DEF MarchEnds, RenameSources, Base, Types
    <3> QED BY <1>1, <3>1 DEF MarchEnds, sides, Base, Types, Starting
  <2> QED BY <1>1, <2>1 DEF MarchEnds, Base, Order, Later, Starting
<1>2. ASSUME NEW p \in renameCheck, PutRename(p) PROVE Base'
  <2>1. pipe' \in [Pipes -> SUBSET PairType]
    <3>1. p \in Paths
      BY DEF Base, Types
    <3>2. Pair(p, "none") \in PairType /\ "rename" \in Pipes
      BY <3>1, PairTypes DEF Pipes
    <3> QED BY <1>2, <3>2, PutType DEF PutRename, Base, Types
  <2>2. Types'
    BY <1>2, <2>1 DEF PutRename, run, sides, march, Base, Types
  <2> QED BY <1>2, <2>2, KeepsCrew DEF PutRename, run, march
<1>3. CASE StopCheckers
  <2>1. Types'
    BY <1>3 DEF StopCheckers, Goes, sides, march, files, Base, Types, Later, Starting
  <2> QED BY <1>3, <2>1 DEF StopCheckers, Goes, march, files, Base, Order, Later, Starting
<1>4. CASE StopRenamers
  <2>1. Types'
    BY <1>4 DEF StopRenamers, Goes, sides, march, files, Base, Types, Later, Starting
  <2>2. Crew(stage') /\ stage'["check"].left = 0
    <3>1. CASE ~opt.checkFirst
      BY <1>4, <3>1 DEF StopRenamers, Over, Base
    <3>2. CASE opt.checkFirst
      <4>1. stage' = [stage EXCEPT !["upload"].left = Transfers] /\ stage["check"].left = 0
        BY <1>4, <3>2 DEF StopRenamers, Over
      <4> DEFINE h == stage["upload"].hand
      <4>2. "upload" \in Pipes /\ stage \in Stages /\ h \in SUBSET PairType
        BY InStages DEF Pipes, Base, Crew
      <4>3. stage["upload"] = [hand |-> h, left |-> stage["upload"].left]
        BY <4>2, InStages
      <4>4. stage' = [stage EXCEPT !["upload"] = [stage["upload"] EXCEPT !.left = Transfers]]
        BY <4>1
      <4> HIDE DEF h
      <4>5. [stage["upload"] EXCEPT !.left = Transfers] = [hand |-> h, left |-> Transfers]
        BY <4>3
      <4>6. stage' = [stage EXCEPT !["upload"] = [hand |-> h, left |-> Transfers]]
        BY <4>4, <4>5
      <4>7. [hand |-> h, left |-> Transfers] \in [hand : SUBSET PairType, left : Nat]
        BY <4>2, SyncAssumption
      <4>8. stage' \in Stages
        BY <4>2, <4>6, <4>7 DEF Stages
      <4>9. stage'["upload"].hand = stage["upload"].hand
        BY <4>2, <4>6 DEF Stages, h
      <4>10. Cardinality(stage["upload"].hand) <= Transfers
        <5>1. stage["upload"].left = 0
          BY <1>4, <3>2 DEF StopRenamers, Goes, Base, Order, Starting
        <5>2. Cardinality(stage["upload"].hand) \in Nat
          BY <4>2, FS_CardinalityType DEF Base, Crew
        <5>3. Cardinality(stage["upload"].hand) <= 0
          BY <4>2, <5>1 DEF Base, Crew
        <5> QED BY <5>2, <5>3, SyncAssumption
      <4>12. stage'["upload"].left = Transfers
        BY <4>2, <4>6 DEF Stages
      <4>11. \A n \in Pipes : n # "upload" => stage'[n] = stage[n]
        BY <4>2, <4>6 DEF Stages
      <4> QED BY <4>1, <4>2, <4>8, <4>9, <4>10, <4>11, <4>12 DEF Base, Crew, Pipes
    <3> QED BY <3>1, <3>2
  <2> QED BY <1>4, <2>1, <2>2 DEF StopRenamers, Goes, march, files, Base, Order, Later, Starting
<1>5. CASE StopTransfers
  <2>1. Types'
    BY <1>5 DEF StopTransfers, Goes, sides, march, files, Base, Types, Later, Starting
  <2> QED BY <1>5, <2>1 DEF StopTransfers, Over, Goes, march, files, Base, Order, Later, Starting
<1>6. CASE StopDeleters \/ DeleteAfter
  <2>1. src' \in Trees /\ dst' \in Trees /\ pc \in Later /\ pc' \in Later \ {"transfers"}
    BY <1>6 DEF StopDeleters, DeleteAfter, Goes, sides, Base, Types, Later, Starting
  <2>2. pc = "transfers" => stage["upload"].left = 0
    BY <1>6 DEF StopDeleters, DeleteAfter, Over, Goes
  <2> QED BY <1>6, <2>1, <2>2, GoesOn DEF StopDeleters, DeleteAfter, Goes, march, files, sides
<1>7. CASE Feed
  <2>1. /\ src' \in Trees /\ dst' \in Trees
        /\ pc \in Later \ {"transfers"} /\ pc' \in Later \ {"transfers"}
    BY <1>7 DEF Feed, sides, run, Base, Types, Later, Starting
  <2> QED BY <1>7, <2>1, GoesOn DEF Feed, march, run, sides
<1>8. CASE SetDirTimes
  <2>1. /\ src' \in Trees /\ dst' \in Trees
        /\ pc \in Later \ {"transfers"} /\ pc' \in Later \ {"transfers"}
    BY <1>8 DEF SetDirTimes, Base, Types, Later, Starting
  <2> QED BY <1>8, <2>1, GoesOn DEF SetDirTimes, march, files
<1>9. CASE Prune
  <2>1. /\ src' \in Trees /\ dst' \in Trees
        /\ pc \in Later \ {"transfers"} /\ pc' \in Later \ {"transfers"}
    BY <1>9, PrunedType DEF Prune, Base, Types, Later, Starting
  <2> QED BY <1>9, <2>1, GoesOn DEF Prune, march, files
<1>10. CASE PruneSource
  <2>1. /\ src' \in Trees /\ dst' \in Trees
        /\ pc \in Later \ {"transfers"} /\ pc' \in Later \ {"transfers"}
    BY <1>10, PrunedType DEF PruneSource, Base, Types, Later, Starting
  <2> QED BY <1>10, <2>1, GoesOn DEF PruneSource, march, files
<1>11. CASE Finish
  <2>1. CASE SecondPass
    <3>1. Types'
      BY <2>1 DEF SecondPass, Root, sides, Base, Types, Later, Starting
    <3>2. Crew(stage')
      BY <2>1, StartedCrew DEF SecondPass, Base, Types
    <3>3. opt.checkFirst => stage'["upload"].left = 0
      BY <2>1, StartedCrew DEF SecondPass, Base, Types
    <3> QED BY <2>1, <3>1, <3>2, <3>3 DEF SecondPass, Base, Order, Later, Starting
  <2>2. CASE ~SecondPass
    <3>1. pc = "finish" /\ pc' = "done"
          /\ UNCHANGED <<opt, pass, sides, march, pipe, closed, stage, deletion, files, dirs,
                         status>>
      BY <1>11, <2>2 DEF Finish
    <3>2. /\ src' \in Trees /\ dst' \in Trees
          /\ pc \in Later \ {"transfers"} /\ pc' \in Later \ {"transfers"}
      BY <3>1 DEF sides, Base, Types, Later, Starting
    <3> QED BY <3>1, <3>2, GoesOn DEF march, files, sides
  <2> QED BY <2>1, <2>2
<1> QED BY <1>1, <1>2, <1>3, <1>4, <1>5, <1>6, <1>7, <1>8, <1>9, <1>10, <1>11 DEF Run

LEMMA BaseInit == Init => Base
<1> SUFFICES ASSUME Init PROVE Base
  OBVIOUS
<1>1. opt \in Scenarios /\ opt \in ScenarioType
  BY SyncAssumption DEF Init
<1>2. src \in Trees /\ dst \in Trees /\ backup \in Trees
  BY <1>1 DEF Init, ScenarioType, Trees, Entries
<1>3. Types
  BY <1>1, <1>2 DEF Init, Types, Starting, Root
<1>4. Crew(stage) /\ (opt.checkFirst => stage["upload"].left = 0)
  BY <1>1, StartedCrew DEF Init
<1> QED BY <1>3, <1>4 DEF Init, Base, Order, Later, Starting

LEMMA BaseStep == Base /\ [Next]_vars => Base'
<1> SUFFICES ASSUME Base, [Next]_vars PROVE Base'
  OBVIOUS
<1>1. CASE Deadline \/ Cancel \/ UNCHANGED vars
  <2>1. Types' /\ UNCHANGED <<opt, pc, closed, stage, todo, renameCheck>>
    BY <1>1 DEF Deadline, Cancel, vars, run, sides, march, files, deletion, status, Base, Types
  <2> QED BY <2>1, KeepsCrew
<1> QED BY <1>1, MarchBase, StageBase, CheckerBase, RenamerBase, TransferrerBase, DeleterBase,
           RunBase DEF Next

\* Where run is when the transfers are over.
Last == {"deleting", "prune", "move", "finish", "done"}

Errors == {"nil", "err", "noretry", "fatal", "graceful", "deadline", "canceled"}

Passes == pass \in {1, 2} /\ (pass = 2 => opt.mode = "before")

\* inCtx is a child of ctx; it is cancelled by an error or with its parent.
Contexts ==
  /\ ctx \in {"live", "canceled", "deadline"} /\ inCtx \in {"live", "canceled", "deadline"}
  /\ deleteErr \in {"nil", "err", "fatal", "off"}
  /\ inCtx = "live" => ctx = "live"
  /\ inCtx = "canceled" => errs # {} \/ ctx = "canceled"
  /\ ctx = "deadline" => inCtx = "deadline"

-----------------------------------------------------------------------------
(* Workers without pairs. *)

LEMMA NoHand ==
  ASSUME Base, NEW n \in Pipes, stage[n].left = 0
  PROVE  stage[n].hand = {}
<1>1. IsFiniteSet(stage[n].hand) /\ Cardinality(stage[n].hand) <= 0
  BY DEF Base, Crew
<1>2. Cardinality(stage[n].hand) \in Nat
  BY <1>1, FS_CardinalityType
<1>3. Cardinality(stage[n].hand) = 0
  BY <1>1, <1>2
<1> QED BY <1>1, <1>3, FS_EmptySet

\* When the transfers are over, no worker is left.
LEMMA AtRest ==
  ASSUME Base, pc \in Later \ {"transfers"}
  PROVE  /\ \A n \in Pipes : stage[n].left = 0 /\ stage[n].hand = {}
         /\ ~\E n \in Pipes : Stage(n)
         /\ ~Checker /\ ~Renamer /\ ~Transferrer
<1>1. \A n \in Pipes : stage[n].left = 0
  BY DEF Base, Order, Later, Pipes
<1>2. \A n \in Pipes : stage[n].hand = {}
  BY <1>1, NoHand
<1>3. \A n \in Pipes : ~Stage(n)
  <2> SUFFICES ASSUME NEW n \in Pipes PROVE ~Stage(n)
    OBVIOUS
  <2>1. ~Free(n)
    BY <1>1, <1>2, FS_EmptySet DEF Free
  <2> QED BY <1>2, <2>1 DEF Stage, Get, GetFails, PassOn
<1> QED BY <1>1, <1>2, <1>3 DEF Checker, Renamer, Transferrer, Pipes

-----------------------------------------------------------------------------
(* The errors and the contexts. *)

LEMMA OutcomeErrors == ASSUME Base PROVE Outcomes \subseteq Errors /\ Faults \subseteq Outcomes
<1>1. opt.faults \subseteq {"err", "noretry", "fatal", "graceful"}
  BY SyncAssumption DEF Base, Types, ScenarioType
<1> QED BY <1>1 DEF Outcomes, Faults, Errors

\* How a step may change the errors and the contexts.
LEMMA StatusSteps ==
  ASSUME Base, Contexts, [Next]_vars
  PROVE  UNCHANGED <<errs, ctx, inCtx>> \/ (\E e \in Errors : ProcessError(e))
         \/ Deadline \/ Cancel
<1> DEFINE Goal == UNCHANGED <<errs, ctx, inCtx>> \/ (\E e \in Errors : ProcessError(e))
                   \/ Deadline \/ Cancel
<1>1. \A e \in Outcomes : e \in Errors
  BY OutcomeErrors
<1>2. \A e \in Faults : e \in Errors
  BY OutcomeErrors
<1>3. "nil" \in Errors /\ "err" \in Errors /\ "noretry" \in Errors
      /\ (inCtx # "live" => inCtx \in Errors)
      /\ (deleteErr # "off" => deleteErr \in Errors)
  BY DEF Errors, Contexts
<1>4. CASE March
  BY <1>2, <1>3, <1>4 DEF March, List, SrcOnlyFile, SrcOnlyDir, DstOnlyFile, DstOnlyDir,
                          MatchFile, MatchDir, Ended, status
<1>5. CASE \E n \in Pipes : Stage(n)
  BY <1>5 DEF Stage, Get, GetFails, PassOn, status
<1>6. CASE Checker
  BY <1>2, <1>3, <1>6 DEF Checker, CheckDiffers, CheckEqual, Ended, status
<1>7. CASE Renamer
  BY <1>7 DEF Renamer, PopRenameMap, Rename, status
<1>8. CASE Transferrer
  BY <1>1, <1>2, <1>8 DEF Transferrer, Transfer, DeleteSource, Ended
<1>9. CASE Deleter
  BY <1>3, <1>9 DEF Deleter, Delete, DeleteFile, Deleted, status
<1>10. CASE Run
  BY <1>2, <1>3, <1>10 DEF Run, MarchEnds, PutRename, StopCheckers, StopRenamers, StopTransfers,
      StopDeleters, DeleteAfter, Feed, SetDirTimes, Prune, PruneSource, Finish, SecondPass,
      Ended, status
<1>11. CASE Deadline \/ Cancel \/ UNCHANGED vars
  BY <1>11 DEF vars, status
<1> QED BY <1>4, <1>5, <1>6, <1>7, <1>8, <1>9, <1>10, <1>11 DEF Next

\* Errors stay, and a context that has ended does.
LEMMA Onward ==
  ASSUME Base, Contexts, [Next]_vars
  PROVE  /\ errs \subseteq errs'
         /\ inCtx' = "live" => inCtx = "live"
         /\ inCtx = "deadline" => inCtx' = "deadline"
         /\ ctx' = "live" => ctx = "live"
         /\ Contexts'
<1>1. deleteErr' \in {"nil", "err", "fatal", "off"}
  BY DEF Contexts, Next, March, List, SrcOnlyFile, SrcOnlyDir, DstOnlyFile, DstOnlyDir, MatchFile,
         MatchDir, Stage, Get, GetFails, PassOn, Checker, CheckDiffers, CheckEqual, Renamer,
         PopRenameMap, Rename, Transferrer, Transfer, DeleteSource, Deleter, Delete,
         DeleteFile, Deleted, Run, MarchEnds, PutRename, StopCheckers, StopRenamers,
         StopTransfers, StopDeleters, DeleteAfter, Feed, SetDirTimes, Prune, PruneSource,
         Finish, SecondPass, Deadline, Cancel, Goes, run, vars, deletion
<1>2. CASE UNCHANGED <<errs, ctx, inCtx>>
  BY <1>1, <1>2 DEF Contexts
<1>3. CASE \E e \in Errors : ProcessError(e)
  <2>1. PICK e \in Errors : ProcessError(e)
    BY <1>3
  <2>2. errs \subseteq errs' /\ (e \in {"fatal", "graceful"} => errs' # {})
    BY <2>1 DEF ProcessError, Ignored
  <2> QED BY <1>1, <2>1, <2>2 DEF ProcessError, Contexts
<1>4. CASE Deadline
  BY <1>1, <1>4 DEF Deadline, Contexts
<1>5. CASE Cancel
  BY <1>1, <1>5 DEF Cancel, Contexts
<1> QED BY <1>2, <1>3, <1>4, <1>5, StatusSteps

\* processError of what is neither nil nor a cancellation leaves an error.
LEMMA Noted ==
  ASSUME NEW e, ProcessError(e), e \notin {"nil", "canceled"}
  PROVE  errs' # {}
BY DEF ProcessError, Ignored

-----------------------------------------------------------------------------
(* What the steps of the workers are made of. *)

\* Of the stages, one that has other pairs.
LEMMA NewHands ==
  ASSUME stage \in Stages, NEW n \in Pipes, NEW g, stage' = [stage EXCEPT ![n].hand = g]
  PROVE  /\ stage'[n].hand = g /\ stage'[n].left = stage[n].left
         /\ \A m \in Pipes : m # n => stage'[m] = stage[m]
<1>1. stage' = [stage EXCEPT ![n] = [hand |-> g, left |-> stage[n].left]]
  <2>1. stage' = [stage EXCEPT ![n] = [stage[n] EXCEPT !.hand = g]]
    OBVIOUS
  <2>2. stage[n] = [hand |-> stage[n].hand, left |-> stage[n].left]
    BY InStages
  <2>3. [stage[n] EXCEPT !.hand = g] = [hand |-> g, left |-> stage[n].left]
    BY <2>2
  <2> QED BY <2>1, <2>3
<1> QED BY <1>1 DEF Stages

LEMMA HoldsHands ==
  ASSUME stage \in Stages, NEW n \in Pipes, NEW x, NEW new, Holds(n, x, new)
  PROVE  /\ stage'[n].hand = (stage[n].hand \ {x}) \cup new
         /\ stage'[n].left = stage[n].left
         /\ \A m \in Pipes : m # n => stage'[m] = stage[m]
<1> DEFINE g == (stage[n].hand \ {x}) \cup new
<1>1. stage' = [stage EXCEPT ![n].hand = g]
  BY DEF Holds
<1> HIDE DEF g
<1>2. /\ stage'[n].hand = g /\ stage'[n].left = stage[n].left
      /\ \A m \in Pipes : m # n => stage'[m] = stage[m]
  BY <1>1, NewHands
<1> QED BY <1>2 DEF g

LEMMA LeavesHands ==
  ASSUME stage \in Stages, NEW n \in Pipes, NEW x, Leaves(n, x)
  PROVE  /\ stage'[n].hand = stage[n].hand \ {x}
         /\ \A m \in Pipes : m # n => stage'[m] = stage[m]
<1>1. stage' = [stage EXCEPT ![n] = [hand |-> stage[n].hand \ {x},
                                     left |-> stage[n].left - 1]]
  BY InStages DEF Leaves, Stages
<1> QED BY <1>1 DEF Stages

LEMMA GetHands ==
  ASSUME Base, NEW n \in Pipes, Get(n)
  PROVE  \E x \in pipe[n] :
           /\ pipe'[n] = pipe[n] \ {x} /\ stage'[n].hand = stage[n].hand \cup {x}
           /\ stage'[n].left = stage[n].left
           /\ \A m \in Pipes : m # n => pipe'[m] = pipe[m] /\ stage'[m] = stage[m]
<1>1. PICK x \in pipe[n] : /\ pipe' = [pipe EXCEPT ![n] = @ \ {x}]
                           /\ stage' = [stage EXCEPT ![n].hand = @ \cup {x}]
  BY DEF Get
<1>2. pipe \in [Pipes -> SUBSET PairType] /\ stage \in Stages
  BY DEF Base, Types, Crew
<1> DEFINE g == stage[n].hand \cup {x}
<1>3. stage' = [stage EXCEPT ![n].hand = g]
  BY <1>1
<1> HIDE DEF g
<1>4. /\ stage'[n].hand = g /\ stage'[n].left = stage[n].left
      /\ \A m \in Pipes : m # n => stage'[m] = stage[m]
  BY <1>2, <1>3, NewHands
<1>5. pipe'[n] = pipe[n] \ {x} /\ \A m \in Pipes : m # n => pipe'[m] = pipe[m]
  BY <1>1, <1>2
<1> QED BY <1>4, <1>5 DEF g

\* Workers that end, or begin.
LEMMA LeftHands ==
  ASSUME stage \in Stages, NEW n \in Pipes, NEW k, stage' = [stage EXCEPT ![n].left = k]
  PROVE  /\ \A m \in Pipes : stage'[m].hand = stage[m].hand
         /\ stage'[n].left = k /\ \A m \in Pipes : m # n => stage'[m] = stage[m]
<1>1. stage' = [stage EXCEPT ![n] = [hand |-> stage[n].hand, left |-> k]]
  <2>1. stage' = [stage EXCEPT ![n] = [stage[n] EXCEPT !.left = k]]
    OBVIOUS
  <2>2. stage[n] = [hand |-> stage[n].hand, left |-> stage[n].left]
    BY InStages
  <2>3. [stage[n] EXCEPT !.left = k] = [hand |-> stage[n].hand, left |-> k]
    BY <2>2
  <2> QED BY <2>1, <2>3
<1> QED BY <1>1 DEF Stages

LEMMA PutPipes ==
  ASSUME Base, NEW n \in Pipes, NEW x, PutTo(n, x)
  PROVE  pipe'[n] = pipe[n] \cup {x} /\ \A m \in Pipes : m # n => pipe'[m] = pipe[m]
BY DEF PutTo, Base, Types

-----------------------------------------------------------------------------
(* A stage loses its workers only when its pipe is closed and empty, unless the
   context has ended. *)

Full(n) == IF n = "upload" THEN Transfers ELSE Checkers

\* The workers of the stage have been started.
Manned(n) ==
  \/ n = "check" \/ (n = "rename" /\ opt.rename)
  \/ n = "upload" /\ ~(opt.checkFirst /\ pc \in Starting)

Drained ==
  inCtx = "live" =>
    \A n \in Pipes : Manned(n) /\ stage[n].left < Full(n) => n \in closed /\ pipe[n] = {}

LEMMA StartedFull ==
  ASSUME NEW o \in Scenarios
  PROVE  /\ Started(o)["check"].left = Checkers
         /\ o.rename => Started(o)["rename"].left = Checkers
         /\ ~o.checkFirst => Started(o)["upload"].left = Transfers
         /\ \A n \in Pipes : Started(o)[n].hand = {}
BY DEF Started, Idle, Pipes

LEMMA FullType == ASSUME NEW n \in Pipes PROVE Full(n) \in Nat \ {0}
BY SyncAssumption DEF Full

LEMMA DrainedKeeps ==
  ASSUME Base, Base', Drained, inCtx' = "live" => inCtx = "live", closed \subseteq closed',
         inCtx' = "live" => \A n \in Pipes : Manned(n)' =>
           \/ stage'[n].left = Full(n)
           \/ n \in closed /\ pipe'[n] = {}
           \/ /\ Manned(n) /\ stage'[n].left = stage[n].left
              /\ pipe'[n] \subseteq pipe[n] \/ n \notin closed
  PROVE  Drained'
<1> SUFFICES ASSUME inCtx' = "live", NEW n \in Pipes, Manned(n)', stage'[n].left < Full(n)
             PROVE  n \in closed' /\ pipe'[n] = {}
  BY DEF Drained, Full
<1>1. stage[n].left \in Nat /\ stage'[n].left \in Nat /\ Full(n) \in Nat
  BY InStages, FullType DEF Base, Crew
<1> QED BY <1>1 DEF Drained

LEMMA DrainedStep ==
  ASSUME Base, Base', Contexts, Drained, [Next]_vars
  PROVE  Drained'
<1>1. inCtx' = "live" => inCtx = "live"
  BY Onward
<1>2. stage \in Stages
  BY DEF Base, Crew
<1>3. ASSUME UNCHANGED <<opt, pc, closed>>,
             inCtx' = "live" => \A n \in Pipes :
               \/ n \in closed /\ pipe'[n] = {}
               \/ /\ stage'[n].left = stage[n].left
                  /\ pipe'[n] \subseteq pipe[n] \/ n \notin closed
      PROVE  Drained'
  <2>1. \A n \in Pipes : Manned(n)' <=> Manned(n)
    BY <1>3 DEF Manned
  <2> QED BY <1>1, <1>3, <2>1, DrainedKeeps
<1>4. CASE March
  <2>1. UNCHANGED <<opt, pc, closed, stage>> /\ pc = "march"
    BY <1>4 DEF March, List, SrcOnlyFile, SrcOnlyDir, DstOnlyFile, DstOnlyDir, MatchFile, MatchDir,
         Reports, run
  <2>2. \A n \in Pipes : n \notin closed
    BY <2>1 DEF Base, Order, Starting, Later, Pipes
  <2> QED BY <1>3, <2>1, <2>2
<1>5. ASSUME NEW n \in Pipes, Stage(n) PROVE Drained'
  <2>1. UNCHANGED <<opt, pc, closed, inCtx>>
    BY <1>5 DEF Stage, Get, GetFails, PassOn, run, status
  <2>2. CASE Get(n)
    <3>1. \A m \in Pipes : pipe'[m] \subseteq pipe[m] /\ stage'[m].left = stage[m].left
      BY <2>2, GetHands
    <3> QED BY <1>3, <2>1, <3>1
  <2>3. CASE GetFails(n)
    <3>1. pipe' = pipe /\ \A m \in Pipes : m # n => stage'[m] = stage[m]
      BY <1>2, <2>3, LeftHands DEF GetFails
    <3>2. inCtx = "live" => n \in closed /\ pipe'[n] = {}
      BY <2>3, <3>1 DEF GetFails
    <3> QED BY <1>3, <2>1, <3>1, <3>2
  <2>4. CASE PassOn(n)
    <3>1. PICK x \in stage[n].hand :
            \/ Holds(n, x, {}) /\ PutTo("upload", [x EXCEPT !.ready = FALSE])
            \/ inCtx # "live"
      BY <2>4 DEF PassOn
    <3>2. CASE inCtx # "live"
      BY <1>3, <2>1, <3>2
    <3>3. CASE Holds(n, x, {}) /\ PutTo("upload", [x EXCEPT !.ready = FALSE])
      <4>1. \A m \in Pipes : stage'[m].left = stage[m].left
        BY <1>2, <3>3, HoldsHands
      <4>2. \A m \in Pipes : m # "upload" => pipe'[m] = pipe[m]
        BY <3>3, PutPipes DEF Pipes
      <4>3. stage[n].left # 0
        BY NoHand
      <4>4. n \in {"check", "rename"}
        BY <2>4 DEF PassOn
      <4>5. "upload" \notin closed
        BY <4>3, <4>4 DEF Base, Order
      <4> QED BY <1>3, <2>1, <4>1, <4>2, <4>5
    <3> QED BY <3>1, <3>2, <3>3
  <2> QED BY <1>5, <2>2, <2>3, <2>4 DEF Stage
<1>6. CASE Checker \/ Renamer \/ Transferrer
  <2>1. \E n \in Pipes : \E x, new : Holds(n, x, new)
    BY <1>6 DEF Checker, CheckDiffers, CheckEqual, Renamer, PopRenameMap, Rename, Transferrer,
           Transfer, DeleteSource, Pipes
  <2>2. \A m \in Pipes : stage'[m].left = stage[m].left
    BY <1>2, <2>1, HoldsHands
  <2>3. UNCHANGED <<opt, pc, closed, pipe>>
    BY <1>6 DEF Checker, CheckDiffers, CheckEqual, Renamer, PopRenameMap, Rename, Transferrer,
           Transfer, DeleteSource, run
  <2> QED BY <1>3, <2>2, <2>3
<1>7. CASE Deleter \/ Deadline \/ Cancel \/ UNCHANGED vars
  <2>1. UNCHANGED <<opt, pc, closed, pipe, stage>>
    BY <1>7 DEF Deleter, Delete, DeleteFile, Deleted, Deadline, Cancel, vars, run
  <2> QED BY <1>3, <2>1
<1>8. CASE Run
  <2>1. ASSUME NEW p \in renameCheck, PutRename(p) PROVE Drained'
    <3>1. UNCHANGED <<opt, pc, closed, stage>> /\ pc = "renames"
      BY <2>1 DEF PutRename, run
    <3>2. UNCHANGED pipe \/ PutTo("rename", Pair(p, "none"))
      BY <2>1 DEF PutRename
    <3>3. \A m \in Pipes : m # "rename" => pipe'[m] = pipe[m]
      BY <3>2, PutPipes DEF Pipes
    <3>4. "rename" \notin closed
      BY <3>1 DEF Base, Order, Starting
    <3> QED BY <1>3, <3>1, <3>3, <3>4
  <2>2. CASE StopRenamers
    <3>1. UNCHANGED <<opt, pipe>> /\ pc = "checkers" /\ closed \subseteq closed'
      BY <2>2 DEF StopRenamers, Goes
    <3>2. CASE opt.checkFirst
      <4>1. /\ stage'["upload"].left = Transfers
            /\ \A m \in Pipes : m # "upload" => stage'[m] = stage[m]
        BY <1>2, <2>2, <3>2, LeftHands DEF StopRenamers, Pipes
      <4>2. \A m \in Pipes : m # "upload" => (Manned(m)' <=> Manned(m))
        BY <3>1 DEF Manned
      <4> QED BY <1>1, <3>1, <4>1, <4>2, DrainedKeeps DEF Full
    <3>3. CASE ~opt.checkFirst
      <4>1. stage' = stage
        BY <2>2, <3>3 DEF StopRenamers
      <4>2. \A m \in Pipes : Manned(m)' <=> Manned(m)
        BY <3>1, <3>3 DEF Manned
      <4> QED BY <1>1, <3>1, <4>1, <4>2, DrainedKeeps
    <3> QED BY <3>2, <3>3
  <2>3. CASE Finish
    <3>1. CASE SecondPass
      <4>1. stage' = Started(opt) /\ opt' = opt /\ pc' = "march" /\ opt \in Scenarios
        BY <3>1 DEF SecondPass, Base, Types
      <4>2. \A n \in Pipes : Manned(n)' => stage'[n].left = Full(n)
        BY <4>1, StartedFull DEF Manned, Full, Starting
      <4>3. \A n \in Pipes : stage'[n].left \in Nat /\ Full(n) \in Nat
        BY FullType, InStages DEF Base, Crew
      <4>4. \A n \in Pipes : Manned(n)' => ~(stage'[n].left < Full(n))
        BY <4>2, <4>3
      <4> QED BY <4>4 DEF Drained, Full
    <3>2. CASE ~SecondPass
      <4>1. UNCHANGED <<opt, closed, pipe, stage>> /\ pc = "finish" /\ pc' = "done"
        BY <2>3, <3>2 DEF Finish
      <4>2. \A m \in Pipes : Manned(m)' <=> Manned(m)
        BY <4>1 DEF Manned, Starting
      <4> QED BY <1>1, <4>1, <4>2, DrainedKeeps
    <3> QED BY <3>1, <3>2
  <2>4. CASE MarchEnds \/ StopCheckers \/ StopTransfers \/ StopDeleters \/ DeleteAfter \/ Feed
             \/ SetDirTimes \/ Prune \/ PruneSource
    <3>1. UNCHANGED <<opt, pipe, stage>> /\ closed \subseteq closed'
          /\ (pc' \in Starting <=> pc \in Starting)
      BY <2>4 DEF MarchEnds, StopCheckers, StopTransfers, StopDeleters, DeleteAfter, Feed,
         SetDirTimes, Prune, PruneSource, Goes, run, Starting
    <3>2. \A m \in Pipes : Manned(m)' <=> Manned(m)
      BY <3>1 DEF Manned
    <3> QED BY <1>1, <3>1, <3>2, DrainedKeeps
  <2> QED BY <1>8, <2>1, <2>2, <2>3, <2>4 DEF Run
<1> QED BY <1>4, <1>5, <1>6, <1>7, <1>8 DEF Next

-----------------------------------------------------------------------------
(* The deletions. *)

\* Nothing has gone wrong that would leave a file out.
Fine == errs = {} /\ ~marchErr /\ inCtx = "live"
\* No deletion has failed.
Deleting == deleteErr \in {"nil", "off"}

\* The deleters run until the channel is closed and empty, and with delete-after
\* only while run is deleting; they then have been given all there is.
Deletions ==
  /\ deleteCh \subseteq Paths /\ deleters \in [hand : SUBSET Paths, left : Nat]
  /\ Cardinality(deleters.hand) <= deleters.left
  /\ deleteErr = "off" => deleters.hand = {}
  /\ pc \notin Last \cup {"deleters"} => deleteOpen
  /\ deleteErr = "nil" /\ deleters.left < Checkers => ~deleteOpen /\ deleteCh = {}
  /\ pc \in Last \ {"deleting"} => deleteErr = "off"
  /\ Mode = "after" /\ pc # "deleting" => deleteErr = "off"
  /\ Mode = "after" /\ pc \notin Last => deleteCh = {}
  /\ Mode = "after" /\ ~opt.ignoreErrors /\ deleteErr # "off" => errs = {}
  /\ /\ Fine /\ deleteErr = "off"
     /\ Mode \in {"during", "only"} \/ (Mode = "after" /\ pc \in Last)
     => ~deleteOpen /\ deleteCh = {}
  /\ Fine /\ Deleting /\ Mode = "after" /\ pc \in Last /\ ~deleteOpen => dstFiles = {}
  /\ dstFiles # {} => Mode = "after"

LEMMA InDeleters ==
  ASSUME Deletions
  PROVE  /\ deleters = [hand |-> deleters.hand, left |-> deleters.left]
         /\ deleters.hand \in SUBSET Paths /\ deleters.left \in Nat
         /\ IsFiniteSet(deleters.hand) /\ Cardinality(deleters.hand) \in Nat
<1> DEFINE R == [hand : SUBSET Paths, left : Nat]
<1>1. \A r \in R : /\ r = [hand |-> r.hand, left |-> r.left]
                   /\ r.hand \in SUBSET Paths /\ r.left \in Nat
  OBVIOUS
<1>2. deleters \in R
  BY DEF Deletions
<1> HIDE DEF R
<1>3. /\ deleters = [hand |-> deleters.hand, left |-> deleters.left]
      /\ deleters.hand \in SUBSET Paths /\ deleters.left \in Nat
  BY <1>1, <1>2
<1> QED BY <1>3, SyncAssumption, FS_Subset, FS_CardinalityType

\* A step that goes on with the same pass was fine before.
LEMMA FineBack ==
  ASSUME Base, Contexts, [Next]_vars, pass' = pass, Fine'
  PROVE  Fine
<1>1. errs = {} /\ inCtx = "live"
  BY Onward DEF Fine
<1>2. CASE March \/ (\E n \in Pipes : Stage(n)) \/ Checker \/ Renamer \/ Transferrer \/ Deleter
  <2>1. marchErr' = marchErr \/ marchErr' = TRUE
    BY <1>2 DEF March, List, SrcOnlyFile, SrcOnlyDir, DstOnlyFile, DstOnlyDir, MatchFile,
         MatchDir, Stage, Get, GetFails, PassOn, Checker, CheckDiffers, CheckEqual, Renamer,
         PopRenameMap, Rename, Transferrer, Transfer, DeleteSource, Deleter, Delete,
         DeleteFile, Deleted, march
  <2> QED BY <1>1, <2>1 DEF Fine
<1>3. CASE Run \/ Deadline \/ Cancel \/ UNCHANGED vars
  <2>1. marchErr' = marchErr
    BY <1>3 DEF Run, MarchEnds, PutRename, StopCheckers, StopRenamers, StopTransfers,
         StopDeleters, DeleteAfter, Feed, SetDirTimes, Prune, PruneSource,
         Finish, SecondPass, Deadline, Cancel, Goes, march, vars
  <2> QED BY <1>1, <2>1 DEF Fine
<1> QED BY <1>2, <1>3 DEF Next

\* What leaves the deletions alone, and run on the same side of them.
LEMMA DeletionsKeep ==
  ASSUME Base, Contexts, Deletions, UNCHANGED <<opt, pass, deletion>>, dstFiles' \subseteq dstFiles,
         Fine' => Fine,
         pc' = pc \/ (pc \notin Last \cup {"deleters"} /\ pc' \notin Last \cup {"deleters"})
                  \/ (pc \in Last /\ pc' \in Last \ {"deleting"} /\ deleteErr = "off"),
         pc = "deleting" /\ deleteErr # "off" => errs' = errs
  PROVE  Deletions'
<1>1. Mode' = Mode
  BY DEF Mode
<1>2. UNCHANGED <<deleteCh, deleteOpen, deleters, deleteErr>>
  BY DEF deletion
<1>3. /\ (pc' \in Last <=> pc \in Last)
      /\ (pc' \in Last \cup {"deleters"} <=> pc \in Last \cup {"deleters"})
      /\ pc' = pc \/ (pc' # "deleting" /\ (pc # "deleting" \/ deleteErr = "off"))
  BY DEF Last
<1>4. /\ Mode' = "after" /\ pc' # "deleting" => deleteErr' = "off"
      /\ Mode' = "after" /\ ~opt'.ignoreErrors /\ deleteErr' # "off" => errs' = {}
  BY <1>1, <1>2, <1>3 DEF Deletions
<1>5. pc' \in Last \ {"deleting"} => deleteErr' = "off"
  BY <1>2, <1>3 DEF Deletions
<1>6. /\ pc' \notin Last \cup {"deleters"} => deleteOpen'
      /\ Mode' = "after" /\ pc' \notin Last => deleteCh' = {}
  BY <1>1, <1>2, <1>3 DEF Deletions
<1>7. /\ Fine' /\ deleteErr' = "off"
      /\ Mode' \in {"during", "only"} \/ (Mode' = "after" /\ pc' \in Last)
      => ~deleteOpen' /\ deleteCh' = {}
  BY <1>1, <1>2, <1>3 DEF Deletions
<1>8. Deleting' => Deleting
  BY <1>2 DEF Deleting
<1>9. Fine' /\ Deleting' /\ Mode' = "after" /\ pc' \in Last /\ ~deleteOpen' => dstFiles' = {}
  BY <1>1, <1>2, <1>3, <1>8 DEF Deletions
<1>10. dstFiles' # {} => Mode' = "after"
  BY <1>1 DEF Deletions
<1> QED BY <1>2, <1>4, <1>5, <1>6, <1>7, <1>9, <1>10 DEF Deletions

LEMMA DeletionsMarch ==
  ASSUME Base, Contexts, Deletions, March
  PROVE  Deletions'
<1>1. UNCHANGED <<opt, pass, pc>> /\ pc = "march"
  BY DEF March, List, SrcOnlyFile, SrcOnlyDir, DstOnlyFile, DstOnlyDir, MatchFile, MatchDir,
         Reports, run
<1>2. Fine' => Fine
  BY <1>1, FineBack DEF Next
<1>3. CASE UNCHANGED deletion /\ UNCHANGED dstFiles
  BY <1>1, <1>2, <1>3, DeletionsKeep
<1>4. ASSUME NEW p \in todo, DstOnlyFile(p) PROVE Deletions'
  <2>1. /\ UNCHANGED <<deleteOpen, deleters, deleteErr, marchErr, status>> /\ p \in Paths
        /\ \/ UNCHANGED <<deleteCh, dstFiles>>
           \/ Mode = "after" /\ UNCHANGED deleteCh
           \/ Mode \in {"during", "only"} /\ deleteCh' = deleteCh \cup {p} /\ UNCHANGED dstFiles
    BY <1>4 DEF DstOnlyFile, Base, Types
  <2>2. Mode' = Mode /\ deleteOpen /\ pc \notin Last /\ (Fine' <=> Fine) /\ (Deleting' <=> Deleting)
    BY <1>1, <2>1 DEF Mode, Deletions, Last, Fine, Deleting, status
  <2>3. errs' = errs
    BY <2>1 DEF status
  <2> QED BY <1>1, <2>1, <2>2, <2>3 DEF Deletions
<1> QED BY <1>3, <1>4 DEF March, List, SrcOnlyFile, SrcOnlyDir, DstOnlyDir, MatchFile, MatchDir,
                            files

LEMMA DeletionsWorkers ==
  ASSUME Base, Contexts, Deletions,
         (\E n \in Pipes : Stage(n)) \/ Checker \/ Renamer \/ Transferrer
  PROVE  Deletions'
<1>1. UNCHANGED <<opt, pass, pc, deletion>> /\ dstFiles' \subseteq dstFiles
  BY DEF Stage, Get, GetFails, PassOn, Checker, CheckDiffers, CheckEqual, Renamer,
         PopRenameMap, Rename, Transferrer, Transfer, DeleteSource, run, files
<1>2. Fine' => Fine
  BY <1>1, FineBack DEF Next
<1>3. pc # "deleting"
  BY AtRest DEF Later
<1> QED BY <1>1, <1>2, <1>3, DeletionsKeep

LEMMA DeletionsDelete ==
  ASSUME Base, Contexts, Deletions, Delete
  PROVE  Deletions'
<1> DEFINE h == deleters.hand
           k == deleters.left
<1>1. /\ UNCHANGED <<opt, pass, pc, deleteErr, deleteOpen, dstFiles, marchErr, status>>
      /\ deleteErr # "off" /\ k > Cardinality(h)
  BY DEF Delete, run, files, march
<1>2. Mode' = Mode /\ (Fine' <=> Fine) /\ (Deleting' <=> Deleting) /\ errs' = errs
  BY <1>1 DEF Mode, Fine, Deleting, status
<1>3. h \in SUBSET Paths /\ k \in Nat /\ IsFiniteSet(h) /\ Cardinality(h) \in Nat
      /\ deleters = [hand |-> h, left |-> k]
  BY InDeleters
<1>4. \/ \E p \in deleteCh : /\ deleteCh' = deleteCh \ {p}
                             /\ deleters' = [hand |-> h \cup {p}, left |-> k]
      \/ /\ ~deleteOpen /\ deleteCh = {} /\ deleteCh' = deleteCh
         /\ deleters' = [hand |-> h, left |-> k - 1]
  <2>1. \/ \E p \in deleteCh : /\ deleteCh' = deleteCh \ {p}
                               /\ deleters' = [deleters EXCEPT !.hand = @ \cup {p}]
        \/ /\ ~deleteOpen /\ deleteCh = {} /\ deleteCh' = deleteCh
           /\ deleters' = [deleters EXCEPT !.left = @ - 1]
    BY DEF Delete
  <2> HIDE DEF h, k
  <2>2. \A p : [deleters EXCEPT !.hand = @ \cup {p}] = [hand |-> h \cup {p}, left |-> k]
    BY <1>3
  <2>3. [deleters EXCEPT !.left = @ - 1] = [hand |-> h, left |-> k - 1]
    BY <1>3
  <2> QED BY <2>1, <2>2, <2>3
<1> HIDE DEF h, k
<1>5. PICK g, l : /\ deleters' = [hand |-> g, left |-> l] /\ g \in SUBSET Paths /\ l \in Nat
                  /\ Cardinality(g) <= l /\ deleteCh' \subseteq deleteCh
                  /\ l < Checkers => k < Checkers \/ (~deleteOpen /\ deleteCh = {})
  <2>1. ASSUME NEW p \in deleteCh, deleteCh' = deleteCh \ {p},
               deleters' = [hand |-> h \cup {p}, left |-> k]
        PROVE  \E g, l : /\ deleters' = [hand |-> g, left |-> l] /\ g \in SUBSET Paths /\ l \in Nat
                         /\ Cardinality(g) <= l /\ deleteCh' \subseteq deleteCh
                         /\ l < Checkers => k < Checkers \/ (~deleteOpen /\ deleteCh = {})
    <3>1. h \cup {p} \in SUBSET Paths
      BY <1>3 DEF Deletions
    <3>2. Cardinality(h \cup {p}) <= Cardinality(h) + 1 /\ IsFiniteSet(h \cup {p})
      BY <1>3, OneMore
    <3>3. Cardinality(h \cup {p}) \in Nat
      BY <3>2, FS_CardinalityType
    <3>4. Cardinality(h \cup {p}) <= k
      BY <1>1, <1>3, <3>2, <3>3 DEF h, k
    <3> DEFINE g == h \cup {p}
    <3> HIDE DEF g
    <3>5. deleters' = [hand |-> g, left |-> k] /\ g \in SUBSET Paths /\ Cardinality(g) <= k
      BY <2>1, <3>1, <3>4 DEF g
    <3>6. deleteCh' \subseteq deleteCh
      BY <2>1
    <3> QED BY <1>3, <3>5, <3>6
  <2>2. ASSUME ~deleteOpen, deleteCh = {}, deleteCh' = deleteCh,
               deleters' = [hand |-> h, left |-> k - 1]
        PROVE  \E g, l : /\ deleters' = [hand |-> g, left |-> l] /\ g \in SUBSET Paths /\ l \in Nat
                         /\ Cardinality(g) <= l /\ deleteCh' \subseteq deleteCh
                         /\ l < Checkers => k < Checkers \/ (~deleteOpen /\ deleteCh = {})
    <3>1. k > Cardinality(h)
      BY <1>1 DEF h, k
    <3>2. k - 1 \in Nat /\ Cardinality(h) <= k - 1
      BY <1>3, <3>1
    <3> DEFINE l == k - 1
    <3> HIDE DEF l
    <3>3. deleters' = [hand |-> h, left |-> l] /\ l \in Nat /\ Cardinality(h) <= l
      BY <2>2, <3>2 DEF l
    <3> QED BY <1>3, <2>2, <3>3
  <2> QED BY <1>4, <2>1, <2>2
<1>6. deleters'.hand = g /\ deleters'.left = l /\ deleters' \in [hand : SUBSET Paths, left : Nat]
  BY <1>5
<1>7. deleteErr' = "nil" /\ deleters'.left < Checkers => ~deleteOpen' /\ deleteCh' = {}
  <2>1. deleteErr = "nil" /\ k < Checkers => ~deleteOpen /\ deleteCh = {}
    BY DEF Deletions, k
  <2> QED BY <1>1, <1>5, <1>6, <2>1
<1>8. deleteCh' \subseteq Paths /\ (Mode' = "after" /\ pc' \notin Last => deleteCh' = {})
  BY <1>1, <1>2, <1>5 DEF Deletions
<1> QED BY <1>1, <1>2, <1>5, <1>6, <1>7, <1>8 DEF Deletions

LEMMA DeletionsDeleteFile ==
  ASSUME Base, Contexts, Deletions, NEW p \in deleters.hand, DeleteFile(p)
  PROVE  Deletions'
<1> DEFINE h == deleters.hand
           k == deleters.left
<1>1. /\ UNCHANGED <<opt, pass, pc, deleteCh, deleteOpen, dstFiles, marchErr, errs, ctx, inCtx>>
      /\ deleteErr # "off"
  BY DEF DeleteFile, run, files, march, Deletions
<1>2. h \in SUBSET Paths /\ k \in Nat /\ IsFiniteSet(h) /\ Cardinality(h) \in Nat
      /\ Cardinality(h) <= k
  BY InDeleters DEF Deletions
<1>3. /\ IsFiniteSet(h \ {p}) /\ Cardinality(h \ {p}) = Cardinality(h) - 1
      /\ Cardinality(h \ {p}) \in Nat
  BY <1>2, FS_RemoveElement, FS_CardinalityType
<1>4. PICK e \in Faults :
        /\ deleters' = [hand |-> h \ {p}, left |-> IF e = "fatal" THEN k - 1 ELSE k]
        /\ deleteErr' = IF "fatal" \in {e, deleteErr} THEN "fatal"
                        ELSE IF e = "nil" THEN deleteErr ELSE "err"
  BY DEF DeleteFile
<1>5. deleteErr' # "off" /\ (deleteErr' = "nil" => e = "nil" /\ deleteErr = "nil")
  BY <1>1, <1>4
<1> HIDE DEF h, k
<1> DEFINE l == IF e = "fatal" THEN k - 1 ELSE k
<1>6. l \in Nat /\ Cardinality(h \ {p}) <= l /\ (e = "nil" => l = k)
  BY <1>2, <1>3
<1> DEFINE g == h \ {p}
<1>7. g \in SUBSET Paths /\ deleters' = [hand |-> g, left |-> l] /\ Cardinality(g) <= l
  BY <1>2, <1>4, <1>6
<1> HIDE DEF g, l
<1>8. deleters'.hand = g /\ deleters'.left = l /\ deleters' \in [hand : SUBSET Paths, left : Nat]
  BY <1>6, <1>7
<1>9. deleteErr' = "nil" /\ deleters'.left < Checkers => ~deleteOpen' /\ deleteCh' = {}
  <2>1. deleteErr = "nil" /\ k < Checkers => ~deleteOpen /\ deleteCh = {}
    BY DEF Deletions, k
  <2> QED BY <1>1, <1>5, <1>6, <1>8, <2>1
<1>10. Mode' = Mode /\ (Fine' <=> Fine) /\ (Deleting' => Deleting)
  BY <1>1, <1>5 DEF Mode, Fine, Deleting
<1>11. pc \notin Last \ {"deleting"} /\ (Mode = "after" => pc = "deleting")
  BY <1>1 DEF Deletions
<1> QED BY <1>1, <1>5, <1>7, <1>8, <1>9, <1>10, <1>11 DEF Deletions

LEMMA DeletionsDeleted ==
  ASSUME Base, Contexts, Deletions, Deleted
  PROVE  Deletions'
<1>1. /\ UNCHANGED <<opt, pass, pc, deleteCh, deleteOpen, deleters, dstFiles, marchErr>>
      /\ deleteErr # "off" /\ deleteErr' = "off" /\ deleters.left = 0
  BY DEF Deleted, run, files, march
<1>2. deleters.hand = {}
  <2>1. Cardinality(deleters.hand) <= 0 /\ Cardinality(deleters.hand) \in Nat
        /\ IsFiniteSet(deleters.hand)
    BY <1>1, InDeleters DEF Deletions
  <2>2. Cardinality(deleters.hand) = 0
    BY <2>1
  <2> QED BY <2>1, <2>2, FS_EmptySet
<1>3. Mode' = Mode
  BY <1>1 DEF Mode
<1>4. Fine' => Fine /\ deleteErr = "nil"
  <2>1. Fine' => Fine
    BY <1>1, FineBack DEF Next, Deleter
  <2>2. ASSUME deleteErr # "nil" PROVE errs' # {}
    BY <1>1, <2>2, Noted DEF Deleted, Contexts
  <2> QED BY <2>1, <2>2 DEF Fine
<1>5. deleteErr = "nil" => ~deleteOpen /\ deleteCh = {}
  BY <1>1, SyncAssumption DEF Deletions
<1>6. /\ Fine' => ~deleteOpen' /\ deleteCh' = {}
      /\ Fine' /\ Mode = "after" /\ pc \in Last => dstFiles' = {}
  BY <1>1, <1>4, <1>5 DEF Deletions, Deleting
<1> QED BY <1>1, <1>2, <1>3, <1>6 DEF Deletions

LEMMA DeletionsRun == ASSUME Base, Contexts, Deletions, Run PROVE Deletions'
<1>0. pass' = pass => (Fine' => Fine)
  BY FineBack DEF Next
<1>1. CASE MarchEnds \/ (\E p \in renameCheck : PutRename(p)) \/ StopCheckers \/ StopRenamers
           \/ StopTransfers \/ SetDirTimes \/ Prune \/ PruneSource
  <2>1. UNCHANGED <<opt, pass, deletion>> /\ dstFiles' = dstFiles
    BY <1>1 DEF MarchEnds, PutRename, StopCheckers, StopRenamers, StopTransfers, SetDirTimes,
           Prune, PruneSource, Goes, run, files
  <2>2. \/ pc' = pc /\ pc # "deleting"
        \/ pc \notin Last \cup {"deleters"} /\ pc' \notin Last \cup {"deleters"}
        \/ pc \in Last \ {"deleting"} /\ pc' \in Last \ {"deleting"}
        \/ pc = "deleting" /\ pc' \in Last \ {"deleting"} /\ deleteErr = "off"
    BY <1>1 DEF MarchEnds, PutRename, StopCheckers, StopRenamers, StopTransfers, SetDirTimes,
           Prune, PruneSource, Goes, run, Last
  <2>3. pc \in Last \ {"deleting"} => deleteErr = "off"
    BY DEF Deletions
  <2>4. /\ pc' = pc \/ (pc \notin Last \cup {"deleters"} /\ pc' \notin Last \cup {"deleters"})
                    \/ (pc \in Last /\ pc' \in Last \ {"deleting"} /\ deleteErr = "off")
        /\ ~(pc = "deleting" /\ deleteErr # "off")
    BY <2>2, <2>3 DEF Last
  <2> QED BY <1>0, <2>1, <2>4, DeletionsKeep
<1>2. CASE StopDeleters
  <2>1. /\ UNCHANGED <<opt, pass, deleteCh, deleters, deleteErr, dstFiles, status, marchErr>>
        /\ ~deleteOpen' /\ pc = "transfers" /\ pc' = "deleters"
    BY <1>2 DEF StopDeleters, Goes, files, march
  <2>2. Mode' = Mode /\ (Fine' <=> Fine) /\ (Deleting' <=> Deleting) /\ errs' = errs
        /\ pc \notin Last \cup {"deleters"} /\ pc' \notin Last
    BY <2>1 DEF Mode, Fine, Deleting, status, Last
  <2> QED BY <2>1, <2>2 DEF Deletions
<1>3. CASE DeleteAfter
  <2>1. /\ UNCHANGED <<opt, pass, deleteCh, dstFiles, marchErr>> /\ deleteErr = "off"
        /\ pc = "deleters" /\ pc' = "deleting"
    BY <1>3 DEF DeleteAfter, Goes, files, march, deletion
  <2>2. Mode' = Mode /\ pc \notin Last /\ pc' \in Last
    BY <2>1 DEF Mode, Last
  <2>3. \/ UNCHANGED deletion /\ (Mode = "after" => errs' # {})
        \/ /\ Mode = "after" /\ deleters' = Idle(Checkers) /\ deleteErr' = "nil" /\ deleteOpen'
           /\ UNCHANGED errs /\ (errs = {} \/ opt.ignoreErrors)
    BY <1>3, Noted DEF DeleteAfter, CurrentError, status
  <2>4. CASE UNCHANGED deletion /\ (Mode = "after" => errs' # {})
    <3>1. UNCHANGED <<deleteOpen, deleters, deleteErr>>
      BY <2>4 DEF deletion
    <3>2. Fine' => Fine /\ Mode # "after"
      BY <1>0, <2>1, <2>4 DEF Fine
    <3> QED BY <2>1, <2>2, <3>1, <3>2 DEF Deletions
  <2>5. CASE /\ Mode = "after" /\ deleters' = Idle(Checkers) /\ deleteErr' = "nil" /\ deleteOpen'
             /\ UNCHANGED errs /\ (errs = {} \/ opt.ignoreErrors)
    <3>1. /\ deleters' \in [hand : SUBSET Paths, left : Nat]
          /\ deleters'.hand = {} /\ deleters'.left = Checkers
      BY <2>5, SyncAssumption DEF Idle
    <3>2. Cardinality(deleters'.hand) <= deleters'.left /\ ~(deleters'.left < Checkers)
      BY <3>1, SyncAssumption, FS_EmptySet
    <3>3. pc' = "deleting"
      BY <2>1
    <3> QED BY <2>1, <2>2, <2>5, <3>1, <3>2, <3>3 DEF Deletions
  <2> QED BY <2>3, <2>4, <2>5
<1>4. CASE Feed
  <2>1. /\ UNCHANGED <<opt, pass, pc, deleters, deleteErr, status, marchErr>>
        /\ pc = "deleting" /\ deleteErr # "off" /\ deleteOpen
    BY <1>4 DEF Feed, run, march
  <2>2. \/ /\ UNCHANGED deleteOpen /\ dstFiles' \subseteq dstFiles
           /\ \E p \in dstFiles : deleteCh' = deleteCh \cup {p}
        \/ /\ dstFiles = {} \/ ctx # "live"
           /\ ~deleteOpen' /\ UNCHANGED <<dstFiles, deleteCh>>
    BY <1>4 DEF Feed
  <2>3. Mode' = Mode /\ (Fine' <=> Fine) /\ (Deleting' <=> Deleting) /\ errs' = errs /\ pc \in Last
    BY <2>1 DEF Mode, Fine, Deleting, status, Last
  <2>4. deleteCh' \subseteq Paths /\ (dstFiles' # {} => Mode' = "after")
    BY <2>2, <2>3 DEF Deletions, Base, Types
  <2>5. ~(deleteErr = "nil" /\ deleters.left < Checkers)
    BY <2>1 DEF Deletions
  <2>6. Fine => ctx = "live"
    BY DEF Fine, Contexts
  <2>7. Fine' /\ ~deleteOpen' => dstFiles' = {}
    BY <2>1, <2>2, <2>3, <2>6
  <2> QED BY <2>1, <2>3, <2>4, <2>5, <2>7 DEF Deletions
<1>5. CASE Finish
  <2>1. CASE SecondPass
    <3>1. opt.mode = "before" /\ pass' = 2 /\ UNCHANGED opt
      BY <1>5, <2>1 DEF SecondPass, Finish
    <3>2. Mode' = "off"
      BY <3>1 DEF Mode
    <3>3. /\ deleters' \in [hand : SUBSET Paths, left : Nat] /\ deleters'.hand = {}
          /\ deleters'.left = 0
      BY <2>1 DEF SecondPass, Idle
    <3>4. Cardinality(deleters'.hand) <= deleters'.left
      BY <3>3, FS_EmptySet
    <3>5. /\ deleteErr' = "off" /\ deleteCh' = {} /\ deleteOpen' /\ dstFiles' = {}
          /\ pc' = "march"
      BY <2>1 DEF SecondPass
    <3>6. pc' \notin Last
      BY <3>5 DEF Last
    <3> QED BY <3>2, <3>3, <3>4, <3>5, <3>6 DEF Deletions
  <2>2. CASE ~SecondPass
    <3>1. UNCHANGED <<opt, pass, deletion, dstFiles>> /\ pc = "finish" /\ pc' = "done"
      BY <1>5, <2>2 DEF Finish, files
    <3>2. pc \in Last \ {"deleting"} /\ pc' \in Last \ {"deleting"} /\ deleteErr = "off"
      BY <3>1 DEF Deletions, Last
    <3>3. pc = "deleting" /\ deleteErr # "off" => errs' = errs
      BY <3>2
    <3> QED BY <1>0, <3>1, <3>2, <3>3, DeletionsKeep
  <2> QED BY <2>1, <2>2
<1> QED BY <1>1, <1>2, <1>3, <1>4, <1>5 DEF Run

LEMMA DeletionsStep == ASSUME Base, Contexts, Deletions, [Next]_vars PROVE Deletions'
<1>1. CASE Deadline \/ Cancel \/ UNCHANGED vars
  <2>1. UNCHANGED <<opt, pass, pc, deletion, dstFiles, errs>>
    BY <1>1 DEF Deadline, Cancel, vars, run, files, status
  <2>2. Fine' => Fine
    BY <2>1, FineBack
  <2> QED BY <2>1, <2>2, DeletionsKeep
<1>2. CASE Deleter
  BY <1>2, DeletionsDelete, DeletionsDeleteFile, DeletionsDeleted DEF Deleter
<1> QED BY <1>1, <1>2, DeletionsMarch, DeletionsWorkers, DeletionsRun DEF Next

LEMMA DeletionsInit == ASSUME Init PROVE Deletions
<1>1. opt \in Scenarios /\ opt \in ScenarioType
  BY SyncAssumption DEF Init
<1>2. opt.mode \in {"off", "before", "during", "after"} /\ opt.rename \in BOOLEAN
  BY <1>1 DEF ScenarioType
<1>3. opt.rename => opt.mode \in {"during", "after"}
  BY <1>1, SyncAssumption
<1>4. /\ deleters \in [hand : SUBSET Paths, left : Nat] /\ deleters.hand = {}
      /\ deleters.left = IF DeletesFrom(opt, 1) THEN Checkers ELSE 0
  BY SyncAssumption DEF Init, Idle
<1>5. Cardinality(deleters.hand) <= deleters.left
  BY <1>4, SyncAssumption, FS_EmptySet
<1>6. /\ deleteErr = "nil" => deleters.left = Checkers
      /\ deleteErr = "off" => Mode \notin {"during", "only"}
      /\ Mode = "after" => deleteErr = "off"
  BY <1>2, <1>3, <1>4 DEF Init, DeletesFrom, Mode
<1>7. pc \notin Last /\ deleteOpen /\ deleteCh = {} /\ dstFiles = {}
      /\ errs = {}
  BY DEF Init, Last
<1>8. deleteErr = "nil" => ~(deleters.left < Checkers)
  BY <1>6, SyncAssumption
<1> QED BY <1>4, <1>5, <1>6, <1>7, <1>8 DEF Deletions

-----------------------------------------------------------------------------
(* What a sync returns, and all of this together. *)

Results ==
  /\ marchErr /\ pc # "march" => errs # {}
  /\ result # "none" => pc = "done"
  /\ result = "nil" => errs = {} /\ inCtx # "deadline" /\ Mode # "only"

LEMMA PassesStep == ASSUME Passes, [Next]_vars PROVE Passes'
<1>1. CASE SecondPass /\ Finish
  BY <1>1 DEF SecondPass, Finish, Passes
<1>2. CASE ~SecondPass \/ ~Finish
  <2>1. UNCHANGED <<opt, pass>>
    BY <1>2 DEF Next, March, List, SrcOnlyFile, SrcOnlyDir, DstOnlyFile, DstOnlyDir, MatchFile,
         MatchDir, Stage, Get, GetFails, PassOn, Checker, CheckDiffers, CheckEqual, Renamer,
         PopRenameMap, Rename, Transferrer, Transfer, DeleteSource, Deleter, Delete,
         DeleteFile, Deleted, Run, MarchEnds, PutRename, StopCheckers, StopRenamers,
         StopTransfers, StopDeleters, DeleteAfter, Feed, SetDirTimes, Prune, PruneSource,
         Finish, Deadline, Cancel, Goes, run, vars
  <2> QED BY <2>1 DEF Passes
<1> QED BY <1>1, <1>2

\* A step that leaves the result alone.
LEMMA ResultsKeep ==
  ASSUME Base, Contexts, Results, [Next]_vars, UNCHANGED <<opt, pass, result>>,
         pc # "done",
         marchErr' /\ pc' # "march" => (marchErr /\ pc # "march") \/ errs' # {}
  PROVE  Results'
<1>1. errs \subseteq errs' /\ result = "none"
  BY Onward DEF Results
<1> QED BY <1>1 DEF Results

LEMMA ResultsStep == ASSUME Base, Contexts, Deletions, Results, [Next]_vars PROVE Results'
<1>1. CASE March
  <2>1. UNCHANGED <<opt, pass, result, pc>> /\ pc = "march"
    BY <1>1 DEF March, List, SrcOnlyFile, SrcOnlyDir, DstOnlyFile, DstOnlyDir, MatchFile,
           MatchDir, Reports, run
  <2> QED BY <2>1, ResultsKeep
<1>2. CASE (\E n \in Pipes : Stage(n)) \/ Checker \/ Renamer \/ Transferrer \/ Deleter
  <2>1. UNCHANGED <<opt, pass, result, pc, marchErr>>
    BY <1>2 DEF Stage, Get, GetFails, PassOn, Checker, CheckDiffers, CheckEqual, Renamer,
           PopRenameMap, Rename, Transferrer, Transfer, DeleteSource, Deleter, Delete,
           DeleteFile, Deleted, run, march
  <2>2. pc # "done"
    <3>1. Deleter => deleteErr # "off"
      BY DEF Deleter, Delete, DeleteFile, Deleted, Deletions
    <3>2. pc = "done" => deleteErr = "off"
      BY DEF Deletions, Last
    <3> QED BY <1>2, <3>1, <3>2, AtRest DEF Later
  <2> QED BY <2>1, <2>2, ResultsKeep
<1>3. CASE Deadline \/ Cancel
  <2>1. UNCHANGED <<opt, pass, result, pc, marchErr>> /\ pc # "done"
    BY <1>3 DEF Deadline, Cancel, run, march
  <2> QED BY <2>1, ResultsKeep
<1>4. CASE UNCHANGED vars
  BY <1>4 DEF vars, run, march, status, Results, Mode
<1>5. CASE MarchEnds
  <2>1. UNCHANGED <<opt, pass, result, marchErr>> /\ pc = "march"
    BY <1>5 DEF MarchEnds
  <2>2. marchErr => errs' # {}
    <3>1. ASSUME marchErr PROVE ProcessError("err")
      BY <1>5, <3>1 DEF MarchEnds
    <3> QED BY <3>1, Noted
  <2> QED BY <2>1, <2>2, ResultsKeep
<1>6. CASE Run /\ ~MarchEnds /\ ~Finish
  <2>1. UNCHANGED <<opt, pass, result, marchErr>> /\ pc \notin {"march", "done"}
    BY <1>6 DEF Run, PutRename, StopCheckers, StopRenamers, StopTransfers, StopDeleters,
           DeleteAfter, Feed, SetDirTimes, Prune, PruneSource, Goes, run, march
  <2> QED BY <2>1, ResultsKeep
<1>7. CASE Finish
  <2>1. CASE SecondPass
    <3>1. result' = result /\ pc = "finish" /\ pc' = "march"
      BY <1>7, <2>1 DEF SecondPass, Finish
    <3> QED BY <3>1 DEF Results
  <2>2. CASE ~SecondPass
    <3>1. /\ UNCHANGED <<opt, pass, marchErr, errs, ctx, inCtx>> /\ pc = "finish" /\ pc' = "done"
          /\ result' = (IF FinalErrors = {} THEN "nil" ELSE "error")
          /\ FinalErrors = {} => ~(pass = 1 /\ opt.mode = "before")
      BY <1>7, <2>2 DEF Finish, march, status
    <3>2. FinalErrors = {} => errs = {} /\ inCtx # "deadline"
      BY DEF FinalErrors
    <3>3. Mode' = "only" => pass = 1 /\ opt.mode = "before"
      BY <3>1, SyncAssumption DEF Mode, Base, Types, ScenarioType
    <3> QED BY <3>1, <3>2, <3>3 DEF Results
  <2> QED BY <2>1, <2>2
<1> QED BY <1>1, <1>2, <1>3, <1>4, <1>5, <1>6, <1>7 DEF Next, Run

Control == Base /\ Passes /\ Contexts /\ Drained /\ Deletions /\ Results

LEMMA ControlInit == ASSUME Init PROVE Control
<1>1. Base /\ Deletions
  BY BaseInit, DeletionsInit
<1>2. Passes /\ Contexts /\ Results
  BY DEF Init, Passes, Contexts, Results
<1>3. Drained
  <2>1. stage = Started(opt) /\ pc = "march" /\ opt \in Scenarios
    BY DEF Init
  <2>2. \A n \in Pipes : Manned(n) => stage[n].left = Full(n)
    BY <2>1, StartedFull DEF Manned, Full, Starting
  <2>3. \A n \in Pipes : Full(n) \in Nat
    BY FullType
  <2>4. \A n \in Pipes : Manned(n) => ~(stage[n].left < Full(n))
    BY <2>2, <2>3
  <2> QED BY <2>4 DEF Drained
<1> QED BY <1>1, <1>2, <1>3 DEF Control

LEMMA ControlStep == ASSUME Control, [Next]_vars PROVE Control'
<1>1. Base'
  BY BaseStep DEF Control
<1> QED BY <1>1, PassesStep, Onward, DrainedStep, DeletionsStep, ResultsStep DEF Control

\* When the transfers are over and nothing has gone wrong, the pipes are empty.
LEMMA AllThrough ==
  ASSUME Control, Fine, pc \in Later \ {"transfers"}, NEW n \in Pipes, n # "rename" \/ opt.rename
  PROVE  pipe[n] = {} /\ stage[n].hand = {}
<1>1. stage[n].left = 0 /\ stage[n].hand = {}
  BY AtRest DEF Control
<1>2. Manned(n)
  BY DEF Manned, Pipes, Later, Starting
<1>3. stage[n].left < Full(n)
  BY <1>1, FullType
<1> QED BY <1>1, <1>2, <1>3 DEF Drained, Control, Fine

\* A sync that returns nil and was not cancelled has met nothing that went wrong.
LEMMA NilIsFine ==
  ASSUME Control, result = "nil", ~Called
  PROVE  Fine /\ pc = "done" /\ Mode # "only"
<1>1. pc = "done" /\ errs = {} /\ inCtx # "deadline" /\ Mode # "only"
  BY DEF Control, Results
<1>2. inCtx = "live"
  BY <1>1 DEF Control, Contexts, Called
<1>3. ~marchErr
  BY <1>1 DEF Control, Results
<1> QED BY <1>1, <1>2, <1>3 DEF Fine

-----------------------------------------------------------------------------
\* The pipe to the transfers is closed when no checker, no renamer and not the march
\* can put to it any more, which would panic (sync.go:967-974, pipe.go:173-181).
THEOREM NoPutAfterCloseHolds == Spec => []NoPutAfterClose
<1>1. Base => NoPutAfterClose
  BY DEF Base, Order, Later, Starting, NoPutAfterClose
<1> QED BY <1>1, BaseInit, BaseStep, PTL DEF Spec

-----------------------------------------------------------------------------
(* What a sync is to have at a path. *)

LEMMA WantedIs ==
  ASSUME NEW p
  PROVE  /\ Wanted(opt, p) \in {opt.src[p], opt.dst[p]}
         /\ IsFile(opt.src[p]) <=> IsFile(Wanted(opt, p))
         /\ ~IsFile(opt.src[p]) \/ ~IsFile(opt.dst[p]) => Wanted(opt, p) = opt.src[p] /\ ~Existing(opt, p)
         /\ Wanted(opt, p) # opt.dst[p] => Wanted(opt, p) = opt.src[p] /\ ~Existing(opt, p) /\ ~Newer(opt, p)
         /\ opt.src[p] = opt.dst[p] => Wanted(opt, p) = opt.dst[p]
BY DEF Wanted, Existing, Newer, Both

-----------------------------------------------------------------------------
(* The march, which has listed the directories of V. *)

Listing(V) ==
  /\ \A p \in Paths : p \in V => Parent[p] \in V
  /\ \A j \in jobs : j.dir \notin V /\ (j.dir # Top => Parent[j.dir] \in V)
  /\ \A j, k \in jobs : j.dir = k.dir => j = k
  /\ \A p \in todo : p \notin V /\ Parent[p] \in V /\ \A j \in jobs : j.dir # p

\* A directory is listed on the sides that have it.
Sides ==
  \A j \in jobs :
    /\ j.dir = Top => j.inSrc /\ j.inDst
    /\ j.dir # Top /\ opt.src[j.dir] = Dir => j.inSrc
    /\ j.dir # Top /\ Mode # "off" /\ opt.dst[j.dir] = Dir => j.inDst

\* The march has still to list or to report what is at p.
Ahead(V, p) == pc = "march" /\ (Parent[p] \notin V \/ p \in todo)

\* Directories that a march in which nothing goes wrong has to list.
Must(d) ==
  \/ opt.src[d] = Dir /\ Mode # "only"
  \/ opt.dst[d] = Dir /\ Mode # "off" /\ ~IsFile(opt.src[d])
Reached(V, d) == d \in V \/ \E j \in jobs : j.dir = d
Reaches(V) ==
  Fine /\ pc = "march" =>
    Reached(V, Top) /\ \A d \in Paths : Must(d) => Ahead(V, d) \/ Reached(V, d)

-----------------------------------------------------------------------------
(* One path. *)

InPlay(n) == pipe[n] \cup stage[n].hand

\* A file of the source that is on its way, and an extra file that is to go.
OnWay(p) == p \in renameCheck \/ \E n \in Pipes : \E x \in InPlay(n) : x.path = p
Awaits(p) == p \in dstFiles \cup deleteCh \cup deleters.hand

\* What a pair says of its path.
Fit(n, x) ==
  LET p == x.path
  IN /\ opt.dst[p] # Dir
     /\ x.dst = "same" => opt.move /\ ~opt.ignoreExisting /\ dst[p] = Wanted(opt, p)
     /\ n = "check" /\ ~x.ready => x.dst = "old" /\ dst[p] = opt.dst[p] /\ IsFile(opt.dst[p])
     /\ x.dst = "old" /\ (n # "check" \/ x.ready) => ~opt.backup /\ Wanted(opt, p) # opt.dst[p]
     /\ x.dst = "none" => \/ opt.dst[p] = None
                          \/ Wanted(opt, p) # opt.dst[p] /\ backup[p] = opt.dst[p]
     /\ n = "rename" => opt.rename /\ x.dst = "none" /\ opt.dst[p] = None

\* A path is on its way once, and then its file is at the source.
Traffic(p) ==
  /\ \A n \in Pipes : \A x \in pipe[n] : x.path = p => x \notin stage[n].hand
  /\ \A n, m \in Pipes : \A x \in InPlay(n), y \in InPlay(m) :
       x.path = p /\ y.path = p => n = m /\ x = y
  /\ \A n \in Pipes : \A x \in InPlay(n) : x.path = p => p \notin renameCheck /\ Fit(n, x)
  /\ p \in renameCheck => opt.dst[p] = None /\ opt.rename
  /\ OnWay(p) => IsFile(opt.src[p]) /\ src[p] = opt.src[p] /\ Mode # "only"

\* Only dst has what is to be deleted, which is there.
Extra(p) ==
  /\ Awaits(p) =>
       opt.src[p] = None /\ IsFile(opt.dst[p]) /\ dst[p] = opt.dst[p] /\ Mode # "off"
  /\ ~(p \in dstFiles /\ p \in deleteCh) /\ ~(p \in dstFiles /\ p \in deleters.hand)
  /\ ~(p \in deleteCh /\ p \in deleters.hand)
  /\ pc \notin Last /\ p \in renameMap => p \in dstFiles
  /\ p \in dstEmpty => opt.src[p] = None /\ opt.dst[p] = Dir

\* The march has been where something is on its way, and nothing has changed
\* where it has not been.
Place(V, p) ==
  /\ OnWay(p) \/ Awaits(p) => Parent[p] \in V /\ p \notin todo
  /\ Ahead(V, p) =>
       src[p] = opt.src[p] /\ (dst[p] = opt.dst[p] \/ (pass = 2 /\ opt.src[p] = None))

\* What may have become of either side.
Kept(p) ==
  /\ src[p] # opt.src[p] =>
       /\ opt.move /\ src[p] = None /\ ~Existing(opt, p)
       /\ IsFile(opt.src[p]) => dst[p] = Wanted(opt, p) /\ ~OnWay(p)
  /\ Wanted(opt, p) = opt.dst[p] => dst[p] = opt.dst[p]
  /\ IsFile(opt.src[p]) /\ opt.dst[p] = Dir => dst[p] = Dir
  /\ opt.src[p] = None => dst[p] \in {opt.dst[p], None}
  /\ Mode = "only" /\ opt.src[p] # None => dst[p] = opt.dst[p]

\* The file that was at p has become that of a path of the source.
Renamed(p) ==
  opt.rename /\ \E q \in Paths : IsFile(opt.src[q]) /\ dst[q] = opt.dst[p] /\ ~OnWay(q)
             /\ pc # "march"

Backs(p) ==
  opt.backup /\ IsFile(opt.dst[p]) =>
    dst[p] = opt.dst[p] \/ backup[p] = opt.dst[p] \/ Renamed(p)

\* A file of the source that the march has reported is on its way or has come.
Copied(V, p) ==
  Fine /\ Mode # "only" /\ IsFile(opt.src[p]) =>
    Ahead(V, p) \/ OnWay(p) \/ (dst[p] = Wanted(opt, p) /\ (opt.move /\ ~Existing(opt, p) => src[p] = None))

\* A file where the other side has a directory, which no sync gets over.
Clashes == \E p \in Paths : IsFile(opt.src[p]) /\ opt.dst[p] = Dir

\* What only dst has goes, in the pass that deletes, and stays away in the other.
Cleared(V, p) ==
  /\ Fine /\ Deleting /\ Mode # "off" /\ ~Clashes /\ opt.src[p] = None =>
       \/ Ahead(V, p) \/ Awaits(p) \/ dst[p] = None
       \/ p \in dstEmpty /\ pc \notin {"move", "finish", "done"}
  /\ pass = 2 /\ Fine /\ ~Clashes /\ opt.src[p] = None => dst[p] = None

Good(V, p) ==
  Traffic(p) /\ Extra(p) /\ Place(V, p) /\ Kept(p) /\ Backs(p) /\ Copied(V, p) /\ Cleared(V, p)

-----------------------------------------------------------------------------
(* All paths. *)

\* A renamer holds a file that it has taken from the map, and no other does.
Froms ==
  /\ pc = "march" => pipe["rename"] = {} /\ stage["rename"].hand = {}
  /\ \A n \in Pipes : \A x \in InPlay(n) : x.from # None =>
       /\ n = "rename" /\ x \in stage["rename"].hand /\ ~x.ready
       /\ x.from \in dstFiles \ renameMap /\ dst[x.from] = opt.src[x.path]
  /\ \A x, y \in stage["rename"].hand : x.from = y.from /\ x.from # None => x = y
  /\ moveEmpty # {} => opt.move

\* With delete-after, all files of the source arrive before anything is deleted.
There == \A p \in Paths : IsFile(opt.src[p]) => dst[p] = Wanted(opt, p)
Stays(p) == opt.src[p] = None /\ IsFile(opt.dst[p]) => dst[p] = opt.dst[p] \/ Renamed(p)
Waits ==
  Mode = "after" /\ ~opt.ignoreErrors /\ inCtx # "deadline" =>
    \/ pc \in Last /\ There
    \/ deleteCh = {} /\ deleters.hand = {} /\ \A p \in Paths : Stays(p)

Sane(V) ==
  Listing(V) /\ Sides /\ Reaches(V) /\ Froms /\ Waits /\ \A p \in Paths : Good(V, p)

-----------------------------------------------------------------------------
(* What a step that is about other paths leaves of p. *)

Others(V, p) ==
  /\ \A n \in Pipes : \A x \in pipe'[n] : x.path = p => x \in pipe[n]
  /\ \A n \in Pipes : \A x \in stage'[n].hand : x.path = p => x \in stage[n].hand
  /\ p \in renameCheck' => p \in renameCheck
  /\ Fine' /\ OnWay(p) => OnWay(p)'
  /\ (p \in dstFiles' <=> p \in dstFiles) /\ (p \in deleteCh' <=> p \in deleteCh)
  /\ (p \in deleters'.hand <=> p \in deleters.hand) /\ (p \in renameMap' => p \in renameMap)
  /\ (p \in dstEmpty' <=> p \in dstEmpty) /\ (p \in todo' <=> p \in todo)
  /\ src'[p] = src[p] /\ backup'[p] = backup[p]
  /\ \/ dst'[p] = dst[p]
     \/ dst[p] = None /\ dst'[p] = Dir /\ opt.src[p] = Dir /\ p \in V /\ Mode # "only"

\* A step within a pass, neither out of the march nor out of the pruning.
Steady ==
  /\ UNCHANGED <<opt, pass>>
  /\ (Fine' => Fine) /\ (Fine' /\ Deleting' => Deleting)
  /\ (pc' = "march" <=> pc = "march") /\ (pc \in Last => pc' \in Last)
  /\ pc' \in {"move", "finish", "done"} => pc \in {"move", "finish", "done"}

LEMMA OthersInPlay ==
  ASSUME NEW V, NEW p \in Paths, Others(V, p)
  PROVE  /\ \A n \in Pipes : \A x \in InPlay(n)' : x.path = p => x \in InPlay(n)
         /\ OnWay(p)' => OnWay(p)
         /\ Awaits(p)' <=> Awaits(p)
<1>1. \A n \in Pipes : \A x \in InPlay(n)' : x.path = p => x \in InPlay(n)
  BY DEF Others, InPlay
<1>2. OnWay(p)' => OnWay(p)
  BY <1>1 DEF Others, OnWay
<1>3. Awaits(p)' <=> Awaits(p)
  BY DEF Others, Awaits
<1> QED BY <1>1, <1>2, <1>3

\* No file is there where a directory may come, and nothing is on its way.
LEMMA OthersDst ==
  ASSUME NEW V, NEW p \in Paths, Others(V, p), Traffic(p)
  PROVE  /\ OnWay(p) \/ opt.src[p] = None \/ IsFile(opt.src[p]) => dst'[p] = dst[p]
         /\ IsFile(dst[p]) => dst'[p] = dst[p]
<1>1. OnWay(p) => IsFile(opt.src[p])
  BY DEF Traffic
<1>2. Dir # None /\ ~IsFile(Dir) /\ ~IsFile(None)
  BY SyncAssumption DEF IsFile
<1> QED BY <1>1, <1>2 DEF Others

LEMMA OthersTraffic ==
  ASSUME NEW V, NEW p \in Paths, Others(V, p), Traffic(p), UNCHANGED <<opt, pass>>
  PROVE  Traffic(p)'
<1>1. /\ \A n \in Pipes : \A x \in InPlay(n)' : x.path = p => x \in InPlay(n)
      /\ OnWay(p)' => OnWay(p)
  BY OthersInPlay
<1>2. Mode' = Mode /\ opt' = opt
  BY DEF Mode
<1>3. OnWay(p) => dst'[p] = dst[p] /\ src'[p] = src[p] /\ backup'[p] = backup[p]
  BY OthersDst DEF Others
<1>4. \A n \in Pipes : \A x \in pipe'[n] : x.path = p => x \notin stage'[n].hand
  BY DEF Others, Traffic
<1>5. \A n, m \in Pipes : \A x \in InPlay(n)', y \in InPlay(m)' :
        x.path = p /\ y.path = p => n = m /\ x = y
  BY <1>1 DEF Traffic
<1>6. \A n \in Pipes : \A x \in InPlay(n)' : x.path = p => p \notin renameCheck' /\ Fit(n, x)'
  <2> SUFFICES ASSUME NEW n \in Pipes, NEW x \in InPlay(n)', x.path = p
               PROVE  p \notin renameCheck' /\ Fit(n, x)'
    OBVIOUS
  <2>1. x \in InPlay(n) /\ OnWay(p)
    BY <1>1 DEF OnWay
  <2>2. p \notin renameCheck /\ Fit(n, x)
    BY <2>1 DEF Traffic
  <2>3. Fit(n, x)'
    BY <1>2, <1>3, <2>1, <2>2 DEF Fit, IsFile
  <2> QED BY <2>2, <2>3 DEF Others
<1>7. p \in renameCheck' => opt'.dst[p] = None /\ opt'.rename
  BY <1>2 DEF Others, Traffic
<1>8. OnWay(p)' => IsFile(opt'.src[p]) /\ src'[p] = opt'.src[p] /\ Mode' # "only"
  BY <1>1, <1>2, <1>3 DEF Traffic
<1> QED BY <1>4, <1>5, <1>6, <1>7, <1>8 DEF Traffic, IsFile

LEMMA OthersKept ==
  ASSUME NEW V, NEW p \in Paths, Others(V, p), Traffic(p), Kept(p), UNCHANGED <<opt, pass>>
  PROVE  Kept(p)'
<1>1. (OnWay(p)' => OnWay(p)) /\ src'[p] = src[p] /\ Mode' = Mode /\ opt' = opt
  BY OthersInPlay DEF Others, Mode
<1>2. CASE dst'[p] = dst[p]
  BY <1>1, <1>2 DEF Kept, IsFile
<1>3. CASE dst[p] = None /\ dst'[p] = Dir /\ opt.src[p] = Dir /\ p \in V /\ Mode # "only"
  <2>1. ~IsFile(opt.src[p]) /\ opt.src[p] # None
    BY <1>3, SyncAssumption DEF IsFile
  <2>2. Wanted(opt, p) # opt.dst[p]
    BY <1>3, <2>1, WantedIs DEF Kept
  <2> QED BY <1>1, <1>3, <2>1, <2>2 DEF Kept, IsFile
<1> QED BY <1>2, <1>3 DEF Others

LEMMA OthersPlace ==
  ASSUME NEW V, NEW p \in Paths, Others(V, p), Traffic(p), Extra(p), Place(V, p), Listing(V),
         UNCHANGED <<opt, pass>>, pc' = "march" => pc = "march"
  PROVE  Place(V, p)' /\ (Ahead(V, p)' => Ahead(V, p))
<1>1. /\ OnWay(p)' => OnWay(p)
      /\ Awaits(p)' <=> Awaits(p)
  BY OthersInPlay
<1>2. (p \in todo' <=> p \in todo) /\ src'[p] = src[p]
  BY DEF Others
<1>3. Ahead(V, p)' => Ahead(V, p)
  BY <1>2 DEF Ahead
<1>4. Ahead(V, p) => dst'[p] = dst[p]
  <2>1. p \in V => ~Ahead(V, p)
    BY DEF Listing, Ahead
  <2> QED BY <2>1 DEF Others
<1> QED BY <1>1, <1>2, <1>3, <1>4 DEF Place

LEMMA OthersGood ==
  ASSUME NEW V, NEW p \in Paths, Others(V, p), Good(V, p), Listing(V), Steady,
         \A q \in Paths : Renamed(q) => Renamed(q)'
  PROVE  Good(V, p)'
<1>1. /\ Traffic(p) /\ Extra(p) /\ Place(V, p) /\ Kept(p) /\ Backs(p) /\ Copied(V, p)
      /\ Cleared(V, p) /\ UNCHANGED <<opt, pass>>
  BY DEF Good, Steady
<1>2. /\ OnWay(p)' => OnWay(p)
      /\ Fine' /\ OnWay(p) => OnWay(p)'
      /\ Awaits(p)' <=> Awaits(p)
      /\ Mode' = Mode /\ opt' = opt /\ pass' = pass
  BY <1>1, OthersInPlay DEF Others, Mode
<1>3. Traffic(p)' /\ Kept(p)' /\ Place(V, p)' /\ (Ahead(V, p)' => Ahead(V, p))
  BY <1>1, OthersTraffic, OthersKept, OthersPlace DEF Steady
<1>4. Ahead(V, p) => Ahead(V, p)'
  BY DEF Ahead, Others, Steady
<1>5. /\ OnWay(p) \/ opt.src[p] = None \/ IsFile(opt.src[p]) => dst'[p] = dst[p]
      /\ IsFile(dst[p]) => dst'[p] = dst[p]
      /\ src'[p] = src[p] /\ backup'[p] = backup[p]
      /\ (p \in dstEmpty' <=> p \in dstEmpty)
  BY <1>1, OthersDst DEF Others
<1>6. Extra(p)'
  <2>1. pc' \notin Last => pc \notin Last
    BY DEF Steady
  <2>2. Awaits(p)' =>
          opt'.src[p] = None /\ IsFile(opt'.dst[p]) /\ dst'[p] = opt'.dst[p] /\ Mode' # "off"
    BY <1>1, <1>2, <1>5 DEF Extra
  <2> QED BY <1>1, <1>2, <2>1, <2>2 DEF Extra, Others, IsFile
<1>7. Backs(p)'
  BY <1>1, <1>2, <1>5 DEF Backs, IsFile
<1>8. Copied(V, p)'
  BY <1>1, <1>2, <1>4, <1>5 DEF Copied, Steady, IsFile
<1>9. Cleared(V, p)'
  <2>1. Clashes' <=> Clashes
    BY <1>2 DEF Clashes, IsFile
  <2>2. pc' \in {"move", "finish", "done"} => pc \in {"move", "finish", "done"}
    BY DEF Steady
  <2>3. (Fine' => Fine) /\ (Fine' /\ Deleting' => Deleting)
    BY DEF Steady
  <2> QED BY <1>1, <1>2, <1>4, <1>5, <2>1, <2>2, <2>3 DEF Cleared
<1> QED BY <1>3, <1>6, <1>7, <1>8, <1>9 DEF Good

-----------------------------------------------------------------------------
(* Steps of the workers. *)

WorkerStep == (\E n \in Pipes : Stage(n)) \/ Checker \/ Renamer \/ Transferrer

LEMMA WorkerLeaves ==
  ASSUME Control, WorkerStep
  PROVE  /\ UNCHANGED <<opt, pc, pass, march, deleteCh, deleters, deleteErr, renameCheck>>
         /\ dstEmpty' = dstEmpty /\ moveEmpty' = moveEmpty /\ pc \notin Last
         /\ (Fine' => Fine) /\ (inCtx = "deadline" => inCtx' = "deadline")
<1>1. UNCHANGED <<opt, pc, pass, march, deleteCh, deleters, deleteErr, renameCheck>>
  BY DEF WorkerStep, Stage, Get, GetFails, PassOn, Checker, CheckDiffers, CheckEqual, Renamer,
         PopRenameMap, Rename, Transferrer, Transfer, DeleteSource, run, march, deletion, files
<1>2. dstEmpty' = dstEmpty /\ moveEmpty' = moveEmpty
  BY DEF WorkerStep, Stage, Get, GetFails, PassOn, Checker, CheckDiffers, CheckEqual, Renamer,
         PopRenameMap, Rename, Transferrer, Transfer, DeleteSource, dirs
<1>3. pc \notin Last
  <2>1. pc \notin Later \ {"transfers"}
    BY AtRest DEF WorkerStep, Control
  <2> QED BY <2>1 DEF Later, Last
<1>4. [Next]_vars
  BY DEF Next, WorkerStep
<1>5. Fine' => Fine
  BY <1>1, <1>4, FineBack DEF Control
<1>6. inCtx = "deadline" => inCtx' = "deadline"
  BY <1>4, Onward DEF Control
<1> QED BY <1>1, <1>2, <1>3, <1>5, <1>6

\* The march is as it was.
LEMMA MarchStays ==
  ASSUME NEW V, Listing(V), Sides, Reaches(V), UNCHANGED <<opt, pass, jobs, todo>>,
         Fine' => Fine, pc' = "march" => pc = "march"
  PROVE  Listing(V)' /\ Sides' /\ Reaches(V)'
<1>1. opt' = opt /\ pass' = pass /\ jobs' = jobs /\ todo' = todo /\ Mode' = Mode
  BY DEF Mode
<1>2. Listing(V)' /\ Sides'
  BY <1>1 DEF Listing, Sides
<1>3. Reaches(V)'
  <2> SUFFICES ASSUME Fine', pc' = "march" PROVE Reaches(V)'
    BY DEF Reaches
  <2>1. \A d \in Paths : (Ahead(V, d) => Ahead(V, d)') /\ (Must(d)' => Must(d))
    BY <1>1 DEF Ahead, Must, IsFile
  <2>2. \A d : Reached(V, d) => Reached(V, d)'
    BY <1>1 DEF Reached
  <2> QED BY <2>1, <2>2 DEF Reaches
<1> QED BY <1>2, <1>3

\* What has been renamed stays so, but for paths on their way.
LEMMA RenamedStays ==
  ASSUME NEW V, UNCHANGED <<opt, pass>>, pc' = "march" => pc = "march",
         pc # "march" => \A q \in Paths : \/ Others(V, q) /\ Traffic(q)
                                          \/ OnWay(q) \/ ~IsFile(opt.src[q])
  PROVE  \A p \in Paths : Renamed(p) => Renamed(p)'
<1> SUFFICES ASSUME NEW p \in Paths, Renamed(p) PROVE Renamed(p)'
  OBVIOUS
<1>1. PICK q \in Paths : IsFile(opt.src[q]) /\ dst[q] = opt.dst[p] /\ ~OnWay(q)
  BY DEF Renamed
<1>2. Others(V, q) /\ Traffic(q)
  BY <1>1 DEF Renamed
<1>3. ~OnWay(q)' /\ dst'[q] = dst[q]
  BY <1>1, <1>2, OthersInPlay, OthersDst
<1> QED BY <1>1, <1>3 DEF Renamed, IsFile

\* A path the step is not about, or one it leaves in order.
Settled(V, q) ==
  \/ Others(V, q)
  \/ /\ OnWay(q) \/ ~IsFile(opt.src[q])
     /\ (\A p \in Paths : Renamed(p) => Renamed(p)') => Good(V, q)' /\ (Stays(q) => Stays(q)')

LEMMA WorkerSane ==
  ASSUME NEW V, Control, Sane(V), WorkerStep, \A q \in Paths : Settled(V, q), Froms'
  PROVE  Sane(V)'
<1>1. /\ UNCHANGED <<opt, pc, pass, march, deleteCh, deleters, deleteErr, renameCheck>>
      /\ dstEmpty' = dstEmpty /\ pc \notin Last
      /\ (Fine' => Fine) /\ (inCtx = "deadline" => inCtx' = "deadline")
  BY WorkerLeaves
<1>2. Steady
  BY <1>1 DEF Steady, Deleting
<1>3. Listing(V)' /\ Sides' /\ Reaches(V)'
  BY <1>1, MarchStays DEF Sane, march
<1>4. \A q \in Paths : Good(V, q) /\ Traffic(q)
  BY DEF Sane, Good
<1>5. \A q \in Paths : Renamed(q) => Renamed(q)'
  BY <1>1, <1>4, RenamedStays DEF Settled
<1>6. \A q \in Paths : Good(V, q)'
  BY <1>2, <1>4, <1>5, OthersGood DEF Sane, Settled
<1>7. \A q \in Paths : Stays(q) => Stays(q)'
  <2> SUFFICES ASSUME NEW q \in Paths, Others(V, q), Stays(q) PROVE Stays(q)'
    BY <1>5 DEF Settled
  <2>1. opt.src[q] = None => dst'[q] = dst[q]
    BY <1>4, OthersDst
  <2> QED BY <1>1, <1>5, <2>1 DEF Stays, IsFile
<1>8. Waits'
  BY <1>1, <1>7 DEF Sane, Waits, Mode
<1> QED BY <1>3, <1>6, <1>8 DEF Sane

-----------------------------------------------------------------------------
(* The pairs. *)

\* p is on its way as y, in pipe or hands n, or not at all.
Sole(p, n, y) == \A m \in Pipes : \A z \in InPlay(m) : z.path = p => m = n /\ z = y

LEMMA SoleTraffic ==
  ASSUME NEW p \in Paths, NEW n \in Pipes, NEW y, Sole(p, n, y)', p \notin renameCheck',
         OnWay(p)' => /\ Fit(n, y)' /\ y \notin pipe'[n] \cap stage'[n].hand
                      /\ IsFile(opt'.src[p]) /\ src'[p] = opt'.src[p] /\ Mode' # "only"
  PROVE  Traffic(p)'
<1>1. \A m \in Pipes : \A z \in InPlay(m)' : z.path = p => m = n /\ z = y /\ OnWay(p)'
  BY DEF Sole, OnWay
<1>2. \A m \in Pipes : \A z \in pipe'[m] : z.path = p => z \notin stage'[m].hand
  BY <1>1 DEF InPlay
<1> QED BY <1>1, <1>2 DEF Traffic, IsFile

LEMMA OwnPair ==
  ASSUME Control, NEW V, Sane(V), NEW n \in Pipes, NEW x \in InPlay(n)
  PROVE  /\ x \in PairType /\ x.path \in Paths /\ OnWay(x.path) /\ Sole(x.path, n, x)
         /\ Fit(n, x) /\ x.path \notin renameCheck
         /\ IsFile(opt.src[x.path]) /\ src[x.path] = opt.src[x.path] /\ Mode # "only"
         /\ (x \in stage[n].hand => x \notin pipe[n])
         /\ Traffic(x.path) /\ Good(V, x.path)
<1>1. x \in PairType
  BY InStages DEF Control, Base, Types, Crew, InPlay
<1>2. x.path \in Paths
  BY <1>1 DEF PairType
<1>3. OnWay(x.path) /\ Good(V, x.path) /\ Traffic(x.path)
  BY <1>2 DEF OnWay, Sane, Good
<1>4. Sole(x.path, n, x)
  BY <1>3 DEF Traffic, Sole
<1> QED BY <1>1, <1>2, <1>3, <1>4 DEF Traffic

\* The worker of stage n puts new in place of x, or leaves without.
Swaps(n, x, new) ==
  /\ stage'[n].hand = (stage[n].hand \ {x}) \cup new
  /\ \A m \in Pipes : m # n => stage'[m] = stage[m]

LEMMA HoldsSwaps ==
  ASSUME Control, NEW n \in Pipes, NEW x, NEW new,
         Holds(n, x, new) \/ (Leaves(n, x) /\ new = {})
  PROVE  Swaps(n, x, new)
<1>1. stage \in Stages
  BY DEF Control, Base, Crew
<1>2. CASE Holds(n, x, new)
  BY <1>1, <1>2, HoldsHands DEF Swaps
<1>3. CASE Leaves(n, x) /\ new = {}
  BY <1>1, <1>3, LeavesHands DEF Swaps
<1> QED BY <1>2, <1>3

\* Both are of the same path.
LEMMA HoldsOwn ==
  ASSUME Control, NEW V, Sane(V), NEW n \in Pipes, NEW x \in stage[n].hand, NEW new,
         \A z \in new : z.path = x.path, Swaps(n, x, new), UNCHANGED <<pipe, renameCheck>>
  PROVE  /\ \A m \in Pipes : \A z \in InPlay(m)' : z.path = x.path =>
              m = n /\ z \in new /\ z \notin pipe'[m]
         /\ new \subseteq InPlay(n)'
         /\ \A q \in Paths : q # x.path =>
              /\ \A m \in Pipes : \A z \in stage'[m].hand : z.path = q => z \in stage[m].hand
              /\ OnWay(q) => OnWay(q)'
<1>2. /\ stage'[n].hand = (stage[n].hand \ {x}) \cup new
      /\ \A m \in Pipes : m # n => stage'[m] = stage[m]
  BY DEF Swaps
<1>3. Sole(x.path, n, x) /\ x \notin pipe[n]
  BY OwnPair DEF InPlay
<1>4. ASSUME NEW m \in Pipes, NEW z \in InPlay(m)', z.path = x.path
      PROVE  m = n /\ z \in new /\ z \notin pipe'[m]
  <2>1. z \in InPlay(m) => m = n /\ z = x
    BY <1>3, <1>4 DEF Sole
  <2>2. m = n /\ z \in new
    BY <1>2, <1>3, <2>1 DEF InPlay
  <2> QED BY <1>3, <2>1, <2>2 DEF InPlay
<1>5. ASSUME NEW q \in Paths, q # x.path
      PROVE  /\ \A m \in Pipes : \A z \in stage'[m].hand : z.path = q => z \in stage[m].hand
             /\ OnWay(q) => OnWay(q)'
  <2>1. \A m \in Pipes : \A z \in stage'[m].hand : z.path = q => z \in stage[m].hand
    BY <1>2, <1>5
  <2>2. \A m \in Pipes : \A z \in InPlay(m) : z.path = q => z \in InPlay(m)'
    BY <1>2, <1>5 DEF InPlay
  <2> QED BY <2>1, <2>2 DEF OnWay
<1>6. new \subseteq InPlay(n)'
  BY <1>2 DEF InPlay
<1> QED BY <1>4, <1>5, <1>6

\* What is left to show of a path on its way.
LEMMA OwnGood ==
  ASSUME NEW V, NEW p \in Paths, Good(V, p), OnWay(p),
         UNCHANGED <<opt, pass, pc, todo, deleteCh, deleters, dstEmpty>>,
         p \in dstFiles' => p \in dstFiles, p \in renameMap' => p \in renameMap,
         Traffic(p)', Kept(p)', Backs(p)', Copied(V, p)'
  PROVE  Good(V, p)'
<1>1. IsFile(opt.src[p]) /\ opt.src[p] # None /\ ~Awaits(p) /\ p \notin dstEmpty
  BY SyncAssumption DEF Good, Traffic, Extra, IsFile
<1>2. ~Awaits(p)'
  BY <1>1 DEF Awaits
<1>3. Extra(p)'
  BY <1>1, <1>2 DEF Extra, Awaits, Good
<1>4. Parent[p] \in V /\ p \notin todo /\ ~Ahead(V, p) /\ ~Ahead(V, p)'
  BY DEF Good, Place, Ahead
<1>5. Place(V, p)'
  BY <1>4 DEF Place
<1>6. Cleared(V, p)'
  BY <1>1 DEF Cleared
<1> QED BY <1>3, <1>5, <1>6 DEF Good

\* An operation that ends with an error has noted it.
LEMMA FaultNoted ==
  ASSUME Base, NEW e \in Outcomes, e # "nil", Ended(e)
  PROVE  ~Fine'
<1>1. e \notin {"nil", "canceled"}
  BY SyncAssumption DEF Outcomes, Base, Types, ScenarioType
<1>2. errs' # {}
  BY <1>1, Noted DEF Ended
<1> QED BY <1>2 DEF Fine

\* The files that renamers hold are there, and do not change with other paths.
LEMMA FromsThere ==
  ASSUME Control, NEW V, Sane(V), NEW n \in Pipes, NEW z \in InPlay(n), z.from # None
  PROVE  /\ n = "rename" /\ z \in stage["rename"].hand /\ z \notin pipe["rename"] /\ ~z.ready
         /\ z.from \in Paths /\ opt.src[z.from] = None /\ IsFile(opt.dst[z.from])
         /\ dst[z.from] = opt.dst[z.from] /\ dst[z.from] = opt.src[z.path]
         /\ z.from # z.path /\ z.from \in dstFiles \ renameMap
<1>1. /\ n = "rename" /\ z \in stage["rename"].hand /\ ~z.ready
      /\ z.from \in dstFiles \ renameMap /\ dst[z.from] = opt.src[z.path]
  BY DEF Sane, Froms
<1>2. z.from \in Paths
  BY <1>1 DEF Control, Base, Types
<1>3. Awaits(z.from) /\ Extra(z.from)
  BY <1>1, <1>2 DEF Sane, Good, Awaits
<1>4. IsFile(opt.src[z.path]) /\ z \notin pipe["rename"]
  BY <1>1, OwnPair
<1> QED BY <1>1, <1>2, <1>3, <1>4, SyncAssumption DEF Extra, IsFile

LEMMA FromsStay ==
  ASSUME Control, NEW V, Sane(V), UNCHANGED <<opt, moveEmpty>>,
         pc' = "march" => pc = "march" /\ pipe'["rename"] = {} /\ stage'["rename"].hand = {},
         \A n \in Pipes : \A z \in InPlay(n)' : z.from # None =>
           /\ z \in InPlay(n) /\ (n = "rename" => z \in stage'["rename"].hand)
           /\ z.from \in dstFiles' \ renameMap' /\ dst'[z.from] = dst[z.from]
  PROVE  Froms'
<1>1. ASSUME NEW n \in Pipes, NEW z \in InPlay(n)', z.from # None
      PROVE  /\ n = "rename" /\ z \in stage["rename"].hand /\ z \in stage'["rename"].hand
             /\ ~z.ready /\ z.from \in dstFiles' \ renameMap'
             /\ dst'[z.from] = opt'.src[z.path]
  <2>1. /\ n = "rename" /\ z \in stage["rename"].hand /\ ~z.ready
        /\ dst[z.from] = opt.src[z.path]
    BY <1>1, FromsThere
  <2> QED BY <1>1, <2>1
<1>2. \A y, z \in stage'["rename"].hand : y.from = z.from /\ y.from # None => y = z
  <2> SUFFICES ASSUME NEW y \in stage'["rename"].hand, NEW z \in stage'["rename"].hand,
                      y.from = z.from, y.from # None
               PROVE  y = z
    OBVIOUS
  <2>1. "rename" \in Pipes
    BY DEF Pipes
  <2>2. y \in stage["rename"].hand /\ z \in stage["rename"].hand
    BY <1>1, <2>1 DEF InPlay
  <2> QED BY <2>2 DEF Sane, Froms
<1> QED BY <1>1, <1>2 DEF Sane, Froms

\* A worker holds new, which are of no renamed file, in place of x.
LEMMA HoldsFroms ==
  ASSUME Control, NEW V, Sane(V), NEW n \in Pipes, NEW x \in stage[n].hand, NEW new,
         Swaps(n, x, new), \A z \in new : z.from = None,
         UNCHANGED <<opt, pc, pipe, moveEmpty>>,
         \A z \in stage["rename"].hand : z # x /\ z.from # None =>
           z.from \in dstFiles' \ renameMap' /\ dst'[z.from] = dst[z.from]
  PROVE  Froms'
<1>1. "rename" \in Pipes
  BY DEF Pipes
<1>2. /\ stage'[n].hand = (stage[n].hand \ {x}) \cup new
      /\ \A m \in Pipes : m # n => stage'[m] = stage[m]
  BY DEF Swaps
<1>3. pc = "march" => pipe'["rename"] = {} /\ stage'["rename"].hand = {}
  BY <1>1, <1>2 DEF Sane, Froms
<1>4. ASSUME NEW m \in Pipes, NEW z \in InPlay(m)', z.from # None
      PROVE  /\ z \in InPlay(m) /\ (m = "rename" => z \in stage'["rename"].hand)
             /\ z.from \in dstFiles' \ renameMap' /\ dst'[z.from] = dst[z.from]
  <2>1. z \in InPlay(m)
    BY <1>2, <1>4 DEF InPlay
  <2>2. m = "rename" /\ z \in stage["rename"].hand /\ z \notin pipe["rename"]
    BY <1>4, <2>1, FromsThere
  <2>3. z \in stage'["rename"].hand
    BY <1>4, <2>2 DEF InPlay
  <2>4. z # x
    <3>1. CASE n = "rename"
      BY <1>2, <1>4, <2>3, <3>1
    <3>2. CASE n # "rename"
      <4>1. x \in InPlay(n) /\ z \in InPlay("rename")
        BY <2>2 DEF InPlay
      <4> QED BY <1>1, <3>2, <4>1, OwnPair DEF Sole
    <3> QED BY <3>1, <3>2
  <2> QED BY <2>1, <2>2, <2>3, <2>4, <1>4
<1> QED BY <1>3, <1>4, FromsStay

-----------------------------------------------------------------------------
(* The stages get pairs and pass them on. *)

LEMMA SaneGet ==
  ASSUME Control, NEW V, Sane(V), NEW n \in Pipes, Get(n)
  PROVE  Sane(V)'
<1>1. PICK x \in pipe[n] :
        /\ pipe'[n] = pipe[n] \ {x} /\ stage'[n].hand = stage[n].hand \cup {x}
        /\ \A m \in Pipes : m # n => pipe'[m] = pipe[m] /\ stage'[m] = stage[m]
  BY GetHands DEF Control
<1>2. /\ UNCHANGED <<opt, pc, pass, sides, march, deletion, files, dirs, status>> /\ WorkerStep
  BY DEF Get, run, WorkerStep, Stage
<1>3. x \in InPlay(n) /\ x \notin stage[n].hand
  BY OwnPair DEF InPlay
<1>4. \A m \in Pipes : InPlay(m)' = InPlay(m)
  BY <1>1 DEF InPlay
<1>5. x.from = None /\ (n = "rename" => pc # "march")
  BY <1>1, <1>3, FromsThere DEF Sane, Froms
<1>6. Froms'
  <2>1. pc' = "march" => pc = "march" /\ pipe'["rename"] = {} /\ stage'["rename"].hand = {}
    BY <1>1, <1>2, <1>5 DEF Sane, Froms, Pipes
  <2>2. ASSUME NEW m \in Pipes, NEW z \in InPlay(m)', z.from # None
        PROVE  /\ z \in InPlay(m) /\ (m = "rename" => z \in stage'["rename"].hand)
               /\ z.from \in dstFiles' \ renameMap' /\ dst'[z.from] = dst[z.from]
    <3>1. z \in InPlay(m)
      BY <1>4, <2>2
    <3>2. m = "rename" /\ z \in stage["rename"].hand /\ z.from \in dstFiles \ renameMap
      BY <2>2, <3>1, FromsThere
    <3> QED BY <1>1, <1>2, <3>1, <3>2 DEF files, sides
  <2> QED BY <1>2, <2>1, <2>2, FromsStay DEF dirs
<1>7. ASSUME NEW q \in Paths, q # x.path PROVE Others(V, q)
  BY <1>1, <1>2, <1>7 DEF Others, sides, march, deletion, files, dirs, OnWay, InPlay
<1>8. Good(V, x.path)'
  <2> DEFINE p == x.path
  <2>1. /\ x \in PairType /\ p \in Paths /\ OnWay(p) /\ Sole(p, n, x)
        /\ Fit(n, x) /\ p \notin renameCheck
        /\ IsFile(opt.src[p]) /\ src[p] = opt.src[p] /\ Mode # "only"
        /\ Good(V, p)
    BY <1>3, OwnPair
  <2> HIDE DEF p
  <2>2. Sole(p, n, x)' /\ x \notin pipe'[n]
    BY <1>1, <1>4, <2>1 DEF Sole
  <2>3. opt' = opt /\ pass' = pass /\ pc' = pc /\ todo' = todo /\ dst' = dst /\ src' = src
        /\ backup' = backup /\ Mode' = Mode /\ renameCheck' = renameCheck
    BY <1>2 DEF sides, march, Mode, files
  <2>4. Traffic(p)'
    BY <2>1, <2>2, <2>3, SoleTraffic DEF Fit, IsFile
  <2>5. OnWay(p)' <=> OnWay(p)
    BY <1>4, <2>3 DEF OnWay
  <2>6. Kept(p)'
    BY <2>1, <2>3, <2>5 DEF Good, Kept, IsFile
  <2>7. Backs(p)'
    <3>1. Renamed(p) => Renamed(p)'
      BY <1>4, <2>3 DEF Renamed, OnWay, IsFile
    <3> QED BY <2>1, <2>3, <3>1 DEF Good, Backs, IsFile
  <2>8. Copied(V, p)'
    BY <2>1, <2>5 DEF Copied
  <2> QED BY <1>2, <2>1, <2>4, <2>6, <2>7, <2>8, OwnGood DEF march, deletion, dirs, files, p
<1>9. OnWay(x.path) /\ x.path \in Paths /\ opt.src[x.path] # None
  BY <1>3, OwnPair, SyncAssumption DEF IsFile
<1>10. \A q \in Paths : Settled(V, q)
  BY <1>2, <1>7, <1>8, <1>9 DEF Settled, Stays, IsFile
<1> QED BY <1>2, <1>6, <1>10, WorkerSane

LEMMA SaneGetFails ==
  ASSUME Control, NEW V, Sane(V), NEW n \in Pipes, GetFails(n)
  PROVE  Sane(V)'
<1>1. \A m \in Pipes : stage'[m].hand = stage[m].hand
  BY LeftHands DEF GetFails, Control, Base, Crew
<1>2. /\ UNCHANGED <<opt, pc, pass, sides, march, pipe, deletion, files, dirs, status>>
      /\ WorkerStep
  BY DEF GetFails, run, WorkerStep, Stage
<1>3. \A m \in Pipes : InPlay(m)' = InPlay(m)
  BY <1>1, <1>2 DEF InPlay
<1>4. \A q \in Paths : Others(V, q)
  BY <1>1, <1>2, <1>3 DEF Others, sides, march, deletion, files, dirs, OnWay
<1>5. Froms'
  <2>1. pc' = "march" => pc = "march" /\ pipe'["rename"] = {} /\ stage'["rename"].hand = {}
    BY <1>1, <1>2 DEF Sane, Froms, Pipes
  <2>2. ASSUME NEW m \in Pipes, NEW z \in InPlay(m)', z.from # None
        PROVE  /\ z \in InPlay(m) /\ (m = "rename" => z \in stage'["rename"].hand)
               /\ z.from \in dstFiles' \ renameMap' /\ dst'[z.from] = dst[z.from]
    <3>1. z \in InPlay(m)
      BY <1>3, <2>2
    <3>2. m = "rename" /\ z \in stage["rename"].hand /\ z.from \in dstFiles \ renameMap
      BY <2>2, <3>1, FromsThere
    <3> QED BY <1>1, <1>2, <3>1, <3>2 DEF files, sides
  <2> QED BY <1>2, <2>1, <2>2, FromsStay DEF dirs
<1>6. \A q \in Paths : Settled(V, q)
  BY <1>4 DEF Settled
<1> QED BY <1>2, <1>5, <1>6, WorkerSane

-----------------------------------------------------------------------------
(* A worker does something with the pair that it holds. *)

LEMMA HoldsOthers ==
  ASSUME Control, NEW V, Sane(V), NEW n \in Pipes, NEW x \in stage[n].hand, NEW new,
         \A z \in new : z.path = x.path, Swaps(n, x, new),
         UNCHANGED <<pipe, renameCheck, todo, deleteCh, deleters, dstEmpty>>,
         NEW q \in Paths, q # x.path, (q \in dstFiles' <=> q \in dstFiles),
         q \in renameMap' => q \in renameMap,
         src'[q] = src[q], backup'[q] = backup[q],
         \/ dst'[q] = dst[q]
         \/ dst[q] = None /\ dst'[q] = Dir /\ opt.src[q] = Dir /\ q \in V /\ Mode # "only"
  PROVE  Others(V, q)
<1>1. /\ \A m \in Pipes : \A z \in stage'[m].hand : z.path = q => z \in stage[m].hand
      /\ OnWay(q) => OnWay(q)'
  BY HoldsOwn
<1> QED BY <1>1 DEF Others

LEMMA HoldsGood ==
  ASSUME Control, NEW V, Sane(V), NEW n \in Pipes, NEW x \in stage[n].hand,
         NEW y, y.path = x.path, NEW new \in {{}, {y}}, Swaps(n, x, new),
         UNCHANGED <<opt, pass, pc, pipe, renameCheck, todo, deleteCh, deleters, dstEmpty>>,
         x.path \in dstFiles' => x.path \in dstFiles,
         x.path \in renameMap' => x.path \in renameMap,
         new # {} => Fit(n, y)' /\ src'[x.path] = src[x.path],
         \/ src'[x.path] = src[x.path]
         \/ opt.move /\ ~Existing(opt, x.path) /\ src'[x.path] = None /\ dst'[x.path] = Wanted(opt, x.path),
         Wanted(opt, x.path) = opt.dst[x.path] => dst'[x.path] = opt.dst[x.path],
         opt.backup /\ IsFile(opt.dst[x.path]) =>
           \/ dst'[x.path] = opt.dst[x.path] \/ backup'[x.path] = opt.dst[x.path]
           \/ dst'[x.path] = dst[x.path] /\ backup'[x.path] = backup[x.path],
         new = {} /\ Fine' =>
           dst'[x.path] = Wanted(opt, x.path) /\ (opt.move /\ ~Existing(opt, x.path) => src'[x.path] = None),
         \A q \in Paths : Renamed(q) => Renamed(q)'
  PROVE  Good(V, x.path)'
<1> DEFINE p == x.path
<1>1. /\ p \in Paths /\ OnWay(p) /\ Fit(n, x) /\ p \notin renameCheck
      /\ IsFile(opt.src[p]) /\ src[p] = opt.src[p] /\ Mode # "only" /\ Good(V, p)
  BY OwnPair DEF InPlay
<1>2. \A m \in Pipes : \A z \in InPlay(m)' : z.path = p => m = n /\ z \in new /\ z \notin pipe'[m]
  BY HoldsOwn
<1>3. new \subseteq InPlay(n)'
  BY HoldsOwn
<1>4. Mode' = Mode /\ opt' = opt /\ p \notin renameCheck' /\ opt.dst[p] # Dir
      /\ opt.src[p] # None
  BY <1>1, SyncAssumption DEF Mode, Fit, IsFile
<1>5. OnWay(p)' <=> new # {}
  <2>1. OnWay(p)' => new # {}
    BY <1>2, <1>4 DEF OnWay
  <2>2. new # {} => y \in InPlay(n)'
    BY <1>3
  <2> QED BY <2>1, <2>2 DEF OnWay
<1>6. Traffic(p)'
  <2>1. Sole(p, n, y)'
    BY <1>2 DEF Sole
  <2>2. y \in InPlay(n)' => y \notin pipe'[n]
    BY <1>2
  <2>3. y \notin pipe'[n] \cap stage'[n].hand
    BY <2>2 DEF InPlay
  <2>4. OnWay(p)' => /\ Fit(n, y)' /\ IsFile(opt'.src[p]) /\ src'[p] = opt'.src[p]
                     /\ Mode' # "only"
    BY <1>1, <1>4, <1>5 DEF IsFile
  <2> QED BY <1>1, <1>4, <2>1, <2>3, <2>4, SoleTraffic
<1>7. Kept(p)'
  BY <1>1, <1>4, <1>5 DEF Kept, IsFile
<1>8. Backs(p)'
  BY <1>1, <1>4 DEF Good, Backs, IsFile
<1>9. Copied(V, p)'
  BY <1>1, <1>4, <1>5 DEF Copied, IsFile
<1> QED BY <1>1, <1>6, <1>7, <1>8, <1>9, OwnGood

\* Such a step settles all paths.
LEMMA HoldsSettled ==
  ASSUME Control, NEW V, Sane(V), NEW n \in Pipes, NEW x \in stage[n].hand,
         NEW y, y.path = x.path, NEW new \in {{}, {y}}, Swaps(n, x, new),
         UNCHANGED <<opt, pass, pc, pipe, march, deletion, renameCheck, dstFiles, dstEmpty>>,
         renameMap' \subseteq renameMap,
         \A q \in Paths : q # x.path =>
           /\ src'[q] = src[q] /\ backup'[q] = backup[q]
           /\ \/ dst'[q] = dst[q]
              \/ dst[q] = None /\ dst'[q] = Dir /\ opt.src[q] = Dir /\ q \in V /\ Mode # "only",
         new # {} => Fit(n, y)' /\ src'[x.path] = src[x.path],
         \/ src'[x.path] = src[x.path]
         \/ opt.move /\ ~Existing(opt, x.path) /\ src'[x.path] = None /\ dst'[x.path] = Wanted(opt, x.path),
         Wanted(opt, x.path) = opt.dst[x.path] => dst'[x.path] = opt.dst[x.path],
         opt.backup /\ IsFile(opt.dst[x.path]) =>
           \/ dst'[x.path] = opt.dst[x.path] \/ backup'[x.path] = opt.dst[x.path]
           \/ dst'[x.path] = dst[x.path] /\ backup'[x.path] = backup[x.path],
         new = {} /\ Fine' =>
           dst'[x.path] = Wanted(opt, x.path) /\ (opt.move /\ ~Existing(opt, x.path) => src'[x.path] = None)
  PROVE  \A q \in Paths : Settled(V, q)
<1>1. \A q \in Paths : q # x.path => Others(V, q)
  BY HoldsOthers DEF march, deletion
<1>2. (\A q \in Paths : Renamed(q) => Renamed(q)') => Good(V, x.path)'
  BY HoldsGood DEF march, deletion
<1>3. OnWay(x.path) /\ opt.src[x.path] # None
  BY OwnPair, SyncAssumption DEF InPlay, IsFile
<1>4. Stays(x.path)'
  BY <1>3 DEF Stays
<1> QED BY <1>1, <1>2, <1>3, <1>4 DEF Settled

\* What becomes of a pair: its other fields are as they were.
LEMMA Reshaped ==
  ASSUME NEW x \in PairType
  PROVE  /\ \A r \in BOOLEAN : LET y == [x EXCEPT !.ready = r]
              IN y.path = x.path /\ y.dst = x.dst /\ y.from = x.from /\ y.ready = r
         /\ \A f : LET y == [x EXCEPT !.from = f]
              IN y.path = x.path /\ y.dst = x.dst /\ y.from = f /\ y.ready = x.ready
         /\ LET y == [x EXCEPT !.from = None, !.ready = TRUE]
            IN y.path = x.path /\ y.dst = x.dst /\ y.from = None /\ y.ready = TRUE
         /\ \A d : LET y == [x EXCEPT !.dst = d, !.ready = TRUE]
              IN y.path = x.path /\ y.dst = d /\ y.from = x.from /\ y.ready = TRUE
BY DEF PairType

LEMMA SaneCheckDiffers ==
  ASSUME Control, NEW V, Sane(V), NEW x \in stage["check"].hand, CheckDiffers(x)
  PROVE  Sane(V)'
<1> DEFINE p == x.path
<1>1. /\ x \in PairType /\ p \in Paths /\ OnWay(p) /\ Fit("check", x) /\ x.from = None
      /\ IsFile(opt.src[p]) /\ src[p] = opt.src[p] /\ "check" \in Pipes
  <2>1. "check" \in Pipes
    BY DEF Pipes
  <2> QED BY <2>1, OwnPair, FromsThere DEF InPlay
<1>2. /\ UNCHANGED <<opt, pass, pc, pipe, march, deletion, files, dstEmpty, moveEmpty, src>>
      /\ WorkerStep
  BY DEF CheckDiffers, WorkerStep, Checker, run
<1>3. /\ dst[p] = opt.dst[p] /\ Wanted(opt, p) # opt.dst[p]
  BY <1>1 DEF Fit, CheckDiffers, Checking, NeedTransfer, Wanted, Existing, Newer
<1>4. PICK y, new : /\ Swaps("check", x, new) /\ new \in {{}, {y}} /\ y.path = p /\ y.from = None
                    /\ new = {} => ~Fine'
                    /\ \/ UNCHANGED <<dst, backup>>
                       \/ dst' = [dst EXCEPT ![p] = None] /\ backup' = BackedUp(p)
                    /\ new = {} \/ Fit("check", y)'
  <2>1. CASE opt.immutable
    <3>1. /\ ProcessError("noretry") /\ Holds("check", x, {}) /\ UNCHANGED <<dst, backup>>
      BY <2>1 DEF CheckDiffers
    <3>2. ~Fine'
      BY <3>1, Noted DEF Fine
    <3> QED BY <1>1, <3>1, <3>2, HoldsSwaps
  <2>2. CASE ~opt.immutable /\ opt.backup
    <3>1. PICK e \in Faults :
             /\ Ended(e)
             /\ IF e = "nil"
                THEN /\ backup' = BackedUp(x.path)
                     /\ dst' = [dst EXCEPT ![x.path] = None]
                     /\ Holds("check", x, {[x EXCEPT !.dst = "none", !.ready = TRUE]})
                ELSE Holds("check", x, {}) /\ UNCHANGED <<dst, backup>>
      BY <2>2 DEF CheckDiffers
    <3>2. CASE e = "nil"
      <4> DEFINE y == [x EXCEPT !.dst = "none", !.ready = TRUE]
      <4>1. y.path = p /\ y.dst = "none" /\ y.from = None /\ y.ready = TRUE
        BY <1>1, Reshaped
      <4>2. backup'[p] = opt.dst[p]
        BY <1>1, <1>3, <3>1, <3>2 DEF BackedUp, Base, Types, Trees, Control
      <4>3. Fit("check", y)'
        BY <1>1, <1>2, <1>3, <4>1, <4>2 DEF Fit
      <4> HIDE DEF y
      <4>4. Holds("check", x, {y})
        BY <3>1, <3>2 DEF y
      <4> QED BY <1>1, <3>1, <3>2, <4>1, <4>3, <4>4, HoldsSwaps
    <3>3. CASE e # "nil"
      <4>1. ~Fine'
        BY <3>1, <3>3, FaultNoted, OutcomeErrors DEF Control
      <4> QED BY <1>1, <3>1, <3>3, <4>1, HoldsSwaps
    <3> QED BY <3>2, <3>3
  <2>3. CASE ~opt.immutable /\ ~opt.backup
    <3> DEFINE y == [x EXCEPT !.ready = TRUE]
    <3>1. Holds("check", x, {y}) /\ UNCHANGED <<dst, backup>>
      BY <2>3 DEF CheckDiffers
    <3>2. y.path = p /\ y.dst = x.dst /\ y.from = None /\ y.ready = TRUE
      BY <1>1, Reshaped
    <3>3. x.dst = "old"
      BY <1>1 DEF Fit, CheckDiffers, Checking
    <3>4. Fit("check", y)'
      BY <1>1, <1>2, <1>3, <2>3, <3>2, <3>3 DEF Fit
    <3> HIDE DEF y
    <3> QED BY <1>1, <3>1, <3>2, <3>4, HoldsSwaps
  <2> QED BY <2>1, <2>2, <2>3
<1>5. \A q \in Paths : q # p => dst'[q] = dst[q] /\ backup'[q] = backup[q]
  BY <1>4 DEF BackedUp, Control, Base, Types, Trees
<1>6. \/ UNCHANGED <<dst, backup>>
      \/ dst'[p] = None /\ backup'[p] = opt.dst[p]
  BY <1>1, <1>3, <1>4 DEF BackedUp, Control, Base, Types, Trees
<1>7. Froms'
  <2>1. ASSUME NEW z \in stage["rename"].hand, z.from # None
        PROVE  z.from \in dstFiles' \ renameMap' /\ dst'[z.from] = dst[z.from]
    <3>1. /\ z.from \in Paths /\ opt.src[z.from] = None /\ z.from \in dstFiles \ renameMap
      BY <2>1, FromsThere DEF InPlay, Pipes
    <3> QED BY <1>1, <1>2, <1>5, <3>1, SyncAssumption DEF files, IsFile
  <2> QED BY <1>1, <1>2, <1>4, <2>1, HoldsFroms
<1>8. \A q \in Paths : Settled(V, q)
  <2>1. UNCHANGED <<renameCheck, dstFiles, renameMap>> /\ src' = src
    BY <1>2 DEF files
  <2>2. UNCHANGED <<opt, pass, pc, pipe, march, deletion, dstEmpty>>
    BY <1>2
  <2>3. \A q \in Paths : q # p => src'[q] = src[q] /\ backup'[q] = backup[q] /\ dst'[q] = dst[q]
    BY <1>5, <2>1
  <2>4. /\ new # {} => Fit("check", y)' /\ src'[p] = src[p]
        /\ Wanted(opt, p) = opt.dst[p] => dst'[p] = opt.dst[p]
        /\ \/ dst'[p] = opt.dst[p] \/ backup'[p] = opt.dst[p]
           \/ dst'[p] = dst[p] /\ backup'[p] = backup[p]
        /\ ~(new = {} /\ Fine')
    BY <1>3, <1>4, <1>6, <2>1
  <2>5. Swaps("check", x, new) /\ new \in {{}, {y}} /\ y.path = p
    BY <1>4
  <2>6. "check" \in Pipes /\ renameMap' \subseteq renameMap /\ src'[p] = src[p]
    BY <1>1, <2>1
  <2> QED BY <2>1, <2>2, <2>3, <2>4, <2>5, <2>6, HoldsSettled
<1> QED BY <1>2, <1>7, <1>8, WorkerSane

LEMMA SaneCheckEqual ==
  ASSUME Control, NEW V, Sane(V), NEW x \in stage["check"].hand, CheckEqual(x)
  PROVE  Sane(V)'
<1> DEFINE p == x.path
<1>1. /\ x \in PairType /\ p \in Paths /\ OnWay(p) /\ Fit("check", x) /\ x.from = None
      /\ IsFile(opt.src[p]) /\ src[p] = opt.src[p] /\ "check" \in Pipes
  <2>1. "check" \in Pipes
    BY DEF Pipes
  <2> QED BY <2>1, OwnPair, FromsThere DEF InPlay
<1>2. /\ UNCHANGED <<opt, pass, pc, pipe, march, deletion, files, dirs, dst, backup>>
      /\ WorkerStep
  BY DEF CheckEqual, WorkerStep, Checker, run
<1>3. /\ dst[p] = opt.dst[p] /\ Wanted(opt, p) = opt.dst[p]
      /\ Existing(opt, p) <=> opt.ignoreExisting
  BY <1>1 DEF Fit, CheckEqual, Checking, NeedTransfer, Wanted, Existing, Newer, Both
<1>4. PICK y, new : /\ Swaps("check", x, new) /\ new \in {{}, {y}} /\ y.path = p /\ y.from = None
                    /\ \/ src' = src
                       \/ /\ opt.move /\ ~Existing(opt, p) /\ new = {}
                          /\ src' = [src EXCEPT ![p] = None]
                    /\ new = {} /\ Fine' => (opt.move /\ ~Existing(opt, p) => src'[p] = None)
                    /\ new = {} \/ Fit("check", y)'
  <2>1. CASE ~Discards
    <3>1. Holds("check", x, {}) /\ src' = src
      BY <2>1 DEF CheckEqual
    <3> QED BY <1>1, <1>3, <2>1, <3>1, HoldsSwaps DEF Discards
  <2>2. CASE Discards /\ opt.checkFirst /\ opt.ordered
    <3> DEFINE y == [x EXCEPT !.dst = "same", !.ready = TRUE]
    <3>1. Holds("check", x, {y}) /\ src' = src
      BY <2>2 DEF CheckEqual
    <3>2. y.path = p /\ y.dst = "same" /\ y.from = None /\ y.ready = TRUE
      BY <1>1, Reshaped
    <3>3. Fit("check", y)'
      BY <1>1, <1>2, <1>3, <2>2, <3>2 DEF Fit, Discards
    <3> HIDE DEF y
    <3> QED BY <1>1, <3>1, <3>2, <3>3, HoldsSwaps
  <2>3. CASE Discards /\ ~(opt.checkFirst /\ opt.ordered)
    <3>1. PICK e \in Faults :
             /\ Holds("check", x, {}) /\ Ended(e)
             /\ src' = IF e = "nil" THEN [src EXCEPT ![x.path] = None] ELSE src
      BY <2>3 DEF CheckEqual
    <3>2. e # "nil" => ~Fine'
      BY <3>1, FaultNoted, OutcomeErrors DEF Control
    <3>3. e = "nil" => src'[p] = None
      BY <1>1, <3>1 DEF Control, Base, Types, Trees
    <3> QED BY <1>1, <1>3, <2>3, <3>1, <3>2, <3>3, HoldsSwaps DEF Discards
  <2> QED BY <2>1, <2>2, <2>3
<1>5. \A q \in Paths : q # p => src'[q] = src[q]
  BY <1>4 DEF Control, Base, Types, Trees
<1>6. src' = src \/ (opt.move /\ ~Existing(opt, p) /\ new = {} /\ src'[p] = None)
  BY <1>1, <1>4 DEF Control, Base, Types, Trees
<1>7. UNCHANGED <<renameCheck, dstFiles, renameMap, dstEmpty, moveEmpty>>
  BY <1>2 DEF files, dirs
<1>8. Froms'
  <2>1. ASSUME NEW z \in stage["rename"].hand, z.from # None
        PROVE  z.from \in dstFiles' \ renameMap' /\ dst'[z.from] = dst[z.from]
    <3>1. z.from \in dstFiles \ renameMap
      BY <2>1, FromsThere DEF InPlay, Pipes
    <3> QED BY <1>2, <1>7, <3>1
  <2> QED BY <1>1, <1>2, <1>4, <1>7, <2>1, HoldsFroms
<1>9. \A q \in Paths : Settled(V, q)
  <2>1. /\ UNCHANGED <<opt, pass, pc, pipe, march, deletion, renameCheck, dstFiles, dstEmpty>>
        /\ "check" \in Pipes /\ renameMap' \subseteq renameMap /\ UNCHANGED <<dst, backup>>
    BY <1>1, <1>2, <1>7
  <2>2. /\ new # {} => Fit("check", y)' /\ src'[p] = src[p]
        /\ src'[p] = src[p] \/ (opt.move /\ ~Existing(opt, p) /\ src'[p] = None)
        /\ dst'[p] = Wanted(opt, p) /\ dst'[p] = opt.dst[p]
    BY <1>3, <1>4, <1>6, <2>1
  <2>3. /\ Swaps("check", x, new) /\ y.path = p /\ new \in {{}, {y}}
        /\ new = {} /\ Fine' => (opt.move /\ ~Existing(opt, p) => src'[p] = None)
    BY <1>4
  <2> HIDE DEF p
  <2>4. x.path = p
    BY DEF p
  <2> QED BY <1>5, <2>1, <2>2, <2>3, <2>4, HoldsSettled
<1> QED BY <1>2, <1>8, <1>9, WorkerSane

-----------------------------------------------------------------------------
(* The directories above a path of the source. *)

LEMMA AboveDirs ==
  ASSUME opt \in Scenarios, NEW p \in Paths, opt.src[p] # None
  PROVE  \A q \in Above[p] : q \in Paths => opt.src[q] = Dir
<1> DEFINE S == {Top} \cup {q \in Paths : opt.src[q] = Dir}
<1>1. \A q \in Paths : opt.src[q] # None => Parent[q] \in S
  BY SyncAssumption
<1>2. S \in SUBSET (Paths \cup {Top}) /\ Parent[p] \in S /\ \A q \in S \ {Top} : Parent[q] \in S
  BY <1>1, SyncAssumption
<1>3. \A q \in Above[p] : q \in S
  BY <1>2 DEF Above
<1> QED BY <1>3, SyncAssumption

LEMMA AboveListed ==
  ASSUME NEW V, Listing(V), NEW p \in Paths, Parent[p] \in V
  PROVE  \A q \in Above[p] : q \in V
<1> DEFINE S == V \cap (Paths \cup {Top})
<1>1. S \in SUBSET (Paths \cup {Top}) /\ Parent[p] \in S /\ \A q \in S \ {Top} : Parent[q] \in S
  BY SyncAssumption DEF Listing
<1>2. \A q \in Above[p] : q \in S
  BY <1>1 DEF Above
<1> QED BY <1>2

\* A file comes with directories that the source has and the march has listed.
LEMMA StoredElsewhere ==
  ASSUME Control, NEW V, Sane(V), NEW p \in Paths, opt.src[p] # None, Parent[p] \in V,
         Mode # "only", NEW c
  PROVE  /\ Stored(p, c)[p] = c
         /\ \A q \in Paths : q # p =>
              \/ Stored(p, c)[q] = dst[q]
              \/ /\ dst[q] = None /\ Stored(p, c)[q] = Dir /\ opt.src[q] = Dir
                 /\ q \in V /\ Mode # "only"
<1>1. \A q \in Paths : q \in Above[p] => opt.src[q] = Dir /\ q \in V
  BY AboveDirs, AboveListed DEF Sane, Control, Base, Types
<1> QED BY <1>1 DEF Stored, Made

-----------------------------------------------------------------------------
(* The transfers. *)

LEMMA SaneTransfer ==
  ASSUME Control, NEW V, Sane(V), NEW x \in stage["upload"].hand, Transfer(x)
  PROVE  Sane(V)'
<1> DEFINE p == x.path
<1>1. /\ x \in PairType /\ p \in Paths /\ OnWay(p) /\ Fit("upload", x)
      /\ IsFile(opt.src[p]) /\ src[p] = opt.src[p] /\ "upload" \in Pipes /\ Mode # "only"
      /\ opt.src[p] # None /\ Good(V, p)
  <2>1. "upload" \in Pipes
    BY DEF Pipes
  <2> QED BY <2>1, OwnPair, SyncAssumption DEF InPlay, IsFile
<1>2. /\ UNCHANGED <<opt, pass, pc, pipe, march, deletion, files, dirs, backup>>
      /\ WorkerStep
  BY DEF Transfer, WorkerStep, Transferrer, run
<1>3. /\ Wanted(opt, p) # opt.dst[p]
      /\ opt.backup /\ IsFile(opt.dst[p]) => backup[p] = opt.dst[p]
  <2>1. IsFile(opt.src[p]) <=> IsFile(Wanted(opt, p))
    BY WantedIs
  <2> QED BY <1>1, <2>1, SyncAssumption DEF Fit, Transfer, PairType, IsFile
<1>20. Wanted(opt, p) = opt.src[p] /\ ~Existing(opt, p)
  BY <1>3, WantedIs
<1>4. Swaps("upload", x, {})
  BY <1>1, HoldsSwaps DEF Transfer
<1>5. PICK e \in Outcomes :
         /\ Ended(e)
         /\ \/ /\ e = "nil" /\ dst' = Stored(p, src[p])
               /\ src' = IF opt.move THEN [src EXCEPT ![p] = None] ELSE src
            \/ e # "nil" /\ src' = src /\ dst' \in {dst, [dst EXCEPT ![p] = None]}
            \/ e # "nil" /\ src' = src /\ dst' = Stored(p, src[p])
  BY DEF Transfer
<1>6. e # "nil" => ~Fine'
  BY <1>5, FaultNoted DEF Control
<1>7. Parent[p] \in V
  BY <1>1 DEF Good, Place
<1>8. /\ Stored(p, src[p])[p] = opt.src[p]
      /\ \A q \in Paths : q # p =>
           \/ Stored(p, src[p])[q] = dst[q]
           \/ /\ dst[q] = None /\ Stored(p, src[p])[q] = Dir /\ opt.src[q] = Dir
              /\ q \in V /\ Mode # "only"
  BY <1>1, <1>7, StoredElsewhere
<1>9. \A q \in Paths : q # p =>
        /\ src'[q] = src[q]
        /\ \/ dst'[q] = dst[q]
           \/ dst[q] = None /\ dst'[q] = Dir /\ opt.src[q] = Dir /\ q \in V /\ Mode # "only"
  BY <1>5, <1>8 DEF Control, Base, Types, Trees
<1>10. \/ src'[p] = src[p]
       \/ opt.move /\ ~Existing(opt, p) /\ src'[p] = None /\ dst'[p] = Wanted(opt, p)
  BY <1>1, <1>5, <1>8, <1>20 DEF Control, Base, Types, Trees
<1>11. Fine' => dst'[p] = Wanted(opt, p) /\ (opt.move /\ ~Existing(opt, p) => src'[p] = None)
  BY <1>1, <1>5, <1>6, <1>8, <1>20 DEF Control, Base, Types, Trees
<1>12. UNCHANGED <<renameCheck, dstFiles, renameMap, dstEmpty, moveEmpty>>
  BY <1>2 DEF files, dirs
<1>13. Froms'
  <2>1. ASSUME NEW z \in stage["rename"].hand, z.from # None
        PROVE  z.from \in dstFiles' \ renameMap' /\ dst'[z.from] = dst[z.from]
    <3>1. /\ z.from \in Paths /\ opt.src[z.from] = None /\ z.from \in dstFiles \ renameMap
      BY <2>1, FromsThere DEF InPlay, Pipes
    <3> QED BY <1>1, <1>9, <1>12, <3>1, SyncAssumption
  <2> QED BY <1>1, <1>2, <1>4, <1>12, <2>1, HoldsFroms
<1>14. \A q \in Paths : Settled(V, q)
  <2>1. /\ UNCHANGED <<opt, pass, pc, pipe, march, deletion, renameCheck, dstFiles, dstEmpty>>
        /\ "upload" \in Pipes /\ renameMap' \subseteq renameMap /\ backup' = backup
    BY <1>1, <1>2, <1>12
  <2>2. opt.backup /\ IsFile(opt.dst[p]) => backup'[p] = opt.dst[p]
    BY <1>3, <2>1
  <2> QED BY <1>3, <1>4, <1>9, <1>10, <1>11, <2>1, <2>2, HoldsSettled
<1> QED BY <1>2, <1>13, <1>14, WorkerSane

LEMMA SaneDeleteSource ==
  ASSUME Control, NEW V, Sane(V), NEW x \in stage["upload"].hand, DeleteSource(x)
  PROVE  Sane(V)'
<1> DEFINE p == x.path
<1>1. /\ p \in Paths /\ Fit("upload", x) /\ "upload" \in Pipes
      /\ src[p] = opt.src[p] /\ Good(V, p)
  <2>1. "upload" \in Pipes
    BY DEF Pipes
  <2> QED BY <2>1, OwnPair DEF InPlay
<1>2. /\ UNCHANGED <<opt, pass, pc, pipe, march, deletion, files, dirs, dst, backup>>
      /\ WorkerStep
  BY DEF DeleteSource, WorkerStep, Transferrer, run
<1>3. opt.move /\ dst[p] = Wanted(opt, p) /\ ~Existing(opt, p)
  BY <1>1 DEF Fit, DeleteSource, Existing
<1>4. Swaps("upload", x, {})
  BY <1>1, HoldsSwaps DEF DeleteSource
<1>5. PICK e \in Faults :
         Ended(e) /\ src' = IF e = "nil" THEN [src EXCEPT ![p] = None] ELSE src
  BY DEF DeleteSource
<1>6. e # "nil" => ~Fine'
  BY <1>5, FaultNoted, OutcomeErrors DEF Control
<1>7. /\ \A q \in Paths : q # p => src'[q] = src[q]
      /\ src'[p] = src[p] \/ src'[p] = None
      /\ Fine' => src'[p] = None
  BY <1>1, <1>5, <1>6 DEF Control, Base, Types, Trees
<1>8. UNCHANGED <<renameCheck, dstFiles, renameMap, dstEmpty, moveEmpty>>
  BY <1>2 DEF files, dirs
<1>9. Froms'
  <2>1. ASSUME NEW z \in stage["rename"].hand, z.from # None
        PROVE  z.from \in dstFiles' \ renameMap' /\ dst'[z.from] = dst[z.from]
    <3>1. z.from \in dstFiles \ renameMap
      BY <2>1, FromsThere DEF InPlay, Pipes
    <3> QED BY <1>2, <1>8, <3>1
  <2> QED BY <1>1, <1>2, <1>4, <1>8, <2>1, HoldsFroms
<1>10. \A q \in Paths : Settled(V, q)
  <2>1. /\ UNCHANGED <<opt, pass, pc, pipe, march, deletion, renameCheck, dstFiles, dstEmpty>>
        /\ "upload" \in Pipes /\ renameMap' \subseteq renameMap /\ UNCHANGED <<dst, backup>>
    BY <1>1, <1>2, <1>8
  <2>2. Wanted(opt, p) = opt.dst[p] => dst'[p] = opt.dst[p]
    BY <1>3, <2>1
  <2> QED BY <1>3, <1>4, <1>7, <2>1, <2>2, HoldsSettled
<1> QED BY <1>2, <1>9, <1>10, WorkerSane

-----------------------------------------------------------------------------
(* Pairs that are passed on. *)

LEMMA SanePassesOn ==
  ASSUME Control, NEW V, Sane(V), NEW n \in {"check", "rename"}, NEW x \in stage[n].hand,
         x.ready, Holds(n, x, {}), PutTo("upload", [x EXCEPT !.ready = FALSE]),
         WorkerStep, UNCHANGED <<run, sides, march, closed, deletion, files, dirs, status>>
  PROVE  Sane(V)'
<1> DEFINE p == x.path
           y == [x EXCEPT !.ready = FALSE]
<1>1. /\ x \in PairType /\ p \in Paths /\ OnWay(p) /\ Fit(n, x) /\ Sole(p, n, x)
      /\ x \in InPlay(n) /\ x \notin pipe[n] /\ p \notin renameCheck
      /\ IsFile(opt.src[p]) /\ src[p] = opt.src[p] /\ n \in Pipes /\ Mode # "only"
      /\ opt.src[p] # None /\ Good(V, p) /\ "upload" \in Pipes /\ x.from = None
  <2>1. n \in Pipes /\ "upload" \in Pipes /\ x \in InPlay(n)
    BY DEF Pipes, InPlay
  <2> QED BY <2>1, OwnPair, FromsThere, SyncAssumption DEF IsFile
<1>2. y.path = p /\ y.dst = x.dst /\ y.from = None /\ ~y.ready
  BY <1>1, Reshaped
<1>3. /\ UNCHANGED <<opt, pass, pc, march, deletion, src, dst, backup>>
      /\ UNCHANGED <<renameCheck, dstFiles, renameMap, dstEmpty, moveEmpty>>
  BY DEF run, sides, files, dirs
<1> HIDE DEF y
<1>4. /\ pipe'["upload"] = pipe["upload"] \cup {y}
      /\ \A m \in Pipes : m # "upload" => pipe'[m] = pipe[m]
  BY <1>1, PutPipes DEF Control, y
<1>5. Swaps(n, x, {})
  BY <1>1, HoldsSwaps
<1>6. Sole(p, "upload", y)'
  <2> SUFFICES ASSUME NEW m \in Pipes, NEW z \in InPlay(m)', z.path = p
               PROVE  m = "upload" /\ z = y
    BY DEF Sole
  <2>1. ASSUME z \in InPlay(m) PROVE FALSE
    <3>1. m = n /\ z = x
      BY <1>1, <2>1 DEF Sole
    <3> QED BY <1>1, <1>4, <1>5, <3>1 DEF InPlay, Swaps
  <2> QED BY <1>4, <1>5, <2>1 DEF InPlay, Swaps
<1>7. y \notin stage'["upload"].hand /\ y \in InPlay("upload")'
  <2>1. y \notin InPlay("upload")
    BY <1>1, <1>2 DEF Sole
  <2> QED BY <1>1, <1>4, <1>5, <2>1 DEF InPlay, Swaps
<1>8. ASSUME NEW q \in Paths, q # p PROVE Others(V, q)
  <2>1. /\ \A m \in Pipes : \A z \in pipe'[m] : z.path = q => z \in pipe[m]
        /\ \A m \in Pipes : \A z \in stage'[m].hand : z.path = q => z \in stage[m].hand
        /\ \A m \in Pipes : \A z \in InPlay(m) : z.path = q => z \in InPlay(m)'
    BY <1>2, <1>4, <1>5, <1>8 DEF Swaps, InPlay
  <2>2. OnWay(q) => OnWay(q)'
    BY <1>3, <2>1 DEF OnWay
  <2> QED BY <1>3, <2>1, <2>2 DEF Others, march, deletion
<1>9. Fit("upload", y)'
  BY <1>1, <1>2, <1>3 DEF Fit
<1>10. Traffic(p)' /\ OnWay(p)'
  <2>1. IsFile(opt'.src[p]) /\ src'[p] = opt'.src[p] /\ Mode' # "only" /\ p \notin renameCheck'
    BY <1>1, <1>3 DEF IsFile, Mode
  <2> QED BY <1>1, <1>2, <1>6, <1>7, <1>9, <2>1, SoleTraffic DEF OnWay
<1>11. (\A q \in Paths : Renamed(q) => Renamed(q)') => Good(V, p)'
  <2> SUFFICES ASSUME \A q \in Paths : Renamed(q) => Renamed(q)' PROVE Good(V, p)'
    OBVIOUS
  <2>1. Kept(p)' /\ Backs(p)' /\ Copied(V, p)'
    BY <1>1, <1>3, <1>10 DEF Good, Kept, Backs, Copied, IsFile, Mode
  <2> QED BY <1>1, <1>3, <1>10, <2>1, OwnGood DEF march, deletion
<1>12. Stays(p)'
  BY <1>1, <1>3 DEF Stays
<1>13. Froms'
  <2>1. pc' = "march" => pc = "march" /\ pipe'["rename"] = {} /\ stage'["rename"].hand = {}
    BY <1>3, <1>4, <1>5 DEF Sane, Froms, Swaps, Pipes
  <2>2. ASSUME NEW m \in Pipes, NEW z \in InPlay(m)', z.from # None
        PROVE  /\ z \in InPlay(m) /\ (m = "rename" => z \in stage'["rename"].hand)
               /\ z.from \in dstFiles' \ renameMap' /\ dst'[z.from] = dst[z.from]
    <3>1. z \in InPlay(m)
      BY <1>2, <1>4, <1>5, <2>2 DEF InPlay, Swaps
    <3>2. m = "rename" /\ z \notin pipe["rename"] /\ z.from \in dstFiles \ renameMap
      BY <2>2, <3>1, FromsThere
    <3>3. z \in stage'["rename"].hand
      BY <1>4, <2>2, <3>2 DEF InPlay
    <3> QED BY <1>3, <3>1, <3>2, <3>3
  <2> QED BY <1>3, <2>1, <2>2, FromsStay
<1>14. \A q \in Paths : Settled(V, q)
  BY <1>1, <1>8, <1>11, <1>12 DEF Settled
<1> QED BY <1>13, <1>14, WorkerSane

LEMMA SanePassOn ==
  ASSUME Control, NEW V, Sane(V), NEW n \in Pipes, PassOn(n)
  PROVE  Sane(V)'
<1>1. n \in {"check", "rename"} /\ WorkerStep
  BY DEF PassOn, WorkerStep, Stage
<1>2. PICK x \in stage[n].hand :
        /\ x.ready
        /\ \/ Holds(n, x, {}) /\ PutTo("upload", [x EXCEPT !.ready = FALSE])
           \/ inCtx # "live" /\ Leaves(n, x) /\ UNCHANGED pipe
  BY DEF PassOn
<1>3. UNCHANGED <<run, sides, march, closed, deletion, files, dirs, status>>
  BY DEF PassOn
<1>4. CASE Holds(n, x, {}) /\ PutTo("upload", [x EXCEPT !.ready = FALSE])
  BY <1>1, <1>2, <1>3, <1>4, SanePassesOn
<1>5. CASE inCtx # "live" /\ Leaves(n, x) /\ UNCHANGED pipe
  <2>1. Swaps(n, x, {}) /\ ~Fine'
    BY <1>3, <1>5, HoldsSwaps DEF Fine, status
  <2>2. /\ UNCHANGED <<opt, pass, pc, pipe, march, deletion, src, dst, backup>>
        /\ UNCHANGED <<renameCheck, dstFiles, renameMap, dstEmpty, moveEmpty>>
    BY <1>3, <1>5 DEF run, sides, files, dirs
  <2>3. Froms'
    <3>1. ASSUME NEW z \in stage["rename"].hand, z.from # None
          PROVE  z.from \in dstFiles' \ renameMap' /\ dst'[z.from] = dst[z.from]
      <4>1. z.from \in dstFiles \ renameMap
        BY <3>1, FromsThere DEF InPlay, Pipes
      <4> QED BY <2>2, <4>1
    <3> QED BY <2>1, <2>2, <3>1, HoldsFroms
  <2>4. x.path \in Paths /\ Good(V, x.path)
    BY OwnPair DEF InPlay
  <2>5. \A q \in Paths : Settled(V, q)
    BY <2>1, <2>2, <2>4, HoldsSettled DEF Good, Kept
  <2> QED BY <1>1, <2>3, <2>5, WorkerSane
<1> QED BY <1>2, <1>4, <1>5

-----------------------------------------------------------------------------
(* The renamers. *)

LEMMA RenamerPair ==
  ASSUME Control, NEW V, Sane(V), NEW x \in stage["rename"].hand
  PROVE  /\ "rename" \in Pipes /\ x \in PairType /\ x.path \in Paths /\ OnWay(x.path)
         /\ Fit("rename", x) /\ IsFile(opt.src[x.path]) /\ src[x.path] = opt.src[x.path]
         /\ opt.src[x.path] # None /\ Good(V, x.path) /\ pc # "march"
         /\ opt.rename /\ ~opt.move /\ opt.dst[x.path] = None /\ Mode # "only"
<1>1. "rename" \in Pipes /\ x \in InPlay("rename")
  BY DEF Pipes, InPlay
<1>2. /\ x \in PairType /\ x.path \in Paths /\ OnWay(x.path)
      /\ Fit("rename", x) /\ IsFile(opt.src[x.path]) /\ src[x.path] = opt.src[x.path]
      /\ Good(V, x.path) /\ Mode # "only"
  BY <1>1, OwnPair
<1>3. opt.rename /\ opt.dst[x.path] = None
  BY <1>2 DEF Fit
<1>4. ~opt.move
  BY <1>3, SyncAssumption DEF Control, Base, Types
<1>5. pc # "march"
  BY DEF Sane, Froms
<1> QED BY <1>1, <1>2, <1>3, <1>4, <1>5, SyncAssumption DEF IsFile

LEMMA SanePopRenameMap ==
  ASSUME Control, NEW V, Sane(V), NEW x \in stage["rename"].hand, PopRenameMap(x)
  PROVE  Sane(V)'
<1> DEFINE p == x.path
<1>1. /\ "rename" \in Pipes /\ x \in PairType /\ p \in Paths /\ OnWay(p)
      /\ Fit("rename", x) /\ src[p] = opt.src[p] /\ Good(V, p) /\ pc # "march" /\ x.from = None
      /\ opt.src[p] # None
  BY RenamerPair DEF PopRenameMap
<1>2. /\ UNCHANGED <<opt, pass, pc, pipe, march, deletion, src, dst, backup>> /\ WorkerStep
      /\ UNCHANGED <<renameCheck, dstFiles, dstEmpty, moveEmpty>>
  BY DEF PopRenameMap, WorkerStep, Renamer, run, sides, dirs
<1>3. PICK y : /\ Swaps("rename", x, {y}) /\ y.path = p /\ y.dst = x.dst
               /\ y.from # None =>
                    /\ ~y.ready /\ y.from \in renameMap /\ dst[y.from] = opt.src[p]
                    /\ renameMap' = renameMap \ {y.from}
               /\ renameMap' \subseteq renameMap
  <2>1. ASSUME NEW q \in renameMap, dst[q] = src[p], renameMap' = renameMap \ {q},
               Holds("rename", x, {[x EXCEPT !.from = q]})
        PROVE  \E y : /\ Swaps("rename", x, {y}) /\ y.path = p /\ y.dst = x.dst
                      /\ y.from = q /\ ~y.ready
    <3> DEFINE y == [x EXCEPT !.from = q]
    <3>1. y.path = p /\ y.dst = x.dst /\ y.from = q /\ y.ready = x.ready
      BY <1>1, Reshaped
    <3>2. Swaps("rename", x, {y})
      BY <1>1, <2>1, HoldsSwaps
    <3> HIDE DEF y
    <3> QED BY <3>1, <3>2 DEF PopRenameMap
  <2>2. ASSUME renameMap' = renameMap, Holds("rename", x, {[x EXCEPT !.ready = TRUE]})
        PROVE  \E y : /\ Swaps("rename", x, {y}) /\ y.path = p /\ y.dst = x.dst
                      /\ y.from = None
    <3> DEFINE y == [x EXCEPT !.ready = TRUE]
    <3>1. y.path = p /\ y.dst = x.dst /\ y.from = None
      BY <1>1, Reshaped
    <3>2. Swaps("rename", x, {y})
      BY <1>1, <2>2, HoldsSwaps
    <3> HIDE DEF y
    <3> QED BY <3>1, <3>2
  <2> QED BY <1>1, <2>1, <2>2 DEF PopRenameMap
<1>4. Fit("rename", y)'
  BY <1>1, <1>2, <1>3 DEF Fit
<1>5. \A q \in Paths : Settled(V, q)
  BY <1>1, <1>2, <1>3, <1>4, HoldsSettled DEF Good, Kept
<1>6. Froms'
  <2>1. ASSUME NEW z \in stage'["rename"].hand, z # y, z.from # None
        PROVE  /\ z \in stage["rename"].hand /\ ~z.ready /\ z.from \in dstFiles' \ renameMap'
               /\ z.from \in dstFiles \ renameMap /\ dst'[z.from] = opt'.src[z.path]
    <3>1. z \in stage["rename"].hand /\ z \in InPlay("rename")
      BY <1>3, <2>1 DEF Swaps, InPlay
    <3>2. ~z.ready /\ z.from \in dstFiles \ renameMap /\ dst[z.from] = opt.src[z.path]
      BY <1>1, <2>1, <3>1, FromsThere
    <3> QED BY <1>2, <1>3, <3>1, <3>2
  <2>2. y.from # None => /\ ~y.ready /\ y.from \in dstFiles' \ renameMap'
                         /\ y.from \in renameMap /\ dst'[y.from] = opt'.src[p]
    <3>1. pc \notin Last
      BY <1>2, WorkerLeaves
    <3>2. renameMap \subseteq dstFiles
      BY <3>1 DEF Sane, Good, Extra, Control, Base, Types
    <3> QED BY <1>2, <1>3, <3>2
  <2>3. ASSUME NEW n \in Pipes, NEW z \in InPlay(n)', z.from # None
        PROVE  n = "rename" /\ z \in stage'["rename"].hand
    <3>1. CASE z \in InPlay(n)
      <4>1. n = "rename" /\ z \notin pipe["rename"]
        BY <2>3, <3>1, FromsThere
      <4> QED BY <1>2, <2>3, <4>1 DEF InPlay
    <3>2. CASE z \notin InPlay(n)
      BY <1>2, <1>3, <2>3, <3>2 DEF InPlay, Swaps
    <3> QED BY <3>1, <3>2
  <2>4. \A n \in Pipes : \A z \in InPlay(n)' : z.from # None =>
          /\ n = "rename" /\ z \in stage'["rename"].hand /\ ~z.ready
          /\ z.from \in dstFiles' \ renameMap' /\ dst'[z.from] = opt'.src[z.path]
    BY <1>3, <2>1, <2>2, <2>3
  <2>5. \A w, z \in stage'["rename"].hand : w.from = z.from /\ w.from # None => w = z
    BY <2>1, <2>2 DEF Sane, Froms
  <2> QED BY <1>1, <1>2, <2>4, <2>5 DEF Sane, Froms
<1> QED BY <1>2, <1>5, <1>6, WorkerSane

-----------------------------------------------------------------------------
(* A rename. *)

LEMMA SaneRenames ==
  ASSUME Control, NEW V, Sane(V), NEW x \in stage["rename"].hand, Rename(x),
         dst' = [Stored(x.path, dst[x.from]) EXCEPT ![x.from] = None],
         dstFiles' = dstFiles \ {x.from}, Holds("rename", x, {})
  PROVE  Sane(V)'
<1> DEFINE p == x.path
           f == x.from
<1>1. /\ "rename" \in Pipes /\ x \in PairType /\ p \in Paths /\ OnWay(p)
      /\ Fit("rename", x) /\ src[p] = opt.src[p] /\ Good(V, p) /\ pc # "march"
      /\ opt.src[p] # None /\ opt.rename /\ ~opt.move /\ opt.dst[p] = None /\ Mode # "only"
      /\ IsFile(opt.src[p]) /\ x \in InPlay("rename") /\ f # None
  BY RenamerPair DEF Rename, InPlay
<1>20. ~IsFile(opt.dst[p]) /\ Wanted(opt, p) = opt.src[p]
  BY <1>1, WantedIs, SyncAssumption DEF IsFile
<1>2. /\ f \in Paths /\ opt.src[f] = None /\ IsFile(opt.dst[f]) /\ dst[f] = opt.dst[f]
      /\ dst[f] = opt.src[p] /\ f # p /\ f \in dstFiles \ renameMap /\ Good(V, f)
  BY <1>1, FromsThere DEF Sane
<1>3. /\ UNCHANGED <<opt, pass, pc, pipe, march, deletion, src, backup>> /\ WorkerStep
      /\ UNCHANGED <<renameCheck, renameMap, dstEmpty, moveEmpty>>
  BY DEF Rename, WorkerStep, Renamer, run, dirs
<1>4. Swaps("rename", x, {})
  BY <1>1, HoldsSwaps
<1>5. Parent[p] \in V
  BY <1>1 DEF Good, Place
<1>6. /\ dst'[p] = Wanted(opt, p) /\ dst'[f] = None
      /\ \A q \in Paths : q # p /\ q # f =>
           \/ dst'[q] = dst[q]
           \/ dst[q] = None /\ dst'[q] = Dir /\ opt.src[q] = Dir /\ q \in V /\ Mode # "only"
  <2>1. Stored(p, dst[f]) \in [Paths -> Entries]
    BY <1>1, <1>2, StoredType DEF Control, Base, Types, Trees
  <2> QED BY <1>1, <1>2, <1>5, <1>20, <2>1, StoredElsewhere
<1>7. \A q \in Paths : q # p /\ q # f => Others(V, q)
  BY <1>1, <1>3, <1>4, <1>6, HoldsOthers DEF march, deletion
<1>8. (\A q \in Paths : Renamed(q) => Renamed(q)') => Good(V, p)'
  <2>1. UNCHANGED <<opt, pass, pc, pipe, renameCheck, todo, deleteCh, deleters, dstEmpty>>
    BY <1>3 DEF march, deletion
  <2>2. /\ p \in dstFiles' => p \in dstFiles
        /\ p \in renameMap' => p \in renameMap
        /\ src'[p] = src[p] /\ dst'[p] = Wanted(opt, p)
        /\ Wanted(opt, p) # opt.dst[p] /\ ~IsFile(opt.dst[p])
    BY <1>1, <1>3, <1>6, <1>20
  <2>3. x.path = x.path /\ {} \in {{}, {x}}
    OBVIOUS
  <2> QED BY <1>1, <1>4, <2>1, <2>2, <2>3, HoldsGood
<1>9. \A m \in Pipes : \A z \in InPlay(m)' : z.path # f /\ z.path # p
  <2>1. ~OnWay(f)
    BY <1>2, SyncAssumption DEF Good, Traffic, IsFile
  <2>2. \A m \in Pipes : \A z \in InPlay(m)' : z.path # p
    BY <1>1, <1>3, <1>4, HoldsOwn
  <2>3. \A m \in Pipes : \A z \in stage'[m].hand : z.path = f => z \in stage[m].hand
    BY <1>1, <1>2, <1>3, <1>4, HoldsOwn
  <2> QED BY <1>3, <2>1, <2>2, <2>3 DEF OnWay, InPlay
<1>10. Renamed(f)'
  <2>1. p \notin renameCheck'
    BY <1>1, <1>3, OwnPair
  <2>2. ~OnWay(p)'
    BY <1>9, <2>1 DEF OnWay
  <2> QED BY <1>1, <1>2, <1>3, <1>6, <1>20, <2>2 DEF Renamed, IsFile
<1>11. Good(V, f)'
  <2>1. ~OnWay(f) /\ f \notin renameCheck' /\ Wanted(opt, f) # opt.dst[f] /\ ~IsFile(opt.src[f])
    <3>1. ~IsFile(opt.src[f]) /\ opt.src[f] # opt.dst[f]
      BY <1>2, SyncAssumption DEF IsFile
    <3> QED BY <1>2, <1>3, <3>1, WantedIs DEF Good, Traffic, OnWay
  <2>2. Traffic(f)' /\ ~OnWay(f)'
    <3>1. ~OnWay(f)'
      BY <1>9, <2>1 DEF OnWay
    <3> QED BY <1>9, <2>1, <3>1 DEF Traffic, InPlay
  <2>3. ~Awaits(f)'
    BY <1>2, <1>3 DEF Good, Extra, Awaits, deletion
  <2>4. Extra(f)'
    BY <1>2, <1>3, <2>3 DEF Good, Extra, Awaits, deletion
  <2>5. Place(V, f)'
    BY <1>1, <1>3, <2>2, <2>3 DEF Place, Ahead
  <2>6. Kept(f)'
    BY <1>2, <1>3, <1>6, <2>1 DEF Good, Kept, Mode, IsFile
  <2>7. Backs(f)' /\ Copied(V, f)' /\ Cleared(V, f)'
    BY <1>3, <1>6, <1>10, <2>1 DEF Backs, Copied, Cleared, IsFile
  <2> QED BY <2>2, <2>4, <2>5, <2>6, <2>7 DEF Good
<1>12. Stays(p)' /\ Stays(f)'
  BY <1>1, <1>3, <1>10 DEF Stays
<1>13. Froms'
  <2>1. ASSUME NEW z \in stage["rename"].hand, z # x, z.from # None
        PROVE  z.from \in dstFiles' \ renameMap' /\ dst'[z.from] = dst[z.from]
    <3>1. /\ z.from \in Paths /\ opt.src[z.from] = None /\ z.from \in dstFiles \ renameMap
      BY <2>1, FromsThere DEF InPlay, Pipes
    <3>2. z.from # f
      BY <1>1, <2>1 DEF Sane, Froms
    <3> QED BY <1>1, <1>3, <1>6, <3>1, <3>2, SyncAssumption
  <2> QED BY <1>1, <1>3, <1>4, <2>1, HoldsFroms
<1>14. \A q \in Paths : Settled(V, q)
  <2>1. OnWay(p) /\ ~IsFile(opt.src[f])
    BY <1>1, <1>2, SyncAssumption DEF IsFile
  <2> QED BY <1>7, <1>8, <1>11, <1>12, <2>1 DEF Settled
<1> QED BY <1>3, <1>13, <1>14, WorkerSane

LEMMA SaneRename ==
  ASSUME Control, NEW V, Sane(V), NEW x \in stage["rename"].hand, Rename(x)
  PROVE  Sane(V)'
<1> DEFINE y == [x EXCEPT !.from = None, !.ready = TRUE]
<1>1. \/ /\ dst' = [Stored(x.path, dst[x.from]) EXCEPT ![x.from] = None]
         /\ dstFiles' = dstFiles \ {x.from} /\ Holds("rename", x, {})
      \/ Holds("rename", x, {y}) /\ UNCHANGED <<dst, dstFiles>>
  BY DEF Rename
<1>2. CASE Holds("rename", x, {y}) /\ UNCHANGED <<dst, dstFiles>>
  <2>1. /\ "rename" \in Pipes /\ x \in PairType /\ x.path \in Paths
        /\ Fit("rename", x) /\ Good(V, x.path)
    BY RenamerPair
  <2>2. y.path = x.path /\ y.dst = x.dst /\ y.from = None
    BY <2>1, Reshaped
  <2> HIDE DEF y
  <2>3. /\ UNCHANGED <<opt, pass, pc, pipe, march, deletion, src, dst, backup>> /\ WorkerStep
        /\ UNCHANGED <<renameCheck, renameMap, dstFiles, dstEmpty, moveEmpty>>
    BY <1>2 DEF Rename, WorkerStep, Renamer, run, dirs
  <2>4. Swaps("rename", x, {y})
    BY <1>2, <2>1, HoldsSwaps
  <2>5. Fit("rename", y)'
    BY <2>1, <2>2, <2>3 DEF Fit
  <2>6. \A q \in Paths : Settled(V, q)
    BY <2>1, <2>2, <2>3, <2>4, <2>5, HoldsSettled DEF Good, Kept
  <2>7. Froms'
    <3>1. ASSUME NEW z \in stage["rename"].hand, z.from # None
          PROVE  z.from \in dstFiles' \ renameMap' /\ dst'[z.from] = dst[z.from]
      <4>1. z.from \in dstFiles \ renameMap
        BY <3>1, FromsThere DEF InPlay, Pipes
      <4> QED BY <2>3, <4>1
    <3> QED BY <2>1, <2>2, <2>3, <2>4, <3>1, HoldsFroms
  <2> QED BY <2>3, <2>6, <2>7, WorkerSane
<1> QED BY <1>1, <1>2, SaneRenames

\* Together: what the stages do.
LEMMA SaneWorkers ==
  ASSUME Control, NEW V, Sane(V), WorkerStep
  PROVE  Sane(V)'
<1>1. CASE \E n \in Pipes : Stage(n)
  BY <1>1, SaneGet, SaneGetFails, SanePassOn DEF Stage
<1>2. CASE Checker
  BY <1>2, SaneCheckDiffers, SaneCheckEqual DEF Checker
<1>3. CASE Renamer
  BY <1>3, SanePopRenameMap, SaneRename DEF Renamer
<1>4. CASE Transferrer
  BY <1>4, SaneTransfer, SaneDeleteSource DEF Transferrer
<1> QED BY <1>1, <1>2, <1>3, <1>4 DEF WorkerStep

-----------------------------------------------------------------------------
(* The march reports p. *)

Puts(p, n, y) == n \in {"check", "upload"} /\ y.path = p /\ y.from = None /\ PutTo(n, y)

Reported(p) ==
  /\ March /\ Reports(p)
  /\ UNCHANGED <<opt, pass, pc, stage, src, backup, deleters, renameMap>>
  /\ pipe' = pipe \/ \E n, y : Puts(p, n, y)
  /\ renameCheck' \in {renameCheck, renameCheck \cup {p}}
  /\ dstFiles' \in {dstFiles, dstFiles \cup {p}}
  /\ deleteCh' \in {deleteCh, deleteCh \cup {p}} /\ (Mode = "after" => deleteCh' = deleteCh)
  /\ dstEmpty' \in {dstEmpty, dstEmpty \cup {p}}
  /\ moveEmpty' # {} => moveEmpty # {} \/ opt.move

LEMMA TodoPath ==
  ASSUME Control, NEW V, Sane(V), NEW p \in todo, pc = "march"
  PROVE  /\ p \in Paths /\ Good(V, p) /\ p \notin V /\ Parent[p] \in V
         /\ \A j \in jobs : j.dir # p
         /\ ~OnWay(p) /\ ~Awaits(p) /\ p \notin renameCheck
         /\ \A n \in Pipes : \A z \in InPlay(n) : z.path # p
         /\ src[p] = opt.src[p] /\ (opt.src[p] # None => dst[p] = opt.dst[p])
         /\ dst[p] # None => dst[p] = opt.dst[p]
<1>1. p \in Paths /\ Good(V, p)
  BY DEF Control, Base, Types, Sane
<1>2. p \notin V /\ Parent[p] \in V /\ \A j \in jobs : j.dir # p
  BY <1>1 DEF Sane, Listing
<1>3. ~OnWay(p) /\ ~Awaits(p) /\ Ahead(V, p)
  BY <1>1 DEF Good, Place, Ahead
<1>4. src[p] = opt.src[p] /\ (opt.src[p] # None => dst[p] = opt.dst[p])
  BY <1>1, <1>3 DEF Good, Place
<1>5. dst[p] # None => dst[p] = opt.dst[p]
  BY <1>1, <1>4 DEF Good, Kept
<1> QED BY <1>1, <1>2, <1>3, <1>4, <1>5 DEF OnWay

LEMMA ReportedPairs ==
  ASSUME Control, NEW V, Sane(V), NEW p \in todo, Reported(p)
  PROVE  /\ \A m \in Pipes : \A z \in InPlay(m)' : z \in InPlay(m) \/ (z.path = p /\ z.from = None)
         /\ \A m \in Pipes : \A z \in InPlay(m) : z \in InPlay(m)'
         /\ \A m \in Pipes : \A z \in pipe'[m] : z \in pipe[m] \/ z.path = p
         /\ pipe'["rename"] = pipe["rename"]
         /\ pipe' = pipe => \A m \in Pipes : InPlay(m)' = InPlay(m)
         /\ \A n, y : Puts(p, n, y) => Sole(p, n, y)' /\ y \in InPlay(n)'
                                       /\ y \notin pipe'[n] \cap stage'[n].hand
<1>1. stage' = stage /\ (pipe' = pipe \/ \E n, y : Puts(p, n, y))
  BY DEF Reported
<1>2. \A n, y : Puts(p, n, y) =>
        /\ n \in Pipes /\ n # "rename" /\ y.path = p /\ y.from = None
        /\ pipe'[n] = pipe[n] \cup {y} /\ \A m \in Pipes : m # n => pipe'[m] = pipe[m]
  BY PutPipes DEF Puts, Pipes, Control
<1>3. \A n \in Pipes : \A z \in InPlay(n) : z.path # p
  BY TodoPath DEF Reported, Reports
<1>4. pipe'["rename"] = pipe["rename"]
  BY <1>1, <1>2 DEF Pipes
<1>5. ASSUME NEW n, NEW y, Puts(p, n, y)
      PROVE  Sole(p, n, y)' /\ y \in InPlay(n)' /\ y \notin pipe'[n] \cap stage'[n].hand
  BY <1>1, <1>2, <1>3, <1>5 DEF Sole, InPlay
<1> QED BY <1>1, <1>2, <1>4, <1>5 DEF InPlay

LEMMA ReportedOthers ==
  ASSUME Control, NEW V, Sane(V), NEW p \in todo, Reported(p), NEW q \in Paths, q # p,
         \/ dst'[q] = dst[q]
         \/ dst[q] = None /\ dst'[q] = Dir /\ opt.src[q] = Dir /\ q \in V /\ Mode # "only"
  PROVE  Others(V, q)
<1>1. /\ \A m \in Pipes : \A z \in pipe'[m] : z.path = q => z \in pipe[m]
      /\ \A m \in Pipes : \A z \in InPlay(m) : z \in InPlay(m)'
  BY ReportedPairs
<1>2. OnWay(q) => OnWay(q)'
  BY <1>1 DEF OnWay, Reported
<1> QED BY <1>1, <1>2 DEF Others, Reported, Reports

LEMMA ReportedSane ==
  ASSUME Control, NEW V, Sane(V), NEW p \in todo, Reported(p),
         \/ jobs' = jobs /\ (Fine' => ~Must(p))
         \/ \E a, b \in BOOLEAN :
              /\ Recurse(p, a, b) /\ (opt.src[p] = Dir => a)
              /\ (Mode # "off" /\ opt.dst[p] = Dir => b),
         \A q \in Paths : q # p =>
           \/ dst'[q] = dst[q]
           \/ dst[q] = None /\ dst'[q] = Dir /\ opt.src[q] = Dir /\ q \in V /\ Mode # "only",
         dst'[p] = dst[p] \/ opt.src[p] # None,
         Good(V, p)'
  PROVE  Sane(V)'
<1>1. /\ p \in Paths /\ p \notin V /\ Parent[p] \in V /\ \A j \in jobs : j.dir # p
  BY TodoPath DEF Reported, Reports
<1>2. /\ UNCHANGED <<opt, pass, pc, stage, src, backup, deleters, renameMap>> /\ pc = "march"
      /\ Mode' = Mode /\ opt' = opt /\ todo' = todo \ {p} /\ dstFiles \subseteq dstFiles'
  BY DEF Reported, Reports, Mode
<1>3. [Next]_vars /\ (Fine' => Fine) /\ (inCtx = "deadline" => inCtx' = "deadline")
  <2>1. [Next]_vars
    BY DEF Reported, Next
  <2> QED BY <1>2, <2>1, FineBack, Onward DEF Control
<1>4. Steady
  <2>1. deleteErr' = deleteErr
    BY DEF Reported, March, List, SrcOnlyFile, SrcOnlyDir, DstOnlyFile, DstOnlyDir, MatchFile,
           MatchDir, deletion
  <2> QED BY <1>2, <1>3, <2>1 DEF Steady, Deleting
<1>5. \A q \in Paths : Good(V, q)'
  <2>1. \A q \in Paths : Renamed(q) => Renamed(q)'
    BY <1>2 DEF Renamed
  <2> QED BY <1>4, <2>1, ReportedOthers, OthersGood DEF Sane
<1>6. Listing(V)' /\ Sides'
  <2>1. CASE jobs' = jobs
    BY <1>2, <2>1 DEF Sane, Listing, Sides
  <2>2. ASSUME NEW a \in BOOLEAN, NEW b \in BOOLEAN, Recurse(p, a, b),
               opt.src[p] = Dir => a, Mode # "off" /\ opt.dst[p] = Dir => b
        PROVE  Listing(V)' /\ Sides'
    <3>1. jobs' = jobs \cup {[dir |-> p, inSrc |-> a, inDst |-> b]}
      BY <2>2 DEF Recurse
    <3>2. Listing(V)'
      BY <1>1, <1>2, <3>1, SyncAssumption DEF Sane, Listing
    <3>3. Sides'
      BY <1>1, <1>2, <2>2, <3>1, SyncAssumption DEF Sane, Sides
    <3> QED BY <3>2, <3>3
  <2> QED BY <2>1, <2>2
<1>7. Reaches(V)'
  <2> SUFFICES ASSUME Fine' PROVE Reaches(V)'
    BY DEF Reaches
  <2>1. \A d : Reached(V, d) => Reached(V, d)'
    BY DEF Reached, Recurse
  <2>2. \A d \in Paths : d # p => (Ahead(V, d)' <=> Ahead(V, d))
    BY <1>2 DEF Ahead
  <2>3. Must(p) => Reached(V, p)'
    <3>1. ASSUME NEW a, NEW b, Recurse(p, a, b) PROVE Reached(V, p)'
      <4>1. [dir |-> p, inSrc |-> a, inDst |-> b] \in jobs'
        BY <3>1 DEF Recurse
      <4> QED BY <4>1 DEF Reached
    <3> QED BY <3>1
  <2>4. \A d \in Paths : Must(d)' <=> Must(d)
    BY <1>2 DEF Must, IsFile
  <2> QED BY <1>2, <1>3, <2>1, <2>2, <2>3, <2>4 DEF Sane, Reaches
<1>8. Froms'
  <2>1. \A m \in Pipes : \A z \in InPlay(m)' : z.from = None
    <3>1. stage["rename"].hand = {}
      BY <1>2 DEF Sane, Froms
    <3>2. \A m \in Pipes : \A z \in InPlay(m) : z.from = None
      BY <3>1 DEF Sane, Froms
    <3> QED BY <3>2, ReportedPairs
  <2>2. pipe'["rename"] = {} /\ stage'["rename"].hand = {}
    BY <1>2, ReportedPairs DEF Sane, Froms
  <2>3. moveEmpty' # {} => opt'.move
    BY <1>2 DEF Reported, Sane, Froms
  <2> QED BY <2>1, <2>2, <2>3 DEF Froms
<1>9. Waits'
  <2> SUFFICES ASSUME Mode = "after", ~opt.ignoreErrors, inCtx # "deadline"
               PROVE  deleteCh' = {} /\ deleters'.hand = {} /\ \A q \in Paths : Stays(q)'
    BY <1>2, <1>3 DEF Waits
  <2>1. deleteCh = {} /\ deleters.hand = {} /\ \A q \in Paths : Stays(q)
    BY <1>2 DEF Sane, Waits, Last
  <2>2. deleteCh' = deleteCh /\ deleters' = deleters
    BY DEF Reported
  <2>3. \A q \in Paths : opt.src[q] = None => dst'[q] = dst[q]
    BY SyncAssumption
  <2>4. \A q \in Paths : Stays(q)'
    BY <1>2, <2>1, <2>3 DEF Stays, Renamed, IsFile
  <2> QED BY <2>1, <2>2, <2>4
<1> QED BY <1>5, <1>6, <1>7, <1>8, <1>9 DEF Sane

-----------------------------------------------------------------------------
(* The callbacks. *)

\* What is left to show of the path that has been reported.
LEMMA ReportedGood ==
  ASSUME Control, NEW V, Sane(V), NEW p \in todo, Reported(p),
         Traffic(p)', Extra(p)', Kept(p)', Copied(V, p)', Cleared(V, p)',
         dst'[p] = dst[p] \/ ~IsFile(opt.dst[p])
  PROVE  Good(V, p)'
<1>1. Good(V, p) /\ Parent[p] \in V /\ pc = "march"
  BY TodoPath DEF Reported, Reports
<1>2. UNCHANGED <<opt, pass, pc, src, backup>> /\ p \notin todo'
  BY DEF Reported, Reports
<1>3. Place(V, p)'
  BY <1>1, <1>2 DEF Place, Ahead
<1>4. Backs(p)'
  BY <1>1, <1>2 DEF Good, Backs, Renamed, IsFile
<1> QED BY <1>3, <1>4 DEF Good

\* Nothing is put: the path is no more on its way than it was.
LEMMA ReportedIdle ==
  ASSUME Control, NEW V, Sane(V), NEW p \in todo, Reported(p), pipe' = pipe,
         renameCheck' = renameCheck
  PROVE  Traffic(p)' /\ ~OnWay(p)'
<1>1. p \in Paths /\ ~OnWay(p) /\ p \notin renameCheck
  BY TodoPath DEF Reported, Reports
<1>2. ~OnWay(p)'
  BY <1>1, ReportedPairs DEF OnWay
<1>3. \A m \in Pipes : \A z \in InPlay(m)' : z.path # p
  BY <1>2 DEF OnWay
<1> QED BY <1>1, <1>2, <1>3 DEF Traffic, InPlay

\* The path is put to a pipe.
LEMMA ReportedPut ==
  ASSUME Control, NEW V, Sane(V), NEW p \in todo, Reported(p), NEW n, NEW y, Puts(p, n, y),
         renameCheck' = renameCheck, Fit(n, y)', IsFile(opt.src[p]), Mode # "only"
  PROVE  Traffic(p)' /\ OnWay(p)'
<1>1. p \in Paths /\ p \notin renameCheck /\ src[p] = opt.src[p] /\ n \in Pipes
  BY TodoPath DEF Reported, Reports, Puts, Pipes
<1>2. Sole(p, n, y)' /\ y \in InPlay(n)' /\ y \notin pipe'[n] \cap stage'[n].hand
  BY ReportedPairs
<1>3. /\ p \notin renameCheck' /\ IsFile(opt'.src[p]) /\ src'[p] = opt'.src[p]
      /\ Mode' # "only" /\ y.path = p
  BY <1>1 DEF Reported, Mode, IsFile, Puts
<1> QED BY <1>1, <1>2, <1>3, SoleTraffic DEF OnWay

LEMMA PairFields ==
  \A p, d : LET y == Pair(p, d) IN y.path = p /\ y.dst = d /\ y.from = None /\ y.ready = FALSE
BY DEF Pair

LEMMA SaneSrcOnlyFile ==
  ASSUME Control, NEW V, Sane(V), NEW p \in todo, SrcOnlyFile(p)
  PROVE  Sane(V)'
<1>1. /\ p \in Paths /\ Good(V, p) /\ ~OnWay(p) /\ ~Awaits(p) /\ pc = "march"
      /\ src[p] = opt.src[p] /\ IsFile(opt.src[p]) /\ opt.src[p] # None
      /\ opt.dst[p] = None /\ dst[p] = None
      /\ \A n \in Pipes : \A z \in InPlay(n) : z.path # p
  BY TodoPath, SyncAssumption DEF SrcOnlyFile, Reports, IsFile
<1>2. /\ UNCHANGED <<opt, pass, pc, stage, src, dst, backup, jobs, deletion, renameMap, dstFiles>>
      /\ UNCHANGED <<dstEmpty, moveEmpty, status>> /\ Mode' = Mode /\ opt' = opt
  BY DEF SrcOnlyFile, run, sides, Mode
<1> DEFINE y == Pair(p, "none")
<1>3. y.path = p /\ y.dst = "none" /\ y.from = None /\ y.ready = FALSE
  BY PairFields
<1>4. \/ UNCHANGED <<renameCheck, pipe>>
      \/ Renaming /\ renameCheck' = renameCheck \cup {p} /\ UNCHANGED pipe
      \/ PutTo("upload", y) /\ Mode # "only" /\ UNCHANGED renameCheck
  BY DEF SrcOnlyFile
<1> HIDE DEF y
<1>5. Reported(p)
  <2>1. March /\ Reports(p)
    BY DEF March, SrcOnlyFile
  <2> QED BY <1>2, <1>3, <1>4, <2>1 DEF Reported, Puts, deletion
<1>6. Traffic(p)' /\ (Fine' /\ Mode # "only" => OnWay(p)')
  <2>1. CASE UNCHANGED <<renameCheck, pipe>>
    <3>1. Traffic(p)'
      BY <1>5, <2>1, ReportedIdle
    <3>2. Fine' /\ Mode # "only" => p \in renameCheck \/ pipe' # pipe
      <4>1. inCtx' = inCtx /\ ctx' = ctx /\ (inCtx = "live" => ctx = "live")
        BY <1>2 DEF status, Control, Contexts
      <4>2. CASE Mode # "only" /\ inCtx = "live"
        <5>1. \/ renameCheck' = renameCheck \cup {p}
              \/ PutTo("upload", y)
          BY <4>1, <4>2 DEF SrcOnlyFile, y
        <5>2. PutTo("upload", y) => y \in pipe'["upload"] /\ "upload" \in Pipes
          BY DEF PutTo, Control, Base, Types, Pipes
        <5> QED BY <1>1, <1>3, <2>1, <5>1, <5>2 DEF InPlay
      <4> QED BY <4>1, <4>2 DEF Fine
    <3> QED BY <1>1, <2>1, <3>1, <3>2 DEF OnWay
  <2>2. CASE Renaming /\ renameCheck' = renameCheck \cup {p} /\ UNCHANGED pipe
    <3>1. \A m \in Pipes : InPlay(m)' = InPlay(m)
      BY <1>5, <2>2, ReportedPairs
    <3>2. OnWay(p)' /\ \A m \in Pipes : \A z \in InPlay(m)' : z.path # p
      BY <1>1, <2>2, <3>1 DEF OnWay
    <3>3. Traffic(p)'
      BY <1>1, <1>2, <2>2, <3>2 DEF Traffic, Renaming, InPlay, IsFile
    <3> QED BY <3>2, <3>3
  <2>3. CASE PutTo("upload", y) /\ Mode # "only" /\ UNCHANGED renameCheck
    <3>1. Puts(p, "upload", y)
      BY <1>3, <2>3 DEF Puts
    <3>2. Fit("upload", y)'
      BY <1>1, <1>2, <1>3, SyncAssumption DEF Fit
    <3> QED BY <1>1, <1>5, <2>3, <3>1, <3>2, ReportedPut
  <2> QED BY <1>4, <2>1, <2>2, <2>3
<1>7. Extra(p)' /\ Kept(p)'
  BY <1>1, <1>2 DEF Good, Extra, Awaits, Kept, deletion, IsFile
<1>8. Copied(V, p)' /\ Cleared(V, p)'
  BY <1>1, <1>2, <1>6 DEF Copied, Cleared, IsFile
<1>9. Good(V, p)'
  BY <1>2, <1>5, <1>6, <1>7, <1>8, ReportedGood
<1>10. ~Must(p)
  BY <1>1, SyncAssumption DEF Must, IsFile
<1> QED BY <1>2, <1>5, <1>9, <1>10, ReportedSane

LEMMA SaneSrcOnlyDir ==
  ASSUME Control, NEW V, Sane(V), NEW p \in todo, SrcOnlyDir(p)
  PROVE  Sane(V)'
<1>1. /\ p \in Paths /\ Good(V, p) /\ ~Awaits(p) /\ pc = "march" /\ Parent[p] \in V
      /\ src[p] = opt.src[p] /\ opt.src[p] = Dir /\ ~IsFile(opt.src[p]) /\ opt.src[p] # None
      /\ opt.dst[p] = None /\ dst[p] = None
  BY TodoPath, SyncAssumption DEF SrcOnlyDir, Reports, IsFile
<1>2. /\ UNCHANGED <<opt, pass, pc, stage, src, backup, pipe, deletion, renameMap, dstFiles>>
      /\ UNCHANGED <<renameCheck, dstEmpty>> /\ Mode' = Mode /\ opt' = opt
  BY DEF SrcOnlyDir, run, files, dirs, Mode
<1>3. Reported(p)
  <2>1. March /\ Reports(p)
    BY DEF March, SrcOnlyDir
  <2>2. moveEmpty' # {} => moveEmpty # {} \/ opt.move
    BY DEF SrcOnlyDir, MaybeEmpty, dirs
  <2> QED BY <1>2, <2>1, <2>2 DEF Reported, deletion
<1>4. \/ dst' = dst /\ jobs' = jobs /\ Mode = "only"
      \/ dst' \in {dst, Stored(p, Dir)} /\ Recurse(p, TRUE, FALSE) /\ Mode # "only"
  BY DEF SrcOnlyDir
<1>5. /\ \A q \in Paths : q # p =>
           \/ dst'[q] = dst[q]
           \/ dst[q] = None /\ dst'[q] = Dir /\ opt.src[q] = Dir /\ q \in V /\ Mode # "only"
      /\ dst'[p] = dst[p] \/ Mode # "only"
  <2>1. CASE dst' = dst
    BY <2>1
  <2>2. CASE dst' = Stored(p, Dir) /\ Mode # "only"
    <3>1. \A q \in Paths : q # p =>
            \/ Stored(p, Dir)[q] = dst[q]
            \/ /\ dst[q] = None /\ Stored(p, Dir)[q] = Dir /\ opt.src[q] = Dir
               /\ q \in V /\ Mode # "only"
      BY <1>1, <2>2, StoredElsewhere
    <3> QED BY <2>2, <3>1
  <2> QED BY <1>4, <2>1, <2>2
<1>6. Traffic(p)' /\ ~OnWay(p)'
  BY <1>2, <1>3, ReportedIdle
<1>7. Extra(p)'
  BY <1>1, <1>2 DEF Good, Extra, Awaits, deletion, IsFile
<1>8. Kept(p)'
  <2>1. Wanted(opt, p) = opt.src[p]
    BY <1>1, WantedIs
  <2> QED BY <1>1, <1>2, <1>5, <2>1, SyncAssumption DEF Kept, IsFile
<1>9. Copied(V, p)' /\ Cleared(V, p)'
  BY <1>1, <1>2 DEF Copied, Cleared, IsFile
<1>10. Good(V, p)'
  BY <1>1, <1>3, <1>6, <1>7, <1>8, <1>9, SyncAssumption, ReportedGood DEF IsFile
<1>11. \/ jobs' = jobs /\ ~Must(p)
       \/ Recurse(p, TRUE, FALSE)
  BY <1>1, <1>4, SyncAssumption DEF Must
<1>12. Mode # "off" => opt.dst[p] # Dir
  BY <1>1, SyncAssumption
<1> QED BY <1>1, <1>3, <1>5, <1>10, <1>11, <1>12, ReportedSane

LEMMA SaneDstOnlyFile ==
  ASSUME Control, NEW V, Sane(V), NEW p \in todo, DstOnlyFile(p)
  PROVE  Sane(V)'
<1>1. /\ p \in Paths /\ Good(V, p) /\ ~Awaits(p) /\ pc = "march"
      /\ src[p] = opt.src[p] /\ opt.src[p] = None /\ IsFile(opt.dst[p]) /\ dst[p] = opt.dst[p]
      /\ opt.dst[p] # None /\ opt.dst[p] # Dir /\ ~IsFile(opt.src[p])
  BY TodoPath, SyncAssumption DEF DstOnlyFile, Reports, IsFile
<1>2. /\ UNCHANGED <<opt, pass, pc, stage, src, dst, backup, jobs, pipe, renameMap>>
      /\ UNCHANGED <<renameCheck, dstEmpty, moveEmpty, deleters, status>>
      /\ Mode' = Mode /\ opt' = opt
  BY DEF DstOnlyFile, run, sides, dirs, Mode
<1>3. \/ UNCHANGED <<dstFiles, deleteCh>> /\ (Mode = "off" \/ ctx # "live")
      \/ Mode = "after" /\ dstFiles' = dstFiles \cup {p} /\ UNCHANGED deleteCh
      \/ /\ Mode \in {"during", "only"} /\ deleteCh' = deleteCh \cup {p} /\ UNCHANGED dstFiles
  BY DEF DstOnlyFile
<1>4. Reported(p)
  <2>1. March /\ Reports(p)
    BY DEF March, DstOnlyFile
  <2> QED BY <1>2, <1>3, <2>1 DEF Reported
<1>5. Traffic(p)' /\ ~OnWay(p)'
  BY <1>2, <1>4, ReportedIdle
<1>6. Extra(p)' /\ Kept(p)'
  BY <1>1, <1>2, <1>3 DEF Good, Extra, Awaits, Kept, IsFile
<1>7. Copied(V, p)'
  BY <1>1, <1>2 DEF Copied, IsFile
<1>8. Fine' => Fine /\ ctx = "live"
  <2>1. marchErr' = marchErr
    BY DEF DstOnlyFile
  <2> QED BY <1>2, <2>1 DEF Fine, status, Control, Contexts
<1>9. Cleared(V, p)'
  <2>1. Fine' /\ Mode # "off" => Awaits(p)'
    BY <1>3, <1>8 DEF Awaits
  <2>2. Clashes' <=> Clashes
    BY <1>2 DEF Clashes, IsFile
  <2> QED BY <1>1, <1>2, <1>8, <2>1, <2>2 DEF Good, Cleared
<1>10. Good(V, p)'
  BY <1>2, <1>4, <1>5, <1>6, <1>7, <1>9, ReportedGood
<1>11. ~Must(p)
  BY <1>1, SyncAssumption DEF Must
<1> QED BY <1>2, <1>4, <1>10, <1>11, ReportedSane

LEMMA SaneDstOnlyDir ==
  ASSUME Control, NEW V, Sane(V), NEW p \in todo, DstOnlyDir(p)
  PROVE  Sane(V)'
<1>1. /\ p \in Paths /\ Good(V, p) /\ ~Awaits(p) /\ pc = "march"
      /\ src[p] = opt.src[p] /\ opt.src[p] = None /\ opt.dst[p] = Dir /\ dst[p] = opt.dst[p]
      /\ opt.src[p] # Dir /\ ~IsFile(opt.src[p]) /\ ~IsFile(opt.dst[p])
  BY TodoPath, SyncAssumption DEF DstOnlyDir, Reports, IsFile
<1>2. /\ UNCHANGED <<opt, pass, pc, stage, src, dst, backup, pipe, deletion, files>>
      /\ UNCHANGED <<renameCheck, renameMap, dstFiles, moveEmpty, status>>
      /\ Mode' = Mode /\ opt' = opt
  BY DEF DstOnlyDir, run, sides, files, Mode
<1>3. \/ Mode = "off" /\ UNCHANGED <<jobs, dstEmpty>>
      \/ Mode # "off" /\ Recurse(p, FALSE, TRUE) /\ dstEmpty' = dstEmpty \cup {p}
  BY DEF DstOnlyDir
<1>4. Reported(p)
  <2>1. March /\ Reports(p)
    BY DEF March, DstOnlyDir
  <2> QED BY <1>2, <1>3, <2>1 DEF Reported, deletion
<1>5. Traffic(p)' /\ ~OnWay(p)'
  BY <1>2, <1>4, ReportedIdle
<1>6. Extra(p)' /\ Kept(p)'
  BY <1>1, <1>2, <1>3 DEF Good, Extra, Awaits, Kept, IsFile, deletion
<1>7. Copied(V, p)'
  BY <1>1, <1>2 DEF Copied, IsFile
<1>8. Fine' => Fine
  <2>1. marchErr' = marchErr
    BY DEF DstOnlyDir
  <2> QED BY <1>2, <2>1 DEF Fine, status
<1>9. Cleared(V, p)'
  <2>1. Clashes' <=> Clashes
    BY <1>2 DEF Clashes, IsFile
  <2> QED BY <1>1, <1>2, <1>3, <1>8, <2>1 DEF Good, Cleared
<1>10. Good(V, p)'
  BY <1>2, <1>4, <1>5, <1>6, <1>7, <1>9, ReportedGood
<1>11. \/ jobs' = jobs /\ ~Must(p)
       \/ Recurse(p, FALSE, TRUE)
  BY <1>1, <1>3 DEF Must
<1> QED BY <1>1, <1>2, <1>4, <1>10, <1>11, ReportedSane

LEMMA SaneMatchFile ==
  ASSUME Control, NEW V, Sane(V), NEW p \in todo, MatchFile(p)
  PROVE  Sane(V)'
<1>1. /\ p \in Paths /\ Good(V, p) /\ ~Awaits(p) /\ pc = "march"
      /\ src[p] = opt.src[p] /\ IsFile(opt.src[p]) /\ opt.src[p] # None /\ opt.src[p] # Dir
      /\ dst[p] = opt.dst[p]
  BY TodoPath, SyncAssumption DEF MatchFile, Reports, IsFile
<1>2. /\ UNCHANGED <<opt, pass, pc, stage, src, dst, backup, jobs, deletion, files>>
      /\ UNCHANGED <<renameCheck, renameMap, dstFiles, dstEmpty, moveEmpty, marchErr>>
      /\ Mode' = Mode /\ opt' = opt
  BY DEF MatchFile, run, sides, files, Mode
<1> DEFINE y == Pair(p, "old")
<1>3. y.path = p /\ y.dst = "old" /\ y.from = None /\ y.ready = FALSE
  BY PairFields
<1>4. \/ UNCHANGED pipe
      \/ PutTo("check", y) /\ Mode # "only" /\ IsFile(dst[p])
  BY DEF MatchFile
<1>5. Fine' /\ Mode # "only" => PutTo("check", y)
  <2>1. ProcessError("err") => ~Fine'
    BY Noted DEF Fine
  <2> QED BY <2>1 DEF MatchFile, Fine
<1> HIDE DEF y
<1>6. Reported(p)
  <2>1. March /\ Reports(p)
    BY DEF March, MatchFile
  <2> QED BY <1>2, <1>3, <1>4, <2>1 DEF Reported, Puts, deletion
<1>7. Traffic(p)' /\ (Fine' /\ Mode # "only" => OnWay(p)')
  <2>1. CASE PutTo("check", y) /\ Mode # "only" /\ IsFile(dst[p])
    <3>1. Puts(p, "check", y)
      BY <1>3, <2>1 DEF Puts
    <3>2. Fit("check", y)'
      BY <1>1, <1>2, <1>3, <2>1, SyncAssumption DEF Fit, IsFile
    <3> QED BY <1>1, <1>2, <1>6, <2>1, <3>1, <3>2, ReportedPut
  <2>2. CASE UNCHANGED pipe
    <3>1. Traffic(p)' /\ ~OnWay(p)'
      BY <1>2, <1>6, <2>2, ReportedIdle
    <3>2. ~(Fine' /\ Mode # "only")
      <4>1. PutTo("check", y) => OnWay(p)'
        <5>1. PutTo("check", y) => Puts(p, "check", y)
          BY <1>3 DEF Puts
        <5>2. PutTo("check", y) => y \in InPlay("check")' /\ "check" \in Pipes
          BY <1>6, <5>1, ReportedPairs DEF Pipes
        <5> QED BY <1>3, <5>2 DEF OnWay
      <4> QED BY <1>5, <3>1, <4>1
    <3> QED BY <3>1, <3>2
  <2> QED BY <1>4, <2>1, <2>2
<1>8. Extra(p)' /\ Kept(p)'
  BY <1>1, <1>2 DEF Good, Extra, Awaits, Kept, deletion, IsFile
<1>9. Copied(V, p)' /\ Cleared(V, p)'
  BY <1>1, <1>2, <1>7 DEF Copied, Cleared, IsFile
<1>10. Good(V, p)'
  BY <1>2, <1>6, <1>7, <1>8, <1>9, ReportedGood
<1>11. ~Must(p)
  BY <1>1 DEF Must
<1> QED BY <1>2, <1>6, <1>10, <1>11, ReportedSane

LEMMA SaneMatchDir ==
  ASSUME Control, NEW V, Sane(V), NEW p \in todo, MatchDir(p)
  PROVE  Sane(V)'
<1>1. /\ p \in Paths /\ Good(V, p) /\ ~Awaits(p) /\ pc = "march"
      /\ src[p] = opt.src[p] /\ opt.src[p] = Dir /\ ~IsFile(opt.src[p]) /\ opt.src[p] # None
      /\ dst[p] = opt.dst[p]
  BY TodoPath, SyncAssumption DEF MatchDir, Reports, IsFile
<1>2. /\ UNCHANGED <<opt, pass, pc, stage, src, dst, backup, pipe, deletion, files>>
      /\ UNCHANGED <<renameCheck, renameMap, dstFiles, dstEmpty>>
      /\ Mode' = Mode /\ opt' = opt
  BY DEF MatchDir, run, files, Mode
<1>3. Reported(p)
  <2>1. March /\ Reports(p)
    BY DEF March, MatchDir
  <2>2. moveEmpty' # {} => moveEmpty # {} \/ opt.move
    BY DEF MatchDir, MaybeEmpty
  <2> QED BY <1>2, <2>1, <2>2 DEF Reported, deletion
<1>4. \/ jobs' = jobs /\ ~Fine'
      \/ Recurse(p, TRUE, TRUE)
  <2>1. ProcessError("err") => ~Fine'
    BY Noted DEF Fine
  <2> QED BY <2>1 DEF MatchDir
<1>5. Traffic(p)'
  BY <1>2, <1>3, ReportedIdle
<1>6. Extra(p)' /\ Kept(p)'
  BY <1>1, <1>2 DEF Good, Extra, Awaits, Kept, deletion, IsFile
<1>7. Copied(V, p)' /\ Cleared(V, p)'
  BY <1>1, <1>2 DEF Copied, Cleared, IsFile
<1>8. Good(V, p)'
  BY <1>2, <1>3, <1>5, <1>6, <1>7, ReportedGood
<1> QED BY <1>2, <1>3, <1>4, <1>8, ReportedSane

-----------------------------------------------------------------------------
(* Steps that leave all paths where they are. *)

LEMMA NoRenamers ==
  ASSUME Control, NEW V, Sane(V), pc \in {"march"} \cup (Later \ {"transfers"})
  PROVE  \A n \in Pipes : \A z \in InPlay(n) : z.from = None
<1>1. stage["rename"].hand = {}
  BY AtRest DEF Sane, Froms, Control, Pipes
<1> QED BY <1>1, FromsThere

LEMMA FromsUnmoved ==
  ASSUME Control, NEW V, Sane(V), UNCHANGED <<opt, pipe>>, moveEmpty' \in {moveEmpty, {}},
         pc' = "march" => pc = "march", \A m \in Pipes : stage'[m].hand = stage[m].hand,
         \/ pc \in {"march"} \cup (Later \ {"transfers"})
         \/ /\ UNCHANGED renameMap
            /\ \A z \in stage["rename"].hand : z.from # None =>
                 z.from \in dstFiles' /\ dst'[z.from] = dst[z.from]
  PROVE  Froms'
<1>1. /\ \A m \in Pipes : InPlay(m)' = InPlay(m)
      /\ stage'["rename"].hand = stage["rename"].hand /\ pipe' = pipe
  BY DEF InPlay, Pipes
<1>2. ASSUME NEW n \in Pipes, NEW z \in InPlay(n)', z.from # None
      PROVE  /\ n = "rename" /\ z \in stage'["rename"].hand /\ ~z.ready
             /\ z.from \in dstFiles' \ renameMap' /\ dst'[z.from] = opt'.src[z.path]
  <2>1. /\ n = "rename" /\ z \in stage["rename"].hand /\ ~z.ready
        /\ z.from \in dstFiles \ renameMap /\ dst[z.from] = opt.src[z.path]
    BY <1>1, <1>2, FromsThere
  <2>2. pc \notin {"march"} \cup (Later \ {"transfers"})
    BY <1>1, <1>2, NoRenamers
  <2> QED BY <1>1, <1>2, <2>1, <2>2
<1>3. \A y, z \in stage'["rename"].hand : y.from = z.from /\ y.from # None => y = z
  BY <1>1 DEF Sane, Froms
<1>4. /\ pc' = "march" => pipe'["rename"] = {} /\ stage'["rename"].hand = {}
      /\ moveEmpty' # {} => opt'.move
  BY <1>1 DEF Sane, Froms
<1> QED BY <1>2, <1>3, <1>4 DEF Froms

Unmoved ==
  /\ UNCHANGED <<opt, pass, jobs, todo, src, dst, backup, pipe, renameCheck, renameMap>>
  /\ UNCHANGED <<dstFiles, deleteCh, dstEmpty, moveEmpty>> /\ deleters'.hand = deleters.hand
  /\ \A m \in Pipes : stage'[m].hand = stage[m].hand

LEMMA SaneUnmoved ==
  ASSUME Control, NEW V, Sane(V), [Next]_vars, Unmoved, Steady
  PROVE  Sane(V)'
<1>1. \A m \in Pipes : InPlay(m)' = InPlay(m)
  BY DEF Unmoved, InPlay
<1>2. \A q \in Paths : Others(V, q) /\ Traffic(q)
  BY <1>1 DEF Others, Unmoved, OnWay, Sane, Good
<1>3. \A q \in Paths : Renamed(q) => Renamed(q)'
  BY <1>2, RenamedStays DEF Steady
<1>4. \A q \in Paths : Good(V, q)'
  BY <1>2, <1>3, OthersGood DEF Sane
<1>5. Listing(V)' /\ Sides' /\ Reaches(V)'
  BY MarchStays DEF Sane, Unmoved, Steady
<1>6. Froms'
  <2>1. ASSUME NEW z \in stage["rename"].hand, z.from # None
        PROVE  z.from \in dstFiles' /\ dst'[z.from] = dst[z.from]
    <3>1. z.from \in dstFiles
      BY <2>1, FromsThere DEF InPlay, Pipes
    <3> QED BY <3>1 DEF Unmoved
  <2> QED BY <2>1, FromsUnmoved DEF Unmoved, Steady
<1>7. Waits'
  <2>1. (inCtx = "deadline" => inCtx' = "deadline") /\ (pc \in Last => pc' \in Last)
    BY Onward DEF Control, Steady
  <2>2. There => There'
    BY DEF There, Unmoved, IsFile
  <2>3. \A q \in Paths : Stays(q) => Stays(q)'
    BY <1>3 DEF Stays, Unmoved, IsFile
  <2> QED BY <2>1, <2>2, <2>3 DEF Sane, Waits, Unmoved, Mode
<1> QED BY <1>4, <1>5, <1>6, <1>7 DEF Sane

LEMMA SaneContexts ==
  ASSUME Control, NEW V, Sane(V), Deadline \/ Cancel \/ UNCHANGED vars
  PROVE  Sane(V)'
<1>1. /\ UNCHANGED <<run, sides, march, pipe, closed, stage, deletion, files, dirs>>
      /\ [Next]_vars
  BY DEF Deadline, Cancel, vars, Next
<1>2. Unmoved
  BY <1>1 DEF Unmoved, run, sides, march, deletion, files, dirs
<1>3. Steady
  <2>1. Fine' => Fine
    BY <1>1, FineBack DEF Control, run
  <2> QED BY <1>1, <2>1 DEF Steady, run, Deleting, deletion
<1> QED BY <1>1, <1>2, <1>3, SaneUnmoved

\* run goes on to the next stage.
LEMMA SaneStops ==
  ASSUME Control, NEW V, Sane(V),
         StopCheckers \/ StopRenamers \/ StopTransfers \/ StopDeleters \/ DeleteAfter
         \/ SetDirTimes \/ Deleted
  PROVE  Sane(V)'
<1>1. [Next]_vars
  BY DEF Next, Run, Deleter
<1>2. UNCHANGED <<opt, pass, jobs, todo, src, dst, backup, pipe, renameCheck, renameMap>>
  BY DEF StopCheckers, StopRenamers, StopTransfers, StopDeleters, DeleteAfter, SetDirTimes,
         Deleted, Goes, sides, march, files, run
<1>3. UNCHANGED <<dstFiles, deleteCh, dstEmpty, moveEmpty>>
  BY DEF StopCheckers, StopRenamers, StopTransfers, StopDeleters, DeleteAfter, SetDirTimes,
         Deleted, Goes, deletion, files, dirs
<1>4. deleters'.hand = deleters.hand
  <2>1. CASE DeleteAfter
    <3>1. deleters' = deleters \/ deleters' = Idle(Checkers)
      BY <2>1 DEF DeleteAfter, deletion
    <3>2. deleters.hand = {}
      BY <2>1 DEF DeleteAfter, Control, Deletions
    <3> QED BY <3>1, <3>2 DEF Idle
  <2> QED BY <2>1 DEF StopCheckers, StopRenamers, StopTransfers, StopDeleters, SetDirTimes,
                 Deleted, deletion
<1>5. \A m \in Pipes : stage'[m].hand = stage[m].hand
  <2>1. ASSUME StopRenamers, opt.checkFirst
        PROVE  \A m \in Pipes : stage'[m].hand = stage[m].hand
    <3>1. stage \in Stages /\ "upload" \in Pipes
      BY DEF Control, Base, Crew, Pipes
    <3> QED BY <2>1, <3>1, LeftHands DEF StopRenamers
  <2> QED BY <2>1 DEF StopCheckers, StopRenamers, StopTransfers, StopDeleters, DeleteAfter,
                 SetDirTimes, Deleted
<1>6. Unmoved
  BY <1>2, <1>3, <1>4, <1>5 DEF Unmoved
<1>7. Fine' => Fine
  BY <1>1, <1>2, FineBack DEF Control
<1>8. Fine' /\ Deleting' => Deleting
  <2>1. CASE Deleted
    <3>1. ASSUME deleteErr \notin {"nil", "off"} PROVE ~Fine'
      <4>1. ProcessError(deleteErr) /\ deleteErr \notin {"nil", "canceled"}
        BY <2>1, <3>1 DEF Deleted, Control, Contexts
      <4> QED BY <4>1, Noted DEF Fine
    <3> QED BY <3>1 DEF Deleting
  <2>2. CASE DeleteAfter
    BY <2>2 DEF DeleteAfter, Deleting
  <2> QED BY <2>1, <2>2 DEF StopCheckers, StopRenamers, StopTransfers, StopDeleters,
                 SetDirTimes, deletion, Deleting
<1>9. /\ pc' = "march" <=> pc = "march"
      /\ pc \in Last => pc' \in Last
      /\ pc' \in {"move", "finish", "done"} => pc \in {"move", "finish", "done"}
  BY DEF StopCheckers, StopRenamers, StopTransfers, StopDeleters, DeleteAfter, SetDirTimes,
         Deleted, Goes, run, Last
<1> QED BY <1>1, <1>2, <1>6, <1>7, <1>8, <1>9, SaneUnmoved DEF Steady

-----------------------------------------------------------------------------
(* Deletions, and what is left to rename. *)

\* A file that is to go gets closer to it, or goes.
LEMMA SaneAwaited ==
  ASSUME Control, NEW V, Sane(V), [Next]_vars, NEW p \in Paths, Awaits(p),
         UNCHANGED <<opt, pass, pc, jobs, todo, src, pipe, stage, renameCheck, renameMap>>,
         UNCHANGED <<dstEmpty, moveEmpty>>, Fine' /\ Deleting' => Deleting,
         \A q \in Paths : q # p =>
           /\ dst'[q] = dst[q] /\ backup'[q] = backup[q]
           /\ (q \in dstFiles' <=> q \in dstFiles) /\ (q \in deleteCh' <=> q \in deleteCh)
           /\ (q \in deleters'.hand <=> q \in deleters.hand),
         \/ dst'[p] = dst[p] /\ backup'[p] = backup[p]
         \/ dst'[p] = None /\ ~Awaits(p)' /\ (opt.backup => backup'[p] = opt.dst[p]),
         ~(p \in dstFiles' /\ p \in deleteCh') /\ ~(p \in dstFiles' /\ p \in deleters'.hand)
         /\ ~(p \in deleteCh' /\ p \in deleters'.hand),
         pc \in Last \/ (p \in dstFiles' <=> p \in dstFiles),
         p \in dstFiles => dst'[p] = dst[p],
         Awaits(p)' \/ dst'[p] = None \/ ~(Fine' /\ Deleting'),
         Mode = "after" /\ ~opt.ignoreErrors /\ inCtx # "deadline" => pc \in Last /\ There
  PROVE  Sane(V)'
<1>1. /\ Good(V, p) /\ opt.src[p] = None /\ IsFile(opt.dst[p]) /\ dst[p] = opt.dst[p]
      /\ Mode # "off" /\ ~OnWay(p) /\ ~IsFile(opt.src[p]) /\ Wanted(opt, p) # opt.dst[p]
      /\ opt.dst[p] # Dir /\ p \notin dstEmpty
  <2>1. opt.src[p] # opt.dst[p] /\ ~IsFile(opt.src[p])
    BY SyncAssumption DEF Sane, Good, Extra, Traffic, IsFile
  <2>2. Wanted(opt, p) # opt.dst[p]
    BY <2>1, WantedIs
  <2> QED BY <2>1, <2>2, SyncAssumption DEF Sane, Good, Extra, Traffic, IsFile
<1>2. /\ opt' = opt /\ pass' = pass /\ pc' = pc /\ Mode' = Mode
      /\ \A m \in Pipes : InPlay(m)' = InPlay(m)
  BY DEF Mode, InPlay
<1>3. (Fine' => Fine) /\ (inCtx = "deadline" => inCtx' = "deadline")
  BY FineBack, Onward DEF Control
<1>4. Steady
  BY <1>2, <1>3 DEF Steady
<1>5. \A q \in Paths : q # p => Others(V, q)
  BY <1>2 DEF Others, OnWay
<1>6. \A q \in Paths : Renamed(q) => Renamed(q)'
  BY <1>1, <1>2, <1>5, RenamedStays DEF Sane, Good
<1>7. Good(V, p)'
  <2>1. OnWay(p)' <=> OnWay(p)
    BY <1>2 DEF OnWay
  <2>2. Traffic(p)'
    BY <1>1, <2>1 DEF Traffic, OnWay, InPlay
  <2>3. Extra(p)'
    <3>1. Awaits(p)' => dst'[p] = dst[p]
      OBVIOUS
    <3> QED BY <1>1, <1>2, <3>1 DEF Good, Extra, IsFile
  <2>4. Place(V, p)'
    <3>1. ~Ahead(V, p)
      BY <1>1 DEF Good, Place, Ahead
    <3>2. ~Ahead(V, p)' /\ Parent[p] \in V /\ p \notin todo'
      BY <1>1, <1>2, <3>1 DEF Ahead, Good, Place
    <3> QED BY <3>2 DEF Place
  <2>5. Kept(p)'
    BY <1>1, <1>2 DEF Good, Kept, IsFile
  <2>6. Backs(p)'
    BY <1>1, <1>2, <1>6 DEF Good, Backs, IsFile
  <2>7. Copied(V, p)'
    BY <1>1, <1>2 DEF Copied, IsFile
  <2>8. Cleared(V, p)'
    <3>1. pass # 2
      BY <1>1 DEF Mode, Control, Passes
    <3> QED BY <1>1, <1>2, <3>1 DEF Cleared
  <2> QED BY <2>2, <2>3, <2>4, <2>5, <2>6, <2>7, <2>8 DEF Good
<1>8. \A q \in Paths : Good(V, q)'
  BY <1>4, <1>5, <1>6, <1>7, OthersGood DEF Sane
<1>9. Listing(V)' /\ Sides' /\ Reaches(V)'
  BY <1>2, <1>3, MarchStays DEF Sane
<1>10. Froms'
  <2>1. CASE pc \in Last
    BY <2>1, FromsUnmoved DEF Last, Later
  <2>2. CASE pc \notin Last
    <3>1. ASSUME NEW z \in stage["rename"].hand, z.from # None
          PROVE  z.from \in dstFiles' /\ dst'[z.from] = dst[z.from]
      <4>1. z.from \in dstFiles /\ z.from \in Paths
        BY <3>1, FromsThere DEF InPlay, Pipes
      <4> QED BY <2>2, <4>1
    <3> QED BY <3>1, FromsUnmoved
  <2> QED BY <2>1, <2>2
<1>11. Waits'
  <2>1. There => There'
    BY <1>1, <1>2 DEF There, IsFile
  <2> QED BY <1>2, <1>3, <2>1 DEF Waits
<1> QED BY <1>8, <1>9, <1>10, <1>11 DEF Sane

LEMMA SaneDelete ==
  ASSUME Control, NEW V, Sane(V), Delete
  PROVE  Sane(V)'
<1>1. /\ UNCHANGED <<opt, pass, pc, jobs, todo, src, dst, backup, pipe, stage>>
      /\ UNCHANGED <<renameCheck, renameMap, dstFiles, dstEmpty, moveEmpty>>
      /\ deleteErr' = deleteErr /\ [Next]_vars
  BY DEF Delete, run, march, sides, files, dirs, Next, Deleter
<1>2. deleters = [hand |-> deleters.hand, left |-> deleters.left]
  BY InDeleters DEF Control
<1>3. ASSUME NEW p \in deleteCh, deleteCh' = deleteCh \ {p},
             deleters' = [deleters EXCEPT !.hand = @ \cup {p}]
      PROVE  Sane(V)'
  <2>1. deleters'.hand = deleters.hand \cup {p}
    BY <1>2, <1>3
  <2>2. p \in Paths /\ Awaits(p) /\ Extra(p)
    BY DEF Control, Deletions, Awaits, Sane, Good
  <2>3. Awaits(p)' /\ p \notin dstFiles
    BY <2>1, <2>2 DEF Awaits, Extra
  <2>4. Mode = "after" /\ ~opt.ignoreErrors /\ inCtx # "deadline" => pc \in Last /\ There
    BY DEF Sane, Waits
  <2>5. Deleting' => Deleting
    BY <1>1 DEF Deleting
  <2> QED BY <1>1, <1>3, <2>1, <2>2, <2>3, <2>4, <2>5, SaneAwaited
<1>4. ASSUME deleteCh' = deleteCh, deleters' = [deleters EXCEPT !.left = @ - 1]
      PROVE  Sane(V)'
  <2>1. deleters'.hand = deleters.hand
    BY <1>2, <1>4
  <2>2. Unmoved
    BY <1>1, <1>4, <2>1 DEF Unmoved
  <2>3. Fine' => Fine
    BY <1>1, FineBack DEF Control
  <2>4. Steady
    BY <1>1, <2>3 DEF Steady, Deleting
  <2> QED BY <1>1, <2>2, <2>4, SaneUnmoved
<1> QED BY <1>3, <1>4 DEF Delete

LEMMA SaneDeleteFile ==
  ASSUME Control, NEW V, Sane(V), NEW p \in deleters.hand, DeleteFile(p)
  PROVE  Sane(V)'
<1>1. /\ UNCHANGED <<opt, pass, pc, jobs, todo, src, pipe, stage>>
      /\ UNCHANGED <<renameCheck, renameMap, dstFiles, deleteCh, dstEmpty, moveEmpty>>
      /\ [Next]_vars
  BY DEF DeleteFile, run, march, files, dirs, Next, Deleter
<1>2. p \in Paths /\ Awaits(p) /\ Extra(p) /\ dst[p] = opt.dst[p]
  BY DEF Control, Deletions, Awaits, Sane, Good, Extra
<1>3. p \notin dstFiles /\ p \notin deleteCh
  BY <1>2 DEF Extra
<1>4. PICK e \in Faults :
         /\ deleters'.hand = deleters.hand \ {p}
         /\ deleteErr' = (IF "fatal" \in {e, deleteErr} THEN "fatal"
                          ELSE IF e = "nil" THEN deleteErr ELSE "err")
         /\ IF e = "nil"
            THEN /\ dst' = [dst EXCEPT ![p] = None]
                 /\ backup' = IF opt.backup THEN BackedUp(p) ELSE backup
            ELSE UNCHANGED <<dst, backup>>
  BY DEF DeleteFile
<1>5. ~Awaits(p)'
  BY <1>1, <1>3, <1>4 DEF Awaits
<1>6. /\ \A q \in Paths : q # p => dst'[q] = dst[q] /\ backup'[q] = backup[q]
      /\ \/ e # "nil" /\ dst'[p] = dst[p] /\ backup'[p] = backup[p]
         \/ dst'[p] = None /\ (opt.backup => backup'[p] = opt.dst[p])
  BY <1>2, <1>4 DEF BackedUp, Control, Base, Types, Trees
<1>7. (Deleting' => Deleting) /\ (e # "nil" => ~Deleting')
  BY <1>4 DEF Deleting
<1>8. Mode = "after" /\ ~opt.ignoreErrors /\ inCtx # "deadline" => pc \in Last /\ There
  BY DEF Sane, Waits
<1>9. \A q \in Paths : q # p => (q \in deleters'.hand <=> q \in deleters.hand)
  BY <1>4
<1>10. p \notin deleters'.hand
  BY <1>4
<1> QED BY <1>1, <1>2, <1>3, <1>5, <1>6, <1>7, <1>8, <1>9, <1>10, SaneAwaited

\* When the transfers are over and nothing has gone wrong, all files are there.
LEMMA AllArrived ==
  ASSUME Control, NEW V, Sane(V), Fine, pc \in Later \ {"transfers"}, Mode # "only",
         NEW p \in Paths, IsFile(opt.src[p])
  PROVE  dst[p] = Wanted(opt, p) /\ (opt.move /\ ~Existing(opt, p) => src[p] = None)
<1>1. ~OnWay(p)
  <2>1. ASSUME NEW n \in Pipes, NEW x \in InPlay(n), x.path = p PROVE FALSE
    <3>1. n = "rename" => opt.rename
      BY <2>1, OwnPair DEF Fit
    <3> QED BY <2>1, <3>1, AllThrough DEF InPlay
  <2>2. p \notin renameCheck
    BY DEF Control, Base, Order, Later
  <2> QED BY <2>1, <2>2 DEF OnWay
<1>2. Copied(V, p) /\ ~Ahead(V, p)
  BY DEF Sane, Good, Ahead, Later
<1> QED BY <1>1, <1>2 DEF Copied

LEMMA SaneFeed ==
  ASSUME Control, NEW V, Sane(V), Feed
  PROVE  Sane(V)'
<1>1. /\ UNCHANGED <<opt, pass, pc, jobs, todo, src, dst, backup, pipe, stage, deleters>>
      /\ UNCHANGED <<renameCheck, renameMap, dstEmpty, moveEmpty, deleteErr>>
      /\ [Next]_vars /\ pc = "deleting" /\ deleteErr # "off"
  BY DEF Feed, run, march, sides, dirs, Next, Run
<1>2. ASSUME NEW p \in dstFiles, ctx = "live", dstFiles' = dstFiles \ {p},
             deleteCh' = deleteCh \cup {p}
      PROVE  Sane(V)'
  <2>1. p \in Paths /\ Awaits(p) /\ Extra(p)
    BY DEF Control, Base, Types, Awaits, Sane, Good
  <2>2. Awaits(p)' /\ p \notin deleters.hand
    BY <1>1, <1>2, <2>1 DEF Awaits, Extra
  <2>3. Mode = "after"
    BY DEF Control, Deletions
  <2>4. ~opt.ignoreErrors /\ inCtx # "deadline" => Fine
    BY <1>1, <1>2, <2>3 DEF Fine, Control, Deletions, Contexts, Results
  <2>5. ~opt.ignoreErrors /\ inCtx # "deadline" => pc \in Last /\ There
    BY <1>1, <2>3, <2>4, AllArrived DEF There, Last, Later
  <2>6. Deleting' => Deleting
    BY <1>1 DEF Deleting
  <2> QED BY <1>1, <1>2, <2>1, <2>2, <2>5, <2>6, SaneAwaited DEF Last
<1>3. ASSUME UNCHANGED <<dstFiles, deleteCh>> PROVE Sane(V)'
  <2>1. Unmoved
    BY <1>1, <1>3 DEF Unmoved
  <2>2. Fine' => Fine
    BY <1>1, FineBack DEF Control
  <2>3. Steady
    BY <1>1, <2>2 DEF Steady, Deleting
  <2> QED BY <1>1, <2>1, <2>3, SaneUnmoved
<1> QED BY <1>2, <1>3 DEF Feed

LEMMA SanePutRename ==
  ASSUME Control, NEW V, Sane(V), NEW p \in renameCheck, PutRename(p)
  PROVE  Sane(V)'
<1> DEFINE y == Pair(p, "none")
<1>1. /\ UNCHANGED <<opt, pass, jobs, todo, src, dst, backup, stage, renameMap>>
      /\ UNCHANGED <<dstFiles, deleteCh, deleters, deleteErr, dstEmpty, moveEmpty>>
      /\ pc = "renames" /\ pc' = "renames" /\ [Next]_vars /\ Mode' = Mode /\ opt' = opt
  BY DEF PutRename, run, march, sides, deletion, dirs, Next, Run, Mode
<1>2. /\ p \in Paths /\ Good(V, p) /\ OnWay(p) /\ opt.dst[p] = None /\ opt.rename
      /\ IsFile(opt.src[p]) /\ src[p] = opt.src[p] /\ Mode # "only" /\ "rename" \in Pipes
      /\ \A n \in Pipes : \A z \in InPlay(n) : z.path # p
  BY DEF Control, Base, Types, Sane, Good, Traffic, OnWay, Pipes
<1>3. y.path = p /\ y.dst = "none" /\ y.from = None /\ y.ready = FALSE
  BY PairFields
<1>4. \/ /\ PutTo("rename", y) /\ renameCheck' = renameCheck \ {p}
      \/ pipe' = pipe /\ renameCheck' = {} /\ inCtx' # "live"
  BY DEF PutRename, status
<1> HIDE DEF y
<1>5. Fine' => Fine
  BY <1>1, FineBack DEF Control
<1>6. Steady
  BY <1>1, <1>5 DEF Steady, Deleting
<1>7. /\ \A m \in Pipes : pipe[m] \subseteq pipe'[m]
      /\ \A m \in Pipes : \A z \in pipe'[m] : z \in pipe[m] \/ (m = "rename" /\ z = y)
      /\ PutTo("rename", y) => y \in pipe'["rename"]
  BY <1>2, <1>4, PutPipes DEF Control
<1>8. ASSUME NEW q \in Paths, q # p PROVE Others(V, q)
  <2>1. /\ \A m \in Pipes : \A z \in pipe'[m] : z.path = q => z \in pipe[m]
        /\ \A m \in Pipes : \A z \in InPlay(m) : z \in InPlay(m)'
    BY <1>1, <1>3, <1>7, <1>8 DEF InPlay
  <2>2. Fine' /\ OnWay(q) => OnWay(q)'
    BY <1>4, <1>8, <2>1 DEF OnWay, Fine
  <2> QED BY <1>1, <1>4, <2>1, <2>2 DEF Others
<1>9. \A q \in Paths : Renamed(q) => Renamed(q)'
  BY <1>1, <1>2, <1>8, RenamedStays DEF Sane, Good
<1>10. Traffic(p)' /\ (Fine' => OnWay(p)')
  <2>1. CASE PutTo("rename", y) /\ renameCheck' = renameCheck \ {p}
    <3>1. Sole(p, "rename", y)'
      BY <1>1, <1>2, <1>7 DEF Sole, InPlay
    <3>2. y \notin stage'["rename"].hand /\ p \notin renameCheck'
      BY <1>1, <1>2, <1>3, <2>1 DEF InPlay
    <3>3. Fit("rename", y)'
      BY <1>1, <1>2, <1>3, SyncAssumption DEF Fit
    <3>4. IsFile(opt'.src[p]) /\ src'[p] = opt'.src[p] /\ Mode' # "only"
      BY <1>1, <1>2 DEF IsFile
    <3>5. Traffic(p)'
      BY <1>2, <3>1, <3>2, <3>3, <3>4, SoleTraffic
    <3> QED BY <1>2, <1>3, <1>7, <2>1, <3>5 DEF OnWay, InPlay
  <2>2. CASE pipe' = pipe /\ renameCheck' = {} /\ inCtx' # "live"
    <3>1. \A m \in Pipes : InPlay(m)' = InPlay(m)
      BY <1>1, <2>2 DEF InPlay
    <3>2. ~OnWay(p)'
      BY <1>2, <2>2, <3>1 DEF OnWay
    <3>3. Traffic(p)'
      BY <1>2, <2>2, <3>1, <3>2 DEF Traffic, InPlay
    <3> QED BY <2>2, <3>3 DEF Fine
  <2> QED BY <1>4, <2>1, <2>2
<1>11. Good(V, p)'
  <2>1. Kept(p)' /\ Backs(p)' /\ Copied(V, p)'
    BY <1>1, <1>2, <1>9, <1>10, SyncAssumption DEF Good, Kept, Backs, Copied, IsFile
  <2> QED BY <1>1, <1>2, <1>10, <2>1, OwnGood
<1>12. \A q \in Paths : Good(V, q)'
  BY <1>6, <1>8, <1>9, <1>11, OthersGood DEF Sane
<1>13. Listing(V)' /\ Sides' /\ Reaches(V)'
  BY <1>1, <1>5, MarchStays DEF Sane
<1>14. Froms'
  <2>1. ASSUME NEW m \in Pipes, NEW z \in InPlay(m)', z.from # None
        PROVE  /\ z \in InPlay(m) /\ (m = "rename" => z \in stage'["rename"].hand)
               /\ z.from \in dstFiles' \ renameMap' /\ dst'[z.from] = dst[z.from]
    <3>1. z \in InPlay(m)
      BY <1>1, <1>3, <1>7, <2>1 DEF InPlay
    <3>2. m = "rename" /\ z \in stage["rename"].hand /\ z.from \in dstFiles \ renameMap
      BY <2>1, <3>1, FromsThere
    <3> QED BY <1>1, <3>1, <3>2
  <2> QED BY <1>1, <2>1, FromsStay
<1>15. Waits'
  <2>1. (inCtx = "deadline" => inCtx' = "deadline") /\ pc \notin Last
    BY <1>1, Onward DEF Control, Last
  <2>2. \A q \in Paths : Stays(q) => Stays(q)'
    BY <1>1, <1>9 DEF Stays, IsFile
  <2> QED BY <1>1, <2>1, <2>2 DEF Sane, Waits
<1> QED BY <1>12, <1>13, <1>14, <1>15 DEF Sane

-----------------------------------------------------------------------------
(* The march goes on, and ends. *)

\* Of a path whose directory has been listed without it, the source has nothing,
\* and neither has dst if that side is looked at.
LEMMA ListedNothing ==
  ASSUME Control, NEW V, Sane(V), NEW j \in jobs, pc = "march", NEW q \in Paths,
         Parent[q] = j.dir, Ahead(V, q), q \notin Listed(j.dir, j.inSrc, j.inDst)
  PROVE  opt.src[q] = None /\ (Mode # "off" => dst[q] = None)
<1>1. /\ src[q] = opt.src[q]
      /\ opt.src[q] = None => dst[q] \in {opt.dst[q], None}
  BY DEF Sane, Good, Place, Kept
<1>2. ~(j.inSrc /\ src[q] # None) /\ ~(j.inDst /\ dst[q] # None)
  BY DEF Listed, Under
<1>3. /\ j.dir = Top => j.inSrc /\ j.inDst
      /\ j.dir # Top /\ opt.src[j.dir] = Dir => j.inSrc
      /\ j.dir # Top /\ Mode # "off" /\ opt.dst[j.dir] = Dir => j.inDst
  BY DEF Sane, Sides
<1>4. opt \in Scenarios
  BY DEF Control, Base, Types
<1>5. j.dir # Top => /\ opt.src[q] # None => opt.src[j.dir] = Dir
                     /\ opt.dst[q] # None => opt.dst[j.dir] = Dir
  BY <1>4, SyncAssumption
<1>6. opt.src[q] = None
  BY <1>1, <1>2, <1>3, <1>5
<1>7. ASSUME Mode # "off", dst[q] # None PROVE FALSE
  <2>1. opt.dst[q] # None
    BY <1>1, <1>6, <1>7
  <2> QED BY <1>2, <1>3, <1>5, <1>7, <2>1
<1> QED BY <1>6, <1>7

LEMMA SaneList ==
  ASSUME Control, NEW V, Sane(V), NEW j \in jobs, List(j)
  PROVE  \E W \in {V, V \cup {j.dir}} : Sane(W)'
<1>1. /\ UNCHANGED <<opt, pass, pc, src, dst, backup, pipe, stage, renameCheck, renameMap>>
      /\ UNCHANGED <<dstFiles, deleteCh, deleters, deleteErr, dstEmpty, moveEmpty>>
      /\ UNCHANGED <<errs, ctx, inCtx>>
      /\ pc = "march" /\ jobs' = jobs \ {j} /\ Mode' = Mode /\ [Next]_vars
  BY DEF List, run, sides, deletion, files, dirs, Mode, Next, March
<1>2. \A m \in Pipes : InPlay(m)' = InPlay(m)
  BY <1>1 DEF InPlay
<1>3. Froms'
  BY <1>1, FromsUnmoved
<1>4. \A q \in Paths : Renamed(q) => Renamed(q)'
  BY <1>1 DEF Renamed
<1>5. Waits'
  <2>1. \A q \in Paths : Stays(q) => Stays(q)'
    BY <1>1, <1>4 DEF Stays, IsFile
  <2> QED BY <1>1, <2>1 DEF Sane, Waits, Last
<1>6. Sides'
  BY <1>1 DEF Sane, Sides
<1>7. CASE marchErr' = TRUE /\ UNCHANGED todo
  <2>1. ~Fine'
    BY <1>7 DEF Fine
  <2>2. Steady
    BY <1>1, <2>1 DEF Steady, Last
  <2>3. \A q \in Paths : Others(V, q)
    BY <1>1, <1>2, <1>7, <2>1 DEF Others, OnWay
  <2>4. \A q \in Paths : Good(V, q)'
    BY <1>4, <2>2, <2>3, OthersGood DEF Sane
  <2>5. Listing(V)' /\ Reaches(V)'
    BY <1>1, <1>7, <2>1 DEF Sane, Listing, Reaches
  <2> QED BY <1>3, <1>5, <1>6, <2>4, <2>5 DEF Sane
<1>8. CASE todo' = todo \cup Listed(j.dir, j.inSrc, j.inDst) /\ marchErr' = marchErr
  <2> DEFINE W == V \cup {j.dir}
             new == Listed(j.dir, j.inSrc, j.inDst)
  <2>1. j.dir \notin V /\ (j.dir # Top => Parent[j.dir] \in V)
    BY DEF Sane, Listing
  <2>2. \A q \in new : q \in Paths /\ Parent[q] = j.dir
    BY DEF Listed, Under
  <2>3. \A q \in new : q \notin V /\ q # j.dir /\ q # Top
    BY <2>1, <2>2, SyncAssumption DEF Sane, Listing
  <2>4. todo' = todo \cup new
    BY <1>8
  <2> HIDE DEF new
  <2>5. Listing(W)'
    <3>1. \A q \in Paths : q \in W => Parent[q] \in W
      BY <2>1, SyncAssumption DEF Sane, Listing
    <3>2. \A k \in jobs' : k.dir \notin W /\ (k.dir # Top => Parent[k.dir] \in W)
      BY <1>1 DEF Sane, Listing
    <3>3. \A k, l \in jobs' : k.dir = l.dir => k = l
      BY <1>1 DEF Sane, Listing
    <3>4. \A q \in todo : q \notin W /\ Parent[q] \in W /\ \A k \in jobs' : k.dir # q
      BY <1>1 DEF Sane, Listing, Control, Base, Types
    <3>5. \A q \in new : q \notin W /\ Parent[q] \in W /\ \A k \in jobs' : k.dir # q
      <4>1. \A q \in new : \A k \in jobs' : k.dir # q
        <5> SUFFICES ASSUME NEW q \in new, NEW k \in jobs', k.dir = q PROVE FALSE
          OBVIOUS
        <5>1. Parent[q] \in V
          BY <1>1, <2>3 DEF Sane, Listing
        <5> QED BY <2>1, <2>2, <5>1
      <4> QED BY <2>2, <2>3, <4>1
    <3> HIDE DEF W
    <3> QED BY <2>4, <3>1, <3>2, <3>3, <3>4, <3>5 DEF Listing
  <2>6. \A q \in Paths : Ahead(W, q)' => Ahead(V, q)
    BY <1>1, <2>1, <2>2, <2>4 DEF Ahead
  <2>7. ASSUME NEW q \in Paths, Ahead(V, q), ~Ahead(W, q)'
        PROVE  opt.src[q] = None /\ (Mode # "off" => dst[q] = None)
    <3>1. q \notin todo' /\ Parent[q] \in W
      BY <1>1, <2>7 DEF Ahead
    <3>2. Parent[q] = j.dir /\ q \notin Listed(j.dir, j.inSrc, j.inDst)
      BY <2>4, <2>7, <3>1 DEF Ahead, new
    <3> QED BY <1>1, <2>7, <3>2, ListedNothing
  <2> HIDE DEF W
  <2>8. ASSUME NEW q \in Paths PROVE Good(W, q)'
    <3>1. Good(V, q)
      BY DEF Sane
    <3>2. (OnWay(q)' <=> OnWay(q)) /\ (Awaits(q)' <=> Awaits(q)) /\ opt' = opt
      BY <1>1, <1>2 DEF OnWay, Awaits
    <3>3. Traffic(q)'
      BY <1>1, <1>2, <3>1, <3>2 DEF Good, Traffic, Fit, IsFile
    <3>4. Extra(q)' /\ Kept(q)' /\ Backs(q)'
      BY <1>1, <1>4, <3>1, <3>2 DEF Good, Extra, Kept, Backs, IsFile
    <3>5. Place(W, q)'
      <4>1. OnWay(q) \/ Awaits(q) => Parent[q] \in W /\ q \notin todo'
        BY <2>1, <2>2, <2>4, <3>1 DEF Good, Place, W
      <4> QED BY <1>1, <2>6, <3>1, <3>2, <4>1 DEF Good, Place
    <3>6. Copied(W, q)'
      <4>1. IsFile(opt.src[q]) => opt.src[q] # None
        BY SyncAssumption DEF IsFile
      <4>2. Fine' => Fine
        BY <1>1, <1>8 DEF Fine
      <4> QED BY <1>1, <2>7, <3>1, <3>2, <4>1, <4>2 DEF Good, Copied, IsFile
    <3>7. Cleared(W, q)'
      <4>1. (Fine' => Fine) /\ (Deleting' => Deleting) /\ (Clashes' <=> Clashes)
        BY <1>1, <1>8 DEF Fine, Deleting, Clashes, IsFile
      <4> QED BY <1>1, <2>7, <3>1, <3>2, <4>1 DEF Good, Cleared
    <3> QED BY <3>3, <3>4, <3>5, <3>6, <3>7 DEF Good
  <2>9. Reaches(W)'
    <3> SUFFICES ASSUME Fine' PROVE Reaches(W)'
      BY DEF Reaches
    <3>1. Fine
      BY <1>1, <1>8 DEF Fine
    <3>2. \A d : Reached(V, d) => Reached(W, d)'
      BY <1>1 DEF Reached, W
    <3>3. ASSUME NEW d \in Paths, Must(d), Ahead(V, d), ~Ahead(W, d)' PROVE FALSE
      <4>1. opt.src[d] = None /\ (Mode # "off" => dst[d] = None)
        BY <2>7, <3>3
      <4>2. pass = 2 => Mode = "off"
        BY DEF Control, Passes, Mode
      <4>3. dst[d] = opt.dst[d] \/ pass = 2
        BY <3>3 DEF Sane, Good, Place
      <4> QED BY <3>3, <4>1, <4>2, <4>3, SyncAssumption DEF Must
    <3>4. \A d \in Paths : Must(d)' <=> Must(d)
      BY <1>1 DEF Must, IsFile
    <3> QED BY <1>1, <3>1, <3>2, <3>3, <3>4 DEF Sane, Reaches
  <2>10. Sane(W)'
    BY <1>3, <1>5, <1>6, <2>5, <2>8, <2>9 DEF Sane
  <2> QED BY <2>10 DEF W
<1> QED BY <1>7, <1>8 DEF List

\* A march in which nothing went wrong has listed all directories it had to.
LEMMA MarchedSource ==
  ASSUME Control, NEW V, Sane(V), Fine, pc = "march", jobs = {}, todo = {}, Mode # "only",
         NEW q \in Paths, opt.src[q] # None
  PROVE  Parent[q] \in V
<1> DEFINE S == {p \in Paths : opt.src[p] = Dir => p \in V}
<1>1. opt \in Scenarios /\ Top \in V
  BY DEF Control, Base, Types, Sane, Reaches, Reached
<1>2. \A p \in Paths : opt.src[p] = Dir => Ahead(V, p) \/ p \in V
  BY DEF Sane, Reaches, Reached, Must
<1>3. \A p \in Paths : opt.src[p] = Dir => Parent[p] \notin V \/ p \in V
  BY <1>2 DEF Ahead
<1>4. \A p \in Paths : opt.src[p] # None /\ Parent[p] # Top => opt.src[Parent[p]] = Dir
  BY <1>1, SyncAssumption
<1>5. \A p \in Paths : Parent[p] \in S \cup {Top} => p \in S
  BY <1>1, <1>3, <1>4, SyncAssumption
<1>6. S = Paths
  BY <1>5, SyncAssumption
<1> QED BY <1>1, <1>4, <1>6, SyncAssumption

LEMMA MarchedDst ==
  ASSUME Control, NEW V, Sane(V), Fine, pc = "march", jobs = {}, todo = {}, Mode # "off",
         ~Clashes, NEW q \in Paths, opt.dst[q] # None
  PROVE  Parent[q] \in V
<1> DEFINE S == {p \in Paths : opt.dst[p] = Dir => p \in V}
<1>1. opt \in Scenarios /\ Top \in V
  BY DEF Control, Base, Types, Sane, Reaches, Reached
<1>2. \A p \in Paths : opt.dst[p] = Dir => Ahead(V, p) \/ p \in V
  BY DEF Sane, Reaches, Reached, Must, Clashes
<1>3. \A p \in Paths : opt.dst[p] = Dir => Parent[p] \notin V \/ p \in V
  BY <1>2 DEF Ahead
<1>4. \A p \in Paths : opt.dst[p] # None /\ Parent[p] # Top => opt.dst[Parent[p]] = Dir
  BY <1>1, SyncAssumption
<1>5. \A p \in Paths : Parent[p] \in S \cup {Top} => p \in S
  BY <1>1, <1>3, <1>4, SyncAssumption
<1>6. S = Paths
  BY <1>5, SyncAssumption
<1> QED BY <1>1, <1>4, <1>6, SyncAssumption

LEMMA SaneMarchEnds ==
  ASSUME Control, NEW V, Sane(V), MarchEnds
  PROVE  Sane(V)'
<1>1. /\ UNCHANGED <<opt, pass, src, dst, backup, pipe, stage, renameCheck, dstFiles>>
      /\ UNCHANGED <<deleteCh, deleters, deleteErr, dstEmpty, moveEmpty>>
      /\ pc = "march" /\ pc' = "renames" /\ jobs' = {} /\ todo' = {} /\ Mode' = Mode
      /\ opt' = opt /\ renameMap' = RenameSources /\ [Next]_vars
  BY DEF MarchEnds, run, sides, deletion, dirs, Mode, Next, Run
<1>2. \A m \in Pipes : InPlay(m)' = InPlay(m)
  BY <1>1 DEF InPlay
<1>3. Fine' => Fine /\ jobs = {} /\ todo = {}
  <2>1. Fine' => Fine
    BY <1>1, FineBack DEF Control
  <2> QED BY <2>1 DEF MarchEnds, Fine
<1>4. renameMap' \subseteq dstFiles
  BY <1>1 DEF RenameSources
<1>5. ASSUME NEW q \in Paths PROVE Good(V, q)'
  <2>1. Good(V, q) /\ ~Ahead(V, q)'
    BY <1>1 DEF Sane, Ahead
  <2>2. (OnWay(q)' <=> OnWay(q)) /\ (Awaits(q)' <=> Awaits(q)) /\ ~Renamed(q)
    BY <1>1, <1>2 DEF OnWay, Awaits, Renamed
  <2>3. Traffic(q)'
    BY <1>1, <1>2, <2>1, <2>2 DEF Good, Traffic, Fit, IsFile
  <2>4. Extra(q)' /\ Kept(q)' /\ Backs(q)'
    BY <1>1, <1>4, <2>1, <2>2 DEF Good, Extra, Kept, Backs, IsFile, Last
  <2>5. Place(V, q)'
    BY <1>1, <2>1, <2>2 DEF Good, Place
  <2>6. Copied(V, q)'
    <3> SUFFICES ASSUME Fine', Mode # "only", IsFile(opt.src[q]) PROVE Copied(V, q)'
      BY <1>1 DEF Copied, IsFile
    <3>1. opt.src[q] # None
      BY SyncAssumption DEF IsFile
    <3>2. Parent[q] \in V /\ todo = {}
      BY <1>1, <1>3, <3>1, MarchedSource
    <3>3. ~Ahead(V, q)
      BY <3>2 DEF Ahead
    <3> QED BY <1>1, <1>3, <2>1, <2>2, <3>3 DEF Good, Copied
  <2>7. Cleared(V, q)'
    <3>1. (Fine' => Fine) /\ (Deleting' => Deleting) /\ (Clashes' <=> Clashes)
      BY <1>1, <1>3 DEF Deleting, Clashes, IsFile
    <3>2. ASSUME Fine', Mode # "off", ~Clashes, opt.src[q] = None, Ahead(V, q)
          PROVE  dst[q] = None
      <4>1. opt.dst[q] = None
        BY <1>1, <1>3, <3>2, MarchedDst DEF Ahead
      <4> QED BY <2>1, <3>2, <4>1 DEF Good, Kept
    <3> QED BY <1>1, <2>1, <2>2, <3>1, <3>2 DEF Good, Cleared
  <2> QED BY <2>3, <2>4, <2>5, <2>6, <2>7 DEF Good
<1>6. Froms'
  BY <1>1, FromsUnmoved
<1>7. Waits'
  <2>1. inCtx = "deadline" => inCtx' = "deadline"
    BY <1>1, Onward DEF Control
  <2>2. \A q \in Paths : Stays(q) => Stays(q)'
    BY <1>1 DEF Stays, Renamed, IsFile
  <2> QED BY <1>1, <2>1, <2>2 DEF Sane, Waits, Last
<1>8. Listing(V)' /\ Sides' /\ Reaches(V)'
  BY <1>1 DEF Sane, Listing, Sides, Reaches
<1> QED BY <1>5, <1>6, <1>7, <1>8 DEF Sane

-----------------------------------------------------------------------------
(* Directories are pruned. *)

\* After the deletions, and if nothing has gone wrong, no file has still to go.
LEMMA NoneAwaited ==
  ASSUME Control, Fine, pc \in Last \ {"deleting"}, Mode # "off", NEW q \in Paths
  PROVE  ~Awaits(q)
<1>1. Mode \in {"only", "during", "after"}
  BY SyncAssumption DEF Control, Base, Types, ScenarioType, Mode
<1>2. deleteErr = "off" /\ deleters.hand = {} /\ Deleting
  BY DEF Control, Deletions, Deleting
<1>3. ~deleteOpen /\ deleteCh = {}
  BY <1>1, <1>2 DEF Control, Deletions
<1>4. dstFiles = {}
  BY <1>2, <1>3 DEF Control, Deletions
<1> QED BY <1>2, <1>3, <1>4 DEF Awaits

LEMMA PrunedPath ==
  ASSUME NEW tree, NEW empty, NEW q \in Paths
  PROVE  /\ Pruned(tree, empty)[q] = IF q \in Gone(tree, empty) THEN None ELSE tree[q]
         /\ q \in Gone(tree, empty) => q \in empty /\ tree[q] = Dir
BY DEF Pruned, Gone

\* All the directories that only dst has are gone.
LEMMA PrunesAll ==
  ASSUME Control, NEW V, Sane(V), Fine, Deleting, Mode # "off", ~Clashes, pc = "prune",
         NEW q \in Paths, opt.src[q] = None
  PROVE  Pruned(dst, dstEmpty)[q] = None
<1> DEFINE G == {p \in Paths : p \in dstEmpty /\ dst[p] = Dir}
<1>1. ASSUME NEW p \in Paths, opt.src[p] = None, dst[p] # None PROVE p \in G
  <2>1. p \in dstEmpty
    BY <1>1, NoneAwaited DEF Sane, Good, Cleared, Ahead, Last
  <2> QED BY <1>1, <2>1 DEF Sane, Good, Extra, Kept
<1>2. opt \in Scenarios
  BY DEF Control, Base, Types
<1>3. ASSUME NEW p \in G, NEW r \in Under(p) PROVE dst[r] = None \/ r \in G
  <2>1. r \in Paths /\ Parent[r] = p /\ p # Top /\ opt.src[p] = None
    BY <1>3, SyncAssumption DEF Under, Sane, Good, Extra
  <2>2. opt.src[r] # None => opt.src[Parent[r]] = Dir
    BY <1>2, <2>1, SyncAssumption
  <2>3. opt.src[r] = None
    BY <2>1, <2>2, SyncAssumption
  <2> QED BY <1>1, <2>1, <2>3
<1>4. G \subseteq Gone(dst, dstEmpty)
  <2>1. G \in SUBSET {p \in dstEmpty : dst[p] = Dir}
    OBVIOUS
  <2> HIDE DEF G
  <2> QED BY <1>3, <2>1 DEF Gone
<1>5. dst[q] # None => q \in Gone(dst, dstEmpty)
  BY <1>1, <1>4
<1> QED BY <1>5, PrunedPath

LEMMA SanePrune ==
  ASSUME Control, NEW V, Sane(V), Prune
  PROVE  Sane(V)'
<1>1. /\ UNCHANGED <<opt, pass, src, backup, jobs, todo, pipe, stage, renameCheck, renameMap>>
      /\ UNCHANGED <<dstFiles, deleteCh, deleters, deleteErr, dstEmpty, moveEmpty>>
      /\ pc = "prune" /\ pc' = "move" /\ Mode' = Mode /\ opt' = opt /\ [Next]_vars
  BY DEF Prune, march, deletion, files, dirs, Mode, Next, Run
<1>2. \A m \in Pipes : InPlay(m)' = InPlay(m)
  BY <1>1 DEF InPlay
<1>3. ASSUME NEW q \in Paths
      PROVE  \/ dst'[q] = dst[q]
             \/ dst'[q] = None /\ opt.src[q] = None /\ opt.dst[q] = Dir
  <2>1. q \in dstEmpty => opt.src[q] = None /\ opt.dst[q] = Dir
    BY DEF Sane, Good, Extra
  <2>2. dst' = dst \/ dst' = Pruned(dst, dstEmpty)
    BY DEF Prune
  <2> QED BY <2>1, <2>2, PrunedPath
<1>4. Fine' => Fine
  BY <1>1, FineBack DEF Control
<1>5. Fine' /\ Mode # "off" => dst' = Pruned(dst, dstEmpty)
  <2>1. ProcessError("err") => errs' # {}
    BY Noted
  <2> QED BY <1>4, <2>1 DEF Prune, CurrentError, Fine
<1>6. \A q \in Paths : IsFile(opt.src[q]) \/ IsFile(opt.dst[q]) => dst'[q] = dst[q]
  BY <1>3, SyncAssumption DEF IsFile
<1>7. \A q \in Paths : Renamed(q) => Renamed(q)'
  <2> SUFFICES ASSUME NEW q \in Paths, Renamed(q) PROVE Renamed(q)'
    OBVIOUS
  <2>1. PICK r \in Paths : IsFile(opt.src[r]) /\ dst[r] = opt.dst[q] /\ ~OnWay(r)
    BY DEF Renamed
  <2>2. dst'[r] = dst[r] /\ ~OnWay(r)'
    BY <1>1, <1>2, <1>6, <2>1 DEF OnWay
  <2> QED BY <1>1, <2>1, <2>2 DEF Renamed, IsFile
<1>8. ASSUME NEW q \in Paths PROVE Good(V, q)'
  <2>1. Good(V, q) /\ ~Ahead(V, q) /\ ~Ahead(V, q)'
    BY <1>1 DEF Sane, Ahead
  <2>2. (OnWay(q)' <=> OnWay(q)) /\ (Awaits(q)' <=> Awaits(q))
    BY <1>1, <1>2 DEF OnWay, Awaits
  <2>3. OnWay(q) => IsFile(opt.src[q]) /\ dst'[q] = dst[q]
    BY <1>6, <2>1 DEF Good, Traffic
  <2>4. Traffic(q)'
    <3>1. ASSUME NEW n \in Pipes, NEW x \in InPlay(n), x.path = q PROVE Fit(n, x)'
      <4>1. OnWay(q)
        BY <3>1 DEF OnWay
      <4>2. Fit(n, x)
        BY <2>1, <3>1 DEF Good, Traffic
      <4> QED BY <1>1, <2>3, <3>1, <4>1, <4>2 DEF Fit, IsFile
    <3> QED BY <1>1, <1>2, <2>1, <2>2, <3>1 DEF Good, Traffic, IsFile
  <2>5. Extra(q)'
    <3>1. Awaits(q) => dst'[q] = dst[q]
      BY <1>6, <2>1 DEF Good, Extra
    <3> QED BY <1>1, <2>1, <2>2, <3>1 DEF Good, Extra, IsFile, Last
  <2>6. Place(V, q)'
    BY <1>1, <2>1, <2>2 DEF Good, Place
  <2>7. Kept(q)'
    <3>1. ~IsFile(opt.src[q]) => Wanted(opt, q) = opt.src[q]
      BY WantedIs
    <3> QED BY <1>1, <1>3, <1>6, <2>1, <2>2, <3>1, SyncAssumption DEF Good, Kept, IsFile
  <2>8. Backs(q)' /\ Copied(V, q)'
    BY <1>1, <1>4, <1>6, <1>7, <2>1, <2>2 DEF Good, Backs, Copied, IsFile
  <2>9. Cleared(V, q)'
    <3>1. Clashes' <=> Clashes
      BY <1>1 DEF Clashes, IsFile
    <3>2. Deleting' <=> Deleting
      BY <1>1 DEF Deleting
    <3>3. Fine' /\ Deleting /\ Mode # "off" /\ ~Clashes /\ opt.src[q] = None => dst'[q] = None
      BY <1>1, <1>4, <1>5, PrunesAll
    <3>4. dst[q] = None => dst'[q] = None
      BY <1>3
    <3> QED BY <1>1, <1>4, <2>1, <3>1, <3>2, <3>3, <3>4 DEF Good, Cleared
  <2> QED BY <2>4, <2>5, <2>6, <2>7, <2>8, <2>9 DEF Good
<1>9. Froms'
  BY <1>1, FromsUnmoved DEF Later
<1>10. Waits'
  <2>1. inCtx = "deadline" => inCtx' = "deadline"
    BY <1>1, Onward DEF Control
  <2>2. There => There'
    BY <1>1, <1>6 DEF There, IsFile
  <2>3. \A q \in Paths : Stays(q) => Stays(q)'
    BY <1>1, <1>6, <1>7 DEF Stays, IsFile
  <2> QED BY <1>1, <2>1, <2>2, <2>3 DEF Sane, Waits, Last
<1>11. Listing(V)' /\ Sides' /\ Reaches(V)'
  BY <1>1, <1>4, MarchStays DEF Sane
<1> QED BY <1>8, <1>9, <1>10, <1>11 DEF Sane

LEMMA SanePruneSource ==
  ASSUME Control, NEW V, Sane(V), PruneSource
  PROVE  Sane(V)'
<1>1. /\ UNCHANGED <<opt, pass, dst, backup, jobs, todo, pipe, stage, renameCheck, renameMap>>
      /\ UNCHANGED <<dstFiles, deleteCh, deleters, deleteErr, dstEmpty, moveEmpty>>
      /\ pc = "move" /\ pc' = "finish" /\ Mode' = Mode /\ opt' = opt /\ [Next]_vars
  BY DEF PruneSource, march, deletion, files, dirs, Mode, Next, Run
<1>2. \A m \in Pipes : InPlay(m)' = InPlay(m)
  BY <1>1 DEF InPlay
<1>3. ASSUME NEW q \in Paths
      PROVE  src'[q] = src[q] \/ (src'[q] = None /\ opt.src[q] = Dir /\ opt.move)
  <2>1. src[q] = Dir => opt.src[q] = Dir
    BY SyncAssumption DEF Sane, Good, Kept
  <2>2. q \in moveEmpty => opt.move
    BY DEF Sane, Froms
  <2>3. src' = src \/ src' = Pruned(src, moveEmpty)
    BY DEF PruneSource
  <2> QED BY <2>1, <2>2, <2>3, PrunedPath
<1>4. Fine' => Fine
  BY <1>1, FineBack DEF Control
<1>5. \A q \in Paths : IsFile(opt.src[q]) => src'[q] = src[q]
  BY <1>3, SyncAssumption DEF IsFile
<1>6. \A q \in Paths : Renamed(q)' <=> Renamed(q)
  BY <1>1, <1>2 DEF Renamed, OnWay, IsFile
<1>7. ASSUME NEW q \in Paths PROVE Good(V, q)'
  <2>1. Good(V, q) /\ ~Ahead(V, q) /\ ~Ahead(V, q)'
    BY <1>1 DEF Sane, Ahead
  <2>2. (OnWay(q)' <=> OnWay(q)) /\ (Awaits(q)' <=> Awaits(q))
    BY <1>1, <1>2 DEF OnWay, Awaits
  <2>3. Traffic(q)'
    BY <1>1, <1>2, <1>5, <2>1, <2>2 DEF Good, Traffic, Fit, IsFile
  <2>4. Extra(q)' /\ Place(V, q)' /\ Backs(q)'
    BY <1>1, <1>6, <2>1, <2>2 DEF Good, Extra, Place, Backs, IsFile, Last
  <2>5. Kept(q)'
    <3>1. ~IsFile(opt.src[q]) => ~Existing(opt, q)
      BY WantedIs
    <3> QED BY <1>1, <1>3, <1>5, <2>1, <2>2, <3>1, SyncAssumption DEF Good, Kept, IsFile
  <2>6. Copied(V, q)'
    BY <1>1, <1>4, <1>5, <2>1, <2>2 DEF Good, Copied, IsFile
  <2>7. Cleared(V, q)'
    <3>1. (Clashes' <=> Clashes) /\ (Deleting' <=> Deleting)
      BY <1>1 DEF Clashes, Deleting, IsFile
    <3> QED BY <1>1, <1>4, <2>1, <2>2, <3>1 DEF Good, Cleared
  <2> QED BY <2>3, <2>4, <2>5, <2>6, <2>7 DEF Good
<1>8. Froms'
  BY <1>1, FromsUnmoved DEF Later
<1>9. Waits'
  <2>1. inCtx = "deadline" => inCtx' = "deadline"
    BY <1>1, Onward DEF Control
  <2>2. There => There'
    BY <1>1 DEF There, IsFile
  <2>3. \A q \in Paths : Stays(q) => Stays(q)'
    BY <1>1, <1>6 DEF Stays, IsFile
  <2> QED BY <1>1, <2>1, <2>2, <2>3 DEF Sane, Waits, Last
<1>10. Listing(V)' /\ Sides' /\ Reaches(V)'
  BY <1>1, <1>4, MarchStays DEF Sane
<1> QED BY <1>7, <1>8, <1>9, <1>10 DEF Sane

-----------------------------------------------------------------------------
(* A pass begins, and ends. *)

\* Nothing is in a pipe, in the hands of a worker or on a list.
Clear ==
  /\ \A m \in Pipes : pipe[m] = {} /\ stage[m].hand = {}
  /\ renameCheck = {} /\ renameMap = {} /\ dstFiles = {} /\ deleteCh = {}
  /\ deleters.hand = {} /\ dstEmpty = {} /\ moveEmpty = {}
  /\ pc = "march" /\ jobs = {Root} /\ todo = {}

LEMMA IdleHands == \A o : \A m \in Pipes : Started(o)[m].hand = {}
<1> TAKE o
<1>1. \A n : Idle(n).hand = {}
  BY DEF Idle
<1> SUFFICES ASSUME NEW m \in Pipes PROVE Started(o)[m].hand = {}
  OBVIOUS
<1>2. \E n : Started(o)[m] = Idle(n)
  BY DEF Started, Pipes
<1> QED BY <1>1, <1>2

LEMMA ClearInit == Init => Clear
<1> SUFFICES ASSUME Init PROVE Clear
  OBVIOUS
<1>1. deleters.hand = {}
  BY DEF Init, Idle
<1>2. \A m \in Pipes : pipe[m] = {} /\ stage[m].hand = {}
  BY IdleHands DEF Init
<1> QED BY <1>1, <1>2 DEF Init, Clear

LEMMA ClearSecond == SecondPass => Clear'
<1> SUFFICES ASSUME SecondPass PROVE Clear'
  OBVIOUS
<1>1. deleters'.hand = {}
  BY DEF SecondPass, Idle
<1>2. \A m \in Pipes : pipe'[m] = {} /\ stage'[m].hand = {}
  BY IdleHands DEF SecondPass
<1> QED BY <1>1, <1>2 DEF SecondPass, Clear

\* The march has nothing behind it.
Fresh ==
  /\ Listing({}) /\ Sides /\ Reaches({}) /\ Froms
  /\ \A q \in Paths : Ahead({}, q) /\ ~OnWay(q) /\ ~Awaits(q) /\ Traffic(q) /\ Extra(q)

LEMMA ClearMarch == Clear => Fresh
<1> SUFFICES ASSUME Clear PROVE Fresh
  OBVIOUS
<1>1. Root.dir = Top /\ Root.inSrc /\ Root.inDst
  BY DEF Root
<1>2. \A q \in Paths : Ahead({}, q) /\ ~OnWay(q) /\ ~Awaits(q)
  BY DEF Clear, Ahead, OnWay, InPlay, Awaits
<1>3. Listing({}) /\ Sides
  BY <1>1 DEF Clear, Listing, Sides
<1>4. Reaches({})
  BY <1>1, <1>2 DEF Clear, Reaches, Reached
<1>5. Froms
  BY DEF Clear, Froms, InPlay, Pipes
<1>6. \A q \in Paths : Traffic(q) /\ Extra(q)
  BY <1>2 DEF Clear, Traffic, Extra, InPlay
<1> QED BY <1>2, <1>3, <1>4, <1>5, <1>6 DEF Fresh

LEMMA ClearMarchNext == Clear' => Fresh'
BY ClearMarch, PTL

LEMMA SaneInit == ASSUME Init PROVE Sane({})
<1>1. /\ opt \in Scenarios /\ src = opt.src /\ dst = opt.dst /\ pass = 1
      /\ deleters.hand = {} /\ deleteCh = {}
  BY ClearInit DEF Init, Clear
<1>2. Fresh
  BY ClearInit, ClearMarch
<1>3. ASSUME NEW q \in Paths PROVE Good({}, q)
  <2>1. Ahead({}, q) /\ ~OnWay(q) /\ ~Awaits(q) /\ Traffic(q) /\ Extra(q)
    BY <1>2 DEF Fresh
  <2>2. Place({}, q) /\ Kept(q) /\ Backs(q) /\ Copied({}, q) /\ Cleared({}, q)
    BY <1>1, <2>1 DEF Place, Kept, Backs, Copied, Cleared
  <2> QED BY <2>1, <2>2 DEF Good
<1>4. Waits
  BY <1>1 DEF Waits, Stays
<1> QED BY <1>2, <1>3, <1>4 DEF Sane, Fresh

\* The pass that only deleted has left the files of the source to the other.
LEMMA SaneSecondPass ==
  ASSUME Control, NEW V, Sane(V), Finish, SecondPass
  PROVE  Sane({})'
<1>1. /\ UNCHANGED <<opt, src, dst, backup, errs, ctx, inCtx>> /\ opt' = opt /\ pass' = 2
      /\ pc = "finish" /\ pass = 1
  BY DEF SecondPass, Finish, sides, status, run, Control, Passes
<1>2. Fresh'
  BY ClearSecond, ClearMarchNext
<1>3. opt.mode = "before"
  BY <1>1 DEF Finish, SecondPass
<1>4. Mode = "only" /\ Mode' = "off" /\ ~opt.move /\ ~opt.rename
  BY <1>1, <1>3, SyncAssumption DEF Mode, Control, Base, Types, ScenarioType
<1>5. Fine' => Fine /\ Deleting
  BY <1>1 DEF Fine, Deleting, Control, Results, Deletions, Last
<1>6. ASSUME NEW q \in Paths PROVE Good({}, q)'
  <2>1. Ahead({}, q)' /\ ~OnWay(q)' /\ ~Awaits(q)' /\ Traffic(q)' /\ Extra(q)'
    BY <1>2 DEF Fresh
  <2>2. Good(V, q) /\ ~Ahead(V, q)
    BY <1>1 DEF Sane, Ahead
  <2>3. /\ src[q] = opt.src[q] /\ (opt.src[q] # None => dst[q] = opt.dst[q])
        /\ opt.backup /\ IsFile(opt.dst[q]) => dst[q] = opt.dst[q] \/ backup[q] = opt.dst[q]
    BY <1>4, <2>2 DEF Good, Kept, Backs, Renamed
  <2>4. Place({}, q)' /\ Kept(q)' /\ Backs(q)' /\ Copied({}, q)'
    BY <1>1, <1>4, <2>1, <2>2, <2>3 DEF Good, Kept, Place, Backs, Copied, IsFile
  <2>5. Cleared({}, q)'
    <3>1. Clashes' <=> Clashes
      BY <1>1 DEF Clashes, IsFile
    <3>2. Fine' => ~Awaits(q)
      BY <1>1, <1>4, <1>5, NoneAwaited DEF Last
    <3> QED BY <1>1, <1>4, <1>5, <2>1, <2>2, <3>1, <3>2 DEF Good, Cleared
  <2> QED BY <2>1, <2>4, <2>5 DEF Good
<1>7. Waits'
  BY <1>4 DEF Waits
<1> QED BY <1>2, <1>6, <1>7 DEF Sane, Fresh

LEMMA SaneFinish ==
  ASSUME Control, NEW V, Sane(V), Finish
  PROVE  \E W \in {V, {}} : Sane(W)'
<1>1. CASE SecondPass
  BY <1>1, SaneSecondPass
<1>2. CASE ~SecondPass
  <2>1. /\ UNCHANGED <<opt, pass, sides, march, pipe, stage, deletion, files, dirs, status>>
        /\ pc = "finish" /\ pc' = "done" /\ [Next]_vars
    BY <1>2 DEF Finish, Next, Run
  <2>2. Unmoved
    BY <2>1 DEF Unmoved, sides, march, deletion, files, dirs
  <2>3. Steady
    BY <2>1 DEF Steady, Fine, Deleting, march, deletion, status, Last
  <2> QED BY <2>1, <2>2, <2>3, SaneUnmoved
<1> QED BY <1>1, <1>2

-----------------------------------------------------------------------------
(* Every step. *)

LEMMA SaneMarch ==
  ASSUME Control, NEW V, Sane(V), March
  PROVE  \E W : Sane(W)' /\ (W = V \/ \E j \in jobs : W = V \cup {j.dir})
<1>1. CASE \E j \in jobs : List(j)
  BY <1>1, SaneList
<1>2. ASSUME NEW p \in todo,
             SrcOnlyFile(p) \/ SrcOnlyDir(p) \/ DstOnlyFile(p) \/ DstOnlyDir(p)
             \/ MatchFile(p) \/ MatchDir(p)
      PROVE  Sane(V)'
  BY <1>2, SaneSrcOnlyFile, SaneSrcOnlyDir, SaneDstOnlyFile, SaneDstOnlyDir, SaneMatchFile,
     SaneMatchDir
<1> QED BY <1>1, <1>2 DEF March

LEMMA SaneRun ==
  ASSUME Control, NEW V, Sane(V), Run
  PROVE  \E W \in {V, {}} : Sane(W)'
<1>1. CASE Finish
  BY <1>1, SaneFinish
<1>2. CASE MarchEnds \/ (\E p \in renameCheck : PutRename(p)) \/ Feed
  BY <1>2, SaneMarchEnds, SanePutRename, SaneFeed
<1>3. CASE StopCheckers \/ StopRenamers \/ StopTransfers \/ StopDeleters \/ DeleteAfter
           \/ SetDirTimes
  BY <1>3, SaneStops
<1>4. CASE Prune \/ PruneSource
  BY <1>4, SanePrune, SanePruneSource
<1> QED BY <1>1, <1>2, <1>3, <1>4 DEF Run

LEMMA SaneDeleter ==
  ASSUME Control, NEW V, Sane(V), Deleter
  PROVE  Sane(V)'
BY SaneDelete, SaneDeleteFile, SaneStops DEF Deleter

\* Some directories have been listed, of which all this holds.
Inv == Control /\ \E V \in SUBSET (Paths \cup {Top}) : Sane(V)

LEMMA InvInit == Init => Inv
BY ControlInit, SaneInit DEF Inv

LEMMA InvStep == Inv /\ [Next]_vars => Inv'
<1> SUFFICES ASSUME Control, NEW V \in SUBSET (Paths \cup {Top}), Sane(V), [Next]_vars
             PROVE  Inv'
  BY DEF Inv
<1>1. Control'
  BY ControlStep
<1>2. \E W : Sane(W)' /\ (W \in {V, {}} \/ \E j \in jobs : W = V \cup {j.dir})
  <2>1. CASE March
    BY <2>1, SaneMarch
  <2>2. CASE WorkerStep
    BY <2>2, SaneWorkers
  <2>3. CASE Deleter
    BY <2>3, SaneDeleter
  <2>4. CASE Run
    BY <2>4, SaneRun
  <2>5. CASE Deadline \/ Cancel \/ UNCHANGED vars
    BY <2>5, SaneContexts
  <2> QED BY <2>1, <2>2, <2>3, <2>4, <2>5 DEF Next, WorkerStep
<1>3. \A j \in jobs : j.dir \in Paths \cup {Top}
  BY DEF Control, Base, Types
<1>4. \E W \in SUBSET (Paths \cup {Top}) : Sane(W)'
  BY <1>2, <1>3
<1> QED BY <1>1, <1>4 DEF Inv

LEMMA Invariance == Spec => []Inv
BY InvInit, InvStep, PTL DEF Spec

-----------------------------------------------------------------------------
(* The properties. *)

\* A file of the source is on its way, has arrived, or is where it was: what a
\* transfer, a rename, a deletion or the pruning of directories does to dst
\* never comes before the source may go (sync.go:438-458, 487-512).
THEOREM NothingLostHolds == Spec => []NothingLost
<1>1. Inv => NothingLost
  <2> SUFFICES ASSUME Inv, NEW p \in Paths, IsFile(opt.src[p])
               PROVE  src[p] = opt.src[p] \/ (dst[p] = Wanted(opt, p) /\ ~Existing(opt, p))
    BY DEF NothingLost
  <2>1. PICK V \in SUBSET (Paths \cup {Top}) : Sane(V)
    BY DEF Inv
  <2>2. Kept(p)
    BY <2>1 DEF Sane, Good
  <2> QED BY <2>2 DEF Kept
<1> QED BY <1>1, Invariance, PTL

\* What is the same on both sides is neither deleted nor renamed away nor pruned,
\* and no transfer replaces it (sync.go:614-697, 883-914).
THEOREM SameKeptHolds == Spec => []SameKept
<1>1. Inv => SameKept
  <2> SUFFICES ASSUME Inv, NEW p \in Paths, Wanted(opt, p) = opt.dst[p]
               PROVE  dst[p] = opt.dst[p]
    BY DEF SameKept
  <2>1. PICK V \in SUBSET (Paths \cup {Top}) : Sane(V)
    BY DEF Inv
  <2>2. Kept(p)
    BY <2>1 DEF Sane, Good
  <2> QED BY <2>2 DEF Kept
<1> QED BY <1>1, Invariance, PTL

\* With --backup-dir a file of dst that has to make room is in the backup before
\* another takes its place (sync.go:416-430, operations.go:550-628).
THEOREM BackedHolds == Spec => []Backed
<1>1. Inv => Backed
  <2> SUFFICES ASSUME Inv, opt.backup, NEW p \in Paths, IsFile(opt.dst[p])
               PROVE  backup[p] = opt.dst[p] \/ \E q \in Paths : dst[q] = opt.dst[p]
    BY DEF Backed
  <2>1. PICK V \in SUBSET (Paths \cup {Top}) : Sane(V)
    BY DEF Inv
  <2>2. Backs(p)
    BY <2>1 DEF Sane, Good
  <2> QED BY <2>2 DEF Backs, Renamed
<1> QED BY <1>1, Invariance, PTL

\* The deletions after a sync begin when all its files have arrived: a file that
\* has not arrived has left an error, or is still on its way (sync.go:977-984).
THEOREM KeptUntilCompleteHolds == Spec => []KeptUntilComplete
<1>1. Inv => KeptUntilComplete
  <2> SUFFICES ASSUME Inv, Mode = "after", ~opt.ignoreErrors, inCtx # "deadline", ~There,
                      NEW p \in Paths, opt.src[p] = None, IsFile(opt.dst[p])
               PROVE  \E q \in IF opt.rename THEN Paths ELSE {p} : dst[q] = opt.dst[p]
    BY DEF KeptUntilComplete, There
  <2>1. PICK V \in SUBSET (Paths \cup {Top}) : Sane(V)
    BY DEF Inv
  <2>2. Stays(p)
    BY <2>1 DEF Sane, Waits
  <2> QED BY <2>2 DEF Stays, Renamed
<1> QED BY <1>1, Invariance, PTL

\* A sync that returns nil has neither lost an error nor left out a pair: the
\* march has been everywhere, the pipes were drained, and the deletions and the
\* pruning of directories have gone through (sync.go:923-1026).
THEOREM SyncedHolds == Spec => []Synced
<1>1. Inv => Synced
  <2> SUFFICES ASSUME Inv, result = "nil", ~Called
               PROVE  /\ \A p \in Paths : IsFile(opt.src[p]) => dst[p] = Wanted(opt, p)
                      /\ opt.mode # "off" => \A p \in Paths : opt.src[p] = None => dst[p] = None
                      /\ opt.move => \A p \in Paths : IsFile(src[p]) => Existing(opt, p)
    BY DEF Synced
  <2>1. PICK V \in SUBSET (Paths \cup {Top}) : Sane(V)
    BY DEF Inv
  <2>2. Control /\ Fine /\ pc = "done" /\ Mode # "only"
    BY NilIsFine DEF Inv
  <2>3. \A p \in Paths : IsFile(opt.src[p]) =>
          dst[p] = Wanted(opt, p) /\ (opt.move /\ ~Existing(opt, p) => src[p] = None)
    BY <2>1, <2>2, AllArrived DEF Later
  <2>4. ~Clashes
    <3> SUFFICES ASSUME NEW p \in Paths, IsFile(opt.src[p]), opt.dst[p] = Dir PROVE FALSE
      BY DEF Clashes
    <3>1. dst[p] = Wanted(opt, p) /\ dst[p] = Dir
      BY <2>1, <2>3 DEF Sane, Good, Kept
    <3>2. IsFile(Wanted(opt, p))
      BY WantedIs
    <3> QED BY <3>1, <3>2, SyncAssumption DEF IsFile
  <2>5. ASSUME opt.mode # "off", NEW p \in Paths, opt.src[p] = None PROVE dst[p] = None
    <3>1. Cleared(V, p) /\ ~Ahead(V, p)
      BY <2>1, <2>2 DEF Sane, Good, Ahead
    <3>2. CASE Mode = "off"
      <4>1. pass = 2
        BY <2>2, <2>5, <3>2 DEF Mode, Control, Passes
      <4> QED BY <2>2, <2>4, <2>5, <3>1, <4>1 DEF Cleared
    <3>3. CASE Mode # "off"
      <4>1. ~Awaits(p) /\ Deleting
        BY <2>2, <3>3, NoneAwaited DEF Last, Deleting, Control, Deletions
      <4> QED BY <2>2, <2>4, <2>5, <3>1, <3>3, <4>1 DEF Cleared
    <3> QED BY <3>2, <3>3
  <2>6. ASSUME opt.move, NEW p \in Paths, IsFile(src[p]), ~Existing(opt, p) PROVE FALSE
    <3>1. src[p] # None
      BY <2>6, SyncAssumption DEF IsFile
    <3>2. src[p] = opt.src[p]
      BY <2>1, <3>1 DEF Sane, Good, Kept
    <3> QED BY <2>3, <2>6, <3>1, <3>2
  <2> QED BY <2>3, <2>5, <2>6
<1> QED BY <1>1, Invariance, PTL

-----------------------------------------------------------------------------
(* The times of directories, while nothing is deleted and nothing goes wrong. *)

\* A directory whose time may be set at the end, and one that then is.
Settable(p) == p \in delayed /\ (opt.copyEmpty \/ p \notin srcEmpty)
Stirred(p) ==
  Settable(p) /\ (p \in modified \/ \E q \in Under(p) : Settable(q) /\ q \in modified)

\* Where run is when the times have been set.
Late == {"prune", "move", "finish", "done"}

\* A directory of the source that the march has reported has its time, or gets it at
\* the end.
DirTimed(V, p) ==
  /\ p \in delayed => ~Ahead(V, p)
  /\ ~Ahead(V, p) =>
       IF TimesAfter
       THEN /\ p \in delayed
            /\ dst[p] = None => p \in modified
            /\ dst[p] = Dir => p \in times \/ (pc \notin Late /\ Stirred(p))
       ELSE p \in times

\* A file is on its way to be written.
ToWrite(p) ==
  \/ \E x \in InPlay("upload") : x.path = p /\ x.dst # "same"
  \/ \E x \in InPlay("check") : x.path = p /\ x.dst # "same" /\ x.ready

\* No directory above a file is empty, and that of a file to be written is modified.
FileTimed(V, p) ==
  /\ ~Ahead(V, p) => \A d \in Above[p] : d \notin srcEmpty
  /\ TimesAfter /\ ToWrite(p) => Parent[p] \in modified

\* Without deletions and renames, and if nothing has gone wrong.
Simple == opt.mode = "off" /\ opt.dirTimes /\ Fine

Timed(V) ==
  Simple => \A p \in Paths : /\ opt.src[p] = Dir => DirTimed(V, p)
                             /\ IsFile(opt.src[p]) => FileTimed(V, p)

\* What Simple means for the march.
LEMMA SimpleIs ==
  ASSUME Control, Simple
  PROVE  /\ Mode = "off" /\ ~opt.rename /\ ~Renaming /\ pass = 1
         /\ ctx = "live" /\ inCtx = "live" /\ ~marchErr /\ errs = {}
         /\ opt.mode = "off" /\ opt.dirTimes /\ opt \in Scenarios /\ opt \in ScenarioType
BY SyncAssumption DEF Control, Simple, Fine, Passes, Contexts, Mode, Renaming, Base, Types

\* The directories above a path: the one it is in, and those that these are in.
LEMMA AboveIs ==
  ASSUME NEW p \in Paths
  PROVE  /\ Parent[p] \in Above[p] /\ Above[p] \subseteq Paths \cup {Top}
         /\ \A q \in Above[p] \ {Top} : q \in Paths /\ Parent[q] \in Above[p]
<1>1. Above[p] = {d \in Paths \cup {Top} :
                    \A S \in SUBSET (Paths \cup {Top}) :
                      Parent[p] \in S /\ (\A q \in S \ {Top} : Parent[q] \in S) => d \in S}
  BY DEF Above
<1>2. \A q \in Paths : Parent[q] \in Paths \cup {Top}
  BY SyncAssumption
<1> QED BY <1>1, <1>2

\* The directories above what the march has been to have been reported.
LEMMA AboveReported ==
  ASSUME Control, NEW V, Sane(V), Simple, Timed(V), NEW p \in Paths, opt.src[p] # None,
         Parent[p] \in V, NEW d \in Above[p] \ {Top}
  PROVE  d \in Paths /\ opt.src[d] = Dir /\ ~Ahead(V, d) /\ DirTimed(V, d) /\ d \notin todo
<1>1. d \in Paths /\ opt.src[d] = Dir
  BY AboveIs, AboveDirs, SimpleIs
<1>2. d \in V /\ d \notin todo /\ Parent[d] \in V
  BY <1>1, AboveListed DEF Sane, Listing
<1> QED BY <1>1, <1>2 DEF Ahead, Timed

\* A directory that something is written in gets its time at the end.
LEMMA WriteStirs ==
  ASSUME Control, NEW V, Sane(V), Simple, Timed(V), NEW p \in Paths, opt.src[p] # None,
         Parent[p] \in V, TimesAfter,
         UNCHANGED opt, delayed \subseteq delayed', modified \subseteq modified',
         \A d \in Above[p] \ {Top} : opt.copyEmpty \/ d \notin srcEmpty',
         Parent[p] \in modified' \/ (p \in modified' /\ Settable(p)')
  PROVE  /\ \A d \in Made(p) : Stirred(d)'
         /\ \A d \in Paths : (\E q \in Made(p) \cup {p} : d = Parent[q]) => Stirred(d)'
<1>1. ASSUME NEW d \in Above[p] \ {Top}
      PROVE  d \in Paths /\ Settable(d)' /\ (dst[d] = None => d \in modified')
  BY <1>1, AboveReported DEF Settable, DirTimed
<1>2. ASSUME NEW d \in Made(p) PROVE d \in Above[p] \ {Top} /\ d \in modified' /\ Stirred(d)'
  BY <1>1, <1>2 DEF Made, Stirred
<1>3. ASSUME NEW q \in Made(p), Parent[q] \in Paths PROVE Stirred(Parent[q])'
  <2>1. q \in Above[p] \ {Top} /\ q \in Paths /\ q \in modified' /\ Settable(q)'
    BY <1>1, <1>2
  <2>2. Parent[q] \in Above[p] \ {Top}
    BY <1>3, <2>1, AboveIs, SyncAssumption
  <2>3. Settable(Parent[q])' /\ q \in Under(Parent[q])
    BY <1>1, <2>1, <2>2 DEF Under
  <2> QED BY <2>1, <2>3 DEF Stirred, Under
<1>4. ASSUME Parent[p] \in Paths PROVE Stirred(Parent[p])'
  <2>1. Parent[p] \in Above[p] \ {Top}
    BY <1>4, AboveIs, SyncAssumption
  <2>2. Settable(Parent[p])' /\ p \in Under(Parent[p])
    BY <1>1, <2>1 DEF Under
  <2> QED BY <2>2 DEF Stirred, Under
<1> QED BY <1>2, <1>3, <1>4

\* A directory that a step leaves as it is, or makes, or writes in.
LEMMA DirStays ==
  ASSUME NEW V, NEW W, NEW p \in Paths, opt.src[p] = Dir, DirTimed(V, p), UNCHANGED opt,
         Ahead(W, p)' <=> Ahead(V, p), p \in delayed' <=> p \in delayed,
         delayed \subseteq delayed', modified \subseteq modified',
         \A q \in delayed : q \in srcEmpty' => q \in srcEmpty,
         pc \notin Late => pc' \notin Late,
         dst'[p] = dst[p] \/ (dst[p] = None /\ (TimesAfter => pc \notin Late /\ Stirred(p)')),
         p \in times => p \in times' \/ (TimesAfter /\ pc \notin Late /\ Stirred(p)')
  PROVE  DirTimed(W, p)'
<1>1. Stirred(p) => Stirred(p)'
  BY DEF Stirred, Settable, Under
<1>2. TimesAfter' = TimesAfter
  BY DEF TimesAfter
<1> QED BY <1>1, <1>2 DEF DirTimed

\* A file whose way is as it was.
LEMMA FileStays ==
  ASSUME NEW V, NEW W, NEW p \in Paths, FileTimed(V, p), UNCHANGED opt,
         ~Ahead(W, p)' => ~Ahead(V, p) /\ \A d \in Above[p] : d \in srcEmpty' => d \in srcEmpty,
         modified \subseteq modified',
         ToWrite(p)' => ToWrite(p) \/ (TimesAfter => Parent[p] \in modified')
  PROVE  FileTimed(W, p)'
<1>1. TimesAfter' = TimesAfter
  BY DEF TimesAfter
<1> QED BY <1>1 DEF FileTimed

\* A step that neither writes nor notes anything of a directory.
LEMMA TimedUnmoved ==
  ASSUME NEW V, NEW W, Timed(V), Simple, UNCHANGED <<opt, dirs, times, dst>>,
         \A p \in Paths : opt.src[p] # None => (Ahead(W, p)' <=> Ahead(V, p)),
         pc \notin Late => pc' \notin Late,
         \A p \in Paths : ToWrite(p)' => ToWrite(p)
  PROVE  Timed(W)'
<1>1. opt' = opt /\ UNCHANGED <<times, dst, delayed, modified, srcEmpty>>
  BY DEF dirs
<1>2. ASSUME NEW p \in Paths, opt.src[p] = Dir PROVE DirTimed(W, p)'
  <2>1. DirTimed(V, p) /\ (Ahead(W, p)' <=> Ahead(V, p))
    BY <1>2, SyncAssumption DEF Timed
  <2> QED BY <1>1, <1>2, <2>1, DirStays
<1>3. ASSUME NEW p \in Paths, IsFile(opt.src[p]) PROVE FileTimed(W, p)'
  <2>1. FileTimed(V, p) /\ (Ahead(W, p)' <=> Ahead(V, p))
    BY <1>3, SyncAssumption DEF Timed, IsFile
  <2> QED BY <1>1, <2>1, FileStays
<1> QED BY <1>1, <1>2, <1>3 DEF Timed, IsFile

-----------------------------------------------------------------------------
(* The march and the times: what it reports, and the directories it makes. *)

\* Nothing goes wrong but what has noted so.
LEMMA SimpleBack ==
  ASSUME Control, [Next]_vars, Simple', ~SecondPass
  PROVE  Simple /\ UNCHANGED <<opt, pass>>
<1>1. UNCHANGED <<opt, pass>>
  BY DEF Next, March, List, SrcOnlyFile, SrcOnlyDir, DstOnlyFile, DstOnlyDir, MatchFile,
         MatchDir, Stage, Get, GetFails, PassOn, Checker, CheckDiffers, CheckEqual, Renamer,
         PopRenameMap, Rename, Transferrer, Transfer, DeleteSource, Deleter, Delete,
         DeleteFile, Deleted, Run, MarchEnds, PutRename, StopCheckers, StopRenamers,
         StopTransfers, StopDeleters, DeleteAfter, Feed, SetDirTimes, Prune, PruneSource,
         Finish, Deadline, Cancel, Goes, run, vars
<1> QED BY <1>1, FineBack DEF Simple, Control

\* The march lists a directory, and has what is in it still to report.
LEMMA TimedList ==
  ASSUME Control, NEW V, Sane(V), Simple, Timed(V), NEW j \in jobs, List(j), Simple',
         NEW W \in {V, V \cup {j.dir}}, Sane(W)'
  PROVE  Timed(W)'
<1>1. /\ UNCHANGED <<opt, dirs, times, dst, pc, pipe, stage>> /\ pc = "march"
      /\ todo' = todo \cup Listed(j.dir, j.inSrc, j.inDst)
  BY DEF List, run, sides, Simple, Fine
<1>2. j.dir \notin V /\ \A p \in Listed(j.dir, j.inSrc, j.inDst) : Parent[p] = j.dir
  BY DEF Sane, Listing, Listed, Under
<1>3. ASSUME NEW p \in Paths, opt.src[p] # None PROVE Ahead(W, p)' <=> Ahead(V, p)
  <2>1. CASE Parent[p] = j.dir
    <3>1. Ahead(V, p)
      BY <1>1, <1>2, <2>1 DEF Ahead
    <3>2. p \in Listed(j.dir, j.inSrc, j.inDst)
      BY <1>1, <1>3, <2>1, <3>1, ListedNothing
    <3> QED BY <1>1, <3>1, <3>2 DEF Ahead
  <2>2. CASE Parent[p] # j.dir
    BY <1>1, <1>2, <2>2 DEF Ahead
  <2> QED BY <2>1, <2>2
<1>4. \A p \in Paths : ToWrite(p)' => ToWrite(p)
  BY <1>1 DEF ToWrite, InPlay
<1> QED BY <1>1, <1>3, <1>4, TimedUnmoved

\* What has been reported is not ahead any more, and everything else is where it was.
LEMMA ReportedAhead ==
  ASSUME Control, NEW V, Sane(V), NEW p \in todo, Reports(p), UNCHANGED pc
  PROVE  /\ p \in Paths /\ Ahead(V, p) /\ ~Ahead(V, p)' /\ Parent[p] \in V /\ src[p] = opt.src[p]
         /\ \A q \in Paths : q # p => (Ahead(V, q)' <=> Ahead(V, q))
         /\ \A q \in Paths : Ahead(V, q)' => Ahead(V, q)
<1>1. pc = "march" /\ p \in Paths /\ Parent[p] \in V /\ src[p] = opt.src[p] /\ todo' = todo \ {p}
  BY TodoPath DEF Reports
<1> QED BY <1>1 DEF Ahead

\* Files below what is reported are ahead.
LEMMA BelowAhead ==
  ASSUME Control, NEW V, Sane(V), Simple, Timed(V), NEW p \in todo, NEW q \in Paths,
         opt.src[q] # None, pc = "march", ~Ahead(V, q)
  PROVE  p \notin Above[q] \/ p = Top
BY AboveReported DEF Ahead

LEMMA TimedSrcOnlyFile ==
  ASSUME Control, NEW V, Sane(V), Simple, Timed(V), NEW p \in todo, SrcOnlyFile(p), Simple'
  PROVE  Timed(V)'
<1>1. /\ Reports(p) /\ IsFile(src[p]) /\ UNCHANGED <<opt, pc, times, dst, stage, delayed>>
      /\ srcEmpty' = srcEmpty \ Above[p] /\ Modify(Parent[p])
      /\ PutTo("upload", Pair(p, "none"))
  BY SimpleIs DEF SrcOnlyFile, NotEmpty, run, sides
<1>2. /\ modified \subseteq modified' /\ (TimesAfter => Parent[p] \in modified')
      /\ \A x \in srcEmpty' : x \in srcEmpty
  BY <1>1 DEF Modify
<1>3. /\ p \in Paths /\ ~Ahead(V, p)' /\ opt.src[p] # Dir
      /\ \A q \in Paths : q # p => (Ahead(V, q)' <=> Ahead(V, q))
  BY <1>1, ReportedAhead, SyncAssumption DEF IsFile
<1>4. \A q \in Paths : ToWrite(q)' => ToWrite(q) \/ q = p
  <2>1. \A m \in Pipes : \A x \in InPlay(m)' : x \in InPlay(m) \/ x = Pair(p, "none")
    BY <1>1 DEF PutTo, InPlay, Control, Base, Types
  <2>2. Pair(p, "none").path = p /\ "upload" \in Pipes /\ "check" \in Pipes
    BY DEF Pair, Pipes
  <2> QED BY <2>1, <2>2 DEF ToWrite
<1>5. ASSUME NEW q \in Paths, opt.src[q] = Dir PROVE DirTimed(V, q)'
  <2>1. DirTimed(V, q) /\ (Ahead(V, q)' <=> Ahead(V, q))
    BY <1>3, <1>5 DEF Timed
  <2> QED BY <1>1, <1>2, <1>5, <2>1, DirStays
<1>6. ASSUME NEW q \in Paths, IsFile(opt.src[q]) PROVE FileTimed(V, q)'
  <2>1. CASE q = p
    <3>1. TimesAfter' = TimesAfter
      BY <1>1 DEF TimesAfter
    <3> QED BY <1>1, <1>2, <2>1, <3>1 DEF FileTimed
  <2>2. CASE q # p
    <3>1. FileTimed(V, q) /\ (Ahead(V, q)' <=> Ahead(V, q))
      BY <1>3, <1>6, <2>2 DEF Timed
    <3> QED BY <1>1, <1>2, <1>4, <2>2, <3>1, FileStays
  <2> QED BY <2>1, <2>2
<1> QED BY <1>1, <1>5, <1>6 DEF Timed, IsFile

LEMMA TimedMatchFile ==
  ASSUME Control, NEW V, Sane(V), Simple, Timed(V), NEW p \in todo, MatchFile(p), Simple'
  PROVE  Timed(V)'
<1>1. /\ Reports(p) /\ IsFile(src[p])
      /\ UNCHANGED <<opt, pc, times, dst, stage, delayed, modified>>
      /\ srcEmpty' = srcEmpty \ Above[p] /\ PutTo("check", Pair(p, "old"))
  <2>1. ~ProcessError("err")
    BY Noted DEF Simple, Fine
  <2> QED BY <2>1, SimpleIs DEF MatchFile, NotEmpty, run, sides
<1>2. \A x \in srcEmpty' : x \in srcEmpty
  BY <1>1
<1>3. /\ p \in Paths /\ ~Ahead(V, p)' /\ opt.src[p] # Dir
      /\ \A q \in Paths : q # p => (Ahead(V, q)' <=> Ahead(V, q))
  BY <1>1, ReportedAhead, SyncAssumption DEF IsFile
<1>4. \A q \in Paths : ToWrite(q)' => ToWrite(q)
  <2>1. /\ \A x \in InPlay("upload")' : x \in InPlay("upload")
        /\ \A x \in InPlay("check")' : x \in InPlay("check") \/ x = Pair(p, "old")
    BY <1>1 DEF PutTo, InPlay, Control, Base, Types, Pipes
  <2>2. Pair(p, "old").ready = FALSE
    BY DEF Pair
  <2> QED BY <2>1, <2>2 DEF ToWrite
<1>5. ASSUME NEW q \in Paths, opt.src[q] = Dir PROVE DirTimed(V, q)'
  <2>1. DirTimed(V, q) /\ (Ahead(V, q)' <=> Ahead(V, q))
    BY <1>3, <1>5 DEF Timed
  <2> QED BY <1>1, <1>2, <1>5, <2>1, DirStays
<1>6. ASSUME NEW q \in Paths, IsFile(opt.src[q]) PROVE FileTimed(V, q)'
  <2>1. CASE q = p
    <3>1. FileTimed(V, p) /\ TimesAfter' = TimesAfter
      BY <1>1, <1>6, <2>1 DEF TimesAfter, Timed
    <3> QED BY <1>1, <1>4, <2>1, <3>1 DEF FileTimed
  <2>2. CASE q # p
    <3>1. FileTimed(V, q) /\ (Ahead(V, q)' <=> Ahead(V, q))
      BY <1>3, <1>6, <2>2 DEF Timed
    <3> QED BY <1>1, <1>2, <1>4, <2>2, <3>1, FileStays
  <2> QED BY <2>1, <2>2
<1> QED BY <1>1, <1>5, <1>6 DEF Timed, IsFile

LEMMA TimedDstOnly ==
  ASSUME Control, NEW V, Sane(V), Simple, Timed(V), NEW p \in todo,
         DstOnlyFile(p) \/ DstOnlyDir(p), Simple'
  PROVE  Timed(V)'
<1>1. /\ Reports(p) /\ src[p] = None /\ UNCHANGED <<opt, pc, times, dst, stage, pipe, dirs>>
  BY SimpleIs DEF DstOnlyFile, DstOnlyDir, run, sides, dirs
<1>2. \A q \in Paths : opt.src[q] # None => (Ahead(V, q)' <=> Ahead(V, q))
  BY <1>1, ReportedAhead
<1>3. \A q \in Paths : ToWrite(q)' => ToWrite(q)
  BY <1>1 DEF ToWrite, InPlay
<1> QED BY <1>1, <1>2, <1>3, TimedUnmoved

\* Directories after a write at p.
LEMMA WriteKeeps ==
  ASSUME Control, NEW V, Sane(V), Simple, Timed(V), NEW p \in Paths, opt.src[p] # None,
         Parent[p] \in V, UNCHANGED opt, delayed \subseteq delayed', modified \subseteq modified',
         TimesAfter => /\ \A d \in Above[p] \ {Top} : opt.copyEmpty \/ d \notin srcEmpty'
                       /\ Parent[p] \in modified' \/ (p \in modified' /\ Settable(p)'),
         pc \notin Late, pc' \notin Late, Touched(p) \subseteq times',
         NEW q \in Paths, opt.src[q] = Dir, Ahead(V, q)' <=> Ahead(V, q),
         q \in delayed' <=> q \in delayed,
         \A r \in delayed : r \in srcEmpty' => r \in srcEmpty,
         dst'[q] = dst[q] \/ q \in Made(p)
  PROVE  DirTimed(V, q)'
<1>1. ASSUME TimesAfter
      PROVE  /\ \A d \in Made(p) : Stirred(d)'
             /\ \A d \in Paths : (\E r \in Made(p) \cup {p} : d = Parent[r]) => Stirred(d)'
  BY <1>1, WriteStirs
<1>2. dst'[q] = dst[q] \/ (dst[q] = None /\ (TimesAfter => Stirred(q)'))
  BY <1>1 DEF Made
<1>3. q \in times => q \in times' \/ (TimesAfter /\ Stirred(q)')
  <2>1. CASE ~opt.touches
    BY <2>1 DEF Touched
  <2>2. CASE opt.touches
    <3>1. TimesAfter
      BY <2>2 DEF TimesAfter, Simple
    <3>2. q \in times => q \in Touched(p) \/ \E r \in Made(p) \cup {p} : q = Parent[r]
      BY <2>2 DEF Touched
    <3> QED BY <1>1, <3>1, <3>2
  <2> QED BY <2>1, <2>2
<1>4. DirTimed(V, q)
  BY DEF Timed
<1> QED BY <1>2, <1>3, <1>4, DirStays

\* A directory is reported: what is above files stays as full as it was.
LEMMA DirReported ==
  ASSUME Control, NEW V, Sane(V), Simple, Timed(V), NEW p \in todo, Reports(p),
         UNCHANGED <<opt, pc, pipe, stage>>, \A d \in srcEmpty' : d \in srcEmpty \/ d = p,
         modified \subseteq modified', NEW q \in Paths, IsFile(opt.src[q]), opt.src[p] = Dir
  PROVE  FileTimed(V, q)'
<1>1. /\ p \in Paths /\ p # Top /\ q # p /\ pc = "march" /\ opt.src[q] # None
      /\ (Ahead(V, q)' <=> Ahead(V, q))
  BY ReportedAhead, SyncAssumption DEF IsFile, Reports
<1>2. ~Ahead(V, q) => \A d \in Above[q] : d \in srcEmpty' => d \in srcEmpty
  BY <1>1, BelowAhead
<1>3. ToWrite(q)' => ToWrite(q)
  BY DEF ToWrite, InPlay
<1>4. FileTimed(V, q)
  BY DEF Timed
<1> QED BY <1>1, <1>2, <1>3, <1>4, FileStays

LEMMA TimedSrcOnlyDir ==
  ASSUME Control, NEW V, Sane(V), Simple, Timed(V), NEW p \in todo, SrcOnlyDir(p), Simple'
  PROVE  Timed(V)'
<1>1. /\ Reports(p) /\ src[p] = Dir /\ dst[p] = None /\ UNCHANGED <<opt, pc, pipe, stage>>
      /\ MaybeEmpty(p) /\ Modify(p)
      /\ opt.copyEmpty => /\ dst' = Stored(p, Dir)
                          /\ times' = Touched(p) \cup {p}
      /\ ~opt.copyEmpty => UNCHANGED <<dst, times>>
      /\ delayed' = IF TimesAfter THEN delayed \cup {p} ELSE delayed
  <2>1. PICK e \in IF opt.copyEmpty THEN Faults ELSE {"nil"} :
          /\ Ended(e)
          /\ IF opt.copyEmpty /\ e = "nil"
             THEN /\ dst' = Stored(p, Dir)
                  /\ times' = IF opt.dirTimes THEN Touched(p) \cup {p} ELSE Touched(p)
             ELSE UNCHANGED <<dst, times>>
          /\ delayed' = IF TimesAfter /\ e = "nil" THEN delayed \cup {p} ELSE delayed
    BY SimpleIs DEF SrcOnlyDir
  <2>2. e = "nil"
    BY <2>1, FaultNoted DEF Faults, Control, Simple
  <2> QED BY <2>1, <2>2, SimpleIs DEF SrcOnlyDir, run
<1>2. /\ \A d \in srcEmpty' : d \in srcEmpty \/ d = p
      /\ modified \subseteq modified' /\ (TimesAfter => p \in modified')
      /\ delayed \subseteq delayed' /\ (TimesAfter => p \in delayed')
  BY <1>1 DEF MaybeEmpty, Modify
<1>3. /\ p \in Paths /\ Ahead(V, p) /\ ~Ahead(V, p)' /\ Parent[p] \in V /\ opt.src[p] = Dir
      /\ \A q \in Paths : q # p => (Ahead(V, q)' <=> Ahead(V, q))
      /\ opt.src[p] # None /\ pc = "march" /\ pc \notin Late
  BY <1>1, ReportedAhead, SyncAssumption DEF Reports, Late
<1>4. p \notin delayed
  BY <1>3 DEF Timed, DirTimed
<1>5. ~opt.copyEmpty => TimesAfter
  BY DEF TimesAfter, Simple
<1>6. TimesAfter' = TimesAfter
  BY <1>1 DEF TimesAfter
<1>7. DirTimed(V, p)'
  BY <1>1, <1>2, <1>3, <1>5, <1>6, SyncAssumption DEF DirTimed
<1>8. ASSUME NEW q \in Paths, opt.src[q] = Dir, q # p PROVE DirTimed(V, q)'
  <2>1. /\ Ahead(V, q)' <=> Ahead(V, q)
        /\ q \in delayed' <=> q \in delayed
        /\ \A r \in delayed : r \in srcEmpty' => r \in srcEmpty
    BY <1>1, <1>2, <1>3, <1>4, <1>8
  <2>2. CASE ~opt.copyEmpty
    <3>1. DirTimed(V, q)
      BY <1>8 DEF Timed
    <3> QED BY <1>1, <1>2, <1>8, <2>1, <2>2, <3>1, DirStays
  <2>3. CASE opt.copyEmpty
    <3>1. dst'[q] = dst[q] \/ q \in Made(p)
      BY <1>1, <1>8, <2>3 DEF Stored
    <3>2. Touched(p) \subseteq times' /\ opt'.copyEmpty
      BY <1>1, <2>3
    <3>3. TimesAfter => p \in modified' /\ Settable(p)'
      BY <1>2, <3>2 DEF Settable
    <3>4. pc' \notin Late /\ opt' = opt
      BY <1>1, <1>3
    <3> QED BY <1>2, <1>3, <1>8, <2>1, <2>3, <3>1, <3>2, <3>3, <3>4, WriteKeeps
  <2> QED BY <2>2, <2>3
<1>9. ASSUME NEW q \in Paths, IsFile(opt.src[q]) PROVE FileTimed(V, q)'
  BY <1>1, <1>2, <1>3, <1>9, DirReported
<1> QED BY <1>1, <1>7, <1>8, <1>9 DEF Timed, IsFile

LEMMA TimedMatchDir ==
  ASSUME Control, NEW V, Sane(V), Simple, Timed(V), NEW p \in todo, MatchDir(p), Simple'
  PROVE  Timed(V)'
<1>1. /\ Reports(p) /\ src[p] = Dir /\ dst[p] # None
      /\ UNCHANGED <<opt, pc, pipe, stage, modified, dst>>
      /\ MaybeEmpty(p) /\ p \in times' /\ times \subseteq times'
      /\ delayed' = IF TimesAfter THEN delayed \cup {p} ELSE delayed
  <2>1. ~ProcessError("err")
    BY Noted DEF Simple, Fine
  <2>2. PICK e \in Outcomes :
          /\ Ended(e)
          /\ times' = IF ~(~opt.dirTimes \/ p \in times) /\ e = "nil" THEN times \cup {p} ELSE times
          /\ delayed' = IF TimesAfter /\ e = "nil" THEN delayed \cup {p} ELSE delayed
    BY <2>1 DEF MatchDir, Faults, Outcomes
  <2>3. e = "nil"
    BY <2>2, FaultNoted DEF Control, Simple
  <2> QED BY <2>2, <2>3, SimpleIs DEF MatchDir, run
<1>2. /\ \A d \in srcEmpty' : d \in srcEmpty \/ d = p
      /\ modified \subseteq modified' /\ delayed \subseteq delayed'
      /\ (TimesAfter => p \in delayed')
  BY <1>1 DEF MaybeEmpty
<1>3. /\ p \in Paths /\ Ahead(V, p) /\ ~Ahead(V, p)' /\ opt.src[p] = Dir
      /\ \A q \in Paths : q # p => (Ahead(V, q)' <=> Ahead(V, q))
  BY <1>1, ReportedAhead
<1>4. p \notin delayed
  BY <1>3 DEF Timed, DirTimed
<1>5. DirTimed(V, p)'
  <2>1. TimesAfter' = TimesAfter
    BY <1>1 DEF TimesAfter
  <2> QED BY <1>1, <1>2, <1>3, <2>1 DEF DirTimed
<1>6. ASSUME NEW q \in Paths, opt.src[q] = Dir, q # p PROVE DirTimed(V, q)'
  <2>1. /\ Ahead(V, q)' <=> Ahead(V, q)
        /\ q \in delayed' <=> q \in delayed
        /\ \A r \in delayed : r \in srcEmpty' => r \in srcEmpty
    BY <1>1, <1>2, <1>3, <1>4, <1>6
  <2>2. DirTimed(V, q)
    BY <1>6 DEF Timed
  <2> QED BY <1>1, <1>2, <1>6, <2>1, <2>2, DirStays
<1>7. ASSUME NEW q \in Paths, IsFile(opt.src[q]) PROVE FileTimed(V, q)'
  BY <1>1, <1>2, <1>3, <1>7, DirReported
<1> QED BY <1>1, <1>5, <1>6, <1>7 DEF Timed, IsFile

-----------------------------------------------------------------------------
(* The workers and the times: every write is below a directory that is noted. *)

\* A step of a worker that changes neither dst nor what is known of its directories.
LEMMA TimedCalm ==
  ASSUME Control, NEW V, Sane(V), Simple, Timed(V), WorkerStep,
         UNCHANGED <<dirs, times, dst>>, \A p \in Paths : ToWrite(p)' => ToWrite(p)
  PROVE  Timed(V)'
<1>1. UNCHANGED <<opt, pc, march>>
  BY WorkerLeaves
<1>2. \A p \in Paths : opt.src[p] # None => (Ahead(V, p)' <=> Ahead(V, p))
  BY <1>1 DEF Ahead, march
<1>3. UNCHANGED <<opt, dirs, times, dst>> /\ (pc \notin Late => pc' \notin Late)
  BY <1>1
<1> QED BY <1>2, <1>3, TimedUnmoved

\* What a worker has in place of a pair may be on its way to be written.
LEMMA SwapsWrites ==
  ASSUME NEW n \in Pipes, NEW x, NEW new, Swaps(n, x, new), UNCHANGED pipe, NEW p, ToWrite(p)'
  PROVE  ToWrite(p) \/ \E z \in new : z.path = p /\ z.dst # "same"
<1>1. \A m \in Pipes : \A z \in InPlay(m)' : z \in InPlay(m) \/ z \in new
  BY DEF Swaps, InPlay
<1>2. "upload" \in Pipes /\ "check" \in Pipes
  BY DEF Pipes
<1> QED BY <1>1, <1>2 DEF ToWrite

\* A file is written, or is about to be.
LEMMA TimedWrite ==
  ASSUME Control, NEW V, Sane(V), Simple, Timed(V), WorkerStep,
         NEW n \in Pipes, NEW x \in stage[n].hand,
         UNCHANGED <<srcEmpty, delayed>>, modified \subseteq modified',
         TimesAfter => Parent[x.path] \in modified', Touched(x.path) \subseteq times',
         \A q \in Paths : q # x.path => dst'[q] = dst[q] \/ q \in Made(x.path),
         \A q \in Paths : ToWrite(q)' => ToWrite(q) \/ q = x.path
  PROVE  Timed(V)'
<1> DEFINE p == x.path
<1>1. p \in Paths /\ IsFile(opt.src[p]) /\ Good(V, p) /\ OnWay(p)
  BY OwnPair DEF InPlay
<1>2. opt.src[p] # None /\ opt.src[p] # Dir /\ Parent[p] \in V /\ ~Ahead(V, p)
  BY <1>1, SyncAssumption DEF Good, Place, Ahead, IsFile
<1>3. UNCHANGED <<opt, pc, march>> /\ opt' = opt /\ pc \notin Last
  BY WorkerLeaves
<1>4. pc \notin Late /\ pc' \notin Late
  BY <1>3 DEF Last, Late
<1>5. \A q \in Paths : Ahead(V, q)' <=> Ahead(V, q)
  BY <1>3 DEF Ahead, march
<1>6. \A d \in Above[p] \ {Top} : d \notin srcEmpty'
  <2>1. FileTimed(V, p)
    BY <1>1 DEF Timed
  <2> QED BY <1>2, <2>1 DEF FileTimed
<1>7. ASSUME NEW q \in Paths, opt.src[q] = Dir PROVE DirTimed(V, q)'
  <2>1. dst'[q] = dst[q] \/ q \in Made(p)
    BY <1>2, <1>7
  <2>2. /\ q \in delayed' <=> q \in delayed
        /\ \A r \in delayed : r \in srcEmpty' => r \in srcEmpty
        /\ delayed \subseteq delayed'
    OBVIOUS
  <2>3. Ahead(V, q)' <=> Ahead(V, q)
    BY <1>5
  <2> HIDE DEF p
  <2>4. TimesAfter => Parent[p] \in modified'
    BY DEF p
  <2>5. Touched(p) \subseteq times'
    BY DEF p
  <2> QED BY <1>1, <1>2, <1>3, <1>4, <1>6, <1>7, <2>1, <2>2, <2>3, <2>4, <2>5, WriteKeeps
<1>8. ASSUME NEW q \in Paths, IsFile(opt.src[q]) PROVE FileTimed(V, q)'
  <2>1. FileTimed(V, q) /\ (Ahead(V, q)' <=> Ahead(V, q))
    BY <1>5, <1>8 DEF Timed
  <2>2. ToWrite(q)' => ToWrite(q) \/ (TimesAfter => Parent[q] \in modified')
    OBVIOUS
  <2>3. \A d \in Above[q] : d \in srcEmpty' => d \in srcEmpty
    OBVIOUS
  <2> QED BY <1>3, <2>1, <2>2, <2>3, FileStays
<1> QED BY <1>3, <1>7, <1>8 DEF Timed, IsFile

LEMMA TimedCheckDiffers ==
  ASSUME Control, NEW V, Sane(V), Simple, Timed(V), NEW x \in stage["check"].hand,
         CheckDiffers(x), Simple'
  PROVE  Timed(V)'
<1> DEFINE p == x.path
<1>1. "check" \in Pipes /\ WorkerStep
  BY DEF Pipes, WorkerStep, Checker
<1>2. UNCHANGED <<srcEmpty, delayed, pipe>> /\ Modify(Parent[p])
  <2>1. ~opt.immutable
    BY Noted DEF CheckDiffers, Simple, Fine
  <2> QED BY <2>1 DEF CheckDiffers
<1>3. PICK new : /\ Holds("check", x, new) /\ \A z \in new : z.path = p
                 /\ Touched(p) \subseteq times'
                 /\ \A q \in Paths : q # p => dst'[q] = dst[q]
  <2>1. x \in PairType
    BY <1>1, OwnPair DEF InPlay
  <2>2. ~opt.immutable
    BY Noted DEF CheckDiffers, Simple, Fine
  <2>3. Touched(p) \subseteq times
    BY DEF Touched
  <2>4. CASE opt.backup
    <3>1. PICK e \in Faults :
             /\ Ended(e)
             /\ IF e = "nil"
                THEN /\ dst' = [dst EXCEPT ![p] = None] /\ times' = Touched(p)
                     /\ Holds("check", x, {[x EXCEPT !.dst = "none", !.ready = TRUE]})
                ELSE TRUE
      BY <2>2, <2>4 DEF CheckDiffers
    <3>2. e = "nil"
      BY <3>1, FaultNoted, OutcomeErrors DEF Control, Simple
    <3> DEFINE y == [x EXCEPT !.dst = "none", !.ready = TRUE]
    <3>3. y.path = p
      BY <2>1, Reshaped
    <3>4. \A q \in Paths : q # p => dst'[q] = dst[q]
      BY <3>1, <3>2 DEF Control, Base, Types, Trees
    <3>5. Touched(p) \subseteq times'
      BY <3>1, <3>2
    <3> HIDE DEF y
    <3>6. Holds("check", x, {y})
      BY <3>1, <3>2 DEF y
    <3> QED BY <3>3, <3>4, <3>5, <3>6
  <2>5. CASE ~opt.backup
    <3> DEFINE y == [x EXCEPT !.ready = TRUE]
    <3>1. Holds("check", x, {y}) /\ UNCHANGED <<dst, times>>
      BY <2>2, <2>5 DEF CheckDiffers
    <3>2. y.path = p
      BY <2>1, Reshaped
    <3> HIDE DEF y
    <3> QED BY <2>3, <3>1, <3>2
  <2> QED BY <2>4, <2>5
<1>4. modified \subseteq modified' /\ (TimesAfter => Parent[p] \in modified')
  BY <1>2 DEF Modify
<1>5. Swaps("check", x, new)
  BY <1>1, <1>3, HoldsSwaps
<1>6. \A q \in Paths : ToWrite(q)' => ToWrite(q) \/ q = p
  BY <1>1, <1>2, <1>3, <1>5, SwapsWrites
<1> QED BY <1>1, <1>2, <1>3, <1>4, <1>6, TimedWrite

LEMMA TimedCheckEqual ==
  ASSUME Control, NEW V, Sane(V), Simple, Timed(V), NEW x \in stage["check"].hand,
         CheckEqual(x), Simple'
  PROVE  Timed(V)'
<1>1. "check" \in Pipes /\ WorkerStep /\ x \in PairType
  <2>1. "check" \in Pipes
    BY DEF Pipes
  <2> QED BY <2>1, OwnPair DEF InPlay, WorkerStep, Checker
<1>2. UNCHANGED <<dirs, times, dst, pipe>>
  BY DEF CheckEqual
<1>3. PICK new : Holds("check", x, new) /\ \A z \in new : z.dst = "same"
  <2> DEFINE y == [x EXCEPT !.dst = "same", !.ready = TRUE]
  <2>1. y.dst = "same"
    BY <1>1, Reshaped
  <2>2. Holds("check", x, {}) \/ Holds("check", x, {y})
    BY DEF CheckEqual
  <2> HIDE DEF y
  <2> QED BY <2>1, <2>2
<1>4. Swaps("check", x, new)
  BY <1>1, <1>3, HoldsSwaps
<1>5. \A q \in Paths : ToWrite(q)' => ToWrite(q)
  BY <1>1, <1>2, <1>3, <1>4, SwapsWrites
<1> QED BY <1>1, <1>2, <1>5, TimedCalm

LEMMA TimedTransfer ==
  ASSUME Control, NEW V, Sane(V), Simple, Timed(V), NEW x \in stage["upload"].hand,
         Transfer(x), Simple'
  PROVE  Timed(V)'
<1> DEFINE p == x.path
<1>1. "upload" \in Pipes /\ WorkerStep
  BY DEF Pipes, WorkerStep, Transferrer
<1>2. p \in Paths /\ IsFile(opt.src[p])
  BY <1>1, OwnPair DEF InPlay
<1>3. UNCHANGED <<srcEmpty, delayed, modified, pipe>> /\ Holds("upload", x, {}) /\ x.dst # "same"
  BY DEF Transfer, dirs
<1>4. dst' = Stored(p, src[p]) /\ times' = Touched(p)
  <2>1. PICK e \in Outcomes :
          Ended(e) /\ (e = "nil" => dst' = Stored(p, src[p]) /\ times' = Touched(p))
    BY DEF Transfer
  <2>2. e = "nil"
    BY <2>1, FaultNoted DEF Control, Simple
  <2> QED BY <2>1, <2>2
<1>5. TimesAfter => Parent[p] \in modified'
  <2>1. ToWrite(p)
    BY <1>3 DEF ToWrite, InPlay
  <2>2. FileTimed(V, p)
    BY <1>2 DEF Timed
  <2> QED BY <1>3, <2>1, <2>2 DEF FileTimed
<1>6. \A q \in Paths : q # p => dst'[q] = dst[q] \/ q \in Made(p)
  BY <1>4 DEF Stored
<1>7. Swaps("upload", x, {})
  BY <1>1, <1>3, HoldsSwaps
<1>8. \A q \in Paths : ToWrite(q)' => ToWrite(q)
  BY <1>1, <1>3, <1>7, SwapsWrites
<1>9. UNCHANGED <<srcEmpty, delayed>> /\ modified \subseteq modified' /\ Touched(p) \subseteq times'
  BY <1>3, <1>4
<1> QED BY <1>1, <1>5, <1>6, <1>8, <1>9, TimedWrite

LEMMA TimedDeleteSource ==
  ASSUME Control, NEW V, Sane(V), Simple, Timed(V), NEW x \in stage["upload"].hand,
         DeleteSource(x)
  PROVE  Timed(V)'
<1>1. /\ "upload" \in Pipes /\ WorkerStep /\ UNCHANGED <<dirs, times, dst, pipe>>
      /\ Holds("upload", x, {})
  BY DEF Pipes, WorkerStep, Transferrer, DeleteSource
<1>2. Swaps("upload", x, {})
  BY <1>1, HoldsSwaps
<1>3. \A q \in Paths : ToWrite(q)' => ToWrite(q)
  BY <1>1, <1>2, SwapsWrites
<1> QED BY <1>1, <1>3, TimedCalm

\* A pair is taken from a pipe, or passed on.
LEMMA TimedStage ==
  ASSUME Control, NEW V, Sane(V), Simple, Timed(V), NEW n \in Pipes, Stage(n)
  PROVE  Timed(V)'
<1>1. WorkerStep /\ UNCHANGED <<dirs, times, dst>>
  BY DEF WorkerStep, Stage, Get, GetFails, PassOn, sides
<1>2. "upload" \in Pipes /\ "check" \in Pipes
  BY DEF Pipes
<1>3. \A q \in Paths : ToWrite(q)' => ToWrite(q)
  <2>1. CASE Get(n)
    <3>1. PICK x \in pipe[n] :
            /\ pipe'[n] = pipe[n] \ {x} /\ stage'[n].hand = stage[n].hand \cup {x}
            /\ \A m \in Pipes : m # n => pipe'[m] = pipe[m] /\ stage'[m] = stage[m]
      BY <2>1, GetHands DEF Control
    <3>2. \A m \in Pipes : \A z \in InPlay(m)' : z \in InPlay(m)
      BY <3>1 DEF InPlay
    <3> QED BY <1>2, <3>2 DEF ToWrite
  <2>2. CASE GetFails(n)
    <3>1. \A m \in Pipes : stage'[m].hand = stage[m].hand
      BY <2>2, LeftHands DEF GetFails, Control, Base, Crew
    <3> QED BY <1>2, <2>2, <3>1 DEF ToWrite, InPlay, GetFails
  <2>3. CASE PassOn(n)
    <3>1. inCtx = "live" /\ ~opt.rename
      BY SimpleIs
    <3>2. PICK x \in stage[n].hand :
            /\ x.ready /\ n \in {"check", "rename"}
            /\ Holds(n, x, {}) /\ PutTo("upload", [x EXCEPT !.ready = FALSE])
      BY <2>3, <3>1 DEF PassOn
    <3>3. n = "check"
      BY <3>1, <3>2, RenamerPair
    <3> DEFINE y == [x EXCEPT !.ready = FALSE]
    <3>4. x \in PairType /\ x \in InPlay("check")
      BY <3>2, <3>3, OwnPair DEF InPlay
    <3>5. y.path = x.path /\ y.dst = x.dst
      BY <3>4, Reshaped
    <3> HIDE DEF y
    <3>6. PutTo("upload", y)
      BY <3>2 DEF y
    <3>7. /\ pipe'["upload"] = pipe["upload"] \cup {y}
          /\ \A m \in Pipes : m # "upload" => pipe'[m] = pipe[m]
      BY <1>2, <3>6, PutPipes DEF Control
    <3>8. Swaps(n, x, {})
      BY <3>2, HoldsSwaps
    <3>9. \A m \in Pipes : \A z \in InPlay(m)' : z \in InPlay(m) \/ z = y
      BY <3>7, <3>8 DEF InPlay, Swaps
    <3>10. ASSUME NEW q \in Paths, q = x.path, x.dst # "same" PROVE ToWrite(q)
      BY <3>2, <3>4, <3>10 DEF ToWrite
    <3>11. y \notin InPlay("check")' \/ ~y.ready
      BY <3>4 DEF y, PairType
    <3> QED BY <1>2, <3>5, <3>9, <3>10, <3>11 DEF ToWrite
  <2> QED BY <2>1, <2>2, <2>3 DEF Stage
<1> QED BY <1>1, <1>3, TimedCalm

LEMMA TimedWorkers ==
  ASSUME Control, NEW V, Sane(V), Simple, Timed(V), WorkerStep, Simple'
  PROVE  Timed(V)'
<1>1. ~Renamer
  BY RenamerPair, SimpleIs DEF Renamer
<1> QED BY <1>1, TimedStage, TimedCheckDiffers, TimedCheckEqual, TimedTransfer,
           TimedDeleteSource DEF WorkerStep, Checker, Transferrer

-----------------------------------------------------------------------------
(* run and the times, which it sets after the last write. *)

\* A directory of which a file has been written is due, and so is one above it.
LEMMA DueIs == \A p \in Paths : Stirred(p) => p \in Due
<1> DEFINE may(p) == p \in delayed /\ (opt.copyEmpty \/ p \notin srcEmpty)
           F(S) == {p \in Paths : may(p) /\ (p \in modified \/ \E q \in Under(p) : q \in S)}
           L == {p \in Paths : \A S \in SUBSET Paths : F(S) \subseteq S => p \in S}
           G(f) == [p \in Paths |-> /\ p \in delayed
                                    /\ opt.copyEmpty \/ p \notin srcEmpty
                                    /\ p \in modified \/ \E q \in Under(p) : f[q]]
           g == CHOOSE f : f = G(f)
<1>1. F(L) = L
  <2>1. \A S, T \in SUBSET Paths : S \subseteq T => F(S) \subseteq F(T)
    OBVIOUS
  <2>2. L \in SUBSET Paths /\ \A S \in SUBSET Paths : F(S) \in SUBSET Paths
    OBVIOUS
  <2>3. \A S \in SUBSET Paths : F(S) \subseteq S => L \subseteq S
    OBVIOUS
  <2>4. \A p \in Paths : (\A S \in SUBSET Paths : F(S) \subseteq S => p \in S) => p \in L
    OBVIOUS
  <2> HIDE DEF F, L
  <2>5. F(L) \subseteq L
    <3> SUFFICES ASSUME NEW p \in F(L), NEW S \in SUBSET Paths, F(S) \subseteq S PROVE p \in S
      BY <2>2, <2>4
    <3>1. L \subseteq S
      BY <2>3
    <3>2. F(L) \subseteq F(S)
      BY <2>1, <2>2, <3>1
    <3> QED BY <3>2
  <2>6. F(F(L)) \subseteq F(L)
    BY <2>1, <2>2, <2>5
  <2>7. L \subseteq F(L)
    BY <2>2, <2>3, <2>6
  <2> QED BY <2>5, <2>7
<1>2. \E f : f = G(f)
  <2> DEFINE f == [p \in Paths |-> p \in L]
  <2>1. \A p \in Paths : f[p] <=> p \in L
    OBVIOUS
  <2>2. \A p \in Paths : p \in L <=> may(p) /\ (p \in modified \/ \E q \in Under(p) : q \in L)
    <3> HIDE DEF L, may
    <3> QED BY <1>1
  <2>3. \A p : \A q \in Under(p) : q \in Paths
    BY DEF Under
  <2>4. ASSUME NEW p \in Paths
        PROVE  (/\ p \in delayed
                /\ opt.copyEmpty \/ p \notin srcEmpty
                /\ p \in modified \/ \E q \in Under(p) : f[q]) = (p \in L)
    <3> DEFINE more == \E q \in Under(p) : f[q]
               less == \E q \in Under(p) : q \in L
    <3>1. more = less
      <4> HIDE DEF L
      <4>1. \A q \in Under(p) : f[q] = (q \in L)
        BY <2>3
      <4> QED BY <4>1, Zenon
    <3>2. (p \in L) = (may(p) /\ (p \in modified \/ less))
      <4> HIDE DEF L, may
      <4> QED BY <2>2
    <3> HIDE DEF L, f, more, less
    <3>3. (may(p) /\ (p \in modified \/ more)) = (p \in L)
      BY <3>1, <3>2
    <3> QED BY <3>3, Zenon DEF more
  <2>5. G(f) = f
    <3> HIDE DEF L
    <3>1. G(f) = [p \in Paths |-> p \in L]
      BY <2>4, Zenon
    <3> QED BY <3>1
  <2> HIDE DEF f, G
  <2> QED BY <2>5
<1> HIDE DEF G
<1>3. g = G(g)
  BY <1>2
<1> HIDE DEF g
<1>4. \A p \in Paths : g[p] <=> /\ p \in delayed
                                /\ opt.copyEmpty \/ p \notin srcEmpty
                                /\ p \in modified \/ \E q \in Under(p) : g[q]
  BY <1>3 DEF G
<1>5. Due = {p \in Paths : g[p]}
  BY DEF Due, g, G
<1>6. \A p \in Paths : Settable(p) /\ p \in modified => g[p]
  BY <1>4 DEF Settable
<1>7. \A p \in Paths : Stirred(p) => g[p]
  BY <1>4, <1>6 DEF Stirred, Settable, Under
<1> QED BY <1>5, <1>7

LEMMA TimedSetDirTimes ==
  ASSUME Control, Simple, NEW V, Timed(V), SetDirTimes, Simple', NEW W
  PROVE  Timed(W)'
<1>1. ctx = "live" /\ UNCHANGED <<opt, dst, dirs, pipe, stage>> /\ pc = "deleting" /\ pc' = "prune"
  BY SimpleIs DEF SetDirTimes
<1>2. times' = times \cup (IF TimesAfter THEN Due ELSE {})
  <2> DEFINE due == IF ctx = "live" /\ TimesAfter THEN Due ELSE {}
  <2>1. PICK e \in Faults : \/ e = "nil" /\ times' = times \cup due
                            \/ e # "nil" /\ Ended(e)
    BY DEF SetDirTimes
  <2>2. e = "nil"
    BY <2>1, FaultNoted, OutcomeErrors DEF Control, Simple
  <2> QED BY <1>1, <2>1, <2>2
<1>3. \A q \in Paths : ~Ahead(V, q) /\ ~Ahead(W, q)'
  BY <1>1 DEF Ahead
<1>4. TimesAfter' = TimesAfter /\ UNCHANGED <<delayed, modified, srcEmpty>>
  BY <1>1 DEF TimesAfter, dirs
<1>5. ASSUME NEW q \in Paths, opt.src[q] = Dir PROVE DirTimed(W, q)'
  <2>1. DirTimed(V, q)
    BY <1>5 DEF Timed
  <2>2. TimesAfter => (Stirred(q) => q \in times')
    BY <1>2, DueIs
  <2> QED BY <1>1, <1>2, <1>3, <1>4, <2>1, <2>2 DEF DirTimed
<1>6. ASSUME NEW q \in Paths, IsFile(opt.src[q]) PROVE FileTimed(W, q)'
  <2>1. FileTimed(V, q)
    BY <1>6 DEF Timed
  <2>2. ToWrite(q)' => ToWrite(q)
    BY <1>1 DEF ToWrite, InPlay
  <2> QED BY <1>1, <1>3, <1>4, <2>1, <2>2 DEF FileTimed
<1> QED BY <1>1, <1>5, <1>6 DEF Timed, IsFile

\* A step that the writes and the march have no part in.
LEMMA TimedIdle ==
  ASSUME Simple, NEW V, Timed(V), UNCHANGED <<opt, pipe, times, dst, dirs>>,
         \A m \in Pipes : stage'[m].hand = stage[m].hand,
         pc \notin Late => pc' \notin Late, NEW W,
         \A p \in Paths : opt.src[p] # None => (Ahead(W, p)' <=> Ahead(V, p))
  PROVE  Timed(W)'
<1>1. "upload" \in Pipes /\ "check" \in Pipes
  BY DEF Pipes
<1>2. \A p \in Paths : ToWrite(p)' => ToWrite(p)
  BY <1>1 DEF ToWrite, InPlay
<1> QED BY <1>2, TimedUnmoved

LEMMA TimedDeleter ==
  ASSUME Control, NEW V, Sane(V), Simple, Timed(V), Deleter
  PROVE  Timed(V)'
<1>1. ASSUME NEW p \in deleters.hand PROVE FALSE
  <2>1. p \in Paths
    BY InDeleters DEF Control
  <2>2. Awaits(p) /\ Extra(p)
    BY <2>1 DEF Awaits, Sane, Good
  <2> QED BY <2>2, SimpleIs DEF Extra
<1>2. UNCHANGED <<opt, pc, todo, pipe, stage, times, dst, dirs>>
  BY <1>1 DEF Deleter, Delete, Deleted, run, sides, march
<1>3. \A p \in Paths : Ahead(V, p)' <=> Ahead(V, p)
  BY <1>2 DEF Ahead
<1>4. \A m \in Pipes : stage'[m].hand = stage[m].hand
  BY <1>2
<1> QED BY <1>2, <1>3, <1>4, TimedIdle

\* run goes on; the march has nothing of the source still to report.
LEMMA TimedRun ==
  ASSUME Control, NEW V, Sane(V), Simple, Timed(V), Run, ~SecondPass, Simple', NEW W
  PROVE  Timed(W)'
<1>1. CASE SetDirTimes
  BY <1>1, TimedSetDirTimes
<1>2. CASE \E p \in renameCheck : PutRename(p)
  <2>1. PICK p \in renameCheck : PutRename(p)
    BY <1>2
  <2>2. p \in Paths
    BY DEF Control, Base, Types
  <2>3. Traffic(p)
    BY <2>2 DEF Sane, Good
  <2> QED BY <2>3, SimpleIs DEF Traffic
<1>3. CASE ~SetDirTimes /\ ~(\E p \in renameCheck : PutRename(p))
  <2>1. Mode = "off"
    BY SimpleIs
  <2>2. UNCHANGED <<opt, pipe, times, dst, dirs>>
    BY <1>3, <2>1 DEF Run, MarchEnds, StopCheckers, StopRenamers, StopTransfers, StopDeleters,
       DeleteAfter, Feed, Prune, PruneSource, Finish, Goes, run, sides
  <2>3. pc' # "march" /\ (pc \notin Late => pc' \notin Late)
    BY <1>3 DEF Run, MarchEnds, StopCheckers, StopRenamers, StopTransfers, StopDeleters,
       DeleteAfter, Feed, Prune, PruneSource, Finish, Goes, run, Late
  <2>4. \A m \in Pipes : stage'[m].hand = stage[m].hand
    <3>1. CASE StopRenamers
      <4>1. stage \in Stages /\ "upload" \in Pipes
        BY DEF Control, Base, Crew, Pipes
      <4>2. \/ stage' = stage
            \/ stage' = [stage EXCEPT !["upload"].left = Transfers]
        BY <3>1 DEF StopRenamers
      <4>3. CASE stage' = [stage EXCEPT !["upload"].left = Transfers]
        BY <4>1, <4>3, LeftHands
      <4> QED BY <4>2, <4>3
    <3>2. CASE ~StopRenamers
      <4>1. stage' = stage
        BY <1>3, <3>2 DEF Run, MarchEnds, StopCheckers, StopTransfers, StopDeleters,
           DeleteAfter, Feed, Prune, PruneSource, Finish
      <4> QED BY <4>1
    <3> QED BY <3>1, <3>2
  <2>5. \A p \in Paths : opt.src[p] # None => ~Ahead(V, p) /\ ~Ahead(W, p)'
    <3>1. CASE pc # "march"
      BY <2>3, <3>1 DEF Ahead
    <3>2. CASE pc = "march"
      <4>1. MarchEnds
        BY <1>3, <3>2 DEF Run, StopCheckers, StopRenamers, StopTransfers, StopDeleters,
           DeleteAfter, Feed, Prune, PruneSource, Finish, Goes
      <4>2. todo = {} /\ jobs = {} /\ Fine
        BY <4>1, SimpleIs DEF MarchEnds, Simple
      <4>3. \A p \in Paths : opt.src[p] # None => Parent[p] \in V
        BY <2>1, <3>2, <4>2, MarchedSource
      <4> QED BY <2>3, <4>2, <4>3 DEF Ahead
    <3> QED BY <3>1, <3>2
  <2> QED BY <2>2, <2>3, <2>4, <2>5, TimedIdle
<1> QED BY <1>1, <1>2, <1>3

LEMMA TimedInit == ASSUME Init PROVE Timed({})
<1>1. \A p \in Paths : Ahead({}, p) /\ p \notin delayed
  BY DEF Init, Ahead
<1>2. \A p \in Paths : ~ToWrite(p)
  <2>1. "upload" \in Pipes /\ "check" \in Pipes
    BY DEF Pipes
  <2> QED BY <2>1, ClearInit DEF Clear, ToWrite, InPlay
<1> QED BY <1>1, <1>2 DEF Timed, DirTimed, FileTimed

\* Some directories have been listed, of which this holds too.
TimedInv == Control /\ \E V \in SUBSET (Paths \cup {Top}) : Sane(V) /\ Timed(V)

LEMMA TimedStep == TimedInv /\ [Next]_vars => TimedInv'
<1> SUFFICES ASSUME Control, NEW V \in SUBSET (Paths \cup {Top}), Sane(V), Timed(V), [Next]_vars
             PROVE  TimedInv'
  BY DEF TimedInv
<1>1. Control'
  BY ControlStep
<1>2. \A j \in jobs : j.dir \in Paths \cup {Top}
  BY DEF Control, Base, Types
<1>3. CASE ~Simple'
  <2>1. \E W \in SUBSET (Paths \cup {Top}) : Sane(W)'
    BY InvStep DEF Inv
  <2>2. \A W : Timed(W)'
    BY <1>3 DEF Timed
  <2> QED BY <1>1, <2>1, <2>2 DEF TimedInv
<1>4. CASE Simple'
  <2>1. ~SecondPass
    <3>1. SecondPass => pass' = 2
      BY DEF SecondPass
    <3>2. pass' = 2 => opt'.mode = "before"
      BY <1>1 DEF Control, Passes
    <3> QED BY <1>4, <3>1, <3>2 DEF Simple
  <2>2. Simple
    BY <1>4, <2>1, SimpleBack
  <2>3. \E W : Sane(W)' /\ Timed(W)' /\ (W \in {V, {}} \/ \E j \in jobs : W = V \cup {j.dir})
    <3>1. CASE \E j \in jobs : List(j)
      BY <1>4, <2>2, <3>1, SaneList, TimedList
    <3>2. ASSUME NEW p \in todo,
                 SrcOnlyFile(p) \/ SrcOnlyDir(p) \/ DstOnlyFile(p) \/ DstOnlyDir(p)
                 \/ MatchFile(p) \/ MatchDir(p)
          PROVE  Sane(V)' /\ Timed(V)'
      <4>1. Sane(V)'
        BY <3>2, SaneSrcOnlyFile, SaneSrcOnlyDir, SaneDstOnlyFile, SaneDstOnlyDir,
           SaneMatchFile, SaneMatchDir
      <4>2. Timed(V)'
        BY <1>4, <2>2, <3>2, TimedSrcOnlyFile, TimedSrcOnlyDir, TimedDstOnly, TimedMatchFile,
           TimedMatchDir
      <4> QED BY <4>1, <4>2
    <3>3. CASE March
      BY <3>1, <3>2, <3>3 DEF March
    <3>4. CASE WorkerStep
      BY <1>4, <2>2, <3>4, SaneWorkers, TimedWorkers
    <3>5. CASE Deleter
      BY <2>2, <3>5, SaneDeleter, TimedDeleter
    <3>6. CASE Run
      BY <1>4, <2>1, <2>2, <3>6, SaneRun, TimedRun
    <3>7. CASE UNCHANGED vars
      <4>1. Sane(V)'
        BY <3>7, SaneContexts
      <4>2. /\ UNCHANGED <<opt, pc, todo, pipe, stage, times, dst, dirs>>
            /\ \A m \in Pipes : stage'[m].hand = stage[m].hand
        BY <3>7 DEF vars, run, sides, march
      <4>3. \A p \in Paths : Ahead(V, p)' <=> Ahead(V, p)
        BY <4>2 DEF Ahead
      <4>4. Timed(V)'
        BY <2>2, <4>2, <4>3, TimedIdle
      <4> QED BY <4>1, <4>4
    <3>8. ~Deadline /\ ~Cancel
      BY <1>4, SimpleIs, <2>2 DEF Deadline, Cancel, Simple, Fine
    <3> QED BY <3>3, <3>4, <3>5, <3>6, <3>7, <3>8 DEF Next, WorkerStep
  <2> QED BY <1>1, <1>2, <2>3 DEF TimedInv
<1> QED BY <1>3, <1>4

\* A directory that a transfer has written in, or made, is among those whose times
\* are set at the end, or above one that is, and no write comes after (sync.go:1106-1220).
THEOREM DirTimesHolds == Spec => []DirTimes
<1>1. Init => TimedInv
  BY ControlInit, SaneInit, TimedInit DEF TimedInv
<1>2. TimedInv => DirTimes
  <2> SUFFICES ASSUME TimedInv, result = "nil", ~Called, opt.dirTimes, opt.mode = "off",
                      NEW p \in Paths, opt.src[p] = Dir, dst[p] = Dir
               PROVE  p \in times
    BY DEF DirTimes
  <2>1. PICK V \in SUBSET (Paths \cup {Top}) : Timed(V)
    BY DEF TimedInv
  <2>2. Fine /\ pc = "done"
    BY NilIsFine DEF TimedInv
  <2>3. DirTimed(V, p)
    BY <2>1, <2>2 DEF Timed, Simple
  <2> QED BY <2>2, <2>3, SyncAssumption DEF DirTimed, Ahead, Late
<1> QED BY <1>1, <1>2, TimedStep, PTL DEF Spec
=============================================================================

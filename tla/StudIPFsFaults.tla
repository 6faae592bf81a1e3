--------------------------- MODULE StudIPFsFaults ---------------------------
(***************************************************************************)
(* What holds of StudIPFs although requests fail, answers are lost, calls  *)
(* stop halfway and other clients upload and remove: a call that is not    *)
(* misled touches only what it is about, an upload that returns well has   *)
(* left the whole file, and a move never leaves less than the source.      *)
(*                                                                         *)
(* A tree that counts is then no copy of the course, but where it shows    *)
(* what the course has it shows it in its place (Like).  So the trees are  *)
(* forests with gaps, in which a name may stand for a node that is gone.   *)
(* The invariant is Straight, as long as no call is misled (Upright).      *)
(***************************************************************************)
EXTENDS StudIPFsProofs

-----------------------------------------------------------------------------
(* Trees that need not be courses. *)

\* Nodes are in folders, and a folder may have several of a name.
Forest(t) ==
  /\ t \in [DOMAIN t -> Nodes] /\ DOMAIN t \subseteq Nat \ {0}
  /\ \A i \in DOMAIN t : IsDir(t, t[i].parent)
\* And each is some way below the top, no more than n.
Grades(t, n, depth) ==
  /\ n \in Nat /\ depth \in [DOMAIN t -> 0..n]
  /\ \A i \in DOMAIN t : t[i].parent \in DOMAIN t => depth[t[i].parent] < depth[i]
Wood(t) == Forest(t) /\ \E n, depth : Grades(t, n, depth)

\* What both trees have is in one folder under one name.
Like(t, u) ==
  \A i \in DOMAIN t \cap DOMAIN u :
    t[i].dir = u[i].dir /\ t[i].parent = u[i].parent /\ t[i].name = u[i].name

\* The children of a name, of which Child takes the first.
Called(t, a, n) == {i \in DOMAIN t : t[i].parent = a /\ t[i].name = n}

\* Child is the least of them, or None.
LEMMA ChildOf ==
  ASSUME NEW t, Forest(t), NEW a, NEW n
  PROVE  /\ Child(t, a, n) # None =>
              Child(t, a, n) \in Called(t, a, n) /\ \A i \in Called(t, a, n) : Child(t, a, n) <= i
         /\ Child(t, a, n) = None => Called(t, a, n) = {}
         /\ None \notin DOMAIN t /\ Top \notin DOMAIN t /\ Called(t, None, n) = {}
<1>1. Child(t, a, n) = IF Called(t, a, n) = {} THEN None ELSE Min(Called(t, a, n))
  <2>1. {i \in Children(t, a) : t[i].name = n} = Called(t, a, n)
    BY DEF Children, Called
  <2> QED BY <2>1 DEF Child
<1>2. None \notin DOMAIN t /\ Top \notin DOMAIN t
  BY DEF Forest, None, Top
<1>3. Called(t, a, n) \in SUBSET Nat
  BY DEF Forest, Called
<1>4. Called(t, a, n) # {} => /\ Min(Called(t, a, n)) \in Called(t, a, n)
                              /\ \A i \in Called(t, a, n) : Min(Called(t, a, n)) <= i
  BY <1>3, MinIs
<1>5. \A i \in DOMAIN t : t[i].parent # None
  <2> TAKE i \in DOMAIN t
  <2>1. t[i].parent \in Nat
    BY DEF Forest, Nodes
  <2> QED BY <2>1 DEF None
<1>6. Called(t, a, n) \subseteq DOMAIN t /\ Called(t, None, n) = {}
  BY <1>5 DEF Called
<1> QED BY <1>1, <1>2, <1>4, <1>6

\* The children of a name decide which is the first.
LEMMA ChildSame ==
  ASSUME NEW t, NEW u, NEW a, NEW n, Called(u, a, n) = Called(t, a, n)
  PROVE  Child(u, a, n) = Child(t, a, n)
<1>1. /\ {i \in Children(t, a) : t[i].name = n} = Called(t, a, n)
      /\ {i \in Children(u, a) : u[i].name = n} = Called(u, a, n)
  BY DEF Children, Called
<1> QED BY <1>1 DEF Child

\* What a path leads to is in the folder its front leads to, and has its last name.
LEMMA LeadsTo ==
  ASSUME NEW t, Forest(t), NEW p \in Names, p # <<>>
  PROVE  /\ At(t, p) = Child(t, At(t, Front(p)), Last(p))
         /\ At(t, p) # None =>
              /\ At(t, p) \in DOMAIN t /\ At(t, Front(p)) # None
              /\ t[At(t, p)].parent = At(t, Front(p)) /\ t[At(t, p)].name = Last(p)
         /\ At(t, p) = None => Called(t, At(t, Front(p)), Last(p)) = {}
<1>1. At(t, p) = Child(t, At(t, Front(p)), Last(p))
  BY PathStep DEF At
<1>2. At(t, p) # None => At(t, p) \in Called(t, At(t, Front(p)), Last(p))
  BY <1>1, ChildOf
<1>3. At(t, p) # None => At(t, Front(p)) # None
  <2> SUFFICES ASSUME At(t, p) # None, At(t, Front(p)) = None PROVE FALSE
    OBVIOUS
  <2>1. Called(t, None, Last(p)) = {}
    BY ChildOf
  <2> QED BY <1>2, <2>1
<1>4. At(t, p) = None => Called(t, At(t, Front(p)), Last(p)) = {}
  <2> SUFFICES ASSUME At(t, p) = None PROVE Called(t, At(t, Front(p)), Last(p)) = {}
    OBVIOUS
  <2>1. Child(t, At(t, Front(p)), Last(p)) = None
    BY <1>1
  <2> QED BY <2>1, ChildOf
<1> QED BY <1>1, <1>2, <1>3, <1>4 DEF Called

\* Only the empty path leads to the top, and others to nodes or nowhere.
LEMMA LeadsNone ==
  ASSUME NEW t, Forest(t), NEW p \in Names
  PROVE  /\ At(t, p) = Top <=> p = <<>>
         /\ At(t, p) # None /\ p # <<>> => At(t, p) \in DOMAIN t
         /\ At(t, p) \in DOMAIN t => p # <<>> /\ At(t, p) # None
<1>1. None # Top /\ Top \notin DOMAIN t /\ None \notin DOMAIN t
  BY ChildOf DEF None, Top
<1> QED BY <1>1, LeadsTo, AtEmpty

\* What a path goes through is there.
LEMMA LeadsThrough ==
  ASSUME NEW t, Forest(t), NEW q \in Names, NEW p \in Names, IsPrefix(q, p), At(t, p) # None
  PROVE  At(t, q) # None
<1> DEFINE Q == {r \in Names : IsPrefix(q, r) /\ At(t, r) # None => At(t, q) # None}
<1>1. <<>> \in Q
  <2>1. <<>> \in Names /\ (IsPrefix(q, <<>>) => q = <<>>)
    BY PrefixSelf, EmptySeq DEF Names
  <2> QED BY <2>1
<1>2. ASSUME NEW r \in Names, r # <<>>, Front(r) \in Q PROVE r \in Q
  BY <1>2, PrefixFront, LeadsTo
<1>3. Q = Names
  <2> HIDE DEF Q
  <2>1. Q \in SUBSET Names
    BY DEF Q
  <2> QED BY <1>1, <1>2, <2>1, PathInd
<1> QED BY <1>3

\* Different paths lead to different nodes.
LEMMA LeadsApart ==
  ASSUME NEW t, Forest(t), NEW p \in Names, NEW q \in Names, At(t, p) = At(t, q), At(t, p) # None
  PROVE  p = q
<1> DEFINE Q == {r \in Names : \A s \in Names : At(t, r) = At(t, s) /\ At(t, r) # None => r = s}
<1>1. <<>> \in Q
  <2>1. <<>> \in Names
    BY EmptySeq DEF Names
  <2> QED BY <2>1, LeadsNone
<1>2. ASSUME NEW r \in Names, r # <<>>, Front(r) \in Q PROVE r \in Q
  <2> SUFFICES ASSUME NEW s \in Names, At(t, r) = At(t, s), At(t, r) # None PROVE r = s
    OBVIOUS
  <2>1. s # <<>>
    BY <1>2, LeadsNone
  <2>2. /\ At(t, Front(r)) = At(t, Front(s)) /\ Last(r) = Last(s) /\ At(t, Front(r)) # None
    BY <1>2, <2>1, LeadsTo
  <2>3. Front(s) \in Names
    BY <2>1, FrontIs
  <2>4. Front(r) = Front(s)
    BY <1>2, <2>2, <2>3
  <2> QED BY <1>2, <2>1, <2>2, <2>4, FrontLast
<1>3. Q = Names
  <2> HIDE DEF Q
  <2>1. Q \in SUBSET Names
    BY DEF Q
  <2> QED BY <1>1, <1>2, <2>1, PathInd
<1> QED BY <1>3

-----------------------------------------------------------------------------
(* Edits, and the paths that they leave alone. *)

\* An edit at some paths leaves those that do not go through them.
LEMMA EditedApart ==
  ASSUME NEW t, Forest(t), NEW u, Forest(u), NEW P \in SUBSET Names, <<>> \notin P,
         \A a, n : (\A p \in P : a # At(t, Front(p)) \/ n # Last(p)) => Called(u, a, n) = Called(t, a, n)
  PROVE  \A q \in Names : (\A p \in P : ~IsPrefix(p, q)) => At(u, q) = At(t, q)
<1> DEFINE Q == {q \in Names : (\A p \in P : ~IsPrefix(p, q)) => At(u, q) = At(t, q)}
<1>1. <<>> \in Q
  <2>1. <<>> \in Names
    BY EmptySeq DEF Names
  <2> QED BY <2>1, AtEmpty
<1>2. ASSUME NEW q \in Names, q # <<>>, Front(q) \in Q PROVE q \in Q
  <2> SUFFICES ASSUME \A p \in P : ~IsPrefix(p, q) PROVE At(u, q) = At(t, q)
    OBVIOUS
  <2>1. Front(q) \in Names /\ \A p \in P : ~IsPrefix(p, Front(q)) /\ p # q
    <3>1. Front(q) \in Names /\ IsPrefix(q, q)
      BY <1>2, FrontIs, PrefixSelf
    <3> QED BY <1>2, <3>1, PrefixFront
  <2>2. At(u, Front(q)) = At(t, Front(q))
    BY <1>2, <2>1
  <2> DEFINE a == At(t, Front(q))
             n == Last(q)
  <2>3. At(u, q) = Child(u, a, n) /\ At(t, q) = Child(t, a, n)
    BY <1>2, <2>2, LeadsTo
  <2>4. CASE a = None
    <3>1. Called(u, None, n) = {} /\ Called(t, None, n) = {}
      BY ChildOf
    <3>2. Called(u, None, n) = Called(t, None, n)
      BY <3>1
    <3>3. Child(u, None, n) = Child(t, None, n)
      <4> HIDE DEF n
      <4> QED BY <3>2, ChildSame
    <3> QED BY <2>3, <2>4, <3>3
  <2>5. CASE a # None
    <3>1. \A p \in P : a # At(t, Front(p)) \/ n # Last(p)
      <4> SUFFICES ASSUME NEW p \in P, a = At(t, Front(p)), n = Last(p) PROVE FALSE
        OBVIOUS
      <4>1. p # <<>> /\ Front(p) \in Names
        BY FrontIs
      <4>2. Front(p) = Front(q)
        BY <2>1, <2>5, <4>1, LeadsApart
      <4> QED BY <1>2, <2>1, <4>1, <4>2, FrontLast
    <3>2. Called(u, a, n) = Called(t, a, n)
      BY <3>1
    <3>3. Child(u, a, n) = Child(t, a, n)
      BY <3>2, ChildSame
    <3> QED BY <2>3, <3>3
  <2> QED BY <2>4, <2>5
<1>3. Q = Names
  <2> HIDE DEF Q
  <2>1. Q \in SUBSET Names
    BY DEF Q
  <2> QED BY <1>1, <1>2, <2>1, PathInd
<1> QED BY <1>3

\* Nothing is below a node without children.
LEMMA EndsThere ==
  ASSUME NEW t, Forest(t), NEW p \in Names, Children(t, At(t, p)) = {}
  PROVE  \A q \in Names : IsPrefix(p, q) /\ q # p => At(t, q) = None
<1> DEFINE Q == {q \in Names : IsPrefix(p, q) /\ q # p => At(t, q) = None}
<1>1. <<>> \in Q
  <2>1. <<>> \in Names /\ (IsPrefix(p, <<>>) => p = <<>>)
    BY EmptySeq, PrefixSelf DEF Names
  <2> QED BY <2>1
<1>2. ASSUME NEW q \in Names, q # <<>>, Front(q) \in Q PROVE q \in Q
  <2> SUFFICES ASSUME IsPrefix(p, q), q # p PROVE At(t, q) = None
    OBVIOUS
  <2>1. IsPrefix(p, Front(q))
    BY <1>2, PrefixFront
  <2>2. Called(t, At(t, Front(q)), Last(q)) = {}
    <3>1. CASE Front(q) = p
      BY <3>1 DEF Called, Children
    <3>2. CASE Front(q) # p
      <4>1. At(t, Front(q)) = None
        BY <1>2, <2>1, <3>2
      <4> QED BY <4>1, ChildOf
    <3> QED BY <3>1, <3>2
  <2> SUFFICES ASSUME At(t, q) # None PROVE FALSE
    OBVIOUS
  <2>3. At(t, q) \in Called(t, At(t, Front(q)), Last(q))
    BY <1>2, LeadsTo DEF Called
  <2> QED BY <2>2, <2>3
<1>3. Q = Names
  <2> HIDE DEF Q
  <2>1. Q \in SUBSET Names
    BY DEF Q
  <2> QED BY <1>1, <1>2, <2>1, PathInd
<1> QED BY <1>3

\* A node that is entered where nothing was, and that nothing is in, takes its path alone.
LEMMA EnteredAlone ==
  ASSUME NEW t, Forest(t), NEW u, Forest(u), NEW p \in Names, p # <<>>, At(t, p) = None,
         NEW i, i \notin DOMAIN t, DOMAIN u = DOMAIN t \cup {i}, \A j \in DOMAIN t : u[j] = t[j],
         u[i].parent = At(t, Front(p)), u[i].name = Last(p)
  PROVE  \A q \in Names : q # p => At(u, q) = At(t, q)
<1>1. \A a, n : (\A r \in {p} : a # At(t, Front(r)) \/ n # Last(r)) => Called(u, a, n) = Called(t, a, n)
  BY DEF Called
<1>2. \A q \in Names : (\A r \in {p} : ~IsPrefix(r, q)) => At(u, q) = At(t, q)
  <2>1. {p} \in SUBSET Names /\ <<>> \notin {p}
    OBVIOUS
  <2> QED BY <1>1, <2>1, EditedApart
<1>3. Called(t, At(t, Front(p)), Last(p)) = {}
  BY LeadsTo
<1>4. At(u, p) \in {i, None}
  <2>1. At(u, Front(p)) = At(t, Front(p))
    <3>1. Front(p) \in Names /\ ~IsPrefix(p, Front(p))
      <4>1. Front(p) \in Names /\ Len(Front(p)) = Len(p) - 1 /\ Len(p) \in Nat
        BY FrontIs
      <4>2. ~(Len(p) <= Len(Front(p)))
        BY <4>1
      <4> QED BY <4>1, <4>2, PrefixIs
    <3> QED BY <1>2, <3>1
  <2> SUFFICES ASSUME At(u, p) # None PROVE At(u, p) = i
    OBVIOUS
  <2>2. At(u, p) \in DOMAIN u /\ u[At(u, p)].parent = At(t, Front(p)) /\ u[At(u, p)].name = Last(p)
    BY <2>1, LeadsTo
  <2> QED BY <1>3, <2>2 DEF Called
<1>5. Children(u, i) = {} /\ Children(u, None) = {}
  <2>1. \A j \in DOMAIN t : t[j].parent # i
    <3>1. i # Top
      <4>1. Top \notin DOMAIN u
        BY ChildOf
      <4> QED BY <4>1
    <3> QED BY <3>1 DEF Forest, IsDir
  <2>2. u[i].parent # i
    <3>1. At(t, Front(p)) # i
      <4>1. Front(p) \in Names
        BY FrontIs
      <4>2. Top \notin DOMAIN u
        BY ChildOf
      <4> QED BY <4>1, <4>2, LeadsNone, ChildOf
    <3> QED BY <3>1
  <2>3. \A j \in DOMAIN u : u[j].parent # None
    BY DEF Forest, IsDir, None, Top
  <2> QED BY <2>1, <2>2, <2>3 DEF Children
<1>6. \A q \in Names : IsPrefix(p, q) /\ q # p => At(u, q) = None /\ At(t, q) = None
  <2>1. Children(u, At(u, p)) = {}
    BY <1>4, <1>5
  <2>2. Children(t, At(t, p)) = {}
    <3>1. \A j \in DOMAIN t : t[j].parent # None
      BY DEF Forest, IsDir, None, Top
    <3> QED BY <3>1 DEF Children
  <2> QED BY <2>1, <2>2, EndsThere
<1> QED BY <1>2, <1>6

-----------------------------------------------------------------------------
\* What holds of a node when it holds of its folder, holds of all of a wood.
LEMMA WoodInd ==
  ASSUME NEW t, Wood(t), NEW K \in SUBSET DOMAIN t,
         \A i \in DOMAIN t : (t[i].parent \in DOMAIN t => t[i].parent \in K) => i \in K
  PROVE  K = DOMAIN t
<1>1. PICK n, depth : Grades(t, n, depth)
  BY DEF Wood
<1> DEFINE S == {m \in Nat : \A i \in DOMAIN t : depth[i] < m => i \in K}
<1>2. \A i \in DOMAIN t : depth[i] \in Nat
  BY <1>1 DEF Grades
<1>3. 0 \in S
  BY <1>2
<1>4. ASSUME NEW m \in S PROVE m + 1 \in S
  <2> SUFFICES ASSUME NEW i \in DOMAIN t, depth[i] < m + 1 PROVE i \in K
    OBVIOUS
  <2>1. ASSUME t[i].parent \in DOMAIN t PROVE t[i].parent \in K
    <3>1. depth[t[i].parent] < depth[i] /\ depth[t[i].parent] \in Nat /\ depth[i] \in Nat
      BY <1>1, <1>2, <2>1 DEF Grades
    <3>2. depth[t[i].parent] < m
      BY <3>1
    <3> QED BY <2>1, <3>2
  <2> QED BY <2>1
<1>5. S = Nat
  <2> HIDE DEF S
  <2>1. S \in SUBSET Nat
    BY DEF S
  <2> QED BY <1>3, <1>4, <2>1, NatInd
<1>6. \A i \in DOMAIN t : depth[i] + 1 \in S /\ depth[i] < depth[i] + 1
  <2> HIDE DEF S
  <2> QED BY <1>2, <1>5
<1> QED BY <1>6

\* In a wood Paths gives each node the path of its folder and its name.
LEMMA TrailIs ==
  ASSUME NEW t, Wood(t)
  PROVE  /\ DOMAIN Paths(t) = DOMAIN t
         /\ \A i \in DOMAIN t :
              /\ Paths(t)[i] \in Names /\ Paths(t)[i] # <<>> /\ Last(Paths(t)[i]) = t[i].name
              /\ t[i].parent \in DOMAIN t => Front(Paths(t)[i]) = Paths(t)[t[i].parent]
              /\ t[i].parent \notin DOMAIN t => Front(Paths(t)[i]) = <<>>
<1> DEFINE path == CHOOSE it : it = Longer(t, it)
           Next1(it, i) == IF t[i].parent \in DOMAIN t THEN Append(it[t[i].parent], t[i].name)
                           ELSE <<t[i].name>>
<1>1. Paths(t) = path
  BY DEF Paths, Longer
<1>2. PICK n, depth : Grades(t, n, depth)
  BY DEF Wood
<1> DEFINE D(m) == {i \in DOMAIN t : depth[i] <= m}
           S == {m \in Nat : \E it : \A i \in DOMAIN t : depth[i] < m => it[i] = Next1(it, i)}
<1>3. n + 1 \in S
  <2>1. 0 \in S
    <3>1. \A i \in DOMAIN t : ~(depth[i] < 0)
      BY <1>2 DEF Grades
    <3> QED BY <3>1
  <2>2. ASSUME NEW m \in S PROVE m + 1 \in S
    <3>1. PICK it : \A i \in DOMAIN t : depth[i] < m => it[i] = Next1(it, i)
      BY <2>2
    <3> DEFINE on == [i \in DOMAIN t |-> Next1(it, i)]
    <3>2. ASSUME NEW i \in DOMAIN t, depth[i] < m + 1 PROVE on[i] = Next1(on, i)
      <4>1. CASE t[i].parent \in DOMAIN t
        <5>1. depth[t[i].parent] < depth[i] /\ depth[t[i].parent] \in Nat /\ depth[i] \in Nat
          BY <1>2, <4>1 DEF Grades
        <5>2. depth[t[i].parent] < m
          BY <3>2, <5>1
        <5>3. on[t[i].parent] = it[t[i].parent]
          BY <3>1, <4>1, <5>2
        <5> QED BY <4>1, <5>3
      <4>2. CASE t[i].parent \notin DOMAIN t
        BY <4>2
      <4> QED BY <4>1, <4>2
    <3> HIDE DEF on, Next1
    <3> QED BY <3>2
  <2> HIDE DEF S
  <2>3. S \in SUBSET Nat
    BY DEF S
  <2>4. S = Nat
    BY <2>1, <2>2, <2>3, NatInd
  <2> QED BY <1>2, <2>4 DEF Grades
<1>4. PICK it : \A i \in DOMAIN t : depth[i] < n + 1 => it[i] = Next1(it, i)
  BY <1>3
<1>5. \A i \in DOMAIN t : depth[i] < n + 1
  <2>1. \A i \in DOMAIN t : depth[i] \in 0..n /\ n \in Nat
    BY <1>2 DEF Grades
  <2> QED BY <2>1
<1> DEFINE good == [i \in DOMAIN t |-> it[i]]
<1>6. good = Longer(t, good)
  <2>1. \A i \in DOMAIN t : good[i] = Next1(good, i)
    BY <1>4, <1>5
  <2> HIDE DEF good
  <2>2. good = [i \in DOMAIN t |-> good[i]]
    BY DEF good
  <2> QED BY <2>1, <2>2 DEF Longer
<1>7. path = Longer(t, path)
  <2> HIDE DEF good
  <2> QED BY <1>6
<1> HIDE DEF path
<1>8. DOMAIN path = DOMAIN t /\ \A i \in DOMAIN t : path[i] = Next1(path, i)
  BY <1>7 DEF Longer
<1> DEFINE K == {i \in DOMAIN t : path[i] \in Names}
<1>9. \A i \in DOMAIN t : t[i].name \in STRING
  BY DEF Wood, Forest, Nodes
<1>10. \A i \in DOMAIN t : <<t[i].name>> = Append(<<>>, t[i].name) /\ <<>> \in Names
  BY <1>9, EmptySeq DEF Names
<1>11. K = DOMAIN t
  <2>1. \A i \in DOMAIN t : (t[i].parent \in DOMAIN t => t[i].parent \in K) => i \in K
    <3> TAKE i \in DOMAIN t
    <3> HAVE t[i].parent \in DOMAIN t => t[i].parent \in K
    <3>1. CASE t[i].parent \in DOMAIN t
      BY <1>8, <1>9, <3>1, AppendIs
    <3>2. CASE t[i].parent \notin DOMAIN t
      <4>1. path[i] = Append(<<>>, t[i].name) /\ <<>> \in Names /\ t[i].name \in STRING
        BY <1>8, <1>9, <1>10, <3>2
      <4> QED BY <4>1, AppendIs
    <3> QED BY <3>1, <3>2
  <2> HIDE DEF K
  <2>2. K \in SUBSET DOMAIN t
    BY DEF K
  <2> QED BY <2>1, <2>2, WoodInd
<1>12. ASSUME NEW i \in DOMAIN t
       PROVE  /\ path[i] \in Names /\ path[i] # <<>> /\ Last(path[i]) = t[i].name
              /\ t[i].parent \in DOMAIN t => Front(path[i]) = path[t[i].parent]
              /\ t[i].parent \notin DOMAIN t => Front(path[i]) = <<>>
  <2>1. CASE t[i].parent \in DOMAIN t
    <3>1. path[t[i].parent] \in Names
      BY <1>11, <2>1
    <3>2. path[i] = Append(path[t[i].parent], t[i].name)
      BY <1>8, <2>1
    <3>3. t[i].name \in STRING
      BY <1>9
    <3> DEFINE r == path[t[i].parent]
    <3>4. /\ Append(r, t[i].name) \in Names /\ Append(r, t[i].name) # <<>>
          /\ Front(Append(r, t[i].name)) = r /\ Last(Append(r, t[i].name)) = t[i].name
      <4> HIDE DEF r
      <4>1. r \in Names
        BY <3>1 DEF r
      <4> QED BY <3>3, <4>1, AppendIs
    <3> QED BY <2>1, <3>2, <3>4
  <2>2. CASE t[i].parent \notin DOMAIN t
    <3>1. path[i] = Append(<<>>, t[i].name)
      BY <1>8, <1>10, <2>2
    <3> QED BY <1>9, <1>10, <2>2, <3>1, AppendIs
  <2> QED BY <2>1, <2>2
<1> QED BY <1>1, <1>8, <1>12

\* Nodes that keep their names and folders keep their paths.
LEMMA TrailsStay ==
  ASSUME NEW t, Wood(t), NEW u, Wood(u), NEW K \in SUBSET (DOMAIN t \cap DOMAIN u),
         \A i \in K : /\ u[i].parent = t[i].parent /\ u[i].name = t[i].name
                      /\ t[i].parent \in DOMAIN t => t[i].parent \in K
                      /\ t[i].parent \notin DOMAIN t => t[i].parent \notin DOMAIN u
  PROVE  \A i \in K : Paths(u)[i] = Paths(t)[i]
<1> DEFINE L == {i \in DOMAIN t : i \in K => Paths(u)[i] = Paths(t)[i]}
<1>1. ASSUME NEW i \in DOMAIN t, t[i].parent \in DOMAIN t => t[i].parent \in L PROVE i \in L
  <2> SUFFICES ASSUME i \in K PROVE Paths(u)[i] = Paths(t)[i]
    OBVIOUS
  <2> DEFINE p == Paths(t)[i]
             q == Paths(u)[i]
  <2>1. /\ p \in Names /\ p # <<>> /\ Last(p) = t[i].name
        /\ t[i].parent \in DOMAIN t => Front(p) = Paths(t)[t[i].parent]
        /\ t[i].parent \notin DOMAIN t => Front(p) = <<>>
    BY TrailIs
  <2>2. /\ q \in Names /\ q # <<>> /\ Last(q) = u[i].name
        /\ u[i].parent \in DOMAIN u => Front(q) = Paths(u)[u[i].parent]
        /\ u[i].parent \notin DOMAIN u => Front(q) = <<>>
    BY TrailIs
  <2>3. CASE t[i].parent \in DOMAIN t
    <3>1. t[i].parent \in K /\ Paths(u)[t[i].parent] = Paths(t)[t[i].parent]
      BY <1>1, <2>3
    <3>2. Front(p) = Front(q) /\ Last(p) = Last(q)
      BY <2>1, <2>2, <2>3, <3>1
    <3> HIDE DEF p, q
    <3>3. p = q
      BY <2>1, <2>2, <3>2, FrontLast
    <3> QED BY <3>3 DEF p, q
  <2>4. CASE t[i].parent \notin DOMAIN t
    <3>1. Front(p) = Front(q) /\ Last(p) = Last(q)
      BY <2>1, <2>2, <2>4
    <3> HIDE DEF p, q
    <3>2. p = q
      BY <2>1, <2>2, <3>1, FrontLast
    <3> QED BY <3>2 DEF p, q
  <2> QED BY <2>3, <2>4
<1>2. L = DOMAIN t
  <2> HIDE DEF L
  <2>1. L \in SUBSET DOMAIN t
    BY DEF L
  <2> QED BY <1>1, <2>1, WoodInd
<1> QED BY <1>2

\* What is below a node has a path below its path.
LEMMA TrailsBelow ==
  ASSUME NEW t, Wood(t), NEW id \in DOMAIN t
  PROVE  \A i \in Subtree(t, id) : IsPrefix(Paths(t)[id], Paths(t)[i])
<1> DEFINE L == {i \in DOMAIN t : i \in Subtree(t, id) => IsPrefix(Paths(t)[id], Paths(t)[i])}
<1>1. ASSUME NEW i \in DOMAIN t, t[i].parent \in DOMAIN t => t[i].parent \in L PROVE i \in L
  <2> SUFFICES ASSUME i \in Subtree(t, id), i # id PROVE IsPrefix(Paths(t)[id], Paths(t)[i])
    <3>1. Paths(t)[id] \in Names
      BY TrailIs
    <3> QED BY <3>1, PrefixSelf
  <2>1. t[i].parent \in DOMAIN t /\ t[i].parent \in Subtree(t, id)
    BY SubtreeIs
  <2>2. IsPrefix(Paths(t)[id], Paths(t)[t[i].parent])
    BY <1>1, <2>1
  <2>3. /\ Paths(t)[i] \in Names /\ Paths(t)[i] # <<>> /\ Paths(t)[id] \in Names
        /\ Front(Paths(t)[i]) = Paths(t)[t[i].parent]
    BY <2>1, TrailIs
  <2> QED BY <2>2, <2>3, PrefixFront
<1>2. L = DOMAIN t
  <2> HIDE DEF L
  <2>1. L \in SUBSET DOMAIN t
    BY DEF L
  <2> QED BY <1>1, <2>1, WoodInd
<1>3. Subtree(t, id) \subseteq DOMAIN t
  BY SubtreeIs
<1> QED BY <1>2, <1>3

\* A node of the course that a tree like it has is where the tree has it.
LEMMA TrailLike ==
  ASSUME NEW t, Forest(t), NEW s, Wood(s), Like(t, s)
  PROVE  \A p \in Names : At(t, p) \in DOMAIN s => Paths(s)[At(t, p)] = p
<1> DEFINE Q == {p \in Names : At(t, p) \in DOMAIN s => Paths(s)[At(t, p)] = p}
<1>1. <<>> \in Q
  <2>1. <<>> \in Names
    BY EmptySeq DEF Names
  <2>2. At(t, <<>>) \notin DOMAIN s
    BY AtEmpty, ChildOf DEF Wood
  <2> QED BY <2>1, <2>2
<1>2. ASSUME NEW p \in Names, p # <<>>, Front(p) \in Q PROVE p \in Q
  <2> SUFFICES ASSUME At(t, p) \in DOMAIN s PROVE Paths(s)[At(t, p)] = p
    OBVIOUS
  <2> DEFINE i == At(t, p)
             q == Paths(s)[i]
  <2>1. At(t, p) # None
    BY ChildOf DEF Wood
  <2>2. i \in DOMAIN t /\ t[i].parent = At(t, Front(p)) /\ t[i].name = Last(p)
    BY <1>2, <2>1, LeadsTo
  <2>3. s[i].parent = At(t, Front(p)) /\ s[i].name = Last(p)
    BY <2>2 DEF Like
  <2>4. /\ q \in Names /\ q # <<>> /\ Last(q) = s[i].name
        /\ s[i].parent \in DOMAIN s => Front(q) = Paths(s)[s[i].parent]
        /\ s[i].parent \notin DOMAIN s => Front(q) = <<>>
    BY TrailIs
  <2>5. Front(q) = Front(p)
    <3>1. CASE s[i].parent \in DOMAIN s
      BY <1>2, <2>3, <2>4, <3>1
    <3>2. CASE s[i].parent \notin DOMAIN s
      <4>1. s[i].parent = Top
        BY <3>2 DEF Wood, Forest, IsDir
      <4>2. Front(p) = <<>>
        BY <1>2, <2>3, <4>1, FrontIs, LeadsNone
      <4> QED BY <2>4, <3>2, <4>2
    <3> QED BY <3>1, <3>2
  <2> HIDE DEF q
  <2>6. q = p
    BY <1>2, <2>3, <2>4, <2>5, FrontLast
  <2> QED BY <2>6 DEF q
<1>3. Q = Names
  <2> HIDE DEF Q
  <2>1. Q \in SUBSET Names
    BY DEF Q
  <2> QED BY <1>1, <1>2, <2>1, PathInd
<1> QED BY <1>3

-----------------------------------------------------------------------------
(* A node more, or one at another place. *)

\* A folder or file more.
Plus(t, u, i, n) == DOMAIN u = DOMAIN t \cup {i} /\ u[i] = n /\ \A j \in DOMAIN t : u[j] = t[j]

\* With adds one, in a forest and in a wood.
LEMMA WithPlus ==
  ASSUME NEW t, Forest(t), NEW i \in Nat \ {0}, i \notin DOMAIN t, NEW n \in Nodes, IsDir(t, n.parent)
  PROVE  /\ Plus(t, With(t, i, n), i, n) /\ Forest(With(t, i, n))
         /\ Wood(t) => Wood(With(t, i, n))
<1> DEFINE u == With(t, i, n)
<1>1. Plus(t, u, i, n) /\ u = [j \in DOMAIN u |-> u[j]]
  BY DEF Plus, With
<1> HIDE DEF u
<1>2. Forest(u)
  <2>1. u \in [DOMAIN u -> Nodes] /\ DOMAIN u \subseteq Nat \ {0}
    BY <1>1 DEF Forest, Plus
  <2>2. \A a : IsDir(t, a) => IsDir(u, a)
    BY <1>1 DEF IsDir, Plus
  <2>3. \A j \in DOMAIN u : IsDir(t, u[j].parent)
    BY <1>1 DEF Forest, Plus
  <2> QED BY <2>1, <2>2, <2>3 DEF Forest
<1>3. ASSUME Wood(t) PROVE Wood(u)
  <2>1. PICK m, depth : Grades(t, m, depth)
    BY <1>3 DEF Wood
  <2> DEFINE deep == [j \in DOMAIN u |-> IF j = i THEN m + 1 ELSE depth[j]]
  <2>2. Grades(u, m + 1, deep)
    <3>1. m \in Nat /\ \A j \in DOMAIN t : depth[j] \in Nat /\ depth[j] <= m
      BY <2>1 DEF Grades
    <3>2. deep \in [DOMAIN u -> 0..(m + 1)]
      <4>1. \A j \in DOMAIN u : deep[j] \in 0..(m + 1)
        <5> TAKE j \in DOMAIN u
        <5>1. j # i => j \in DOMAIN t
          BY <1>1 DEF Plus
        <5>2. deep[j] = IF j = i THEN m + 1 ELSE depth[j]
          OBVIOUS
        <5> HIDE DEF deep
        <5> QED BY <3>1, <5>1, <5>2
      <4> QED BY <4>1
    <3>3. ASSUME NEW j \in DOMAIN u, u[j].parent \in DOMAIN u PROVE deep[u[j].parent] < deep[j]
      <4>1. u[j].parent # i /\ u[j].parent \in DOMAIN t
        <5>1. IsDir(t, u[j].parent)
          BY <1>1 DEF Plus, Forest
        <5>2. Top \notin DOMAIN u
          BY <1>2, ChildOf
        <5> QED BY <3>3, <5>1, <5>2 DEF IsDir
      <4>2. CASE j = i
        <5>1. deep[j] = m + 1 /\ deep[u[j].parent] = depth[u[j].parent]
          BY <3>3, <4>1, <4>2
        <5> HIDE DEF deep
        <5> QED BY <3>1, <4>1, <5>1
      <4>3. CASE j # i
        <5>1. j \in DOMAIN t /\ u[j] = t[j]
          BY <1>1, <4>3 DEF Plus
        <5>2. depth[u[j].parent] < depth[j]
          BY <2>1, <4>1, <5>1 DEF Grades
        <5>3. deep[j] = depth[j] /\ deep[u[j].parent] = depth[u[j].parent]
          BY <3>3, <4>1, <4>3
        <5> HIDE DEF deep
        <5> QED BY <5>2, <5>3
      <4> QED BY <4>2, <4>3
    <3> HIDE DEF deep
    <3> QED BY <3>1, <3>2, <3>3 DEF Grades
  <2> HIDE DEF deep
  <2> QED BY <1>2, <2>2 DEF Wood
<1> QED BY <1>1, <1>2, <1>3 DEF u

\* Without what is closed under going to children a forest is one, and so is a wood.
LEMMA WithoutForest ==
  ASSUME NEW t, Forest(t), NEW M, \A i \in DOMAIN t : t[i].parent \in M => i \in M
  PROVE  Forest(Without(t, M)) /\ (Wood(t) => Wood(Without(t, M)))
<1> DEFINE u == Without(t, M)
<1>1. /\ DOMAIN u = DOMAIN t \ M /\ (\A j \in DOMAIN u : u[j] = t[j])
      /\ u = [j \in DOMAIN u |-> u[j]]
  BY DEF Without, Restrict
<1> HIDE DEF u
<1>2. Forest(u)
  <2>1. u \in [DOMAIN u -> Nodes] /\ DOMAIN u \subseteq Nat \ {0}
    BY <1>1 DEF Forest
  <2>2. ASSUME NEW j \in DOMAIN u PROVE IsDir(u, u[j].parent)
    <3>1. j \in DOMAIN t /\ u[j] = t[j] /\ j \notin M /\ t[j].parent \notin M
      BY <1>1
    <3>2. IsDir(t, t[j].parent)
      BY <3>1 DEF Forest
    <3> QED BY <1>1, <3>1, <3>2 DEF IsDir
  <2> QED BY <2>1, <2>2 DEF Forest
<1>3. ASSUME Wood(t) PROVE Wood(u)
  <2>1. PICK m, depth : Grades(t, m, depth)
    BY <1>3 DEF Wood
  <2> DEFINE deep == [j \in DOMAIN u |-> depth[j]]
  <2>2. Grades(u, m, deep)
    <3>1. m \in Nat /\ \A j \in DOMAIN t : depth[j] \in 0..m
      BY <2>1 DEF Grades
    <3>2. \A j \in DOMAIN u : u[j].parent \in DOMAIN u => deep[u[j].parent] < deep[j]
      BY <1>1, <2>1 DEF Grades
    <3> QED BY <1>1, <3>1, <3>2 DEF Grades
  <2> HIDE DEF deep
  <2> QED BY <1>2, <2>2 DEF Wood
<1> QED BY <1>2, <1>3 DEF u

\* A node under another id, in another folder or with another name or size.
Put2(t, id, u, new) ==
  /\ DOMAIN u = (DOMAIN t \ {id}) \cup {new} /\ u \in [DOMAIN u -> Nodes]
  /\ u[new].dir = t[id].dir /\ \A j \in DOMAIN t : j # id /\ j # new => u[j] = t[j]
  /\ new = id \/ (~t[id].dir /\ (new \in DOMAIN t => ~t[new].dir))

\* That leaves a forest a forest, and a wood a wood if nothing comes below itself.
LEMMA PutForest ==
  ASSUME NEW t, Forest(t), NEW id \in DOMAIN t, NEW u, NEW new \in Nat \ {0},
         Put2(t, id, u, new), IsDir(t, u[new].parent)
  PROVE  /\ Forest(u)
         /\ Wood(t) /\ u[new].parent \notin Subtree(t, id) => Wood(u)
<1>1. \A a : IsDir(t, a) => IsDir(u, a) /\ (a = new => new = id)
  <2> SUFFICES ASSUME NEW a, IsDir(t, a) PROVE IsDir(u, a) /\ (a = new => new = id)
    OBVIOUS
  <2>1. CASE a = Top
    <3>1. Top # new
      BY DEF Top
    <3> QED BY <2>1, <3>1 DEF IsDir
  <2>2. CASE a # Top /\ a = id
    <3>1. t[id].dir
      BY <2>2 DEF IsDir
    <3>2. new = id
      BY <3>1 DEF Put2
    <3> QED BY <2>2, <3>1, <3>2 DEF IsDir, Put2
  <2>3. CASE a # Top /\ a # id
    <3>1. a \in DOMAIN t /\ t[a].dir
      BY <2>3 DEF IsDir
    <3>2. a # new
      BY <2>3, <3>1 DEF Put2
    <3>3. a \in DOMAIN u /\ u[a] = t[a]
      BY <2>3, <3>1, <3>2 DEF Put2
    <3> QED BY <3>1, <3>2, <3>3 DEF IsDir
  <2> QED BY <2>1, <2>2, <2>3
<1>2. \A j \in DOMAIN u : IsDir(t, u[j].parent)
  BY DEF Put2, Forest
<1>3. Forest(u)
  <2>1. DOMAIN u \subseteq Nat \ {0} /\ u \in [DOMAIN u -> Nodes]
    BY DEF Put2, Forest
  <2> QED BY <1>1, <1>2, <2>1 DEF Forest
<1>4. ASSUME Wood(t), u[new].parent \notin Subtree(t, id) PROVE Wood(u)
  <2>1. PICK m, depth : Grades(t, m, depth)
    BY <1>4 DEF Wood
  <2> DEFINE deep == [j \in DOMAIN u |-> IF j = new THEN m + 1
                                         ELSE IF j \in Subtree(t, id) THEN depth[j] + m + 2 ELSE depth[j]]
  <2>2. m \in Nat /\ \A j \in DOMAIN t : depth[j] \in Nat /\ depth[j] <= m
    BY <2>1 DEF Grades
  <2>3. Grades(u, 2 * m + 2, deep)
    <3>1. 2 * m + 2 \in Nat /\ deep \in [DOMAIN u -> 0..(2 * m + 2)]
      <4>1. \A j \in DOMAIN u : j # new => j \in DOMAIN t
        BY DEF Put2
      <4>2. \A j \in DOMAIN u : deep[j] \in 0..(2 * m + 2)
        BY <2>2, <4>1
      <4> QED BY <2>2, <4>2
    <3>2. ASSUME NEW j \in DOMAIN u, u[j].parent \in DOMAIN u PROVE deep[u[j].parent] < deep[j]
      <4> DEFINE a == u[j].parent
      <4>1. IsDir(t, a) /\ (a = new => new = id) /\ a \in DOMAIN t
        <5>1. Top \notin DOMAIN u
          BY <1>3, ChildOf
        <5> QED BY <1>1, <1>2, <3>2, <5>1 DEF IsDir
      <4>2. CASE j = new
        <5>1. a \notin Subtree(t, id)
          BY <1>4, <4>2
        <5>2. id \in Subtree(t, id)
          BY SubtreeIs
        <5>3. a # new
          BY <4>1, <5>1, <5>2
        <5> QED BY <2>2, <4>1, <4>2, <5>1, <5>3, <3>2
      <4>3. CASE j # new
        <5>1. j \in DOMAIN t /\ u[j] = t[j] /\ j # id
          BY <4>3 DEF Put2
        <5>2. depth[a] < depth[j]
          BY <2>1, <4>1, <5>1 DEF Grades
        <5>3. j \in Subtree(t, id) <=> a \in Subtree(t, id)
          BY <4>1, <5>1, SubtreeIs
        <5>4. CASE a = new
          <6>1. j \in Subtree(t, id)
            BY <4>1, <5>3, <5>4, SubtreeIs
          <6> QED BY <2>2, <3>2, <4>3, <5>1, <5>4, <6>1
        <5>5. CASE a # new
          BY <2>2, <3>2, <4>1, <4>3, <5>1, <5>2, <5>3, <5>5
        <5> QED BY <5>4, <5>5
      <4> QED BY <4>2, <4>3
    <3> HIDE DEF deep
    <3> QED BY <3>1, <3>2 DEF Grades
  <2> HIDE DEF deep
  <2> QED BY <1>3, <2>3 DEF Wood
<1> QED BY <1>3, <1>4

\* ReId is such a change, and leaves folder and name.
LEMMA ReIdOf ==
  ASSUME NEW t, Forest(t), NEW id \in DOMAIN t, NEW new, NEW size \in Int
  PROVE  ReIded(t, id, ReId(t, id, new, size), new, size)
<1> SUFFICES ASSUME NEW u, u = ReId(t, id, new, size) PROVE ReIded(t, id, u, new, size)
  OBVIOUS
<1>1. t[id] \in Nodes /\ t \in [DOMAIN t -> Nodes]
  BY DEF Forest
<1> DEFINE n == [t[id] EXCEPT !.size = size]
           w == Without(t, {id})
<1>2. /\ n \in Nodes /\ n.parent = t[id].parent /\ n.name = t[id].name /\ n.size = size
      /\ n.dir = t[id].dir
  BY <1>1 DEF Nodes
<1>3. u = With(w, new, n)
  BY DEF ReId
<1> HIDE DEF n
<1>4. DOMAIN w = DOMAIN t \ {id} /\ \A j \in DOMAIN w : w[j] = t[j]
  BY DEF Without, Restrict
<1> HIDE DEF w
<1>5. \A j \in DOMAIN w : w[j] \in Nodes
  BY <1>1, <1>4
<1>6. DOMAIN u = DOMAIN w \cup {new} /\ u[new] = n /\ (\A j \in DOMAIN w : j # new => u[j] = w[j])
      /\ u \in [DOMAIN u -> Nodes]
  BY <1>2, <1>3, <1>5 DEF With
<1> QED BY <1>2, <1>4, <1>6 DEF ReIded

\* A file has nothing in it, and in a wood nothing below it.
LEMMA FileEnds ==
  ASSUME NEW t, Forest(t), NEW id \in DOMAIN t, ~t[id].dir
  PROVE  Children(t, id) = {} /\ (Wood(t) => Subtree(t, id) = {id})
<1>1. \A j \in DOMAIN t : t[j].parent # id
  <2>1. id # Top
    BY ChildOf
  <2> QED BY <2>1 DEF Forest, IsDir
<1>2. ASSUME Wood(t) PROVE Subtree(t, id) = {id}
  <2> DEFINE K == {j \in DOMAIN t : j \in Subtree(t, id) => j = id}
  <2>1. \A j \in DOMAIN t : (t[j].parent \in DOMAIN t => t[j].parent \in K) => j \in K
    BY <1>1, SubtreeIs
  <2>2. K = DOMAIN t
    <3> HIDE DEF K
    <3>1. K \in SUBSET DOMAIN t
      BY DEF K
    <3> QED BY <1>2, <2>1, <3>1, WoodInd
  <2> QED BY <2>2, SubtreeIs
<1> QED BY <1>1, <1>2 DEF Children

-----------------------------------------------------------------------------
(* What holds of a call that is not misled, whatever has failed. *)

\* A tree with ids below n that is like s where it shows what is there.
Good(t, n, s) ==
  /\ Forest(t) /\ DOMAIN t \subseteq 1..(n - 1)
  /\ Named(t, opt) /\ Like(t, s)
\* The course is a wood, and so every tree that counts is like it.
Grown == Wood(server) /\ DOMAIN server \subseteq 1..(next - 1) /\ Named(server, opt)
Current ==
  /\ \A f \in Fs : Forest(tree[f]) /\ (label[f] = counter => Good(tree[f], next, server))
  /\ snapshot.gen = counter => Good(snapshot.tree, next, server)
\* What the course was before the call, and what a move has left of it.
Was ==
  /\ Wood(before) /\ DOMAIN before \subseteq 1..(next - 1)
  /\ ~Started => before = server
  /\ call.op = "move" /\ ~Done /\ ~call.lost =>
       \A i \in DOMAIN before : i \in DOMAIN server /\ server[i] = before[i]

\* Steps at which the call's node is where the call says.
Located ==
  \/ call.step \in {"stat", "rename", "copy", "unlink", "overwrite", "rmdir", "reparent"}
  \/ call.step = "parents" /\ call.op \in {"update", "move", "dirmove"}
\* A file of the course is in a folder of the tree under a name.
FiledAs(id, p) ==
  ~server[id].dir /\ server[id].parent = At(Now, Front(p)) /\ server[id].name = Last(p)
\* The file that an upload has left.
Licensing ==
  /\ call.id \in 1..(next - 1)
  /\ call.id \in DOMAIN server =>
       FiledAs(call.id, call.at)
  /\ call.dirty => call.op = "put" /\ call.id \notin DOMAIN Now /\ IsDir(Now, At(Now, Front(call.at)))
\* The copy that a move has made.
Copying ==
  /\ call.new \in 1..(next - 1) /\ call.new \notin DOMAIN Now /\ call.new \notin DOMAIN before
  /\ call.new \in DOMAIN server => FiledAs(call.new, call.to)
  /\ call.step = "unlink" =>
       /\ {call.id, call.new} \subseteq DOMAIN server
       /\ server[call.new].size = server[call.id].size
\* What a call knows at each step.
Knows ==
  /\ Started => label[call.f] = counter
  /\ ~Done => call.result = "none"
  /\ call.step \in {"ensure", "begin"} /\ call.op \in {"update", "remove", "move"} => call.id # None
  /\ Located => At(Now, call.at) = call.id /\ call.id # None /\ call.id # Top
  /\ call.step = "license" => Licensing
  /\ Moving => Copying
  /\ call.step = "rename" => Front(call.at) = Front(call.to)
  /\ call.op = "dirmove" /\ call.step \in {"parents", "reparent"} => At(Now, call.to) = None

\* The inductive invariant, as long as no call is misled.
Straight == Labels /\ Types /\ Arguments /\ Flags /\ Rooted /\ Grown /\ Current /\ Was /\ Knows

-----------------------------------------------------------------------------
(* What keeps it, apart from what the step does. *)

\* What every step starts from.
LEMMA Footing ==
  ASSUME Straight
  PROVE  /\ opt \in Scenarios /\ call \in Calls /\ next \in Nat \ {0} /\ call.f \in Fs /\ call.src \in Fs
         /\ call.at \in Names /\ call.to \in Names /\ call.id \in Int /\ Root[call.f] \in Names
         /\ Wood(server) /\ Forest(server) /\ next \notin DOMAIN server
         /\ Started => Good(Now, next, server) /\ Forest(Now) /\ next \notin DOMAIN Now
<1>1. /\ opt \in Scenarios /\ call \in Calls /\ next \in Nat \ {0} /\ call.f \in Fs /\ call.src \in Fs
      /\ call.at \in Names /\ call.to \in Names /\ call.id \in Int
  BY DEF Straight, Types, Calls
<1>2. next \notin 1..(next - 1)
  BY <1>1
<1>3. Wood(server) /\ Forest(server) /\ next \notin DOMAIN server
  BY <1>2 DEF Straight, Grown, Wood
<1>4. ASSUME Started PROVE Good(Now, next, server) /\ Forest(Now) /\ next \notin DOMAIN Now
  <2>1. label[call.f] = counter
    BY <1>4 DEF Straight, Knows
  <2>2. Good(Now, next, server)
    BY <1>1, <2>1 DEF Straight, Current, Now
  <2> QED BY <1>2, <2>2 DEF Good
<1>5. Root[call.f] \in Names
  BY <1>1, PathsAre
<1> QED BY <1>1, <1>3, <1>4, <1>5

\* Where paths lead are numbers.
LEMMA LeadsInt ==
  ASSUME NEW t, Forest(t), NEW p \in Names
  PROVE  At(t, p) \in Int /\ (At(t, p) # None => At(t, p) \in Nat)
<1>1. DOMAIN t \subseteq Nat
  BY DEF Forest
<1> QED BY <1>1, LeadsNone DEF None, Top

\* From nowhere every path leads nowhere.
LEMMA FromNowhere ==
  ASSUME NEW t, Forest(t), NEW p \in Names
  PROVE  GetNodeAtPath(t, None, p) = None
<1> DEFINE Q == {q \in Names : GetNodeAtPath(t, None, q) = None}
<1>1. <<>> \in Q
  BY PathStart, EmptySeq DEF Names
<1>2. ASSUME NEW q \in Names, q # <<>>, Front(q) \in Q PROVE q \in Q
  <2>1. GetNodeAtPath(t, None, q) = Child(t, None, Last(q))
    BY <1>2, PathStep
  <2>2. Child(t, None, Last(q)) = None
    BY ChildOf
  <2> QED BY <2>1, <2>2
<1>3. Q = Names
  <2> HIDE DEF Q
  <2>1. Q \in SUBSET Names
    BY DEF Q
  <2> QED BY <1>1, <1>2, <2>1, PathInd
<1> QED BY <1>3

\* A search from the root that is remembered finds what the path leads to, or nothing.
LEMMA FindOnly ==
  ASSUME Straight, Started, call.op \in {"put", "update", "remove", "rmdir", "purge", "mkdir"}
  PROVE  Find(call.f, call.at) \in {None, At(Now, call.at)}
<1>1. opt \in Scenarios /\ call.f \in Fs /\ call.at \in Names /\ Forest(Now)
  BY Footing
<1>2. IsPrefix(Root[call.f], call.at) /\ Root[call.f] \in Names
  BY <1>1, PathsAre DEF Straight, Arguments
<1>3. relativeRoot[call.f] \in {None, At(Now, Root[call.f])}
  BY <1>1 DEF Straight, Rooted, Now
<1>4. CASE relativeRoot[call.f] = At(Now, Root[call.f])
  BY <1>1, <1>2, <1>4, FindIs DEF Find, Now
<1>5. CASE relativeRoot[call.f] = None
  <2>1. Rest(call.at, call.f) \in Names
    <3>1. Len(Root[call.f]) \in Nat /\ Len(call.at) \in Nat
      BY <1>1, <1>2 DEF Names
    <3> QED BY <1>1, <3>1 DEF Rest, Names
  <2>2. GetNodeAtPath(Now, None, Rest(call.at, call.f)) = None
    BY <1>1, <2>1, FromNowhere
  <2> QED BY <1>5, <2>2 DEF Find, NodeOf, Now
<1> QED BY <1>3, <1>4, <1>5

\* The course loses some, may gain the next one, and what stays is where it was.
Remains ==
  /\ DOMAIN server' \subseteq DOMAIN server \cup {next}
  /\ \A i \in DOMAIN server \cap DOMAIN server' :
       server'[i].dir = server[i].dir /\ server'[i].parent = server[i].parent
       /\ server'[i].name = server[i].name

\* A tree that was good is so after such a change.
LEMMA GoodStays ==
  ASSUME Straight, Remains, next' \in Nat, next <= next', NEW t, Good(t, next, server)
  PROVE  Good(t, next', server')
<1>1. next \in Nat /\ next \notin 1..(next - 1) /\ 1..(next - 1) \subseteq 1..(next' - 1)
  BY Footing
<1>2. Like(t, server')
  BY <1>1 DEF Remains, Good, Like
<1> QED BY <1>1, <1>2 DEF Good

\* The course that does not change is kept.
LEMMA RemainsSame ==
  ASSUME UNCHANGED course
  PROVE  Remains
BY DEF course, Remains

\* What the instances have stays good.
LEMMA CachesStay ==
  ASSUME Straight, UNCHANGED <<opt, caches>>, Remains, next' \in Nat, next <= next'
  PROVE  Labels' /\ Current' /\ Rooted'
<1>1. Labels' /\ Rooted'
  BY DEF Straight, Labels, Rooted, caches
<1>2. Current'
  <2>1. ASSUME NEW f \in Fs, label'[f] = counter' PROVE Good(tree'[f], next', server')
    <3>1. Good(tree[f], next, server)
      BY <2>1 DEF Straight, Current, caches
    <3>2. Good(tree[f], next', server')
      BY <3>1, GoodStays
    <3> QED BY <3>2 DEF caches
  <2>2. ASSUME snapshot'.gen = counter' PROVE Good(snapshot'.tree, next', server')
    <3>1. Good(snapshot.tree, next, server)
      BY <2>2 DEF Straight, Current, caches
    <3>2. Good(snapshot.tree, next', server')
      BY <3>1, GoodStays
    <3> QED BY <3>2 DEF caches
  <2>3. opt' = opt /\ \A f \in Fs : Forest(tree'[f])
    BY DEF Straight, Current, caches
  <2> QED BY <2>1, <2>2, <2>3 DEF Current, Good
<1> QED BY <1>1, <1>2

\* After a commit only the tree that is committed counts.
LEMMA CachesCommit ==
  ASSUME Straight, opt' = opt, NEW t, NEW root, Commit(t, root), Good(t, next', server'),
         root \in {None, At(t, Root[call.f])}
  PROVE  /\ Labels' /\ Current' /\ Rooted' /\ tree'[call.f] = t /\ label'[call.f] = counter'
         /\ \A f \in Fs \ {call.f} : tree'[f] = tree[f]
<1>1. /\ tree' = [tree EXCEPT ![call.f] = t] /\ relativeRoot' = [relativeRoot EXCEPT ![call.f] = root]
      /\ counter' = counter + 1 /\ label' = [label EXCEPT ![call.f] = counter + 1]
      /\ snapshot' = [gen |-> counter + 1, tree |-> t]
  BY DEF Commit
<1>2. call.f \in Fs
  BY Footing
<1>3. /\ counter \in Nat /\ label \in [Fs -> Nat] /\ \A f \in Fs : label[f] <= counter
      /\ tree = [f \in Fs |-> tree[f]] /\ relativeRoot = [f \in Fs |-> relativeRoot[f]]
  BY DEF Straight, Labels
<1>4. /\ tree'[call.f] = t /\ relativeRoot'[call.f] = root /\ label'[call.f] = counter'
      /\ \A f \in Fs \ {call.f} : /\ tree'[f] = tree[f] /\ relativeRoot'[f] = relativeRoot[f]
                                  /\ label'[f] = label[f]
      /\ tree' = [f \in Fs |-> tree'[f]] /\ relativeRoot' = [f \in Fs |-> relativeRoot'[f]]
  BY <1>1, <1>2, <1>3
<1>5. counter' \in Nat /\ label' \in [Fs -> Nat] /\ (\A f \in Fs : label'[f] <= counter')
      /\ \A f \in Fs \ {call.f} : label'[f] # counter'
  BY <1>1, <1>2, <1>3
<1>6. snapshot'.gen = counter' /\ snapshot'.tree = t
  BY <1>1
<1>7. Labels'
  BY <1>4, <1>5, <1>6 DEF Labels
<1>8. Rooted'
  <2>1. \A f \in Fs : relativeRoot[f] \in {None, At(tree[f], Root[f])}
    BY DEF Straight, Rooted
  <2> QED BY <1>4, <2>1 DEF Rooted
<1>9. Current'
  <2>1. \A f \in Fs : Forest(tree'[f])
    BY <1>4 DEF Straight, Current, Good
  <2> QED BY <1>4, <1>5, <1>6, <2>1 DEF Current, Good
<1> QED BY <1>4, <1>7, <1>8, <1>9

\* After a bump without a tree none counts.
LEMMA CachesForget ==
  ASSUME Straight, Forget
  PROVE  Labels' /\ Current' /\ Rooted'
<1>1. /\ counter \in Nat /\ label \in [Fs -> Nat] /\ \A f \in Fs : label[f] <= counter
      /\ snapshot.gen \in Nat /\ snapshot.gen <= counter
  BY DEF Straight, Labels
<1>2. counter' = counter + 1 /\ UNCHANGED <<snapshot, tree, relativeRoot, label>>
  BY DEF Forget
<1>3. counter' \in Nat /\ (\A f \in Fs : label[f] <= counter' /\ label[f] # counter')
      /\ snapshot.gen <= counter' /\ snapshot.gen # counter'
  BY <1>1, <1>2
<1>4. Labels' /\ Rooted'
  BY <1>2, <1>3 DEF Straight, Labels, Rooted
<1>5. Current'
  BY <1>2, <1>3 DEF Straight, Current
<1> QED BY <1>4, <1>5

\* A refresh installs what is like the course.
LEMMA CachesRefresh ==
  ASSUME Straight, NEW some \in SUBSET Fs, Refresh(some) \/ Refresh(Outdated(some)),
         UNCHANGED <<opt, course>>
  PROVE  Labels' /\ Current' /\ Rooted' /\ \A f \in some : label'[f] = counter'
<1>1. PICK of \in SUBSET Fs : Refresh(of) /\ \A f \in some : f \in of \/ label[f] = counter
  <2>1. CASE Refresh(some)
    BY <2>1
  <2>2. CASE Refresh(Outdated(some))
    <3>1. Outdated(some) \in SUBSET Fs /\ \A f \in some : f \in Outdated(some) \/ label[f] = counter
      BY DEF Outdated
    <3> QED BY <2>2, <3>1
  <2> QED BY <2>1, <2>2
<1>2. /\ tree' = [f \in Fs |-> IF f \in of THEN Latest ELSE tree[f]]
      /\ relativeRoot' = [f \in Fs |-> IF f \in of THEN At(Latest, Root[f]) ELSE relativeRoot[f]]
      /\ label' = [f \in Fs |-> IF f \in of THEN counter ELSE label[f]]
      /\ snapshot' = (IF of = {} THEN snapshot ELSE [gen |-> counter, tree |-> Latest])
      /\ counter' = counter
  BY <1>1 DEF Refresh, At
<1>3. Good(Latest, next, server)
  <2>1. CASE snapshot.gen = counter
    BY <2>1 DEF Latest, Straight, Current
  <2>2. CASE snapshot.gen # counter
    <3>1. Good(server, next, server)
      BY DEF Straight, Grown, Good, Wood, Like
    <3> QED BY <2>2, <3>1 DEF Latest
  <2> QED BY <2>1, <2>2
<1> HIDE DEF Latest
<1>4. counter \in Nat /\ label \in [Fs -> Nat] /\ (\A f \in Fs : label[f] <= counter)
      /\ snapshot.gen \in Nat /\ snapshot.gen <= counter
  BY DEF Straight, Labels
<1>5. snapshot'.gen \in Nat /\ snapshot'.gen <= counter'
      /\ (snapshot'.gen = counter' => snapshot' = snapshot \/ snapshot'.tree = Latest)
  BY <1>2, <1>4
<1>6. Labels'
  <2>1. label' \in [Fs -> Nat] /\ \A f \in Fs : label'[f] <= counter'
    BY <1>2, <1>4
  <2>2. tree' = [f \in Fs |-> tree'[f]] /\ relativeRoot' = [f \in Fs |-> relativeRoot'[f]]
    BY <1>2
  <2> QED BY <1>2, <1>4, <1>5, <2>1, <2>2 DEF Labels
<1>7. Rooted'
  <2>1. \A f \in Fs : relativeRoot[f] \in {None, At(tree[f], Root[f])}
    BY DEF Straight, Rooted
  <2>2. \A f \in Fs : /\ tree'[f] = (IF f \in of THEN Latest ELSE tree[f])
                      /\ relativeRoot'[f] = (IF f \in of THEN At(Latest, Root[f]) ELSE relativeRoot[f])
    BY <1>2
  <2> QED BY <2>1, <2>2 DEF Rooted
<1>8. Current'
  <2>1. \A f \in Fs : label'[f] = counter' => tree'[f] = Latest \/ (label[f] = counter /\ tree'[f] = tree[f])
    BY <1>2
  <2>2. \A f \in Fs : label'[f] = counter' => Good(tree'[f], next, server)
    BY <1>3, <2>1 DEF Straight, Current
  <2>3. snapshot'.gen = counter' => Good(snapshot'.tree, next, server)
    BY <1>2, <1>3, <1>5 DEF Straight, Current
  <2>4. next' = next /\ server' = server /\ opt' = opt
    BY DEF course
  <2>5. \A f \in Fs : Forest(tree'[f])
    BY <1>2, <1>3 DEF Straight, Current, Good
  <2> QED BY <2>2, <2>3, <2>4, <2>5 DEF Current, Good
<1>9. \A f \in some : label'[f] = counter'
  BY <1>1, <1>2
<1> QED BY <1>6, <1>7, <1>8, <1>9

-----------------------------------------------------------------------------
(* Calls that stop, and steps that leave the trees alone. *)

\* More ids are below a later bound.
LEMMA Wider ==
  ASSUME NEW n \in Nat, NEW m \in Nat, n <= m
  PROVE  1..(n - 1) \subseteq 1..(m - 1)
OBVIOUS

\* A call that is over leaves nothing to know but the course.
LEMMA EndsStraight ==
  ASSUME Straight, UNCHANGED <<opt, held>>, Over, before' = server', next' \in Nat \ {0},
         Grown', Labels', Current', Rooted'
  PROVE  Straight'
<1>1. Types' /\ Arguments'
  BY DEF Straight, Types, Arguments, Over, Same, Files, Folders, Own
<1>2. Flags' /\ Knows'
  BY DEF Flags, Fits, Knows, Located, Moving, Started, Done, Over
<1>3. Was'
  BY DEF Was, Grown, Done, Over
<1> QED BY <1>1, <1>2, <1>3 DEF Straight

\* A call that goes on, with what it then knows.
LEMMA GoesStraight ==
  ASSUME Straight, UNCHANGED <<opt, before>>, next' \in Nat \ {0}, next <= next',
         held' \in [Fs -> Objects], \A g \in Fs : held[g].id # None => held'[g].id # None,
         \A g \in Fs : held'[g] = NoObject \/ (held'[g].id # None /\ held'[g].at \in Files(g)),
         call' \in Calls, Same, call.step # "done", Started',
         call.op = "move" /\ ~call'.lost =>
           ~call.lost /\ \A i \in DOMAIN server : i \in DOMAIN server' /\ server'[i] = server[i],
         Grown', Labels', Current', Rooted', Flags', Knows'
  PROVE  Straight'
<1>1. call.f \in Fs
  BY Footing
<1>2. Types' /\ Arguments'
  BY <1>1 DEF Straight, Types, Arguments, Same, Files, Folders, Own
<1>3. Was'
  <2>1. Wood(before') /\ DOMAIN before' \subseteq 1..(next' - 1)
    <3>1. next \in Nat /\ Wood(before) /\ DOMAIN before \subseteq 1..(next - 1)
      BY Footing DEF Straight, Was
    <3>2. 1..(next - 1) \subseteq 1..(next' - 1)
      BY <3>1, Wider
    <3> QED BY <3>1, <3>2
  <2>2. Started'
    OBVIOUS
  <2>3. ASSUME call'.op = "move", ~call'.lost
        PROVE  \A i \in DOMAIN before' : i \in DOMAIN server' /\ server'[i] = before'[i]
    <3>1. ~call.lost /\ ~Done /\ call.op = "move"
      BY <2>3 DEF Same, Done
    <3>2. \A i \in DOMAIN before : i \in DOMAIN server /\ server[i] = before[i]
      BY <3>1 DEF Straight, Was
    <3> QED BY <2>3, <3>1, <3>2
  <2> QED BY <2>1, <2>2, <2>3 DEF Was, Done
<1> QED BY <1>2, <1>3 DEF Straight

\* A call that only reads goes on.
LEMMA ReadsOn ==
  ASSUME Straight, UNCHANGED <<opt, course, caches, held, before>>, Same, call' \in Calls,
         call'.lost = call.lost, Started, Started', Flags', Knows'
  PROVE  Straight'
<1>1. next \in Nat \ {0} /\ next' = next /\ server' = server
  BY Footing DEF course
<1>2. Labels' /\ Current' /\ Rooted'
  BY <1>1, RemainsSame, CachesStay
<1>3. Grown'
  BY <1>1 DEF Straight, Grown
<1>4. held' \in [Fs -> Objects]
      /\ \A g \in Fs : held'[g] = NoObject \/ (held'[g].id # None /\ held'[g].at \in Files(g))
  BY DEF Straight, Types, Arguments
<1> QED BY <1>1, <1>2, <1>3, <1>4, GoesStraight DEF Started

\* A call stops that has changed nothing.
LEMMA StopsStraight ==
  ASSUME Straight, UNCHANGED opt, NEW r \in {"ok", "failed", "exists"}, Stop(r)
  PROVE  Straight'
<1>1. Over /\ before' = server'
  BY ReturnIs, Footing DEF Stop, Return
<1>2. next \in Nat \ {0} /\ next' = next /\ server' = server
  BY Footing DEF Stop, course
<1>3. UNCHANGED <<opt, caches, held, course>>
  BY DEF Stop
<1>4. Labels' /\ Current' /\ Rooted'
  BY <1>2, <1>3, RemainsSame, CachesStay
<1>5. Grown'
  BY <1>2 DEF Straight, Grown
<1> QED BY <1>1, <1>2, <1>3, <1>4, <1>5, EndsStraight

-----------------------------------------------------------------------------
(* What the requests do to the course. *)

\* The next folder or file is added.
Receives(node) ==
  /\ Plus(server, server', next, node) /\ next' = next + 1 /\ Grown' /\ Remains

\* A request that makes a node gives the course one more.
LEMMA ReceivesIs ==
  ASSUME Straight, NEW node \in Nodes, IsDir(server, node.parent), UNCHANGED opt,
         node.name \notin (IF node.dir THEN FileNames(opt) ELSE FolderNames(opt)),
         server' = With(server, next, node),
         next' = IF next \in DOMAIN server' THEN next + 1 ELSE next
  PROVE  Receives(node)
<1>1. next \in Nat \ {0} /\ next \notin DOMAIN server /\ Wood(server) /\ Forest(server)
  BY Footing
<1>2. Plus(server, server', next, node) /\ Wood(server')
  BY <1>1, WithPlus
<1>3. next' = next + 1
  BY <1>2 DEF Plus
<1>4. DOMAIN server' \subseteq 1..(next' - 1)
  <2>1. DOMAIN server \subseteq 1..(next - 1)
    BY DEF Straight, Grown
  <2>2. 1..(next - 1) \subseteq 1..(next' - 1) /\ next \in 1..(next' - 1)
    BY <1>1, <1>3
  <2> QED BY <1>2, <2>1, <2>2 DEF Plus
<1>5. Named(server', opt')
  <2>1. Named(server, opt)
    BY DEF Straight, Grown
  <2> QED BY <1>2, <2>1 DEF Named, Plus
<1>6. Remains
  BY <1>1, <1>2 DEF Remains, Plus
<1> QED BY <1>2, <1>3, <1>4, <1>5, <1>6 DEF Receives, Grown

\* Some are removed, with all that is in them.
LEMMA LostNodes ==
  ASSUME Straight, NEW M, \A i \in DOMAIN server : server[i].parent \in M => i \in M, UNCHANGED opt,
         server' = Without(server, M),
         next' = IF next \in DOMAIN server' THEN next + 1 ELSE next
  PROVE  /\ DOMAIN server' = DOMAIN server \ M /\ \A i \in DOMAIN server' : server'[i] = server[i]
         /\ next' = next /\ Grown' /\ Remains
<1>1. DOMAIN server' = DOMAIN server \ M /\ \A i \in DOMAIN server' : server'[i] = server[i]
  <2> DEFINE w == Without(server, M)
  <2>1. DOMAIN w = DOMAIN server \ M /\ \A i \in DOMAIN server \ M : w[i] = server[i]
    BY WithoutIs
  <2>2. server' = w
    OBVIOUS
  <2> HIDE DEF w
  <2> QED BY <2>1, <2>2
<1>2. next' = next
  <2>1. next \notin DOMAIN server
    BY Footing
  <2>2. next \notin DOMAIN server'
    BY <1>1, <2>1
  <2> QED BY <2>2
<1>3. Wood(server')
  BY Footing, WithoutForest
<1>4. Grown'
  BY <1>1, <1>2, <1>3 DEF Straight, Grown, Named
<1> QED BY <1>1, <1>2, <1>4 DEF Remains

\* A file gets another size, and may get the next id.
LEMMA RenewedNode ==
  ASSUME Straight, NEW id \in DOMAIN server, ~server[id].dir, NEW new \in {id, next}, UNCHANGED opt,
         NEW size \in Int, server' = ReId(server, id, new, size),
         next' = IF next \in DOMAIN server' THEN next + 1 ELSE next
  PROVE  /\ ReIded(server, id, server', new, size) /\ next' \in Nat \ {0} /\ next <= next'
         /\ Grown' /\ Remains /\ new \in 1..(next' - 1)
<1>1. next \in Nat \ {0} /\ next \notin DOMAIN server /\ Wood(server) /\ Forest(server)
      /\ DOMAIN server \subseteq 1..(next - 1)
  BY Footing DEF Straight, Grown
<1>2. ReIded(server, id, server', new, size)
  BY <1>1, ReIdOf
<1>3. new \in Nat \ {0}
  BY <1>1
<1>4. Put2(server, id, server', new)
  BY <1>1, <1>2 DEF ReIded, Put2
<1>5. IsDir(server, server'[new].parent) /\ server'[new].parent \notin Subtree(server, id)
  <2>1. Subtree(server, id) = {id}
    BY <1>1, FileEnds
  <2>2. server'[new].parent = server[id].parent /\ IsDir(server, server[id].parent)
    BY <1>1, <1>2 DEF ReIded, Forest
  <2>3. server[id].parent # id
    BY <1>1, <2>2, ChildOf DEF IsDir
  <2> QED BY <2>1, <2>2, <2>3
<1>6. Wood(server')
  BY <1>1, <1>3, <1>4, <1>5, PutForest
<1>7. next' \in Nat \ {0} /\ next <= next' /\ DOMAIN server' \subseteq 1..(next' - 1) /\ new \in 1..(next' - 1)
  <2>1. DOMAIN server' = (DOMAIN server \ {id}) \cup {new}
    BY <1>2 DEF ReIded
  <2>2. CASE new = id
    <3>1. next' = next /\ DOMAIN server' = DOMAIN server
      BY <1>1, <2>1, <2>2
    <3> QED BY <1>1, <2>2, <3>1
  <2>3. CASE new = next
    <3>1. next' = next + 1
      BY <2>1, <2>3
    <3>2. 1..(next - 1) \subseteq 1..(next' - 1) /\ next \in 1..(next' - 1)
      BY <1>1, <3>1
    <3> QED BY <1>1, <2>1, <2>3, <3>1, <3>2
  <2> QED BY <2>2, <2>3
<1>8. Named(server', opt')
  <2>1. Named(server, opt)
    BY DEF Straight, Grown
  <2> QED BY <1>1, <1>2, <2>1 DEF Named, ReIded
<1>9. Remains
  BY <1>1, <1>2 DEF Remains, ReIded
<1> QED BY <1>2, <1>6, <1>7, <1>8, <1>9 DEF Grown

\* A node gets another folder or name.
LEMMA PlacedNode ==
  ASSUME Straight, NEW id \in DOMAIN server, NEW up \in Nat, NEW name \in STRING, UNCHANGED opt,
         Placed(server, id, server', up, name), IsDir(server, up), up \notin Subtree(server, id),
         name \notin (IF server[id].dir THEN FileNames(opt) ELSE FolderNames(opt)),
         next' = IF next \in DOMAIN server' THEN next + 1 ELSE next
  PROVE  next' = next /\ Grown' /\ DOMAIN server' = DOMAIN server
<1>1. next \in Nat \ {0} /\ next \notin DOMAIN server /\ Wood(server) /\ Forest(server)
      /\ DOMAIN server \subseteq 1..(next - 1) /\ Named(server, opt)
  BY Footing DEF Straight, Grown
<1>2. DOMAIN server' = DOMAIN server /\ next' = next
  BY <1>1 DEF Placed
<1>3. Put2(server, id, server', id) /\ server'[id].parent = up
  BY <1>2 DEF Put2, Placed
<1>4. id \in Nat \ {0}
  BY <1>1 DEF Forest
<1>5. Wood(server')
  BY <1>1, <1>3, <1>4, PutForest
<1>6. Named(server', opt')
  BY <1>1, <1>2 DEF Named, Placed
<1> QED BY <1>1, <1>2, <1>5, <1>6 DEF Grown

-----------------------------------------------------------------------------
(* Handlers that read the tree. *)

\* What Pass and Go leave as it was.
LEMMA PassLeaves ==
  ASSUME call \in Calls, NEW s \in StepNames, NEW id \in Int, NEW a \in BOOLEAN, Pass(s, id, a) \/ Go(s)
  PROVE  call'.lost = call.lost /\ call'.result = call.result /\ call'.new = call.new
<1>1. call' = [call EXCEPT !.step = s, !.id = id, !.again = a] \/ call' = [call EXCEPT !.step = s]
  BY DEF Pass, Go
<1> QED BY <1>1 DEF Calls

\* A step leaves what only requests and their answers set.
LEMMA GoLeaves ==
  ASSUME call \in Calls, NEW s \in StepNames, Go(s)
  PROVE  call'.lost = call.lost /\ call'.result = call.result /\ call'.new = call.new
BY DEF Go, Calls

\* What a call that is not misled finds when it begins.
Agreeing ==
  /\ call.id # None => At(Now, call.at) = call.id
  /\ \A p \in {call.at, call.to} : At(Now, p) = At(tree[call.src], p)

\* A call that goes on from its first step is not misled there.
LEMMA AgreesNow ==
  ASSUME misled' = (misled \/ Misleads), ~misled', call.step = "begin"
  PROVE  Agreeing
<1>1. ~Misleads
  OBVIOUS
<1>2. /\ call.id # None => At(tree[call.src], call.at) = call.id
      /\ \A p \in {call.at, call.to} : At(Now, p) = At(tree[call.src], p)
  BY <1>1 DEF Misleads, At, Now
<1> QED BY <1>2 DEF Agreeing

\* A handler has read the tree and goes on to a step that it may go to.
LEMMA ReadsTo ==
  ASSUME Straight, UNCHANGED <<opt, course, caches, held, before>>,
         call.step \in {"begin", "look", "again", "stat"},
         NEW s \in StepNames \ {"ensure", "begin", "create", "license", "cleanup", "done"},
         NEW id \in Int, Onto(s, id), Fits(call.op, s),
         call'.lost = call.lost, call'.result = call.result,
         \/ s \in {"stat", "rename", "unlink", "overwrite", "copy", "rmdir", "reparent"}
         \/ s = "parents" /\ call.op \in {"update", "move", "dirmove"}
         => At(Now, call.at) = id /\ id # None /\ id # Top,
         s = "rename" => Front(call.at) = Front(call.to),
         s = "unlink" => call.op # "move",
         s = "overwrite" => call.step = "begin",
         s = "parents" /\ call.op = "dirmove" => At(Now, call.to) = None,
         s # "reparent"
  PROVE  Straight'
<1>1. Started /\ Started' /\ ~call.made /\ (call.step = "begin" => ~call.dirty) /\ call \in Calls
  BY Footing DEF Straight, Flags, Started, Onto
<1>2. Now' = Now
  BY DEF Now, Onto, Same, caches
<1>3. Flags'
  BY <1>1 DEF Flags, Onto, Same, Straight
<1>4. Knows'
  <2>1. label'[call'.f] = counter'
    BY <1>1 DEF Straight, Knows, caches, Onto, Same
  <2>2. call'.result = "none"
    BY <1>1 DEF Straight, Knows, Done, Started
  <2>3. Located' => At(Now', call'.at) = call'.id /\ call'.id # None /\ call'.id # Top
    BY <1>2 DEF Located, Onto, Same
  <2>4. ~Moving' /\ call'.step # "license" /\ call'.step \notin {"ensure", "begin"}
    BY DEF Moving, Onto, Same
  <2>5. call'.step = "rename" => Front(call'.at) = Front(call'.to)
    BY DEF Onto, Same
  <2>6. call'.op = "dirmove" /\ call'.step \in {"parents", "reparent"} => At(Now', call'.to) = None
    BY <1>2 DEF Onto, Same
  <2> QED BY <2>1, <2>2, <2>3, <2>4, <2>5, <2>6 DEF Knows
<1> QED BY <1>1, <1>3, <1>4, ReadsOn DEF Onto

\* Each handler that only reads keeps the invariant.
LEMMA BeginPutStraight ==
  ASSUME Straight, BeginPut, UNCHANGED <<opt, before>>
  PROVE  Straight'
<1> DEFINE id == Find(call.f, call.at)
<1>1. /\ call.op = "put" /\ call.step = "begin" /\ Started /\ call \in Calls /\ Forest(Now)
      /\ call.at \in Names /\ NodeAt(call.at) = At(Now, call.at)
  BY Footing DEF BeginPut, Started, NodeAt, At, Now
<1>2. id \in {None, At(Now, call.at)}
  BY <1>1, FindOnly
<1>3. id \in Int /\ None \in Int
  BY <1>1, <1>2, LeadsInt, NoneInt
<1>4. CASE id # None /\ ~IsDir(tree[call.f], id)
  <2>1. Pass("overwrite", id, FALSE)
    BY <1>4 DEF BeginPut
  <2>2. id # Top
    BY <1>4 DEF IsDir
  <2> HIDE DEF id
  <2>3. Onto("overwrite", id) /\ UNCHANGED <<course, caches, held>>
    BY <1>1, <1>3, <2>1, PassIs DEF StepNames
  <2>4. call'.lost = call.lost /\ call'.result = call.result
    BY <1>1, <1>3, <2>1, PassLeaves DEF StepNames
  <2> QED BY <1>1, <1>2, <1>3, <1>4, <2>2, <2>3, <2>4, ReadsTo DEF StepNames, Fits
<1>5. CASE ~(id # None /\ ~IsDir(tree[call.f], id))
  <2>1. Pass("parents", None, FALSE)
    BY <1>5 DEF BeginPut
  <2>2. Onto("parents", None) /\ UNCHANGED <<course, caches, held>>
    BY <1>1, <1>3, <2>1, PassIs DEF StepNames
  <2>3. call'.lost = call.lost /\ call'.result = call.result
    BY <1>1, <1>3, <2>1, PassLeaves DEF StepNames
  <2> QED BY <1>1, <1>3, <2>2, <2>3, ReadsTo DEF StepNames, Fits
<1> QED BY <1>4, <1>5

\* The handlers look for what the call is about, in the tree they go by.
LEMMA BeginMkdirStraight ==
  ASSUME Straight, BeginMkdir, UNCHANGED opt
  PROVE  Straight'
<1>1. call.op = "mkdir" /\ call.step = "begin" /\ call \in Calls /\ None \in Int
  BY Footing, NoneInt DEF BeginMkdir
<1>2. CASE Stop("ok")
  BY <1>2, StopsStraight
<1>3. CASE Pass("parents", None, FALSE)
  <2>1. Onto("parents", None) /\ UNCHANGED <<course, caches, held, before>>
    BY <1>1, <1>3, PassIs DEF StepNames, Pass, ghosts
  <2>2. call'.lost = call.lost /\ call'.result = call.result
    BY <1>1, <1>3, PassLeaves DEF StepNames
  <2> QED BY <1>1, <2>1, <2>2, ReadsTo DEF StepNames, Fits
<1> QED BY <1>2, <1>3 DEF BeginMkdir

LEMMA BeginRmdirStraight ==
  ASSUME Straight, BeginRmdir, UNCHANGED opt
  PROVE  Straight'
<1> DEFINE id == Find(call.f, call.at)
<1>1. /\ call.op \in {"rmdir", "purge"} /\ call.step \in {"begin", "again"} /\ Started /\ call \in Calls
      /\ Forest(Now) /\ call.at \in Names
  BY Footing DEF BeginRmdir, Started
<1>2. id \in {None, At(Now, call.at)}
  BY <1>1, FindOnly
<1>3. id \in Int
  BY <1>1, <1>2, LeadsInt, NoneInt
<1>4. \/ Stop("failed")
      \/ id \notin {None, Top} /\ \E s \in {"rmdir", "look"} : Pass(s, id, FALSE)
  BY DEF BeginRmdir
<1> HIDE DEF id
<1>5. CASE Stop("failed")
  BY <1>5, StopsStraight
<1>6. ASSUME id \notin {None, Top}, NEW s \in {"rmdir", "look"}, Pass(s, id, FALSE) PROVE Straight'
  <2>1. s \in StepNames \ {"ensure", "begin", "create", "license", "cleanup", "done"}
    BY <1>6 DEF StepNames
  <2>2. Onto(s, id) /\ UNCHANGED <<course, caches, held, before>>
    BY <1>1, <1>3, <1>6, <2>1, PassIs DEF Pass, ghosts
  <2>3. call'.lost = call.lost /\ call'.result = call.result
    BY <1>1, <1>3, <1>6, <2>1, PassLeaves
  <2>4. Fits(call.op, s) /\ s \notin {"parents", "overwrite", "unlink", "rename", "reparent"}
    BY <1>1, <1>6 DEF Fits
  <2>5. At(Now, call.at) = id /\ id # None /\ id # Top
    BY <1>2, <1>6
  <2> QED BY <1>1, <1>3, <2>1, <2>2, <2>3, <2>4, <2>5, ReadsTo
<1> QED BY <1>4, <1>5, <1>6

LEMMA BeginUpdateStraight ==
  ASSUME Straight, BeginUpdate, UNCHANGED opt, Agreeing
  PROVE  Straight'
<1>1. call.op = "update" /\ call.step = "begin" /\ call \in Calls /\ Started /\ call.id \in Int
  BY Footing DEF BeginUpdate, Started
<1>2. call.id # None /\ At(Now, call.at) = call.id
  BY <1>1 DEF Straight, Knows, Agreeing
<1>3. call.id # Top
  <2>1. call.at \in Names /\ call.at # <<>>
    BY <1>1, Footing, PathsAre DEF Straight, Arguments
  <2> QED BY <1>1, <1>2, <2>1, Footing, LeadsNone
<1>4. \E s \in {"parents", "overwrite"} : \E a \in BOOLEAN : Pass(s, call.id, a)
  BY <1>1 DEF BeginUpdate
<1>5. ASSUME NEW s \in {"parents", "overwrite"}, NEW a \in BOOLEAN, Pass(s, call.id, a) PROVE Straight'
  <2>1. s \in StepNames \ {"ensure", "begin", "create", "license", "cleanup", "done"}
    BY <1>5 DEF StepNames
  <2>2. Onto(s, call.id) /\ UNCHANGED <<course, caches, held, before>>
    BY <1>1, <1>5, <2>1, PassIs DEF Pass, ghosts
  <2>3. call'.lost = call.lost /\ call'.result = call.result
    BY <1>1, <1>5, <2>1, PassLeaves
  <2>4. Fits(call.op, s) /\ s \notin {"unlink", "rename", "reparent"} /\ call.op # "dirmove"
    BY <1>1, <1>5 DEF Fits
  <2> QED BY <1>1, <1>2, <1>3, <2>1, <2>2, <2>3, <2>4, ReadsTo
<1> QED BY <1>4, <1>5

LEMMA BeginRemoveStraight ==
  ASSUME Straight, BeginRemove, UNCHANGED opt, Agreeing
  PROVE  Straight'
<1>1. call.op = "remove" /\ call.step = "begin" /\ call \in Calls /\ Started /\ call.id \in Int
      /\ Pass("unlink", call.id, FALSE)
  BY Footing DEF BeginRemove, Started
<1>2. call.id # None /\ At(Now, call.at) = call.id
  BY <1>1 DEF Straight, Knows, Agreeing
<1>3. call.id # Top
  <2>1. call.at \in Names /\ call.at # <<>>
    BY <1>1, Footing, PathsAre DEF Straight, Arguments
  <2> QED BY <1>1, <1>2, <2>1, Footing, LeadsNone
<1>4. Onto("unlink", call.id) /\ UNCHANGED <<course, caches, held, before>>
  BY <1>1, PassIs DEF StepNames, Pass, ghosts
<1>5. call'.lost = call.lost /\ call'.result = call.result
  BY <1>1, PassLeaves DEF StepNames
<1> QED BY <1>1, <1>2, <1>3, <1>4, <1>5, ReadsTo DEF StepNames, Fits

LEMMA BeginMoveStraight ==
  ASSUME Straight, BeginMove, UNCHANGED opt, Agreeing
  PROVE  Straight'
<1>1. call.op = "move" /\ call.step = "begin" /\ call \in Calls /\ Started /\ call.id \in Int
  BY Footing DEF BeginMove, Started
<1>2. CASE Stop("failed")
  BY <1>2, StopsStraight
<1>3. CASE Pass("stat", call.id, FALSE)
  <2>1. call.id # None /\ At(Now, call.at) = call.id
    BY <1>1 DEF Straight, Knows, Agreeing
  <2>2. call.id # Top
    <3>1. call.at \in Names /\ call.at # <<>>
      BY <1>1, Footing, PathsAre DEF Straight, Arguments
    <3> QED BY <1>1, <2>1, <3>1, Footing, LeadsNone
  <2>3. Onto("stat", call.id) /\ UNCHANGED <<course, caches, held, before>>
    BY <1>1, <1>3, PassIs DEF StepNames, Pass, ghosts
  <2>4. call'.lost = call.lost /\ call'.result = call.result
    BY <1>1, <1>3, PassLeaves DEF StepNames
  <2> QED BY <1>1, <2>1, <2>2, <2>3, <2>4, ReadsTo DEF StepNames, Fits
<1> QED BY <1>2, <1>3 DEF BeginMove

LEMMA BeginDirMoveStraight ==
  ASSUME Straight, BeginDirMove, UNCHANGED opt, Agreeing
  PROVE  Straight'
<1> DEFINE id == At(tree[call.src], call.at)
<1>1. call.op = "dirmove" /\ call.step = "begin" /\ call \in Calls /\ Started
      /\ call.at \in Names /\ Forest(Now)
  BY Footing DEF BeginDirMove, Started
<1>2. id = At(Now, call.at) /\ At(tree[call.src], call.to) = At(Now, call.to)
  BY DEF Agreeing
<1>3. id \in Int
  BY <1>1, <1>2, LeadsInt
<1>4. \/ Stop("failed") \/ Stop("exists")
      \/ At(tree[call.src], call.to) = None /\ id \notin {None, Top} /\ Pass("parents", id, FALSE)
  BY DEF BeginDirMove, At
<1> HIDE DEF id
<1>5. CASE Stop("failed") \/ Stop("exists")
  BY <1>5, StopsStraight
<1>6. CASE At(tree[call.src], call.to) = None /\ id \notin {None, Top} /\ Pass("parents", id, FALSE)
  <2>1. Onto("parents", id) /\ UNCHANGED <<course, caches, held, before>>
    BY <1>1, <1>3, <1>6, PassIs DEF StepNames, Pass, ghosts
  <2>2. call'.lost = call.lost /\ call'.result = call.result
    BY <1>1, <1>3, <1>6, PassLeaves DEF StepNames
  <2> QED BY <1>1, <1>2, <1>3, <1>6, <2>1, <2>2, ReadsTo DEF StepNames, Fits
<1> QED BY <1>4, <1>5, <1>6

\* A call that has nothing to do stops.
LEMMA DirMoveOntoItselfStraight ==
  ASSUME Straight, DirMoveOntoItself, UNCHANGED opt
  PROVE  Straight'
BY StopsStraight DEF DirMoveOntoItself

LEMMA AlreadyThereStraight ==
  ASSUME Straight, AlreadyThere, UNCHANGED opt
  PROVE  Straight'
BY StopsStraight DEF AlreadyThere

-----------------------------------------------------------------------------
(* Calls that end without an entry in a tree. *)

\* A call is over that has not entered in a tree what it did to the course.
LEMMA EndsKept ==
  ASSUME Straight, UNCHANGED <<opt, caches, held>>, Over, before' = server', Remains, Grown',
         next' \in Nat \ {0}, next <= next'
  PROVE  Straight'
<1>1. Labels' /\ Current' /\ Rooted'
  BY CachesStay
<1> QED BY <1>1, EndsStraight

\* Nor has it done anything to it.
LEMMA EndsSame ==
  ASSUME Straight, UNCHANGED <<opt, course, caches, held>>, Over, before' = server'
  PROVE  Straight'
<1>1. next' = next /\ server' = server /\ next \in Nat \ {0}
  BY Footing DEF course
<1>2. Grown'
  BY <1>1 DEF Straight, Grown
<1> QED BY <1>1, <1>2, RemainsSame, EndsKept

\* A request that asks only changes nothing.
LEMMA AsksOnly ==
  ASSUME Straight, Serve, call.step \in {"stat", "license"}
  PROVE  UNCHANGED course
<1>1. next \notin DOMAIN server
  BY Footing
<1> QED BY <1>1, Replies DEF course

\* The answers to a stat and to the license of a file.
LEMMA SeenStraight ==
  ASSUME Straight, Seen, UNCHANGED opt
  PROVE  Straight'
<1>1. /\ call.step = "stat" /\ call.op = "move" /\ Serve /\ UNCHANGED <<caches, held>>
      /\ call \in Calls /\ call.id \in Int
  BY Footing DEF Seen, Answered, Straight, Flags, Fits
<1>2. UNCHANGED course
  BY <1>1, AsksOnly
<1>3. CASE Return("ok")
  <2>1. Over /\ before' = server'
    BY <1>1, <1>3, ReturnIs DEF Return
  <2> QED BY <1>1, <1>2, <2>1, EndsSame
<1>4. CASE \E s \in {"rename", "parents"} :
             Go(s) /\ (s = "rename" => Front(call.at) = Front(call.to)) /\ UNCHANGED before
  <2>1. PICK s \in {"rename", "parents"} :
               Go(s) /\ (s = "rename" => Front(call.at) = Front(call.to)) /\ UNCHANGED before
    BY <1>4
  <2>2. s \in StepNames \ {"ensure", "begin", "create", "license", "cleanup", "done"}
    BY DEF StepNames
  <2>3. Onto(s, call.id) /\ call'.lost = call.lost /\ call'.result = call.result
    BY <1>1, <2>1, <2>2, GoIs, GoLeaves
  <2>4. At(Now, call.at) = call.id /\ call.id # None /\ call.id # Top
    BY <1>1 DEF Straight, Knows, Located
  <2>5. Fits(call.op, s) /\ call.op # "dirmove" /\ s # "reparent" /\ s # "unlink" /\ s # "overwrite"
    BY <1>1 DEF Fits
  <2> QED BY <1>1, <1>2, <2>1, <2>2, <2>3, <2>4, <2>5, ReadsTo
<1> QED BY <1>3, <1>4 DEF Seen

LEMMA LicensedStraight ==
  ASSUME Straight, Licensed, UNCHANGED opt
  PROVE  Straight'
<1>1. call.step = "license" /\ Serve /\ Return("ok") /\ UNCHANGED <<caches, held>> /\ call \in Calls
  BY Footing DEF Licensed, Answered
<1>2. UNCHANGED course
  BY <1>1, AsksOnly
<1>3. Over /\ before' = server'
  BY <1>1, ReturnIs DEF Return
<1> QED BY <1>1, <1>2, <1>3, EndsSame

\* A call begins with a tree that counts.
LEMMA EnsureStraight ==
  ASSUME Straight, Ensure, UNCHANGED opt
  PROVE  Straight'
<1>1. /\ call.step = "ensure" /\ Refresh(Outdated({call.f, call.src})) /\ Go("begin")
      /\ UNCHANGED <<course, held, before>>
  BY DEF Ensure, ghosts
<1>2. call.f \in Fs /\ call.src \in Fs /\ call \in Calls /\ next \in Nat \ {0} /\ next' = next
      /\ server' = server
  BY <1>1, Footing DEF course
<1>3. Onto("begin", call.id) /\ call'.lost = call.lost /\ call'.result = call.result
  BY <1>1, <1>2, GoIs, GoLeaves DEF StepNames
<1>4. Labels' /\ Current' /\ Rooted' /\ label'[call.f] = counter'
  <2>1. {call.f, call.src} \in SUBSET Fs
    BY <1>2
  <2> QED BY <1>1, <2>1, CachesRefresh
<1>5. Grown'
  BY <1>2 DEF Straight, Grown
<1>6. Flags' /\ Started'
  BY <1>1, <1>3 DEF Straight, Flags, Onto, Same, Fits, Started
<1>7. Knows'
  <2>1. call'.result = "none" /\ (call'.op \in {"update", "remove", "move"} => call'.id # None)
    BY <1>1, <1>3 DEF Straight, Knows, Done, Onto, Same
  <2> QED BY <1>3, <1>4, <2>1 DEF Knows, Located, Moving, Onto, Same
<1>8. held' \in [Fs -> Objects]
      /\ \A g \in Fs : held'[g] = NoObject \/ (held'[g].id # None /\ held'[g].at \in Files(g))
  BY <1>1 DEF Straight, Types, Arguments
<1> QED BY <1>1, <1>2, <1>3, <1>4, <1>5, <1>6, <1>7, <1>8, GoesStraight DEF Onto

\* One that goes on with an old tree is misled.
LEMMA EnsureFailsStraight ==
  ASSUME Straight, EnsureFails, UNCHANGED opt, misled' = (misled \/ Misleads), ~misled', faults \in Nat
  PROVE  Straight'
<1>1. call.step = "ensure" /\ call \in Calls /\ faults' # faults /\ UNCHANGED <<course, caches, held>>
  BY Footing DEF EnsureFails, MayFail
<1>2. ~Go("begin")
  <2> SUFFICES ASSUME Go("begin") PROVE FALSE
    OBVIOUS
  <2>1. call'.step = "begin"
    BY <1>1, GoIs DEF StepNames, Onto
  <2> QED BY <1>1, <2>1 DEF Misleads
<1>3. Return("failed")
  BY <1>2 DEF EnsureFails
<1>4. Over /\ before' = server'
  BY <1>1, <1>3, ReturnIs DEF Return
<1> QED BY <1>1, <1>4, EndsSame

\* A handler that found nothing refreshes and looks again.
LEMMA LookAgainStraight ==
  ASSUME Straight, LookAgain, UNCHANGED opt
  PROVE  Straight'
<1>1. /\ call.step = "look" /\ (Refresh({call.f}) \/ UNCHANGED caches) /\ Go("again")
      /\ UNCHANGED <<course, held, before>>
  BY DEF LookAgain
<1>2. call.f \in Fs /\ call \in Calls /\ next \in Nat \ {0} /\ next' = next /\ server' = server
      /\ Started
  BY <1>1, Footing DEF course, Started
<1>3. Onto("again", call.id) /\ call'.lost = call.lost /\ call'.result = call.result
  BY <1>1, <1>2, GoIs, GoLeaves DEF StepNames
<1>4. Labels' /\ Current' /\ Rooted' /\ label'[call.f] = counter'
  <2>1. CASE Refresh({call.f})
    <3>1. {call.f} \in SUBSET Fs
      BY <1>2
    <3> QED BY <1>1, <2>1, <3>1, CachesRefresh
  <2>2. CASE UNCHANGED caches
    <3>1. label[call.f] = counter
      BY <1>2 DEF Straight, Knows
    <3>2. Labels' /\ Current' /\ Rooted'
      BY <1>1, <1>2, <2>2, RemainsSame, CachesStay
    <3> QED BY <2>2, <3>1, <3>2 DEF caches
  <2> QED BY <1>1, <2>1, <2>2
<1>5. Grown'
  BY <1>2 DEF Straight, Grown
<1>6. Flags' /\ Started'
  BY <1>1, <1>3 DEF Straight, Flags, Onto, Same, Fits, Started
<1>7. Knows'
  <2>1. call'.result = "none"
    BY <1>1, <1>3 DEF Straight, Knows, Done
  <2> QED BY <1>3, <1>4, <2>1 DEF Knows, Located, Moving, Onto, Same
<1>8. held' \in [Fs -> Objects]
      /\ \A g \in Fs : held'[g] = NoObject \/ (held'[g].id # None /\ held'[g].at \in Files(g))
  BY <1>1 DEF Straight, Types, Arguments
<1> QED BY <1>1, <1>2, <1>3, <1>4, <1>5, <1>6, <1>7, <1>8, GoesStraight DEF Onto

-----------------------------------------------------------------------------
(* Between two calls. *)

\* rclone takes an object from the tree.
LEMMA NewObjectStraight ==
  ASSUME Straight, UNCHANGED opt, NEW f \in Fs, NEW p \in Files(f), NewObject(f, p)
  PROVE  Straight'
<1>1. /\ call.step = "done" /\ call' = call /\ UNCHANGED <<course, before>>
      /\ next' = next /\ server' = server /\ ~Started
  BY DEF NewObject, Done, course, Started
<1>2. Labels' /\ Current' /\ Rooted'
  <2>1. CASE UNCHANGED caches
    BY <1>1, <2>1, RemainsSame, CachesStay, Footing
  <2>2. CASE Refresh(Outdated({f}))
    <3>1. {f} \in SUBSET Fs
      OBVIOUS
    <3> QED BY <1>1, <2>2, <3>1, CachesRefresh
  <2> QED BY <2>1, <2>2 DEF NewObject
<1> DEFINE t == tree'[f]
           id == NodeOf(t, relativeRoot'[f], f, p)
<1>3. held' = held \/ (id # None /\ ~IsDir(t, id) /\ held' = [held EXCEPT ![f] = [id |-> id, at |-> p, size |-> t[id].size]])
  BY DEF NewObject
<1>4. p \in Names /\ IsPrefix(Root[f], p) /\ Root[f] \in Names /\ opt \in Scenarios
  BY PathsAre DEF Straight, Types
<1>5. relativeRoot'[f] \in {None, At(t, Root[f])}
  BY <1>2 DEF Rooted
<1>6. id # None /\ ~IsDir(t, id) => id \in Int /\ t[id].size \in Int
  <2>1. Forest(t)
    BY <1>2 DEF Current
  <2>2. id \in {None, At(t, p)}
    <3>1. CASE relativeRoot'[f] = None
      <4>1. Rest(p, f) \in Names
        <5>1. Len(Root[f]) \in Nat /\ Len(p) \in Nat
          BY <1>4 DEF Names
        <5> QED BY <1>4, <5>1 DEF Rest, Names
      <4> QED BY <2>1, <3>1, <4>1, FromNowhere DEF NodeOf
    <3>2. CASE relativeRoot'[f] = At(t, Root[f])
      BY <1>4, <3>2, FindIs
    <3> QED BY <1>5, <3>1, <3>2
  <2> HIDE DEF id
  <2>3. ASSUME id # None, ~IsDir(t, id) PROVE id \in DOMAIN t /\ id \in Int /\ t[id] \in Nodes
    <3>1. id = At(t, p) /\ id # Top
      BY <2>2, <2>3 DEF IsDir
    <3>2. p # <<>>
      BY <3>1, AtEmpty
    <3>3. id \in DOMAIN t
      BY <1>4, <2>1, <2>3, <3>1, <3>2, LeadsNone
    <3> QED BY <2>1, <3>3 DEF Forest
  <2> QED BY <2>3 DEF Nodes
<1> HIDE DEF t, id
<1>7. Types' /\ Arguments'
  <2>1. held \in [Fs -> Objects] /\ \A g \in Fs : held[g] = NoObject \/ (held[g].id # None /\ held[g].at \in Files(g))
    BY DEF Straight, Types, Arguments
  <2>2. /\ held' \in [Fs -> Objects] /\ (\A g \in Fs : held[g].id # None => held'[g].id # None)
        /\ \A g \in Fs : held'[g] = NoObject \/ (held'[g].id # None /\ held'[g].at \in Files(g))
    <3>1. CASE held' = held
      BY <2>1, <3>1
    <3>2. CASE id # None /\ ~IsDir(t, id) /\ held' = [held EXCEPT ![f] = [id |-> id, at |-> p, size |-> t[id].size]]
      <4> DEFINE o == [id |-> id, at |-> p, size |-> t[id].size]
      <4>1. o \in Objects /\ o.at = p /\ o.id # None
        BY <1>4, <1>6, <3>2 DEF Objects
      <4> HIDE DEF o
      <4>2. held' = [held EXCEPT ![f] = o]
        BY <3>2 DEF o
      <4> QED BY <2>1, <4>1, <4>2
    <3> QED BY <1>3, <3>1, <3>2
  <2>3. call.f \in Fs
    BY Footing
  <2> QED BY <1>1, <2>2, <2>3 DEF Straight, Types, Arguments, Files, Folders, Own
<1>8. Grown' /\ Rooted'
  BY <1>1, <1>2 DEF Straight, Grown
<1>9. Flags' /\ Knows'
  BY <1>1 DEF Straight, Flags, Fits, Knows, Located, Moving, Started, Done
<1>10. Was'
  BY <1>1 DEF Straight, Was, Done, Started
<1> QED BY <1>2, <1>7, <1>8, <1>9, <1>10 DEF Straight

\* rclone makes a call.
LEMMA InvokeStraight ==
  ASSUME Straight, UNCHANGED opt, Invoke
  PROVE  Straight'
<1>1. /\ call.step = "done" /\ UNCHANGED <<course, caches, held, before>> /\ Types /\ Arguments
      /\ next \in Nat \ {0} /\ next' = next /\ server' = server /\ before = server
  BY Footing DEF Invoke, Done, Straight, Was, Started, course
<1>2. Begun(call')
  <2>1. call' \in Invocations
    BY DEF Invoke
  <2> QED BY <1>1, <2>1, InvocationsAre DEF Types, Arguments
<1>3. Labels' /\ Current' /\ Rooted'
  BY <1>1, RemainsSame, CachesStay
<1>4. Types' /\ Arguments'
  BY <1>1, <1>2 DEF Types, Arguments, Begun, course, Files, Folders, Own
<1>5. Grown' /\ Was'
  BY <1>1 DEF Straight, Grown, Was
<1>6. call'.step = "ensure" /\ ~call'.made /\ ~call'.again /\ ~call'.dirty /\ call'.result = "none"
      /\ (call'.op \in {"update", "remove", "move"} => call'.id # None)
  BY <1>2 DEF Begun
<1>7. Flags' /\ Knows'
  BY <1>6 DEF Flags, Fits, Knows, Located, Moving, Started
<1> QED BY <1>3, <1>4, <1>5, <1>7 DEF Straight

\* Other clients upload and remove.
LEMMA OtherClientStraight ==
  ASSUME Straight, UNCHANGED opt, OtherClient
  PROVE  Straight'
<1>1. call.step = "done" /\ call' = call /\ UNCHANGED <<caches, held>> /\ before' = server'
      /\ next \in Nat \ {0} /\ opt \in Scenarios
  BY Footing DEF OtherClient, OtherUploads, OtherRemoves, Done
<1>2. Grown' /\ Remains /\ next' \in Nat \ {0} /\ next <= next'
  <2>1. ASSUME NEW p \in opt.paths, NEW s \in opt.sizes, s >= 0, OtherUploads(p, s)
        PROVE  Grown' /\ Remains /\ next' \in Nat \ {0} /\ next <= next'
    <3> DEFINE up == At(server, Front(p))
               node == File(up, Last(p), s)
    <3>1. IsDir(server, up) /\ server' = With(server, next, node) /\ next' = next + 1
      BY <2>1 DEF OtherUploads, At
    <3>2. p \in Names /\ p # <<>> /\ s \in Int
      BY <1>1, ConstantsAssumption DEF Names
    <3>3. Last(p) \in STRING /\ Last(p) \in FileNames(opt) /\ Last(p) \notin FolderNames(opt)
      BY <1>1, <3>2, FrontIs, NamesAssumption DEF FileNames
    <3>4. up \in Nat
      BY <3>1, Footing DEF IsDir, Forest, Top
    <3>5. node \in Nodes /\ node.parent = up /\ node.name = Last(p) /\ ~node.dir
      BY <3>2, <3>3, <3>4 DEF File, Nodes
    <3> HIDE DEF node, up
    <3>6. next \in DOMAIN server'
      BY <3>1 DEF With
    <3>7. Receives(node)
      <4>1. node.name \notin (IF node.dir THEN FileNames(opt) ELSE FolderNames(opt))
        BY <3>3, <3>5
      <4>2. next' = IF next \in DOMAIN server' THEN next + 1 ELSE next
        BY <3>1, <3>6
      <4> QED BY <3>1, <3>5, <4>1, <4>2, ReceivesIs
    <3> QED BY <1>1, <3>1, <3>7 DEF Receives
  <2>2. ASSUME NEW p, OtherRemoves(p)
        PROVE  Grown' /\ Remains /\ next' \in Nat \ {0} /\ next <= next'
    <3> DEFINE id == At(server, p)
               M == Subtree(server, id)
    <3>1. server' = Without(server, M) /\ next' = next
      BY <2>2 DEF OtherRemoves, At
    <3>2. \A i \in DOMAIN server : server[i].parent \in M => i \in M
      BY SubtreeIs
    <3>3. next \notin DOMAIN server'
      <4>1. DOMAIN Without(server, M) = DOMAIN server \ M
        BY WithoutIs
      <4> QED BY <3>1, <4>1, Footing
    <3> HIDE DEF M
    <3>4. next' = IF next \in DOMAIN server' THEN next + 1 ELSE next
      BY <3>1, <3>3
    <3>5. next' = next /\ Grown' /\ Remains
      BY <3>1, <3>2, <3>4, LostNodes
    <3> QED BY <1>1, <3>5
  <2> QED BY <2>1, <2>2 DEF OtherClient
<1>3. Labels' /\ Current' /\ Rooted'
  BY <1>1, <1>2, CachesStay
<1>4. Types' /\ Arguments'
  BY <1>1, <1>2 DEF Straight, Types, Arguments, Files, Folders, Own
<1>5. ~call.dirty /\ ~call.made /\ (call.again => call.op = "update")
  BY <1>1 DEF Straight, Flags
<1>6. Flags' /\ Knows'
  BY <1>1, <1>5 DEF Flags, Fits, Knows, Located, Moving, Started, Done
<1>7. Was'
  BY <1>1, <1>2 DEF Was, Grown, Done
<1> QED BY <1>2, <1>3, <1>4, <1>6, <1>7 DEF Straight

-----------------------------------------------------------------------------
(* Edits of a tree that is like the course. *)

\* Kind and name of a node go together.
WellNamed(node) == node.name \notin (IF node.dir THEN FileNames(opt) ELSE FolderNames(opt))

\* A node of the course is entered, or one that is not there.
LEMMA PlusGood ==
  ASSUME NEW t, NEW n \in Nat, NEW s, Good(t, n, s), NEW i \in 1..(n - 1), i \notin DOMAIN t,
         NEW node \in Nodes, IsDir(t, node.parent), WellNamed(node),
         i \in DOMAIN s => s[i].dir = node.dir /\ s[i].parent = node.parent /\ s[i].name = node.name
  PROVE  Good(With(t, i, node), n, s) /\ Plus(t, With(t, i, node), i, node)
<1>1. i \in Nat \ {0}
  OBVIOUS
<1>2. Forest(With(t, i, node)) /\ Plus(t, With(t, i, node), i, node)
  BY <1>1, WithPlus DEF Good
<1> DEFINE u == With(t, i, node)
<1> HIDE DEF u
<1>3. Plus(t, u, i, node) /\ Forest(u)
  BY <1>2 DEF u
<1>4. DOMAIN u \subseteq 1..(n - 1)
  BY <1>3 DEF Plus, Good
<1>5. Named(u, opt)
  BY <1>3 DEF Plus, Good, Named, WellNamed
<1>6. Like(u, s)
  BY <1>3 DEF Plus, Good, Like
<1> QED BY <1>3, <1>4, <1>5, <1>6 DEF Good, u

\* A file takes the id of one that the course has in its place.
LEMMA ReIdGood ==
  ASSUME NEW t, NEW n \in Nat, NEW s, Good(t, n, s), NEW p \in Names, p # <<>>,
         NEW id \in DOMAIN t, At(t, p) = id, ~t[id].dir, NEW new \in 1..(n - 1), NEW size \in Int,
         Forest(s), new \in DOMAIN s, ~s[new].dir, s[new].parent = At(t, Front(p)), s[new].name = Last(p)
  PROVE  /\ Good(ReId(t, id, new, size), n, s)
         /\ \A q \in Names : ~IsPrefix(p, q) => At(ReId(t, id, new, size), q) = At(t, q)
<1> DEFINE u == ReId(t, id, new, size)
<1>1. Forest(t) /\ Like(t, s) /\ Named(t, opt) /\ DOMAIN t \subseteq 1..(n - 1)
  BY DEF Good
<1>2. ReIded(t, id, u, new, size)
  BY <1>1, ReIdOf
<1> HIDE DEF u
<1>3. At(t, Front(p)) = t[id].parent /\ Last(p) = t[id].name
  BY <1>1, LeadsTo, ChildOf
<1>4. new \in DOMAIN t => t[new].parent = t[id].parent /\ t[new].name = t[id].name /\ ~t[new].dir
  BY <1>1, <1>3 DEF Like
<1>5. new \in Nat \ {0}
  OBVIOUS
<1>6. Forest(u)
  <2>1. Put2(t, id, u, new)
    BY <1>2, <1>4 DEF ReIded, Put2
  <2>2. IsDir(t, u[new].parent)
    BY <1>1, <1>2 DEF ReIded, Forest
  <2> QED BY <1>1, <1>5, <2>1, <2>2, PutForest
<1>7. DOMAIN u \subseteq 1..(n - 1) /\ Named(u, opt)
  BY <1>1, <1>2 DEF ReIded, Named
<1>8. Like(u, s)
  <2> SUFFICES ASSUME NEW i \in DOMAIN u, i \in DOMAIN s
               PROVE  u[i].dir = s[i].dir /\ u[i].parent = s[i].parent /\ u[i].name = s[i].name
    BY DEF Like
  <2>1. CASE i = new
    <3>1. u[new].dir = FALSE
      <4>1. t[id] \in Nodes
        BY <1>1 DEF Forest
      <4> QED BY <1>2, <4>1 DEF ReIded, Nodes
    <3>2. s[new].dir = FALSE
      <4>1. s[new] \in Nodes
        BY DEF Forest
      <4> QED BY <4>1 DEF Nodes
    <3> QED BY <1>2, <1>3, <2>1, <3>1, <3>2 DEF ReIded
  <2>2. CASE i # new
    BY <1>1, <1>2, <2>2 DEF ReIded, Like
  <2> QED BY <2>1, <2>2
<1>9. \A q \in Names : ~IsPrefix(p, q) => At(u, q) = At(t, q)
  <2>1. \A a, m : (\A r \in {p} : a # At(t, Front(r)) \/ m # Last(r)) => Called(u, a, m) = Called(t, a, m)
    <3> SUFFICES ASSUME NEW a, NEW m, a # At(t, Front(p)) \/ m # Last(p)
                 PROVE  Called(u, a, m) = Called(t, a, m)
      OBVIOUS
    <3>1. ASSUME NEW j \in Called(u, a, m) PROVE j \in Called(t, a, m)
      <4>1. j # new /\ j \in DOMAIN u
        BY <1>2, <1>3, <3>1 DEF Called, ReIded
      <4> QED BY <1>2, <3>1, <4>1 DEF Called, ReIded
    <3>2. ASSUME NEW j \in Called(t, a, m) PROVE j \in Called(u, a, m)
      <4>1. j # new /\ j # id /\ j \in DOMAIN t
        BY <1>3, <1>4, <3>2 DEF Called
      <4> QED BY <1>2, <3>2, <4>1 DEF Called, ReIded
    <3> QED BY <3>1, <3>2
  <2>2. {p} \in SUBSET Names /\ <<>> \notin {p}
    OBVIOUS
  <2>3. \A q \in Names : (\A r \in {p} : ~IsPrefix(r, q)) => At(u, q) = At(t, q)
    BY <1>1, <1>6, <2>1, <2>2, EditedApart
  <2> QED BY <2>3
<1> QED BY <1>6, <1>7, <1>8, <1>9 DEF Good, u

\* Nodes go with what is in them; paths that do not go through the first stay.
LEMMA WithoutGood ==
  ASSUME NEW t, NEW n \in Nat, NEW s, Good(t, n, s), NEW p \in Names, p # <<>>, At(t, p) # None,
         NEW M, Top \notin M, \A i \in DOMAIN t : t[i].parent \in M => i \in M,
         \A i \in DOMAIN t : i \in M => i = At(t, p) \/ t[i].parent \in M
  PROVE  /\ Good(Without(t, M), n, s)
         /\ \A q \in Names : ~IsPrefix(p, q) => At(Without(t, M), q) = At(t, q)
<1> DEFINE u == Without(t, M)
<1>1. Forest(t) /\ Like(t, s) /\ Named(t, opt) /\ DOMAIN t \subseteq 1..(n - 1)
  BY DEF Good
<1>2. DOMAIN u = DOMAIN t \ M /\ \A i \in DOMAIN t \ M : u[i] = t[i]
  BY WithoutIs
<1>3. Forest(u)
  BY <1>1, WithoutForest
<1> HIDE DEF u
<1>4. Good(u, n, s)
  BY <1>1, <1>2, <1>3 DEF Good, Named, Like
<1> DEFINE K == {q \in Names : At(t, q) \in M /\ At(t, q) # None => IsPrefix(p, q)}
<1>5. K = Names
  <2>1. <<>> \in K
    <3>1. <<>> \in Names
      BY EmptySeq DEF Names
    <3> QED BY <3>1, AtEmpty
  <2>2. ASSUME NEW q \in Names, q # <<>>, Front(q) \in K PROVE q \in K
    <3> SUFFICES ASSUME At(t, q) \in M, At(t, q) # None PROVE IsPrefix(p, q)
      OBVIOUS
    <3>1. /\ At(t, q) \in DOMAIN t /\ At(t, Front(q)) # None
          /\ t[At(t, q)].parent = At(t, Front(q))
      BY <1>1, <2>2, LeadsTo
    <3>2. CASE At(t, q) = At(t, p)
      <4>1. q = p
        BY <1>1, <3>2, LeadsApart
      <4> QED BY <4>1, PrefixSelf
    <3>3. CASE t[At(t, q)].parent \in M
      <4>1. IsPrefix(p, Front(q))
        BY <2>2, <3>1, <3>3
      <4> QED BY <2>2, <4>1, PrefixFront
    <3> QED BY <3>1, <3>2, <3>3
  <2> HIDE DEF K
  <2>3. K \in SUBSET Names
    BY DEF K
  <2> QED BY <2>1, <2>2, <2>3, PathInd
<1> DEFINE Q == {q \in Names : ~IsPrefix(p, q) => At(u, q) = At(t, q)}
<1>6. ASSUME NEW q \in Names, q # <<>>, Front(q) \in Q PROVE q \in Q
  <2> SUFFICES ASSUME ~IsPrefix(p, q) PROVE At(u, q) = At(t, q)
    OBVIOUS
  <2>1. Front(q) \in Names /\ ~IsPrefix(p, Front(q)) /\ q # p
    BY <1>6, FrontIs, PrefixFront
  <2> DEFINE a == At(t, Front(q))
             m == Last(q)
  <2>2. At(u, Front(q)) = a
    BY <1>6, <2>1
  <2>3. At(u, q) = Child(u, a, m) /\ At(t, q) = Child(t, a, m)
    BY <1>1, <1>3, <1>6, <2>2, LeadsTo
  <2>4. Called(u, a, m) = Called(t, a, m)
    <3>1. CASE a = None
      <4>1. Called(u, None, m) = {} /\ Called(t, None, m) = {}
        BY <1>1, <1>3, ChildOf
      <4> QED BY <3>1, <4>1
    <3>2. CASE a # None
      <4>1. a \notin M
        BY <1>5, <2>1, <3>2
      <4>2. ASSUME NEW i \in Called(t, a, m), i \in M PROVE FALSE
        <5>1. i \in DOMAIN t /\ i = At(t, p) /\ t[i].parent = a /\ t[i].name = m
          BY <4>1, <4>2 DEF Called
        <5>2. Front(p) \in Names /\ At(t, Front(p)) = a /\ Last(p) = m
          BY <1>1, <5>1, FrontIs, LeadsTo
        <5>3. Front(p) = Front(q)
          BY <1>1, <2>1, <3>2, <5>2, LeadsApart
        <5> QED BY <1>6, <2>1, <5>2, <5>3, FrontLast
      <4> QED BY <1>2, <4>2 DEF Called
    <3> QED BY <3>1, <3>2
  <2> HIDE DEF a, m
  <2>5. Child(u, a, m) = Child(t, a, m)
    BY <2>4, ChildSame
  <2> QED BY <2>3, <2>5
<1>7. Q = Names
  <2>1. <<>> \in Q
    <3>1. <<>> \in Names
      BY EmptySeq DEF Names
    <3> QED BY <3>1, AtEmpty
  <2> HIDE DEF Q
  <2>2. Q \in SUBSET Names
    BY DEF Q
  <2> QED BY <1>6, <2>1, <2>2, PathInd
<1> QED BY <1>4, <1>7 DEF u

\* A node goes to another place, and a file may take another id.
Shifted(t, id, u, new, up, name) ==
  /\ DOMAIN u = (DOMAIN t \ {id}) \cup {new} /\ u \in [DOMAIN u -> Nodes]
  /\ u[new].dir = t[id].dir /\ u[new].parent = up /\ u[new].name = name
  /\ \A j \in DOMAIN t : j # id /\ j # new => u[j] = t[j]
  /\ new = id \/ (~t[id].dir /\ new \notin DOMAIN t)

\* The course has the node in that place, or lacks it.
Shifts(t, n, s, p, r, new, u, s2) ==
  /\ n \in Nat /\ Good(t, n, s) /\ p \in Names /\ r \in Names /\ p # <<>> /\ r # <<>>
  /\ At(t, p) \in DOMAIN t /\ new \in 1..(n - 1)
  /\ Shifted(t, At(t, p), u, new, At(t, Front(r)), Last(r)) /\ IsDir(t, At(t, Front(r)))
  /\ WellNamed(u[new])
  /\ \A i \in DOMAIN t \ {At(t, p)} : i \in DOMAIN s2 => i \in DOMAIN s /\ s2[i] = s[i]
  /\ new \in DOMAIN s2 => s2[new].dir = u[new].dir /\ s2[new].parent = u[new].parent
                           /\ s2[new].name = u[new].name

\* That leaves a tree like the course, and the paths that lead through neither place.
LEMMA ShiftedGood ==
  ASSUME NEW t, NEW n, NEW s, NEW p, NEW r, NEW new, NEW u, NEW s2, Shifts(t, n, s, p, r, new, u, s2)
  PROVE  /\ Good(u, n, s2)
         /\ \A q \in Names : ~IsPrefix(p, q) /\ ~IsPrefix(r, q) => At(u, q) = At(t, q)
<1> DEFINE id == At(t, p)
<1>0. /\ n \in Nat /\ Good(t, n, s) /\ p \in Names /\ r \in Names /\ p # <<>> /\ r # <<>>
      /\ id \in DOMAIN t /\ At(t, p) = id /\ new \in 1..(n - 1)
      /\ Shifted(t, id, u, new, At(t, Front(r)), Last(r)) /\ IsDir(t, At(t, Front(r)))
      /\ WellNamed(u[new])
      /\ \A i \in DOMAIN t \ {id} : i \in DOMAIN s2 => i \in DOMAIN s /\ s2[i] = s[i]
      /\ new \in DOMAIN s2 => s2[new].dir = u[new].dir /\ s2[new].parent = u[new].parent
                               /\ s2[new].name = u[new].name
  BY DEF Shifts
<1> HIDE DEF id
<1> USE <1>0
<1>1. Forest(t) /\ Like(t, s) /\ Named(t, opt) /\ DOMAIN t \subseteq 1..(n - 1)
  BY DEF Good
<1>2. /\ DOMAIN u = (DOMAIN t \ {id}) \cup {new} /\ u \in [DOMAIN u -> Nodes]
      /\ u[new].dir = t[id].dir /\ u[new].parent = At(t, Front(r)) /\ u[new].name = Last(r)
      /\ \A j \in DOMAIN t : j # id /\ j # new => u[j] = t[j]
      /\ new = id \/ (~t[id].dir /\ new \notin DOMAIN t)
  BY DEF Shifted
<1>3. At(t, Front(p)) = t[id].parent /\ Last(p) = t[id].name
  BY <1>1, LeadsTo, ChildOf
<1>4. new \in Nat \ {0}
  OBVIOUS
<1>5. Forest(u)
  <2>1. Put2(t, id, u, new)
    BY <1>2 DEF Put2
  <2>2. IsDir(t, u[new].parent)
    BY <1>2
  <2> QED BY <1>1, <1>4, <2>1, <2>2, PutForest
<1>6. DOMAIN u \subseteq 1..(n - 1)
  BY <1>1, <1>2
<1>7. Named(u, opt)
  <2> SUFFICES ASSUME NEW i \in DOMAIN u PROVE WellNamed(u[i])
    BY DEF Named, WellNamed
  <2>1. CASE i = new
    BY <2>1
  <2>2. CASE i # new
    <3>1. i \in DOMAIN t /\ u[i] = t[i]
      BY <1>2, <2>2
    <3> QED BY <1>1, <3>1 DEF Named, WellNamed
  <2> QED BY <2>1, <2>2
<1>8. Like(u, s2)
  <2> SUFFICES ASSUME NEW i \in DOMAIN u, i \in DOMAIN s2
               PROVE  u[i].dir = s2[i].dir /\ u[i].parent = s2[i].parent /\ u[i].name = s2[i].name
    BY DEF Like
  <2>1. CASE i = new
    BY <2>1
  <2>2. CASE i # new
    <3>1. i \in DOMAIN t \ {id} /\ u[i] = t[i]
      BY <1>2, <2>2
    <3>2. i \in DOMAIN s /\ s2[i] = s[i]
      BY <3>1
    <3> QED BY <1>1, <3>1, <3>2 DEF Like
  <2> QED BY <2>1, <2>2
<1>9. \A q \in Names : ~IsPrefix(p, q) /\ ~IsPrefix(r, q) => At(u, q) = At(t, q)
  <2>1. ASSUME NEW a, NEW m, a # At(t, Front(p)) \/ m # Last(p), a # At(t, Front(r)) \/ m # Last(r)
        PROVE  Called(u, a, m) = Called(t, a, m)
    <3>1. ASSUME NEW j \in Called(u, a, m) PROVE j \in Called(t, a, m)
      <4>1. j # new /\ j \in DOMAIN u
        BY <1>2, <2>1, <3>1 DEF Called
      <4> QED BY <1>2, <3>1, <4>1 DEF Called
    <3>2. ASSUME NEW j \in Called(t, a, m) PROVE j \in Called(u, a, m)
      <4>1. j # id /\ j \in DOMAIN t
        BY <1>3, <2>1, <3>2 DEF Called
      <4>2. j # new
        BY <1>2, <4>1
      <4> QED BY <1>2, <3>2, <4>1, <4>2 DEF Called
    <3> QED BY <3>1, <3>2
  <2>2. {p, r} \in SUBSET Names /\ <<>> \notin {p, r}
    OBVIOUS
  <2>3. \A a, m : (\A x \in {p, r} : a # At(t, Front(x)) \/ m # Last(x)) => Called(u, a, m) = Called(t, a, m)
    BY <2>1
  <2>4. \A q \in Names : (\A x \in {p, r} : ~IsPrefix(x, q)) => At(u, q) = At(t, q)
    BY <1>1, <1>5, <2>2, <2>3, EditedApart
  <2> QED BY <2>4
<1> QED BY <1>5, <1>6, <1>7, <1>8, <1>9 DEF Good

\* What a path leads to below another is there below that, if it is there.
LEMMA BelowThere ==
  ASSUME NEW t, Forest(t), NEW s, Forest(s), Like(t, s), NEW p \in Names, p # <<>>,
         At(t, p) \in DOMAIN s
  PROVE  \A q \in Names : IsPrefix(p, q) /\ At(t, q) \in DOMAIN s => At(t, q) \in Subtree(s, At(t, p))
<1> DEFINE id == At(t, p)
           Q == {q \in Names : IsPrefix(p, q) /\ At(t, q) \in DOMAIN s => At(t, q) \in Subtree(s, id)}
<1>1. <<>> \in Q
  <2>1. <<>> \in Names /\ (IsPrefix(p, <<>>) => p = <<>>)
    BY EmptySeq, PrefixSelf DEF Names
  <2> QED BY <2>1
<1>2. ASSUME NEW q \in Names, q # <<>>, Front(q) \in Q PROVE q \in Q
  <2> SUFFICES ASSUME IsPrefix(p, q), At(t, q) \in DOMAIN s PROVE At(t, q) \in Subtree(s, id)
    OBVIOUS
  <2> DEFINE i == At(t, q)
  <2>1. CASE q = p
    BY <2>1, SubtreeIs
  <2>2. CASE q # p
    <3>1. IsPrefix(p, Front(q)) /\ Front(q) \in Names
      BY <1>2, <2>2, PrefixFront, FrontIs
    <3>2. i # None
      BY ChildOf
    <3>3. i \in DOMAIN t /\ t[i].parent = At(t, Front(q))
      BY <1>2, <3>2, LeadsTo
    <3>4. s[i].parent = At(t, Front(q)) /\ IsDir(s, s[i].parent)
      BY <3>3 DEF Like, Forest
    <3>5. At(t, Front(q)) # Top
      <4>1. Front(q) # <<>>
        BY <3>1, PrefixSelf
      <4> QED BY <3>1, <4>1, LeadsNone
    <3>6. s[i].parent \in DOMAIN s
      BY <3>4, <3>5 DEF IsDir
    <3>7. s[i].parent \in Subtree(s, id)
      BY <1>2, <3>1, <3>4, <3>6
    <3> HIDE DEF i
    <3>8. i \in DOMAIN s
      BY DEF i
    <3>9. i \in Subtree(s, id)
      BY <3>6, <3>7, <3>8, SubtreeIs
    <3> QED BY <3>9 DEF i
  <2> QED BY <2>1, <2>2
<1>3. Q = Names
  <2> HIDE DEF Q
  <2>1. Q \in SUBSET Names
    BY DEF Q
  <2> QED BY <1>1, <1>2, <2>1, PathInd
<1> QED BY <1>3

-----------------------------------------------------------------------------
(* Where a call puts something, and the folders on the way there. *)

\* A segment that is to be made is on the way, is not there, and has a name for folders.
LEMMA SegmentStands ==
  ASSUME Straight, call.op \in {"put", "update", "mkdir", "move", "dirmove"}, Segment # <<>>
  PROVE  /\ Goal \in Names /\ Goal # <<>> /\ Segment \in Names /\ At(Now, Segment) = None
         /\ IsPrefix(Segment, Goal) /\ Segment # Goal /\ Last(Segment) \in FolderNames(opt)
<1>1. Types /\ Arguments
  BY DEF Straight
<1>2. Goal \in Names
  BY <1>1, GoalNames
<1>3. Goal # <<>>
  <2> SUFFICES ASSUME Goal = <<>> PROVE FALSE
    OBVIOUS
  <2>1. ParentPath = <<>>
    BY SubSeqEmpty DEF ParentPath, Front
  <2>2. {n \in 1..Len(ParentPath) : NodeAt(SubSeq(ParentPath, 1, n)) = None} = {}
    BY <2>1
  <2> QED BY <2>2 DEF Segment
<1>4. /\ Segment \in Names /\ At(Now, Segment) = None /\ Last(Segment) \in FolderNames(opt)
  BY <1>1, <1>3, SegmentWay
<1>5. IsPrefix(Segment, ParentPath) /\ Segment # Goal
  BY <1>2, <1>3, SegmentIs
<1>6. IsPrefix(Segment, Goal)
  BY <1>2, <1>3, <1>4, <1>5, PrefixFront DEF ParentPath
<1> QED BY <1>2, <1>3, <1>4, <1>5, <1>6

\* A folder is added in the folder where the path says, under the name that the path
\* says unless the course has one of that name there.
LEMMA MkDirGains ==
  ASSUME Straight, Started, UNCHANGED opt, NEW p \in Names, p # <<>>, Last(p) \in FolderNames(opt),
         server' \in MkDir(p), next' = IF next \in DOMAIN server' THEN next + 1 ELSE next
  PROVE  /\ IsDir(server, At(Now, Front(p))) /\ At(Now, Front(p)) \in Nat
         /\ \E name : /\ Receives(Folder(At(Now, Front(p)), name))
                      /\ name = Last(p) \/ Child(server, At(Now, Front(p)), Last(p)) # None
<1> DEFINE up == At(Now, Front(p))
<1>1. NodeAt(Front(p)) = up
  BY DEF NodeAt, At, Now
<1>2. PICK name : /\ IsDir(server, up) /\ server' = With(server, next, Folder(up, name))
                  /\ name = Last(p) \/ (name \in Suffixed /\ Child(server, up, Last(p)) # None)
  BY <1>1 DEF MkDir
<1> DEFINE node == Folder(up, name)
<1>3. up \in Nat
  BY <1>2, Footing DEF IsDir, Forest, Top
<1>4. name \in STRING /\ name \notin FileNames(opt)
  <2>1. Last(p) \in STRING /\ Last(p) \notin FileNames(opt)
    BY FrontIs, Footing, NamesAssumption
  <2>2. Suffixed \subseteq STRING /\ Suffixed \cap FileNames(opt) = {}
    BY Footing, NamesAssumption, ConstantsAssumption
  <2> QED BY <1>2, <2>1, <2>2
<1>5. node \in Nodes /\ node.parent = up /\ node.name = name /\ node.dir
  BY <1>3, <1>4 DEF Folder, Nodes
<1>6. IsDir(server, node.parent) /\ server' = With(server, next, node)
  BY <1>2, <1>5
<1> HIDE DEF node, up
<1>7. node.name \notin (IF node.dir THEN FileNames(opt) ELSE FolderNames(opt))
  BY <1>4, <1>5
<1>8. Receives(node)
  BY <1>5, <1>7, <1>6, ReceivesIs
<1> QED BY <1>2, <1>3, <1>8 DEF node, up

\* A file is added in the folder where the path says.
LEMMA FileGains ==
  ASSUME Straight, UNCHANGED opt, NEW p \in Names, p # <<>>, Last(p) \in FileNames(opt),
         IsDir(server, At(Now, Front(p))), NEW size \in Int,
         server' = With(server, next, File(At(Now, Front(p)), Last(p), size)),
         next' = IF next \in DOMAIN server' THEN next + 1 ELSE next
  PROVE  /\ Receives(File(At(Now, Front(p)), Last(p), size))
         /\ At(Now, Front(p)) \in Nat
<1> DEFINE up == At(Now, Front(p))
           node == File(up, Last(p), size)
<1>1. up \in Nat
  BY Footing DEF IsDir, Forest, Top
<1>2. Last(p) \in STRING /\ Last(p) \notin FolderNames(opt)
  BY FrontIs, Footing, NamesAssumption
<1>3. node \in Nodes /\ node.parent = up /\ node.name = Last(p) /\ ~node.dir
  BY <1>1, <1>2 DEF File, Nodes
<1>4. IsDir(server, up) /\ server' = With(server, next, node)
  OBVIOUS
<1> HIDE DEF node, up
<1>5. node.name \notin (IF node.dir THEN FileNames(opt) ELSE FolderNames(opt))
  BY <1>2, <1>3
<1>6. Receives(node)
  BY <1>3, <1>4, <1>5, ReceivesIs
<1> QED BY <1>1, <1>6 DEF node, up

\* Folders the course has are those of the tree, where both have them.
LEMMA FolderHere ==
  ASSUME Straight, Started, NEW p \in Names, IsDir(server, At(Now, p))
  PROVE  IsDir(Now, At(Now, p)) /\ At(Now, p) # None
<1>1. Forest(Now) /\ Forest(server) /\ Like(Now, server)
  BY Footing DEF Good
<1>2. At(Now, p) # None
  BY <1>1, ChildOf DEF IsDir, None, Top
<1>3. CASE At(Now, p) = Top
  BY <1>2, <1>3 DEF IsDir
<1>4. CASE At(Now, p) # Top
  <2>1. At(Now, p) \in DOMAIN server /\ server[At(Now, p)].dir
    BY <1>4 DEF IsDir
  <2>2. At(Now, p) \in DOMAIN Now
    BY <1>1, <1>2, <1>4, LeadsNone, AtEmpty
  <2>3. Now[At(Now, p)].dir = server[At(Now, p)].dir
    BY <1>1, <2>1, <2>2 DEF Like
  <2> QED BY <1>2, <2>1, <2>2, <2>3 DEF IsDir
<1> QED BY <1>3, <1>4

\* The tree enters what the course then has in the place of the folder.
LEMMA FolderEntered ==
  ASSUME Straight, Started, UNCHANGED opt, NEW p \in Names, p # <<>>, At(Now, p) = None,
         IsDir(server, At(Now, Front(p))), At(Now, Front(p)) \in Nat, Last(p) \in FolderNames(opt),
         NEW name, Receives(Folder(At(Now, Front(p)), name)),
         name = Last(p) \/ Child(server, At(Now, Front(p)), Last(p)) # None
  PROVE  /\ Good(WithFolder(p), next', server')
         /\ \A q \in Names : q # p => At(WithFolder(p), q) = At(Now, q)
         /\ \E i \in DOMAIN server' \ DOMAIN Now : DOMAIN WithFolder(p) = DOMAIN Now \cup {i}
<1> DEFINE up == At(Now, Front(p))
           i == Child(server', up, Last(p))
<1>1. /\ Plus(server, server', next, Folder(up, name)) /\ next' = next + 1 /\ Grown' /\ Remains
      /\ next \in Nat \ {0}
  BY Footing DEF Receives
<1>2. NodeAt(Front(p)) = up
  BY DEF NodeAt, At, Now
<1>3. Forest(server') /\ DOMAIN server' \subseteq 1..(next' - 1) /\ Named(server', opt)
  BY <1>1 DEF Grown, Wood
<1>4. Good(Now, next', server') /\ Forest(Now)
  <2>1. Good(Now, next, server) /\ Forest(Now)
    BY Footing
  <2>2. next' \in Nat /\ next <= next'
    BY <1>1
  <2> QED BY <1>1, <2>1, <2>2, GoodStays
<1>5. i \in Called(server', up, Last(p))
  <2>1. CASE name = Last(p)
    <3>1. next \in Called(server', up, Last(p))
      BY <1>1, <2>1 DEF Plus, Folder, Called
    <3> QED BY <1>3, <3>1, ChildOf
  <2>2. CASE Child(server, up, Last(p)) # None
    <3>1. PICK j \in Called(server, up, Last(p)) : TRUE
      BY <2>2, ChildOf, Footing
    <3>2. j \in Called(server', up, Last(p))
      BY <1>1, <3>1 DEF Plus, Called
    <3> QED BY <1>3, <3>2, ChildOf
  <2> QED BY <2>1, <2>2
<1> HIDE DEF i
<1>6. i \in DOMAIN server' /\ server'[i].parent = up /\ server'[i].name = Last(p) /\ server'[i] \in Nodes
  BY <1>3, <1>5 DEF Called, Forest
<1>7. i \notin DOMAIN Now
  <2> SUFFICES ASSUME i \in DOMAIN Now PROVE FALSE
    OBVIOUS
  <2>1. Now[i].parent = up /\ Now[i].name = Last(p)
    BY <1>4, <1>6 DEF Good, Like
  <2>2. Called(Now, up, Last(p)) = {}
    BY <1>4, LeadsTo
  <2> QED BY <2>1, <2>2 DEF Called
<1>8. WellNamed(server'[i]) /\ i \in 1..(next' - 1) /\ next' \in Nat
  BY <1>1, <1>3, <1>6 DEF Named, WellNamed
<1>9. IsDir(Now, up)
  <2>1. Front(p) \in Names
    BY FrontIs
  <2> QED BY <2>1, FolderHere
<1> DEFINE node == server'[i]
           u == With(Now, i, node)
<1>10. WithFolder(p) = u
  BY <1>2 DEF WithFolder, i, Now
<1>11. node \in Nodes /\ IsDir(Now, node.parent) /\ WellNamed(node) /\ node.parent = up /\ node.name = Last(p)
  BY <1>6, <1>8, <1>9
<1>12. i \in DOMAIN server' => server'[i].dir = node.dir /\ server'[i].parent = node.parent /\ server'[i].name = node.name
  OBVIOUS
<1>13. Good(u, next', server') /\ Plus(Now, u, i, node)
  <2> HIDE DEF node
  <2> QED BY <1>4, <1>7, <1>8, <1>11, <1>12, PlusGood
<1> HIDE DEF u, node
<1>14. \A q \in Names : q # p => At(u, q) = At(Now, q)
  <2>1. Forest(u) /\ DOMAIN u = DOMAIN Now \cup {i} /\ (\A j \in DOMAIN Now : u[j] = Now[j])
        /\ u[i].parent = At(Now, Front(p)) /\ u[i].name = Last(p)
    BY <1>11, <1>13 DEF Good, Plus
  <2> QED BY <1>4, <1>7, <2>1, EnteredAlone
<1> QED BY <1>6, <1>7, <1>10, <1>13, <1>14 DEF Plus

-----------------------------------------------------------------------------
(* Folders are made and removed. *)

\* A call returns that has entered in its tree what it has done.
LEMMA CommitsStraight ==
  ASSUME Straight, UNCHANGED <<opt, held>>, NEW t, NEW root, Commit(t, root), Good(t, next', server'),
         root \in {None, At(t, Root[call.f])}, Return("ok"), next' \in Nat \ {0}, Grown'
  PROVE  Straight'
<1>1. Over /\ before' = server'
  BY ReturnIs, Footing DEF Return
<1>2. Labels' /\ Current' /\ Rooted'
  BY CachesCommit
<1> QED BY <1>1, <1>2, EndsStraight

\* The root that is remembered is where it was, or not known.
LEMMA RootKept ==
  ASSUME Straight, NEW t,
         At(Now, Root[call.f]) # None => At(t, Root[call.f]) = At(Now, Root[call.f])
  PROVE  /\ relativeRoot[call.f] \in {None, At(t, Root[call.f])}
         /\ updateRelativeRootFromTree(t) \in {None, At(t, Root[call.f])}
<1>1. call.f \in Fs
  BY Footing
<1>2. relativeRoot[call.f] \in {None, At(Now, Root[call.f])}
  BY <1>1 DEF Straight, Rooted, Now
<1>3. updateRelativeRootFromTree(t) = At(t, Root[call.f])
  BY <1>2, RootAfter
<1> QED BY <1>2, <1>3

\* A folder on the way to the goal is made and entered, and counts as yet in no tree but one.
LEMMA MakeSegmentStraight ==
  ASSUME Straight, UNCHANGED opt, MakeSegment
  PROVE  Straight'
<1> DEFINE p == Segment
           u == WithFolder(p)
<1>1. /\ call.step = "parents" /\ p # <<>> /\ Serve /\ tree' = [tree EXCEPT ![call.f] = u]
      /\ call' = [call EXCEPT !.made = TRUE, !.dirty = TRUE]
      /\ UNCHANGED <<counter, snapshot, relativeRoot, label, held, before>>
  BY DEF MakeSegment, Answered, Requesting
<1>2. /\ Started /\ call.op \in {"put", "update", "mkdir", "move", "dirmove"}
  BY <1>1 DEF Started, Straight, Flags, Fits
<1>3. /\ Goal \in Names /\ p \in Names /\ At(Now, p) = None /\ p # Goal /\ Last(p) \in FolderNames(opt)
  BY <1>1, <1>2, SegmentStands
<1>4. server' \in MkDir(p) /\ next' = IF next \in DOMAIN server' THEN next + 1 ELSE next
  BY <1>1, Replies
<1>a. PICK name : /\ Receives(Folder(At(Now, Front(p)), name))
                  /\ name = Last(p) \/ Child(server, At(Now, Front(p)), Last(p)) # None
                  /\ IsDir(server, At(Now, Front(p))) /\ At(Now, Front(p)) \in Nat
  BY <1>1, <1>2, <1>3, <1>4, MkDirGains
<1> DEFINE node == Folder(At(Now, Front(p)), name)
<1>5. Receives(node)
  BY <1>a
<1>6. Good(u, next', server') /\ \A q \in Names : q # p => At(u, q) = At(Now, q)
  BY <1>1, <1>2, <1>3, <1>a, FolderEntered
<1> HIDE DEF u, p, node
<1>7. /\ next' = next + 1 /\ Grown' /\ Remains /\ Plus(server, server', next, node)
      /\ next \in Nat \ {0} /\ next' \in Nat \ {0} /\ next <= next'
  BY <1>5, Footing DEF Receives
<1>8. call \in Calls /\ call.f \in Fs /\ call.at \in Names /\ call.to \in Names /\ Root[call.f] \in Names
  BY Footing
<1>9. tree' = [f \in Fs |-> tree'[f]] /\ tree'[call.f] = u /\ \A f \in Fs \ {call.f} : tree'[f] = tree[f]
  <2>1. tree = [f \in Fs |-> tree[f]]
    BY DEF Straight, Labels
  <2> QED BY <1>1, <1>8, <2>1
<1>10. Labels'
  BY <1>1, <1>9 DEF Straight, Labels
<1>11. Rooted'
  <2>1. relativeRoot[call.f] \in {None, At(u, Root[call.f])}
    BY <1>3, <1>6, <1>8, RootKept
  <2>2. \A f \in Fs : relativeRoot[f] \in {None, At(tree[f], Root[f])}
    BY DEF Straight, Rooted
  <2> QED BY <1>1, <1>9, <2>1, <2>2 DEF Rooted
<1>12. Current'
  <2>1. ASSUME NEW f \in Fs PROVE Forest(tree'[f]) /\ (label'[f] = counter' => Good(tree'[f], next', server'))
    <3>1. CASE f = call.f
      BY <1>6, <1>9, <3>1 DEF Good
    <3>2. CASE f # call.f
      <4>1. tree'[f] = tree[f] /\ label'[f] = label[f] /\ counter' = counter
        BY <1>1, <1>9, <3>2
      <4>2. Forest(tree[f]) /\ (label[f] = counter => Good(tree[f], next, server))
        BY DEF Straight, Current
      <4> QED BY <1>7, <4>1, <4>2, GoodStays
    <3> QED BY <3>1, <3>2
  <2>2. ASSUME snapshot'.gen = counter' PROVE Good(snapshot'.tree, next', server')
    <3>1. Good(snapshot.tree, next, server) /\ snapshot' = snapshot
      BY <1>1, <2>2 DEF Straight, Current
    <3>2. Good(snapshot.tree, next', server')
      BY <1>7, <3>1, GoodStays
    <3> QED BY <3>1, <3>2
  <2> QED BY <2>1, <2>2 DEF Current, Good
<1>13. /\ call' \in Calls /\ call'.made /\ call'.dirty /\ call'.again = call.again /\ call'.step = call.step
       /\ call'.id = call.id /\ call'.lost = call.lost /\ call'.result = call.result
  BY <1>1, <1>8 DEF Calls
<1>14. Same
  BY <1>1, <1>8 DEF Calls, Same
<1>15. Flags' /\ Started'
  BY <1>1, <1>13, <1>14 DEF Straight, Flags, Fits, Same, Started
<1>16. Now' = u
  BY <1>9, <1>14 DEF Now, Same
<1>17. Knows'
  <2>1. label'[call'.f] = counter' /\ call'.result = "none"
    BY <1>1, <1>2, <1>13, <1>14 DEF Straight, Knows, Same, Started, Done
  <2>2. Located' => At(Now', call'.at) = call'.id /\ call'.id # None /\ call'.id # Top
    <3> SUFFICES ASSUME Located' PROVE At(u, call.at) = call.id /\ call.id # None /\ call.id # Top
      BY <1>13, <1>14, <1>16 DEF Same
    <3>1. Located
      BY <1>1, <1>13, <1>14 DEF Located, Same
    <3>2. At(Now, call.at) = call.id /\ call.id # None /\ call.id # Top
      BY <3>1 DEF Straight, Knows
    <3> QED BY <1>3, <1>6, <1>8, <3>2
  <2>3. call'.op = "dirmove" => At(Now', call'.to) = None
    <3> SUFFICES ASSUME call.op = "dirmove" PROVE At(u, call.to) = None
      BY <1>14, <1>16 DEF Same
    <3>1. At(Now, call.to) = None
      BY <1>1 DEF Straight, Knows
    <3>2. call.to # p
      BY <1>3 DEF Goal
    <3> QED BY <1>6, <1>8, <3>1, <3>2
  <2> QED BY <1>1, <1>13, <2>1, <2>2, <2>3 DEF Knows, Moving
<1>18. held' \in [Fs -> Objects]
      /\ \A g \in Fs : held'[g] = NoObject \/ (held'[g].id # None /\ held'[g].at \in Files(g))
  BY <1>1 DEF Straight, Types, Arguments
<1>19. call'.op = "move" /\ ~call'.lost =>
         ~call.lost /\ \A i \in DOMAIN server : i \in DOMAIN server' /\ server'[i] = server[i]
  BY <1>7, <1>13 DEF Plus
<1> QED BY <1>1, <1>7, <1>10, <1>11, <1>12, <1>13, <1>14, <1>15, <1>17, <1>18, <1>19, GoesStraight

\* All folders on the way are there: every other tree is to be read again.
LEMMA ParentsMadeStraight ==
  ASSUME Straight, UNCHANGED opt, ParentsMade
  PROVE  Straight'
<1> DEFINE root == updateRelativeRootFromTree(Now)
<1>1. /\ call.step = "parents" /\ UNCHANGED <<course, held, before>>
      /\ IF call.made THEN Commit(Now, root)
         ELSE /\ relativeRoot' = [relativeRoot EXCEPT ![call.f] = root]
              /\ UNCHANGED <<counter, snapshot, tree, label>>
      /\ call' = [call EXCEPT !.made = FALSE, !.dirty = FALSE, !.step = AfterParents]
  BY DEF ParentsMade, Now, ghosts
<1>2. /\ Started /\ call.op \in {"put", "update", "mkdir", "move", "dirmove"} /\ call \in Calls
      /\ call.f \in Fs /\ next \in Nat \ {0} /\ next' = next /\ server' = server
  BY <1>1, Footing DEF Started, Straight, Flags, Fits, course
<1>3. /\ AfterParents \in {"create", "unlink", "mkdir", "copy", "reparent"}
      /\ Fits(call.op, AfterParents)
      /\ AfterParents \in {"unlink", "copy", "reparent"} => call.op \in {"update", "move", "dirmove"}
      /\ AfterParents = "reparent" => call.op = "dirmove"
      /\ AfterParents = "unlink" => call.op = "update"
  BY <1>2 DEF AfterParents, Fits
<1>4. AfterParents \in StepNames
  BY <1>3 DEF StepNames
<1>5. root \in {None, At(Now, Root[call.f])}
  BY RootKept
<1> HIDE DEF root
<1>6. Good(Now, next, server) /\ label[call.f] = counter
  BY <1>2, Footing DEF Straight, Knows
<1>7. Labels' /\ Current' /\ Rooted' /\ tree'[call.f] = Now /\ label'[call.f] = counter'
  <2>1. CASE call.made
    <3>1. Good(Now, next', server') /\ Commit(Now, root)
      BY <1>1, <1>2, <1>6, <2>1
    <3> QED BY <1>5, <3>1, CachesCommit
  <2>2. CASE ~call.made
    <3>1. /\ relativeRoot' = [relativeRoot EXCEPT ![call.f] = root]
          /\ UNCHANGED <<counter, snapshot, tree, label>>
      BY <1>1, <2>2
    <3>2. relativeRoot = [f \in Fs |-> relativeRoot[f]] /\ \A f \in Fs : relativeRoot[f] \in {None, At(tree[f], Root[f])}
      BY DEF Straight, Labels, Rooted
    <3>3. relativeRoot' = [f \in Fs |-> relativeRoot'[f]] /\ Rooted'
      BY <1>2, <1>5, <3>1, <3>2 DEF Rooted, Now
    <3>4. Labels'
      BY <3>1, <3>3 DEF Straight, Labels
    <3>5. Current'
      BY <1>2, <3>1 DEF Straight, Current, Good
    <3> QED BY <1>6, <3>1, <3>3, <3>4, <3>5 DEF Now
  <2> QED BY <2>1, <2>2
<1>8. Grown'
  BY <1>2 DEF Straight, Grown
<1>9. /\ call' \in Calls /\ ~call'.made /\ ~call'.dirty /\ call'.again = call.again /\ call'.step = AfterParents
      /\ call'.id = call.id /\ call'.lost = call.lost /\ call'.result = call.result
  <2>1. call' \in Calls
    BY <1>1, <1>2, <1>4 DEF Calls
  <2> QED BY <1>1, <1>2, <1>4, <2>1 DEF Calls
<1>10. Same
  BY <1>1, <1>2 DEF Calls, Same
<1>11. Flags' /\ Started'
  BY <1>1, <1>3, <1>9, <1>10 DEF Straight, Flags, Same, Started
<1>12. Now' = Now
  BY <1>7, <1>10 DEF Now, Same
<1>13. Knows'
  <2>1. label'[call'.f] = counter' /\ call'.result = "none"
    BY <1>1, <1>2, <1>7, <1>9, <1>10 DEF Straight, Knows, Same, Started, Done
  <2>2. Located' => At(Now', call'.at) = call'.id /\ call'.id # None /\ call'.id # Top
    <3> SUFFICES ASSUME Located' PROVE At(Now, call.at) = call.id /\ call.id # None /\ call.id # Top
      BY <1>9, <1>10, <1>12 DEF Same
    <3>1. Located
      BY <1>1, <1>3, <1>9, <1>10 DEF Located, Same
    <3> QED BY <3>1 DEF Straight, Knows
  <2>3. call'.op = "dirmove" => At(Now', call'.to) = None
    <3> SUFFICES ASSUME call.op = "dirmove" PROVE At(Now, call.to) = None
      BY <1>10, <1>12 DEF Same
    <3> QED BY <1>1 DEF Straight, Knows
  <2>4. ~Moving' /\ call'.step \notin {"ensure", "begin", "license", "rename"}
    BY <1>3, <1>9, <1>10 DEF Moving, Same
  <2> QED BY <2>1, <2>2, <2>3, <2>4 DEF Knows
<1>14. held' \in [Fs -> Objects]
      /\ \A g \in Fs : held'[g] = NoObject \/ (held'[g].id # None /\ held'[g].at \in Files(g))
  BY <1>1 DEF Straight, Types, Arguments
<1> QED BY <1>1, <1>2, <1>7, <1>8, <1>9, <1>10, <1>11, <1>13, <1>14, GoesStraight DEF Started

\* The folder of Mkdir is made.
LEMMA MadeDirStraight ==
  ASSUME Straight, UNCHANGED opt, MadeDir
  PROVE  Straight'
<1> DEFINE p == call.at
           u == WithFolder(p)
<1>1. /\ call.step = "mkdir" /\ Serve /\ Commit(u, updateRelativeRootFromTree(u)) /\ Return("ok")
      /\ UNCHANGED held /\ NodeAt(p) = None
  BY DEF MadeDir, Answered, Requesting
<1>2. Started /\ call.op = "mkdir"
  BY <1>1 DEF Started, Straight, Flags, Fits
<1>3. /\ p \in Names /\ At(Now, p) = None /\ p # <<>> /\ Last(p) \in FolderNames(opt)
  <2>1. p \in Names /\ At(Now, p) = None
    BY <1>1, Footing DEF At, Now, NodeAt
  <2>2. p # <<>>
    BY <2>1, AtEmpty DEF None, Top
  <2> QED BY <1>2, <2>1, <2>2, GoalNames DEF Straight, Goal
<1>4. server' \in MkDir(p) /\ next' = IF next \in DOMAIN server' THEN next + 1 ELSE next
  BY <1>1, Replies
<1>a. PICK name : /\ Receives(Folder(At(Now, Front(p)), name))
                  /\ name = Last(p) \/ Child(server, At(Now, Front(p)), Last(p)) # None
                  /\ IsDir(server, At(Now, Front(p))) /\ At(Now, Front(p)) \in Nat
  BY <1>1, <1>2, <1>3, <1>4, MkDirGains
<1> DEFINE node == Folder(At(Now, Front(p)), name)
<1>5. Receives(node)
  BY <1>a
<1>6. Good(u, next', server') /\ \A q \in Names : q # p => At(u, q) = At(Now, q)
  BY <1>1, <1>2, <1>3, <1>a, FolderEntered
<1> HIDE DEF u, p, node
<1>7. next' \in Nat \ {0} /\ Grown'
  BY <1>5, Footing DEF Receives
<1>8. updateRelativeRootFromTree(u) \in {None, At(u, Root[call.f])}
  BY <1>3, <1>6, Footing, RootKept
<1> QED BY <1>1, <1>6, <1>7, <1>8, CommitsStraight

\* Removed are a folder and what is below it.
LEMMA RmdirLoses ==
  ASSUME Straight, UNCHANGED opt, Serve, call.step = "rmdir"
  PROVE  next' = next /\ next \in Nat \ {0} /\ Grown' /\ Remains
<1> DEFINE S == Subtree(server, call.id)
<1>1. server' = Without(server, S) /\ next' = IF next \in DOMAIN server' THEN next + 1 ELSE next
  BY Replies DEF DeleteFolder
<1>2. \A j \in DOMAIN server : server[j].parent \in S => j \in S
  BY SubtreeIs
<1> HIDE DEF S
<1> QED BY <1>1, <1>2, Footing, LostNodes

\* The folder of rmdir and purge goes, with all that is in it.
LEMMA RemovedDirStraight ==
  ASSUME Straight, UNCHANGED opt, RemovedDir
  PROVE  Straight'
<1> DEFINE id == call.id
           M == Subtree(Now, id)
           u == Without(Now, M)
           root == relativeRoot[call.f]
           path == Root[call.f]
<1>1. /\ call.step = "rmdir" /\ call.op \in {"rmdir", "purge"} /\ Serve
      /\ Commit(u, IF root = id THEN None ELSE root)
      /\ Return("ok") /\ UNCHANGED held
  BY DEF RemovedDir, Answered, Straight, Flags, Fits, Now
<1>2. Started /\ At(Now, call.at) = id /\ id # None /\ id # Top
  BY <1>1 DEF Started, Straight, Knows, Located
<1>3. /\ Good(Now, next, server) /\ Forest(Now) /\ call.at \in Names /\ path \in Names
      /\ IsPrefix(path, call.at) /\ next \in Nat \ {0} /\ call.f \in Fs
  <2>1. call.at \in Folders(call.f)
    BY <1>1 DEF Straight, Arguments
  <2> QED BY <1>2, <2>1, Footing, PathsAre
<1>4. root \in {None, At(Now, path)}
  BY <1>3 DEF Straight, Rooted, Now
<1>5. call.at # <<>>
  BY <1>2, AtEmpty
<1>8. next' = next /\ Grown' /\ Remains
  BY <1>1, RmdirLoses
<1>9. Good(Now, next', server')
  BY <1>3, <1>8, GoodStays
<1>10. /\ Top \notin M /\ \A i \in DOMAIN Now : Now[i].parent \in M => i \in M
       /\ \A i \in DOMAIN Now : i \in M => i = At(Now, call.at) \/ Now[i].parent \in M
  <2>1. Top \notin DOMAIN Now
    BY <1>3, ChildOf
  <2> QED BY <1>2, <2>1, SubtreeIs
<1> HIDE DEF M
<1>11. Good(u, next', server') /\ \A q \in Names : ~IsPrefix(call.at, q) => At(u, q) = At(Now, q)
  BY <1>2, <1>3, <1>5, <1>8, <1>9, <1>10, WithoutGood
<1> HIDE DEF u
<1>12. (IF root = id THEN None ELSE root) \in {None, At(u, path)}
  <2>1. CASE root = id \/ root = None
    BY <2>1
  <2>2. CASE root # id /\ root # None
    <3>1. ~IsPrefix(call.at, path)
      <4> SUFFICES ASSUME IsPrefix(call.at, path) PROVE FALSE
        OBVIOUS
      <4>1. call.at = path
        BY <1>3, PrefixAnti
      <4> QED BY <1>2, <1>4, <2>2, <4>1
    <3> QED BY <1>3, <1>4, <1>11, <2>2, <3>1
  <2> QED BY <2>1, <2>2
<1> QED BY <1>1, <1>3, <1>8, <1>11, <1>12, CommitsStraight

-----------------------------------------------------------------------------
(* Uploads. *)

\* A request about something that exists is answered only if it does.
LEMMA Exists ==
  ASSUME Serve, call.step \in {"copy", "stat", "license", "overwrite", "rename", "reparent", "rmdir"}
  PROVE  call.id \in DOMAIN server
BY DEF Serve, Outcomes

\* Uploads are of files, in folders, below the instance's root.
LEMMA UploadAt ==
  ASSUME Straight, call.op \in {"put", "update", "remove"}
  PROVE  /\ call.at \in Names /\ call.at # <<>> /\ Last(call.at) \in FileNames(opt) /\ Root[call.f] \in Names
         /\ Front(call.at) \in Names /\ Last(call.at) \in STRING /\ Last(call.at) \notin FolderNames(opt)
         /\ ~IsPrefix(call.at, Root[call.f]) /\ ~IsPrefix(call.at, Front(call.at))
<1>1. opt \in Scenarios /\ call.f \in Fs /\ call.at \in Files(call.f)
  BY Footing DEF Straight, Arguments
<1>2. call.at \in Names /\ call.at # <<>> /\ IsPrefix(Root[call.f], call.at) /\ call.at # Root[call.f]
      /\ Root[call.f] \in Names
  BY <1>1, PathsAre
<1>3. Last(call.at) \in FileNames(opt) /\ Last(call.at) \notin FolderNames(opt)
  BY <1>1, NamesOf
<1>4. Front(call.at) \in Names /\ Last(call.at) \in STRING /\ Len(Front(call.at)) = Len(call.at) - 1
      /\ Len(call.at) \in Nat \ {0}
  BY <1>2, FrontIs
<1>5. ~IsPrefix(call.at, Root[call.f])
  BY <1>2, PrefixAnti
<1>6. ~IsPrefix(call.at, Front(call.at))
  <2>1. ~(Len(call.at) <= Len(Front(call.at)))
    BY <1>4
  <2> QED BY <1>2, <1>4, <2>1, PrefixIs
<1> QED BY <1>2, <1>3, <1>4, <1>5, <1>6

\* What the tree has at the path is a file.
LEMMA FileHere ==
  ASSUME NEW t, NEW n, NEW s, Good(t, n, s), NEW p \in Names, p # <<>>, Last(p) \in FileNames(opt),
         At(t, p) # None
  PROVE  /\ At(t, p) \in DOMAIN t /\ ~t[At(t, p)].dir /\ At(t, p) # Top
         /\ t[At(t, p)].parent = At(t, Front(p)) /\ t[At(t, p)].name = Last(p)
<1>1. /\ At(t, p) \in DOMAIN t /\ t[At(t, p)].parent = At(t, Front(p)) /\ t[At(t, p)].name = Last(p)
  BY LeadsTo DEF Good
<1>2. At(t, p) # Top
  BY LeadsNone DEF Good
<1>3. ~t[At(t, p)].dir
  <2>1. t[At(t, p)].name \notin (IF t[At(t, p)].dir THEN FileNames(opt) ELSE FolderNames(opt))
    BY <1>1 DEF Good, Named
  <2> QED BY <1>1, <2>1
<1> QED BY <1>1, <1>2, <1>3

\* The tree enters at the call's path the file that the course has there.
LEMMA WithUploadGood ==
  ASSUME Straight, Started, call.op \in {"put", "update"}, UNCHANGED opt,
         Remains, Grown', next' \in Nat \ {0}, next <= next', NEW id \in DOMAIN server', ~server'[id].dir,
         server'[id].parent = At(Now, Front(call.at)), server'[id].name = Last(call.at)
  PROVE  /\ Good(WithUpload(id), next', server')
         /\ \A q \in Names : ~IsPrefix(call.at, q) => At(WithUpload(id), q) = At(Now, q)
<1> DEFINE node == Find(call.f, call.at)
<1>1. Good(Now, next, server) /\ call.size \in Int
  BY Footing DEF Calls
<1>2. Good(Now, next', server')
  BY <1>1, GoodStays
<1>3. Forest(server') /\ id \in 1..(next' - 1)
  BY DEF Grown, Wood
<1>4. node \in {None, At(Now, call.at)}
  BY FindOnly
<1>5. call.at \in Names /\ call.at # <<>> /\ Last(call.at) \in FileNames(opt)
  BY UploadAt
<1>6. WithUpload(id) = IF node = None \/ IsDir(Now, node) THEN Now ELSE ReId(Now, node, id, call.size)
  BY DEF WithUpload, Now
<1> HIDE DEF node
<1>7. CASE node = None
  BY <1>2, <1>6, <1>7
<1>8. CASE node # None
  <2>1. node = At(Now, call.at) /\ node \in DOMAIN Now /\ ~Now[node].dir /\ node # Top
    BY <1>1, <1>4, <1>5, <1>8, FileHere
  <2>2. WithUpload(id) = ReId(Now, node, id, call.size)
    BY <1>6, <1>8, <2>1 DEF IsDir
  <2>3. Good(ReId(Now, node, id, call.size), next', server')
        /\ \A q \in Names : ~IsPrefix(call.at, q) => At(ReId(Now, node, id, call.size), q) = At(Now, q)
    BY <1>1, <1>2, <1>3, <1>5, <2>1, ReIdGood
  <2> QED BY <2>2, <2>3
<1> QED BY <1>7, <1>8

\* The call goes on to the license with the file it has left.
LEMMA UploadStraight ==
  ASSUME Straight, Started, call.op \in {"put", "update"}, UNCHANGED <<opt, before>>,
         Remains, Grown', next' \in Nat \ {0}, next <= next', NEW id \in DOMAIN server', ~server'[id].dir,
         server'[id].parent = At(Now, Front(call.at)), server'[id].name = Last(call.at),
         Commit(WithUpload(id), relativeRoot[call.f]), Hold(id) \/ UNCHANGED held,
         call' \in Calls, Same, call'.step = "license", call'.id = id, call'.result = call.result,
         ~call'.made, ~call'.dirty, call'.again => call.again
  PROVE  Straight'
<1> DEFINE u == WithUpload(id)
<1>1. Good(u, next', server') /\ \A q \in Names : ~IsPrefix(call.at, q) => At(u, q) = At(Now, q)
  BY WithUploadGood
<1> HIDE DEF u
<1>2. /\ call.at \in Names /\ Root[call.f] \in Names /\ Front(call.at) \in Names
      /\ ~IsPrefix(call.at, Root[call.f]) /\ ~IsPrefix(call.at, Front(call.at))
  BY UploadAt
<1>3. relativeRoot[call.f] \in {None, At(u, Root[call.f])}
  BY <1>1, <1>2, RootKept
<1>4. Commit(u, relativeRoot[call.f])
  BY DEF u
<1>5. Labels' /\ Current' /\ Rooted' /\ tree'[call.f] = u /\ label'[call.f] = counter'
  BY <1>1, <1>3, <1>4, CachesCommit
<1>6. id \in 1..(next' - 1) /\ id \in Nat /\ Forest(server')
  <2>1. DOMAIN server' \subseteq 1..(next' - 1) /\ Forest(server')
    BY DEF Grown, Wood
  <2> QED BY <2>1 DEF Forest
<1>7. /\ held' \in [Fs -> Objects] /\ \A g \in Fs : held[g].id # None => held'[g].id # None
      /\ \A g \in Fs : held'[g] = NoObject \/ (held'[g].id # None /\ held'[g].at \in Files(g))
  BY <1>6, Holding DEF Straight
<1>8. Flags' /\ Started'
  BY DEF Straight, Flags, Fits, Same, Started
<1>9. Now' = u /\ At(u, Front(call.at)) = At(Now, Front(call.at))
  BY <1>1, <1>2, <1>5 DEF Now, Same
<1>10. Licensing'
  <2>1. server'[id].parent = At(Now', Front(call'.at)) /\ server'[id].name = Last(call'.at)
    BY <1>9 DEF Same
  <2> QED BY <1>6, <1>9, <2>1 DEF Licensing, FiledAs, Same
<1>11. Knows'
  <2>1. call'.result = "none"
    BY DEF Straight, Knows, Started, Done
  <2> QED BY <1>5, <1>10, <2>1 DEF Knows, Located, Moving, Same
<1>12. call.step # "done" /\ call'.op # "move"
  BY DEF Started, Same
<1> QED BY <1>5, <1>7, <1>8, <1>11, <1>12, GoesStraight

\* Created is a file of the call's name, in the folder its path says.
LEMMA CreateReceives ==
  ASSUME Straight, UNCHANGED opt, Serve, call.step = "create"
  PROVE  \E s \in Int :
           /\ Receives(File(At(Now, Front(call.at)), Last(call.at), s)) /\ (call.size >= 0 => s = call.size)
           /\ IsDir(server, At(Now, Front(call.at)))
<1>1. call.op \in {"put", "update"} /\ opt \in Scenarios /\ call.size \in Int
  BY Footing DEF Straight, Flags, Fits, Calls
<1>2. call.at \in Names /\ call.at # <<>> /\ Last(call.at) \in FileNames(opt)
  BY <1>1, UploadAt
<1> DEFINE up == At(Now, Front(call.at))
<1>3. server' \in CreateFileContent(call.at) /\ next' = IF next \in DOMAIN server' THEN next + 1 ELSE next
  BY Replies
<1>4. NodeAt(Front(call.at)) = up
  BY DEF NodeAt, At, Now
<1>5. PICK s \in Stored : IsDir(server, up) /\ server' = With(server, next, File(up, Last(call.at), s))
  BY <1>3, <1>4 DEF CreateFileContent
<1>6. s \in Int /\ (call.size >= 0 => s = call.size)
  <2>1. opt.sizes \subseteq Int
    BY <1>1, ConstantsAssumption
  <2> QED BY <1>1, <2>1 DEF Stored
<1>7. Receives(File(up, Last(call.at), s))
  BY <1>2, <1>3, <1>5, <1>6, FileGains
<1> QED BY <1>5, <1>6, <1>7

\* A file is created: Put waits with its entry for the license.
LEMMA CreatedStraight ==
  ASSUME Straight, UNCHANGED opt, Created
  PROVE  Straight'
<1>1. /\ call.step = "create" /\ Serve /\ Hold(next) /\ UNCHANGED before
      /\ call' = [call EXCEPT !.id = next, !.dirty = (call.op = "put"), !.step = "license"]
      /\ IF call.op = "put" THEN UNCHANGED caches ELSE Commit(WithUpload(next), relativeRoot[call.f])
  BY DEF Created, Answered
<1>2. /\ Started /\ call.op \in {"put", "update"} /\ call \in Calls /\ ~call.made /\ call.size \in Int
      /\ call.f \in Fs /\ next \in Nat \ {0} /\ opt \in Scenarios
  BY <1>1, Footing DEF Started, Straight, Flags, Fits, Calls
<1>3. Good(Now, next, server) /\ next \notin DOMAIN Now
  BY <1>2, Footing
<1>4. call.at \in Names /\ call.at # <<>> /\ Front(call.at) \in Names
  BY <1>2, UploadAt
<1> DEFINE up == At(Now, Front(call.at))
<1>7. PICK s \in Int : Receives(File(up, Last(call.at), s)) /\ IsDir(server, up)
  BY <1>1, CreateReceives
<1>10. /\ next \in DOMAIN server' /\ server'[next] = File(up, Last(call.at), s)
       /\ next' = next + 1 /\ Grown' /\ Remains /\ next' \in Nat \ {0} /\ next <= next'
  BY <1>2, <1>7 DEF Receives, Plus
<1>11. server'[next].dir = FALSE /\ server'[next].parent = up /\ server'[next].name = Last(call.at)
  BY <1>7, <1>10 DEF File
<1> HIDE DEF up
<1>a. PICK d \in BOOLEAN : d = (call.op = "put")
  OBVIOUS
<1>12. /\ call' \in Calls /\ call'.step = "license" /\ call'.id = next /\ call'.result = call.result
       /\ call'.made = call.made /\ call'.again = call.again /\ call'.dirty = d
  <2>1. call' = [call EXCEPT !.id = next, !.dirty = d, !.step = "license"]
    BY <1>1, <1>a
  <2>2. next \in Int
    BY <1>2
  <2>3. call' \in Calls
    BY <1>2, <2>1, <2>2 DEF Calls, StepNames
  <2> QED BY <1>2, <2>1, <2>2, <2>3 DEF Calls
<1>13. Same
  BY <1>1, <1>2 DEF Calls, Same
<1>14. CASE call.op = "update"
  <2>1. ~call'.dirty
    BY <1>a, <1>12, <1>14
  <2> QED BY <1>1, <1>2, <1>10, <1>11, <1>12, <1>13, <1>14, <2>1, UploadStraight DEF up
<1>15. CASE call.op = "put"
  <2>1. UNCHANGED <<caches, held>>
    BY <1>1, <1>15 DEF Hold
  <2>2. Labels' /\ Current' /\ Rooted'
    BY <1>10, <2>1, CachesStay
  <2>3. Now' = Now
    BY <1>13, <2>1 DEF Now, Same, caches
  <2>4. Flags' /\ Started'
    BY <1>a, <1>1, <1>2, <1>12, <1>13, <1>15 DEF Straight, Flags, Fits, Same, Started
  <2>5. Licensing'
    <3>1. next \in 1..(next' - 1)
      BY <1>2, <1>10
    <3>2. IsDir(Now, up)
      BY <1>2, <1>4, <1>7, FolderHere DEF up
    <3>3. server'[next].parent = At(Now', Front(call'.at)) /\ server'[next].name = Last(call'.at)
      BY <1>11, <1>13, <2>3 DEF up, Same
    <3> QED BY <1>a, <1>3, <1>11, <1>12, <1>13, <1>15, <2>3, <3>1, <3>2, <3>3 DEF Licensing, FiledAs, up, Same
  <2>6. Knows'
    <3>1. call'.result = "none"
      BY <1>2, <1>12 DEF Straight, Knows, Started, Done
    <3>2. label'[call'.f] = counter'
      BY <1>2, <1>13, <2>1 DEF Straight, Knows, Same, caches
    <3> QED BY <1>12, <1>13, <2>5, <3>1, <3>2 DEF Knows, Located, Moving, Same
  <2>7. held' \in [Fs -> Objects]
        /\ \A g \in Fs : held'[g] = NoObject \/ (held'[g].id # None /\ held'[g].at \in Files(g))
    BY <2>1 DEF Straight, Types, Arguments
  <2>8. call'.op # "move"
    BY <1>13, <1>15 DEF Same
  <2> QED BY <1>1, <1>2, <1>10, <1>12, <1>13, <2>1, <2>2, <2>4, <2>6, <2>7, <2>8, GoesStraight DEF Started
<1> QED BY <1>2, <1>14, <1>15

-----------------------------------------------------------------------------
(* Writes to a file that is there. *)

\* The file that a call is about, in the tree and, if it is there, on the course.
LEMMA TheFile ==
  ASSUME Straight, Started, Located, call.op \in {"put", "update", "remove", "move"}
  PROVE  /\ call.id \in DOMAIN Now /\ ~Now[call.id].dir /\ call.id # Top /\ call.id # None
         /\ At(Now, call.at) = call.id /\ call.at \in Names /\ call.at # <<>> /\ Last(call.at) \in FileNames(opt)
         /\ call.id \in DOMAIN server => FiledAs(call.id, call.at)
<1>1. At(Now, call.at) = call.id /\ call.id # None /\ call.id # Top
  BY DEF Straight, Knows
<1>2. call.at \in Names /\ call.at # <<>> /\ Last(call.at) \in FileNames(opt)
  <2>1. \E f \in Fs : call.at \in Files(f)
    BY Footing DEF Straight, Arguments
  <2>2. opt \in Scenarios
    BY Footing
  <2> QED BY <2>1, <2>2, PathsAre, NamesOf
<1>3. Good(Now, next, server)
  BY Footing
<1>4. /\ call.id \in DOMAIN Now /\ ~Now[call.id].dir
      /\ Now[call.id].parent = At(Now, Front(call.at)) /\ Now[call.id].name = Last(call.at)
  BY <1>1, <1>2, <1>3, FileHere
<1>5. call.id \in DOMAIN server => FiledAs(call.id, call.at)
  BY <1>3, <1>4 DEF Good, Like, FiledAs
<1> QED BY <1>1, <1>2, <1>4, <1>5

\* Nothing is in a file.
LEMMA NothingIn ==
  ASSUME NEW t, Forest(t), NEW id, id # Top, id \in DOMAIN t => ~t[id].dir
  PROVE  \A i \in DOMAIN t : t[i].parent \in {id} => i \in {id}
BY DEF Forest, IsDir

\* Overwritten is the file at the call's path, which keeps its id or gets the next.
LEMMA OverwriteRenews ==
  ASSUME Straight, UNCHANGED opt, Serve, call.step = "overwrite"
  PROVE  /\ next' \in Nat \ {0} /\ next <= next' /\ Grown' /\ Remains
         /\ call.id \in DOMAIN server /\ FiledAs(call.id, call.at)
         /\ \E n \in {call.id, next}, s \in Int :
              /\ ReIded(server, call.id, server', n, s)
              /\ call.size < 0 \/ s = call.size \/ (s = server[call.id].size /\ 0 <= s /\ s < call.size)
<1> DEFINE id == call.id
<1>1. /\ Started /\ Located /\ call.op \in {"put", "update"} /\ call.size \in Int /\ opt \in Scenarios
  BY Footing DEF Started, Located, Straight, Flags, Fits, Calls
<1>2. id \in DOMAIN server
  BY Exists
<1>3. FiledAs(id, call.at)
  BY <1>1, <1>2, TheFile
<1>4. server' \in UpdateFileContent(id) /\ next' = IF next \in DOMAIN server' THEN next + 1 ELSE next
  BY Replies
<1>5. PICK n \in {id, next}, s \in Stored \cup ({server[id].size} \cap 0..(call.size - 1)) :
        server' = ReId(server, id, n, s)
  BY <1>4 DEF UpdateFileContent
<1>6. /\ s \in Int
      /\ call.size < 0 \/ s = call.size \/ (s = server[id].size /\ 0 <= s /\ s < call.size)
  <2>1. opt.sizes \subseteq Int
    BY <1>1, ConstantsAssumption
  <2>2. CASE s \in Stored
    BY <1>1, <2>1, <2>2 DEF Stored
  <2>3. CASE s \in {server[id].size} \cap 0..(call.size - 1)
    BY <1>1, <2>3
  <2> QED BY <1>5, <2>2, <2>3
<1>7. /\ ReIded(server, id, server', n, s) /\ next' \in Nat \ {0} /\ next <= next' /\ Grown' /\ Remains
  BY <1>2, <1>3, <1>4, <1>5, <1>6, RenewedNode DEF FiledAs
<1> QED BY <1>2, <1>3, <1>5, <1>6, <1>7

\* A file is overwritten.
LEMMA OverwroteStraight ==
  ASSUME Straight, UNCHANGED opt, Overwrote
  PROVE  Straight'
<1> DEFINE id == call.id
           new == IF id \in DOMAIN server' THEN id ELSE next
<1>1. /\ call.step = "overwrite" /\ Serve /\ UNCHANGED before
      /\ Commit(WithUpload(new), relativeRoot[call.f]) /\ Hold(new)
      /\ call' = [call EXCEPT !.id = new, !.step = "license"]
  BY DEF Overwrote, Answered
<1>2. /\ Started /\ Located /\ call.op \in {"put", "update"} /\ call \in Calls /\ ~call.made /\ ~call.dirty
      /\ call.size \in Int /\ next \in Nat \ {0} /\ opt \in Scenarios /\ id \in Int
  BY <1>1, Footing DEF Started, Located, Straight, Flags, Fits, Calls
<1>4. /\ next' \in Nat \ {0} /\ next <= next' /\ Grown' /\ Remains
      /\ ~server[id].dir /\ server[id].parent = At(Now, Front(call.at)) /\ server[id].name = Last(call.at)
  BY <1>1, OverwriteRenews DEF FiledAs
<1>8. PICK n \in {id, next}, s \in Int : ReIded(server, id, server', n, s)
  BY <1>1, OverwriteRenews
<1>9. n = new /\ n \in DOMAIN server' /\ n \in Int
  <2>1. DOMAIN server' = (DOMAIN server \ {id}) \cup {n}
    BY <1>8 DEF ReIded
  <2> QED BY <1>2, <2>1
<1> HIDE DEF new, id
<1>10. /\ server'[n].dir = server[id].dir /\ server'[n].parent = At(Now, Front(call.at))
       /\ server'[n].name = Last(call.at)
  BY <1>4, <1>8 DEF ReIded
<1>11. ~server'[n].dir
  BY <1>4, <1>10
<1>12. /\ call' \in Calls /\ call'.step = "license" /\ call'.id = n /\ call'.result = call.result
       /\ call'.made = call.made /\ call'.again = call.again /\ call'.dirty = call.dirty
  <2>1. call' \in Calls
    BY <1>1, <1>2, <1>9 DEF Calls, StepNames
  <2> QED BY <1>1, <1>2, <1>9, <2>1 DEF Calls
<1>13. Same
  BY <1>1, <1>2 DEF Calls, Same
<1>14. Commit(WithUpload(n), relativeRoot[call.f]) /\ Hold(n)
  BY <1>1, <1>9
<1> QED BY <1>1, <1>2, <1>4, <1>9, <1>10, <1>11, <1>12, <1>13, <1>14, UploadStraight

\* The license of an update is set once more.
LEMMA LicenseAgainStraight ==
  ASSUME Straight, UNCHANGED opt, LicenseAgain
  PROVE  Straight'
<1>1. /\ call.step = "license" /\ call.again /\ Serve /\ UNCHANGED <<held, before>>
      /\ Commit(WithUpload(call.id), relativeRoot[call.f])
      /\ call' = [call EXCEPT !.again = FALSE]
  BY DEF LicenseAgain, Answered
<1>2. /\ Started /\ call.op = "update" /\ call \in Calls /\ ~call.made /\ next \in Nat \ {0} /\ Licensing
  BY <1>1, Footing DEF Started, Straight, Flags, Knows
<1>3. next' = next /\ server' = server /\ call.id \in DOMAIN server /\ Remains
  BY <1>1, AsksOnly, Exists, RemainsSame DEF course
<1>4. ~call.dirty /\ FiledAs(call.id, call.at)
  BY <1>2, <1>3 DEF Licensing
<1>5. Grown'
  BY <1>3 DEF Straight, Grown
<1>6. /\ call' \in Calls /\ call'.step = call.step /\ call'.id = call.id /\ call'.result = call.result
      /\ call'.made = call.made /\ ~call'.again /\ call'.dirty = call.dirty
  BY <1>1, <1>2 DEF Calls
<1>7. Same
  BY <1>1, <1>2 DEF Calls, Same
<1>8. PICK id \in DOMAIN server' : id = call.id
  BY <1>3
<1>9. ~server'[id].dir /\ server'[id].parent = At(Now, Front(call.at)) /\ server'[id].name = Last(call.at)
  BY <1>3, <1>4, <1>8 DEF FiledAs
<1>10. Commit(WithUpload(id), relativeRoot[call.f])
  BY <1>1, <1>8
<1>11. call.op \in {"put", "update"} /\ next' \in Nat \ {0} /\ next <= next'
  BY <1>2, <1>3
<1> QED BY <1>1, <1>2, <1>3, <1>4, <1>5, <1>6, <1>7, <1>8, <1>9, <1>10, <1>11, UploadStraight

\* Put enters the file it has created.
LEMMA EnterFileStraight ==
  ASSUME Straight, UNCHANGED opt, EnterFile
  PROVE  Straight'
<1> DEFINE id == call.id
           p == call.at
           up == At(Now, Front(p))
           node == At(Now, p)
           new == File(up, Last(p), call.size)
           u == IF node # None /\ ~IsDir(Now, node) THEN ReId(Now, node, id, call.size)
                ELSE With(Now, id, new)
<1>1. /\ call.step = "license" /\ call.dirty /\ Serve /\ UNCHANGED held /\ Return("ok")
      /\ Commit(IF Child(Now, NodeAt(ParentPath), Last(p)) # None /\ ~IsDir(Now, Child(Now, NodeAt(ParentPath), Last(p)))
                THEN ReId(Now, Child(Now, NodeAt(ParentPath), Last(p)), id, call.size)
                ELSE With(Now, id, File(NodeAt(ParentPath), Last(p), call.size)), relativeRoot[call.f])
  BY DEF EnterFile, Answered, Now
<1>2. /\ Started /\ call \in Calls /\ ~call.made /\ next \in Nat \ {0} /\ Licensing /\ call.size \in Int
      /\ Good(Now, next, server) /\ Forest(Now) /\ Forest(server)
  BY <1>1, Footing DEF Started, Straight, Flags, Knows, Calls
<1>3. next' = next /\ server' = server /\ id \in DOMAIN server
  BY <1>1, AsksOnly, Exists DEF course
<1>4. call.op = "put" /\ FiledAs(id, p) /\ id \notin DOMAIN Now /\ IsDir(Now, up) /\ id \in 1..(next - 1)
  BY <1>1, <1>2, <1>3 DEF Licensing
<1>5. /\ p \in Names /\ p # <<>> /\ Last(p) \in FileNames(opt) /\ Root[call.f] \in Names
      /\ ~IsPrefix(p, Root[call.f]) /\ Last(p) \in STRING /\ Last(p) \notin FolderNames(opt)
  BY <1>4, UploadAt
<1>6. NodeAt(ParentPath) = up /\ Child(Now, up, Last(p)) = node
  <2>1. NodeAt(ParentPath) = up
    BY <1>4 DEF NodeAt, At, Now, ParentPath, Goal
  <2> QED BY <1>2, <1>5, <2>1, LeadsTo
<1>7. Commit(u, relativeRoot[call.f])
  BY <1>1, <1>6
<1>8. Grown'
  BY <1>3 DEF Straight, Grown
<1>9. Good(u, next, server) /\ (At(Now, Root[call.f]) # None => At(u, Root[call.f]) = At(Now, Root[call.f]))
  <2>1. CASE node # None
    <3>1. node \in DOMAIN Now /\ ~Now[node].dir /\ node # Top
      BY <1>2, <1>5, <2>1, FileHere
    <3>2. u = ReId(Now, node, id, call.size)
      BY <2>1, <3>1 DEF IsDir
    <3>3. /\ ~server[id].dir /\ server[id].parent = At(Now, Front(p)) /\ server[id].name = Last(p)
      BY <1>4 DEF FiledAs
    <3> HIDE DEF id, p, u, node
    <3>4. Good(ReId(Now, node, id, call.size), next, server)
          /\ \A q \in Names : ~IsPrefix(p, q) => At(ReId(Now, node, id, call.size), q) = At(Now, q)
      <4>1. At(Now, p) = node
        BY DEF node
      <4>2. next \in Nat
        BY <1>2
      <4> QED BY <1>2, <1>3, <1>4, <1>5, <3>1, <3>3, <4>1, <4>2, ReIdGood
    <3> QED BY <1>5, <3>2, <3>4
  <2>2. CASE node = None
    <3>1. u = With(Now, id, new)
      BY <2>2
    <3>2. up \in Nat
      BY <1>2, <1>4 DEF IsDir, Forest, Top
    <3>3. new \in Nodes /\ new.parent = up /\ new.name = Last(p) /\ new.dir = FALSE
      BY <1>2, <1>5, <3>2 DEF File, Nodes
    <3>4. server[id].dir = FALSE /\ server[id].parent = up /\ server[id].name = Last(p)
      <4>1. server[id] \in Nodes
        BY <1>2, <1>3 DEF Forest
      <4> QED BY <1>4, <4>1 DEF FiledAs, Nodes
    <3> HIDE DEF new, up, u
    <3>5. WellNamed(new)
      BY <1>5, <3>3 DEF WellNamed
    <3>6. Good(With(Now, id, new), next, server) /\ Plus(Now, With(Now, id, new), id, new)
      <4>1. next \in Nat
        BY <1>2
      <4> QED BY <1>2, <1>4, <3>3, <3>4, <3>5, <4>1, PlusGood
    <3>7. Good(u, next, server) /\ Plus(Now, u, id, new)
      BY <3>1, <3>6
    <3>8. \A q \in Names : q # p => At(u, q) = At(Now, q)
      <4>1. /\ Forest(u) /\ DOMAIN u = DOMAIN Now \cup {id} /\ (\A j \in DOMAIN Now : u[j] = Now[j])
            /\ u[id].parent = At(Now, Front(p)) /\ u[id].name = Last(p)
        BY <3>3, <3>7 DEF Good, Plus, up
      <4>2. At(Now, p) = None
        BY <2>2
      <4> QED BY <1>2, <1>4, <1>5, <4>1, <4>2, EnteredAlone
    <3>9. Root[call.f] # p
      BY <1>5, PrefixSelf
    <3> QED BY <1>5, <3>7, <3>8, <3>9
  <2> QED BY <2>1, <2>2
<1> HIDE DEF u
<1>10. relativeRoot[call.f] \in {None, At(u, Root[call.f])}
  BY <1>9, RootKept
<1>11. Good(u, next', server')
  BY <1>3, <1>9
<1> QED BY <1>1, <1>2, <1>3, <1>7, <1>8, <1>10, <1>11, CommitsStraight

-----------------------------------------------------------------------------
(* Files are copied and removed. *)

\* A file goes, or had gone.
LEMMA FileGoes ==
  ASSUME Straight, UNCHANGED opt, Serve, NEW id, id # Top, id \in DOMAIN server => ~server[id].dir,
         server' \in DeleteFile(id)
  PROVE  /\ DOMAIN server' = DOMAIN server \ {id} /\ \A i \in DOMAIN server' : server'[i] = server[i]
         /\ next' = next /\ Grown' /\ Remains /\ next \in Nat \ {0}
<1>1. server' = Without(server, {id}) /\ next' = IF next \in DOMAIN server' THEN next + 1 ELSE next
  BY Replies DEF DeleteFile
<1>2. \A i \in DOMAIN server : server[i].parent \in {id} => i \in {id}
  BY Footing, NothingIn
<1> QED BY <1>1, <1>2, Footing, LostNodes

\* Copied is the file, under the name and in the folder that the new path says.
LEMMA CopyReceives ==
  ASSUME Straight, UNCHANGED opt, Serve, call.step = "copy"
  PROVE  /\ call.id \in DOMAIN server
         /\ Receives(File(At(Now, Front(call.to)), Last(call.to), server[call.id].size))
<1> DEFINE up == At(Now, Front(call.to))
           size == server[call.id].size
<1>1. call.op = "move"
  BY DEF Straight, Flags, Fits
<1>2. call.id \in DOMAIN server /\ Forest(server)
  BY Exists, Footing
<1>3. size \in Int
  BY <1>2 DEF Forest, Nodes
<1>4. call.to \in Names /\ call.to # <<>> /\ Last(call.to) \in FileNames(opt)
  BY <1>1, GoalNames DEF Straight, Goal
<1>5. /\ IsDir(server, up) /\ server' = With(server, next, File(up, Last(call.to), size))
      /\ next' = IF next \in DOMAIN server' THEN next + 1 ELSE next
  <2>1. NodeAt(ParentPath) = up
    BY <1>1 DEF NodeAt, At, Now, ParentPath, Goal
  <2>2. server' \in CreateFileRefByReference(call.id)
    BY Replies
  <2> QED BY <2>1, <2>2, Replies DEF CreateFileRefByReference
<1> HIDE DEF size
<1>6. Receives(File(up, Last(call.to), size))
  BY <1>3, <1>4, <1>5, FileGains
<1> QED BY <1>2, <1>6 DEF size

\* The file a move copies to another folder or name.
LEMMA CopiedStraight ==
  ASSUME Straight, UNCHANGED opt, Copied
  PROVE  Straight'
<1> DEFINE up == At(Now, Front(call.to))
           size == server[call.id].size
<1>1. /\ call.step = "copy" /\ Serve /\ UNCHANGED <<caches, held, before>>
      /\ call' = [call EXCEPT !.new = next, !.dirty = TRUE, !.step = "unlink"]
  BY DEF Copied, Answered
<1>2. /\ Started /\ Located /\ call.op = "move" /\ call \in Calls /\ ~call.made /\ next \in Nat \ {0}
      /\ call.f \in Fs /\ opt \in Scenarios /\ next \in Int
  BY <1>1, Footing DEF Started, Located, Straight, Flags, Fits
<1>3. call.id \in DOMAIN server
  BY <1>1, Exists
<1>7. Receives(File(up, Last(call.to), size))
  BY <1>1, CopyReceives
<1> HIDE DEF size
<1>8. /\ DOMAIN server' = DOMAIN server \cup {next} /\ \A j \in DOMAIN server : server'[j] = server[j]
      /\ server'[next].dir = FALSE /\ server'[next].parent = up /\ server'[next].name = Last(call.to)
      /\ server'[next].size = size
      /\ next' = next + 1 /\ Grown' /\ Remains /\ next' \in Nat \ {0} /\ next <= next'
  BY <1>2, <1>7 DEF Receives, Plus, File
<1>9. Labels' /\ Current' /\ Rooted'
  BY <1>1, <1>8, CachesStay
<1>10. /\ call' \in Calls /\ call'.step = "unlink" /\ call'.id = call.id /\ call'.new = next
       /\ call'.made = call.made /\ call'.again = call.again /\ call'.dirty = TRUE
       /\ call'.lost = call.lost /\ call'.result = call.result
  <2>1. call' \in Calls
    BY <1>1, <1>2 DEF Calls, StepNames
  <2> QED BY <1>1, <1>2, <2>1 DEF Calls
<1>11. Same
  BY <1>1, <1>2 DEF Calls, Same
<1>12. Now' = Now
  BY <1>1, <1>11 DEF Now, Same, caches
<1>13. Flags' /\ Started'
  BY <1>1, <1>2, <1>10, <1>11 DEF Straight, Flags, Fits, Same, Started
<1>14. Copying'
  <2>1. next \in 1..(next' - 1)
    BY <1>2, <1>8
  <2>2. next \notin DOMAIN Now
    BY <1>2, Footing
  <2>3. next \notin DOMAIN before
    <3>1. DOMAIN before \subseteq 1..(next - 1) /\ next \notin 1..(next - 1)
      BY <1>2 DEF Straight, Was
    <3> QED BY <3>1
  <2>4. {call.id, next} \subseteq DOMAIN server' /\ server'[next].size = server'[call.id].size
    BY <1>3, <1>8 DEF size
  <2>5. server'[next].parent = At(Now', Front(call'.to)) /\ server'[next].name = Last(call'.to)
    BY <1>8, <1>11, <1>12 DEF Same
  <2> QED BY <1>1, <1>8, <1>10, <1>12, <2>1, <2>2, <2>3, <2>4, <2>5 DEF Copying, FiledAs
<1>15. Knows'
  <2>1. At(Now, call.at) = call.id /\ call.id # None /\ call.id # Top
    BY <1>2 DEF Straight, Knows
  <2>2. call'.result = "none" /\ label'[call'.f] = counter'
    BY <1>1, <1>2, <1>10, <1>11 DEF Straight, Knows, Started, Done, Same, caches
  <2> QED BY <1>2, <1>10, <1>11, <1>12, <1>14, <2>1, <2>2 DEF Knows, Same
<1>16. held' \in [Fs -> Objects]
      /\ \A g \in Fs : held'[g] = NoObject \/ (held'[g].id # None /\ held'[g].at \in Files(g))
  BY <1>1 DEF Straight, Types, Arguments
<1> QED BY <1>1, <1>2, <1>8, <1>9, <1>10, <1>11, <1>13, <1>15, <1>16, GoesStraight

\* Update has removed the file it creates anew.
LEMMA UnlinkedStraight ==
  ASSUME Straight, UNCHANGED opt, Unlinked
  PROVE  Straight'
<1>1. /\ call.step = "unlink" /\ call.op = "update" /\ Serve /\ UNCHANGED <<caches, held, before>>
      /\ call' = [call EXCEPT !.dirty = (server' # server), !.step = "create"]
  BY DEF Unlinked, Answered
<1>2. /\ Started /\ Located /\ call \in Calls /\ ~call.made
  BY <1>1, Footing DEF Started, Located, Straight, Flags
<1>3. call.id # Top /\ (call.id \in DOMAIN server => ~server[call.id].dir)
  BY <1>1, <1>2, TheFile DEF FiledAs
<1>4. server' \in DeleteFile(call.id)
  BY <1>1, Replies
<1>5. next' = next /\ Grown' /\ Remains /\ next \in Nat \ {0}
  BY <1>1, <1>3, <1>4, FileGoes
<1>6. Labels' /\ Current' /\ Rooted'
  BY <1>1, <1>5, CachesStay
<1>7. PICK d \in BOOLEAN : d = (server' # server)
  OBVIOUS
<1>8. call' = [call EXCEPT !.dirty = d, !.step = "create"]
  BY <1>1, <1>7
<1>9. /\ call' \in Calls /\ call'.step = "create" /\ call'.result = call.result
      /\ call'.made = call.made /\ call'.again = call.again
  <2>1. call' \in Calls
    BY <1>2, <1>8 DEF Calls, StepNames
  <2> QED BY <1>2, <1>8, <2>1 DEF Calls
<1>10. Same
  BY <1>2, <1>8 DEF Calls, Same
<1>11. Flags' /\ Started'
  BY <1>1, <1>2, <1>9, <1>10 DEF Straight, Flags, Fits, Same, Started
<1>12. Knows'
  <2>1. call'.result = "none" /\ label'[call'.f] = counter'
    BY <1>1, <1>2, <1>9, <1>10 DEF Straight, Knows, Started, Done, Same, caches
  <2> QED BY <1>9, <2>1 DEF Knows, Located, Moving
<1>13. held' \in [Fs -> Objects]
      /\ \A g \in Fs : held'[g] = NoObject \/ (held'[g].id # None /\ held'[g].at \in Files(g))
  BY <1>1 DEF Straight, Types, Arguments
<1>14. call'.op # "move" /\ next' \in Nat \ {0} /\ next <= next'
  BY <1>1, <1>5, <1>10 DEF Same
<1> QED BY <1>1, <1>5, <1>6, <1>9, <1>10, <1>11, <1>12, <1>13, <1>14, GoesStraight

\* The file that Remove removes goes from the tree.
LEMMA RemovedStraight ==
  ASSUME Straight, UNCHANGED opt, Removed
  PROVE  Straight'
<1> DEFINE u == Without(Now, {call.id})
<1>1. /\ call.step = "unlink" /\ call.op = "remove" /\ Serve /\ UNCHANGED held /\ Return("ok")
      /\ IF NodeAt(call.at) = None THEN Forget ELSE Commit(Without(Now, {NodeAt(call.at)}), relativeRoot[call.f])
  BY DEF Removed, Answered, Now
<1>2. Started /\ Located
  BY <1>1 DEF Started, Located
<1>3. /\ call.id \in DOMAIN Now /\ ~Now[call.id].dir /\ call.id # Top /\ call.id # None
      /\ At(Now, call.at) = call.id /\ (call.id \in DOMAIN server => ~server[call.id].dir)
  BY <1>1, <1>2, TheFile DEF FiledAs
<1>4. Commit(u, relativeRoot[call.f])
  BY <1>1, <1>3 DEF NodeAt, At, Now
<1>5. server' \in DeleteFile(call.id)
  BY <1>1, Replies
<1>6. next' = next /\ Grown' /\ Remains /\ next \in Nat \ {0}
  BY <1>1, <1>3, <1>5, FileGoes
<1>7. call.at \in Names /\ call.at # <<>> /\ Root[call.f] \in Names /\ ~IsPrefix(call.at, Root[call.f])
  BY <1>1, UploadAt
<1>8. Good(Now, next', server') /\ Forest(Now)
  <2>1. Good(Now, next, server) /\ Forest(Now)
    BY <1>2, Footing
  <2> QED BY <1>6, <2>1, GoodStays
<1>9. \A i \in DOMAIN Now : Now[i].parent \in {call.id} => i \in {call.id}
  BY <1>3, <1>8, NothingIn
<1>10. Good(u, next', server') /\ \A q \in Names : ~IsPrefix(call.at, q) => At(u, q) = At(Now, q)
  <2>1. \A i \in DOMAIN Now : i \in {call.id} => i = At(Now, call.at) \/ Now[i].parent \in {call.id}
    BY <1>3
  <2>2. PICK M : M = {call.id}
    OBVIOUS
  <2>3. Good(Without(Now, M), next', server')
        /\ \A q \in Names : ~IsPrefix(call.at, q) => At(Without(Now, M), q) = At(Now, q)
    BY <1>3, <1>6, <1>7, <1>8, <1>9, <2>1, <2>2, WithoutGood
  <2> QED BY <2>2, <2>3
<1> HIDE DEF u
<1>11. relativeRoot[call.f] \in {None, At(u, Root[call.f])}
  BY <1>7, <1>10, RootKept
<1> QED BY <1>1, <1>4, <1>6, <1>10, <1>11, CommitsStraight

\* The copy goes that a move has made in vain.
LEMMA CleanedUpStraight ==
  ASSUME Straight, UNCHANGED opt, CleanedUp
  PROVE  Straight'
<1>1. call.step = "cleanup" /\ Serve /\ Return("failed") /\ UNCHANGED <<caches, held>>
  BY DEF CleanedUp, Answered
<1>2. call.op = "move" /\ Copying
  BY <1>1 DEF Straight, Flags, Fits, Knows, Moving
<1>3. call.new # Top /\ (call.new \in DOMAIN server => ~server[call.new].dir)
  BY <1>2 DEF Copying, FiledAs, Top
<1>4. server' \in DeleteFile(call.new)
  BY <1>1, Replies
<1>5. next' = next /\ Grown' /\ Remains /\ next \in Nat \ {0}
  BY <1>1, <1>3, <1>4, FileGoes
<1>6. Over /\ before' = server'
  BY <1>1, ReturnIs, Footing DEF Return
<1> QED BY <1>1, <1>5, <1>6, EndsKept

-----------------------------------------------------------------------------
(* Moves. *)

\* The course has moved the node, and the tree follows; where the tree lacks
\* the folder it goes to, no tree counts any longer.
LEMMA MoveStraight ==
  ASSUME Straight, UNCHANGED <<opt, held>>, Return("ok"), Started, call.op \in {"move", "dirmove"},
         Located, NEW newId, moveNodeInTree(newId), next' = next, Grown',
         call.to # <<>>, Last(call.to) \in (IF Now[call.id].dir THEN FolderNames(opt) ELSE FileNames(opt)),
         NEW new \in 1..(next' - 1), new = (IF Now[call.id].dir THEN call.id ELSE newId),
         new = call.id \/ new \notin DOMAIN Now,
         ~Now[call.id].dir => new \in DOMAIN server',
         \A i \in DOMAIN Now \ {call.id} : i \in DOMAIN server' => i \in DOMAIN server /\ server'[i] = server[i],
         new \in DOMAIN server' =>
           /\ server'[new].dir = Now[call.id].dir /\ server'[new].parent = At(Now, Front(call.to))
           /\ server'[new].name = Last(call.to),
         At(Now, Root[call.f]) # None => ~IsPrefix(call.at, Root[call.f]) /\ ~IsPrefix(call.to, Root[call.f])
  PROVE  Straight'
<1> DEFINE id == call.id
           up == At(Now, Front(call.to))
           name == Last(call.to)
<1>1. Over /\ before' = server' /\ next' \in Nat \ {0}
  BY ReturnIs, Footing DEF Return
<1>2. /\ At(Now, call.at) = id /\ id # None /\ id # Top /\ call.at \in Names /\ call.to \in Names
      /\ Good(Now, next, server) /\ Forest(Now) /\ Root[call.f] \in Names /\ opt \in Scenarios
      /\ next \in Nat
  BY Footing DEF Straight, Knows
<1>3. call.at # <<>> /\ id \in DOMAIN Now /\ Now[id] \in Nodes
  <2>1. call.at # <<>>
    BY <1>2, AtEmpty
  <2>2. id \in DOMAIN Now
    BY <1>2, <2>1, LeadsNone
  <2> QED BY <1>2, <2>1, <2>2 DEF Forest
<1>4. IsDir(Now, id) <=> Now[id].dir
  BY <1>2, <1>3 DEF IsDir
<1>5. CASE ~IsDir(Now, up)
  <2>1. Forget
    <3>1. NodeAt(ParentPath) = up
      BY DEF NodeAt, ParentPath, Goal, At, Now
    <3> QED BY <1>5, <3>1 DEF moveNodeInTree, Now
  <2>2. Labels' /\ Current' /\ Rooted'
    BY <2>1, CachesForget
  <2> QED BY <1>1, <2>2, EndsStraight
<1>6. CASE IsDir(Now, up)
  <2>1. PICK r : r = (IF IsDir(Now, id) THEN Now ELSE ReId(Now, id, newId, server'[newId].size))
    OBVIOUS
  <2>2. PICK u : u = Putting(r, new, up, name)
    OBVIOUS
  <2>3. new = (IF IsDir(Now, id) THEN id ELSE newId)
    BY <1>4
  <2>4. Commit(u, updateRelativeRootFromTree(u))
    BY <1>2, <1>6, <2>1, <2>2, <2>3, MoveCommits
  <2>5. up \in Nat /\ name \in STRING /\ name \notin (IF Now[id].dir THEN FileNames(opt) ELSE FolderNames(opt))
    <3>1. up \in Nat
      BY <1>2, <1>6 DEF IsDir, Forest, Top
    <3>2. name \in STRING
      BY <1>2, FrontIs
    <3> QED BY <1>2, <3>1, <3>2, NamesAssumption
  <2>6. /\ DOMAIN r = (DOMAIN Now \ {id}) \cup {new} /\ r \in [DOMAIN r -> Nodes]
        /\ r[new].dir = Now[id].dir /\ \A j \in DOMAIN Now : j # id /\ j # new => r[j] = Now[j]
    <3>1. CASE Now[id].dir
      BY <1>2, <1>3, <1>4, <2>1, <3>1 DEF Forest
    <3>2. CASE ~Now[id].dir
      <4>1. new = newId /\ r = ReId(Now, id, new, server'[new].size)
        BY <1>4, <2>1, <3>2
      <4>2. server'[new].size \in Int
        <5>1. server'[new] \in Nodes
          BY <3>2 DEF Grown, Wood, Forest
        <5> QED BY <5>1 DEF Nodes
      <4>3. PICK size \in Int : size = server'[new].size
        BY <4>2
      <4>4. ReIded(Now, id, ReId(Now, id, new, size), new, size)
        BY <1>2, <1>3, ReIdOf
      <4>5. ReIded(Now, id, r, new, size)
        BY <4>1, <4>3, <4>4
      <4> QED BY <4>5 DEF ReIded
    <3> QED BY <3>1, <3>2
  <2>7. Placed(r, new, u, up, name)
    <3>1. new \in DOMAIN r
      BY <2>6
    <3>2. Placed(r, new, [r EXCEPT ![new].parent = up, ![new].name = name], up, name)
      BY <2>5, <2>6, <3>1, PlacedIs
    <3> QED BY <2>2, <3>2 DEF Putting
  <2>8. Shifted(Now, id, u, new, up, name)
    <3>1. DOMAIN u = DOMAIN r /\ u \in [DOMAIN u -> Nodes] /\ (\A j \in DOMAIN r : j # new => u[j] = r[j])
          /\ u[new].parent = up /\ u[new].name = name /\ u[new].dir = r[new].dir
      BY <2>7 DEF Placed
    <3>2. new = id \/ (~Now[id].dir /\ new \notin DOMAIN Now)
      OBVIOUS
    <3> QED BY <2>6, <3>1, <3>2 DEF Shifted
  <2>9. WellNamed(u[new])
    BY <2>5, <2>8 DEF WellNamed, Shifted
  <2>10. new \in DOMAIN server' =>
           server'[new].dir = u[new].dir /\ server'[new].parent = u[new].parent /\ server'[new].name = u[new].name
    BY <2>8 DEF Shifted
  <2>11. /\ Good(u, next, server')
         /\ \A q \in Names : ~IsPrefix(call.at, q) /\ ~IsPrefix(call.to, q) => At(u, q) = At(Now, q)
    <3>1. Shifts(Now, next, server, call.at, call.to, new, u, server')
      <4>1. new \in 1..(next - 1)
        OBVIOUS
      <4>2. \A i \in DOMAIN Now \ {At(Now, call.at)} : i \in DOMAIN server' => i \in DOMAIN server /\ server'[i] = server[i]
        BY <1>2
      <4>3. Shifted(Now, At(Now, call.at), u, new, At(Now, Front(call.to)), Last(call.to))
        BY <1>2, <2>8
      <4> QED BY <1>2, <1>3, <1>6, <2>9, <2>10, <4>1, <4>2, <4>3 DEF Shifts
    <3> QED BY <3>1, ShiftedGood
  <2>12. updateRelativeRootFromTree(u) \in {None, At(u, Root[call.f])}
    BY <1>2, <2>11, RootKept
  <2>13. Good(u, next', server')
    BY <2>11
  <2> QED BY <1>1, <2>4, <2>12, <2>13, CommitsStraight
<1> QED BY <1>5, <1>6

\* A file's path leads through no instance's root, and no root through it.
LEMMA FileNotRoot ==
  ASSUME Straight, call.op = "move"
  PROVE  ~IsPrefix(call.at, Root[call.f]) /\ ~IsPrefix(call.to, Root[call.f])
<1>1. opt \in Scenarios /\ call.f \in Fs /\ call.src \in Fs /\ call.at \in Files(call.src) /\ call.to \in Files(call.f)
  BY Footing DEF Straight, Arguments
<1>2. ASSUME NEW g \in Fs, NEW p \in Files(g) PROVE ~IsPrefix(p, Root[call.f])
  <2> SUFFICES ASSUME IsPrefix(p, Root[call.f]) PROVE FALSE
    OBVIOUS
  <2>1. p \in Names /\ p # <<>> /\ Root[call.f] \in Names /\ Last(p) \in FileNames(opt)
        /\ FolderNames(opt) \cap FileNames(opt) = {}
    BY <1>1, PathsAre, NamesOf
  <2>2. Last(p) = p[Len(p)] /\ Len(p) \in Nat \ {0}
    BY <2>1, FrontIs
  <2>3. Len(p) <= Len(Root[call.f]) /\ p[Len(p)] = Root[call.f][Len(p)] /\ Len(Root[call.f]) \in Nat
    BY <2>1, <2>2, PrefixIs
  <2>4. Root[call.f] \in Folders(call.f)
    BY <1>1, <2>1, PrefixSelf DEF Folders, Own
  <2>5. Root[call.f][Len(p)] \in FolderNames(opt)
    BY <1>1, <2>2, <2>3, <2>4, NamesOf
  <2> QED BY <2>1, <2>2, <2>3, <2>5
<1> QED BY <1>1, <1>2

\* A renamed file.
LEMMA RenamedStraight ==
  ASSUME Straight, UNCHANGED <<opt, held>>, Return("ok"), Answered("rename"), moveNodeInTree(call.id)
  PROVE  Straight'
<1> DEFINE id == call.id
           up == At(Now, Front(call.to))
<1>1. call.step = "rename" /\ Serve
  BY DEF Answered
<1>2. /\ Started /\ Located /\ call.op = "move" /\ Front(call.at) = Front(call.to) /\ opt \in Scenarios
  BY <1>1, Footing DEF Started, Located, Straight, Flags, Fits, Knows
<1>3. /\ id \in DOMAIN Now /\ ~Now[id].dir /\ id # Top /\ id # None /\ At(Now, call.at) = id
      /\ id \in DOMAIN server /\ FiledAs(id, call.at)
  BY <1>1, <1>2, Exists, TheFile
<1>4. call.to \in Names /\ call.to # <<>> /\ Last(call.to) \in FileNames(opt) /\ Last(call.to) \in STRING
      /\ Last(call.to) \notin FolderNames(opt)
  <2>1. call.to \in Names /\ call.to # <<>> /\ Last(call.to) \in FileNames(opt)
    BY <1>2, GoalNames DEF Straight, Goal
  <2> QED BY <1>2, <2>1, FrontIs, NamesAssumption
<1>5. Wood(server) /\ Forest(server) /\ DOMAIN server \subseteq 1..(next - 1)
  BY Footing DEF Straight, Grown
<1>6. server[id].parent = up /\ IsDir(server, up) /\ up \in Nat /\ up \notin Subtree(server, id)
  <2>1. server[id].parent = up /\ server[id] \in Nodes /\ IsDir(server, up)
    BY <1>2, <1>3, <1>5 DEF FiledAs, Forest
  <2>2. Subtree(server, id) = {id} /\ up # id
    BY <1>3, <1>5, <2>1, FileEnds DEF FiledAs, IsDir
  <2> QED BY <2>1, <2>2 DEF Nodes
<1>7. server' = [server EXCEPT ![id].name = Last(call.to)] /\ next' = IF next \in DOMAIN server' THEN next + 1 ELSE next
  BY <1>1, Replies DEF UpdateFileRef
<1> DEFINE name == Last(call.to)
<1>8. Placed(server, id, server', up, name)
  BY <1>3, <1>4, <1>5, <1>6, <1>7 DEF Placed, Forest, Nodes
<1>9. next' = next /\ Grown' /\ DOMAIN server' = DOMAIN server
  BY <1>3, <1>4, <1>6, <1>7, <1>8, PlacedNode DEF FiledAs
<1>10. /\ \A i \in DOMAIN Now \ {id} : i \in DOMAIN server' => i \in DOMAIN server /\ server'[i] = server[i]
       /\ server'[id].parent = up /\ server'[id].name = name /\ server'[id].dir = server[id].dir
  BY <1>8, <1>9 DEF Placed
<1>11. server[id].dir = Now[id].dir /\ id \in 1..(next' - 1)
  <2>1. Good(Now, next, server)
    BY <1>2, Footing
  <2> QED BY <1>3, <1>9, <2>1 DEF Good, Like
<1>12. ~IsPrefix(call.at, Root[call.f]) /\ ~IsPrefix(call.to, Root[call.f])
  BY <1>2, FileNotRoot
<1>13. PICK new \in 1..(next' - 1) : new = id
  BY <1>11
<1> QED BY <1>2, <1>3, <1>4, <1>9, <1>10, <1>11, <1>12, <1>13, MoveStraight

\* A copied file whose old self is removed.
LEMMA CopyKeptStraight ==
  ASSUME Straight, UNCHANGED <<opt, held>>, Return("ok"), Answered("unlink"), call.op = "move",
         moveNodeInTree(call.new)
  PROVE  Straight'
<1> DEFINE id == call.id
           up == At(Now, Front(call.to))
<1>1. call.step = "unlink" /\ Serve
  BY DEF Answered
<1>2. /\ Started /\ Located /\ Moving /\ Copying /\ opt \in Scenarios
  BY <1>1, Footing DEF Started, Located, Moving, Straight, Knows
<1>3. /\ id \in DOMAIN Now /\ ~Now[id].dir /\ id # Top /\ id # None /\ (id \in DOMAIN server => ~server[id].dir)
  BY <1>2, TheFile DEF FiledAs
<1>4. /\ call.new \in 1..(next - 1) /\ call.new \notin DOMAIN Now /\ FiledAs(call.new, call.to)
      /\ call.new \in DOMAIN server
  BY <1>1, <1>2 DEF Copying
<1>5. call.to # <<>> /\ Last(call.to) \in FileNames(opt)
  BY GoalNames DEF Straight, Goal
<1>6. server' \in DeleteFile(id)
  BY <1>1, Replies
<1>7. DOMAIN server' = DOMAIN server \ {id} /\ (\A i \in DOMAIN server' : server'[i] = server[i])
      /\ next' = next /\ Grown'
  BY <1>1, <1>3, <1>6, FileGoes
<1>8. PICK new \in 1..(next' - 1) : new = call.new
  BY <1>4, <1>7
<1>9. new \in DOMAIN server' /\ server'[new] = server[new]
  BY <1>3, <1>4, <1>7, <1>8
<1>10. server'[new].dir = Now[id].dir /\ server'[new].parent = up /\ server'[new].name = Last(call.to)
  <2>1. server[new] \in Nodes /\ Now[id] \in Nodes
    BY <1>2, <1>3, <1>4, <1>8, Footing DEF Forest
  <2> QED BY <1>3, <1>4, <1>8, <1>9, <2>1 DEF FiledAs, Nodes
<1>11. ~IsPrefix(call.at, Root[call.f]) /\ ~IsPrefix(call.to, Root[call.f])
  BY FileNotRoot
<1> QED BY <1>2, <1>3, <1>4, <1>5, <1>7, <1>8, <1>9, <1>10, <1>11, MoveStraight

\* A folder does not contain where it goes, and so no root that the tree has.
LEMMA FolderNotRoot ==
  ASSUME Straight, Started, call.op = "dirmove", NEW id, id = At(Now, call.at), id \in DOMAIN server,
         call.at # <<>>, call.to # <<>>, At(Now, call.to) = None, id # None,
         IsDir(server, At(Now, Front(call.to))), At(Now, Front(call.to)) \notin Subtree(server, id),
         At(Now, Root[call.f]) # None
  PROVE  ~IsPrefix(call.at, Root[call.f]) /\ ~IsPrefix(call.to, Root[call.f])
<1>1. /\ call.at \in Names /\ call.to \in Names /\ Root[call.f] \in Names /\ Forest(Now) /\ Forest(server)
      /\ Like(Now, server)
  BY Footing DEF Good
<1>2. IsPrefix(Root[call.f], call.to)
  <2>1. opt \in Scenarios /\ call.f \in Fs /\ call.to \in Folders(call.f)
    BY Footing DEF Straight, Arguments
  <2> QED BY <2>1, PathsAre
<1>3. ~IsPrefix(call.to, Root[call.f])
  BY <1>1, LeadsThrough
<1>4. ASSUME IsPrefix(call.at, Root[call.f]) PROVE FALSE
  <2>1. IsPrefix(call.at, call.to) /\ call.at # call.to
    BY <1>1, <1>2, <1>4, PrefixTrans
  <2>2. IsPrefix(call.at, Front(call.to)) /\ Front(call.to) \in Names
    BY <1>1, <2>1, PrefixFront, FrontIs
  <2>3. At(Now, Front(call.to)) # Top
    <3>1. Front(call.to) # <<>>
      BY <1>1, <2>2, PrefixSelf
    <3> QED BY <1>1, <2>2, <3>1, LeadsNone
  <2>4. At(Now, Front(call.to)) \in DOMAIN server
    BY <2>3 DEF IsDir
  <2>5. At(Now, Front(call.to)) \in Subtree(server, At(Now, call.at))
    BY <1>1, <2>2, <2>4, BelowThere
  <2> QED BY <2>5
<1> QED BY <1>3, <1>4

\* The folder that a move of folders is about, and what the server does with it.
LEMMA ReparentPlaces ==
  ASSUME Straight, UNCHANGED opt, Serve, call.step = "reparent"
  PROVE  /\ Started /\ Located /\ call.op = "dirmove" /\ At(Now, call.at) = call.id /\ call.at # <<>>
         /\ call.id # None /\ call.id \in DOMAIN Now /\ call.id \in DOMAIN server
         /\ Now[call.id].dir /\ server[call.id].dir
         /\ call.to # <<>> /\ At(Now, call.to) = None /\ Last(call.to) \in FolderNames(opt)
         /\ IsDir(server, At(Now, Front(call.to)))
         /\ At(Now, Front(call.to)) \notin Subtree(server, call.id)
         /\ Placed(server, call.id, server', At(Now, Front(call.to)), Last(call.to))
         /\ next' = next /\ Grown' /\ DOMAIN server' = DOMAIN server
<1> DEFINE id == call.id
           up == At(Now, Front(call.to))
           name == Last(call.to)
<1>1. /\ Started /\ Located /\ call.op = "dirmove" /\ opt \in Scenarios /\ call.src \in Fs /\ call.f \in Fs
      /\ call.at \in Folders(call.src)
  <2>1. Started /\ Located /\ call.op = "dirmove"
    BY DEF Started, Located, Straight, Flags, Fits
  <2> QED BY <2>1, Footing DEF Straight, Arguments
<1>2. /\ Good(Now, next, server) /\ Forest(Now) /\ Forest(server) /\ call.at \in Names /\ call.to \in Names
  BY <1>1, Footing
<1>3. At(Now, call.at) = id /\ id # None /\ id # Top /\ At(Now, call.to) = None
  BY <1>1 DEF Straight, Knows
<1>4. call.at # <<>> /\ call.to # <<>>
  BY <1>3, AtEmpty DEF None, Top
<1>5. id \in DOMAIN server /\ id \in DOMAIN Now
  BY <1>2, <1>3, <1>4, Exists, LeadsNone
<1>6. Now[id].dir = TRUE /\ server[id].dir = TRUE
  <2>1. Last(call.at) \in FolderNames(opt)
    <3>1. Last(call.at) = call.at[Len(call.at)] /\ Len(call.at) \in 1..Len(call.at)
      BY <1>2, <1>4, FrontIs
    <3> QED BY <1>1, <3>1, NamesOf
  <2>2. Now[id].name = Last(call.at)
    BY <1>2, <1>3, <1>4, LeadsTo
  <2>3. Now[id] \in Nodes
    BY <1>2, <1>5 DEF Forest
  <2>4. Now[id].dir = TRUE
    BY <1>2, <1>5, <2>1, <2>2, <2>3 DEF Good, Named, Nodes
  <2> QED BY <1>2, <1>5, <2>4 DEF Good, Like
<1>7. name \in FolderNames(opt) /\ name \in STRING /\ name \notin FileNames(opt)
  <2>1. name \in FolderNames(opt)
    BY <1>1, <1>4, GoalNames DEF Straight, Goal
  <2> QED BY <1>1, <1>2, <1>4, <2>1, FrontIs, NamesAssumption
<1>8. /\ server' = [server EXCEPT ![id].parent = up, ![id].name = name]
      /\ IsDir(server, up) /\ up \notin Subtree(server, id)
      /\ next' = IF next \in DOMAIN server' THEN next + 1 ELSE next
  <2>1. NodeAt(ParentPath) = up
    BY <1>1 DEF NodeAt, ParentPath, Goal, At, Now
  <2>2. server' \in UpdateFolder(id) /\ next' = IF next \in DOMAIN server' THEN next + 1 ELSE next
    BY Replies
  <2> QED BY <2>1, <2>2 DEF UpdateFolder
<1>9. up \in Nat
  BY <1>2, <1>8 DEF IsDir, Forest, Top
<1>10. Placed(server, id, server', up, name)
  <2>1. server \in [DOMAIN server -> Nodes]
    BY <1>2 DEF Forest
  <2> HIDE DEF up, name
  <2>2. Placed(server, id, [server EXCEPT ![id].parent = up, ![id].name = name], up, name)
    BY <1>5, <1>7, <1>9, <2>1, PlacedIs
  <2> QED BY <1>8, <2>2
<1>11. next' = next /\ Grown' /\ DOMAIN server' = DOMAIN server
  <2> HIDE DEF up, name
  <2>1. name \notin (IF server[id].dir THEN FileNames(opt) ELSE FolderNames(opt))
    BY <1>6, <1>7
  <2> QED BY <1>5, <1>7, <1>8, <1>9, <1>10, <2>1, PlacedNode
<1> QED BY <1>1, <1>3, <1>4, <1>5, <1>6, <1>7, <1>8, <1>10, <1>11

\* A folder that is moved.
LEMMA ReparentedStraight ==
  ASSUME Straight, UNCHANGED <<opt, held>>, Return("ok"), Answered("reparent"), moveNodeInTree(call.id)
  PROVE  Straight'
<1> DEFINE id == call.id
           up == At(Now, Front(call.to))
           name == Last(call.to)
<1>1. call.step = "reparent" /\ Serve
  BY DEF Answered
<1>2. /\ Started /\ Located /\ call.op = "dirmove" /\ At(Now, call.at) = id /\ call.at # <<>>
      /\ id # None /\ id \in DOMAIN Now /\ id \in DOMAIN server
      /\ Now[id].dir /\ server[id].dir
      /\ call.to # <<>> /\ At(Now, call.to) = None /\ name \in FolderNames(opt)
      /\ IsDir(server, up) /\ up \notin Subtree(server, id) /\ Placed(server, id, server', up, name)
      /\ next' = next /\ Grown' /\ DOMAIN server' = DOMAIN server
  BY <1>1, ReparentPlaces
<1>3. /\ \A i \in DOMAIN Now \ {id} : i \in DOMAIN server' => i \in DOMAIN server /\ server'[i] = server[i]
      /\ server'[id].parent = up /\ server'[id].name = name /\ server'[id].dir = server[id].dir
  BY <1>2 DEF Placed
<1>4. server[id].dir = Now[id].dir /\ id \in 1..(next' - 1)
  <2>1. Good(Now, next, server)
    BY <1>2, Footing
  <2> QED BY <1>2, <2>1 DEF Good, Like
<1>5. At(Now, Root[call.f]) # None => ~IsPrefix(call.at, Root[call.f]) /\ ~IsPrefix(call.to, Root[call.f])
  <2>1. PICK i : i = id
    OBVIOUS
  <2> QED BY <1>2, <2>1, FolderNotRoot
<1>6. PICK new \in 1..(next' - 1) : new = id
  BY <1>4
<1> QED BY <1>2, <1>3, <1>4, <1>5, <1>6, MoveStraight

\* Every move.
LEMMA MovedStraight ==
  ASSUME Straight, UNCHANGED opt, Moved
  PROVE  Straight'
BY RenamedStraight, ReparentedStraight, CopyKeptStraight DEF Moved

-----------------------------------------------------------------------------
(* Requests that fail. *)

\* What the server did keeps the trees right, unless it moved something.
LEMMA ServedKept ==
  ASSUME Straight, UNCHANGED opt, Requesting, Serve, call.step \notin {"rename", "reparent"}
  PROVE  Grown' /\ Remains /\ next' \in Nat \ {0} /\ next <= next'
<1>1. /\ Started /\ next \in Nat \ {0} /\ opt \in Scenarios /\ call.at \in Names
      /\ call.step \in {"parents", "mkdir", "create", "copy", "stat", "license", "overwrite", "rmdir",
                        "unlink", "cleanup"}
  BY Footing DEF Requesting, Started, Calls, StepNames
<1>2. ASSUME NEW node, Receives(node) PROVE Grown' /\ Remains /\ next' \in Nat \ {0} /\ next <= next'
  BY <1>1, <1>2 DEF Receives
<1>3. CASE call.step = "parents"
  <2>1. call.op \in {"put", "update", "mkdir", "move", "dirmove"} /\ Segment # <<>>
    BY <1>3 DEF Straight, Flags, Fits, Requesting
  <2>2. PICK p : p = Segment
    OBVIOUS
  <2>3. p \in Names /\ p # <<>> /\ Last(p) \in FolderNames(opt)
    BY <2>1, <2>2, SegmentStands
  <2>4. server' \in MkDir(p) /\ next' = IF next \in DOMAIN server' THEN next + 1 ELSE next
    BY <1>3, <2>2, Replies
  <2>5. \E name : Receives(Folder(At(Now, Front(p)), name))
    BY <1>1, <2>3, <2>4, MkDirGains
  <2> QED BY <1>2, <2>5
<1>4. CASE call.step = "mkdir"
  <2>1. call.op = "mkdir" /\ NodeAt(call.at) = None
    BY <1>4 DEF Straight, Flags, Fits, Requesting
  <2>2. call.at # <<>>
    BY <2>1, AtEmpty DEF At, Now, NodeAt, None, Top
  <2>3. Last(call.at) \in FolderNames(opt)
    BY <2>1, <2>2, GoalNames DEF Straight, Goal
  <2>4. PICK p : p = call.at
    OBVIOUS
  <2>5. server' \in MkDir(p) /\ next' = IF next \in DOMAIN server' THEN next + 1 ELSE next
    BY <1>4, <2>4, Replies
  <2>6. \E name : Receives(Folder(At(Now, Front(p)), name))
    BY <1>1, <2>2, <2>3, <2>4, <2>5, MkDirGains
  <2> QED BY <1>2, <2>6
<1>5. CASE call.step = "create"
  <2>1. PICK s \in Int : Receives(File(At(Now, Front(call.at)), Last(call.at), s))
    BY <1>5, CreateReceives
  <2> QED BY <1>2, <2>1
<1>6. CASE call.step = "copy"
  <2>1. Receives(File(At(Now, Front(call.to)), Last(call.to), server[call.id].size))
    BY <1>6, CopyReceives
  <2> QED BY <1>2, <2>1
<1>7. CASE call.step \in {"stat", "license"}
  <2>1. UNCHANGED course
    BY <1>7, AsksOnly
  <2>2. next' = next /\ server' = server
    BY <2>1 DEF course
  <2>3. Grown'
    BY <2>2 DEF Straight, Grown
  <2> QED BY <1>1, <2>1, <2>2, <2>3, RemainsSame
<1>8. CASE call.step = "overwrite"
  BY <1>8, OverwriteRenews
<1>9. CASE call.step = "rmdir"
  BY <1>9, RmdirLoses
<1>10. CASE call.step = "unlink"
  <2>1. call.op \in {"update", "remove", "move"} /\ Located
    BY <1>10 DEF Straight, Flags, Fits, Located
  <2>2. call.id # Top /\ (call.id \in DOMAIN server => ~server[call.id].dir)
    BY <1>1, <2>1, TheFile DEF FiledAs
  <2>3. server' \in DeleteFile(call.id)
    BY <1>10, Replies
  <2>4. next' = next /\ Grown' /\ Remains
    BY <2>2, <2>3, FileGoes
  <2> QED BY <1>1, <2>4
<1>11. CASE call.step = "cleanup"
  <2>1. Copying
    BY <1>11 DEF Straight, Flags, Fits, Knows, Moving
  <2>2. call.new # Top /\ (call.new \in DOMAIN server => ~server[call.new].dir)
    BY <1>1, <2>1 DEF Copying, FiledAs, Top
  <2>3. server' \in DeleteFile(call.new)
    BY <1>11, Replies
  <2>4. next' = next /\ Grown' /\ Remains
    BY <2>2, <2>3, FileGoes
  <2> QED BY <1>1, <2>4
<1> QED BY <1>1, <1>3, <1>4, <1>5, <1>6, <1>7, <1>8, <1>9, <1>10, <1>11

\* A move that could not remove the old file goes on to remove the copy.
LEMMA UnlinkFailsStraight ==
  ASSUME Straight, UNCHANGED <<opt, caches, held, before>>, call.op = "move", call.step = "unlink",
         UNCHANGED course \/ Serve, NEW l \in BOOLEAN, l = (call.lost \/ server' # server),
         call' = [call EXCEPT !.step = "cleanup", !.lost = l]
  PROVE  Straight'
<1>1. /\ Started /\ Located /\ Copying /\ call \in Calls /\ next \in Nat \ {0}
  BY Footing DEF Started, Located, Moving, Straight, Knows
<1>2. call.id # Top /\ (call.id \in DOMAIN server => ~server[call.id].dir)
  BY <1>1, TheFile DEF FiledAs
<1>3. /\ DOMAIN server' \subseteq DOMAIN server /\ \A i \in DOMAIN server' : server'[i] = server[i]
      /\ next' = next /\ Grown' /\ Remains
  <2>1. CASE UNCHANGED course
    <3>1. server' = server /\ next' = next
      BY <2>1 DEF course
    <3>2. Grown'
      BY <3>1 DEF Straight, Grown
    <3> QED BY <2>1, <3>1, <3>2, RemainsSame
  <2>2. CASE Serve
    <3>1. server' \in DeleteFile(call.id)
      BY <2>2, Replies
    <3> QED BY <1>2, <2>2, <3>1, FileGoes
  <2> QED BY <2>1, <2>2
<1>4. Labels' /\ Current' /\ Rooted'
  BY <1>1, <1>3, CachesStay
<1>5. /\ call' \in Calls /\ call'.step = "cleanup" /\ call'.id = call.id /\ call'.new = call.new
      /\ call'.made = call.made /\ call'.again = call.again /\ call'.dirty = call.dirty
      /\ call'.result = call.result /\ call'.lost = l
  <2>1. call' \in Calls
    BY <1>1 DEF Calls, StepNames
  <2> QED BY <1>1, <2>1 DEF Calls
<1>6. Same
  BY <1>1 DEF Calls, Same
<1>7. Now' = Now
  BY <1>6 DEF Now, Same, caches
<1>8. Flags' /\ Started'
  <2>1. Fits(call.op, "cleanup") /\ ~call.made
    BY DEF Straight, Flags, Fits
  <2> QED BY <1>5, <1>6, <2>1 DEF Straight, Flags, Fits, Same, Started
<1>9. Copying'
  <2>1. call.new \in DOMAIN server' => FiledAs(call.new, call.to) /\ server'[call.new] = server[call.new]
    BY <1>1, <1>3 DEF Copying
  <2>2. call'.new \in DOMAIN server' =>
          ~server'[call'.new].dir /\ server'[call'.new].parent = At(Now', Front(call'.to))
          /\ server'[call'.new].name = Last(call'.to)
    BY <1>5, <1>6, <1>7, <2>1 DEF FiledAs, Same
  <2> QED BY <1>1, <1>3, <1>5, <1>7, <2>2 DEF Copying, FiledAs
<1>10. Knows'
  <2>1. call'.result = "none" /\ label'[call'.f] = counter'
    BY <1>1, <1>5, <1>6 DEF Straight, Knows, Started, Done, Same, caches
  <2> QED BY <1>5, <1>6, <1>9, <2>1 DEF Knows, Located
<1>11. held' \in [Fs -> Objects]
       /\ \A g \in Fs : held'[g] = NoObject \/ (held'[g].id # None /\ held'[g].at \in Files(g))
  BY DEF Straight, Types, Arguments
<1>12. next' \in Nat \ {0} /\ next <= next'
  BY <1>1, <1>3
<1>13. ~call'.lost => ~call.lost /\ server' = server
  BY <1>5
<1> QED BY <1>3, <1>4, <1>5, <1>6, <1>8, <1>10, <1>11, <1>12, <1>13, GoesStraight

\* Every other call stops there.
LEMMA RequestFailsStraight ==
  ASSUME Straight, RequestFails, UNCHANGED opt, misled' = (misled \/ Misleads), ~misled'
  PROVE  Straight'
<1> DEFINE lost == call.lost \/ server' # server
<1>1. /\ UNCHANGED <<caches, held>> /\ (UNCHANGED course \/ Serve) /\ Requesting /\ call \in Calls
      /\ next \in Nat \ {0} /\ next \notin DOMAIN server
  BY Footing DEF RequestFails
<1>2. PICK l \in BOOLEAN : l = lost
  BY <1>1 DEF Calls
<1>3. CASE call.op = "move" /\ call.step = "unlink"
  <2>1. call' = [call EXCEPT !.step = "cleanup", !.lost = l] /\ UNCHANGED before
    BY <1>2, <1>3 DEF RequestFails
  <2> QED BY <1>1, <1>2, <1>3, <2>1, UnlinkFailsStraight
<1>4. CASE ~(call.op = "move" /\ call.step = "unlink")
  <2>1. /\ call' = [call EXCEPT !.step = "done", !.result = "failed", !.id = None, !.new = None,
                                !.made = FALSE, !.again = FALSE, !.dirty = FALSE, !.lost = l]
        /\ before' = server'
    BY <1>2, <1>4 DEF RequestFails
  <2>2. Over /\ call'.result = "failed"
    <3>1. None \in Int /\ "done" \in StepNames
      BY DEF StepNames, None
    <3>2. call' \in Calls
      BY <1>1, <2>1, <3>1 DEF Calls
    <3>3. Same /\ call'.step = "done" /\ ~call'.made /\ ~call'.again /\ ~call'.dirty /\ call'.result = "failed"
      BY <1>1, <2>1 DEF Calls, Same
    <3> QED BY <3>2, <3>3 DEF Over
  <2>3. CASE UNCHANGED course
    BY <1>1, <2>1, <2>2, <2>3, EndsSame
  <2>4. CASE Serve /\ call.step \in {"rename", "reparent"}
    <3>1. server' = server
      BY <2>2, <2>4 DEF Misleads
    <3>2. UNCHANGED course
      BY <1>1, <2>4, <3>1 DEF Serve, course
    <3> QED BY <1>1, <2>1, <2>2, <3>2, EndsSame
  <2>5. CASE Serve /\ call.step \notin {"rename", "reparent"}
    <3>1. Grown' /\ Remains /\ next' \in Nat \ {0} /\ next <= next'
      BY <1>1, <2>5, ServedKept
    <3> QED BY <1>1, <2>1, <2>2, <3>1, EndsKept
  <2> QED BY <1>1, <2>3, <2>4, <2>5
<1> QED BY <1>3, <1>4

-----------------------------------------------------------------------------
(* Every step, and what follows for the trees. *)

\* At first every tree is the course, which is a wood.
LEMMA InitStraight ==
  ASSUME Init
  PROVE  Straight /\ faults \in Nat /\ call.step = "done"
<1>1. /\ opt \in Scenarios /\ server \in opt.starts /\ snapshot = [gen |-> 0, tree |-> server]
      /\ tree = [f \in Fs |-> server] /\ before = server /\ faults = 0
      /\ call \in {[Call("none", f) EXCEPT !.step = "done", !.result = "ok"] : f \in Fs}
  BY DEF Init
<1>2. Labels /\ Types /\ Arguments /\ Flags /\ Rooted /\ Whole(server, next)
  BY InitInv DEF Sound, Roots, Trees
<1>3. IsCourse(server) /\ DOMAIN server \subseteq 1..opt.maxIds /\ opt.maxIds \in Nat
  BY <1>1, ConstantsAssumption
<1>4. Forest(server) /\ DOMAIN server \subseteq 1..(next - 1)
  BY <1>2 DEF Whole, Course, Forest
<1>5. Wood(server)
  <2> DEFINE n == Cardinality(DOMAIN server)
  <2>1. n \in Nat
    <3>1. IsFiniteSet(1..opt.maxIds)
      BY <1>3, FS_Interval
    <3> QED BY <1>3, <3>1, FS_Subset, FS_CardinalityType
  <2>2. \E depth \in [DOMAIN server -> 0..n] :
          \A i \in DOMAIN server : server[i].parent \in DOMAIN server => depth[server[i].parent] < depth[i]
    BY <1>3 DEF IsCourse
  <2> HIDE DEF n
  <2>3. \E depth : Grades(server, n, depth)
    BY <2>1, <2>2 DEF Grades
  <2> QED BY <1>4, <2>3 DEF Wood
<1>6. Named(server, opt)
  BY <1>1, NamesAssumption
<1>7. Good(server, next, server)
  BY <1>4, <1>6 DEF Good, Like
<1>8. Current /\ Grown
  BY <1>1, <1>4, <1>5, <1>6, <1>7 DEF Current, Grown
<1>9. call.step = "done"
  <2>1. PICK f \in Fs : call = [Call("none", f) EXCEPT !.step = "done", !.result = "ok"]
    BY <1>1
  <2> QED BY <2>1 DEF Call
<1>10. Was /\ Knows
  BY <1>1, <1>4, <1>5, <1>9 DEF Was, Knows, Done, Started, Located, Moving
<1> QED BY <1>1, <1>2, <1>8, <1>9, <1>10 DEF Straight

\* Requests are counted.
LEMMA FaultsCount ==
  ASSUME Next, faults \in Nat
  PROVE  faults' \in Nat
<1>1. ASSUME NEW f \in Fs, NEW p \in Files(f), NewObject(f, p) PROVE faults' \in Nat
  BY <1>1 DEF NewObject, MayFail
<1>2. CASE Invoke \/ Ensure \/ EnsureFails \/ RequestFails \/ OtherClient
  BY <1>2 DEF Invoke, Ensure, EnsureFails, RequestFails, OtherClient, MayFail, ghosts
<1>3. CASE BeginPut \/ BeginMkdir \/ BeginRmdir \/ LookAgain \/ BeginUpdate \/ BeginRemove
           \/ BeginMove \/ BeginDirMove \/ DirMoveOntoItself
  BY <1>3 DEF BeginPut, BeginMkdir, BeginRmdir, LookAgain, BeginUpdate, BeginRemove,
              BeginMove, BeginDirMove, DirMoveOntoItself, Pass, Stop, MayFail, ghosts
<1>4. CASE MakeSegment \/ ParentsMade \/ AlreadyThere \/ MadeDir \/ RemovedDir
           \/ Created \/ Overwrote \/ EnterFile \/ LicenseAgain \/ Licensed
           \/ Seen \/ Copied \/ Moved \/ CleanedUp \/ Unlinked \/ Removed
  BY <1>4 DEF MakeSegment, ParentsMade, AlreadyThere, MadeDir, RemovedDir, Created,
              Overwrote, EnterFile, LicenseAgain, Licensed, Seen, Copied, Moved, CleanedUp,
              Unlinked, Removed, Stop, Answered, ghosts
<1> QED BY <1>1, <1>2, <1>3, <1>4 DEF Next, Handler

\* Every step of a call that is not misled keeps the invariant.
LEMMA NextStraight ==
  ASSUME Straight, Next, ~misled', faults \in Nat
  PROVE  Straight'
<1>1. UNCHANGED opt /\ misled' = (misled \/ Misleads)
  BY DEF Next
<1>2. ASSUME NEW f \in Fs, NEW p \in Files(f), NewObject(f, p) PROVE Straight'
  BY <1>1, <1>2, NewObjectStraight
<1>3. CASE Invoke
  BY <1>1, <1>3, InvokeStraight
<1>4. CASE Ensure
  BY <1>1, <1>4, EnsureStraight
<1>5. CASE EnsureFails
  BY <1>1, <1>5, EnsureFailsStraight
<1>6. CASE RequestFails
  BY <1>1, <1>6, RequestFailsStraight
<1>7. CASE OtherClient
  BY <1>1, <1>7, OtherClientStraight
<1>8. CASE BeginPut
  BY <1>1, <1>8, BeginPutStraight DEF BeginPut, Pass, ghosts
<1>9. CASE BeginUpdate \/ BeginRemove \/ BeginMove \/ BeginDirMove
  <2>1. Agreeing
    BY <1>1, <1>9, AgreesNow DEF BeginUpdate, BeginRemove, BeginMove, BeginDirMove
  <2> QED BY <1>1, <1>9, <2>1, BeginUpdateStraight, BeginRemoveStraight, BeginMoveStraight, BeginDirMoveStraight
<1>10. CASE BeginMkdir \/ BeginRmdir \/ LookAgain \/ DirMoveOntoItself \/ AlreadyThere
  BY <1>1, <1>10, BeginMkdirStraight, BeginRmdirStraight, LookAgainStraight, DirMoveOntoItselfStraight,
     AlreadyThereStraight
<1>11. CASE MakeSegment \/ ParentsMade \/ MadeDir \/ RemovedDir
  BY <1>1, <1>11, MakeSegmentStraight, ParentsMadeStraight, MadeDirStraight, RemovedDirStraight
<1>12. CASE Created \/ Overwrote \/ EnterFile \/ LicenseAgain \/ Licensed
  BY <1>1, <1>12, CreatedStraight, OverwroteStraight, EnterFileStraight, LicenseAgainStraight, LicensedStraight
<1>13. CASE Seen \/ Copied \/ Moved \/ CleanedUp \/ Unlinked \/ Removed
  BY <1>1, <1>13, SeenStraight, CopiedStraight, MovedStraight, CleanedUpStraight, UnlinkedStraight, RemovedStraight
<1> QED BY <1>2, <1>3, <1>4, <1>5, <1>6, <1>7, <1>8, <1>9, <1>10, <1>11, <1>12, <1>13 DEF Next, Handler

\* So it holds until a call is misled.
Upright == faults \in Nat /\ (misled \/ Straight)

\* Every step keeps it.
LEMMA UprightStep ==
  ASSUME Upright, [Next]_vars
  PROVE  Upright'
<1>1. CASE UNCHANGED vars
  <2>1. UNCHANGED <<opt, server, next, counter, snapshot, tree, relativeRoot, label, held, call, before, faults, misled>>
    BY <1>1 DEF vars, course, caches, ghosts
  <2>2. Straight => Straight'
    BY <2>1 DEF Straight, Labels, Types, Arguments, Files, Folders, Own, Rooted, Grown, Current, Good, Was, Knows,
                Flags, Started, Done, Located, Licensing, FiledAs, Moving, Copying, Now
  <2> QED BY <2>1, <2>2 DEF Upright
<1>2. CASE Next
  <2>1. faults' \in Nat
    BY <1>2, FaultsCount DEF Upright
  <2>2. ~misled' => ~misled
    BY <1>2 DEF Next
  <2> QED BY <1>2, <2>1, <2>2, NextStraight DEF Upright
<1> QED BY <1>1, <1>2

\* Whatever has failed and whatever others did: as long as no call was misled, the
\* trees that count agree with the course on what both have, and a call is about
\* what is at its path.
THEOREM UprightHolds == Spec => []Upright
<1>1. Init => Upright
  BY InitStraight DEF Upright
<1>2. Upright /\ [Next]_vars => Upright'
  BY UprightStep
<1> QED BY <1>1, <1>2, PTL DEF Spec

\* A tree that counts may lack what the course has, and have what it has not, but
\* what both have is in one place (fs.go:337-382, 506-549, 1195-1217, object.go:385-433).
THEOREM InPlaceHolds == Spec => []InPlace
<1>1. Upright => InPlace
  <2> SUFFICES ASSUME Straight,
                      NEW t \in {tree[f] : f \in {g \in Fs : label[g] = counter}}
                                \cup (IF snapshot.gen = counter THEN {snapshot.tree} ELSE {}),
                      NEW i \in DOMAIN t \cap DOMAIN server
               PROVE  t[i].dir = server[i].dir /\ t[i].parent = server[i].parent /\ t[i].name = server[i].name
    BY DEF Upright, InPlace
  <2>1. Like(t, server)
    BY DEF Straight, Current, Good
  <2> QED BY <2>1 DEF Like
<1> QED BY <1>1, UprightHolds, PTL

\* The root of an instance is the folder its path leads to in its tree, or none, also
\* after calls that failed halfway, and is that of the course between calls if the tree
\* is current (fs.go:361-370, 1304-1338, 1419-1421).
THEOREM RootResolvedHolds ==
  ASSUME KnownSizes
  PROVE  Spec => []RootResolved
<1>1. Upright /\ Inv => RootResolved
  <2>1. Straight => \A f \in Fs : relativeRoot[f] \in {None, GetNodeAtPath(tree[f], Top, Root[f])}
    BY DEF Straight, Rooted, At
  <2>2. Inv /\ ~drifted => RootResolved
    BY RootWhileSound
  <2> QED BY <2>1, <2>2 DEF Upright, RootResolved
<1> QED BY <1>1, UprightHolds, InvHolds, PTL

-----------------------------------------------------------------------------
(* What the calls do to the paths of the course. *)

\* The path of a node from that of its folder.
LEMMA TrailOf ==
  ASSUME NEW s, Wood(s), NEW i \in DOMAIN s, NEW p \in Names, p # <<>>, s[i].name = Last(p),
         s[i].parent \in DOMAIN s => Paths(s)[s[i].parent] = Front(p),
         s[i].parent \notin DOMAIN s => Front(p) = <<>>
  PROVE  Paths(s)[i] = p
<1> DEFINE q == Paths(s)[i]
<1>1. q \in Names /\ q # <<>> /\ Last(q) = s[i].name /\ Front(q) = Front(p)
  BY TrailIs
<1> HIDE DEF q
<1>2. q = p
  BY <1>1, FrontLast
<1> QED BY <1>2 DEF q

\* Where a tree shows the folder, that is the path the tree has of it.
LEMMA TrailTo ==
  ASSUME NEW t, Forest(t), NEW s, Wood(s), Like(t, s), NEW p \in Names, p # <<>>,
         IsDir(s, At(t, Front(p)))
  PROVE  /\ At(t, Front(p)) \in DOMAIN s => Paths(s)[At(t, Front(p))] = Front(p)
         /\ At(t, Front(p)) \notin DOMAIN s => Front(p) = <<>>
<1>1. Front(p) \in Names
  BY FrontIs
<1>2. At(t, Front(p)) \in DOMAIN s => Paths(s)[At(t, Front(p))] = Front(p)
  BY <1>1, TrailLike
<1>3. At(t, Front(p)) \notin DOMAIN s => Front(p) = <<>>
  <2> SUFFICES ASSUME At(t, Front(p)) \notin DOMAIN s PROVE Front(p) = <<>>
    OBVIOUS
  <2>1. At(t, Front(p)) = Top
    BY DEF IsDir
  <2> QED BY <1>1, <2>1, LeadsNone
<1> QED BY <1>2, <1>3

\* The path of a file that is where a call says.
LEMMA FiledTrail ==
  ASSUME Straight, Started, NEW id \in DOMAIN server, NEW p \in Names, p # <<>>, FiledAs(id, p)
  PROVE  Paths(server)[id] = p
<1>1. Forest(Now) /\ Like(Now, server) /\ Wood(server) /\ Forest(server)
  BY Footing DEF Good
<1>2. server[id].parent = At(Now, Front(p)) /\ server[id].name = Last(p) /\ IsDir(server, server[id].parent)
  BY <1>1 DEF FiledAs, Forest
<1>3. /\ At(Now, Front(p)) \in DOMAIN server => Paths(server)[At(Now, Front(p))] = Front(p)
      /\ At(Now, Front(p)) \notin DOMAIN server => Front(p) = <<>>
  BY <1>1, <1>2, TrailTo
<1> QED BY <1>1, <1>2, <1>3, TrailOf

\* The path of the node a call is about.
LEMMA LocatedTrail ==
  ASSUME Straight, Started, Located, call.id \in DOMAIN server
  PROVE  Paths(server)[call.id] = call.at
<1>1. At(Now, call.at) = call.id
  BY DEF Straight, Knows
<1>2. Forest(Now) /\ Like(Now, server) /\ Wood(server) /\ call.at \in Names
  BY Footing DEF Good
<1> QED BY <1>1, <1>2, TrailLike

\* What stays with all that contains it keeps its path.
LEMMA TrailsKept ==
  ASSUME NEW t, Wood(t), NEW u, Wood(u), NEW K \in SUBSET (DOMAIN t \cap DOMAIN u),
         \A i \in K : u[i].parent = t[i].parent /\ u[i].name = t[i].name,
         \A i \in K : t[i].parent \in DOMAIN t => t[i].parent \in K
  PROVE  \A i \in K : Paths(u)[i] = Paths(t)[i]
<1>1. \A i \in K : t[i].parent \notin DOMAIN t => t[i].parent \notin DOMAIN u
  <2>1. \A i \in DOMAIN t : IsDir(t, t[i].parent)
    BY DEF Wood, Forest
  <2>2. Top \notin DOMAIN u
    BY ChildOf DEF Wood
  <2> QED BY <2>1, <2>2 DEF IsDir
<1> QED BY <1>1, TrailsStay

\* What is added where a path says has that path.
LEMMA PlusTrail ==
  ASSUME Straight, Started, NEW p \in Names, p # <<>>, NEW node, Receives(node),
         node.parent = At(Now, Front(p)), node.name = Last(p), IsDir(server, At(Now, Front(p)))
  PROVE  /\ Paths(server')[next] = p /\ DOMAIN server' = DOMAIN server \cup {next}
         /\ \A i \in DOMAIN server : server'[i] = server[i]
<1>1. /\ DOMAIN server' = DOMAIN server \cup {next} /\ server'[next] = node
      /\ (\A j \in DOMAIN server : server'[j] = server[j]) /\ Wood(server')
  BY DEF Receives, Plus, Grown
<1>2. Forest(Now) /\ Like(Now, server) /\ Wood(server) /\ Forest(server) /\ next \notin DOMAIN server
  BY Footing DEF Good
<1> DEFINE up == At(Now, Front(p))
<1>3. /\ up \in DOMAIN server => Paths(server)[up] = Front(p)
      /\ up \notin DOMAIN server => Front(p) = <<>>
  BY <1>2, TrailTo
<1>4. \A i \in DOMAIN server : Paths(server')[i] = Paths(server)[i]
  <2>1. DOMAIN server \in SUBSET (DOMAIN server \cap DOMAIN server')
    BY <1>1
  <2> QED BY <1>1, <1>2, <2>1, TrailsKept
<1>5. up # next
  <2>1. next # Top
    <3>1. next \in DOMAIN server' /\ Forest(server')
      BY <1>1 DEF Wood
    <3> QED BY <3>1, ChildOf
  <2> QED BY <1>2, <2>1 DEF IsDir
<1> HIDE DEF up
<1>6. up \in DOMAIN server' => Paths(server')[up] = Front(p)
  BY <1>1, <1>3, <1>4, <1>5
<1>7. up \notin DOMAIN server' => Front(p) = <<>>
  BY <1>1, <1>3
<1>8. next \in DOMAIN server' /\ server'[next].parent = up /\ server'[next].name = Last(p)
  BY <1>1 DEF up
<1>9. Paths(server')[next] = p
  BY <1>1, <1>6, <1>7, <1>8, TrailOf
<1> QED BY <1>1, <1>9

\* What a call that runs does to the course.
LEMMA CallServes ==
  ASSUME Next, ~Done
  PROVE  server' = server \/ (Requesting /\ Serve)
<1>1. ASSUME NEW f \in Fs, NEW p \in Files(f), NewObject(f, p) PROVE FALSE
  BY <1>1 DEF NewObject
<1>2. CASE Invoke \/ OtherClient
  BY <1>2 DEF Invoke, OtherClient, OtherUploads, OtherRemoves
<1>3. CASE Ensure \/ EnsureFails
  BY <1>3 DEF Ensure, EnsureFails, course
<1>4. CASE RequestFails
  BY <1>4 DEF RequestFails, course
<1>5. CASE BeginPut \/ BeginMkdir \/ BeginRmdir \/ LookAgain \/ BeginUpdate \/ BeginRemove
           \/ BeginMove \/ BeginDirMove \/ DirMoveOntoItself \/ ParentsMade \/ AlreadyThere
  BY <1>5 DEF BeginPut, BeginMkdir, BeginRmdir, LookAgain, BeginUpdate, BeginRemove,
              BeginMove, BeginDirMove, DirMoveOntoItself, ParentsMade, AlreadyThere, Pass, Stop, course
<1>6. CASE MakeSegment \/ MadeDir \/ RemovedDir \/ Created \/ Overwrote \/ EnterFile \/ LicenseAgain \/ Licensed
           \/ Seen \/ Copied \/ Moved \/ CleanedUp \/ Unlinked \/ Removed
  BY <1>6 DEF MakeSegment, MadeDir, RemovedDir, Created, Overwrote, EnterFile, LicenseAgain, Licensed,
              Seen, Copied, Moved, CleanedUp, Unlinked, Removed, Answered
<1> QED BY <1>1, <1>2, <1>3, <1>4, <1>5, <1>6 DEF Next, Handler

-----------------------------------------------------------------------------
(* Others' paths. *)

\* What a call may change, remove and make.
Apart ==
  /\ \A i \in DOMAIN server :
       \/ i \in DOMAIN server' /\ server'[i] = server[i]
       \/ i = call.new \/ IsPrefix(call.at, Paths(server)[i])
  /\ \A i \in DOMAIN server' \ DOMAIN server :
       IsPrefix(Paths(server')[i], Goal) \/ (server'[i].dir /\ Again(server'[i]))

\* It makes something on the way to its goal, or there.
LEMMA ReceivesApart ==
  ASSUME Straight, Started, NEW p \in Names, p # <<>>, NEW node, Receives(node),
         node.parent = At(Now, Front(p)), node.name = Last(p), IsDir(server, At(Now, Front(p))),
         IsPrefix(p, Goal)
  PROVE  Apart
<1>1. /\ Paths(server')[next] = p /\ DOMAIN server' = DOMAIN server \cup {next}
      /\ \A i \in DOMAIN server : server'[i] = server[i]
  BY PlusTrail
<1>2. \A i \in DOMAIN server' \ DOMAIN server : i = next
  BY <1>1
<1> QED BY <1>1, <1>2 DEF Apart

\* It makes a folder on the way to its goal, or beside one that is there.
LEMMA FolderApart ==
  ASSUME Straight, Started, UNCHANGED opt, NEW p \in Names, p # <<>>, Last(p) \in FolderNames(opt),
         IsPrefix(p, Goal), server' \in MkDir(p), next' = IF next \in DOMAIN server' THEN next + 1 ELSE next
  PROVE  Apart
<1> DEFINE up == At(Now, Front(p))
<1>1. PICK name : /\ Receives(Folder(up, name)) /\ IsDir(server, up)
                  /\ name = Last(p) \/ Child(server, up, Last(p)) # None
  BY MkDirGains
<1> DEFINE node == Folder(up, name)
<1>2. node.parent = up /\ node.name = name /\ node.dir
  BY DEF Folder
<1> HIDE DEF node
<1>3. CASE name = Last(p)
  BY <1>1, <1>2, <1>3, ReceivesApart DEF node
<1>4. CASE Child(server, up, Last(p)) # None
  <2>1. Forest(Now) /\ Like(Now, server) /\ Wood(server) /\ Forest(server)
    BY Footing DEF Good
  <2>2. PICK j \in Called(server, up, Last(p)) : TRUE
    BY <1>4, <2>1, ChildOf
  <2>3. j \in DOMAIN server /\ server[j].parent = up /\ server[j].name = Last(p)
    BY <2>2 DEF Called
  <2>4. server[j].dir
    BY <2>3 DEF Straight, Grown, Named
  <2>5. /\ up \in DOMAIN server => Paths(server)[up] = Front(p)
        /\ up \notin DOMAIN server => Front(p) = <<>>
    BY <1>1, <2>1, TrailTo
  <2> HIDE DEF up
  <2>6. Paths(server)[j] = p
    BY <2>1, <2>3, <2>5, TrailOf
  <2>7. /\ DOMAIN server' = DOMAIN server \cup {next} /\ server'[next] = node
        /\ \A i \in DOMAIN server : server'[i] = server[i]
    BY <1>1 DEF Receives, Plus, node
  <2>8. server'[next].dir /\ Again(server'[next])
    BY <1>2, <2>3, <2>4, <2>6, <2>7 DEF Again
  <2> QED BY <2>7, <2>8 DEF Apart
<1> QED BY <1>1, <1>3, <1>4

\* It removes a file that is where it says.
LEMMA GoesApart ==
  ASSUME Straight, UNCHANGED opt, Serve, NEW id, id # Top, id \in DOMAIN server => ~server[id].dir,
         server' \in DeleteFile(id),
         id \in DOMAIN server => id = call.new \/ IsPrefix(call.at, Paths(server)[id])
  PROVE  Apart
<1>1. DOMAIN server' = DOMAIN server \ {id} /\ \A i \in DOMAIN server' : server'[i] = server[i]
  BY FileGoes
<1> QED BY <1>1 DEF Apart

\* No request touches anything else.
LEMMA ServedApart ==
  ASSUME Straight, UNCHANGED opt, Requesting, Serve
  PROVE  Apart
<1>1. /\ Started /\ next \in Nat \ {0} /\ opt \in Scenarios /\ call.at \in Names /\ call.to \in Names
      /\ call.step \in {"parents", "mkdir", "create", "copy", "stat", "license", "overwrite", "rmdir",
                        "unlink", "cleanup", "rename", "reparent"}
      /\ Wood(server) /\ Forest(server) /\ Good(Now, next, server) /\ Forest(Now)
  BY Footing DEF Requesting, Started, Calls, StepNames
<1>2. Located /\ call.id \in DOMAIN server => IsPrefix(call.at, Paths(server)[call.id])
  BY <1>1, LocatedTrail, PrefixSelf
<1>3. CASE call.step = "parents"
  <2>1. call.op \in {"put", "update", "mkdir", "move", "dirmove"} /\ Segment # <<>>
    BY <1>3 DEF Straight, Flags, Fits, Requesting
  <2>2. PICK p : p = Segment
    OBVIOUS
  <2>3. p \in Names /\ p # <<>> /\ Last(p) \in FolderNames(opt) /\ IsPrefix(p, Goal)
    BY <2>1, <2>2, SegmentStands
  <2>4. server' \in MkDir(p) /\ next' = IF next \in DOMAIN server' THEN next + 1 ELSE next
    BY <1>3, <2>2, Replies
  <2> QED BY <1>1, <2>3, <2>4, FolderApart
<1>4. CASE call.step = "mkdir"
  <2>1. call.op = "mkdir" /\ NodeAt(call.at) = None
    BY <1>4 DEF Straight, Flags, Fits, Requesting
  <2>2. call.at # <<>>
    BY <2>1, AtEmpty DEF At, Now, NodeAt, None, Top
  <2>3. Last(call.at) \in FolderNames(opt)
    BY <2>1, <2>2, GoalNames DEF Straight, Goal
  <2>4. PICK p : p = call.at
    OBVIOUS
  <2>5. server' \in MkDir(p) /\ next' = IF next \in DOMAIN server' THEN next + 1 ELSE next
    BY <1>4, <2>4, Replies
  <2>6. IsPrefix(p, Goal) /\ p \in Names
    BY <1>1, <2>1, <2>4, PrefixSelf DEF Goal
  <2> QED BY <1>1, <2>2, <2>3, <2>4, <2>5, <2>6, FolderApart
<1>5. CASE call.step = "create"
  <2>1. call.op \in {"put", "update"}
    BY <1>5 DEF Straight, Flags, Fits
  <2>2. PICK s \in Int : Receives(File(At(Now, Front(call.at)), Last(call.at), s))
                         /\ IsDir(server, At(Now, Front(call.at)))
    BY <1>5, CreateReceives
  <2>3. PICK p : p = call.at
    OBVIOUS
  <2> DEFINE node == File(At(Now, Front(p)), Last(p), s)
  <2>4. Receives(node) /\ node.parent = At(Now, Front(p)) /\ node.name = Last(p)
    BY <2>2, <2>3 DEF File
  <2>5. IsPrefix(p, Goal) /\ p \in Names /\ p # <<>>
    BY <1>1, <2>1, <2>3, UploadAt, PrefixSelf DEF Goal
  <2> HIDE DEF node
  <2> QED BY <1>1, <2>2, <2>3, <2>4, <2>5, ReceivesApart
<1>6. CASE call.step = "copy"
  <2>1. call.op = "move"
    BY <1>6 DEF Straight, Flags, Fits
  <2>2. PICK p, s : p = call.to /\ s = server[call.id].size
    BY Zenon
  <2> DEFINE node == File(At(Now, Front(p)), Last(p), s)
  <2>3. Receives(node) /\ node.parent = At(Now, Front(p)) /\ node.name = Last(p)
    BY <1>6, <2>2, CopyReceives DEF File
  <2>4. IsPrefix(p, Goal) /\ p \in Names /\ p # <<>>
    <3>1. Goal = p /\ call.to # <<>>
      BY <2>1, <2>2, GoalNames DEF Straight, Goal
    <3> QED BY <1>1, <2>2, <3>1, PrefixSelf
  <2>5. IsDir(server, At(Now, Front(p)))
    <3>1. server' \in CreateFileRefByReference(call.id) /\ NodeAt(ParentPath) = At(Now, Front(p))
      BY <1>6, <2>1, <2>2, Replies DEF NodeAt, At, Now, ParentPath, Goal
    <3> QED BY <3>1 DEF CreateFileRefByReference
  <2> HIDE DEF node
  <2> QED BY <1>1, <2>3, <2>4, <2>5, ReceivesApart
<1>7. CASE call.step \in {"stat", "license"}
  <2>1. server' = server
    BY <1>7, AsksOnly DEF course
  <2> QED BY <2>1 DEF Apart
<1>8. CASE call.step = "overwrite"
  <2>1. call.op \in {"put", "update"} /\ Located
    BY <1>8 DEF Straight, Flags, Fits, Located
  <2>2. /\ Grown' /\ call.id \in DOMAIN server /\ FiledAs(call.id, call.at)
        /\ \E n \in {call.id, next}, s \in Int : ReIded(server, call.id, server', n, s)
    BY <1>8, OverwriteRenews
  <2>3. PICK n \in {call.id, next}, s \in Int : ReIded(server, call.id, server', n, s)
    BY <2>2
  <2>4. PICK id : id = call.id
    OBVIOUS
  <2>5. /\ DOMAIN server' = (DOMAIN server \ {id}) \cup {n}
        /\ server'[n].parent = server[id].parent /\ server'[n].name = server[id].name
        /\ \A j \in DOMAIN server : j # id /\ j # n => server'[j] = server[j]
    BY <2>3, <2>4 DEF ReIded
  <2>6. n = id \/ n \notin DOMAIN server
    BY <2>3, <2>4, Footing
  <2>7. ASSUME n \notin DOMAIN server PROVE IsPrefix(Paths(server')[n], Goal)
    <3>1. Wood(server') /\ call.at # <<>>
      BY <2>1, <2>2, UploadAt DEF Grown
    <3>2. server'[n].parent = At(Now, Front(call.at)) /\ server'[n].name = Last(call.at) /\ ~server[id].dir
      BY <2>2, <2>4, <2>5 DEF FiledAs
    <3> DEFINE up == At(Now, Front(call.at))
    <3>3. IsDir(server, up)
      BY <1>1, <2>2, <2>4, <2>5, <3>2 DEF Forest
    <3>4. /\ up \in DOMAIN server => Paths(server)[up] = Front(call.at)
          /\ up \notin DOMAIN server => Front(call.at) = <<>>
      BY <1>1, <3>1, <3>3, TrailTo DEF Good
    <3>5. up # id
      <4>1. id # Top
        BY <1>1, <2>2, <2>4, ChildOf
      <4> QED BY <3>2, <3>3, <4>1 DEF IsDir
    <3>6. up # n
      <4>1. n # Top
        <5>1. n \in DOMAIN server' /\ Forest(server')
          BY <2>5, <3>1 DEF Wood
        <5> QED BY <5>1, ChildOf
      <4> QED BY <2>7, <3>3, <4>1 DEF IsDir
    <3>7. \A i \in DOMAIN server \ {id} : Paths(server')[i] = Paths(server)[i]
      <4>1. \A i \in DOMAIN server \ {id} : server[i].parent # id
        <5>1. id # Top
          BY <1>1, <2>2, <2>4, ChildOf
        <5> QED BY <1>1, <3>2, <5>1, NothingIn
      <4> DEFINE K == DOMAIN server \ {id}
      <4>2. K \in SUBSET (DOMAIN server \cap DOMAIN server')
        BY <2>5
      <4>3. \A i \in K : server'[i] = server[i]
        BY <2>5, <2>7
      <4>4. \A i \in K : server[i].parent \in DOMAIN server => server[i].parent \in K
        BY <4>1
      <4> HIDE DEF K
      <4>5. \A i \in K : Paths(server')[i] = Paths(server)[i]
        BY <1>1, <3>1, <4>2, <4>3, <4>4, TrailsKept
      <4> QED BY <4>5 DEF K
    <3> HIDE DEF up
    <3>8. up \in DOMAIN server' => Paths(server')[up] = Front(call.at)
      BY <2>5, <3>4, <3>5, <3>6, <3>7
    <3>9. up \notin DOMAIN server' => Front(call.at) = <<>>
      BY <2>5, <3>4, <3>5
    <3>10. n \in DOMAIN server' /\ server'[n].parent = up /\ server'[n].name = Last(call.at)
      BY <2>5, <3>2 DEF up
    <3>11. Paths(server')[n] = call.at
      BY <1>1, <3>1, <3>8, <3>9, <3>10, TrailOf
    <3> QED BY <1>1, <2>1, <3>11, PrefixSelf DEF Goal
  <2>8. \A i \in DOMAIN server : i = id \/ (i \in DOMAIN server' /\ server'[i] = server[i])
    BY <2>5, <2>6
  <2>9. \A i \in DOMAIN server' \ DOMAIN server : i = n /\ n \notin DOMAIN server
    BY <2>5
  <2>10. IsPrefix(call.at, Paths(server)[id])
    BY <1>2, <2>1, <2>2, <2>4
  <2> QED BY <2>7, <2>8, <2>9, <2>10 DEF Apart
<1>9. CASE call.step = "rmdir"
  <2> DEFINE S == Subtree(server, call.id)
  <2>1. server' = Without(server, S)
    BY <1>9, Replies DEF DeleteFolder
  <2>2. \A i \in S : i \in DOMAIN server /\ IsPrefix(Paths(server)[call.id], Paths(server)[i])
    <3>1. call.id \in DOMAIN server
      BY <1>9, Exists
    <3>2. S \subseteq DOMAIN server
      BY <3>1, SubtreeIs
    <3> QED BY <1>1, <3>1, <3>2, TrailsBelow
  <2>3. Paths(server)[call.id] = call.at
    BY <1>1, <1>9, Exists, LocatedTrail DEF Located
  <2> HIDE DEF S
  <2>4. DOMAIN server' = DOMAIN server \ S /\ \A i \in DOMAIN server' : server'[i] = server[i]
    BY <2>1 DEF Without, Restrict
  <2> QED BY <2>2, <2>3, <2>4 DEF Apart
<1>10. CASE call.step = "unlink"
  <2>1. call.op \in {"update", "remove", "move"} /\ Located
    BY <1>10 DEF Straight, Flags, Fits, Located
  <2>2. call.id # Top /\ (call.id \in DOMAIN server => ~server[call.id].dir)
    BY <1>1, <2>1, TheFile DEF FiledAs
  <2>3. server' \in DeleteFile(call.id)
    BY <1>10, Replies
  <2>4. PICK id : id = call.id
    OBVIOUS
  <2> QED BY <1>2, <2>1, <2>2, <2>3, <2>4, GoesApart
<1>11. CASE call.step = "cleanup"
  <2>1. Copying
    BY <1>11 DEF Straight, Flags, Fits, Knows, Moving
  <2>2. call.new # Top /\ (call.new \in DOMAIN server => ~server[call.new].dir)
    BY <1>1, <2>1 DEF Copying, FiledAs, Top
  <2>3. server' \in DeleteFile(call.new)
    BY <1>11, Replies
  <2>4. PICK id : id = call.new
    OBVIOUS
  <2> QED BY <2>2, <2>3, <2>4, GoesApart
<1>12. CASE call.step = "rename"
  <2>1. Located /\ call.id \in DOMAIN server
    BY <1>12, Exists DEF Located
  <2>2. server' = [server EXCEPT ![call.id].name = Last(call.to)]
    BY <1>12, Replies DEF UpdateFileRef
  <2>3. DOMAIN server' = DOMAIN server /\ \A i \in DOMAIN server : i # call.id => server'[i] = server[i]
    BY <2>2
  <2> QED BY <1>2, <2>1, <2>3 DEF Apart
<1>13. CASE call.step = "reparent"
  <2>1. Located /\ call.id \in DOMAIN server
    BY <1>13, Exists DEF Located
  <2>2. DOMAIN server' = DOMAIN server /\ \A i \in DOMAIN server : i # call.id => server'[i] = server[i]
    BY <1>13, ReparentPlaces DEF Placed
  <2> QED BY <1>2, <2>1, <2>2 DEF Apart
<1> QED BY <1>1, <1>3, <1>4, <1>5, <1>6, <1>7, <1>8, <1>9, <1>10, <1>11, <1>12, <1>13

\* A call changes and removes only what is at its path or below, and makes only what
\* leads to its goal, whatever failed, unless it was misled (fs.go:102-137, 1365-1428,
\* object.go:246).
THEOREM OthersUntouchedHolds == Spec => OthersUntouched
<1>1. Init => Upright
  BY InitStraight DEF Upright
<1>2. Upright /\ [Next]_vars => Upright'
  BY UprightStep
<1>3. Upright /\ [Next]_vars =>
        [~Done /\ ~misled =>
           /\ \A i \in DOMAIN server :
                \/ i \in DOMAIN server' /\ server'[i] = server[i]
                \/ i = call.new \/ IsPrefix(call.at, Paths(server)[i])
           /\ \A i \in DOMAIN server' \ DOMAIN server :
                \/ IsPrefix(Paths(server')[i], Goal)
                \/ server'[i].dir /\ Again(server'[i])]_vars
  <2> SUFFICES ASSUME Upright, Next, ~Done, ~misled PROVE Apart
    BY DEF Apart
  <2>1. Straight /\ UNCHANGED opt
    BY DEF Upright, Next
  <2>2. CASE server' = server
    BY <2>2 DEF Apart
  <2>3. CASE Requesting /\ Serve
    BY <2>1, <2>3, ServedApart
  <2> QED BY <2>2, <2>3, CallServes
<1> QED BY <1>1, <1>2, <1>3, PTL DEF Spec, OthersUntouched

-----------------------------------------------------------------------------
(* Uploads and moves that return. *)

\* An upload returns well from where it has set the license.
LEMMA UploadEnds ==
  ASSUME Straight, Next, call.op \in {"put", "update"}, ~Done, call'.result = "ok"
  PROVE  call.step = "license" /\ Serve
<1>1. call \in Calls /\ call.result # "ok" /\ Fits(call.op, call.step)
  BY Footing DEF Straight, Knows, Flags
<1>2. ASSUME call'.result = call.result PROVE FALSE
  BY <1>1, <1>2
<1>3. ASSUME NEW f \in Fs, NEW p \in Files(f), NewObject(f, p) PROVE FALSE
  BY <1>3 DEF NewObject
<1>4. CASE Invoke \/ OtherClient
  BY <1>4 DEF Invoke, OtherClient, OtherUploads, OtherRemoves
<1>5. CASE Ensure \/ LookAgain
  BY <1>1, <1>2, <1>5 DEF Ensure, LookAgain, Go, Calls
<1>6. CASE EnsureFails
  BY <1>1, <1>6 DEF EnsureFails, Return, Calls
<1>7. CASE RequestFails
  BY <1>1, <1>7 DEF RequestFails, Calls
<1>8. CASE BeginMkdir \/ BeginRmdir \/ BeginRemove \/ BeginMove \/ BeginDirMove \/ DirMoveOntoItself
           \/ AlreadyThere \/ MadeDir \/ RemovedDir \/ Seen \/ Copied \/ Moved \/ CleanedUp \/ Removed
  BY <1>1, <1>8 DEF BeginMkdir, BeginRmdir, BeginRemove, BeginMove, BeginDirMove, DirMoveOntoItself, OntoItself,
                    AlreadyThere, MadeDir, RemovedDir, Seen, Copied, Moved, CleanedUp, Removed, Answered, Fits
<1>9. CASE BeginPut \/ BeginUpdate
  BY <1>1, <1>2, <1>9 DEF BeginPut, BeginUpdate, Pass, Calls
<1>10. CASE MakeSegment \/ ParentsMade \/ Created \/ Overwrote \/ LicenseAgain \/ Unlinked
  BY <1>1, <1>2, <1>10 DEF MakeSegment, ParentsMade, Created, Overwrote, LicenseAgain, Unlinked, Calls
<1>11. CASE EnterFile \/ Licensed
  BY <1>11 DEF EnterFile, Licensed, Answered
<1> QED BY <1>3, <1>4, <1>5, <1>6, <1>7, <1>8, <1>9, <1>10, <1>11 DEF Next, Handler

-----------------------------------------------------------------------------
(* How much of an upload is stored. *)

\* Where an overwrite may be cut.
MayCut == call.op = "put" \/ opt.stale
\* The file is as long as the upload, or as it was before and too short.
InFull(id) ==
  \/ call.size < 0 \/ server[id].size = call.size
  \/ /\ MayCut /\ server[id].size < call.size
     /\ [at |-> call.at, dir |-> FALSE, size |-> server[id].size] \in Entries(before)
\* An upload has not touched the course before it overwrites; an update of an object that
\* is up to date overwrites only what is not shorter.
Sized ==
  call.op \in {"put", "update"} =>
    /\ call.step \in {"ensure", "begin", "overwrite"} => before = server
    /\ call.op = "update" /\ ~opt.stale =>
         /\ call.step \in {"ensure", "begin"} => server[call.id].size = held[call.f].size
         /\ call.step = "overwrite" => ~(0 <= server[call.id].size /\ server[call.id].size < call.size)
    /\ call.step = "license" /\ call.id \in DOMAIN server => InFull(call.id)

\* A call begins.
LEMMA InvokeSized ==
  ASSUME Straight, UNCHANGED opt, Invoke
  PROVE  Sized'
<1>1. /\ Done /\ UNCHANGED <<course, held, before>> /\ call' \in Invocations
  BY DEF Invoke
<1>2. before = server /\ server' = server /\ before' = before /\ held' = held
  BY <1>1 DEF Straight, Was, Started, Done, course
<1>3. Begun(call') /\ Types
  BY <1>1, InvocationsAre DEF Straight, Types, Arguments
<1>4. call'.step = "ensure"
  BY <1>3 DEF Begun
<1>5. ASSUME call'.op = "update", ~opt.stale
      PROVE  server[call'.id].size = held[call'.f].size
  BY <1>3, <1>5 DEF Begun, Fresh
<1> QED BY <1>2, <1>4, <1>5 DEF Sized

\* The decision of an update.
LEMMA BeginUpdateSized ==
  ASSUME Straight, Sized, UNCHANGED opt, BeginUpdate
  PROVE  Sized'
<1>1. /\ call.op = "update" /\ call.step = "begin" /\ UNCHANGED <<course, held, ghosts>>
      /\ \/ call.size >= 0 /\ held[call.f].size >= 0 /\ call.size # held[call.f].size
            /\ call' = [call EXCEPT !.step = "parents", !.id = call.id, !.again = TRUE]
         \/ ~(call.size >= 0 /\ held[call.f].size >= 0 /\ call.size # held[call.f].size)
            /\ call' = [call EXCEPT !.step = "overwrite", !.id = call.id, !.again = FALSE]
  BY DEF BeginUpdate, Pass
<1>2. call \in Calls /\ call.size \in Int /\ call.f \in Fs
  BY Footing DEF Calls
<1>3. held[call.f].size \in Int
  BY <1>2 DEF Straight, Types, Objects
<1>4. server' = server /\ before' = before /\ held' = held
  BY <1>1 DEF course, ghosts
<1>5. /\ call'.op = "update" /\ call'.id = call.id /\ call'.size = call.size /\ call'.f = call.f
      /\ call'.step \in {"parents", "overwrite"}
      /\ call'.step = "overwrite" => ~(call.size >= 0 /\ held[call.f].size >= 0 /\ call.size # held[call.f].size)
  BY <1>1, <1>2 DEF Calls
<1>6. before = server /\ (~opt.stale => server[call.id].size = held[call.f].size)
  BY <1>1 DEF Sized
<1> QED BY <1>2, <1>3, <1>4, <1>5, <1>6 DEF Sized

\* The file is created in full.
LEMMA CreatedSized ==
  ASSUME Straight, UNCHANGED opt, Created
  PROVE  Sized'
<1>1. /\ call.step = "create" /\ Serve
      /\ call' = [call EXCEPT !.id = next, !.dirty = call.op = "put", !.step = "license"]
  BY DEF Created, Answered
<1>2. call \in Calls /\ call.size \in Int
  BY Footing DEF Calls
<1>3. call'.id = next /\ call'.size = call.size /\ call'.step = "license"
  BY <1>1, <1>2 DEF Calls
<1>4. PICK s \in Int : /\ Receives(File(At(Now, Front(call.at)), Last(call.at), s))
                      /\ (call.size >= 0 => s = call.size)
  BY <1>1, CreateReceives
<1>5. server'[next].size = s
  BY <1>4 DEF Receives, Plus, File
<1> QED BY <1>2, <1>3, <1>4, <1>5 DEF Sized, InFull

\* An overwritten file has all of the upload, or the size it had.
LEMMA OverwroteSized ==
  ASSUME Straight, Sized, UNCHANGED opt, Overwrote
  PROVE  Sized'
<1> DEFINE id == call.id
           new == IF id \in DOMAIN server' THEN id ELSE next
<1>1. /\ call.step = "overwrite" /\ Serve /\ UNCHANGED before
      /\ call' = [call EXCEPT !.id = new, !.step = "license"]
  BY DEF Overwrote, Answered
<1>2. /\ Started /\ Located /\ call.op \in {"put", "update"} /\ call \in Calls /\ call.size \in Int
  BY <1>1, Footing DEF Started, Located, Straight, Flags, Fits, Calls
<1>3. id \in DOMAIN server /\ FiledAs(id, call.at)
  BY <1>1, OverwriteRenews
<1>4. PICK n \in {id, next}, s \in Int :
        /\ ReIded(server, id, server', n, s)
        /\ call.size < 0 \/ s = call.size \/ (s = server[id].size /\ 0 <= s /\ s < call.size)
  BY <1>1, OverwriteRenews
<1>5. n = new /\ server'[n].size = s
  <2>1. DOMAIN server' = (DOMAIN server \ {id}) \cup {n} /\ server'[n].size = s
    BY <1>4 DEF ReIded
  <2>2. next \notin DOMAIN server
    BY Footing
  <2> QED BY <1>3, <2>1, <2>2
<1>6. [at |-> call.at, dir |-> FALSE, size |-> server[id].size] \in Entries(before)
  <2>1. before = server
    BY <1>1, <1>2 DEF Sized
  <2>2. Paths(server)[id] = call.at /\ server[id].dir = FALSE
    <3>1. server[id] \in Nodes /\ ~server[id].dir
      BY <1>3, Footing DEF FiledAs, Forest
    <3> QED BY <1>2, <1>3, <3>1, LocatedTrail DEF Nodes
  <2> QED BY <1>3, <2>1, <2>2 DEF Entries
<1> HIDE DEF new, id
<1>7. call'.id = n /\ call'.step = "license" /\ call'.op = call.op /\ call'.size = call.size /\ call'.at = call.at
  BY <1>1, <1>2, <1>5 DEF Calls
<1>8. s = server[id].size /\ 0 <= s /\ s < call.size => MayCut
  BY <1>1, <1>2 DEF Sized, MayCut, id
<1>9. InFull(n)'
  <2>1. MayCut' = MayCut
    BY <1>7 DEF MayCut
  <2>2. before' = before
    BY <1>1
  <2> HIDE DEF MayCut
  <2> QED BY <1>4, <1>5, <1>6, <1>7, <1>8, <2>1, <2>2 DEF InFull
<1> QED BY <1>7, <1>9 DEF Sized

\* Every step keeps it.
LEMMA NextSized ==
  ASSUME Straight, Sized, Next
  PROVE  Sized'
<1>1. UNCHANGED opt /\ call \in Calls /\ call.f \in Fs /\ Fits(call.op, call.step)
  BY Footing DEF Next, Straight, Flags
<1>2. ASSUME NEW f \in Fs, NEW p \in Files(f), NewObject(f, p) PROVE Sized'
  BY <1>2 DEF NewObject, Done, Sized
<1>3. CASE Invoke
  BY <1>1, <1>3, InvokeSized
<1>4. CASE Ensure
  <2>1. call' = [call EXCEPT !.step = "begin"] /\ call.step = "ensure" /\ UNCHANGED <<server, held, before>>
    BY <1>4 DEF Ensure, Go, course, ghosts
  <2>2. call'.step = "begin" /\ call'.op = call.op /\ call'.id = call.id /\ call'.f = call.f
    BY <1>1, <2>1 DEF Calls
  <2> QED BY <1>1, <2>1, <2>2 DEF Sized
<1>5. ASSUME call'.step \in {"done", "parents", "look", "again", "rmdir", "unlink", "stat", "create", "mkdir",
                             "copy", "reparent", "cleanup", "rename"}
      PROVE  Sized'
  BY <1>5 DEF Sized
<1>6. ASSUME call'.op \notin {"put", "update"} PROVE Sized'
  BY <1>6 DEF Sized
<1>7. CASE EnsureFails \/ RequestFails \/ OtherClient
  <2>1. CASE OtherClient
    <3>1. Done /\ call' = call
      BY <2>1 DEF OtherClient, OtherUploads, OtherRemoves
    <3> QED BY <1>5, <3>1 DEF Done
  <2>2. CASE call.op \in {"put", "update"} /\ (EnsureFails \/ RequestFails)
    <3>1. CASE EnsureFails
      <4>1. Return("failed")
        BY <2>2, <3>1 DEF EnsureFails
      <4> QED BY <1>1, <1>5, <4>1 DEF Return, Calls
    <3>2. CASE RequestFails
      <4>1. call' = [call EXCEPT !.step = "done", !.result = "failed", !.id = None, !.new = None,
                                 !.made = FALSE, !.again = FALSE, !.dirty = FALSE,
                                 !.lost = call.lost \/ server' # server]
        BY <2>2, <3>2 DEF RequestFails
      <4> QED BY <1>1, <1>5, <4>1 DEF Calls
    <3> QED BY <2>2, <3>1, <3>2
  <2>3. CASE call.op \notin {"put", "update"} /\ (EnsureFails \/ RequestFails)
    <3>1. call'.op = call.op
      BY <1>1, <2>3 DEF EnsureFails, RequestFails, Return, Go, Calls
    <3> QED BY <1>6, <2>3, <3>1
  <2> QED BY <1>7, <2>1, <2>2, <2>3
<1>8. CASE BeginPut
  <2>1. /\ call.op = "put" /\ call.step = "begin" /\ UNCHANGED <<server, before>>
        /\ call'.op = "put" /\ call'.step \in {"overwrite", "parents"}
    BY <1>1, <1>8 DEF BeginPut, Pass, course, ghosts, Calls
  <2> QED BY <2>1 DEF Sized
<1>9. CASE BeginUpdate
  BY <1>1, <1>9, BeginUpdateSized
<1>10. CASE BeginMkdir \/ BeginRmdir \/ BeginRemove \/ BeginMove \/ BeginDirMove
            \/ DirMoveOntoItself \/ AlreadyThere
  <2>1. call.op \notin {"put", "update"}
    <3>1. CASE BeginMkdir \/ BeginRmdir \/ BeginRemove
      BY <3>1 DEF BeginMkdir, BeginRmdir, BeginRemove
    <3>2. CASE BeginMove \/ BeginDirMove \/ DirMoveOntoItself
      BY <3>2 DEF BeginMove, BeginDirMove, DirMoveOntoItself, OntoItself
    <3>3. CASE AlreadyThere
      BY <1>1, <3>3 DEF AlreadyThere, Fits
    <3> QED BY <1>10, <3>1, <3>2, <3>3
  <2>2. call'.op = call.op
    BY <1>1, <1>10 DEF BeginMkdir, BeginRmdir, BeginRemove, BeginMove, BeginDirMove, DirMoveOntoItself,
                       AlreadyThere, Pass, Stop, Return, Go, Calls
  <2> QED BY <1>6, <2>1, <2>2
<1>11. CASE MakeSegment \/ ParentsMade \/ MadeDir \/ RemovedDir \/ EnterFile \/ Licensed \/ Unlinked \/ Removed
  <2>1. call'.step \in {"done", "parents", "create", "unlink", "mkdir", "copy", "reparent"}
    <3>1. CASE MakeSegment \/ MadeDir \/ RemovedDir \/ EnterFile \/ Licensed \/ Unlinked \/ Removed
      BY <1>1, <3>1 DEF MakeSegment, MadeDir, RemovedDir, EnterFile, Licensed, Unlinked, Removed, Answered, Return, Calls
    <3>2. CASE ParentsMade
      <4>1. call.op \in {"put", "update", "mkdir", "move", "dirmove"}
        BY <1>1, <3>2 DEF ParentsMade, Fits
      <4>2. call'.step = AfterParents
        BY <1>1, <3>2 DEF ParentsMade, Calls
      <4> QED BY <4>1, <4>2 DEF AfterParents
    <3> QED BY <1>11, <3>1, <3>2
  <2> QED BY <1>5, <2>1
<1>12. CASE Seen \/ Copied \/ Moved \/ CleanedUp
  <2>1. call.op \notin {"put", "update"}
    BY <1>1, <1>12 DEF Seen, Copied, Moved, CleanedUp, Answered, Fits
  <2>2. call'.op = call.op
    BY <1>1, <1>12 DEF Seen, Copied, Moved, CleanedUp, Return, Go, Calls
  <2> QED BY <1>6, <2>1, <2>2
<1>13. CASE Created
  BY <1>1, <1>13, CreatedSized
<1>14. CASE Overwrote
  BY <1>1, <1>14, OverwroteSized
<1>15. CASE LicenseAgain
  <2>1. /\ call.step = "license" /\ Serve /\ before' = before
        /\ call'.step = "license" /\ call'.id = call.id /\ call'.op = call.op /\ call'.size = call.size
        /\ call'.at = call.at
    BY <1>1, <1>15 DEF LicenseAgain, Answered, Calls
  <2>2. server' = server
    BY <2>1, AsksOnly DEF course
  <2> QED BY <1>1, <2>1, <2>2 DEF Sized, InFull, MayCut
<1>16. CASE LookAgain
  <2>1. call'.step = "again"
    BY <1>1, <1>16 DEF LookAgain, Go, Calls
  <2> QED BY <1>5, <2>1
<1> QED BY <1>2, <1>3, <1>4, <1>7, <1>8, <1>9, <1>10, <1>11, <1>12, <1>13, <1>14, <1>15, <1>16 DEF Next, Handler

\* So it holds until a call is misled.
Weighed == Upright /\ (misled \/ Sized)

\* An upload that returns has left its file at its path, unless it was misled, with all
\* of its content; or, where the server cuts what is longer than the file it overwrites,
\* a Put with the size that the file had (fs.go:798-898, object.go:182-197).
THEOREM UploadsWholeHolds == Spec => UploadsWhole
<1>1. Init => Weighed
  <2>1. Init => call.step = "done"
    BY InitStraight
  <2>2. Init => Sized
    BY <2>1 DEF Sized
  <2> QED BY <2>2, InitStraight DEF Weighed, Upright
<1>2. Weighed /\ [Next]_vars => Weighed'
  <2> SUFFICES ASSUME Weighed, [Next]_vars PROVE Weighed'
    OBVIOUS
  <2>1. Upright'
    BY UprightStep DEF Weighed
  <2>2. CASE UNCHANGED vars
    BY <2>1, <2>2 DEF Weighed, Sized, InFull, MayCut, vars, course, ghosts
  <2>3. CASE Next /\ ~misled'
    <3>1. ~misled
      BY <2>3 DEF Next
    <3> QED BY <2>1, <2>3, <3>1, NextSized DEF Weighed, Upright
  <2> QED BY <2>1, <2>2, <2>3 DEF Weighed
<1>3. Weighed /\ [Next]_vars =>
        [call.op \in {"put", "update"} /\ ~Done /\ ~misled /\ call'.result = "ok" =>
           \E e \in Entries(server') :
             /\ e.at = call.at /\ ~e.dir
             /\ \/ call.size < 0 \/ e.size = call.size
                \/ /\ call.op = "put" \/ opt.stale
                   /\ e \in Entries(before) /\ e.size < call.size]_vars
  <2> SUFFICES ASSUME Weighed, Next, call.op \in {"put", "update"}, ~Done, ~misled, call'.result = "ok"
               PROVE  \E e \in Entries(server') :
                        /\ e.at = call.at /\ ~e.dir
                        /\ \/ call.size < 0 \/ e.size = call.size
                           \/ MayCut /\ e \in Entries(before) /\ e.size < call.size
    BY DEF MayCut
  <2>1. Straight /\ Sized
    BY DEF Weighed, Upright
  <2>2. call.step = "license" /\ Serve /\ Started
    BY <2>1, UploadEnds DEF Started
  <2>3. server' = server
    BY <2>1, <2>2, AsksOnly DEF course
  <2>4. call.id \in DOMAIN server
    BY <2>2, Exists
  <2>5. FiledAs(call.id, call.at) /\ InFull(call.id)
    BY <2>1, <2>2, <2>4 DEF Straight, Knows, Licensing, Sized
  <2>6. Paths(server)[call.id] = call.at
    BY <2>1, <2>2, <2>4, <2>5, UploadAt, FiledTrail
  <2>7. server[call.id].dir = FALSE
    <3>1. server[call.id] \in Nodes
      BY <2>1, <2>4, Footing DEF Forest
    <3> QED BY <2>5, <3>1 DEF FiledAs, Nodes
  <2> DEFINE e == [at |-> call.at, dir |-> FALSE, size |-> server[call.id].size]
  <2>8. e \in Entries(server')
    BY <2>3, <2>4, <2>6, <2>7 DEF Entries
  <2> QED BY <2>5, <2>8 DEF InFull
<1> QED BY <1>1, <1>2, <1>3, PTL DEF Spec, UploadsWhole

\* What was at the source of a move is on the course while the move runs and has not
\* lost an answer.
LEMMA SourceStays ==
  ASSUME Straight, call.op = "move", ~Done, ~call.lost, NEW u, Wood(u), NEW i \in DOMAIN before,
         NEW K, K \subseteq DOMAIN u, i \in K, K \subseteq DOMAIN server,
         \A j \in K : u[j] = server[j],
         \A j \in K : server[j].parent \in DOMAIN server => server[j].parent \in K
  PROVE  [at |-> Paths(before)[i], dir |-> before[i].dir, size |-> before[i].size] \in Entries(u)
<1>1. Wood(before) /\ Wood(server) /\ \A j \in DOMAIN before : j \in DOMAIN server /\ server[j] = before[j]
  BY Footing DEF Straight, Was
<1>2. Paths(server)[i] = Paths(before)[i]
  <2>1. DOMAIN before \in SUBSET (DOMAIN before \cap DOMAIN server)
    BY <1>1
  <2>2. \A j \in DOMAIN before : Paths(server)[j] = Paths(before)[j]
    BY <1>1, <2>1, TrailsKept
  <2> QED BY <2>2
<1>3. Paths(u)[i] = Paths(server)[i]
  <2>1. K \in SUBSET (DOMAIN server \cap DOMAIN u)
    OBVIOUS
  <2>2. \A j \in K : Paths(u)[j] = Paths(server)[j]
    BY <1>1, <2>1, TrailsKept
  <2> QED BY <2>2
<1>4. u[i] = before[i] /\ i \in DOMAIN u
  BY <1>1
<1> QED BY <1>2, <1>3, <1>4 DEF Entries

\* How a move ends.
LEMMA MoveEnds ==
  ASSUME Straight, Next, call.op = "move", ~Done, Done', ~call'.lost
  PROVE  /\ ~call.lost
         /\ \/ server' = server
            \/ /\ call.step \in {"rename", "unlink", "cleanup"} /\ Requesting /\ Serve
               /\ call.step = "rename" => call'.result = "ok"
<1>1. call \in Calls /\ Fits(call.op, call.step)
  BY Footing DEF Straight, Flags
<1>2. ASSUME NEW f \in Fs, NEW p \in Files(f), NewObject(f, p) PROVE FALSE
  BY <1>2 DEF NewObject
<1>3. CASE Invoke \/ OtherClient
  BY <1>3 DEF Invoke, OtherClient, OtherUploads, OtherRemoves
<1>4. CASE Ensure \/ LookAgain
  <2>1. \E s \in {"begin", "again"} : Go(s)
    BY <1>4 DEF Ensure, LookAgain
  <2>2. ASSUME NEW s \in {"begin", "again"}, Go(s) PROVE FALSE
    BY <1>1, <2>2 DEF Go, Calls, Done
  <2> QED BY <2>1, <2>2
<1>5. CASE EnsureFails
  <2>1. server' = server /\ Return("failed")
    BY <1>5 DEF EnsureFails, course
  <2> QED BY <1>1, <2>1 DEF Return, Calls
<1>6. CASE RequestFails
  <2>1. PICK l \in BOOLEAN : l = (call.lost \/ server' # server)
    BY <1>1 DEF Calls
  <2>2. \/ call' = [call EXCEPT !.step = "cleanup", !.lost = l]
        \/ call' = [call EXCEPT !.step = "done", !.result = "failed", !.id = None, !.new = None,
                                !.made = FALSE, !.again = FALSE, !.dirty = FALSE, !.lost = l]
    BY <1>6, <2>1 DEF RequestFails
  <2>3. call'.lost = l
    BY <1>1, <2>2 DEF Calls
  <2> QED BY <2>1, <2>3
<1>7. CASE BeginMove
  <2>1. Stop("failed") \/ Pass("stat", call.id, FALSE)
    BY <1>7 DEF BeginMove
  <2>2. CASE Pass("stat", call.id, FALSE)
    BY <1>1, <2>2 DEF Pass, Calls, Done
  <2>3. CASE Stop("failed")
    <3>1. server' = server /\ Return("failed")
      BY <2>3 DEF Stop, course
    <3> QED BY <1>1, <3>1 DEF Return, Calls
  <2> QED BY <2>1, <2>2, <2>3
<1>8. CASE BeginMkdir \/ BeginRmdir \/ BeginRemove \/ BeginDirMove \/ BeginPut \/ BeginUpdate
           \/ MadeDir \/ RemovedDir \/ Removed \/ Created \/ Overwrote \/ LicenseAgain
           \/ EnterFile \/ Licensed \/ Unlinked \/ DirMoveOntoItself \/ AlreadyThere
  BY <1>1, <1>8 DEF DirMoveOntoItself, OntoItself, AlreadyThere, BeginMkdir, BeginRmdir, BeginRemove, BeginDirMove, BeginPut, BeginUpdate,
                    MadeDir, RemovedDir, Removed, Created, Overwrote, LicenseAgain, EnterFile,
                    Licensed, Unlinked, Answered, Fits
<1>9. CASE MakeSegment \/ ParentsMade
  BY <1>1, <1>9 DEF MakeSegment, ParentsMade, Answered, Calls, Done, AfterParents
<1>10. CASE Copied
  BY <1>1, <1>10 DEF Copied, Calls, Done
<1>11. CASE Seen
  <2>1. server' = server /\ (Return("ok") \/ \E s \in {"rename", "parents"} : Go(s))
    BY <1>11, AsksOnly DEF Seen, Answered, course
  <2>2. ASSUME NEW s \in {"rename", "parents"}, Go(s) PROVE FALSE
    BY <1>1, <2>2 DEF Go, Calls, Done
  <2> QED BY <1>1, <2>1, <2>2 DEF Return, Calls
<1>12. CASE Moved \/ CleanedUp
  <2>1. /\ call.step \in {"rename", "reparent", "unlink", "cleanup"} /\ Requesting /\ Serve
        /\ Return("ok") \/ (call.step = "cleanup" /\ Return("failed"))
    BY <1>12 DEF Moved, CleanedUp, Answered
  <2>2. call.step # "reparent"
    BY <1>1 DEF Fits
  <2> QED BY <1>1, <2>1, <2>2 DEF Return, Calls
<1> QED BY <1>2, <1>3, <1>4, <1>5, <1>6, <1>7, <1>8, <1>9, <1>10, <1>11, <1>12 DEF Next, Handler

\* Wherever a move ends, what was at its source is there or at its goal.
LEMMA SourceKept ==
  ASSUME Straight, Straight' \/ server' = server, Next, call.op = "move", ~Done, Done', ~call'.lost,
         NEW i \in DOMAIN before, Paths(before)[i] = call.at
  PROVE  \/ [at |-> call.at, dir |-> before[i].dir, size |-> before[i].size] \in Entries(server')
         \/ [at |-> call.to, dir |-> before[i].dir, size |-> before[i].size] \in Entries(server')
<1>1. /\ ~call.lost /\ UNCHANGED opt
      /\ \/ server' = server
         \/ call.step \in {"rename", "unlink", "cleanup"} /\ Requesting /\ Serve
  BY MoveEnds DEF Next
<1>2. /\ Wood(server) /\ Forest(server) /\ i \in DOMAIN server /\ server[i] = before[i]
      /\ \A j \in DOMAIN before : j \in DOMAIN server
  BY <1>1, Footing DEF Straight, Was
<1>3. ASSUME NEW K, K \subseteq DOMAIN server', i \in K, K \subseteq DOMAIN server, Wood(server'),
             \A j \in K : server'[j] = server[j],
             \A j \in K : server[j].parent \in DOMAIN server => server[j].parent \in K
      PROVE  [at |-> call.at, dir |-> before[i].dir, size |-> before[i].size] \in Entries(server')
  <2>1. PICK u : u = server'
    OBVIOUS
  <2> QED BY <1>1, <1>3, <2>1, SourceStays
<1>4. CASE server' = server
  BY <1>2, <1>3, <1>4
\* Apart from a file, everything keeps its place.
<1>5. ASSUME NEW id, id # Top, id \in DOMAIN server => ~server[id].dir, i # id, Wood(server'),
             DOMAIN server \ {id} \subseteq DOMAIN server',
             \A j \in DOMAIN server \ {id} : server'[j] = server[j]
      PROVE  [at |-> call.at, dir |-> before[i].dir, size |-> before[i].size] \in Entries(server')
  <2> DEFINE K == DOMAIN server \ {id}
  <2>1. \A j \in K : server[j].parent \in DOMAIN server => server[j].parent \in K
    BY <1>2, <1>5, NothingIn
  <2>2. K \subseteq DOMAIN server' /\ i \in K /\ K \subseteq DOMAIN server /\ \A j \in K : server'[j] = server[j]
    BY <1>2, <1>5
  <2> HIDE DEF K
  <2> QED BY <1>3, <1>5, <2>1, <2>2
<1>6. CASE call.step = "cleanup" /\ Serve
  <2>1. Copying
    BY <1>6 DEF Straight, Flags, Fits, Knows, Moving
  <2>2. call.new # Top /\ (call.new \in DOMAIN server => ~server[call.new].dir) /\ i # call.new
    BY <2>1 DEF Copying, FiledAs, Top
  <2>3. server' \in DeleteFile(call.new)
    BY <1>6, Replies
  <2>4. PICK id : id = call.new
    OBVIOUS
  <2>5. DOMAIN server' = DOMAIN server \ {id} /\ (\A j \in DOMAIN server' : server'[j] = server[j]) /\ Grown'
    BY <1>1, <1>6, <2>2, <2>3, <2>4, FileGoes
  <2> QED BY <1>5, <2>2, <2>4, <2>5 DEF Grown
<1>7. CASE call.step = "unlink" /\ Serve
  <2>1. Copying /\ Started /\ Located
    BY <1>7 DEF Straight, Knows, Moving, Started, Located
  <2>2. call.id # Top /\ (call.id \in DOMAIN server => ~server[call.id].dir)
    BY <2>1, TheFile DEF FiledAs
  <2>3. server' \in DeleteFile(call.id)
    BY <1>7, Replies
  <2>4. PICK id : id = call.id
    OBVIOUS
  <2>5. DOMAIN server' = DOMAIN server \ {id} /\ (\A j \in DOMAIN server' : server'[j] = server[j]) /\ Grown'
    BY <1>1, <1>7, <2>2, <2>3, <2>4, FileGoes
  <2>6. CASE i # id
    BY <1>5, <2>2, <2>4, <2>5, <2>6 DEF Grown
  <2>7. CASE i = id
    <3>1. PICK new : new = call.new
      OBVIOUS
    <3>2. new \in DOMAIN server /\ FiledAs(new, call.to) /\ server[new].size = server[id].size /\ new # id
          /\ ~server[id].dir
      BY <1>7, <2>1, <2>2, <2>4, <2>7, <3>1 DEF Copying
    <3>3. call.to \in Names /\ call.to # <<>>
      BY Footing, GoalNames DEF Straight, Goal
    <3>4. Paths(server)[new] = call.to
      BY <2>1, <3>2, <3>3, FiledTrail
    <3>5. Paths(server')[new] = Paths(server)[new]
      <4> DEFINE K == DOMAIN server \ {id}
      <4>1. \A j \in K : server[j].parent \in DOMAIN server => server[j].parent \in K
        BY <1>2, <2>2, <2>4, NothingIn
      <4>2. K \in SUBSET (DOMAIN server \cap DOMAIN server') /\ new \in K /\ \A j \in K : server'[j] = server[j]
        BY <2>5, <3>2
      <4> HIDE DEF K
      <4>3. \A j \in K : Paths(server')[j] = Paths(server)[j]
        BY <1>2, <2>5, <4>1, <4>2, TrailsKept DEF Grown
      <4> QED BY <4>2, <4>3
    <3>6. new \in DOMAIN server' /\ server'[new] = server[new]
      BY <2>5, <3>2
    <3>7. server[new].dir = server[id].dir
      <4>1. server[new] \in Nodes /\ server[id] \in Nodes
        BY <1>2, <2>7, <3>2 DEF Forest
      <4> QED BY <3>2, <4>1 DEF FiledAs, Nodes
    <3>8. [at |-> Paths(server')[new], dir |-> server'[new].dir, size |-> server'[new].size] \in Entries(server')
      BY <3>6 DEF Entries
    <3> QED BY <1>2, <2>7, <3>2, <3>4, <3>5, <3>6, <3>7, <3>8
  <2> QED BY <2>6, <2>7
<1>8. CASE call.step = "rename" /\ Serve /\ server' # server
  <2>1. Started /\ Located /\ Front(call.at) = Front(call.to) /\ call.id \in DOMAIN server
    BY <1>8, Exists DEF Started, Located, Straight, Knows
  <2>2. call.id # Top /\ ~server[call.id].dir /\ FiledAs(call.id, call.at) /\ call.at # <<>> /\ call.at \in Names
    BY <2>1, TheFile DEF FiledAs
  <2>3. server' = [server EXCEPT ![call.id].name = Last(call.to)]
    BY <1>8, Replies DEF UpdateFileRef
  <2>4. PICK id : id = call.id
    OBVIOUS
  <2>5. /\ DOMAIN server' = DOMAIN server /\ (\A j \in DOMAIN server : j # id => server'[j] = server[j])
        /\ server'[id].name = Last(call.to) /\ server'[id].parent = server[id].parent
        /\ server'[id].dir = server[id].dir /\ server'[id].size = server[id].size
    BY <1>2, <2>1, <2>3, <2>4 DEF Forest, Nodes
  <2>6. Wood(server')
    BY <1>8 DEF Straight, Grown
  <2>7. CASE i # id
    BY <1>5, <2>2, <2>4, <2>5, <2>6, <2>7
  <2>8. CASE i = id
    <3>1. call.to \in Names /\ call.to # <<>>
      BY Footing, GoalNames DEF Straight, Goal
    <3> DEFINE up == server[id].parent
    <3>2. Paths(server)[id] = call.at
      BY <2>1, <2>4, LocatedTrail
    <3>3. /\ up \in DOMAIN server => Front(call.at) = Paths(server)[up]
          /\ up \notin DOMAIN server => Front(call.at) = <<>>
      BY <1>2, <2>1, <2>4, <3>2, TrailIs
    <3>4. up # id
      <4>1. IsDir(server, up)
        BY <1>2, <2>1, <2>4 DEF Forest
      <4> QED BY <2>2, <2>4, <4>1 DEF IsDir
    <3>5. up \in DOMAIN server => Paths(server')[up] = Paths(server)[up]
      <4> DEFINE K == DOMAIN server \ {id}
      <4>1. \A j \in K : server[j].parent \in DOMAIN server => server[j].parent \in K
        BY <1>2, <2>2, <2>4, NothingIn
      <4>2. K \in SUBSET (DOMAIN server \cap DOMAIN server') /\ \A j \in K : server'[j] = server[j]
        BY <2>5
      <4>3. up \in DOMAIN server => up \in K
        BY <3>4
      <4> HIDE DEF K
      <4>4. \A j \in K : Paths(server')[j] = Paths(server)[j]
        BY <1>2, <2>6, <4>1, <4>2, TrailsKept
      <4> QED BY <4>3, <4>4
    <3>6. server'[id].parent = up
      BY <2>5
    <3> HIDE DEF up
    <3>7. Paths(server')[id] = call.to
      BY <2>1, <2>4, <2>5, <2>6, <3>1, <3>3, <3>5, <3>6, TrailOf
    <3>8. [at |-> Paths(server')[id], dir |-> server'[id].dir, size |-> server'[id].size] \in Entries(server')
      BY <2>1, <2>4, <2>5 DEF Entries
    <3> QED BY <1>2, <2>5, <2>8, <3>7, <3>8
  <2> QED BY <2>7, <2>8
<1> QED BY <1>1, <1>4, <1>6, <1>7, <1>8

\* A move that returns has left the file where it was or where it should go, unless
\* it was misled or the server did what it failed to confirm (fs.go:1581-1604).
THEOREM MoveKeepsFileHolds == Spec => MoveKeepsFile
<1>1. Init => Upright
  BY InitStraight DEF Upright
<1>2. Upright /\ [Next]_vars => Upright'
  BY UprightStep
<1>3. Upright /\ Upright' /\ [Next]_vars =>
        [call.op = "move" /\ ~Done /\ Done' /\ ~misled /\ ~call'.lost =>
           \A e \in Entries(before) : e.at = call.at =>
             e \in Entries(server') \/ [e EXCEPT !.at = call.to] \in Entries(server')]_vars
  <2> SUFFICES ASSUME Upright, Upright', Next, call.op = "move", ~Done, Done', ~misled, ~call'.lost,
                      NEW e \in Entries(before), e.at = call.at
               PROVE  e \in Entries(server') \/ [e EXCEPT !.at = call.to] \in Entries(server')
    OBVIOUS
  <2>1. Straight
    BY DEF Upright
  <2>2. Straight' \/ server' = server
    <3>1. CASE misled'
      <4>1. Misleads
        BY <3>1 DEF Next
      <4>2. call.step \in {"ensure", "begin"} \/ (call.step \in {"rename", "reparent"} /\ call'.result = "failed"
                                                   /\ server' # server)
        BY <4>1 DEF Misleads
      <4> QED BY <2>1, <4>2, MoveEnds
    <3>2. CASE ~misled'
      BY <3>2 DEF Upright
    <3> QED BY <3>1, <3>2
  <2>3. PICK i \in DOMAIN before :
          e = [at |-> Paths(before)[i], dir |-> before[i].dir, size |-> before[i].size]
    BY DEF Entries
  <2>4. Paths(before)[i] = call.at
    BY <2>3
  <2>5. \/ [at |-> call.at, dir |-> before[i].dir, size |-> before[i].size] \in Entries(server')
        \/ [at |-> call.to, dir |-> before[i].dir, size |-> before[i].size] \in Entries(server')
    BY <2>1, <2>2, <2>4, SourceKept
  <2>6. [e EXCEPT !.at = call.to] = [at |-> call.to, dir |-> before[i].dir, size |-> before[i].size]
    BY <2>3
  <2> QED BY <2>3, <2>4, <2>5, <2>6
<1> QED BY <1>1, <1>2, <1>3, PTL DEF Spec, MoveKeepsFile
=============================================================================

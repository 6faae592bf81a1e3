--------------------------- MODULE StudIPFsProofs ---------------------------
(***************************************************************************)
(* What the calls of StudIPFs keep, whatever the instances and their       *)
(* roots, the courses, the paths and sizes rclone asks for and the         *)
(* failures: a tree that counts as current is the course, no folder has    *)
(* two children of a name, every instance has its root, and every call     *)
(* does what FileSystem promises.  All of it until the course changes      *)
(* behind the trees; StudIPFsFaults says what holds afterwards.            *)
(*                                                                         *)
(* The first part is about trees and paths: what the operators of          *)
(* CourseTree do to where a path leads. The second says, step by step, how *)
(* far the course is ahead of the tree of the instance that is called; the *)
(* third maps the course to the entries of FileSystem.                     *)
(***************************************************************************)
EXTENDS StudIPFs, FiniteSetTheorems, WellFoundedInduction, SequenceTheorems, TLAPS

-----------------------------------------------------------------------------
(* Natural numbers, finite sets and the fold that GetNodeAtPath is. *)

\* What a path is a sequence of.
Names == Seq(STRING)

\* A set of numbers has a least.
LEMMA NatMin ==
  ASSUME NEW T \in SUBSET Nat, T # {}
  PROVE  \E x \in T : \A y \in T : x <= y
<1> DEFINE R == {ss \in Nat \X Nat : ss[1] < ss[2]}
<1>1. IsWellFoundedOn(R, Nat)
  BY NatLessThanWellFounded DEF OpToRel
<1>2. \E x \in T : \A y \in T : <<y, x>> \notin R
  <2> HIDE DEF R
  <2> QED BY <1>1, WFMin
<1>3. \A x, y \in Nat : y < x => <<y, x>> \in R
  OBVIOUS
<1>4. \A x, y \in Nat : y < x \/ x <= y
  OBVIOUS
<1> HIDE DEF R
<1> QED BY <1>2, <1>3, <1>4

\* A set of numbers with 0 and every successor has all.
LEMMA NatInd ==
  ASSUME NEW S \in SUBSET Nat, 0 \in S, \A n \in S : n + 1 \in S
  PROVE  S = Nat
<1> SUFFICES ASSUME Nat \ S # {} PROVE FALSE
  OBVIOUS
<1>1. PICK x \in Nat \ S : \A y \in Nat \ S : x <= y
  BY NatMin
<1>2. x # 0 /\ x - 1 \in Nat /\ ~(x <= x - 1)
  BY <1>1
<1>3. x - 1 \in S
  BY <1>1, <1>2
<1>4. (x - 1) + 1 = x
  BY <1>1
<1> QED BY <1>1, <1>3, <1>4

\* The least of a set of numbers.
LEMMA MinIs ==
  ASSUME NEW T \in SUBSET Nat, T # {}
  PROVE  /\ Min(T) \in T
         /\ \A y \in T : Min(T) <= y
BY NatMin DEF Min

\* The greatest of a bounded set.
LEMMA MaxIs ==
  ASSUME NEW b \in Nat, NEW T \in SUBSET (0..b), T # {}
  PROVE  /\ Max(T) \in T
         /\ \A y \in T : y <= Max(T)
<1> DEFINE U == {b - x : x \in T}
<1>1. U \in SUBSET Nat /\ U # {}
  <2>1. \A x \in T : b - x \in Nat
    OBVIOUS
  <2> QED BY <2>1
<1>2. PICK u \in U : \A v \in U : u <= v
  BY <1>1, NatMin
<1>3. PICK x \in T : u = b - x
  BY <1>2
<1>4. \A y \in T : x >= y
  <2> TAKE y \in T
  <2>1. b - x <= b - y
    BY <1>2, <1>3
  <2> QED BY <2>1
<1>5. \E z \in T : \A y \in T : z >= y
  BY <1>4
<1>6. Max(T) \in T /\ \A y \in T : Max(T) >= y
  BY <1>5 DEF Max
<1> QED BY <1>6

-----------------------------------------------------------------------------
(* A path is resolved name by name. *)

\* The fold as a function of sets of places: one round of its recursion.
Round(t, r, p, it) ==
  [s \in SUBSET DOMAIN p |-> IF s = {} THEN r ELSE Child(t, it[s \ {Max(s)}], p[Max(s)])]
Walk(t, r, p) == CHOOSE it : it = Round(t, r, p, it)

\* GetNodeAtPath is that function at the set of all places of the path.
LEMMA WalkIs ==
  ASSUME NEW t, NEW r, NEW p
  PROVE  GetNodeAtPath(t, r, p) = Walk(t, r, p)[DOMAIN p]
BY DEF GetNodeAtPath, FoldLeft, MapThenFoldSet, Walk, Round

\* A set of places is finite, and smaller without its greatest.
LEMMA Places ==
  ASSUME NEW p \in Names, NEW s \in SUBSET DOMAIN p
  PROVE  /\ IsFiniteSet(s) /\ Cardinality(s) \in Nat
         /\ Cardinality(s) = 0 <=> s = {}
         /\ s # {} => /\ Max(s) \in s /\ s \ {Max(s)} \in SUBSET DOMAIN p
                      /\ Cardinality(s \ {Max(s)}) = Cardinality(s) - 1
<1>1. DOMAIN p = 1..Len(p) /\ Len(p) \in Nat
  BY DEF Names
<1>2. IsFiniteSet(s)
  <2>1. IsFiniteSet(1..Len(p))
    BY <1>1, FS_Interval
  <2> QED BY <1>1, <2>1, FS_Subset
<1>3. Cardinality(s) \in Nat /\ (Cardinality(s) = 0 <=> s = {})
  BY <1>2, FS_EmptySet, FS_CardinalityType
<1>4. s # {} => Max(s) \in s
  <2>1. s \in SUBSET (0..Len(p))
    BY <1>1
  <2> QED BY <1>1, <2>1, MaxIs
<1>5. s # {} => Cardinality(s \ {Max(s)}) = Cardinality(s) - 1
  BY <1>2, <1>4, FS_RemoveElement
<1> QED BY <1>2, <1>3, <1>4, <1>5

\* One round, without and with places left.
LEMMA RoundIs ==
  ASSUME NEW t, NEW r, NEW p, NEW it, NEW s \in SUBSET DOMAIN p
  PROVE  /\ s = {} => Round(t, r, p, it)[s] = r
         /\ s # {} => Round(t, r, p, it)[s] = Child(t, it[s \ {Max(s)}], p[Max(s)])
BY DEF Round

\* The recursion has a fixed point, as long as paths are finite.
LEMMA WalkExists ==
  ASSUME NEW t, NEW r, NEW p \in Names
  PROVE  Walk(t, r, p) = Round(t, r, p, Walk(t, r, p))
<1> DEFINE Fits(it, n) ==
             /\ it = [s \in SUBSET DOMAIN p |-> it[s]]
             /\ \A s \in SUBSET DOMAIN p : Cardinality(s) <= n => it[s] = Round(t, r, p, it)[s]
           S == {n \in Nat : \E it : Fits(it, n)}
<1>1. 0 \in S
  <2> DEFINE z == [s \in SUBSET DOMAIN p |-> r]
  <2>1. \A s \in SUBSET DOMAIN p : Cardinality(s) <= 0 => s = {}
    <3> TAKE s \in SUBSET DOMAIN p
    <3>1. Cardinality(s) \in Nat /\ (Cardinality(s) = 0 <=> s = {})
      BY Places
    <3> QED BY <3>1
  <2>2. Round(t, r, p, z)[{}] = r
    <3>1. {} \in SUBSET DOMAIN p
      OBVIOUS
    <3> HIDE DEF z
    <3> QED BY <3>1 DEF Round
  <2>3. z = [s \in SUBSET DOMAIN p |-> z[s]] /\ z[{}] = r
    OBVIOUS
  <2> HIDE DEF z
  <2>4. Fits(z, 0)
    BY <2>1, <2>2, <2>3
  <2> QED BY <2>4
<1>2. ASSUME NEW n \in S PROVE n + 1 \in S
  <2>1. PICK it : Fits(it, n)
    OBVIOUS
  <2> DEFINE up == Round(t, r, p, it)
  <2>2. up = [s \in SUBSET DOMAIN p |-> up[s]]
    BY DEF Round
  <2>3. ASSUME NEW s \in SUBSET DOMAIN p, Cardinality(s) <= n + 1
        PROVE  up[s] = Round(t, r, p, up)[s]
    <3>1. CASE s = {}
      <4>1. {} \in SUBSET DOMAIN p
        OBVIOUS
      <4> QED BY <3>1, <4>1 DEF Round
    <3>2. CASE s # {}
      <4>0. s \ {Max(s)} \in SUBSET DOMAIN p /\ Cardinality(s \ {Max(s)}) = Cardinality(s) - 1
            /\ Cardinality(s) \in Nat
        BY <3>2, Places
      <4>1. Cardinality(s \ {Max(s)}) <= n
        BY <2>3, <4>0
      <4>2. it[s \ {Max(s)}] = up[s \ {Max(s)}]
        BY <2>1, <4>0, <4>1
      <4> HIDE DEF up
      <4>3. Round(t, r, p, it)[s] = Child(t, it[s \ {Max(s)}], p[Max(s)])
        BY <3>2 DEF Round
      <4>4. Round(t, r, p, up)[s] = Child(t, up[s \ {Max(s)}], p[Max(s)])
        BY <3>2 DEF Round
      <4> QED BY <4>2, <4>3, <4>4 DEF up
    <3> QED BY <3>1, <3>2
  <2> HIDE DEF up
  <2>4. Fits(up, n + 1)
    BY <2>2, <2>3
  <2>5. n + 1 \in Nat
    OBVIOUS
  <2> HIDE DEF Fits
  <2> QED BY <2>4, <2>5
<1>3. S = Nat
  <2> HIDE DEF S
  <2>1. S \in SUBSET Nat
    BY DEF S
  <2> QED BY <1>1, <1>2, <2>1, NatInd
<1>4. PICK it : Fits(it, Cardinality(DOMAIN p))
  <2>1. Cardinality(DOMAIN p) \in Nat
    BY Places
  <2> QED BY <1>3, <2>1
<1>5. \A s \in SUBSET DOMAIN p : it[s] = Round(t, r, p, it)[s]
  <2> TAKE s \in SUBSET DOMAIN p
  <2>1. IsFiniteSet(DOMAIN p) /\ Cardinality(s) <= Cardinality(DOMAIN p)
    BY Places, FS_Subset
  <2> QED BY <1>4, <2>1
<1>6. it = Round(t, r, p, it)
  <2>1. Round(t, r, p, it) = [s \in SUBSET DOMAIN p |-> Round(t, r, p, it)[s]]
    BY DEF Round
  <2> QED BY <1>4, <1>5, <2>1
<1> HIDE DEF Fits, S
<1> QED BY <1>6 DEF Walk

-----------------------------------------------------------------------------
(* A path is resolved name by name. *)

\* The places up to n have n as their last.
LEMMA MaxOfInterval ==
  ASSUME NEW n \in Nat \ {0}
  PROVE  Max(1..n) = n /\ (1..n) \ {n} = 1..(n - 1) /\ 1..n # {}
<1>1. 1..n \in SUBSET (0..n) /\ n \in 1..n
  OBVIOUS
<1>2. Max(1..n) \in 1..n /\ \A y \in 1..n : y <= Max(1..n)
  BY <1>1, MaxIs
<1>3. Max(1..n) = n
  BY <1>1, <1>2
<1> QED BY <1>1, <1>3

\* The walk through n names goes on from that through n - 1.
LEMMA WalkStep ==
  ASSUME NEW t, NEW r, NEW p \in Names, NEW n \in 1..Len(p)
  PROVE  Walk(t, r, p)[1..n] = Child(t, Walk(t, r, p)[1..(n - 1)], p[n])
<1> DEFINE s == 1..n
           w == Walk(t, r, p)
<1>1. w = Round(t, r, p, w)
  BY WalkExists
<1>2. s \in SUBSET DOMAIN p /\ s # {} /\ Max(s) = n /\ s \ {n} = 1..(n - 1)
  <2>1. DOMAIN p = 1..Len(p) /\ Len(p) \in Nat /\ n \in Nat \ {0}
    BY DEF Names
  <2>2. 1..n \in SUBSET DOMAIN p
    BY <2>1
  <2> QED BY <2>1, <2>2, MaxOfInterval
<1> HIDE DEF w, s
<1>3. Round(t, r, p, w)[s] = Child(t, w[s \ {Max(s)}], p[Max(s)])
  BY <1>2 DEF Round
<1>4. w[s] = Child(t, w[1..(n - 1)], p[n])
  BY <1>1, <1>2, <1>3
<1> QED BY <1>4 DEF w, s

\* The walk through no names stays where it starts.
LEMMA WalkStart ==
  ASSUME NEW t, NEW r, NEW p \in Names
  PROVE  Walk(t, r, p)[{}] = r
<1>1. {} \in SUBSET DOMAIN p
  OBVIOUS
<1>2. Round(t, r, p, Walk(t, r, p))[{}] = r
  BY <1>1 DEF Round
<1>3. Walk(t, r, p) = Round(t, r, p, Walk(t, r, p))
  BY WalkExists
<1> QED BY <1>2, <1>3

\* A path is its front and its last name.
LEMMA FrontIs ==
  ASSUME NEW p \in Names, p # <<>>
  PROVE  /\ Front(p) \in Names /\ Len(Front(p)) = Len(p) - 1
         /\ \A k \in 1..(Len(p) - 1) : Front(p)[k] = p[k]
         /\ Last(p) = p[Len(p)] /\ Last(p) \in STRING
         /\ Len(p) \in Nat \ {0}
<1>1. Len(p) \in Nat \ {0}
  BY DEF Names
<1>2. Front(p) \in Names /\ Len(Front(p)) = Len(p) - 1
  <2>1. PICK m \in Nat : Len(p) = m + 1
    <3>1. Len(p) - 1 \in Nat /\ Len(p) = (Len(p) - 1) + 1
      BY <1>1
    <3> QED BY <3>1
  <2>2. Len(p) - 1 = m
    BY <2>1
  <2>3. CASE m = 0
    <3>1. SubSeq(p, 1, 0) = <<>>
      BY SubSeqEmpty DEF Names
    <3>2. <<>> \in Names /\ Len(<<>>) = 0
      BY EmptySeq DEF Names
    <3> QED BY <2>2, <2>3, <3>1, <3>2 DEF Front
  <2>4. CASE m # 0
    <3>1. m \in 1..Len(p)
      BY <2>1, <2>4
    <3>2. SubSeq(p, 1, m) \in Names /\ Len(SubSeq(p, 1, m)) = m
      BY <3>1 DEF Names
    <3> QED BY <2>2, <3>2 DEF Front
  <2> QED BY <2>3, <2>4
<1>3. \A k \in 1..(Len(p) - 1) : Front(p)[k] = p[k]
  BY <1>1 DEF Names, Front
<1>4. Last(p) = p[Len(p)] /\ Last(p) \in STRING
  BY <1>1 DEF Names, Last
<1> QED BY <1>1, <1>2, <1>3, <1>4

\* The empty path leads to its start.
LEMMA PathStart ==
  ASSUME NEW t, NEW r
  PROVE  GetNodeAtPath(t, r, <<>>) = r
<1>1. <<>> \in Names /\ DOMAIN <<>> = {}
  BY DEF Names
<1> QED BY <1>1, WalkIs, WalkStart

\* A path leads to the child, of the node its front leads to, of its last name.
LEMMA PathStep ==
  ASSUME NEW t, NEW r, NEW p \in Names, p # <<>>
  PROVE  GetNodeAtPath(t, r, p) = Child(t, GetNodeAtPath(t, r, Front(p)), Last(p))
<1> DEFINE q == Front(p)
           w == Walk(t, r, p)
           v == Walk(t, r, q)
           S == {n \in Nat : n <= Len(q) => v[1..n] = w[1..n]}
<1>1. /\ q \in Names /\ Len(q) = Len(p) - 1 /\ Len(p) \in Nat \ {0} /\ Last(p) = p[Len(p)]
      /\ \A k \in 1..(Len(p) - 1) : q[k] = p[k]
  BY FrontIs
<1>2. \A n \in 1..Len(q) : v[1..n] = Child(t, v[1..(n - 1)], q[n])
  BY <1>1, WalkStep
<1>3. \A n \in 1..Len(p) : w[1..n] = Child(t, w[1..(n - 1)], p[n])
  BY WalkStep
<1>4. v[{}] = r /\ w[{}] = r
  BY <1>1, WalkStart
<1> HIDE DEF q, v, w
<1>5. 0 \in S
  <2>1. 1..0 = {}
    OBVIOUS
  <2> QED BY <1>4, <2>1
<1>6. ASSUME NEW n \in S PROVE n + 1 \in S
  <2> SUFFICES ASSUME n + 1 <= Len(q) PROVE v[1..(n + 1)] = w[1..(n + 1)]
    OBVIOUS
  <2>1. n + 1 \in 1..Len(q) /\ n + 1 \in 1..Len(p) /\ (n + 1) - 1 = n /\ n <= Len(q)
    BY <1>1
  <2>2. v[1..n] = w[1..n] /\ q[n + 1] = p[n + 1]
    BY <1>1, <2>1
  <2>3. v[1..(n + 1)] = Child(t, v[1..n], q[n + 1])
    BY <1>2, <2>1
  <2>4. w[1..(n + 1)] = Child(t, w[1..n], p[n + 1])
    BY <1>3, <2>1
  <2> QED BY <2>2, <2>3, <2>4
<1>7. S = Nat
  <2> HIDE DEF S
  <2>1. S \in SUBSET Nat
    BY DEF S
  <2> QED BY <1>5, <1>6, <2>1, NatInd
<1>8. Len(q) \in Nat /\ v[1..Len(q)] = w[1..Len(q)]
  BY <1>1, <1>7
<1>9. DOMAIN q = 1..Len(q) /\ DOMAIN p = 1..Len(p) /\ Len(p) \in 1..Len(p)
  BY <1>1 DEF Names
<1>10. w[DOMAIN p] = Child(t, v[DOMAIN q], Last(p))
  BY <1>1, <1>3, <1>8, <1>9
<1> QED BY <1>10, WalkIs DEF q, v, w

\* A path may be resolved in two parts.
LEMMA PathJoined ==
  ASSUME NEW t, NEW r, NEW a \in Names, NEW b \in Names
  PROVE  GetNodeAtPath(t, GetNodeAtPath(t, r, a), b) = GetNodeAtPath(t, r, a \o b)
<1> DEFINE at(n) == SubSeq(b, 1, n)
           S == {n \in Nat : n <= Len(b) =>
                   GetNodeAtPath(t, GetNodeAtPath(t, r, a), at(n)) = GetNodeAtPath(t, r, a \o at(n))}
<1>1. 0 \in S
  <2>1. at(0) = <<>> /\ a \o <<>> = a
    BY DEF Names
  <2> HIDE DEF at
  <2> QED BY <2>1, PathStart
<1>2. ASSUME NEW n \in S PROVE n + 1 \in S
  <2> SUFFICES ASSUME n + 1 <= Len(b)
               PROVE  GetNodeAtPath(t, GetNodeAtPath(t, r, a), at(n + 1))
                        = GetNodeAtPath(t, r, a \o at(n + 1))
    OBVIOUS
  <2>0. n \in Nat /\ n + 1 \in 1..Len(b) /\ Len(b) \in Nat
    BY DEF Names
  <2>1. /\ at(n + 1) \in Names /\ Len(at(n + 1)) = n + 1
        /\ Front(at(n + 1)) = at(n) /\ Last(at(n + 1)) = b[n + 1]
    BY <2>0 DEF Names, Front, Last
  <2>2. /\ a \o at(n + 1) \in Names /\ Len(a \o at(n + 1)) = Len(a) + n + 1
        /\ Front(a \o at(n + 1)) = a \o at(n) /\ Last(a \o at(n + 1)) = b[n + 1]
    <3> DEFINE c == a \o at(n + 1)
    <3>1. c \in Names /\ Len(c) = Len(a) + n + 1 /\ Len(a) \in Nat
      BY <2>0 DEF Names
    <3>2. Last(c) = b[n + 1]
      BY <2>0, <3>1 DEF Names, Last
    <3>3. a \o at(n) \in Names /\ Len(a \o at(n)) = Len(a) + n
      BY <2>0 DEF Names
    <3>4. Front(c) \in Names /\ Len(Front(c)) = Len(a) + n
      BY <2>0, <3>1 DEF Names, Front
    <3>5. ASSUME NEW k \in 1..(Len(a) + n) PROVE Front(c)[k] = (a \o at(n))[k]
      BY <2>0, <3>1 DEF Names, Front
    <3> HIDE DEF c, at
    <3>6. Front(c) = a \o at(n)
      BY <3>3, <3>4, <3>5, SeqEqual DEF Names
    <3> QED BY <3>1, <3>2, <3>6 DEF c
  <2>3. at(n + 1) # <<>> /\ a \o at(n + 1) # <<>>
    <3>1. Len(a) + n + 1 # 0 /\ n + 1 # 0
      BY <2>0 DEF Names
    <3> HIDE DEF at
    <3> QED BY <3>1, <2>1, <2>2
  <2>4. GetNodeAtPath(t, GetNodeAtPath(t, r, a), at(n)) = GetNodeAtPath(t, r, a \o at(n))
    BY <2>0
  <2> HIDE DEF at
  <2>5. GetNodeAtPath(t, GetNodeAtPath(t, r, a), at(n + 1))
          = Child(t, GetNodeAtPath(t, GetNodeAtPath(t, r, a), at(n)), b[n + 1])
    BY <2>1, <2>3, PathStep
  <2>6. GetNodeAtPath(t, r, a \o at(n + 1)) = Child(t, GetNodeAtPath(t, r, a \o at(n)), b[n + 1])
    BY <2>2, <2>3, PathStep
  <2> QED BY <2>4, <2>5, <2>6
<1>3. S = Nat
  <2> HIDE DEF S
  <2>1. S \in SUBSET Nat
    BY DEF S
  <2> QED BY <1>1, <1>2, <2>1, NatInd
<1>4. Len(b) \in Nat /\ at(Len(b)) = b
  BY DEF Names
<1>5. Len(b) \in S
  BY <1>3, <1>4
<1>6. GetNodeAtPath(t, GetNodeAtPath(t, r, a), at(Len(b))) = GetNodeAtPath(t, r, a \o at(Len(b)))
  BY <1>4, <1>5
<1> HIDE DEF at
<1> QED BY <1>4, <1>6

-----------------------------------------------------------------------------
(* Courses, prefixes of paths, and where a path leads in a course. *)

\* A depth for every node, which parents have less of.
Ranks(t, depth) ==
  /\ depth \in [DOMAIN t -> Nat]
  /\ \A i \in DOMAIN t : t[i].parent \in DOMAIN t => depth[t[i].parent] < depth[i]

\* A course: its nodes are in folders, are alone with their names there, and are
\* some way below the top.
Course(t) ==
  /\ t \in [DOMAIN t -> Nodes] /\ DOMAIN t \subseteq Nat \ {0}
  /\ \A i \in DOMAIN t : IsDir(t, t[i].parent)
  /\ \A i, j \in DOMAIN t : t[i].parent = t[j].parent /\ t[i].name = t[j].name => i = j
  /\ \E depth : Ranks(t, depth)

\* Where a path from the top leads.
At(t, p) == GetNodeAtPath(t, Top, p)

-----------------------------------------------------------------------------
\* A set of paths with the empty one and every continuation has all.
LEMMA PathInd ==
  ASSUME NEW Q \in SUBSET Names, <<>> \in Q,
         \A p \in Names : p # <<>> /\ Front(p) \in Q => p \in Q
  PROVE  Q = Names
<1> DEFINE S == {n \in Nat : \A p \in Names : Len(p) = n => p \in Q}
<1>1. \A p \in Names : p # <<>> => /\ Front(p) \in Names /\ Len(Front(p)) = Len(p) - 1
                                   /\ Len(p) \in Nat \ {0}
  BY FrontIs
<1>2. 0 \in S
  <2>1. \A p \in Names : p # <<>> => Len(p) # 0
    BY <1>1
  <2> QED BY <2>1
<1>3. ASSUME NEW n \in S PROVE n + 1 \in S
  <2> SUFFICES ASSUME NEW p \in Names, Len(p) = n + 1 PROVE p \in Q
    OBVIOUS
  <2>1. p # <<>>
    <3>1. Len(<<>>) = 0 /\ n + 1 # 0
      OBVIOUS
    <3> QED BY <3>1
  <2>2. Front(p) \in Names /\ Len(Front(p)) = n
    BY <1>1, <2>1
  <2> QED BY <2>1, <2>2
<1>4. S = Nat
  <2> HIDE DEF S
  <2>1. S \in SUBSET Nat
    BY DEF S
  <2> QED BY <1>2, <1>3, <2>1, NatInd
<1>5. \A p \in Names : Len(p) \in Nat
  BY DEF Names
<1> QED BY <1>4, <1>5

\* Paths with one front and one last name are one.
LEMMA FrontLast ==
  ASSUME NEW p \in Names, NEW q \in Names, p # <<>>, q # <<>>,
         Front(p) = Front(q), Last(p) = Last(q)
  PROVE  p = q
<1>1. Len(p) = Len(q) /\ Len(p) \in Nat \ {0}
  BY FrontIs
<1>2. \A k \in 1..(Len(p) - 1) : p[k] = q[k]
  BY <1>1, FrontIs
<1>3. p[Len(p)] = q[Len(q)]
  BY FrontIs
<1>4. \A k \in 1..Len(p) : p[k] = q[k]
  BY <1>1, <1>2, <1>3
<1> QED BY <1>1, <1>4, SeqEqual DEF Names

\* IsPrefix, place by place.
LEMMA PrefixIs ==
  ASSUME NEW q \in Names, NEW p \in Names
  PROVE  /\ IsPrefix(q, p) <=> (Len(q) <= Len(p) /\ \A k \in 1..Len(q) : q[k] = p[k])
         /\ Len(p) \in Nat /\ Len(q) \in Nat
<1>1. Len(p) \in Nat /\ Len(q) \in Nat
  BY DEF Names
<1>2. ASSUME NEW s \in Names, NEW n \in Nat, n <= Len(s)
      PROVE  /\ SubSeq(s, 1, n) \in Names /\ Len(SubSeq(s, 1, n)) = n
             /\ \A k \in 1..n : SubSeq(s, 1, n)[k] = s[k]
  <2>1. CASE n = 0
    <3>1. SubSeq(s, 1, 0) = <<>>
      BY SubSeqEmpty DEF Names
    <3>2. <<>> \in Names /\ Len(<<>>) = 0
      BY EmptySeq DEF Names
    <3>3. SubSeq(s, 1, n) = <<>> /\ \A k \in 1..n : FALSE
      BY <2>1, <3>1
    <3> QED BY <2>1, <3>2, <3>3
  <2>2. CASE n # 0
    <3>1. n \in 1..Len(s)
      BY <1>2, <2>2 DEF Names
    <3>2. SubSeq(s, 1, n) \in Names /\ Len(SubSeq(s, 1, n)) = n
      BY <3>1 DEF Names
    <3>3. \A k \in 1..n : SubSeq(s, 1, n)[k] = s[k]
      BY <3>1 DEF Names
    <3> QED BY <3>2, <3>3
  <2> QED BY <2>1, <2>2
<1>3. ASSUME Len(q) <= Len(p)
      PROVE  SubSeq(q, 1, Len(q)) = SubSeq(p, 1, Len(q)) <=> \A k \in 1..Len(q) : q[k] = p[k]
  <2> DEFINE a == SubSeq(q, 1, Len(q))
             b == SubSeq(p, 1, Len(q))
  <2>1. /\ a \in Names /\ Len(a) = Len(q) /\ b \in Names /\ Len(b) = Len(q)
        /\ \A k \in 1..Len(q) : a[k] = q[k] /\ b[k] = p[k]
    BY <1>1, <1>2, <1>3
  <2> HIDE DEF a, b
  <2>2. (\A k \in 1..Len(q) : a[k] = b[k]) => a = b
    BY <2>1, SeqEqual DEF Names
  <2>3. a = b <=> \A k \in 1..Len(q) : q[k] = p[k]
    BY <2>1, <2>2
  <2> QED BY <2>3 DEF a, b
<1> QED BY <1>1, <1>3 DEF IsPrefix

\* The shortest and the longest prefix.
LEMMA PrefixSelf ==
  ASSUME NEW p \in Names
  PROVE  IsPrefix(p, p) /\ IsPrefix(<<>>, p) /\ (IsPrefix(p, <<>>) => p = <<>>)
<1>1. <<>> \in Names /\ Len(<<>>) = 0
  BY EmptySeq DEF Names
<1>2. Len(p) = 0 => p = <<>>
  BY DEF Names
<1> QED BY <1>1, <1>2, PrefixIs

\* A prefix is the path, or a prefix of its front.
LEMMA PrefixFront ==
  ASSUME NEW q \in Names, NEW p \in Names, p # <<>>
  PROVE  IsPrefix(q, p) <=> q = p \/ IsPrefix(q, Front(p))
<1>1. /\ Front(p) \in Names /\ Len(Front(p)) = Len(p) - 1 /\ Len(p) \in Nat \ {0}
      /\ \A k \in 1..(Len(p) - 1) : Front(p)[k] = p[k]
  BY FrontIs
<1>2. ASSUME IsPrefix(q, p), q # p
      PROVE  IsPrefix(q, Front(p))
  <2>1. Len(q) <= Len(p) /\ \A k \in 1..Len(q) : q[k] = p[k]
    BY <1>2, PrefixIs
  <2>2. Len(q) # Len(p)
    BY <1>2, <2>1, SeqEqual DEF Names
  <2>3. Len(q) <= Len(p) - 1 /\ \A k \in 1..Len(q) : k \in 1..(Len(p) - 1)
    BY <1>1, <2>1, <2>2, PrefixIs
  <2>4. \A k \in 1..Len(q) : q[k] = Front(p)[k]
    BY <1>1, <2>1, <2>3
  <2> QED BY <1>1, <2>3, <2>4, PrefixIs
<1>3. ASSUME IsPrefix(q, Front(p))
      PROVE  IsPrefix(q, p)
  <2>1. Len(q) <= Len(p) - 1 /\ Len(q) \in Nat /\ \A k \in 1..Len(q) : q[k] = Front(p)[k]
    BY <1>1, <1>3, PrefixIs
  <2>2. \A k \in 1..Len(q) : q[k] = p[k]
    BY <1>1, <2>1
  <2>3. Len(q) <= Len(p)
    BY <1>1, <2>1
  <2> QED BY <2>2, <2>3, PrefixIs
<1> QED BY <1>2, <1>3, PrefixSelf

\* Prefixes of prefixes are prefixes.
LEMMA PrefixTrans ==
  ASSUME NEW q \in Names, NEW p \in Names, NEW r \in Names, IsPrefix(q, p), IsPrefix(p, r)
  PROVE  IsPrefix(q, r)
<1>1. Len(q) <= Len(p) /\ Len(p) <= Len(r) /\ Len(q) \in Nat /\ Len(p) \in Nat /\ Len(r) \in Nat
  BY PrefixIs
<1>2. \A k \in 1..Len(q) : q[k] = p[k] /\ k \in 1..Len(p)
  BY <1>1, PrefixIs
<1>3. \A k \in 1..Len(p) : p[k] = r[k]
  BY PrefixIs
<1>4. \A k \in 1..Len(q) : q[k] = r[k]
  BY <1>2, <1>3
<1>5. Len(q) <= Len(r)
  BY <1>1
<1> QED BY <1>4, <1>5, PrefixIs

-----------------------------------------------------------------------------
\* A folder of a course has at most one child of a name, and Child finds it.
LEMMA ChildIs ==
  ASSUME NEW t, Course(t), NEW a, NEW n
  PROVE  /\ \A i \in DOMAIN t : t[i].parent = a /\ t[i].name = n => Child(t, a, n) = i
         /\ \/ Child(t, a, n) = None
            \/ /\ Child(t, a, n) \in DOMAIN t
               /\ t[Child(t, a, n)].parent = a /\ t[Child(t, a, n)].name = n
         /\ None \notin DOMAIN t /\ Top \notin DOMAIN t
<1> DEFINE named == {i \in Children(t, a) : t[i].name = n}
<1>1. Child(t, a, n) = IF named = {} THEN None ELSE Min(named)
  BY DEF Child
<1>2. named = {i \in DOMAIN t : t[i].parent = a /\ t[i].name = n}
  BY DEF Children
<1>3. None \notin DOMAIN t /\ Top \notin DOMAIN t
  BY DEF Course, None, Top
<1>4. named \in SUBSET Nat
  BY <1>2 DEF Course
<1>5. \A i, j \in named : i = j
  BY <1>2 DEF Course
<1>6. named # {} => Min(named) \in named
  <2> HIDE DEF named
  <2> QED BY <1>4, MinIs
<1> HIDE DEF named
<1> QED BY <1>1, <1>2, <1>3, <1>5, <1>6

\* The empty path leads to the top.
LEMMA AtEmpty == \A t : At(t, <<>>) = Top
BY PathStart DEF At

\* What a path leads to is in the folder its front leads to, and has its last name.
LEMMA AtStep ==
  ASSUME NEW t, Course(t), NEW p \in Names, p # <<>>
  PROVE  /\ At(t, p) # None =>
              /\ At(t, p) \in DOMAIN t /\ At(t, Front(p)) # None
              /\ t[At(t, p)].parent = At(t, Front(p)) /\ t[At(t, p)].name = Last(p)
         /\ \A i \in DOMAIN t :
              t[i].parent = At(t, Front(p)) /\ t[i].name = Last(p) => At(t, p) = i
<1>1. At(t, p) = Child(t, At(t, Front(p)), Last(p))
  BY PathStep DEF At
<1>2. \A i \in DOMAIN t : t[i].parent # None
  <2> TAKE i \in DOMAIN t
  <2>1. t[i].parent \in Nat
    BY DEF Course, Nodes
  <2> QED BY <2>1 DEF None
<1> QED BY <1>1, <1>2, ChildIs

\* Only the empty path leads to the top, and others to nodes or nowhere.
LEMMA AtIs ==
  ASSUME NEW t, Course(t), NEW p \in Names
  PROVE  /\ At(t, p) = Top <=> p = <<>>
         /\ At(t, p) # None /\ p # <<>> => At(t, p) \in DOMAIN t
         /\ At(t, p) \in DOMAIN t => p # <<>> /\ At(t, p) # None
<1>1. None # Top /\ Top \notin DOMAIN t /\ None \notin DOMAIN t
  BY ChildIs DEF None, Top
<1> QED BY <1>1, AtStep, AtEmpty

\* What a path goes through is there.
LEMMA AtPrefix ==
  ASSUME NEW t, Course(t), NEW q \in Names, NEW p \in Names, IsPrefix(q, p), At(t, p) # None
  PROVE  At(t, q) # None
<1> DEFINE Q == {r \in Names : IsPrefix(q, r) /\ At(t, r) # None => At(t, q) # None}
<1>1. <<>> \in Q
  <2>1. <<>> \in Names /\ (IsPrefix(q, <<>>) => q = <<>>)
    BY PrefixSelf, EmptySeq DEF Names
  <2> QED BY <2>1
<1>2. ASSUME NEW r \in Names, r # <<>>, Front(r) \in Q PROVE r \in Q
  BY <1>2, PrefixFront, AtStep
<1>3. Q = Names
  <2> HIDE DEF Q
  <2>1. Q \in SUBSET Names
    BY DEF Q
  <2> QED BY <1>1, <1>2, <2>1, PathInd
<1> QED BY <1>3

\* A node has one path.
LEMMA AtInjective ==
  ASSUME NEW t, Course(t), NEW p \in Names, NEW q \in Names, At(t, p) = At(t, q), At(t, p) # None
  PROVE  p = q
<1> DEFINE Q == {r \in Names : \A s \in Names : At(t, r) = At(t, s) /\ At(t, r) # None => r = s}
<1>1. <<>> \in Q
  <2>1. <<>> \in Names
    BY EmptySeq DEF Names
  <2> QED BY <2>1, AtIs
<1>2. ASSUME NEW r \in Names, r # <<>>, Front(r) \in Q PROVE r \in Q
  <2> SUFFICES ASSUME NEW s \in Names, At(t, r) = At(t, s), At(t, r) # None PROVE r = s
    OBVIOUS
  <2>1. s # <<>>
    BY <1>2, AtIs
  <2>2. /\ At(t, Front(r)) = At(t, Front(s)) /\ Last(r) = Last(s) /\ At(t, Front(r)) # None
    BY <1>2, <2>1, AtStep
  <2>3. Front(s) \in Names
    BY <2>1, FrontIs
  <2>4. Front(r) = Front(s)
    BY <1>2, <2>2, <2>3
  <2> QED BY <1>2, <2>1, <2>2, <2>4, FrontLast
<1>3. Q = Names
  <2> HIDE DEF Q
  <2>1. Q \in SUBSET Names
    BY DEF Q
  <2> QED BY <1>1, <1>2, <2>1, PathInd
<1> QED BY <1>3

\* A path that no change has touched leads where it led.
LEMMA Kept ==
  ASSUME NEW t, Course(t), NEW u, Course(u), NEW M,
         \A i \in DOMAIN t \ M : i \in DOMAIN u /\ u[i].parent = t[i].parent /\ u[i].name = t[i].name,
         NEW p \in Names, At(t, p) # None, \A q \in Names : IsPrefix(q, p) => At(t, q) \notin M
  PROVE  At(u, p) = At(t, p)
<1> DEFINE Q == {r \in Names : IsPrefix(r, p) => At(u, r) = At(t, r)}
<1>1. <<>> \in Q
  BY AtEmpty, EmptySeq DEF Names
<1>2. ASSUME NEW r \in Names, r # <<>>, Front(r) \in Q PROVE r \in Q
  <2> SUFFICES ASSUME IsPrefix(r, p) PROVE At(u, r) = At(t, r)
    OBVIOUS
  <2>1. Front(r) \in Names /\ IsPrefix(Front(r), r)
    BY <1>2, FrontIs, PrefixFront, PrefixSelf
  <2>2. IsPrefix(Front(r), p)
    BY <2>1, PrefixTrans
  <2>3. At(u, Front(r)) = At(t, Front(r))
    BY <1>2, <2>2
  <2>4. At(t, r) # None
    BY AtPrefix
  <2>5. At(t, r) \in DOMAIN t \ M /\ t[At(t, r)].parent = At(t, Front(r))
        /\ t[At(t, r)].name = Last(r)
    BY <1>2, <2>4, AtStep
  <2>6. At(t, r) \in DOMAIN u /\ u[At(t, r)].parent = At(u, Front(r)) /\ u[At(t, r)].name = Last(r)
    BY <2>3, <2>5
  <2> QED BY <1>2, <2>6, AtStep
<1>3. Q = Names
  <2> HIDE DEF Q
  <2>1. Q \in SUBSET Names
    BY DEF Q
  <2> QED BY <1>1, <1>2, <2>1, PathInd
<1> QED BY <1>3, PrefixSelf

-----------------------------------------------------------------------------
(* What is below a node. *)

-----------------------------------------------------------------------------
(* Below a node. *)

\* Subtree is closed under going to children, and has nothing but id besides.
LEMMA SubtreeIs ==
  ASSUME NEW t, NEW id
  PROVE  /\ Subtree(t, id) \subseteq DOMAIN t
         /\ \A i \in DOMAIN t :
              i \in Subtree(t, id) <=>
                i = id \/ (t[i].parent \in DOMAIN t /\ t[i].parent \in Subtree(t, id))
<1> DEFINE Once(b) == [i \in DOMAIN t |-> i = id \/ (t[i].parent \in DOMAIN t /\ b[t[i].parent])]
           below == CHOOSE b : b = Once(b)
           closed(C) == \A i \in DOMAIN t :
                          i = id \/ (t[i].parent \in DOMAIN t /\ t[i].parent \in C) => i \in C
           least == {i \in DOMAIN t : \A C \in SUBSET DOMAIN t : closed(C) => i \in C}
           f == [i \in DOMAIN t |-> i \in least]
<1>1. Subtree(t, id) = {i \in DOMAIN t : below[i]}
  BY DEF Subtree
<1>2. closed(least)
  OBVIOUS
<1>3. \A i \in least : i = id \/ (t[i].parent \in DOMAIN t /\ t[i].parent \in least)
  <2> TAKE j \in least
  <2> SUFFICES ASSUME j # id, ~(t[j].parent \in DOMAIN t /\ t[j].parent \in least) PROVE FALSE
    OBVIOUS
  <2> DEFINE C == least \ {j}
  <2>1. closed(C)
    <3> TAKE i \in DOMAIN t
    <3> HAVE i = id \/ (t[i].parent \in DOMAIN t /\ t[i].parent \in C)
    <3>1. i \in least
      BY <1>2
    <3>2. i # j
      OBVIOUS
    <3> QED BY <3>1, <3>2
  <2> QED BY <2>1
<1>4. f = Once(f)
  <2>1. \A i \in DOMAIN t :
          (i \in least) = (i = id \/ (t[i].parent \in DOMAIN t /\ t[i].parent \in least))
    BY <1>2, <1>3
  <2> HIDE DEF least
  <2>2. \A i \in DOMAIN t :
          (t[i].parent \in DOMAIN t /\ f[t[i].parent]) = (t[i].parent \in DOMAIN t /\ t[i].parent \in least)
    OBVIOUS
  <2>3. \A i \in DOMAIN t : f[i] = Once(f)[i]
    BY <2>1, <2>2
  <2> QED BY <2>3
<1>5. below = Once(below)
  <2> HIDE DEF f, Once
  <2> QED BY <1>4
<1> HIDE DEF below
<1>6. \A i \in DOMAIN t : below[i] = (i = id \/ (t[i].parent \in DOMAIN t /\ below[t[i].parent]))
  BY <1>5
<1> QED BY <1>1, <1>6

\* The nodes below a node are those whose paths extend its path.
LEMMA BelowIs ==
  ASSUME NEW t, Course(t), NEW p \in Names, At(t, p) \in DOMAIN t,
         NEW q \in Names, At(t, q) # None
  PROVE  At(t, q) \in Subtree(t, At(t, p)) <=> IsPrefix(p, q)
<1> DEFINE T == Subtree(t, At(t, p))
           Q == {r \in Names : At(t, r) # None => (At(t, r) \in T <=> IsPrefix(p, r))}
<1>0. p # <<>>
  BY AtIs
<1>1. <<>> \in Q
  <2>1. <<>> \in Names /\ At(t, <<>>) \notin DOMAIN t
    BY AtIs, EmptySeq DEF Names
  <2>2. At(t, <<>>) \notin T
    BY <2>1, SubtreeIs
  <2>3. ~IsPrefix(p, <<>>)
    BY <1>0, PrefixSelf
  <2> QED BY <2>1, <2>2, <2>3
<1>2. ASSUME NEW r \in Names, r # <<>>, Front(r) \in Q PROVE r \in Q
  <2> SUFFICES ASSUME At(t, r) # None PROVE At(t, r) \in T <=> IsPrefix(p, r)
    OBVIOUS
  <2>1. /\ At(t, r) \in DOMAIN t /\ At(t, Front(r)) # None
        /\ t[At(t, r)].parent = At(t, Front(r))
    BY <1>2, AtStep
  <2>2. At(t, Front(r)) \in T <=> IsPrefix(p, Front(r))
    BY <1>2, <2>1
  <2>3. At(t, r) \in T <=> At(t, r) = At(t, p) \/ At(t, Front(r)) \in T
    BY <2>1, SubtreeIs
  <2>4. At(t, r) = At(t, p) <=> p = r
    BY <2>1, AtInjective
  <2> QED BY <1>2, <2>2, <2>3, <2>4, PrefixFront
<1>3. Q = Names
  <2> HIDE DEF Q
  <2>1. Q \in SUBSET Names
    BY DEF Q
  <2> QED BY <1>1, <1>2, <2>1, PathInd
<1> QED BY <1>3

\* What is below a node is deeper, so that its folder is not below it.
LEMMA NotInItself ==
  ASSUME NEW t, Course(t), NEW id \in DOMAIN t
  PROVE  t[id].parent \notin Subtree(t, id) /\ id \in Subtree(t, id)
<1>1. PICK depth : Ranks(t, depth)
  BY DEF Course
<1> DEFINE T == Subtree(t, id)
           S == {n \in Nat : \A i \in T : depth[i] <= n => i = id \/ depth[i] > depth[id]}
<1>2. T \subseteq DOMAIN t /\ \A i \in DOMAIN t : i \in T <=> i = id \/ (t[i].parent \in DOMAIN t /\ t[i].parent \in T)
  BY SubtreeIs
<1>3. /\ \A i \in DOMAIN t : depth[i] \in Nat
      /\ \A i \in DOMAIN t : t[i].parent \in DOMAIN t => depth[t[i].parent] < depth[i]
  BY <1>1 DEF Ranks
<1> HIDE DEF T
<1>4. 0 \in S
  <2> SUFFICES ASSUME NEW i \in T, depth[i] <= 0 PROVE i = id \/ depth[i] > depth[id]
    OBVIOUS
  <2>1. CASE i # id
    <3>1. t[i].parent \in DOMAIN t /\ depth[t[i].parent] < depth[i]
      BY <1>2, <1>3, <2>1
    <3> QED BY <1>2, <1>3, <3>1
  <2> QED BY <2>1
<1>5. ASSUME NEW n \in S PROVE n + 1 \in S
  <2> SUFFICES ASSUME NEW i \in T, depth[i] <= n + 1, i # id PROVE depth[i] > depth[id]
    OBVIOUS
  <2>1. t[i].parent \in DOMAIN t /\ t[i].parent \in T /\ depth[t[i].parent] < depth[i] /\ i \in DOMAIN t
    BY <1>2, <1>3
  <2>2. depth[t[i].parent] \in Nat /\ depth[i] \in Nat /\ depth[id] \in Nat /\ depth[t[i].parent] <= n
    BY <1>3, <2>1
  <2>3. t[i].parent = id \/ depth[t[i].parent] > depth[id]
    BY <2>1, <2>2
  <2> QED BY <2>1, <2>2, <2>3
<1>6. S = Nat
  <2> HIDE DEF S
  <2>1. S \in SUBSET Nat
    BY DEF S
  <2> QED BY <1>4, <1>5, <2>1, NatInd
<1>7. \A i \in T : i = id \/ depth[i] > depth[id]
  BY <1>2, <1>3, <1>6
<1>8. t[id].parent \notin T
  <2> SUFFICES ASSUME t[id].parent \in T PROVE FALSE
    OBVIOUS
  <2>1. t[id].parent \in DOMAIN t /\ depth[t[id].parent] < depth[id] /\ depth[id] \in Nat
        /\ depth[t[id].parent] \in Nat
    BY <1>2, <1>3
  <2> QED BY <1>7, <2>1
<1> QED BY <1>2, <1>8 DEF T

\* A node without children is alone below itself.
LEMMA AloneBelow ==
  ASSUME NEW t, NEW id \in DOMAIN t, \A i \in DOMAIN t : t[i].parent # id, Course(t)
  PROVE  Subtree(t, id) = {id}
<1> DEFINE T == Subtree(t, id)
<1>1. PICK depth : Ranks(t, depth)
  BY DEF Course
<1>2. T \subseteq DOMAIN t /\ \A i \in DOMAIN t : i \in T <=> i = id \/ (t[i].parent \in DOMAIN t /\ t[i].parent \in T)
  BY SubtreeIs
<1> HIDE DEF T
<1>3. ASSUME NEW i \in T, i # id PROVE FALSE
  <2> DEFINE D == {depth[j] : j \in T \ {id}}
  <2>1. D \in SUBSET Nat /\ D # {}
    BY <1>1, <1>2, <1>3 DEF Ranks
  <2>2. PICK m \in D : \A k \in D : m <= k
    BY <2>1, NatMin
  <2>3. PICK j \in T \ {id} : depth[j] = m
    BY <2>2
  <2>4. t[j].parent \in DOMAIN t /\ t[j].parent \in T \ {id} /\ j \in DOMAIN t
    BY <1>2, <2>3
  <2>5. depth[t[j].parent] < m /\ depth[t[j].parent] \in D
    BY <1>1, <2>3, <2>4 DEF Ranks
  <2>6. depth[t[j].parent] \in Nat /\ m \in Nat
    BY <2>1, <2>2, <2>5
  <2>7. m <= depth[t[j].parent]
    <3> HIDE DEF D
    <3> QED BY <2>2, <2>5
  <2>8. ~(m <= depth[t[j].parent])
    BY <2>5, <2>6
  <2> QED BY <2>7, <2>8
<1>4. T = {id}
  BY <1>2, <1>3
<1> QED BY <1>4 DEF T

-----------------------------------------------------------------------------
(* A tree with a node more, or without the nodes below one. *)

-----------------------------------------------------------------------------
(* What the requests make of a course. *)

\* Nodes with the same fields are one.
LEMMA SameNode ==
  ASSUME NEW a \in Nodes, NEW b \in Nodes, a.parent = b.parent, a.name = b.name,
         a.dir = b.dir, a.size = b.size
  PROVE  a = b
BY DEF Nodes

\* Trees with the same nodes are one.
LEMMA SameTree ==
  ASSUME NEW t, NEW u, t \in [DOMAIN t -> Nodes], u \in [DOMAIN u -> Nodes],
         DOMAIN t = DOMAIN u, \A i \in DOMAIN t : t[i] = u[i]
  PROVE  t = u
OBVIOUS

\* What Without leaves.
LEMMA WithoutIs ==
  ASSUME NEW t, NEW M
  PROVE  /\ DOMAIN Without(t, M) = DOMAIN t \ M
         /\ \A j \in DOMAIN t \ M : Without(t, M)[j] = t[j]
BY DEF Without, Restrict

\* A new node takes the path that led nowhere, and no other.
LEMMA AddNode ==
  ASSUME NEW t, Course(t), NEW i \in Nat \ {0}, i \notin DOMAIN t, NEW n \in Nodes,
         NEW p \in Names, p # <<>>, n.parent = At(t, Front(p)), n.name = Last(p),
         IsDir(t, n.parent), At(t, p) = None
  PROVE  /\ Course(With(t, i, n)) /\ At(With(t, i, n), p) = i
         /\ \A q \in Names : q # p => At(With(t, i, n), q) = At(t, q)
<1> DEFINE u == With(t, i, n)
<1>1. /\ DOMAIN u = DOMAIN t \cup {i} /\ u[i] = n
      /\ \A j \in DOMAIN t : u[j] = t[j]
  <2>1. \A j \in DOMAIN t : j # i
    OBVIOUS
  <2> HIDE DEF u
  <2>2. DOMAIN u = DOMAIN t \cup {i} /\ u[i] = n /\ \A j \in DOMAIN t : j # i => u[j] = t[j]
    BY DEF u, With
  <2> QED BY <2>1, <2>2
<1>2. u \in [DOMAIN u -> Nodes]
  BY DEF Course, With
<1>3. /\ t \in [DOMAIN t -> Nodes] /\ DOMAIN t \subseteq Nat \ {0}
      /\ \A j \in DOMAIN t : IsDir(t, t[j].parent)
      /\ \A j, k \in DOMAIN t : t[j].parent = t[k].parent /\ t[j].name = t[k].name => j = k
  BY DEF Course
<1> HIDE DEF u
<1>4. \A j \in DOMAIN t : t[j].parent # i
  BY <1>3 DEF IsDir, Top
<1>5. n.parent # i
  BY DEF IsDir, Top
<1>6. \A j \in DOMAIN t : ~(t[j].parent = n.parent /\ t[j].name = n.name)
  <2>1. \A j \in DOMAIN t : j # None
    BY ChildIs
  <2> QED BY <2>1, AtStep
<1>7. Course(u)
  <2>1. \A j \in DOMAIN u : IsDir(u, u[j].parent)
    BY <1>1, <1>3 DEF IsDir
  <2>2. \A j, k \in DOMAIN u : u[j].parent = u[k].parent /\ u[j].name = u[k].name => j = k
    BY <1>1, <1>3, <1>6
  <2>3. \E depth : Ranks(u, depth)
    <3>1. PICK depth : Ranks(t, depth)
      BY DEF Course
    <3> DEFINE new == IF n.parent \in DOMAIN t THEN depth[n.parent] + 1 ELSE 0
               deep == [j \in DOMAIN u |-> IF j = i THEN new ELSE depth[j]]
    <3>2. new \in Nat
      BY <3>1 DEF Ranks
    <3>3. deep \in [DOMAIN u -> Nat]
      BY <1>1, <3>1, <3>2 DEF Ranks
    <3>4. ASSUME NEW j \in DOMAIN u, u[j].parent \in DOMAIN u
          PROVE  deep[u[j].parent] < deep[j]
      <4>1. CASE j = i
        <5>1. u[j].parent = n.parent /\ n.parent \in DOMAIN t
          BY <1>1, <1>5, <3>4, <4>1
        <5>2. deep[u[j].parent] = depth[n.parent] /\ deep[j] = depth[n.parent] + 1
              /\ depth[n.parent] \in Nat
          BY <1>1, <1>5, <3>1, <4>1, <5>1 DEF Ranks
        <5> QED BY <5>2
      <4>2. CASE j # i
        <5>1. j \in DOMAIN t /\ u[j].parent = t[j].parent /\ t[j].parent \in DOMAIN t
              /\ t[j].parent # i
          BY <1>1, <1>4, <3>4, <4>2
        <5>2. deep[u[j].parent] = depth[t[j].parent] /\ deep[j] = depth[j]
          BY <1>1, <4>2, <5>1
        <5> QED BY <3>1, <5>1, <5>2 DEF Ranks
      <4> QED BY <4>1, <4>2
    <3> HIDE DEF deep
    <3>5. Ranks(u, deep)
      BY <3>3, <3>4 DEF Ranks
    <3> QED BY <3>5
  <2> QED BY <1>1, <1>2, <1>3, <2>1, <2>2, <2>3 DEF Course
<1> DEFINE Q == {q \in Names : IF q = p THEN At(u, q) = i ELSE At(u, q) = At(t, q)}
<1>8. <<>> \in Q
  BY AtEmpty, EmptySeq DEF Names
<1>9. ASSUME NEW q \in Names, q # <<>>, Front(q) \in Q PROVE q \in Q
  <2>1. CASE q = p
    <3>1. Front(p) # p
      <4>1. Len(Front(p)) = Len(p) - 1 /\ Len(p) \in Nat
        BY FrontIs
      <4> QED BY <4>1
    <3>2. At(u, Front(p)) = n.parent
      BY <1>9, <2>1, <3>1
    <3>3. At(u, p) = i
      BY <1>1, <1>7, <3>2, AtStep
    <3> QED BY <2>1, <3>3
  <2>2. CASE q # p
    <3>1. CASE Front(q) = p
      <4>1. At(u, Front(q)) = i /\ At(t, Front(q)) = None
        BY <1>9, <3>1
      <4>2. At(t, q) = None
        BY <1>9, <4>1, AtStep
      <4>3. \A j \in DOMAIN u : u[j].parent # i
        BY <1>1, <1>4, <1>5
      <4>4. At(u, q) = None
        BY <1>7, <1>9, <4>1, <4>3, AtStep
      <4> QED BY <2>2, <4>2, <4>4
    <3>2. CASE Front(q) # p
      <4>1. At(u, Front(q)) = At(t, Front(q))
        BY <1>9, <3>2
      <4>2. CASE At(t, q) # None
        <5>1. /\ At(t, q) \in DOMAIN t /\ t[At(t, q)].parent = At(t, Front(q))
              /\ t[At(t, q)].name = Last(q)
          BY <1>9, <4>2, AtStep
        <5>2. /\ At(t, q) \in DOMAIN u /\ u[At(t, q)].parent = At(u, Front(q))
              /\ u[At(t, q)].name = Last(q)
          BY <1>1, <4>1, <5>1
        <5>3. At(u, q) = At(t, q)
          BY <1>7, <1>9, <5>2, AtStep
        <5> QED BY <2>2, <5>3
      <4>3. CASE At(t, q) = None /\ At(u, q) # None
        <5>1. /\ At(u, q) \in DOMAIN u /\ u[At(u, q)].parent = At(t, Front(q))
              /\ u[At(u, q)].name = Last(q) /\ At(u, Front(q)) # None
          BY <1>7, <1>9, <4>1, <4>3, AtStep
        <5>2. CASE At(u, q) \in DOMAIN t
          <6>1. At(t, q) = At(u, q)
            BY <1>1, <1>9, <5>1, <5>2, AtStep
          <6> QED BY <4>3, <6>1
        <5>3. CASE At(u, q) = i
          <6>1. At(t, Front(q)) = At(t, Front(p)) /\ Last(q) = Last(p)
                /\ At(t, Front(q)) # None
            BY <1>1, <4>1, <5>1, <5>3
          <6>2. Front(q) = Front(p)
            BY <1>9, <6>1, AtInjective, FrontIs
          <6>3. q = p
            BY <1>9, <6>1, <6>2, FrontLast
          <6> QED BY <2>2, <6>3
        <5> QED BY <1>1, <5>1, <5>2, <5>3
      <4> QED BY <2>2, <4>2, <4>3
    <3> QED BY <3>1, <3>2
  <2> QED BY <2>1, <2>2
<1>10. Q = Names
  <2> HIDE DEF Q
  <2>1. Q \in SUBSET Names
    BY DEF Q
  <2> QED BY <1>8, <1>9, <2>1, PathInd
<1>11. At(u, p) = i /\ \A q \in Names : q # p => At(u, q) = At(t, q)
  BY <1>10
<1> QED BY <1>7, <1>11 DEF u

\* What is taken off with all that is below it leaves the other paths alone.
LEMMA Drop ==
  ASSUME NEW t, Course(t), NEW M, \A j \in DOMAIN t : t[j].parent \in M => j \in M
  PROVE  /\ Course(Without(t, M))
         /\ \A q \in Names : At(Without(t, M), q) = IF At(t, q) \in M /\ q # <<>> THEN None ELSE At(t, q)
<1> DEFINE u == Without(t, M)
<1>1. DOMAIN u = DOMAIN t \ M /\ \A j \in DOMAIN u : u[j] = t[j]
  BY WithoutIs
<1>2. u \in [DOMAIN u -> Nodes]
  BY DEF Course, Without, Restrict
<1>3. /\ t \in [DOMAIN t -> Nodes] /\ DOMAIN t \subseteq Nat \ {0}
      /\ \A j \in DOMAIN t : IsDir(t, t[j].parent)
      /\ \A j, k \in DOMAIN t : t[j].parent = t[k].parent /\ t[j].name = t[k].name => j = k
  BY DEF Course
<1> HIDE DEF u
<1>4. Course(u)
  <2>1. \A j \in DOMAIN u : IsDir(u, u[j].parent)
    BY <1>1, <1>3 DEF IsDir
  <2>2. \A j, k \in DOMAIN u : u[j].parent = u[k].parent /\ u[j].name = u[k].name => j = k
    BY <1>1, <1>3
  <2>3. \E depth : Ranks(u, depth)
    <3>1. PICK depth : Ranks(t, depth)
      BY DEF Course
    <3> DEFINE deep == [j \in DOMAIN u |-> depth[j]]
    <3>2. Ranks(u, deep)
      BY <1>1, <3>1 DEF Ranks
    <3> HIDE DEF deep
    <3> QED BY <3>2
  <2> QED BY <1>1, <1>2, <1>3, <2>1, <2>2, <2>3 DEF Course
<1> DEFINE Q == {q \in Names : At(u, q) = IF At(t, q) \in M /\ q # <<>> THEN None ELSE At(t, q)}
<1>5. <<>> \in Q
  BY AtEmpty, EmptySeq DEF Names
<1>6. ASSUME NEW q \in Names, q # <<>>, Front(q) \in Q PROVE q \in Q
  <2>1. CASE At(u, q) # None
    <3>1. /\ At(u, q) \in DOMAIN u /\ At(u, Front(q)) # None
          /\ u[At(u, q)].parent = At(u, Front(q)) /\ u[At(u, q)].name = Last(q)
      BY <1>4, <1>6, <2>1, AtStep
    <3>2. At(u, Front(q)) = At(t, Front(q))
      BY <1>6, <3>1
    <3>3. At(t, q) = At(u, q) /\ At(t, q) \notin M
      BY <1>1, <1>6, <3>1, <3>2, AtStep
    <3> QED BY <3>3
  <2>2. CASE At(t, q) # None /\ At(t, q) \notin M
    <3>1. /\ At(t, q) \in DOMAIN t /\ At(t, Front(q)) # None
          /\ t[At(t, q)].parent = At(t, Front(q)) /\ t[At(t, q)].name = Last(q)
      BY <1>6, <2>2, AtStep
    <3>2. At(t, Front(q)) \notin M
      BY <2>2, <3>1
    <3>3. At(u, Front(q)) = At(t, Front(q))
      BY <1>6, <3>2
    <3>4. /\ At(t, q) \in DOMAIN u /\ u[At(t, q)].parent = At(u, Front(q))
          /\ u[At(t, q)].name = Last(q)
      BY <1>1, <2>2, <3>1, <3>3
    <3>5. At(u, q) = At(t, q)
      BY <1>4, <1>6, <3>4, AtStep
    <3> QED BY <2>2, <3>5
  <2> QED BY <1>6, <2>1, <2>2
<1>7. Q = Names
  <2> HIDE DEF Q
  <2>1. Q \in SUBSET Names
    BY DEF Q
  <2> QED BY <1>5, <1>6, <2>1, PathInd
<1> QED BY <1>4, <1>7 DEF u

-----------------------------------------------------------------------------
(* A tree in which a node has moved. *)

\* What is closed under going below a node has all of the path's continuations.
LEMMA ClosedBelow ==
  ASSUME NEW t, Course(t), NEW M, M \subseteq DOMAIN t,
         \A j \in DOMAIN t : t[j].parent \in M => j \in M,
         NEW r \in Names, NEW q \in Names, IsPrefix(r, q), At(t, r) \in M, At(t, q) # None
  PROVE  At(t, q) \in M
<1> DEFINE Q == {s \in Names : IsPrefix(r, s) /\ At(t, s) # None => At(t, s) \in M}
<1>1. <<>> \in Q
  <2>1. <<>> \in Names
    BY EmptySeq DEF Names
  <2>2. IsPrefix(r, <<>>) => r = <<>>
    BY PrefixSelf
  <2> QED BY <2>1, <2>2
<1>2. ASSUME NEW s \in Names, s # <<>>, Front(s) \in Q PROVE s \in Q
  <2> SUFFICES ASSUME IsPrefix(r, s), At(t, s) # None PROVE At(t, s) \in M
    OBVIOUS
  <2>1. CASE r = s
    BY <2>1
  <2>2. CASE r # s
    <3>1. IsPrefix(r, Front(s))
      BY <1>2, <2>2, PrefixFront
    <3>2. At(t, s) \in DOMAIN t /\ At(t, Front(s)) # None /\ t[At(t, s)].parent = At(t, Front(s))
      BY <1>2, AtStep
    <3>3. At(t, Front(s)) \in M
      BY <1>2, <3>1, <3>2
    <3> QED BY <3>2, <3>3
  <2> QED BY <2>1, <2>2
<1>3. Q = Names
  <2> HIDE DEF Q
  <2>1. Q \in SUBSET Names
    BY DEF Q
  <2> QED BY <1>1, <1>2, <2>1, PathInd
<1> QED BY <1>3

\* A node that goes below another folder, or takes another name.
LEMMA MoveNode ==
  ASSUME NEW t, Course(t), NEW id \in DOMAIN t, NEW u, u \in [DOMAIN t -> Nodes],
         \A j \in DOMAIN t : j # id => u[j] = t[j], u[id].dir = t[id].dir,
         NEW p \in Names, p # <<>>, u[id].parent = At(t, Front(p)), u[id].name = Last(p),
         At(t, p) = None, IsDir(t, u[id].parent), u[id].parent \notin Subtree(t, id)
  PROVE  /\ Course(u)
         /\ \A q \in Names : At(t, q) # None /\ At(t, q) \notin Subtree(t, id) => At(u, q) = At(t, q)
<1> DEFINE T == Subtree(t, id)
           up == u[id].parent
<1>1. /\ t \in [DOMAIN t -> Nodes] /\ DOMAIN t \subseteq Nat \ {0} /\ DOMAIN u = DOMAIN t
      /\ \A j \in DOMAIN t : IsDir(t, t[j].parent)
      /\ \A j, k \in DOMAIN t : t[j].parent = t[k].parent /\ t[j].name = t[k].name => j = k
  BY DEF Course
<1>2. /\ T \subseteq DOMAIN t
      /\ \A i \in DOMAIN t : i \in T <=> i = id \/ (t[i].parent \in DOMAIN t /\ t[i].parent \in T)
  BY SubtreeIs
<1> HIDE DEF T
<1>3. \A j \in DOMAIN t : ~(t[j].parent = up /\ t[j].name = u[id].name)
  <2>1. \A j \in DOMAIN t : j # None
    BY ChildIs
  <2> QED BY <2>1, AtStep
<1>4. Course(u)
  <2>1. \A j \in DOMAIN u : IsDir(u, u[j].parent)
    <3>1. \A j \in DOMAIN u : IsDir(t, u[j].parent)
      BY <1>1
    <3>2. \A j \in DOMAIN u : u[j].dir = t[j].dir
      BY <1>1
    <3> QED BY <1>1, <3>1, <3>2 DEF IsDir
  <2>2. \A j, k \in DOMAIN u : u[j].parent = u[k].parent /\ u[j].name = u[k].name => j = k
    BY <1>1, <1>3
  <2>3. \E depth : Ranks(u, depth)
    <3>1. PICK depth : Ranks(t, depth)
      BY DEF Course
    <3>2. /\ \A j \in DOMAIN t : depth[j] \in Nat
          /\ \A i \in DOMAIN t : t[i].parent \in DOMAIN t => depth[t[i].parent] < depth[i]
      BY <3>1 DEF Ranks
    <3> DEFINE more == IF up \in DOMAIN t THEN depth[up] + 1 ELSE 0
               deep == [j \in DOMAIN t |-> IF j \in T THEN depth[j] + more ELSE depth[j]]
    <3>3. more \in Nat
      BY <3>2
    <3> HIDE DEF more
    <3>4. deep \in [DOMAIN t -> Nat]
      BY <3>2, <3>3
    <3>5. \A j \in DOMAIN t : deep[j] = IF j \in T THEN depth[j] + more ELSE depth[j]
      OBVIOUS
    <3> HIDE DEF deep
    <3>6. ASSUME NEW j \in DOMAIN t, u[j].parent \in DOMAIN t
          PROVE  deep[u[j].parent] < deep[j]
      <4>1. CASE j = id
        <5>1. up \in DOMAIN t /\ up \notin T /\ id \in T
          BY <1>2, <3>6, <4>1 DEF T
        <5>2. deep[up] = depth[up] /\ deep[id] = depth[id] + more /\ more = depth[up] + 1
          BY <3>5, <5>1 DEF more
        <5>3. depth[up] \in Nat /\ depth[id] \in Nat
          BY <3>2, <5>1
        <5> QED BY <4>1, <5>2, <5>3
      <4>2. CASE j # id
        <5>1. u[j].parent = t[j].parent /\ depth[t[j].parent] < depth[j]
          BY <3>2, <3>6, <4>2
        <5>2. j \in T <=> t[j].parent \in T
          BY <1>2, <3>6, <4>2, <5>1
        <5>3. depth[t[j].parent] \in Nat /\ depth[j] \in Nat
          BY <3>2, <3>6, <5>1
        <5> QED BY <3>3, <3>5, <3>6, <5>1, <5>2, <5>3
      <4> QED BY <4>1, <4>2
    <3>7. Ranks(u, deep)
      BY <1>1, <3>4, <3>6 DEF Ranks
    <3> QED BY <3>7
  <2> QED BY <1>1, <2>1, <2>2, <2>3 DEF Course
<1>5. ASSUME NEW q \in Names, At(t, q) # None, At(t, q) \notin T PROVE At(u, q) = At(t, q)
  <2>1. \A i \in DOMAIN t \ T : i \in DOMAIN u /\ u[i].parent = t[i].parent /\ u[i].name = t[i].name
    BY <1>1, <1>2
  <2>2. ASSUME NEW r \in Names, IsPrefix(r, q) PROVE At(t, r) \notin T
    <3>1. \A j \in DOMAIN t : t[j].parent \in T => j \in T
      BY <1>2
    <3> QED BY <1>2, <1>5, <2>2, <3>1, ClosedBelow
  <2> QED BY <1>4, <1>5, <2>1, <2>2, Kept
<1> QED BY <1>4, <1>5 DEF T

-----------------------------------------------------------------------------
(* A tree in which a file has another id or size, and parts of a path. *)

\* The path leads to the file id.
FileAt(t, p, id) == At(t, p) = id /\ id \in DOMAIN t /\ ~t[id].dir

\* A file has nothing below it.
LEMMA FileAlone ==
  ASSUME NEW t, Course(t), NEW id \in DOMAIN t, ~t[id].dir
  PROVE  /\ \A j \in DOMAIN t : t[j].parent # id
         /\ Subtree(t, id) = {id}
<1>1. \A j \in DOMAIN t : t[j].parent # id
  BY DEF Course, IsDir, Top
<1> QED BY <1>1, AloneBelow

\* A file of a new size, or with a new id, has its path.
Renewed(t, p, id, u, new) ==
  /\ Course(u) /\ DOMAIN u = (DOMAIN t \ {id}) \cup {new} /\ FileAt(u, p, new)
  /\ \A q \in Names : q # p => At(u, q) = At(t, q)

\* ReId renews the file, if the new id is not taken.
LEMMA ReIdIs ==
  ASSUME NEW t, Course(t), NEW p \in Names, NEW id, FileAt(t, p, id),
         NEW new \in Nat \ {0}, new \notin DOMAIN t \ {id}, NEW size \in Int
  PROVE  Renewed(t, p, id, ReId(t, id, new, size), new)
<1> DEFINE w == Without(t, {id})
           n == [t[id] EXCEPT !.size = size]
           u == With(w, new, n)
<1>1. id \in DOMAIN t /\ At(t, p) = id /\ ~t[id].dir /\ t[id] \in Nodes
  BY DEF FileAt, Course
<1>2. \A j \in DOMAIN t : t[j].parent # id
  BY <1>1, FileAlone
<1>3. /\ Course(w)
      /\ \A q \in Names : At(w, q) = IF At(t, q) \in {id} /\ q # <<>> THEN None ELSE At(t, q)
  <2>1. \A j \in DOMAIN t : t[j].parent \in {id} => j \in {id}
    BY <1>2
  <2> QED BY <2>1, Drop
<1>4. DOMAIN w = DOMAIN t \ {id} /\ \A j \in DOMAIN w : w[j] = t[j]
  BY WithoutIs
<1>5. /\ n \in Nodes /\ n.parent = t[id].parent /\ n.name = t[id].name /\ n.size = size
      /\ n.dir = t[id].dir
  BY <1>1 DEF Nodes
<1> HIDE DEF w, n
<1>6. p # <<>> /\ At(t, Front(p)) = t[id].parent /\ t[id].name = Last(p)
      /\ At(t, Front(p)) # None /\ Front(p) \in Names /\ id # None
  <2>1. id # None /\ p # <<>>
    BY <1>1, AtIs, ChildIs
  <2> QED BY <1>1, <2>1, AtStep, FrontIs
<1>7. At(w, p) = None /\ At(w, Front(p)) = n.parent
  <2>1. At(t, Front(p)) # id
    BY <1>1, <1>2, <1>6
  <2> QED BY <1>1, <1>3, <1>5, <1>6, <2>1
<1>8. IsDir(w, n.parent)
  <2>1. IsDir(t, n.parent) /\ n.parent # id
    BY <1>1, <1>2, <1>5 DEF Course
  <2> QED BY <1>4, <2>1 DEF IsDir
<1>9. new \notin DOMAIN w
  BY <1>4
<1>10. /\ Course(u) /\ At(u, p) = new
       /\ \A q \in Names : q # p => At(u, q) = At(w, q)
  BY <1>3, <1>5, <1>6, <1>7, <1>8, <1>9, AddNode
<1>11. DOMAIN u = DOMAIN w \cup {new} /\ u[new] = n
  BY DEF With
<1>12. ASSUME NEW q \in Names, q # p PROVE At(u, q) = At(t, q)
  <2>1. At(t, q) # id
    BY <1>1, <1>6, <1>12, AtInjective
  <2> QED BY <1>3, <1>10, <1>12, <2>1
<1>13. u = ReId(t, id, new, size)
  BY DEF u, w, n, ReId
<1> HIDE DEF u
<1> QED BY <1>1, <1>4, <1>5, <1>10, <1>11, <1>12, <1>13 DEF FileAt, Renewed

\* What ReId keeps of the file and of the other nodes.
ReIded(t, id, u, new, size) ==
  /\ DOMAIN u = (DOMAIN t \ {id}) \cup {new} /\ u \in [DOMAIN u -> Nodes]
  /\ u[new].parent = t[id].parent /\ u[new].name = t[id].name
  /\ u[new].dir = t[id].dir /\ u[new].size = size
  /\ \A j \in DOMAIN t : j # id /\ j # new => u[j] = t[j]

\* ReId does so, whether or not the new id is taken.
LEMMA ReIdFields ==
  ASSUME NEW t, Course(t), NEW id \in DOMAIN t, NEW new, NEW size \in Int
  PROVE  ReIded(t, id, ReId(t, id, new, size), new, size)
<1> SUFFICES ASSUME NEW u, u = ReId(t, id, new, size) PROVE ReIded(t, id, u, new, size)
  OBVIOUS
<1>1. t[id] \in Nodes /\ t \in [DOMAIN t -> Nodes]
  BY DEF Course
<1> DEFINE n == [t[id] EXCEPT !.size = size]
           w == Without(t, {id})
<1>2. /\ n \in Nodes /\ n.parent = t[id].parent /\ n.name = t[id].name /\ n.size = size
      /\ n.dir = t[id].dir
  BY <1>1 DEF Nodes
<1>3. u = With(w, new, n)
  BY DEF ReId
<1> HIDE DEF n
<1>4. DOMAIN w = DOMAIN t \ {id} /\ \A j \in DOMAIN w : w[j] = t[j]
  BY DEF Without, Restrict
<1> HIDE DEF w
<1>5. \A j \in DOMAIN w : w[j] \in Nodes
  BY <1>1, <1>4
<1>6. DOMAIN u = DOMAIN w \cup {new} /\ u[new] = n /\ (\A j \in DOMAIN w : j # new => u[j] = w[j])
      /\ u \in [DOMAIN u -> Nodes]
  BY <1>2, <1>3, <1>5 DEF With
<1> QED BY <1>2, <1>4, <1>6 DEF ReIded

\* A file that keeps its id and its size stays as it is.
LEMMA ReIdSame ==
  ASSUME NEW t, Course(t), NEW id \in DOMAIN t, NEW size, t[id].size = size
  PROVE  ReId(t, id, id, size) = t
<1> DEFINE n == [t[id] EXCEPT !.size = size]
           w == Without(t, {id})
<1>1. t[id] \in Nodes /\ t \in [DOMAIN t -> Nodes]
  BY DEF Course
<1>2. n = t[id]
  <2>1. size \in Int
    BY <1>1 DEF Nodes
  <2>2. /\ n \in Nodes /\ n.parent = t[id].parent /\ n.name = t[id].name /\ n.size = size
        /\ n.dir = t[id].dir
    BY <1>1, <2>1 DEF Nodes
  <2> HIDE DEF n
  <2> QED BY <1>1, <2>2, SameNode
<1>3. ReId(t, id, id, size) = With(w, id, n)
  BY DEF ReId
<1> HIDE DEF n
<1>4. DOMAIN w = DOMAIN t \ {id} /\ \A j \in DOMAIN w : w[j] = t[j]
  BY DEF Without, Restrict
<1> HIDE DEF w
<1>5. With(w, id, n) = [j \in DOMAIN t |-> t[j]]
  BY <1>2, <1>4 DEF With
<1> QED BY <1>1, <1>3, <1>5

\* The rest of a path leads from its start's node to where the path leads.
LEMMA RestIs ==
  ASSUME NEW t, NEW r \in Names, NEW p \in Names, IsPrefix(r, p)
  PROVE  GetNodeAtPath(t, At(t, r), SubSeq(p, Len(r) + 1, Len(p))) = At(t, p)
<1> DEFINE s == SubSeq(p, Len(r) + 1, Len(p))
<1>1. /\ Len(r) \in Nat /\ Len(p) \in Nat /\ Len(r) <= Len(p)
      /\ \A k \in 1..Len(r) : r[k] = p[k]
  BY PrefixIs
<1>2. s \in Names /\ Len(s) = Len(p) - Len(r) /\ \A k \in 1..Len(s) : s[k] = p[Len(r) + k]
  <2>1. CASE Len(r) = Len(p)
    <3>1. s = <<>>
      BY <1>1, <2>1, SubSeqEmpty DEF Names
    <3>2. <<>> \in Names /\ Len(<<>>) = 0
      BY EmptySeq DEF Names
    <3>3. Len(p) - Len(r) = 0 /\ \A k \in 1..0 : FALSE
      BY <1>1, <2>1
    <3> HIDE DEF s
    <3> QED BY <3>1, <3>2, <3>3
  <2>2. CASE Len(r) < Len(p)
    <3>1. Len(r) + 1 \in 1..Len(p) /\ Len(p) \in 1..Len(p)
      BY <1>1, <2>2
    <3> QED BY <1>1, <3>1 DEF Names
  <2> QED BY <1>1, <2>1, <2>2
<1> HIDE DEF s
<1>3. r \o s = p
  <2>1. r \o s \in Names /\ Len(r \o s) = Len(r) + Len(s)
    BY <1>2 DEF Names
  <2>2. ASSUME NEW k \in 1..Len(p) PROVE (r \o s)[k] = p[k]
    <3>1. (r \o s)[k] = IF k <= Len(r) THEN r[k] ELSE s[k - Len(r)]
      BY <1>1, <1>2, <2>2 DEF Names
    <3>2. CASE k <= Len(r)
      BY <1>1, <3>1, <3>2
    <3>3. CASE ~(k <= Len(r))
      <4>1. k - Len(r) \in 1..Len(s)
        BY <1>1, <1>2, <3>3
      <4>2. Len(r) + (k - Len(r)) = k
        BY <1>1
      <4> QED BY <1>2, <3>1, <3>3, <4>1, <4>2
    <3> QED BY <3>2, <3>3
  <2>3. Len(r \o s) = Len(p)
    BY <1>1, <1>2, <2>1
  <2> QED BY <2>1, <2>2, <2>3, SeqEqual DEF Names
<1>4. GetNodeAtPath(t, GetNodeAtPath(t, Top, r), s) = GetNodeAtPath(t, Top, r \o s)
  BY <1>2, PathJoined
<1> QED BY <1>3, <1>4 DEF At, s

\* What is at the start of a path, or below a start of it.
LEMMA StartIs ==
  ASSUME NEW p \in Names, NEW n \in 1..Len(p)
  PROVE  /\ SubSeq(p, 1, n) \in Names /\ SubSeq(p, 1, n) # <<>> /\ IsPrefix(SubSeq(p, 1, n), p)
<1> DEFINE q == SubSeq(p, 1, n)
<1>1. q \in Names /\ Len(q) = n /\ (\A k \in 1..n : q[k] = p[k]) /\ n <= Len(p) /\ n \in Nat \ {0}
  BY DEF Names
<1> HIDE DEF q
<1>2. q # <<>>
  <2>1. Len(<<>>) = 0
    OBVIOUS
  <2> QED BY <1>1, <2>1
<1>3. IsPrefix(q, p)
  BY <1>1, PrefixIs
<1> QED BY <1>1, <1>2, <1>3 DEF q

-----------------------------------------------------------------------------
(* The inductive invariant. *)

\* rclone knows the size of what it uploads. (Of unknown sizes, which are below 0,
\* MCStudIPFsUnknown shows that the tree then records a size the course has not.)
KnownSizes == \A o \in Scenarios : o.sizes \subseteq Nat

\* The types of the variables.
OpNames == {"none", "put", "mkdir", "rmdir", "purge", "update", "remove", "move", "dirmove"}
StepNames ==
  {"ensure", "begin", "look", "again", "stat", "parents", "create", "license", "overwrite",
   "unlink", "mkdir", "rmdir", "copy", "cleanup", "rename", "reparent", "done"}
Calls ==
  [op : OpNames, f : Fs, src : Fs, at : Names, to : Names, size : Int, id : Int, new : Int,
   made : BOOLEAN, again : BOOLEAN, dirty : BOOLEAN, lost : BOOLEAN, step : StepNames,
   result : {"none", "ok", "failed", "exists"}]
Objects == [id : Int, at : Names, size : Int]

\* The tree of the call's instance, and when the call has looked at it.
Now == tree[call.f]
Started == call.step \notin {"done", "ensure"}
\* A course with ids below n; the trees that count are t.
Whole(t, n) == Course(t) /\ DOMAIN t \subseteq 1..(n - 1)
Shows(t) ==
  /\ \A f \in Fs : label[f] = counter => tree[f] = t
  /\ snapshot.gen = counter => snapshot.tree = t

\* No tree is labelled with a counter that is yet to come.
Labels ==
  /\ counter \in Nat /\ snapshot.gen \in Nat /\ snapshot.gen <= counter
  /\ label \in [Fs -> Nat] /\ \A f \in Fs : label[f] <= counter
  /\ tree = [f \in Fs |-> tree[f]] /\ relativeRoot = [f \in Fs |-> relativeRoot[f]]
Types == opt \in Scenarios /\ next \in Nat \ {0} /\ call \in Calls /\ held \in [Fs -> Objects]

\* What a call is about belongs to its instance, and so do the objects rclone holds.
Arguments ==
  /\ \A f \in Fs : held[f] = NoObject \/ (held[f].id # None /\ held[f].at \in Files(f))
  /\ call.op = "update" => held[call.f].id # None
  /\ call.op \in {"put", "update", "remove"} => call.at \in Files(call.f)
  /\ call.op \in {"mkdir", "rmdir", "purge"} => call.at \in Folders(call.f)
  /\ call.op = "move" => call.at \in Files(call.src) /\ call.to \in Files(call.f)
  /\ call.op = "dirmove" => call.at \in Folders(call.src) /\ call.to \in Folders(call.f)
  /\ call.op \in {"put", "update"} => call.size \in opt.sizes

\* The course and every tree are courses, out of date or not.
Trees == Whole(server, next) /\ \A f \in Fs : Whole(tree[f], next)

\* The root that is remembered is where the root is in the tree that counts.
Rooted == \A f \in Fs : relativeRoot[f] \in {None, At(tree[f], Root[f])}
Roots ==
  /\ Rooted
  /\ \A f \in Fs : label[f] = counter /\ (f = call.f => ~call.made) =>
                     relativeRoot[f] = At(tree[f], Root[f])

\* Between calls the trees that count are the course, and during one they are the
\* tree of the call's instance until it has made a folder of its own.
Caches ==
  /\ ~Started => Shows(server)
  /\ Started => label[call.f] = counter /\ (~call.made => Shows(Now))

\* The steps of each operation.
Fits(op, step) ==
  /\ step = "mkdir" => op = "mkdir"
  /\ step \in {"create", "overwrite", "license"} => op \in {"put", "update"}
  /\ step \in {"stat", "copy", "rename", "cleanup"} => op = "move"
  /\ step = "reparent" => op = "dirmove"
  /\ step = "rmdir" => op \in {"rmdir", "purge"}
  /\ step = "unlink" => op \in {"update", "remove", "move"}
  /\ step = "parents" => op \in {"put", "update", "mkdir", "move", "dirmove"}
\* What the steps of a call have done.
Flags ==
  /\ call.made => call.dirty /\ call.step = "parents"
  /\ call.again => call.op = "update"
  /\ call.step \in {"done", "ensure", "begin", "overwrite"} => ~call.dirty
  /\ Fits(call.op, call.step)

\* What is at the paths of a call before its handler has looked at the tree.
Ready(t) ==
  /\ call.op = "put" => At(t, call.at) = None \/ FileAt(t, call.at, At(t, call.at))
  /\ call.op \in {"update", "remove", "move"} => FileAt(t, call.at, call.id)
  /\ call.op = "move" => call.to = call.at \/ At(t, call.to) = None

\* What is at the paths of a call when its handler has looked at the tree.
Aimed(t, id) ==
  /\ call.op = "put" => At(t, call.at) = None
  /\ call.op = "mkdir" => call.at # <<>>
  /\ call.op \in {"update", "remove", "move"} => FileAt(t, call.at, id)
  /\ call.op \in {"rmdir", "purge", "dirmove"} => At(t, call.at) = id /\ id \in DOMAIN t
  /\ call.op \in {"move", "dirmove"} => At(t, call.to) = None

\* Where a call has looked, and sends the requests that change the course.
Aiming == {"parents", "mkdir", "create", "copy", "rename", "reparent", "rmdir", "unlink", "cleanup"}
\* What a call knows at each step.
Steps ==
  /\ call.step = "ensure" => Ready(server)
  /\ call.step \in {"begin", "look", "again", "stat"} => Ready(Now)
  /\ call.step = "begin" => label[call.src] = counter
  /\ call.step \in Aiming => Aimed(Now, call.id)
  /\ call.step = "overwrite" => FileAt(Now, call.at, call.id)
  /\ call.step = "rename" => Front(call.at) = Front(call.to)
  /\ call.step = "license" /\ call.again => FileAt(Now, call.at, call.id) /\ Now[call.id].size = call.size

\* The course is the tree and one file more.
Leads(id, p, size) ==
  /\ IsDir(Now, At(Now, Front(p))) /\ id \notin DOMAIN Now /\ At(Now, p) = None
  /\ server = With(Now, id, File(At(Now, Front(p)), Last(p), size))

\* An update has removed the file and not yet created it; an upload is created and
\* not yet in the tree; a move has copied and not yet removed, or not yet entered it.
Replacing == call.step = "create" /\ call.op = "update"
Entering == call.step = "license" /\ call.dirty
Moving == call.step \in {"unlink", "cleanup"} /\ call.op = "move"
\* How far the course is ahead of the tree of the call's instance.
Lag ==
  /\ Started /\ ~Replacing /\ ~Entering /\ ~Moving => server = Now
  /\ Replacing => call.dirty /\ server = Without(Now, {call.id})
  /\ Entering => call.op = "put" /\ Leads(call.id, call.at, call.size)
  /\ Moving => call.dirty /\ Leads(call.new, call.to, Now[call.id].size)

\* The inductive invariant, as long as nothing has failed on the way.
Sound == Labels /\ Types /\ Arguments /\ Trees /\ Roots /\ Caches /\ Flags /\ Steps /\ Lag

\* A move cleans up its copy although the source is gone too, since the answer to its
\* removal was lost: the next step sets drifted.
LostAtLast ==
  call.lost /\ call.step = "cleanup" /\ (\E n : Whole(server, n)) /\ Rooted
Inv == drifted \/ LostAtLast \/ Sound

-----------------------------------------------------------------------------
\* Files and folders of an instance are at or below its root.
LEMMA PathsAre ==
  ASSUME opt \in Scenarios, NEW f \in Fs
  PROVE  /\ Root[f] \in Names
         /\ \A p \in Files(f) : p \in Names /\ p # <<>> /\ IsPrefix(Root[f], p) /\ p # Root[f]
         /\ \A p \in Folders(f) : p \in Names /\ IsPrefix(Root[f], p)
<1>1. Root[f] \in Names /\ \A p \in opt.dirs \cup opt.paths : p \in Names /\ p # <<>>
  BY ConstantsAssumption DEF Names
<1> QED BY <1>1 DEF Files, Folders, Own

\* Ids are numbers.
LEMMA AtInt ==
  ASSUME NEW t, Course(t), NEW p \in Names
  PROVE  At(t, p) \in Int /\ (At(t, p) # None => At(t, p) \in Nat)
<1>1. DOMAIN t \subseteq Nat
  BY DEF Course
<1> QED BY <1>1, AtIs DEF None, Top

\* A search from the root finds what the path from the top leads to.
LEMMA FindIs ==
  ASSUME opt \in Scenarios, NEW f \in Fs, NEW t, NEW p \in Names, IsPrefix(Root[f], p)
  PROVE  NodeOf(t, At(t, Root[f]), f, p) = At(t, p)
<1>1. Root[f] \in Names
  BY PathsAre
<1> QED BY <1>1, RestIs DEF NodeOf, Rest

\* Ids below a bound are below a later one.
LEMMA WholeLater ==
  ASSUME NEW t, NEW n \in Nat, NEW m \in Nat, n <= m, Whole(t, n)
  PROVE  Whole(t, m)
<1>1. 1..(n - 1) \subseteq 1..(m - 1)
  OBVIOUS
<1> QED BY <1>1 DEF Whole

\* Who f is, and that its tree is the one that counts.
LEMMA Facts ==
  ASSUME Sound
  PROVE  /\ opt \in Scenarios /\ call \in Calls /\ next \in Nat \ {0} /\ call.f \in Fs /\ call.src \in Fs
         /\ Course(Now) /\ Course(server) /\ Whole(Now, next) /\ Whole(server, next)
         /\ call.at \in Names /\ call.to \in Names
         /\ Started /\ ~call.made => relativeRoot[call.f] = At(Now, Root[call.f])
BY DEF Sound, Types, Calls, Trees, Whole, Now, Roots, Caches

\* The handlers search the tree of their instance.
LEMMA FoundIs ==
  ASSUME Sound, Started, ~call.made, call.op \in {"put", "update", "remove", "rmdir", "purge", "mkdir"}
  PROVE  Find(call.f, call.at) = At(Now, call.at)
<1>1. opt \in Scenarios /\ call.f \in Fs /\ relativeRoot[call.f] = At(Now, Root[call.f])
  BY Facts
<1>2. call.at \in Names /\ IsPrefix(Root[call.f], call.at)
  BY <1>1, PathsAre DEF Sound, Arguments
<1> QED BY <1>1, <1>2, FindIs DEF Find, Now

-----------------------------------------------------------------------------
\* The call is about what it was about.
Same ==
  /\ call'.op = call.op /\ call'.f = call.f /\ call'.src = call.src /\ call'.at = call.at
  /\ call'.to = call.to /\ call'.size = call.size

\* Only the call has gone on.
LEMMA OnlyCall ==
  ASSUME Sound, UNCHANGED <<opt, course, caches, held>>, call' \in Calls, Same,
         ~call'.made, ~call.made
  PROVE  Labels' /\ Types' /\ Arguments' /\ Trees' /\ Roots' /\ Now' = Now
         /\ (\A t : Shows(t) => Shows(t)')
<1>1. Labels' /\ Types' /\ Trees'
  BY DEF Sound, course, caches, Labels, Types, Trees
<1>2. Arguments'
  BY DEF Sound, Arguments, Same, Files, Folders, Own
<1>3. Roots' /\ Now' = Now /\ (\A t : Shows(t) => Shows(t)')
  BY DEF Sound, Roots, Rooted, Same, caches, Now, Shows
<1> QED BY <1>1, <1>2, <1>3

\* A call that is over.
Over ==
  /\ call' \in Calls /\ Same /\ call'.step = "done"
  /\ ~call'.made /\ ~call'.again /\ ~call'.dirty

\* A call that returns is over.
LEMMA ReturnIs ==
  ASSUME call \in Calls, NEW r \in {"ok", "failed", "exists"}, Return(r)
  PROVE  Over
<1>1. None \in Int /\ "done" \in StepNames
  BY DEF StepNames, None
<1>2. call' = [call EXCEPT !.step = "done", !.result = r, !.id = None, !.new = None,
                           !.made = FALSE, !.again = FALSE, !.dirty = FALSE]
  BY DEF Return
<1>3. call' \in Calls
  BY <1>1, <1>2 DEF Calls
<1>4. Same
  BY <1>1, <1>2 DEF Calls, Same
<1>5. ~call'.made /\ ~call'.again /\ call'.step = "done" /\ ~call'.dirty
  BY <1>1, <1>2 DEF Calls
<1> QED BY <1>3, <1>4, <1>5 DEF Over

\* A call is over when every current tree is the course.
LEMMA Ended ==
  ASSUME Sound, Over, UNCHANGED <<opt, held>>, next' \in Nat \ {0},
         Labels', Trees', Roots', Shows(server)'
  PROVE  Sound'
<1>1. Types' /\ Arguments'
  BY DEF Sound, Types, Arguments, Over, Same, Files, Folders, Own
<1>2. Caches' /\ Flags' /\ Steps' /\ Lag'
  BY DEF Caches, Flags, Fits, Steps, Lag, Started, Replacing, Entering, Moving, Aiming, Over
<1> QED BY <1>1, <1>2 DEF Sound

\* A call that has changed nothing more than its tree shows is over.
LEMMA Stops ==
  ASSUME Sound, UNCHANGED <<opt, course, caches, held>>, Over, ~call.made, Started => server = Now
  PROVE  Sound'
<1>1. Labels' /\ Types' /\ Trees' /\ Roots' /\ (\A t : Shows(t) => Shows(t)')
  BY OnlyCall DEF Over
<1>2. Shows(server)'
  <2>1. Shows(server)
    BY DEF Sound, Caches
  <2> QED BY <1>1, <2>1 DEF course, Shows
<1> QED BY <1>1, <1>2, Ended DEF Types

\* A call that has changed nothing goes on to its next step.
LEMMA Passes ==
  ASSUME Sound, UNCHANGED <<opt, course, caches, held>>, Same, call' \in Calls,
         Started, Started', ~call.made, ~call'.made, server = Now,
         ~Replacing', ~Entering', ~Moving', Flags', Steps'
  PROVE  Sound'
<1>1. Labels' /\ Types' /\ Arguments' /\ Trees' /\ Roots' /\ Now' = Now
      /\ (\A t : Shows(t) => Shows(t)')
  BY OnlyCall
<1>2. label'[call'.f] = counter' /\ Shows(Now)'
  <2>1. label[call.f] = counter /\ Shows(Now)
    BY DEF Sound, Caches
  <2>2. Shows(Now)'
    BY <1>1, <2>1 DEF Shows
  <2> QED BY <2>1, <2>2 DEF Same, caches
<1>3. Caches' /\ Lag'
  BY <1>1, <1>2 DEF Caches, Lag, course
<1> QED BY <1>1, <1>3 DEF Sound

-----------------------------------------------------------------------------
(* Handlers that read the tree and send no request yet. *)

\* None is a number, and no node's id.
LEMMA NoneInt == None \in Int
BY DEF None

\* The call goes on to the step s and to the node id.
Onto(s, id) ==
  /\ call' \in Calls /\ Same /\ call'.step = s /\ call'.id = id
  /\ call'.made = call.made /\ call'.dirty = call.dirty
  /\ call'.again => call.again \/ call.op = "update"

\* Pass goes on, and changes nothing else.
LEMMA PassIs ==
  ASSUME call \in Calls, NEW s \in StepNames, NEW id \in Int, NEW a \in BOOLEAN, Pass(s, id, a),
         a => call.op = "update"
  PROVE  Onto(s, id) /\ UNCHANGED <<course, caches, held>>
<1>1. call' = [call EXCEPT !.step = s, !.id = id, !.again = a]
  BY DEF Pass
<1>2. call' \in Calls /\ Same
  BY <1>1 DEF Calls, Same
<1>3. call'.step = s /\ call'.id = id /\ call'.made = call.made /\ call'.dirty = call.dirty
      /\ (call'.again = a)
  BY <1>1 DEF Calls
<1> QED BY <1>2, <1>3 DEF Pass, Onto

\* Nothing changes but that the call stops.
LEMMA StopIs ==
  ASSUME Sound, UNCHANGED opt, NEW r \in {"ok", "failed", "exists"}, Stop(r),
         ~call.made, Started => server = Now
  PROVE  Sound'
<1>1. Over
  BY ReturnIs, Facts DEF Stop
<1> QED BY <1>1, Stops DEF Stop

\* Go goes on, and keeps the node.
LEMMA GoIs ==
  ASSUME call \in Calls, NEW s \in StepNames, Go(s)
  PROVE  Onto(s, call.id)
<1>1. call' = [call EXCEPT !.step = s]
  BY DEF Go
<1>2. call' \in Calls /\ Same
  BY <1>1 DEF Calls, Same
<1>3. call'.step = s /\ call'.id = call.id /\ call'.made = call.made /\ call'.dirty = call.dirty
      /\ call'.again = call.again
  BY <1>1 DEF Calls
<1> QED BY <1>2, <1>3 DEF Onto

\* What holds while a handler reads the tree.
LEMMA Reading ==
  ASSUME Sound, call.step \in {"begin", "look", "again", "stat"}
  PROVE  /\ Started /\ ~call.made /\ server = Now /\ Ready(Now) /\ call \in Calls
         /\ call.step = "begin" => ~call.dirty /\ tree[call.src] = Now
<1>1. Started /\ ~call.made /\ Ready(Now) /\ call \in Calls
  BY DEF Sound, Flags, Steps, Started, Types
<1>2. server = Now
  BY DEF Sound, Lag, Started, Replacing, Entering, Moving
<1>3. ASSUME call.step = "begin" PROVE ~call.dirty /\ tree[call.src] = Now
  <2>1. call.src \in Fs
    BY Facts
  <2> QED BY <1>1, <1>3, <2>1 DEF Sound, Flags, Steps, Caches, Shows
<1> QED BY <1>1, <1>2, <1>3

\* A handler has read the tree and goes on.
LEMMA PassesOn ==
  ASSUME Sound, call.step \in {"begin", "look", "again", "stat"},
         UNCHANGED <<opt, course, caches, held>>,
         NEW s \in StepNames \ {"ensure", "begin", "create", "license", "cleanup", "done"},
         NEW id \in Int, Onto(s, id), Fits(call.op, s),
         s = "unlink" => call.op # "move",
         s \in {"look", "again", "stat"} => id = call.id \/ call.op \in {"rmdir", "purge"},
         s \in Aiming => Aimed(Now, id),
         s = "rename" => Front(call.at) = Front(call.to),
         s = "overwrite" => FileAt(Now, call.at, id) /\ call.step = "begin"
  PROVE  Sound'
<1>1. Started /\ ~call.made /\ server = Now /\ Ready(Now) /\ call \in Calls
      /\ (call.step = "begin" => ~call.dirty)
  BY Reading
<1>2. Now' = Now
  BY DEF Now, Onto, Same, caches
<1>3. Started' /\ ~Replacing' /\ ~Entering' /\ ~Moving'
  BY DEF Started, Replacing, Entering, Moving, Onto, Same
<1>4. Flags'
  BY <1>1 DEF Flags, Onto, Same, Sound
<1>5. s \in Aiming => Aimed(Now, call.id)'
  BY <1>2 DEF Onto, Same, Aimed
<1>6. s \in {"look", "again", "stat"} => Ready(Now)'
  BY <1>1, <1>2 DEF Onto, Same, Ready
<1>7. Steps'
  BY <1>2, <1>5, <1>6 DEF Steps, Onto, Same
<1> QED BY <1>1, <1>3, <1>4, <1>7, Passes DEF Onto

\* Each handler that only reads keeps the invariant.
LEMMA BeginPutStep ==
  ASSUME Sound, BeginPut, UNCHANGED opt
  PROVE  Sound'
<1> DEFINE id == At(Now, call.at)
<1>1. call.op = "put" /\ call.step = "begin"
  BY DEF BeginPut
<1>2. Started /\ ~call.made /\ server = Now /\ Ready(Now) /\ ~call.dirty /\ call \in Calls
  BY <1>1, Reading
<1>3. Find(call.f, call.at) = id /\ id \in Int /\ call.at \in Names /\ Course(Now)
  BY <1>1, <1>2, FoundIs, Facts, AtInt
<1>4. id = None \/ FileAt(Now, call.at, id)
  BY <1>1, <1>2 DEF Ready
<1>5. CASE id # None
  <2>1. FileAt(Now, call.at, id) /\ ~IsDir(Now, id)
    <3>1. id # Top
      BY <1>3, <1>4, <1>5, AtIs, ChildIs DEF FileAt
    <3> QED BY <1>4, <1>5, <3>1 DEF FileAt, IsDir
  <2>2. Pass("overwrite", id, FALSE)
    BY <1>1, <1>3, <1>5, <2>1 DEF BeginPut, Now
  <2>3. Onto("overwrite", id) /\ UNCHANGED <<course, caches, held>>
    BY <1>2, <1>3, <2>2, PassIs DEF StepNames
  <2> QED BY <1>1, <1>3, <2>1, <2>3, PassesOn DEF Fits, StepNames, Aiming
<1>6. CASE id = None
  <2>1. Pass("parents", None, FALSE)
    BY <1>1, <1>3, <1>6 DEF BeginPut, Now
  <2>2. Onto("parents", None) /\ UNCHANGED <<course, caches, held>>
    BY <1>2, <2>1, NoneInt, PassIs DEF StepNames
  <2>3. Aimed(Now, None)
    BY <1>1, <1>6 DEF Aimed
  <2> QED BY <1>1, <2>2, <2>3, NoneInt, PassesOn DEF Fits, StepNames
<1> QED BY <1>5, <1>6

LEMMA BeginMkdirStep ==
  ASSUME Sound, BeginMkdir, UNCHANGED opt
  PROVE  Sound'
<1>1. call.op = "mkdir" /\ call.step = "begin"
  BY DEF BeginMkdir
<1>2. Started /\ ~call.made /\ server = Now /\ call \in Calls
  BY <1>1, Reading
<1>3. CASE call.at = Root[call.f] /\ relativeRoot[call.f] # None
  <2>1. Stop("ok")
    BY <1>1, <1>3 DEF BeginMkdir
  <2> QED BY <1>2, <2>1, StopIs
<1>4. CASE ~(call.at = Root[call.f] /\ relativeRoot[call.f] # None)
  <2>1. Pass("parents", None, FALSE)
    BY <1>1, <1>4 DEF BeginMkdir
  <2>2. Onto("parents", None) /\ UNCHANGED <<course, caches, held>>
    BY <1>2, <2>1, NoneInt, PassIs DEF StepNames
  <2>3. call.at # <<>>
    <3> SUFFICES ASSUME call.at = <<>> PROVE FALSE
      OBVIOUS
    <3>1. call.f \in Fs /\ opt \in Scenarios /\ relativeRoot[call.f] = At(Now, Root[call.f])
      BY <1>2, Facts
    <3>2. call.at \in Folders(call.f)
      BY <1>1 DEF Sound, Arguments
    <3>3. Root[call.f] \in Names /\ IsPrefix(Root[call.f], call.at)
      BY <3>1, <3>2, PathsAre
    <3>4. Root[call.f] = <<>>
      BY <3>3, PrefixSelf
    <3>5. relativeRoot[call.f] = Top
      BY <3>1, <3>4, AtEmpty
    <3> QED BY <1>4, <3>4, <3>5 DEF Top, None
  <2>4. Aimed(Now, None)
    BY <1>1, <2>3 DEF Aimed
  <2> QED BY <1>1, <2>2, <2>4, NoneInt, PassesOn DEF Fits, StepNames
<1> QED BY <1>3, <1>4

LEMMA BeginRmdirStep ==
  ASSUME Sound, BeginRmdir, UNCHANGED opt
  PROVE  Sound'
<1> DEFINE id == At(Now, call.at)
<1>1. call.op \in {"rmdir", "purge"} /\ call.step \in {"begin", "again"}
  BY DEF BeginRmdir
<1>2. Started /\ ~call.made /\ server = Now /\ call \in Calls
  BY <1>1, Reading
<1>3. Find(call.f, call.at) = id /\ id \in Int /\ call.at \in Names /\ Course(Now)
  BY <1>1, <1>2, FoundIs, Facts, AtInt
<1>4. CASE Stop("failed")
  BY <1>2, <1>4, StopIs
<1>5. CASE id \notin {None, Top} /\ Pass("rmdir", id, FALSE)
  <2>1. Onto("rmdir", id) /\ UNCHANGED <<course, caches, held>>
    BY <1>2, <1>3, <1>5, PassIs DEF StepNames
  <2>2. id \in DOMAIN Now
    BY <1>3, <1>5, AtIs
  <2>3. Aimed(Now, id)
    BY <1>1, <2>2 DEF Aimed
  <2> QED BY <1>1, <1>3, <2>1, <2>3, PassesOn DEF Fits, StepNames
<1>6. CASE Pass("look", id, FALSE)
  <2>1. Onto("look", id) /\ UNCHANGED <<course, caches, held>>
    BY <1>2, <1>3, <1>6, PassIs DEF StepNames
  <2> QED BY <1>1, <1>3, <2>1, PassesOn DEF Fits, StepNames, Aiming
<1> QED BY <1>3, <1>4, <1>5, <1>6 DEF BeginRmdir

LEMMA BeginUpdateStep ==
  ASSUME Sound, BeginUpdate, UNCHANGED opt
  PROVE  Sound'
<1>1. call.op = "update" /\ call.step = "begin"
  BY DEF BeginUpdate
<1>2. Started /\ ~call.made /\ server = Now /\ Ready(Now) /\ call \in Calls /\ call.id \in Int
  BY <1>1, Reading DEF Calls
<1>3. FileAt(Now, call.at, call.id)
  BY <1>1, <1>2 DEF Ready
<1>4. CASE Pass("parents", call.id, TRUE)
  <2>1. Onto("parents", call.id) /\ UNCHANGED <<course, caches, held>>
    BY <1>1, <1>2, <1>4, PassIs DEF StepNames
  <2>2. Aimed(Now, call.id)
    BY <1>1, <1>3 DEF Aimed
  <2> QED BY <1>1, <1>2, <2>1, <2>2, PassesOn DEF Fits, StepNames
<1>5. CASE Pass("overwrite", call.id, FALSE)
  <2>1. Onto("overwrite", call.id) /\ UNCHANGED <<course, caches, held>>
    BY <1>2, <1>5, PassIs DEF StepNames
  <2> QED BY <1>1, <1>2, <1>3, <2>1, PassesOn DEF Fits, StepNames, Aiming
<1> QED BY <1>1, <1>4, <1>5 DEF BeginUpdate

LEMMA BeginRemoveStep ==
  ASSUME Sound, BeginRemove, UNCHANGED opt
  PROVE  Sound'
<1>1. call.op = "remove" /\ call.step = "begin" /\ Pass("unlink", call.id, FALSE)
  BY DEF BeginRemove
<1>2. Ready(Now) /\ call \in Calls /\ call.id \in Int
  BY <1>1, Reading DEF Calls
<1>3. Aimed(Now, call.id)
  BY <1>1, <1>2 DEF Aimed, Ready
<1>4. Onto("unlink", call.id) /\ UNCHANGED <<course, caches, held>>
  BY <1>1, <1>2, PassIs DEF StepNames
<1> QED BY <1>1, <1>2, <1>3, <1>4, PassesOn DEF Fits, StepNames

LEMMA BeginMoveStep ==
  ASSUME Sound, BeginMove, UNCHANGED opt
  PROVE  Sound'
<1>1. call.op = "move" /\ call.step = "begin"
  BY DEF BeginMove
<1>2. Started /\ ~call.made /\ server = Now /\ call \in Calls /\ call.id \in Int
  BY <1>1, Reading DEF Calls
<1>3. CASE Stop("failed")
  BY <1>2, <1>3, StopIs
<1>4. CASE Pass("stat", call.id, FALSE)
  <2>1. Onto("stat", call.id) /\ UNCHANGED <<course, caches, held>>
    BY <1>2, <1>4, PassIs DEF StepNames
  <2> QED BY <1>1, <1>2, <2>1, PassesOn DEF Fits, StepNames, Aiming
<1> QED BY <1>1, <1>3, <1>4 DEF BeginMove

LEMMA BeginDirMoveStep ==
  ASSUME Sound, BeginDirMove, UNCHANGED opt
  PROVE  Sound'
<1> DEFINE id == At(Now, call.at)
<1>1. call.op = "dirmove" /\ call.step = "begin"
  BY DEF BeginDirMove
<1>2. Started /\ ~call.made /\ server = Now /\ call \in Calls /\ tree[call.src] = Now
  BY <1>1, Reading
<1>3. id \in Int /\ call.at \in Names /\ Course(Now)
  BY Facts, AtInt
<1>4. CASE Stop("exists") \/ Stop("failed")
  BY <1>2, <1>4, StopIs
<1>5. CASE At(Now, call.to) = None /\ id \notin {None, Top} /\ Pass("parents", id, FALSE)
  <2>1. Onto("parents", id) /\ UNCHANGED <<course, caches, held>>
    BY <1>2, <1>3, <1>5, PassIs DEF StepNames
  <2>2. id \in DOMAIN Now
    BY <1>3, <1>5, AtIs
  <2>3. Aimed(Now, id)
    BY <1>1, <1>5, <2>2 DEF Aimed
  <2> QED BY <1>1, <1>3, <2>1, <2>3, PassesOn DEF Fits, StepNames
<1> QED BY <1>1, <1>2, <1>4, <1>5 DEF BeginDirMove, At

LEMMA DirMoveOntoItselfStep ==
  ASSUME Sound, DirMoveOntoItself, UNCHANGED opt
  PROVE  Sound'
<1>1. call.step = "ensure" /\ Stop("exists")
  BY DEF DirMoveOntoItself
<1>2. ~Started /\ ~call.made
  BY <1>1 DEF Started, Sound, Flags
<1> QED BY <1>1, <1>2, StopIs

LEMMA AlreadyThereStep ==
  ASSUME Sound, AlreadyThere, UNCHANGED opt
  PROVE  Sound'
<1>1. call.step = "mkdir" /\ Stop("ok")
  BY DEF AlreadyThere
<1>2. ~call.made /\ server = Now
  BY <1>1 DEF Sound, Flags, Lag, Started, Replacing, Entering, Moving
<1> QED BY <1>1, <1>2, StopIs

-----------------------------------------------------------------------------
(* Refreshes, and the lookups of NewObject. *)

\* Below no folder there is nothing.
LEMMA NoneIs ==
  ASSUME NEW t, Course(t), NEW p \in Names
  PROVE  GetNodeAtPath(t, None, p) = None
<1> DEFINE Q == {q \in Names : GetNodeAtPath(t, None, q) = None}
<1>1. <<>> \in Q
  BY PathStart, EmptySeq DEF Names
<1>2. ASSUME NEW q \in Names, q # <<>>, Front(q) \in Q PROVE q \in Q
  <2>1. GetNodeAtPath(t, None, q) = Child(t, None, Last(q))
    BY <1>2, PathStep
  <2>2. \A i \in DOMAIN t : t[i].parent # None
    <3> TAKE i \in DOMAIN t
    <3>1. t[i].parent \in Nat
      BY DEF Course, Nodes
    <3> QED BY <3>1 DEF None
  <2> QED BY <1>2, <2>1, <2>2, ChildIs
<1>3. Q = Names
  <2> HIDE DEF Q
  <2>1. Q \in SUBSET Names
    BY DEF Q
  <2> QED BY <1>1, <1>2, <2>1, PathInd
<1> QED BY <1>3

\* A refresh installs the course.
LEMMA Refreshed ==
  ASSUME Sound, NEW some \in SUBSET Fs, Refresh(some) \/ Refresh(Outdated(some)), Shows(server),
         UNCHANGED <<opt, course>>, ~call.made, ~call'.made
  PROVE  /\ Labels' /\ Trees' /\ Shows(server)' /\ Roots'
         /\ \A f \in some : label'[f] = counter' /\ tree'[f] = server
<1>1. PICK S \in SUBSET some : Refresh(S) /\ \A f \in some \ S : label[f] = counter
  BY DEF Outdated
<1>2. Latest = server
  BY DEF Latest, Shows
<1>3. /\ tree' = [f \in Fs |-> IF f \in S THEN server ELSE tree[f]]
      /\ relativeRoot' = [f \in Fs |-> IF f \in S THEN At(server, Root[f]) ELSE relativeRoot[f]]
      /\ label' = [f \in Fs |-> IF f \in S THEN counter ELSE label[f]]
      /\ snapshot' = IF S = {} THEN snapshot ELSE [gen |-> counter, tree |-> server]
      /\ counter' = counter
  BY <1>1, <1>2 DEF Refresh, At
<1>4. server' = server /\ next' = next
  BY DEF course
<1>5. Labels /\ Trees /\ Roots
  BY DEF Sound
<1>6. \A f \in Fs : label[f] = counter => tree[f] = server
  BY DEF Shows
<1>7. \A f \in Fs : /\ tree'[f] = IF f \in S THEN server ELSE tree[f]
                    /\ relativeRoot'[f] = IF f \in S THEN At(server, Root[f]) ELSE relativeRoot[f]
                    /\ label'[f] = IF f \in S THEN counter ELSE label[f]
  BY <1>3
<1>8. Labels'
  BY <1>3, <1>5 DEF Labels
<1>9. Trees'
  BY <1>4, <1>5, <1>7 DEF Trees
<1>10. Shows(server)'
  <2>1. \A f \in Fs : label'[f] = counter' => tree'[f] = server'
    BY <1>3, <1>4, <1>6, <1>7
  <2>2. snapshot'.gen = counter' => snapshot'.tree = server'
    BY <1>3, <1>4 DEF Shows
  <2> QED BY <2>1, <2>2 DEF Shows
<1>11. Roots'
  BY <1>3, <1>5, <1>7 DEF Roots, Rooted
<1>12. \A f \in some : label'[f] = counter' /\ tree'[f] = server
  BY <1>1, <1>3, <1>6, <1>7
<1> QED BY <1>8, <1>9, <1>10, <1>11, <1>12

\* A lookup, with or without a refresh, keeps the invariant.
LEMMA NewObjectStep ==
  ASSUME Sound, UNCHANGED opt, NEW f \in Fs, NEW p \in Files(f), NewObject(f, p)
  PROVE  Sound'
<1>1. call.step = "done" /\ call' = call /\ server' = server /\ next' = next /\ ~call.made
      /\ ~Started /\ Shows(server)
  BY DEF NewObject, Done, course, Sound, Flags, Started, Caches
<1>2. Labels' /\ Trees' /\ Shows(server)' /\ Roots'
  <2>1. CASE UNCHANGED caches
    BY <1>1, <2>1 DEF caches, Sound, Labels, Trees, Shows, Roots, Rooted
  <2>2. CASE Refresh(Outdated({f}))
    <3>1. {f} \in SUBSET Fs
      OBVIOUS
    <3> QED BY <1>1, <2>2, <3>1, Refreshed DEF course
  <2> QED BY <2>1, <2>2 DEF NewObject
<1> DEFINE t == tree'[f]
           id == NodeOf(t, relativeRoot'[f], f, p)
<1>3. Course(t) /\ relativeRoot'[f] \in {None, At(t, Root[f])}
  BY <1>2 DEF Trees, Whole, Roots, Rooted
<1>4. p \in Names /\ p # <<>> /\ IsPrefix(Root[f], p) /\ Root[f] \in Names /\ opt \in Scenarios
  BY PathsAre DEF Sound, Types
<1>5. id = None \/ id = At(t, p)
  <2>1. CASE relativeRoot'[f] = None
    <3>1. Rest(p, f) \in Names
      <4>1. Len(Root[f]) \in Nat /\ Len(p) \in Nat
        BY <1>4 DEF Names
      <4> QED BY <1>4, <4>1 DEF Rest, Names
    <3> QED BY <1>3, <2>1, <3>1, NoneIs DEF NodeOf
  <2>2. CASE relativeRoot'[f] = At(t, Root[f])
    BY <1>4, <2>2, FindIs
  <2> QED BY <1>3, <2>1, <2>2
<1>6. id # None => id \in DOMAIN t /\ id \in Int /\ t[id].size \in Int
  BY <1>3, <1>4, <1>5, AtIs, AtInt DEF Course, Nodes
<1>7. held' = held \/ (id # None /\ held' = [held EXCEPT ![f] = [id |-> id, at |-> p, size |-> t[id].size]])
  BY DEF NewObject
<1> HIDE DEF t, id
<1>8. Types' /\ Arguments'
  <2>1. /\ held' \in [Fs -> Objects] /\ (\A g \in Fs : held[g].id # None => held'[g].id # None)
        /\ \A g \in Fs : held'[g] = NoObject \/ (held'[g].id # None /\ held'[g].at \in Files(g))
    <3>1. held \in [Fs -> Objects] /\ \A g \in Fs : held[g] = NoObject \/ (held[g].id # None /\ held[g].at \in Files(g))
      BY DEF Sound, Types, Arguments
    <3>2. CASE held' = held
      BY <3>1, <3>2
    <3>3. CASE id # None /\ held' = [held EXCEPT ![f] = [id |-> id, at |-> p, size |-> t[id].size]]
      <4> DEFINE o == [id |-> id, at |-> p, size |-> t[id].size]
      <4>1. o \in Objects /\ o.at = p /\ o.id # None
        BY <1>4, <1>6, <3>3 DEF Objects
      <4> HIDE DEF o
      <4>2. held' = [held EXCEPT ![f] = o]
        BY <3>3 DEF o
      <4> QED BY <3>1, <4>1, <4>2
    <3> QED BY <1>7, <3>2, <3>3
  <2>2. call.f \in Fs
    BY Facts
  <2> QED BY <1>1, <2>1, <2>2 DEF Sound, Types, Arguments, Files, Folders, Own
<1>9. Caches' /\ Flags' /\ Steps' /\ Lag'
  BY <1>1, <1>2 DEF Sound, Caches, Flags, Steps, Lag, Started, Aiming, Replacing, Entering, Moving
<1> QED BY <1>2, <1>8, <1>9 DEF Sound

\* A call that makes its tree current begins, and one that cannot fails.
LEMMA EnsureStep ==
  ASSUME Sound, UNCHANGED opt, Ensure
  PROVE  Sound'
<1>1. /\ call.step = "ensure" /\ Refresh(Outdated({call.f, call.src})) /\ Go("begin")
      /\ UNCHANGED <<course, held>>
  BY DEF Ensure
<1>2. /\ call.f \in Fs /\ call.src \in Fs /\ call \in Calls /\ ~call.made /\ ~call.dirty
      /\ Shows(server) /\ Ready(server)
  BY <1>1, Facts DEF Sound, Flags, Caches, Started, Steps
<1>3. Onto("begin", call.id)
  BY <1>1, <1>2, GoIs DEF StepNames
<1>4. /\ Labels' /\ Trees' /\ Shows(server)' /\ Roots'
      /\ \A f \in {call.f, call.src} : label'[f] = counter' /\ tree'[f] = server
  <2>1. {call.f, call.src} \in SUBSET Fs
    BY <1>2
  <2> QED BY <1>1, <1>2, <1>3, <2>1, Refreshed DEF Onto
<1>5. Now' = server /\ server' = server
  BY <1>1, <1>3, <1>4 DEF Now, Onto, Same, course
<1>6. Types' /\ Arguments'
  BY <1>1, <1>3 DEF Sound, Types, Arguments, Onto, Same, course, Files, Folders, Own
<1>7. Started' /\ call'.step = "begin"
  BY <1>3 DEF Onto, Started
<1>8. Caches' /\ Lag'
  BY <1>3, <1>4, <1>5, <1>7 DEF Caches, Lag, Replacing, Entering, Moving, Shows, Onto, Same
<1>9. Flags'
  BY <1>2, <1>3 DEF Sound, Flags, Onto, Same, Fits
<1>10. Steps'
  BY <1>2, <1>3, <1>4, <1>5 DEF Steps, Onto, Same, Ready, Aiming
<1> QED BY <1>4, <1>6, <1>8, <1>9, <1>10 DEF Sound

LEMMA EnsureFailsStep ==
  ASSUME Sound, UNCHANGED opt, EnsureFails, ~drifted'
  PROVE  Sound'
<1>1. call.step = "ensure" /\ Return("failed") /\ UNCHANGED <<course, caches, held>>
  BY DEF EnsureFails
<1>2. ~call.made /\ ~Started
  BY <1>1 DEF Sound, Flags, Started
<1>3. Over
  BY <1>1, ReturnIs, Facts
<1> QED BY <1>1, <1>2, <1>3, Stops

\* A handler that found nothing refreshes and looks again.
LEMMA LookAgainStep ==
  ASSUME Sound, UNCHANGED opt, LookAgain
  PROVE  Sound'
<1>1. /\ call.step = "look" /\ (Refresh({call.f}) \/ UNCHANGED caches) /\ Go("again")
      /\ UNCHANGED <<course, held>>
  BY DEF LookAgain
<1>2. Started /\ ~call.made /\ server = Now /\ Ready(Now) /\ call \in Calls /\ call.f \in Fs
      /\ label[call.f] = counter /\ Shows(Now)
  BY <1>1, Reading, Facts DEF Sound, Caches
<1>3. Onto("again", call.id)
  BY <1>1, <1>2, GoIs DEF StepNames
<1>4. /\ Labels' /\ Trees' /\ Shows(server)' /\ Roots' /\ label'[call.f] = counter'
      /\ tree'[call.f] = server
  <2>1. CASE Refresh({call.f})
    <3>1. {call.f} \in SUBSET Fs
      BY <1>2
    <3> QED BY <1>1, <1>2, <1>3, <2>1, <3>1, Refreshed DEF Onto
  <2>2. CASE UNCHANGED caches
    BY <1>1, <1>2, <1>3, <2>2 DEF Onto, Same, OnlyCall, Sound, Labels, Trees, Shows, Roots, Rooted, caches, course, Now
  <2> QED BY <1>1, <2>1, <2>2
<1>5. Now' = server /\ server' = server
  BY <1>1, <1>3, <1>4 DEF Now, Onto, Same, course
<1>6. Types' /\ Arguments'
  BY <1>1, <1>3 DEF Sound, Types, Arguments, Onto, Same, course, Files, Folders, Own
<1>7. Started' /\ call'.step = "again"
  BY <1>3 DEF Onto, Started
<1>8. Caches' /\ Lag'
  BY <1>3, <1>4, <1>5, <1>7 DEF Caches, Lag, Replacing, Entering, Moving, Shows, Onto, Same
<1>9. Flags'
  BY <1>2, <1>3 DEF Sound, Flags, Onto, Same, Fits
<1>10. Steps'
  BY <1>2, <1>3, <1>4, <1>5 DEF Steps, Onto, Same, Ready, Aiming
<1> QED BY <1>4, <1>6, <1>8, <1>9, <1>10 DEF Sound

-----------------------------------------------------------------------------
(* A call begins. *)

\* A call that begins, and what it is about.
Begun(c) ==
  /\ c \in Calls /\ c.step = "ensure" /\ ~c.made /\ ~c.again /\ ~c.dirty
  /\ c.op \in {"put", "update", "remove"} => c.at \in Files(c.f)
  /\ c.op \in {"mkdir", "rmdir", "purge"} => c.at \in Folders(c.f)
  /\ c.op = "move" => c.at \in Files(c.src) /\ c.to \in Files(c.f)
                      /\ (c.to = c.at \/ At(server, c.to) = None)
  /\ c.op = "dirmove" => c.at \in Folders(c.src) /\ c.to \in Folders(c.f)
  /\ c.op \in {"put", "update"} => c.size \in opt.sizes
  /\ c.op = "put" => ~Taken(c.at)
  /\ c.op \in {"update", "remove", "move"} =>
       c.id = held[c.src].id /\ c.at = held[c.src].at /\ c.id # None
  /\ c.op = "update" => c.src = c.f /\ (opt.stale \/ Fresh(held[c.src]))
  /\ c.result = "none" /\ c.op # "none"
  /\ c.op \notin {"move", "dirmove"} => c.to = <<>>
  /\ c.op \notin {"put", "update"} => c.size = 0

\* What a call is about before rclone says more.
LEMMA CallIs ==
  ASSUME NEW op \in OpNames, NEW f \in Fs
  PROVE  /\ Call(op, f) \in Calls /\ Call(op, f).op = op /\ Call(op, f).f = f /\ Call(op, f).src = f
         /\ Call(op, f).step = "ensure" /\ ~Call(op, f).made /\ ~Call(op, f).again /\ ~Call(op, f).dirty
         /\ Call(op, f).result = "none" /\ Call(op, f).to = <<>> /\ Call(op, f).size = 0
<1>1. <<>> \in Names /\ None \in Int /\ 0 \in Int
  BY EmptySeq, NoneInt DEF Names
<1> QED BY <1>1 DEF Call, Calls, StepNames

\* rclone makes calls about paths of the instance and objects it holds.
LEMMA InvocationsAre ==
  ASSUME opt \in Scenarios, held \in [Fs -> Objects],
         \A f \in Fs : held[f] = NoObject \/ (held[f].id # None /\ held[f].at \in Files(f)),
         NEW c \in Invocations
  PROVE  Begun(c)
<1>1. /\ \A f \in Fs : \A p \in Files(f) : p \in Names
      /\ \A f \in Fs : \A p \in Folders(f) : p \in Names
  BY PathsAre
<1>2. opt.sizes \subseteq Int
  BY ConstantsAssumption
<1>3. ASSUME NEW f \in Fs, NEW p \in Files(f), ~Taken(p), NEW s \in opt.sizes,
             c = [Call("put", f) EXCEPT !.at = p, !.size = s]
      PROVE  Begun(c)
  <2> DEFINE k == Call("put", f)
  <2>1. /\ k \in Calls /\ k.op = "put" /\ k.f = f /\ k.src = f /\ k.step = "ensure"
        /\ ~k.made /\ ~k.again /\ ~k.dirty /\ k.result = "none" /\ k.to = <<>> /\ k.size = 0
    BY CallIs DEF OpNames
  <2> HIDE DEF k
  <2>2. c = [k EXCEPT !.at = p, !.size = s] /\ p \in Names /\ s \in Int
    BY <1>1, <1>2, <1>3 DEF k
  <2>3. c \in Calls
    BY <2>1, <2>2 DEF Calls
  <2>4. /\ c.op = "put" /\ c.f = f /\ c.src = f /\ c.step = "ensure"
        /\ c.result = "none" /\ c.to = <<>> /\ ~c.made /\ ~c.again /\ ~c.dirty
        /\ c.at = p /\ c.size = s
    BY <2>1, <2>2 DEF Calls
  <2> QED BY <1>3, <2>3, <2>4 DEF Begun
<1>4. ASSUME NEW f \in Fs, NEW op \in {"mkdir", "rmdir", "purge"}, c \in OfFolder(op, f)
      PROVE  Begun(c)
  <2> DEFINE k == Call(op, f)
  <2>1. /\ k \in Calls /\ k.op = op /\ k.f = f /\ k.src = f /\ k.step = "ensure"
        /\ ~k.made /\ ~k.again /\ ~k.dirty /\ k.result = "none" /\ k.to = <<>> /\ k.size = 0
    BY CallIs DEF OpNames
  <2>2. PICK p \in Folders(f) : c = [k EXCEPT !.at = p]
    BY <1>4 DEF OfFolder
  <2> HIDE DEF k
  <2>3. p \in Names
    BY <1>1
  <2>4. c \in Calls
    BY <2>1, <2>2, <2>3 DEF Calls
  <2>5. /\ c.op = op /\ c.f = f /\ c.src = f /\ c.step = "ensure"
        /\ c.result = "none" /\ c.to = <<>> /\ c.size = 0 /\ ~c.made /\ ~c.again /\ ~c.dirty /\ c.at = p
    BY <2>1, <2>2 DEF Calls
  <2> QED BY <2>4, <2>5 DEF Begun
<1>5. ASSUME NEW f \in Fs, held[f] # NoObject, NEW op \in {"update", "remove", "move"}
      PROVE  LET k == OfObject(op, f)
             IN /\ k \in Calls /\ k.op = op /\ k.f = f /\ k.src = f /\ k.step = "ensure"
                /\ ~k.made /\ ~k.again /\ ~k.dirty
                /\ k.result = "none" /\ k.to = <<>> /\ k.size = 0 /\ k.at = held[f].at /\ k.id = held[f].id
                /\ k.at \in Files(f) /\ k.id # None
  <2> DEFINE k == Call(op, f)
  <2>1. /\ k \in Calls /\ k.op = op /\ k.f = f /\ k.src = f /\ k.step = "ensure"
        /\ ~k.made /\ ~k.again /\ ~k.dirty /\ k.result = "none" /\ k.to = <<>> /\ k.size = 0
    BY CallIs DEF OpNames
  <2> HIDE DEF k
  <2>2. held[f].at \in Names /\ held[f].id \in Int /\ held[f].at \in Files(f) /\ held[f].id # None
    BY <1>5 DEF Objects
  <2> SUFFICES ASSUME NEW c1, c1 = [k EXCEPT !.src = f, !.at = held[f].at, !.id = held[f].id]
      PROVE  /\ c1 \in Calls /\ c1.op = op /\ c1.f = f /\ c1.src = f /\ c1.step = "ensure"

             /\ c1.result = "none" /\ c1.to = <<>> /\ c1.size = 0 /\ ~c1.made /\ ~c1.again /\ ~c1.dirty
             /\ c1.at = held[f].at /\ c1.id = held[f].id
             /\ c1.at \in Files(f) /\ c1.id # None
    BY DEF OfObject, k
  <2>3. c1 \in Calls
    BY <2>1, <2>2 DEF Calls
  <2>4. /\ c1.op = op /\ c1.f = f /\ c1.src = f /\ c1.step = "ensure"

        /\ c1.result = "none" /\ c1.to = <<>> /\ c1.size = 0 /\ ~c1.made /\ ~c1.again /\ ~c1.dirty
        /\ c1.at = held[f].at /\ c1.id = held[f].id
    BY <2>1, <2>2 DEF Calls
  <2> QED BY <2>2, <2>3, <2>4
<1>6. ASSUME NEW f \in Fs, held[f] # NoObject, opt.stale \/ Fresh(held[f]), c \in Update(f)
      PROVE  Begun(c)
  <2> DEFINE k == OfObject("update", f)
  <2>1. PICK s \in opt.sizes : c = [k EXCEPT !.size = s]
    BY <1>6 DEF Update
  <2>2. /\ k \in Calls /\ k.op = "update" /\ k.f = f /\ k.src = f /\ k.step = "ensure"
        /\ ~k.made /\ ~k.again /\ ~k.dirty
        /\ k.result = "none" /\ k.to = <<>> /\ k.size = 0 /\ k.at = held[f].at /\ k.id = held[f].id
        /\ k.at \in Files(f) /\ k.id # None
    BY <1>5, <1>6
  <2> HIDE DEF k
  <2>3. c \in Calls
    BY <1>2, <2>1, <2>2 DEF Calls
  <2>4. /\ c.op = "update" /\ c.f = f /\ c.src = f /\ c.step = "ensure"

        /\ c.result = "none" /\ c.to = <<>> /\ ~c.made /\ ~c.again /\ ~c.dirty
        /\ c.at = held[f].at /\ c.id = held[f].id /\ c.at \in Files(f)
        /\ c.size = s /\ c.id # None
    BY <2>1, <2>2 DEF Calls
  <2> QED BY <1>6, <2>3, <2>4 DEF Begun
<1>7. ASSUME NEW f \in Fs, held[f] # NoObject, c = OfObject("remove", f)
      PROVE  Begun(c)
  <2>1. /\ c \in Calls /\ c.op = "remove" /\ c.f = f /\ c.src = f /\ c.step = "ensure"

        /\ c.result = "none" /\ c.to = <<>> /\ c.size = 0 /\ ~c.made /\ ~c.again /\ ~c.dirty
        /\ c.at = held[f].at /\ c.id = held[f].id
        /\ c.at \in Files(f) /\ c.id # None
    BY <1>5, <1>7
  <2> QED BY <1>7, <2>1 DEF Begun
<1>8. ASSUME NEW f \in Fs, NEW g \in Fs, held[f] # NoObject, c \in Move(f, g)
      PROVE  Begun(c)
  <2> DEFINE k == OfObject("move", f)
  <2>1. PICK p \in Files(g) : /\ c = [k EXCEPT !.f = g, !.to = p]
                              /\ p = held[f].at \/ At(server, p) = None
    <3> DEFINE e(q) == [k EXCEPT !.f = g, !.to = q]
    <3>1. Move(f, g) = {e(q) : q \in {r \in Files(g) : r = held[f].at \/ GetNodeAtPath(server, Top, r) = None}}
      BY DEF Move
    <3> HIDE DEF e
    <3>2. PICK q \in Files(g) : c = e(q) /\ (q = held[f].at \/ GetNodeAtPath(server, Top, q) = None)
      BY <1>8, <3>1
    <3>3. At(server, q) = GetNodeAtPath(server, Top, q)
      BY DEF At
    <3> QED BY <3>2, <3>3, Zenon DEF e
  <2>2. /\ k \in Calls /\ k.op = "move" /\ k.f = f /\ k.src = f /\ k.step = "ensure"
        /\ ~k.made /\ ~k.again /\ ~k.dirty
        /\ k.result = "none" /\ k.to = <<>> /\ k.size = 0 /\ k.at = held[f].at /\ k.id = held[f].id
        /\ k.at \in Files(f) /\ k.id # None
    BY <1>5, <1>8
  <2> HIDE DEF k
  <2>3. p \in Names
    BY <1>1
  <2>4. c \in Calls
    BY <2>1, <2>2, <2>3 DEF Calls
  <2>5. /\ c.op = "move" /\ c.f = g /\ c.src = f /\ c.step = "ensure"

        /\ c.result = "none" /\ c.size = 0 /\ ~c.made /\ ~c.again /\ ~c.dirty
        /\ c.at = held[f].at /\ c.id = held[f].id /\ c.at \in Files(f)
        /\ c.to = p /\ c.id # None
    BY <2>1, <2>2 DEF Calls
  <2> QED BY <1>8, <2>1, <2>4, <2>5 DEF Begun
<1>9. ASSUME NEW f \in Fs, NEW g \in Fs, c \in DirMove(f, g)
      PROVE  Begun(c)
  <2> DEFINE k == Call("dirmove", g)
  <2>1. /\ k \in Calls /\ k.op = "dirmove" /\ k.f = g /\ k.src = g /\ k.step = "ensure"
        /\ ~k.made /\ ~k.again /\ ~k.dirty /\ k.result = "none" /\ k.to = <<>> /\ k.size = 0
    BY CallIs DEF OpNames
  <2> DEFINE e(p, q) == [k EXCEPT !.src = f, !.at = p, !.to = q]
  <2>2. PICK p \in Folders(f), q \in Folders(g) : c = e(p, q)
    <3>1. DirMove(f, g) = {e(p, q) : p \in Folders(f), q \in Folders(g)}
      BY DEF DirMove
    <3> HIDE DEF e
    <3> QED BY <1>9, <3>1
  <2> HIDE DEF k
  <2>3. p \in Names /\ q \in Names
    BY <1>1
  <2>4. c \in Calls
    BY <2>1, <2>2, <2>3 DEF Calls
  <2>5. /\ c.op = "dirmove" /\ c.f = g /\ c.src = f /\ c.step = "ensure"
        /\ c.result = "none" /\ c.size = 0 /\ ~c.made /\ ~c.again /\ ~c.dirty
        /\ c.at = p /\ c.to = q
    BY <2>1, <2>2 DEF Calls
  <2> QED BY <2>4, <2>5 DEF Begun
<1>10. \/ \E f \in Fs : c \in Put(f) \/ c \in OfFolder("mkdir", f) \/ c \in OfFolder("rmdir", f)
                        \/ c \in OfFolder("purge", f)
       \/ \E f \in Fs : /\ held[f] # NoObject /\ (opt.stale \/ Fresh(held[f]))
                        /\ c \in Update(f) \/ c = OfObject("remove", f)
       \/ \E f, g \in Fs : held[f] # NoObject /\ c \in Move(f, g)
       \/ \E f, g \in Fs : c \in DirMove(f, g)
  <2> DEFINE of == {f \in Fs : held[f] # NoObject /\ (opt.stale \/ Fresh(held[f]))}
             A(f) == Put(f) \cup OfFolder("mkdir", f) \cup OfFolder("rmdir", f)
                        \cup OfFolder("purge", f)
             B(f) == Update(f) \cup {OfObject("remove", f)}
             M(f, g) == Move(f, g)
             D(f, g) == DirMove(f, g)
             as == UNION {A(f) : f \in Fs}
             bs == UNION {B(f) : f \in of}
             ms == UNION {M(f, g) : f \in of, g \in Fs}
             ds == UNION {D(f, g) : f, g \in Fs}
  <2>1. Invocations = as \cup bs \cup ms \cup ds
    BY DEF Invocations
  <2>2. \A f \in of : f \in Fs /\ held[f] # NoObject /\ (opt.stale \/ Fresh(held[f]))
    OBVIOUS
  <2> HIDE DEF of, A, B, M, D
  <2>3. c \in as => \E f \in Fs : c \in A(f)
    OBVIOUS
  <2>4. c \in bs => \E f \in of : c \in B(f)
    OBVIOUS
  <2>5. c \in ms => \E f \in of : \E g \in Fs : c \in M(f, g)
    BY SMT
  <2>6. c \in ds => \E f, g \in Fs : c \in D(f, g)
    BY SMT
  <2> HIDE DEF as, bs, ms, ds
  <2>7. c \in as \/ c \in bs \/ c \in ms \/ c \in ds
    BY <2>1
  <2> QED BY <2>2, <2>3, <2>4, <2>5, <2>6, <2>7 DEF A, B, M, D
<1>11. ASSUME NEW f \in Fs, c \in Put(f) PROVE Begun(c)
  <2> DEFINE e(p, s) == [Call("put", f) EXCEPT !.at = p, !.size = s]
  <2>1. PICK p \in Files(f), s \in opt.sizes : ~Taken(p) /\ c = e(p, s)
    <3>1. Put(f) = {e(p, s) : p \in {q \in Files(f) : ~Taken(q)}, s \in opt.sizes}
      BY DEF Put
    <3> HIDE DEF e
    <3> QED BY <1>11, <3>1
  <2> QED BY <1>3, <2>1, Zenon
<1>12. CASE \E f, g \in Fs : held[f] # NoObject /\ c \in Move(f, g)
  BY <1>8, <1>12
<1>13. CASE \E f, g \in Fs : c \in DirMove(f, g)
  BY <1>9, <1>13
<1>14. CASE \E f \in Fs : /\ held[f] # NoObject /\ (opt.stale \/ Fresh(held[f]))
                          /\ c \in Update(f) \/ c = OfObject("remove", f)
  <2>1. PICK f \in Fs : /\ held[f] # NoObject /\ (opt.stale \/ Fresh(held[f]))
                        /\ c \in Update(f) \/ c = OfObject("remove", f)
    BY <1>14
  <2>2. CASE c \in Update(f)
    BY <1>6, <2>1, <2>2
  <2>3. CASE c = OfObject("remove", f)
    BY <1>7, <2>1, <2>3
  <2> QED BY <2>1, <2>2, <2>3
<1>15. CASE \E f \in Fs : c \in Put(f) \/ c \in OfFolder("mkdir", f) \/ c \in OfFolder("rmdir", f)
                           \/ c \in OfFolder("purge", f)
  <2>1. PICK f \in Fs : c \in Put(f) \/ c \in OfFolder("mkdir", f) \/ c \in OfFolder("rmdir", f)
                          \/ c \in OfFolder("purge", f)
    BY <1>15
  <2>2. ASSUME NEW op \in {"mkdir", "rmdir", "purge"}, c \in OfFolder(op, f) PROVE Begun(c)
    BY <1>4, <2>2
  <2>3. CASE c \in Put(f)
    BY <1>11, <2>3
  <2> QED BY <2>1, <2>2, <2>3
<1> QED BY <1>10, <1>12, <1>13, <1>14, <1>15, Zenon

\* The beginning of a call keeps the invariant.
LEMMA InvokeStep ==
  ASSUME Sound, UNCHANGED opt, Invoke, ~drifted'
  PROVE  Sound'
<1>1. /\ call.step = "done" /\ UNCHANGED <<course, caches, held>> /\ ~call.made /\ Shows(server)
      /\ Types /\ Arguments /\ Course(server)
  BY Facts DEF Invoke, Done, Sound, Flags, Caches, Started
<1>2. Begun(call')
  <2>1. call' \in Invocations
    BY DEF Invoke
  <2> QED BY <1>1, <2>1, InvocationsAre DEF Types, Arguments
<1>3. call'.id # None => Fresh(held[call'.src])
  BY DEF Invoke
<1>4. Labels' /\ Trees'
  BY <1>1 DEF Sound, course, caches, Labels, Trees
<1>5. Types' /\ Arguments'
  BY <1>1, <1>2 DEF Types, Arguments, Begun, course, Files, Folders, Own
<1>6. Roots'
  BY <1>1, <1>2 DEF Sound, Roots, Rooted, Begun, caches
<1>7. call'.step = "ensure" /\ ~call'.made /\ ~call'.again /\ ~call'.dirty
  BY <1>2 DEF Begun
<1>8. Caches' /\ Flags' /\ Lag'
  BY <1>1, <1>7 DEF Caches, Flags, Fits, Lag, Started, Replacing, Entering, Moving, Shows, course, caches
<1>9. Ready(server)'
  <2> DEFINE c == call'
  <2>1. opt \in Scenarios /\ c.f \in Fs /\ c.src \in Fs
    BY <1>1, <1>2 DEF Begun, Calls, Types
  <2>2. ASSUME c.op = "put"
        PROVE  At(server, c.at) = None \/ FileAt(server, c.at, At(server, c.at))
    <3>1. c.at \in Names /\ c.at # <<>>
      BY <1>2, <2>1, <2>2, PathsAre DEF Begun
    <3>2. ~Taken(c.at)
      BY <1>2, <2>2 DEF Begun
    <3> QED BY <1>1, <3>1, <3>2, AtIs DEF Taken, IsDir, FileAt, At
  <2>3. ASSUME c.op \in {"update", "remove", "move"}
        PROVE  FileAt(server, c.at, c.id)
    <3>1. c.id = held[c.src].id /\ c.at = held[c.src].at /\ c.id # None
      BY <1>2, <2>3 DEF Begun
    <3> QED BY <1>3, <3>1 DEF Fresh, FileAt, At
  <2>4. c.op = "move" => c.to = c.at \/ At(server, c.to) = None
    BY <1>2 DEF Begun
  <2>5. server' = server
    BY <1>1 DEF course
  <2> QED BY <2>2, <2>3, <2>4, <2>5 DEF Ready
<1>10. Steps'
  BY <1>7, <1>9 DEF Steps, Aiming
<1> QED BY <1>4, <1>5, <1>6, <1>8, <1>10 DEF Sound

-----------------------------------------------------------------------------
(* Requests, commits, and where a call puts something. *)

\* Paths that are prefixes of each other are one.
LEMMA PrefixAnti ==
  ASSUME NEW p \in Names, NEW q \in Names, IsPrefix(p, q), IsPrefix(q, p)
  PROVE  p = q
<1>1. /\ Len(p) = Len(q) /\ Len(p) \in Nat /\ \A k \in 1..Len(p) : p[k] = q[k]
  BY PrefixIs
<1> QED BY <1>1 DEF Names

\* What a request leaves: the ids go on from where they were.
LEMMA NextIs ==
  ASSUME next \in Nat \ {0}, next' = IF next \in DOMAIN server' THEN next + 1 ELSE next,
         Course(server'), DOMAIN server' \subseteq 1..next
  PROVE  /\ next' \in Nat \ {0} /\ next <= next' /\ Whole(server', next')
         /\ next \notin DOMAIN server' => next' = next
<1>1. next' \in Nat \ {0} /\ next <= next' /\ (next \notin DOMAIN server' => next' = next)
  OBVIOUS
<1>2. DOMAIN server' \subseteq 1..(next' - 1)
  OBVIOUS
<1> QED BY <1>1, <1>2 DEF Whole

\* Trees stay whole when an id is taken.
LEMMA TreesLater ==
  ASSUME Sound, next' \in Nat \ {0}, next <= next', NEW f \in Fs
  PROVE  Whole(tree[f], next')
BY WholeLater DEF Sound, Types, Trees

\* A commit makes one tree current, and every other out of date.
LEMMA Committed ==
  ASSUME Sound, NEW t, NEW root, Commit(t, root), next' \in Nat \ {0}, next <= next',
         Whole(t, next'), Whole(server', next'), call'.f = call.f, ~call'.made,
         root = At(t, Root[call.f])
  PROVE  /\ Labels' /\ Trees' /\ Roots' /\ tree'[call.f] = t /\ label'[call.f] = counter'
         /\ \A f \in Fs : label'[f] = counter' => tree'[f] = t
         /\ snapshot'.tree = t
<1>1. /\ tree' = [tree EXCEPT ![call.f] = t]
      /\ relativeRoot' = [relativeRoot EXCEPT ![call.f] = root]
      /\ counter' = counter + 1
      /\ label' = [label EXCEPT ![call.f] = counter + 1]
      /\ snapshot' = [gen |-> counter + 1, tree |-> t]
  BY DEF Commit
<1>2. Labels /\ call.f \in Fs
  BY Facts DEF Sound
<1>3. /\ tree = [f \in Fs |-> tree[f]] /\ relativeRoot = [f \in Fs |-> relativeRoot[f]]
      /\ label \in [Fs -> Nat] /\ counter \in Nat /\ \A f \in Fs : label[f] <= counter
  BY <1>2 DEF Labels
<1>4. \A f \in Fs : /\ tree'[f] = IF f = call.f THEN t ELSE tree[f]
                    /\ relativeRoot'[f] = IF f = call.f THEN root ELSE relativeRoot[f]
                    /\ label'[f] = IF f = call.f THEN counter + 1 ELSE label[f]
  <2> TAKE f \in Fs
  <2>1. tree'[f] = IF f = call.f THEN t ELSE tree[f]
    BY <1>1, <1>2, <1>3
  <2>2. relativeRoot'[f] = IF f = call.f THEN root ELSE relativeRoot[f]
    BY <1>1, <1>2, <1>3
  <2>3. label'[f] = IF f = call.f THEN counter + 1 ELSE label[f]
    BY <1>1, <1>2, <1>3
  <2> QED BY <2>1, <2>2, <2>3
<1>5. \A f \in Fs : label'[f] = counter' => f = call.f
  BY <1>1, <1>3, <1>4
<1>6. Labels'
  <2>1. tree' = [f \in Fs |-> tree'[f]]
    BY <1>1, <1>3
  <2>2. relativeRoot' = [f \in Fs |-> relativeRoot'[f]]
    BY <1>1, <1>3
  <2>3. label' \in [Fs -> Nat]
    <3>1. label' = [label EXCEPT ![call.f] = counter + 1] /\ label \in [Fs -> Nat]
      BY <1>1, <1>3
    <3>2. counter + 1 \in Nat
      BY <1>3
    <3> QED BY <3>1, <3>2
  <2>4. \A f \in Fs : label'[f] <= counter'
    <3> TAKE f \in Fs
    <3>1. label'[f] = (IF f = call.f THEN counter + 1 ELSE label[f]) /\ label[f] <= counter
          /\ label[f] \in Nat
      BY <1>3, <1>4
    <3> QED BY <1>1, <1>3, <3>1
  <2>5. counter' \in Nat /\ snapshot'.gen \in Nat /\ snapshot'.gen <= counter'
    BY <1>1, <1>3
  <2> QED BY <2>1, <2>2, <2>3, <2>4, <2>5 DEF Labels
<1>7. Trees'
  <2>1. \A f \in Fs : Whole(tree[f], next')
    BY TreesLater
  <2>2. \A f \in Fs : Whole(tree'[f], next')
    BY <1>4, <2>1
  <2> QED BY <2>2 DEF Trees, Whole
<1>8. Roots'
  <2>1. \A f \in Fs : relativeRoot'[f] \in {None, At(tree'[f], Root[f])}
    BY <1>4 DEF Sound, Roots, Rooted
  <2>2. \A f \in Fs : label'[f] = counter' => relativeRoot'[f] = At(tree'[f], Root[f])
    BY <1>4, <1>5
  <2> QED BY <2>1, <2>2 DEF Roots, Rooted
<1>9. tree'[call.f] = t /\ label'[call.f] = counter' /\ snapshot'.tree = t
  BY <1>1, <1>2, <1>4
<1> QED BY <1>4, <1>5, <1>6, <1>7, <1>8, <1>9

\* A call has entered in its tree what it did to the course, and is over.
LEMMA CommitsAndReturns ==
  ASSUME Sound, UNCHANGED <<opt, held>>, NEW root, Commit(server', root), Return("ok"),
         next' \in Nat \ {0}, next <= next', Whole(server', next'),
         root = At(server', Root[call.f])
  PROVE  Sound'
<1>1. Over
  BY ReturnIs, Facts
<1>2. PICK t : t = server'
  OBVIOUS
<1>3. /\ Labels' /\ Trees' /\ Roots'
      /\ \A f \in Fs : label'[f] = counter' => tree'[f] = t
      /\ snapshot'.tree = t
  BY <1>1, <1>2, Committed DEF Over, Same
<1>4. Shows(server)'
  BY <1>2, <1>3 DEF Shows
<1> QED BY <1>1, <1>3, <1>4, Ended

\* updateRelativeRootFromTree finds the root in the new tree.
LEMMA RootAfter ==
  ASSUME relativeRoot[call.f] \in {None, At(Now, Root[call.f])}, NEW t,
         At(Now, Root[call.f]) # None => At(t, Root[call.f]) = At(Now, Root[call.f])
  PROVE  updateRelativeRootFromTree(t) = At(t, Root[call.f])
BY DEF updateRelativeRootFromTree, At

\* The root of the call's instance.
LEMMA RootedNow ==
  ASSUME Sound
  PROVE  /\ relativeRoot[call.f] \in {None, At(Now, Root[call.f])}
         /\ Root[call.f] \in Names
BY Facts, PathsAre DEF Sound, Roots, Rooted, Now

-----------------------------------------------------------------------------
\* Where a call puts something.
LEMMA GoalIs ==
  ASSUME Sound, call.step \in Aiming, Aimed(Now, call.id),
         call.op \in {"put", "update", "mkdir", "move", "dirmove"}
  PROVE  /\ Goal \in Names /\ Goal # <<>> /\ ParentPath \in Names
         /\ IsPrefix(Root[call.f], Goal)
<1>1. opt \in Scenarios /\ call.f \in Fs /\ Course(Now) /\ call.to \in Names /\ call.at \in Names
  BY Facts
<1>2. Goal \in Names /\ Goal # <<>> /\ IsPrefix(Root[call.f], Goal)
  <2>1. CASE call.op \in {"put", "update"}
    BY <1>1, <2>1, PathsAre DEF Sound, Arguments, Goal
  <2>2. CASE call.op = "mkdir"
    BY <1>1, <2>2, PathsAre DEF Sound, Arguments, Goal, Aimed
  <2>3. CASE call.op \in {"move", "dirmove"}
    <3>1. call.to # <<>>
      BY <2>3, AtEmpty DEF Aimed, Top, None
    <3> QED BY <1>1, <2>3, <3>1, PathsAre DEF Sound, Arguments, Goal
  <2> QED BY <2>1, <2>2, <2>3
<1> QED BY <1>2, FrontIs DEF ParentPath

\* The folder of the way that is missing is not what the call makes.
LEMMA SegmentIs ==
  ASSUME Goal \in Names, Goal # <<>>, Segment # <<>>
  PROVE  /\ Segment \in Names /\ At(Now, Segment) = None
         /\ IsPrefix(Segment, ParentPath) /\ Segment # Goal
<1>1. ParentPath \in Names /\ Len(ParentPath) = Len(Goal) - 1 /\ Len(Goal) \in Nat
  BY FrontIs DEF ParentPath
<1> DEFINE missing == {n \in 1..Len(ParentPath) : NodeAt(SubSeq(ParentPath, 1, n)) = None}
           m == Min(missing)
<1>2. missing # {} /\ Segment = SubSeq(ParentPath, 1, m)
  BY DEF Segment
<1>3. m \in missing
  <2>1. missing \in SUBSET Nat
    OBVIOUS
  <2> HIDE DEF missing
  <2> QED BY <1>2, <2>1, MinIs
<1>4. m \in 1..Len(ParentPath) /\ At(Now, Segment) = None
  BY <1>2, <1>3 DEF NodeAt, Now, At
<1> HIDE DEF m, missing
<1>5. Segment \in Names /\ IsPrefix(Segment, ParentPath)
  BY <1>1, <1>2, <1>4, StartIs
<1>6. Segment # Goal
  BY <1>1, <1>5, PrefixIs
<1> QED BY <1>4, <1>5, <1>6

\* Where the tree has nothing, the name is free.
LEMMA NameFree ==
  ASSUME server = Now, NEW p \in Names, p # <<>>, At(Now, p) = None
  PROVE  Child(server, At(Now, Front(p)), Last(p)) = None
BY PathStep DEF At

\* A folder is made where the tree has nothing, and gets its own name.
LEMMA Adding ==
  ASSUME Sound, server = Now, NEW p \in Names, p # <<>>, At(Now, p) = None, server' \in MkDir(p),
         next' = IF next \in DOMAIN server' THEN next + 1 ELSE next
  PROVE  /\ next' \in Nat \ {0} /\ next <= next' /\ Whole(server', next')
         /\ WithFolder(p) = server' /\ DOMAIN Now \subseteq DOMAIN server'
         /\ \A i \in DOMAIN Now : server'[i] = Now[i]
         /\ \A q \in Names : q # p => At(server', q) = At(Now, q)
<1> DEFINE up == At(Now, Front(p))
           node == Folder(up, Last(p))
<1>1. NodeAt(Front(p)) = up
  BY DEF NodeAt, At, Now
<1>2. IsDir(Now, up) /\ server' = With(Now, next, node)
  BY <1>1, NameFree DEF MkDir
<1>3. /\ Course(Now) /\ next \in Nat \ {0} /\ DOMAIN Now \subseteq 1..(next - 1)
      /\ next \notin DOMAIN Now
  BY Facts DEF Whole
<1>4. node \in Nodes /\ node.parent = up /\ node.name = Last(p)
  <2>1. up \in Nat
    BY <1>2, <1>3 DEF IsDir, Top, Course
  <2>2. Last(p) \in STRING
    BY FrontIs
  <2> QED BY <2>1, <2>2 DEF Folder, Nodes
<1> HIDE DEF node
<1>5. /\ Course(server') /\ At(server', p) = next
      /\ \A q \in Names : q # p => At(server', q) = At(Now, q)
  BY <1>2, <1>3, <1>4, AddNode
<1>6. DOMAIN server' = DOMAIN Now \cup {next} /\ \A i \in DOMAIN Now : server'[i] = Now[i]
  BY <1>2, <1>3 DEF With
<1>7. server'[next] = node
  BY <1>2 DEF With
<1>8. WithFolder(p) = server'
  <2>1. Child(server', up, Last(p)) = next
    BY <1>4, <1>5, <1>6, <1>7, ChildIs
  <2> QED BY <1>1, <1>2, <1>7, <2>1 DEF WithFolder, Now
<1>9. DOMAIN server' \subseteq 1..next
  BY <1>3, <1>6
<1>10. next' \in Nat \ {0} /\ next <= next' /\ Whole(server', next')
  BY <1>3, <1>5, <1>9, NextIs
<1> QED BY <1>5, <1>6, <1>8, <1>10

\* The server stores the size it was told, since it was told one.
LEMMA StoredIs ==
  ASSUME KnownSizes, Sound, call.op \in {"put", "update"}
  PROVE  call.size \in Nat /\ Stored = {call.size}
<1>1. call.size \in Nat
  BY DEF KnownSizes, Sound, Types, Arguments
<1> QED BY <1>1 DEF Stored

-----------------------------------------------------------------------------
(* Answers to requests that stat, license or make a folder of the way. *)

\* What the course is when the pending request is answered.
LEMMA Replies ==
  ASSUME Serve
  PROVE  /\ next' = IF next \in DOMAIN server' THEN next + 1 ELSE next
         /\ call.step = "parents" => server' \in MkDir(Segment)
         /\ call.step = "mkdir" => server' \in MkDir(call.at)
         /\ call.step = "create" => server' \in CreateFileContent(call.at)
         /\ call.step \in {"stat", "license"} => server' = server
         /\ call.step = "copy" => server' \in CreateFileRefByReference(call.id)
         /\ call.step = "overwrite" => server' \in UpdateFileContent(call.id)
         /\ call.step = "rename" => server' \in UpdateFileRef(call.id)
         /\ call.step = "reparent" => server' \in UpdateFolder(call.id)
         /\ call.step = "rmdir" => server' \in DeleteFolder(call.id)
         /\ call.step = "unlink" => server' \in DeleteFile(call.id)
         /\ call.step = "cleanup" => server' \in DeleteFile(call.new)
<1> DEFINE outs(s) == CASE s = "parents" -> MkDir(Segment)
       [] s = "mkdir" -> MkDir(call.at)
       [] s = "create" -> CreateFileContent(call.at)
       [] s = "copy" -> IF call.id \in DOMAIN server THEN CreateFileRefByReference(call.id) ELSE {}
       [] s = "stat" -> IF call.id \in DOMAIN server THEN GetFileRef ELSE {}
       [] s = "license" -> IF call.id \in DOMAIN server THEN SetTermsOfUse ELSE {}
       [] s = "overwrite" -> IF call.id \in DOMAIN server THEN UpdateFileContent(call.id) ELSE {}
       [] s = "rename" -> IF call.id \in DOMAIN server THEN UpdateFileRef(call.id) ELSE {}
       [] s = "reparent" -> IF call.id \in DOMAIN server THEN UpdateFolder(call.id) ELSE {}
       [] s = "rmdir" -> IF call.id \in DOMAIN server THEN DeleteFolder(call.id) ELSE {}
       [] s = "unlink" -> DeleteFile(call.id)
       [] s = "cleanup" -> DeleteFile(call.new)
<1>1. server' \in outs(call.step) /\ next' = IF next \in DOMAIN server' THEN next + 1 ELSE next
  BY DEF Serve, Outcomes
<1> SUFFICES ASSUME NEW s, s = call.step PROVE
         /\ s = "parents" => server' \in MkDir(Segment)
         /\ s = "mkdir" => server' \in MkDir(call.at)
         /\ s = "create" => server' \in CreateFileContent(call.at)
         /\ s \in {"stat", "license"} => server' = server
         /\ s = "copy" => server' \in CreateFileRefByReference(call.id)
         /\ s = "overwrite" => server' \in UpdateFileContent(call.id)
         /\ s = "rename" => server' \in UpdateFileRef(call.id)
         /\ s = "reparent" => server' \in UpdateFolder(call.id)
         /\ s = "rmdir" => server' \in DeleteFolder(call.id)
         /\ s = "unlink" => server' \in DeleteFile(call.id)
         /\ s = "cleanup" => server' \in DeleteFile(call.new)
  BY <1>1
<1>2. server' \in outs(s)
  BY <1>1
<1> QED BY <1>2 DEF GetFileRef, SetTermsOfUse

\* An answer to a stat changes nothing.
LEMMA SeenStep ==
  ASSUME Sound, UNCHANGED opt, Seen
  PROVE  Sound'
<1>1. /\ call.step = "stat" /\ call.op = "move" /\ Serve /\ UNCHANGED <<caches, held>>
  BY DEF Seen, Answered, Sound, Flags, Fits
<1>2. Started /\ ~call.made /\ server = Now /\ Ready(Now) /\ call \in Calls /\ call.id \in Int
  BY <1>1, Reading DEF Calls
<1>3. server' = server /\ next' = next
  <2>1. next \notin DOMAIN server
    BY Facts DEF Whole
  <2> QED BY <1>1, <2>1, Replies
<1>4. CASE Return("ok")
  <2>1. Over
    BY <1>2, <1>4, ReturnIs
  <2> QED BY <1>1, <1>2, <1>3, <2>1, Stops DEF course
<1>5. CASE call.at # call.to /\ \E s \in {"rename", "parents"} :
             Go(s) /\ (s = "rename" => Front(call.at) = Front(call.to))
  <2>1. PICK s \in {"rename", "parents"} : Go(s) /\ (s = "rename" => Front(call.at) = Front(call.to))
    BY <1>5
  <2>2. Onto(s, call.id)
    BY <1>2, <2>1, GoIs DEF StepNames
  <2>3. Aimed(Now, call.id)
    BY <1>1, <1>2, <1>5 DEF Aimed, Ready
  <2> QED BY <1>1, <1>2, <1>3, <2>1, <2>2, <2>3, PassesOn DEF Fits, StepNames, Aiming, course
<1> QED BY <1>4, <1>5 DEF Seen

\* Nor does one to a license.
LEMMA LicensedStep ==
  ASSUME Sound, UNCHANGED opt, Licensed
  PROVE  Sound'
<1>1. call.step = "license" /\ ~call.dirty /\ Serve /\ Return("ok") /\ UNCHANGED <<caches, held>>
  BY DEF Licensed, Answered
<1>2. Started /\ ~call.made /\ server = Now
  BY <1>1 DEF Started, Sound, Flags, Lag, Replacing, Entering, Moving
<1>3. server' = server /\ next' = next
  <2>1. next \notin DOMAIN server
    BY Facts DEF Whole
  <2> QED BY <1>1, <2>1, Replies
<1>4. Over
  BY <1>1, ReturnIs, Facts
<1> QED BY <1>1, <1>2, <1>3, <1>4, Stops DEF course

-----------------------------------------------------------------------------
\* A folder of the way is made and entered in the tree.
LEMMA MakeSegmentStep ==
  ASSUME Sound, UNCHANGED opt, MakeSegment
  PROVE  Sound'
<1>1. /\ call.step = "parents" /\ Segment # <<>> /\ Serve
      /\ tree' = [tree EXCEPT ![call.f] = WithFolder(Segment)]
      /\ call' = [call EXCEPT !.made = TRUE, !.dirty = TRUE]
      /\ UNCHANGED <<counter, snapshot, relativeRoot, label, held>>
  BY DEF MakeSegment, Answered, Requesting
<1>2. Started /\ server = Now /\ Aimed(Now, call.id) /\ label[call.f] = counter
  BY <1>1 DEF Started, Sound, Lag, Replacing, Entering, Moving, Steps, Aiming, Caches
<1>3. call.op \in {"put", "update", "mkdir", "move", "dirmove"}
  BY <1>1 DEF Sound, Flags, Fits
<1>4. Goal \in Names /\ Goal # <<>> /\ IsPrefix(Root[call.f], Goal)
  BY <1>1, <1>2, <1>3, GoalIs DEF Aiming
<1>5. PICK p : p = Segment
  OBVIOUS
<1>6. p \in Names /\ p # <<>> /\ At(Now, p) = None /\ p # Goal
  BY <1>1, <1>4, <1>5, SegmentIs
<1>7. server' \in MkDir(p) /\ next' = IF next \in DOMAIN server' THEN next + 1 ELSE next
  BY <1>1, <1>5, Replies
<1>8. /\ next' \in Nat \ {0} /\ next <= next' /\ Whole(server', next')
      /\ WithFolder(p) = server' /\ DOMAIN Now \subseteq DOMAIN server'
      /\ \A i \in DOMAIN Now : server'[i] = Now[i]
      /\ \A q \in Names : q # p => At(server', q) = At(Now, q)
  BY <1>2, <1>6, <1>7, Adding
<1>9. call.f \in Fs /\ call \in Calls /\ call.at \in Names /\ call.to \in Names
  BY Facts
<1>10. tree' = [tree EXCEPT ![call.f] = server'] /\ tree = [f \in Fs |-> tree[f]]
  BY <1>1, <1>5, <1>8 DEF Sound, Labels
<1>11. \A f \in Fs : tree'[f] = IF f = call.f THEN server' ELSE tree[f]
  <2> PICK t : t = server'
    OBVIOUS
  <2> QED BY <1>9, <1>10
<1>12. call' \in Calls /\ Same /\ call'.made /\ call'.dirty /\ call'.step = call.step
       /\ call'.id = call.id /\ call'.again = call.again
  <2>1. call' = [call EXCEPT !.made = TRUE, !.dirty = TRUE]
    BY <1>1
  <2>2. call' \in Calls /\ call'.made /\ call'.dirty
    BY <1>9, <2>1 DEF Calls
  <2>3. Same
    BY <1>9, <2>1 DEF Calls, Same
  <2>4. call'.step = call.step /\ call'.id = call.id /\ call'.again = call.again
    BY <1>9, <2>1 DEF Calls
  <2> QED BY <2>2, <2>3, <2>4
<1>13. Now' = server'
  BY <1>9, <1>11, <1>12 DEF Now, Same
<1>14. Labels'
  <2>1. tree' = [f \in Fs |-> tree'[f]]
    BY <1>10
  <2> QED BY <1>1, <2>1 DEF Sound, Labels
<1>15. Types' /\ Arguments'
  BY <1>1, <1>8, <1>12 DEF Sound, Types, Arguments, Same, Files, Folders, Own
<1>16. Trees'
  <2>1. \A f \in Fs : Whole(tree[f], next')
    BY <1>8, TreesLater
  <2>2. \A f \in Fs : Whole(tree'[f], next')
    BY <1>8, <1>11, <2>1
  <2> QED BY <1>8, <2>2 DEF Trees, Whole
<1>17. Roots'
  <2>1. Roots /\ Root[call.f] \in Names
    BY RootedNow DEF Sound
  <2>2. relativeRoot[call.f] \in {None, At(Now, Root[call.f])}
    BY RootedNow
  <2>3. relativeRoot[call.f] \in {None, At(server', Root[call.f])}
    BY <1>6, <1>8, <2>1, <2>2
  <2>4. \A f \in Fs : relativeRoot'[f] \in {None, At(tree'[f], Root[f])}
    BY <1>1, <1>11, <2>1, <2>3 DEF Roots, Rooted
  <2>5. \A f \in Fs : label'[f] = counter' /\ (f = call'.f => ~call'.made) =>
                        relativeRoot'[f] = At(tree'[f], Root[f])
    BY <1>1, <1>11, <1>12, <2>1 DEF Roots, Same
  <2> QED BY <2>4, <2>5 DEF Roots, Rooted
<1>18. Caches' /\ Flags'
  BY <1>1, <1>2, <1>12 DEF Sound, Caches, Flags, Fits, Same, Started
<1>19. Aimed(server', call.id)
  <2>1. ASSUME call.op = "put" PROVE At(server', call.at) = None
    BY <1>2, <1>6, <1>8, <1>9, <2>1 DEF Aimed, Goal
  <2>2. ASSUME call.op = "mkdir" PROVE call.at # <<>>
    BY <1>2, <2>2 DEF Aimed
  <2>3. ASSUME call.op \in {"update", "remove", "move"} PROVE FileAt(server', call.at, call.id)
    <3>1. FileAt(Now, call.at, call.id) /\ call.id # None
      BY <1>2, <2>3, Facts, ChildIs DEF Aimed, FileAt
    <3>2. call.at # p
      BY <1>6, <3>1 DEF FileAt
    <3> QED BY <1>8, <1>9, <3>1, <3>2 DEF FileAt
  <2>4. ASSUME call.op \in {"rmdir", "purge", "dirmove"}
        PROVE  At(server', call.at) = call.id /\ call.id \in DOMAIN server'
    <3>1. At(Now, call.at) = call.id /\ call.id \in DOMAIN Now /\ call.id # None
      BY <1>2, <2>4, Facts, ChildIs DEF Aimed
    <3> QED BY <1>6, <1>8, <1>9, <3>1
  <2>5. ASSUME call.op \in {"move", "dirmove"} PROVE At(server', call.to) = None
    BY <1>2, <1>6, <1>8, <1>9, <2>5 DEF Aimed, Goal
  <2> QED BY <2>1, <2>2, <2>3, <2>4, <2>5 DEF Aimed
<1>20. Steps' /\ Lag'
  <2>1. Aimed(Now, call.id)'
    BY <1>12, <1>13, <1>19 DEF Aimed, Same
  <2> QED BY <1>1, <1>12, <1>13, <2>1 DEF Steps, Lag, Started, Replacing, Entering, Moving, Aiming
<1> QED BY <1>14, <1>15, <1>16, <1>17, <1>18, <1>20 DEF Sound

-----------------------------------------------------------------------------
(* Folders that are made and removed. *)

\* All folders of the way are there, and the tree with them is committed.
LEMMA ParentsMadeStep ==
  ASSUME Sound, UNCHANGED opt, ParentsMade
  PROVE  Sound'
<1> DEFINE root == updateRelativeRootFromTree(Now)
<1>1. /\ call.step = "parents"
      /\ \/ call.made /\ Commit(Now, root)
         \/ /\ ~call.made /\ relativeRoot' = [relativeRoot EXCEPT ![call.f] = root]
            /\ UNCHANGED <<counter, snapshot, tree, label>>
      /\ call' = [call EXCEPT !.made = FALSE, !.dirty = FALSE, !.step = AfterParents]
      /\ UNCHANGED <<course, held>>
  BY DEF ParentsMade, Now
<1>2. Started /\ server = Now /\ Aimed(Now, call.id) /\ label[call.f] = counter
  BY <1>1 DEF Started, Sound, Lag, Replacing, Entering, Moving, Steps, Aiming, Caches
<1>3. call.op \in {"put", "update", "mkdir", "move", "dirmove"}
  BY <1>1 DEF Sound, Flags, Fits
<1>4. call.f \in Fs /\ call \in Calls /\ Whole(Now, next) /\ Whole(server, next) /\ next \in Nat \ {0}
  BY Facts
<1>5. root = At(Now, Root[call.f])
  BY RootedNow, RootAfter
<1> HIDE DEF root
<1>6. PICK s : s = AfterParents
  OBVIOUS
<1>7. /\ s \in {"create", "unlink", "mkdir", "copy", "reparent"} /\ Fits(call.op, s)
      /\ s = "create" => call.op = "put"
      /\ s = "unlink" => call.op = "update"
  BY <1>3, <1>6 DEF AfterParents, Fits
<1>8. call' \in Calls /\ Same /\ ~call'.made /\ ~call'.dirty /\ call'.step = s
      /\ call'.id = call.id /\ call'.again = call.again
  <2>1. call' = [call EXCEPT !.made = FALSE, !.dirty = FALSE, !.step = s]
    BY <1>1, <1>6
  <2>2. s \in StepNames
    BY <1>7 DEF StepNames
  <2>3. call' \in Calls
    BY <1>4, <2>1, <2>2 DEF Calls
  <2>4. Same
    BY <1>4, <2>1 DEF Calls, Same
  <2>5. ~call'.made /\ ~call'.dirty /\ call'.step = s /\ call'.id = call.id /\ call'.again = call.again
    BY <1>4, <2>1 DEF Calls
  <2> QED BY <2>3, <2>4, <2>5
<1>9. /\ Labels' /\ Trees' /\ Roots' /\ tree'[call.f] = Now /\ label'[call.f] = counter'
      /\ \A f \in Fs : label'[f] = counter' => tree'[f] = Now
      /\ snapshot'.gen = counter' => snapshot'.tree = Now
  <2>1. CASE call.made /\ Commit(Now, root)
    <3>1. next' = next /\ server' = server
      BY <1>1 DEF course
    <3>2. Whole(Now, next') /\ Whole(server', next') /\ next <= next' /\ next' \in Nat \ {0}
      BY <1>4, <3>1
    <3> QED BY <1>5, <1>8, <2>1, <3>2, Committed DEF Same
  <2>2. CASE ~call.made /\ relativeRoot' = [relativeRoot EXCEPT ![call.f] = root]
             /\ UNCHANGED <<counter, snapshot, tree, label>>
    <3>1. /\ relativeRoot = [f \in Fs |-> relativeRoot[f]] /\ Shows(Now)
          /\ \A f \in Fs : relativeRoot[f] \in {None, At(tree[f], Root[f])}
          /\ \A f \in Fs : label[f] = counter => relativeRoot[f] = At(tree[f], Root[f])
      BY <1>2, <2>2 DEF Sound, Labels, Caches, Roots, Rooted
    <3>2. \A f \in Fs : relativeRoot'[f] = IF f = call.f THEN root ELSE relativeRoot[f]
      BY <2>2, <3>1
    <3>3. relativeRoot' = [f \in Fs |-> relativeRoot'[f]]
      BY <2>2, <3>1
    <3>4. Roots'
      BY <1>5, <2>2, <3>1, <3>2 DEF Roots, Rooted, Now
    <3>5. Labels' /\ Trees'
      BY <1>1, <2>2, <3>3 DEF Sound, Labels, Trees, course
    <3> QED BY <1>2, <2>2, <3>1, <3>4, <3>5 DEF Now, Shows
  <2> QED BY <1>1, <2>1, <2>2
<1>10. Now' = Now /\ Shows(Now)'
  <2>1. Now' = Now
    BY <1>8, <1>9 DEF Now, Same
  <2> QED BY <1>9, <2>1 DEF Shows
<1>11. Types' /\ Arguments'
  BY <1>1, <1>4, <1>8 DEF Sound, Types, Arguments, Same, Files, Folders, Own, course
<1>12. Caches' /\ Flags'
  BY <1>7, <1>8, <1>9, <1>10 DEF Sound, Caches, Flags, Same, Started
<1>13. Steps'
  <2>1. Aimed(Now, call.id)'
    BY <1>2, <1>8, <1>10 DEF Aimed, Same
  <2> QED BY <1>7, <1>8, <2>1 DEF Steps, Aiming
<1>14. Lag'
  <2>1. server' = Now'
    BY <1>1, <1>2, <1>10 DEF course
  <2> QED BY <1>7, <1>8, <2>1 DEF Lag, Started, Replacing, Entering, Moving, Same
<1> QED BY <1>9, <1>11, <1>12, <1>13, <1>14 DEF Sound

\* mkdir makes the last folder.
LEMMA MadeDirStep ==
  ASSUME Sound, UNCHANGED opt, MadeDir
  PROVE  Sound'
<1>1. /\ call.step = "mkdir" /\ call.op = "mkdir" /\ NodeAt(call.at) = None /\ Serve
      /\ Commit(WithFolder(call.at), updateRelativeRootFromTree(WithFolder(call.at)))
      /\ Return("ok") /\ UNCHANGED held
  BY DEF MadeDir, Answered, Requesting, Sound, Flags, Fits
<1>2. server = Now /\ Aimed(Now, call.id)
  BY <1>1 DEF Started, Sound, Lag, Replacing, Entering, Moving, Steps, Aiming
<1>3. call.at \in Names /\ call.at # <<>> /\ At(Now, call.at) = None
  BY <1>1, <1>2, Facts DEF Aimed, NodeAt, At, Now
<1>4. server' \in MkDir(call.at) /\ next' = IF next \in DOMAIN server' THEN next + 1 ELSE next
  BY <1>1, Replies
<1>5. /\ next' \in Nat \ {0} /\ next <= next' /\ Whole(server', next')
      /\ WithFolder(call.at) = server'
      /\ \A q \in Names : q # call.at => At(server', q) = At(Now, q)
  BY <1>2, <1>3, <1>4, Adding
<1>6. PICK t : t = server'
  OBVIOUS
<1>7. updateRelativeRootFromTree(t) = At(t, Root[call.f])
  BY <1>3, <1>5, <1>6, RootedNow, RootAfter
<1> QED BY <1>1, <1>5, <1>6, <1>7, CommitsAndReturns

-----------------------------------------------------------------------------
\* Where a call with a tree that shows the course removes nodes.
LEMMA Dropping ==
  ASSUME Sound, NEW t, Whole(t, next), NEW M, \A j \in DOMAIN t : t[j].parent \in M => j \in M,
         server' = Without(t, M),
         next' = IF next \in DOMAIN server' THEN next + 1 ELSE next
  PROVE  /\ next' = next /\ Whole(server', next')
         /\ \A q \in Names : At(server', q) = IF At(t, q) \in M /\ q # <<>> THEN None ELSE At(t, q)
<1>1. Course(t) /\ DOMAIN t \subseteq 1..(next - 1) /\ next \in Nat \ {0}
  BY Facts DEF Whole
<1>2. /\ Course(server')
      /\ \A q \in Names : At(server', q) = IF At(t, q) \in M /\ q # <<>> THEN None ELSE At(t, q)
  BY <1>1, Drop
<1>3. DOMAIN server' \subseteq 1..(next - 1)
  BY <1>1, WithoutIs
<1>4. next' = next
  BY <1>1, <1>3
<1> QED BY <1>2, <1>3, <1>4 DEF Whole

\* rmdir and purge take the folder off, and all that is below it.
LEMMA RemovedDirStep ==
  ASSUME Sound, UNCHANGED opt, RemovedDir
  PROVE  Sound'
<1> DEFINE id == call.id
           M == Subtree(Now, id)
           root == relativeRoot[call.f]
           path == Root[call.f]
<1>1. /\ call.step = "rmdir" /\ call.op \in {"rmdir", "purge"} /\ Serve
      /\ Commit(Without(Now, M), IF root = id THEN None ELSE root)
      /\ Return("ok") /\ UNCHANGED held
  BY DEF RemovedDir, Answered, Sound, Flags, Fits, Now
<1>2. Started /\ ~call.made /\ server = Now /\ Aimed(Now, id)
  BY <1>1 DEF Started, Sound, Lag, Replacing, Entering, Moving, Steps, Aiming, Flags
<1>3. /\ Course(Now) /\ Whole(Now, next) /\ call.at \in Names /\ path \in Names
      /\ IsPrefix(path, call.at) /\ root = At(Now, path) /\ next \in Nat \ {0}
  <2>1. call.at \in Folders(call.f)
    BY <1>1 DEF Sound, Arguments
  <2> QED BY <1>2, <2>1, Facts, PathsAre
<1>4. At(Now, call.at) = id /\ id \in DOMAIN Now
  BY <1>1, <1>2 DEF Aimed
<1>5. \A j \in DOMAIN Now : Now[j].parent \in M => j \in M
  BY SubtreeIs
<1>6. server' = Without(Now, M) /\ next' = IF next \in DOMAIN server' THEN next + 1 ELSE next
  BY <1>1, <1>2, Replies DEF DeleteFolder
<1>7. M \subseteq DOMAIN Now /\ (At(Now, path) # None => (At(Now, path) \in M <=> IsPrefix(call.at, path)))
  BY <1>3, <1>4, SubtreeIs, BelowIs
<1>8. id \in M
  BY <1>3, <1>4, NotInItself
<1>9. None \notin DOMAIN Now
  BY <1>3, ChildIs
<1> HIDE DEF M
<1>10. /\ next' = next /\ Whole(server', next')
       /\ \A q \in Names : At(server', q) = IF At(Now, q) \in M /\ q # <<>> THEN None ELSE At(Now, q)
  BY <1>3, <1>5, <1>6, Dropping
<1>11. (IF root = id THEN None ELSE root) = At(server', path)
  <2>1. CASE root = id
    <3>1. path # <<>>
      BY <1>3, <1>4, <2>1, AtIs
    <3> QED BY <1>3, <1>8, <1>10, <2>1, <3>1
  <2>2. CASE root # id
    <3>1. At(Now, path) \notin M
      <4> SUFFICES ASSUME At(Now, path) \in M PROVE FALSE
        OBVIOUS
      <4>1. IsPrefix(call.at, path)
        BY <1>7, <1>9
      <4>2. call.at = path
        BY <1>3, <4>1, PrefixAnti
      <4> QED BY <1>3, <1>4, <2>2, <4>2
    <3> QED BY <1>3, <1>10, <2>2, <3>1
  <2> QED BY <2>1, <2>2
<1> QED BY <1>1, <1>3, <1>6, <1>10, <1>11, CommitsAndReturns

-----------------------------------------------------------------------------
(* Uploads that overwrite. *)

\* The object that rclone holds after an upload.
LEMMA Holding ==
  ASSUME Types, Arguments, NEW id \in Nat, Hold(id) \/ UNCHANGED held
  PROVE  /\ held' \in [Fs -> Objects] /\ \A g \in Fs : held[g].id # None => held'[g].id # None
         /\ \A g \in Fs : held'[g] = NoObject \/ (held'[g].id # None /\ held'[g].at \in Files(g))
<1>1. /\ held \in [Fs -> Objects] /\ call.f \in Fs /\ id # None /\ id \in Int /\ call.size \in Int
      /\ \A g \in Fs : held[g] = NoObject \/ (held[g].id # None /\ held[g].at \in Files(g))
  BY DEF Types, Arguments, Calls, None
<1>2. CASE UNCHANGED held
  BY <1>1, <1>2
<1>3. CASE Hold(id) /\ call.op = "update"
  <2>1. held[call.f].id # None
    BY <1>3 DEF Arguments
  <2>2. held[call.f].at \in Files(call.f)
    BY <1>1, <2>1 DEF NoObject
  <2>3. held' = [held EXCEPT ![call.f].id = id, ![call.f].size = call.size]
    BY <1>3 DEF Hold
  <2>4. \A g \in Fs : g # call.f => held'[g] = held[g]
    BY <1>1, <2>3
  <2>5. held'[call.f].id = id /\ held'[call.f].at = held[call.f].at
    BY <1>1, <2>3 DEF Objects
  <2>6. held' \in [Fs -> Objects]
    BY <1>1, <2>3 DEF Objects
  <2> QED BY <1>1, <2>1, <2>2, <2>4, <2>5, <2>6
<1>4. CASE Hold(id) /\ call.op # "update"
  BY <1>1, <1>4 DEF Hold
<1> QED BY <1>2, <1>3, <1>4

\* The id that the server gives next is that of no node.
LEMMA NextHere ==
  ASSUME Sound
  PROVE  /\ next \in Nat \ {0} /\ next \in Int /\ next \notin DOMAIN Now /\ next \notin DOMAIN server
         /\ DOMAIN Now \subseteq 1..(next - 1) /\ DOMAIN server \subseteq 1..(next - 1)
         /\ next # None
BY Facts DEF Whole, None

\* An upload has been entered in the tree.
LEMMA Uploaded ==
  ASSUME KnownSizes, Sound, UNCHANGED opt, Started, ~call.made, call.op \in {"put", "update"},
         FileAt(Now, call.at, call.id), NEW new \in {call.id, next},
         server' = ReId(Now, call.id, new, call.size),
         next' = IF next \in DOMAIN server' THEN next + 1 ELSE next,
         Commit(WithUpload(new), relativeRoot[call.f]), Hold(new) \/ UNCHANGED held,
         call' \in Calls, Same, call'.step = "license", call'.id = new,
         ~call'.made, ~call'.dirty, call'.again => call.again
  PROVE  Sound'
<1> DEFINE id == call.id
           path == Root[call.f]
<1>1. /\ id \in DOMAIN Now /\ At(Now, call.at) = id /\ ~Now[id].dir /\ Course(Now)
      /\ next \in Nat \ {0} /\ next \notin DOMAIN Now /\ DOMAIN Now \subseteq 1..(next - 1)
      /\ call.size \in Nat /\ call.size \in Int
  BY NextHere, Facts, StoredIs DEF FileAt
<1>2. /\ path \in Names /\ call.at \in Names /\ call.at # path /\ call.at # <<>>
      /\ relativeRoot[call.f] = At(Now, path)
  <2>1. call.at \in Files(call.f)
    BY DEF Sound, Arguments
  <2> QED BY <2>1, PathsAre, Facts
<1>3. new \in Nat \ {0} /\ new \notin DOMAIN Now \ {id} /\ new \in 1..next
  BY <1>1
<1>4. PICK u : u = server'
  OBVIOUS
<1>5. /\ Course(u) /\ DOMAIN u = (DOMAIN Now \ {id}) \cup {new} /\ FileAt(u, call.at, new)
      /\ \A q \in Names : q # call.at => At(u, q) = At(Now, q)
  <2>1. u = ReId(Now, id, new, call.size)
    BY <1>4
  <2>2. Renewed(Now, call.at, id, u, new)
    BY <1>1, <1>2, <1>3, <2>1, ReIdIs
  <2> QED BY <2>2 DEF Renewed
<1>6. u[new].size = call.size
  <2>1. u = ReId(Now, id, new, call.size)
    BY <1>4
  <2>2. ReIded(Now, id, u, new, call.size)
    BY <1>1, <2>1, ReIdFields
  <2> QED BY <2>2 DEF ReIded
<1>7. next' \in Nat \ {0} /\ next <= next' /\ Whole(u, next')
  <2>1. DOMAIN u \subseteq 1..next
    BY <1>1, <1>3, <1>5
  <2> QED BY <1>1, <1>4, <1>5, <2>1, NextIs
<1>8. WithUpload(new) = u
  <2>1. Find(call.f, call.at) = id
    BY <1>1, FoundIs
  <2>2. id # None /\ id # Top
    BY <1>1, ChildIs
  <2> QED BY <1>1, <1>4, <2>1, <2>2 DEF WithUpload, IsDir, Now
<1>9. /\ Labels' /\ Trees' /\ Roots' /\ tree'[call.f] = u /\ label'[call.f] = counter'
      /\ \A f \in Fs : label'[f] = counter' => tree'[f] = u
      /\ snapshot'.tree = u
  <2>1. relativeRoot[call.f] = At(u, path)
    BY <1>2, <1>5
  <2>2. Commit(u, relativeRoot[call.f])
    BY <1>8
  <2> QED BY <1>4, <1>7, <2>1, <2>2, Committed DEF Same
<1>10. Now' = u
  BY <1>9 DEF Now, Same
<1>11. Types' /\ Arguments'
  <2>1. /\ held' \in [Fs -> Objects] /\ \A g \in Fs : held[g].id # None => held'[g].id # None
        /\ \A g \in Fs : held'[g] = NoObject \/ (held'[g].id # None /\ held'[g].at \in Files(g))
    BY <1>3, Holding DEF Sound
  <2>2. call.f \in Fs
    BY Facts
  <2> QED BY <1>7, <2>1, <2>2 DEF Sound, Types, Arguments, Same, Files, Folders, Own
<1>12. Caches'
  BY <1>9, <1>10 DEF Caches, Shows, Started, Same
<1>13. Flags'
  BY DEF Sound, Flags, Fits, Same
<1>14. Steps'
  BY <1>5, <1>6, <1>10 DEF Steps, Same, Aiming
<1>15. Lag'
  BY <1>4, <1>10 DEF Lag, Started, Replacing, Entering, Moving, Same
<1> QED BY <1>9, <1>11, <1>12, <1>13, <1>14, <1>15 DEF Sound

\* The second license of an update enters nothing new.
LEMMA LicenseAgainStep ==
  ASSUME KnownSizes, Sound, UNCHANGED opt, LicenseAgain
  PROVE  Sound'
<1>1. /\ call.step = "license" /\ call.again /\ Serve /\ UNCHANGED held
      /\ Commit(WithUpload(call.id), relativeRoot[call.f])
      /\ call' = [call EXCEPT !.again = FALSE]
  BY DEF LicenseAgain, Answered
<1>2. Started /\ ~call.made /\ call.op = "update" /\ call \in Calls
  BY <1>1, Facts DEF Started, Sound, Flags
<1>3. ~call.dirty /\ server = Now /\ FileAt(Now, call.at, call.id) /\ Now[call.id].size = call.size
  BY <1>1, <1>2 DEF Started, Sound, Lag, Replacing, Entering, Moving, Steps
<1>4. server' = server /\ next' = IF next \in DOMAIN server' THEN next + 1 ELSE next
  BY <1>1, Replies
<1>5. server' = ReId(Now, call.id, call.id, call.size)
  BY <1>3, <1>4, ReIdSame, Facts DEF FileAt
<1>6. call' \in Calls /\ Same /\ call'.step = "license" /\ call'.id = call.id
      /\ ~call'.made /\ ~call'.dirty /\ ~call'.again
  <2>1. call' \in Calls /\ ~call'.again
    BY <1>1, <1>2 DEF Calls
  <2>2. Same
    BY <1>1, <1>2 DEF Calls, Same
  <2>3. call'.step = call.step /\ call'.id = call.id /\ call'.made = call.made /\ call'.dirty = call.dirty
    BY <1>1, <1>2 DEF Calls
  <2> QED BY <1>1, <1>2, <1>3, <2>1, <2>2, <2>3
<1> QED BY <1>1, <1>2, <1>3, <1>4, <1>5, <1>6, Uploaded

\* What an overwrite leaves that does not set drifted.
LEMMA WrittenInFull ==
  ASSUME KnownSizes, Sound, Overwrote, ~drifted', server = Now, FileAt(Now, call.at, call.id),
         Stored = {call.size}, call.size \in Nat, server' \in UpdateFileContent(call.id)
  PROVE  \E n \in {call.id, next} : server' = ReId(Now, call.id, n, call.size)
<1> DEFINE id == IF call.id \in DOMAIN server' THEN call.id ELSE next
<1>1. ~(server'[id].size < call.size)
  BY DEF Overwrote
<1>2. PICK n \in {call.id, next}, s \in {call.size} \cup ({Now[call.id].size} \cap 0..(call.size - 1)) :
        server' = ReId(Now, call.id, n, s)
  BY DEF UpdateFileContent
<1>3. Course(Now) /\ call.id \in DOMAIN Now /\ s \in Int
  BY <1>2, Facts DEF FileAt
<1>4. ReIded(Now, call.id, server', n, s)
  BY <1>2, <1>3, ReIdFields
<1>5. id = n /\ server'[n].size = s
  <2>1. next \notin DOMAIN Now
    BY NextHere
  <2> QED BY <1>2, <1>3, <1>4, <2>1 DEF ReIded
<1> HIDE DEF id
<1> QED BY <1>1, <1>2, <1>5

\* An update of the same size renews the file in place.
LEMMA OverwroteStep ==
  ASSUME KnownSizes, Sound, UNCHANGED opt, Overwrote, ~drifted'
  PROVE  Sound'
<1> DEFINE new == IF call.id \in DOMAIN server' THEN call.id ELSE next
<1>1. /\ call.step = "overwrite" /\ Serve /\ Hold(new)
      /\ Commit(WithUpload(new), relativeRoot[call.f])
      /\ call' = [call EXCEPT !.id = new, !.step = "license"]
  BY DEF Overwrote, Answered
<1>2. /\ Started /\ ~call.made /\ call.op \in {"put", "update"} /\ call \in Calls /\ ~call.dirty
      /\ server = Now /\ FileAt(Now, call.at, call.id)
  BY <1>1, Facts DEF Started, Sound, Flags, Fits, Lag, Replacing, Entering, Moving, Steps
<1>3. call.size \in Nat /\ Stored = {call.size}
  BY <1>2, StoredIs
<1>4. /\ server' \in UpdateFileContent(call.id)
      /\ next' = IF next \in DOMAIN server' THEN next + 1 ELSE next
  BY <1>1, Replies
<1>5. PICK n \in {call.id, next} : server' = ReId(Now, call.id, n, call.size)
  BY <1>2, <1>3, <1>4, WrittenInFull
<1>6. n = new
  <2>1. DOMAIN server' = (DOMAIN Now \ {call.id}) \cup {n}
    <3>1. call.size \in Int /\ Course(Now) /\ call.id \in DOMAIN Now
      BY <1>2, <1>3, Facts DEF FileAt
    <3>2. ReIded(Now, call.id, server', n, call.size)
      BY <1>5, <3>1, ReIdFields
    <3> QED BY <3>2 DEF ReIded
  <2> QED BY <1>2, <1>5, <2>1, NextHere DEF FileAt
<1> HIDE DEF new
<1>7. new \in Int
  BY <1>2, <1>5, <1>6, NextHere DEF Calls
<1>8. call' \in Calls /\ Same /\ call'.step = "license" /\ call'.id = new
      /\ ~call'.made /\ ~call'.dirty /\ call'.again = call.again
  <2>1. call' \in Calls
    BY <1>1, <1>2, <1>7 DEF Calls, StepNames
  <2>2. Same
    BY <1>1, <1>2 DEF Calls, Same
  <2>3. call'.step = "license" /\ call'.id = new /\ call'.made = call.made /\ call'.dirty = call.dirty
        /\ call'.again = call.again
    BY <1>1, <1>2 DEF Calls
  <2> QED BY <1>2, <2>1, <2>2, <2>3
<1> QED BY <1>1, <1>2, <1>4, <1>5, <1>6, <1>8, Uploaded

-----------------------------------------------------------------------------
(* A file is there before its tree shows it: copies, and the files they replace. *)

\* A file is put where there was nothing.
Added(t, p, u, i, size) ==
  /\ Course(u) /\ DOMAIN u = DOMAIN t \cup {i} /\ At(u, p) = i
  /\ u[i] = File(At(t, Front(p)), Last(p), size) /\ \A j \in DOMAIN t : j # i => u[j] = t[j]
  /\ \A q \in Names : q # p => At(u, q) = At(t, q)

\* With does so.
LEMMA AddFile ==
  ASSUME NEW t, Course(t), NEW i \in Nat \ {0}, i \notin DOMAIN t, NEW p \in Names, p # <<>>,
         IsDir(t, At(t, Front(p))), At(t, p) = None, NEW size \in Int
  PROVE  Added(t, p, With(t, i, File(At(t, Front(p)), Last(p), size)), i, size)
<1> DEFINE up == At(t, Front(p))
           node == File(up, Last(p), size)
           u == With(t, i, node)
<1>1. node \in Nodes /\ node.parent = up /\ node.name = Last(p)
  <2>1. up \in Nat
    BY DEF IsDir, Top, Course
  <2>2. Last(p) \in STRING
    BY FrontIs
  <2> QED BY <2>1, <2>2 DEF File, Nodes
<1>2. /\ Course(u) /\ At(u, p) = i
      /\ \A q \in Names : q # p => At(u, q) = At(t, q)
  <2> HIDE DEF node
  <2> QED BY <1>1, AddNode
<1>3. DOMAIN u = DOMAIN t \cup {i} /\ u[i] = node /\ \A j \in DOMAIN t : j # i => u[j] = t[j]
  <2> HIDE DEF node
  <2> QED BY DEF With
<1> HIDE DEF u
<1>4. Added(t, p, u, i, size)
  BY <1>2, <1>3 DEF Added
<1> QED BY <1>4 DEF u

\* A course that leads has one file more, where the path says.
LEMMA LeadsIs ==
  ASSUME Sound, NEW id, NEW p \in Names, p # <<>>, NEW size \in Int, Leads(id, p, size)
  PROVE  Added(Now, p, server, id, size) /\ id \notin DOMAIN Now /\ id \in Nat \ {0}
<1>1. IsDir(Now, At(Now, Front(p))) /\ id \notin DOMAIN Now /\ At(Now, p) = None
      /\ server = With(Now, id, File(At(Now, Front(p)), Last(p), size))
  BY DEF Leads
<1>2. Course(Now) /\ DOMAIN server \subseteq 1..(next - 1) /\ next \in Nat \ {0}
  BY NextHere, Facts
<1>3. id \in DOMAIN server
  BY <1>1 DEF With
<1>4. id \in Nat \ {0}
  BY <1>2, <1>3
<1> QED BY <1>1, <1>2, <1>4, AddFile

-----------------------------------------------------------------------------
\* A request has changed the course, and the tree does not show it yet.
LEMMA Ahead ==
  ASSUME Sound, UNCHANGED <<opt, held, caches>>, Started, ~call.made, Same,
         Course(server'), DOMAIN server' \subseteq 1..next,
         next' = IF next \in DOMAIN server' THEN next + 1 ELSE next,
         call' \in Calls, Started', ~call'.made, call'.again => call.again,
         call'.dirty, call'.step \notin {"begin", "overwrite"},
         Fits(call.op, call'.step), Steps', Lag'
  PROVE  Sound'
<1>1. next' \in Nat \ {0} /\ next <= next' /\ Whole(server', next')
  BY NextIs, NextHere
<1>2. Now' = Now /\ label'[call'.f] = counter' /\ (\A t : Shows(t) => Shows(t)')
  BY DEF Sound, Caches, caches, Same, Now, Shows
<1>3. Labels' /\ Types' /\ Arguments' /\ Roots'
  BY <1>1 DEF Sound, Labels, Types, Arguments, Roots, Rooted, caches, Same, Files, Folders, Own
<1>4. Trees'
  <2>1. \A f \in Fs : Whole(tree[f], next')
    BY <1>1, TreesLater
  <2> QED BY <1>1, <2>1 DEF Trees, Whole, caches
<1>5. Caches'
  <2>1. Shows(Now)
    BY DEF Sound, Caches
  <2>2. Shows(Now)'
    BY <1>2, <2>1 DEF Shows
  <2> QED BY <1>2, <2>2 DEF Caches
<1>6. Flags'
  BY DEF Sound, Flags, Fits, Same, Started
<1> QED BY <1>3, <1>4, <1>5, <1>6 DEF Sound

\* A move across folders first copies, and the tree lags behind.
LEMMA CopiedStep ==
  ASSUME Sound, UNCHANGED opt, Copied
  PROVE  Sound'
<1>1. /\ call.step = "copy" /\ call.op = "move" /\ Serve /\ UNCHANGED <<caches, held>>
      /\ call' = [call EXCEPT !.new = next, !.dirty = TRUE, !.step = "unlink"]
  BY DEF Copied, Answered, Sound, Flags, Fits
<1>2. Started /\ ~call.made /\ server = Now /\ Aimed(Now, call.id) /\ call \in Calls
  BY <1>1, Facts DEF Started, Sound, Lag, Replacing, Entering, Moving, Steps, Aiming, Flags
<1>3. /\ server' \in CreateFileRefByReference(call.id)
      /\ next' = IF next \in DOMAIN server' THEN next + 1 ELSE next
  BY <1>1, Replies
<1>4. FileAt(Now, call.at, call.id) /\ At(Now, call.to) = None /\ call.id \in DOMAIN Now
  BY <1>1, <1>2 DEF Aimed, FileAt
<1>5. call.to \in Names /\ call.to # <<>>
  <2>1. call.to # <<>>
    BY <1>4, AtEmpty DEF Top, None
  <2> QED BY <2>1, Facts
<1> DEFINE up == At(Now, Front(call.to))
           size == Now[call.id].size
<1>6. NodeAt(ParentPath) = up
  BY <1>1 DEF NodeAt, ParentPath, Goal, At, Now
<1>7. IsDir(Now, up) /\ server' = With(Now, next, File(up, Last(call.to), size))
  BY <1>2, <1>3, <1>6 DEF CreateFileRefByReference
<1>8. Course(Now) /\ size \in Int
  BY <1>4, Facts DEF Course, Nodes
<1>9. Added(Now, call.to, server', next, size)
  BY <1>4, <1>5, <1>7, <1>8, AddFile, NextHere
<1>10. Course(server') /\ DOMAIN server' \subseteq 1..next
  BY <1>9, NextHere DEF Added
<1>11. /\ call' \in Calls /\ Same /\ call'.step = "unlink" /\ call'.dirty /\ ~call'.made
       /\ call'.again = call.again /\ call'.id = call.id /\ call'.new = next
  <2>1. call' \in Calls
    BY <1>1, <1>2, NextHere DEF Calls, StepNames
  <2>2. Same
    BY <1>1, <1>2 DEF Calls, Same
  <2>3. call'.step = "unlink" /\ call'.dirty /\ call'.made = call.made
       /\ call'.again = call.again /\ call'.id = call.id /\ call'.new = next
    BY <1>1, <1>2, NextHere DEF Calls
  <2> QED BY <1>2, <2>1, <2>2, <2>3
<1>12. Now' = Now
  BY <1>1, <1>11 DEF Now, Same, caches
<1>13. Aimed(Now, call.id)'
  BY <1>2, <1>11, <1>12 DEF Aimed, Same
<1>14. Steps'
  BY <1>11, <1>13 DEF Steps, Aiming
<1>15. Lag'
  <2>1. next \notin DOMAIN Now
    BY NextHere
  <2>2. Leads(call.new, call.to, Now[call.id].size)'
    BY <1>4, <1>7, <1>11, <1>12, <2>1 DEF Leads, Same
  <2> QED BY <1>1, <1>11, <2>2 DEF Same, Lag, Started, Replacing, Entering, Moving
<1> QED BY <1>1, <1>2, <1>3, <1>10, <1>11, <1>14, <1>15, Ahead DEF Fits, Started

\* Then it removes the source, and an update the file it replaces.
LEMMA UnlinkedStep ==
  ASSUME Sound, UNCHANGED opt, Unlinked
  PROVE  Sound'
<1>1. /\ call.step = "unlink" /\ call.op = "update" /\ Serve /\ UNCHANGED <<caches, held>>
      /\ call' = [call EXCEPT !.dirty = server' # server, !.step = "create"]
  BY DEF Unlinked, Answered
<1>2. Started /\ ~call.made /\ server = Now /\ Aimed(Now, call.id) /\ call \in Calls
  BY <1>1, Facts DEF Started, Sound, Lag, Replacing, Entering, Moving, Steps, Aiming, Flags
<1>3. /\ server' = Without(Now, {call.id})
      /\ next' = IF next \in DOMAIN server' THEN next + 1 ELSE next
  BY <1>1, <1>2, Replies DEF DeleteFile
<1>4. FileAt(Now, call.at, call.id) /\ call.id \in DOMAIN Now /\ ~Now[call.id].dir
  BY <1>1, <1>2 DEF Aimed, FileAt
<1>5. Course(server') /\ DOMAIN server' \subseteq 1..next /\ server' # server
  <2>1. \A j \in DOMAIN Now : Now[j].parent \in {call.id} => j \in {call.id}
    BY <1>4, FileAlone, Facts
  <2>2. Course(server')
    BY <1>3, <2>1, Drop, Facts
  <2>3. DOMAIN server' = DOMAIN Now \ {call.id}
    BY <1>3, WithoutIs
  <2> QED BY <1>2, <1>4, <2>2, <2>3, NextHere
<1>6. /\ call' \in Calls /\ Same /\ call'.step = "create" /\ call'.dirty /\ ~call'.made
      /\ call'.again = call.again /\ call'.id = call.id
  <2>1. call' = [call EXCEPT !.dirty = TRUE, !.step = "create"]
    BY <1>1, <1>5
  <2>2. call' \in Calls
    BY <1>2, <2>1 DEF Calls, StepNames
  <2>3. Same
    BY <1>2, <2>1 DEF Calls, Same
  <2>4. call'.step = "create" /\ call'.dirty /\ call'.made = call.made
       /\ call'.again = call.again /\ call'.id = call.id
    BY <1>2, <2>1 DEF Calls
  <2> QED BY <1>2, <2>2, <2>3, <2>4
<1>7. Now' = Now
  BY <1>1, <1>6 DEF Now, Same, caches
<1>8. Aimed(Now, call.id)'
  BY <1>2, <1>6, <1>7 DEF Aimed, Same
<1>9. Steps'
  BY <1>6, <1>8 DEF Steps, Aiming
<1>10. Lag'
  BY <1>1, <1>3, <1>6, <1>7 DEF Lag, Started, Replacing, Entering, Moving, Same
<1> QED BY <1>1, <1>2, <1>3, <1>5, <1>6, <1>9, <1>10, Ahead DEF Fits, Started

-----------------------------------------------------------------------------
(* Uploads that create, and files that are removed. *)

\* An upload is there, and its tree lags behind until it is licensed.
LEMMA CreatedStep ==
  ASSUME KnownSizes, Sound, UNCHANGED opt, Created
  PROVE  Sound'
<1> DEFINE up == At(Now, Front(call.at))
           node == File(up, Last(call.at), call.size)
<1>1. /\ call.step = "create" /\ call.op \in {"put", "update"} /\ Serve /\ Hold(next)
      /\ IF call.op = "put" THEN UNCHANGED caches
         ELSE Commit(WithUpload(next), relativeRoot[call.f])
      /\ call' = [call EXCEPT !.id = next, !.dirty = call.op = "put", !.step = "license"]
  BY DEF Created, Answered, Sound, Flags, Fits
<1>2. Started /\ ~call.made /\ Aimed(Now, call.id) /\ call \in Calls /\ Course(Now)
  BY <1>1, Facts DEF Started, Sound, Steps, Aiming, Flags
<1>3. call.size \in Nat /\ Stored = {call.size} /\ call.size \in Int
  BY <1>1, StoredIs
<1>4. call.at \in Names /\ call.at # <<>>
  <2>1. call.at \in Files(call.f)
    BY <1>1 DEF Sound, Arguments
  <2> QED BY <2>1, PathsAre, Facts
<1>5. /\ IsDir(server, up) /\ server' = With(server, next, node)
      /\ next' = IF next \in DOMAIN server' THEN next + 1 ELSE next
  <2>1. NodeAt(Front(call.at)) = up
    BY DEF NodeAt, At, Now
  <2>2. server' \in CreateFileContent(call.at)
        /\ next' = IF next \in DOMAIN server' THEN next + 1 ELSE next
    BY <1>1, Replies
  <2> QED BY <1>3, <2>1, <2>2 DEF CreateFileContent
<1>6. PICK d \in BOOLEAN : d = (call.op = "put")
  OBVIOUS
<1>7. /\ call' \in Calls /\ Same /\ call'.step = "license" /\ call'.id = next
      /\ ~call'.made /\ call'.again = call.again /\ call'.dirty = d
  <2>1. call' = [call EXCEPT !.id = next, !.dirty = d, !.step = "license"]
    BY <1>1, <1>6
  <2>2. call' \in Calls
    BY <1>2, <2>1, NextHere DEF Calls, StepNames
  <2>3. Same
    BY <1>2, <2>1 DEF Calls, Same
  <2>4. call'.step = "license" /\ call'.dirty = d /\ call'.made = call.made
       /\ call'.again = call.again /\ call'.id = next
    BY <1>2, <2>1, NextHere DEF Calls
  <2> QED BY <1>2, <2>2, <2>3, <2>4
<1>8. CASE call.op = "put"
  <2>1. server = Now /\ At(Now, call.at) = None /\ ~call.again
    BY <1>1, <1>2, <1>8 DEF Sound, Lag, Replacing, Entering, Moving, Aimed, Flags
  <2>2. Added(Now, call.at, server', next, call.size)
    BY <1>2, <1>3, <1>4, <1>5, <2>1, AddFile, NextHere
  <2>3. Course(server') /\ DOMAIN server' \subseteq 1..next
    BY <2>2, NextHere DEF Added
  <2>4. UNCHANGED <<caches, held>>
    BY <1>1, <1>8 DEF Hold
  <2>5. Now' = Now
    BY <1>7, <2>4 DEF Now, Same, caches
  <2>6. Steps'
    BY <1>7, <2>1 DEF Steps, Aiming
  <2>7. Lag'
    <3>1. next \notin DOMAIN Now
      BY NextHere
    <3>2. Leads(call.id, call.at, call.size)'
      BY <1>5, <1>7, <2>1, <2>5, <3>1 DEF Leads, Same
    <3> QED BY <1>6, <1>7, <1>8, <3>2 DEF Lag, Started, Replacing, Entering, Moving, Same
  <2> QED BY <1>2, <1>5, <1>6, <1>7, <1>8, <2>3, <2>4, <2>6, <2>7, Ahead DEF Fits, Started
<1>9. CASE call.op = "update"
  <2>1. /\ server = Without(Now, {call.id}) /\ FileAt(Now, call.at, call.id)
        /\ call.id \in DOMAIN Now /\ At(Now, call.at) = call.id /\ ~Now[call.id].dir
    BY <1>1, <1>2, <1>9 DEF Sound, Lag, Replacing, Aimed, FileAt
  <2>2. Now[call.id].parent = up /\ Now[call.id].name = Last(call.at) /\ Now[call.id] \in Nodes
        /\ up \in Nat /\ Last(call.at) \in STRING
    <3>1. call.id # None
      BY <1>2, <2>1, ChildIs
    <3>2. Now[call.id].parent = up /\ Now[call.id].name = Last(call.at)
      BY <1>2, <1>4, <2>1, <3>1, AtStep
    <3>3. Now[call.id] \in Nodes
      BY <1>2, <2>1 DEF Course
    <3> QED BY <3>2, <3>3 DEF Nodes
  <2> DEFINE old == Now[call.id]
             n == [old EXCEPT !.size = call.size]
  <2>3. node = n
    <3>1. /\ n \in Nodes /\ n.parent = old.parent /\ n.name = old.name /\ n.dir = old.dir
          /\ n.size = call.size
      <4> HIDE DEF old
      <4> QED BY <1>3, <2>2 DEF Nodes, old
    <3>2. /\ node \in Nodes /\ node.parent = up /\ node.name = Last(call.at) /\ ~node.dir
          /\ node.size = call.size /\ node.dir \in BOOLEAN
      <4> HIDE DEF up
      <4> QED BY <1>3, <2>2 DEF Nodes, File
    <3>3. n.dir = node.dir
      BY <2>1, <3>1, <3>2 DEF Nodes, File
    <3> HIDE DEF n, node
    <3> QED BY <2>2, <3>1, <3>2, <3>3, SameNode
  <2> HIDE DEF n, node
  <2>4. server' = ReId(Now, call.id, next, call.size)
    BY <1>5, <2>1, <2>3 DEF ReId, n
  <2>5. Commit(WithUpload(next), relativeRoot[call.f]) /\ ~call'.dirty
    BY <1>1, <1>6, <1>7, <1>9
  <2> QED BY <1>1, <1>2, <1>5, <1>7, <2>1, <2>4, <2>5, Uploaded
<1> QED BY <1>1, <1>8, <1>9

\* A licensed upload is entered in the tree.
LEMMA EnterFileStep ==
  ASSUME KnownSizes, Sound, UNCHANGED opt, EnterFile
  PROVE  Sound'
<1> DEFINE up == At(Now, Front(call.at))
<1>1. call.step = "license" /\ call.dirty /\ Serve /\ Return("ok") /\ UNCHANGED held
  BY DEF EnterFile, Answered
<1>2. /\ Started /\ ~call.made /\ call.op = "put" /\ Leads(call.id, call.at, call.size)
  BY <1>1 DEF Started, Sound, Lag, Entering, Flags
<1>3. call.size \in Int
  BY <1>2, StoredIs
<1>4. /\ call.at \in Names /\ call.at # <<>> /\ call.at # Root[call.f] /\ Root[call.f] \in Names
      /\ relativeRoot[call.f] = At(Now, Root[call.f]) /\ Course(Now)
  <2>1. call.at \in Files(call.f)
    BY <1>2 DEF Sound, Arguments
  <2> QED BY <1>2, <2>1, PathsAre, Facts
<1>5. /\ Added(Now, call.at, server, call.id, call.size) /\ At(Now, call.at) = None
      /\ server = With(Now, call.id, File(up, Last(call.at), call.size))
  BY <1>2, <1>3, <1>4, LeadsIs DEF Leads
<1>6. server' = server /\ next' = next
  <2>1. next \notin DOMAIN server
    BY NextHere
  <2> QED BY <1>1, <2>1, Replies
<1>7. Commit(server', relativeRoot[call.f])
  <2>1. NodeAt(ParentPath) = up
    BY <1>2 DEF NodeAt, ParentPath, Goal, At, Now
  <2>2. Child(Now, up, Last(call.at)) = None
    BY <1>4, <1>5, PathStep DEF At
  <2> QED BY <1>5, <1>6, <2>1, <2>2 DEF EnterFile, Now
<1>8. relativeRoot[call.f] = At(server, Root[call.f])
  BY <1>4, <1>5 DEF Added
<1>9. next' \in Nat \ {0} /\ next <= next' /\ Whole(server', next')
  BY <1>6, Facts
<1> QED BY <1>1, <1>6, <1>7, <1>8, <1>9, CommitsAndReturns

\* A file that is removed leaves the tree.
LEMMA RemovedStep ==
  ASSUME Sound, UNCHANGED opt, Removed
  PROVE  Sound'
<1>1. call.step = "unlink" /\ call.op = "remove" /\ Serve /\ Return("ok") /\ UNCHANGED held
  BY DEF Removed, Answered
<1>2. Started /\ ~call.made /\ server = Now /\ Aimed(Now, call.id)
  BY <1>1 DEF Started, Sound, Lag, Replacing, Entering, Moving, Steps, Aiming, Flags
<1>3. /\ FileAt(Now, call.at, call.id) /\ call.id \in DOMAIN Now /\ ~Now[call.id].dir
      /\ At(Now, call.at) = call.id
  BY <1>1, <1>2 DEF Aimed, FileAt
<1>4. /\ call.at \in Names /\ call.at # Root[call.f] /\ Root[call.f] \in Names
      /\ relativeRoot[call.f] = At(Now, Root[call.f]) /\ Course(Now) /\ Whole(Now, next)
      /\ next \in Nat \ {0}
  <2>1. call.at \in Files(call.f)
    BY <1>1 DEF Sound, Arguments
  <2> QED BY <1>2, <2>1, PathsAre, Facts
<1>5. /\ server' = Without(Now, {call.id})
      /\ next' = IF next \in DOMAIN server' THEN next + 1 ELSE next
  BY <1>1, <1>2, Replies DEF DeleteFile
<1>6. \A j \in DOMAIN Now : Now[j].parent \in {call.id} => j \in {call.id}
  BY <1>3, <1>4, FileAlone
<1>7. /\ next' = next /\ Whole(server', next')
      /\ \A q \in Names : At(server', q) = IF At(Now, q) \in {call.id} /\ q # <<>> THEN None ELSE At(Now, q)
  BY <1>4, <1>5, <1>6, Dropping
<1>8. call.id # None
  BY <1>3, <1>4, ChildIs
<1>9. Commit(server', relativeRoot[call.f])
  <2>1. NodeAt(call.at) = call.id
    BY <1>3 DEF NodeAt, At, Now
  <2> QED BY <1>5, <1>8, <2>1 DEF Removed, Now
<1>10. relativeRoot[call.f] = At(server', Root[call.f])
  <2>1. At(Now, Root[call.f]) # call.id
    BY <1>3, <1>4, <1>8, AtInjective
  <2> QED BY <1>4, <1>7, <2>1
<1> QED BY <1>1, <1>4, <1>7, <1>9, <1>10, CommitsAndReturns

-----------------------------------------------------------------------------
(* Nodes that move, and keep their ids. *)

\* The node id of t is put elsewhere.
Placed(t, id, u, up, name) ==
  /\ u \in [DOMAIN t -> Nodes] /\ \A j \in DOMAIN t : j # id => u[j] = t[j]
  /\ u[id].parent = up /\ u[id].name = name /\ u[id].dir = t[id].dir /\ u[id].size = t[id].size

\* The requests that rename and reparent do so.
LEMMA PlacedIs ==
  ASSUME NEW t, t \in [DOMAIN t -> Nodes], NEW id \in DOMAIN t, NEW up \in Nat, NEW name \in STRING
  PROVE  Placed(t, id, [t EXCEPT ![id].parent = up, ![id].name = name], up, name)
<1> SUFFICES ASSUME NEW u, u = [t EXCEPT ![id].parent = up, ![id].name = name]
    PROVE  Placed(t, id, u, up, name)
  OBVIOUS
<1>1. /\ u[id].parent = up /\ u[id].name = name /\ u[id].dir = t[id].dir /\ u[id].size = t[id].size
      /\ u[id] \in Nodes /\ DOMAIN u = DOMAIN t /\ \A j \in DOMAIN t : j # id => u[j] = t[j]
  BY DEF Nodes
<1>2. u \in [DOMAIN t -> Nodes]
  BY DEF Nodes
<1> QED BY <1>1, <1>2 DEF Placed

\* There is one tree in which the node is put there.
LEMMA PlacedSame ==
  ASSUME NEW t, NEW id \in DOMAIN t, NEW u, NEW w, NEW up, NEW name, Placed(t, id, u, up, name),
         w \in [DOMAIN t -> Nodes], \A j \in DOMAIN t : j # id => w[j] = t[j],
         w[id].parent = up, w[id].name = name, w[id].dir = t[id].dir, w[id].size = t[id].size
  PROVE  w = u
<1>1. u \in [DOMAIN t -> Nodes] /\ DOMAIN u = DOMAIN t /\ DOMAIN w = DOMAIN t
  BY DEF Placed
<1>2. u[id] \in Nodes /\ w[id] \in Nodes
  BY <1>1
<1>3. w[id] = u[id]
  BY <1>2, SameNode DEF Placed
<1>4. \A j \in DOMAIN t : w[j] = u[j]
  BY <1>3 DEF Placed
<1> QED BY <1>1, <1>4, SameTree

\* What is moved does not take the folder with it where it goes.
LEMMA MovedRoot ==
  ASSUME Sound, NEW id \in DOMAIN Now, At(Now, call.to) = None, call.op \in {"move", "dirmove"},
         IsDir(Now, At(Now, Front(call.to))), At(Now, Front(call.to)) \notin Subtree(Now, id),
         At(Now, Root[call.f]) # None
  PROVE  At(Now, Root[call.f]) \notin Subtree(Now, id)
<1> DEFINE path == Root[call.f]
           q == Front(call.to)
           M == Subtree(Now, id)
<1>1. /\ Course(Now) /\ path \in Names /\ call.to \in Names /\ IsPrefix(path, call.to)
  <2>1. call.to \in Files(call.f) \cup Folders(call.f)
    BY DEF Sound, Arguments
  <2> QED BY <2>1, Facts, PathsAre
<1>2. call.to # <<>> /\ q \in Names
  BY <1>1, AtEmpty, FrontIs DEF Top, None
<1>3. IsPrefix(path, q)
  BY <1>1, <1>2, PrefixFront
<1>4. At(Now, q) # None
  BY <1>1, ChildIs DEF IsDir, Top, None
<1>5. M \subseteq DOMAIN Now /\ \A j \in DOMAIN Now : Now[j].parent \in M => j \in M
  BY SubtreeIs
<1> HIDE DEF M
<1>6. At(Now, path) \in M => At(Now, q) \in M
  BY <1>1, <1>2, <1>3, <1>4, <1>5, ClosedBelow
<1> QED BY <1>6 DEF M

\* The node n of r put elsewhere.
Putting(r, n, up, name) == [r EXCEPT ![n].parent = up, ![n].name = name]

\* What moveNodeInTree commits.
LEMMA MoveCommits ==
  ASSUME NEW new, moveNodeInTree(new), call.op \in {"move", "dirmove"},
         At(Now, call.at) # None, IsDir(Now, At(Now, Front(call.to))),
         NEW n, n = (IF IsDir(Now, At(Now, call.at)) THEN At(Now, call.at) ELSE new),
         NEW r, r = (IF IsDir(Now, At(Now, call.at)) THEN Now
                     ELSE ReId(Now, At(Now, call.at), new, server'[new].size)),
         NEW u, u = Putting(r, n, At(Now, Front(call.to)), Last(call.to))
  PROVE  Commit(u, updateRelativeRootFromTree(u))
<1>1. GetNodeAtPath(Now, Top, call.at) = At(Now, call.at) /\ NodeAt(ParentPath) = At(Now, Front(call.to))
  BY DEF At, NodeAt, ParentPath, Goal, Now
<1> QED BY <1>1 DEF moveNodeInTree, Now, Putting

\* A node that keeps its id has moved, in its folder or to another.
LEMMA MovedNode ==
  ASSUME Sound, UNCHANGED <<opt, held>>, Return("ok"), Started, ~call.made, server = Now,
         call.op \in {"move", "dirmove"}, At(Now, call.at) = call.id, call.id \in DOMAIN Now,
         At(Now, call.to) = None, moveNodeInTree(call.id),
         IsDir(Now, At(Now, Front(call.to))),
         At(Now, Front(call.to)) \notin Subtree(Now, call.id),
         Placed(Now, call.id, server', At(Now, Front(call.to)), Last(call.to)),
         next' = IF next \in DOMAIN server' THEN next + 1 ELSE next
  PROVE  Sound'
<1> DEFINE id == call.id
           up == At(Now, Front(call.to))
           name == Last(call.to)
<1>1. /\ Course(Now) /\ call.at \in Names /\ call.to \in Names /\ call.f \in Fs
      /\ relativeRoot[call.f] = At(Now, Root[call.f]) /\ Root[call.f] \in Names
      /\ Now \in [DOMAIN Now -> Nodes] /\ call.to # <<>> /\ id # None
  <2>1. call.to # <<>>
    BY AtEmpty DEF Top, None
  <2> QED BY <2>1, Facts, PathsAre, ChildIs DEF Course
<1>2. PICK u : u = server'
  OBVIOUS
<1>3. /\ u \in [DOMAIN Now -> Nodes] /\ \A j \in DOMAIN Now : j # id => u[j] = Now[j]
      /\ u[id].parent = up /\ u[id].name = name /\ u[id].dir = Now[id].dir /\ u[id].size = Now[id].size
  BY <1>2 DEF Placed
<1>4. /\ Course(u)
      /\ \A q \in Names : At(Now, q) # None /\ At(Now, q) \notin Subtree(Now, id) => At(u, q) = At(Now, q)
  BY <1>1, <1>3, MoveNode
<1>5. At(Now, Root[call.f]) # None => At(u, Root[call.f]) = At(Now, Root[call.f])
  BY <1>1, <1>4, MovedRoot
<1>6. next' = next /\ Whole(u, next') /\ next \in Nat \ {0}
  <2>1. DOMAIN u = DOMAIN Now
    BY <1>3
  <2> QED BY <1>2, <1>4, <2>1, NextHere DEF Whole
<1>7. Commit(u, updateRelativeRootFromTree(u))
  <2>1. ReId(Now, id, id, server'[id].size) = Now
    BY <1>1, <1>2, <1>3, ReIdSame
  <2>2. PICK w : w = [Now EXCEPT ![id].parent = up, ![id].name = name]
    OBVIOUS
  <2>3. up \in Nat /\ name \in STRING
    BY <1>1, FrontIs DEF IsDir, Top, Course
  <2>4. Placed(Now, id, w, up, name)
    BY <1>1, <2>2, <2>3, PlacedIs
  <2>5. u = w
    BY <1>3, <2>4, PlacedSame
  <2>6. u = Putting(Now, id, up, name)
    BY <2>2, <2>5 DEF Putting
  <2>7. /\ moveNodeInTree(id) /\ id = At(Now, call.at) /\ At(Now, call.at) # None
        /\ name = Last(call.to) /\ up = At(Now, Front(call.to)) /\ IsDir(Now, At(Now, Front(call.to)))
    BY <1>1
  <2> HIDE DEF id, up, name
  <2>8. id = (IF IsDir(Now, At(Now, call.at)) THEN At(Now, call.at) ELSE id)
    BY <2>7
  <2>9. Now = (IF IsDir(Now, At(Now, call.at)) THEN Now
               ELSE ReId(Now, At(Now, call.at), id, server'[id].size))
    BY <2>1, <2>7
  <2>10. u = Putting(Now, id, At(Now, Front(call.to)), Last(call.to))
    BY <2>6, <2>7
  <2> QED BY <2>7, <2>8, <2>9, <2>10, MoveCommits
<1>8. updateRelativeRootFromTree(u) = At(u, Root[call.f])
  BY <1>1, <1>5, RootAfter
<1>9. next <= next' /\ next' \in Nat \ {0}
  BY <1>6
<1> QED BY <1>2, <1>6, <1>7, <1>8, <1>9, CommitsAndReturns

\* A rename and a change of folder are entered in the tree.
LEMMA RenamedStep ==
  ASSUME Sound, UNCHANGED <<opt, held>>, Return("ok"), Answered("rename"), moveNodeInTree(call.id)
  PROVE  Sound'
<1> DEFINE up == At(Now, Front(call.to))
<1>1. call.step = "rename" /\ call.op = "move" /\ Serve
  BY DEF Answered, Sound, Flags, Fits
<1>2. Started /\ ~call.made /\ server = Now /\ Aimed(Now, call.id) /\ Front(call.at) = Front(call.to)
  BY <1>1 DEF Started, Sound, Lag, Replacing, Entering, Moving, Steps, Aiming, Flags
<1>3. /\ FileAt(Now, call.at, call.id) /\ call.id \in DOMAIN Now /\ At(Now, call.at) = call.id
      /\ At(Now, call.to) = None
  BY <1>1, <1>2 DEF Aimed, FileAt
<1>4. /\ Course(Now) /\ call.at \in Names /\ call.at # <<>> /\ call.id # None /\ call.to \in Names
      /\ call.to # <<>> /\ Now \in [DOMAIN Now -> Nodes]
  <2>1. call.to # <<>>
    BY <1>3, AtEmpty DEF Top, None
  <2> QED BY <1>3, <2>1, Facts, ChildIs, AtIs DEF Course
<1>5. Now[call.id].parent = up
  BY <1>2, <1>3, <1>4, AtStep
<1>6. IsDir(Now, up) /\ up \notin Subtree(Now, call.id)
  BY <1>3, <1>4, <1>5, NotInItself DEF Course
<1>7. /\ server' = [Now EXCEPT ![call.id].name = Last(call.to)]
      /\ next' = IF next \in DOMAIN server' THEN next + 1 ELSE next
  BY <1>1, <1>2, Replies DEF UpdateFileRef
<1>8. Placed(Now, call.id, server', up, Last(call.to))
  <2>1. Last(call.to) \in STRING
    BY <1>4, FrontIs
  <2> SUFFICES ASSUME NEW u, u = [Now EXCEPT ![call.id].name = Last(call.to)]
      PROVE  Placed(Now, call.id, u, up, Last(call.to))
    BY <1>7
  <2>2. /\ u[call.id].parent = Now[call.id].parent /\ u[call.id].name = Last(call.to)
        /\ u[call.id].dir = Now[call.id].dir /\ u[call.id].size = Now[call.id].size
        /\ DOMAIN u = DOMAIN Now /\ \A j \in DOMAIN Now : j # call.id => u[j] = Now[j]
    BY <1>3, <1>4, <2>1 DEF Nodes
  <2>3. u \in [DOMAIN Now -> Nodes]
    BY <1>3, <1>4, <2>1 DEF Nodes
  <2> QED BY <1>5, <2>2, <2>3 DEF Placed
<1> QED BY <1>1, <1>2, <1>3, <1>6, <1>7, <1>8, MovedNode

LEMMA ReparentedStep ==
  ASSUME Sound, UNCHANGED <<opt, held>>, Return("ok"), Answered("reparent"), moveNodeInTree(call.id)
  PROVE  Sound'
<1> DEFINE up == At(Now, Front(call.to))
<1>1. call.step = "reparent" /\ call.op = "dirmove" /\ Serve
  BY DEF Answered, Sound, Flags, Fits
<1>2. Started /\ ~call.made /\ server = Now /\ Aimed(Now, call.id)
  BY <1>1 DEF Started, Sound, Lag, Replacing, Entering, Moving, Steps, Aiming, Flags
<1>3. call.id \in DOMAIN Now /\ At(Now, call.at) = call.id /\ At(Now, call.to) = None
  BY <1>1, <1>2 DEF Aimed
<1>4. /\ Course(Now) /\ call.to \in Names /\ call.to # <<>> /\ Now \in [DOMAIN Now -> Nodes]
  <2>1. call.to # <<>>
    BY <1>3, AtEmpty DEF Top, None
  <2> QED BY <2>1, Facts DEF Course
<1>5. NodeAt(ParentPath) = up
  BY <1>1 DEF NodeAt, ParentPath, Goal, At, Now
<1>6. /\ IsDir(Now, up) /\ up \notin Subtree(Now, call.id)
      /\ server' = [Now EXCEPT ![call.id].parent = up, ![call.id].name = Last(call.to)]
      /\ next' = IF next \in DOMAIN server' THEN next + 1 ELSE next
  <2>1. /\ server' \in UpdateFolder(call.id)
        /\ next' = IF next \in DOMAIN server' THEN next + 1 ELSE next
    BY <1>1, Replies
  <2> QED BY <1>2, <1>5, <2>1 DEF UpdateFolder
<1>7. up \in Nat /\ Last(call.to) \in STRING
  BY <1>4, <1>6, FrontIs DEF IsDir, Top, Course
<1>8. Placed(Now, call.id, server', up, Last(call.to))
  BY <1>3, <1>4, <1>6, <1>7, PlacedIs
<1> QED BY <1>1, <1>2, <1>3, <1>6, <1>8, MovedNode

-----------------------------------------------------------------------------
(* Files that move by a copy, and what a call that fails has left. *)

\* A copied file is entered where the source was taken off.
LEMMA CopyKeptStep ==
  ASSUME Sound, UNCHANGED <<opt, held>>, Return("ok"), Answered("unlink"), call.op = "move",
         moveNodeInTree(call.new)
  PROVE  Sound'
<1> DEFINE id == call.id
           new == call.new
           up == At(Now, Front(call.to))
           name == Last(call.to)
           size == Now[id].size
<1>1. call.step = "unlink" /\ Serve
  BY DEF Answered
<1>2. Started /\ ~call.made /\ Aimed(Now, id) /\ Leads(new, call.to, size)
  BY <1>1 DEF Started, Sound, Lag, Moving, Steps, Aiming, Flags
<1>3. /\ FileAt(Now, call.at, id) /\ id \in DOMAIN Now /\ ~Now[id].dir /\ At(Now, call.at) = id
      /\ At(Now, call.to) = None
  BY <1>2 DEF Aimed, FileAt
<1>4. /\ Course(Now) /\ call.at \in Names /\ call.to \in Names /\ call.to # <<>>
      /\ relativeRoot[call.f] = At(Now, Root[call.f]) /\ Root[call.f] \in Names
      /\ call.to # Root[call.f] /\ size \in Int /\ Now[id] \in Nodes /\ Whole(server, next)
      /\ next \in Nat \ {0} /\ id # None /\ id # Top
  <2>1. call.to \in Files(call.f)
    BY DEF Sound, Arguments
  <2>2. Now[id] \in Nodes /\ size \in Int
    BY <1>3, Facts DEF Course, Nodes
  <2> QED BY <1>2, <1>3, <2>1, <2>2, Facts, PathsAre, ChildIs
<1>5. /\ Added(Now, call.to, server, new, size) /\ new \notin DOMAIN Now /\ new \in Nat \ {0}
      /\ IsDir(Now, up)
  BY <1>2, <1>4, LeadsIs DEF Leads
<1>6. /\ Course(server) /\ DOMAIN server = DOMAIN Now \cup {new} /\ server[new] = File(up, name, size)
      /\ \A j \in DOMAIN Now : server[j] = Now[j]
      /\ \A q \in Names : q # call.to => At(server, q) = At(Now, q)
  BY <1>5 DEF Added
<1>7. /\ server' = Without(server, {id})
      /\ next' = IF next \in DOMAIN server' THEN next + 1 ELSE next
  BY <1>1, Replies DEF DeleteFile
<1>8. \A j \in DOMAIN server : server[j].parent \in {id} => j \in {id}
  <2>1. id \in DOMAIN server /\ ~server[id].dir
    BY <1>3, <1>6
  <2> QED BY <1>6, <2>1, FileAlone
<1>9. /\ next' = next /\ Whole(server', next')
      /\ \A q \in Names : At(server', q) = IF At(server, q) \in {id} /\ q # <<>> THEN None ELSE At(server, q)
  BY <1>4, <1>7, <1>8, Dropping
<1>10. PICK w : w = server'
  OBVIOUS
<1>11. DOMAIN w = (DOMAIN Now \ {id}) \cup {new} /\ w[new] = File(up, name, size)
       /\ \A j \in DOMAIN Now : j # id => w[j] = Now[j]
  <2>1. w = Without(server, {id})
    BY <1>7, <1>10
  <2>2. DOMAIN w = DOMAIN server \ {id} /\ \A j \in DOMAIN server \ {id} : w[j] = server[j]
    BY <2>1 DEF Without, Restrict
  <2> QED BY <1>3, <1>5, <1>6, <2>2
<1>12. w \in [DOMAIN w -> Nodes]
  BY <1>9, <1>10 DEF Whole, Course
<1> HIDE DEF size, up, name
<1>13. w[new].size = size /\ w[new].parent = up /\ w[new].name = name /\ ~w[new].dir
  BY <1>11 DEF File
<1> DEFINE r == ReId(Now, id, new, w[new].size)
<1>14. /\ DOMAIN r = (DOMAIN Now \ {id}) \cup {new} /\ r \in [DOMAIN r -> Nodes]
       /\ r[new].size = size /\ r[new].dir = Now[id].dir
       /\ \A j \in DOMAIN Now : j # id /\ j # new => r[j] = Now[j]
  <2>1. ReIded(Now, id, r, new, size)
    BY <1>3, <1>4, <1>13, ReIdFields
  <2> HIDE DEF r
  <2> QED BY <2>1 DEF ReIded
<1>15. up \in Nat /\ name \in STRING
  BY <1>4, <1>5, FrontIs DEF up, name, IsDir, Top, Course
<1> DEFINE u == [r EXCEPT ![new].parent = up, ![new].name = name]
<1>16. w = u
  <2> HIDE DEF r
  <2>1. Placed(r, new, u, up, name)
    BY <1>14, <1>15, PlacedIs
  <2>2. w \in [DOMAIN r -> Nodes] /\ \A j \in DOMAIN r : j # new => w[j] = r[j]
    BY <1>11, <1>12, <1>14
  <2>3. w[new].dir = r[new].dir
    <3>1. w[new] \in Nodes /\ Now[id] \in Nodes
      BY <1>4, <1>11, <1>12
    <3>2. w[new].dir \in BOOLEAN /\ Now[id].dir \in BOOLEAN
      BY <3>1 DEF Nodes
    <3> QED BY <1>3, <1>13, <1>14, <3>2
  <2>4. new \in DOMAIN r
    BY <1>14
  <2> HIDE DEF u
  <2> QED BY <1>13, <1>14, <2>1, <2>2, <2>3, <2>4, PlacedSame
<1>17. Commit(w, updateRelativeRootFromTree(w))
  <2> DEFINE v == ReId(Now, id, new, server'[new].size)
  <2>1. w = Putting(v, new, up, name)
    BY <1>10, <1>16 DEF Putting
  <2>2. /\ id = At(Now, call.at) /\ up = At(Now, Front(call.to)) /\ name = Last(call.to)
        /\ ~IsDir(Now, id)
    BY <1>3, <1>4 DEF up, name, IsDir
  <2> HIDE DEF u, r, v
  <2>3. new = (IF IsDir(Now, At(Now, call.at)) THEN At(Now, call.at) ELSE new)
    BY <2>2
  <2>4. v = (IF IsDir(Now, At(Now, call.at)) THEN Now
             ELSE ReId(Now, At(Now, call.at), new, server'[new].size))
    BY <2>2 DEF v
  <2>5. w = Putting(v, new, At(Now, Front(call.to)), Last(call.to))
    BY <2>1, <2>2
  <2>6. At(Now, call.at) # None /\ IsDir(Now, At(Now, Front(call.to)))
    BY <1>4, <1>5, <2>2
  <2> QED BY <1>4, <1>5, <2>3, <2>4, <2>5, <2>6, MoveCommits
<1>18. At(Now, Root[call.f]) # None => At(w, Root[call.f]) = At(Now, Root[call.f])
  <2> SUFFICES ASSUME At(Now, Root[call.f]) # None PROVE At(w, Root[call.f]) = At(Now, Root[call.f])
    OBVIOUS
  <2>1. Subtree(Now, id) = {id}
    BY <1>3, <1>4, FileAlone
  <2>2. up \notin {id}
    BY <1>3, <1>4, <1>5 DEF IsDir
  <2>3. At(Now, Root[call.f]) # id
    BY <1>3, <1>5, <2>1, <2>2, MovedRoot DEF up
  <2>4. At(server, Root[call.f]) = At(Now, Root[call.f])
    BY <1>4, <1>6
  <2> QED BY <1>4, <1>9, <1>10, <2>3, <2>4
<1>19. updateRelativeRootFromTree(w) = At(w, Root[call.f])
  BY <1>4, <1>18, RootAfter
<1>20. next <= next' /\ next' \in Nat \ {0}
  BY <1>4, <1>9
<1> QED BY <1>9, <1>10, <1>17, <1>19, <1>20, CommitsAndReturns

\* Each of the three ways to move keeps the invariant.
LEMMA MovedStep ==
  ASSUME Sound, UNCHANGED opt, Moved
  PROVE  Sound'
BY RenamedStep, ReparentedStep, CopyKeptStep DEF Moved

-----------------------------------------------------------------------------
\* A copy whose source could not be removed is cleaned up.
LEMMA CleanedUpStep ==
  ASSUME Sound, UNCHANGED opt, CleanedUp, ~drifted'
  PROVE  Sound'
<1>1. call.step = "cleanup" /\ call.op = "move" /\ Serve /\ Return("failed") /\ UNCHANGED <<caches, held>>
  BY DEF CleanedUp, Answered, Sound, Flags, Fits
<1>2. /\ Started /\ ~call.made /\ call.new \notin DOMAIN Now /\ Course(Now)
      /\ Leads(call.new, call.to, Now[call.id].size) /\ Shows(Now)
  BY <1>1, Facts DEF Started, Sound, Lag, Moving, Flags, Leads, Caches
<1>3. /\ server' = Without(server, {call.new})
      /\ next' = IF next \in DOMAIN server' THEN next + 1 ELSE next
  BY <1>1, Replies DEF DeleteFile
<1>4. server' = Now
  <2>1. PICK n : server = With(Now, call.new, n)
    BY <1>2 DEF Leads
  <2>2. Now = [j \in DOMAIN Now |-> Now[j]]
    BY <1>2 DEF Course
  <2>3. DOMAIN server = DOMAIN Now \cup {call.new} /\ \A j \in DOMAIN Now : server[j] = Now[j]
    BY <1>2, <2>1 DEF With
  <2>4. DOMAIN server \ {call.new} = DOMAIN Now
    BY <1>2, <2>3
  <2>5. Without(server, {call.new}) = [j \in DOMAIN Now |-> server[j]]
    BY <2>4 DEF Without, Restrict
  <2> QED BY <1>3, <2>2, <2>3, <2>5
<1>5. next' = next /\ next \in Nat \ {0} /\ Whole(Now, next)
  BY <1>3, <1>4, NextHere, Facts
<1>6. Over
  BY <1>1, ReturnIs, Facts
<1>7. Labels' /\ Trees' /\ Roots'
  BY <1>1, <1>2, <1>4, <1>5, <1>6 DEF Sound, Labels, Trees, Roots, Rooted, caches, Over, Same
<1>8. Shows(server)'
  BY <1>1, <1>2, <1>4 DEF Shows, caches
<1> QED BY <1>1, <1>5, <1>6, <1>7, <1>8, Ended

\* A request fails, and was or was not served.
LEMMA RequestFailsStep ==
  ASSUME Sound, UNCHANGED opt, RequestFails, ~drifted'
  PROVE  Sound' \/ LostAtLast'
<1> DEFINE lost == call.lost \/ server' # server
<1>1. /\ UNCHANGED <<caches, held>> /\ (UNCHANGED course \/ Serve) /\ Started /\ call \in Calls
      /\ call.step \notin {"begin", "look", "again"}
  BY Facts DEF RequestFails, Requesting, Started
<1>2. next \notin DOMAIN server /\ next \in Nat \ {0}
  BY NextHere
<1>3. server' = server => next' = next
  BY <1>1, <1>2, Replies DEF course
<1>4. CASE call.op = "move" /\ call.step = "unlink"
  <2>1. ~call.made /\ call.dirty /\ Aimed(Now, call.id) /\ Leads(call.new, call.to, Now[call.id].size)
    BY <1>4 DEF Sound, Flags, Lag, Moving, Steps, Aiming
  <2>2. PICK l \in BOOLEAN : l = lost
    BY <1>1 DEF Calls
  <2>3. call' = [call EXCEPT !.step = "cleanup", !.lost = l]
    BY <1>4, <2>2 DEF RequestFails
  <2>4. /\ call' \in Calls /\ Same /\ call'.step = "cleanup" /\ call'.dirty /\ ~call'.made
        /\ call'.again = call.again /\ call'.id = call.id /\ call'.new = call.new /\ call'.lost = l
    <3>1. call' \in Calls
      BY <1>1, <2>3 DEF Calls, StepNames
    <3>2. Same
      BY <1>1, <2>3 DEF Calls, Same
    <3>3. call'.step = "cleanup" /\ call'.dirty = call.dirty /\ call'.made = call.made
       /\ call'.again = call.again /\ call'.id = call.id /\ call'.new = call.new /\ call'.lost = l
      BY <1>1, <2>3 DEF Calls
    <3> QED BY <2>1, <3>1, <3>2, <3>3
  <2>5. Now' = Now
    BY <1>1, <2>4 DEF Now, Same, caches
  <2>6. CASE server' = server
    <3>1. Course(server') /\ DOMAIN server' \subseteq 1..next
      BY <2>6, NextHere, Facts
    <3>2. next' = IF next \in DOMAIN server' THEN next + 1 ELSE next
      BY <1>2, <1>3, <2>6
    <3>3. Aimed(Now, call.id)'
      BY <2>1, <2>4, <2>5 DEF Aimed, Same
    <3>4. Steps'
      BY <2>4, <3>3 DEF Steps, Aiming
    <3>5. Lag'
      <4>1. Leads(call.new, call.to, Now[call.id].size)'
        BY <2>1, <2>4, <2>5, <2>6 DEF Leads, Same
      <4> QED BY <1>4, <2>4, <4>1 DEF Same, Lag, Started, Replacing, Entering, Moving
    <3>6. Fits(call.op, "cleanup")
      BY <1>4 DEF Fits
    <3> QED BY <1>1, <2>1, <2>4, <3>1, <3>2, <3>4, <3>5, <3>6, Ahead DEF Started
  <2>7. CASE server' # server
    <3>1. Serve
      BY <1>1, <2>7 DEF course
    <3>2. /\ server' = Without(server, {call.id})
          /\ next' = IF next \in DOMAIN server' THEN next + 1 ELSE next
      BY <1>4, <3>1, Replies DEF DeleteFile
    <3>3. FileAt(Now, call.at, call.id) /\ call.to \in Names /\ call.to # <<>> /\ Whole(server, next)
      <4>1. call.to # <<>>
        BY <1>4, <2>1, AtEmpty DEF Aimed, Top, None
      <4> QED BY <1>4, <2>1, <4>1, Facts DEF Aimed
    <3>4. call.id \in DOMAIN Now /\ ~Now[call.id].dir /\ Now[call.id].size \in Int
      BY <3>3, Facts DEF FileAt, Course, Nodes
    <3>5. Added(Now, call.to, server, call.new, Now[call.id].size) /\ call.new \notin DOMAIN Now
      BY <2>1, <3>3, <3>4, LeadsIs
    <3>6. call.id \in DOMAIN server /\ ~server[call.id].dir /\ Course(server)
      BY <3>4, <3>5 DEF Added
    <3>7. \A j \in DOMAIN server : server[j].parent \in {call.id} => j \in {call.id}
      BY <3>6, FileAlone
    <3>8. Whole(server', next')
      BY <3>2, <3>3, <3>7, Dropping
    <3>9. Rooted'
      BY <1>1 DEF Sound, Roots, Rooted, caches
    <3>10. call'.lost
      BY <2>2, <2>4, <2>7
    <3> QED BY <2>4, <3>8, <3>9, <3>10 DEF LostAtLast, Whole
  <2> QED BY <2>6, <2>7
<1>5. CASE ~(call.op = "move" /\ call.step = "unlink")
  <2>1. /\ call' = [call EXCEPT !.step = "done", !.result = "failed", !.id = None,
                            !.new = None, !.made = FALSE, !.again = FALSE,
                            !.dirty = FALSE, !.lost = lost]
        /\ drifted' = (drifted \/ call.dirty \/ lost)
    BY <1>5 DEF RequestFails
  <2>2. ~call.dirty /\ ~lost /\ server' = server
    BY <2>1
  <2>3. ~call.made /\ server = Now /\ next' = next
    BY <1>1, <1>3, <2>2 DEF Sound, Flags, Lag, Replacing, Entering, Moving
  <2>4. Over
    <3>1. call' = [call EXCEPT !.step = "done", !.result = "failed", !.id = None,
                            !.new = None, !.made = FALSE, !.again = FALSE,
                            !.dirty = FALSE, !.lost = FALSE]
      BY <2>1, <2>2
    <3>2. None \in Int /\ "done" \in StepNames
      BY NoneInt DEF StepNames
    <3>3. call' \in Calls
      BY <1>1, <3>1, <3>2 DEF Calls
    <3>4. Same
      BY <1>1, <3>1, <3>2 DEF Calls, Same
    <3>5. ~call'.made /\ ~call'.again /\ call'.step = "done" /\ ~call'.dirty
      BY <1>1, <3>1, <3>2 DEF Calls
    <3> QED BY <3>3, <3>4, <3>5 DEF Over
  <2> QED BY <1>1, <2>2, <2>3, <2>4, Stops DEF course
<1> QED BY <1>4, <1>5

-----------------------------------------------------------------------------
(* Every step keeps the invariant, and what follows from it. *)

\* What a course starts as is a course.
LEMMA Starting ==
  ASSUME NEW t, IsCourse(t), NEW b \in Nat, DOMAIN t \subseteq 1..b
  PROVE  /\ Course(t) /\ 1 + Max({Top} \cup DOMAIN t) \in Nat \ {0}
         /\ DOMAIN t \subseteq 1..((1 + Max({Top} \cup DOMAIN t)) - 1)
<1>1. Course(t)
  <2>1. DOMAIN t \subseteq Nat \ {0}
    OBVIOUS
  <2>2. PICK depth \in [DOMAIN t -> 0..Cardinality(DOMAIN t)] :
          \A i \in DOMAIN t : t[i].parent \in DOMAIN t => depth[t[i].parent] < depth[i]
    BY DEF IsCourse
  <2>3. IsFiniteSet(DOMAIN t)
    <3>1. IsFiniteSet(1..b)
      BY FS_Interval
    <3> QED BY <3>1, FS_Subset
  <2>4. Cardinality(DOMAIN t) \in Nat
    BY <2>3, FS_CardinalityType
  <2>5. Ranks(t, depth)
    <3>1. 0..Cardinality(DOMAIN t) \subseteq Nat
      BY <2>4
    <3> QED BY <2>2, <3>1 DEF Ranks
  <2> QED BY <2>1, <2>5 DEF IsCourse, Course
<1> DEFINE T == {Top} \cup DOMAIN t
           m == Max(T)
<1>2. m \in T /\ \A y \in T : y <= m
  <2>1. T \in SUBSET (0..b) /\ T # {}
    BY DEF Top
  <2> HIDE DEF T
  <2> QED BY <2>1, MaxIs
<1>3. m \in Nat
  BY <1>2 DEF Top
<1> HIDE DEF m
<1>4. \A i \in DOMAIN t : i \in 1..m
  BY <1>2
<1>5. (1 + m) - 1 = m /\ 1 + m \in Nat \ {0}
  BY <1>3
<1> QED BY <1>1, <1>4, <1>5 DEF m

\* The invariant holds at the start.
LEMMA InitInv ==
  ASSUME Init
  PROVE  Sound
<1>1. /\ opt \in Scenarios /\ server \in opt.starts /\ next = 1 + Max({Top} \cup DOMAIN server)
      /\ counter = 0 /\ snapshot = [gen |-> 0, tree |-> server]
      /\ tree = [f \in Fs |-> server]
      /\ relativeRoot = [f \in Fs |-> At(server, Root[f])]
      /\ label = [f \in Fs |-> 0] /\ held = [f \in Fs |-> NoObject]
      /\ call \in {[Call("none", f) EXCEPT !.step = "done", !.result = "ok"] : f \in Fs}
  BY DEF Init, At
<1>2. Whole(server, next) /\ next \in Nat \ {0}
  <2>1. IsCourse(server) /\ DOMAIN server \subseteq 1..opt.maxIds /\ opt.maxIds \in Nat
    BY <1>1, ConstantsAssumption
  <2> QED BY <1>1, <2>1, Starting DEF Whole
<1>3. /\ call \in Calls /\ call.op = "none" /\ call.f \in Fs /\ call.step = "done"
      /\ ~call.made /\ ~call.again /\ ~call.dirty
  <2>1. PICK f \in Fs : call = [Call("none", f) EXCEPT !.step = "done", !.result = "ok"]
    BY <1>1
  <2> DEFINE k == Call("none", f)
  <2>2. k \in Calls /\ k.op = "none" /\ k.f = f /\ ~k.made /\ ~k.again /\ ~k.dirty
    BY CallIs DEF OpNames
  <2> HIDE DEF k
  <2>3. call = [k EXCEPT !.step = "done", !.result = "ok"]
    BY <2>1 DEF k
  <2>4. call \in Calls
    BY <2>2, <2>3 DEF Calls, StepNames
  <2>5. call.op = "none" /\ call.f = f /\ call.step = "done" /\ ~call.made /\ ~call.again /\ ~call.dirty
    BY <2>2, <2>3 DEF Calls
  <2> QED BY <2>4, <2>5
<1>4. Labels
  <2>1. tree = [f \in Fs |-> tree[f]]
    BY <1>1
  <2>2. relativeRoot = [f \in Fs |-> relativeRoot[f]]
    BY <1>1
  <2>3. label \in [Fs -> Nat] /\ \A f \in Fs : label[f] = 0
    BY <1>1
  <2>4. counter = 0 /\ snapshot.gen = 0
    BY <1>1
  <2>5. \A f \in Fs : label[f] <= counter
    BY <2>3, <2>4
  <2> QED BY <2>1, <2>2, <2>3, <2>4, <2>5 DEF Labels
<1>5. Types
  <2>1. NoObject \in Objects
    <3>1. <<>> \in Names /\ None \in Int /\ 0 \in Int
      BY EmptySeq, NoneInt DEF Names
    <3> QED BY <3>1 DEF NoObject, Objects
  <2> QED BY <1>1, <1>2, <1>3, <2>1 DEF Types
<1>6. Arguments
  BY <1>1, <1>3 DEF Arguments
<1>7. Trees
  BY <1>1, <1>2 DEF Trees
<1>8. Roots
  BY <1>1 DEF Roots, Rooted
<1>9. Caches /\ Flags /\ Steps /\ Lag
  BY <1>1, <1>3 DEF Caches, Shows, Flags, Fits, Steps, Lag, Started, Replacing, Entering, Moving, Aiming
<1> QED BY <1>4, <1>5, <1>6, <1>7, <1>8, <1>9 DEF Sound

\* What is left of the invariant while a move cleans up after the server has
\* removed the file and not said so.
LEMMA LostAtLastStep ==
  ASSUME LostAtLast, Next, ~drifted'
  PROVE  FALSE
<1>1. call.step = "cleanup" /\ call.lost
  BY DEF LostAtLast
<1>2. ASSUME NEW f \in Fs, NEW p \in Files(f), NewObject(f, p) PROVE FALSE
  BY <1>1, <1>2 DEF NewObject, Done
<1>3. CASE Invoke \/ OtherClient
  BY <1>1, <1>3 DEF Invoke, OtherClient, Done
<1>4. CASE Ensure \/ EnsureFails
  BY <1>1, <1>4 DEF Ensure, EnsureFails
<1>5. CASE CleanedUp
  BY <1>1, <1>5 DEF CleanedUp
<1>6. CASE RequestFails
  BY <1>1, <1>6 DEF RequestFails
<1>7. CASE BeginPut \/ BeginMkdir \/ BeginRmdir \/ LookAgain \/ BeginUpdate \/ BeginRemove
           \/ BeginMove \/ BeginDirMove \/ DirMoveOntoItself
  BY <1>1, <1>7 DEF BeginPut, BeginMkdir, BeginRmdir, LookAgain, BeginUpdate, BeginRemove,
                    BeginMove, BeginDirMove, DirMoveOntoItself
<1>8. CASE MakeSegment \/ ParentsMade \/ AlreadyThere \/ MadeDir \/ RemovedDir
           \/ Created \/ Overwrote \/ EnterFile \/ LicenseAgain \/ Licensed
           \/ Seen \/ Copied \/ Moved \/ Unlinked \/ Removed
  BY <1>1, <1>8 DEF MakeSegment, ParentsMade, AlreadyThere, MadeDir, RemovedDir, Created,
                    Overwrote, EnterFile, LicenseAgain, Licensed, Seen, Copied, Moved, Unlinked,
                    Removed, Answered
<1> QED BY <1>2, <1>3, <1>4, <1>5, <1>6, <1>7, <1>8 DEF Next, Handler

\* Every step keeps the invariant, or sets drifted.
LEMMA NextInv ==
  ASSUME KnownSizes, Sound, Next, ~drifted'
  PROVE  Sound' \/ LostAtLast'
<1>1. UNCHANGED opt
  BY DEF Next
<1>2. ASSUME NEW f \in Fs, NEW p \in Files(f), NewObject(f, p) PROVE Sound'
  BY <1>1, <1>2, NewObjectStep
<1>3. CASE Invoke
  BY <1>1, <1>3, InvokeStep
<1>4. CASE Ensure
  BY <1>1, <1>4, EnsureStep
<1>5. CASE EnsureFails
  BY <1>1, <1>5, EnsureFailsStep
<1>6. CASE RequestFails
  BY <1>1, <1>6, RequestFailsStep
<1>7. CASE OtherClient
  BY <1>7 DEF OtherClient
<1>8. CASE BeginPut \/ BeginMkdir \/ BeginRmdir \/ LookAgain \/ BeginUpdate \/ BeginRemove
           \/ BeginMove \/ BeginDirMove \/ DirMoveOntoItself
  BY <1>1, <1>8, BeginPutStep, BeginMkdirStep, BeginRmdirStep, LookAgainStep, BeginUpdateStep,
     BeginRemoveStep, BeginMoveStep, BeginDirMoveStep, DirMoveOntoItselfStep
<1>9. CASE MakeSegment \/ ParentsMade \/ AlreadyThere \/ MadeDir \/ RemovedDir
  BY <1>1, <1>9, MakeSegmentStep, ParentsMadeStep, AlreadyThereStep, MadeDirStep, RemovedDirStep
<1>10. CASE Created \/ Overwrote \/ EnterFile \/ LicenseAgain \/ Licensed
  BY <1>1, <1>10, CreatedStep, OverwroteStep, EnterFileStep, LicenseAgainStep, LicensedStep
<1>11. CASE Seen \/ Copied \/ Moved \/ CleanedUp \/ Unlinked \/ Removed
  BY <1>1, <1>11, SeenStep, CopiedStep, MovedStep, CleanedUpStep, UnlinkedStep, RemovedStep
<1> QED BY <1>2, <1>3, <1>4, <1>5, <1>6, <1>7, <1>8, <1>9, <1>10, <1>11 DEF Next, Handler

\* drifted stays.
LEMMA Drifts ==
  ASSUME Next, drifted
  PROVE  drifted'
<1>1. ASSUME NEW f \in Fs, NEW p \in Files(f), NewObject(f, p) PROVE drifted'
  BY <1>1 DEF NewObject
<1>2. CASE Invoke \/ Ensure \/ EnsureFails \/ RequestFails \/ OtherClient
  BY <1>2 DEF Invoke, Ensure, EnsureFails, RequestFails, OtherClient
<1>3. CASE BeginPut \/ BeginMkdir \/ BeginRmdir \/ LookAgain \/ BeginUpdate \/ BeginRemove
           \/ BeginMove \/ BeginDirMove \/ DirMoveOntoItself
  BY <1>3 DEF BeginPut, BeginMkdir, BeginRmdir, LookAgain, BeginUpdate, BeginRemove,
              BeginMove, BeginDirMove, DirMoveOntoItself, Pass, Stop
<1>4. CASE MakeSegment \/ ParentsMade \/ AlreadyThere \/ MadeDir \/ RemovedDir
           \/ Created \/ Overwrote \/ EnterFile \/ LicenseAgain \/ Licensed
           \/ Seen \/ Copied \/ Moved \/ CleanedUp \/ Unlinked \/ Removed
  BY <1>4 DEF MakeSegment, ParentsMade, AlreadyThere, MadeDir, RemovedDir, Created,
              Overwrote, EnterFile, LicenseAgain, Licensed, Seen, Copied, Moved, CleanedUp,
              Unlinked, Removed, Stop
<1> QED BY <1>1, <1>2, <1>3, <1>4 DEF Next, Handler

\* The invariant holds in every run, whatever the instances, roots, calls, paths and
\* courses, and whichever requests and refreshes fail.
THEOREM InvHolds ==
  ASSUME KnownSizes
  PROVE  Spec => []Inv
<1>1. Inv /\ [Next]_vars => Inv'
  <2> SUFFICES ASSUME Inv, [Next]_vars PROVE Inv'
    OBVIOUS
  <2>1. CASE UNCHANGED vars
    <3>1. UNCHANGED <<opt, server, next, counter, snapshot, tree, relativeRoot, label, held, call, drifted>>
      BY <2>1 DEF vars, course, caches
    <3>2. drifted' = drifted
      BY <3>1
    <3>3. Sound => Sound'
      BY <3>1 DEF Sound, Labels, Types, Arguments, Files, Folders, Own, Trees, Roots, Rooted, Caches,
                  Shows, Now, Started, Flags, Steps, Ready, Aimed, Lag, Leads, Replacing, Entering, Moving
    <3>4. LostAtLast => LostAtLast'
      BY <3>1 DEF LostAtLast, Rooted
    <3> QED BY <3>2, <3>3, <3>4 DEF Inv
  <2>2. CASE Next
    BY <2>2, NextInv, LostAtLastStep, Drifts DEF Inv
  <2> QED BY <2>1, <2>2
<1>2. Init => Inv
  BY InitInv DEF Inv
<1> QED BY <1>1, <1>2, PTL DEF Spec

\* Between calls, a tree or snapshot labelled with the current counter is the course,
\* unless a failed request has left the course changed without a trace in the trees
\* (fs.go:269-382, and the commit of each call that changes the course).
THEOREM CachesAgreeHolds ==
  ASSUME KnownSizes
  PROVE  Spec => []CachesAgree
<1>1. Inv => CachesAgree
  BY DEF Inv, LostAtLast, Sound, Caches, Shows, Started, CachesAgree, Done
<1> QED BY <1>1, InvHolds, PTL

\* No folder of the course has two children of one name: the calls check, in a tree
\* that is current, that what they make is not there (fs.go:798-856, 1038-1044,
\* 1196-1210).
THEOREM OneOfANameHolds ==
  ASSUME KnownSizes
  PROVE  Spec => []OneOfAName
<1>1. Inv => OneOfAName
  BY DEF Inv, LostAtLast, Sound, Trees, Whole, Course, OneOfAName
<1> QED BY <1>1, InvHolds, PTL

\* Until drifted, the root of an instance is the folder its path leads to.
LEMMA RootWhileSound ==
  ASSUME Inv, ~drifted
  PROVE  RootResolved
<1> SUFFICES ASSUME LostAtLast \/ Sound, NEW f \in Fs
    PROVE  /\ relativeRoot[f] \in {None, At(tree[f], Root[f])}
           /\ Done /\ label[f] = counter => relativeRoot[f] = At(server, Root[f])
  BY DEF Inv, RootResolved, At
<1>1. CASE LostAtLast
  BY <1>1 DEF LostAtLast, Rooted, Done
<1>2. CASE Sound
  BY <1>2 DEF Sound, Flags, Roots, Rooted, Caches, Started, Shows, Done
<1> QED BY <1>1, <1>2

-----------------------------------------------------------------------------
(***************************************************************************)
(* Every call does what FileSystem promises, until the course changes      *)
(* behind the trees: the course changes by the call's effect or not at     *)
(* all, but for folders on the way to where it puts something.             *)
(*                                                                         *)
(* A course is the set of its entries, and an entry has a path. The first  *)
(* sections say what each change of a tree does to its entries; the later  *)
(* ones, step by step, how far the course is from what it was when the     *)
(* call began (Track), and that the step is one of the promise (Answer).   *)
(***************************************************************************)

(* Every node of a course has one path, and the course the entries of its paths. *)

\* A path that goes on by a name.
LEMMA AppendIs ==
  ASSUME NEW r \in Names, NEW n \in STRING
  PROVE  Append(r, n) \in Names /\ Append(r, n) # <<>> /\ Front(Append(r, n)) = r /\ Last(Append(r, n)) = n
<1> DEFINE q == Append(r, n)
<1>1. q \in Names /\ Len(q) = Len(r) + 1 /\ q # <<>> /\ q[Len(q)] = n /\ Len(r) \in Nat
      /\ \A k \in 1..Len(r) : q[k] = r[k]
  <2>1. r \in Seq(STRING) /\ q \in Seq(STRING) /\ Len(r) \in Nat /\ Len(q) = Len(r) + 1
    BY AppendProperties, LenProperties DEF Names
  <2>2. q[Len(r) + 1] = n
    BY AppendProperties DEF Names
  <2>3. \A k \in 1..Len(r) : q[k] = r[k]
    BY AppendProperties DEF Names
  <2> HIDE DEF q
  <2>4. q # <<>>
    BY <2>1
  <2> QED BY <2>1, <2>2, <2>3, <2>4 DEF Names
<1> HIDE DEF q
<1>2. Len(q) - 1 = Len(r)
  BY <1>1
<1>3. Front(q) \in Names /\ Len(Front(q)) = Len(r) /\ \A k \in 1..Len(r) : Front(q)[k] = q[k]
  BY <1>1, <1>2, FrontIs
<1>4. Front(q) = r
  <2> DEFINE v == Front(q)
  <2>1. v \in Names /\ Len(v) = Len(r) /\ \A k \in 1..Len(r) : v[k] = r[k]
    BY <1>1, <1>3
  <2> HIDE DEF v
  <2>2. v = r
    BY <2>1 DEF Names
  <2> QED BY <2>2 DEF v
<1>5. Last(q) = n
  BY <1>1, FrontIs
<1> QED BY <1>1, <1>4, <1>5 DEF q

\* Every node of a course has a path.
LEMMA HasPath ==
  ASSUME NEW t, Course(t), NEW i \in DOMAIN t
  PROVE  \E q \in Names : q # <<>> /\ At(t, q) = i
<1>1. PICK depth : Ranks(t, depth)
  BY DEF Course
<1> DEFINE bad == {j \in DOMAIN t : ~\E q \in Names : q # <<>> /\ At(t, q) = j}
           T == {depth[j] : j \in bad}
<1> SUFFICES ASSUME bad # {} PROVE FALSE
  OBVIOUS
<1>2. T \in SUBSET Nat /\ T # {}
  BY <1>1 DEF Ranks
<1>3. PICK j \in bad : \A k \in bad : depth[j] <= depth[k]
  <2> HIDE DEF bad
  <2>1. PICK x \in T : \A y \in T : x <= y
    <3> HIDE DEF T
    <3> QED BY <1>2, NatMin
  <2> QED BY <2>1
<1>4. t[j].name \in STRING /\ IsDir(t, t[j].parent)
  BY DEF Course, Nodes
<1>5. \E r \in Names : At(t, r) = t[j].parent
  <2>1. CASE t[j].parent = Top
    BY <2>1, AtEmpty, EmptySeq DEF Names
  <2>2. CASE t[j].parent \in DOMAIN t
    <3>1. depth[t[j].parent] < depth[j] /\ depth[j] \in Nat /\ depth[t[j].parent] \in Nat
      BY <1>1, <2>2 DEF Ranks
    <3>2. t[j].parent \notin bad
      BY <1>3, <3>1
    <3> QED BY <2>2, <3>2
  <2> QED BY <1>4, <2>1, <2>2 DEF IsDir
<1>6. PICK r \in Names : At(t, r) = t[j].parent
  BY <1>5
<1> DEFINE q == Append(r, t[j].name)
<1>7. q \in Names /\ q # <<>> /\ Front(q) = r /\ Last(q) = t[j].name
  BY <1>4, AppendIs
<1> HIDE DEF q
<1>8. At(t, q) = j
  BY <1>6, <1>7, AtStep
<1> QED BY <1>7, <1>8

\* The path of a node.
PathOf(t, i) == CHOOSE q \in Names : q # <<>> /\ At(t, q) = i

\* That path leads to the node, and is not empty.
LEMMA PathOfIs ==
  ASSUME NEW t, Course(t), NEW i \in DOMAIN t
  PROVE  PathOf(t, i) \in Names /\ PathOf(t, i) # <<>> /\ At(t, PathOf(t, i)) = i
BY HasPath DEF PathOf

\* One round of Paths: a path more for every node.
Longer(t, path) ==
  [i \in DOMAIN t |-> IF t[i].parent \in DOMAIN t THEN Append(path[t[i].parent], t[i].name)
                      ELSE <<t[i].name>>]

\* A node's path is its folder's, and its name.
LEMMA PathOfChild ==
  ASSUME NEW t, Course(t), NEW i \in DOMAIN t
  PROVE  /\ t[i].parent \in DOMAIN t => PathOf(t, i) = Append(PathOf(t, t[i].parent), t[i].name)
         /\ t[i].parent \notin DOMAIN t => PathOf(t, i) = <<t[i].name>>
<1> DEFINE p == PathOf(t, i)
<1>1. p \in Names /\ p # <<>> /\ At(t, p) = i
  BY PathOfIs
<1>2. None \notin DOMAIN t /\ Top \notin DOMAIN t
  BY ChildIs
<1> HIDE DEF p
<1>3. t[i].parent = At(t, Front(p)) /\ t[i].name = Last(p) /\ At(t, Front(p)) # None
  BY <1>1, <1>2, AtStep
<1>4. Front(p) \in Names /\ Last(p) \in STRING /\ p = Append(Front(p), Last(p))
  <2>1. Front(p) \in Names /\ Last(p) \in STRING
    BY <1>1, FrontIs
  <2>2. /\ Append(Front(p), Last(p)) \in Names /\ Append(Front(p), Last(p)) # <<>>
        /\ Front(Append(Front(p), Last(p))) = Front(p) /\ Last(Append(Front(p), Last(p))) = Last(p)
    BY <2>1, AppendIs
  <2>3. p = Append(Front(p), Last(p))
    BY <1>1, <2>2, FrontLast
  <2> QED BY <2>1, <2>3
<1>5. CASE t[i].parent \in DOMAIN t
  <2>1. PathOf(t, t[i].parent) \in Names /\ At(t, PathOf(t, t[i].parent)) = t[i].parent
    BY <1>5, PathOfIs
  <2>2. PathOf(t, t[i].parent) = Front(p)
    BY <1>3, <1>4, <2>1, AtInjective
  <2> QED BY <1>3, <1>4, <1>5, <2>2 DEF p
<1>6. CASE t[i].parent \notin DOMAIN t
  <2>1. At(t, Front(p)) = Top
    BY <1>3, <1>4, <1>6, AtIs
  <2>2. Front(p) = <<>>
    BY <1>4, <2>1, AtIs
  <2>3. Append(<<>>, Last(p)) = <<Last(p)>>
    BY <1>4
  <2> QED BY <1>3, <1>4, <1>6, <2>2, <2>3 DEF p
<1> QED BY <1>5, <1>6

\* Paths gives every node its path.
LEMMA PathsIs ==
  ASSUME NEW t, Course(t)
  PROVE  /\ DOMAIN Paths(t) = DOMAIN t
         /\ \A i \in DOMAIN t : Paths(t)[i] = PathOf(t, i)
<1> DEFINE path == CHOOSE it : it = Longer(t, it)
           good == [i \in DOMAIN t |-> PathOf(t, i)]
<1>1. Paths(t) = path
  BY DEF Paths, Longer
<1>2. good = Longer(t, good)
  <2>1. \A i \in DOMAIN t : good[i] = Longer(t, good)[i]
    <3> TAKE i \in DOMAIN t
    <3>1. Longer(t, good)[i] = IF t[i].parent \in DOMAIN t THEN Append(good[t[i].parent], t[i].name)
                               ELSE <<t[i].name>>
      BY DEF Longer
    <3> QED BY <3>1, PathOfChild
  <2> QED BY <2>1 DEF Longer
<1>3. path = Longer(t, path)
  <2> HIDE DEF good
  <2> QED BY <1>2
<1> HIDE DEF path, good
<1>4. DOMAIN path = DOMAIN t
  BY <1>3 DEF Longer
<1>5. \A i \in DOMAIN t : path[i] = IF t[i].parent \in DOMAIN t THEN Append(path[t[i].parent], t[i].name)
                                    ELSE <<t[i].name>>
  BY <1>3 DEF Longer
<1>6. PICK depth : Ranks(t, depth)
  BY DEF Course
<1> DEFINE bad == {j \in DOMAIN t : path[j] # PathOf(t, j)}
           T == {depth[j] : j \in bad}
<1>7. bad = {}
  <2> SUFFICES ASSUME bad # {} PROVE FALSE
    OBVIOUS
  <2>1. T \in SUBSET Nat /\ T # {}
    BY <1>6 DEF Ranks
  <2>2. PICK j \in bad : \A k \in bad : depth[j] <= depth[k]
    <3> HIDE DEF bad
    <3>1. PICK x \in T : \A y \in T : x <= y
      <4> HIDE DEF T
      <4> QED BY <2>1, NatMin
    <3> QED BY <3>1
  <2>3. CASE t[j].parent \in DOMAIN t
    <3>1. depth[t[j].parent] < depth[j] /\ depth[j] \in Nat /\ depth[t[j].parent] \in Nat
      BY <1>6, <2>3 DEF Ranks
    <3>2. t[j].parent \notin bad
      BY <2>2, <3>1
    <3>3. path[t[j].parent] = PathOf(t, t[j].parent)
      BY <2>3, <3>2
    <3> QED BY <1>5, <2>2, <2>3, <3>3, PathOfChild
  <2>4. CASE t[j].parent \notin DOMAIN t
    BY <1>5, <2>2, <2>4, PathOfChild
  <2> QED BY <2>3, <2>4
<1> QED BY <1>1, <1>4, <1>7

\* What a listing shows at a path.
Shown(t, q) == [at |-> q, dir |-> t[At(t, q)].dir, size |-> t[At(t, q)].size]

\* A course has the entries that its paths lead to.
LEMMA EntriesAre ==
  ASSUME NEW t, Course(t)
  PROVE  /\ \A e \in Entries(t) : e.at \in Names /\ e.at # <<>> /\ At(t, e.at) \in DOMAIN t /\ e = Shown(t, e.at)
         /\ \A q \in Names : At(t, q) \in DOMAIN t => Shown(t, q) \in Entries(t) /\ Shown(t, q).at = q
<1>1. ASSUME NEW e \in Entries(t)
      PROVE  e.at \in Names /\ e.at # <<>> /\ At(t, e.at) \in DOMAIN t /\ e = Shown(t, e.at)
  <2>1. PICK i \in DOMAIN t : e = [at |-> Paths(t)[i], dir |-> t[i].dir, size |-> t[i].size]
    BY DEF Entries
  <2>2. e.at = PathOf(t, i)
    BY <2>1, PathsIs
  <2>3. e.at \in Names /\ e.at # <<>> /\ At(t, e.at) = i
    BY <2>2, PathOfIs
  <2>4. e = [at |-> e.at, dir |-> t[i].dir, size |-> t[i].size]
    BY <2>1
  <2> QED BY <2>3, <2>4 DEF Shown
<1>2. ASSUME NEW q \in Names, At(t, q) \in DOMAIN t PROVE Shown(t, q) \in Entries(t)
  <2> DEFINE i == At(t, q)
  <2>1. At(t, PathOf(t, i)) = i /\ PathOf(t, i) \in Names /\ i # None
    BY <1>2, PathOfIs, ChildIs
  <2>2. PathOf(t, i) = q
    BY <2>1, AtInjective
  <2>3. Paths(t)[i] = q
    BY <1>2, <2>2, PathsIs
  <2> QED BY <1>2, <2>3 DEF Shown, Entries
<1> QED BY <1>1, <1>2 DEF Shown

-----------------------------------------------------------------------------
(* Entries below a path, and courses that gain or lose nodes. *)

\* Entries, those at a path and below it, and where they are when that moves.
Entry(p, dir, size) == [at |-> p, dir |-> dir, size |-> size]
Below(E, p) == {e \in E : IsPrefix(p, e.at)}
Onward(E, p, q) == {[e EXCEPT !.at = q \o SubSeq(e.at, Len(p) + 1, Len(e.at))] : e \in Below(E, p)}
Way(p) == {Entry(SubSeq(p, 1, n), TRUE, -1) : n \in 1..(Len(p) - 1)}

\* A path is a start of it and the rest.
LEMMA SplitIs ==
  ASSUME NEW r \in Names, NEW p \in Names, IsPrefix(r, p)
  PROVE  SubSeq(p, Len(r) + 1, Len(p)) \in Names /\ r \o SubSeq(p, Len(r) + 1, Len(p)) = p
<1> DEFINE s == SubSeq(p, Len(r) + 1, Len(p))
<1>1. /\ Len(r) \in Nat /\ Len(p) \in Nat /\ Len(r) <= Len(p)
      /\ \A k \in 1..Len(r) : r[k] = p[k]
  BY PrefixIs
<1>2. s \in Names /\ Len(s) = Len(p) - Len(r) /\ \A k \in 1..Len(s) : s[k] = p[Len(r) + k]
  <2>1. CASE Len(r) = Len(p)
    <3>1. s = <<>>
      BY <1>1, <2>1, SubSeqEmpty DEF Names
    <3>2. <<>> \in Names /\ Len(<<>>) = 0
      BY EmptySeq DEF Names
    <3>3. Len(p) - Len(r) = 0 /\ \A k \in 1..0 : FALSE
      BY <1>1, <2>1
    <3> HIDE DEF s
    <3> QED BY <3>1, <3>2, <3>3
  <2>2. CASE Len(r) < Len(p)
    <3>1. Len(r) + 1 \in 1..Len(p) /\ Len(p) \in 1..Len(p)
      BY <1>1, <2>2
    <3> QED BY <1>1, <3>1 DEF Names
  <2> QED BY <1>1, <2>1, <2>2
<1> HIDE DEF s
<1>3. r \o s = p
  <2>1. r \o s \in Names /\ Len(r \o s) = Len(r) + Len(s)
    BY <1>2 DEF Names
  <2>2. ASSUME NEW k \in 1..Len(p) PROVE (r \o s)[k] = p[k]
    <3>1. (r \o s)[k] = IF k <= Len(r) THEN r[k] ELSE s[k - Len(r)]
      BY <1>1, <1>2, <2>2 DEF Names
    <3>2. CASE k <= Len(r)
      BY <1>1, <3>1, <3>2
    <3>3. CASE ~(k <= Len(r))
      <4>1. k - Len(r) \in 1..Len(s)
        BY <1>1, <1>2, <3>3
      <4>2. Len(r) + (k - Len(r)) = k
        BY <1>1
      <4> QED BY <1>2, <3>1, <3>3, <4>1, <4>2
    <3> QED BY <3>2, <3>3
  <2>3. Len(r \o s) = Len(p)
    BY <1>1, <1>2, <2>1
  <2> QED BY <2>1, <2>2, <2>3, SeqEqual DEF Names
<1> QED BY <1>2, <1>3 DEF s

\* A course that gains a node at p.
Gained(t, p, u, i) ==
  /\ Course(u) /\ i \notin DOMAIN t /\ DOMAIN u = DOMAIN t \cup {i} /\ At(u, p) = i
  /\ \A j \in DOMAIN t : u[j] = t[j]
  /\ \A q \in Names : q # p => At(u, q) = At(t, q)

\* It gains that entry.
LEMMA GainedEntry ==
  ASSUME NEW t, Course(t), NEW p \in Names, At(t, p) = None, NEW u, NEW i, Gained(t, p, u, i)
  PROVE  Entries(u) = Entries(t) \cup {Entry(p, u[i].dir, u[i].size)}
<1> DEFINE e0 == Entry(p, u[i].dir, u[i].size)
<1>1. Course(u) /\ None \notin DOMAIN t /\ None \notin DOMAIN u
  BY ChildIs DEF Gained
<1>2. Shown(u, p) = e0 /\ At(u, p) \in DOMAIN u
  BY DEF Gained, Shown, Entry
<1>3. \A q \in Names : q # p => At(u, q) = At(t, q)
  BY DEF Gained
<1>4. ASSUME NEW q \in Names, At(t, q) \in DOMAIN t
      PROVE  q # p /\ Shown(u, q) = Shown(t, q) /\ At(u, q) \in DOMAIN u
  <2>1. q # p
    BY <1>1, <1>4
  <2> QED BY <1>4, <2>1 DEF Gained, Shown
<1>5. ASSUME NEW q \in Names, At(u, q) \in DOMAIN u, q # p
      PROVE  At(t, q) \in DOMAIN t
  <2>1. At(u, q) # i
    BY <1>1, <1>2, <1>5, AtInjective DEF Gained
  <2> QED BY <1>3, <1>5, <2>1 DEF Gained
<1> HIDE DEF e0
<1>6. ASSUME NEW e \in Entries(u) PROVE e \in Entries(t) \cup {e0}
  <2>1. e.at \in Names /\ At(u, e.at) \in DOMAIN u /\ e = Shown(u, e.at)
    BY <1>1, EntriesAre
  <2>2. CASE e.at = p
    BY <1>2, <2>1, <2>2
  <2>3. CASE e.at # p
    <3>1. At(t, e.at) \in DOMAIN t
      BY <1>5, <2>1, <2>3
    <3>2. Shown(t, e.at) \in Entries(t)
      BY <2>1, <3>1, EntriesAre
    <3> QED BY <1>4, <2>1, <3>1, <3>2
  <2> QED BY <2>2, <2>3
<1>7. ASSUME NEW e \in Entries(t) PROVE e \in Entries(u)
  <2>1. e.at \in Names /\ At(t, e.at) \in DOMAIN t /\ e = Shown(t, e.at)
    BY EntriesAre
  <2>2. Shown(u, e.at) = e /\ At(u, e.at) \in DOMAIN u
    BY <1>4, <2>1
  <2>3. Shown(u, e.at) \in Entries(u)
    BY <1>1, <2>1, <2>2, EntriesAre
  <2> QED BY <2>2, <2>3
<1>8. e0 \in Entries(u)
  BY <1>1, <1>2, EntriesAre
<1> QED BY <1>6, <1>7, <1>8 DEF e0

\* A course that loses what is at p and below it.
Lost(t, p, u) ==
  /\ Course(u) /\ DOMAIN u \subseteq DOMAIN t /\ \A j \in DOMAIN u : u[j] = t[j]
  /\ \A q \in Names : At(t, q) # None => At(u, q) = IF IsPrefix(p, q) THEN None ELSE At(t, q)
  /\ \A q \in Names : At(u, q) # None => At(t, q) # None

\* It loses those entries.
LEMMA LostEntries ==
  ASSUME NEW t, Course(t), NEW p \in Names, NEW u, Lost(t, p, u)
  PROVE  Entries(u) = Entries(t) \ Below(Entries(t), p)
<1>1. Course(u) /\ None \notin DOMAIN t /\ None \notin DOMAIN u
  BY ChildIs DEF Lost
<1>2. ASSUME NEW e \in Entries(u) PROVE e \in Entries(t) /\ ~IsPrefix(p, e.at)
  <2>1. e.at \in Names /\ At(u, e.at) \in DOMAIN u /\ e = Shown(u, e.at)
    BY <1>1, EntriesAre
  <2>2. At(t, e.at) # None /\ At(u, e.at) # None
    BY <1>1, <2>1 DEF Lost
  <2>3. ~IsPrefix(p, e.at) /\ At(t, e.at) = At(u, e.at)
    BY <2>1, <2>2 DEF Lost
  <2>4. At(t, e.at) \in DOMAIN t /\ Shown(t, e.at) = e
    BY <2>1, <2>3 DEF Lost, Shown
  <2>5. Shown(t, e.at) \in Entries(t)
    BY <2>1, <2>4, EntriesAre
  <2> QED BY <2>3, <2>4, <2>5
<1>3. ASSUME NEW e \in Entries(t), ~IsPrefix(p, e.at) PROVE e \in Entries(u)
  <2>1. e.at \in Names /\ At(t, e.at) \in DOMAIN t /\ e = Shown(t, e.at) /\ e.at # <<>>
    BY EntriesAre
  <2>2. At(u, e.at) = At(t, e.at)
    BY <1>1, <1>3, <2>1 DEF Lost
  <2>3. At(u, e.at) \in DOMAIN u
    BY <1>1, <2>1, <2>2, AtIs
  <2>4. Shown(u, e.at) = e
    BY <2>1, <2>2, <2>3 DEF Lost, Shown
  <2>5. Shown(u, e.at) \in Entries(u)
    BY <1>1, <2>1, <2>3, EntriesAre
  <2> QED BY <2>4, <2>5
<1> QED BY <1>2, <1>3 DEF Below

\* The folders on the way to something in the course are in it.
LEMMA WayThere ==
  ASSUME NEW t, Course(t), \A i \in DOMAIN t : t[i].dir => t[i].size = -1,
         NEW p \in Names, At(t, p) # None
  PROVE  Way(p) \subseteq Entries(t)
<1> SUFFICES ASSUME NEW n \in 1..(Len(p) - 1) PROVE Entry(SubSeq(p, 1, n), TRUE, -1) \in Entries(t)
  BY DEF Way
<1> DEFINE q == SubSeq(p, 1, n)
           r == SubSeq(p, 1, n + 1)
<1>1. Len(p) \in Nat /\ n \in 1..Len(p) /\ n + 1 \in 1..Len(p)
  BY PrefixIs
<1>2. /\ q \in Names /\ q # <<>> /\ IsPrefix(q, p)
      /\ r \in Names /\ r # <<>> /\ IsPrefix(r, p)
  BY <1>1, StartIs
<1>3. Front(r) = q
  <2>1. Len(r) = n + 1 /\ Len(q) = n /\ (\A k \in 1..n : q[k] = p[k] /\ r[k] = p[k]) /\ n \in Nat
    BY <1>1 DEF Names
  <2> HIDE DEF q, r
  <2>2. Front(r) \in Names /\ Len(Front(r)) = Len(r) - 1 /\ \A k \in 1..(Len(r) - 1) : Front(r)[k] = r[k]
    BY <1>2, FrontIs
  <2>3. Len(Front(r)) = Len(q) /\ \A k \in 1..Len(q) : Front(r)[k] = q[k]
    BY <2>1, <2>2
  <2> QED BY <1>2, <2>2, <2>3, SeqEqual DEF Names
<1> HIDE DEF q, r
<1>4. At(t, q) \in DOMAIN t /\ At(t, r) \in DOMAIN t
  BY <1>2, AtPrefix, AtIs
<1>5. t[At(t, r)].parent = At(t, q)
  BY <1>2, <1>3, <1>4, AtStep, AtIs
<1>6. IsDir(t, At(t, q))
  BY <1>4, <1>5 DEF Course
<1>7. t[At(t, q)].dir /\ t[At(t, q)].size = -1
  BY <1>2, <1>4, <1>6, AtIs DEF IsDir
<1>8. t[At(t, q)].dir = TRUE
  BY <1>4, <1>7 DEF Course, Nodes
<1>9. Shown(t, q) = Entry(q, TRUE, -1)
  BY <1>7, <1>8 DEF Shown, Entry
<1> QED BY <1>2, <1>4, <1>9, EntriesAre DEF q

-----------------------------------------------------------------------------
(* Courses in which a file is renewed, or a node moves. *)

\* At a file's path and below it is that file.
LEMMA FileBelow ==
  ASSUME NEW t, Course(t), NEW p \in Names, NEW id, FileAt(t, p, id)
  PROVE  /\ Below(Entries(t), p) = {Entry(p, FALSE, t[id].size)}
         /\ \A q \in Names : At(t, q) # None => (IsPrefix(p, q) <=> q = p)
<1>1. At(t, p) = id /\ id \in DOMAIN t /\ ~t[id].dir /\ Subtree(t, id) = {id} /\ None \notin DOMAIN t
  BY FileAlone, ChildIs DEF FileAt
<1>2. ASSUME NEW q \in Names, At(t, q) # None PROVE IsPrefix(p, q) <=> q = p
  <2>1. At(t, q) \in Subtree(t, id) <=> IsPrefix(p, q)
    BY <1>1, <1>2, BelowIs
  <2>2. At(t, q) = id => q = p
    BY <1>1, <1>2, AtInjective
  <2> QED BY <1>1, <2>1, <2>2
<1>3. t[id].dir = FALSE
  BY <1>1 DEF Course, Nodes
<1>4. Shown(t, p) = Entry(p, FALSE, t[id].size)
  BY <1>1, <1>3 DEF Shown, Entry
<1>5. Shown(t, p) \in Entries(t) /\ Shown(t, p).at = p
  BY <1>1, EntriesAre
<1>6. ASSUME NEW e \in Entries(t), IsPrefix(p, e.at) PROVE e = Shown(t, p)
  <2>1. e.at \in Names /\ At(t, e.at) \in DOMAIN t /\ e = Shown(t, e.at)
    BY EntriesAre
  <2>2. e.at = p
    BY <1>1, <1>2, <1>6, <2>1
  <2> QED BY <2>1, <2>2
<1>7. IsPrefix(p, Shown(t, p).at)
  BY <1>5, PrefixSelf
<1>8. Below(Entries(t), p) = {Shown(t, p)}
  BY <1>5, <1>6, <1>7 DEF Below
<1> QED BY <1>2, <1>4, <1>8

\* A file that gets another id and size is another entry.
RenewedAlone(t, p, id, u, new) ==
  /\ FileAt(t, p, id) /\ Renewed(t, p, id, u, new)
  /\ \A j \in DOMAIN t : j # id => u[j] = t[j]
RenewedTo(t, p, u, e) == Entries(u) = (Entries(t) \ Below(Entries(t), p)) \cup {e}
\* Only its entry is another.
LEMMA RenewedEntries ==
  ASSUME NEW t, Course(t), NEW p \in Names, NEW id, NEW u, NEW new, RenewedAlone(t, p, id, u, new)
  PROVE  RenewedTo(t, p, u, Entry(p, FALSE, u[new].size))
<1> USE DEF RenewedAlone
<1> DEFINE e0 == Entry(p, FALSE, u[new].size)
<1>1. Course(u) /\ None \notin DOMAIN t /\ None \notin DOMAIN u /\ FileAt(u, p, new) /\ FileAt(t, p, id)
  BY ChildIs DEF Renewed
<1>2. e0 \in Entries(u) /\ \A q \in Names : At(u, q) # None => (IsPrefix(p, q) <=> q = p)
  <2>1. Below(Entries(u), p) = {e0}
    BY <1>1, FileBelow
  <2>2. e0 \in Entries(u)
    BY <2>1 DEF Below
  <2> QED BY <1>1, <2>2, FileBelow
<1>3. \A q \in Names : At(t, q) # None => (IsPrefix(p, q) <=> q = p)
  BY <1>1, FileBelow
<1>4. Shown(u, p) = e0
  <2>1. u[new].dir = FALSE /\ At(u, p) = new
    BY <1>1 DEF FileAt, Course, Nodes
  <2> QED BY <2>1 DEF Shown, Entry
<1>5. ASSUME NEW q \in Names, q # p
      PROVE  /\ At(u, q) = At(t, q) /\ (At(t, q) \in DOMAIN t <=> At(u, q) \in DOMAIN u)
             /\ At(t, q) \in DOMAIN t => Shown(u, q) = Shown(t, q)
  <2>1. At(u, q) = At(t, q)
    BY <1>5 DEF Renewed
  <2>2. At(t, q) \in DOMAIN t <=> At(u, q) \in DOMAIN u
    BY <1>1, <2>1, AtIs
  <2>3. At(t, q) \in DOMAIN t => At(t, q) # id
    BY <1>1, <1>5, AtInjective DEF FileAt
  <2> QED BY <2>1, <2>2, <2>3 DEF Shown
<1> HIDE DEF e0
<1>6. ASSUME NEW e \in Entries(u), e # e0 PROVE e \in Entries(t) \ Below(Entries(t), p)
  <2>1. e.at \in Names /\ At(u, e.at) \in DOMAIN u /\ e = Shown(u, e.at)
    BY <1>1, EntriesAre
  <2>2. e.at # p
    BY <1>4, <1>6, <2>1
  <2>3. At(t, e.at) \in DOMAIN t /\ Shown(t, e.at) = e
    BY <1>5, <2>1, <2>2
  <2>4. Shown(t, e.at) \in Entries(t) /\ ~IsPrefix(p, e.at)
    BY <1>1, <1>3, <2>1, <2>2, <2>3, EntriesAre
  <2> QED BY <2>3, <2>4 DEF Below
<1>7. ASSUME NEW e \in Entries(t) \ Below(Entries(t), p) PROVE e \in Entries(u)
  <2>1. e.at \in Names /\ At(t, e.at) \in DOMAIN t /\ e = Shown(t, e.at) /\ ~IsPrefix(p, e.at)
    BY <1>7, EntriesAre DEF Below
  <2>2. e.at # p
    BY <2>1, PrefixSelf
  <2>3. At(u, e.at) \in DOMAIN u /\ Shown(u, e.at) = e
    BY <1>5, <2>1, <2>2
  <2>4. Shown(u, e.at) \in Entries(u)
    BY <1>1, <2>1, <2>3, EntriesAre
  <2> QED BY <2>3, <2>4
<1> QED BY <1>2, <1>6, <1>7 DEF e0, RenewedTo

\* Below what has moved, names lead where they led.
LEMMA SameBelow ==
  ASSUME NEW t, Course(t), NEW u, Course(u), NEW id \in DOMAIN t, NEW up, NEW name,
         Placed(t, id, u, up, name), up \notin Subtree(t, id), NEW r \in Names
  PROVE  /\ GetNodeAtPath(u, id, r) = GetNodeAtPath(t, id, r)
         /\ GetNodeAtPath(t, id, r) \in Subtree(t, id) \cup {None}
<1> DEFINE M == Subtree(t, id)
           G(w, q) == GetNodeAtPath(w, id, q)
           Q == {q \in Names : G(u, q) = G(t, q) /\ G(t, q) \in M \cup {None}}
<1>1. /\ M \subseteq DOMAIN t /\ id \in M /\ t[id].parent \notin M
      /\ \A j \in DOMAIN t : t[j].parent \in M => j \in M
  <2>1. M \subseteq DOMAIN t
    BY SubtreeIs
  <2> QED BY <2>1, SubtreeIs, NotInItself
<1>2. DOMAIN u = DOMAIN t /\ (\A j \in DOMAIN t : j # id => u[j] = t[j]) /\ u[id].parent = up
  BY DEF Placed
<1>3. None \notin DOMAIN t /\ Top \notin DOMAIN t
  BY ChildIs
<1>4. <<>> \in Q
  BY <1>1, PathStart, EmptySeq DEF Names
<1>5. ASSUME NEW q \in Names, q # <<>>, Front(q) \in Q PROVE q \in Q
  <2> DEFINE x == G(t, Front(q))
             n == Last(q)
  <2>1. G(u, q) = Child(u, x, n) /\ G(t, q) = Child(t, x, n) /\ x \in M \cup {None}
    BY <1>5, PathStep
  <2> HIDE DEF x, n, M, Q
  <2>2. CASE x = None
    <3>1. \A j \in DOMAIN t : t[j].parent # None /\ u[j].parent # None
      BY <1>2, <1>3 DEF Course, IsDir, Top, None
    <3>2. Child(t, x, n) = None /\ Child(u, x, n) = None
      BY <1>2, <2>2, <3>1, ChildIs
    <3> QED BY <2>1, <3>2 DEF Q
  <2>3. CASE x \in M
    <3>1. up # x /\ t[id].parent # x
      BY <1>1, <2>3 DEF M
    <3>2. \A j \in DOMAIN t : (u[j].parent = x <=> t[j].parent = x) /\ (t[j].parent = x => u[j] = t[j])
      BY <1>2, <3>1
    <3>3. \/ Child(t, x, n) = None
          \/ Child(t, x, n) \in DOMAIN t /\ t[Child(t, x, n)].parent = x /\ t[Child(t, x, n)].name = n
      BY ChildIs
    <3>4. \/ Child(u, x, n) = None
          \/ Child(u, x, n) \in DOMAIN u /\ u[Child(u, x, n)].parent = x /\ u[Child(u, x, n)].name = n
      BY ChildIs
    <3>5. \A j \in DOMAIN t : t[j].parent = x /\ t[j].name = n => Child(t, x, n) = j
      BY ChildIs
    <3>6. \A j \in DOMAIN u : u[j].parent = x /\ u[j].name = n => Child(u, x, n) = j
      BY ChildIs
    <3>7. Child(u, x, n) = Child(t, x, n)
      BY <1>2, <3>2, <3>3, <3>4, <3>5, <3>6
    <3>8. Child(t, x, n) \in M \cup {None}
      BY <1>1, <2>3, <3>3
    <3> QED BY <2>1, <3>7, <3>8 DEF Q
  <2> QED BY <2>1, <2>2, <2>3
<1> HIDE DEF M
<1>6. Q = Names
  <2>1. Q \in SUBSET Names
    OBVIOUS
  <2> HIDE DEF Q
  <2> QED BY <1>4, <1>5, <2>1, PathInd
<1> QED BY <1>6 DEF M

\* What moves takes its entries along.
LEMMA MovedEntries ==
  ASSUME NEW t, Course(t), NEW u, Course(u), NEW a \in Names, NEW b \in Names, b # <<>>,
         NEW id \in DOMAIN t, At(t, a) = id, NEW up, up = At(t, Front(b)), IsDir(t, up),
         up \notin Subtree(t, id), Placed(t, id, u, up, Last(b)),
         \A q \in Names : At(t, q) # None /\ At(t, q) \notin Subtree(t, id) => At(u, q) = At(t, q)
  PROVE  /\ Entries(u) = (Entries(t) \ Below(Entries(t), a)) \cup Onward(Entries(t), a, b)
         /\ At(u, b) = id
<1> DEFINE M == Subtree(t, id)
           On(q) == b \o SubSeq(q, Len(a) + 1, Len(q))
<1>1. /\ DOMAIN u = DOMAIN t /\ (\A j \in DOMAIN t : j # id => u[j] = t[j])
      /\ u[id].parent = up /\ u[id].name = Last(b) /\ u[id].dir = t[id].dir /\ u[id].size = t[id].size
  BY DEF Placed
<1>2. id \in M /\ M \subseteq DOMAIN t /\ None \notin DOMAIN t /\ Top \notin DOMAIN t
  <2>1. M \subseteq DOMAIN t
    BY SubtreeIs
  <2> QED BY <2>1, NotInItself, ChildIs
<1>3. \A q \in Names : At(t, q) # None => (At(t, q) \in M <=> IsPrefix(a, q))
  BY BelowIs
<1>4. At(u, b) = id
  <2>1. Front(b) \in Names /\ up # None
    BY <1>2, FrontIs DEF IsDir, Top, None
  <2>2. At(u, Front(b)) = up
    BY <2>1
  <2> QED BY <1>1, <2>2, AtStep
<1> HIDE DEF M
<1>5. ASSUME NEW q \in Names, At(t, q) \in DOMAIN t, IsPrefix(a, q)
      PROVE  On(q) \in Names /\ At(u, On(q)) = At(t, q) /\ At(u, On(q)) \in DOMAIN u
  <2> DEFINE r == SubSeq(q, Len(a) + 1, Len(q))
  <2>1. r \in Names /\ a \o r = q
    BY <1>5, SplitIs
  <2> HIDE DEF r
  <2>2. GetNodeAtPath(u, id, r) = GetNodeAtPath(t, id, r)
    BY <2>1, SameBelow
  <2>7. r \in Names
    BY <2>1
  <2>3. GetNodeAtPath(t, GetNodeAtPath(t, Top, a), r) = GetNodeAtPath(t, Top, a \o r)
    BY <2>7, PathJoined
  <2>4. GetNodeAtPath(u, GetNodeAtPath(u, Top, b), r) = GetNodeAtPath(u, Top, b \o r)
    BY <2>7, PathJoined
  <2>5. At(u, b \o r) = At(t, q)
    BY <1>4, <2>1, <2>2, <2>3, <2>4 DEF At
  <2>6. b \o r \in Names
    BY <2>1 DEF Names
  <2> QED BY <1>1, <1>5, <2>5, <2>6 DEF r
<1> HIDE DEF On
<1>6. \A j \in DOMAIN t : u[j].dir = t[j].dir /\ u[j].size = t[j].size
  BY <1>1
<1> DEFINE Up(e) == [e EXCEPT !.at = On(e.at)]
<1>7. ASSUME NEW e \in Entries(t), IsPrefix(a, e.at)
      PROVE  Up(e) = Shown(u, On(e.at)) /\ Up(e) \in Entries(u)
  <2>1. e.at \in Names /\ At(t, e.at) \in DOMAIN t /\ e = Shown(t, e.at)
    BY EntriesAre
  <2>2. On(e.at) \in Names /\ At(u, On(e.at)) = At(t, e.at) /\ At(u, On(e.at)) \in DOMAIN u
    BY <1>5, <1>7, <2>1
  <2>3. e = [at |-> e.at, dir |-> t[At(t, e.at)].dir, size |-> t[At(t, e.at)].size]
    BY <2>1 DEF Shown
  <2>4. Up(e) = Shown(u, On(e.at))
    BY <1>6, <2>1, <2>2, <2>3 DEF Shown
  <2>5. Shown(u, On(e.at)) \in Entries(u)
    BY <2>2, EntriesAre
  <2> QED BY <2>4, <2>5
<1>8. ASSUME NEW e \in Entries(t), ~IsPrefix(a, e.at)
      PROVE  e \in Entries(u)
  <2>1. e.at \in Names /\ At(t, e.at) \in DOMAIN t /\ e = Shown(t, e.at)
    BY EntriesAre
  <2>2. At(t, e.at) \notin M /\ At(t, e.at) # None
    BY <1>2, <1>3, <1>8, <2>1
  <2>3. At(u, e.at) = At(t, e.at)
    BY <2>1, <2>2 DEF M
  <2>4. Shown(u, e.at) = e /\ At(u, e.at) \in DOMAIN u
    BY <1>1, <1>6, <2>1, <2>3 DEF Shown
  <2>5. Shown(u, e.at) \in Entries(u)
    BY <2>1, <2>4, EntriesAre
  <2> QED BY <2>4, <2>5
<1>9. ASSUME NEW e \in Entries(u)
      PROVE  \/ e \in Entries(t) /\ ~IsPrefix(a, e.at)
             \/ \E d \in Entries(t) : IsPrefix(a, d.at) /\ e = Up(d)
  <2>1. e.at \in Names /\ At(u, e.at) \in DOMAIN u /\ e = Shown(u, e.at)
    BY EntriesAre
  <2> DEFINE j == At(u, e.at)
             q == PathOf(t, j)
  <2>2. j \in DOMAIN t /\ q \in Names /\ At(t, q) = j /\ j # None
    BY <1>1, <1>2, <2>1, PathOfIs
  <2> HIDE DEF q, j
  <2>3. Shown(t, q) \in Entries(t) /\ Shown(t, q).at = q
    BY <2>2, EntriesAre
  <2>4. CASE IsPrefix(a, q)
    <3>1. On(q) \in Names /\ At(u, On(q)) = j
      BY <1>5, <2>2, <2>4
    <3>2. On(q) = e.at
      BY <2>1, <2>2, <3>1, AtInjective DEF j
    <3>3. Up(Shown(t, q)) = Shown(u, On(q))
      BY <1>7, <2>3, <2>4
    <3> QED BY <2>1, <2>3, <2>4, <3>2, <3>3
  <2>5. CASE ~IsPrefix(a, q)
    <3>1. At(u, q) = j
      BY <1>3, <2>2, <2>5 DEF M
    <3>2. q = e.at
      BY <2>1, <2>2, <3>1, AtInjective DEF j
    <3>3. Shown(t, q) = e
      BY <1>6, <2>1, <2>2, <3>2 DEF Shown, j
    <3> QED BY <2>3, <2>5, <3>2, <3>3
  <2> QED BY <2>4, <2>5
<1>10. Onward(Entries(t), a, b) = {Up(e) : e \in Below(Entries(t), a)}
  BY DEF Onward, On
<1>11. \A e : e \in Below(Entries(t), a) <=> e \in Entries(t) /\ IsPrefix(a, e.at)
  BY DEF Below
<1> HIDE DEF Up
<1> QED BY <1>4, <1>7, <1>8, <1>9, <1>10, <1>11

-----------------------------------------------------------------------------
(* What a call has done so far, in the words of the promise. *)

\* The call as the promise sees it, the course when it began, and what it needs.
Arg == [op |-> call.op, at |-> call.at, to |-> call.to, size |-> call.size]
Old == Entries(before)
Needed ==
  IF call.op \in {"put", "mkdir", "update", "move", "dirmove"} THEN Way(Goal) ELSE {}
FileIn(E, p) == Below(E, p) # {} /\ Entry(p, TRUE, -1) \notin E

\* Folders and files are named as they should, and a folder has no size.
Plain(t, o) == Named(t, o) /\ \A i \in DOMAIN t : t[i].dir => t[i].size = -1

\* A call has done nothing before its first request, nor while what it
\* removes is there.
Untouched == {"done", "ensure", "begin", "look", "again", "stat", "overwrite", "rename"}
Quiet == call.step \in Untouched \/ call.op \in {"remove", "rmdir", "purge"}
\* An upload that waits for its license has replaced the file.
Replaced == call.step = "license" /\ ~call.dirty
Written(E, p, size) == (E \ Below(E, p)) \cup {Entry(p, FALSE, size)} \cup Way(p)

\* How far the course and the tree of the instance that is called are from the
\* course as it was when the call began.
Track ==
  /\ Plain(server, opt)
  /\ call.result = "none" <=> ~Done
  /\ Quiet => server = before
  /\ Started /\ ~Replaced => Old \subseteq Entries(Now) /\ Entries(Now) \subseteq Old \cup Way(Goal)
  /\ Replaced => /\ Entries(server) = Written(Old, call.at, call.size)
                 /\ call.op = "update" => FileIn(Old, call.at)
  /\ call.op = "rmdir" /\ call.step = "rmdir" => Children(server, call.id) = {}
Tracked == drifted \/ LostAtLast \/ (Sound /\ Track)

\* What a step may be for the promise.
Silent == Same /\ call'.result = call.result /\ UNCHANGED before
Answer ==
  Silent \/ Promised!Invoke \/ Promised!Succeed \/ Promised!Fail \/ Promised!Exists

\* The words of the promise are these.
LEMMA PromisedIs ==
  /\ \A p : Promised!Under(p) = Below(Old, p) /\ Promised!Dir(p) = Entry(p, TRUE, -1)
  /\ \A p, q : Promised!Moved(p, q) = Onward(Old, p, q)
  /\ \A p : Promised!Above(p) = Way(p)
<1>1. \A p, q : Promised!IsPrefix(p, q) <=> IsPrefix(p, q)
  BY DEF Promised!IsPrefix, IsPrefix
<1>2. \A p : Promised!Under(p) = Below(Old, p)
  BY <1>1 DEF Promised!Under, Below, Old
<1>3. \A p : Promised!Dir(p) = Entry(p, TRUE, -1)
  BY DEF Promised!Dir, Entry
<1>4. \A p, q : Promised!Moved(p, q) = Onward(Old, p, q)
  BY <1>2 DEF Promised!Moved, Onward
<1>5. \A p : Promised!Above(p) = Way(p)
  BY <1>3 DEF Promised!Above, Way
<1> QED BY <1>2, <1>3, <1>4, <1>5

\* What the promise wants of a call.
LEMMA NeedsIs == call.op \in OpNames => Promised!Needs(Arg) = Needed
<1>1. \A p : Promised!Above(p) = Way(p)
  BY PromisedIs
<1> QED BY <1>1 DEF Promised!Needs, Arg, Needed, Goal, OpNames

\* What the promise wants to hold before a call may succeed.
LEMMA MayIs ==
  Promised!May(Arg) <=>
    /\ call.op = "rmdir" => Below(Old, call.at) = {Entry(call.at, TRUE, -1)}
    /\ call.op = "purge" => Entry(call.at, TRUE, -1) \in Old
    /\ call.op \in {"update", "remove", "move"} => FileIn(Old, call.at)
    /\ call.op = "dirmove" => Entry(call.at, TRUE, -1) \in Old /\ Below(Old, call.to) = {}
<1>1. \A p : Promised!Under(p) = Below(Old, p) /\ Promised!Dir(p) = Entry(p, TRUE, -1)
  BY PromisedIs
<1> QED BY <1>1 DEF Promised!May, Arg, FileIn, Old

\* What a call that succeeds makes of the entries.
LEMMA EffectIs ==
  /\ call.op \in {"put", "update"} =>
       Promised!Effect(Arg) = (Old \ Below(Old, call.at)) \cup {Entry(call.at, FALSE, call.size)}
  /\ call.op = "mkdir" =>
       Promised!Effect(Arg) = IF call.at = <<>> THEN Old ELSE Old \cup {Entry(call.at, TRUE, -1)}
  /\ call.op \in {"rmdir", "purge", "remove"} => Promised!Effect(Arg) = Old \ Below(Old, call.at)
  /\ call.op \in {"move", "dirmove"} =>
       Promised!Effect(Arg) = (Old \ Below(Old, call.at)) \cup Onward(Old, call.at, call.to)
<1>1. \A p : Promised!Under(p) = Below(Old, p) /\ Promised!Dir(p) = Entry(p, TRUE, -1)
  BY PromisedIs
<1>2. \A p, q : Promised!Moved(p, q) = Onward(Old, p, q)
  BY PromisedIs
<1>3. /\ Arg.op = call.op /\ Arg.at = call.at /\ Arg.to = call.to /\ Arg.size = call.size
  BY DEF Arg
<1>4. call.op \in {"put", "update"} =>
        Promised!Effect(Arg) = (Old \ Below(Old, call.at)) \cup {Entry(call.at, FALSE, call.size)}
  BY <1>1, <1>3 DEF Promised!Effect, Entry, Old
<1>5. call.op = "mkdir" =>
        Promised!Effect(Arg) = IF call.at = <<>> THEN Old ELSE Old \cup {Entry(call.at, TRUE, -1)}
  BY <1>1, <1>3 DEF Promised!Effect, Old
<1>6. call.op \in {"rmdir", "purge", "remove"} => Promised!Effect(Arg) = Old \ Below(Old, call.at)
  BY <1>1, <1>3 DEF Promised!Effect, Old
<1>7. call.op \in {"move", "dirmove"} =>
        Promised!Effect(Arg) = (Old \ Below(Old, call.at)) \cup Onward(Old, call.at, call.to)
  BY <1>1, <1>2, <1>3 DEF Promised!Effect, Old
<1> QED BY <1>4, <1>5, <1>6, <1>7

\* A call that succeeds as promised, fails as it may, or finds its destination there.
LEMMA SucceedIs ==
  ASSUME call.result = "none", Same, call'.result = "ok", Promised!May(Arg), call.op \in OpNames,
         Entries(before)' = Promised!Effect(Arg) \cup Needed
  PROVE  Answer
<1>1. Promised!Needs(Arg) = Needed
  BY NeedsIs
<1>2. Promised!Succeed
  BY <1>1 DEF Promised!Succeed, Arg, Same
<1> QED BY <1>2 DEF Answer

\* A call that fails leaves the entries, folders on the way, or a whole upload.
LEMMA FailIs ==
  ASSUME call.result = "none", Same, call'.result = "failed", call.op \in OpNames,
         \/ Old \subseteq Entries(before)' /\ Entries(before)' \subseteq Old \cup Needed
         \/ call.op \in {"put", "update"} /\ Entries(before)' = Written(Old, call.at, call.size)
  PROVE  Answer
<1>1. Promised!Needs(Arg) = Needed
  BY NeedsIs
<1>2. CASE Old \subseteq Entries(before)' /\ Entries(before)' \subseteq Old \cup Needed
  <2>1. Promised!Fail
    BY <1>1, <1>2 DEF Promised!Fail, Arg, Same, Old
  <2> QED BY <2>1 DEF Answer
<1>3. CASE call.op \in {"put", "update"} /\ Entries(before)' = Written(Old, call.at, call.size)
  <2>1. Entries(before)' = Promised!Effect(Arg) \cup Needed
    <3>1. Promised!Effect(Arg) = (Old \ Below(Old, call.at)) \cup {Entry(call.at, FALSE, call.size)}
      BY <1>3, EffectIs
    <3>2. Needed = Way(call.at)
      BY <1>3 DEF Needed, Goal
    <3> QED BY <1>3, <3>1, <3>2 DEF Written
  <2>2. Promised!Fail
    BY <1>1, <1>3, <2>1 DEF Promised!Fail, Arg, Same
  <2> QED BY <2>2 DEF Answer
<1> QED BY <1>2, <1>3

\* A directory is not moved onto one that is there.
LEMMA ExistsIs ==
  ASSUME call.result = "none", Same, call'.result = "exists", call.op = "dirmove", UNCHANGED before
  PROVE  Answer
<1>1. Promised!Exists
  BY DEF Promised!Exists, Same
<1> QED BY <1>1 DEF Answer

-----------------------------------------------------------------------------
(* Names say what is a folder and what a file. *)

\* The names of what calls are about.
LEMMA NamesOf ==
  ASSUME opt \in Scenarios, NEW f \in Fs
  PROVE  /\ FolderNames(opt) \cap FileNames(opt) = {}
         /\ \A p \in Files(f) : Last(p) \in FileNames(opt)
         /\ \A p \in Files(f) : \A k \in 1..(Len(p) - 1) : p[k] \in FolderNames(opt)
         /\ \A p \in Folders(f) : \A k \in 1..Len(p) : p[k] \in FolderNames(opt)
<1>1. FolderNames(opt) \cap FileNames(opt) = {}
  BY NamesAssumption
<1>2. \A p \in Files(f) : p \in opt.paths /\ p \in Names /\ p # <<>>
  BY PathsAre DEF Files, Own
<1>3. \A p \in Folders(f) : p \in Names /\ p \in opt.dirs \cup {Root[g] : g \in Fs}
  BY PathsAre DEF Folders, Own
<1> DEFINE S == opt.dirs \cup {Root[g] : g \in Fs} \cup {Front(p) : p \in opt.paths}
<1>4. FolderNames(opt) = UNION {ToSet(p) : p \in S}
  BY DEF FolderNames
<1>5. ASSUME NEW q \in S, NEW k \in DOMAIN q PROVE q[k] \in FolderNames(opt)
  <2>1. q[k] \in ToSet(q)
    BY DEF ToSet
  <2> HIDE DEF S
  <2> QED BY <1>4, <2>1
<1>6. ASSUME NEW p \in Files(f) PROVE Last(p) \in FileNames(opt)
  BY <1>2 DEF FileNames
<1>7. ASSUME NEW p \in Files(f), NEW k \in 1..(Len(p) - 1) PROVE p[k] \in FolderNames(opt)
  <2>1. Front(p) \in S
    BY <1>2
  <2>2. /\ Front(p) \in Names /\ Len(Front(p)) = Len(p) - 1
        /\ \A j \in 1..(Len(p) - 1) : Front(p)[j] = p[j]
    BY <1>2, FrontIs
  <2>3. k \in DOMAIN Front(p)
    BY <2>2 DEF Names
  <2> HIDE DEF S
  <2>4. Front(p)[k] \in FolderNames(opt)
    BY <1>5, <2>1, <2>3
  <2> QED BY <2>2, <2>4
<1>8. ASSUME NEW p \in Folders(f), NEW k \in 1..Len(p) PROVE p[k] \in FolderNames(opt)
  <2>1. p \in S
    BY <1>3
  <2>2. k \in DOMAIN p
    BY <1>3 DEF Names
  <2> HIDE DEF S
  <2> QED BY <1>5, <2>1, <2>2
<1> QED BY <1>1, <1>6, <1>7, <1>8

\* What has a folder's name is a folder, and what has a file's is a file.
LEMMA NamedIs ==
  ASSUME NEW t, NEW o, Plain(t, o), NEW i \in DOMAIN t
  PROVE  /\ t[i].name \in FolderNames(o) => t[i].dir /\ t[i].size = -1
         /\ t[i].name \in FileNames(o) => ~t[i].dir
BY DEF Plain, Named

\* A folder at a path.
LEMMA FolderThere ==
  ASSUME NEW t, Course(t), NEW o, Plain(t, o), NEW p \in Names, p # <<>>, At(t, p) # None,
         Last(p) \in FolderNames(o)
  PROVE  Entry(p, TRUE, -1) \in Entries(t) /\ t[At(t, p)].dir
<1>1. At(t, p) \in DOMAIN t /\ t[At(t, p)].name = Last(p)
  BY AtStep
<1>2. t[At(t, p)].dir /\ t[At(t, p)].size = -1
  BY <1>1, NamedIs
<1>3. t[At(t, p)].dir = TRUE
  BY <1>1, <1>2 DEF Course, Nodes
<1>4. Shown(t, p) = Entry(p, TRUE, -1)
  BY <1>2, <1>3 DEF Shown, Entry
<1> QED BY <1>1, <1>2, <1>4, EntriesAre

\* Trees whose nodes are named like those of a plain tree are plain.
LEMMA PlainLike ==
  ASSUME NEW t, NEW o, Plain(t, o), NEW u,
         \A j \in DOMAIN u : \E i \in DOMAIN t :
           u[j].name = t[i].name /\ u[j].dir = t[i].dir /\ (u[j].dir => u[j].size = t[i].size)
  PROVE  Plain(u, o)
BY DEF Plain, Named

\* A tree with a node more is plain if that node is.
LEMMA PlainPlus ==
  ASSUME NEW t, NEW o, Plain(t, o), NEW u, NEW k, DOMAIN u \subseteq DOMAIN t \cup {k},
         \A j \in DOMAIN u : j # k => u[j] = t[j],
         u[k].name \notin (IF u[k].dir THEN FileNames(o) ELSE FolderNames(o)),
         u[k].dir => u[k].size = -1
  PROVE  Plain(u, o)
BY DEF Plain, Named

\* A call that returns has nothing more to keep.
LEMMA EndsTrack ==
  ASSUME Track, UNCHANGED opt, Over, call'.result # "none", before' = server', Plain(server', opt)
  PROVE  Track'
<1>1. call'.step = "done"
  BY DEF Over
<1> QED BY <1>1 DEF Track, Started, Replaced, Done

\* A call that goes on, and has not touched the course.
LEMMA GoesTrack ==
  ASSUME Sound, Track, UNCHANGED <<opt, server, before>>, Same, call'.result = call.result,
         ~Done, call'.step # "done", (Now' = server /\ Quiet) \/ (Now' = Now /\ Started /\ ~Replaced),
         Quiet' => Quiet, ~Replaced',
         call'.op = "rmdir" /\ call'.step = "rmdir" => Children(server, call'.id) = {}
  PROVE  Track' /\ Answer
<1>1. Plain(server, opt)' /\ (call.result = "none" <=> ~Done)' /\ (Quiet' => server' = before')
  BY DEF Track, Done
<1>2. Goal' = Goal /\ Old' = Old
  BY DEF Goal, Same, Old
<1>3. Old \subseteq Entries(Now') /\ Entries(Now') \subseteq Old \cup Way(Goal)
  <2>1. CASE Now' = server /\ Quiet
    BY <2>1 DEF Track, Old
  <2>2. CASE Now' = Now /\ Started /\ ~Replaced
    BY <2>2 DEF Track
  <2> QED BY <2>1, <2>2
<1> QED BY <1>1, <1>2, <1>3 DEF Track, Answer, Silent

-----------------------------------------------------------------------------
(* Handlers that read the tree, and stop or go on. *)

\* A call returns, with what it returns.
LEMMA ReturnsIs ==
  ASSUME call \in Calls, NEW r \in {"ok", "failed", "exists"}, Return(r)
  PROVE  Over /\ Same /\ call'.result = r /\ before' = server'
<1>1. call'.result = r
  BY DEF Return, Calls
<1> QED BY <1>1, ReturnIs DEF Over, Return

\* A handler has read the tree, and goes on or stops.
LEMMA PassTrack ==
  ASSUME Sound, Track, UNCHANGED opt, call.step \in {"begin", "look", "again", "stat"},
         NEW s \in StepNames \ {"done", "license", "ensure"}, NEW id, NEW a, Pass(s, id, a),
         call.op = "rmdir" /\ s = "rmdir" => Children(server, id) = {}
  PROVE  Track' /\ Answer
<1>1. call \in Calls /\ Started /\ ~Replaced /\ Quiet /\ ~Done
  BY Facts DEF Started, Replaced, Quiet, Untouched, Done
<1>2. /\ call' = [call EXCEPT !.step = s, !.id = id, !.again = a]
      /\ UNCHANGED <<course, caches, held, ghosts, drifted>>
  BY DEF Pass
<1>3. Same /\ call'.result = call.result /\ call'.step = s /\ call'.id = id
  BY <1>1, <1>2 DEF Same, Calls
<1>4. Now' = Now /\ UNCHANGED <<server, before>>
  BY <1>2, <1>3 DEF Now, Same, course, caches, ghosts
<1>5. ~Replaced'
  BY <1>3 DEF Replaced
<1> QED BY <1>1, <1>3, <1>4, <1>5, GoesTrack DEF Same

\* A handler that has read the tree fails, and has changed nothing.
LEMMA StopTrack ==
  ASSUME Sound, Track, UNCHANGED opt, ~Done, Quiet, NEW r \in {"failed", "exists"}, Stop(r),
         r = "exists" => call.op = "dirmove"
  PROVE  Track' /\ Answer
<1>1. call \in Calls /\ UNCHANGED course /\ Return(r)
  BY Facts DEF Stop
<1>2. Over /\ Same /\ call'.result = r /\ before' = server' /\ server' = server /\ server = before
  BY <1>1, ReturnsIs DEF course, Track
<1>3. Plain(server', opt) /\ call.result = "none" /\ call.op \in OpNames
  BY <1>1, <1>2 DEF Track, Calls
<1>4. Track'
  BY <1>2, <1>3, EndsTrack
<1>5. before' = before
  BY <1>2
<1>6. Entries(before)' = Old
  BY <1>5 DEF Old
<1>7. CASE r = "failed"
  <2>1. Old \subseteq Entries(before)' /\ Entries(before)' \subseteq Old \cup Needed
    BY <1>6
  <2>2. call'.result = "failed" /\ Same
    BY <1>2, <1>7
  <2>3. Answer
    BY <1>3, <2>1, <2>2, FailIs
  <2> QED BY <1>4, <2>3
<1>8. CASE r = "exists"
  <2>1. call'.result = "exists" /\ Same /\ call.op = "dirmove"
    BY <1>2, <1>8
  <2>2. Answer
    BY <1>3, <1>5, <2>1, ExistsIs
  <2> QED BY <1>4, <2>2
<1> QED BY <1>7, <1>8

\* A call that stops in success has found what it should make.
LEMMA StopWell ==
  ASSUME Sound, Track, UNCHANGED opt, ~Done, Stop("ok"), Promised!May(Arg),
         Entries(server) = Promised!Effect(Arg) \cup Needed
  PROVE  Track' /\ Answer
<1>1. call \in Calls /\ UNCHANGED course /\ Return("ok")
  BY Facts DEF Stop
<1>2. Over /\ Same /\ call'.result = "ok" /\ before' = server' /\ server' = server
  BY <1>1, ReturnsIs DEF course
<1>3. Plain(server', opt) /\ call.result = "none" /\ call.op \in OpNames
  BY <1>1, <1>2 DEF Track, Calls
<1>4. Track'
  BY <1>2, <1>3, EndsTrack
<1>5. Entries(before)' = Promised!Effect(Arg) \cup Needed
  BY <1>2
<1> QED BY <1>2, <1>3, <1>4, <1>5, SucceedIs

\* Put looks for its leaf and what is there.
LEMMA BeginPutTrack ==
  ASSUME Sound, Track, UNCHANGED opt, BeginPut
  PROVE  Track' /\ Answer
<1>1. call.op = "put" /\ call.step = "begin"
  BY DEF BeginPut
<1>2. (\E id : Pass("overwrite", id, FALSE)) \/ Pass("parents", None, FALSE)
  BY DEF BeginPut
<1> QED BY <1>1, <1>2, PassTrack DEF StepNames

\* A folder that is to be made is there.
LEMMA MkdirThere ==
  ASSUME Sound, Track, UNCHANGED opt, call.op = "mkdir", Started, server = Now,
         At(Now, call.at) # None, Stop("ok")
  PROVE  Track' /\ Answer
<1>1. /\ Course(server) /\ Plain(server, opt) /\ call.at \in Names /\ opt \in Scenarios /\ call.f \in Fs
      /\ call.at \in Folders(call.f) /\ ~Replaced /\ ~Done
  BY Facts DEF Track, Sound, Arguments, Flags, Fits, Replaced, Started, Done
<1>2. Goal = call.at /\ Needed = Way(call.at)
  BY DEF Goal, Needed
<1>3. Old \subseteq Entries(server) /\ Entries(server) \subseteq Old \cup Way(call.at)
  BY <1>1, <1>2 DEF Track
<1>4. Way(call.at) \subseteq Entries(server)
  BY <1>1, WayThere DEF Plain
<1>5. call.at # <<>> => Entry(call.at, TRUE, -1) \in Entries(server)
  <2> SUFFICES ASSUME call.at # <<>> PROVE Entry(call.at, TRUE, -1) \in Entries(server)
    OBVIOUS
  <2>1. Last(call.at) = call.at[Len(call.at)] /\ Len(call.at) \in 1..Len(call.at)
    BY <1>1, FrontIs
  <2>2. Last(call.at) \in FolderNames(opt)
    BY <1>1, <2>1, NamesOf
  <2> QED BY <1>1, <2>2, FolderThere
<1>6. Promised!May(Arg)
  BY MayIs
<1>7. Promised!Effect(Arg) = IF call.at = <<>> THEN Old ELSE Old \cup {Entry(call.at, TRUE, -1)}
  BY EffectIs
<1>8. Entries(server) = Promised!Effect(Arg) \cup Needed
  BY <1>2, <1>3, <1>4, <1>5, <1>7
<1> QED BY <1>1, <1>6, <1>8, StopWell

\* Mkdir finds its folder, or has to make it.
LEMMA BeginMkdirTrack ==
  ASSUME Sound, Track, UNCHANGED opt, BeginMkdir
  PROVE  Track' /\ Answer
<1>1. call.op = "mkdir" /\ call.step = "begin"
  BY DEF BeginMkdir
<1>2. Started /\ ~call.made /\ server = Now
  BY <1>1, Reading
<1>3. CASE Pass("parents", None, FALSE)
  BY <1>1, <1>3, PassTrack DEF StepNames
<1>4. CASE call.at = Root[call.f] /\ relativeRoot[call.f] # None /\ Stop("ok")
  <2>1. relativeRoot[call.f] = At(Now, Root[call.f])
    BY <1>2, Facts
  <2> QED BY <1>1, <1>2, <1>4, <2>1, MkdirThere
<1> QED BY <1>1, <1>3, <1>4 DEF BeginMkdir

\* Mkdir finds it after the folders on the way were made.
LEMMA AlreadyThereTrack ==
  ASSUME Sound, Track, UNCHANGED opt, AlreadyThere
  PROVE  Track' /\ Answer
<1>1. call.step = "mkdir" /\ At(Now, call.at) # None /\ Stop("ok")
  BY DEF AlreadyThere, NodeAt, At, Now
<1>2. call.op = "mkdir" /\ server = Now /\ Started
  BY <1>1 DEF Sound, Flags, Fits, Lag, Started, Replacing, Entering, Moving
<1> QED BY <1>1, <1>2, MkdirThere

\* Rmdir and Purge look for the folder, and Rmdir for what is in it.
LEMMA BeginRmdirTrack ==
  ASSUME Sound, Track, UNCHANGED opt, BeginRmdir
  PROVE  Track' /\ Answer
<1> DEFINE id == Find(call.f, call.at)
<1>1. call.op \in {"rmdir", "purge"} /\ call.step \in {"begin", "again"}
  BY DEF BeginRmdir
<1>2. Started /\ server = Now /\ Quiet /\ ~Done
  BY <1>1, Reading DEF Quiet, Started, Done
<1>3. \/ Stop("failed")
      \/ Pass("rmdir", id, FALSE) /\ (call.op = "rmdir" => Children(tree[call.f], id) = {})
      \/ Pass("look", id, FALSE)
  BY DEF BeginRmdir
<1> HIDE DEF id
<1>4. CASE Stop("failed")
  BY <1>2, <1>4, StopTrack
<1>5. CASE Pass("rmdir", id, FALSE) /\ (call.op = "rmdir" => Children(tree[call.f], id) = {})
  <2>1. call.op = "rmdir" => Children(server, id) = {}
    BY <1>2, <1>5 DEF Now
  <2> QED BY <1>1, <1>5, <2>1, PassTrack DEF StepNames
<1>6. CASE Pass("look", id, FALSE)
  BY <1>1, <1>6, PassTrack DEF StepNames
<1> QED BY <1>3, <1>4, <1>5, <1>6

\* Update looks for the file.
LEMMA BeginUpdateTrack ==
  ASSUME Sound, Track, UNCHANGED opt, BeginUpdate
  PROVE  Track' /\ Answer
<1>1. call.op = "update" /\ call.step = "begin"
  BY DEF BeginUpdate
<1>2. Pass("parents", call.id, TRUE) \/ Pass("overwrite", call.id, FALSE)
  BY DEF BeginUpdate
<1> QED BY <1>1, <1>2, PassTrack DEF StepNames

\* Remove does.
LEMMA BeginRemoveTrack ==
  ASSUME Sound, Track, UNCHANGED opt, BeginRemove
  PROVE  Track' /\ Answer
<1>1. call.op = "remove" /\ call.step = "begin" /\ Pass("unlink", call.id, FALSE)
  BY DEF BeginRemove
<1> QED BY <1>1, PassTrack DEF StepNames

\* Move looks for the object.
LEMMA BeginMoveTrack ==
  ASSUME Sound, Track, UNCHANGED opt, BeginMove
  PROVE  Track' /\ Answer
<1>1. call.op = "move" /\ call.step = "begin" /\ Quiet /\ ~Done
  BY DEF BeginMove, Quiet, Untouched, Done
<1>2. Pass("stat", call.id, FALSE) \/ Stop("failed")
  BY DEF BeginMove
<1> QED BY <1>1, <1>2, PassTrack, StopTrack DEF StepNames

\* DirMove looks for the folder and for what is at its destination.
LEMMA BeginDirMoveTrack ==
  ASSUME Sound, Track, UNCHANGED opt, BeginDirMove
  PROVE  Track' /\ Answer
<1>1. call.op = "dirmove" /\ call.step = "begin" /\ Quiet /\ ~Done
  BY DEF BeginDirMove, Quiet, Untouched, Done
<1>2. (\E id : Pass("parents", id, FALSE)) \/ Stop("failed") \/ Stop("exists")
  BY DEF BeginDirMove
<1> QED BY <1>1, <1>2, PassTrack, StopTrack DEF StepNames

\* A directory that is moved to where it is stays.
LEMMA DirMoveOntoItselfTrack ==
  ASSUME Sound, Track, UNCHANGED opt, DirMoveOntoItself
  PROVE  Track' /\ Answer
<1>1. call.op = "dirmove" /\ call.step = "ensure" /\ Stop("exists") /\ Quiet /\ ~Done
  BY DEF DirMoveOntoItself, OntoItself, Quiet, Untouched, Done
<1> QED BY <1>1, StopTrack

-----------------------------------------------------------------------------
(* Lookups and refreshes, and calls that begin. *)

\* NewObject changes nothing but the trees and what rclone holds.
LEMMA NewObjectTrack ==
  ASSUME Sound, Track, UNCHANGED opt, NEW f \in Fs, NEW p \in Files(f), NewObject(f, p)
  PROVE  Track' /\ Answer
<1>1. Done /\ UNCHANGED <<course, call, calls, before, drifted>>
  BY DEF NewObject
<1>2. Same /\ call' = call /\ server' = server /\ before' = before
  BY <1>1 DEF Same, course
<1>3. ~Started /\ ~Replaced /\ call.step = "done"
  BY <1>1 DEF Done, Started, Replaced
<1>4. Track'
  BY <1>2, <1>3 DEF Track, Started, Replaced, Quiet, Done
<1> QED BY <1>2, <1>4 DEF Answer, Silent

\* A refresh brings the tree of the instance up to the course.
LEMMA EnsureTrack ==
  ASSUME Sound, Track, UNCHANGED opt, Ensure
  PROVE  Track' /\ Answer
<1>1. /\ call.step = "ensure" /\ Refresh(Outdated({call.f, call.src})) /\ Go("begin")
      /\ UNCHANGED <<course, held, ghosts, drifted>>
  BY DEF Ensure
<1>2. /\ call.f \in Fs /\ call.src \in Fs /\ call \in Calls /\ ~call.made /\ Shows(server)
  BY <1>1, Facts DEF Sound, Flags, Caches, Started
<1>3. Onto("begin", call.id)
  BY <1>1, <1>2, GoIs DEF StepNames
<1>4. \A f \in {call.f, call.src} : tree'[f] = server
  <2>1. {call.f, call.src} \in SUBSET Fs
    BY <1>2
  <2> QED BY <1>1, <1>2, <1>3, <2>1, Refreshed DEF Onto
<1>5. Now' = server /\ UNCHANGED <<server, before>> /\ Same /\ call'.step = "begin"
  BY <1>1, <1>3, <1>4 DEF Now, Onto, Same, course, ghosts
<1>6. call'.result = call.result
  BY <1>1, <1>2 DEF Go, Calls
<1>7. Quiet /\ ~Done /\ ~Replaced'
  BY <1>1, <1>5 DEF Quiet, Untouched, Done, Replaced
<1> QED BY <1>5, <1>6, <1>7, GoesTrack

\* A refresh fails, and with it the call.
LEMMA EnsureFailsTrack ==
  ASSUME Sound, Track, UNCHANGED opt, EnsureFails, ~drifted'
  PROVE  Track' /\ Answer
<1>1. call.step = "ensure" /\ Return("failed") /\ UNCHANGED course
  BY DEF EnsureFails
<1>2. call \in Calls /\ Quiet /\ ~Done
  BY <1>1, Facts DEF Quiet, Untouched, Done
<1>3. Over /\ Same /\ call'.result = "failed" /\ before' = server' /\ server' = server /\ server = before
  BY <1>1, <1>2, ReturnsIs DEF course, Track
<1>4. Plain(server', opt) /\ call.result = "none" /\ call.op \in OpNames
  BY <1>2, <1>3 DEF Track, Calls
<1>5. Track'
  BY <1>3, <1>4, EndsTrack
<1>6. before' = before
  BY <1>3
<1>7. Old \subseteq Entries(before)' /\ Entries(before)' \subseteq Old \cup Needed
  BY <1>6 DEF Old
<1>8. Answer
  BY <1>3, <1>4, <1>7, FailIs
<1> QED BY <1>5, <1>8

\* A handler that found nothing has refreshed, and looks again.
LEMMA LookAgainTrack ==
  ASSUME Sound, Track, UNCHANGED opt, LookAgain
  PROVE  Track' /\ Answer
<1>1. /\ call.step = "look" /\ (Refresh({call.f}) \/ UNCHANGED caches) /\ Go("again")
      /\ UNCHANGED <<course, before>>
  BY DEF LookAgain
<1>2. Started /\ ~call.made /\ server = Now /\ call \in Calls /\ call.f \in Fs /\ Shows(Now)
  BY <1>1, Reading, Facts DEF Sound, Caches
<1>3. Onto("again", call.id)
  BY <1>1, <1>2, GoIs DEF StepNames
<1>4. tree'[call.f] = server
  <2>1. CASE Refresh({call.f})
    <3>1. {call.f} \in SUBSET Fs
      BY <1>2
    <3>2. \A f \in {call.f} : tree'[f] = server
      BY <1>1, <1>2, <1>3, <2>1, <3>1, Refreshed DEF Onto
    <3> QED BY <3>2
  <2>2. CASE UNCHANGED caches
    BY <1>2, <2>2 DEF caches, Now
  <2> QED BY <1>1, <2>1, <2>2
<1>5. Now' = server /\ UNCHANGED <<server, before>> /\ Same /\ call'.step = "again"
  BY <1>1, <1>3, <1>4 DEF Now, Onto, Same, course
<1>6. call'.result = call.result
  BY <1>1, <1>2 DEF Go, Calls
<1>7. Quiet /\ ~Done /\ ~Replaced'
  BY <1>1, <1>5 DEF Quiet, Untouched, Done, Replaced
<1> QED BY <1>5, <1>6, <1>7, GoesTrack

\* A call that begins is one that may be asked for.
LEMMA InvokeTrack ==
  ASSUME Sound, Track, UNCHANGED opt, Invoke
  PROVE  Track' /\ Answer
<1>1. /\ call.step = "done" /\ UNCHANGED <<course, caches, before>>
      /\ call' \in Invocations /\ call'.op \in opt.ops
      /\ Types /\ Arguments
  BY DEF Invoke, Done, Sound
<1>2. Begun(call')
  BY <1>1, InvocationsAre DEF Types, Arguments
<1>3. server' = server /\ before' = before /\ server = before /\ call.result # "none"
  BY <1>1 DEF course, Track, Quiet, Untouched, Done
<1>4. call'.step = "ensure" /\ call'.result = "none" /\ call' \in Calls
  BY <1>2 DEF Begun
<1>5. Track'
  BY <1>3, <1>4 DEF Track, Started, Replaced, Done
<1>6. opt \in Scenarios /\ \A f \in Fs : Files(f) \subseteq AllPaths /\ Folders(f) \subseteq AllPaths
  <2>1. opt \in Scenarios
    BY <1>1 DEF Types
  <2>2. opt.dirs \cup opt.paths \subseteq UNION {o.dirs \cup o.paths : o \in Scenarios}
    BY <2>1
  <2>3. \A f \in Fs : Root[f] \in {Root[g] : g \in Fs}
    OBVIOUS
  <2>4. \A f \in Fs : Files(f) \subseteq opt.paths /\ Folders(f) \subseteq opt.dirs \cup {Root[f]}
    BY DEF Files, Folders, Own
  <2> QED BY <2>1, <2>2, <2>3, <2>4 DEF AllPaths
<1>7. <<>> \in AllPaths
  BY DEF AllPaths
<1>8. call'.at \in AllPaths /\ call'.to \in AllPaths
  <2>1. call'.op \in OpNames /\ call'.op # "none" /\ call'.f \in Fs /\ call'.src \in Fs
    BY <1>2, <1>4 DEF Begun, Calls
  <2>2. call'.op \notin {"move", "dirmove"} => call'.to = <<>>
    BY <1>2 DEF Begun
  <2>3. CASE call'.op \in {"put", "update", "remove"}
    BY <1>2, <1>6, <1>7, <2>1, <2>2, <2>3 DEF Begun
  <2>4. CASE call'.op \in {"mkdir", "rmdir", "purge"}
    BY <1>2, <1>6, <1>7, <2>1, <2>2, <2>4 DEF Begun
  <2>5. CASE call'.op = "move"
    BY <1>2, <1>6, <2>1, <2>5 DEF Begun
  <2>6. CASE call'.op = "dirmove"
    BY <1>2, <1>6, <2>1, <2>6 DEF Begun
  <2> QED BY <2>1, <2>3, <2>4, <2>5, <2>6 DEF OpNames
<1>9. call'.op \in UNION {o.ops : o \in Scenarios}
  BY <1>1, <1>6
<1>10. call'.size \in (UNION {o.sizes : o \in Scenarios}) \cup {0}
  BY <1>2, <1>6 DEF Begun
<1>11. Promised!Invoke
  BY <1>3, <1>4, <1>8, <1>9, <1>10 DEF Promised!Invoke
<1> QED BY <1>5, <1>11 DEF Answer

-----------------------------------------------------------------------------
(* Folders on the way to where a call puts something. *)

\* What the names on the way to the goal are names of.
LEMMA GoalNames ==
  ASSUME Types, Arguments, call.op \in {"put", "update", "mkdir", "move", "dirmove"}
  PROVE  /\ \A k \in 1..(Len(Goal) - 1) : Goal[k] \in FolderNames(opt)
         /\ call.op \in {"mkdir", "dirmove"} /\ Goal # <<>> => Last(Goal) \in FolderNames(opt)
         /\ call.op \in {"put", "update", "move"} => Goal # <<>> /\ Last(Goal) \in FileNames(opt)
         /\ Goal \in Names /\ opt \in Scenarios
<1>1. opt \in Scenarios /\ call.f \in Fs /\ call.at \in Names /\ call.to \in Names
  BY DEF Types, Calls
<1>2. Goal \in Names
  BY <1>1 DEF Goal
<1>3. CASE call.op \in {"put", "update", "move"}
  <2>1. Goal \in Files(call.f)
    BY <1>3 DEF Goal, Arguments
  <2>2. Goal # <<>>
    BY <1>1, <2>1, PathsAre
  <2> QED BY <1>1, <1>2, <1>3, <2>1, <2>2, NamesOf
<1>4. CASE call.op \in {"mkdir", "dirmove"}
  <2>1. Goal \in Folders(call.f)
    BY <1>4 DEF Goal, Arguments
  <2>2. \A k \in 1..Len(Goal) : Goal[k] \in FolderNames(opt)
    BY <1>1, <2>1, NamesOf
  <2>3. Goal # <<>> => Last(Goal) = Goal[Len(Goal)] /\ Len(Goal) \in 1..Len(Goal)
    BY <1>2, FrontIs
  <2>4. \A k \in 1..(Len(Goal) - 1) : k \in 1..Len(Goal)
    BY <1>2, PrefixIs
  <2> QED BY <1>1, <1>2, <1>4, <2>2, <2>3, <2>4
<1> QED BY <1>3, <1>4

\* A folder that is missing on the way is one of those needed.
LEMMA SegmentWay ==
  ASSUME Types, Arguments, call.op \in {"put", "update", "mkdir", "move", "dirmove"}, Goal # <<>>, Segment # <<>>
  PROVE  /\ Segment \in Names /\ At(Now, Segment) = None
         /\ Entry(Segment, TRUE, -1) \in Way(Goal) /\ Last(Segment) \in FolderNames(opt)
<1>1. Goal \in Names /\ \A k \in 1..(Len(Goal) - 1) : Goal[k] \in FolderNames(opt)
  BY GoalNames
<1>2. Segment \in Names /\ At(Now, Segment) = None
  BY <1>1, SegmentIs
<1>3. /\ ParentPath \in Names /\ Len(ParentPath) = Len(Goal) - 1 /\ Len(Goal) \in Nat
      /\ \A k \in 1..(Len(Goal) - 1) : ParentPath[k] = Goal[k]
  BY <1>1, FrontIs DEF ParentPath
<1> DEFINE missing == {n \in 1..Len(ParentPath) : NodeAt(SubSeq(ParentPath, 1, n)) = None}
<1>4. missing # {} /\ Segment = SubSeq(ParentPath, 1, Min(missing))
  BY DEF Segment
<1>5. PICK m \in 1..Len(ParentPath) : Segment = SubSeq(ParentPath, 1, m)
  <2>1. missing \in SUBSET Nat /\ missing \subseteq 1..Len(ParentPath)
    OBVIOUS
  <2> HIDE DEF missing
  <2>2. Min(missing) \in missing
    BY <1>4, <2>1, MinIs
  <2> QED BY <1>4, <2>1, <2>2
<1>6. m \in 1..(Len(Goal) - 1) /\ m \in 1..Len(Goal)
  BY <1>3, <1>5
<1>7. /\ Len(Segment) = m /\ \A k \in 1..m : Segment[k] = ParentPath[k]
  BY <1>3, <1>5 DEF Names
<1>8. Segment = SubSeq(Goal, 1, m)
  <2> DEFINE v == SubSeq(Goal, 1, m)
  <2>1. v \in Names /\ Len(v) = m /\ \A k \in 1..m : v[k] = Goal[k]
    BY <1>1, <1>6 DEF Names
  <2>2. \A k \in 1..m : Segment[k] = v[k]
    BY <1>3, <1>6, <1>7, <2>1
  <2> HIDE DEF v
  <2>3. Segment = v
    BY <1>2, <1>7, <2>1, <2>2, SeqEqual DEF Names
  <2> QED BY <2>3 DEF v
<1>9. Entry(Segment, TRUE, -1) \in Way(Goal)
  BY <1>6, <1>8 DEF Way
<1>10. Last(Segment) \in FolderNames(opt)
  <2>1. Last(Segment) = Segment[Len(Segment)]
    BY <1>2, FrontIs
  <2>2. m \in 1..m
    BY <1>6
  <2> QED BY <1>1, <1>3, <1>6, <1>7, <2>1, <2>2
<1> QED BY <1>2, <1>9, <1>10

\* The request that makes a folder adds that entry.
LEMMA MadeFolder ==
  ASSUME Sound, Track, server = Now, NEW p \in Names, p # <<>>, At(Now, p) = None,
         Last(p) \in FolderNames(opt), server' \in MkDir(p)
  PROVE  /\ Plain(server', opt) /\ Entries(server') = Entries(Now) \cup {Entry(p, TRUE, -1)}
         /\ Course(server') /\ At(server', p) # None
<1> DEFINE up == At(Now, Front(p))
           node == Folder(up, Last(p))
<1>1. NodeAt(Front(p)) = up
  BY DEF NodeAt, At, Now
<1>2. IsDir(Now, up) /\ server' = With(Now, next, node)
  BY <1>1, NameFree DEF MkDir
<1>3. /\ Course(Now) /\ next \in Nat \ {0} /\ next \notin DOMAIN Now /\ next # None
      /\ opt \in Scenarios /\ call.f \in Fs
  BY NextHere, Facts
<1>4. node \in Nodes /\ node.parent = up /\ node.name = Last(p) /\ node.dir = TRUE /\ node.size = -1
  <2>1. up \in Nat
    BY <1>2, <1>3 DEF IsDir, Top, Course
  <2>2. Last(p) \in STRING
    BY FrontIs
  <2> QED BY <2>1, <2>2 DEF Folder, Nodes
<1> HIDE DEF node
<1>5. /\ Course(server') /\ At(server', p) = next
      /\ \A q \in Names : q # p => At(server', q) = At(Now, q)
  BY <1>2, <1>3, <1>4, AddNode
<1>6. PICK u : u = server'
  OBVIOUS
<1>7. /\ DOMAIN u = DOMAIN Now \cup {next} /\ (\A i \in DOMAIN Now : u[i] = Now[i])
      /\ u[next] = node
  BY <1>2, <1>3, <1>6 DEF With
<1>8. Gained(Now, p, u, next)
  BY <1>3, <1>5, <1>6, <1>7 DEF Gained
<1>9. Entries(u) = Entries(Now) \cup {Entry(p, u[next].dir, u[next].size)}
  BY <1>3, <1>8, GainedEntry
<1>10. Plain(u, opt)
  <2>1. Last(p) \notin FileNames(opt)
    BY <1>3, NamesOf
  <2>2. Plain(Now, opt)
    BY DEF Track
  <2> QED BY <1>3, <1>4, <1>7, <2>1, <2>2, PlainPlus
<1> QED BY <1>3, <1>4, <1>5, <1>6, <1>7, <1>9, <1>10

\* A folder of the way is made.
LEMMA MakeSegmentTrack ==
  ASSUME Sound, Track, UNCHANGED opt, MakeSegment
  PROVE  Track' /\ Answer
<1>1. /\ call.step = "parents" /\ Segment # <<>> /\ Serve
      /\ tree' = [tree EXCEPT ![call.f] = WithFolder(Segment)]
      /\ call' = [call EXCEPT !.made = TRUE, !.dirty = TRUE]
      /\ UNCHANGED before
  BY DEF MakeSegment, Answered, Requesting
<1>2. Started /\ server = Now /\ Aimed(Now, call.id) /\ ~Replaced /\ ~Done
  BY <1>1 DEF Started, Sound, Lag, Replacing, Entering, Moving, Steps, Aiming, Replaced, Done
<1>3. call.op \in {"put", "update", "mkdir", "move", "dirmove"}
  BY <1>1 DEF Sound, Flags, Fits
<1>4. Goal \in Names /\ Goal # <<>>
  BY <1>1, <1>2, <1>3, GoalIs DEF Aiming
<1>5. PICK p : p = Segment
  OBVIOUS
<1>6. /\ p \in Names /\ p # <<>> /\ At(Now, p) = None
      /\ Entry(p, TRUE, -1) \in Way(Goal) /\ Last(p) \in FolderNames(opt)
  BY <1>1, <1>3, <1>4, <1>5, SegmentWay DEF Sound
<1>7. server' \in MkDir(p) /\ next' = IF next \in DOMAIN server' THEN next + 1 ELSE next
  BY <1>1, <1>5, Replies
<1>8. Plain(server', opt) /\ Entries(server') = Entries(Now) \cup {Entry(p, TRUE, -1)}
  BY <1>2, <1>6, <1>7, MadeFolder
<1>9. WithFolder(p) = server'
  BY <1>2, <1>6, <1>7, Adding
<1>10. call.f \in Fs /\ call \in Calls
  BY Facts
<1>11. Same /\ call'.result = call.result /\ call'.step = call.step
  BY <1>1, <1>10 DEF Calls, Same
<1>12. Now' = server'
  <2>1. PICK t : t = server'
    OBVIOUS
  <2>2. tree' = [tree EXCEPT ![call.f] = t] /\ tree = [f \in Fs |-> tree[f]]
    BY <1>1, <1>5, <1>9, <2>1 DEF Sound, Labels
  <2>3. tree'[call.f] = t
    BY <1>10, <2>2
  <2> QED BY <1>11, <2>1, <2>3 DEF Now, Same
<1>13. Goal' = Goal /\ Old' = Old
  BY <1>1, <1>11 DEF Goal, Same, Old
<1>14. Old \subseteq Entries(Now) /\ Entries(Now) \subseteq Old \cup Way(Goal)
  BY <1>2 DEF Track
<1>15. Old' \subseteq Entries(Now') /\ Entries(Now') \subseteq Old' \cup Way(Goal')
  BY <1>6, <1>8, <1>12, <1>13, <1>14
<1>16. call.result = "none"
  BY <1>2 DEF Track
<1>17. Track'
  BY <1>1, <1>3, <1>8, <1>11, <1>15, <1>16 DEF Track, Quiet, Untouched, Replaced, Same, Done
<1> QED BY <1>1, <1>11, <1>17 DEF Answer, Silent

\* A call that goes on to another step, with the tree of its instance as it is.
LEMMA OnTrack ==
  ASSUME Sound, Track, UNCHANGED <<opt, before>>, Started, ~Replaced, Same, call'.result = call.result,
         Now' = Now, Plain(server', opt), call'.step \notin Untouched,
         call.op \notin {"remove", "rmdir", "purge"}, ~Replaced'
  PROVE  Track' /\ Answer
<1>1. Goal' = Goal /\ Old' = Old /\ ~Quiet' /\ ~Done' /\ ~Done
  BY DEF Goal, Same, Old, Quiet, Untouched, Done, Started
<1>2. Old \subseteq Entries(Now) /\ Entries(Now) \subseteq Old \cup Way(Goal) /\ call.result = "none"
  BY <1>1 DEF Track
<1>3. Track'
  BY <1>1, <1>2 DEF Track, Same
<1> QED BY <1>3 DEF Answer, Silent

\* The folders of the way are there, and the handler goes on.
LEMMA ParentsMadeTrack ==
  ASSUME Sound, Track, UNCHANGED opt, ParentsMade
  PROVE  Track' /\ Answer
<1> DEFINE t == tree[call.f]
           root == updateRelativeRootFromTree(t)
<1>1. /\ call.step = "parents" /\ UNCHANGED <<course, before>>
      /\ Commit(t, root) \/ UNCHANGED tree
      /\ call' = [call EXCEPT !.made = FALSE, !.dirty = FALSE, !.step = AfterParents]
  BY DEF ParentsMade, ghosts
<1>2. call \in Calls /\ call.f \in Fs /\ tree = [f \in Fs |-> tree[f]]
  BY Facts DEF Sound, Labels
<1>3. call.op \in {"put", "update", "mkdir", "move", "dirmove"} /\ Started /\ ~Replaced
  BY <1>1 DEF Sound, Flags, Fits, Started, Replaced
<1>4. AfterParents \in {"create", "unlink", "mkdir", "copy", "reparent"}
  BY <1>3 DEF AfterParents
<1>5. Same /\ call'.result = call.result /\ call'.step = AfterParents
  BY <1>1, <1>2 DEF Calls, Same
<1>6. tree'[call.f] = tree[call.f]
  BY <1>1, <1>2 DEF Commit
<1>7. Now' = Now
  BY <1>5, <1>6 DEF Now, Same
<1>8. Plain(server', opt)
  BY <1>1 DEF course, Track
<1>9. call'.step \notin Untouched /\ ~Replaced' /\ call.op \notin {"remove", "rmdir", "purge"}
  BY <1>3, <1>4, <1>5 DEF Untouched, Replaced
<1> QED BY <1>1, <1>3, <1>5, <1>7, <1>8, <1>9, OnTrack

-----------------------------------------------------------------------------
(* Requests that stat, copy, remove and license. *)

\* Trees of plain names, less some nodes or with a file more.
LEMMA PlainWithout ==
  ASSUME NEW t, NEW o, Plain(t, o), NEW M
  PROVE  Plain(Without(t, M), o)
<1>1. PICK u : u = Without(t, M)
  OBVIOUS
<1>2. DOMAIN u \subseteq DOMAIN t /\ \A j \in DOMAIN u : u[j] = t[j]
  <2>1. DOMAIN Without(t, M) = DOMAIN t \ M
    BY WithoutIs
  <2>2. \A j \in DOMAIN t \ M : Without(t, M)[j] = t[j]
    BY WithoutIs
  <2> QED BY <1>1, <2>1, <2>2
<1>3. Plain(u, o)
  BY <1>2 DEF Plain, Named
<1> QED BY <1>1, <1>3

\* A tree with a file more that has a file's name is plain.
LEMMA PlainFile ==
  ASSUME NEW t, NEW o, Plain(t, o), NEW k, NEW up, NEW name, NEW size,
         name \in FileNames(o), FolderNames(o) \cap FileNames(o) = {}
  PROVE  Plain(With(t, k, File(up, name, size)), o)
<1>1. PICK u : u = With(t, k, File(up, name, size))
  OBVIOUS
<1>2. DOMAIN u \subseteq DOMAIN t \cup {k} /\ \A j \in DOMAIN u : j # k => u[j] = t[j]
  BY <1>1 DEF With
<1>3. k \in DOMAIN u /\ u[k].name = name /\ u[k].dir = FALSE
  BY <1>1 DEF With, File
<1>4. Plain(u, o)
  BY <1>2, <1>3, PlainPlus
<1> QED BY <1>1, <1>4

\* A file at a path, nothing there, and what moves nowhere.
LEMMA FileInIs ==
  ASSUME NEW t, Course(t), NEW p \in Names, NEW id, FileAt(t, p, id)
  PROVE  FileIn(Entries(t), p)
<1>1. Below(Entries(t), p) = {Entry(p, FALSE, t[id].size)}
  BY FileBelow
<1>2. ASSUME Entry(p, TRUE, -1) \in Entries(t) PROVE FALSE
  <2>1. IsPrefix(p, Entry(p, TRUE, -1).at)
    BY PrefixSelf DEF Entry
  <2>2. Entry(p, TRUE, -1) = Entry(p, FALSE, t[id].size)
    BY <1>1, <1>2, <2>1 DEF Below
  <2>3. Entry(p, TRUE, -1).dir = TRUE /\ Entry(p, FALSE, t[id].size).dir = FALSE
    BY DEF Entry
  <2> QED BY <2>2, <2>3
<1> QED BY <1>1, <1>2 DEF FileIn

\* A path that leads nowhere has no entries below it.
LEMMA NothingBelow ==
  ASSUME NEW t, Course(t), NEW p \in Names, At(t, p) = None
  PROVE  Below(Entries(t), p) = {}
<1> SUFFICES ASSUME NEW e \in Entries(t), IsPrefix(p, e.at) PROVE FALSE
  BY DEF Below
<1>1. e.at \in Names /\ At(t, e.at) \in DOMAIN t
  BY EntriesAre
<1>2. At(t, e.at) # None
  BY <1>1, AtIs
<1> QED BY <1>1, <1>2, AtPrefix

\* What moves to where it is stays as it is.
LEMMA OnwardSelf ==
  ASSUME NEW t, Course(t), NEW p \in Names
  PROVE  Onward(Entries(t), p, p) = Below(Entries(t), p)
<1>1. ASSUME NEW e \in Below(Entries(t), p)
      PROVE  [e EXCEPT !.at = p \o SubSeq(e.at, Len(p) + 1, Len(e.at))] = e
  <2>1. e \in Entries(t) /\ IsPrefix(p, e.at)
    BY DEF Below
  <2>2. e.at \in Names /\ e = Shown(t, e.at)
    BY <2>1, EntriesAre
  <2>3. PICK v : v = p \o SubSeq(e.at, Len(p) + 1, Len(e.at))
    OBVIOUS
  <2>4. v = e.at
    BY <2>1, <2>2, <2>3, SplitIs
  <2>5. [e EXCEPT !.at = v] = e
    BY <2>2, <2>4 DEF Shown
  <2> QED BY <2>3, <2>5
<1> QED BY <1>1 DEF Onward

\* What is on the way to a path is not below it.
LEMMA WayNotBelow ==
  ASSUME NEW p \in Names, NEW e \in Way(p)
  PROVE  e.at \in Names /\ e.dir = TRUE /\ ~IsPrefix(p, e.at)
<1>1. PICK n \in 1..(Len(p) - 1) : e = Entry(SubSeq(p, 1, n), TRUE, -1)
  BY DEF Way
<1>2. n \in 1..Len(p) /\ Len(p) \in Nat
  BY PrefixIs
<1>3. SubSeq(p, 1, n) \in Names /\ Len(SubSeq(p, 1, n)) = n
  BY <1>2 DEF Names
<1>4. e.at = SubSeq(p, 1, n) /\ e.dir = TRUE
  BY <1>1 DEF Entry
<1>5. ASSUME IsPrefix(p, e.at) PROVE FALSE
  <2>1. Len(p) <= Len(e.at)
    BY <1>3, <1>4, <1>5, PrefixIs
  <2> QED BY <1>2, <1>3, <1>4, <2>1
<1> QED BY <1>3, <1>4, <1>5

\* When the folders on the way to a path are there, nothing else has been added.
LEMMA WithWay ==
  ASSUME NEW p \in Names, NEW E, NEW F, E \subseteq F, F \subseteq E \cup Way(p), Way(p) \subseteq F
  PROVE  Below(F, p) = Below(E, p) /\ F \ Below(F, p) = (E \ Below(E, p)) \cup Way(p)
<1>1. \A e \in Way(p) : ~IsPrefix(p, e.at)
  BY WayNotBelow
<1> QED BY <1>1 DEF Below

\* A call returns well.
LEMMA OkTrack ==
  ASSUME Sound, Track, UNCHANGED opt, ~Done, Return("ok"), Promised!May(Arg), Plain(server', opt),
         Entries(server') = Promised!Effect(Arg) \cup Needed
  PROVE  Track' /\ Answer
<1>1. call \in Calls
  BY Facts
<1>2. Over /\ Same /\ call'.result = "ok" /\ before' = server'
  BY <1>1, ReturnsIs
<1>3. call.result = "none" /\ call.op \in OpNames
  BY <1>1 DEF Track, Calls
<1>4. Track'
  BY <1>2, <1>3, EndsTrack
<1>5. Entries(before)' = Promised!Effect(Arg) \cup Needed
  BY <1>2
<1> QED BY <1>2, <1>3, <1>4, <1>5, SucceedIs

\* What the server says of a file to be moved.
LEMMA SeenTrack ==
  ASSUME Sound, Track, UNCHANGED opt, Seen
  PROVE  Track' /\ Answer
<1>1. call.step = "stat" /\ Serve /\ UNCHANGED <<caches, held, drifted>>
  BY DEF Seen, Answered
<1>2. call.op = "move"
  BY <1>1 DEF Sound, Flags, Fits
<1>3. Started /\ server = Now /\ Ready(Now) /\ ~Done /\ Quiet /\ call \in Calls /\ server' = server
  BY <1>1, Reading, Replies DEF Done, Quiet, Untouched
<1>4. server = before
  BY <1>3 DEF Track
<1>5. CASE call.at = call.to /\ Return("ok")
  <2>1. Course(server) /\ call.at \in Names /\ FileAt(server, call.at, call.id) /\ Plain(server, opt)
    BY <1>2, <1>3, Facts DEF Ready, Track
  <2>2. FileIn(Old, call.at)
    BY <1>4, <2>1, FileInIs DEF Old
  <2>3. Promised!May(Arg)
    BY <1>2, <2>2, MayIs
  <2>4. Promised!Effect(Arg) = (Old \ Below(Old, call.at)) \cup Onward(Old, call.at, call.to)
    BY <1>2, EffectIs
  <2>5. Onward(Old, call.at, call.to) = Below(Old, call.at)
    BY <1>4, <1>5, <2>1, OnwardSelf DEF Old
  <2>6. Below(Old, call.at) \subseteq Old
    BY DEF Below
  <2>7. Needed = Way(call.at)
    BY <1>2, <1>5 DEF Needed, Goal
  <2>8. At(server, call.at) # None
    BY <2>1, ChildIs DEF FileAt
  <2>9. Way(call.at) \subseteq Old
    BY <1>4, <2>1, <2>8, WayThere DEF Plain, Old
  <2>10. Entries(server') = Promised!Effect(Arg) \cup Needed
    BY <1>3, <1>4, <2>4, <2>5, <2>6, <2>7, <2>9 DEF Old
  <2>11. Plain(server', opt)
    BY <1>3, <2>1
  <2> QED BY <1>3, <1>5, <2>3, <2>10, <2>11, OkTrack
<1>6. CASE \E s \in {"rename", "parents"} : Go(s) /\ UNCHANGED before
  <2>1. PICK s \in {"rename", "parents"} : Go(s) /\ UNCHANGED before
    BY <1>6
  <2>2. Same /\ call'.step = s /\ call'.result = call.result
    BY <1>3, <2>1 DEF Go, Calls, Same
  <2>3. Now' = server
    BY <1>1, <1>3, <2>2 DEF Now, caches, Same
  <2>4. ~Replaced' /\ call'.step # "done" /\ call'.step # "rmdir"
    BY <2>1, <2>2 DEF Replaced
  <2> QED BY <1>3, <2>1, <2>2, <2>3, <2>4, GoesTrack
<1> QED BY <1>5, <1>6 DEF Seen

\* A step of Sound whose course is the tree of the call's instance.
LEMMA CopiedTrack ==
  ASSUME Sound, Track, UNCHANGED opt, Copied
  PROVE  Track' /\ Answer
<1>1. /\ call.step = "copy" /\ Serve /\ UNCHANGED <<caches, held, before, drifted>>
      /\ call' = [call EXCEPT !.new = next, !.dirty = TRUE, !.step = "unlink"]
  BY DEF Copied, Answered
<1>2. call.op = "move" /\ Started /\ ~Replaced
  BY <1>1 DEF Sound, Flags, Fits, Started, Replaced
<1>3. call \in Calls /\ server' \in CreateFileRefByReference(call.id)
  BY <1>1, Facts, Replies
<1>4. Same /\ call'.step = "unlink" /\ call'.result = call.result
  BY <1>1, <1>3 DEF Calls, Same
<1>5. Last(call.to) \in FileNames(opt) /\ FolderNames(opt) \cap FileNames(opt) = {}
  <2>1. Goal = call.to
    BY <1>2 DEF Goal
  <2>2. opt \in Scenarios /\ Last(Goal) \in FileNames(opt)
    BY <1>2, GoalNames DEF Sound
  <2> QED BY <2>1, <2>2, NamesAssumption
<1>6. PICK up, size : server' = With(server, next, File(up, Last(call.to), size))
  BY <1>3 DEF CreateFileRefByReference
<1>7. Plain(server', opt)
  <2>1. Plain(server, opt)
    BY DEF Track
  <2> QED BY <1>5, <1>6, <2>1, PlainFile
<1>8. Now' = Now
  BY <1>1, <1>4 DEF Now, caches, Same
<1>9. call'.step \notin Untouched /\ ~Replaced'
  BY <1>4 DEF Untouched, Replaced
<1> QED BY <1>1, <1>2, <1>4, <1>7, <1>8, <1>9, OnTrack

\* The source of a move is removed, and an update removes what it replaces.
LEMMA UnlinkedTrack ==
  ASSUME Sound, Track, UNCHANGED opt, Unlinked
  PROVE  Track' /\ Answer
<1>1. /\ call.op = "update" /\ call.step = "unlink" /\ Serve /\ UNCHANGED <<caches, held, before, drifted>>
      /\ call' = [call EXCEPT !.dirty = server' # server, !.step = "create"]
  BY DEF Unlinked, Answered
<1>2. Started /\ ~Replaced
  BY <1>1 DEF Started, Replaced
<1>3. call \in Calls /\ server' = Without(server, {call.id})
  BY <1>1, Facts, Replies DEF DeleteFile
<1>4. Same /\ call'.step = "create" /\ call'.result = call.result
  BY <1>1, <1>3 DEF Calls, Same
<1>5. Plain(server', opt)
  <2>1. Plain(server, opt)
    BY DEF Track
  <2> QED BY <1>3, <2>1, PlainWithout
<1>6. Now' = Now
  BY <1>1, <1>4 DEF Now, caches, Same
<1>7. call'.step \notin Untouched /\ ~Replaced'
  BY <1>4 DEF Untouched, Replaced
<1> QED BY <1>1, <1>2, <1>4, <1>5, <1>6, <1>7, OnTrack

\* An upload is licensed a second time.
LEMMA LicenseAgainTrack ==
  ASSUME Sound, Track, UNCHANGED opt, LicenseAgain
  PROVE  Track' /\ Answer
<1>1. /\ call.again /\ call.step = "license" /\ Serve /\ UNCHANGED before
      /\ call' = [call EXCEPT !.again = FALSE]
  BY DEF LicenseAgain, Answered
<1>2. call.op = "update" /\ ~call.dirty
  BY <1>1 DEF Sound, Flags, Lag, Entering
<1>3. call \in Calls /\ server' = server
  BY <1>1, Facts, Replies
<1>4. Same /\ call'.step = call.step /\ call'.dirty = call.dirty /\ call'.result = call.result
  BY <1>1, <1>3 DEF Calls, Same
<1>5. Replaced /\ Replaced' /\ ~Quiet' /\ Old' = Old
  BY <1>1, <1>2, <1>4 DEF Replaced, Quiet, Untouched, Same, Old
<1>6. Track'
  BY <1>1, <1>3, <1>4, <1>5 DEF Track, Same, Done
<1> QED BY <1>1, <1>4, <1>6 DEF Answer, Silent

\* An upload is licensed, and its call returns or enters it.
LEMMA LicensedTrack ==
  ASSUME Sound, Track, UNCHANGED opt, Licensed
  PROVE  Track' /\ Answer
<1>1. ~call.dirty /\ call.step = "license" /\ Serve /\ Return("ok")
  BY DEF Licensed, Answered
<1>2. call.op \in {"put", "update"} /\ Replaced /\ ~Done
  BY <1>1 DEF Sound, Flags, Fits, Replaced, Done
<1>3. server' = server
  BY <1>1, Replies
<1>4. /\ Entries(server) = Written(Old, call.at, call.size) /\ Plain(server, opt)
      /\ call.op = "update" => FileIn(Old, call.at)
  BY <1>2 DEF Track
<1>5. Promised!May(Arg)
  BY <1>2, <1>4, MayIs
<1>6. Promised!Effect(Arg) = (Old \ Below(Old, call.at)) \cup {Entry(call.at, FALSE, call.size)}
  BY <1>2, EffectIs
<1>7. Needed = Way(call.at)
  BY <1>2 DEF Needed, Goal
<1>8. Entries(server') = Promised!Effect(Arg) \cup Needed
  BY <1>3, <1>4, <1>6, <1>7 DEF Written
<1>9. Plain(server', opt)
  BY <1>3, <1>4
<1> QED BY <1>1, <1>2, <1>5, <1>8, <1>9, OkTrack

-----------------------------------------------------------------------------
(* Requests that fail, and folders that are made and removed. *)

\* A call that fails without having changed more than it may.
LEMMA FailTrack ==
  ASSUME Sound, Track, UNCHANGED opt, ~Done, Over, call'.result = "failed", before' = server',
         Plain(server', opt),
         \/ Old \subseteq Entries(server') /\ Entries(server') \subseteq Old \cup Needed
         \/ call.op \in {"put", "update"} /\ Entries(server') = Written(Old, call.at, call.size)
  PROVE  Track' /\ Answer
<1>1. call.result = "none" /\ call.op \in OpNames /\ Same
  BY Facts DEF Track, Calls, Over
<1>2. Track'
  BY EndsTrack
<1>3. \/ Old \subseteq Entries(before)' /\ Entries(before)' \subseteq Old \cup Needed
      \/ call.op \in {"put", "update"} /\ Entries(before)' = Written(Old, call.at, call.size)
  OBVIOUS
<1> QED BY <1>1, <1>2, <1>3, FailIs

\* The pending request fails.
LEMMA RequestFailsTrack ==
  ASSUME Sound, Track, UNCHANGED opt, RequestFails, ~drifted'
  PROVE  Track' /\ Answer
<1> DEFINE lost == call.lost \/ server' # server
<1>1. /\ UNCHANGED <<caches, held>> /\ (UNCHANGED course \/ Serve) /\ Started /\ call \in Calls
      /\ call.step \notin {"begin", "look", "again", "done"} /\ ~Done
  BY Facts DEF RequestFails, Requesting, Started, Done
<1>2. Plain(server, opt)
  BY DEF Track
<1>3. CASE call.op = "move" /\ call.step = "unlink"
  <2>1. PICK l : call' = [call EXCEPT !.step = "cleanup", !.lost = l]
    BY <1>3 DEF RequestFails
  <2>2. UNCHANGED before
    BY <1>3 DEF RequestFails
  <2>3. Same /\ call'.step = "cleanup" /\ call'.result = call.result
    BY <1>1, <2>1 DEF Calls, Same
  <2>4. Plain(server', opt)
    <3>1. server' = server \/ server' = Without(server, {call.id})
      BY <1>1, <1>3, Replies DEF course, DeleteFile
    <3> QED BY <1>2, <3>1, PlainWithout
  <2>5. Now' = Now
    BY <1>1, <2>3 DEF Now, caches, Same
  <2>6. ~Replaced /\ ~Replaced' /\ call'.step \notin Untouched
    BY <1>3, <2>3 DEF Replaced, Untouched
  <2> QED BY <1>1, <1>3, <2>2, <2>3, <2>4, <2>5, <2>6, OnTrack
<1>4. CASE ~(call.op = "move" /\ call.step = "unlink")
  <2>1. /\ call' = [call EXCEPT !.step = "done", !.result = "failed", !.id = None,
                      !.new = None, !.made = FALSE, !.again = FALSE,
                      !.dirty = FALSE, !.lost = lost]
        /\ before' = server' /\ drifted' = (drifted \/ call.dirty \/ lost)
    BY <1>4 DEF RequestFails
  <2>2. ~call.dirty /\ server' = server
    BY <2>1
  <2>3. PICK l \in BOOLEAN : l = lost
    BY <1>1 DEF Calls
  <2>4. call' = [call EXCEPT !.step = "done", !.result = "failed", !.id = None,
                   !.new = None, !.made = FALSE, !.again = FALSE, !.dirty = FALSE, !.lost = l]
    BY <2>1, <2>3
  <2>5. Over /\ call'.result = "failed"
    <3>1. call' \in Calls
      BY <1>1, <2>4, NoneInt DEF Calls, StepNames
    <3>2. Same
      BY <1>1, <2>4 DEF Calls, Same
    <3>3. call'.step = "done" /\ ~call'.made /\ ~call'.again /\ ~call'.dirty /\ call'.result = "failed"
      BY <1>1, <2>4 DEF Calls
    <3> QED BY <3>1, <3>2, <3>3 DEF Over
  <2>6. \/ Old \subseteq Entries(server) /\ Entries(server) \subseteq Old \cup Needed
        \/ call.op \in {"put", "update"} /\ Entries(server) = Written(Old, call.at, call.size)
    <3>1. CASE Replaced
      <4>1. call.op \in {"put", "update"}
        BY <3>1 DEF Replaced, Sound, Flags, Fits
      <4> QED BY <3>1, <4>1 DEF Track
    <3>2. CASE Quiet
      BY <3>2 DEF Track, Old
    <3>3. CASE ~Replaced /\ ~Quiet
      <4>1. server = Now
        BY <1>1, <1>4, <2>2, <3>3
           DEF Sound, Flags, Lag, Replacing, Entering, Moving, Quiet, Untouched, Replaced
      <4>2. Old \subseteq Entries(server) /\ Entries(server) \subseteq Old \cup Way(Goal)
        BY <1>1, <3>3, <4>1 DEF Track
      <4>3. call.op \in {"put", "mkdir", "update", "move", "dirmove"}
        <5>1. call.step \in StepNames
          BY <1>1 DEF Calls
        <5> QED BY <1>1, <3>3, <5>1 DEF Sound, Flags, Fits, StepNames, Quiet, Untouched
      <4> QED BY <4>2, <4>3 DEF Needed
    <3> QED BY <3>1, <3>2, <3>3
  <2>7. Plain(server', opt)
    BY <1>2, <2>2
  <2>8. \/ Old \subseteq Entries(server') /\ Entries(server') \subseteq Old \cup Needed
        \/ call.op \in {"put", "update"} /\ Entries(server') = Written(Old, call.at, call.size)
    BY <2>2, <2>6
  <2> QED BY <1>1, <2>1, <2>5, <2>7, <2>8, FailTrack
<1> QED BY <1>3, <1>4

\* A move cleans up its copy.
LEMMA CleanedUpTrack ==
  ASSUME Sound, Track, UNCHANGED opt, CleanedUp, ~drifted'
  PROVE  Track' /\ Answer
<1>1. call.step = "cleanup" /\ call.op = "move" /\ Serve /\ Return("failed")
  BY DEF CleanedUp, Answered, Sound, Flags, Fits
<1>2. Started /\ ~Replaced /\ ~Done /\ Course(Now) /\ call \in Calls
  BY <1>1, Facts DEF Started, Replaced, Done
<1>3. Leads(call.new, call.to, Now[call.id].size) /\ call.new \notin DOMAIN Now
  BY <1>1 DEF Sound, Lag, Moving, Leads
<1>4. server' = Without(server, {call.new})
  BY <1>1, Replies DEF DeleteFile
<1>5. server' = Now
  <2>1. PICK n : server = With(Now, call.new, n)
    BY <1>3 DEF Leads
  <2>2. Now = [j \in DOMAIN Now |-> Now[j]]
    BY <1>2 DEF Course
  <2>3. DOMAIN server = DOMAIN Now \cup {call.new} /\ \A j \in DOMAIN Now : server[j] = Now[j]
    BY <1>3, <2>1 DEF With
  <2>4. DOMAIN server \ {call.new} = DOMAIN Now
    BY <1>3, <2>3
  <2>5. Without(server, {call.new}) = [j \in DOMAIN Now |-> server[j]]
    BY <2>4 DEF Without, Restrict
  <2> QED BY <1>4, <2>2, <2>3, <2>5
<1>6. Plain(server', opt)
  <2>1. Plain(server, opt)
    BY DEF Track
  <2> QED BY <1>4, <2>1, PlainWithout
<1>7. Old \subseteq Entries(server') /\ Entries(server') \subseteq Old \cup Needed
  <2>1. Old \subseteq Entries(Now) /\ Entries(Now) \subseteq Old \cup Way(Goal)
    BY <1>2 DEF Track
  <2> QED BY <1>1, <1>5, <2>1 DEF Needed
<1>8. Over /\ call'.result = "failed" /\ before' = server'
  BY <1>1, <1>2, ReturnsIs
<1> QED BY <1>2, <1>6, <1>7, <1>8, FailTrack

\* A licensed upload of a new file.
LEMMA EnterFileTrack ==
  ASSUME Sound, Track, UNCHANGED opt, EnterFile
  PROVE  Track' /\ Answer
<1>1. call.dirty /\ call.step = "license" /\ Serve /\ Return("ok")
  BY DEF EnterFile, Answered
<1>2. /\ call.op = "put" /\ Leads(call.id, call.at, call.size) /\ Started /\ ~Done /\ ~Replaced
      /\ At(Now, call.at) = None
  BY <1>1 DEF Sound, Lag, Entering, Started, Done, Replaced, Leads
<1>3. call.at \in Names /\ call.size \in Int /\ Course(Now) /\ Goal = call.at /\ call.at # <<>>
  <2>1. Goal = call.at
    BY <1>2 DEF Goal
  <2> QED BY <1>2, <2>1, Facts, GoalNames DEF Calls, Sound
<1>4. Added(Now, call.at, server, call.id, call.size) /\ call.id \notin DOMAIN Now
  BY <1>2, <1>3, LeadsIs
<1>5. /\ Gained(Now, call.at, server, call.id) /\ Course(server) /\ At(server, call.at) = call.id
      /\ server[call.id].dir = FALSE /\ server[call.id].size = call.size
      /\ call.id \in DOMAIN server
  BY <1>4 DEF Added, Gained, File
<1>6. Entries(server) = Entries(Now) \cup {Entry(call.at, FALSE, call.size)}
  <2>1. Entries(server) = Entries(Now) \cup {Entry(call.at, server[call.id].dir, server[call.id].size)}
    BY <1>2, <1>3, <1>5, GainedEntry
  <2> QED BY <1>5, <2>1
<1>7. Old \subseteq Entries(Now) /\ Entries(Now) \subseteq Old \cup Way(call.at)
  BY <1>2, <1>3 DEF Track
<1>8. Below(Old, call.at) = {}
  <2>1. Below(Entries(Now), call.at) = {}
    BY <1>2, <1>3, NothingBelow
  <2> QED BY <1>7, <2>1 DEF Below
<1>9. Way(call.at) \subseteq Entries(Now)
  <2>1. At(server, call.at) # None /\ Plain(server, opt)
    BY <1>5, ChildIs DEF Track
  <2>2. Way(call.at) \subseteq Entries(server)
    BY <1>3, <1>5, <2>1, WayThere DEF Plain
  <2>3. \A e \in Way(call.at) : e.dir = TRUE
    BY <1>3, WayNotBelow
  <2>4. Entry(call.at, FALSE, call.size).dir = FALSE
    BY DEF Entry
  <2> QED BY <1>6, <2>2, <2>3, <2>4
<1>10. server' = server
  BY <1>1, Replies
<1>11. Promised!May(Arg)
  BY <1>2, MayIs
<1>12. Promised!Effect(Arg) = (Old \ Below(Old, call.at)) \cup {Entry(call.at, FALSE, call.size)}
  BY <1>2, EffectIs
<1>13. Needed = Way(call.at)
  BY <1>2, <1>3 DEF Needed
<1>14. Entries(server') = Promised!Effect(Arg) \cup Needed
  BY <1>6, <1>7, <1>8, <1>9, <1>10, <1>12, <1>13
<1>15. Plain(server', opt)
  BY <1>10 DEF Track
<1> QED BY <1>1, <1>2, <1>11, <1>14, <1>15, OkTrack

\* The last folder of a mkdir.
LEMMA MadeDirTrack ==
  ASSUME Sound, Track, UNCHANGED opt, MadeDir
  PROVE  Track' /\ Answer
<1>1. call.step = "mkdir" /\ Serve /\ Return("ok") /\ NodeAt(call.at) = None
  BY DEF MadeDir, Answered, Requesting
<1>2. /\ call.op = "mkdir" /\ Started /\ server = Now /\ ~Done /\ ~Replaced /\ call.at # <<>>
      /\ Goal = call.at
  BY <1>1 DEF Sound, Flags, Fits, Lag, Replacing, Entering, Moving, Steps, Aiming, Aimed,
              Started, Done, Replaced, Goal
<1>3. /\ call.at \in Names /\ Course(Now) /\ At(Now, call.at) = None
      /\ Last(call.at) \in FolderNames(opt)
  BY <1>1, <1>2, Facts, GoalNames DEF NodeAt, At, Now, Sound
<1>4. server' \in MkDir(call.at)
  BY <1>1, Replies
<1>5. PICK u : u = server'
  OBVIOUS
<1>6. /\ Plain(u, opt) /\ Entries(u) = Entries(Now) \cup {Entry(call.at, TRUE, -1)}
      /\ Course(u) /\ At(u, call.at) # None
  BY <1>2, <1>3, <1>4, <1>5, MadeFolder
<1>7. Way(call.at) \subseteq Entries(u)
  BY <1>3, <1>6, WayThere DEF Plain
<1>8. Old \subseteq Entries(Now) /\ Entries(Now) \subseteq Old \cup Way(call.at)
  BY <1>2 DEF Track
<1>9. Promised!May(Arg)
  BY <1>2, MayIs
<1>10. Promised!Effect(Arg) = Old \cup {Entry(call.at, TRUE, -1)}
  BY <1>2, EffectIs
<1>11. Needed = Way(call.at)
  BY <1>2 DEF Needed
<1>12. Entries(server') = Promised!Effect(Arg) \cup Needed
  BY <1>5, <1>6, <1>7, <1>8, <1>10, <1>11
<1>13. Plain(server', opt)
  BY <1>5, <1>6
<1> QED BY <1>1, <1>2, <1>9, <1>12, <1>13, OkTrack

\* What is taken off with all that is below it.
LEMMA LostIs ==
  ASSUME NEW t, Course(t), NEW p \in Names, NEW M, At(t, p) \in M, At(t, p) \in DOMAIN t,
         \A j \in DOMAIN t : t[j].parent \in M => j \in M,
         \A q \in Names : At(t, q) # None => (At(t, q) \in M <=> IsPrefix(p, q)),
         NEW u, u = Without(t, M)
  PROVE  Entries(u) = Entries(t) \ Below(Entries(t), p)
<1>1. Course(Without(t, M))
  BY Drop
<1>2. \A q \in Names : At(Without(t, M), q) = IF At(t, q) \in M /\ q # <<>> THEN None ELSE At(t, q)
  BY Drop
<1>3. DOMAIN u \subseteq DOMAIN t /\ \A j \in DOMAIN u : u[j] = t[j]
  <2>1. DOMAIN Without(t, M) = DOMAIN t \ M
    BY WithoutIs
  <2>2. \A j \in DOMAIN t \ M : Without(t, M)[j] = t[j]
    BY WithoutIs
  <2> QED BY <2>1, <2>2
<1>4. p # <<>> /\ (\A q \in Names : IsPrefix(p, q) => q # <<>>)
  BY AtIs, PrefixSelf
<1>5. Lost(t, p, u)
  BY <1>1, <1>2, <1>3, <1>4 DEF Lost
<1> QED BY <1>5, LostEntries

\* Rmdir removes an empty folder, and Purge one with all that is below it.
LEMMA RemovedDirTrack ==
  ASSUME Sound, Track, UNCHANGED opt, RemovedDir
  PROVE  Track' /\ Answer
<1> DEFINE id == call.id
           M == Subtree(server, id)
<1>1. call.step = "rmdir" /\ call.op \in {"rmdir", "purge"} /\ Serve /\ Return("ok")
  BY DEF RemovedDir, Answered, Sound, Flags, Fits
<1>2. Started /\ server = Now /\ Aimed(Now, id) /\ ~Done /\ Quiet
  BY <1>1 DEF Started, Sound, Lag, Replacing, Entering, Moving, Steps, Aiming, Done, Quiet
<1>3. /\ Course(server) /\ call.at \in Names /\ At(server, call.at) = id /\ id \in DOMAIN server
      /\ server = before /\ Plain(server, opt)
  BY <1>1, <1>2, Facts DEF Aimed, Track
<1>4. server' = Without(server, M)
  BY <1>1, Replies DEF DeleteFolder
<1>5. \A j \in DOMAIN server : server[j].parent \in M => j \in M
  BY SubtreeIs
<1>6. id \in M /\ \A q \in Names : At(server, q) # None => (At(server, q) \in M <=> IsPrefix(call.at, q))
  BY <1>3, NotInItself, BelowIs
<1>7. Entries(server') = Old \ Below(Old, call.at)
  <2>1. PICK u : u = server'
    OBVIOUS
  <2>2. u = Without(server, M) /\ At(server, call.at) \in M
    BY <1>3, <1>4, <1>6, <2>1
  <2> HIDE DEF M
  <2>3. Entries(u) = Entries(server) \ Below(Entries(server), call.at)
    BY <1>3, <1>5, <1>6, <2>2, LostIs
  <2> QED BY <1>3, <2>1, <2>3 DEF Old
<1>8. call.at # <<>> /\ id # None
  BY <1>3, AtIs, ChildIs
<1>9. Entry(call.at, TRUE, -1) \in Old
  <2>1. call.at \in Folders(call.f) /\ opt \in Scenarios /\ call.f \in Fs
    BY <1>1, Facts DEF Sound, Arguments
  <2>2. Last(call.at) = call.at[Len(call.at)] /\ Len(call.at) \in 1..Len(call.at)
    BY <1>3, <1>8, FrontIs
  <2>3. Last(call.at) \in FolderNames(opt)
    BY <2>1, <2>2, NamesOf
  <2>4. Entry(call.at, TRUE, -1) \in Entries(server)
    BY <1>3, <1>8, <2>3, FolderThere
  <2> QED BY <1>3, <2>4 DEF Old
<1>10. call.op = "rmdir" => Below(Old, call.at) = {Entry(call.at, TRUE, -1)}
  <2> SUFFICES ASSUME call.op = "rmdir" PROVE Below(Old, call.at) = {Entry(call.at, TRUE, -1)}
    OBVIOUS
  <2>1. Children(server, id) = {}
    BY <1>1 DEF Track
  <2>2. \A j \in DOMAIN server : server[j].parent # id
    BY <2>1 DEF Children
  <2>3. M = {id}
    BY <1>3, <2>2, AloneBelow
  <2>4. ASSUME NEW e \in Entries(server), IsPrefix(call.at, e.at)
        PROVE  e = Shown(server, call.at)
    <3>1. e.at \in Names /\ At(server, e.at) \in DOMAIN server /\ e = Shown(server, e.at)
      BY <1>3, EntriesAre
    <3>2. At(server, e.at) # None
      BY <1>3, <3>1, AtIs
    <3>3. At(server, e.at) = id
      BY <1>6, <2>3, <2>4, <3>1, <3>2
    <3>4. e.at = call.at
      BY <1>3, <3>1, <3>2, <3>3, AtInjective
    <3> QED BY <3>1, <3>4
  <2>5. Entry(call.at, TRUE, -1) \in Entries(server) /\ IsPrefix(call.at, Entry(call.at, TRUE, -1).at)
    BY <1>3, <1>9, PrefixSelf DEF Old, Entry
  <2>6. Entry(call.at, TRUE, -1) = Shown(server, call.at)
    BY <2>4, <2>5
  <2>7. \A e \in Entries(server) : IsPrefix(call.at, e.at) => e = Entry(call.at, TRUE, -1)
    BY <2>4, <2>6
  <2>8. Old = Entries(server)
    BY <1>3 DEF Old
  <2> QED BY <2>5, <2>7, <2>8 DEF Below
<1>11. Promised!May(Arg)
  BY <1>1, <1>9, <1>10, MayIs
<1>12. Promised!Effect(Arg) = Old \ Below(Old, call.at)
  BY <1>1, EffectIs
<1>13. Needed = {}
  BY <1>1 DEF Needed
<1>14. Entries(server') = Promised!Effect(Arg) \cup Needed
  BY <1>7, <1>12, <1>13
<1>15. Plain(server', opt)
  BY <1>3, <1>4, PlainWithout
<1> QED BY <1>1, <1>2, <1>11, <1>14, <1>15, OkTrack

\* Remove takes a file off.
LEMMA RemovedTrack ==
  ASSUME Sound, Track, UNCHANGED opt, Removed
  PROVE  Track' /\ Answer
<1> DEFINE id == call.id
<1>1. call.step = "unlink" /\ call.op = "remove" /\ Serve /\ Return("ok")
  BY DEF Removed, Answered
<1>2. Started /\ server = Now /\ Aimed(Now, id) /\ ~Done /\ Quiet
  BY <1>1 DEF Started, Sound, Lag, Replacing, Entering, Moving, Steps, Aiming, Done, Quiet
<1>3. /\ Course(server) /\ call.at \in Names /\ FileAt(server, call.at, id)
      /\ server = before /\ Plain(server, opt)
  BY <1>1, <1>2, Facts DEF Aimed, Track
<1>4. At(server, call.at) = id /\ id \in DOMAIN server /\ ~server[id].dir
  BY <1>3 DEF FileAt
<1>5. server' = Without(server, {id})
  BY <1>1, Replies DEF DeleteFile
<1>6. \A j \in DOMAIN server : server[j].parent \in {id} => j \in {id}
  BY <1>3, <1>4, FileAlone
<1>7. \A q \in Names : At(server, q) # None => (At(server, q) \in {id} <=> IsPrefix(call.at, q))
  <2> SUFFICES ASSUME NEW q \in Names, At(server, q) # None
      PROVE  At(server, q) = id <=> IsPrefix(call.at, q)
    OBVIOUS
  <2>1. IsPrefix(call.at, q) <=> q = call.at
    BY <1>3, FileBelow
  <2> QED BY <1>3, <1>4, <2>1, AtInjective
<1>8. Entries(server') = Old \ Below(Old, call.at)
  <2>1. PICK u : u = server'
    OBVIOUS
  <2>2. Entries(u) = Entries(server) \ Below(Entries(server), call.at)
    BY <1>3, <1>4, <1>5, <1>6, <1>7, <2>1, LostIs
  <2> QED BY <1>3, <2>1, <2>2 DEF Old
<1>9. FileIn(Old, call.at)
  BY <1>3, FileInIs DEF Old
<1>10. Promised!May(Arg)
  BY <1>1, <1>9, MayIs
<1>11. Promised!Effect(Arg) = Old \ Below(Old, call.at)
  BY <1>1, EffectIs
<1>12. Needed = {}
  BY <1>1 DEF Needed
<1>13. Entries(server') = Promised!Effect(Arg) \cup Needed
  BY <1>8, <1>11, <1>12
<1>14. Plain(server', opt)
  BY <1>3, <1>5, PlainWithout
<1> QED BY <1>1, <1>2, <1>10, <1>13, <1>14, OkTrack

-----------------------------------------------------------------------------
(* Uploads that overwrite and create. *)

\* An update creates the file it has removed.
LEMMA AnewIs ==
  ASSUME KnownSizes, Sound, call.step = "create", call.op = "update", Serve
  PROVE  /\ server' = ReId(Now, call.id, next, call.size) /\ FileAt(Now, call.at, call.id)
         /\ server = Without(Now, {call.id})
         /\ \E up : server' = With(server, next, File(up, Last(call.at), call.size))
<1> DEFINE up == At(Now, Front(call.at))
           node == File(up, Last(call.at), call.size)
           old == Now[call.id]
           n == [old EXCEPT !.size = call.size]
<1>1. Aimed(Now, call.id) /\ call \in Calls /\ Course(Now)
  BY Facts DEF Sound, Steps, Aiming
<1>2. call.size \in Nat /\ Stored = {call.size} /\ call.size \in Int
  BY StoredIs
<1>3. call.at \in Names /\ call.at # <<>>
  <2>1. call.at \in Files(call.f)
    BY DEF Sound, Arguments
  <2> QED BY <2>1, PathsAre, Facts
<1>4. IsDir(server, up) /\ server' = With(server, next, node)
  <2>1. NodeAt(Front(call.at)) = up
    BY DEF NodeAt, At, Now
  <2>2. server' \in CreateFileContent(call.at)
    BY Replies
  <2> QED BY <1>2, <2>1, <2>2 DEF CreateFileContent
<1>5. /\ server = Without(Now, {call.id}) /\ FileAt(Now, call.at, call.id)
      /\ call.id \in DOMAIN Now /\ At(Now, call.at) = call.id /\ ~Now[call.id].dir
  BY <1>1 DEF Sound, Lag, Replacing, Aimed, FileAt
<1>6. Now[call.id].parent = up /\ Now[call.id].name = Last(call.at) /\ Now[call.id] \in Nodes
      /\ up \in Nat /\ Last(call.at) \in STRING
  <2>1. call.id # None
    BY <1>1, <1>5, ChildIs
  <2>2. Now[call.id].parent = up /\ Now[call.id].name = Last(call.at)
    BY <1>1, <1>3, <1>5, <2>1, AtStep
  <2>3. Now[call.id] \in Nodes
    BY <1>1, <1>5 DEF Course
  <2> QED BY <2>2, <2>3 DEF Nodes
<1>7. node = n
  <2>1. /\ n \in Nodes /\ n.parent = old.parent /\ n.name = old.name /\ n.dir = old.dir
        /\ n.size = call.size
    <3> HIDE DEF old
    <3> QED BY <1>2, <1>6 DEF Nodes, old
  <2>2. /\ node \in Nodes /\ node.parent = up /\ node.name = Last(call.at) /\ ~node.dir
        /\ node.size = call.size /\ node.dir \in BOOLEAN
    <3> HIDE DEF up
    <3> QED BY <1>2, <1>6 DEF Nodes, File
  <2>3. n.dir = node.dir
    BY <1>5, <2>1, <2>2 DEF Nodes, File
  <2> HIDE DEF n, node
  <2> QED BY <1>6, <2>1, <2>2, <2>3, SameNode
<1> HIDE DEF n, node
<1>8. server' = ReId(Now, call.id, next, call.size)
  BY <1>4, <1>5, <1>7 DEF ReId, n
<1>9. \E v : server' = With(server, next, File(v, Last(call.at), call.size))
  BY <1>4 DEF node
<1> QED BY <1>5, <1>8, <1>9

\* What is renewed at the call's path is the upload.
LEMMA WrittenIs ==
  ASSUME Sound, FileAt(Now, call.at, call.id), \A i \in DOMAIN Now : Now[i].dir => Now[i].size = -1,
         Old \subseteq Entries(Now), Entries(Now) \subseteq Old \cup Way(call.at),
         NEW new \in {call.id, next}, NEW u, u = ReId(Now, call.id, new, call.size)
  PROVE  Entries(u) = Written(Old, call.at, call.size) /\ FileIn(Old, call.at)
<1> DEFINE p == call.at
           id == call.id
           E == Entries(Now)
<1>1. Course(Now) /\ p \in Names /\ call.size \in Int /\ id \in DOMAIN Now /\ At(Now, p) = id
  BY Facts DEF Calls, FileAt
<1>2. new \in Nat \ {0} /\ new \notin DOMAIN Now \ {id}
  BY <1>1, NextHere DEF Course
<1>3. Renewed(Now, p, id, u, new)
  BY <1>1, <1>2, ReIdIs
<1>4. ReIded(Now, id, u, new, call.size)
  BY <1>1, ReIdFields
<1>5. u[new].size = call.size /\ \A j \in DOMAIN Now : j # id => u[j] = Now[j]
  BY <1>2, <1>4 DEF ReIded
<1>6. Entries(u) = (E \ Below(E, p)) \cup {Entry(p, FALSE, call.size)}
  <2>1. RenewedAlone(Now, p, id, u, new)
    BY <1>3, <1>5 DEF RenewedAlone
  <2>2. RenewedTo(Now, p, u, Entry(p, FALSE, u[new].size))
    BY <1>1, <2>1, RenewedEntries
  <2> QED BY <1>5, <2>2 DEF RenewedTo
<1>7. Way(p) \subseteq E
  <2>1. At(Now, p) # None
    BY <1>1, ChildIs
  <2> QED BY <1>1, <2>1, WayThere
<1>8. FileIn(E, p)
  BY <1>1, FileInIs
<1> HIDE DEF E
<1>9. Old \subseteq E /\ E \subseteq Old \cup Way(p)
  BY DEF E
<1>10. Below(E, p) = Below(Old, p) /\ E \ Below(E, p) = (Old \ Below(Old, p)) \cup Way(p)
  BY <1>1, <1>7, <1>9, WithWay
<1>11. FileIn(Old, p)
  BY <1>8, <1>9, <1>10 DEF FileIn
<1> QED BY <1>6, <1>10, <1>11 DEF Written

\* A call goes on to its license, when its upload is there and in the tree.
LEMMA ReplacedTrack ==
  ASSUME Sound, Track, UNCHANGED <<opt, before>>, ~Done, Same, call'.result = call.result,
         call'.step = "license", ~call'.dirty, call.op \in {"put", "update"}, Plain(server', opt),
         Entries(server') = Written(Old, call.at, call.size), FileIn(Old, call.at)
  PROVE  Track' /\ Answer
<1>1. Replaced' /\ ~Quiet' /\ Old' = Old
  BY DEF Replaced, Quiet, Untouched, Same, Old
<1>2. call.result = "none"
  BY DEF Track
<1>3. Track'
  BY <1>1, <1>2 DEF Track, Same, Done
<1> QED BY <1>3 DEF Answer, Silent

\* An upload of the same size overwrites the file.
LEMMA OverwroteTrack ==
  ASSUME KnownSizes, Sound, Track, UNCHANGED opt, Overwrote, ~drifted'
  PROVE  Track' /\ Answer
<1>1. /\ call.step = "overwrite" /\ Serve /\ UNCHANGED before
      /\ \E new : call' = [call EXCEPT !.id = new, !.step = "license"]
  BY DEF Overwrote, Answered
<1>2. /\ Started /\ call.op \in {"put", "update"} /\ call \in Calls /\ ~call.dirty /\ ~Done /\ Quiet
      /\ server = Now /\ FileAt(Now, call.at, call.id)
  BY <1>1, Facts DEF Started, Sound, Flags, Fits, Lag, Replacing, Entering, Moving, Steps, Done,
                     Quiet, Untouched
<1>3. call.size \in Nat /\ Stored = {call.size}
  BY <1>2, StoredIs
<1>4. server' \in UpdateFileContent(call.id)
  BY <1>1, Replies
<1>5. PICK n \in {call.id, next} : server' = ReId(Now, call.id, n, call.size)
  BY <1>2, <1>3, <1>4, WrittenInFull
<1>6. server = before /\ Plain(Now, opt)
  BY <1>2 DEF Track
<1>7. PICK u : u = server'
  OBVIOUS
<1>8. Entries(u) = Written(Old, call.at, call.size) /\ FileIn(Old, call.at)
  <2>1. Old = Entries(Now) /\ \A i \in DOMAIN Now : Now[i].dir => Now[i].size = -1
    BY <1>2, <1>6 DEF Old, Plain
  <2> QED BY <1>2, <1>5, <1>7, <2>1, WrittenIs
<1>9. Plain(u, opt)
  <2>1. call.size \in Int /\ Course(Now) /\ call.id \in DOMAIN Now /\ ~Now[call.id].dir
    BY <1>2, Facts DEF FileAt, Calls
  <2>2. ReIded(Now, call.id, u, n, call.size)
    BY <1>5, <1>7, <2>1, ReIdFields
  <2>3. ASSUME NEW j \in DOMAIN u
        PROVE  \E i \in DOMAIN Now :
                 u[j].name = Now[i].name /\ u[j].dir = Now[i].dir /\ (u[j].dir => u[j].size = Now[i].size)
    <3>1. CASE j = n
      BY <2>1, <2>2, <3>1 DEF ReIded
    <3>2. CASE j # n
      <4>1. j \in DOMAIN Now /\ u[j] = Now[j]
        BY <2>2, <3>2 DEF ReIded
      <4> QED BY <4>1
    <3> QED BY <3>1, <3>2
  <2> QED BY <1>6, <2>3, PlainLike
<1>10. Same /\ call'.step = "license" /\ ~call'.dirty /\ call'.result = call.result
  BY <1>1, <1>2 DEF Calls, Same
<1>11. Plain(server', opt) /\ Entries(server') = Written(Old, call.at, call.size)
  BY <1>7, <1>8, <1>9
<1> QED BY <1>1, <1>2, <1>8, <1>10, <1>11, ReplacedTrack

\* An upload creates its file.
LEMMA CreatedTrack ==
  ASSUME KnownSizes, Sound, Track, UNCHANGED opt, Created
  PROVE  Track' /\ Answer
<1>1. /\ call.step = "create" /\ Serve /\ UNCHANGED before /\ call.op \in {"put", "update"}
      /\ call.op = "put" => UNCHANGED caches
      /\ call' = [call EXCEPT !.id = next, !.dirty = call.op = "put", !.step = "license"]
  BY DEF Created, Answered, Sound, Flags, Fits
<1>2. Started /\ ~Replaced /\ ~Done /\ call \in Calls /\ Goal = call.at
  BY <1>1, Facts DEF Started, Replaced, Done, Goal
<1>3. PICK d \in BOOLEAN : d = (call.op = "put")
  OBVIOUS
<1>4. Same /\ call'.step = "license" /\ call'.dirty = d /\ call'.result = call.result
  <2>1. call' = [call EXCEPT !.id = next, !.dirty = d, !.step = "license"]
    BY <1>1, <1>3
  <2> QED BY <1>2, <2>1 DEF Calls, Same
<1>5. Last(call.at) \in FileNames(opt) /\ FolderNames(opt) \cap FileNames(opt) = {}
  <2>1. opt \in Scenarios /\ Last(Goal) \in FileNames(opt)
    BY <1>1, GoalNames DEF Sound
  <2> QED BY <1>2, <2>1, NamesAssumption
<1>6. Plain(server, opt)
  BY DEF Track
<1>7. CASE call.op = "put"
  <2>1. PICK up, size : server' = With(server, next, File(up, Last(call.at), size))
    <3>1. server' \in CreateFileContent(call.at)
      BY <1>1, Replies
    <3> QED BY <3>1 DEF CreateFileContent
  <2>2. Plain(server', opt)
    BY <1>5, <1>6, <2>1, PlainFile
  <2>3. Now' = Now
    BY <1>1, <1>4, <1>7 DEF Now, caches, Same
  <2>4. call'.step \notin Untouched /\ ~Replaced'
    BY <1>3, <1>4, <1>7 DEF Untouched, Replaced
  <2> QED BY <1>1, <1>2, <1>4, <1>7, <2>2, <2>3, <2>4, OnTrack
<1>8. CASE call.op = "update"
  <2>1. /\ server' = ReId(Now, call.id, next, call.size) /\ FileAt(Now, call.at, call.id)
        /\ server = Without(Now, {call.id})
    BY <1>1, <1>8, AnewIs
  <2>2. \E up : server' = With(server, next, File(up, Last(call.at), call.size))
    BY <1>1, <1>8, AnewIs
  <2>3. Plain(server', opt)
    BY <1>5, <1>6, <2>2, PlainFile
  <2>4. \A i \in DOMAIN Now : Now[i].dir => Now[i].size = -1
    <3>1. DOMAIN Without(Now, {call.id}) = DOMAIN Now \ {call.id}
      BY WithoutIs
    <3>2. \A j \in DOMAIN Now \ {call.id} : Without(Now, {call.id})[j] = Now[j]
      BY WithoutIs
    <3>3. \A j \in DOMAIN Now \ {call.id} : j \in DOMAIN server /\ server[j] = Now[j]
      BY <2>1, <3>1, <3>2
    <3> QED BY <1>6, <2>1, <3>3 DEF Plain, FileAt
  <2>5. Old \subseteq Entries(Now) /\ Entries(Now) \subseteq Old \cup Way(call.at)
    BY <1>2 DEF Track
  <2>6. PICK u : u = server'
    OBVIOUS
  <2>7. Entries(u) = Written(Old, call.at, call.size) /\ FileIn(Old, call.at)
    BY <2>1, <2>4, <2>5, <2>6, WrittenIs
  <2>8. Entries(server') = Written(Old, call.at, call.size) /\ ~call'.dirty
    BY <1>3, <1>4, <1>8, <2>6, <2>7
  <2> QED BY <1>1, <1>2, <1>4, <2>3, <2>7, <2>8, ReplacedTrack
<1> QED BY <1>1, <1>7, <1>8

-----------------------------------------------------------------------------
(* Nodes that move, and files that move by a copy. *)

\* What is on the way to a path is a start of its front.
LEMMA WayFront ==
  ASSUME NEW p \in Names, p # <<>>, NEW e \in Way(p)
  PROVE  IsPrefix(e.at, Front(p)) /\ e.at \in Names
<1>1. PICK n \in 1..(Len(p) - 1) : e = Entry(SubSeq(p, 1, n), TRUE, -1)
  BY DEF Way
<1>2. n \in 1..Len(p) /\ Len(p) \in Nat
  BY PrefixIs
<1>3. SubSeq(p, 1, n) \in Names /\ Len(SubSeq(p, 1, n)) = n /\ IsPrefix(SubSeq(p, 1, n), p)
  BY <1>2, StartIs DEF Names
<1>4. e.at = SubSeq(p, 1, n)
  BY <1>1 DEF Entry
<1>5. SubSeq(p, 1, n) # p
  BY <1>1, <1>2, <1>3
<1> QED BY <1>3, <1>4, <1>5, PrefixFront

\* A node that keeps its id has moved, in its folder or to another.
LEMMA MovedTrack ==
  ASSUME Sound, Track, UNCHANGED opt, Return("ok"), Started, ~Replaced, server = Now,
         call.op \in {"move", "dirmove"}, At(Now, call.at) = call.id, call.id \in DOMAIN Now,
         At(Now, call.to) = None, NEW up, up = At(Now, Front(call.to)),
         IsDir(Now, up), up \notin Subtree(Now, call.id),
         Placed(Now, call.id, server', up, Last(call.to)),
         Promised!May(Arg), Plain(server', opt)
  PROVE  Track' /\ Answer
<1> DEFINE a == call.at
           b == call.to
           id == call.id
<1>1. Course(Now) /\ a \in Names /\ b \in Names /\ id # None /\ ~Done
  BY Facts, ChildIs DEF Started, Done
<1>2. b # <<>>
  BY AtEmpty DEF Top, None
<1>3. PICK t, u : t = Now /\ u = server'
  OBVIOUS
<1>4. /\ Course(t) /\ id \in DOMAIN t /\ At(t, a) = id /\ At(t, b) = None /\ up = At(t, Front(b))
      /\ IsDir(t, up) /\ up \notin Subtree(t, id) /\ Placed(t, id, u, up, Last(b))
  BY <1>1, <1>3
<1>5. /\ Old \subseteq Entries(t) /\ Entries(t) \subseteq Old \cup Way(b)
      /\ Needed = Way(b)
  BY <1>3 DEF Track, Goal, Needed
<1>6. /\ Promised!Effect(Arg) = (Old \ Below(Old, a)) \cup Onward(Old, a, b)
  BY EffectIs
<1>7. Plain(u, opt)
  BY <1>3
<1> HIDE DEF a, b, id
<1>8. Front(b) \in Names
  BY <1>1, <1>2, FrontIs
<1>9. /\ Course(u)
      /\ \A q \in Names : At(t, q) # None /\ At(t, q) \notin Subtree(t, id) => At(u, q) = At(t, q)
  <2>1. /\ u \in [DOMAIN t -> Nodes] /\ (\A j \in DOMAIN t : j # id => u[j] = t[j])
        /\ u[id].dir = t[id].dir /\ u[id].parent = At(t, Front(b)) /\ u[id].name = Last(b)
        /\ IsDir(t, u[id].parent) /\ u[id].parent \notin Subtree(t, id)
    BY <1>4 DEF Placed
  <2> QED BY <1>1, <1>2, <1>4, <2>1, MoveNode
<1>10. Entries(u) = (Entries(t) \ Below(Entries(t), a)) \cup Onward(Entries(t), a, b) /\ At(u, b) = id
  BY <1>1, <1>2, <1>4, <1>9, MovedEntries
<1>11. \A e \in Way(b) : ~IsPrefix(a, e.at)
  <2> SUFFICES ASSUME NEW e \in Way(b), IsPrefix(a, e.at) PROVE FALSE
    OBVIOUS
  <2>1. IsPrefix(e.at, Front(b)) /\ e.at \in Names
    BY <1>1, <1>2, WayFront
  <2>2. IsPrefix(a, Front(b))
    BY <1>1, <1>8, <2>1, PrefixTrans
  <2>3. At(t, Front(b)) # None
    BY <1>4, ChildIs DEF IsDir, Top, None
  <2>4. At(t, Front(b)) \in Subtree(t, id)
    BY <1>1, <1>4, <1>8, <2>2, <2>3, BelowIs
  <2> QED BY <1>4, <2>4
<1>12. Below(Entries(t), a) = Below(Old, a)
  BY <1>5, <1>11 DEF Below
<1>13. Onward(Entries(t), a, b) = Onward(Old, a, b)
  BY <1>12 DEF Onward
<1>14. Way(b) \subseteq Entries(u)
  <2>1. \A i \in DOMAIN u : u[i].dir => u[i].size = -1
    BY <1>7 DEF Plain
  <2> QED BY <1>1, <1>9, <1>10, <2>1, WayThere
<1>15. Entries(u) = Promised!Effect(Arg) \cup Needed
  <2>1. PICK E, F : E = Entries(t) /\ F = Entries(u)
    OBVIOUS
  <2>2. F = (E \ Below(Old, a)) \cup Onward(Old, a, b)
    BY <1>10, <1>12, <1>13, <2>1
  <2>3. Old \subseteq E /\ E \subseteq Old \cup Way(b) /\ Way(b) \subseteq F
    BY <1>5, <1>14, <2>1
  <2>4. F = ((Old \ Below(Old, a)) \cup Onward(Old, a, b)) \cup Way(b)
    BY <2>2, <2>3
  <2> QED BY <1>5, <1>6, <2>1, <2>4
<1>16. Entries(server') = Promised!Effect(Arg) \cup Needed
  BY <1>3, <1>15
<1> QED BY <1>1, <1>16, OkTrack

\* A node gets another name in its folder.
LEMMA RenamedTrack ==
  ASSUME Sound, Track, UNCHANGED opt, Return("ok"), Answered("rename")
  PROVE  Track' /\ Answer
<1> DEFINE up == At(Now, Front(call.to))
<1>1. call.step = "rename" /\ call.op = "move" /\ Serve
  BY DEF Answered, Sound, Flags, Fits
<1>2. /\ Started /\ server = Now /\ Aimed(Now, call.id) /\ Front(call.at) = Front(call.to) /\ ~Replaced
      /\ Quiet
  BY <1>1 DEF Started, Sound, Lag, Replacing, Entering, Moving, Steps, Aiming, Flags, Replaced,
              Quiet, Untouched
<1>3. /\ FileAt(Now, call.at, call.id) /\ call.id \in DOMAIN Now /\ At(Now, call.at) = call.id
      /\ At(Now, call.to) = None /\ ~Now[call.id].dir
  BY <1>1, <1>2 DEF Aimed, FileAt
<1>4. /\ Course(Now) /\ call.at \in Names /\ call.at # <<>> /\ call.id # None /\ call.to \in Names
      /\ call.to # <<>> /\ Now \in [DOMAIN Now -> Nodes]
  <2>1. call.to # <<>>
    BY <1>3, AtEmpty DEF Top, None
  <2> QED BY <1>3, <2>1, Facts, ChildIs, AtIs DEF Course
<1>5. Now[call.id].parent = up
  BY <1>2, <1>3, <1>4, AtStep
<1>6. IsDir(Now, up) /\ up \notin Subtree(Now, call.id)
  BY <1>3, <1>4, <1>5, NotInItself DEF Course
<1>7. server' = [Now EXCEPT ![call.id].name = Last(call.to)]
  BY <1>1, <1>2, Replies DEF UpdateFileRef
<1>8. PICK u : u = server'
  OBVIOUS
<1>9. Placed(Now, call.id, u, up, Last(call.to))
  <2>1. Last(call.to) \in STRING
    BY <1>4, FrontIs
  <2>2. /\ u[call.id].parent = Now[call.id].parent /\ u[call.id].name = Last(call.to)
        /\ u[call.id].dir = Now[call.id].dir /\ u[call.id].size = Now[call.id].size
        /\ DOMAIN u = DOMAIN Now /\ \A j \in DOMAIN Now : j # call.id => u[j] = Now[j]
    BY <1>3, <1>4, <1>7, <1>8, <2>1 DEF Nodes
  <2>3. u \in [DOMAIN Now -> Nodes]
    BY <1>3, <1>4, <1>7, <1>8, <2>1 DEF Nodes
  <2> QED BY <1>5, <2>2, <2>3 DEF Placed
<1>10. server = before /\ Plain(Now, opt)
  BY <1>2 DEF Track
<1>11. FileIn(Old, call.at)
  BY <1>2, <1>3, <1>4, <1>10, FileInIs DEF Old
<1>12. Promised!May(Arg)
  BY <1>1, <1>11, MayIs
<1>13. Plain(u, opt)
  <2>1. Last(call.to) \in FileNames(opt) /\ FolderNames(opt) \cap FileNames(opt) = {}
    <3>1. Goal = call.to
      BY <1>1 DEF Goal
    <3>2. opt \in Scenarios /\ Last(Goal) \in FileNames(opt)
      BY <1>1, GoalNames DEF Sound
    <3> QED BY <3>1, <3>2, NamesAssumption
  <2>2. /\ DOMAIN u \subseteq DOMAIN Now \cup {call.id} /\ (\A j \in DOMAIN u : j # call.id => u[j] = Now[j])
        /\ u[call.id].name = Last(call.to) /\ ~u[call.id].dir
    BY <1>3, <1>9 DEF Placed
  <2> QED BY <1>10, <2>1, <2>2, PlainPlus
<1>14. PICK v : v = up
  OBVIOUS
<1>15. Placed(Now, call.id, server', v, Last(call.to)) /\ Plain(server', opt)
  BY <1>8, <1>9, <1>13, <1>14
<1>16. v = At(Now, Front(call.to)) /\ IsDir(Now, v) /\ v \notin Subtree(Now, call.id)
  BY <1>6, <1>14
<1> HIDE DEF up
<1> QED BY <1>1, <1>2, <1>3, <1>12, <1>15, <1>16, MovedTrack

\* A node goes to another folder.
LEMMA ReparentedTrack ==
  ASSUME Sound, Track, UNCHANGED opt, Return("ok"), Answered("reparent")
  PROVE  Track' /\ Answer
<1> DEFINE up == At(Now, Front(call.to))
<1>1. call.step = "reparent" /\ call.op = "dirmove" /\ Serve
  BY DEF Answered, Sound, Flags, Fits
<1>2. Started /\ server = Now /\ Aimed(Now, call.id) /\ ~Replaced
  BY <1>1 DEF Started, Sound, Lag, Replacing, Entering, Moving, Steps, Aiming, Replaced
<1>3. call.id \in DOMAIN Now /\ At(Now, call.at) = call.id /\ At(Now, call.to) = None
  BY <1>1, <1>2 DEF Aimed
<1>4. /\ Course(Now) /\ call.to \in Names /\ call.to # <<>> /\ Now \in [DOMAIN Now -> Nodes]
      /\ call.at \in Names /\ call.at # <<>> /\ call.id # None
  <2>1. call.to # <<>>
    BY <1>3, AtEmpty DEF Top, None
  <2> QED BY <1>3, <2>1, Facts, AtIs, ChildIs DEF Course
<1>5. NodeAt(ParentPath) = up
  BY <1>1 DEF NodeAt, ParentPath, Goal, At, Now
<1>6. /\ IsDir(Now, up) /\ up \notin Subtree(Now, call.id)
      /\ server' = [Now EXCEPT ![call.id].parent = up, ![call.id].name = Last(call.to)]
  <2>1. server' \in UpdateFolder(call.id)
    BY <1>1, Replies
  <2> QED BY <1>2, <1>5, <2>1 DEF UpdateFolder
<1>7. up \in Nat /\ Last(call.to) \in STRING
  BY <1>4, <1>6, FrontIs DEF IsDir, Top, Course
<1>8. Placed(Now, call.id, server', up, Last(call.to))
  BY <1>3, <1>4, <1>6, <1>7, PlacedIs
<1>9. Plain(Now, opt) /\ opt \in Scenarios
  BY <1>2, Facts DEF Track
<1>10. Last(call.at) \in FolderNames(opt) /\ Last(call.to) \in FolderNames(opt)
  <2>1. call.at \in Folders(call.src) /\ call.src \in Fs
    BY <1>1, Facts DEF Sound, Arguments
  <2>2. Last(call.at) = call.at[Len(call.at)] /\ Len(call.at) \in 1..Len(call.at)
    BY <1>4, FrontIs
  <2>3. Last(call.at) \in FolderNames(opt)
    BY <1>9, <2>1, <2>2, NamesOf
  <2>4. Goal = call.to
    BY <1>1 DEF Goal
  <2>5. Last(call.to) \in FolderNames(opt)
    BY <1>1, <1>4, <2>4, GoalNames DEF Sound
  <2> QED BY <2>3, <2>5
<1>11. Entry(call.at, TRUE, -1) \in Entries(Now) /\ Now[call.id].dir
  BY <1>3, <1>4, <1>9, <1>10, FolderThere
<1>12. Old \subseteq Entries(Now) /\ Entries(Now) \subseteq Old \cup Way(call.to)
  BY <1>1, <1>2 DEF Track, Goal
<1>13. Entry(call.at, TRUE, -1) \in Old
  <2> SUFFICES ASSUME Entry(call.at, TRUE, -1) \in Way(call.to) PROVE FALSE
    BY <1>11, <1>12
  <2>1. Entry(call.at, TRUE, -1).at = call.at
    BY DEF Entry
  <2>2. IsPrefix(call.at, Front(call.to)) /\ Front(call.to) \in Names
    BY <1>4, <2>1, WayFront, FrontIs
  <2>3. At(Now, Front(call.to)) # None
    BY <1>4, <1>6, ChildIs DEF IsDir, Top, None
  <2>4. At(Now, Front(call.to)) \in Subtree(Now, call.id)
    BY <1>3, <1>4, <2>2, <2>3, BelowIs
  <2> QED BY <1>6, <2>4
<1>14. Below(Old, call.to) = {}
  <2>1. Below(Entries(Now), call.to) = {}
    BY <1>3, <1>4, NothingBelow
  <2> QED BY <1>12, <2>1 DEF Below
<1>15. Promised!May(Arg)
  BY <1>1, <1>13, <1>14, MayIs
<1>16. Plain(server', opt)
  <2>1. PICK u : u = server'
    OBVIOUS
  <2>2. /\ DOMAIN u \subseteq DOMAIN Now \cup {call.id} /\ (\A j \in DOMAIN u : j # call.id => u[j] = Now[j])
        /\ u[call.id].name = Last(call.to) /\ u[call.id].dir = Now[call.id].dir
        /\ u[call.id].size = Now[call.id].size
    BY <1>3, <1>8, <2>1 DEF Placed
  <2>3. Last(call.to) \notin FileNames(opt) /\ Now[call.id].size = -1
    BY <1>3, <1>9, <1>10, <1>11, NamesAssumption DEF Plain
  <2>4. u[call.id].dir /\ u[call.id].name \notin FileNames(opt) /\ u[call.id].size = -1
    BY <1>11, <2>2, <2>3
  <2>5. Plain(u, opt)
    BY <1>9, <2>2, <2>4, PlainPlus
  <2> QED BY <2>1, <2>5
<1>17. PICK v : v = up
  OBVIOUS
<1>18. Placed(Now, call.id, server', v, Last(call.to))
  BY <1>8, <1>17
<1>19. v = At(Now, Front(call.to)) /\ IsDir(Now, v) /\ v \notin Subtree(Now, call.id)
  BY <1>6, <1>17
<1> HIDE DEF up
<1> QED BY <1>1, <1>2, <1>3, <1>15, <1>16, <1>18, <1>19, MovedTrack

\* A file has moved by a copy.
LEMMA CopyKeptTrack ==
  ASSUME Sound, Track, UNCHANGED opt, Return("ok"), Answered("unlink"), call.op = "move"
  PROVE  Track' /\ Answer
<1> DEFINE id == call.id
           new == call.new
           size == Now[id].size
           a == call.at
           b == call.to
<1>1. call.step = "unlink" /\ Serve
  BY DEF Answered
<1>2. Started /\ ~Replaced /\ ~Done /\ Aimed(Now, id) /\ Leads(new, b, size)
  BY <1>1 DEF Started, Replaced, Done, Sound, Lag, Moving, Steps, Aiming
<1>3. /\ FileAt(Now, a, id) /\ id \in DOMAIN Now /\ ~Now[id].dir /\ At(Now, a) = id
      /\ At(Now, b) = None
  BY <1>2 DEF Aimed, FileAt
<1>4. /\ Course(Now) /\ a \in Names /\ b \in Names /\ b # <<>> /\ size \in Int /\ id # None
  <2>1. call.to \in Files(call.f)
    BY DEF Sound, Arguments
  <2>2. Now[id] \in Nodes /\ size \in Int
    BY <1>3, Facts DEF Course, Nodes
  <2> QED BY <1>3, <2>1, <2>2, Facts, PathsAre, ChildIs
<1>5. Added(Now, b, server, new, size) /\ new \notin DOMAIN Now
  BY <1>2, <1>4, LeadsIs
<1>6. /\ Course(server) /\ At(server, b) = new /\ DOMAIN server = DOMAIN Now \cup {new}
      /\ (\A j \in DOMAIN Now : server[j] = Now[j])
      /\ server[new].dir = FALSE /\ server[new].size = size
      /\ (\A q \in Names : q # b => At(server, q) = At(Now, q))
      /\ Gained(Now, b, server, new)
  BY <1>5 DEF Added, Gained, File
<1>7. server' = Without(server, {id})
  BY <1>1, Replies DEF DeleteFile
<1>8. /\ Plain(server, opt) /\ Plain(server', opt)
  BY <1>7, PlainWithout DEF Track
<1>9. /\ Old \subseteq Entries(Now) /\ Entries(Now) \subseteq Old \cup Way(b)
      /\ Needed = Way(b)
  BY <1>2 DEF Track, Goal, Needed
<1>10. Promised!Effect(Arg) = (Old \ Below(Old, a)) \cup Onward(Old, a, b)
  BY EffectIs
<1>11. PICK t, w, u, s : t = Now /\ w = server /\ u = server' /\ s = size
  OBVIOUS
<1>12. a # b
  BY <1>3, <1>4
<1>13. /\ Course(w) /\ id \in DOMAIN w /\ ~w[id].dir /\ At(w, a) = id /\ FileAt(w, a, id)
       /\ w[id].size = s /\ u = Without(w, {id}) /\ Plain(w, opt) /\ Plain(u, opt)
       /\ At(w, b) = new /\ new # id /\ new \in DOMAIN w
  BY <1>3, <1>4, <1>5, <1>6, <1>7, <1>8, <1>11, <1>12 DEF FileAt
<1>14. /\ Course(t) /\ Gained(t, b, w, new) /\ At(t, b) = None /\ FileAt(t, a, id) /\ t[id].size = s
       /\ w[new].dir = FALSE /\ w[new].size = s
  BY <1>3, <1>4, <1>6, <1>11
<1>15. Old \subseteq Entries(t) /\ Entries(t) \subseteq Old \cup Way(b)
  BY <1>9, <1>11
<1> HIDE DEF size, id, new, a, b
<1>16. Entries(w) = Entries(t) \cup {Entry(b, FALSE, s)}
  <2>1. Entries(w) = Entries(t) \cup {Entry(b, w[new].dir, w[new].size)}
    BY <1>4, <1>14, GainedEntry
  <2> QED BY <1>14, <2>1
<1>17. \A j \in DOMAIN w : w[j].parent \in {id} => j \in {id}
  BY <1>13, FileAlone
<1>18. Entries(u) = Entries(w) \ Below(Entries(w), a)
  <2>1. \A q \in Names : At(w, q) # None => (At(w, q) \in {id} <=> IsPrefix(a, q))
    <3> SUFFICES ASSUME NEW q \in Names, At(w, q) # None
        PROVE  At(w, q) = id <=> IsPrefix(a, q)
      OBVIOUS
    <3>1. IsPrefix(a, q) <=> q = a
      BY <1>4, <1>13, FileBelow
    <3> QED BY <1>4, <1>13, <3>1, AtInjective
  <2> QED BY <1>4, <1>13, <1>17, <2>1, LostIs
<1>19. Below(Entries(w), a) = {Entry(a, FALSE, s)} /\ Below(Entries(t), a) = {Entry(a, FALSE, s)}
  <2>1. Below(Entries(w), a) = {Entry(a, FALSE, w[id].size)}
    BY <1>4, <1>13, FileBelow
  <2>2. Below(Entries(t), a) = {Entry(a, FALSE, t[id].size)}
    BY <1>4, <1>14, FileBelow
  <2> QED BY <1>13, <1>14, <2>1, <2>2
<1>20. Below(Old, a) = {Entry(a, FALSE, s)}
  <2>1. Entry(a, FALSE, s) \in Entries(t) /\ IsPrefix(a, Entry(a, FALSE, s).at)
    BY <1>19 DEF Below
  <2>2. Entry(a, FALSE, s) \notin Way(b)
    BY <1>4, WayNotBelow DEF Entry
  <2>3. Entry(a, FALSE, s) \in Old
    BY <1>15, <2>1, <2>2
  <2> QED BY <1>15, <1>19, <2>1, <2>3 DEF Below
<1>21. Onward(Old, a, b) = {Entry(b, FALSE, s)}
  <2>1. SubSeq(a, Len(a) + 1, Len(a)) = <<>>
    BY <1>4 DEF Names
  <2>2. b \o <<>> = b
    BY <1>4 DEF Names
  <2>3. Entry(a, FALSE, s).at = a
    BY DEF Entry
  <2>4. [Entry(a, FALSE, s) EXCEPT !.at = b] = Entry(b, FALSE, s)
    <3>1. PICK d : d = FALSE
      OBVIOUS
    <3>2. [Entry(a, d, s) EXCEPT !.at = b] = Entry(b, d, s)
      BY DEF Entry
    <3> QED BY <3>1, <3>2
  <2>5. Onward(Old, a, b) =
          {[e EXCEPT !.at = b \o SubSeq(e.at, Len(a) + 1, Len(e.at))] : e \in {Entry(a, FALSE, s)}}
    BY <1>20 DEF Onward
  <2>6. PICK x : x = Entry(a, FALSE, s)
    OBVIOUS
  <2>7. b \o SubSeq(x.at, Len(a) + 1, Len(x.at)) = b
    BY <2>1, <2>2, <2>3, <2>6
  <2>8. Onward(Old, a, b) = {[x EXCEPT !.at = b]}
    BY <2>5, <2>6, <2>7
  <2> QED BY <2>4, <2>6, <2>8
<1>22. Way(b) \subseteq Entries(u)
  <2>1. Course(Without(w, {id}))
    BY <1>13, <1>17, Drop
  <2>2. At(Without(w, {id}), b) = IF At(w, b) \in {id} /\ b # <<>> THEN None ELSE At(w, b)
    BY <1>4, <1>13, <1>17, Drop
  <2>3. Course(u) /\ At(u, b) = new
    BY <1>13, <2>1, <2>2
  <2>4. new # None
    BY <1>13, ChildIs
  <2> QED BY <1>4, <1>13, <2>3, <2>4, WayThere DEF Plain
<1>23. Entry(a, FALSE, s) # Entry(b, FALSE, s)
  BY <1>12 DEF Entry
<1>24. Entries(u) = Promised!Effect(Arg) \cup Needed
  <2>1. PICK E, F, x, y : /\ E = Entries(t) /\ F = Entries(u) /\ x = Entry(a, FALSE, s)
                          /\ y = Entry(b, FALSE, s)
    OBVIOUS
  <2>2. F = (E \cup {y}) \ {x}
    BY <1>16, <1>18, <1>19, <2>1
  <2>3. Old \subseteq E /\ E \subseteq Old \cup Way(b) /\ Way(b) \subseteq F /\ x # y
    BY <1>15, <1>22, <1>23, <2>1
  <2>4. F = ((Old \ {x}) \cup {y}) \cup Way(b)
    BY <2>2, <2>3
  <2> QED BY <1>9, <1>10, <1>20, <1>21, <2>1, <2>4
<1>25. Promised!May(Arg)
  <2>1. FileIn(Old, a)
    <3>1. FileIn(Entries(t), a)
      BY <1>4, <1>14, FileInIs
    <3> QED BY <1>15, <1>20, <3>1 DEF FileIn
  <2> QED BY <2>1, MayIs DEF a
<1>26. Entries(server') = Promised!Effect(Arg) \cup Needed
  BY <1>11, <1>24
<1> QED BY <1>2, <1>8, <1>25, <1>26, OkTrack

\* Each of the three ways to move moves.
LEMMA AllMovedTrack ==
  ASSUME Sound, Track, UNCHANGED opt, Moved
  PROVE  Track' /\ Answer
BY RenamedTrack, ReparentedTrack, CopyKeptTrack DEF Moved

-----------------------------------------------------------------------------
(* Every step. *)

\* A call has done what is promised before any step of it.
LEMMA InitTrack ==
  ASSUME Init
  PROVE  Track /\ Promised!Init
<1>1. /\ opt \in Scenarios /\ server \in opt.starts /\ before = server /\ drifted = FALSE
      /\ call \in {[Call("none", f) EXCEPT !.step = "done", !.result = "ok"] : f \in Fs}
  BY DEF Init
<1>2. call.step = "done" /\ call.result = "ok"
  <2>1. PICK f \in Fs : call = [Call("none", f) EXCEPT !.step = "done", !.result = "ok"]
    BY <1>1
  <2> QED BY <2>1 DEF Call
<1>3. IsCourse(server) /\ Named(server, opt)
  BY <1>1, ConstantsAssumption, NamesAssumption
<1>4. Plain(server, opt)
  BY <1>3 DEF Plain, IsCourse
<1>5. Track
  BY <1>1, <1>2, <1>4 DEF Track, Done, Started, Replaced
<1>6. Promised!Init
  BY <1>1, <1>2 DEF Promised!Init
<1> QED BY <1>5, <1>6

\* Every step is a step of the promise, or sets drifted.
LEMMA NextTrack ==
  ASSUME KnownSizes, Sound, Track, Next, ~drifted'
  PROVE  Track' /\ Answer
<1>1. UNCHANGED opt
  BY DEF Next
<1>2. ASSUME NEW f \in Fs, NEW p \in Files(f), NewObject(f, p) PROVE Track' /\ Answer
  BY <1>1, <1>2, NewObjectTrack
<1>3. CASE Invoke
  BY <1>1, <1>3, InvokeTrack
<1>4. CASE Ensure
  BY <1>1, <1>4, EnsureTrack
<1>5. CASE EnsureFails
  BY <1>1, <1>5, EnsureFailsTrack
<1>6. CASE RequestFails
  BY <1>1, <1>6, RequestFailsTrack
<1>7. CASE OtherClient
  BY <1>7 DEF OtherClient
<1>8. CASE BeginPut \/ BeginMkdir \/ BeginRmdir \/ LookAgain \/ BeginUpdate \/ BeginRemove
           \/ BeginMove \/ BeginDirMove \/ DirMoveOntoItself
  BY <1>1, <1>8, BeginPutTrack, BeginMkdirTrack, BeginRmdirTrack, LookAgainTrack, BeginUpdateTrack,
     BeginRemoveTrack, BeginMoveTrack, BeginDirMoveTrack, DirMoveOntoItselfTrack
<1>9. CASE MakeSegment \/ ParentsMade \/ AlreadyThere \/ MadeDir \/ RemovedDir
  BY <1>1, <1>9, MakeSegmentTrack, ParentsMadeTrack, AlreadyThereTrack, MadeDirTrack, RemovedDirTrack
<1>10. CASE Created \/ Overwrote \/ EnterFile \/ LicenseAgain \/ Licensed
  BY <1>1, <1>10, CreatedTrack, OverwroteTrack, EnterFileTrack, LicenseAgainTrack, LicensedTrack
<1>11. CASE Seen \/ Copied \/ Moved \/ CleanedUp \/ Unlinked \/ Removed
  BY <1>1, <1>11, SeenTrack, CopiedTrack, AllMovedTrack, CleanedUpTrack, UnlinkedTrack, RemovedTrack
<1> QED BY <1>2, <1>3, <1>4, <1>5, <1>6, <1>7, <1>8, <1>9, <1>10, <1>11 DEF Next, Handler

\* Nothing changes when no variable does.
LEMMA Stutter ==
  ASSUME UNCHANGED vars
  PROVE  /\ drifted' = drifted /\ (Sound => Sound') /\ (LostAtLast => LostAtLast') /\ (Track => Track')
         /\ UNCHANGED <<before, call>>
<1>1. UNCHANGED <<opt, server, next, counter, snapshot, tree, relativeRoot, label, held, call, drifted>>
  BY DEF vars, course, caches
<1>2. UNCHANGED before
  BY DEF vars, ghosts
<1>3. drifted' = drifted
  BY <1>1
<1>4. Sound => Sound'
  BY <1>1 DEF Sound, Labels, Types, Arguments, Files, Folders, Own, Trees, Roots, Rooted, Caches,
              Shows, Now, Started, Flags, Steps, Ready, Aimed, Lag, Leads, Replacing, Entering, Moving
<1>5. LostAtLast => LostAtLast'
  BY <1>1 DEF LostAtLast, Rooted
<1>6. Track => Track'
  BY <1>1, <1>2 DEF Track, Done, Quiet, Started, Replaced, Old, Now, Goal
<1> QED BY <1>1, <1>2, <1>3, <1>4, <1>5, <1>6

\* What is tracked holds in every run.
LEMMA TrackedStep ==
  ASSUME KnownSizes, Tracked, [Next]_vars
  PROVE  Tracked'
<1>1. CASE UNCHANGED vars
  BY <1>1, Stutter DEF Tracked
<1>2. CASE Next
  <2>1. CASE drifted'
    BY <2>1 DEF Tracked
  <2>2. CASE ~drifted'
    <3>1. ~drifted /\ ~LostAtLast
      BY <1>2, <2>2, Drifts, LostAtLastStep
    <3>2. Sound /\ Track
      BY <3>1 DEF Tracked
    <3>3. Track'
      BY <1>2, <2>2, <3>2, NextTrack
    <3>4. Sound' \/ LostAtLast'
      BY <1>2, <2>2, <3>2, NextInv
    <3> QED BY <3>3, <3>4 DEF Tracked
  <2> QED BY <2>1, <2>2
<1> QED BY <1>1, <1>2

\* Each step is one of the promise.
LEMMA PromisedStep ==
  ASSUME KnownSizes, Tracked, [Next]_vars
  PROVE  [Promised!Next]_(Promised!vars)
<1>1. CASE UNCHANGED vars
  <2>1. before' = before /\ call' = call /\ drifted' = drifted
    BY <1>1, Stutter
  <2> QED BY <2>1 DEF Promised!vars
<1>2. CASE Next
  <2>1. CASE drifted'
    BY <2>1 DEF Promised!Next
  <2>2. CASE ~drifted'
    <3>1. ~drifted /\ ~LostAtLast
      BY <1>2, <2>2, Drifts, LostAtLastStep
    <3>2. Answer
      BY <1>2, <2>2, <3>1, NextTrack DEF Tracked
    <3>3. CASE Silent
      <4>1. before' = before /\ Same /\ call'.result = call.result
        BY <3>3 DEF Silent
      <4>2. (~drifted)' = ~drifted
        BY <2>2, <3>1
      <4> QED BY <4>1, <4>2 DEF Promised!vars, Same
    <3>4. CASE Promised!Invoke \/ Promised!Succeed \/ Promised!Fail \/ Promised!Exists
      <4>1. (~drifted)' = ~drifted /\ ~drifted
        BY <2>2, <3>1
      <4> QED BY <3>4, <4>1 DEF Promised!Next
    <3> QED BY <3>2, <3>3, <3>4 DEF Answer
  <2> QED BY <2>1, <2>2
<1> QED BY <1>1, <1>2

\* What each step of a call has done to the course, and what is left to do.
THEOREM TrackHolds ==
  ASSUME KnownSizes
  PROVE  Spec => []Tracked
<1>1. Init => Tracked
  BY InitInv, InitTrack DEF Tracked
<1>2. Tracked /\ [Next]_vars => Tracked'
  BY TrackedStep
<1> QED BY <1>1, <1>2, PTL DEF Spec

\* As long as the course has not changed behind the trees, every call does as FileSystem:
\* when it returns well the course has changed by just its effect and the folders on the
\* way, and may have; when it fails, by some of those folders at most, or by an upload
\* that is there as a whole but has no license (fs.go:758-1302 and object.go:157-430).
THEOREM ImplementsHolds ==
  ASSUME KnownSizes
  PROVE  Spec => Implements
<1>1. Init => Tracked
  BY InitInv, InitTrack DEF Tracked
<1>2. Init => Promised!Init
  BY InitTrack
<1>3. Tracked /\ [Next]_vars => Tracked'
  BY TrackedStep
<1>4. Tracked /\ [Next]_vars => [Promised!Next]_(Promised!vars)
  BY PromisedStep
<1> QED BY <1>1, <1>2, <1>3, <1>4, PTL DEF Spec, Implements, Promised!Spec
=============================================================================

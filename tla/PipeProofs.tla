----------------------------- MODULE PipeProofs ------------------------------
(* A token is always backed by a pair, a pair is in one place, and a pipe that
   was closed is drained, and the size it reports is that of what it holds,
   whatever the pairs, the goroutines and the backlog. *)
EXTENDS Pipe, FiniteSetTheorems, WellFoundedInduction, TLAPS

\* Each pair in the queue has its token in the channel, with a consumer on its
\* way to the lock, or with a producer about to send it.  After a cancellation
\* a pair may be left without one.
Backing == tokens + Cardinality(taking) + Cardinality(putting)
Counts ==
  /\ Len(queue) >= Backing
  /\ ~cancelled => Len(queue) = Backing

\* Nothing is put after the close, and a consumer ends after the last token.
Ends ==
  /\ closed => putting = {} /\ (cancelled \/ toPut = {})
  /\ taking \cap ended = {}
  /\ ended # {} => cancelled \/ (closed /\ tokens = 0)

Inv == TypeOK /\ OnePlace /\ Counts /\ Ends

-----------------------------------------------------------------------------
LEMMA Sizes ==
  ASSUME TypeOK
  PROVE  /\ IsFiniteSet(taking) /\ Cardinality(taking) \in Nat
         /\ IsFiniteSet(putting) /\ Cardinality(putting) \in Nat
         /\ Len(queue) \in Nat /\ tokens \in Nat
<1>1. IsFiniteSet(taking) /\ IsFiniteSet(putting)
  BY PipeAssumption, FS_Subset DEF TypeOK
<1>2. Cardinality(taking) \in Nat /\ Cardinality(putting) \in Nat
  BY <1>1, FS_CardinalityType
<1>3. tokens \in Nat
  BY PipeAssumption DEF TypeOK
<1> QED BY <1>1, <1>2, <1>3 DEF TypeOK

\* What Append and Without leave of a queue without duplicates.
LEMMA Appended ==
  ASSUME NEW q \in Seq(Items), NEW i \in Items
  PROVE  /\ Append(q, i) \in Seq(Items) /\ Len(Append(q, i)) = Len(q) + 1
         /\ Range(Append(q, i)) = Range(q) \cup {i}
         /\ \A n \in 1..Len(q) : Append(q, i)[n] = q[n]
         /\ Append(q, i)[Len(q) + 1] = i
<1>1. /\ Append(q, i) \in Seq(Items) /\ Len(Append(q, i)) = Len(q) + 1
      /\ \A n \in 1..Len(q) : Append(q, i)[n] = q[n]
      /\ Append(q, i)[Len(q) + 1] = i
  OBVIOUS
<1>2. DOMAIN q = 1..Len(q) /\ DOMAIN Append(q, i) = 1..(Len(q) + 1)
  BY <1>1
<1>3. 1..(Len(q) + 1) = 1..Len(q) \cup {Len(q) + 1}
  OBVIOUS
<1>4. Range(Append(q, i)) = Range(q) \cup {i}
  BY <1>1, <1>2, <1>3 DEF Range
<1> QED BY <1>1, <1>4

LEMMA Shorter ==
  ASSUME queue \in Seq(Items), NEW n \in 1..Len(queue),
         \A j, k \in 1..Len(queue) : queue[j] = queue[k] => j = k
  PROVE  /\ Without(n) \in Seq(Items) /\ Len(Without(n)) = Len(queue) - 1
         /\ Range(queue) = Range(Without(n)) \cup {queue[n]}
         /\ queue[n] \notin Range(Without(n))
         /\ \A j, k \in 1..Len(Without(n)) : Without(n)[j] = Without(n)[k] => j = k
<1> DEFINE q == Without(n)
<1>1. Len(queue) \in Nat /\ DOMAIN queue = 1..Len(queue)
  OBVIOUS
<1>2. q = [k \in 1..(Len(queue) - 1) |-> IF k < n THEN queue[k] ELSE queue[k + 1]]
  BY DEF Without
<1>3. \A k \in 1..(Len(queue) - 1) : q[k] \in Items
  BY <1>1, <1>2
<1>4. q \in Seq(Items) /\ Len(q) = Len(queue) - 1 /\ DOMAIN q = 1..(Len(queue) - 1)
  <2>1. Len(queue) - 1 \in Nat
    BY <1>1
  <2>2. q \in [1..(Len(queue) - 1) -> Items]
    BY <1>2, <1>3
  <2> QED BY <2>1, <2>2
<1>5. \A k \in 1..(Len(queue) - 1) :
        /\ k < n => q[k] = queue[k]
        /\ k >= n => q[k] = queue[k + 1]
  BY <1>1, <1>2
<1> HIDE DEF q
<1>6. \A k \in 1..Len(queue) :
        k = n \/ \E j \in 1..(Len(queue) - 1) : q[j] = queue[k]
  <2> SUFFICES ASSUME NEW k \in 1..Len(queue), k # n
               PROVE  \E j \in 1..(Len(queue) - 1) : q[j] = queue[k]
    OBVIOUS
  <2>1. CASE k < n
    <3>1. k \in 1..(Len(queue) - 1) /\ q[k] = queue[k]
      BY <1>1, <1>5, <2>1
    <3> QED BY <3>1
  <2>2. CASE k > n
    <3>1. k - 1 \in 1..(Len(queue) - 1) /\ k - 1 >= n /\ (k - 1) + 1 = k
      BY <1>1, <2>2
    <3>2. q[k - 1] = queue[k]
      BY <1>5, <3>1
    <3> QED BY <3>1, <3>2
  <2> QED BY <1>1, <2>1, <2>2
<1>7. \A j \in 1..(Len(queue) - 1) :
        \E k \in 1..Len(queue) : k # n /\ q[j] = queue[k]
  <2> TAKE j \in 1..(Len(queue) - 1)
  <2>1. CASE j < n
    BY <1>1, <1>5, <2>1
  <2>2. CASE j >= n
    <3>1. j + 1 \in 1..Len(queue) /\ j + 1 # n
      BY <1>1, <2>2
    <3> QED BY <1>5, <2>2, <3>1
  <2> QED BY <1>1, <2>1, <2>2
<1>8. Range(queue) = Range(q) \cup {queue[n]}
  <2>1. \A k \in 1..Len(queue) : queue[k] \in Range(q) \cup {queue[n]}
    BY <1>4, <1>6 DEF Range
  <2>2. \A j \in 1..(Len(queue) - 1) : q[j] \in Range(queue)
    BY <1>1, <1>7 DEF Range
  <2>3. Range(q) = {q[j] : j \in 1..(Len(queue) - 1)}
    BY <1>4 DEF Range
  <2>4. Range(queue) = {queue[k] : k \in 1..Len(queue)}
    BY <1>1 DEF Range
  <2>5. queue[n] \in Range(queue)
    BY <2>4
  <2>6. Range(queue) \subseteq Range(q) \cup {queue[n]}
    BY <2>1, <2>4
  <2>7. Range(q) \cup {queue[n]} \subseteq Range(queue)
    BY <2>2, <2>3, <2>5
  <2> QED BY <2>6, <2>7
<1>9. queue[n] \notin Range(q)
  BY <1>1, <1>4, <1>7 DEF Range
<1>10. \A j, k \in 1..Len(q) : q[j] = q[k] => j = k
  <2> SUFFICES ASSUME NEW j \in 1..(Len(queue) - 1), NEW k \in 1..(Len(queue) - 1),
                      q[j] = q[k]
               PROVE  j = k
    BY <1>4
  <2> DEFINE at(m) == IF m < n THEN m ELSE m + 1
  <2>1. \A m \in 1..(Len(queue) - 1) : at(m) \in 1..Len(queue) /\ q[m] = queue[at(m)]
    BY <1>1, <1>5
  <2>2. at(j) = at(k)
    BY <2>1
  <2> QED BY <1>1, <2>2
<1> QED BY <1>4, <1>8, <1>9, <1>10 DEF q

-----------------------------------------------------------------------------
LEMMA InvInit == Init => Inv
<1> SUFFICES ASSUME Init PROVE Inv
  OBVIOUS
<1> USE DEF Init
<1>1. TypeOK
  <2>1. queue \in Seq(Items) /\ totalSize \in Nat /\ tokens \in 0..MaxBacklog
    BY PipeAssumption
  <2>2. closed \in BOOLEAN /\ cancelled \in BOOLEAN
    BY Zenon
  <2> QED BY <2>1, <2>2 DEF TypeOK
<1>2. OnePlace
  BY DEF OnePlace, Range
<1>3. Counts
  BY FS_EmptySet DEF Counts, Backing
<1>4. Ends
  BY DEF Ends
<1> QED BY <1>1, <1>2, <1>3, <1>4 DEF Inv

LEMMA EnqueueStep ==
  ASSUME Inv, NEW p \in Producers, NEW i \in Items, Enqueue(p, i)
  PROVE  Inv'
<1> USE DEF Inv, Enqueue
<1>1. /\ queue' \in Seq(Items) /\ Len(queue') = Len(queue) + 1
      /\ Range(queue') = Range(queue) \cup {i}
      /\ \A n \in 1..Len(queue) : queue'[n] = queue[n]
      /\ queue'[Len(queue) + 1] = i
  BY Appended DEF TypeOK
<1>2. TypeOK'
  <2>1. Counted(i) \in Nat
    BY PipeAssumption DEF Counted
  <2> QED BY <1>1, <2>1 DEF TypeOK
<1>3. OnePlace'
  <2>1. i \notin Range(queue) /\ i \notin given
    BY DEF OnePlace
  <2>2. \A n \in 1..Len(queue) : queue[n] # i
    BY <2>1 DEF Range, TypeOK
  <2>3. \A m, n \in 1..Len(queue') : queue'[m] = queue'[n] => m = n
    <3>1. 1..Len(queue') = 1..Len(queue) \cup {Len(queue) + 1}
      BY <1>1 DEF TypeOK
    <3> QED BY <1>1, <2>2, <3>1 DEF OnePlace
  <2> QED BY <1>1, <2>1, <2>3 DEF OnePlace
<1>4. Counts'
  <2>1. Cardinality(putting') = Cardinality(putting) + 1
    BY Sizes, FS_AddElement
  <2> QED BY <1>1, <2>1, Sizes DEF Counts, Backing
<1>5. Ends'
  BY DEF Ends
<1> QED BY <1>2, <1>3, <1>4, <1>5

\* Put sends its token, or is cancelled.
LEMMA PutStep ==
  ASSUME Inv, NEW p \in Producers, Send(p) \/ PutCancelled(p)
  PROVE  Inv'
<1> USE DEF Inv
<1>1. Cardinality(putting') = Cardinality(putting) - 1
  BY Sizes, FS_RemoveElement DEF Send, PutCancelled
<1>2. CASE Send(p)
  <2> USE <1>2 DEF Send
  <2>1. TypeOK'
    BY PipeAssumption DEF TypeOK
  <2>2. Counts'
    BY <1>1, Sizes DEF Counts, Backing
  <2>3. OnePlace' /\ Ends'
    BY DEF OnePlace, Ends
  <2> QED BY <2>1, <2>2, <2>3
<1>3. CASE PutCancelled(p)
  <2> USE <1>3 DEF PutCancelled
  <2>1. TypeOK'
    BY DEF TypeOK
  <2>2. Counts'
    BY <1>1, Sizes DEF Counts, Backing
  <2>3. OnePlace' /\ Ends'
    BY DEF OnePlace, Ends
  <2> QED BY <2>1, <2>2, <2>3
<1> QED BY <1>2, <1>3

LEMMA ReceiveStep ==
  ASSUME Inv, NEW c \in Consumers, Receive(c)
  PROVE  Inv'
<1> USE DEF Inv, Receive
<1>1. TypeOK'
  BY PipeAssumption DEF TypeOK
<1>2. Counts'
  <2>1. Cardinality(taking') = Cardinality(taking) + 1
    BY Sizes, FS_AddElement
  <2> QED BY <2>1, Sizes DEF Counts, Backing
<1>3. OnePlace' /\ Ends'
  BY Sizes DEF OnePlace, Ends
<1> QED BY <1>1, <1>2, <1>3

LEMMA TakeStep ==
  ASSUME Inv, NEW c \in Consumers, Take(c)
  PROVE  Inv'
<1> USE DEF Inv, Take
<1>1. PICK n \in 1..Len(queue) :
        /\ queue' = Without(n)
        /\ given' = given \cup {queue[n]}
        /\ totalSize' = IF totalSize - Counted(queue[n]) < 0 THEN 0
                        ELSE totalSize - Counted(queue[n])
  OBVIOUS
<1>2. /\ queue' \in Seq(Items) /\ Len(queue') = Len(queue) - 1
      /\ Range(queue) = Range(queue') \cup {queue[n]}
      /\ queue[n] \notin Range(queue')
      /\ \A j, k \in 1..Len(queue') : queue'[j] = queue'[k] => j = k
  <2>1. queue \in Seq(Items) /\ \A j, k \in 1..Len(queue) : queue[j] = queue[k] => j = k
    BY DEF TypeOK, OnePlace
  <2>2. /\ Without(n) \in Seq(Items) /\ Len(Without(n)) = Len(queue) - 1
        /\ Range(queue) = Range(Without(n)) \cup {queue[n]}
        /\ queue[n] \notin Range(Without(n))
        /\ \A j, k \in 1..Len(Without(n)) : Without(n)[j] = Without(n)[k] => j = k
    BY <2>1, Shorter
  <2>3. queue' = Without(n)
    BY <1>1
  <2> QED BY <2>2, <2>3
<1>3. queue[n] \in Items /\ queue[n] \in Range(queue)
  BY DEF TypeOK, Range
<1>4. TypeOK'
  <2>1. Counted(queue[n]) \in Nat
    BY <1>3, PipeAssumption DEF Counted
  <2>2. totalSize' \in Nat
    BY <1>1, <2>1 DEF TypeOK
  <2> QED BY <1>1, <1>2, <1>3, <2>2 DEF TypeOK
<1>5. OnePlace'
  BY <1>1, <1>2, <1>3 DEF OnePlace
<1>6. Counts'
  <2>1. Cardinality(taking') = Cardinality(taking) - 1
    BY Sizes, FS_RemoveElement
  <2> QED BY <1>2, <2>1, Sizes DEF Counts, Backing
<1>7. Ends'
  BY DEF Ends
<1> QED BY <1>4, <1>5, <1>6, <1>7

LEMMA LastSteps ==
  ASSUME Inv, (\E c \in Consumers : End(c)) \/ Close \/ Cancel
  PROVE  Inv'
<1> USE DEF Inv
<1>1. ASSUME NEW c \in Consumers, End(c) PROVE Inv'
  BY <1>1 DEF End, TypeOK, OnePlace, Counts, Backing, Ends
<1>2. CASE Close
  BY <1>2 DEF Close, TypeOK, OnePlace, Counts, Backing, Ends
<1>3. CASE Cancel
  BY <1>3 DEF Cancel, TypeOK, OnePlace, Counts, Backing, Ends
<1> QED BY <1>1, <1>2, <1>3

LEMMA InvNext == Inv /\ [Next]_vars => Inv'
<1> SUFFICES ASSUME Inv, [Next]_vars PROVE Inv'
  OBVIOUS
<1>1. ASSUME NEW p \in Producers, Put(p) PROVE Inv'
  BY <1>1, EnqueueStep, PutStep DEF Put
<1>2. ASSUME NEW c \in Consumers, GetMax(c) PROVE Inv'
  BY <1>2, ReceiveStep, TakeStep, LastSteps DEF GetMax
<1>3. CASE Close \/ Cancel
  BY <1>3, LastSteps
<1>4. CASE UNCHANGED vars
  BY <1>4 DEF vars, Inv, TypeOK, OnePlace, Counts, Backing, Ends
<1> QED BY <1>1, <1>2, <1>3, <1>4 DEF Next

LEMMA InvHolds == Spec => []Inv
<1> QED BY InvInit, InvNext, PTL DEF Spec

-----------------------------------------------------------------------------
\* The total is never negative and the channel never overfull, for all sizes,
\* orders and numbers of goroutines (pipe.go:90-155).
THEOREM TypeOKHolds == Spec => []TypeOK
<1>1. Inv => TypeOK
  BY DEF Inv
<1> QED BY <1>1, InvHolds, PTL

\* A consumer that has received a token finds a pair (pipe.go:129-144).
THEOREM TokenBackedHolds == Spec => []TokenBacked
<1>1. Inv => TokenBacked
  BY Sizes DEF Inv, TokenBacked, Counts, Backing
<1> QED BY <1>1, InvHolds, PTL

\* No pair is lost, doubled or handed out twice (pipe.go:94-100, 134-144).
THEOREM OnePlaceHolds == Spec => []OnePlace
<1>1. Inv => OnePlace
  BY DEF Inv
<1> QED BY <1>1, InvHolds, PTL

\* When the last consumer has ended every pair was handed out: at a close the
\* pairs still queued have their tokens in the channel (pipe.go:126-133).
THEOREM DrainedHolds == Spec => []Drained
<1>1. Inv => Drained
  <2> SUFFICES ASSUME Inv, closed, ~cancelled, ended = Consumers, Consumers # {}
               PROVE  given = Items
    BY DEF Drained
  <2> USE DEF Inv
  <2>1. toPut = {} /\ putting = {} /\ taking = {} /\ tokens = 0
    BY DEF Ends, TypeOK
  <2>2. Len(queue) = 0
    BY <2>1, FS_EmptySet DEF Counts, Backing
  <2>3. Range(queue) = {}
    BY <2>2 DEF Range, TypeOK
  <2> QED BY <2>1, <2>3 DEF OnePlace
<1> QED BY <1>1, InvHolds, PTL

-----------------------------------------------------------------------------
\* A set of numbers has a least one.
LEMMA NatMin ==
  ASSUME NEW T \in SUBSET Nat, T # {}
  PROVE  \E x \in T : \A y \in T : x <= y
<1> DEFINE R == {ss \in Nat \X Nat : ss[1] < ss[2]}
<1>1. IsWellFoundedOn(R, Nat)
  BY NatLessThanWellFounded DEF OpToRel
<1>2. \E x \in T : \A y \in T : <<y, x>> \notin R
  <2> HIDE DEF R
  <2> QED BY <1>1, WFMin
<1>3. \A x, y \in Nat : y < x => <<y, x>> \in R
  OBVIOUS
<1>4. \A x, y \in Nat : y < x \/ x <= y
  OBVIOUS
<1> HIDE DEF R
<1> QED BY <1>2, <1>3, <1>4

\* Induction, of which the property is a set.
LEMMA NatInd ==
  ASSUME NEW S \in SUBSET Nat, 0 \in S, \A n \in S : n + 1 \in S
  PROVE  S = Nat
<1> SUFFICES ASSUME Nat \ S # {} PROVE FALSE
  OBVIOUS
<1>1. PICK x \in Nat \ S : \A y \in Nat \ S : x <= y
  BY NatMin
<1>2. x # 0 /\ x - 1 \in Nat /\ ~(x <= x - 1)
  BY <1>1
<1>3. x - 1 \in S
  BY <1>1, <1>2
<1>4. (x - 1) + 1 = x
  BY <1>1
<1> QED BY <1>1, <1>3, <1>4

-----------------------------------------------------------------------------
(* The size of the backlog is a fold over the places of the queue, in an order
   of which nothing is known. *)

\* The fold as a function of the places that are counted: Partial is one round
\* of its recursion.
Pick(s) == CHOOSE x \in s : TRUE
Partial(q, it) ==
  [s \in SUBSET DOMAIN q |-> IF s = {} THEN 0
                             ELSE it[s \ {Pick(s)}] + Counted(q[Pick(s)])]
Backlog(q) == CHOOSE it : it = Partial(q, it)

\* It is the sum the property speaks of.
LEMMA BacklogIs ==
  ASSUME NEW q
  PROVE  FoldFunction(LAMBDA i, sum : sum + Counted(i), 0, q) = Backlog(q)[DOMAIN q]
BY DEF FoldFunction, FoldFunctionOnSet, MapThenFoldSet, Backlog, Partial, Pick

LEMMA Positions ==
  ASSUME NEW q \in Seq(Items)
  PROVE  /\ IsFiniteSet(DOMAIN q)
         /\ \A s \in SUBSET DOMAIN q :
              /\ IsFiniteSet(s) /\ Cardinality(s) \in Nat
              /\ Cardinality(s) <= Cardinality(DOMAIN q)
              /\ Cardinality(s) = 0 <=> s = {}
              /\ s # {} => Pick(s) \in s
              /\ \A x \in s : /\ s \ {x} \in SUBSET DOMAIN q
                              /\ Cardinality(s \ {x}) = Cardinality(s) - 1
                              /\ Counted(q[x]) \in Nat
<1>1. IsFiniteSet(DOMAIN q)
  <2>1. DOMAIN q = 1..Len(q) /\ Len(q) \in Nat
    OBVIOUS
  <2> QED BY <2>1, FS_Interval
<1>2. ASSUME NEW s \in SUBSET DOMAIN q
      PROVE  /\ IsFiniteSet(s) /\ Cardinality(s) \in Nat
              /\ Cardinality(s) <= Cardinality(DOMAIN q)
  BY <1>1, FS_Subset, FS_CardinalityType
<1>3. ASSUME NEW s \in SUBSET DOMAIN q
      PROVE  Cardinality(s) = 0 <=> s = {}
  BY <1>2, FS_EmptySet
<1>4. ASSUME NEW s \in SUBSET DOMAIN q, s # {}
      PROVE  Pick(s) \in s
  BY <1>4 DEF Pick
<1>5. ASSUME NEW s \in SUBSET DOMAIN q, NEW x \in s
      PROVE  Cardinality(s \ {x}) = Cardinality(s) - 1
  BY <1>2, FS_RemoveElement
<1>6. ASSUME NEW x \in DOMAIN q
      PROVE  Counted(q[x]) \in Nat
  <2>1. q[x] \in Items
    OBVIOUS
  <2> QED BY <2>1, PipeAssumption DEF Counted
<1> QED BY <1>1, <1>2, <1>3, <1>4, <1>5, <1>6

LEMMA PartialIs ==
  ASSUME NEW q, NEW it, NEW s \in SUBSET DOMAIN q
  PROVE  /\ s = {} => Partial(q, it)[s] = 0
         /\ s # {} => Partial(q, it)[s] = it[s \ {Pick(s)}] + Counted(q[Pick(s)])
BY DEF Partial

LEMMA PartialNone ==
  ASSUME NEW q, NEW it
  PROVE  Partial(q, it)[{}] = 0
<1>1. {} \in SUBSET DOMAIN q
  OBVIOUS
<1> QED BY <1>1 DEF Partial

\* What Positions says of the pair that is picked.
LEMMA Picked ==
  ASSUME NEW q \in Seq(Items), NEW s \in SUBSET DOMAIN q, s # {}
  PROVE  /\ s \ {Pick(s)} \in SUBSET DOMAIN q /\ Counted(q[Pick(s)]) \in Nat
         /\ Cardinality(s \ {Pick(s)}) = Cardinality(s) - 1
         /\ Cardinality(s) \in Nat /\ Pick(s) \in s
<1>1. Pick(s) \in s
  BY DEF Pick
<1> QED BY <1>1, Positions

\* The recursion has a solution: one that solves it for sets of n places gives
\* one for sets of n + 1.
LEMMA BacklogExists ==
  ASSUME NEW q \in Seq(Items)
  PROVE  /\ Backlog(q) = Partial(q, Backlog(q))
         /\ Backlog(q) \in [SUBSET DOMAIN q -> Nat]
<1> DEFINE To(n) == {it \in [SUBSET DOMAIN q -> Nat] :
                       \A s \in SUBSET DOMAIN q : Cardinality(s) <= n => it[s] = Partial(q, it)[s]}
           S == {n \in Nat : To(n) # {}}
<1>2. \A it \in [SUBSET DOMAIN q -> Nat] : Partial(q, it) \in [SUBSET DOMAIN q -> Nat]
  <2> TAKE it \in [SUBSET DOMAIN q -> Nat]
  <2>1. ASSUME NEW s \in SUBSET DOMAIN q PROVE Partial(q, it)[s] \in Nat
    <3>1. CASE s = {}
      BY <3>1, PartialNone
    <3>2. CASE s # {}
      <4>1. s \ {Pick(s)} \in SUBSET DOMAIN q /\ Counted(q[Pick(s)]) \in Nat
        BY <3>2, Picked
      <4>2. it[s \ {Pick(s)}] \in Nat
        BY <4>1
      <4>3. Partial(q, it)[s] = it[s \ {Pick(s)}] + Counted(q[Pick(s)])
        BY <3>2, PartialIs
      <4> QED BY <4>1, <4>2, <4>3
    <3> QED BY <3>1, <3>2
  <2>2. Partial(q, it) = [s \in SUBSET DOMAIN q |-> Partial(q, it)[s]]
    BY DEF Partial
  <2> QED BY <2>1, <2>2
<1>3. 0 \in S
  <2> DEFINE z == [s \in SUBSET DOMAIN q |-> 0]
  <2>1. z \in To(0)
    <3>1. \A s \in SUBSET DOMAIN q : Cardinality(s) <= 0 => s = {}
      BY Positions
    <3>2. z \in [SUBSET DOMAIN q -> Nat] /\ Partial(q, z)[{}] = 0
      BY PartialNone
    <3> QED BY <3>1, <3>2
  <2> QED BY <2>1
<1>4. ASSUME NEW n \in S PROVE n + 1 \in S
  <2>1. PICK it \in To(n) : TRUE
    OBVIOUS
  <2> DEFINE up == Partial(q, it)
  <2>2. up \in [SUBSET DOMAIN q -> Nat]
    BY <1>2
  <2>3. ASSUME NEW s \in SUBSET DOMAIN q, Cardinality(s) <= n + 1 PROVE up[s] = Partial(q, up)[s]
    <3>1. CASE s = {}
      BY <3>1, PartialNone
    <3>2. CASE s # {}
      <4>0. /\ s \ {Pick(s)} \in SUBSET DOMAIN q /\ Cardinality(s) \in Nat
            /\ Cardinality(s \ {Pick(s)}) = Cardinality(s) - 1
        BY <3>2, Picked
      <4>1. s \ {Pick(s)} \in SUBSET DOMAIN q /\ Cardinality(s \ {Pick(s)}) <= n
        BY <2>3, <4>0
      <4>2. it[s \ {Pick(s)}] = up[s \ {Pick(s)}]
        BY <4>1
      <4> HIDE DEF up
      <4>3. Partial(q, it)[s] = it[s \ {Pick(s)}] + Counted(q[Pick(s)])
        BY <3>2, PartialIs
      <4>4. Partial(q, up)[s] = up[s \ {Pick(s)}] + Counted(q[Pick(s)])
        BY <3>2, PartialIs
      <4> QED BY <4>2, <4>3, <4>4 DEF up
    <3> QED BY <3>1, <3>2
  <2> HIDE DEF up
  <2>4. up \in To(n + 1)
    BY <2>2, <2>3
  <2> QED BY <2>4
<1>5. S = Nat
  <2> HIDE DEF S
  <2>1. S \in SUBSET Nat
    BY DEF S
  <2> QED BY <1>3, <1>4, <2>1, NatInd
<1>6. PICK it \in To(Cardinality(DOMAIN q)) : TRUE
  <2>1. Cardinality(DOMAIN q) \in Nat
    BY Positions
  <2> QED BY <1>5, <2>1
<1>7. it = Partial(q, it)
  <2>1. \A s \in SUBSET DOMAIN q : it[s] = Partial(q, it)[s]
    BY Positions
  <2>2. it \in [SUBSET DOMAIN q -> Nat] /\ Partial(q, it) \in [SUBSET DOMAIN q -> Nat]
    BY <1>2
  <2> HIDE DEF To, S
  <2>3. it = [s \in SUBSET DOMAIN q |-> it[s]] /\ Partial(q, it) = [s \in SUBSET DOMAIN q |-> Partial(q, it)[s]]
    BY <2>2
  <2> QED BY <2>1, <2>3
<1>8. Backlog(q) = Partial(q, Backlog(q))
  <2> HIDE DEF To, S
  <2> QED BY <1>7 DEF Backlog
<1>9. Backlog(q) = [s \in SUBSET DOMAIN q |-> Backlog(q)[s]]
  BY <1>8 DEF Partial
<1> DEFINE b == Backlog(q)
           U == {n \in Nat : \A s \in SUBSET DOMAIN q : Cardinality(s) = n => b[s] \in Nat}
<1>10. ASSUME NEW s \in SUBSET DOMAIN q, s # {}
       PROVE  b[s] = b[s \ {Pick(s)}] + Counted(q[Pick(s)])
  BY <1>8, <1>10, PartialIs
<1>11. 0 \in U
  <2>1. \A s \in SUBSET DOMAIN q : Cardinality(s) = 0 => s = {}
    BY Positions
  <2>2. b[{}] = 0
    BY <1>8, PartialNone
  <2> HIDE DEF b
  <2>3. \A s \in SUBSET DOMAIN q : Cardinality(s) = 0 => b[s] \in Nat
    <3> TAKE s \in SUBSET DOMAIN q
    <3> HAVE Cardinality(s) = 0
    <3>1. s = {}
      BY <2>1
    <3> QED BY <2>2, <3>1
  <2> QED BY <2>3
<1> HIDE DEF b
<1>12. ASSUME NEW n \in U PROVE n + 1 \in U
  <2> SUFFICES ASSUME NEW s \in SUBSET DOMAIN q, Cardinality(s) = n + 1 PROVE b[s] \in Nat
    OBVIOUS
  <2>1. s # {}
    <3>1. n + 1 # 0
      OBVIOUS
    <3> QED BY <3>1, FS_EmptySet
  <2>2. /\ s \ {Pick(s)} \in SUBSET DOMAIN q /\ Counted(q[Pick(s)]) \in Nat
        /\ Cardinality(s \ {Pick(s)}) = Cardinality(s) - 1
    BY <2>1, Picked
  <2>4. Cardinality(s \ {Pick(s)}) = n
    BY <2>2
  <2>3. b[s \ {Pick(s)}] \in Nat
    BY <2>2, <2>4
  <2> QED BY <1>10, <2>1, <2>2, <2>3
<1>13. U = Nat
  <2> HIDE DEF U
  <2>1. U \in SUBSET Nat
    BY DEF U
  <2> QED BY <1>11, <1>12, <2>1, NatInd
<1>14. \A s \in SUBSET DOMAIN q : b[s] \in Nat
  BY <1>13, Positions
<1> QED BY <1>8, <1>9, <1>14 DEF b

LEMMA NoneBacklog ==
  ASSUME NEW q \in Seq(Items)
  PROVE  Backlog(q)[{}] = 0
<1>1. Partial(q, Backlog(q))[{}] = 0
  BY PartialNone
<1> QED BY <1>1, BacklogExists

LEMMA SomeBacklog ==
  ASSUME NEW q \in Seq(Items), NEW s \in SUBSET DOMAIN q, s # {}
  PROVE  Backlog(q)[s] = Backlog(q)[s \ {Pick(s)}] + Counted(q[Pick(s)])
<1>1. Partial(q, Backlog(q))[s] = Backlog(q)[s \ {Pick(s)}] + Counted(q[Pick(s)])
  BY PartialIs
<1> QED BY <1>1, BacklogExists

LEMMA BacklogType ==
  ASSUME NEW q \in Seq(Items), NEW s \in SUBSET DOMAIN q
  PROVE  Backlog(q)[s] \in Nat
BY BacklogExists

\* Any pair may be counted last.
LEMMA AnyOrder ==
  ASSUME NEW all \in Seq(Items), NEW some \in SUBSET DOMAIN all, NEW one \in some
  PROVE  Backlog(all)[some] = Backlog(all)[some \ {one}] + Counted(all[one])
<1> DEFINE Ok(r) == \A y \in r : Backlog(all)[r] = Backlog(all)[r \ {y}] + Counted(all[y])
           S == {n \in Nat : \A r \in SUBSET DOMAIN all : Cardinality(r) = n => Ok(r)}
<1>1. 0 \in S
  <2>1. \A r \in SUBSET DOMAIN all : Cardinality(r) = 0 => r = {}
    BY Positions
  <2> QED BY <2>1
<1>2. ASSUME NEW n \in S PROVE n + 1 \in S
  <2> SUFFICES ASSUME NEW r \in SUBSET DOMAIN all, Cardinality(r) = n + 1, NEW y \in r
               PROVE  Backlog(all)[r] = Backlog(all)[r \ {y}] + Counted(all[y])
    OBVIOUS
  <2> DEFINE z == Pick(r)
             both == r \ {y, z}
  <2>1. z \in r /\ Backlog(all)[r] = Backlog(all)[r \ {z}] + Counted(all[z])
    BY Picked, SomeBacklog
  <2>2. CASE y = z
    BY <2>1, <2>2
  <2>3. CASE y # z
    <3> HIDE DEF z
    <3>1. /\ r \ {y} \in SUBSET DOMAIN all /\ r \ {z} \in SUBSET DOMAIN all /\ both \in SUBSET DOMAIN all
          /\ z \in r \ {y} /\ y \in r \ {z}
          /\ (r \ {y}) \ {z} = both /\ (r \ {z}) \ {y} = both
      BY <2>1, <2>3
    <3>2. Cardinality(r \ {y}) = n /\ Cardinality(r \ {z}) = n
      <4>1. Cardinality(r \ {y}) = Cardinality(r) - 1 /\ Cardinality(r \ {z}) = Cardinality(r) - 1
        BY <2>1, Positions
      <4> QED BY <4>1
    <3>3. Ok(r \ {y}) /\ Ok(r \ {z})
      BY <3>1, <3>2
    <3> HIDE DEF both
    <3>4. /\ Backlog(all)[r \ {y}] = Backlog(all)[both] + Counted(all[z])
          /\ Backlog(all)[r \ {z}] = Backlog(all)[both] + Counted(all[y])
      BY <3>1, <3>3
    <3>5. Backlog(all)[both] \in Nat /\ Counted(all[y]) \in Nat /\ Counted(all[z]) \in Nat
      <4>1. Backlog(all)[both] \in Nat
        BY <3>1, BacklogType
      <4>2. Counted(all[y]) \in Nat /\ Counted(all[z]) \in Nat
        BY <2>1, Positions
      <4> QED BY <4>1, <4>2
    <3> QED BY <2>1, <3>4, <3>5
  <2> QED BY <2>2, <2>3
<1>3. S = Nat
  <2> HIDE DEF S
  <2>1. S \in SUBSET Nat
    BY DEF S
  <2> QED BY <1>1, <1>2, <2>1, NatInd
<1>4. Ok(some)
  BY <1>3, Positions
<1> QED BY <1>4

\* A queue that holds some of another's pairs has the backlog of these.
LEMMA SameBacklog ==
  ASSUME NEW whole \in Seq(Items), NEW part \in Seq(Items), NEW h \in [DOMAIN part -> DOMAIN whole],
         \A j, k \in DOMAIN part : h[j] = h[k] => j = k,
         \A k \in DOMAIN part : part[k] = whole[h[k]],
         NEW T \in SUBSET DOMAIN whole, \A k \in DOMAIN part : h[k] \in T,
         \A t \in T : \E k \in DOMAIN part : h[k] = t
  PROVE  Backlog(part)[DOMAIN part] = Backlog(whole)[T]
<1> DEFINE At(s) == {h[k] : k \in s}
           S == {n \in Nat : \A s \in SUBSET DOMAIN part :
                   Cardinality(s) = n => Backlog(part)[s] = Backlog(whole)[At(s)]}
<1>1. 0 \in S
  <2> SUFFICES ASSUME NEW s \in SUBSET DOMAIN part, Cardinality(s) = 0
               PROVE  Backlog(part)[s] = Backlog(whole)[At(s)]
    OBVIOUS
  <2>1. s = {} /\ At(s) = {}
    BY Positions
  <2> HIDE DEF At
  <2> QED BY <2>1, NoneBacklog
<1>2. ASSUME NEW n \in S PROVE n + 1 \in S
  <2> HIDE DEF At
  <2> SUFFICES ASSUME NEW s \in SUBSET DOMAIN part, Cardinality(s) = n + 1
               PROVE  Backlog(part)[s] = Backlog(whole)[At(s)]
    OBVIOUS
  <2> USE DEF At
  <2>1. s # {}
    <3>1. n + 1 # 0
      OBVIOUS
    <3> QED BY <3>1, FS_EmptySet
  <2> DEFINE z == Pick(s)
  <2>2. z \in s /\ s \ {z} \in SUBSET DOMAIN part /\ Cardinality(s \ {z}) = Cardinality(s) - 1
    BY <2>1, Picked
  <2>3. Cardinality(s \ {z}) = n
    BY <2>2
  <2>4. Backlog(part)[s] = Backlog(part)[s \ {z}] + Counted(part[z])
    BY <2>1, SomeBacklog
  <2> HIDE DEF z
  <2>5. Backlog(part)[s \ {z}] = Backlog(whole)[At(s \ {z})]
    BY <2>2, <2>3
  <2>6. At(s) \in SUBSET DOMAIN whole /\ h[z] \in At(s) /\ At(s \ {z}) = At(s) \ {h[z]}
    <3>1. At(s) \in SUBSET DOMAIN whole /\ h[z] \in At(s)
      BY <2>2
    <3>2. \A k \in s : h[k] = h[z] => k = z
      BY <2>2
    <3>3. At(s \ {z}) \subseteq At(s) \ {h[z]}
      BY <3>2
    <3>4. At(s) \ {h[z]} \subseteq At(s \ {z})
      OBVIOUS
    <3> QED BY <3>1, <3>3, <3>4
  <2> HIDE DEF At
  <2>7. Backlog(whole)[At(s)] = Backlog(whole)[At(s) \ {h[z]}] + Counted(whole[h[z]])
    <3> DEFINE w == At(s)
               x == h[z]
    <3>1. w \in SUBSET DOMAIN whole /\ x \in w
      BY <2>6
    <3>3. whole \in Seq(Items)
      OBVIOUS
    <3> HIDE DEF w, x, S
    <3>2. Backlog(whole)[w] = Backlog(whole)[w \ {x}] + Counted(whole[x])
      BY ONLY <3>1, <3>3, AnyOrder
    <3> QED BY <3>2 DEF w, x
  <2>8. part[z] = whole[h[z]]
    BY <2>2
  <2> QED BY <2>4, <2>5, <2>6, <2>7, <2>8
<1>3. S = Nat
  <2> HIDE DEF S
  <2>1. S \in SUBSET Nat
    BY DEF S
  <2> QED BY <1>1, <1>2, <2>1, NatInd
<1>4. Cardinality(DOMAIN part) \in Nat
  BY Positions
<1>5. Backlog(part)[DOMAIN part] = Backlog(whole)[At(DOMAIN part)]
  BY <1>3, <1>4
<1>6. At(DOMAIN part) = T
  OBVIOUS
<1> QED BY <1>5, <1>6

LEMMA BacklogAppended ==
  ASSUME NEW q \in Seq(Items), NEW i \in Items
  PROVE  Backlog(Append(q, i))[DOMAIN Append(q, i)] = Backlog(q)[DOMAIN q] + Counted(i)
<1> DEFINE a == Append(q, i)
           h == [k \in DOMAIN q |-> k]
<1>1. /\ a \in Seq(Items) /\ DOMAIN a = 1..(Len(q) + 1) /\ DOMAIN q = 1..Len(q)
      /\ \A k \in 1..Len(q) : a[k] = q[k]
      /\ a[Len(q) + 1] = i /\ Len(q) \in Nat
  BY Appended
<1> HIDE DEF a
<1>2. h \in [DOMAIN q -> DOMAIN a] /\ DOMAIN q \in SUBSET DOMAIN a
  BY <1>1
<1>3. Backlog(q)[DOMAIN q] = Backlog(a)[DOMAIN q]
  <2>1. \A j, k \in DOMAIN q : h[j] = h[k] => j = k
    OBVIOUS
  <2>2. \A k \in DOMAIN q : q[k] = a[h[k]]
    BY <1>1
  <2> DEFINE T == DOMAIN q
  <2>3. T \in SUBSET DOMAIN a /\ \A k \in DOMAIN q : h[k] \in T
    BY <1>2
  <2>4. \A t \in T : \E k \in DOMAIN q : h[k] = t
    OBVIOUS
  <2>5. q \in Seq(Items) /\ a \in Seq(Items) /\ h \in [DOMAIN q -> DOMAIN a]
    BY <1>1, <1>2
  <2> HIDE DEF h, T
  <2>6. Backlog(q)[DOMAIN q] = Backlog(a)[T]
    BY ONLY <2>5, <2>1, <2>2, <2>3, <2>4, SameBacklog
  <2> QED BY <2>6 DEF T
<1>4. Len(q) + 1 \in DOMAIN a /\ DOMAIN a \ {Len(q) + 1} = DOMAIN q
  BY <1>1
<1>5. Backlog(a)[DOMAIN a] = Backlog(a)[DOMAIN q] + Counted(a[Len(q) + 1])
  BY <1>1, <1>4, AnyOrder
<1>7. Backlog(a)[DOMAIN a] = Backlog(q)[DOMAIN q] + Counted(i)
  BY <1>1, <1>3, <1>5
<1> QED BY <1>7 DEF a

LEMMA BacklogShorter ==
  ASSUME queue \in Seq(Items), NEW n \in 1..Len(queue), Without(n) \in Seq(Items)
  PROVE  Backlog(queue)[DOMAIN queue]
           = Backlog(Without(n))[DOMAIN Without(n)] + Counted(queue[n])
<1> DEFINE r == Without(n)
           h == [k \in DOMAIN r |-> IF k < n THEN k ELSE k + 1]
<1>1. /\ Len(queue) \in Nat /\ DOMAIN queue = 1..Len(queue) /\ n \in DOMAIN queue
      /\ DOMAIN r = 1..(Len(queue) - 1)
      /\ \A k \in DOMAIN r : r[k] = IF k < n THEN queue[k] ELSE queue[k + 1]
  BY DEF Without
<1>2. r \in Seq(Items)
  OBVIOUS
<1> HIDE DEF r
<1>3. \A k \in DOMAIN r : h[k] = (IF k < n THEN k ELSE k + 1) /\ h[k] \in DOMAIN queue \ {n}
  BY <1>1
<1>4. \A k \in DOMAIN queue \ {n} : \E j \in DOMAIN r : h[j] = k
  <2> TAKE k \in DOMAIN queue \ {n}
  <2>1. CASE k < n
    <3>1. k \in DOMAIN r /\ h[k] = k
      BY <1>1, <2>1
    <3> QED BY <3>1
  <2>2. CASE k > n
    <3>1. k - 1 \in DOMAIN r /\ ~(k - 1 < n) /\ (k - 1) + 1 = k
      BY <1>1, <2>2
    <3>2. h[k - 1] = k
      BY <3>1
    <3> QED BY <3>1, <3>2
  <2> QED BY <1>1, <2>1, <2>2
<1>5. \A j, k \in DOMAIN r : h[j] = h[k] => j = k
  BY <1>1, <1>3
<1>6. \A k \in DOMAIN r : r[k] = queue[h[k]]
  BY <1>1, <1>3
<1>7. h \in [DOMAIN r -> DOMAIN queue]
  BY <1>3
<1> HIDE DEF h
<1>8. DOMAIN queue \ {n} \in SUBSET DOMAIN queue /\ \A k \in DOMAIN r : h[k] \in DOMAIN queue \ {n}
  BY <1>3
<1>9. Backlog(r)[DOMAIN r] = Backlog(queue)[DOMAIN queue \ {n}]
  BY <1>2, <1>4, <1>5, <1>6, <1>7, <1>8, SameBacklog
<1>10. Backlog(queue)[DOMAIN queue] = Backlog(queue)[DOMAIN queue \ {n}] + Counted(queue[n])
  BY <1>1, AnyOrder
<1> QED BY <1>9, <1>10 DEF r

-----------------------------------------------------------------------------
LEMMA BacklogInit == Init => SizeOfBacklog
<1> SUFFICES ASSUME Init PROVE SizeOfBacklog
  OBVIOUS
<1>1. queue = <<>> /\ totalSize = 0
  BY DEF Init
<1>2. queue \in Seq(Items) /\ DOMAIN queue = {}
  BY <1>1
<1>3. Backlog(queue)[DOMAIN queue] = 0
  BY <1>2, NoneBacklog
<1>4. FoldFunction(LAMBDA i, sum : sum + Counted(i), 0, queue) = 0
  BY <1>3, BacklogIs
<1> QED BY <1>1, <1>4 DEF SizeOfBacklog

LEMMA BacklogTotal ==
  SizeOfBacklog <=> totalSize = Backlog(queue)[DOMAIN queue]
BY BacklogIs DEF SizeOfBacklog

LEMMA BacklogTotalNext ==
  SizeOfBacklog' <=> (totalSize = Backlog(queue)[DOMAIN queue])'
BY BacklogTotal, PTL

\* The cut at zero never takes anything off.
LEMMA BacklogStep ==
  ASSUME Inv, SizeOfBacklog, [Next]_vars
  PROVE  SizeOfBacklog'
<1> USE DEF Inv
<1>1. totalSize = Backlog(queue)[DOMAIN queue] /\ queue \in Seq(Items)
  BY BacklogTotal DEF TypeOK
<1>2. ASSUME NEW p \in Producers, NEW i \in Items, Enqueue(p, i)
      PROVE  totalSize' = Backlog(queue')[DOMAIN queue']
  <2>1. queue' = Append(queue, i) /\ totalSize' = totalSize + Counted(i)
    BY <1>2 DEF Enqueue
  <2>2. Backlog(Append(queue, i))[DOMAIN Append(queue, i)]
          = Backlog(queue)[DOMAIN queue] + Counted(i)
    BY <1>1, BacklogAppended
  <2> QED BY <1>1, <2>1, <2>2
<1>3. ASSUME NEW c \in Consumers, Take(c)
      PROVE  totalSize' = Backlog(queue')[DOMAIN queue']
  <2>1. PICK n \in 1..Len(queue) :
          /\ queue' = Without(n)
          /\ totalSize' = IF totalSize - Counted(queue[n]) < 0 THEN 0
                          ELSE totalSize - Counted(queue[n])
    BY <1>3 DEF Take
  <2>2. \A j, k \in 1..Len(queue) : queue[j] = queue[k] => j = k
    BY DEF OnePlace
  <2>3. Without(n) \in Seq(Items)
    BY <1>1, <2>2, Shorter
  <2>4. totalSize = Backlog(Without(n))[DOMAIN Without(n)] + Counted(queue[n])
    BY <1>1, <2>3, BacklogShorter
  <2>5. Backlog(Without(n))[DOMAIN Without(n)] \in Nat /\ Counted(queue[n]) \in Nat
    <3>1. Backlog(Without(n))[DOMAIN Without(n)] \in Nat
      BY <2>3, BacklogType
    <3>2. n \in DOMAIN queue
      BY <1>1
    <3>3. Counted(queue[n]) \in Nat
      BY <1>1, <3>2, Positions
    <3> QED BY <3>1, <3>3
  <2>6. totalSize' = Backlog(Without(n))[DOMAIN Without(n)]
    BY <2>1, <2>4, <2>5
  <2> QED BY <2>1, <2>6
<1>4. ASSUME UNCHANGED <<queue, totalSize>>
      PROVE  totalSize' = Backlog(queue')[DOMAIN queue']
  BY <1>1, <1>4
<1>5. \/ \E p \in Producers, i \in Items : Enqueue(p, i)
      \/ \E c \in Consumers : Take(c)
      \/ UNCHANGED <<queue, totalSize>>
  BY DEF Next, Put, GetMax, Send, PutCancelled, Receive, End, Close, Cancel, vars
<1>6. totalSize' = Backlog(queue')[DOMAIN queue']
  BY <1>2, <1>3, <1>4, <1>5, Zenon
<1> QED BY <1>6, BacklogTotalNext

\* The size reported for the backlog is that of the pairs in the queue; the
\* subtraction is never cut off at zero (pipe.go:101-105, 145-152).
THEOREM SizeOfBacklogHolds == Spec => []SizeOfBacklog
<1>1. Inv /\ SizeOfBacklog /\ [Next]_vars => SizeOfBacklog'
  BY BacklogStep
<1> QED BY <1>1, BacklogInit, InvHolds, PTL DEF Spec
=============================================================================

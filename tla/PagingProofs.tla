---------------------------- MODULE PagingProofs -----------------------------
(* Whatever page limits the server reports and however much it overcounts, a
   listing call skips nothing while nothing is removed, and loads nothing twice
   while nothing is inserted. *)
EXTENDS Paging, FiniteSetTheorems, TLAPS

Types ==
  /\ listing \in Seq(Items) /\ data \in Seq(Items)
  /\ fresh \subseteq Items
  /\ total \in Nat /\ limit \in Nat
  /\ pc \in {"first", "more", "done", "failed"}
  /\ edits \subseteq {"insert", "remove"}
  /\ pc = "first" => data = <<>>

\* What stays listed is listed, and what nobody was told of is not.
Known ==
  /\ kept \subseteq ToSet(listing)
  /\ fresh \cap ToSet(listing) = {} /\ fresh \cap ToSet(data) = {}

\* What is not loaded yet is listed behind the offset of the next page.
Ahead ==
  "remove" \notin edits =>
    \A x \in kept \ ToSet(data) : \E i \in 1..Len(listing) : i > Len(data) /\ listing[i] = x

\* Nothing behind that offset is loaded, or listed twice.
Apart ==
  "insert" \notin edits =>
    /\ \A i, j \in 1..Len(listing) : listing[i] = listing[j] => i = j
    /\ \A i, j \in 1..Len(data) : data[i] = data[j] => i = j
    /\ \A i \in 1..Len(listing), j \in 1..Len(data) : i > Len(data) => listing[i] # data[j]

Inv == Types /\ Known /\ Ahead /\ Apart /\ NothingSkipped

-----------------------------------------------------------------------------
(* The sequences that a listing is cut and put together to. *)

LEMMA InSet ==
  ASSUME NEW S, NEW s \in Seq(S)
  PROVE  ToSet(s) = {s[i] : i \in 1..Len(s)} /\ ToSet(s) \subseteq S
BY DEF ToSet

LEMMA PageIs ==
  ASSUME listing \in Seq(Items), NEW o \in Nat, NEW n \in Nat \ {0}
  PROVE  /\ Page(o, n) \in Seq(Items)
         /\ Len(Page(o, n)) = IF o >= Len(listing) THEN 0
                              ELSE IF o + n <= Len(listing) THEN n ELSE Len(listing) - o
         /\ \A i \in 1..Len(Page(o, n)) : Page(o, n)[i] = listing[o + i]
BY DEF Page, Least

LEMMA Joined ==
  ASSUME NEW s \in Seq(Items), NEW t \in Seq(Items)
  PROVE  /\ s \o t \in Seq(Items) /\ Len(s \o t) = Len(s) + Len(t)
         /\ \A i \in 1..Len(s) : (s \o t)[i] = s[i]
         /\ \A i \in 1..Len(t) : (s \o t)[Len(s) + i] = t[i]
OBVIOUS

LEMMA Inserted ==
  ASSUME NEW s \in Seq(Items), NEW i \in 1..Len(s) + 1, NEW x \in Items
  PROVE  /\ InsertAt(s, i, x) \in Seq(Items) /\ Len(InsertAt(s, i, x)) = Len(s) + 1
         /\ \A k \in 1..(i - 1) : InsertAt(s, i, x)[k] = s[k]
         /\ InsertAt(s, i, x)[i] = x
         /\ \A k \in i..Len(s) : InsertAt(s, i, x)[k + 1] = s[k]
<1> DEFINE a == SubSeq(s, 1, i - 1)
           c == a \o <<x>>
           b == SubSeq(s, i, Len(s))
<1>1. /\ a \in Seq(Items) /\ Len(a) = i - 1
      /\ \A k \in 1..(i - 1) : a[k] = s[k]
  OBVIOUS
<1>2. /\ b \in Seq(Items) /\ Len(b) = Len(s) - i + 1
      /\ \A k \in 1..(Len(s) - i + 1) : b[k] = s[i + k - 1]
  OBVIOUS
<1>3. InsertAt(s, i, x) = c \o b
  BY DEF InsertAt
<1> HIDE DEF a, b
<1>4. /\ c \in Seq(Items) /\ Len(c) = i
      /\ \A k \in 1..(i - 1) : c[k] = s[k]
      /\ c[i] = x
  BY <1>1
<1> HIDE DEF c
<1>5. /\ c \o b \in Seq(Items) /\ Len(c \o b) = Len(s) + 1
      /\ \A k \in 1..i : (c \o b)[k] = c[k]
      /\ \A k \in 1..Len(b) : (c \o b)[i + k] = b[k]
  <2>1. /\ c \o b \in Seq(Items) /\ Len(c \o b) = Len(c) + Len(b)
        /\ \A k \in 1..Len(c) : (c \o b)[k] = c[k]
        /\ \A k \in 1..Len(b) : (c \o b)[Len(c) + k] = b[k]
    BY <1>2, <1>4, Joined
  <2> QED BY <2>1, <1>2, <1>4
<1>6. ASSUME NEW k \in i..Len(s)
      PROVE  (c \o b)[k + 1] = s[k]
  <2> DEFINE m == k - i + 1
  <2>1. m \in 1..Len(b) /\ m \in 1..(Len(s) - i + 1) /\ i + m = k + 1 /\ i + m - 1 = k
    BY <1>2
  <2>2. (c \o b)[i + m] = b[m] /\ b[m] = s[i + m - 1]
    BY <2>1, <1>2, <1>5
  <2> QED BY <2>1, <2>2
<1>7. \A k \in 1..(i - 1) : k \in 1..i
  OBVIOUS
<1>8. i \in 1..i
  OBVIOUS
<1> QED BY <1>3, <1>4, <1>5, <1>6, <1>7, <1>8

LEMMA Shortened ==
  ASSUME NEW s \in Seq(Items), NEW i \in 1..Len(s)
  PROVE  /\ RemoveAt(s, i) \in Seq(Items) /\ Len(RemoveAt(s, i)) = Len(s) - 1
         /\ \A k \in 1..(i - 1) : RemoveAt(s, i)[k] = s[k]
         /\ \A k \in i..(Len(s) - 1) : RemoveAt(s, i)[k] = s[k + 1]
<1> DEFINE a == SubSeq(s, 1, i - 1)
           b == SubSeq(s, i + 1, Len(s))
<1>1. /\ a \in Seq(Items) /\ Len(a) = i - 1
      /\ \A k \in 1..(i - 1) : a[k] = s[k]
  OBVIOUS
<1>2. /\ b \in Seq(Items) /\ Len(b) = Len(s) - i
      /\ \A k \in 1..(Len(s) - i) : b[k] = s[i + k]
  OBVIOUS
<1>3. RemoveAt(s, i) = a \o b
  BY DEF RemoveAt
<1> HIDE DEF a, b
<1>4. /\ a \o b \in Seq(Items) /\ Len(a \o b) = Len(s) - 1
      /\ \A k \in 1..(i - 1) : (a \o b)[k] = a[k]
      /\ \A k \in 1..(Len(s) - i) : (a \o b)[i - 1 + k] = b[k]
  <2>1. /\ a \o b \in Seq(Items) /\ Len(a \o b) = Len(a) + Len(b)
        /\ \A k \in 1..Len(a) : (a \o b)[k] = a[k]
        /\ \A k \in 1..Len(b) : (a \o b)[Len(a) + k] = b[k]
    BY <1>1, <1>2, Joined
  <2>2. Len(a) = i - 1 /\ Len(b) = Len(s) - i /\ i - 1 + (Len(s) - i) = Len(s) - 1
    BY <1>1, <1>2
  <2>3. Len(a \o b) = i - 1 + (Len(s) - i)
    BY <2>1, <2>2
  <2> QED BY <2>1, <2>2, <2>3
<1>5. ASSUME NEW k \in i..(Len(s) - 1)
      PROVE  (a \o b)[k] = s[k + 1]
  <2> DEFINE m == k - i + 1
  <2>1. m \in 1..(Len(s) - i) /\ i - 1 + m = k /\ i + m = k + 1
    OBVIOUS
  <2>2. (a \o b)[i - 1 + m] = b[m] /\ b[m] = s[i + m]
    BY <2>1, <1>2, <1>4
  <2>3. i - 1 + m = k /\ i + m = k + 1
    BY <2>1
  <2> HIDE DEF m
  <2> QED BY <2>2, <2>3
<1> QED BY <1>1, <1>3, <1>4, <1>5

-----------------------------------------------------------------------------
LEMMA Initially == Init => Inv
<1> SUFFICES ASSUME Init PROVE Inv
  OBVIOUS
<1>1. listing \in Seq(Items)
  <2>1. Cardinality(Items) \in Nat
    BY LimitsAssumption, FS_CardinalityType
  <2>2. PICK m \in 0..Cardinality(Items) : listing \in [1..m -> Items]
    BY DEF Init, SeqOf
  <2> QED BY <2>1, <2>2
<1>2. Types
  BY <1>1 DEF Types, Init
<1>3. Known
  BY <1>1, InSet DEF Known, Init, ToSet
<1>4. Ahead
  BY <1>1, InSet DEF Ahead, Init
<1>5. Apart
  BY <1>1 DEF Apart, Init, IsInjective
<1> QED BY <1>2, <1>3, <1>4, <1>5 DEF Inv, NothingSkipped, Init

\* A page is asked for with a limit.
LEMMA Asked ==
  ASSUME Types
  PROVE  Least(nextPageLimit(limit, Len(data)), MaxLimit) \in Nat \ {0}
BY LimitsAssumption DEF Types, Least, nextPageLimit

\* What a page that is merged keeps, the first one or a later one.
LEMMA Merged ==
  ASSUME Inv, NEW n \in Nat \ {0}, NEW extra \in Nat,
         data' = data \o Page(Len(data), n), total' = Len(listing) + extra,
         limit' \in {n, 0}, pc' = IF More(data', total') THEN "more" ELSE "done",
         UNCHANGED server
  PROVE  Inv'
<1> DEFINE p == Page(Len(data), n)
<1>1. listing \in Seq(Items) /\ data \in Seq(Items) /\ Len(data) \in Nat /\ Len(listing) \in Nat
  BY DEF Inv, Types
<1>2. /\ p \in Seq(Items)
      /\ Len(p) = IF Len(data) >= Len(listing) THEN 0
                  ELSE IF Len(data) + n <= Len(listing) THEN n ELSE Len(listing) - Len(data)
      /\ \A i \in 1..Len(p) : p[i] = listing[Len(data) + i]
  BY <1>1, PageIs
<1> HIDE DEF p
<1>3. /\ data' \in Seq(Items) /\ Len(data') = Len(data) + Len(p)
      /\ \A i \in 1..Len(data) : data'[i] = data[i]
      /\ \A i \in 1..Len(p) : data'[Len(data) + i] = p[i]
  <2>1. data' = data \o p
    BY DEF p
  <2>2. /\ data \o p \in Seq(Items) /\ Len(data \o p) = Len(data) + Len(p)
        /\ \A i \in 1..Len(data) : (data \o p)[i] = data[i]
        /\ \A i \in 1..Len(p) : (data \o p)[Len(data) + i] = p[i]
    BY <1>1, <1>2, Joined
  <2> QED BY <2>1, <2>2
<1>4. /\ Len(p) \in Nat /\ Len(data') \in Nat
      /\ Len(data') >= Len(data)
      /\ Len(data') > Len(data) => Len(data') <= Len(listing)
  <2>1. Len(p) \in Nat /\ Len(data') = Len(data) + Len(p)
    BY <1>2, <1>3
  <2>2. Len(p) > 0 => Len(data) + Len(p) <= Len(listing)
    BY <1>1, <1>2
  <2> QED BY <2>1, <2>2, <1>1
<1>5. \A i \in 1..Len(data') : i \in 1..Len(data) \/ i - Len(data) \in 1..Len(p)
  BY <1>1, <1>3, <1>4
<1>6. \A i \in 1..Len(data') : i > Len(data) => data'[i] = listing[i]
  <2> SUFFICES ASSUME NEW i \in 1..Len(data'), i > Len(data) PROVE data'[i] = listing[i]
    OBVIOUS
  <2>1. i - Len(data) \in 1..Len(p) /\ Len(data) + (i - Len(data)) = i
    BY <1>1, <1>5
  <2> QED BY <2>1, <1>2, <1>3
<1>7. server' = server /\ listing' = listing /\ fresh' = fresh /\ kept' = kept /\ edits' = edits
  BY DEF server
<1>8. Types'
  BY <1>1, <1>3, <1>7 DEF Inv, Types, More
<1>9. ToSet(data) \subseteq ToSet(data') /\ ToSet(data') \subseteq ToSet(data) \cup ToSet(listing)
  <2>1. /\ ToSet(data) = {data[i] : i \in 1..Len(data)}
        /\ ToSet(data') = {data'[i] : i \in 1..Len(data')}
        /\ ToSet(listing) = {listing[i] : i \in 1..Len(listing)}
    <3>1. \A s \in Seq(Items) : ToSet(s) = {s[i] : i \in 1..Len(s)}
      BY InSet
    <3> QED BY <3>1, <1>1, <1>3
  <2>2. 1..Len(data) \subseteq 1..Len(data')
    BY <1>1, <1>3, <1>4
  <2>3. \A i \in 1..Len(data') : i > Len(data) => i \in 1..Len(listing)
    BY <1>1, <1>3, <1>4
  <2>4. \A i \in 1..Len(data) : data[i] \in ToSet(data')
    BY <1>3, <2>1, <2>2
  <2>5. \A i \in 1..Len(data') : data'[i] \in ToSet(data) \cup ToSet(listing)
    <3> SUFFICES ASSUME NEW i \in 1..Len(data') PROVE data'[i] \in ToSet(data) \cup ToSet(listing)
      OBVIOUS
    <3>1. CASE i > Len(data)
      BY <3>1, <1>6, <2>1, <2>3
    <3>2. CASE i <= Len(data)
      BY <3>2, <1>1, <1>3, <2>1
    <3> QED BY <3>1, <3>2, <1>1
  <2> QED BY <2>1, <2>4, <2>5
<1>10. Known'
  BY <1>7, <1>9 DEF Inv, Known
<1>11. Ahead'
  <2> SUFFICES ASSUME "remove" \notin edits, NEW x \in kept, x \notin ToSet(data')
               PROVE  \E i \in 1..Len(listing) : i > Len(data') /\ listing[i] = x
    BY <1>7 DEF Ahead
  <2>1. PICK i \in 1..Len(listing) : i > Len(data) /\ listing[i] = x
    BY <1>9 DEF Inv, Ahead
  <2>2. i \notin 1..Len(data')
    <3>1. \A k \in 1..Len(data') : data'[k] \in ToSet(data')
      <4>1. \A s \in Seq(Items) : \A k \in 1..Len(s) : s[k] \in ToSet(s)
        BY DEF ToSet
      <4> QED BY <4>1, <1>3
    <3> QED BY <3>1, <1>6, <2>1
  <2> QED BY <1>4, <2>1, <2>2
<1>12. Apart'
  <2> SUFFICES ASSUME "insert" \notin edits PROVE Apart'
    BY <1>7 DEF Apart
  <2>1. /\ \A i, j \in 1..Len(listing) : listing[i] = listing[j] => i = j
        /\ \A i, j \in 1..Len(data) : data[i] = data[j] => i = j
        /\ \A i \in 1..Len(listing), j \in 1..Len(data) : i > Len(data) => listing[i] # data[j]
    BY DEF Inv, Apart
  <2>2. \A i \in 1..Len(data') : /\ i <= Len(data) => i \in 1..Len(data)
                                 /\ i > Len(data) => i \in 1..Len(listing)
    BY <1>1, <1>3, <1>4
  <2>3. ASSUME NEW i \in 1..Len(data'), NEW j \in 1..Len(data'), data'[i] = data'[j] PROVE i = j
    <3>1. CASE i <= Len(data) /\ j <= Len(data)
      BY <3>1, <2>1, <2>2, <2>3, <1>3
    <3>2. CASE i > Len(data) /\ j <= Len(data)
      BY <3>2, <2>1, <2>2, <2>3, <1>3, <1>6
    <3>3. CASE i <= Len(data) /\ j > Len(data)
      BY <3>3, <2>1, <2>2, <2>3, <1>3, <1>6
    <3>4. CASE i > Len(data) /\ j > Len(data)
      BY <3>4, <2>1, <2>2, <2>3, <1>6
    <3> QED BY <3>1, <3>2, <3>3, <3>4, <1>1, <1>3
  <2>4. ASSUME NEW i \in 1..Len(listing), NEW j \in 1..Len(data'), i > Len(data')
        PROVE  listing[i] # data'[j]
    <3>1. CASE j <= Len(data)
      BY <3>1, <2>1, <2>2, <2>4, <1>1, <1>3, <1>4
    <3>2. CASE j > Len(data)
      BY <3>2, <2>1, <2>2, <2>4, <1>1, <1>3, <1>4, <1>6
    <3> QED BY <3>1, <3>2, <1>1, <1>3
  <2> QED BY <1>7, <2>1, <2>3, <2>4 DEF Apart
<1>13. NothingSkipped'
  <2> SUFFICES ASSUME pc' = "done", "remove" \notin edits PROVE kept \subseteq ToSet(data')
    BY <1>7 DEF NothingSkipped
  <2>1. Len(data') >= Len(listing)
    BY <1>1, <1>4 DEF More
  <2> QED BY <1>4, <1>7, <1>11, <2>1, <1>1 DEF Ahead
<1> QED BY <1>8, <1>10, <1>11, <1>12, <1>13 DEF Inv

\* The positions after the one where an item was removed or put in.
LEMMA AfterInsert ==
  ASSUME Inv, NEW x \in fresh, NEW i \in 1..Len(listing) + 1,
         listing' = InsertAt(listing, i, x), fresh' = fresh \ {x},
         edits' = edits \cup {"insert"}, UNCHANGED <<kept, data, total, limit, pc>>
  PROVE  Inv'
<1>1. listing \in Seq(Items) /\ data \in Seq(Items) /\ x \in Items
      /\ Len(listing) \in Nat /\ Len(data) \in Nat
  BY DEF Inv, Types
<1> DEFINE l == InsertAt(listing, i, x)
<1>2. /\ l \in Seq(Items) /\ Len(l) = Len(listing) + 1
      /\ \A k \in 1..(i - 1) : l[k] = listing[k]
      /\ l[i] = x
      /\ \A k \in i..Len(listing) : l[k + 1] = listing[k]
  BY <1>1, Inserted
<1>3. listing' = l
  OBVIOUS
<1> HIDE DEF l
<1>4. \A k \in 1..Len(listing) : \E m \in 1..Len(l) : m >= k /\ l[m] = listing[k]
  <2> SUFFICES ASSUME NEW k \in 1..Len(listing)
               PROVE  \E m \in 1..Len(l) : m >= k /\ l[m] = listing[k]
    OBVIOUS
  <2>1. CASE k < i
    BY <2>1, <1>1, <1>2
  <2>2. CASE k >= i
    <3>1. k \in i..Len(listing) /\ k + 1 \in 1..Len(l) /\ k + 1 >= k
      BY <2>2, <1>1, <1>2
    <3> QED BY <3>1, <1>2
  <2> QED BY <2>1, <2>2, <1>1
<1>5. ToSet(l) = ToSet(listing) \cup {x}
  <2>1. /\ ToSet(l) = {l[k] : k \in 1..Len(l)}
        /\ ToSet(listing) = {listing[k] : k \in 1..Len(listing)}
    BY <1>1, <1>2, InSet
  <2>2. \A k \in 1..Len(l) : l[k] = x \/ \E m \in 1..Len(listing) : l[k] = listing[m]
    <3> SUFFICES ASSUME NEW k \in 1..Len(l), k # i
                 PROVE  \E m \in 1..Len(listing) : l[k] = listing[m]
      BY <1>2
    <3>1. CASE k < i
      BY <3>1, <1>1, <1>2
    <3>2. CASE k > i
      <4>1. k - 1 \in i..Len(listing) /\ k - 1 \in 1..Len(listing) /\ (k - 1) + 1 = k
        BY <3>2, <1>1, <1>2
      <4> QED BY <4>1, <1>2
    <3> QED BY <3>1, <3>2, <1>1
  <2>3. i \in 1..Len(l)
    BY <1>1, <1>2
  <2> QED BY <2>1, <2>2, <2>3, <1>2, <1>4
<1>6. Types'
  BY <1>1, <1>2, <1>3 DEF Inv, Types
<1>7. Known'
  BY <1>3, <1>5 DEF Inv, Known
<1>8. Ahead'
  <2> SUFFICES ASSUME "remove" \notin edits, NEW y \in kept, y \notin ToSet(data)
               PROVE  \E m \in 1..Len(l) : m > Len(data) /\ l[m] = y
    BY <1>3 DEF Ahead
  <2>1. PICK k \in 1..Len(listing) : k > Len(data) /\ listing[k] = y
    BY DEF Inv, Ahead
  <2>2. PICK m \in 1..Len(l) : m >= k /\ l[m] = listing[k]
    BY <1>4
  <2> QED BY <1>1, <1>2, <2>1, <2>2
<1>9. Apart'
  BY DEF Apart
<1>10. NothingSkipped'
  BY DEF Inv, NothingSkipped
<1> QED BY <1>6, <1>7, <1>8, <1>9, <1>10 DEF Inv

LEMMA AfterAppend ==
  ASSUME Inv, NEW x \in fresh,
         listing' = Append(listing, x), fresh' = fresh \ {x},
         UNCHANGED <<kept, data, total, limit, pc, edits>>
  PROVE  Inv'
<1>1. listing \in Seq(Items) /\ data \in Seq(Items) /\ x \in Items
      /\ Len(listing) \in Nat /\ Len(data) \in Nat
  BY DEF Inv, Types
<1> DEFINE l == Append(listing, x)
<1>2. /\ l \in Seq(Items) /\ Len(l) = Len(listing) + 1
      /\ \A k \in 1..Len(listing) : l[k] = listing[k]
      /\ l[Len(listing) + 1] = x
  BY <1>1
<1>3. listing' = l
  OBVIOUS
<1> HIDE DEF l
<1>4. \A k \in 1..Len(l) : k \in 1..Len(listing) \/ k = Len(listing) + 1
  BY <1>1, <1>2
<1>5. 1..Len(listing) \subseteq 1..Len(l) /\ Len(listing) + 1 \in 1..Len(l)
  BY <1>1, <1>2
<1>6. ToSet(l) = ToSet(listing) \cup {x}
  <2>1. /\ ToSet(l) = {l[k] : k \in 1..Len(l)}
        /\ ToSet(listing) = {listing[k] : k \in 1..Len(listing)}
    BY <1>1, <1>2, InSet
  <2> QED BY <2>1, <1>2, <1>4, <1>5
<1>7. Types'
  BY <1>1, <1>2, <1>3 DEF Inv, Types
<1>8. Known'
  BY <1>3, <1>6 DEF Inv, Known
<1>9. Ahead'
  BY <1>2, <1>3, <1>5 DEF Inv, Ahead
<1>10. Apart'
  <2> SUFFICES ASSUME "insert" \notin edits PROVE Apart'
    BY DEF Apart
  <2>1. \A k \in 1..Len(listing) : listing[k] # x
    BY <1>1, InSet DEF Inv, Known
  <2>2. \A k \in 1..Len(data) : data[k] # x
    BY <1>1, InSet DEF Inv, Known
  <2>3. /\ \A k, m \in 1..Len(listing) : listing[k] = listing[m] => k = m
        /\ \A k, m \in 1..Len(data) : data[k] = data[m] => k = m
        /\ \A k \in 1..Len(listing), m \in 1..Len(data) : k > Len(data) => listing[k] # data[m]
    BY DEF Inv, Apart
  <2>4. \A k, m \in 1..Len(l) : l[k] = l[m] => k = m
    BY <1>2, <1>4, <2>1, <2>3
  <2>5. \A k \in 1..Len(l), m \in 1..Len(data) : k > Len(data) => l[k] # data[m]
    BY <1>2, <1>4, <2>2, <2>3
  <2> QED BY <1>3, <2>3, <2>4, <2>5 DEF Apart
<1>11. NothingSkipped'
  BY DEF Inv, NothingSkipped
<1> QED BY <1>7, <1>8, <1>9, <1>10, <1>11 DEF Inv

LEMMA AfterRemove ==
  ASSUME Inv, NEW i \in 1..Len(listing),
         listing' = RemoveAt(listing, i), kept' = kept \ {listing[i]},
         edits' = edits \cup {"remove"}, UNCHANGED <<fresh, data, total, limit, pc>>
  PROVE  Inv'
<1>1. listing \in Seq(Items) /\ data \in Seq(Items)
      /\ Len(listing) \in Nat /\ Len(data) \in Nat
  BY DEF Inv, Types
<1> DEFINE l == RemoveAt(listing, i)
           old(k) == IF k < i THEN k ELSE k + 1
<1>2. /\ l \in Seq(Items) /\ Len(l) = Len(listing) - 1
      /\ \A k \in 1..(i - 1) : l[k] = listing[k]
      /\ \A k \in i..(Len(listing) - 1) : l[k] = listing[k + 1]
  BY <1>1, Shortened
<1>3. listing' = l
  OBVIOUS
<1> HIDE DEF l
<1>4. \A k \in 1..Len(l) : /\ old(k) \in 1..Len(listing) /\ old(k) >= k
                           /\ l[k] = listing[old(k)]
  <2> SUFFICES ASSUME NEW k \in 1..Len(l)
               PROVE  /\ old(k) \in 1..Len(listing) /\ old(k) >= k
                      /\ l[k] = listing[old(k)]
    OBVIOUS
  <2>1. CASE k < i
    BY <2>1, <1>1, <1>2
  <2>2. CASE k >= i
    <3>1. k \in i..(Len(listing) - 1) /\ old(k) = k + 1
      BY <2>2, <1>1, <1>2
    <3> QED BY <3>1, <1>1, <1>2
  <2> QED BY <2>1, <2>2, <1>1
<1>5. \A k \in 1..Len(listing) : k # i => \E m \in 1..Len(l) : l[m] = listing[k]
  <2> SUFFICES ASSUME NEW k \in 1..Len(listing), k # i
               PROVE  \E m \in 1..Len(l) : l[m] = listing[k]
    OBVIOUS
  <2>1. CASE k < i
    BY <2>1, <1>1, <1>2
  <2>2. CASE k > i
    <3>1. k - 1 \in i..(Len(listing) - 1) /\ k - 1 \in 1..Len(l) /\ (k - 1) + 1 = k
      BY <2>2, <1>1, <1>2
    <3> QED BY <3>1, <1>2
  <2> QED BY <2>1, <2>2, <1>1
<1>6. /\ ToSet(l) = {l[k] : k \in 1..Len(l)}
      /\ ToSet(listing) = {listing[k] : k \in 1..Len(listing)}
  BY <1>1, <1>2, InSet
<1>7. ToSet(l) \subseteq ToSet(listing) /\ ToSet(listing) \ {listing[i]} \subseteq ToSet(l)
  BY <1>4, <1>5, <1>6
<1>8. Types'
  BY <1>1, <1>2, <1>3 DEF Inv, Types
<1>9. Known'
  BY <1>3, <1>7 DEF Inv, Known
<1>10. Ahead'
  BY DEF Ahead
<1>11. Apart'
  <2> SUFFICES ASSUME "insert" \notin edits PROVE Apart'
    BY DEF Apart
  <2>1. /\ \A k, m \in 1..Len(listing) : listing[k] = listing[m] => k = m
        /\ \A k, m \in 1..Len(data) : data[k] = data[m] => k = m
        /\ \A k \in 1..Len(listing), m \in 1..Len(data) : k > Len(data) => listing[k] # data[m]
    BY DEF Inv, Apart
  <2>2. \A k, m \in 1..Len(l) : old(k) = old(m) => k = m
    BY <1>1, <1>2
  <2>3. \A k \in 1..Len(l) : k > Len(data) => old(k) > Len(data)
    BY <1>1, <1>2
  <2> HIDE DEF old
  <2>4. \A k, m \in 1..Len(l) : l[k] = l[m] => k = m
    BY <1>4, <2>1, <2>2
  <2>5. \A k \in 1..Len(l), m \in 1..Len(data) : k > Len(data) => l[k] # data[m]
    BY <1>4, <2>1, <2>3
  <2> QED BY <1>3, <2>1, <2>4, <2>5 DEF Apart
<1>12. NothingSkipped'
  BY DEF NothingSkipped
<1> QED BY <1>8, <1>9, <1>10, <1>11, <1>12 DEF Inv

LEMMA Step == Inv /\ [Next]_vars => Inv'
<1> SUFFICES ASSUME Inv, [Next]_vars PROVE Inv'
  OBVIOUS
<1>1. CASE FirstPage
  <2>1. PICK extra \in 0..Overcount :
          /\ data' = Page(0, Least(DefaultLimit, MaxLimit))
          /\ total' = Len(listing) + extra
          /\ limit' \in Reported(Least(DefaultLimit, MaxLimit))
          /\ pc' = IF More(data', total') THEN "more" ELSE "done"
    BY <1>1 DEF FirstPage
  <2> DEFINE n == Least(DefaultLimit, MaxLimit)
  <2>2. n \in Nat \ {0} /\ extra \in Nat
    BY LimitsAssumption DEF Least
  <2>3. data = <<>> /\ Len(data) = 0 /\ listing \in Seq(Items) /\ UNCHANGED server
    BY <1>1 DEF FirstPage, Inv, Types
  <2> HIDE DEF n
  <2>4. Page(0, n) \in Seq(Items)
    BY <2>2, <2>3, PageIs
  <2>5. <<>> \o Page(0, n) = Page(0, n)
    BY <2>4
  <2>6. data' = data \o Page(Len(data), n)
    BY <2>1, <2>3, <2>5 DEF n
  <2>7. limit' \in {n, 0}
    BY <2>1 DEF Reported, n
  <2> QED BY <2>1, <2>2, <2>3, <2>6, <2>7, Merged
<1>2. CASE NextPage
  <2> DEFINE n == Least(nextPageLimit(limit, Len(data)), MaxLimit)
  <2>1. PICK extra \in 0..Overcount :
          /\ data' = data \o Page(Len(data), n)
          /\ total' = Len(listing) + extra
          /\ limit' \in Reported(n)
          /\ pc' = IF More(data', total') THEN "more" ELSE "done"
    BY <1>2 DEF NextPage, NextOffset
  <2>2. n \in Nat \ {0} /\ extra \in Nat
    BY Asked, LimitsAssumption DEF Inv
  <2>3. UNCHANGED server
    BY <1>2 DEF NextPage
  <2> HIDE DEF n
  <2>4. limit' \in {n, 0}
    BY <2>1 DEF Reported
  <2> QED BY <2>1, <2>2, <2>3, <2>4, Merged
<1>3. CASE EmptyPage
  <2> DEFINE n == Least(nextPageLimit(limit, Len(data)), MaxLimit)
  <2>1. n \in Nat \ {0} /\ listing \in Seq(Items) /\ Len(data) \in Nat /\ Len(listing) \in Nat
    BY Asked DEF Inv, Types
  <2>2. Page(Len(data), n) = <<>> /\ pc' = "done" /\ UNCHANGED <<server, data, total, limit>>
    BY <1>3 DEF EmptyPage, NextOffset
  <2> HIDE DEF n
  <2>3. Len(data) >= Len(listing)
    <3>1. Len(Page(Len(data), n)) = 0
      BY <2>2
    <3>2. Len(Page(Len(data), n)) =
            IF Len(data) >= Len(listing) THEN 0
            ELSE IF Len(data) + n <= Len(listing) THEN n ELSE Len(listing) - Len(data)
      BY <2>1, PageIs
    <3> HIDE DEF n
    <3> QED BY <2>1, <3>1, <3>2
  <2>4. "remove" \notin edits => kept \subseteq ToSet(data)
    BY <2>1, <2>3 DEF Inv, Ahead
  <2> QED BY <2>2, <2>4 DEF Inv, Types, Known, Ahead, Apart, NothingSkipped, server
<1>4. CASE RequestFails
  <2>1. Len(data') = 0 /\ data' \in Seq(Items) /\ ToSet(data') = {}
    BY <1>4 DEF RequestFails, ToSet
  <2>2. pc' = "failed" /\ UNCHANGED <<server, total, limit>>
    BY <1>4 DEF RequestFails
  <2>3. Types'
    BY <2>1, <2>2 DEF Inv, Types, server
  <2>4. Known'
    BY <2>1, <2>2 DEF Inv, Known, server
  <2>5. Ahead'
    <3> SUFFICES ASSUME NEW x \in kept
                 PROVE  \E i \in 1..Len(listing) : i > 0 /\ listing[i] = x
      BY <2>1, <2>2 DEF Ahead, server
    <3>1. x \in ToSet(listing) /\ listing \in Seq(Items)
      BY DEF Inv, Known, Types
    <3> QED BY <3>1, InSet
  <2>6. Apart'
    <3>1. 1..Len(data') = {}
      BY <2>1
    <3> QED BY <2>2, <3>1 DEF Inv, Apart, server
  <2> QED BY <2>2, <2>3, <2>4, <2>5, <2>6 DEF Inv, NothingSkipped
<1>5. CASE OtherInserts
  BY <1>5, AfterInsert DEF OtherInserts
<1>6. CASE OtherAppends
  BY <1>6, AfterAppend DEF OtherAppends
<1>7. CASE OtherRemoves
  BY <1>7, AfterRemove DEF OtherRemoves
<1>8. CASE UNCHANGED vars
  BY <1>8 DEF vars, Inv, Types, Known, Ahead, Apart, NothingSkipped
<1> QED BY <1>1, <1>2, <1>3, <1>4, <1>5, <1>6, <1>7, <1>8
     DEF Next, Call, Answered, OtherClients

\* A listing call that returns has every item that was listed all along, as long
\* as nothing was removed meanwhile (requests.go:156-176).
THEOREM NothingSkippedHolds == Spec => []NothingSkipped
<1>1. Inv => NothingSkipped
  BY DEF Inv
<1> QED BY <1>1, Initially, Step, PTL DEF Spec

\* A listing call loads nothing twice as long as nothing is inserted before the
\* end of the list (requests.go:156-176).
THEOREM NoDuplicatesHolds == Spec => []NoDuplicates
<1>1. Inv => NoDuplicates
  BY DEF Inv, Types, Apart, NoDuplicates, IsInjective
<1> QED BY <1>1, Initially, Step, PTL DEF Spec
=============================================================================

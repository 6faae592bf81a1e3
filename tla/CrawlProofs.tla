----------------------------- MODULE CrawlProofs -----------------------------
(* A crawl that returns a tree returns all of it, for every course. *)
EXTENDS Crawl, FiniteSetTheorems, TLAPS

Types ==
  /\ pc \in [Folders -> {"idle", "folders", "wait", "send", "done"}]
  /\ left \in [Folders -> Nat]
  /\ result \in [Folders -> {"none", "nil", "error"}]
  /\ filled \subseteq Folders

\* Nothing has started below a folder whose subfolders are not listed yet.
Untouched ==
  \A n \in Folders : pc[n] \in {"idle", "folders"} => \A m \in Crawled(n) : pc[m] = "idle"

\* A call has a result when it has returned, and its files when that is nil.
Results ==
  \A n \in Folders :
    /\ result[n] = "none" <=> pc[n] \in {"idle", "folders", "wait"}
    /\ result[n] = "nil" <=> n \in filled

\* A call waits for as many answers as there are goroutines not yet heard.
Unheard(n) == {m \in Crawled(n) : pc[m] # "done"}
Waits ==
  \A n \in Folders : pc[n] = "wait" =>
    /\ left[n] = Cardinality(Unheard(n))
    /\ \A m \in Crawled(n) : pc[m] = "done" => result[m] = "nil"

\* A folder gets its files when all of its subfolders have theirs.
Closed == \A n \in filled : Crawled(n) \subseteq filled

Inv == Types /\ Untouched /\ Results /\ Waits /\ Closed

-----------------------------------------------------------------------------
LEMMA FoldersAre ==
  /\ Root \in Folders /\ IsFiniteSet(Folders)
  /\ \A n \in Folders : Crawled(n) \subseteq Folders /\ Root \notin Crawled(n)
  /\ \A n, m, k \in Folders : m \in Crawled(n) /\ m \in Crawled(k) => n = k
BY FoldersAssumption DEF Crawled, Subfolders

LEMMA Finite ==
  ASSUME NEW n \in Folders
  PROVE  IsFiniteSet(Crawled(n)) /\ IsFiniteSet(Unheard(n))
<1>1. Crawled(n) \subseteq Folders /\ Unheard(n) \subseteq Folders
  BY FoldersAre DEF Unheard
<1> QED BY <1>1, FoldersAre, FS_Subset

LEMMA InvInit == Init => Inv
<1> SUFFICES ASSUME Init PROVE Inv OBVIOUS
<1> USE FoldersAre DEF Init
<1>1. Types
  BY DEF Types
<1>2. Untouched
  BY DEF Untouched
<1> QED BY <1>1, <1>2 DEF Inv, Types, Results, Waits, Closed

\* The subfolders of n are listed: n waits for all of them.
LEMMA ListedStep ==
  ASSUME Inv, NEW n \in Folders, FoldersListed(n)
  PROVE  Inv'
<1> USE FoldersAre DEF Inv, Types, FoldersListed
<1>1. \A m \in Crawled(n) : pc[m] = "idle" /\ m # n
  BY DEF Untouched
<1>2. /\ pc'[n] = "wait" /\ \A m \in Crawled(n) : pc'[m] = "folders"
      /\ \A k \in Folders : k # n /\ k \notin Crawled(n) => pc'[k] = pc[k]
  BY <1>1
<1>3. Types'
  <2>1. Cardinality(Crawled(n)) \in Nat
    BY Finite, FS_CardinalityType
  <2> QED BY <2>1
<1>4. Untouched'
  <2> SUFFICES ASSUME NEW k \in Folders, pc'[k] \in {"idle", "folders"},
                      NEW m \in Crawled(k)
               PROVE  pc'[m] = "idle"
    BY DEF Untouched, Crawled, Subfolders
  <2>1. k # n /\ pc[k] \in {"idle", "folders"}
    BY <1>1, <1>2
  <2>2. pc[m] = "idle" /\ m # n /\ m \notin Crawled(n)
    BY <2>1 DEF Untouched
  <2> QED BY <1>2, <2>2
<1>5. Results'
  BY <1>1, <1>2 DEF Results
<1>6. Waits'
  <2> SUFFICES ASSUME NEW k \in Folders, pc'[k] = "wait"
               PROVE  /\ left'[k] = Cardinality(Unheard(k)')
                      /\ \A m \in Crawled(k) : pc'[m] = "done" => result'[m] = "nil"
    BY DEF Waits, Crawled, Subfolders
  <2>1. CASE k = n
    <3>1. Unheard(n)' = Crawled(n)
      BY <1>2 DEF Unheard, Crawled, Subfolders
    <3> QED BY <1>2, <2>1, <3>1
  <2>2. CASE k # n
    <3>1. pc[k] = "wait" /\ left'[k] = left[k]
      BY <1>2, <2>2
    <3>2. \A m \in Crawled(k) : m \notin Crawled(n) /\ (pc'[m] = "done" <=> pc[m] = "done")
      BY <1>2, <2>2
    <3>3. Unheard(k)' = Unheard(k)
      BY <3>2 DEF Unheard, Crawled, Subfolders
    <3> QED BY <3>1, <3>2, <3>3 DEF Waits
  <2> QED BY <2>1, <2>2
<1>7. Closed'
  BY DEF Closed, Crawled, Subfolders
<1> QED BY <1>3, <1>4, <1>5, <1>6, <1>7

\* n hears from m.
LEMMA ReceiveStep ==
  ASSUME Inv, NEW n \in Folders, NEW m \in Folders, Receive(n, m)
  PROVE  Inv'
<1> USE FoldersAre DEF Inv, Types, Receive, Returned
<1>1. m # n /\ pc'[m] = "done" /\ pc[m] = "send" /\ result'[m] = result[m]
  OBVIOUS
<1>2. \A k \in Folders : k \notin {n, m} => pc'[k] = pc[k] /\ result'[k] = result[k]
  OBVIOUS
<1>3. \/ pc'[n] = "wait" /\ result'[n] = result[n] /\ result[m] = "nil"
      \/ pc'[n] \in {"send", "done"} /\ result'[n] = "error"
  BY <1>1
<1>4. Types'
  OBVIOUS
<1>5. Untouched'
  <2> SUFFICES ASSUME NEW k \in Folders, pc'[k] \in {"idle", "folders"},
                      NEW h \in Crawled(k)
               PROVE  pc'[h] = "idle"
    BY DEF Untouched, Crawled, Subfolders
  <2>1. k \notin {n, m} /\ pc[k] = pc'[k]
    BY <1>1, <1>2, <1>3
  <2>2. pc[h] = "idle" /\ h \notin {n, m}
    BY <1>1, <2>1 DEF Untouched
  <2> QED BY <1>2, <2>2
<1>6. Results'
  <2> SUFFICES ASSUME NEW k \in Folders
               PROVE  /\ result'[k] = "none" <=> pc'[k] \in {"idle", "folders", "wait"}
                      /\ result'[k] = "nil" <=> k \in filled'
    BY DEF Results
  <2>1. filled' = filled /\ result[n] = "none"
    BY DEF Results
  <2> QED BY <1>1, <1>2, <1>3, <2>1 DEF Results
<1>7. Waits'
  <2> SUFFICES ASSUME NEW k \in Folders, pc'[k] = "wait"
               PROVE  /\ left'[k] = Cardinality(Unheard(k)')
                      /\ \A h \in Crawled(k) : pc'[h] = "done" => result'[h] = "nil"
    BY DEF Waits, Crawled, Subfolders
  <2>1. CASE k = n
    <3>1. pc[n] = "wait" /\ left'[n] = left[n] - 1 /\ result[m] = "nil"
      BY <1>3, <2>1
    <3>2. Unheard(n)' = Unheard(n) \ {m}
      BY <1>1, <1>2, <2>1, <3>1 DEF Unheard, Crawled, Subfolders
    <3>3. m \in Unheard(n)
      BY <1>1 DEF Unheard
    <3>4. Cardinality(Unheard(n)') = Cardinality(Unheard(n)) - 1
      BY <3>2, <3>3, Finite, FS_RemoveElement
    <3>5. left[n] = Cardinality(Unheard(n))
          /\ \A h \in Crawled(n) : pc[h] = "done" => result[h] = "nil"
      BY <3>1 DEF Waits
    <3>6. \A h \in Crawled(n) : pc'[h] = "done" => result'[h] = "nil"
      <4> SUFFICES ASSUME NEW h \in Crawled(n), pc'[h] = "done" PROVE result'[h] = "nil"
        OBVIOUS
      <4>1. CASE h = m BY <4>1, <1>1, <3>1
      <4>2. CASE h # m
        <5>1. h # n BY <2>1
        <5> QED BY <4>2, <5>1, <1>2, <3>5
      <4> QED BY <4>1, <4>2
    <3> QED BY <2>1, <3>1, <3>4, <3>5, <3>6
  <2>2. CASE k # n
    <3>1. k # m /\ pc[k] = "wait" /\ left'[k] = left[k]
      BY <1>1, <1>2, <2>2
    <3>2. m \notin Crawled(k)
      BY <2>2
    <3>3. \A h \in Crawled(k) :
            (pc'[h] = "done" <=> pc[h] = "done") \/ h = n
      BY <1>2, <3>2
    <3>4. n \in Crawled(k) => pc'[n] # "done" /\ pc[n] # "done"
      <4>1. n \in Crawled(k) => n # Root
        OBVIOUS
      <4> QED BY <4>1
    <3>5. Unheard(k)' = Unheard(k)
      BY <3>3, <3>4 DEF Unheard, Crawled, Subfolders
    <3>6. \A h \in Crawled(k) : pc'[h] = "done" => result'[h] = "nil"
      BY <1>2, <3>1, <3>2, <3>3, <3>4 DEF Waits
    <3> QED BY <3>1, <3>5, <3>6 DEF Waits
  <2> QED BY <2>1, <2>2
<1>8. Closed'
  BY DEF Closed, Crawled, Subfolders
<1> QED BY <1>4, <1>5, <1>6, <1>7, <1>8

\* n returns, with its files or with an error.
LEMMA ReturnStep ==
  ASSUME Inv, NEW n \in Folders, FilesListed(n) \/ Fails(n)
  PROVE  Inv'
<1> USE FoldersAre DEF Inv, Types, Returned
<1>1. /\ pc[n] \in {"folders", "wait"} /\ left' = left
      /\ pc' = [pc EXCEPT ![n] = Returned(n)]
  BY DEF FilesListed, Fails
<1>2. \/ /\ result' = [result EXCEPT ![n] = "nil"] /\ filled' = filled \cup {n}
         /\ pc[n] = "wait" /\ left[n] = 0
      \/ result' = [result EXCEPT ![n] = "error"] /\ filled' = filled
  BY DEF FilesListed, Fails
<1>3. pc'[n] \in {"send", "done"} /\ (pc'[n] = "done" => n = Root)
  BY <1>1
<1>4. Types'
  BY <1>1, <1>2
<1>5. Untouched'
  <2> SUFFICES ASSUME NEW k \in Folders, pc'[k] \in {"idle", "folders"},
                      NEW m \in Crawled(k)
               PROVE  pc'[m] = "idle"
    BY DEF Untouched, Crawled, Subfolders
  <2>1. k # n /\ pc[k] = pc'[k]
    BY <1>1, <1>3
  <2>2. pc[m] = "idle" /\ m # n
    BY <1>1, <2>1 DEF Untouched
  <2> QED BY <1>1, <2>2
<1>6. Results'
  BY <1>1, <1>2, <1>3 DEF Results
<1>7. Waits'
  <2> SUFFICES ASSUME NEW k \in Folders, pc'[k] = "wait"
               PROVE  /\ left'[k] = Cardinality(Unheard(k)')
                      /\ \A m \in Crawled(k) : pc'[m] = "done" => result'[m] = "nil"
    BY DEF Waits, Crawled, Subfolders
  <2>1. k # n /\ pc[k] = "wait" /\ left'[k] = left[k]
    BY <1>1, <1>3
  <2>2. \A m \in Crawled(k) : (pc'[m] = "done" <=> pc[m] = "done") /\ (pc[m] = "done" => m # n)
    BY <1>1, <1>3
  <2>3. Unheard(k)' = Unheard(k)
    BY <2>2 DEF Unheard, Crawled, Subfolders
  <2>4. \A m \in Crawled(k) : pc'[m] = "done" => result'[m] = "nil"
    BY <1>2, <2>1, <2>2 DEF Waits
  <2> QED BY <2>1, <2>3, <2>4 DEF Waits
<1>8. Closed'
  <2>1. CASE filled' = filled
    BY <2>1 DEF Closed, Crawled, Subfolders
  <2>2. CASE filled' = filled \cup {n} /\ pc[n] = "wait" /\ left[n] = 0
    <3>1. Unheard(n) = {}
      BY <2>2, Finite, FS_EmptySet DEF Waits
    <3>2. Crawled(n) \subseteq filled
      BY <2>2, <3>1 DEF Waits, Unheard, Results
    <3> QED BY <2>2, <3>2 DEF Closed, Crawled, Subfolders
  <2> QED BY <1>2, <2>1, <2>2
<1> QED BY <1>4, <1>5, <1>6, <1>7, <1>8

LEMMA InvStep == Inv /\ [Next]_vars => Inv'
<1> SUFFICES ASSUME Inv, [Next]_vars PROVE Inv' OBVIOUS
<1>1. ASSUME NEW n \in Folders, FillFolderNode(n) PROVE Inv'
  BY <1>1, ListedStep, ReceiveStep, ReturnStep DEF FillFolderNode
<1>2. CASE UNCHANGED vars
  BY <1>2 DEF vars, Inv, Types, Untouched, Results, Waits, Unheard, Closed, Crawled, Subfolders
<1> QED BY <1>1, <1>2 DEF Next

\* A crawl that returns nil has filled the root, and with every folder it has
\* filled each readable subfolder, for every tree of folders and every failure
\* of its requests (fs.go:590-695).
THEOREM WholeHolds == Spec => []Whole
<1>1. Inv => Whole
  BY FoldersAre DEF Inv, Whole, Results, Closed
<1> QED BY InvInit, InvStep, <1>1, PTL DEF Spec
=============================================================================

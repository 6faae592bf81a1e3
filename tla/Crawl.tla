-------------------------------- MODULE Crawl --------------------------------
(***************************************************************************)
(* GetCourseFileTree and FillFolderNode (backend/studip/fs.go): a crawl of *)
(* the course with a goroutine for each folder.  Each reports to its       *)
(* parent over a channel of the parent's, which holds nothing.             *)
(***************************************************************************)
EXTENDS Integers, FiniteSets

CONSTANTS
  Folders,    \* of the course
  Root,       \* its RootFolder
  Parent,     \* of every other folder
  Readable    \* the folders the user may read

ASSUME FoldersAssumption ==
  /\ IsFiniteSet(Folders) /\ Root \in Folders
  /\ Parent \in [Folders \ {Root} -> Folders]
  /\ Readable \subseteq Folders

VARIABLES
  pc,       \* where FillFolderNode is for each folder
  left,     \* how many answers it still waits for
  result,   \* what it returned
  filled    \* the folders whose nodes have got their files

vars == <<pc, left, result, filled>>

Subfolders(n) == {m \in Folders \ {Root} : Parent[m] = n}

\* A folder that may not be read gets a node, but no goroutine.
Crawled(n) == Subfolders(n) \cap Readable

-----------------------------------------------------------------------------
Init ==
  /\ pc = [n \in Folders |-> IF n = Root THEN "folders" ELSE "idle"]
  /\ left = [n \in Folders |-> 0]
  /\ result = [n \in Folders |-> "none"]
  /\ filled = {}

\* The crawl's own caller takes the result of the root.  Any other waits until
\* its parent receives it.
Returned(n) == IF n = Root THEN "done" ELSE "send"

\* Plausible bugs: one goroutine is not counted, or folders are counted for
\* which none is started.
FoldersListedShort(n) ==
  /\ pc[n] = "folders" /\ n \in Readable
  /\ pc' = [m \in Folders |-> IF m = n THEN "wait"
                              ELSE IF m \in Crawled(n) THEN "folders" ELSE pc[m]]
  /\ left' = [left EXCEPT ![n] =
                IF Crawled(n) = {} THEN 0 ELSE Cardinality(Crawled(n)) - 1]
  /\ UNCHANGED <<result, filled>>

FoldersListedAll(n) ==
  /\ pc[n] = "folders" /\ n \in Readable
  /\ pc' = [m \in Folders |-> IF m = n THEN "wait"
                              ELSE IF m \in Crawled(n) THEN "folders" ELSE pc[m]]
  /\ left' = [left EXCEPT ![n] = Cardinality(Subfolders(n))]
  /\ UNCHANGED <<result, filled>>

\* The subfolders are listed, and a goroutine starts on each that is readable.
FoldersListed(n) ==
  /\ pc[n] = "folders" /\ n \in Readable
  /\ pc' = [m \in Folders |-> IF m = n THEN "wait"
                              ELSE IF m \in Crawled(n) THEN "folders" ELSE pc[m]]
  /\ left' = [left EXCEPT ![n] = Cardinality(Crawled(n))]
  /\ UNCHANGED <<result, filled>>

\* Plausible bug: the error of a subfolder is dropped.
ReceiveAny(n, m) ==
  /\ pc[n] = "wait" /\ left[n] > 0 /\ m \in Crawled(n) /\ pc[m] = "send"
  /\ left' = [left EXCEPT ![n] = left[n] - 1]
  /\ pc' = [pc EXCEPT ![m] = "done"]
  /\ UNCHANGED <<result, filled>>

\* An answer passes from m to n in one step.  The first error ends n's call.
Receive(n, m) ==
  /\ pc[n] = "wait" /\ left[n] > 0 /\ m \in Crawled(n) /\ pc[m] = "send"
  /\ left' = [left EXCEPT ![n] = left[n] - 1]
  /\ \/ result[m] = "nil" /\ pc' = [pc EXCEPT ![m] = "done"] /\ UNCHANGED result
     \/ /\ result[m] = "error"
        /\ pc' = [pc EXCEPT ![m] = "done", ![n] = Returned(n)]
        /\ result' = [result EXCEPT ![n] = "error"]
  /\ UNCHANGED filled

\* The files are listed when every subfolder is through.
FilesListed(n) ==
  /\ pc[n] = "wait" /\ left[n] = 0
  /\ filled' = filled \cup {n}
  /\ pc' = [pc EXCEPT ![n] = Returned(n)]
  /\ result' = [result EXCEPT ![n] = "nil"]
  /\ UNCHANGED left

\* Either listing fails, or the context is cancelled, or the root folder may
\* not be read.
Fails(n) ==
  /\ pc[n] = "folders" \/ (pc[n] = "wait" /\ left[n] = 0)
  /\ pc' = [pc EXCEPT ![n] = Returned(n)]
  /\ result' = [result EXCEPT ![n] = "error"]
  /\ UNCHANGED <<left, filled>>

FillFolderNode(n) ==
  FoldersListed(n) \/ (\E m \in Folders : Receive(n, m)) \/ FilesListed(n) \/ Fails(n)

Next == \E n \in Folders : FillFolderNode(n)

Spec == Init /\ [][Next]_vars
\* Goroutines are scheduled, and a request is answered or fails.
FairSpec == Spec /\ \A n \in Folders : WF_vars(FillFolderNode(n))

-----------------------------------------------------------------------------
(* Properties. *)

\* A tree is returned with everything in it: with a folder that has its files,
\* each of its readable subfolders has them too, whichever of the requests on
\* the way failed (fs.go:582-587, 661-673).
Whole ==
  result[Root] = "nil" =>
    Root \in filled /\ \A n \in filled : Crawled(n) \subseteq filled

\* The crawl returns, also when goroutines it started never will (fs.go:661-665).
CrawlReturns == <>(pc[Root] = "done")

\* A goroutine is kept waiting for ever only where the call that started it
\* failed: it then has returned at the first error, and nobody receives the
\* answers of the other folders (fs.go:648-666).
Delivered ==
  \A n \in Folders \ {Root} :
    pc[n] = "send" ~> (pc[n] = "done" \/ result[Parent[n]] = "error")
=============================================================================

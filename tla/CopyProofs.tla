----------------------------- MODULE CopyProofs ------------------------------
(* A copy or a move of one file keeps the source until the file has arrived, and
   leaves no part of a file in the place of a whole one, whatever the options,
   the number of blocks, streams and tries, the faults, and wherever the call is
   cancelled or the program ended. *)
EXTENDS Copy, TLAPS

\* Where nothing has been uploaded, and where an upload is under way.
Before == {"find", "need", "compare", "equal", "copybackup", "copydest", "backup", "skip", "op",
           "move", "aside", "back"}
Uploading == {"try", "stream", "chunks", "tried", "ended", "verify", "rename", "clean"}

Errors == {"nil", "retry", "fail", "canceled", "stuck"}

\* What a file is; that its data is a sequence of blocks is not needed.
IsFile(f) == f = [data |-> f.data, time |-> f.time] /\ f.time \in BOOLEAN

AreFiles(g) ==
  /\ g = [n \in Names |-> g[n]]
  /\ \A n \in Names : g[n] = None \/ IsFile(g[n])

Types ==
  /\ opt \in Scenarios
  /\ AreFiles(files)
  /\ pc \in Before \cup Uploading \cup {"delete", "done"}
  /\ known \in BOOLEAN /\ tries \in Nat /\ err \in Errors
  /\ handle \in [Chunks -> Handles]
  /\ chunk \in [Chunks -> {"wait", "read", "write", "done", "failed"}]
  /\ gone \in BOOLEAN /\ cancelled \in BOOLEAN /\ faults \in Nat
  /\ result \in {"none", "nil", "error", "exit"}

\* What the options say of the place the call has got to.
Places ==
  /\ result = "none" <=> pc # "done"
  /\ pc \in {"aside", "back"} => opt.caseOnly
  /\ pc \in {"move", "delete"} => opt.move
  /\ pc \in {"equal", "copybackup", "copydest"} => opt.dest = "copy" /\ Elsewhere
  /\ pc = "equal" => known
  /\ pc \in Before => sent = <<>>
  /\ files["copydest"] = opt.files["copydest"]

\* The source is there until the call has returned.
Source ==
  /\ pc \notin {"back", "done"} => files["src"] = opt.files["src"]
  /\ pc = "back" => files["tmp"] = opt.files["src"] /\ files["src"] = None

\* NeedTransfer has removed the file at dst to have it uploaded with its time.
Unset ==
  /\ files["dst"] = None /\ opt.setTime = "delete" /\ opt.backup # "dir"
  /\ TimeDiffers(opt.files["dst"], Basis)

\* dst is what it was until it is compared, and what a move finds there before it
\* removes the source is the source, or lets the source go.
Found ==
  /\ known => opt.files["dst"] # None /\ ~opt.noCheckDest
  /\ pc \in {"find", "need"} => files["dst"] = opt.files["dst"]
  /\ pc = "equal" => files["dst"] = opt.files["dst"] \/ Unset
  /\ pc = "compare" => files["dst"] = opt.files["dst"] \/ Unset
  /\ pc = "skip" /\ Trusted /\ ~opt.ignoreExisting => Settled
  /\ pc = "delete" /\ Trusted /\ ~Unseen => Settled

\* A block that has been read is the source's, or was changed on its way.
From(i, b) == b = i \/ (b = Bad /\ "bad" \in opt.faults)

\* The stream is where the handle believes it to be.
Streamed ==
  pc = "stream" =>
    /\ sent \in Seq(Blocks) /\ Len(sent) <= Size
    /\ handle[1].start = 0 /\ handle[1].end = Size /\ handle[1].newOffset = -1
    /\ handle[1].offset = Len(sent) /\ handle[1].at = Len(sent)
    /\ \A i \in 1..Len(sent) : From(i, sent[i])

\* The same of the handle of chunk c, which a Seek sends back to its start.
Chunk(c) ==
  /\ From(c, sent[c]) \/ sent[c] = Hole
  /\ chunk[c] # "wait" => handle[c].start = c - 1 /\ handle[c].end = c
  /\ chunk[c] = "read" =>
       \/ handle[c].newOffset = -1 /\ handle[c].offset = 0 /\ handle[c].at = c - 1
       \/ handle[c].newOffset = 0 /\ handle[c].offset = 1
  /\ chunk[c] = "write" => handle[c].newOffset = -1 /\ handle[c].offset = 1
  /\ chunk[c] \in {"write", "done"} => sent[c] # Hole
  /\ chunk[c] = "failed" => gone

Chunked ==
  pc = "chunks" => opt.way = "multi" /\ sent \in [Chunks -> Blocks] /\ \A c \in Chunks : Chunk(c)

\* An upload that went well has stored the source, but for blocks changed on
\* their way; the holes of a multi-thread copy that was cancelled are discarded
\* by the loop of the tries.
Stores(f) == f # None /\ ("bad" \notin opt.faults => f.data = Whole)
Arrived ==
  /\ pc = "tried" /\ err = "nil" /\ ~(cancelled /\ opt.way = "multi") => Stores(files[Target])
  /\ pc = "ended" /\ err = "nil" => Stores(files[Target])
  /\ pc \in {"verify", "rename"} => err = "nil" /\ Stores(files[Target])
  /\ pc = "rename" => opt.partial /\ Verified(files["partial"])

\* TrueTimes, of every state.
Timely ==
  Trusted /\ files["dst"] # None /\ files["dst"].time /\ SameSize(files["dst"])
  /\ ~(cancelled /\ opt.way = "multi" /\ ~opt.partial)
  /\ ("bad" \in opt.faults => opt.hash /\ opt.partial)
    => HasSource("dst")

\* The old file is at dst until it is in the backup.
Old(n) == files[n] # None /\ files[n].data = opt.files["dst"].data
Securing ==
  /\ Backing /\ opt.dest # "copy"
  /\ ~(opt.backup = "suffix" /\ opt.setTime = "delete" /\ opt.files["dst"].data = Whole)
Secured ==
  Securing =>
    /\ pc \in {"find", "need", "compare", "backup", "skip"} => Old("dst")
    /\ pc \in {"need", "compare", "backup"} => known
    /\ pc \in {"op", "move"} \cup Uploading => Old("backup")

\* There is no partial file but during an upload.
Clear ==
  /\ ~opt.partial => files["partial"] = None
  /\ pc \in Before \cup {"delete"} => files["partial"] = None

Promises == NothingLost /\ Done /\ OldOrNew /\ Backed /\ NoPartialLeft

Inv ==
  /\ Types /\ Places /\ Source /\ Found /\ Streamed /\ Chunked /\ Arrived /\ Timely
  /\ Secured /\ Clear /\ Promises

-----------------------------------------------------------------------------
(* What the constants, and the helpers of the model, come to. *)

LEMMA Scenario ==
  ASSUME Types
  PROVE  /\ opt.files["src"] # None /\ opt.files["src"] = [data |-> Whole, time |-> TRUE]
         /\ opt.files["src"].data = Whole
         /\ opt.files["partial"] = None /\ opt.files["tmp"] = None
         /\ opt.caseOnly => opt.move /\ opt.files["dst"] = None
         /\ opt.maxFaults \in Nat /\ opt.faults \subseteq {"retry", "fail", "bad"}
         /\ opt.files \in [Names -> Files \cup {None}]
         /\ opt.dest \in {"no", "copy", "compare"} /\ opt.backup \in {"no", "dir", "suffix"}
         /\ AreFiles(opt.files)
<1>1. opt \in ScenarioType
  BY CopyAssumption DEF Types
<1>2. opt.maxFaults \in Nat /\ opt.faults \subseteq {"retry", "fail", "bad"}
      /\ opt.files \in [Names -> Files \cup {None}]
      /\ opt.dest \in {"no", "copy", "compare"} /\ opt.backup \in {"no", "dir", "suffix"}
  BY <1>1 DEF ScenarioType
<1>3. \A f \in Files : IsFile(f)
  BY DEF Files, IsFile
<1>4. /\ opt.files["src"] = [data |-> Whole, time |-> TRUE]
      /\ opt.files["partial"] = None /\ opt.files["tmp"] = None
      /\ opt.caseOnly => opt.move /\ opt.files["dst"] = None
  BY CopyAssumption DEF Types
<1>5. Whole \in Seq(Blocks)
  BY CopyAssumption DEF Whole, Blocks
<1>6. opt.files["src"] # None
  <2>1. [data |-> Whole, time |-> TRUE] \in Files
    BY <1>5 DEF Files
  <2> QED BY <2>1, <1>4, CopyAssumption
<1> QED BY <1>2, <1>3, <1>4, <1>6 DEF AreFiles

LEMMA NotNone ==
  ASSUME NEW d \in Seq(Blocks), NEW t \in BOOLEAN
  PROVE  [data |-> d, time |-> t] # None
BY CopyAssumption DEF Files

LEMMA Counts ==
  ASSUME Types, NEW e, e \in Outcomes \/ (e = "bad" /\ faults > 0), Counted(e)
  PROVE  /\ faults' \in Nat
         /\ e \in Outcomes => e \in {"nil", "retry", "fail"}
BY Scenario DEF Outcomes, Counted, Types

\* The time of the file at dst is set.
LEMMA TimeSet ==
  ASSUME Types, files["dst"] # None
  PROVE  [files EXCEPT !["dst"].time = TRUE]
           = [files EXCEPT !["dst"] = [data |-> files["dst"].data, time |-> TRUE]]
<1> DEFINE f == files["dst"]
           g == [f EXCEPT !.time = TRUE]
           S == [data : {f.data}, time : BOOLEAN]
<1>1. f \in S
  BY DEF Types, AreFiles, Names, IsFile
<1>2. g \in S /\ g.data = f.data /\ g.time = TRUE
  BY <1>1
<1>3. \A r \in S : r = [data |-> r.data, time |-> r.time]
  OBVIOUS
<1>4. g = [data |-> f.data, time |-> TRUE]
  BY <1>2, <1>3
<1> QED BY <1>4

-----------------------------------------------------------------------------
(* The operations of a handle. *)

LEMMA Fields ==
  ASSUME NEW h \in Handles
  PROVE  /\ h.start \in Nat /\ h.end \in Nat /\ h.offset \in Nat /\ h.newOffset \in Int
         /\ h.tries \in Nat /\ h.at \in Nat
  BY DEF Handles

LEMMA Advances ==
  ASSUME NEW h \in Handles
  PROVE  LET g == Advance(h) IN
         /\ g \in Handles /\ g.start = h.start /\ g.end = h.end /\ g.newOffset = h.newOffset
         /\ g.offset = h.offset + 1 /\ g.at = h.at + 1
<1>1. \A o, a \in Nat : LET g == [h EXCEPT !.offset = o, !.at = a] IN
        /\ g \in Handles /\ g.start = h.start /\ g.end = h.end /\ g.newOffset = h.newOffset
        /\ g.offset = o /\ g.at = a
  BY DEF Handles
<1>2. h.offset + 1 \in Nat /\ h.at + 1 \in Nat
  BY Fields
<1> QED BY <1>1, <1>2 DEF Advance

LEMMA Opens ==
  ASSUME NEW h \in Handles, NEW ok \in BOOLEAN
  PROVE  LET g == Open(h, ok) IN
         /\ g \in Handles /\ g.start = h.start /\ g.end = h.end /\ g.newOffset = h.newOffset
         /\ g.offset = h.offset /\ g.at = h.start + h.offset
<1> DEFINE t == h.tries + 1
           a == h.start + h.offset
           s == IF ok /\ h.tries < MaxTries THEN "open" ELSE "failed"
           g == [h EXCEPT !.tries = t, !.at = a, !.state = s]
<1>1. g = Open(h, ok)
  BY DEF Open
<1>2. t \in Nat /\ a \in Nat /\ s \in {"open", "failed"}
  BY Fields
<1>3. /\ g \in Handles /\ g.start = h.start /\ g.end = h.end /\ g.newOffset = h.newOffset
      /\ g.offset = h.offset /\ g.at = a
  <2> HIDE DEF t, a, s
  <2> QED BY <1>2 DEF Handles
<1> HIDE DEF g
<1> QED BY <1>1, <1>3

LEMMA Seeks ==
  ASSUME NEW h \in Handles, NEW n \in Nat
  PROVE  LET g == Seek(h, n) IN
         /\ g \in Handles /\ g.start = h.start /\ g.end = h.end /\ g.newOffset = n
         /\ g.offset = h.offset
<1> DEFINE g == [h EXCEPT !.tries = 0, !.newOffset = n]
<1>1. g = Seek(h, n)
  BY DEF Seek
<1>2. 0 \in Nat /\ n \in Int
  OBVIOUS
<1>3. /\ g \in Handles /\ g.start = h.start /\ g.end = h.end /\ g.newOffset = n
      /\ g.offset = h.offset
  BY <1>2 DEF Handles
<1> HIDE DEF g
<1> QED BY <1>1, <1>3

LEMMA Closes ==
  ASSUME NEW h \in Handles
  PROVE  /\ Close(h) \in Handles /\ Close(h).start = h.start /\ Close(h).end = h.end
         /\ Failed(h) \in Handles /\ Failed(h).start = h.start /\ Failed(h).end = h.end
         /\ Failed(h).newOffset = h.newOffset /\ Failed(h).offset = h.offset /\ Failed(h).at = h.at
BY DEF Close, Failed, Handles

LEMMA Sought ==
  ASSUME NEW h \in Handles, h.newOffset >= 0, NEW ok \in BOOLEAN
  PROVE  LET g == AfterSeek(h, ok) IN
         /\ g \in Handles /\ g.start = h.start /\ g.end = h.end /\ g.newOffset = -1
         /\ g.offset = h.newOffset
         /\ g.at = h.start + h.newOffset \/ h.newOffset = h.offset
<1> DEFINE f == [h EXCEPT !.offset = h.newOffset, !.newOffset = -1]
<1>1. \A o \in Nat, i \in Int : LET g == [h EXCEPT !.offset = o, !.newOffset = i] IN
        /\ g \in Handles /\ g.start = h.start /\ g.end = h.end
        /\ g.offset = o /\ g.newOffset = i
  BY DEF Handles
<1>2. \A i \in Int : LET g == [h EXCEPT !.newOffset = i] IN
        /\ g \in Handles /\ g.start = h.start /\ g.end = h.end
        /\ g.offset = h.offset /\ g.newOffset = i
  BY DEF Handles
<1>3. h.newOffset \in Nat /\ -1 \in Int
  BY Fields
<1>4. /\ f \in Handles /\ f.start = h.start /\ f.end = h.end
      /\ f.offset = h.newOffset /\ f.newOffset = -1
  BY <1>1, <1>3
<1>5. CASE h.newOffset # h.offset
  <2>1. AfterSeek(h, ok) = Open(f, ok)
    BY <1>5 DEF AfterSeek
  <2> HIDE DEF f
  <2> QED BY <1>4, <2>1, Opens
<1>6. CASE h.newOffset = h.offset
  <2>1. AfterSeek(h, ok) = [h EXCEPT !.newOffset = -1]
    BY <1>6 DEF AfterSeek
  <2> QED BY <1>2, <1>3, <1>6, <2>1
<1> QED BY <1>5, <1>6

LEMMA New ==
  ASSUME NEW s \in Nat, NEW e \in Nat
  PROVE  LET g == NewHandle(s, e) IN
         g \in Handles /\ g.start = s /\ g.end = e /\ g.newOffset = -1 /\ g.offset = 0 /\ g.at = s
BY DEF NewHandle, Handles

\* A read gives a block, a break, or a place to go on from.
LEMMA Reads ==
  ASSUME Types, NEW c \in Chunks, NEW r \in ReadSteps(handle[c])
  PROVE  LET h == handle[c] IN
         /\ h \in Handles /\ r.handle \in Handles
         /\ r.err \in Outcomes \/ (r.err = "bad" /\ faults > 0)
         /\ r.handle.start = h.start /\ r.handle.end = h.end
         /\ r.handle.newOffset = IF h.newOffset >= 0 THEN -1 ELSE h.newOffset
         /\ \/ /\ h.newOffset < 0 /\ r.block # Hole
               /\ r.block = h.at + 1 \/ (r.block = Bad /\ "bad" \in opt.faults)
               /\ r.handle.offset = h.offset + 1 /\ r.handle.at = h.at + 1
            \/ /\ h.newOffset < 0 /\ r.block = Hole /\ r.handle.offset = h.offset
               /\ r.handle.at = h.start + h.offset \/ r.handle.at = h.at
            \/ /\ h.newOffset >= 0 /\ r.block = Hole /\ r.handle.offset = h.newOffset
               /\ r.handle.at = h.start + h.newOffset \/ h.newOffset = h.offset
<1> DEFINE h == handle[c]
<1>1. h \in Handles
  BY DEF Types
<1>2. /\ h.offset \in Nat /\ h.newOffset \in Int /\ h.at \in Nat
  BY <1>1, Fields
<1>3. CASE h.newOffset >= 0
  <2>1. PICK e \in Outcomes : r = [handle |-> AfterSeek(h, e = "nil"), block |-> Hole, err |-> e]
    BY <1>3 DEF ReadSteps
  <2>2. r.handle = AfterSeek(h, e = "nil") /\ r.block = Hole /\ r.err = e
    BY <2>1
  <2>3. (e = "nil") \in BOOLEAN
    OBVIOUS
  <2> QED BY <1>1, <1>3, <2>2, <2>3, Sought
<1>4. CASE h.newOffset < 0
  <2>1. CASE r = [handle |-> Advance(h), block |-> h.at + 1, err |-> "nil"]
    <3>1. h.at + 1 # Hole /\ "nil" \in Outcomes
      BY <1>2 DEF Hole, Outcomes
    <3> QED BY <1>1, <1>2, <1>4, <2>1, <3>1, Advances
  <2>2. CASE /\ "bad" \in opt.faults /\ faults > 0
             /\ r = [handle |-> Advance(h), block |-> Bad, err |-> "bad"]
    BY <1>1, <1>2, <1>4, <2>2, Advances DEF Bad, Hole
  <2>3. ASSUME NEW e \in Outcomes, NEW ok \in BOOLEAN,
               r = [handle |-> Break(h, e = "retry", ok), block |-> Hole, err |-> e]
        PROVE  /\ r.handle \in Handles /\ r.block = Hole /\ r.err \in Outcomes
               /\ r.handle.start = h.start /\ r.handle.end = h.end
               /\ r.handle.newOffset = h.newOffset /\ r.handle.offset = h.offset
               /\ r.handle.at = h.start + h.offset \/ r.handle.at = h.at
    <3>1. r.handle = Open(h, ok) \/ r.handle = Failed(h)
      BY <2>3 DEF Break
    <3> QED BY <1>1, <2>3, <3>1, Opens, Closes
  <2>4. \/ r = [handle |-> Advance(h), block |-> h.at + 1, err |-> "nil"]
        \/ /\ "bad" \in opt.faults /\ faults > 0
           /\ r = [handle |-> Advance(h), block |-> Bad, err |-> "bad"]
        \/ \E e \in Outcomes, ok \in BOOLEAN :
             r = [handle |-> Break(h, e = "retry", ok), block |-> Hole, err |-> e]
    BY <1>2, <1>4 DEF ReadSteps
  <2> QED BY <1>1, <1>2, <1>4, <2>1, <2>2, <2>3, <2>4
<1> QED BY <1>2, <1>3, <1>4

LEMMA Fresh ==
  /\ 1 \in Chunks /\ \A c \in Chunks : c \in Nat /\ c - 1 \in Nat
  /\ NoHandles \in [Chunks -> Handles]
  /\ NoChunks \in [Chunks -> {"wait", "read", "write", "done", "failed"}]
  /\ Size \in Nat /\ 0 \in Nat
BY CopyAssumption, New DEF Chunks, NoHandles, NoChunks

\* The options never change, nobody takes a cancellation back, and a call that has
\* returned does nothing more.
LEMMA Standing ==
  ASSUME Next
  PROVE  opt' = opt /\ (cancelled => cancelled') /\ pc # "done"
<1>1. opt' = opt /\ pc # "done"
  BY DEF Next, Prepare, Find, NeedTransfer, CopyDest, CopyDestEqual, CopyDestBackup,
         CopyDestCopy, Backup, Skip,
         Move, Op, ServerMove, MoveAside, MoveBack, DeleteSource, CopyFile, MultiThread, Waited,
         Try, Stream, Stored, Launch, ReadChunk, WriteChunk, Tried, Ended, Verify, Rename, Clean,
         Cancel, Exit
<1>2. cancelled' = cancelled \/ cancelled' = TRUE
  BY DEF Next, Prepare, Find, NeedTransfer, CopyDest, CopyDestEqual, CopyDestBackup,
         CopyDestCopy, Backup, Skip,
         Move, Op, ServerMove, MoveAside, MoveBack, DeleteSource, CopyFile, MultiThread, Waited,
         Try, Stream, Stored, Launch, ReadChunk, WriteChunk, Tried, Ended, Verify, Rename, Clean,
         Cancel, Exit
<1> QED BY <1>1, <1>2

LEMMA Laid ==
  /\ \A f : f \in [Chunks -> Blocks] => f \in Seq(Blocks)
  /\ NothingSent \in Seq(Blocks)
<1>1. Size \in Nat
  BY Fresh
<1>2. ASSUME NEW f \in [1..Size -> Blocks] PROVE f \in Seq(Blocks)
  BY <1>1, <1>2
<1>3. NothingSent \in [1..Size -> Blocks]
  BY DEF NothingSent, Blocks
<1> QED BY <1>2, <1>3 DEF Chunks

LEMMA HandlesTyped ==
  ASSUME Types, Next
  PROVE  handle' \in [Chunks -> Handles]
<1>1. CASE Try
  <2>1. \A ok \in BOOLEAN : Open(NewHandle(0, Size), ok) \in Handles
    BY Fresh, New, Opens
  <2> QED BY <1>1, <2>1, Fresh DEF Try, Types
<1>2. CASE Stream
  BY <1>2, Reads, Fresh DEF Stream, Types
<1>3. CASE Stored
  BY <1>3, Closes, Fresh DEF Stored, Types
<1>4. ASSUME NEW c \in Chunks, Launch(c) PROVE handle' \in [Chunks -> Handles]
  <2>1. \A ok \in BOOLEAN : Open(NewHandle(c - 1, c), ok) \in Handles
    BY Fresh, New, Opens
  <2> QED BY <1>4, <2>1 DEF Launch, Types
<1>5. ASSUME NEW c \in Chunks, ReadChunk(c) PROVE handle' \in [Chunks -> Handles]
  BY <1>5, Reads DEF ReadChunk, Types
<1>6. ASSUME NEW c \in Chunks, WriteChunk(c) PROVE handle' \in [Chunks -> Handles]
  <2>1. handle[c] \in Handles /\ Close(handle[c]) \in Handles /\ Seek(handle[c], 0) \in Handles
    BY Closes, Seeks, Fresh DEF Types
  <2>2. \/ handle' = [handle EXCEPT ![c] = Close(@)]
        \/ handle' = [handle EXCEPT ![c] = Seek(@, 0)]
        \/ handle' = handle
    BY <1>6 DEF WriteChunk
  <2> QED BY <2>1, <2>2 DEF Types
<1>7. CASE UNCHANGED handle
  BY <1>7 DEF Types
<1> QED
  BY <1>1, <1>2, <1>3, <1>4, <1>5, <1>6, <1>7
  DEF Next, Prepare, Find, NeedTransfer, CopyDest, CopyDestEqual, CopyDestBackup,
         CopyDestCopy, Backup, Skip,
      Move, Op, ServerMove, MoveAside, MoveBack, DeleteSource, CopyFile, MultiThread, Waited,
      Tried, Ended, Verify, Rename, Clean, Cancel, Exit, upload

LEMMA ChunksTyped ==
  ASSUME Types, Next
  PROVE  chunk' \in [Chunks -> {"wait", "read", "write", "done", "failed"}]
<1>1. ASSUME NEW c \in Chunks, Launch(c) \/ ReadChunk(c) \/ WriteChunk(c)
      PROVE  \E s \in {"read", "write", "done", "failed"} : chunk' = [chunk EXCEPT ![c] = s]
  BY <1>1 DEF Launch, ReadChunk, WriteChunk
<1>2. UNCHANGED chunk \/ chunk' = NoChunks
      \/ \E c \in Chunks : Launch(c) \/ ReadChunk(c) \/ WriteChunk(c)
  BY DEF Next, Prepare, Find, NeedTransfer, CopyDest, CopyDestEqual, CopyDestBackup,
         CopyDestCopy, Backup, Skip,
      Move, Op, ServerMove, MoveAside, MoveBack, DeleteSource, CopyFile, MultiThread, Waited,
      Try, Stream, Stored, Tried, Ended, Verify, Rename, Clean, Cancel, Exit, upload
<1> QED BY <1>1, <1>2, Fresh DEF Types

LEMMA FaultsTyped ==
  ASSUME Types, Next
  PROVE  faults' \in Nat
<1> DEFINE One == \/ UNCHANGED faults
                  \/ \E e : (e \in Outcomes \/ (e = "bad" /\ faults > 0)) /\ Counted(e)
<1>1. ASSUME Stream PROVE One
  BY <1>1, Reads, Fresh DEF Stream
<1>2. ASSUME NEW c \in Chunks, ReadChunk(c) PROVE One
  BY <1>2, Reads DEF ReadChunk
<1>3. ASSUME NEW c \in Chunks, Launch(c) \/ WriteChunk(c) PROVE One
  BY <1>3 DEF Launch, WriteChunk
<1>4. ASSUME Find \/ Verify \/ Rename \/ Clean PROVE One
  BY <1>4 DEF Find, Verify, Rename, Clean
<1>5. ASSUME CopyDestCopy \/ Skip \/ Tried \/ Ended \/ Cancel \/ Exit PROVE One
  BY <1>5 DEF CopyDestCopy, Skip, Tried, Ended, Cancel, Exit
<1>14. ASSUME NEW by, NEW same, Compared(by, same) PROVE One
  BY <1>14 DEF Compared
<1>15. ASSUME NeedTransfer \/ CopyDestEqual PROVE One
  BY <1>14, <1>15 DEF NeedTransfer, CopyDestEqual
<1>6. ASSUME CopyDest PROVE One
  BY <1>6 DEF CopyDest, Outcomes
<1>7. ASSUME CopyDestBackup \/ Backup PROVE One
  BY <1>7 DEF CopyDestBackup, Backup, AboutDst, SetAside
<1>8. ASSUME Op PROVE One
  BY <1>8 DEF Op, AboutDst
<1>9. ASSUME ServerMove \/ MoveAside \/ MoveBack \/ DeleteSource PROVE One
  BY <1>9 DEF ServerMove, MoveAside, MoveBack, DeleteSource
<1>10. ASSUME Try PROVE One
  BY <1>10 DEF Try
<1>11. ASSUME Stored PROVE One
  <2>1. CASE AtEnd(handle[1])
    BY <1>11, <2>1 DEF Stored
  <2>2. CASE ~AtEnd(handle[1])
    BY <1>11, <2>2 DEF Stored
  <2> QED BY <2>1, <2>2
<1>12. ASSUME Waited PROVE One
  BY <1>12 DEF Waited
<1>13. One
  BY <1>1, <1>2, <1>3, <1>4, <1>5, <1>6, <1>7, <1>8, <1>9, <1>10, <1>11, <1>12,
     <1>15
  DEF Next, Prepare, Move, CopyFile, MultiThread
<1> QED BY <1>13, Counts DEF Types

\* What the actions do to the files.
LEMMA Puts ==
  ASSUME Types, NEW n \in Names, NEW f, f = None \/ IsFile(f)
  PROVE  AreFiles([files EXCEPT ![n] = f])
BY DEF Types, AreFiles

LEMMA Moves ==
  ASSUME Types, NEW from \in Names, NEW to \in Names
  PROVE  AreFiles(Moved(from, to)) /\ AreFiles(Removed(from))
BY DEF Types, AreFiles, Moved, Removed

LEMMA Made ==
  ASSUME NEW d, NEW t \in BOOLEAN
  PROVE  IsFile([data |-> d, time |-> t]) /\ [data |-> d, time |-> t].data = d
         /\ [data |-> d, time |-> t].time = t
BY DEF IsFile

LEMMA PartTimed == [Part EXCEPT !.time = TRUE] = [data |-> sent, time |-> TRUE]
<1> DEFINE S == [data : {sent}, time : BOOLEAN]
           g == [Part EXCEPT !.time = TRUE]
<1>1. Part \in S
  BY DEF Part
<1>2. g \in S /\ g.data = sent /\ g.time = TRUE
  BY <1>1
<1>3. \A r \in S : r = [data |-> r.data, time |-> r.time]
  OBVIOUS
<1>4. g = [data |-> sent, time |-> TRUE]
  BY <1>2, <1>3
<1> QED BY <1>4

\* The file found at dst, with the time of the source.
Timed == [files EXCEPT !["dst"] = [data |-> opt.files["dst"].data, time |-> TRUE]]

\* What comes of a comparison with the file found at dst, which may be gone.
LEMMA Compares ==
  ASSUME Types, Found, known, NEW by, NEW same, Compared(by, same),
         files["dst"] = opt.files["dst"] \/ (files["dst"] = None /\ opt.setTime = "delete")
  PROVE  LET f == opt.files["dst"] IN
         /\ f # None /\ [data |-> f.data, time |-> TRUE] # None
         /\ same => Equal(f, by) \/ (TimeDiffers(f, by) /\ opt.setTime # "delete")
         /\ \/ files' = files
            \/ files' = Timed /\ same /\ TimeDiffers(f, by) /\ files["dst"] = f
            \/ /\ files' = Removed("dst") /\ ~same /\ TimeDiffers(f, by)
               /\ opt.setTime = "delete" /\ opt.backup # "dir"
<1> DEFINE f == opt.files["dst"]
<1>1. f # None
  BY DEF Found
<1>2. f \in Files
  BY <1>1, Scenario DEF Names
<1>3. [data |-> f.data, time |-> TRUE] # None
  BY <1>2, NotNone DEF Files
<1>4. files["dst"] = f => [files EXCEPT !["dst"].time = TRUE] = Timed
  BY <1>1, TimeSet DEF Timed
<1>5. CASE ~Resets(f, by) /\ files' = files
           /\ same = (Equal(f, by) \/ (opt.setTime = "leave" /\ TimeDiffers(f, by)))
  BY <1>1, <1>3, <1>5
<1>6. CASE Hashes(f, by) /\ ~same /\ files' = files
  BY <1>1, <1>3, <1>6
<1>7. CASE /\ Resets(f, by) /\ same = (opt.setTime = "ok")
           /\ \E e \in Outcomes :
                Effect(e, IF same THEN [files EXCEPT !["dst"].time = TRUE] ELSE Removed("dst"))
  <2>1. /\ TimeDiffers(f, by)
        /\ opt.setTime = "ok" \/ (opt.setTime = "delete" /\ opt.backup # "dir")
    BY <1>7 DEF Resets
  <2>2. files' \in {files, IF same THEN [files EXCEPT !["dst"].time = TRUE] ELSE Removed("dst")}
    BY <1>7 DEF Effect
  <2>3. CASE opt.setTime = "ok"
    BY <1>1, <1>3, <1>4, <1>7, <2>1, <2>2, <2>3
  <2>4. CASE opt.setTime = "delete" /\ opt.backup # "dir"
    BY <1>1, <1>3, <1>7, <2>1, <2>2, <2>4
  <2> QED BY <2>1, <2>3, <2>4
<1> QED BY <1>5, <1>6, <1>7 DEF Compared

\* NeedTransfer.
LEMMA Needs ==
  ASSUME Types, Found, NeedTransfer
  PROVE  LET f == opt.files["dst"] IN
         /\ pc = "need" /\ files["dst"] = f /\ (known => f # None)
         /\ opt' = opt /\ known' = known /\ cancelled' = cancelled /\ result' = result
         /\ known => [data |-> f.data, time |-> TRUE] # None
         /\ \/ pc' = "compare" /\ files' = files
            \/ /\ pc' = "skip" /\ files' = files /\ known
               /\ opt.ignoreExisting \/ KeepsNewer \/ Equal(f, Basis) \/ TimeDiffers(f, Basis)
            \/ /\ pc' = "skip" /\ files' = Timed /\ known /\ TimeDiffers(f, Basis)
            \/ /\ pc' = "compare" /\ files' = Removed("dst") /\ known /\ TimeDiffers(f, Basis)
               /\ opt.setTime = "delete" /\ opt.backup # "dir"
<1> DEFINE f == opt.files["dst"]
<1>1. /\ pc = "need" /\ files["dst"] = f /\ (known => f # None /\ ~opt.noCheckDest)
      /\ opt' = opt /\ known' = known /\ cancelled' = cancelled /\ result' = result
  BY DEF NeedTransfer, Found, Go
<1>2. known => [data |-> f.data, time |-> TRUE] # None
  <2>1. known => f \in Files
    BY <1>1, Scenario DEF Names
  <2> QED BY <2>1, NotNone DEF Files
<1>3. CASE pc' = "compare" /\ files' = files
  BY <1>1, <1>2, <1>3
<1>4. CASE known /\ opt.ignoreExisting /\ pc' = "skip" /\ files' = files
  BY <1>1, <1>2, <1>4
<1>5. CASE known /\ ~opt.ignoreTimes /\ Newer(files["dst"]) /\ pc' = "skip" /\ files' = files
  BY <1>1, <1>2, <1>5 DEF Newer, KeepsNewer
<1>6. ASSUME known, NEW same \in BOOLEAN, Compared(Basis, same),
             pc' = IF same THEN "skip" ELSE "compare"
      PROVE  \/ pc' = "compare" /\ files' = files
             \/ /\ pc' = "skip" /\ files' = files
                /\ Equal(f, Basis) \/ TimeDiffers(f, Basis)
             \/ pc' = "skip" /\ files' = Timed /\ TimeDiffers(f, Basis)
             \/ /\ pc' = "compare" /\ files' = Removed("dst") /\ TimeDiffers(f, Basis)
                /\ opt.setTime = "delete" /\ opt.backup # "dir"
  BY <1>1, <1>6, Compares
<1>7. \/ pc' = "compare" /\ files' = files
      \/ known /\ opt.ignoreExisting /\ pc' = "skip" /\ files' = files
      \/ known /\ ~opt.ignoreTimes /\ Newer(files["dst"]) /\ pc' = "skip" /\ files' = files
      \/ known /\ \E same \in BOOLEAN :
           Compared(Basis, same) /\ pc' = IF same THEN "skip" ELSE "compare"
  BY DEF NeedTransfer, Go
<1> QED BY <1>1, <1>2, <1>3, <1>4, <1>5, <1>6, <1>7

\* The second comparison of copyDest.
LEMMA Equals ==
  ASSUME Types, Places, Found, CopyDestEqual
  PROVE  LET f == opt.files["dst"] IN
         /\ pc = "equal" /\ known /\ f # None
         /\ opt' = opt /\ known' = known /\ cancelled' = cancelled /\ result' = result
         /\ [data |-> f.data, time |-> TRUE] # None
         /\ \/ /\ pc' = "skip" /\ files' = files
               /\ Equal(f, opt.check) \/ (TimeDiffers(f, opt.check) /\ opt.setTime # "delete")
            \/ /\ pc' = "skip" /\ files' = Timed /\ TimeDiffers(f, opt.check)
            \/ pc' \in {"copybackup", "copydest"} /\ files' \in {files, Removed("dst")}
<1> DEFINE f == opt.files["dst"]
<1>1. /\ pc = "equal" /\ known /\ f # None
      /\ opt' = opt /\ known' = known /\ cancelled' = cancelled /\ result' = result
  BY DEF CopyDestEqual, Found, Places, Go
<1>2. PICK same \in BOOLEAN :
        /\ Compared(opt.check, same)
        /\ pc' = CASE same -> "skip"
                   [] ~same /\ opt.backup # "no" -> "copybackup"
                   [] OTHER -> "copydest"
  BY DEF CopyDestEqual, Go
<1>3. files["dst"] = f \/ (files["dst"] = None /\ opt.setTime = "delete")
  BY <1>1 DEF Found, Unset
<1>4. /\ [data |-> f.data, time |-> TRUE] # None
      /\ same => Equal(f, opt.check) \/ (TimeDiffers(f, opt.check) /\ opt.setTime # "delete")
      /\ \/ files' = files
         \/ files' = Timed /\ same /\ TimeDiffers(f, opt.check)
         \/ files' = Removed("dst") /\ ~same
  BY <1>1, <1>2, <1>3, Compares
<1> QED BY <1>1, <1>2, <1>4

\* What is found equal to the source is the source, where what passes for it is.
LEMMA Trusting ==
  ASSUME Types, Places, Trusted
  PROVE  /\ LET f == opt.files["dst"] IN
            f # None /\ (\/ Equal(f, Basis) \/ TimeDiffers(f, Basis)
                        \/ Equal(f, opt.check) \/ TimeDiffers(f, opt.check)) => f.data = Whole
         /\ Elsewhere => HasSource("copydest")
<1> DEFINE f == opt.files["dst"]
           g == opt.files["copydest"]
<1>1. /\ f # None /\ SameSize(f) /\ (f.time \/ Equal(f, opt.check)) => f.data = Whole
      /\ g # None /\ SameSize(g) /\ (g.time \/ Equal(g, opt.check)) => g.data = Whole
  BY DEF Trusted
<1>2. \A by : (Equal(f, by) \/ TimeDiffers(f, by) => SameSize(f))
             /\ (TimeDiffers(f, by) => f.data = Whole)
  BY DEF Equal, TimeDiffers, SameHash
<1>3. Equal(f, Basis) => f.time \/ Equal(f, opt.check)
  <2>1. CASE Basis = opt.check
    BY <2>1
  <2>2. CASE Basis # opt.check /\ ~f.time
    <3>1. Basis = "time"
      BY <2>2 DEF Basis
    <3> QED BY <2>2, <3>1 DEF Equal
  <2>3. CASE f.time
    BY <2>3
  <2> QED BY <2>1, <2>2, <2>3
<1>4. Elsewhere => HasSource("copydest")
  BY <1>1 DEF Elsewhere, Places, Equal, TimeDiffers, SameHash, HasSource
<1> QED BY <1>1, <1>2, <1>3, <1>4

\* copyDest takes a file that was removed for one that is there, only as ForgetsRemoval
\* says.
LEMMA Forgets ==
  ASSUME Unset, opt.dest = "copy", Equal(opt.files["dst"], opt.check)
  PROVE  ForgetsRemoval
<1> DEFINE f == opt.files["dst"]
<1>1. opt.setTime = "delete" /\ Basis = "time" /\ ~f.time
  BY DEF Unset, TimeDiffers
<1>2. opt.check # "time"
  BY <1>1 DEF Equal
<1> QED BY <1>1, <1>2 DEF Basis, ForgetsRemoval

LEMMA SettledStays ==
  ASSUME opt' = opt, files'["dst"] = files["dst"], files'["copydest"] = files["copydest"],
         Settled
  PROVE  Settled'
BY DEF Settled, HasSource, KeepsNewer, Is, ForgetsRemoval

LEMMA TrustStays ==
  ASSUME opt' = opt
  PROVE  Trusted' = Trusted /\ Unseen' = Unseen
BY DEF Trusted, Unseen, SameSize, Equal, SameHash

LEMMA FilesTyped ==
  ASSUME Types, Places, Found, Next
  PROVE  AreFiles(files')
<1> DEFINE Ok == AreFiles(files')
<1> USE DEF Names, Target
<1>1. ASSUME files' = files PROVE Ok
  BY <1>1 DEF Types
<1>2. ASSUME CopyDestBackup \/ Backup PROVE Ok
  <2>1. files["dst"] = None \/ IsFile(files["dst"])
    BY DEF Types, AreFiles
  <2>2. AreFiles([files EXCEPT !["backup"] = files["dst"]])
    BY <2>1, Puts
  <2> QED BY <1>1, <1>2, <2>2, Moves DEF CopyDestBackup, Backup, SetAside, Effect
<1>3. ASSUME NeedTransfer \/ CopyDestEqual PROVE Ok
  <2>1. known => files' \in {files, Removed("dst"), Timed}
    BY <1>3, Needs, Equals
  <2>2. ~known => files' = files
    BY <1>3 DEF NeedTransfer, CopyDestEqual, Places
  <2>3. AreFiles(Timed)
    BY Made, Puts DEF Timed
  <2> QED BY <1>1, <2>1, <2>2, <2>3, Moves
<1>12. \A n \in Names : \A g \in Left(n) : AreFiles(g)
  <2>1. IsFile(Part)
    BY Made DEF Part
  <2> QED BY <2>1, Puts, Moves DEF Left, Types
<1>4. ASSUME CopyDestCopy PROVE Ok
  <2>1. files["copydest"] = None \/ IsFile(files["copydest"])
    BY DEF Types, AreFiles
  <2> QED BY <1>1, <1>4, <1>12, <2>1, Puts DEF CopyDestCopy, Effect
<1>13. ASSUME MoveAside \/ MoveBack PROVE Ok
  <2>1. \A n \in Names : files[n] = None \/ IsFile(files[n])
    BY DEF Types, AreFiles
  <2>2. \A n, m \in Names : AreFiles([files EXCEPT ![m] = files[n]])
    BY <2>1, Puts
  <2> QED BY <1>1, <1>12, <1>13, <2>2, Moves DEF MoveAside, MoveBack, Relocated, Effect
<1>5. ASSUME Op \/ ServerMove \/ DeleteSource PROVE Ok
  BY <1>1, <1>5, Moves DEF Op, ServerMove, DeleteSource, Effect
<1>6. ASSUME Try PROVE Ok
  <2>1. files["src"] = None \/ IsFile(files["src"])
    BY DEF Types, AreFiles
  <2>2. IsFile([data |-> NothingSent, time |-> FALSE])
    BY Made
  <2> QED BY <1>1, <1>6, <2>1, <2>2, Puts DEF Try, Effect
<1>7. ASSUME Stored PROVE Ok
  <2>1. IsFile(Part) /\ IsFile([Part EXCEPT !.time = TRUE])
    BY Made, PartTimed DEF Part
  <2> QED BY <1>1, <1>7, <2>1, Puts, Moves DEF Stored, Left
<1>8. ASSUME Waited PROVE Ok
  <2>1. /\ IsFile(Part) /\ \A t \in BOOLEAN : IsFile([data |-> sent, time |-> t])
        /\ IsFile([data |-> Joined, time |-> TRUE])
    BY Made DEF Part
  <2>2. \A t \in BOOLEAN : AreFiles(Finished(t))
    BY <2>1, Puts DEF Finished
  <2>3. \A g \in Aborted : AreFiles(g)
    BY <2>1, Puts, Moves DEF Aborted, Types
  <2>4. files' \in Aborted \cup {Finished(TRUE), Finished(FALSE)}
    BY <1>8 DEF Waited
  <2> QED BY <2>2, <2>3, <2>4
<1>9. ASSUME Rename \/ Clean PROVE Ok
  BY <1>1, <1>9, Moves DEF Rename, Clean, Effect
<1>10. ASSUME Exit PROVE Ok
  <2>1. IsFile(Part)
    BY Made DEF Part
  <2> QED BY <1>1, <1>10, <2>1, Puts, Moves DEF Exit, Left
<1>11. \/ UNCHANGED files \/ CopyDestBackup \/ Backup \/ NeedTransfer \/ CopyDestEqual
       \/ CopyDestCopy \/ Op \/ ServerMove \/ MoveAside \/ MoveBack \/ DeleteSource \/ Try
       \/ Stored \/ Waited \/ Rename \/ Clean \/ Exit
  BY DEF Next, Prepare, Move, CopyFile, MultiThread, Find, CopyDest, Skip, Stream, Launch,
         ReadChunk, WriteChunk, Tried, Ended, Verify, Cancel
<1> QED BY <1>1, <1>2, <1>3, <1>4, <1>5, <1>6, <1>7, <1>8, <1>9, <1>10, <1>11,
         <1>13

\* The rest of the variables.
LEMMA TypesKept ==
  ASSUME Types, Places, Found, Next
  PROVE  Types'
<1>1. \A e \in Outcomes : e \in {"nil", "retry", "fail"}
  BY Scenario DEF Outcomes
<1>2. opt' = opt
  BY Standing
<1>3. err' \in Errors
  <2>1. CASE Try
    BY <1>1, <2>1 DEF Try, Errors, Types
  <2>2. CASE Stored
    BY <1>1, <2>2 DEF Stored, Errors
  <2>3. CASE Waited
    BY <1>1, <2>3 DEF Waited, Errors
  <2>4. CASE Tried
    BY <2>4 DEF Tried, Errors, Types
  <2>5. CASE Clean
    BY <2>5 DEF Clean, Errors
  <2>6. CASE UNCHANGED err
    BY <2>6 DEF Types
  <2> QED
    BY <2>1, <2>2, <2>3, <2>4, <2>5, <2>6
    DEF Next, Prepare, Find, NeedTransfer, CopyDest, CopyDestEqual, CopyDestBackup,
         CopyDestCopy, Backup, Skip,
        Move, Op, ServerMove, MoveAside, MoveBack, DeleteSource, CopyFile, MultiThread,
        Stream, Launch, ReadChunk, WriteChunk, Ended, Verify, Rename, Cancel, Exit
<1>4. tries' \in Nat /\ known' \in BOOLEAN
  <2>1. tries' \in {tries, tries + 1}
    BY DEF Next, Prepare, Find, NeedTransfer, CopyDest, CopyDestEqual, CopyDestBackup,
       CopyDestCopy, Backup, Skip, Move, Op, ServerMove, MoveAside, MoveBack, DeleteSource,
       CopyFile, MultiThread, Waited, Try, Stream, Stored, Launch, ReadChunk, WriteChunk,
       Tried, Ended, Verify, Rename, Clean, Cancel, Exit
  <2>2. known' = known \/ known' \in BOOLEAN
    BY DEF Next, Prepare, Find, NeedTransfer, CopyDest, CopyDestEqual, CopyDestBackup,
       CopyDestCopy, Backup, Skip, Move, Op, ServerMove, MoveAside, MoveBack, DeleteSource,
       CopyFile, MultiThread, Waited, Try, Stream, Stored, Launch, ReadChunk, WriteChunk,
       Tried, Ended, Verify, Rename, Clean, Cancel, Exit
  <2> QED BY <2>1, <2>2 DEF Types
<1>5. gone' \in BOOLEAN /\ cancelled' \in BOOLEAN
  <2>1. CASE Prepare \/ Move
    BY <2>1 DEF Types, Prepare, Find, NeedTransfer, CopyDest, CopyDestEqual, CopyDestBackup,
        CopyDestCopy, Backup, Skip, Move, Op, ServerMove, MoveAside, MoveBack, DeleteSource, upload
  <2>2. CASE CopyFile \/ Cancel \/ Exit
    BY <2>2 DEF Types, CopyFile, MultiThread, Waited, Try, Stream, Stored, Launch, ReadChunk,
        WriteChunk, Tried, Ended, Verify, Rename, Clean, Cancel, Exit, upload
  <2> QED BY <2>1, <2>2 DEF Next
<1>6. /\ pc' \in Before \cup Uploading \cup {"delete", "done"}
      /\ result' \in {"none", "nil", "error", "exit"}
  <2> USE DEF Types, Before, Uploading, Go, Return, Copied
  <2>1. CASE Prepare \/ Move
    BY <2>1 DEF Prepare, Find, NeedTransfer, CopyDest, CopyDestEqual, CopyDestBackup,
        CopyDestCopy, Backup, Skip, Move, Op, ServerMove, MoveAside, MoveBack, DeleteSource
  <2>2. CASE CopyFile \/ Cancel \/ Exit
    BY <2>2 DEF CopyFile, MultiThread, Waited, Try, Stream, Stored, Launch, ReadChunk,
        WriteChunk, Tried, Ended, Verify, Rename, Clean, Cancel, Exit
  <2> QED BY <2>1, <2>2 DEF Next
<1> QED
  BY <1>2, <1>3, <1>4, <1>5, <1>6, FilesTyped, HandlesTyped, ChunksTyped, FaultsTyped DEF Types

-----------------------------------------------------------------------------
(* What an upload has read. *)

\* All that was to be read has been read, and is the source's.
AllRead ==
  /\ pc = "stream" /\ AtEnd(handle[1]) /\ "bad" \notin opt.faults => sent = Whole
  /\ pc = "chunks" => opt.way = "multi"
  /\ pc = "chunks" /\ Running = {} /\ ~gone /\ (\A c \in Chunks : chunk[c] # "wait")
     /\ "bad" \notin opt.faults => sent = Whole /\ Joined = Whole

LEMMA ReadWhole ==
  ASSUME Types, Streamed, Chunked
  PROVE  AllRead
<1>1. ASSUME pc = "stream", AtEnd(handle[1]), "bad" \notin opt.faults PROVE sent = Whole
  <2>1. /\ sent \in Seq(Blocks) /\ \A i \in 1..Len(sent) : sent[i] = i
        /\ Len(sent) = Size - 0
    BY <1>1 DEF Streamed, From, AtEnd
  <2>2. Len(sent) = Size
    BY <2>1, Fresh
  <2> QED BY <2>1, <2>2 DEF Whole
<1>2. ASSUME pc = "chunks", Running = {}, ~gone, \A c \in Chunks : chunk[c] # "wait",
             "bad" \notin opt.faults
      PROVE  sent = Whole /\ Joined = Whole
  <2>1. \A c \in Chunks : chunk[c] = "done"
    BY <1>2 DEF Types, Running, Chunked, Chunk
  <2>2. \A c \in Chunks : sent[c] # Hole /\ sent[c] = c
    BY <1>2, <2>1 DEF Chunked, Chunk, From
  <2>3. sent = [c \in Chunks |-> c]
    BY <1>2, <2>2 DEF Chunked
  <2>4. Joined = sent
    BY <2>2 DEF Joined
  <2> QED BY <2>3, <2>4 DEF Whole, Chunks
<1>3. pc = "chunks" => opt.way = "multi"
  BY DEF Chunked
<1> QED BY <1>1, <1>2, <1>3 DEF AllRead

LEMMA StreamedKept ==
  ASSUME Types, Streamed, Next
  PROVE  Streamed'
<1> SUFFICES ASSUME pc' = "stream"
             PROVE  Streamed'
  BY DEF Streamed
<1>1. CASE Try
  <2> DEFINE new == NewHandle(0, Size)
  <2>1. /\ opt' = opt /\ sent' = <<>>
        /\ \E ok \in BOOLEAN : handle' = [NoHandles EXCEPT ![1] = Open(new, ok)]
    BY <1>1 DEF Try, Go, Return
  <2>2. PICK ok \in BOOLEAN : handle'[1] = Open(new, ok)
    BY <2>1, Fresh
  <2>3. /\ new \in Handles /\ new.start = 0 /\ new.end = Size /\ new.newOffset = -1
        /\ new.offset = 0
    BY New, Fresh
  <2> HIDE DEF new
  <2>4. /\ handle'[1].start = 0 /\ handle'[1].end = Size /\ handle'[1].newOffset = -1
        /\ handle'[1].offset = 0 /\ handle'[1].at = 0
    BY <2>2, <2>3, Opens
  <2> QED BY <2>1, <2>4, Fresh DEF Streamed
<1>2. CASE Stream
  <2>1. PICK r \in ReadSteps(handle[1]) :
          /\ handle' = [handle EXCEPT ![1] = r.handle]
          /\ sent' = IF r.block = Hole THEN sent ELSE Append(sent, r.block)
    BY <1>2 DEF Stream
  <2>2. pc = "stream" /\ opt' = opt
    BY <1>2 DEF Stream
  <2>3. handle'[1] = r.handle
    BY <2>1, Fresh DEF Types
  <2>4. /\ sent \in Seq(Blocks) /\ Len(sent) <= Size /\ handle[1].start = 0 /\ handle[1].end = Size
        /\ handle[1].newOffset = -1 /\ handle[1].offset = Len(sent) /\ handle[1].at = Len(sent)
        /\ \A i \in 1..Len(sent) : From(i, sent[i])
        /\ Len(sent) \in Nat
    BY <2>2 DEF Streamed
  <2>5. /\ r.handle.start = 0 /\ r.handle.end = Size /\ r.handle.newOffset = -1
        /\ \/ /\ r.block # Hole
              /\ r.block = Len(sent) + 1 \/ (r.block = Bad /\ "bad" \in opt.faults)
              /\ r.handle.offset = Len(sent) + 1 /\ r.handle.at = Len(sent) + 1
           \/ /\ r.block = Hole /\ r.handle.offset = Len(sent) /\ r.handle.at = Len(sent)
    <3>1. /\ r.handle.start = handle[1].start /\ r.handle.end = handle[1].end
          /\ r.handle.newOffset =
               IF handle[1].newOffset >= 0 THEN -1 ELSE handle[1].newOffset
      BY Reads, Fresh
    <3>2. LET h == handle[1] IN
          \/ /\ h.newOffset < 0 /\ r.block # Hole
             /\ r.block = h.at + 1 \/ (r.block = Bad /\ "bad" \in opt.faults)
             /\ r.handle.offset = h.offset + 1 /\ r.handle.at = h.at + 1
          \/ /\ h.newOffset < 0 /\ r.block = Hole /\ r.handle.offset = h.offset
             /\ r.handle.at = h.start + h.offset \/ r.handle.at = h.at
          \/ h.newOffset >= 0
      BY Reads, Fresh
    <3> QED BY <2>4, <3>1, <3>2
  <2>6. CASE r.block = Hole
    BY <2>1, <2>2, <2>3, <2>4, <2>5, <2>6 DEF Streamed, From
  <2>7. CASE r.block # Hole
    <3>1. From(Len(sent) + 1, r.block)
      BY <2>4, <2>5, <2>7 DEF From, Bad
    <3>5. Len(sent) < Size
      BY <1>2, <2>4, Fresh DEF Stream, Reading, AtEnd
    <3>6. r.block \in Blocks
      BY <2>4, <3>1, <3>5, Fresh DEF From, Blocks
    <3>2. sent' = Append(sent, r.block)
      BY <2>1, <2>7
    <3>3. /\ sent' \in Seq(Blocks) /\ Len(sent') = Len(sent) + 1
          /\ \A i \in 1..Len(sent) : sent'[i] = sent[i]
          /\ sent'[Len(sent) + 1] = r.block
      BY <2>4, <3>2, <3>6
    <3>4. \A i \in 1..Len(sent') : From(i, sent'[i])
      BY <2>4, <3>1, <3>3
    <3>7. Len(sent') <= Size
      BY <2>4, <3>3, <3>5, Fresh
    <3> QED BY <2>2, <2>3, <2>5, <2>7, <3>3, <3>4, <3>7 DEF Streamed, From
  <2> QED BY <2>6, <2>7
<1>3. CASE Cancel
  BY <1>3 DEF Cancel, Streamed, From, upload
<1> QED
  BY <1>1, <1>2, <1>3 DEF Next, Prepare, Find, NeedTransfer, CopyDest, CopyDestEqual,
     CopyDestBackup, CopyDestCopy, Backup, Skip, Move, Op, ServerMove, MoveAside, MoveBack,
     DeleteSource, CopyFile, MultiThread, Waited, Stored, Launch, ReadChunk, WriteChunk, Tried,
     Ended, Verify, Rename, Clean, Exit, Go, Return, Copied, upload

\* The chunks that an action is not about are left as they were.
LEMMA Untouched ==
  ASSUME NEW c \in Chunks, Chunk(c), UNCHANGED <<opt, sent[c], chunk[c], handle[c]>>,
         gone => gone'
  PROVE  Chunk(c)'
BY DEF Chunk, From

LEMMA ChunkRead ==
  ASSUME Types, Chunked, NEW c \in Chunks, ReadChunk(c)
  PROVE  Chunk(c)' /\ sent' \in [Chunks -> Blocks] /\ (gone => gone')
<1>1. /\ pc = "chunks" /\ chunk[c] = "read" /\ opt' = opt
      /\ Chunk(c) /\ sent \in [Chunks -> Blocks]
  BY DEF ReadChunk, Chunked
<1>2. CASE chunk' = [chunk EXCEPT ![c] = "failed"] /\ gone' = TRUE /\ UNCHANGED <<handle, sent>>
  BY <1>1, <1>2 DEF Chunk, Types, From
<1>3. CASE /\ Reading(c) /\ UNCHANGED gone
           /\ \E r \in ReadSteps(handle[c]) :
                /\ handle' = [handle EXCEPT ![c] = r.handle]
                /\ sent' = [sent EXCEPT ![c] = r.block]
                /\ chunk' = [chunk EXCEPT ![c] = IF AtEnd(r.handle) THEN "write" ELSE "read"]
  <2>1. PICK r \in ReadSteps(handle[c]) :
          /\ handle' = [handle EXCEPT ![c] = r.handle]
          /\ sent' = [sent EXCEPT ![c] = r.block]
          /\ chunk' = [chunk EXCEPT ![c] = IF AtEnd(r.handle) THEN "write" ELSE "read"]
    BY <1>3
  <2> DEFINE h == handle[c]
             g == r.handle
  <2>2. /\ h \in Handles /\ g \in Handles /\ g.start = h.start /\ g.end = h.end
        /\ g.newOffset = IF h.newOffset >= 0 THEN -1 ELSE h.newOffset
    BY Reads
  <2>3. \/ /\ h.newOffset < 0 /\ r.block # Hole
           /\ r.block = h.at + 1 \/ (r.block = Bad /\ "bad" \in opt.faults)
           /\ g.offset = h.offset + 1 /\ g.at = h.at + 1
        \/ /\ h.newOffset < 0 /\ r.block = Hole /\ g.offset = h.offset
           /\ g.at = h.start + h.offset \/ g.at = h.at
        \/ /\ h.newOffset >= 0 /\ r.block = Hole /\ g.offset = h.newOffset
           /\ g.at = h.start + h.newOffset \/ h.newOffset = h.offset
    BY Reads
  <2>4. /\ h.start = c - 1 /\ h.end = c /\ c \in Nat
        /\ \/ h.newOffset = -1 /\ h.offset = 0 /\ h.at = c - 1
           \/ h.newOffset = 0 /\ h.offset = 1
    BY <1>1, Fresh DEF Chunk
  <2>5. AtEnd(g) <=> g.offset = 1
    BY <2>2, <2>4 DEF AtEnd
  <2>6. \/ /\ r.block # Hole /\ From(c, r.block) /\ AtEnd(g) /\ g.offset = 1
        \/ /\ r.block = Hole /\ ~AtEnd(g) /\ g.offset = 0 /\ g.at = c - 1
    BY <2>2, <2>3, <2>4, <2>5 DEF From
  <2>7. handle'[c] = g /\ sent'[c] = r.block
        /\ chunk'[c] = IF AtEnd(g) THEN "write" ELSE "read"
    BY <1>1, <2>1 DEF Types
  <2>8. r.block \in Blocks
    BY <2>6 DEF From, Blocks, Chunks
  <2>9. g.start = c - 1 /\ g.end = c /\ g.newOffset = -1
    BY <2>2, <2>4
  <2> HIDE DEF g, h
  <2>10. Chunk(c)'
    BY <1>1, <2>6, <2>7, <2>9 DEF Chunk, From
  <2> QED BY <1>1, <1>3, <2>1, <2>8, <2>10
<1> QED BY <1>2, <1>3 DEF ReadChunk

LEMMA ChunkWritten ==
  ASSUME Types, Chunked, NEW c \in Chunks, WriteChunk(c)
  PROVE  Chunk(c)' /\ sent' \in [Chunks -> Blocks] /\ (gone => gone')
<1> DEFINE h == handle[c]
<1>1. /\ pc = "chunks" /\ chunk[c] = "write" /\ opt' = opt
      /\ Chunk(c) /\ sent \in [Chunks -> Blocks] /\ h \in Handles
  BY DEF WriteChunk, Chunked, Types
<1>2. /\ h.start = c - 1 /\ h.end = c /\ h.newOffset = -1 /\ h.offset = 1 /\ sent[c] # Hole
  BY <1>1 DEF Chunk
<1>3. CASE /\ chunk' = [chunk EXCEPT ![c] = "done"]
           /\ handle' = [handle EXCEPT ![c] = Close(@)]
           /\ UNCHANGED <<sent, gone>>
  <2>1. handle'[c] = Close(h) /\ chunk'[c] = "done" /\ sent'[c] = sent[c]
    BY <1>3 DEF Types
  <2>2. Close(h).start = c - 1 /\ Close(h).end = c
    BY <1>1, <1>2, Closes
  <2> QED BY <1>1, <1>2, <1>3, <2>1, <2>2 DEF Chunk, From
<1>4. CASE /\ handle' = [handle EXCEPT ![c] = Seek(@, 0)]
           /\ chunk' = [chunk EXCEPT ![c] = "read"]
           /\ UNCHANGED <<sent, gone>>
  <2>1. handle'[c] = Seek(h, 0) /\ chunk'[c] = "read" /\ sent'[c] = sent[c]
    BY <1>4 DEF Types
  <2>2. /\ Seek(h, 0).start = c - 1 /\ Seek(h, 0).end = c /\ Seek(h, 0).newOffset = 0
        /\ Seek(h, 0).offset = 1
    BY <1>1, <1>2, Seeks, Fresh
  <2> QED BY <1>1, <1>2, <1>4, <2>1, <2>2 DEF Chunk, From
<1>5. CASE /\ chunk' = [chunk EXCEPT ![c] = "failed"] /\ gone' = TRUE
           /\ sent' \in {sent, [sent EXCEPT ![c] = Hole]}
           /\ UNCHANGED handle
  <2>1. chunk'[c] = "failed" /\ sent'[c] \in {sent[c], Hole} /\ handle'[c] = h
    BY <1>1, <1>5 DEF Types
  <2>2. sent' \in [Chunks -> Blocks]
    BY <1>1, <1>5 DEF Blocks
  <2> QED BY <1>1, <1>2, <1>5, <2>1, <2>2 DEF Chunk, From
<1> QED BY <1>3, <1>4, <1>5 DEF WriteChunk

LEMMA ChunkLaunched ==
  ASSUME Types, Chunked, NEW c \in Chunks, Launch(c)
  PROVE  Chunk(c)' /\ sent' \in [Chunks -> Blocks] /\ (gone => gone')
<1> DEFINE new == NewHandle(c - 1, c)
<1>1. /\ pc = "chunks" /\ opt' = opt /\ sent' = sent /\ ~gone
      /\ Chunk(c) /\ sent \in [Chunks -> Blocks]
  BY DEF Launch, Chunked
<1>2. PICK ok \in BOOLEAN : /\ handle'[c] = Open(new, ok)
                            /\ chunk'[c] = IF ok THEN "read" ELSE "failed"
                            /\ gone' = ~ok
  <2>1. \E e \in Outcomes :
          /\ gone' = (e # "nil")
          /\ handle' = [handle EXCEPT ![c] = Open(NewHandle(c - 1, c), e = "nil")]
          /\ chunk' = [chunk EXCEPT ![c] = IF e = "nil" THEN "read" ELSE "failed"]
    BY DEF Launch
  <2> QED BY <2>1 DEF Types
<1>3. /\ new \in Handles /\ new.start = c - 1 /\ new.end = c /\ new.newOffset = -1
      /\ new.offset = 0 /\ c \in Nat
  BY New, Fresh
<1> HIDE DEF new
<1>4. /\ Open(new, ok).start = c - 1 /\ Open(new, ok).end = c
      /\ Open(new, ok).newOffset = -1 /\ Open(new, ok).offset = 0 /\ Open(new, ok).at = c - 1
  BY <1>3, Opens
<1>5. CASE ok
  BY <1>1, <1>2, <1>4, <1>5 DEF Chunk, From
<1>6. CASE ~ok
  BY <1>1, <1>2, <1>4, <1>6 DEF Chunk, From
<1> QED BY <1>5, <1>6

LEMMA ChunkedKept ==
  ASSUME Types, Chunked, Next
  PROVE  Chunked'
<1> SUFFICES ASSUME pc' = "chunks"
             PROVE  Chunked'
  BY DEF Chunked
<1>1. CASE Try
  <2>1. sent' = NothingSent /\ opt.way = "multi" /\ opt' = opt /\ chunk' = NoChunks
    BY <1>1 DEF Try, Go, Return
  <2> QED BY <2>1 DEF Chunked, Chunk, NothingSent, NoChunks, Chunks, Blocks
<1>2. ASSUME NEW c \in Chunks, Launch(c) \/ ReadChunk(c) \/ WriteChunk(c) PROVE Chunked'
  <2>1. Chunk(c)' /\ sent' \in [Chunks -> Blocks] /\ (gone => gone')
    BY <1>2, ChunkLaunched, ChunkRead, ChunkWritten
  <2>2. pc = "chunks" /\ opt' = opt /\ opt.way = "multi" /\ sent \in [Chunks -> Blocks]
        /\ \A d \in Chunks : Chunk(d)
    BY <1>2 DEF Launch, ReadChunk, WriteChunk, Chunked
  <2>3. ASSUME NEW d \in Chunks, d # c PROVE UNCHANGED <<sent[d], chunk[d], handle[d]>>
    BY <1>2, <2>2, <2>3 DEF Launch, ReadChunk, WriteChunk, Types
  <2>4. \A d \in Chunks : Chunk(d)'
    BY <2>1, <2>2, <2>3, Untouched
  <2> QED BY <2>1, <2>2, <2>4 DEF Chunked
<1>3. CASE Cancel
  BY <1>3 DEF Cancel, Chunked, Chunk, From, upload
<1> QED
  BY <1>1, <1>2, <1>3 DEF Next, Prepare, Find, NeedTransfer, CopyDest, CopyDestEqual,
     CopyDestBackup, CopyDestCopy, Backup, Skip, Move, Op, ServerMove, MoveAside, MoveBack,
     DeleteSource, CopyFile, MultiThread, Waited, Stream, Stored, Tried, Ended, Verify, Rename,
     Clean, Exit, Go, Return, Copied, upload

-----------------------------------------------------------------------------
(* The parts of the invariant, one by one. *)

\* A comparison touches nothing but dst.
LEMMA OnlyDst ==
  ASSUME Types, Places, Found, NeedTransfer \/ CopyDestEqual
  PROVE  \A n \in Names \ {"dst"} : files'[n] = files[n]
<1>1. CASE NeedTransfer
  <2>1. files' \in {files, Removed("dst"), Timed}
    BY <1>1, Needs
  <2> QED BY <2>1 DEF Timed, Removed, Types, AreFiles
<1>2. CASE CopyDestEqual
  <2>1. files' \in {files, Removed("dst"), Timed}
    BY <1>2, Equals
  <2> QED BY <2>1 DEF Timed, Removed, Types, AreFiles
<1> QED BY <1>1, <1>2

LEMMA CopyDestKept ==
  ASSUME Types, Places, Found, Next
  PROVE  files'["copydest"] = files["copydest"]
<1> USE DEF Types, AreFiles, Names, upload, Removed, Moved, Effect, Target
<1>1. CASE Prepare /\ ~(NeedTransfer \/ CopyDestEqual)
  BY <1>1 DEF Prepare, Find, CopyDest, CopyDestBackup, CopyDestCopy, Backup, Skip, SetAside,
              Left, Part
<1>6. CASE NeedTransfer \/ CopyDestEqual
  BY <1>6, OnlyDst DEF NeedTransfer, CopyDestEqual
<1>2. CASE Move
  BY <1>2 DEF Move, Op, ServerMove, MoveAside, MoveBack, DeleteSource, Relocated, Left, Part
<1>3. CASE MultiThread
  BY <1>3 DEF MultiThread, Launch, ReadChunk, WriteChunk, Waited, Aborted, Finished
<1>4. CASE CopyFile /\ ~MultiThread
  BY <1>4 DEF CopyFile, Try, Stream, Stored, Left, Tried, Ended, Verify, Rename, Clean
<1>5. CASE Cancel \/ Exit
  BY <1>5 DEF Cancel, Exit, Left
<1> QED BY <1>1, <1>2, <1>3, <1>4, <1>5, <1>6 DEF Next

LEMMA PlacesKept ==
  ASSUME Types, Places, Found, Next
  PROVE  Places'
<1> USE DEF Types, Places, upload, Go, Return, Before
<1>0. files'["copydest"] = files["copydest"] /\ Elsewhere' = Elsewhere /\ opt' = opt
  BY CopyDestKept, Standing DEF Elsewhere, Equal, TimeDiffers, SameSize, SameHash
<1>1. CASE Prepare
  <2>1. CASE NeedTransfer
    BY <1>0, <2>1, Needs DEF NeedTransfer
  <2>2. CASE CopyDestEqual
    BY <1>0, <2>2, Equals DEF CopyDestEqual
  <2>3. CASE CopyDest
    BY <1>0, <2>3, Scenario DEF CopyDest
  <2>4. CASE Find \/ Skip
    BY <1>0, <2>4 DEF Find, Skip
  <2>5. CASE CopyDestBackup \/ CopyDestCopy \/ Backup
    BY <1>0, <2>5 DEF CopyDestBackup, CopyDestCopy, Backup
  <2> QED BY <1>1, <2>1, <2>2, <2>3, <2>4, <2>5 DEF Prepare
<1>2. CASE Move
  BY <1>0, <1>2 DEF Move, Op, ServerMove, MoveAside, MoveBack, DeleteSource
<1>3. CASE MultiThread
  BY <1>0, <1>3 DEF MultiThread, Launch, ReadChunk, WriteChunk, Waited
<1>4. CASE CopyFile /\ ~MultiThread
  BY <1>0, <1>4 DEF CopyFile, Try, Stream, Stored, Tried, Ended, Verify, Rename, Clean, Copied
<1>5. CASE Cancel \/ Exit
  BY <1>0, <1>5 DEF Cancel, Exit
<1> QED BY <1>1, <1>2, <1>3, <1>4, <1>5 DEF Next

LEMMA SourceKept ==
  ASSUME Types, Places, Source, Found, Next
  PROVE  Source'
<1> USE DEF Types, Source, AreFiles, Names, upload, Go, Return, Removed, Moved, Effect, Target
<1>1. CASE Prepare /\ ~(NeedTransfer \/ CopyDestEqual)
  BY <1>1 DEF Prepare, Find, CopyDest, CopyDestBackup, CopyDestCopy, Backup, Skip, SetAside,
              Left, Part
<1>6. CASE NeedTransfer \/ CopyDestEqual
  BY <1>6, OnlyDst DEF NeedTransfer, CopyDestEqual
<1>2. CASE Move
  BY <1>2 DEF Move, Op, ServerMove, MoveAside, MoveBack, DeleteSource, Relocated, Left, Part
<1>3. CASE MultiThread
  BY <1>3 DEF MultiThread, Launch, ReadChunk, WriteChunk, Waited, Aborted, Finished
<1>4. CASE CopyFile /\ ~MultiThread
  BY <1>4 DEF CopyFile, Try, Stream, Stored, Left, Tried, Ended, Verify, Rename, Clean, Copied
<1>5. CASE Cancel \/ Exit
  BY <1>5 DEF Cancel, Exit
<1> QED BY <1>1, <1>2, <1>3, <1>4, <1>5, <1>6 DEF Next

LEMMA ClearKept ==
  ASSUME Types, Places, Found, Clear, Next
  PROVE  Clear'
<1> USE DEF Types, AreFiles, Names, upload, Go, Return, Removed, Moved, Effect, Target, Clear,
      Before
<1>0. opt.files["partial"] = None
  BY Scenario
<1>1. CASE Prepare /\ ~(NeedTransfer \/ CopyDestEqual)
  BY <1>0, <1>1 DEF Prepare, Find, CopyDest, CopyDestBackup, CopyDestCopy, Backup, Skip, SetAside,
              Left, Part
<1>6. CASE NeedTransfer \/ CopyDestEqual
  BY <1>0, <1>6, OnlyDst DEF NeedTransfer, CopyDestEqual
<1>2. CASE Move
  BY <1>0, <1>2 DEF Move, Op, ServerMove, MoveAside, MoveBack, DeleteSource, Relocated, Left, Part
<1>3. CASE MultiThread
  BY <1>3, <1>0 DEF MultiThread, Launch, ReadChunk, WriteChunk, Waited, Aborted, Finished, Part
<1>4. CASE CopyFile /\ ~MultiThread
  BY <1>4, <1>0 DEF CopyFile, Try, Stream, Stored, Left, Part, Tried, Ended, Verify, Rename,
        Clean, Copied
<1>5. CASE Cancel \/ Exit
  BY <1>5, <1>0 DEF Cancel, Exit, Left, Part
<1> QED BY <1>1, <1>2, <1>3, <1>4, <1>5, <1>6 DEF Next

LEMMA PartialKept ==
  ASSUME Types, Places, Found, Clear, Arrived, NoPartialLeft, Next
  PROVE  NoPartialLeft'
<1> USE DEF Types, AreFiles, Names, upload, Go, Return, Removed, Moved, Effect, Target, Places,
      Clear, Arrived, NoPartialLeft, Is, Before
<1>1. CASE Prepare /\ ~(NeedTransfer \/ CopyDestEqual)
  BY <1>1 DEF Prepare, Find, CopyDest, CopyDestBackup, CopyDestCopy, Backup, Skip, SetAside,
              Left, Part
<1>6. CASE NeedTransfer \/ CopyDestEqual
  BY <1>6, OnlyDst DEF NeedTransfer, CopyDestEqual
<1>2. CASE Move
  BY <1>2 DEF Move, Op, ServerMove, MoveAside, MoveBack, DeleteSource, Relocated, Left, Part
<1>3. CASE MultiThread
  BY <1>3 DEF MultiThread, Launch, ReadChunk, WriteChunk, Waited, Aborted, Finished, Part
<1>4. CASE CopyFile /\ ~MultiThread
  BY <1>4 DEF CopyFile, Try, Stream, Stored, Left, Part, Tried, Ended, Verify, Rename, Clean,
        Copied
<1>5. CASE Cancel \/ Exit
  BY <1>5 DEF Cancel, Exit, Left, Part
<1> QED BY <1>1, <1>2, <1>3, <1>4, <1>5, <1>6 DEF Next

LEMMA SecuredKept ==
  ASSUME Types, Places, Found, Secured, Next
  PROVE  Secured'
<1> USE DEF Types, AreFiles, Names, upload, Go, Return, Removed, Moved, Effect, Target, IsFile,
      Places, Found, Secured, Old, Uploading
<1>0. opt.files["dst"] # None /\ opt.caseOnly => FALSE
  BY Scenario
<1>6. /\ opt' = opt /\ Securing' = Securing
      /\ Securing => opt.dest # "copy" /\ opt.backup # "no" /\ opt.files["dst"] # None
                     /\ ~opt.noCheckDest
  BY Standing DEF Securing, Backing
<1>1. CASE Prepare
  <2>1. CASE Find
    BY <1>0, <1>6, <2>1 DEF Find
  <2>2. CASE NeedTransfer
    <3>1. Securing /\ TimeDiffers(opt.files["dst"], Basis) /\ opt.setTime = "delete" =>
            opt.backup = "dir"
      BY Scenario DEF Securing, TimeDiffers, SameHash, Backing
    <3>2. Securing => known
      BY <1>6, <2>2 DEF NeedTransfer
    <3>3. Securing => Old("dst")'
      BY <1>6, <2>2, <3>1, Needs DEF Timed
    <3>4. pc' \in {"skip", "compare"} /\ known' = known
      BY <2>2, Needs
    <3> QED BY <1>6, <3>2, <3>3, <3>4
  <2>3. CASE CopyDest
    BY <1>6, <2>3 DEF CopyDest
  <2>4. CASE CopyDestBackup \/ CopyDestEqual
    BY <1>6, <2>4 DEF CopyDestBackup, CopyDestEqual
  <2>5. CASE CopyDestCopy
    BY <1>6, <2>5 DEF CopyDestCopy
  <2>6. CASE Backup
    BY <1>6, <2>6 DEF Backup, SetAside
  <2>7. CASE Skip
    BY <1>6, <2>7 DEF Skip
  <2> QED BY <1>1, <2>1, <2>2, <2>3, <2>4, <2>5, <2>6, <2>7 DEF Prepare
<1>2. CASE Move
  BY <1>2, <1>0, <1>6 DEF Move, Op, ServerMove, MoveAside, MoveBack, DeleteSource
<1>3. CASE MultiThread
  BY <1>3, <1>0, <1>6 DEF MultiThread, Launch, ReadChunk, WriteChunk, Waited, Aborted, Finished,
        Part
<1>4. CASE CopyFile /\ ~MultiThread
  BY <1>4, <1>0, <1>6 DEF CopyFile, Try, Stream, Stored, Left, Part, Tried, Ended, Verify, Rename,
        Clean, Copied
<1>5. CASE Cancel \/ Exit
  BY <1>5, <1>0, <1>6 DEF Cancel, Exit, Left, Part
<1> QED BY <1>1, <1>2, <1>3, <1>4, <1>5 DEF Next

\* Nothing has to be copied.
LEMMA Skips ==
  ASSUME Types, Places, Found, Next, pc' = "skip", Trusted, ~opt.ignoreExisting
  PROVE  Settled'
<1> USE DEF Types, AreFiles, Names
<1>0. opt' = opt /\ files'["copydest"] = files["copydest"]
  BY Standing, CopyDestKept
<1>1. CASE NeedTransfer
  <2>1. CASE files' = Timed /\ TimeDiffers(opt.files["dst"], Basis)
    <3>1. opt.files["dst"].data = Whole
      BY <2>1 DEF TimeDiffers, SameHash
    <3>2. files'["dst"] = [data |-> Whole, time |-> TRUE] /\ files'["dst"] # None
      BY <1>1, <2>1, <3>1, Needs DEF Timed
    <3> QED BY <3>2 DEF Settled, HasSource
  <2>2. CASE files' = files /\ KeepsNewer
    BY <1>0, <1>1, <2>2, Needs DEF Settled, KeepsNewer, Is
  <2>3. CASE /\ files' = files /\ known
             /\ Equal(opt.files["dst"], Basis) \/ TimeDiffers(opt.files["dst"], Basis)
    <3>1. files["dst"] = opt.files["dst"] /\ opt.files["dst"] # None
      BY <1>1, <2>3, Needs
    <3>2. opt.files["dst"].data = Whole
      BY <2>3, <3>1, Trusting
    <3> QED BY <2>3, <3>1, <3>2 DEF Settled, HasSource
  <2> QED BY <1>1, <2>1, <2>2, <2>3, Needs
<1>2. CASE CopyDestEqual
  <2> DEFINE f == opt.files["dst"]
  <2>1. /\ pc = "equal" /\ f # None /\ opt.dest = "copy" /\ Elsewhere
        /\ files["dst"] = f \/ Unset
    BY <1>2, Equals DEF Found, Places
  <2>2. CASE files' = Timed /\ TimeDiffers(f, opt.check)
    <3>1. f.data = Whole
      BY <2>2 DEF TimeDiffers, SameHash
    <3>2. files'["dst"] = [data |-> Whole, time |-> TRUE] /\ files'["dst"] # None
      BY <1>2, <2>2, <3>1, Equals DEF Timed
    <3> QED BY <3>2 DEF Settled, HasSource
  <2>3. CASE /\ files' = files /\ files["dst"] = f
             /\ Equal(f, opt.check) \/ TimeDiffers(f, opt.check)
    <3>1. f.data = Whole
      BY <2>1, <2>3, Trusting
    <3> QED BY <2>1, <2>3, <3>1 DEF Settled, HasSource
  <2>4. CASE files' = files /\ Unset /\ Equal(f, opt.check)
    <3>1. ForgetsRemoval /\ HasSource("copydest")
      BY <2>1, <2>4, Forgets, Trusting
    <3> QED BY <1>0, <3>1 DEF Settled, ForgetsRemoval, HasSource
  <2> QED BY <1>2, <2>1, <2>2, <2>3, <2>4, Equals DEF Unset
<1>3. CASE CopyDest
  <2>1. opt.dest = "compare" /\ Elsewhere
    BY <1>3 DEF CopyDest, Go, Return
  <2> QED BY <1>0, <2>1, Trusting DEF Settled, HasSource
<1>4. CASE CopyDestCopy
  <2>1. files' = [files EXCEPT !["dst"] = files["copydest"]] /\ pc = "copydest"
    BY <1>4 DEF CopyDestCopy, Effect, Go
  <2>2. HasSource("copydest")
    BY <2>1, Trusting DEF Places
  <2> QED BY <2>1, <2>2 DEF Settled, HasSource
<1>5. CASE Cancel
  BY <1>5, SettledStays DEF Cancel, Found
<1>6. CASE Prepare
  BY <1>1, <1>2, <1>3, <1>4, <1>6 DEF Prepare, Find, CopyDestBackup, Backup, Skip, Go, Return
<1>7. CASE Move
  BY <1>7 DEF Move, Op, ServerMove, MoveAside, MoveBack, DeleteSource, Go, Return
<1>8. CASE CopyFile \/ Exit
  BY <1>8 DEF CopyFile, MultiThread, Waited, Try, Stream, Stored, Launch, ReadChunk, WriteChunk,
      Tried, Ended, Verify, Rename, Clean, Exit, Go, Return, Copied
<1> QED BY <1>5, <1>6, <1>7, <1>8 DEF Next

\* The source is to be removed.
LEMMA Deletes ==
  ASSUME Types, Places, Found, Arrived, Next, pc' = "delete", Trusted, ~Unseen
  PROVE  Settled'
<1> USE DEF Types, AreFiles, Names
<1>1. CASE Skip
  BY <1>1, SettledStays DEF Skip, Found, Go, Return
<1>2. CASE Verify
  <2>1. pc = "verify" /\ ~opt.partial /\ Verified(files["dst"]) /\ files' = files
    BY <1>2 DEF Verify, Copied, Go, Return, Target
  <2>2. files["dst"] # None /\ files["dst"].data = Whole
    BY <2>1 DEF Arrived, Stores, Verified, SameHash, Unseen, Target
  <2> QED BY <2>1, <2>2 DEF Settled, HasSource
<1>3. CASE Rename
  <2>1. files' = Moved("partial", "dst") /\ pc = "rename"
    BY <1>3 DEF Rename, Effect, Go
  <2>2. files["partial"] # None /\ files["partial"].data = Whole
    BY <2>1 DEF Arrived, Stores, Verified, SameHash, Unseen, Target
  <2> QED BY <2>1, <2>2 DEF Settled, HasSource, Moved
<1>4. CASE Cancel
  BY <1>4, SettledStays DEF Cancel, Found
<1> QED
  BY <1>1, <1>2, <1>3, <1>4 DEF Next, Prepare, Find, NeedTransfer, CopyDest, CopyDestEqual,
      CopyDestCopy, CopyDestBackup, Backup, Move, Op, ServerMove, MoveAside, MoveBack,
      DeleteSource, CopyFile, MultiThread, Waited, Try, Stream, Stored, Launch, ReadChunk,
      WriteChunk, Tried, Ended, Clean, Exit, Go, Return, Copied

LEMMA FoundKept ==
  ASSUME Types, Places, Found, Arrived, Next
  PROVE  Found'
<1> USE DEF Types, upload, Go, Return
<1>0. opt' = opt /\ Trusted' = Trusted /\ Unseen' = Unseen
  BY Standing, TrustStays
<1>1. pc' = "skip" /\ Trusted' /\ ~opt'.ignoreExisting => Settled'
  BY <1>0, Skips
<1>2. pc' = "delete" /\ Trusted' /\ ~Unseen' => Settled'
  BY <1>0, Deletes
<1>3. known' => opt'.files["dst"] # None /\ ~opt'.noCheckDest
  BY <1>0 DEF Found, Next, Prepare, Find, NeedTransfer, CopyDest, CopyDestEqual, CopyDestBackup,
      CopyDestCopy, Backup, Skip, Move, Op, ServerMove, MoveAside, MoveBack, DeleteSource,
      CopyFile, MultiThread, Waited, Try, Stream, Stored, Launch, ReadChunk, WriteChunk, Tried,
      Ended, Verify, Rename, Clean, Cancel, Exit
<1>4. Unset /\ files'["dst"] = None => Unset'
  BY <1>0 DEF Unset, TimeDiffers, Basis, SameSize, SameHash
<1>5. /\ pc' \in {"find", "need"} => files'["dst"] = opt'.files["dst"]
      /\ pc' = "equal" => files'["dst"] = opt'.files["dst"] \/ Unset'
      /\ pc' = "compare" => files'["dst"] = opt'.files["dst"] \/ Unset'
  <2>1. CASE NeedTransfer
    <3>1. CASE /\ files' = Removed("dst") /\ TimeDiffers(opt.files["dst"], Basis)
               /\ opt.setTime = "delete" /\ opt.backup # "dir"
      <4>1. files'["dst"] = None
        BY <3>1 DEF Removed, AreFiles, Names
      <4>2. Unset'
        BY <1>0, <3>1, <4>1 DEF Unset, TimeDiffers, Basis, SameSize, SameHash
      <4> QED BY <2>1, <4>2, Needs
    <3> QED BY <1>0, <2>1, <3>1, Needs
  <2>2. CASE Find
    BY <1>0, <2>2 DEF Find, Found
  <2>3. CASE CopyDest
    <3>1. pc = "compare" /\ files' = files /\ pc' \notin {"find", "need", "compare"}
      BY <2>3 DEF CopyDest
    <3> QED BY <1>0, <1>4, <3>1 DEF Found, Unset
  <2>4. CASE Cancel
    BY <1>0, <1>4, <2>4 DEF Cancel, Found, Unset
  <2>5. CASE CopyDestEqual
    BY <2>5 DEF CopyDestEqual
  <2> QED
    BY <2>1, <2>2, <2>3, <2>4, <2>5 DEF Next, Prepare, CopyDestBackup,
        CopyDestCopy, Backup, Skip, Move, Op, ServerMove, MoveAside, MoveBack, DeleteSource,
        CopyFile, MultiThread, Waited, Try, Stream, Stored, Launch, ReadChunk, WriteChunk, Tried,
        Ended, Verify, Rename, Clean, Exit, Copied
<1> QED BY <1>1, <1>2, <1>3, <1>5 DEF Found

LEMMA ArrivedKept ==
  ASSUME Types, Source, Streamed, Chunked, Arrived, Next
  PROVE  Arrived'
<1> USE DEF Arrived, Stores, upload, Go, Return, Target, Names
<1>1. AllRead /\ opt' = opt
  BY ReadWhole, Standing
<1>2. CASE Try
  <2>1. CASE pc' # "tried"
    BY <1>2, <2>1 DEF Try
  <2>2. CASE pc' = "tried" /\ err' # "nil"
    BY <2>2
  <2>3. CASE pc' = "tried" /\ err' = "nil"
    <3>1. files' = [files EXCEPT ![Target] = files["src"]]
      BY <1>2, <2>3 DEF Try, Effect
    <3>2. files'[Target] = files["src"]
      BY <3>1 DEF Types, AreFiles
    <3>3. files["src"] # None /\ files["src"].data = Whole
      BY <1>2, Scenario DEF Try, Source
    <3> QED BY <1>1, <2>3, <3>2, <3>3
  <2> QED BY <2>1, <2>2, <2>3
<1>3. CASE Stored
  <2>1. CASE err' # "nil"
    BY <1>3, <2>1 DEF Stored
  <2>2. CASE err' = "nil"
    <3>1. AtEnd(handle[1]) /\ files' = [files EXCEPT ![Target] = [Part EXCEPT !.time = TRUE]]
      BY <1>3, <2>2 DEF Stored
    <3>2. files'[Target] = [data |-> sent, time |-> TRUE]
      BY <3>1, PartTimed DEF Types, AreFiles
    <3>3. [data |-> sent, time |-> TRUE] # None
      BY <1>3, NotNone DEF Stored, Streamed
    <3>4. "bad" \notin opt.faults => sent = Whole
      BY <1>1, <1>3, <3>1 DEF Stored, AllRead
    <3> QED BY <1>1, <1>3, <3>2, <3>3, <3>4 DEF Stored
  <2> QED BY <2>1, <2>2
<1>4. CASE Waited
  <2>1. CASE err' # "nil" \/ cancelled
    BY <1>1, <1>4, <2>1 DEF Waited, AllRead
  <2>2. CASE err' = "nil" /\ ~cancelled
    <3>1. /\ pc = "chunks" /\ ~gone /\ Running = {} /\ \A c \in Chunks : chunk[c] # "wait"
          /\ files' = Finished(TRUE)
      BY <1>4, <2>2 DEF Waited
    <3>2. /\ sent \in [Chunks -> Blocks]
          /\ \A c \in Chunks : chunk[c] = "done" /\ sent[c] # Hole
      BY <3>1 DEF Types, Running, Chunked, Chunk
    <3>3. Joined = sent
      BY <3>2 DEF Joined
    <3>4. files'[Target] = [data |-> sent, time |-> TRUE]
      BY <3>1, <3>3 DEF Finished, Types, AreFiles
    <3>5. [data |-> sent, time |-> TRUE] # None
      BY <3>2, Laid, NotNone
    <3>6. "bad" \notin opt.faults => sent = Whole
      BY <1>1, <3>1 DEF AllRead
    <3> QED BY <1>1, <1>4, <3>4, <3>5, <3>6 DEF Waited
  <2> QED BY <2>1, <2>2
<1>5. CASE Tried \/ Ended \/ Verify \/ Rename \/ Clean
  BY <1>1, <1>5 DEF Tried, Ended, Verify, Rename, Clean, Copied, Verified, SameSize, SameHash
<1>6. CASE Cancel \/ Exit
  BY <1>6 DEF Cancel, Exit, Verified, SameSize, SameHash
<1>7. CASE Prepare \/ Move \/ Stream \/ \E c \in Chunks : Launch(c) \/ ReadChunk(c) \/ WriteChunk(c)
  BY <1>7 DEF Prepare, Find, NeedTransfer, CopyDest, CopyDestEqual, CopyDestBackup,
         CopyDestCopy, Backup, Skip,
              Move, Op, ServerMove, MoveAside, MoveBack, DeleteSource, Stream, Launch, ReadChunk,
              WriteChunk
<1> QED BY <1>2, <1>3, <1>4, <1>5, <1>6, <1>7 DEF Next, CopyFile, MultiThread

\* An action that leaves dst, or removes it, changes nothing of TrueTimes; nor does
\* one that stores the source there.
LEMMA TimelyAt ==
  ASSUME Timely, opt' = opt, cancelled => cancelled',
         \/ files'["dst"] = files["dst"]
         \/ files'["dst"] = None
         \/ files'["dst"] # None /\ files'["dst"].data = Whole
         \/ files'["dst"] # None /\ files'["dst"].time = FALSE
  PROVE  Timely'
BY DEF Timely, Trusted, SameSize, Equal, SameHash, HasSource

LEMMA TimelyKept ==
  ASSUME Types, Places, Source, Found, Streamed, Chunked, Arrived, Timely, Next
  PROVE  Timely'
<1> USE DEF upload, Go, Return, Names, Removed, Moved, Effect, Types, AreFiles
<1> DEFINE Sound == \/ files'["dst"] = files["dst"] \/ files'["dst"] = None
                    \/ files'["dst"] # None /\ files'["dst"].data = Whole
                    \/ files'["dst"] # None /\ files'["dst"].time = FALSE
<1>1. opt' = opt /\ (cancelled => cancelled') /\ AllRead
  BY ReadWhole, Standing
<1>2. (files["src"] # None /\ files["src"].data = Whole) \/ pc \in {"back", "done"}
  BY Scenario DEF Source
<1>3. ASSUME Sound PROVE Timely'
  BY <1>1, <1>3, TimelyAt
<1>4. CASE NeedTransfer \/ CopyDestEqual
  <2>1. CASE files' = Timed /\ opt.files["dst"].data = Whole
    <3>1. files'["dst"] = [data |-> opt.files["dst"].data, time |-> TRUE]
      BY <2>1 DEF Timed
    <3>2. files'["dst"].data = Whole
      BY <2>1, <3>1
    <3>3. CASE files'["dst"] = None
      BY <1>3, <3>3
    <3> QED BY <1>3, <3>2, <3>3
  <2>2. \/ files' = files \/ files' = Removed("dst")
        \/ files' = Timed /\ opt.files["dst"].data = Whole
    BY <1>4, Needs, Equals DEF TimeDiffers, SameHash
  <2> QED BY <1>3, <2>1, <2>2
<1>20. pc \in Before => Part # None /\ Part.time = FALSE
  <2>1. pc \in Before => sent \in Seq(Blocks)
    BY DEF Places
  <2> QED BY <2>1, NotNone DEF Part
<1>5. CASE CopyDestCopy
  <2>1. CASE files' = [files EXCEPT !["dst"] = files["copydest"]]
    <3>1. Trusted => files["copydest"] # None /\ files["copydest"].data = Whole
      BY <1>5, Trusting DEF CopyDestCopy, Places, HasSource
    <3> QED BY <1>1, <1>3, <2>1, <3>1, TrustStays DEF Timely
  <2>2. CASE files' \in Left("dst")
    BY <1>3, <1>5, <1>20, <2>2 DEF CopyDestCopy, Left, Before
  <2> QED BY <1>3, <1>5, <2>1, <2>2 DEF CopyDestCopy
<1>6. CASE Find \/ CopyDest \/ CopyDestBackup \/ Backup \/ Skip
  BY <1>3, <1>6 DEF Find, CopyDest, CopyDestBackup, Backup, Skip, SetAside
<1>7. CASE Op \/ MoveAside \/ DeleteSource
  BY <1>3, <1>7 DEF Op, MoveAside, Relocated, Left, DeleteSource
<1>8. CASE ServerMove
  BY <1>2, <1>3, <1>8 DEF ServerMove
<1>9. CASE MoveBack
  <2>1. files["tmp"] # None /\ files["tmp"].data = Whole
    BY <1>9, Scenario DEF MoveBack, Source
  <2>2. pc \in Before
    BY <1>9 DEF MoveBack, Before
  <2>3. \/ files' \in {files, Moved("tmp", "dst"), [files EXCEPT !["dst"] = files["tmp"]]}
        \/ files' \in Left("dst")
    BY <1>9 DEF MoveBack, Relocated
  <2>4. CASE files' \in Left("dst")
    BY <1>3, <1>20, <2>2, <2>4 DEF Left
  <2> QED BY <1>3, <2>1, <2>3, <2>4
<1>10. CASE Try
  <2>1. NothingSent \in Seq(Blocks)
    BY Laid
  <2>2. [data |-> NothingSent, time |-> FALSE] # None
    BY <2>1, NotNone
  <2>3. \/ UNCHANGED files
        \/ files' = [files EXCEPT ![Target] = files["src"]]
        \/ files' = [files EXCEPT ![Target] = [data |-> NothingSent, time |-> FALSE]]
    BY <1>10 DEF Try
  <2>4. pc = "try"
    BY <1>10 DEF Try
  <2>5. files["src"] # None /\ files["src"].data = Whole
    BY <1>2, <2>4
  <2>6. CASE files' = [files EXCEPT ![Target] = files["src"]]
    BY <1>3, <2>5, <2>6 DEF Target
  <2>7. CASE files' = [files EXCEPT ![Target] = [data |-> NothingSent, time |-> FALSE]]
    BY <1>3, <2>2, <2>7 DEF Target
  <2> QED BY <1>3, <2>3, <2>6, <2>7
<1>11. pc \in {"stream", "chunks"} => sent \in Seq(Blocks)
  <2>1. pc = "chunks" => sent \in [1..Size -> Blocks]
    BY DEF Chunked, Chunks
  <2> QED BY <2>1, Laid DEF Streamed, Chunks
<1>12. pc \in {"stream", "chunks"} => Part # None /\ [data |-> sent, time |-> TRUE] # None
  BY <1>11, NotNone DEF Part
<1>13. CASE Stored
  <2>1. pc = "stream" /\ Part.time = FALSE
    BY <1>13 DEF Stored, Part
  <2>2. CASE files' \in Left(Target)
    BY <1>3, <1>12, <2>1, <2>2 DEF Left, Target
  <2>3. CASE AtEnd(handle[1]) /\ files' = [files EXCEPT ![Target] = [Part EXCEPT !.time = TRUE]]
    <3>1. CASE opt.partial
      BY <1>3, <2>3, <3>1 DEF Target
    <3>2. CASE ~opt.partial /\ "bad" \notin opt.faults
      <4>1. files'["dst"] = [data |-> Whole, time |-> TRUE]
        BY <1>1, <2>1, <2>3, <3>2, PartTimed DEF Target, AllRead
      <4> QED BY <1>1, <1>3, <1>12, <2>1, <2>3, <3>2, <4>1 DEF AllRead
    <3>3. CASE ~opt.partial /\ "bad" \in opt.faults
      BY <1>1, <3>3 DEF Timely
    <3> QED BY <3>1, <3>2, <3>3
  <2> QED BY <1>13, <2>2, <2>3 DEF Stored
<1>14. CASE Waited
  <2>1. pc = "chunks" /\ Part.time = FALSE /\ opt.way = "multi"
    BY <1>1, <1>14 DEF Waited, Part, AllRead
  <2>2. CASE opt.partial
    BY <1>3, <1>14, <2>2 DEF Waited, Aborted, Finished, Target
  <2>3. CASE files' \in Aborted
    BY <1>3, <1>12, <2>1, <2>3 DEF Aborted, Target
  <2>4. CASE ~opt.partial /\ ("bad" \in opt.faults \/ cancelled)
    BY <1>1, <2>1, <2>4 DEF Timely
  <2>5. CASE /\ ~opt.partial /\ "bad" \notin opt.faults /\ ~cancelled /\ ~gone
             /\ files' \in {Finished(TRUE), Finished(FALSE)}
    <3>1. sent = Whole /\ Joined = Whole
      BY <1>1, <1>14, <2>1, <2>5 DEF Waited, AllRead
    <3>2. PICK t \in BOOLEAN : files'["dst"] = [data |-> Whole, time |-> t]
      BY <2>5, <3>1 DEF Finished, Target
    <3>3. files'["dst"] # None
      BY <1>11, <2>1, <3>1, <3>2, NotNone
    <3> QED BY <1>3, <3>2, <3>3
  <2> QED BY <1>14, <2>2, <2>3, <2>4, <2>5 DEF Waited
<1>15. CASE Rename
  <2>1. CASE files' = Moved("partial", "dst")
    <3>1. /\ files["partial"] # None /\ opt.partial /\ (opt.hash => files["partial"].data = Whole)
          /\ "bad" \notin opt.faults => files["partial"].data = Whole
      BY <1>15 DEF Rename, Arrived, Stores, Verified, SameHash, Target
    <3>2. CASE files["partial"].data = Whole
      BY <1>3, <2>1, <3>1, <3>2
    <3>3. CASE "bad" \in opt.faults /\ ~opt.hash
      BY <1>1, <3>3 DEF Timely
    <3> QED BY <3>1, <3>2, <3>3
  <2> QED BY <1>3, <1>15, <2>1 DEF Rename
<1>16. CASE Clean
  BY <1>3, <1>16 DEF Clean, Target
<1>17. CASE Tried \/ Ended \/ Verify \/ Cancel
  BY <1>3, <1>17 DEF Tried, Ended, Verify, Cancel
<1>18. CASE Stream \/ \E c \in Chunks : Launch(c) \/ ReadChunk(c) \/ WriteChunk(c)
  BY <1>3, <1>18 DEF Stream, Launch, ReadChunk, WriteChunk
<1>19. CASE Exit
  <2>1. Part.time = FALSE
    BY DEF Part
  <2> QED BY <1>3, <1>12, <1>19, <2>1 DEF Exit, Left, Target
<1> QED
  BY <1>4, <1>5, <1>6, <1>7, <1>8, <1>9, <1>10, <1>13, <1>14, <1>15, <1>16, <1>17, <1>18, <1>19
  DEF Next, Prepare, Move, CopyFile, MultiThread

LEMMA NothingLostKept ==
  ASSUME Types, Places, Source, Found, NothingLost, Next
  PROVE  NothingLost'
<1> USE DEF upload, Go, Return, Names, Removed, Moved, Effect, Types, AreFiles
<1> DEFINE Whereabouts == \E n \in {"src", "tmp"} : files'[n] # None /\ files'[n].data = Whole
<1>1. opt' = opt /\ pc # "done" /\ Trusted' = Trusted /\ Unseen' = Unseen
  BY Standing, TrustStays
<1>2. ASSUME Trusted /\ ~Unseen => Whereabouts \/ Settled' PROVE NothingLost'
  BY <1>1, <1>2 DEF NothingLost, HasSource
<1>3. /\ pc # "back" => files["src"] # None /\ files["src"].data = Whole
      /\ pc = "back" => files["tmp"] # None /\ files["tmp"].data = Whole
  BY <1>1, Scenario DEF Source
<1>4. ASSUME pc # "back", files'["src"] = files["src"] PROVE NothingLost'
  BY <1>2, <1>3, <1>4
<1>12. CASE ServerMove
  <2>1. CASE files' = Moved("src", "dst")
    <3>1. files'["dst"] # None /\ files'["dst"].data = Whole
      BY <1>3, <1>12, <2>1 DEF ServerMove
    <3> QED BY <1>2, <3>1 DEF Settled, HasSource
  <2> QED BY <1>4, <1>12, <2>1 DEF ServerMove
<1>5. CASE MoveAside
  <2>1. CASE files' = Moved("src", "tmp")
    BY <1>2, <1>3, <1>5, <2>1 DEF MoveAside
  <2> QED BY <1>4, <1>5, <2>1 DEF MoveAside, Relocated, Left
<1>6. CASE MoveBack
  <2>1. CASE files' = Moved("tmp", "dst")
    <3>1. files'["dst"] # None /\ files'["dst"].data = Whole
      BY <1>3, <1>6, <2>1 DEF MoveBack
    <3> QED BY <1>2, <3>1 DEF Settled, HasSource
  <2> QED BY <1>2, <1>3, <1>6, <2>1 DEF MoveBack, Relocated, Left
<1>7. CASE DeleteSource
  <2>1. Trusted /\ ~Unseen => Settled'
    BY <1>1, <1>7, SettledStays DEF DeleteSource, Found
  <2> QED BY <1>2, <2>1
<1>13. CASE NeedTransfer \/ CopyDestEqual
  BY <1>4, <1>13, OnlyDst DEF NeedTransfer, CopyDestEqual
<1>8. CASE (Prepare \/ Op) /\ ~(NeedTransfer \/ CopyDestEqual)
  BY <1>4, <1>8 DEF Prepare, Find, CopyDest, CopyDestBackup, CopyDestCopy, Backup,
                    Skip, SetAside, Op, Left
<1>9. CASE CopyFile /\ ~MultiThread
  BY <1>4, <1>9 DEF CopyFile, Try, Stream, Stored, Left, Tried, Ended, Verify, Rename, Clean,
                    Target
<1>10. CASE MultiThread
  BY <1>4, <1>10 DEF MultiThread, Launch, ReadChunk, WriteChunk, Waited, Aborted, Finished, Target
<1>11. CASE Cancel \/ Exit
  <2>1. CASE pc = "back"
    BY <1>2, <1>3, <1>11, <2>1 DEF Cancel, Exit
  <2> QED BY <1>4, <1>11, <2>1 DEF Cancel, Exit, Left, Target
<1> QED
  BY <1>5, <1>6, <1>7, <1>8, <1>9, <1>10, <1>11, <1>12, <1>13 DEF Next, Move

LEMMA DoneKept ==
  ASSUME Types, Places, Source, Found, Arrived, Next
  PROVE  Done'
<1> USE DEF upload, Go, Return, Names, Removed, Moved, Effect, Types, AreFiles
<1> DEFINE Whereabouts == files'["dst"] # None /\ files'["dst"].data = Whole
           Fulfilled == (Settled' \/ Whereabouts) /\ (opt.move => files'["src"] = None)
<1>1. opt' = opt /\ Trusted' = Trusted /\ Unseen' = Unseen
  BY Standing, TrustStays
<1>2. ASSUME result' = "nil" /\ Trusted /\ ~Unseen /\ ~opt.ignoreExisting => Fulfilled
      PROVE  Done'
  BY <1>1, <1>2 DEF Done, Settled, HasSource, Is
<1>3. CASE Skip
  BY <1>1, <1>2, <1>3, SettledStays DEF Skip, Found, Places
<1>4. CASE ServerMove
  BY <1>2, <1>4, Scenario DEF ServerMove, Source, Places
<1>5. CASE MoveBack
  BY <1>2, <1>5, Scenario DEF MoveBack, Relocated, Source
<1>6. CASE DeleteSource
  BY <1>1, <1>2, <1>6, SettledStays DEF DeleteSource, Found
<1>7. CASE Verify
  BY <1>2, <1>7 DEF Verify, Copied, Arrived, Stores, Verified, SameHash, Target, Unseen,
                    Places
<1>8. CASE Rename
  BY <1>2, <1>8 DEF Rename, Copied, Arrived, Stores, Verified, SameHash, Target, Unseen,
                    Places
<1>9. CASE Cancel \/ Exit \/ NeedTransfer \/ Tried \/ Stored \/ Waited \/ Stream
           \/ \E c \in Chunks : Launch(c) \/ ReadChunk(c) \/ WriteChunk(c)
  BY <1>2, <1>9 DEF Cancel, Exit, NeedTransfer, Tried, Stored, Waited, Stream, Launch, ReadChunk,
                    WriteChunk, Places
<1>10. CASE Find \/ CopyDest \/ CopyDestEqual \/ CopyDestBackup \/ CopyDestCopy \/ Backup
  BY <1>2, <1>10 DEF Find, CopyDest, CopyDestEqual, CopyDestBackup, CopyDestCopy, Backup, Places
<1>11. CASE Op \/ MoveAside \/ Try \/ Ended \/ Clean
  BY <1>2, <1>11 DEF Op, MoveAside, Try, Ended, Clean, Copied, Places
<1> QED
  BY <1>3, <1>4, <1>5, <1>6, <1>7, <1>8, <1>9, <1>10, <1>11
  DEF Next, Prepare, Move, CopyFile, MultiThread

LEMMA OldOrNewKept ==
  ASSUME Types, Places, Found, Arrived, OldOrNew, Next
  PROVE  OldOrNew'
<1> USE DEF upload, Go, Return, Names, Removed, Moved, Effect, Types, AreFiles
<1> DEFINE Kept == files'["dst"] = files["dst"]
           Replaced == files'["dst"] # None /\ files'["dst"].data = Whole
           Concerned == opt.partial /\ ~opt.move /\ opt.backup = "no" /\ opt.dest # "copy"
                        /\ opt.setTime # "delete"
<1>1. opt' = opt
  BY Standing
<1>2. ASSUME Concerned => Kept \/ Replaced \/ Unseen PROVE OldOrNew'
  BY <1>1, <1>2 DEF OldOrNew, Unseen, HasSource, Is
<1>3. CASE NeedTransfer
  <2>1. CASE files' = Timed /\ TimeDiffers(opt.files["dst"], Basis)
    <3>1. files'["dst"] = [data |-> Whole, time |-> TRUE] /\ files'["dst"] # None
      BY <1>3, <2>1, Needs DEF Timed, TimeDiffers, SameHash
    <3> QED BY <1>2, <3>1
  <2> QED BY <1>2, <1>3, <2>1, Needs
<1>10. CASE CopyDestEqual
  BY <1>2, <1>10 DEF CopyDestEqual, Places
<1>4. CASE Find \/ CopyDest \/ CopyDestBackup \/ CopyDestCopy \/ Backup \/ Skip
  BY <1>2, <1>4 DEF Find, CopyDest, CopyDestBackup, CopyDestCopy, Backup, Skip, Places
<1>5. CASE Move
  BY <1>2, <1>5, Scenario DEF Move, Op, ServerMove, MoveAside, MoveBack, DeleteSource, Places
<1>6. CASE Rename
  BY <1>2, <1>6 DEF Rename, Arrived, Stores, Verified, SameHash, Target, Unseen
<1>7. CASE MultiThread
  BY <1>2, <1>7 DEF MultiThread, Launch, ReadChunk, WriteChunk, Waited, Aborted, Finished, Target
<1>8. CASE CopyFile /\ ~MultiThread /\ ~Rename
  BY <1>2, <1>8 DEF CopyFile, Try, Stream, Stored, Left, Tried, Ended, Verify, Clean, Target
<1>9. CASE Cancel \/ Exit
  BY <1>2, <1>9 DEF Cancel, Exit, Target
<1> QED BY <1>3, <1>4, <1>5, <1>6, <1>7, <1>8, <1>9, <1>10 DEF Next, Prepare

LEMMA BackedKept ==
  ASSUME Types, Places, Found, Secured, Backed, Next
  PROVE  Backed'
<1> USE DEF upload, Go, Return, Names, Removed, Moved, Effect, Types, AreFiles
<1>1. opt' = opt
  BY Standing
<1>13. Securing => /\ opt.backup # "no" /\ opt.files["dst"] # None /\ opt.dest # "copy"
                   /\ Backing /\ ~(opt.backup = "suffix" /\ opt.setTime = "delete"
                                  /\ opt.files["dst"].data = Whole)
  BY DEF Securing, Backing
<1>14. Securing => \E n \in {"dst", "backup"} :
                     files[n] # None /\ files[n].data = opt.files["dst"].data
  BY <1>13 DEF Backed, OldKept
<1>2. ASSUME Securing => \E n \in {"dst", "backup"} :
                            files'[n] # None /\ files'[n].data = opt.files["dst"].data
      PROVE  Backed'
  BY <1>1, <1>2 DEF Backed, OldKept, Securing, Backing
<1>3. Securing /\ pc \in {"find", "need", "compare", "backup", "skip"} =>
        files["dst"] # None /\ files["dst"].data = opt.files["dst"].data
  BY DEF Secured, Old
<1>4. Securing /\ pc \in {"op", "move"} \cup Uploading =>
        files["backup"] # None /\ files["backup"].data = opt.files["dst"].data
  BY DEF Secured, Old
<1>5. CASE NeedTransfer
  <2>1. Securing /\ TimeDiffers(opt.files["dst"], Basis) =>
         opt.setTime # "delete" \/ opt.backup = "dir"
    BY <1>13, Scenario DEF TimeDiffers, SameHash
  <2>2. Securing => files'["dst"] # None /\ files'["dst"].data = opt.files["dst"].data
    BY <1>3, <1>5, <2>1, Needs DEF Timed
  <2> QED BY <1>2, <2>2
<1>6. CASE Find \/ CopyDest \/ CopyDestEqual \/ CopyDestBackup \/ CopyDestCopy \/ Backup \/ Skip
  BY <1>2, <1>3, <1>6, <1>13 DEF Find, CopyDest, CopyDestEqual, CopyDestBackup, CopyDestCopy,
                          Backup, Skip, SetAside, AboutDst, Places
<1>7. CASE Op \/ ServerMove
  BY <1>2, <1>4, <1>7 DEF Op, ServerMove
<1>8. CASE MoveAside \/ MoveBack
  BY <1>2, <1>8, <1>13, Scenario DEF MoveAside, MoveBack, Places
<1>9. CASE DeleteSource
  BY <1>2, <1>9, <1>14 DEF DeleteSource
<1>10. CASE MultiThread
  BY <1>2, <1>4, <1>10 DEF Uploading, MultiThread, Launch, ReadChunk, WriteChunk, Waited, Aborted,
                           Finished, Target
<1>11. CASE CopyFile /\ ~MultiThread
  BY <1>2, <1>4, <1>11 DEF Uploading, CopyFile, Try, Stream, Stored, Left, Tried, Ended, Verify,
                           Rename, Clean, Target
<1>12. CASE Cancel \/ Exit
  BY <1>2, <1>4, <1>12, <1>14 DEF Uploading, Cancel, Exit, Left, Target
<1> QED BY <1>5, <1>6, <1>7, <1>8, <1>9, <1>10, <1>11, <1>12 DEF Next, Prepare, Move

-----------------------------------------------------------------------------
(* The theorems. *)

LEMMA InvInit == Init => Inv
<1> SUFFICES ASSUME Init PROVE Inv
  OBVIOUS
<1>1. opt \in Scenarios /\ pc = "find" /\ known = FALSE /\ tries = 0 /\ err = "nil"
      /\ sent = <<>> /\ handle = NoHandles /\ chunk = NoChunks /\ gone = FALSE
      /\ cancelled = FALSE /\ faults = opt.maxFaults /\ result = "none" /\ files = opt.files
  BY DEF Init
<1>2. opt \in ScenarioType
  BY <1>1, CopyAssumption
<1>3. opt.maxFaults \in Nat /\ opt.files \in [Names -> Files \cup {None}]
  BY <1>2 DEF ScenarioType
<1>4. AreFiles(files)
  BY <1>1, <1>3 DEF AreFiles, IsFile, Files
<1>5. Types
  BY <1>1, <1>3, <1>4, Fresh DEF Types, Before, Errors
<1>6. opt.files["src"] # None /\ opt.files["src"].data = Whole /\ opt.files["partial"] = None
  BY <1>5, Scenario
<1>7. Timely
  BY <1>1 DEF Timely, Trusted, HasSource
<1>8. NothingLost /\ Done /\ NoPartialLeft
  BY <1>1, <1>6 DEF NothingLost, Done, NoPartialLeft, HasSource
<1>9. OldOrNew /\ Backed
  BY <1>1 DEF OldOrNew, Backed, Backing, OldKept, Is
<1>10. Source /\ Found /\ Clear
  BY <1>1, <1>6 DEF Source, Found, Clear
<1>11. Secured
  BY <1>1 DEF Secured, Securing, Backing, Old, Uploading
<1>12. Places /\ Streamed /\ Chunked /\ Arrived
  BY <1>1 DEF Places, Streamed, Chunked, Arrived, Before
<1> QED BY <1>5, <1>7, <1>8, <1>9, <1>10, <1>11, <1>12 DEF Inv, Promises

LEMMA InvNext == Inv /\ [Next]_vars => Inv'
<1> SUFFICES ASSUME Inv, [Next]_vars PROVE Inv'
  OBVIOUS
<1>1. CASE Next
  BY <1>1, TypesKept, PlacesKept, SourceKept, FoundKept, StreamedKept, ChunkedKept, ArrivedKept,
     TimelyKept, SecuredKept, ClearKept, NothingLostKept, DoneKept, OldOrNewKept, BackedKept,
     PartialKept
  DEF Inv, Promises
<1>2. CASE UNCHANGED vars
  <2>1. (Types /\ Places /\ Source /\ Streamed /\ Chunked /\ Arrived /\ Clear)'
    BY <1>2 DEF vars, upload, Inv, Types, AreFiles, Places, Elsewhere, Equal, TimeDiffers, SameSize,
       SameHash, Source, Streamed, Chunked, Chunk, From, Arrived, Stores, Target, Verified, Clear
  <2>2. (Trusted <=> Trusted') /\ (Settled <=> Settled') /\ (Unseen <=> Unseen')
    BY <1>2 DEF vars, Trusted, Settled, KeepsNewer, ForgetsRemoval, Unseen, HasSource, Is, SameSize,
       Equal, SameHash
  <2>3. (Found /\ Timely)'
    BY <1>2, <2>2 DEF vars, Inv, Found, Unset, Basis, TimeDiffers, SameSize, SameHash, Timely,
       HasSource, Equal
  <2>4. (Secured /\ Promises)'
    BY <1>2, <2>2 DEF vars, Inv, Promises, Secured, Securing, Backing, Old, NothingLost, Done,
       OldOrNew, Backed, OldKept, NoPartialLeft, HasSource, Is, Unseen
  <2> QED BY <2>1, <2>3, <2>4 DEF Inv
<1> QED BY <1>1, <1>2

\* The options, the files and the state of the call are what they are said to be, and
\* the parts of the invariant hold, in every state of every call.
THEOREM Invariance == Spec => []Inv
<1>1. Init => Inv
  BY InvInit
<1>2. Inv /\ [Next]_vars => Inv'
  BY InvNext
<1> QED BY <1>1, <1>2, PTL DEF Spec

\* Whatever fails, and whenever the call is cancelled or the program ends, what the
\* source held is at the source, at dst, or at the name a change of case goes through
\* (operations.go:433-519, 2111-2119).
THEOREM NothingLostAlways == Spec => []NothingLost
<1>1. Inv => NothingLost
  BY DEF Inv, Promises
<1> QED BY <1>1, Invariance, PTL

\* A call that returns nil leaves the source's data at dst, and a move no source
\* (copy.go:307-383, operations.go:2097-2119).
THEOREM DoneAlways == Spec => []Done
<1>1. Inv => Done
  BY DEF Inv, Promises
<1> QED BY <1>1, Invariance, PTL

\* A copy under a partial name leaves at dst what was there or all of the source
\* (copy.go:91-116, 354-374).
THEOREM OldOrNewAlways == Spec => []OldOrNew
<1>1. Inv => OldOrNew
  BY DEF Inv, Promises
<1> QED BY <1>1, Invariance, PTL

\* With --backup-dir a file that was at dst is there or in the backup
\* (operations.go:1680-1692, 2097-2107).
THEOREM BackedAlways == Spec => []Backed
<1>1. Inv => Backed
  BY DEF Inv, Promises
<1> QED BY <1>1, Invariance, PTL

\* What the next sync takes for the source by its size and time is the source
\* (operations.go:246-359, copy.go:345-374, multithread.go:240-289).
THEOREM TrueTimesAlways == Spec => []TrueTimes
<1>1. Inv => TrueTimes
  BY DEF Inv, Timely, TrueTimes
<1> QED BY <1>1, Invariance, PTL

\* When the call returns, no partial file is left (copy.go:312-315, 345-374).
THEOREM NoPartialLeftAlways == Spec => []NoPartialLeft
<1>1. Inv => NoPartialLeft
  BY DEF Inv, Promises
<1> QED BY <1>1, Invariance, PTL
=============================================================================

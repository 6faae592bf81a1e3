-------------------------------- MODULE Copy ---------------------------------
(***************************************************************************)
(* How rclone copies or moves one file (moveOrCopyFile, Move and Copy of   *)
(* fs/operations): whether it has to, what is set aside in the backup      *)
(* directory, the tries of the copy, on the server, as a stream or as      *)
(* chunks of several threads, the check of what has arrived, the renaming  *)
(* of a partial file, and the removal of a source that was moved.          *)
(***************************************************************************)
EXTENDS ReOpen, Sequences, FiniteSets

CONSTANTS
  Size,        \* of the source, in blocks
  Streams,     \* --multi-thread-streams, or what the backend says
  None,        \* no file
  Scenarios    \* options, files and faults to start from: see ScenarioType

\* A block is its number, Hole where nothing was written, Bad when it was
\* changed on its way, and Other in a file that is not the source's.
Hole == 0
Bad == -1
Other == -2
Blocks == 1..Size \cup {Hole, Bad, Other}
Whole == [i \in 1..Size |-> i]

\* A file is its data, and whether it has the modification time of the source.
Files == [data : Seq(Blocks), time : BOOLEAN]

\* tmp is the name a change of case goes through, copydest is the file of that name in
\* --copy-dest or --compare-dest, backup the one in --backup-dir or with the --suffix.
Names == {"src", "dst", "partial", "tmp", "copydest", "backup"}

ScenarioType ==
  [ move : BOOLEAN, caseOnly : BOOLEAN,
    way : {"stream", "multi", "rcat"},       \* rcat when the size is unknown
    serverCopy : {"no", "cant", "yes"}, serverMove : {"no", "cant", "yes"},
    partial : BOOLEAN,                       \* the copy goes to a partial name
    writerAt : BOOLEAN,                      \* how a multi-thread copy writes
    check : {"size", "hash", "time", "untimed"},    \* untimed: the remotes have no times
    hash : BOOLEAN,
    setTime : {"ok", "cant", "delete", "leave"},    \* leave: --no-update-modtime
    ignoreExisting : BOOLEAN, ignoreTimes : BOOLEAN, immutable : BOOLEAN,
    noCheckDest : BOOLEAN,
    update : BOOLEAN, newer : BOOLEAN,       \* newer: a dst of another time is
    backup : {"no", "dir", "suffix"},        \* suffix: no --backup-dir but a --suffix
    dest : {"no", "copy", "compare"},        \* --copy-dest, --compare-dest
    limit : BOOLEAN,                         \* the limit of a transfer may be reached
    cancel : BOOLEAN, exit : BOOLEAN,
    faults : SUBSET {"retry", "fail", "bad"}, maxFaults : Nat,
    files : [Names -> Files \cup {None}] ]

ASSUME CopyAssumption ==
  /\ Size \in Nat \ {0} /\ Streams \in Nat \ {0}
  /\ None \notin Files /\ Scenarios \subseteq ScenarioType
  /\ \A o \in Scenarios :
       /\ o.files["src"] = [data |-> Whole, time |-> TRUE]
       /\ o.files["partial"] = None /\ o.files["tmp"] = None
       \* needsMoveCaseInsensitive: src and dst are one file, here called src.
       /\ o.caseOnly => o.move /\ o.files["dst"] = None

VARIABLES
  opt,         \* one of Scenarios
  files,       \* what is stored under each name
  pc,
  known,       \* dstObj is not nil
  tries,       \* of copy
  err,         \* of the current try, or stuck when what it left stays there
  sent,        \* what the upload has been given
  handle,      \* of the stream, or of each chunk
  chunk,       \* of a multi-thread copy: wait, read, write, done, failed
  gone,        \* its context is cancelled: a chunk has failed
  cancelled, faults,
  result

upload == <<sent, handle, chunk, gone>>
vars == <<opt, files, pc, known, tries, err, upload, cancelled, faults, result>>

-----------------------------------------------------------------------------
Chunks == 1..Size
NoChunks == [c \in Chunks |-> "wait"]
NoHandles == [c \in Chunks |-> NewHandle(0, 0)]

Init ==
  /\ opt \in Scenarios
  /\ files = opt.files
  /\ pc = "find" /\ known = FALSE /\ tries = 0 /\ err = "nil"
  /\ sent = <<>> /\ handle = NoHandles /\ chunk = NoChunks /\ gone = FALSE
  /\ cancelled = FALSE /\ faults = opt.maxFaults
  /\ result = "none"

\* How a request may end.
Outcomes ==
  {"nil"} \cup (IF faults > 0 THEN opt.faults \ {"bad"} ELSE {})
          \cup (IF cancelled THEN {"fail"} ELSE {})
Counted(e) ==
  faults' = IF e = "nil" \/ (e = "fail" /\ cancelled) THEN faults ELSE faults - 1

Go(to) == pc' = to /\ UNCHANGED result
Return(e) == pc' = "done" /\ result' = IF e = "nil" THEN "nil" ELSE "error"

\* Plausible bug: the copy never goes to the partial name.
TargetFinal == "dst"

\* The name the copy is stored under.
Target == IF opt.partial THEN "partial" ELSE "dst"

\* What a request to move or to remove a file leaves when it ends with e: one
\* that failed may have taken effect.
Moved(from, to) == [files EXCEPT ![to] = files[from], ![from] = None]
Removed(name) == [files EXCEPT ![name] = None]
Effect(e, after) == files' = after \/ (e # "nil" /\ files' = files)

\* What an upload that failed leaves under the name.
Part == [data |-> sent, time |-> FALSE]
Left(name) == {files, Removed(name), [files EXCEPT ![name] = Part]}

\* A file is moved, or copied and removed, in one step: a copy that failed leaves
\* what it likes at its end, and a removal that failed leaves both.
Relocated(e, from, to) ==
  \/ Effect(e, Moved(from, to))
  \/ e # "nil" /\ files' \in Left(to) \cup {[files EXCEPT ![to] = files[from]]}

-----------------------------------------------------------------------------
(* Whether the file has to be copied: moveOrCopyFile. *)

\* The two objects are looked for, the second unless --no-check-dest.
Find ==
  /\ pc = "find"
  /\ \E e \in Outcomes :
       /\ Counted(e)
       /\ IF e = "nil" THEN Go(IF opt.caseOnly THEN "aside" ELSE "need") ELSE Return(e)
       /\ known' = (e = "nil" /\ files["dst"] # None /\ ~opt.noCheckDest)
  /\ UNCHANGED <<opt, files, tries, err, upload, cancelled>>

\* What equal goes by agrees, or all but the time does; and whether it asks for hashes.
SameSize(f) == opt.way = "rcat" \/ Len(f.data) = Size
SameHash(f) == opt.hash /\ f.data = Whole
Equal(f, by) ==
  /\ SameSize(f)
  /\ \/ by \in {"size", "untimed"}
     \/ by = "hash" /\ (opt.hash => SameHash(f))
     \/ by = "time" /\ f.time
TimeDiffers(f, by) == SameSize(f) /\ by = "time" /\ ~f.time /\ SameHash(f)
Hashes(f, by) == SameSize(f) /\ opt.hash /\ (by = "hash" \/ (by = "time" /\ ~f.time))

\* equal of the object found at dst: it sets a time that differs, or removes the file
\* where that takes an upload.
Resets(f, by) ==
  /\ TimeDiffers(f, by) /\ ~opt.immutable
  /\ opt.setTime = "ok" \/ (opt.setTime = "delete" /\ opt.backup # "dir")
Compared(by, same) ==
  LET f == opt.files["dst"] IN
  \/ /\ ~Resets(f, by) /\ UNCHANGED <<files, faults>>
     /\ same = (Equal(f, by) \/ (opt.setTime = "leave" /\ TimeDiffers(f, by)))
  \/ /\ Resets(f, by) /\ same = (opt.setTime = "ok")         \* also when it fails
     /\ \E e \in Outcomes :
          /\ Counted(e)
          /\ Effect(e, IF same THEN [files EXCEPT !["dst"].time = TRUE] ELSE Removed("dst"))
  \/ /\ Hashes(f, by) /\ ~same /\ UNCHANGED files
     /\ \E e \in Outcomes \ {"nil"} : Counted(e)

\* Plausible bug: without --update, what has another time is left alone too.
NewerAnyway(f) == f # None /\ opt.newer /\ ~f.time

\* --update leaves a newer file alone, takes the data of an older one for what counts,
\* and the size where the times agree.
Newer(f) == f # None /\ opt.update /\ opt.newer /\ ~f.time
Basis ==
  CASE opt.update /\ opt.files["dst"].time -> IF opt.check = "hash" THEN "hash" ELSE "size"
    [] opt.update /\ ~opt.files["dst"].time ->
         IF opt.check = "untimed" THEN "time" ELSE opt.check
    [] OTHER -> opt.check

NeedTransfer ==
  /\ pc = "need"
  /\ CASE ~known -> Go("compare") /\ UNCHANGED <<files, faults>>
       [] known /\ opt.ignoreExisting -> Go("skip") /\ UNCHANGED <<files, faults>>
       [] known /\ ~opt.ignoreExisting /\ opt.ignoreTimes ->
            Go("compare") /\ UNCHANGED <<files, faults>>
       [] known /\ ~opt.ignoreExisting /\ ~opt.ignoreTimes /\ Newer(files["dst"]) ->
            Go("skip") /\ UNCHANGED <<files, faults>>
       [] OTHER -> \E same \in BOOLEAN :
            Compared(Basis, same) /\ Go(IF same THEN "skip" ELSE "compare")
  /\ UNCHANGED <<opt, known, tries, err, upload, cancelled>>

\* CompareOrCopyDest looks for the file in --compare-dest or --copy-dest, where a time
\* that differs does not matter.
Elsewhere ==
  LET f == files["copydest"]
  IN f # None /\ (Equal(f, opt.check) \/ TimeDiffers(f, opt.check))
CopyDest ==
  /\ pc = "compare"
  /\ \/ /\ opt.dest = "no" \/ ~Elsewhere
        /\ Go("backup") /\ UNCHANGED faults
     \/ /\ opt.dest # "no" /\ Elsewhere
        /\ Go(CASE opt.dest = "compare" -> "skip"
                [] opt.dest = "copy" /\ known -> "equal"
                [] OTHER -> "copydest")
        /\ UNCHANGED faults
     \/ /\ opt.dest # "no"
        /\ \E e \in Outcomes \ {"nil"} :
             /\ Counted(e)
             /\ \/ Return(e)
                \/ files["copydest"] # None /\ Hashes(files["copydest"], opt.check) /\ Go("backup")
  /\ UNCHANGED <<opt, files, known, tries, err, upload, cancelled>>

\* copyDest compares with the file at dst once more, by the ordinary rules.
CopyDestEqual ==
  /\ pc = "equal"
  /\ \E same \in BOOLEAN :
       /\ Compared(opt.check, same)
       /\ Go(CASE same -> "skip"
               [] ~same /\ opt.backup # "no" -> "copybackup"
               [] OTHER -> "copydest")
  /\ UNCHANGED <<opt, known, tries, err, upload, cancelled>>

\* The object at dst may be gone, which makes every request about it fail.
AboutDst == IF files["dst"] = None THEN {"gone"} ELSE Outcomes

\* Plausible bug: the file is removed, not moved into --backup-dir.
SetAsideNot(e) ==
  IF e = "gone" THEN files' \in {files, Removed("backup")} /\ UNCHANGED faults
  ELSE Counted(e) /\ Effect(e, Removed("dst"))

\* MoveBackupDir: what is in the way in --backup-dir goes, and then the file is
\* moved there, or copied and removed.
SetAside(e) ==
  IF e = "gone" THEN files' \in {files, Removed("backup")} /\ UNCHANGED faults
  ELSE /\ Counted(e)
       /\ \/ Effect(e, Moved("dst", "backup"))
          \/ e # "nil" /\ files' \in {Removed("backup"), [files EXCEPT !["backup"] = files["dst"]]}

\* copyDest backs the old file up, which its caller is not told, and copies, here in
\* one step, the file of --copy-dest, which is on the same remote; a copy that fails
\* leaves the file to an ordinary copy, and in place it may have left what it likes.
CopyDestBackup ==
  /\ pc = "copybackup"
  /\ \E e \in AboutDst :
       SetAside(e) /\ IF e = "nil" THEN Go("copydest") ELSE Return(e)
  /\ UNCHANGED <<opt, known, tries, err, upload, cancelled>>

CopyDestCopy ==
  /\ pc = "copydest"
  /\ \E e \in Outcomes :
       /\ Counted(e)
       /\ IF e = "nil" THEN Go("skip") ELSE Go("backup")
       /\ \/ Effect(e, [files EXCEPT !["dst"] = files["copydest"]])
          \/ e # "nil" /\ ~opt.partial /\ files' \in Left("dst")
  /\ UNCHANGED <<opt, known, tries, err, upload, cancelled>>

\* A file at dst is moved to --backup-dir before it is replaced.
Backup ==
  /\ pc = "backup"
  /\ \/ ~(known /\ opt.backup # "no") /\ Go("op") /\ UNCHANGED <<files, known, faults>>
     \/ /\ known /\ opt.backup # "no"
        /\ \E e \in AboutDst :
             SetAside(e) /\ IF e = "nil" THEN Go("op") ELSE Return(e)
        /\ known' = FALSE
  /\ UNCHANGED <<opt, tries, err, upload, cancelled>>

\* Nothing has to be copied: a move removes the source.
Skip ==
  /\ pc = "skip"
  /\ IF opt.move /\ ~opt.ignoreExisting THEN Go("delete") ELSE Return("nil")
  /\ UNCHANGED <<opt, files, known, tries, err, upload, cancelled, faults>>
-----------------------------------------------------------------------------
(* Move. *)

\* A server-side move removes what is at dst first; without one, the file is
\* copied.
Op ==
  /\ pc = "op"
  /\ \/ /\ ~opt.move \/ opt.serverMove = "no"
        /\ Go("try") /\ UNCHANGED <<files, faults>>
     \/ /\ opt.move /\ opt.serverMove # "no" /\ ~known
        /\ Go("move") /\ UNCHANGED <<files, faults>>
     \/ /\ opt.move /\ opt.serverMove # "no" /\ known
        /\ \E e \in AboutDst :
             /\ IF e = "gone" THEN UNCHANGED faults ELSE Counted(e)
             /\ IF e = "nil" THEN Go("move") ELSE Return(e)
             /\ Effect(e, Removed("dst"))
  /\ UNCHANGED <<opt, known, tries, err, upload, cancelled>>

ServerMove ==
  /\ pc = "move"
  /\ \/ opt.serverMove = "cant" /\ Go("try") /\ UNCHANGED <<files, faults>>
     \/ /\ opt.serverMove = "yes"
        /\ \E e \in Outcomes : Counted(e) /\ Effect(e, Moved("src", "dst")) /\ Return(e)
  /\ UNCHANGED <<opt, known, tries, err, upload, cancelled>>

\* MoveCaseInsensitive: to a name of its own, and from there, each a MoveTransfer.
MoveAside ==
  /\ pc = "aside"
  /\ \E e \in Outcomes :
       /\ Counted(e) /\ Relocated(e, "src", "tmp")
       /\ IF e = "nil" THEN Go("back") ELSE Return(e)
  /\ UNCHANGED <<opt, known, tries, err, upload, cancelled>>
MoveBack ==
  /\ pc = "back"
  /\ \E e \in Outcomes : Counted(e) /\ Relocated(e, "tmp", "dst") /\ Return(e)
  /\ UNCHANGED <<opt, known, tries, err, upload, cancelled>>

\* The file has been copied, or was there: a move removes the source.
DeleteSource ==
  /\ pc = "delete"
  /\ \E e \in Outcomes : Counted(e) /\ Effect(e, Removed("src")) /\ Return(e)
  /\ UNCHANGED <<opt, known, tries, err, upload, cancelled>>

-----------------------------------------------------------------------------
(* Copy: one try. *)

NothingSent == [i \in 1..Size |-> Hole]

\* checkLimits, then the copy on the server, and where that is not to be had
\* the source is opened, or the chunk writer.
Try ==
  /\ pc = "try"
  /\ \/ /\ opt.limit /\ Return("fail")
        /\ UNCHANGED <<files, err, sent, handle, chunk, faults>>
     \/ /\ opt.serverCopy = "yes"
        /\ \E e \in Outcomes :
             Counted(e) /\ err' = e /\ Effect(e, [files EXCEPT ![Target] = files["src"]])
        /\ Go("tried") /\ UNCHANGED <<sent, handle, chunk>>
     \/ /\ opt.serverCopy # "yes"
        /\ \E e \in Outcomes :
             /\ Counted(e) /\ err' = e
             /\ Go(CASE e # "nil" -> "tried"
                     [] e = "nil" /\ opt.way = "multi" -> "chunks"
                     [] OTHER -> "stream")
             /\ handle' = [NoHandles EXCEPT ![1] = IF opt.way = "multi" THEN @
                                                   ELSE Open(NewHandle(0, Size), e = "nil")]
             /\ files' = IF e = "nil" /\ opt.way = "multi" /\ opt.writerAt
                         THEN [files EXCEPT ![Target] = [data |-> NothingSent, time |-> FALSE]]
                         ELSE files
        /\ sent' = IF opt.way = "multi" THEN NothingSent ELSE <<>>
        /\ chunk' = NoChunks
  /\ gone' = FALSE
  /\ UNCHANGED <<opt, known, tries, cancelled>>

\* How a read of handle h may go on: a block comes, the stream breaks, or a Seek
\* makes the handle open the source anew.
ReadSteps(h) ==
  IF h.newOffset >= 0
  THEN {[handle |-> AfterSeek(h, e = "nil"), block |-> Hole, err |-> e] : e \in Outcomes}
  ELSE {[handle |-> Advance(h), block |-> h.at + 1, err |-> "nil"]}
       \cup {[handle |-> Advance(h), block |-> Bad, err |-> e] :
              e \in IF faults > 0 THEN opt.faults \cap {"bad"} ELSE {}}
       \cup {[handle |-> Break(h, e = "retry", ok), block |-> Hole, err |-> e] :
              e \in Outcomes \ {"nil"}, ok \in BOOLEAN}
Reading(c) == handle[c].state = "open" /\ ~AtEnd(handle[c])

\* updateOrPut and rcat: the upload reads what it sends.
Stream ==
  /\ pc = "stream" /\ Reading(1)
  /\ \E r \in ReadSteps(handle[1]) :
       /\ Counted(r.err)
       /\ handle' = [handle EXCEPT ![1] = r.handle]
       /\ sent' = IF r.block = Hole THEN sent ELSE Append(sent, r.block)
  /\ UNCHANGED <<opt, files, pc, known, tries, err, chunk, gone, cancelled, result>>

\* The upload ends: with the reader's error, or of itself.  rcat compares what it
\* has sent with what it has read.
Stored ==
  /\ pc = "stream" /\ ~Reading(1)
  /\ \E e \in Outcomes \cup (IF AtEnd(handle[1]) THEN {} ELSE {"broken"}) :
       /\ IF AtEnd(handle[1]) THEN Counted(e) ELSE e = "broken" /\ UNCHANGED faults
       /\ IF e = "nil"
          THEN /\ files' = [files EXCEPT ![Target] = [Part EXCEPT !.time = TRUE]]
               /\ err' = IF opt.way = "rcat" /\ opt.hash /\ sent # Whole THEN "fail" ELSE "nil"
          ELSE /\ files' \in Left(Target)
               /\ err' \in IF e = "broken" THEN {"retry", "fail"} ELSE {e}
  /\ handle' = [handle EXCEPT ![1] = Close(@)]
  /\ Go("tried")
  /\ UNCHANGED <<opt, known, tries, sent, chunk, gone, cancelled>>

-----------------------------------------------------------------------------
(* multiThreadCopy. *)

Running == {c \in Chunks : chunk[c] \in {"read", "write"}}

\* A chunk is started when a thread is free, until one has failed.
Launch(c) ==
  /\ pc = "chunks" /\ chunk[c] = "wait" /\ ~gone /\ ~cancelled
  /\ \A d \in 1..(c - 1) : chunk[d] # "wait"
  /\ Cardinality(Running) < Streams
  /\ \E e \in Outcomes :
       /\ Counted(e) /\ gone' = (e # "nil")
       /\ handle' = [handle EXCEPT ![c] = Open(NewHandle(c - 1, c), e = "nil")]
       /\ chunk' = [chunk EXCEPT ![c] = IF e = "nil" THEN "read" ELSE "failed"]
  /\ UNCHANGED <<opt, files, pc, known, tries, err, sent, cancelled, result>>

\* copyChunk reads, and its context may be cancelled by the failure of another.
ReadChunk(c) ==
  /\ pc = "chunks" /\ chunk[c] = "read"
  /\ \/ /\ Reading(c)
        /\ \E r \in ReadSteps(handle[c]) :
             /\ Counted(r.err)
             /\ handle' = [handle EXCEPT ![c] = r.handle]
             /\ sent' = [sent EXCEPT ![c] = r.block]
             /\ chunk' = [chunk EXCEPT ![c] = IF AtEnd(r.handle) THEN "write" ELSE "read"]
        /\ UNCHANGED gone
     \/ /\ handle[c].state = "failed" \/ gone
        /\ chunk' = [chunk EXCEPT ![c] = "failed"] /\ gone' = TRUE
        /\ UNCHANGED <<handle, sent, faults>>
  /\ UNCHANGED <<opt, files, pc, known, tries, err, cancelled, result>>

\* WriteChunk: a backend that tries again seeks to the start of the chunk.
WriteChunk(c) ==
  /\ pc = "chunks" /\ chunk[c] = "write"
  /\ \E e \in IF gone THEN {"nil", "fail"} ELSE Outcomes :
       /\ IF gone THEN UNCHANGED faults ELSE Counted(e)
       /\ CASE e = "nil" -> /\ chunk' = [chunk EXCEPT ![c] = "done"]
                            /\ handle' = [handle EXCEPT ![c] = Close(@)]
                            /\ UNCHANGED <<sent, gone>>
            [] e = "retry" -> /\ handle' = [handle EXCEPT ![c] = Seek(@, 0)]
                              /\ chunk' = [chunk EXCEPT ![c] = "read"]
                              /\ UNCHANGED <<sent, gone>>
            [] OTHER -> /\ chunk' = [chunk EXCEPT ![c] = "failed"] /\ gone' = TRUE
                        /\ sent' \in {sent, [sent EXCEPT ![c] = Hole]}
                        /\ UNCHANGED handle
  /\ UNCHANGED <<opt, files, pc, known, tries, err, cancelled, result>>

\* What the upload comes to when it is closed: the chunks there are, joined; a file
\* written at its offsets has its size from the start, and its time to be set yet.
Joined ==
  IF \A c \in Chunks : sent[c] # Hole THEN sent ELSE SelectSeq(sent, LAMBDA b : b # Hole)
Finished(time) ==
  [files EXCEPT ![Target] = IF opt.writerAt THEN [data |-> sent, time |-> time]
                            ELSE [data |-> Joined, time |-> TRUE]]
Aborted == IF opt.writerAt THEN {Removed(Target), [files EXCEPT ![Target] = Part]} ELSE {files}

\* Plausible bug: every chunk is waited for, although no more are started once one
\* has failed.
WaitedForAll ==
  /\ pc = "chunks" /\ \A c \in Chunks : chunk[c] \in {"done", "failed"}
  /\ \/ gone /\ files' \in Aborted /\ err' \in {"retry", "fail"}
     \/ ~gone /\ files' = Finished(TRUE) /\ err' = "nil"
  /\ Go("tried")
  /\ UNCHANGED <<opt, known, tries, sent, handle, chunk, gone, cancelled, faults>>

\* g.Wait: every chunk that was started has ended.  One that failed makes the
\* upload be aborted; else it is closed, and found, and has its time set.
Waited ==
  /\ pc = "chunks" /\ Running = {}
  /\ gone \/ cancelled \/ \A c \in Chunks : chunk[c] # "wait"
  /\ \/ gone /\ files' \in Aborted /\ err' \in {"retry", "fail"} /\ UNCHANGED faults
     \/ /\ ~gone
        /\ \E e \in Outcomes :
             /\ Counted(e) /\ err' = e
             /\ files' \in IF e = "nil" THEN {Finished(TRUE)} ELSE Aborted \cup {Finished(FALSE)}
  /\ Go("tried")
  /\ UNCHANGED <<opt, known, tries, sent, handle, chunk, gone, cancelled>>

-----------------------------------------------------------------------------
(* Copy: the loop, and what follows it. *)

\* A cancelled context ends the loop whatever the try came to.
Tried ==
  /\ pc = "tried"
  /\ IF ~cancelled /\ err = "retry" /\ tries + 1 < MaxTries
     THEN Go("try") /\ tries' = tries + 1
     ELSE Go("ended") /\ UNCHANGED tries
  /\ err' = IF cancelled /\ err = "nil" THEN "canceled" ELSE err
  /\ UNCHANGED <<opt, files, known, upload, cancelled, faults>>

\* Plausible bug: the removal of the source does not depend on the copy.
CopiedAnyway(e) == IF opt.move THEN Go("delete") ELSE Return(e)

\* Copy has returned e: a move that worked removes the source.
Copied(e) == IF e = "nil" /\ opt.move THEN Go("delete") ELSE Return(e)

\* Plausible bug: only a copy that was not verified is removed.
EndedLeaving ==
  /\ pc = "ended"
  /\ IF err = "nil" THEN Go("verify") ELSE Copied(err)
  /\ UNCHANGED <<opt, files, known, tries, err, upload, cancelled, faults>>

\* After an error a partial file is removed, and a file at dst is not.
Ended ==
  /\ pc = "ended"
  /\ CASE err = "nil" -> Go("verify")
       [] err # "nil" /\ opt.partial -> Go("clean")
       [] OTHER -> Copied(err)
  /\ UNCHANGED <<opt, files, known, tries, err, upload, cancelled, faults>>

\* Plausible bug: the size is all that is compared.
VerifiedBySize(f) == SameSize(f)
Verified(f) == SameSize(f) /\ (opt.hash => SameHash(f))

\* verify: sizes and hashes; a hash that cannot be had is one that differs.
Verify ==
  /\ pc = "verify"
  /\ \/ /\ Verified(files[Target])
        /\ IF opt.partial THEN Go("rename") ELSE Copied("nil")
        /\ UNCHANGED faults
     \/ ~Verified(files[Target]) /\ Go("clean") /\ UNCHANGED faults
     \/ \E e \in Outcomes \ {"nil"} : opt.hash /\ Counted(e) /\ Go("clean")
  /\ UNCHANGED <<opt, files, known, tries, err, upload, cancelled>>

\* The partial file gets its name.
Rename ==
  /\ pc = "rename"
  /\ \E e \in Outcomes :
       /\ Counted(e) /\ Effect(e, Moved("partial", "dst"))
       /\ IF e = "nil" THEN Copied("nil") ELSE Go("clean")
  /\ UNCHANGED <<opt, known, tries, err, upload, cancelled>>

\* removeFailedCopy and removeFailedPartialCopy, whose own failure is logged only.
Clean ==
  /\ pc = "clean"
  /\ \E e \in Outcomes :
       /\ Counted(e) /\ Effect(e, Removed(Target))
       /\ err' = IF e = "nil" THEN "fail" ELSE "stuck"
  /\ Copied("fail")
  /\ UNCHANGED <<opt, known, tries, upload, cancelled>>

-----------------------------------------------------------------------------
\* The caller's context is cancelled.
Cancel ==
  /\ pc # "done" /\ opt.cancel /\ ~cancelled
  /\ cancelled' = TRUE
  /\ UNCHANGED <<opt, files, pc, known, tries, err, upload, faults, result>>

\* A signal ends the program: what manualCopy and multiThreadCopy have registered
\* runs, on whatever the upload has stored by then.
Exit ==
  /\ pc # "done" /\ opt.exit
  /\ \/ pc = "stream" /\ opt.partial /\ files' = Removed("partial")
     \/ pc = "stream" /\ ~opt.partial /\ files' \in Left("dst")
     \/ pc = "chunks" /\ files' = IF opt.partial \/ opt.writerAt THEN Removed(Target) ELSE files
     \/ pc \notin {"stream", "chunks"} /\ UNCHANGED files
  /\ pc' = "done" /\ result' = "exit"
  /\ UNCHANGED <<opt, known, tries, err, upload, cancelled, faults>>

Prepare ==
  Find \/ NeedTransfer \/ CopyDest \/ CopyDestEqual \/ CopyDestBackup \/ CopyDestCopy
  \/ Backup \/ Skip
Move == Op \/ ServerMove \/ MoveAside \/ MoveBack \/ DeleteSource
MultiThread ==
  (\E c \in Chunks : Launch(c) \/ ReadChunk(c) \/ WriteChunk(c)) \/ Waited
CopyFile == Try \/ Stream \/ Stored \/ MultiThread \/ Tried \/ Ended \/ Verify \/ Rename
            \/ Clean

Next == Prepare \/ Move \/ CopyFile \/ Cancel \/ Exit

Spec == Init /\ [][Next]_vars
\* The call and its threads run on; nobody need cancel it, nor end the program.
FairSpec == Spec /\ WF_vars(Prepare) /\ WF_vars(Move) /\ WF_vars(CopyFile)

-----------------------------------------------------------------------------
(* Properties. *)

Is(name, f) == files[name] = f
HasSource(name) == files[name] # None /\ files[name].data = Whole

\* A change of a block on its way that nothing can see, or that rcat sees and
\* leaves at dst.
Unseen == "bad" \in opt.faults /\ (~opt.hash \/ (opt.way = "rcat" /\ ~opt.partial))

\* What rclone takes for the source, by what it compares or by the time, is the
\* source.
Trusted ==
  \A n \in {"dst", "copydest"} :
    LET f == opt.files[n]
    IN f # None /\ SameSize(f) /\ (f.time \/ Equal(f, opt.check)) => f.data = Whole

\* Where the options let the source go without a copy at dst: --update keeps a newer
\* file there, as it was, and with --compare-dest a file there will do.  copyDest is
\* content with it as well when it compares with a file that NeedTransfer has just
\* removed, because the times of remotes that have none differed.
KeepsNewer ==
  /\ opt.update /\ opt.newer /\ ~opt.noCheckDest /\ ~opt.ignoreTimes
  /\ opt.files["dst"] # None /\ ~opt.files["dst"].time
ForgetsRemoval ==
  opt.dest = "copy" /\ opt.update /\ opt.check = "untimed" /\ opt.setTime = "delete"
Settled ==
  \/ HasSource("dst")
  \/ KeepsNewer /\ Is("dst", opt.files["dst"])
  \/ (opt.dest = "compare" \/ ForgetsRemoval) /\ HasSource("copydest")

\* What the source held is at the source, at dst, or at the name a change of case
\* goes through, whatever fails and whenever the call is cancelled or the program
\* ends; the source goes without that only where --update keeps a newer file, which
\* stays as it was, or where the file is in --compare-dest, or in --copy-dest when dst
\* was removed for its time (operations.go:433-519, 1680, 1766-1770, 2097-2119).
NothingLost ==
  Trusted /\ ~Unseen => Settled \/ HasSource("src") \/ HasSource("tmp")

\* A call that returns nil leaves the source's data at dst, or found it equal there,
\* unless --ignore-existing, --update with a newer file or --compare-dest tells it to
\* do without (or copyDest as in NothingLost), and a move leaves no source
\* (copy.go:307-383, operations.go:1728-1801, 2097-2119).
Done ==
  result = "nil" /\ Trusted /\ ~Unseen /\ ~opt.ignoreExisting =>
    Settled /\ (opt.move => Is("src", None))

\* A copy under a partial name that does not succeed leaves at dst what was there
\* or all of the source, never a part of it (copy.go:91-116, 354-374).
OldOrNew ==
  opt.partial /\ ~opt.move /\ opt.backup = "no" /\ opt.dest # "copy" /\ opt.setTime # "delete" =>
    \/ HasSource("dst") \/ Unseen
    \/ Is("dst", opt.files["dst"])

\* The data that was at dst is there, or in the backup.  --suffix does not keep a file
\* from being removed for its time, when it has the source's data.
OldKept ==
  \/ \E n \in {"dst", "backup"} : files[n] # None /\ files[n].data = opt.files["dst"].data
  \/ opt.backup = "suffix" /\ opt.setTime = "delete" /\ opt.files["dst"].data = Whole
Backing == opt.backup # "no" /\ ~opt.noCheckDest /\ opt.files["dst"] # None

\* With --backup-dir a file that was at dst is there or in the backup, except when
\* --copy-dest has backed it up and cannot copy; with --suffix also when it was removed
\* to be uploaded with its time; --no-check-dest does not see it
\* (operations.go:339-347, 1680-1692, 2097-2107).
Backed == Backing /\ opt.dest # "copy" => OldKept

\* The same, with --copy-dest: operations.go:1686 and 2098-2099 speak of a file that is
\* moved into --backup-dir if it exists.
BackedUp == Backing => OldKept

\* A file that the next sync takes for the source by its size and time is the
\* source, however this call ended, unless a multi-thread copy was cancelled in
\* place, or a changed block went there
\* (operations.go:246-359, copy.go:345-374, multithread.go:240-289).
TrueTimes ==
  pc = "done" /\ Trusted /\ files["dst"] # None
  /\ files["dst"].time /\ SameSize(files["dst"])
  /\ ~(cancelled /\ opt.way = "multi" /\ ~opt.partial)
  /\ ("bad" \in opt.faults => opt.hash /\ opt.partial)
    => HasSource("dst")

\* When the call returns, no partial file is left, unless its removal failed or the
\* limit of the transfer was reached between two tries (copy.go:312-315, 345-374).
NoPartialLeft ==
  result \in {"nil", "error"} /\ err # "stuck" /\ ~opt.limit => Is("partial", None)

\* The call returns: tries of the copy and of each handle come to an end.
Returns == <>(pc = "done")
=============================================================================

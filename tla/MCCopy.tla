------------------------------- MODULE MCCopy --------------------------------
(* A source of three blocks, and what it meets at dst. *)
EXTENDS Copy, TLC

CONSTANT none

Source == [data |-> Whole, time |-> TRUE]
Differs == [data |-> <<Other>>, time |-> FALSE]
Untimed == [data |-> Whole, time |-> FALSE]
Passing == [data |-> [i \in 1..Size |-> Other], time |-> FALSE]
At(dst, copydest, backup) ==
  "src" :> Source @@ "dst" :> dst @@ "partial" :> none @@ "tmp" :> none
  @@ "copydest" :> copydest @@ "backup" :> backup

Base ==
  [ move |-> FALSE, caseOnly |-> FALSE, way |-> "stream", serverCopy |-> "no",
    serverMove |-> "yes", partial |-> TRUE, writerAt |-> FALSE, check |-> "time", hash |-> TRUE,
    setTime |-> "ok", ignoreExisting |-> FALSE, ignoreTimes |-> FALSE, immutable |-> FALSE,
    noCheckDest |-> FALSE, update |-> FALSE, newer |-> TRUE, backup |-> "no", dest |-> "no",
    limit |-> FALSE, cancel |-> FALSE, exit |-> FALSE,
    faults |-> {"retry", "fail"}, maxFaults |-> 2, files |-> At(Differs, none, none) ]

Whatever == {"retry", "fail", "bad"}

MCScenarios ==
  { \* streams, under a partial name and in place
    [Base EXCEPT !.faults = Whatever, !.maxFaults = 3, !.cancel = TRUE, !.exit = TRUE],
    [Base EXCEPT !.partial = FALSE, !.faults = Whatever, !.cancel = TRUE, !.exit = TRUE],
    [Base EXCEPT !.partial = FALSE, !.move = TRUE, !.serverMove = "no", !.faults = Whatever],
    [Base EXCEPT !.hash = FALSE],
    [Base EXCEPT !.way = "rcat", !.faults = Whatever, !.limit = TRUE],
    [Base EXCEPT !.way = "rcat", !.partial = FALSE, !.move = TRUE, !.serverMove = "cant",
                 !.files = At(none, none, none)],
    \* several threads
    [Base EXCEPT !.way = "multi", !.writerAt = TRUE, !.faults = Whatever, !.cancel = TRUE],
    [Base EXCEPT !.way = "multi", !.partial = FALSE, !.cancel = TRUE, !.exit = TRUE],
    [Base EXCEPT !.way = "multi", !.partial = FALSE, !.writerAt = TRUE, !.hash = FALSE,
                 !.cancel = TRUE, !.exit = TRUE, !.move = TRUE, !.serverMove = "no",
                 !.faults = {"retry"}],
    \* copies and moves on the server
    [Base EXCEPT !.serverCopy = "yes", !.cancel = TRUE, !.maxFaults = 3],
    [Base EXCEPT !.serverCopy = "cant", !.move = TRUE, !.serverMove = "cant", !.exit = TRUE],
    [Base EXCEPT !.move = TRUE, !.backup = "dir", !.files = At(Differs, none, Differs)],
    [Base EXCEPT !.move = TRUE, !.serverCopy = "yes", !.cancel = TRUE],
    [Base EXCEPT !.move = TRUE, !.caseOnly = TRUE, !.files = At(none, none, none)],
    \* files that need no copy, or only their time set
    [Base EXCEPT !.move = TRUE, !.files = At(Source, none, none)],
    [Base EXCEPT !.move = TRUE, !.files = At(Untimed, none, none)],
    [Base EXCEPT !.move = TRUE, !.setTime = "delete", !.files = At(Untimed, none, none)],
    [Base EXCEPT !.setTime = "cant", !.backup = "dir", !.files = At(Untimed, none, none)],
    [Base EXCEPT !.immutable = TRUE, !.check = "hash", !.files = At(Untimed, none, none)],
    [Base EXCEPT !.move = TRUE, !.ignoreExisting = TRUE, !.check = "size"],
    \* a file that passes for the source by its size
    [Base EXCEPT !.move = TRUE, !.check = "size", !.files = At(Passing, none, none)],
    \* a newer file, an older one, and one of the same time, with --update
    [Base EXCEPT !.move = TRUE, !.update = TRUE],
    [Base EXCEPT !.move = TRUE, !.update = TRUE, !.newer = FALSE],
    [Base EXCEPT !.move = TRUE, !.update = TRUE, !.newer = FALSE,
                 !.files = At(Untimed, none, none)],
    [Base EXCEPT !.update = TRUE, !.check = "hash", !.files = At(Source, none, none)],
    \* --no-update-modtime, --ignore-times, --no-check-dest
    [Base EXCEPT !.move = TRUE, !.setTime = "leave", !.files = At(Untimed, none, none)],
    [Base EXCEPT !.ignoreTimes = TRUE, !.update = TRUE],
    [Base EXCEPT !.move = TRUE, !.noCheckDest = TRUE, !.backup = "dir", !.partial = FALSE],
    \* between remotes, under a partial name, and a change of case without a move
    [Base EXCEPT !.move = TRUE, !.serverMove = "no", !.cancel = TRUE],
    [Base EXCEPT !.move = TRUE, !.serverMove = "no", !.caseOnly = TRUE,
                 !.files = At(none, none, none)],
    \* --suffix, where a file has to go for its time to be set
    [Base EXCEPT !.setTime = "delete", !.backup = "suffix", !.files = At(Untimed, none, Differs)],
    \* --compare-dest, and --copy-dest, with --backup-dir and without
    [Base EXCEPT !.move = TRUE, !.dest = "compare", !.files = At(Differs, Untimed, none)],
    [Base EXCEPT !.move = TRUE, !.dest = "copy", !.ignoreTimes = TRUE,
                 !.files = At(Source, Source, none)],
    [Base EXCEPT !.move = TRUE, !.dest = "copy", !.update = TRUE, !.newer = FALSE,
                 !.check = "untimed", !.setTime = "delete", !.files = At(Untimed, Source, none)],
    [Base EXCEPT !.dest = "copy", !.backup = "dir", !.files = At(Differs, Source, none)],
    [Base EXCEPT !.dest = "copy", !.move = TRUE, !.files = At(Differs, Source, none)] }
=============================================================================

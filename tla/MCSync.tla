------------------------------- MODULE MCSync --------------------------------
(* Two files, and a directory with a file and a directory that has one too. *)
EXTENDS Sync, TLC

CONSTANTS top, a, b, d, x, e, f, v, w, dir, none

Tree == a :> top @@ b :> top @@ d :> top @@ x :> d @@ e :> d @@ f :> e

\* What is at a, b, d, d/x and d/e, with nothing at d/e/f.
T(p, q, r, s, t) == a :> p @@ b :> q @@ d :> r @@ x :> s @@ e :> t @@ f :> none

Copy ==
  [ mode |-> "off", move |-> FALSE, deleteEmpty |-> FALSE, copyEmpty |-> FALSE,
    checkFirst |-> FALSE, ordered |-> FALSE, rename |-> FALSE, immutable |-> FALSE,
    ignoreErrors |-> FALSE, backup |-> FALSE, ignoreExisting |-> FALSE, newer |-> {},
    dirTimes |-> FALSE, touches |-> FALSE,
    cutoff |-> "none", cancel |-> FALSE, faults |-> {}, maxFaults |-> 0,
    src |-> T(v, w, dir, v, none), dst |-> T(v, v, none, none, none) ]

AnyFault == {"err", "noretry", "fatal", "graceful"}
\* Of the source: a and b differ or not, and d/x is new.
\* Of dst: b is extra, and so is d with a file in it.
Extra == [Copy EXCEPT !.src = T(v, none, none, none, none), !.dst = T(w, v, dir, v, none)]

MCScenarios ==
  { \* copies, with a fault, and with the times of directories
    [Copy EXCEPT !.faults = AnyFault, !.maxFaults = 2],
    [Copy EXCEPT !.dirTimes = TRUE, !.touches = TRUE, !.checkFirst = TRUE,
                 !.faults = {"err"}, !.maxFaults = 1],
    [Copy EXCEPT !.dirTimes = TRUE, !.touches = TRUE, !.copyEmpty = TRUE,
                 !.src = T(v, none, dir, none, dir), !.dst = T(none, none, dir, none, none),
                 !.faults = {"err"}, !.maxFaults = 1],
    [Copy EXCEPT !.dirTimes = TRUE, !.src = T(v, none, dir, none, dir)],
    \* d/e comes with its file, which changes the time of d
    [Copy EXCEPT !.dirTimes = TRUE, !.touches = TRUE, !.faults = {"err"}, !.maxFaults = 1,
                 !.src = [T(v, none, dir, none, dir) EXCEPT ![f] = v],
                 !.dst = T(none, none, dir, none, none)],
    [Extra EXCEPT !.immutable = TRUE, !.cutoff = "hard"],
    \* syncs that delete before, during and after
    [Copy EXCEPT !.mode = "before", !.faults = {"err", "fatal"}, !.maxFaults = 1,
                 !.src = T(v, v, dir, none, none), !.dst = T(none, w, none, none, none)],
    [Extra EXCEPT !.mode = "during", !.faults = {"err", "fatal"}, !.maxFaults = 2,
                  !.cancel = TRUE],
    [Extra EXCEPT !.mode = "after", !.faults = AnyFault, !.maxFaults = 2, !.cancel = TRUE],
    [Extra EXCEPT !.mode = "after", !.ignoreErrors = TRUE, !.faults = {"err"}, !.maxFaults = 1],
    [Extra EXCEPT !.mode = "after", !.backup = TRUE, !.cutoff = "soft"],
    [Extra EXCEPT !.mode = "during", !.backup = TRUE, !.cutoff = "hard",
                  !.faults = {"err"}, !.maxFaults = 1],
    \* two files of the source that one at dst could become
    [Copy EXCEPT !.mode = "during", !.rename = TRUE, !.faults = AnyFault, !.maxFaults = 1,
                 !.src = T(v, none, dir, v, none), !.dst = T(none, v, none, none, none)],
    [Copy EXCEPT !.mode = "after", !.rename = TRUE, !.checkFirst = TRUE, !.cutoff = "soft",
                 !.src = T(v, v, dir, v, none), !.dst = T(none, v, none, none, none)],
    [Copy EXCEPT !.mode = "after", !.rename = TRUE, !.faults = {"err"}, !.maxFaults = 1,
                 !.backup = TRUE,
                 !.src = T(v, none, none, none, none), !.dst = T(none, v, dir, w, dir)],
    \* moves, the second with the deletions in the order of the transfers
    [Copy EXCEPT !.move = TRUE, !.deleteEmpty = TRUE, !.faults = AnyFault, !.maxFaults = 1,
                 !.cancel = TRUE],
    [Copy EXCEPT !.move = TRUE, !.deleteEmpty = TRUE, !.checkFirst = TRUE, !.ordered = TRUE,
                 !.faults = {"err"}, !.maxFaults = 1],
    \* --update and --ignore-existing: b differs at dst, where it stays
    [Copy EXCEPT !.move = TRUE, !.newer = {b}, !.faults = {"err"}, !.maxFaults = 1,
                 !.cancel = TRUE],
    [Copy EXCEPT !.move = TRUE, !.newer = {b}, !.checkFirst = TRUE, !.ordered = TRUE],
    [Copy EXCEPT !.move = TRUE, !.ignoreExisting = TRUE, !.deleteEmpty = TRUE],
    [Copy EXCEPT !.mode = "after", !.newer = {b}, !.backup = TRUE, !.rename = TRUE,
                 !.src = T(v, w, dir, v, none), !.dst = T(w, v, dir, none, none),
                 !.faults = {"err"}, !.maxFaults = 1],
    \* a file where the other side has a directory
    [Copy EXCEPT !.mode = "after", !.src = T(v, dir, none, none, none),
                 !.dst = T(dir, v, none, none, none)] }
=============================================================================

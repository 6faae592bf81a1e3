------------------------------- MODULE ReOpen --------------------------------
(***************************************************************************)
(* A handle on a range of a source that reopens itself where it was when a *)
(* read fails (fs/operations/reopen.go), as a record that each operation   *)
(* takes to a next one.  Data is counted in blocks.  ReadAt, which nothing *)
(* here calls, accounting and sources read from an offset to an end that   *)
(* is not known are left out.                                              *)
(***************************************************************************)
EXTENDS Integers

CONSTANT MaxTries     \* --low-level-retries

ASSUME ReOpenAssumption == MaxTries \in Nat \ {0}

\* at is where the stream below is, which the code never sees.
Handles ==
  [start : Nat, end : Nat, offset : Nat, newOffset : Int, tries : Nat, at : Nat,
   state : {"open", "failed", "closed"}]

\* NewReOpen, on blocks start + 1 to end, before it has opened the source.
NewHandle(start, end) ==
  [start |-> start, end |-> end, offset |-> 0, newOffset |-> -1, tries |-> 0, at |-> start,
   state |-> "failed"]

\* Plausible bug: the range is not moved on to where the handle has got.
OpenAtStart(h, ok) ==
  [h EXCEPT !.tries = @ + 1, !.at = h.start,
            !.state = IF ok /\ h.tries < MaxTries THEN "open" ELSE "failed"]

\* open: the source, from where the handle has got, if it lets itself be opened
\* and that was not tried too often.
Open(h, ok) ==
  [h EXCEPT !.tries = @ + 1, !.at = h.start + h.offset,
            !.state = IF ok /\ h.tries < MaxTries THEN "open" ELSE "failed"]

Failed(h) == [h EXCEPT !.state = "failed"]
AtEnd(h) == h.newOffset < 0 /\ h.offset = h.end - h.start

\* A read that a Seek has gone before reopens the source, unless it is there.
AfterSeek(h, ok) ==
  IF h.newOffset >= 0 /\ h.newOffset # h.offset
  THEN Open([h EXCEPT !.offset = h.newOffset, !.newOffset = -1], ok)
  ELSE [h EXCEPT !.newOffset = -1]

\* Read: one block comes.
Advance(h) == [h EXCEPT !.offset = @ + 1, !.at = @ + 1]

\* Read: the stream breaks, which is tried again unless the error forbids it.
Break(h, again, ok) == IF again THEN Open(h, ok) ELSE Failed(h)

\* Seek to an offset from the start, which gives back all the tries.
Seek(h, offset) == [h EXCEPT !.tries = 0, !.newOffset = offset]

Close(h) == [h EXCEPT !.state = "closed"]
=============================================================================

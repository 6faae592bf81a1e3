------------------------------- MODULE Paging -------------------------------
(***************************************************************************)
(* The paging loop shared by studIPGetFoldersOfFolder,                     *)
(* studIPGetFilesOfFolder and studIPGetCourseFolders                       *)
(* (backend/studip/requests.go).  One call loads a whole listing from the  *)
(* server in pages.  Other clients of the course edit the listing between  *)
(* two pages.                                                              *)
(***************************************************************************)
EXTENDS Integers, SequencesExt

CONSTANTS
  Items,          \* ids the server may ever list
  DefaultLimit,   \* page size when the request names none
  MaxLimit,       \* the largest page the server returns
  Overcount       \* how many unlisted items meta.page.total may count

ASSUME LimitsAssumption ==
  /\ IsFiniteSet(Items)
  /\ DefaultLimit \in Nat \ {0}
  /\ MaxLimit \in Nat \ {0}
  /\ Overcount \in Nat

VARIABLES
  listing,    \* the server's listing, in its order
  fresh,      \* ids no client has been told of yet
  kept,       \* ids listed without a break since the call began
  data,       \* responseJSON.Data
  total,      \* responseJSON.Meta.Page.Total
  limit,      \* responseJSON.Meta.Page.Limit
  pc,         \* where the call is
  edits       \* history: how others edited the listing so far

vars == <<listing, fresh, kept, data, total, limit, pc, edits>>
server == <<listing, fresh, kept, edits>>

-----------------------------------------------------------------------------
(* The server: one page, and the meta data that comes with it. *)

Least(a, b) == IF a <= b THEN a ELSE b

Page(offset, n) ==
  SubSeq(listing, offset + 1, Least(offset + n, Len(listing)))

\* meta.page.limit: some servers leave it out.
Reported(n) == {n, 0}

-----------------------------------------------------------------------------
(* The call. *)

nextPageLimit(lim, loaded) ==
  IF lim > 0 THEN lim ELSE IF loaded > 0 THEN loaded ELSE 30

\* Plausible bugs: the offset is one item too far, or overlaps what was loaded.
NextOffsetLate == Len(data) + 1
NextOffsetEarly == IF Len(data) > 1 THEN Len(data) - 1 ELSE Len(data)

NextOffset == Len(data)

\* The loop condition, evaluated on the response just merged.
More(d, t) == Len(d) < t

Init ==
  /\ listing \in { s \in SeqOf(Items, Cardinality(Items)) : IsInjective(s) }
  /\ fresh = Items \ ToSet(listing)
  /\ kept = ToSet(listing)
  /\ data = << >> /\ total = 0 /\ limit = 0
  /\ pc = "first"
  /\ edits = {}

\* The first request names neither offset nor limit.
FirstPage ==
  /\ pc = "first"
  /\ \E extra \in 0 .. Overcount :
       /\ data' = Page(0, Least(DefaultLimit, MaxLimit))
       /\ total' = Len(listing) + extra
       /\ limit' \in Reported(Least(DefaultLimit, MaxLimit))
       /\ pc' = IF More(data', total') THEN "more" ELSE "done"
  /\ UNCHANGED server

\* A later request asks for the items after those already loaded.
NextPage ==
  LET n    == Least(nextPageLimit(limit, Len(data)), MaxLimit)
      page == Page(NextOffset, n)
  IN /\ pc = "more"
     /\ page # << >>
     /\ \E extra \in 0 .. Overcount :
          /\ data' = data \o page
          /\ total' = Len(listing) + extra
          /\ limit' \in Reported(n)
          /\ pc' = IF More(data', total') THEN "more" ELSE "done"
     /\ UNCHANGED server

\* Plausible bug: an empty page is merged like any other, without the break.
EmptyPageKeepsGoing ==
  LET n == Least(nextPageLimit(limit, Len(data)), MaxLimit)
  IN /\ pc = "more"
     /\ Page(NextOffset, n) = << >>
     /\ UNCHANGED vars

\* An empty page ends the loop, whatever the total says.
EmptyPage ==
  LET n == Least(nextPageLimit(limit, Len(data)), MaxLimit)
  IN /\ pc = "more"
     /\ Page(NextOffset, n) = << >>
     /\ pc' = "done"
     /\ UNCHANGED <<server, data, total, limit>>

\* Any request may fail: the call returns nil and what it loaded is dropped.
RequestFails ==
  /\ pc \in {"first", "more"}
  /\ pc' = "failed"
  /\ data' = << >>
  /\ UNCHANGED <<server, total, limit>>

-----------------------------------------------------------------------------
(* Other clients. *)

OtherInserts ==
  /\ \E x \in fresh, i \in 1 .. Len(listing) + 1 :
       /\ listing' = InsertAt(listing, i, x)
       /\ fresh' = fresh \ {x}
  /\ edits' = edits \cup {"insert"}
  /\ UNCHANGED <<kept, data, total, limit, pc>>

OtherAppends ==
  /\ \E x \in fresh :
       /\ listing' = Append(listing, x)
       /\ fresh' = fresh \ {x}
  /\ UNCHANGED <<kept, data, total, limit, pc, edits>>

OtherRemoves ==
  /\ \E i \in 1 .. Len(listing) :
       /\ listing' = RemoveAt(listing, i)
       /\ kept' = kept \ {listing[i]}
  /\ edits' = edits \cup {"remove"}
  /\ UNCHANGED <<fresh, data, total, limit, pc>>

Answered == FirstPage \/ NextPage \/ EmptyPage
Call == Answered \/ RequestFails
OtherClients == OtherInserts \/ OtherAppends \/ OtherRemoves
Next == Call \/ OtherClients

Spec == Init /\ [][Next]_vars
\* A request is answered, or fails; the call is not saved by a failure.
FairSpec == Spec /\ WF_vars(Answered)

-----------------------------------------------------------------------------
(* Properties. *)

\* A listing that returns has every item that was listed during the whole
\* call, however many items were inserted between two pages: offsets count
\* what was loaded, so the loop never steps over an item (requests.go:156-176).
\* It holds as long as nothing is removed meanwhile.
NothingSkipped ==
  pc = "done" /\ "remove" \notin edits => kept \subseteq ToSet(data)

\* No item is loaded twice, although pages are cut from a listing that shrinks
\* and grows at its end between them (requests.go:156-176).  It holds as long
\* as nothing is inserted before the end.
NoDuplicates == "insert" \notin edits => IsInjective(data)

\* The loop always ends, also when the server counts items it never lists:
\* an empty page breaks it (requests.go:170-172).
CallReturns == <>(pc \in {"done", "failed"})

=============================================================================

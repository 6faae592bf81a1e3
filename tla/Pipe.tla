-------------------------------- MODULE Pipe ---------------------------------
(***************************************************************************)
(* The queue between two stages of a sync (fs/sync/pipe.go): a slice or a  *)
(* heap of pairs under a mutex, and a channel of tokens, one for each pair *)
(* that may be taken.  The pair is queued under the lock before its token  *)
(* is sent, and is taken under the lock after its token has been received, *)
(* so that each operation is two steps with a gap between them.            *)
(***************************************************************************)
EXTENDS Integers, Sequences, FiniteSets, Functions

CONSTANTS
  Items,        \* the pairs that are put, each once
  Producers,    \* goroutines that call Put
  Consumers,    \* goroutines that call GetMax until it fails
  MaxBacklog,   \* capacity of the channel, which buffers
  Size,         \* of the source of a pair, -1 if it is unknown
  Same,         \* pairs whose source is their destination
  Rank,         \* what --order-by orders the pairs by
  Orders,       \* whether it is in effect, and the pipe's fraction, which is
                \* negative unless the order is mixed
  Fraction      \* of a consumer

ASSUME PipeAssumption ==
  /\ IsFiniteSet(Items) /\ IsFiniteSet(Producers) /\ IsFiniteSet(Consumers)
  /\ MaxBacklog \in Nat \ {0}
  /\ Size \in [Items -> Int] /\ Same \subseteq Items
  /\ Rank \in [Items -> Int]
  /\ Orders \subseteq [ordered : BOOLEAN, mixed : Int]
  /\ Fraction \in [Consumers -> Int]

VARIABLES
  order,        \* one of Orders: the pipe's less and fraction
  toPut,        \* pairs nobody has put yet
  queue,        \* p.queue
  tokens,       \* in p.c
  closed,       \* p.c has been closed
  totalSize,    \* p.totalSize
  cancelled,    \* the context of every call
  putting,      \* producers that have queued a pair and not sent its token
  taking,       \* consumers that have received a token and not taken a pair
  ended,        \* consumers whose last GetMax returned ok = false
  given         \* pairs that consumers have got

vars == <<order, toPut, queue, tokens, closed, totalSize, cancelled, putting, taking,
          ended, given>>

-----------------------------------------------------------------------------
Init ==
  /\ order \in Orders
  /\ toPut = Items
  /\ queue = <<>>
  /\ tokens = 0
  /\ closed = FALSE
  /\ totalSize = 0
  /\ cancelled = FALSE
  /\ putting = {} /\ taking = {} /\ ended = {}
  /\ given = {}

\* What a pair adds to the size of the backlog.
Counted(i) == IF Size[i] > 0 /\ i \notin Same THEN Size[i] ELSE 0

\* The queue without its n-th pair.
Without(n) == [k \in 1..(Len(queue) - 1) |-> IF k < n THEN queue[k] ELSE queue[k + 1]]

\* Plausible bug: the token is sent before the pair is in the queue.
EnqueueLate(p, i) ==
  /\ p \notin putting /\ ~closed /\ ~cancelled /\ i \in toPut
  /\ tokens < MaxBacklog
  /\ tokens' = tokens + 1
  /\ putting' = putting \cup {p}
  /\ UNCHANGED <<order, toPut, queue, totalSize, closed, cancelled, taking,
                 ended, given>>

\* Put, under the lock.
Enqueue(p, i) ==
  /\ p \notin putting /\ ~closed /\ ~cancelled /\ i \in toPut
  /\ toPut' = toPut \ {i}
  /\ queue' = Append(queue, i)
  /\ totalSize' = totalSize + Counted(i)
  /\ putting' = putting \cup {p}
  /\ UNCHANGED <<order, tokens, closed, cancelled, taking, ended, given>>

\* Put, once the channel has room for the token.
Send(p) ==
  /\ p \in putting /\ tokens < MaxBacklog
  /\ tokens' = tokens + 1
  /\ putting' = putting \ {p}
  /\ UNCHANGED <<order, toPut, queue, totalSize, closed, cancelled, taking,
                 ended, given>>

\* Put returns ok = false: the pair stays in the queue without a token.
PutCancelled(p) ==
  /\ p \in putting /\ cancelled
  /\ putting' = putting \ {p}
  /\ UNCHANGED <<order, toPut, queue, tokens, totalSize, closed, cancelled, taking,
                 ended, given>>

\* GetMax receives a token.
Receive(c) ==
  /\ c \notin taking \cup ended /\ tokens > 0
  /\ tokens' = tokens - 1
  /\ taking' = taking \cup {c}
  /\ UNCHANGED <<order, toPut, queue, totalSize, closed, cancelled, putting,
                 ended, given>>

\* The place in the queue of the pair c gets: the first when there is no
\* order, a least one, or a greatest one when c works from the other end.
Chosen(c, n) ==
  IF ~order.ordered THEN n = 1
  ELSE IF order.mixed < 0 \/ Fraction[c] < order.mixed
       THEN \A k \in 1..Len(queue) : Rank[queue[n]] <= Rank[queue[k]]
       ELSE \A k \in 1..Len(queue) : Rank[queue[n]] >= Rank[queue[k]]

\* Plausible bugs: the size of every pair is taken off, counted or not; Put keeps
\* the lock while it waits for room in the channel.
TakeSized(c) ==
  /\ c \in taking
  /\ \E n \in 1..Len(queue) :
       /\ Chosen(c, n)
       /\ queue' = Without(n)
       /\ given' = given \cup {queue[n]}
       /\ totalSize' = totalSize - Size[queue[n]]
  /\ taking' = taking \ {c}
  /\ UNCHANGED <<order, toPut, tokens, closed, cancelled, putting, ended>>

TakeLocked(c) ==
  /\ c \in taking /\ putting = {}
  /\ \E n \in 1..Len(queue) :
       /\ Chosen(c, n)
       /\ queue' = Without(n)
       /\ given' = given \cup {queue[n]}
       /\ totalSize' = totalSize - Counted(queue[n])
  /\ taking' = taking \ {c}
  /\ UNCHANGED <<order, toPut, tokens, closed, cancelled, putting, ended>>

\* GetMax takes a pair, under the lock.
Take(c) ==
  /\ c \in taking
  /\ \E n \in 1..Len(queue) :
       /\ Chosen(c, n)
       /\ queue' = Without(n)
       /\ given' = given \cup {queue[n]}
       /\ totalSize' = IF totalSize - Counted(queue[n]) < 0 THEN 0
                       ELSE totalSize - Counted(queue[n])
  /\ taking' = taking \ {c}
  /\ UNCHANGED <<order, toPut, tokens, closed, cancelled, putting, ended>>

\* Plausible bug: a worker stops as soon as the pipe is closed.
EndAtClose(c) ==
  /\ c \notin taking \cup ended
  /\ closed \/ cancelled
  /\ ended' = ended \cup {c}
  /\ UNCHANGED <<order, toPut, queue, tokens, totalSize, closed, cancelled, putting, taking,
                 given>>

\* GetMax returns ok = false: a closed channel first gives up its tokens.
End(c) ==
  /\ c \notin taking \cup ended
  /\ (closed /\ tokens = 0) \/ cancelled
  /\ ended' = ended \cup {c}
  /\ UNCHANGED <<order, toPut, queue, tokens, totalSize, closed, cancelled, putting, taking,
                 given>>

\* Whoever closes the pipe has waited for every Put to return.
Close ==
  /\ ~closed /\ putting = {} /\ (toPut = {} \/ cancelled)
  /\ closed' = TRUE
  /\ UNCHANGED <<order, toPut, queue, tokens, totalSize, cancelled, putting, taking,
                 ended, given>>

Cancel ==
  /\ ~cancelled
  /\ cancelled' = TRUE
  /\ UNCHANGED <<order, toPut, queue, tokens, totalSize, closed, putting, taking,
                 ended, given>>

Put(p) == (\E i \in Items : Enqueue(p, i)) \/ Send(p) \/ PutCancelled(p)
GetMax(c) == Receive(c) \/ Take(c) \/ End(c)

Next ==
  \/ \E p \in Producers : Put(p)
  \/ \E c \in Consumers : GetMax(c)
  \/ Close
  \/ Cancel

Spec == Init /\ [][Next]_vars
\* Goroutines that can go on are scheduled.
FairSpec ==
  /\ Spec /\ WF_vars(Close)
  /\ \A p \in Producers : WF_vars(Put(p))
  /\ \A c \in Consumers : WF_vars(GetMax(c))

-----------------------------------------------------------------------------
(* Properties. *)

\* Every variable keeps its range: the sizes taken off the total are those that
\* were added to it, and the channel never holds more than its capacity.
TypeOK ==
  /\ order \in Orders
  /\ toPut \subseteq Items /\ given \subseteq Items
  /\ queue \in Seq(Items)
  /\ tokens \in 0..MaxBacklog
  /\ closed \in BOOLEAN /\ cancelled \in BOOLEAN
  /\ totalSize \in Nat
  /\ putting \subseteq Producers
  /\ taking \subseteq Consumers /\ ended \subseteq Consumers

\* A consumer with a token finds a pair, whatever the others do between its
\* two steps: p.queue[0] does not panic (pipe.go:129-144).
TokenBacked == Len(queue) >= tokens + Cardinality(taking)

\* A pair is in one place: not put, in the queue, or with a consumer, and so
\* it is handed out at most once (pipe.go:94-100, 134-144).
OnePlace ==
  /\ Range(queue) \cap toPut = {}
  /\ Range(queue) \cap given = {}
  /\ toPut \cap given = {}
  /\ \A m, n \in 1..Len(queue) : queue[m] = queue[n] => m = n
  /\ Items = toPut \cup Range(queue) \cup given

\* When every consumer of a pipe that was closed and not cancelled has ended,
\* nothing is left in it: a close overtakes no pair (pipe.go:126-133, 173-181).
Drained ==
  closed /\ ~cancelled /\ ended = Consumers /\ Consumers # {} => given = Items

\* The size reported for the backlog is that of the pairs in it, although the
\* subtraction is cut off at zero (pipe.go:101-105, 145-152).
SizeOfBacklog ==
  totalSize = FoldFunction(LAMBDA i, sum : sum + Counted(i), 0, queue)

\* The workers of a stage end.
ConsumersEnd == <>(ended = Consumers)
=============================================================================

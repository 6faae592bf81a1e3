----------------------------- MODULE FileSystem -----------------------------
(***************************************************************************)
(* What the backend promises rclone: the course is a tree of paths, and a  *)
(* call that returns did to it what its name says, or failed and left it   *)
(* as it was, at most with folders made on the way to where it was going.  *)
(***************************************************************************)
EXTENDS Integers, Sequences, SequencesExt

CONSTANT Calls   \* records [op, at, to, size]

VARIABLES
  entries,   \* records [at, dir, size]
  call,      \* the last call
  result,    \* and its result, "none" while it runs
  sound      \* no request failed halfway, and nobody else changed the course

vars == <<entries, call, result, sound>>

Dir(p) == [at |-> p, dir |-> TRUE, size |-> -1]
Above(p) == {Dir(SubSeq(p, 1, n)) : n \in 1..(Len(p) - 1)}
Under(p) == {e \in entries : IsPrefix(p, e.at)}
Moved(p, q) == {[e EXCEPT !.at = q \o SubSeq(e.at, Len(p) + 1, Len(e.at))] : e \in Under(p)}

\* The folders the call needs, and whether it may succeed.
Needs(c) ==
  CASE c.op \in {"put", "mkdir", "update"} -> Above(c.at)
    [] c.op \in {"move", "dirmove"} -> Above(c.to)
    [] OTHER -> {}
May(c) ==
  CASE c.op = "rmdir" -> Under(c.at) = {Dir(c.at)}
    [] c.op = "purge" -> Dir(c.at) \in entries
    [] c.op \in {"update", "remove", "move"} -> Under(c.at) # {} /\ Dir(c.at) \notin entries
    [] c.op = "dirmove" -> Dir(c.at) \in entries /\ Under(c.to) = {}
    [] OTHER -> TRUE

Effect(c) ==
  CASE c.op \in {"put", "update"} ->
         (entries \ Under(c.at)) \cup {[at |-> c.at, dir |-> FALSE, size |-> c.size]}
    [] c.op = "mkdir" -> IF c.at = <<>> THEN entries ELSE entries \cup {Dir(c.at)}
    [] c.op \in {"rmdir", "purge", "remove"} -> entries \ Under(c.at)
    [] c.op \in {"move", "dirmove"} -> (entries \ Under(c.at)) \cup Moved(c.at, c.to)

Init == result = "ok" /\ sound = TRUE

Invoke ==
  /\ result # "none" /\ result' = "none"
  /\ call' \in Calls
  /\ UNCHANGED entries

Succeed ==
  /\ result = "none" /\ result' = "ok"
  /\ May(call)
  /\ entries' = Effect(call) \cup Needs(call)
  /\ UNCHANGED call

\* A call fails before its change, or (setting the license) after it.
Fail ==
  /\ result = "none" /\ result' = "failed"
  /\ \/ entries \subseteq entries' /\ entries' \subseteq entries \cup Needs(call)
     \/ call.op \in {"put", "update"} /\ entries' = Effect(call) \cup Needs(call)
  /\ UNCHANGED call

\* DirMove says that its destination exists, and rclone falls back to moving
\* the files one by one.
Exists ==
  /\ result = "none" /\ result' = "exists"
  /\ call.op = "dirmove"
  /\ UNCHANGED <<entries, call>>

Next ==
  \/ sound /\ UNCHANGED sound /\ (Invoke \/ Succeed \/ Fail \/ Exists)
  \/ sound' = FALSE

Spec == Init /\ [][Next]_vars
=============================================================================

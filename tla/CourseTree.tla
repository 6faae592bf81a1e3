----------------------------- MODULE CourseTree -----------------------------
(***************************************************************************)
(* The tree of a course (backend/studip/filetree.go): a function from the  *)
(* ids of folders and files to their nodes.  The course's top folder is    *)
(* Top and is not in the function.  A path is a sequence of names.         *)
(***************************************************************************)
EXTENDS Integers, Sequences, SequencesExt

Top == 0
None == -1

Folder(parent, name) == [parent |-> parent, name |-> name, dir |-> TRUE, size |-> -1]
File(parent, name, size) == [parent |-> parent, name |-> name, dir |-> FALSE, size |-> size]

Nodes == [parent : Nat, name : STRING, dir : BOOLEAN, size : Int]

Children(t, id) == {i \in DOMAIN t : t[i].parent = id}
IsDir(t, id) == id = Top \/ (id \in DOMAIN t /\ t[id].dir)

\* What a course starts as: everything is in a folder, has a name of its own
\* there, and is some way below the top.
IsCourse(t) ==
  /\ t \in [DOMAIN t -> Nodes] /\ \A i \in DOMAIN t : IsDir(t, t[i].parent)
  /\ \A i \in DOMAIN t : t[i].dir => t[i].size = -1
  /\ \A i, j \in DOMAIN t : t[i].parent = t[j].parent /\ t[i].name = t[j].name => i = j
  /\ \E depth \in [DOMAIN t -> 0..Cardinality(DOMAIN t)] :
       \A i \in DOMAIN t : t[i].parent \in DOMAIN t => depth[t[i].parent] < depth[i]

\* The first child of that name.  Children are listed in the order of their creation,
\* which is that of their ids.  A node that is moved goes to the end (fs.go:543): where
\* a tree has another of its new name there, the code finds that one first.
Child(t, id, name) ==
  LET named == {i \in Children(t, id) : t[i].name = name}
  IN IF named = {} THEN None ELSE Min(named)

GetNodeAtPath(t, root, path) ==
  FoldLeft(LAMBDA at, name : Child(t, at, name), root, path)

\* The node and everything below it.
Subtree(t, id) ==
  LET below[i \in DOMAIN t] ==
        i = id \/ (t[i].parent \in DOMAIN t /\ below[t[i].parent])
  IN {i \in DOMAIN t : below[i]}

With(t, id, node) == [i \in DOMAIN t \cup {id} |-> IF i = id THEN node ELSE t[i]]
Without(t, ids) == Restrict(t, DOMAIN t \ ids)

\* The node under another id, and with another size: applyFileRefData.
ReId(t, id, newId, size) == With(Without(t, {id}), newId, [t[id] EXCEPT !.size = size])

\* Where each node is, and what a listing shows of it.
Paths(t) ==
  LET path[i \in DOMAIN t] ==
        IF t[i].parent \in DOMAIN t THEN Append(path[t[i].parent], t[i].name)
        ELSE <<t[i].name>>
  IN path
Entries(t) == {[at |-> Paths(t)[i], dir |-> t[i].dir, size |-> t[i].size] : i \in DOMAIN t}
=============================================================================

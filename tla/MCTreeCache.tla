---------------------------- MODULE MCTreeCache ----------------------------
(* Instances of TreeCache for TLC. *)
EXTENDS TreeCache, TLC

CONSTANTS f, g, m1, m2, l1, l2, k1, k2, v1, v2

\* A move from f to g, another writer on g, and a reader of f.
WritersSrc == [c \in {m1, m2, l1} |-> IF c = m2 THEN g ELSE f]
WritersDst == [c \in {m1, m2, l1} |-> IF c = l1 THEN f ELSE g]

\* Two writers on f, one of them moving there from g, and a reader of f.
EveryoneSrc == [c \in {m1, m2, l1} |-> IF c = m1 THEN g ELSE f]
EveryoneDst == [c \in {m1, m2, l1} |-> f]

\* Folders and contents are interchangeable.
Symmetry == Permutations(Folders) \cup Permutations(Contents)
=============================================================================

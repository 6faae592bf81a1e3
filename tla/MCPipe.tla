------------------------------- MODULE MCPipe --------------------------------
(* Four pairs, two producers, and two consumers at the two ends of a mixed
   order, or of none; one pair has an unknown size, one stands for a deletion. *)
EXTENDS Pipe, TLC

CONSTANTS i1, i2, i3, i4, p1, p2, c1, c2

Sizes == i1 :> 2 @@ i2 :> -1 @@ i3 :> 1 @@ i4 :> 3
Ranks == i1 :> 2 @@ i2 :> -1 @@ i3 :> 1 @@ i4 :> 3
OrderSet == {[ordered |-> FALSE, mixed |-> -1], [ordered |-> TRUE, mixed |-> -1],
             [ordered |-> TRUE, mixed |-> 50]}
Fractions == c1 :> 0 @@ c2 :> 50
=============================================================================

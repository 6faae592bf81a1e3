------------------------------ MODULE MCPaging ------------------------------
(* Instances of Paging for TLC. *)
EXTENDS Paging

CONSTANTS i1, i2, i3, i4
=============================================================================

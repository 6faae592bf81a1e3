------------------------------- MODULE MCCrawl -------------------------------
(* A course of seven folders, one of which may not be read. *)
EXTENDS Crawl, TLC

CONSTANTS r, a, b, c, d, e, u

Tree == a :> r @@ b :> r @@ u :> r @@ c :> a @@ d :> a @@ e :> c
=============================================================================

-------------------------- MODULE MCUpdateDispatcher --------------------------
(* Two updates for a host h1 whose pipelines may never return, two for other *)
(* hosts, a queue of two, and two places in the worker and in the gate; a    *)
(* rollback that competes for h1 and loses its marker on the way to nested   *)
(* work.  There are fewer slots than hosts, so both selects block, and both  *)
(* requests for h1 may wait while the worker is busy elsewhere.              *)
EXTENDS UpdateDispatcher, TLC

CONSTANTS u1, u2, u3, u4, r1, h1, h2, h3

MCHostOf == (u1 :> h1) @@ (u2 :> h1) @@ (u3 :> h2) @@ (r1 :> h1) @@ (u4 :> h3)
=============================================================================

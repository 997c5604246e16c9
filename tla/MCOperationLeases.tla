--------------------------- MODULE MCOperationLeases ---------------------------
(* One host with two containers and a second host: two updates on one        *)
(* container, a rollback on the other, whose row nothing reclaims, a         *)
(* deletion by name, which works on the host, and a collector.               *)
EXTENDS OperationLeases, TLC

CONSTANTS j1, j2, j3, gc, col, hA, hB, cA1, cA2, cB1

MCHostOf == [r \in Resources |-> IF r \in {hB, cB1} THEN hB ELSE hA]

MCResourceOf == [o \in Operations |-> IF o \in {gc, col} THEN hA ELSE IF o = j3 THEN cA2 ELSE cA1]
=============================================================================

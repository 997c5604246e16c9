----------------------------- MODULE MCContinuity -----------------------------
(* An update of a DNS provider with protected data, a rollback of another    *)
(* container, a check and a replacement of the workers.                      *)
EXTENDS Continuity, TLC

CONSTANTS u1, r1, k1, w1
=============================================================================

-------------------------- MODULE MCRecoveryStore --------------------------
(***************************************************************************)
(* Two snapshots of one unit that keeps one, and a crash.                  *)
(***************************************************************************)
EXTENDS RecoveryStore
=============================================================================

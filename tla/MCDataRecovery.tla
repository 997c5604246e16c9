--------------------------- MODULE MCDataRecovery ---------------------------
(***************************************************************************)
(* A target, a container in its network namespace and another writer.      *)
(***************************************************************************)
EXTENDS DataRecovery

CONSTANTS app, side, other, m1, m2

const_Writers == {app, side, other}
const_Dependents == {side}
const_OneMount == <<m1>>
const_TwoMounts == <<m1, m2>>
=============================================================================

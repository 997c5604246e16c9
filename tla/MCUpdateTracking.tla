--------------------------- MODULE MCUpdateTracking ---------------------------
(***************************************************************************)
(* Three digests, so that one can follow the digest that was snoozed or    *)
(* rolled back; an hour of two minutes.  The third digest leaves room for  *)
(* one request or one failing call beside the rollback.                    *)
(***************************************************************************)
EXTENDS UpdateTracking

const_Policies == {"auto", "ignore"}
const_Rules == {<<Value(1)>>}
const_StepFirst == {<<Each(2), Value(1)>>}
const_Bads == {{}, {2}}
=============================================================================

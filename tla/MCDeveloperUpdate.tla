-------------------------- MODULE MCDeveloperUpdate --------------------------
(***************************************************************************)
(* Two tabs of the owner: both install, one of them cancels and recovers.  *)
(***************************************************************************)
EXTENDS DeveloperUpdate

CONSTANTS tab1, tab2

const_Tabs == {tab1, tab2}
=============================================================================

------------------------- MODULE MCUpdateReadiness -------------------------
(***************************************************************************)
(* A clear situation, every single deviation from it, and the pairs in     *)
(* which one deviation could hide another.                                 *)
(***************************************************************************)
EXTENDS UpdateReadiness

Clear == [target |-> "running", dependents |-> FALSE, health |-> TRUE, manifest |-> "ok",
          platform |-> TRUE, newer |-> TRUE, major |-> "same", volumes |-> TRUE,
          binds |-> FALSE, mounts |-> "some", selected |-> "there", room |-> "ready",
          swarm |-> "no", config |-> TRUE]

const_Configured == SUBSET Scopes

const_Situations ==
  {Clear, [Clear EXCEPT !.dependents = TRUE], [Clear EXCEPT !.health = FALSE],
   [Clear EXCEPT !.platform = FALSE], [Clear EXCEPT !.newer = FALSE],
   [Clear EXCEPT !.volumes = FALSE], [Clear EXCEPT !.config = FALSE],
   [Clear EXCEPT !.mounts = "none"], [Clear EXCEPT !.target = "stopped", !.binds = TRUE]}
  \cup {[Clear EXCEPT !.target = t] : t \in {"stopped", "unsafe", "missing", "unreadable", "no host"}}
  \cup {[Clear EXCEPT !.manifest = m] : m \in {"down", "noplatform"}}
  \cup {[Clear EXCEPT !.major = m] : m \in {"jump", "unknown"}}
  \cup {[Clear EXCEPT !.selected = m] : m \in {"external", "missing", "unread"}}
  \cup {[Clear EXCEPT !.room = r] : r \in {"unmeasured", "short", "incomplete", "excluded"}}
  \cup {[Clear EXCEPT !.swarm = s, !.mounts = m] : s \in {"service", "namespace"}, m \in {"none", "some"}}
=============================================================================

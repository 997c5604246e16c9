-------------------------- MODULE MutationExclusion --------------------------
(* What the mutation scheduler promises (the comment on                      *)
(* mutationPipelineGate in src/internal/app/mutation_scheduler.go): at most  *)
(* one mutation pipeline per Docker host and at most Capacity of them        *)
(* globally.  A pipeline is an update job, a rollback job, a chain action or *)
(* a crash recovery; its nested work on the same host needs no second entry. *)
EXTENDS Naturals, FiniteSets

CONSTANTS Pipelines, \* everything that may mutate a container
          Hosts,
          HostOf,    \* the host each pipeline works on
          Capacity   \* pipelines allowed at once, over all hosts

VARIABLE mutating    \* the pipelines inside their exclusive section

Init == mutating = {}

Enter(p) ==
    /\ p \notin mutating
    /\ \A q \in mutating : HostOf[q] # HostOf[p]
    /\ Cardinality(mutating) < Capacity
    /\ mutating' = mutating \cup {p}

Leave(p) ==
    /\ p \in mutating
    /\ mutating' = mutating \ {p}

Next == \E p \in Pipelines : Enter(p) \/ Leave(p)

Spec == Init /\ [][Next]_mutating
=============================================================================

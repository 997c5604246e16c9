----------------------------- MODULE MutationGate -----------------------------
(* The scheduler every destructive pipeline passes through                   *)
(* (src/internal/app/mutation_scheduler.go): a one-place channel per host,   *)
(* then one of Capacity global slots.  The channels carry no owner, so the   *)
(* model keeps only how full each is; who holds what is the pipelines' own   *)
(* control state.                                                            *)
(*                                                                           *)
(* A pipeline that holds the gate may start nested recovery on its host:     *)
(* with the context acquireMutationPipeline returned (the update's automatic *)
(* rollback) the second acquisition is recognised and is a no-op; with a     *)
(* fresh context (Unmarked: recreateCurrentChainMember passes                *)
(* context.Background() to its rollback) it goes through acquire like any    *)
(* other, while the outer entry stays held.                                  *)
EXTENDS Integers, FiniteSets

CONSTANTS Pipelines,
          Hosts,
          HostOf,
          Limit,       \* the argument of newMutationPipelineGate
          Cancellable, \* pipelines whose context a cancel request can end
          Unmarked     \* pipelines whose nested recovery uses a fresh context

ASSUME HostOfAssumption == HostOf \in [Pipelines -> Hosts]
ASSUME LimitAssumption == Limit \in Int
ASSUME PipelinesAssumption == IsFiniteSet(Pipelines)

Capacity == IF Limit < 1 THEN 1 ELSE Limit

VARIABLES stage,    \* where each pipeline is in acquire, its work, or release
          outer,    \* pipelines inside an unmarked nested acquire or its work
          hostGate, \* tokens in the host's channel, 0 or 1
          slots,    \* tokens in the global channel
          ended     \* pipelines whose context is done

gateVars == <<stage, outer, hostGate, slots, ended>>

Stages == {"idle", "want_host", "want_slot", "held", "nested"}

Inside(p) == stage[p] \in {"held", "nested"}

\* The pipelines inside their exclusive section.
Holders == {p \in Pipelines : Inside(p) \/ p \in outer}

Init ==
    /\ stage = [p \in Pipelines |-> "idle"]
    /\ outer = {}
    /\ hostGate = [h \in Hosts |-> 0]
    /\ slots = 0
    /\ ended = {}

-----------------------------------------------------------------------------
Goto(p, s) == stage' = [stage EXCEPT ![p] = s]

\* acquireMutationPipeline on a context that carries no marker of this host.
Request(p) ==
    /\ stage[p] = "idle"
    /\ p \notin ended
    /\ Goto(p, "want_host")
    /\ UNCHANGED <<outer, hostGate, slots, ended>>

\* The first select: host <- struct{}{}.
AcquireHost_Unguarded(p) ==
    /\ stage[p] = "want_host"
    /\ hostGate' = [hostGate EXCEPT ![HostOf[p]] = 1]
    /\ Goto(p, "want_slot")
    /\ UNCHANGED <<outer, slots, ended>>
AcquireHost(p) ==
    /\ stage[p] = "want_host"
    /\ hostGate[HostOf[p]] = 0
    /\ hostGate' = [hostGate EXCEPT ![HostOf[p]] = 1]
    /\ Goto(p, "want_slot")
    /\ UNCHANGED <<outer, slots, ended>>

\* The second select: g.slots <- struct{}{}.
AcquireSlot(p) ==
    /\ stage[p] = "want_slot"
    /\ slots < Capacity
    /\ slots' = slots + 1
    /\ Goto(p, "held")
    /\ UNCHANGED <<outer, hostGate, ended>>

\* <-ctx.Done() in either select; in the second the host token is given back.
\* A nested unmarked call waits on context.Background(), which never ends.
AbortOnHost(p) ==
    /\ stage[p] = "want_host"
    /\ p \in ended \ outer
    /\ Goto(p, "idle")
    /\ UNCHANGED <<outer, hostGate, slots, ended>>

AbortOnSlot_KeepsHost(p) ==
    /\ stage[p] = "want_slot"
    /\ p \in ended \ outer
    /\ Goto(p, "idle")
    /\ UNCHANGED <<outer, hostGate, slots, ended>>
AbortOnSlot(p) ==
    /\ stage[p] = "want_slot"
    /\ p \in ended \ outer
    /\ hostGate' = [hostGate EXCEPT ![HostOf[p]] = 0]
    /\ Goto(p, "idle")
    /\ UNCHANGED <<outer, slots, ended>>

\* The release closure: slot first, then host, once.  It ends the innermost
\* real entry, so after unmarked nested work the outer one is still held.
Release(p) ==
    /\ stage[p] = "held"
    /\ slots' = slots - 1
    /\ hostGate' = [hostGate EXCEPT ![HostOf[p]] = 0]
    /\ Goto(p, IF p \in outer THEN "held" ELSE "idle")
    /\ outer' = outer \ {p}
    /\ UNCHANGED ended

\* Nested recovery: mutationPipelineHeld(ctx, host) tells a marked context
\* from a fresh one.
CallNested(p) ==
    /\ stage[p] = "held"
    /\ p \notin outer
    /\ IF p \in Unmarked
       THEN Goto(p, "want_host") /\ outer' = outer \cup {p}
       ELSE Goto(p, "nested") /\ UNCHANGED outer
    /\ UNCHANGED <<hostGate, slots, ended>>

\* The release function of a marked nested call does nothing.
EndNested(p) ==
    /\ stage[p] = "nested"
    /\ Goto(p, "held")
    /\ UNCHANGED <<outer, hostGate, slots, ended>>

\* requestRunningJobCancellation ends the context of a pipeline in flight;
\* the next operation of the same kind starts with a new one.
EndContext(p) ==
    /\ p \in Cancellable \ ended
    /\ stage[p] # "idle"
    /\ ended' = ended \cup {p}
    /\ UNCHANGED <<stage, outer, hostGate, slots>>

NewContext(p) ==
    /\ p \in ended
    /\ stage[p] = "idle"
    /\ ended' = ended \ {p}
    /\ UNCHANGED <<stage, outer, hostGate, slots>>

-----------------------------------------------------------------------------
Next == \E p \in Pipelines :
    \/ Request(p)
    \/ AcquireHost(p) \/ AcquireSlot(p)
    \/ AbortOnHost(p) \/ AbortOnSlot(p)
    \/ CallNested(p) \/ EndNested(p)
    \/ Release(p)
    \/ EndContext(p) \/ NewContext(p)

Spec == Init /\ [][Next]_gateVars

\* What a pipeline does once it is its turn.  Go serves the senders blocked on
\* a channel in arrival order, so a waiter for a host or a slot that is freed
\* again and again gets its turn.
Advance(p) == AcquireHost(p) \/ AcquireSlot(p) \/ EndNested(p)

-----------------------------------------------------------------------------
\* Every variable has its type and neither channel is over-full.
TypeOK ==
    /\ stage \in [Pipelines -> Stages]
    /\ outer \subseteq Pipelines
    /\ hostGate \in [Hosts -> 0..1]
    /\ slots \in 0..Capacity
    /\ ended \subseteq Pipelines

\* Two pipelines never mutate the same host at once ("at most one mutation
\* pipeline per Docker host", mutation_scheduler.go).
OnePerHost ==
    \A p, q \in Holders : p # q => HostOf[p] # HostOf[q]

\* Never more than Capacity pipelines mutate at once, over all hosts ("at most
\* maxConcurrentUpdatePipelines mutations globally").
AtMostCapacity == Cardinality(Holders) <= Capacity

\* No token is lost or made up: a host's channel is full exactly while some
\* pipeline past the first select has not given it back.  An abort that kept
\* the host token would leave the host unusable until the process restarts.
OwnsHost(p) == stage[p] = "want_slot" \/ p \in Holders

HostTokensAccounted ==
    \A h \in Hosts : hostGate[h] = 1 <=> \E p \in Pipelines : HostOf[p] = h /\ OwnsHost(p)

\* The global channel holds one token per pipeline inside: release gives back
\* what acquire took, and a marked nested call gives back nothing.
SlotTokensAccounted == slots = Cardinality(Holders)

\* A nested call with a fresh context waits for the host token its own caller
\* holds and never gets past the first select, although the comment on
\* acquireMutationPipeline says nested recovery must reuse the slot already
\* held "instead of deadlocking on itself".
FreshContextWaitsForever == \A p \in outer : stage[p] = "want_host"

\* One pipeline per host holds, or is about to hold, the host's token.
OwnerUnique ==
    \A p, q \in Pipelines : OwnsHost(p) /\ OwnsHost(q) /\ HostOf[p] = HostOf[q] => p = q

\* The books of the two channels agree with the goroutines: no token is lost or
\* made up by aborts, nested entries and releases (mutationPipelineGate.acquire).
\* This is the inductive invariant of the proofs.
GateInv ==
    /\ TypeOK
    /\ HostTokensAccounted
    /\ OwnerUnique
    /\ SlotTokensAccounted
    /\ FreshContextWaitsForever

\* The pair of channels implements the abstract exclusion.
Exclusion == INSTANCE MutationExclusion WITH mutating <- Holders
ImplementsExclusion == Exclusion!Spec
=============================================================================

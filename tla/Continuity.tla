------------------------------ MODULE Continuity ------------------------------
(* The continuity guard (src/internal/app/continuity.go): one RWMutex that    *)
(* checks and ordinary mutations read-lock and the mutation of a container    *)
(* that provides DNS write-locks, together with workerOpMu, the RWMutex that  *)
(* keeps the update workers in place while they are used.  What a context     *)
(* already holds is a marker it carries, which makes nested acquisitions      *)
(* no-ops.                                                                    *)
(*                                                                            *)
(* A goroutine is the sequence of its calls on the two locks and of the work  *)
(* between them, in the order of the source; everything else it does is left  *)
(* out.  "mutate" is acquireContinuityMutation, "close" calls the release     *)
(* function and goes back to the context before the acquisition, "keep" calls *)
(* it and keeps the context.                                                  *)
EXTENDS Naturals, Sequences, SequencesExt, FiniteSets

CONSTANTS Updates,       \* pipelines of executeUpdate
          Rollbacks,     \* rollbacks of their own, and chain actions
          Checks,        \* runCheck, which may fall back to the update worker
          WorkerUpdates, \* replacement of the workers; Stop
          Dns,           \* updates and rollbacks of a DNS provider
          Captures,      \* updates of a container with protected data
          Nobody

Threads == Updates \cup Rollbacks \cup Checks \cup WorkerUpdates
Locks == {"continuity", "workerOp"}

ASSUME ThreadsAssumption ==
    /\ Nobody \notin Threads
    /\ Dns \subseteq Updates \cup Rollbacks
    /\ Captures \subseteq Updates

VARIABLES code,    \* the calls each goroutine has before it; <<>> at rest
          marker,  \* the continuity marker of its current context
          guards,  \* its release functions, and the markers before them
          readers, \* sync.RWMutex: read locks held
          writer,  \* who holds it for writing, or has announced itself
          blocked, \* readers that came while there was a writer
          granted  \* of these, those an unlock has let in

mutexes == <<readers, writer, blocked, granted>>
vars == <<code, marker, guards, mutexes>>

-----------------------------------------------------------------------------
RegistryCall == <<"read", "network", "close">>

\* A cold capture holds its guard beyond its own context.
Capture(u) == IF u \in Captures THEN <<"mutate", "apply", "transfer">> ELSE <<>>
EndCapture(u) == IF u \in Captures THEN <<"close">> ELSE <<>>
Preparation(u) ==
    RegistryCall \o Capture(u) \o RegistryCall \o EndCapture(u) \o RegistryCall

\* The post-update check runs under criticalCtx, which still has the marker;
\* the check after a rollback runs under the context it began with.
PostUpdateCheck == <<"keep", "shared", "refresh", "close">>
Rollback == <<"mutate", "apply", "verify", "close", "shared", "refresh", "close">>

\* The worker is held from before the window until it has returned; an image
\* restored earlier is applied without it.
UpdatePrograms(u) ==
    {Preparation(u) \o rest : rest \in {
        <<"worker+", "worker-">>,
        <<"worker+", "mutate", "close", "worker-">>,
        <<"worker+", "mutate", "apply", "worker-", "verify">> \o PostUpdateCheck,
        <<"worker+", "mutate", "apply", "worker-", "verify">> \o Rollback \o <<"close">>,
        <<"mutate", "apply", "verify">> \o PostUpdateCheck}}

Programs(t) ==
    IF t \in Updates THEN UpdatePrograms(t)
    ELSE IF t \in Rollbacks THEN {Rollback}
    ELSE IF t \in Checks
         THEN {<<"shared", "network">> \o RegistryCall \o <<"close">>,
               <<"shared", "network", "worker+">> \o RegistryCall \o <<"worker-", "close">>}
    ELSE {<<"replace+", "replace", "replace-">>}

Init ==
    /\ code = [t \in Threads |-> <<>>]
    /\ marker = [t \in Threads |-> "none"]
    /\ guards = [t \in Threads |-> <<>>]
    /\ readers = [l \in Locks |-> [t \in Threads |-> 0]]
    /\ writer = [l \in Locks |-> Nobody]
    /\ blocked = [l \in Locks |-> {}]
    /\ granted = [l \in Locks |-> {}]

At(t) == IF code[t] = <<>> THEN "rest" ELSE Head(code[t])
Proceed(t) == code' = [code EXCEPT ![t] = Tail(@)]

-----------------------------------------------------------------------------
\* sync.RWMutex.  A reader enters unless a writer holds the lock or waits for
\* the readers inside to leave; the unlock of a writer lets in all the readers
\* it kept out, before the next writer can announce itself.
RLock_PastWaitingWriter(t, l) ==
    /\ writer[l] = Nobody \/ \E s \in Threads : readers[l][s] > 0
    /\ readers' = [readers EXCEPT ![l][t] = @ + 1]
    /\ UNCHANGED <<writer, blocked, granted>>
RLock(t, l) ==
    /\ \/ /\ writer[l] = Nobody /\ t \notin blocked[l] \cup granted[l]
          /\ readers' = [readers EXCEPT ![l][t] = @ + 1] /\ UNCHANGED granted
       \/ /\ t \in granted[l]
          /\ granted' = [granted EXCEPT ![l] = @ \ {t}] /\ UNCHANGED readers
    /\ UNCHANGED <<writer, blocked>>

RUnlock(t, l) ==
    /\ readers' = [readers EXCEPT ![l][t] = @ - 1]
    /\ UNCHANGED <<writer, blocked, granted>>

Lock(t, l) ==
    /\ writer[l] = t
    /\ \A s \in Threads : readers[l][s] = 0
    /\ UNCHANGED mutexes

Unlock(t, l) ==
    /\ writer' = [writer EXCEPT ![l] = Nobody]
    /\ readers' = [readers EXCEPT ![l] = [s \in Threads |-> @[s] + IF s \in blocked[l] THEN 1 ELSE 0]]
    /\ granted' = [granted EXCEPT ![l] = @ \cup blocked[l]]
    /\ blocked' = [blocked EXCEPT ![l] = {}]

\* What the next call of a goroutine asks of a lock.
Marked_IgnoresShared(t) == marker[t] = "exclusive"
Marked(t) == marker[t] # "none"

WantsRead(t, l) ==
    \/ l = "workerOp" /\ At(t) = "worker+"
    \/ /\ l = "continuity" /\ ~Marked(t)
       /\ At(t) \in {"read", "shared"} \/ (At(t) = "mutate" /\ t \notin Dns)
WantsWrite(t, l) ==
    \/ l = "workerOp" /\ At(t) = "replace+"
    \/ l = "continuity" /\ At(t) = "mutate" /\ t \in Dns /\ marker[t] # "exclusive"

Block(t) ==
    /\ \E l \in Locks :
          /\ WantsRead(t, l)
          /\ writer[l] # Nobody
          /\ t \notin blocked[l] \cup granted[l]
          /\ blocked' = [blocked EXCEPT ![l] = @ \cup {t}]
    /\ UNCHANGED <<code, marker, guards, readers, writer, granted>>

Announce(t) ==
    /\ \E l \in Locks :
          /\ WantsWrite(t, l)
          /\ writer[l] = Nobody
          /\ writer' = [writer EXCEPT ![l] = t]
    /\ UNCHANGED <<code, marker, guards, readers, blocked, granted>>

-----------------------------------------------------------------------------
Begin(t) ==
    /\ code[t] = <<>>
    /\ \E program \in Programs(t) : code' = [code EXCEPT ![t] = program]
    /\ marker' = [marker EXCEPT ![t] = "none"]
    /\ UNCHANGED <<guards, mutexes>>

Guard(t, kind, mark) ==
    /\ guards' = [guards EXCEPT ![t] = Append(@, [kind |-> kind, before |-> marker[t]])]
    /\ marker' = [marker EXCEPT ![t] = mark]
    /\ Proceed(t)

acquireContinuityRead(t) ==
    /\ At(t) = "read"
    /\ IF Marked(t)
       THEN Guard(t, "nothing", marker[t]) /\ UNCHANGED mutexes
       ELSE RLock(t, "continuity") /\ Guard(t, "read", "none")

acquireContinuityShared(t) ==
    /\ At(t) = "shared" \/ (At(t) = "mutate" /\ t \notin Dns)
    /\ IF Marked(t)
       THEN Guard(t, "nothing", marker[t]) /\ UNCHANGED mutexes
       ELSE RLock(t, "continuity") /\ Guard(t, "read", "shared")

acquireContinuityExclusive_ReadLocks(t) ==
    /\ At(t) = "mutate" /\ t \in Dns
    /\ IF marker[t] = "exclusive"
       THEN Guard(t, "nothing", marker[t]) /\ UNCHANGED mutexes
       ELSE RLock(t, "continuity") /\ Guard(t, "read", "exclusive")
acquireContinuityExclusive(t) ==
    /\ At(t) = "mutate" /\ t \in Dns
    /\ IF marker[t] = "exclusive"
       THEN Guard(t, "nothing", marker[t]) /\ UNCHANGED mutexes
       ELSE Lock(t, "continuity") /\ Guard(t, "write", "exclusive")

\* The capture's context ends with it; the pipeline marks its own.
Transfer(t) ==
    /\ At(t) = "transfer"
    /\ marker' = [marker EXCEPT ![t] = IF t \in Dns THEN "exclusive" ELSE "shared"]
    /\ Proceed(t)
    /\ UNCHANGED <<guards, mutexes>>

Release(t, kind) ==
    CASE kind = "read"    -> RUnlock(t, "continuity")
      [] kind = "write"   -> Unlock(t, "continuity")
      [] kind = "nothing" -> UNCHANGED mutexes

Close(t) ==
    /\ At(t) \in {"close", "keep"}
    /\ Release(t, Last(guards[t]).kind)
    /\ marker' = IF At(t) = "keep" THEN marker
                 ELSE [marker EXCEPT ![t] = Last(guards[t]).before]
    /\ guards' = [guards EXCEPT ![t] = Front(@)]
    /\ Proceed(t)

UseWorker(t) ==
    /\ \/ At(t) = "worker+" /\ RLock(t, "workerOp")
       \/ At(t) = "worker-" /\ RUnlock(t, "workerOp")
    /\ Proceed(t)
    /\ UNCHANGED <<marker, guards>>

ReplaceWorkers(t) ==
    /\ \/ At(t) = "replace+" /\ Lock(t, "workerOp")
       \/ At(t) = "replace-" /\ Unlock(t, "workerOp")
    /\ Proceed(t)
    /\ UNCHANGED <<marker, guards>>

Work(t) ==
    /\ At(t) \in {"network", "apply", "verify", "refresh", "replace"}
    /\ Proceed(t)
    /\ UNCHANGED <<marker, guards, mutexes>>

Run(t) ==
    \/ acquireContinuityRead(t) \/ acquireContinuityShared(t) \/ acquireContinuityExclusive(t)
    \/ Transfer(t) \/ Close(t) \/ UseWorker(t) \/ ReplaceWorkers(t) \/ Work(t)
    \/ Block(t)

Next ==
    \E t \in Threads : Begin(t) \/ Run(t) \/ Announce(t)

Spec == Init /\ [][Next]_vars

\* Goroutines run and their work is bounded by timeouts.  Writers queue on the
\* mutex inside the RWMutex, which hands over to the longest waiter.
FairSpec ==
    /\ Spec
    /\ \A t \in Threads : WF_vars(Run(t))
    /\ \A t \in Dns \cup WorkerUpdates : SF_vars(Announce(t))

-----------------------------------------------------------------------------
\* A DNS provider that may be stopped.
Outage(t) == t \in Dns /\ At(t) \in {"apply", "verify"}

\* While a DNS provider may be down, no other goroutine resolves names for the
\* registry or a Docker endpoint and none changes a container ("a pending
\* DNS/control-plane writer prevents new shared mutations and registry readers
\* from entering"), nested calls and transferred guards included.
OutageIsAlone ==
    \A t, s \in Threads : Outage(t) /\ s # t => At(s) \notin {"network", "apply", "verify"}

\* "Discovery and registry calls can run concurrently before and after this
\* window, but never while a container may be stopped/recreated or while its
\* runtime/application readiness is still being established" (continuity.go):
\* the same of the check after an update.
OutageStopsAllChecks ==
    \A t, s \in Threads : Outage(t) /\ s # t => At(s) # "refresh"

\* The workers are never replaced while one of them applies an update.
WorkersStayInUse ==
    \A t, w \in Threads :
        At(w) = "replace" => ~(At(t) = "apply" /\ readers["workerOp"][t] > 0)

\* What must not overlap does not: registry and container work with a DNS
\* outage, the use of the workers with their replacement.
NoOverlap == OutageIsAlone /\ WorkersStayInUse

\* A check holds the continuity lock and waits behind a writer of
\* workerOpMu, the writer waits for the pipeline of a DNS provider, which holds
\* workerOpMu, and the pipeline waits for the check.
Circle ==
    \E u \in Dns, k \in Checks, w \in WorkerUpdates :
        /\ readers["workerOp"][u] > 0 /\ writer["continuity"] = u
        /\ readers["continuity"][k] > 0 /\ k \in blocked["workerOp"]
        /\ writer["workerOp"] = w

\* Whatever takes a guard ends: writers get their turn although checks keep
\* coming, nested acquisitions do not wait for their own goroutine ("avoiding
\* recursive RLock deadlocks when a writer is already waiting"), and the two
\* locks are not waited for in another circle than that one.
OperationsEnd == \A t \in Threads : code[t] # <<>> ~> (code[t] = <<>> \/ Circle)

\* The circle is for good, although "once an update is ready to mutate a
\* container, new registry checks stop entering while already-running checks
\* are allowed to finish cleanly" (continuity.go): none of its three goroutines,
\* and with them nobody who needs the continuity lock, goes on.
CircleIsForGood == [][Circle => Circle']_vars
=============================================================================

----------------------------- MODULE UpdateState -----------------------------
(* What the update pipeline, the rollback engine and crash recovery share,   *)
(* seen from one container: the durable rows (jobs, transactions, restore    *)
(* points, the operation lease), the container itself, and the memory of the *)
(* controller process, which a crash erases.  The host gate is reduced to    *)
(* its holder: MutationGate shows that it is exclusive per host and          *)
(* re-entrant for work nested under its holder.  Every Store call runs under *)
(* one mutex and one sqlite statement, so each is one step.                  *)
EXTENDS TransactionStates, Integers, FiniteSets

CONSTANTS Updates,      \* update jobs of the container (and its images)
          Rollbacks,    \* rollback jobs of the container
          Scan, Orphan, \* the two goroutines that recover transactions: the
                        \* scan after a start, and an orphaned safe cancel
          Cleanup,      \* a host-scoped cleanup job, as owner of the lease
          Nobody, Base, Broken,
          Scenarios     \* what may go wrong, one of them in each behaviour

Jobs == Updates \cup Rollbacks
Recoverers == {Scan, Orphan}
Actors == Jobs \cup Recoverers
Images == Updates \cup {Base, Broken}

ASSUME NamesAssumption ==
    /\ Updates \cap Rollbacks = {}
    /\ Jobs \cap {Scan, Orphan, Cleanup, Nobody, Base, Broken} = {}
    /\ Scan # Orphan
    /\ Nobody \notin {Scan, Orphan, Cleanup}
ASSUME ScenariosAssumption ==
    Scenarios \subseteq
        [cancellable : SUBSET Updates, \* whose running job a user may cancel
         overrun : SUBSET Jobs,        \* whose Docker work may outlast its deadline
         late : SUBSET Updates,        \* whose worker request may outlive the caller
         cleanups : BOOLEAN,           \* whether host cleanups run
         crashes : Nat,                \* bounds
         lostWrites : Nat]             \* job writes that fail all four attempts

VARIABLES
    job,     \* jobs.status, "none" before the row exists
    tx,      \* state and status of each update's transaction
    point,   \* the restore point of each update: its kind and original image
    lease,   \* owner of the row on the container or its host, or Nobody
    runtime, \* the image the container runs; Broken if it does not run
    worker,  \* the update whose worker request is outstanding, or Nobody
    mutated, \* history: updates that began to change the container
    up, pc, gate,
    verdict,    \* the outcome an actor is about to write on its job
    ctx,        \* "dead" once the context of the job's store calls is done
    cancelling, \* safe cancels recorded on the row and not yet signalled
    target,     \* the update each recoverer works on
    parent,     \* who started a rollback: an update, a recoverer, or Nobody
    source,     \* the update whose restore point a rollback restores
    scanned,    \* this process has listed the active transactions
    seen,       \* the state listed for each, "none" when not listed or dealt with
    cleaning,   \* a host cleanup runs
    crashes, lost,
    faults      \* the scenario of this behaviour

docker == <<runtime, worker, mutated>>
boot == <<up, scanned, seen>>
children == <<parent, source>>
bounds == <<crashes, lost, faults>>
vars == <<job, tx, point, lease, docker, boot, pc, gate, verdict, ctx,
          cancelling, target, children, cleaning, bounds>>

NoTransaction == [state |-> "none", status |-> "none"]
NoPoint == [kind |-> "none", image |-> Base]

Init ==
    /\ job = [j \in Jobs |-> "none"]
    /\ tx = [u \in Updates |-> NoTransaction]
    /\ point = [u \in Updates |-> NoPoint]
    /\ lease = Nobody /\ gate = Nobody /\ worker = Nobody
    /\ runtime = Base /\ mutated = {}
    /\ up = TRUE /\ scanned = TRUE
    /\ seen = [u \in Updates |-> "none"]
    /\ pc = [a \in Actors |-> "idle"]
    /\ verdict = [a \in Actors |-> "none"]
    /\ ctx = [j \in Jobs |-> "live"]
    /\ cancelling = {} /\ cleaning = FALSE
    /\ target = [w \in Recoverers |-> Nobody]
    /\ parent = [r \in Rollbacks |-> Nobody]
    /\ source = [r \in Rollbacks |-> Nobody]
    /\ crashes = 0 /\ lost = 0 /\ faults \in Scenarios

-----------------------------------------------------------------------------
HasActiveJob == \E j \in Jobs : job[j] \in ActiveJob
HasRecoveryRequiredTransaction == \E u \in Updates : tx[u].status = "recovery_required"

SetJob(j, status) == job' = [job EXCEPT ![j] = status]
SetTx(u, state, status) ==
    tx' = [tx EXCEPT ![u] = [state |-> state, status |-> status]]
\* SetUpdateTransactionRecovery leaves the state column alone.
SetStatus(u, status) == tx' = [tx EXCEPT ![u].status = status]
\* A write bound to the context of the job, its error ignored.
SetTxIfLive(u, state, status) ==
    IF ctx[u] = "live" THEN SetTx(u, state, status) ELSE UNCHANGED tx

Goto(a, to) == pc' = [pc EXCEPT ![a] = to]
SettleAs(a, outcome) ==
    Goto(a, "settle") /\ verdict' = [verdict EXCEPT ![a] = outcome]

\* A pipeline between its claim and its return; only then is a cancel signal
\* registered for the job.
Registered(u) == pc[u] \notin {"idle", "admitted", "queued", "done"}

\* The container changes under these stages.
Mutating(a) ==
    \/ a \in Updates /\ pc[a] \in {"applying", "image_verify", "corrected"}
    \/ a \in Rollbacks /\ pc[a] \in {"restoring", "restored"}
=============================================================================

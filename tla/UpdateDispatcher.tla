--------------------------- MODULE UpdateDispatcher ---------------------------
(* The update worker (updateWorker in src/internal/app/app.go) between the   *)
(* queue enqueueUpdate fills and the mutation gate its pipelines share with  *)
(* rollbacks, chain actions and recovery (Others).  The worker is a single   *)
(* goroutine: it dispatches until nothing more can start, then waits for one *)
(* queued request or one finished pipeline.  What a pipeline does while it   *)
(* holds the gate is the subject of UpdatePipeline; here it only ends.  The   *)
(* gate is MutationGate, step by step.                                       *)
EXTENDS MutationGate, Sequences, SequencesExt, FiniteSetsExt

CONSTANTS Updates,      \* update requests, each enqueued once
          Others,       \* other users of the gate
          QueueCap,     \* capacity of App.Queue
          StuckHosts    \* hosts whose pipelines may never return

ASSUME PipelinesOfTheGate ==
    /\ Updates \cap Others = {}
    /\ Pipelines = Updates \cup Others
\* maxConcurrentUpdatePipelines is 3, and the queue holds 200.
ASSUME WorkerAssumption == Limit \in Nat \ {0} /\ QueueCap \in Nat

VARIABLES job,        \* durable job status of each update
          place,      \* where the request is on its way through the worker
          queue,      \* App.Queue
          pending,    \* the worker's local backlog
          busyHosts, running, done

workerVars == <<queue, pending, busyHosts, running, done>>
vars == <<job, place, workerVars, gateVars>>

DispatcherInit ==
    /\ job = [u \in Updates |-> "none"]
    /\ place = [u \in Updates |-> "new"]
    /\ queue = <<>> /\ pending = <<>> /\ done = <<>>
    /\ busyHosts = {} /\ running = 0
    /\ Init

Move(u, p) == place' = [place EXCEPT ![u] = p]
SetJob(u, s) == job' = [job EXCEPT ![u] = s]

-----------------------------------------------------------------------------
\* enqueueUpdate: the row is created, then pushed without blocking; a full
\* queue fails the job at once.
Enqueue(u) ==
    /\ place[u] = "new"
    /\ IF Len(queue) < QueueCap
       THEN queue' = Append(queue, u) /\ SetJob(u, "queued") /\ Move(u, "queued")
       ELSE SetJob(u, "ended") /\ Move(u, "rejected") /\ UNCHANGED queue
    /\ UNCHANGED <<pending, busyHosts, running, done, gateVars>>

\* handleJobCancel on a job that has not started: the row is cancelled, the
\* request stays in the queue.
CancelQueued(u) ==
    /\ u \in Cancellable
    /\ job[u] = "queued"
    /\ SetJob(u, "cancelled")
    /\ UNCHANGED <<place, workerVars, gateVars>>

-----------------------------------------------------------------------------
\* nextDispatchableUpdate: the first pending request whose host is not busy.
nextDispatchableUpdate_LastFirst ==
    {i \in DOMAIN pending :
        /\ HostOf[pending[i]] \notin busyHosts
        /\ \A j \in (i + 1)..Len(pending) : HostOf[pending[j]] \in busyHosts}
nextDispatchableUpdate_HeadOnly ==
    {i \in DOMAIN pending : i = 1 /\ HostOf[pending[i]] \notin busyHosts}
nextDispatchableUpdate ==
    {i \in DOMAIN pending :
        /\ HostOf[pending[i]] \notin busyHosts
        /\ \A j \in 1..(i - 1) : HostOf[pending[j]] \in busyHosts}

CanDispatch == running < Limit /\ nextDispatchableUpdate # {}

Dispatch ==
    /\ running < Limit
    /\ \E i \in nextDispatchableUpdate :
        /\ pending' = RemoveAt(pending, i)
        /\ busyHosts' = busyHosts \cup {HostOf[pending[i]]}
        /\ Move(pending[i], "dispatched")
    /\ running' = running + 1
    /\ UNCHANGED <<job, queue, done, gateVars>>

\* The worker's select, reached when the inner loop is exhausted.
Receive ==
    /\ ~CanDispatch
    /\ queue # <<>>
    /\ pending' = Append(pending, Head(queue))
    /\ queue' = Tail(queue)
    /\ UNCHANGED <<job, place, busyHosts, running, done, gateVars>>

Acknowledge_HostStaysBusy ==
    /\ ~CanDispatch
    /\ done # <<>>
    /\ running' = running - 1
    /\ done' = Tail(done)
    /\ UNCHANGED <<job, place, queue, pending, busyHosts, gateVars>>
Acknowledge ==
    /\ ~CanDispatch
    /\ done # <<>>
    /\ busyHosts' = busyHosts \ {Head(done)}
    /\ running' = IF running > 0 THEN running - 1 ELSE running
    /\ done' = Tail(done)
    /\ UNCHANGED <<job, place, queue, pending, gateVars>>

-----------------------------------------------------------------------------
\* executeUpdate as the worker sees it: claim the row, pass the gate, return.
\* A row cancelled while queued is never claimed.
Claim(u) ==
    /\ place[u] = "dispatched"
    /\ IF job[u] = "queued"
       THEN SetJob(u, "running") /\ Move(u, "working") /\ Request(u)
       ELSE Move(u, "returned") /\ UNCHANGED <<job, gateVars>>
    /\ UNCHANGED workerVars

UpdateInGate(u) ==
    /\ AcquireHost(u) \/ AcquireSlot(u) \/ CallNested(u) \/ EndNested(u)
    /\ UNCHANGED <<job, place, workerVars>>

\* A cancel request ends the context of a claimed update (the signal only
\* matters while the update waits for the gate).
CancelRunning(u) ==
    /\ job[u] = "running"
    /\ EndContext(u)
    /\ UNCHANGED <<job, place, workerVars>>

GiveUp(u) ==
    /\ AbortOnHost(u) \/ AbortOnSlot(u)
    /\ SetJob(u, "cancelled")
    /\ Move(u, "returned")
    /\ UNCHANGED workerVars

\* Whether it succeeded is nothing to the worker.
Finish(u) ==
    /\ Release(u)
    /\ SetJob(u, "ended")
    /\ Move(u, "returned")
    /\ UNCHANGED workerVars

\* done <- r.HostID
SendDone(u) ==
    /\ place[u] = "returned"
    /\ Len(done) < Limit
    /\ done' = Append(done, HostOf[u])
    /\ Move(u, "finished")
    /\ UNCHANGED <<job, queue, pending, busyHosts, running, gateVars>>

OtherInGate(o) ==
    /\ \/ Request(o)
       \/ AcquireHost(o) \/ AcquireSlot(o)
       \/ CallNested(o) \/ EndNested(o)
       \/ Release(o)
    /\ UNCHANGED <<job, place, workerVars>>

-----------------------------------------------------------------------------
Worker == Dispatch \/ Receive \/ Acknowledge

DispatcherNext ==
    \/ Worker
    \/ \E u \in Updates :
        \/ Enqueue(u) \/ CancelQueued(u) \/ Claim(u) \/ UpdateInGate(u)
        \/ CancelRunning(u) \/ GiveUp(u) \/ Finish(u) \/ SendDone(u)
    \/ \E o \in Others : OtherInGate(o)

DispatcherSpec == DispatcherInit /\ [][DispatcherNext]_vars

\* The worker's goroutine is scheduled and its select picks among ready cases
\* at random, so each case that stays ready is taken; the goroutines it starts
\* run.  The gate is fair as MutationGate says.  Nothing is assumed of the
\* pipelines of a stuck host: they may stop anywhere and keep what they hold.
InGate(p) ==
    /\ Advance(p)
    /\ UNCHANGED <<job, place, workerVars>>
LeaveGate(p) ==
    IF p \in Updates
    THEN Finish(p)
    ELSE Release(p) /\ UNCHANGED <<job, place, workerVars>>

Healthy(p) == HostOf[p] \notin StuckHosts

DispatcherFairness ==
    /\ WF_vars(Dispatch) /\ SF_vars(Receive) /\ SF_vars(Acknowledge)
    /\ \A u \in Updates : Healthy(u) => WF_vars(Claim(u)) /\ WF_vars(SendDone(u))
    /\ \A p \in Updates \cup Others : Healthy(p) => SF_vars(InGate(p)) /\ SF_vars(LeaveGate(p))

FairDispatcherSpec == DispatcherSpec /\ DispatcherFairness

-----------------------------------------------------------------------------
Statuses == {"none", "queued", "running", "ended", "cancelled"}
Places == {"new", "queued", "rejected", "dispatched", "working", "returned", "finished"}

\* The pipelines the worker has started and not heard back from.
Started == {u \in Updates : place[u] \in {"dispatched", "working", "returned"}}

\* Every variable has its type; the channels respect their capacities.
DispatcherTypeOK ==
    /\ job \in [Updates -> Statuses]
    /\ place \in [Updates -> Places]
    /\ \A i \in DOMAIN queue : queue[i] \in Updates
    /\ Len(queue) <= QueueCap
    /\ \A i \in DOMAIN pending : pending[i] \in Updates
    /\ busyHosts \subseteq Hosts
    /\ running \in 0..Limit
    /\ Len(done) <= Limit

\* Two updates of one host never contend in the gate: an update waits there
\* only for a rollback, a chain action or a recovery.
UpdatesNeverContend ==
    \A u, v \in Updates :
        u # v /\ stage[u] # "idle" /\ stage[v] # "idle" => HostOf[u] # HostOf[v]

\* Channels keep to their capacities, and the worker's local books agree with
\* the goroutines: the hosts it believes busy are exactly those of the pipelines
\* it started and has not acknowledged, each of them once, and running counts
\* them (so a pipeline that ends never blocks on the done channel, which holds
\* as many as may run).
BooksBalance ==
    /\ DispatcherTypeOK
    /\ busyHosts = {HostOf[u] : u \in Started} \cup ToSet(done)
    /\ running = Cardinality(Started) + Len(done)
    /\ running = Cardinality(busyHosts)
    /\ UpdatesNeverContend

\* A request cancelled before the worker claims it never reaches the gate.
CancelledInQueueStaysOut ==
    [][\A u \in Updates : job[u] = "cancelled" => stage'[u] = "idle" /\ job'[u] = "cancelled"]_vars

\* Updates of one host start in the order they were queued, although a request
\* for a busy host is overtaken by later requests for idle hosts.
SameHostInOrder ==
    [][\A i, j \in DOMAIN (pending \o queue) :
        LET backlog == pending \o queue IN
        i < j /\ HostOf[backlog[i]] = HostOf[backlog[j]] /\ place'[backlog[j]] = "dispatched"
            => place'[backlog[i]] = "dispatched"]_vars

\* The backlog is worked off in order, and what was cancelled in it is not
\* (nextDispatchableUpdate, and the claim of a dispatched request).
BacklogInOrder == CancelledInQueueStaysOut /\ SameHostInOrder

\* Every update that entered the queue ends, whatever the other users of the
\* gate and the cancel requests do, and although pipelines on a stuck host and
\* those waiting behind them never end: "multiple waiters for the same busy
\* host cannot consume all global capacity and head-of-line block work on
\* unrelated hosts" (mutation_scheduler.go).
QueuedUpdatesEnd ==
    \A u \in Updates : Healthy(u) =>
        (place[u] = "queued" ~> place[u] = "finished")
=============================================================================

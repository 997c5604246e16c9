--------------------------- MODULE OperationLeases ---------------------------
(* Persisted operation leases (src/internal/db/reliability.go and            *)
(* src/internal/app/reliability.go).  A row outlives the process that wrote  *)
(* it; the owner's heartbeat renews it, a dead owner's row goes when its job *)
(* is reclaimed, or once it has not been renewed for its lifetime and        *)
(* somebody purges.  Nothing keeps a reclaim off a row whose owner is alive. *)
(* The recovery collectors take a host lease of a short lifetime and start   *)
(* no heartbeat.  Every statement of the store runs under one mutex, so each *)
(* is one step.                                                              *)
EXTENDS Naturals

CONSTANTS Operations,  \* jobs and collectors; the owner of a row is "job:<id>"
          Unrenewed,   \* the collectors ("system:recovery-gc:...")
          Reclaimable, \* updates, chains, deletions by name: recovery or cancel reclaims
          Resources,   \* lease keys: hosts and containers
          Hosts,
          HostOf,
          ResourceOf,
          TTL,         \* operationLeaseTTL in ticks
          ShortTTL,    \* the lifetime the collectors ask for
          Heartbeat,   \* a live owner renews at least every Heartbeat ticks
          NoOwner      \* no row

ASSUME ScopeAssumption ==
    /\ Hosts \subseteq Resources
    /\ HostOf \in [Resources -> Hosts]
    /\ \A h \in Hosts : HostOf[h] = h
    /\ ResourceOf \in [Operations -> Resources]
\* 30 seconds against two hours; ten minutes for a collector.
ASSUME TimingAssumption ==
    /\ TTL \in Nat /\ Heartbeat \in Nat /\ Heartbeat <= TTL
    /\ ShortTTL \in Nat /\ ShortTTL <= TTL
ASSUME KindAssumption ==
    /\ Unrenewed \subseteq Operations
    /\ Reclaimable \subseteq Operations \ Unrenewed

ASSUME NoOwnerAssumption == NoOwner \notin Operations

VARIABLES owner,   \* the operation each row names, or NoOwner
          age,     \* ticks since the row was written or renewed
          holding, \* operations of the running process that took their lease
          robbed,  \* those of them whose row was reclaimed under them
          up       \* the controller process runs

leasesVars == <<owner, age, holding, robbed, up>>

\* Operations at work whose heartbeat runs and whose row nobody reclaimed.
Guarded == holding \ (Unrenewed \cup robbed)

Conflict(r, s) ==
    \/ r = s
    \/ r \in Hosts /\ HostOf[s] = r
    \/ s \in Hosts /\ HostOf[r] = s

LeasesInit ==
    /\ owner = [r \in Resources |-> NoOwner]
    /\ age = [r \in Resources |-> 0]
    /\ holding = {}
    /\ robbed = {}
    /\ up = TRUE

-----------------------------------------------------------------------------
Expired_AtHeartbeat(r) == age[r] >= Heartbeat
Expired_Never(r) == FALSE
Expired(r) == age[r] > IF owner[r] \in Unrenewed THEN ShortTTL ELSE TTL

\* The rows DELETE ... WHERE expires_at < now leaves.
Unexpired == [r \in Resources |-> IF Expired(r) THEN NoOwner ELSE owner[r]]

Taken_ContainerIgnoresHost(r) ==
    \E s \in Resources :
        /\ Unexpired[s] # NoOwner
        /\ r = s \/ (r \in Hosts /\ HostOf[s] = r)
Taken(r) == \E s \in Resources : Unexpired[s] # NoOwner /\ Conflict(r, s)

\* AcquireOperationLease: purge, then insert unless a conflicting row exists.
\* A job takes one lease at a time: what recovers it waits for its gate first.
Acquire(o) ==
    LET r == ResourceOf[o] IN
    /\ up
    /\ o \notin holding
    /\ IF Taken(r)
       THEN owner' = Unexpired /\ UNCHANGED <<age, holding>>
       ELSE /\ owner' = [Unexpired EXCEPT ![r] = o]
            /\ age' = [age EXCEPT ![r] = 0]
            /\ holding' = holding \cup {o}
    /\ UNCHANGED <<robbed, up>>

\* RenewOperationLease, called by the heartbeat goroutine; it updates no row
\* when there is none, and nobody looks.
Renew(o) ==
    LET r == ResourceOf[o] IN
    /\ o \in holding \ Unrenewed
    /\ age' = IF owner[r] = o THEN [age EXCEPT ![r] = 0] ELSE age
    /\ UNCHANGED <<owner, holding, robbed, up>>

\* ReleaseOperationLease matches the key and the owner.
Release(o) ==
    LET r == ResourceOf[o] IN
    /\ o \in holding
    /\ owner' = IF owner[r] = o THEN [owner EXCEPT ![r] = NoOwner] ELSE owner
    /\ holding' = holding \ {o}
    /\ robbed' = robbed \ {o}
    /\ UNCHANGED <<age, up>>

\* ReleaseOperationLeaseByJob deletes the rows of a job, whoever works on it.
\* The startup scan calls it for every update it lists as interrupted and
\* every chain run that is not settled; it starts eight seconds after the
\* process, so an update or a run begun meanwhile is listed, and loses its row,
\* alive.  So does a deletion by name that is cancelled while still queued: it
\* has the lease by then, and goes on.  Other queued jobs have no row, and a
\* collector's row names no job.
Reclaim(o) ==
    /\ up
    /\ owner' = [r \in Resources |-> IF owner[r] = o THEN NoOwner ELSE owner[r]]
    /\ robbed' = IF o \in holding THEN robbed \cup {o} ELSE robbed
    /\ UNCHANGED <<age, holding, up>>

\* ExpireOperationLeases, before the startup recovery scan.
Expire ==
    /\ up
    /\ owner' = Unexpired
    /\ UNCHANGED <<age, holding, robbed, up>>

Crash ==
    /\ up
    /\ up' = FALSE
    /\ holding' = {}
    /\ robbed' = {}
    /\ UNCHANGED <<owner, age>>

Restart ==
    /\ ~up
    /\ up' = TRUE
    /\ UNCHANGED <<owner, age, holding, robbed>>

\* Time passes; the heartbeat of a live owner is never later than Heartbeat.
\* Ages beyond TTL are all alike.
Tick ==
    /\ \A o \in Guarded : age[ResourceOf[o]] < Heartbeat
    /\ age' = [r \in Resources |-> IF age[r] > TTL THEN age[r] ELSE age[r] + 1]
    /\ UNCHANGED <<owner, holding, robbed, up>>

LeasesNext ==
    \/ \E o \in Operations : Acquire(o) \/ Renew(o) \/ Release(o)
    \/ \E o \in Reclaimable : Reclaim(o)
    \/ Expire \/ Crash \/ Restart \/ Tick

LeasesSpec == LeasesInit /\ [][LeasesNext]_leasesVars

\* Heartbeats keep running, the clock moves, a crashed controller is started
\* again, operations end, and a blocked operation is tried again.
FairSpec ==
    /\ LeasesSpec
    /\ WF_leasesVars(Tick) /\ WF_leasesVars(Restart)
    /\ \A o \in Operations :
        WF_leasesVars(Renew(o)) /\ WF_leasesVars(Release(o)) /\ WF_leasesVars(Acquire(o))

-----------------------------------------------------------------------------
\* Every variable has its type.
TypeOK ==
    /\ owner \in [Resources -> Operations \cup {NoOwner}]
    /\ age \in [Resources -> Nat]
    /\ holding \subseteq Operations
    /\ robbed \subseteq holding \cap Reclaimable
    /\ up \in BOOLEAN

\* No two operations with a running heartbeat touch the same container, and
\* none works on a host while a cleanup owns it ("this closes the race where
\* image cleanup could remove an object between preflight and restore-point
\* creation").  What a purge, a release, a crash or the reclaim of another job
\* does never breaks it; an operation whose own row was reclaimed under it is
\* no longer protected, and protects nobody.
LeasesExclude ==
    \A o, k \in Guarded : o # k => ~Conflict(ResourceOf[o], ResourceOf[k])

\* The row of an operation with a heartbeat stays its own until it gives it
\* back or its job is reclaimed: neither a purge, nor the release or reclaim
\* of another job, nor a restart takes it.
HolderKeepsRow ==
    \A o \in Guarded : owner[ResourceOf[o]] = o /\ age[ResourceOf[o]] <= Heartbeat

\* The rows themselves never conflict, those of dead owners included.
RowsExclude ==
    \A r, s \in Resources :
        r # s /\ owner[r] # NoOwner /\ owner[s] # NoOwner => ~Conflict(r, s)

\* A row is only ever filed under the resource its owner works on.
RowsFiled == \A r \in Resources : owner[r] # NoOwner => ResourceOf[owner[r]] = r

LeaseInv ==
    /\ TypeOK
    /\ HolderKeepsRow
    /\ RowsExclude
    /\ RowsFiled
    /\ ~up => holding = {}

\* The persisted rows with expiry implement the abstract scoped exclusion; a
\* reclaim from a live owner ends the protection of its operation, there.
Scopes == INSTANCE ScopedExclusion WITH owners <- Guarded
ImplementsScopedExclusion == Scopes!Spec

\* A row left by a crash does not lock its resource for ever, even if nothing
\* reclaims its job: once the controller stays up, whoever still wants the
\* resource gets past it.
StaleRowGoes ==
    <>[]up => \A r \in Resources :
        (owner[r] # NoOwner /\ owner[r] \notin holding)
            ~> (owner[r] = NoOwner \/ owner[r] \in holding)
=============================================================================

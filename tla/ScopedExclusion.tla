---------------------------- MODULE ScopedExclusion ----------------------------
(* What the operation leases promise (the comment in AcquireOperationLease,  *)
(* src/internal/db/reliability.go): a destructive operation owns a container *)
(* or a whole host; a host-scoped one conflicts with every operation on that *)
(* host, operations on different containers do not conflict.  A controller   *)
(* crash ends every operation at once.                                       *)
CONSTANTS Operations, Resources, Hosts,
          HostOf,     \* the host of each resource, a host being its own
          ResourceOf  \* what each operation must own

VARIABLE owners       \* the operations at work

Conflict(r, s) ==
    \/ r = s
    \/ r \in Hosts /\ HostOf[s] = r
    \/ s \in Hosts /\ HostOf[r] = s

Init == owners = {}

Begin(o) ==
    /\ o \notin owners
    /\ \A k \in owners : ~Conflict(ResourceOf[o], ResourceOf[k])
    /\ owners' = owners \cup {o}

End(o) == o \in owners /\ owners' = owners \ {o}

Crash == owners' = {}

Next == (\E o \in Operations : Begin(o) \/ End(o)) \/ Crash

Spec == Init /\ [][Next]_owners
=============================================================================

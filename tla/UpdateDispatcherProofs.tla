------------------------ MODULE UpdateDispatcherProofs ------------------------
(* First the gate, for any finite set of pipelines, any hosts and any limit:  *)
(* it keeps its promise, and a nested call that lost its marker never         *)
(* returns.  Then the update worker's books, for any updates, hosts, limit    *)
(* and queue, and whatever is cancelled and whoever else uses the gate.  The  *)
(* worker knows of a pipeline only what it wrote down when it started it and  *)
(* what the done channel tells, so the invariant follows each request to the  *)
(* one place it is in: a slot of the queue or of the backlog, a running       *)
(* pipeline, or one message in the channel.                                   *)
EXTENDS UpdateDispatcher, FiniteSetTheorems, SequenceTheorems, TLAPS

-----------------------------------------------------------------------------
\* The gate's capacity is a positive number whatever limit it was made with.
LEMMA CapacityPositive == Capacity \in Nat /\ Capacity >= 1
  BY LimitAssumption DEF Capacity

\* The pipelines inside form a finite set, so they can be counted.
LEMMA HoldersFinite == IsFiniteSet(Holders) /\ Cardinality(Holders) \in Nat
  <1>1. Holders \subseteq Pipelines
    BY DEF Holders
  <1>2. QED
    BY <1>1, PipelinesAssumption, FS_Subset, FS_CardinalityType

\* Counting after one pipeline entered, or left.
LEMMA EnterCount ==
    ASSUME NEW p \in Pipelines, p \notin Holders, Holders' = Holders \cup {p}
    PROVE  Cardinality(Holders') = Cardinality(Holders) + 1
  BY HoldersFinite, FS_AddElement

LEMMA LeaveCount ==
    ASSUME NEW p \in Pipelines, p \in Holders, Holders' = Holders \ {p}
    PROVE  /\ Cardinality(Holders') = Cardinality(Holders) - 1
           /\ Cardinality(Holders) > 0
  <1>1. Cardinality(Holders') = Cardinality(Holders) - 1
    BY HoldersFinite, FS_RemoveElement
  <1>2. Cardinality(Holders) # 0
    BY HoldersFinite, FS_EmptySet
  <1>3. QED
    BY <1>1, <1>2, HoldersFinite

\* Filling or emptying one host's channel keeps the channels' type.
LEMMA HostGateType ==
    ASSUME hostGate \in [Hosts -> 0..1], NEW p \in Pipelines, NEW n \in 0..1,
           hostGate' = [hostGate EXCEPT ![HostOf[p]] = n]
    PROVE  /\ hostGate' \in [Hosts -> 0..1]
           /\ HostOf[p] \in Hosts
           /\ hostGate'[HostOf[p]] = n
           /\ \A h \in Hosts : h # HostOf[p] => hostGate'[h] = hostGate[h]
  <1>1. HostOf[p] \in Hosts
    BY HostOfAssumption
  <1>2. QED
    BY <1>1

-----------------------------------------------------------------------------
\* How each step changes who is inside.
LEMMA HoldersStep ==
    ASSUME GateInv, NEW p \in Pipelines
    PROVE  /\ Request(p) \/ AcquireHost(p) \/ AbortOnHost(p) \/ AbortOnSlot(p)
                  \/ CallNested(p) \/ EndNested(p) \/ EndContext(p) \/ NewContext(p)
                => Holders' = Holders
           /\ AcquireSlot(p) => p \notin Holders /\ Holders' = Holders \cup {p}
           /\ Release(p) => p \in Holders /\ Holders' = Holders \ {p}
  <1> USE DEF GateInv, TypeOK, Stages, Holders, Inside, Goto, FreshContextWaitsForever
  <1>1. Request(p) => Holders' = Holders
    BY DEF Request
  <1>2. AcquireHost(p) => Holders' = Holders
    BY DEF AcquireHost
  <1>3. AbortOnHost(p) => Holders' = Holders
    BY DEF AbortOnHost
  <1>4. AbortOnSlot(p) => Holders' = Holders
    BY DEF AbortOnSlot
  <1>5. CallNested(p) => Holders' = Holders
    BY DEF CallNested
  <1>6. EndNested(p) => Holders' = Holders
    BY DEF EndNested
  <1>7. EndContext(p) => Holders' = Holders
    BY DEF EndContext
  <1>8. NewContext(p) => Holders' = Holders
    BY DEF NewContext
  <1>9. AcquireSlot(p) => p \notin Holders /\ Holders' = Holders \cup {p}
    BY DEF AcquireSlot
  <1>10. Release(p) => p \in Holders /\ Holders' = Holders \ {p}
    BY DEF Release
  <1>11. QED
    BY <1>1, <1>2, <1>3, <1>4, <1>5, <1>6, <1>7, <1>8, <1>9, <1>10

LEMMA GateInit == Init => GateInv
  <1> SUFFICES ASSUME Init PROVE GateInv
    OBVIOUS
  <1> USE DEF Init, Holders, Inside, OwnsHost
  <1>1. TypeOK
    BY CapacityPositive DEF TypeOK, Stages
  <1>2. Holders = {}
    OBVIOUS
  <1>3. SlotTokensAccounted
    BY <1>2, FS_EmptySet DEF SlotTokensAccounted
  <1>4. HostTokensAccounted /\ OwnerUnique /\ FreshContextWaitsForever
    BY HostOfAssumption DEF HostTokensAccounted, OwnerUnique, FreshContextWaitsForever
  <1>5. QED
    BY <1>1, <1>3, <1>4 DEF GateInv

\* A step that leaves both channels alone and moves no owner.
LEMMA QuietStep ==
    ASSUME GateInv, NEW p \in Pipelines,
           Request(p) \/ AbortOnHost(p) \/ CallNested(p) \/ EndNested(p)
               \/ EndContext(p) \/ NewContext(p)
    PROVE  GateInv'
  <1>1. Holders' = Holders
    BY HoldersStep
  <1>2. \A q \in Pipelines : OwnsHost(q)' <=> OwnsHost(q)
    BY <1>1 DEF GateInv, TypeOK, Stages, OwnsHost, Goto, Request, AbortOnHost, CallNested,
               EndNested, EndContext, NewContext
  <1>3. hostGate' = hostGate /\ slots' = slots
    BY DEF Request, AbortOnHost, CallNested, EndNested, EndContext, NewContext
  <1>4. TypeOK'
    BY DEF GateInv, TypeOK, Stages, Goto, Request, AbortOnHost, CallNested, EndNested,
           EndContext, NewContext
  <1>5. HostTokensAccounted' /\ OwnerUnique'
    BY <1>2, <1>3 DEF GateInv, HostTokensAccounted, OwnerUnique
  <1>6. SlotTokensAccounted'
    BY <1>1, <1>3 DEF GateInv, SlotTokensAccounted
  <1>7. FreshContextWaitsForever'
    BY DEF GateInv, TypeOK, FreshContextWaitsForever, Goto, Request, AbortOnHost, CallNested,
           EndNested, EndContext, NewContext
  <1>8. QED
    BY <1>4, <1>5, <1>6, <1>7 DEF GateInv

LEMMA AcquireHostStep ==
    ASSUME GateInv, NEW p \in Pipelines, AcquireHost(p)
    PROVE  GateInv'
  <1> USE HostOfAssumption DEF AcquireHost, Goto
  <1>0. /\ hostGate' \in [Hosts -> 0..1]
        /\ HostOf[p] \in Hosts
        /\ hostGate'[HostOf[p]] = 1
        /\ \A h \in Hosts : h # HostOf[p] => hostGate'[h] = hostGate[h]
    <2>1. hostGate \in [Hosts -> 0..1]
      BY DEF GateInv, TypeOK
    <2>2. hostGate' = [hostGate EXCEPT ![HostOf[p]] = 1] /\ 1 \in 0..1
      OBVIOUS
    <2>3. QED
      BY <2>1, <2>2, HostGateType
  <1>1. Holders' = Holders
    BY HoldersStep
  <1>2. \A q \in Pipelines : HostOf[q] = HostOf[p] => ~OwnsHost(q)
    <2>1. hostGate[HostOf[p]] = 1 <=> \E q \in Pipelines : HostOf[q] = HostOf[p] /\ OwnsHost(q)
      BY <1>0 DEF GateInv, HostTokensAccounted
    <2>2. QED
      BY <2>1
  <1>3. \A q \in Pipelines : OwnsHost(q)' <=> (OwnsHost(q) \/ q = p)
    BY <1>1 DEF GateInv, TypeOK, OwnsHost
  <1>4. TypeOK'
    BY <1>0 DEF GateInv, TypeOK, Stages
  <1>5. HostTokensAccounted'
    BY <1>0, <1>3 DEF GateInv, TypeOK, HostTokensAccounted
  <1>6. OwnerUnique'
    BY <1>2, <1>3 DEF GateInv, OwnerUnique
  <1>7. SlotTokensAccounted'
    BY <1>1 DEF GateInv, SlotTokensAccounted
  <1>8. FreshContextWaitsForever'
    <2>1. p \notin outer
      BY <1>2 DEF OwnsHost, Holders
    <2>2. QED
      BY <2>1 DEF GateInv, TypeOK, FreshContextWaitsForever
  <1>9. QED
    BY <1>4, <1>5, <1>6, <1>7, <1>8 DEF GateInv

LEMMA AcquireSlotStep ==
    ASSUME GateInv, NEW p \in Pipelines, AcquireSlot(p)
    PROVE  GateInv'
  <1>1. p \notin Holders /\ Holders' = Holders \cup {p}
    BY HoldersStep
  <1>2. \A q \in Pipelines : OwnsHost(q)' <=> OwnsHost(q)
    BY <1>1 DEF GateInv, TypeOK, OwnsHost, AcquireSlot, Goto
  <1>3. TypeOK'
    BY CapacityPositive DEF GateInv, TypeOK, Stages, AcquireSlot, Goto
  <1>4. HostTokensAccounted' /\ OwnerUnique'
    BY <1>2 DEF GateInv, HostTokensAccounted, OwnerUnique, AcquireSlot
  <1>5. SlotTokensAccounted'
    BY <1>1, EnterCount DEF GateInv, SlotTokensAccounted, AcquireSlot
  <1>6. FreshContextWaitsForever'
    BY DEF GateInv, TypeOK, FreshContextWaitsForever, AcquireSlot, Goto
  <1>7. QED
    BY <1>3, <1>4, <1>5, <1>6 DEF GateInv

LEMMA AbortOnSlotStep ==
    ASSUME GateInv, NEW p \in Pipelines, AbortOnSlot(p)
    PROVE  GateInv'
  <1> USE HostOfAssumption DEF AbortOnSlot, Goto
  <1>0. /\ hostGate' \in [Hosts -> 0..1]
        /\ HostOf[p] \in Hosts
        /\ hostGate'[HostOf[p]] = 0
        /\ \A h \in Hosts : h # HostOf[p] => hostGate'[h] = hostGate[h]
    <2>1. hostGate \in [Hosts -> 0..1]
      BY DEF GateInv, TypeOK
    <2>2. hostGate' = [hostGate EXCEPT ![HostOf[p]] = 0] /\ 0 \in 0..1
      OBVIOUS
    <2>3. QED
      BY <2>1, <2>2, HostGateType
  <1>1. Holders' = Holders
    BY HoldersStep
  <1>2. p \notin Holders
    BY DEF GateInv, FreshContextWaitsForever, Holders, Inside
  <1>3. \A q \in Pipelines : OwnsHost(q)' <=> (OwnsHost(q) /\ q # p)
    BY <1>1, <1>2 DEF GateInv, TypeOK, OwnsHost
  <1>4. TypeOK'
    BY <1>0 DEF GateInv, TypeOK, Stages
  <1>5. \A q \in Pipelines : HostOf[q] = HostOf[p] /\ OwnsHost(q) => q = p
    BY DEF GateInv, OwnerUnique, OwnsHost
  <1>6. HostTokensAccounted'
    BY <1>0, <1>3, <1>5 DEF GateInv, TypeOK, HostTokensAccounted
  <1>7. OwnerUnique'
    BY <1>3 DEF GateInv, OwnerUnique
  <1>8. SlotTokensAccounted'
    BY <1>1 DEF GateInv, SlotTokensAccounted
  <1>9. FreshContextWaitsForever'
    BY DEF GateInv, TypeOK, FreshContextWaitsForever
  <1>10. QED
    BY <1>4, <1>6, <1>7, <1>8, <1>9 DEF GateInv

LEMMA ReleaseStep ==
    ASSUME GateInv, NEW p \in Pipelines, Release(p)
    PROVE  GateInv'
  <1> USE HostOfAssumption DEF Release, Goto
  <1>0. /\ hostGate' \in [Hosts -> 0..1]
        /\ HostOf[p] \in Hosts
        /\ hostGate'[HostOf[p]] = 0
        /\ \A h \in Hosts : h # HostOf[p] => hostGate'[h] = hostGate[h]
    <2>1. hostGate \in [Hosts -> 0..1]
      BY DEF GateInv, TypeOK
    <2>2. hostGate' = [hostGate EXCEPT ![HostOf[p]] = 0] /\ 0 \in 0..1
      OBVIOUS
    <2>3. QED
      BY <2>1, <2>2, HostGateType
  <1>1. p \in Holders /\ Holders' = Holders \ {p}
    BY HoldersStep
  <1>2. p \notin outer
    BY DEF GateInv, FreshContextWaitsForever
  <1>3. \A q \in Pipelines : OwnsHost(q)' <=> (OwnsHost(q) /\ q # p)
    BY <1>1, <1>2 DEF GateInv, TypeOK, OwnsHost
  <1>4. slots > 0 /\ slots' = Cardinality(Holders')
    BY <1>1, LeaveCount DEF GateInv, SlotTokensAccounted
  <1>5. TypeOK'
    BY <1>0, <1>4, CapacityPositive DEF GateInv, TypeOK, Stages
  <1>6. \A q \in Pipelines : HostOf[q] = HostOf[p] /\ OwnsHost(q) => q = p
    BY <1>1 DEF GateInv, OwnerUnique, OwnsHost
  <1>7. HostTokensAccounted'
    BY <1>0, <1>3, <1>6 DEF GateInv, TypeOK, HostTokensAccounted
  <1>8. OwnerUnique'
    BY <1>3 DEF GateInv, OwnerUnique
  <1>9. SlotTokensAccounted'
    BY <1>4 DEF SlotTokensAccounted
  <1>10. FreshContextWaitsForever'
    BY <1>2 DEF GateInv, TypeOK, FreshContextWaitsForever
  <1>11. QED
    BY <1>5, <1>7, <1>8, <1>9, <1>10 DEF GateInv

\* Every step of the gate preserves the inductive invariant.
LEMMA GateStep == GateInv /\ [Next]_gateVars => GateInv'
  <1> SUFFICES ASSUME GateInv, [Next]_gateVars PROVE GateInv'
    OBVIOUS
  <1>1. CASE UNCHANGED gateVars
    BY <1>1 DEF gateVars, GateInv, TypeOK, HostTokensAccounted, OwnerUnique, OwnsHost, Holders,
                Inside, SlotTokensAccounted, FreshContextWaitsForever
  <1>2. ASSUME NEW p \in Pipelines,
               Request(p) \/ AbortOnHost(p) \/ CallNested(p) \/ EndNested(p)
                   \/ EndContext(p) \/ NewContext(p)
        PROVE  GateInv'
    BY <1>2, QuietStep
  <1>3. ASSUME NEW p \in Pipelines,
               AcquireHost(p) \/ AcquireSlot(p) \/ AbortOnSlot(p) \/ Release(p)
        PROVE  GateInv'
    BY <1>3, AcquireHostStep, AcquireSlotStep, AbortOnSlotStep, ReleaseStep
  <1>4. QED
    BY <1>1, <1>2, <1>3 DEF Next

\* The invariant holds in every state of the gate.
THEOREM GateInvariant == Spec => []GateInv
  BY GateInit, GateStep, PTL DEF Spec

-----------------------------------------------------------------------------
\* At most one pipeline mutates a host at a time, whatever the pipelines, the
\* hosts and the limit, nested calls and cancelled waits included.
THEOREM ExclusionPerHost == Spec => []OnePerHost
  <1>1. GateInv => OnePerHost
    BY DEF GateInv, OwnerUnique, OwnsHost, OnePerHost, Holders
  <1>2. QED
    BY <1>1, GateInvariant, PTL

\* The number of pipelines inside never exceeds the gate's capacity.
THEOREM BoundedConcurrency == Spec => []AtMostCapacity
  <1>1. GateInv => AtMostCapacity
    BY CapacityPositive DEF GateInv, TypeOK, SlotTokensAccounted, AtMostCapacity
  <1>2. QED
    BY <1>1, GateInvariant, PTL

\* A nested acquisition made with a fresh context never passes the first
\* select: the failure path of recreateCurrentChainMember cannot return.
THEOREM FreshContextNeverReturns == Spec => []FreshContextWaitsForever
  <1>1. GateInv => FreshContextWaitsForever
    BY DEF GateInv
  <1>2. QED
    BY <1>1, GateInvariant, PTL

\* Every behaviour of the two channels is a behaviour of the abstract
\* exclusion, with the pipelines inside as its exclusive set.
THEOREM GateImplementsExclusion == Spec => ImplementsExclusion
  <1>1. Init => Exclusion!Init
    BY DEF Init, Exclusion!Init, Holders, Inside
  <1>2. ASSUME GateInv, [Next]_gateVars
        PROVE  [Exclusion!Next]_Holders
    <2>1. CASE UNCHANGED gateVars
      BY <2>1 DEF gateVars, Holders, Inside
    <2>2. ASSUME NEW p \in Pipelines, AcquireSlot(p)
          PROVE  Exclusion!Next
      <3>1. p \notin Holders /\ Holders' = Holders \cup {p}
        BY <1>2, <2>2, HoldersStep
      <3>2. \A q \in Holders : HostOf[q] # HostOf[p]
        BY <1>2, <2>2, <3>1 DEF GateInv, OwnerUnique, OwnsHost, AcquireSlot, Holders
      <3>3. Cardinality(Holders) < Capacity
        BY <1>2, <2>2 DEF GateInv, SlotTokensAccounted, AcquireSlot
      <3>4. Exclusion!Cardinality(Holders) < Capacity
        BY <3>3 DEF Exclusion!Cardinality, Cardinality
      <3>5. Exclusion!Enter(p)
        BY <3>1, <3>2, <3>4 DEF Exclusion!Enter
      <3>6. QED
        BY <3>5 DEF Exclusion!Next
    <2>3. ASSUME NEW p \in Pipelines, Release(p)
          PROVE  Exclusion!Next
      BY <1>2, <2>3, HoldersStep DEF Exclusion!Next, Exclusion!Leave
    <2>4. ASSUME NEW p \in Pipelines,
                 Request(p) \/ AcquireHost(p) \/ AbortOnHost(p) \/ AbortOnSlot(p)
                     \/ CallNested(p) \/ EndNested(p) \/ EndContext(p) \/ NewContext(p)
          PROVE  Holders' = Holders
      BY <1>2, <2>4, HoldersStep
    <2>5. QED
      BY <1>2, <2>1, <2>2, <2>3, <2>4 DEF Next
  <1>3. QED
    BY <1>1, <1>2, GateInvariant, PTL DEF Spec, ImplementsExclusion, Exclusion!Spec

-----------------------------------------------------------------------------
WorkerTyped ==
    /\ job \in [Updates -> Statuses]
    /\ place \in [Updates -> Places]
    /\ queue \in Seq(Updates) /\ pending \in Seq(Updates) /\ done \in Seq(Hosts)
    /\ Len(queue) <= QueueCap
    /\ busyHosts \subseteq Hosts /\ IsFiniteSet(busyHosts)

\* A waiting request is in one slot of the backlog or of the queue.
Distinct(s) == \A i, j \in DOMAIN s : s[i] = s[j] => i = j
WaitsOnce ==
    /\ \A i \in DOMAIN pending : place[pending[i]] = "queued"
    /\ \A i \in DOMAIN queue : place[queue[i]] = "queued"
    /\ Distinct(pending) /\ Distinct(queue)
    /\ \A i \in DOMAIN pending, j \in DOMAIN queue : pending[i] # queue[j]

\* A busy host is that of one pipeline, or of one message.
BusyOnce ==
    /\ busyHosts = {HostOf[u] : u \in Started} \cup ToSet(done)
    /\ \A u, v \in Started : HostOf[u] = HostOf[v] => u = v
    /\ \A u \in Started : \A i \in DOMAIN done : HostOf[u] # done[i]
    /\ Distinct(done)

Counted ==
    /\ running = Cardinality(Started) + Len(done)
    /\ running = Cardinality(busyHosts)
    /\ running <= Limit

\* What is in the gate was claimed, and what was claimed is not cancelled.
Claimed ==
    /\ \A u \in Updates : stage[u] # "idle" => place[u] = "working"
    /\ \A u \in Updates : place[u] = "working" => job[u] = "running"
    /\ \A u \in Updates : place[u] = "new" => job[u] = "none"

WorkerInv == WorkerTyped /\ WaitsOnce /\ BusyOnce /\ Counted /\ Claimed

-----------------------------------------------------------------------------
\* Sequences without one element, with one more, and without the first.
LEMMA RemoveAtFacts ==
    ASSUME NEW S, NEW s \in Seq(S), NEW i \in DOMAIN s
    PROVE  /\ RemoveAt(s, i) \in Seq(S) /\ Len(RemoveAt(s, i)) = Len(s) - 1
           /\ \A k \in 1 .. Len(s) - 1 : RemoveAt(s, i)[k] = IF k < i THEN s[k] ELSE s[k + 1]
<1>1. i \in 1 .. Len(s) /\ Len(s) \in Nat
    OBVIOUS
<1>2. /\ SubSeq(s, 1, i - 1) \in Seq(S) /\ Len(SubSeq(s, 1, i - 1)) = i - 1
      /\ \A k \in 1 .. i - 1 : SubSeq(s, 1, i - 1)[k] = s[k]
    BY <1>1
<1>3. /\ SubSeq(s, i + 1, Len(s)) \in Seq(S) /\ Len(SubSeq(s, i + 1, Len(s))) = Len(s) - i
      /\ \A k \in 1 .. Len(s) - i : SubSeq(s, i + 1, Len(s))[k] = s[i + k]
    BY <1>1
<1> DEFINE a == SubSeq(s, 1, i - 1)
           b == SubSeq(s, i + 1, Len(s))
<1>4. RemoveAt(s, i) = a \o b
    BY DEF RemoveAt
<1> HIDE DEF a, b
<1>5. a \in Seq(S) /\ b \in Seq(S) /\ Len(a) = i - 1 /\ Len(b) = Len(s) - i
    BY <1>2, <1>3 DEF a, b
<1>6. a \o b \in Seq(S) /\ Len(a \o b) = Len(s) - 1
    BY <1>1, <1>5
<1>7. ASSUME NEW k \in 1 .. Len(s) - 1, k < i PROVE (a \o b)[k] = s[k]
  <2>1. k \in 1 .. i - 1 /\ (a \o b)[k] = a[k]
    BY <1>1, <1>5, <1>7
  <2> QED
    BY <1>2, <2>1 DEF a
<1>8. ASSUME NEW k \in 1 .. Len(s) - 1, ~(k < i) PROVE (a \o b)[k] = s[k + 1]
  <2>1. k - (i - 1) \in 1 .. Len(s) - i /\ (a \o b)[k] = b[k - (i - 1)]
    <3>1. k \in Nat /\ i \in Nat /\ i <= k /\ k <= Len(s) - 1 /\ Len(s) \in Nat /\ i >= 1
      BY <1>1, <1>8
    <3>2. k - (i - 1) \in 1 .. Len(s) - i
      BY <3>1
    <3>3. k > Len(a) /\ k <= Len(a) + Len(b) /\ k - Len(a) = k - (i - 1)
      BY <1>5, <3>1
    <3>4. (a \o b)[k] = b[k - Len(a)]
      <4>1. k \in 1 .. Len(a) + Len(b) /\ ~(k <= Len(a))
        BY <1>5, <3>1, <3>3
      <4>2. QED
        BY <1>5, <4>1, ConcatProperties
    <3>5. QED
      BY <3>2, <3>3, <3>4
  <2>2. b[k - (i - 1)] = s[i + (k - (i - 1))]
    BY <1>3, <2>1 DEF b
  <2>3. i + (k - (i - 1)) = k + 1
    BY <1>1
  <2> QED
    BY <2>1, <2>2, <2>3
<1> QED
    BY <1>4, <1>6, <1>7, <1>8

LEMMA AppendFacts ==
    ASSUME NEW S, NEW s \in Seq(S), NEW x \in S
    PROVE  /\ Append(s, x) \in Seq(S) /\ Len(Append(s, x)) = Len(s) + 1
           /\ \A k \in 1 .. Len(s) : Append(s, x)[k] = s[k]
           /\ Append(s, x)[Len(s) + 1] = x
    OBVIOUS

LEMMA TailFacts ==
    ASSUME NEW S, NEW s \in Seq(S), s # <<>>
    PROVE  /\ Tail(s) \in Seq(S) /\ Len(Tail(s)) = Len(s) - 1 /\ Len(s) >= 1
           /\ \A k \in 1 .. Len(s) - 1 : Tail(s)[k] = s[k + 1]
           /\ Head(s) = s[1] /\ Head(s) \in S
    OBVIOUS

\* The updates are pipelines and each has a host; there are finitely many.
LEMMA UpdatesFacts ==
    /\ Updates \subseteq Pipelines /\ Others \subseteq Pipelines
    /\ \A u \in Updates : HostOf[u] \in Hosts
    /\ IsFiniteSet(Updates)
<1>1. Updates \subseteq Pipelines /\ Others \subseteq Pipelines
    BY PipelinesOfTheGate
<1> QED
    BY <1>1, HostOfAssumption, PipelinesAssumption, FS_Subset

LEMMA StartedFinite ==
    IsFiniteSet(Started) /\ Cardinality(Started) \in Nat
<1>1. Started \subseteq Updates
    BY DEF Started
<1> QED
    BY <1>1, UpdatesFacts, FS_Subset, FS_CardinalityType

-----------------------------------------------------------------------------
\* Whatever the worker and its pipelines do is a step of the gate, or none.
LEMMA WorkerUsesGate == [DispatcherNext]_vars => [Next]_gateVars
<1> SUFFICES ASSUME [DispatcherNext]_vars PROVE [Next]_gateVars
    OBVIOUS
<1>1. CASE Worker
    BY <1>1 DEF Worker, Dispatch, Receive, Acknowledge
<1>2. ASSUME NEW u \in Updates,
             \/ Enqueue(u) \/ CancelQueued(u) \/ Claim(u) \/ UpdateInGate(u)
             \/ CancelRunning(u) \/ GiveUp(u) \/ Finish(u) \/ SendDone(u)
      PROVE  [Next]_gateVars
  <2>1. u \in Pipelines
    BY UpdatesFacts
  <2>2. CASE Enqueue(u) \/ CancelQueued(u) \/ SendDone(u)
    BY <2>2 DEF Enqueue, CancelQueued, SendDone
  <2>3. CASE Claim(u)
    BY <2>1, <2>3 DEF Claim, Next
  <2>4. CASE UpdateInGate(u)
    BY <2>1, <2>4 DEF UpdateInGate, Next
  <2>5. CASE CancelRunning(u)
    BY <2>1, <2>5 DEF CancelRunning, Next
  <2>6. CASE GiveUp(u)
    BY <2>1, <2>6 DEF GiveUp, Next
  <2>7. CASE Finish(u)
    BY <2>1, <2>7 DEF Finish, Next
  <2> QED
    BY <1>2, <2>2, <2>3, <2>4, <2>5, <2>6, <2>7
<1>3. ASSUME NEW o \in Others, OtherInGate(o) PROVE [Next]_gateVars
  <2>1. o \in Pipelines
    BY UpdatesFacts
  <2> QED
    BY <1>3, <2>1 DEF OtherInGate, Next
<1>4. CASE UNCHANGED vars
    BY <1>4 DEF vars
<1> QED
    BY <1>1, <1>2, <1>3, <1>4 DEF DispatcherNext

\* The worker, the updates and whoever else uses the gate run the gate of
\* MutationGate, so everything proved of the gate holds of them.
THEOREM DispatcherRunsTheGate == DispatcherSpec => Spec
<1>1. DispatcherInit => Init
    BY DEF DispatcherInit
<1> QED
    BY <1>1, WorkerUsesGate, PTL DEF DispatcherSpec, Spec

\* The channels of the gate keep their books under the worker too.
THEOREM DispatcherKeepsGate == DispatcherSpec => []GateInv
    BY DispatcherRunsTheGate, GateInvariant, PTL

\* And the worker's pipelines exclude each other as the gate promises.
THEOREM DispatcherExcludes == DispatcherSpec => ImplementsExclusion
    BY DispatcherRunsTheGate, GateImplementsExclusion, PTL

-----------------------------------------------------------------------------
LEMMA InitWorker == DispatcherInit => WorkerInv
<1> SUFFICES ASSUME DispatcherInit PROVE WorkerInv
    OBVIOUS
<1> USE DEF DispatcherInit
<1>1. Started = {} /\ ToSet(done) = {} /\ Len(done) = 0
    BY DEF Started, ToSet
<1>2. Cardinality({}) = 0 /\ IsFiniteSet({})
    BY FS_EmptySet
<1>3. WorkerTyped
    BY <1>2, WorkerAssumption DEF WorkerTyped, Statuses, Places
<1>4. WaitsOnce
    BY DEF WaitsOnce, Distinct
<1>5. BusyOnce
    BY <1>1 DEF BusyOnce, Distinct
<1>6. Counted
    BY <1>1, <1>2, WorkerAssumption DEF Counted
<1>7. Claimed
    BY UpdatesFacts DEF Init, Claimed
<1> QED
    BY <1>3, <1>4, <1>5, <1>6, <1>7 DEF WorkerInv

\* What steps that start and end nothing leave as it is.
LEMMA BooksStay ==
    ASSUME WorkerInv, Started' = Started, UNCHANGED <<busyHosts, running, done>>
    PROVE  BusyOnce' /\ Counted'
BY DEF WorkerInv, BusyOnce, Counted, Distinct, ToSet

\* A request enters the queue, or is turned away.
LEMMA EnqueueStep == ASSUME WorkerInv, NEW u \in Updates, Enqueue(u) PROVE WorkerInv'
<1>1. place[u] = "new" /\ job[u] = "none" /\ UNCHANGED <<pending, busyHosts, running, done, gateVars>>
    BY DEF Enqueue, WorkerInv, Claimed
<1>2. CASE /\ Len(queue) < QueueCap /\ queue' = Append(queue, u)
           /\ SetJob(u, "queued") /\ Move(u, "queued")
  <2>1. /\ job' = [job EXCEPT ![u] = "queued"] /\ place' = [place EXCEPT ![u] = "queued"]
        /\ job' \in [Updates -> Statuses] /\ place' \in [Updates -> Places]
    BY <1>2 DEF SetJob, Move, WorkerInv, WorkerTyped, Statuses, Places
  <2>2. /\ queue' \in Seq(Updates) /\ Len(queue') = Len(queue) + 1 /\ queue'[Len(queue) + 1] = u
        /\ \A k \in 1 .. Len(queue) : queue'[k] = queue[k]
    BY <1>2, AppendFacts DEF WorkerInv, WorkerTyped
  <2>3. WorkerTyped'
    BY <1>1, <1>2, <2>1, <2>2, WorkerAssumption DEF WorkerInv, WorkerTyped
  <2>4. WaitsOnce'
    <3>1. \A i \in DOMAIN pending : pending[i] \in Updates /\ pending[i] # u
      BY <1>1 DEF WorkerInv, WorkerTyped, WaitsOnce
    <3>2. \A i \in DOMAIN queue : queue[i] \in Updates /\ queue[i] # u
      BY <1>1 DEF WorkerInv, WorkerTyped, WaitsOnce
    <3>3. DOMAIN queue' = 1 .. Len(queue) + 1 /\ DOMAIN queue = 1 .. Len(queue) /\ Len(queue) \in Nat
      BY <2>2 DEF WorkerInv, WorkerTyped
    <3>4. \A i \in DOMAIN queue' : (i \in DOMAIN queue /\ queue'[i] = queue[i]) \/ (i = Len(queue) + 1 /\ queue'[i] = u)
      BY <2>2, <3>3
    <3>5. /\ \A i \in DOMAIN pending' : place'[pending'[i]] = "queued"
          /\ \A i \in DOMAIN queue' : place'[queue'[i]] = "queued"
      BY <1>1, <2>1, <3>1, <3>2, <3>4 DEF WorkerInv, WorkerTyped, WaitsOnce
    <3>6. Distinct(queue') /\ Distinct(pending')
      BY <1>1, <3>2, <3>4 DEF WorkerInv, WaitsOnce, Distinct
    <3>7. \A i \in DOMAIN pending', j \in DOMAIN queue' : pending'[i] # queue'[j]
      BY <1>1, <3>1, <3>4 DEF WorkerInv, WaitsOnce
    <3> QED
      BY <3>5, <3>6, <3>7 DEF WaitsOnce
  <2>5. Started' = Started
    BY <1>1, <2>1 DEF Started, WorkerInv, WorkerTyped
  <2>6. Claimed'
    BY <1>1, <2>1 DEF Claimed, WorkerInv, WorkerTyped, gateVars
  <2> QED
    BY <1>1, <2>3, <2>4, <2>5, <2>6, BooksStay DEF WorkerInv
<1>3. CASE SetJob(u, "ended") /\ Move(u, "rejected") /\ UNCHANGED queue
  <2>1. /\ job' = [job EXCEPT ![u] = "ended"] /\ place' = [place EXCEPT ![u] = "rejected"]
        /\ job' \in [Updates -> Statuses] /\ place' \in [Updates -> Places]
    BY <1>3 DEF SetJob, Move, WorkerInv, WorkerTyped, Statuses, Places
  <2>2. WorkerTyped'
    BY <1>1, <1>3, <2>1 DEF WorkerInv, WorkerTyped
  <2>3. WaitsOnce'
    BY <1>1, <1>3, <2>1 DEF WorkerInv, WorkerTyped, WaitsOnce, Distinct
  <2>4. Started' = Started
    BY <1>1, <2>1 DEF Started, WorkerInv, WorkerTyped
  <2>5. Claimed'
    BY <1>1, <2>1 DEF Claimed, WorkerInv, WorkerTyped, gateVars
  <2> QED
    BY <1>1, <2>2, <2>3, <2>4, <2>5, BooksStay DEF WorkerInv
<1> QED
    BY <1>2, <1>3 DEF Enqueue

\* The worker starts a pipeline for a host that is not busy.
LEMMA DispatchStep == ASSUME WorkerInv, Dispatch PROVE WorkerInv'
<1>1. PICK i \in nextDispatchableUpdate :
        /\ pending' = RemoveAt(pending, i)
        /\ busyHosts' = busyHosts \cup {HostOf[pending[i]]}
        /\ Move(pending[i], "dispatched")
    BY DEF Dispatch
<1>2. PICK u \in Updates : u = pending[i] /\ HostOf[u] \notin busyHosts /\ HostOf[u] \in Hosts
    BY <1>1, UpdatesFacts DEF nextDispatchableUpdate, WorkerInv, WorkerTyped
<1>3. /\ i \in DOMAIN pending /\ pending \in Seq(Updates) /\ place[u] = "queued"
      /\ place' = [place EXCEPT ![u] = "dispatched"] /\ place' \in [Updates -> Places]
      /\ running < Limit /\ running' = running + 1 /\ UNCHANGED <<job, queue, done, gateVars>>
    BY <1>1, <1>2 DEF Dispatch, nextDispatchableUpdate, Move, WorkerInv, WorkerTyped, WaitsOnce, Places
<1>4. /\ pending' \in Seq(Updates) /\ Len(pending') = Len(pending) - 1
      /\ \A k \in 1 .. Len(pending) - 1 : pending'[k] = IF k < i THEN pending[k] ELSE pending[k + 1]
    BY <1>1, <1>3, RemoveAtFacts
<1>5. WorkerTyped'
    BY <1>1, <1>2, <1>3, <1>4, FS_AddElement DEF WorkerInv, WorkerTyped
<1>6. WaitsOnce'
  <2> DEFINE Old(k) == IF k < i THEN k ELSE k + 1
  <2>1. /\ Len(pending) \in Nat /\ DOMAIN pending = 1 .. Len(pending) /\ DOMAIN pending' = 1 .. Len(pending) - 1
    BY <1>3, <1>4
  <2>2. \A k \in DOMAIN pending' : Old(k) \in DOMAIN pending \ {i} /\ pending'[k] = pending[Old(k)]
    BY <1>3, <1>4, <2>1
  <2>3. \A j, k \in DOMAIN pending' : Old(j) = Old(k) => j = k
    BY <1>3, <2>1
  <2> HIDE DEF Old
  <2>4. \A k \in DOMAIN pending' : pending'[k] # u /\ pending'[k] \in Updates
    BY <1>2, <1>3, <2>2 DEF WorkerInv, WaitsOnce, Distinct
  <2>5. \A k \in DOMAIN queue : queue[k] # u /\ queue[k] \in Updates
    BY <1>2, <1>3 DEF WorkerInv, WaitsOnce, WorkerTyped
  <2>6. /\ \A k \in DOMAIN pending' : place'[pending'[k]] = "queued"
        /\ \A k \in DOMAIN queue' : place'[queue'[k]] = "queued"
    BY <1>3, <2>2, <2>4, <2>5 DEF WorkerInv, WaitsOnce, WorkerTyped
  <2>7. Distinct(pending') /\ Distinct(queue')
    BY <1>3, <2>2, <2>3 DEF WorkerInv, WaitsOnce, Distinct
  <2>8. \A k \in DOMAIN pending', j \in DOMAIN queue' : pending'[k] # queue'[j]
    BY <1>3, <2>2 DEF WorkerInv, WaitsOnce
  <2> QED
    BY <2>6, <2>7, <2>8 DEF WaitsOnce
<1>7. Started' = Started \cup {u} /\ u \notin Started
    BY <1>3 DEF Started, WorkerInv, WorkerTyped
<1>8. \A v \in Started : HostOf[v] \in busyHosts
    BY DEF WorkerInv, BusyOnce
<1>9. \A k \in DOMAIN done : done[k] \in busyHosts
    BY DEF WorkerInv, BusyOnce, ToSet
<1>10. BusyOnce'
  <2>1. busyHosts' = {HostOf[v] : v \in Started'} \cup ToSet(done')
    BY <1>1, <1>2, <1>3, <1>7 DEF WorkerInv, BusyOnce, ToSet
  <2>2. \A v, w \in Started' : HostOf[v] = HostOf[w] => v = w
    BY <1>2, <1>7, <1>8 DEF WorkerInv, BusyOnce
  <2>3. \A v \in Started' : \A k \in DOMAIN done' : HostOf[v] # done'[k]
    BY <1>2, <1>3, <1>7, <1>9 DEF WorkerInv, BusyOnce
  <2> QED
    BY <1>3, <2>1, <2>2, <2>3 DEF WorkerInv, BusyOnce, Distinct
<1>11. Counted'
  <2>1. Cardinality(Started') = Cardinality(Started) + 1 /\ Cardinality(Started) \in Nat
    BY <1>7, StartedFinite, FS_AddElement
  <2>2. Cardinality(busyHosts') = Cardinality(busyHosts) + 1 /\ Cardinality(busyHosts) \in Nat
    <3>1. IsFiniteSet(busyHosts)
      BY DEF WorkerInv, WorkerTyped
    <3> QED
      BY <1>1, <1>2, <3>1, FS_AddElement, FS_CardinalityType
  <2>3. Len(done) \in Nat /\ Len(done') = Len(done)
    BY <1>3 DEF WorkerInv, WorkerTyped
  <2> QED
    BY <1>3, <2>1, <2>2, <2>3, WorkerAssumption DEF WorkerInv, Counted
<1>12. Claimed'
    BY <1>3 DEF WorkerInv, WorkerTyped, Claimed, gateVars
<1> QED
    BY <1>5, <1>6, <1>10, <1>11, <1>12 DEF WorkerInv

\* The oldest queued request moves to the end of the backlog.
LEMMA ReceiveStep == ASSUME WorkerInv, Receive PROVE WorkerInv'
<1>1. /\ queue # <<>> /\ pending' = Append(pending, Head(queue)) /\ queue' = Tail(queue)
      /\ UNCHANGED <<job, place, busyHosts, running, done, gateVars>>
    BY DEF Receive
<1>2. /\ queue' \in Seq(Updates) /\ Len(queue') = Len(queue) - 1 /\ Len(queue) >= 1 /\ Len(queue) \in Nat
      /\ \A k \in 1 .. Len(queue) - 1 : queue'[k] = queue[k + 1]
      /\ Head(queue) = queue[1] /\ queue[1] \in Updates
    BY <1>1, TailFacts DEF WorkerInv, WorkerTyped
<1>3. /\ pending' \in Seq(Updates) /\ Len(pending') = Len(pending) + 1 /\ Len(pending) \in Nat
      /\ \A k \in 1 .. Len(pending) : pending'[k] = pending[k]
      /\ pending'[Len(pending) + 1] = queue[1]
    BY <1>1, <1>2, AppendFacts DEF WorkerInv, WorkerTyped
<1>4. WorkerTyped'
    BY <1>1, <1>2, <1>3, WorkerAssumption DEF WorkerInv, WorkerTyped
<1>5. WaitsOnce'
  <2>1. \A k \in DOMAIN pending' : \/ k \in DOMAIN pending /\ pending'[k] = pending[k]
                                   \/ k = Len(pending) + 1 /\ pending'[k] = queue[1]
    <3>1. pending \in Seq(Updates)
      BY DEF WorkerInv, WorkerTyped
    <3>2. DOMAIN pending' = 1 .. Len(pending) + 1 /\ DOMAIN pending = 1 .. Len(pending)
      BY <1>3, <3>1
    <3>3. QED
      BY <1>3, <3>2
  <2>2. DOMAIN queue' = 1 .. Len(queue) - 1 /\ DOMAIN queue = 1 .. Len(queue)
    BY <1>2 DEF WorkerInv, WorkerTyped
  <2>3. \A k \in DOMAIN queue' : k + 1 \in DOMAIN queue /\ queue'[k] = queue[k + 1] /\ k + 1 # 1
    BY <1>2, <2>2
  <2>4. 1 \in DOMAIN queue
    BY <1>2 DEF WorkerInv, WorkerTyped
  <2>5. \A i, j \in DOMAIN queue' : i + 1 = j + 1 => i = j
    BY <1>2
  <2>6. /\ \A k \in DOMAIN pending' : place'[pending'[k]] = "queued"
        /\ \A k \in DOMAIN queue' : place'[queue'[k]] = "queued"
    BY <1>1, <2>1, <2>3, <2>4 DEF WorkerInv, WaitsOnce
  <2>7. Distinct(pending')
    BY <2>1, <2>4 DEF WorkerInv, WaitsOnce, Distinct
  <2>8. Distinct(queue')
    BY <2>3, <2>5 DEF WorkerInv, WaitsOnce, Distinct
  <2>9. \A k \in DOMAIN pending', j \in DOMAIN queue' : pending'[k] # queue'[j]
    BY <2>1, <2>3, <2>4 DEF WorkerInv, WaitsOnce, Distinct
  <2> QED
    BY <2>6, <2>7, <2>8, <2>9 DEF WaitsOnce
<1>6. Started' = Started
    BY <1>1 DEF Started
<1>7. Claimed'
    BY <1>1 DEF WorkerInv, Claimed, gateVars
<1> QED
    BY <1>1, <1>4, <1>5, <1>6, <1>7, BooksStay DEF WorkerInv

\* The worker hears of a pipeline that returned.
LEMMA AcknowledgeStep == ASSUME WorkerInv, Acknowledge PROVE WorkerInv'
<1>1. /\ done # <<>> /\ busyHosts' = busyHosts \ {Head(done)} /\ done' = Tail(done)
      /\ running' = IF running > 0 THEN running - 1 ELSE running
      /\ UNCHANGED <<job, place, queue, pending, gateVars>>
    BY DEF Acknowledge
<1>2. /\ done' \in Seq(Hosts) /\ Len(done') = Len(done) - 1 /\ Len(done) >= 1 /\ Len(done) \in Nat
      /\ \A k \in 1 .. Len(done) - 1 : done'[k] = done[k + 1]
      /\ Head(done) = done[1]
    BY <1>1, TailFacts DEF WorkerInv, WorkerTyped
<1>d. DOMAIN done' = 1 .. Len(done) - 1 /\ DOMAIN done = 1 .. Len(done)
    BY <1>2 DEF WorkerInv, WorkerTyped
<1>3. \A k \in DOMAIN done' : k + 1 \in DOMAIN done /\ done'[k] = done[k + 1] /\ k + 1 # 1 /\ k \in Nat
    BY <1>2, <1>d
<1>4. \A k \in DOMAIN done : k = 1 \/ (k - 1 \in DOMAIN done' /\ done'[k - 1] = done[k])
  <2> SUFFICES ASSUME NEW k \in 1 .. Len(done), k # 1
               PROVE  k - 1 \in 1 .. Len(done) - 1 /\ done'[k - 1] = done[k]
    BY <1>d
  <2>1. k - 1 \in 1 .. Len(done) - 1 /\ (k - 1) + 1 = k
    BY <1>2
  <2>2. done'[k - 1] = done[(k - 1) + 1]
    BY <1>2, <2>1
  <2> QED
    BY <2>1, <2>2
<1>5. 1 \in DOMAIN done
    BY <1>2 DEF WorkerInv, WorkerTyped
<1>6. Started' = Started
    BY <1>1 DEF Started
<1>7. \A k \in DOMAIN done' : done'[k] # done[1]
    BY <1>3, <1>5 DEF WorkerInv, BusyOnce, Distinct
<1>8. ToSet(done') = ToSet(done) \ {done[1]}
  <2>1. ToSet(done') \subseteq ToSet(done) \ {done[1]}
    BY <1>3, <1>7 DEF ToSet
  <2>2. ToSet(done) \ {done[1]} \subseteq ToSet(done')
    BY <1>4 DEF ToSet
  <2> QED
    BY <2>1, <2>2
<1>9. BusyOnce'
  <2>1. done[1] \in ToSet(done) /\ done[1] \notin {HostOf[v] : v \in Started}
    BY <1>5 DEF WorkerInv, BusyOnce, ToSet
  <2>2. busyHosts' = {HostOf[v] : v \in Started'} \cup ToSet(done')
    BY <1>1, <1>2, <1>6, <1>8, <2>1 DEF WorkerInv, BusyOnce
  <2>3. \A v \in Started' : \A k \in DOMAIN done' : HostOf[v] # done'[k]
    BY <1>3, <1>6 DEF WorkerInv, BusyOnce
  <2>4. Distinct(done')
    BY <1>3 DEF WorkerInv, BusyOnce, Distinct
  <2> QED
    BY <1>6, <2>2, <2>3, <2>4 DEF WorkerInv, BusyOnce
<1>10. Counted'
  <2>1. done[1] \in busyHosts /\ IsFiniteSet(busyHosts)
    BY <1>5 DEF WorkerInv, WorkerTyped, BusyOnce, ToSet
  <2>2. Cardinality(busyHosts') = Cardinality(busyHosts) - 1
    BY <1>1, <1>2, <2>1, FS_RemoveElement
  <2>3. running = Cardinality(Started) + Len(done) /\ running = Cardinality(busyHosts) /\ running <= Limit
    BY DEF WorkerInv, Counted
  <2>4. running' = running - 1 /\ running \in Nat
    BY <1>1, <1>2, <2>3, StartedFinite
  <2> QED
    BY <1>2, <1>6, <2>2, <2>3, <2>4, StartedFinite, WorkerAssumption DEF Counted
<1>11. WorkerTyped'
  <2>1. IsFiniteSet(busyHosts')
    BY <1>1, FS_RemoveElement DEF WorkerInv, WorkerTyped
  <2> QED
    BY <1>1, <1>2, <2>1 DEF WorkerInv, WorkerTyped
<1>12. WaitsOnce' /\ Claimed'
    BY <1>1 DEF WorkerInv, WaitsOnce, Distinct, Claimed, gateVars
<1> QED
    BY <1>9, <1>10, <1>11, <1>12 DEF WorkerInv

\* A pipeline that is on its way through the worker moves on.
LEMMA StartedMoves ==
    ASSUME WorkerInv, NEW u \in Started, NEW p \in {"working", "returned"},
           Move(u, p), job' \in [Updates -> Statuses], UNCHANGED workerVars
    PROVE  WorkerTyped' /\ WaitsOnce' /\ BusyOnce' /\ Counted'
<1>1. /\ u \in Updates /\ place' = [place EXCEPT ![u] = p] /\ place[u] # "queued"
      /\ UNCHANGED <<queue, pending, busyHosts, running, done>>
    BY DEF Started, Move, workerVars
<1>2. place' \in [Updates -> Places]
    BY <1>1 DEF WorkerInv, WorkerTyped, Places
<1>3. WorkerTyped'
    BY <1>1, <1>2 DEF WorkerInv, WorkerTyped
<1>4. WaitsOnce'
    BY <1>1 DEF WorkerInv, WorkerTyped, WaitsOnce, Distinct
<1>5. Started' = Started
    BY <1>1 DEF Started, WorkerInv, WorkerTyped
<1> QED
    BY <1>1, <1>3, <1>4, <1>5, BooksStay

\* A pipeline that returned tells the worker.
LEMMA SendDoneStep == ASSUME WorkerInv, NEW u \in Updates, SendDone(u) PROVE WorkerInv'
<1>1. /\ place[u] = "returned" /\ done' = Append(done, HostOf[u])
      /\ place' = [place EXCEPT ![u] = "finished"] /\ place' \in [Updates -> Places]
      /\ UNCHANGED <<job, queue, pending, busyHosts, running, gateVars>> /\ HostOf[u] \in Hosts
    BY UpdatesFacts DEF SendDone, Move, WorkerInv, WorkerTyped, Places
<1>2. /\ done' \in Seq(Hosts) /\ Len(done') = Len(done) + 1 /\ Len(done) \in Nat
      /\ \A k \in 1 .. Len(done) : done'[k] = done[k]
      /\ done'[Len(done) + 1] = HostOf[u]
    BY <1>1, AppendFacts DEF WorkerInv, WorkerTyped
<1>3. \A k \in DOMAIN done' : \/ k \in DOMAIN done /\ done'[k] = done[k]
                              \/ k = Len(done) + 1 /\ done'[k] = HostOf[u]
    BY <1>2 DEF WorkerInv, WorkerTyped
<1>4. \A k \in DOMAIN done : k \in DOMAIN done' /\ done'[k] = done[k]
    BY <1>2 DEF WorkerInv, WorkerTyped
<1>5. Started' = Started \ {u} /\ u \in Started
    BY <1>1 DEF Started, WorkerInv, WorkerTyped
<1>6. ToSet(done') = ToSet(done) \cup {HostOf[u]}
  <2>1. Len(done) + 1 \in DOMAIN done'
    BY <1>2
  <2> QED
    BY <1>2, <1>3, <1>4, <2>1 DEF ToSet
<1>7. BusyOnce'
  <2>1. busyHosts' = {HostOf[v] : v \in Started'} \cup ToSet(done')
    BY <1>1, <1>5, <1>6 DEF WorkerInv, BusyOnce
  <2>2. \A v \in Started' : \A k \in DOMAIN done' : HostOf[v] # done'[k]
    BY <1>3, <1>5 DEF WorkerInv, BusyOnce
  <2>3. Distinct(done')
    BY <1>3, <1>5 DEF WorkerInv, BusyOnce, Distinct
  <2> QED
    BY <1>5, <2>1, <2>2, <2>3 DEF WorkerInv, BusyOnce
<1>8. Counted'
  <2>1. Cardinality(Started') = Cardinality(Started) - 1
    BY <1>5, StartedFinite, FS_RemoveElement
  <2> QED
    BY <1>1, <1>2, <2>1, StartedFinite DEF WorkerInv, Counted
<1>9. WorkerTyped'
    BY <1>1, <1>2 DEF WorkerInv, WorkerTyped
<1>10. WaitsOnce'
    BY <1>1 DEF WorkerInv, WorkerTyped, WaitsOnce, Distinct
<1>11. Claimed'
    BY <1>1, <1>5 DEF WorkerInv, WorkerTyped, Claimed, gateVars
<1> QED
    BY <1>7, <1>8, <1>9, <1>10, <1>11 DEF WorkerInv

\* A step in the gate that neither requests it nor leaves it.
LEMMA GateOnly ==
    ASSUME WorkerInv, UNCHANGED <<job, place, workerVars>>,
           \A u \in Updates : stage'[u] # "idle" => stage[u] # "idle"
    PROVE  WorkerInv'
<1>1. WorkerTyped' /\ WaitsOnce' /\ Claimed'
    BY DEF WorkerInv, WorkerTyped, WaitsOnce, Distinct, Claimed, workerVars
<1>2. Started' = Started
    BY DEF Started
<1> QED
    BY <1>1, <1>2, BooksStay DEF WorkerInv, workerVars

LEMMA StepWorker == WorkerInv /\ GateInv /\ [DispatcherNext]_vars => WorkerInv'
<1> SUFFICES ASSUME WorkerInv, GateInv, [DispatcherNext]_vars PROVE WorkerInv'
    OBVIOUS
<1>t. /\ stage \in [Pipelines -> Stages] /\ job \in [Updates -> Statuses]
      /\ place \in [Updates -> Places]
    BY DEF GateInv, TypeOK, WorkerInv, WorkerTyped
<1>1. CASE Worker
    BY <1>1, DispatchStep, ReceiveStep, AcknowledgeStep DEF Worker
<1>2. ASSUME NEW u \in Updates, Enqueue(u) \/ SendDone(u) PROVE WorkerInv'
    BY <1>2, EnqueueStep, SendDoneStep
<1>3. ASSUME NEW u \in Updates, CancelQueued(u) PROVE WorkerInv'
  <2>1. /\ job[u] = "queued" /\ job' = [job EXCEPT ![u] = "cancelled"]
        /\ UNCHANGED <<place, queue, pending, busyHosts, running, done, gateVars>>
    BY <1>3 DEF CancelQueued, SetJob, workerVars
  <2>2. job' \in [Updates -> Statuses]
    BY <1>t, <2>1 DEF Statuses
  <2>3. WorkerTyped' /\ WaitsOnce'
    BY <2>1, <2>2 DEF WorkerInv, WorkerTyped, WaitsOnce, Distinct
  <2>4. Claimed'
    BY <1>t, <2>1 DEF WorkerInv, Claimed, gateVars
  <2>5. Started' = Started
    BY <2>1 DEF Started
  <2> QED
    BY <2>1, <2>3, <2>4, <2>5, BooksStay DEF WorkerInv
<1>4. ASSUME NEW u \in Updates, Claim(u) PROVE WorkerInv'
  <2>1. place[u] = "dispatched" /\ UNCHANGED workerVars /\ u \in Started /\ u \in Pipelines
    BY <1>4, UpdatesFacts DEF Claim, Started
  <2>2. CASE /\ job' = [job EXCEPT ![u] = "running"] /\ Move(u, "working")
             /\ stage' = [stage EXCEPT ![u] = "want_host"]
    <3>1. job' \in [Updates -> Statuses]
      BY <1>t, <2>2 DEF Statuses
    <3>2. WorkerTyped' /\ WaitsOnce' /\ BusyOnce' /\ Counted'
      BY <2>1, <2>2, <3>1, StartedMoves
    <3>3. Claimed'
      BY <1>t, <2>1, <2>2 DEF WorkerInv, Claimed, Move
    <3> QED
      BY <3>2, <3>3 DEF WorkerInv
  <2>3. CASE Move(u, "returned") /\ UNCHANGED <<job, gateVars>>
    <3>1. WorkerTyped' /\ WaitsOnce' /\ BusyOnce' /\ Counted'
      BY <1>t, <2>1, <2>3, StartedMoves
    <3>2. Claimed'
      BY <1>t, <2>1, <2>3 DEF WorkerInv, Claimed, Move, gateVars
    <3> QED
      BY <3>1, <3>2 DEF WorkerInv
  <2> QED
    BY <1>4, <2>2, <2>3 DEF Claim, SetJob, Request, Goto
<1>5. ASSUME NEW u \in Pipelines,
             AcquireHost(u) \/ AcquireSlot(u) \/ CallNested(u) \/ EndNested(u) \/ EndContext(u)
      PROVE  \A v \in Updates : stage'[v] # "idle" => stage[v] # "idle"
  <2>1. stage' = stage \/ (stage[u] # "idle" /\ \E p : stage' = [stage EXCEPT ![u] = p])
    BY <1>5 DEF AcquireHost, AcquireSlot, CallNested, EndNested, EndContext, Goto
  <2> QED
    BY <1>t, <2>1, UpdatesFacts
<1>6. ASSUME NEW u \in Updates, UpdateInGate(u) \/ CancelRunning(u) PROVE WorkerInv'
    BY <1>5, <1>6, UpdatesFacts, GateOnly DEF UpdateInGate, CancelRunning
<1>7. ASSUME NEW u \in Updates, GiveUp(u) \/ Finish(u) PROVE WorkerInv'
  <2>1. u \in Pipelines /\ stage[u] # "idle" /\ u \in Started /\ place[u] = "working"
    BY <1>7, UpdatesFacts DEF GiveUp, Finish, AbortOnHost, AbortOnSlot, Release, WorkerInv, Claimed, Started
  <2>2. stage' = [stage EXCEPT ![u] = "idle"]
    BY <1>7, <2>1 DEF GiveUp, Finish, AbortOnHost, AbortOnSlot, Release, Goto, GateInv, FreshContextWaitsForever
  <2>3. \E st \in {"cancelled", "ended"} : job' = [job EXCEPT ![u] = st]
    BY <1>7 DEF GiveUp, Finish, SetJob
  <2>4. job' \in [Updates -> Statuses]
    BY <1>t, <2>3 DEF Statuses
  <2>5. Move(u, "returned") /\ UNCHANGED workerVars
    BY <1>7 DEF GiveUp, Finish
  <2>6. WorkerTyped' /\ WaitsOnce' /\ BusyOnce' /\ Counted'
    BY <2>1, <2>4, <2>5, StartedMoves
  <2>7. \A v \in Updates \ {u} : job'[v] = job[v] /\ place'[v] = place[v] /\ stage'[v] = stage[v]
    BY <1>t, <2>2, <2>3, <2>5, UpdatesFacts DEF Move
  <2>8. stage'[u] = "idle" /\ place'[u] = "returned"
    BY <1>t, <2>1, <2>2, <2>5 DEF Move
  <2>9. Claimed'
    BY <2>7, <2>8 DEF WorkerInv, Claimed
  <2> QED
    BY <2>6, <2>9 DEF WorkerInv
<1>8. ASSUME NEW o \in Others, OtherInGate(o) PROVE WorkerInv'
  <2>1. o \in Pipelines /\ o \notin Updates
    BY PipelinesOfTheGate
  <2>2. \E p \in Stages : stage' = [stage EXCEPT ![o] = p]
    BY <1>8 DEF OtherInGate, Request, AcquireHost, AcquireSlot, CallNested, EndNested, Release, Goto, Stages
  <2>3. \A v \in Updates : stage'[v] = stage[v]
    BY <1>t, <2>1, <2>2, UpdatesFacts
  <2> QED
    BY <1>8, <2>3, GateOnly DEF OtherInGate
<1>9. CASE UNCHANGED vars
    BY <1>9, GateOnly DEF vars, gateVars
<1> QED
    BY <1>1, <1>2, <1>3, <1>4, <1>6, <1>7, <1>8, <1>9 DEF DispatcherNext

LEMMA WorkerAlways == DispatcherSpec => [](WorkerInv /\ GateInv)
<1>1. DispatcherSpec => []GateInv
    BY DispatcherKeepsGate
<1> QED
    BY <1>1, InitWorker, StepWorker, PTL DEF DispatcherSpec

-----------------------------------------------------------------------------
\* The worker's books agree with the goroutines at every moment: what it takes
\* for busy is busy, what it counts runs, a pipeline that returns finds room in
\* the done channel, and two updates of one host never meet in the gate
\* (updateWorker).
THEOREM WorkerBooksBalance == DispatcherSpec => []BooksBalance
<1>1. WorkerInv => BooksBalance
  <2> SUFFICES ASSUME WorkerInv PROVE BooksBalance
    OBVIOUS
  <2>1. Len(done) \in Nat /\ running \in Nat /\ Len(done) <= running /\ running <= Limit
    BY StartedFinite DEF WorkerInv, WorkerTyped, Counted
  <2>2. DispatcherTypeOK
    BY <2>1, WorkerAssumption DEF WorkerInv, WorkerTyped, DispatcherTypeOK
  <2>3. UpdatesNeverContend
    BY DEF WorkerInv, Claimed, BusyOnce, UpdatesNeverContend, Started
  <2> QED
    BY <2>2, <2>3 DEF WorkerInv, BusyOnce, Counted, BooksBalance
<1> QED
    BY <1>1, WorkerAlways, PTL

\* What is cancelled in the queue stays out of the gate.
LEMMA CancelledStay ==
    ASSUME WorkerInv, GateInv, WorkerInv', [DispatcherNext]_vars, NEW u \in Updates, job[u] = "cancelled"
    PROVE  stage'[u] = "idle" /\ job'[u] = "cancelled"
<1>t. /\ job \in [Updates -> Statuses] /\ place[u] \notin {"new", "working"} /\ stage[u] = "idle"
    BY DEF WorkerInv, WorkerTyped, Claimed
<1>1. job'[u] = "cancelled"
  <2>1. CASE Worker
    BY <2>1 DEF Worker, Dispatch, Receive, Acknowledge
  <2>2. ASSUME NEW v \in Updates, Enqueue(v) \/ CancelQueued(v) \/ Claim(v) PROVE job'[u] = "cancelled"
    <3>1. job' = job \/ (u # v /\ \E st : job' = [job EXCEPT ![v] = st])
      BY <1>t, <2>2 DEF Enqueue, CancelQueued, Claim, SetJob
    <3> QED
      BY <1>t, <3>1
  <2>3. ASSUME NEW v \in Updates, UpdateInGate(v) \/ CancelRunning(v) \/ SendDone(v) PROVE job'[u] = "cancelled"
    BY <2>3 DEF UpdateInGate, CancelRunning, SendDone
  <2>4. ASSUME NEW v \in Updates, GiveUp(v) \/ Finish(v) PROVE job'[u] = "cancelled"
    <3>1. u # v /\ \E st : job' = [job EXCEPT ![v] = st]
      BY <1>t, <2>4 DEF GiveUp, Finish, AbortOnHost, AbortOnSlot, Release, SetJob
    <3> QED
      BY <1>t, <3>1
  <2>5. ASSUME NEW o \in Others, OtherInGate(o) PROVE job'[u] = "cancelled"
    BY <2>5 DEF OtherInGate
  <2>6. CASE UNCHANGED vars
    BY <2>6 DEF vars
  <2> QED
    BY <2>1, <2>2, <2>3, <2>4, <2>5, <2>6 DEF DispatcherNext
<1>2. stage'[u] = "idle"
    BY <1>1 DEF WorkerInv, Claimed
<1> QED
    BY <1>1, <1>2

\* A request is dispatched only when no earlier one waits for its host.
LEMMA OrderKept ==
    ASSUME WorkerInv, [DispatcherNext]_vars,
           NEW i \in DOMAIN (pending \o queue), NEW j \in DOMAIN (pending \o queue), i < j,
           HostOf[(pending \o queue)[i]] = HostOf[(pending \o queue)[j]],
           place'[(pending \o queue)[j]] = "dispatched"
    PROVE  FALSE
<1> DEFINE b == pending \o queue
<1>1. /\ pending \in Seq(Updates) /\ queue \in Seq(Updates) /\ b \in Seq(Updates)
      /\ Len(b) = Len(pending) + Len(queue) /\ DOMAIN b = 1 .. Len(b)
    BY DEF WorkerInv, WorkerTyped
<1>2. \A k \in DOMAIN b : \/ k \in DOMAIN pending /\ b[k] = pending[k]
                          \/ /\ k > Len(pending) /\ k - Len(pending) \in DOMAIN queue
                             /\ b[k] = queue[k - Len(pending)]
    BY <1>1
<1> HIDE DEF b
<1>3. b[j] \in Updates /\ place[b[j]] = "queued" /\ place \in [Updates -> Places]
    BY <1>1, <1>2 DEF b, WorkerInv, WorkerTyped, WaitsOnce
<1>4. ASSUME NEW u \in Updates, NEW p \in Places \ {"dispatched"}, place' = place \/ Move(u, p) PROVE FALSE
    BY <1>3, <1>4 DEF Move, b
<1>5. CASE Dispatch
  <2>1. PICK k \in nextDispatchableUpdate : Move(pending[k], "dispatched")
    BY <1>5 DEF Dispatch
  <2>2. k \in DOMAIN pending /\ pending[k] \in Updates
    BY <1>1, <2>1 DEF nextDispatchableUpdate
  <2>3. b[j] = pending[k]
    BY <1>3, <2>1, <2>2 DEF Move, b
  <2>4. j = k
    BY <1>2, <2>2, <2>3 DEF b, WorkerInv, WaitsOnce, Distinct
  <2>5. i \in 1 .. k - 1 /\ b[i] = pending[i] /\ b[j] = pending[j]
    BY <1>1, <1>2, <2>2, <2>4 DEF b
  <2> QED
    BY <2>1, <2>4, <2>5 DEF nextDispatchableUpdate, b
<1>6. CASE Receive \/ Acknowledge
  <2>1. place' = place
    BY <1>6 DEF Receive, Acknowledge
  <2> QED
    BY <1>3, <2>1 DEF b
<1>7. ASSUME NEW u \in Updates,
             \/ Enqueue(u) \/ CancelQueued(u) \/ Claim(u) \/ UpdateInGate(u)
             \/ CancelRunning(u) \/ GiveUp(u) \/ Finish(u) \/ SendDone(u)
      PROVE  FALSE
  <2>1. place' = place \/ \E p \in {"queued", "rejected", "working", "returned", "finished"} : Move(u, p)
    BY <1>7 DEF Enqueue, CancelQueued, Claim, UpdateInGate, CancelRunning, GiveUp, Finish, SendDone
  <2> QED
    BY <1>4, <2>1 DEF Places
<1>8. CASE (\E o \in Others : OtherInGate(o)) \/ UNCHANGED vars
  <2>1. place' = place
    BY <1>8 DEF OtherInGate, vars
  <2> QED
    BY <1>3, <2>1 DEF b
<1> QED
    BY <1>5, <1>6, <1>7, <1>8 DEF DispatcherNext, Worker

\* The backlog is worked off in order for each host, overtaking only for idle
\* hosts, and what was cancelled before its claim never enters the gate
\* (nextDispatchableUpdate, executeUpdate).
THEOREM BacklogKeepsOrder == DispatcherSpec => BacklogInOrder
<1>1. WorkerInv /\ GateInv /\ WorkerInv' /\ [DispatcherNext]_vars
        => [\A u \in Updates : job[u] = "cancelled" => stage'[u] = "idle" /\ job'[u] = "cancelled"]_vars
    BY CancelledStay
<1>2. WorkerInv /\ [DispatcherNext]_vars
        => [\A i, j \in DOMAIN (pending \o queue) :
              LET backlog == pending \o queue IN
              i < j /\ HostOf[backlog[i]] = HostOf[backlog[j]] /\ place'[backlog[j]] = "dispatched"
                  => place'[backlog[i]] = "dispatched"]_vars
    BY OrderKept
<1> QED
    BY <1>1, <1>2, WorkerAlways, PTL
    DEF DispatcherSpec, BacklogInOrder, CancelledInQueueStaysOut, SameHostInOrder
=============================================================================

--------------------------- MODULE ContinuityProofs ---------------------------
(* What the two locks keep apart never overlaps, for any number of updates,   *)
(* rollbacks, checks and replacements of the workers.  The locks do their     *)
(* part (a writer that has entered is alone), and the programs do theirs: at  *)
(* each call of a goroutine its markers and release functions are what the    *)
(* source supposes them to be.  The second is a fact about the text of the    *)
(* programs, stated as a path: a sequence of calls leads from one state of a  *)
(* goroutine to another.                                                      *)
EXTENDS Continuity, Integers, SequenceTheorems, TLAPS

CallNames ==
    {"read", "shared", "mutate", "transfer", "close", "keep", "worker+", "worker-",
     "network", "apply", "verify", "refresh", "replace+", "replace", "replace-"}
Users == Updates \cup Rollbacks \cup Checks
Markers == {"none", "shared", "exclusive"}
Kinds == {"nothing", "read", "write"}
Guards == [kind : Kinds, before : Markers]

\* The state of a goroutine as far as its next call depends on it.
States == [marker : Markers, uses : BOOLEAN, guards : Seq(Guards)]

Mark(t) == IF t \in Dns THEN "exclusive" ELSE "shared"

\* A real lock is taken only when none is held; all that is nested is a no-op.
Enter(x, kind, mark) ==
    [marker |-> mark, uses |-> x.uses,
     guards |-> Append(x.guards, [kind |-> kind, before |-> x.marker])]
Marking(x, mark) == [marker |-> mark, uses |-> x.uses, guards |-> x.guards]
Using(x, u) == [marker |-> x.marker, uses |-> u, guards |-> x.guards]
Leave(x, mark) == [marker |-> mark, uses |-> x.uses, guards |-> Front(x.guards)]
Covered(x) == x.guards # <<>> /\ x.guards[1].kind # "nothing"
Excluding(x) == x.guards # <<>> /\ x.guards[1].kind = "write"

\* What a goroutine knows after it has entered, and that leaving undoes it.
Entered(x, kind, mark, y) ==
    /\ y \in States /\ y.marker = mark /\ y.uses = x.uses /\ y.guards # <<>>
    /\ x.guards = <<>> => y.guards[1].kind = kind
    /\ x.guards # <<>> => y.guards[1].kind = x.guards[1].kind
    /\ Leave(y, Last(y.guards).before) = x
    /\ \A m \in Markers : Leave(y, m) = Marking(x, m)

\* The states the programs pass through: before and after a mutation, in its
\* window and in what is nested there, and within a check.
Free(u) == [marker |-> "none", uses |-> u, guards |-> <<>>]
Held(t, u) == Enter(Free(u), IF t \in Dns THEN "write" ELSE "read", Mark(t))
Nested(t, u) == Enter(Held(t, u), "nothing", Mark(t))
Kept(t) == Leave(Held(t, FALSE), Mark(t))
Shared(u) == Enter(Free(u), "read", "shared")

\* What one call of goroutine t makes of its state, and what it needs.
Calls(t, call, x, y) ==
    \/ /\ call = "read" \/ call = "shared" \/ (call = "mutate" /\ t \notin Dns)
       /\ x.marker # "none" /\ y = Enter(x, "nothing", x.marker)
    \/ /\ call = "read"
       /\ x.marker = "none" /\ x.guards = <<>> /\ y = Enter(x, "read", "none")
    \/ /\ call = "shared" \/ (call = "mutate" /\ t \notin Dns)
       /\ x.marker = "none" /\ x.guards = <<>> /\ y = Enter(x, "read", "shared")
    \/ /\ call = "mutate" /\ t \in Dns
       /\ x.marker = "exclusive" /\ y = Enter(x, "nothing", "exclusive")
    \/ /\ call = "mutate" /\ t \in Dns
       /\ x.marker # "exclusive" /\ x.guards = <<>> /\ y = Enter(x, "write", "exclusive")
    \/ /\ call = "transfer"
       /\ y = Marking(x, Mark(t))
    \/ call = "close" /\ x.guards # <<>> /\ y = Leave(x, Last(x.guards).before)
    \/ call = "keep" /\ x.guards # <<>> /\ y = Leave(x, x.marker)
    \/ call = "worker+" /\ ~x.uses /\ y = Using(x, TRUE)
    \/ call = "worker-" /\ x.uses /\ y = Using(x, FALSE)
    \/ call = "network" /\ Covered(x) /\ y = x
    \/ call \in {"apply", "verify"} /\ Covered(x) /\ (t \in Dns => Excluding(x)) /\ y = x
    \/ call = "refresh" /\ y = x

\* A sequence of calls leads from x to y.
Leads(t, x, c, y) ==
    \E p \in [1 .. Len(c) + 1 -> States] :
        /\ p[1] = x /\ p[Len(c) + 1] = y
        /\ \A i \in 1 .. Len(c) : Calls(t, c[i], p[i], p[i + 1])

-----------------------------------------------------------------------------
InHand(t) == IF guards[t] = <<>> THEN "nothing" ELSE guards[t][1].kind
\* The read locks t has taken, without the one an unlock has taken for it.
Inside(t, l) == readers[l][t] - IF t \in granted[l] THEN 1 ELSE 0
Uses(t) == Inside(t, "workerOp") = 1
State(t) == [marker |-> marker[t], uses |-> Uses(t), guards |-> guards[t]]
Replacing(t) == At(t) \in {"replace", "replace-"}

GoroutinesTyped ==
    /\ code \in [Threads -> Seq(CallNames)]
    /\ marker \in [Threads -> Markers] /\ guards \in [Threads -> Seq(Guards)]
LocksTyped ==
    /\ readers \in [Locks -> [Threads -> Nat]]
    /\ writer \in [Locks -> Threads \cup {Nobody}]
    /\ blocked \in [Locks -> SUBSET Threads] /\ granted \in [Locks -> SUBSET Threads]
    /\ \A l \in Locks : blocked[l] \cap granted[l] = {}

\* Only the outermost release function unlocks.
OutermostOnly(t) == \A i \in DOMAIN guards[t] : i # 1 => guards[t][i].kind = "nothing"
\* Whom the locks count.
Counted(t) ==
    /\ Inside(t, "continuity") = IF InHand(t) = "read" THEN 1 ELSE 0
    /\ Inside(t, "workerOp") \in {0, 1}
\* Who waits for them.
Waits(t) ==
    /\ \A l \in Locks : t \in blocked[l] \cup granted[l] => WantsRead(t, l)
    /\ t \in Dns /\ writer["continuity"] = t => InHand(t) = "write" \/ WantsWrite(t, "continuity")

\* Where the goroutines are in their programs.
Ends(t, x, c) == \E y \in States : y.guards = <<>> /\ ~y.uses /\ Leads(t, x, c, y)
Replacement == <<"replace+", "replace", "replace-">>
OnItsWay(t) ==
    IF t \in Users THEN Ends(t, State(t), code[t])
    ELSE guards[t] = <<>> /\ code[t] \in {<<>>, Replacement, Tail(Replacement), Tail(Tail(Replacement))}
Sound(t) == OutermostOnly(t) /\ Counted(t) /\ Waits(t) /\ OnItsWay(t)

\* A writer inside is alone.
WriterAlone ==
    /\ \A t \in Threads : InHand(t) = "write" =>
            writer["continuity"] = t /\ \A s \in Threads : readers["continuity"][s] = 0
    /\ \A t \in Threads : Replacing(t) =>
            writer["workerOp"] = t /\ \A s \in Threads : readers["workerOp"][s] = 0

LocksInv ==
    /\ GoroutinesTyped /\ LocksTyped
    /\ \A t \in Threads : Sound(t)
    /\ WriterAlone

-----------------------------------------------------------------------------
(* Paths. *)

LEMMA OneCall ==
    ASSUME NEW t, NEW call, NEW x \in States, NEW y \in States, Calls(t, call, x, y)
    PROVE  Leads(t, x, <<call>>, y)
<1> DEFINE p == [i \in 1 .. 2 |-> IF i = 1 THEN x ELSE y]
<1>1. Len(<<call>>) = 1 /\ <<call>>[1] = call
    OBVIOUS
<1>2. p \in [1 .. Len(<<call>>) + 1 -> States] /\ p[1] = x /\ p[Len(<<call>>) + 1] = y
    BY <1>1
<1>3. \A i \in 1 .. Len(<<call>>) : Calls(t, <<call>>[i], p[i], p[i + 1])
  <2> SUFFICES ASSUME NEW i \in 1 .. Len(<<call>>)
               PROVE  Calls(t, <<call>>[i], p[i], p[i + 1])
      OBVIOUS
  <2>1. i = 1 /\ <<call>>[i] = call /\ p[i] = x /\ p[i + 1] = y
      BY <1>1
  <2> HIDE DEF p
  <2> QED BY <2>1, Zenon
<1> HIDE DEF p
<1> QED BY <1>2, <1>3, Zenon DEF Leads

LEMMA Composed ==
    ASSUME NEW t, NEW c \in Seq(CallNames), NEW d \in Seq(CallNames), NEW x, NEW y, NEW z,
           Leads(t, x, c, y), Leads(t, y, d, z)
    PROVE  Leads(t, x, c \o d, z)
<1>1. PICK p \in [1 .. Len(c) + 1 -> States] :
          /\ p[1] = x /\ p[Len(c) + 1] = y
          /\ \A i \in 1 .. Len(c) : Calls(t, c[i], p[i], p[i + 1])
    BY Zenon DEF Leads
<1>2. PICK q \in [1 .. Len(d) + 1 -> States] :
          /\ q[1] = y /\ q[Len(d) + 1] = z
          /\ \A i \in 1 .. Len(d) : Calls(t, d[i], q[i], q[i + 1])
    BY Zenon DEF Leads
<1> DEFINE m == Len(c)
           n == Len(d)
           e == c \o d
           r == [i \in 1 .. m + n + 1 |-> IF i <= m THEN p[i] ELSE q[i - m]]
<1>3. m \in Nat /\ n \in Nat /\ Len(e) = m + n
    OBVIOUS
<1>4. r \in [1 .. Len(e) + 1 -> States]
    BY <1>1, <1>2, <1>3
<1>5. r[1] = x /\ r[Len(e) + 1] = z
    BY <1>1, <1>2, <1>3
<1>6. ASSUME NEW i \in 1 .. Len(e)
      PROVE  Calls(t, e[i], r[i], r[i + 1])
  <2>1. CASE i \in 1 .. m
    <3>1. e[i] = c[i]
        BY <2>1, <1>3
    <3>2. r[i] = p[i] /\ r[i + 1] = p[i + 1]
        BY <2>1, <1>1, <1>2, <1>3
    <3>3. Calls(t, c[i], p[i], p[i + 1])
        BY <2>1, <1>1
    <3> HIDE DEF e, r
    <3> QED BY <3>1, <3>2, <3>3, Zenon
  <2>2. CASE i \notin 1 .. m
    <3>1. i - m \in 1 .. n /\ i \in Nat /\ m + 1 <= i
        BY <2>2, <1>3
    <3>2. e[i] = d[i - m]
        BY <3>1, <1>3
    <3>3. r[i] = q[i - m] /\ r[i + 1] = q[(i - m) + 1]
        BY <3>1, <1>3
    <3>4. Calls(t, d[i - m], q[i - m], q[(i - m) + 1])
        BY <3>1, <1>2
    <3> HIDE DEF e, r
    <3> QED BY <3>2, <3>3, <3>4, Zenon
  <2> QED BY <2>1, <2>2
<1> HIDE DEF r
<1> QED BY <1>4, <1>5, <1>6, Zenon DEF Leads

\* A call before a sequence of others.
LEMMA CallBefore ==
    ASSUME NEW t, NEW c \in Seq(CallNames), NEW d \in Seq(CallNames),
           NEW x \in States, NEW y \in States, NEW z \in States,
           Len(c) = 1 + Len(d), \A i \in 1 .. Len(d) : c[1 + i] = d[i],
           Calls(t, c[1], x, y), Leads(t, y, d, z)
    PROVE  Leads(t, x, c, z)
<1> DEFINE a == c[1]
<1>1. <<a>> \in Seq(CallNames) /\ Leads(t, x, <<a>>, y)
    BY OneCall
<1>2. Leads(t, x, <<a>> \o d, z)
  <2> HIDE DEF a
  <2> QED BY <1>1, Composed, Zenon
<1>3. <<a>> \o d \in Seq(CallNames) /\ Len(<<a>> \o d) = Len(c)
    BY <1>1
<1>4. ASSUME NEW i \in 1 .. Len(c)
      PROVE  (<<a>> \o d)[i] = c[i]
  <2>1. CASE i = 1
      BY <2>1
  <2>2. CASE i # 1
    <3>1. i - 1 \in 1 .. Len(d) /\ 1 + (i - 1) = i
        BY <2>2
    <3>2. (<<a>> \o d)[i] = d[i - 1]
        BY <3>1, <2>2
    <3> QED BY <3>1, <3>2
  <2> QED BY <2>1, <2>2
<1>5. <<a>> \o d = c
    BY <1>3, <1>4, SeqEqual
<1> QED BY <1>2, <1>5

LEMMA TwoCalls ==
    ASSUME NEW t, NEW a \in CallNames, NEW b \in CallNames,
           NEW x0 \in States, NEW x1 \in States, NEW x2 \in States,
           Calls(t, a, x0, x1), Calls(t, b, x1, x2)
    PROVE  Leads(t, x0, <<a, b>>, x2)
<1> DEFINE s == <<a, b>>
           r == <<b>>
<1>1. Leads(t, x1, r, x2)
    BY OneCall, Zenon
<1>2. s \in Seq(CallNames) /\ r \in Seq(CallNames)
    OBVIOUS
<1>3. s[1] = a /\ Len(s) = 1 + Len(r) /\ \A i \in 1 .. Len(r) : s[1 + i] = r[i]
    OBVIOUS
<1>4. Calls(t, s[1], x0, x1)
    BY <1>3
<1> HIDE DEF s, r
<1>5. Leads(t, x0, s, x2)
    BY <1>1, <1>2, <1>3, <1>4, CallBefore, Zenon
<1> QED BY <1>5 DEF s

LEMMA ThreeCalls ==
    ASSUME NEW t, NEW a \in CallNames, NEW b \in CallNames, NEW c \in CallNames,
           NEW x0 \in States, NEW x1 \in States, NEW x2 \in States,
           NEW x3 \in States,
           Calls(t, a, x0, x1), Calls(t, b, x1, x2), Calls(t, c, x2, x3)
    PROVE  Leads(t, x0, <<a, b, c>>, x3)
<1> DEFINE s == <<a, b, c>>
           r == <<b, c>>
<1>1. Leads(t, x1, r, x3)
    BY TwoCalls, Zenon
<1>2. s \in Seq(CallNames) /\ r \in Seq(CallNames)
    OBVIOUS
<1>3. s[1] = a /\ Len(s) = 1 + Len(r) /\ \A i \in 1 .. Len(r) : s[1 + i] = r[i]
    OBVIOUS
<1>4. Calls(t, s[1], x0, x1)
    BY <1>3
<1> HIDE DEF s, r
<1>5. Leads(t, x0, s, x3)
    BY <1>1, <1>2, <1>3, <1>4, CallBefore, Zenon
<1> QED BY <1>5 DEF s

LEMMA FourCalls ==
    ASSUME NEW t, NEW a \in CallNames, NEW b \in CallNames, NEW c \in CallNames,
           NEW d \in CallNames,
           NEW x0 \in States, NEW x1 \in States, NEW x2 \in States,
           NEW x3 \in States, NEW x4 \in States,
           Calls(t, a, x0, x1), Calls(t, b, x1, x2), Calls(t, c, x2, x3),
           Calls(t, d, x3, x4)
    PROVE  Leads(t, x0, <<a, b, c, d>>, x4)
<1> DEFINE s == <<a, b, c, d>>
           r == <<b, c, d>>
<1>1. Leads(t, x1, r, x4)
    BY ThreeCalls, Zenon
<1>2. s \in Seq(CallNames) /\ r \in Seq(CallNames)
    OBVIOUS
<1>3. s[1] = a /\ Len(s) = 1 + Len(r) /\ \A i \in 1 .. Len(r) : s[1 + i] = r[i]
    OBVIOUS
<1>4. Calls(t, s[1], x0, x1)
    BY <1>3
<1> HIDE DEF s, r
<1>5. Leads(t, x0, s, x4)
    BY <1>1, <1>2, <1>3, <1>4, CallBefore, Zenon
<1> QED BY <1>5 DEF s

LEMMA FiveCalls ==
    ASSUME NEW t, NEW a \in CallNames, NEW b \in CallNames, NEW c \in CallNames,
           NEW d \in CallNames, NEW e \in CallNames,
           NEW x0 \in States, NEW x1 \in States, NEW x2 \in States,
           NEW x3 \in States, NEW x4 \in States, NEW x5 \in States,
           Calls(t, a, x0, x1), Calls(t, b, x1, x2), Calls(t, c, x2, x3),
           Calls(t, d, x3, x4), Calls(t, e, x4, x5)
    PROVE  Leads(t, x0, <<a, b, c, d, e>>, x5)
<1> DEFINE s == <<a, b, c, d, e>>
           r == <<b, c, d, e>>
<1>1. Leads(t, x1, r, x5)
    BY FourCalls, Zenon
<1>2. s \in Seq(CallNames) /\ r \in Seq(CallNames)
    OBVIOUS
<1>3. s[1] = a /\ Len(s) = 1 + Len(r) /\ \A i \in 1 .. Len(r) : s[1 + i] = r[i]
    OBVIOUS
<1>4. Calls(t, s[1], x0, x1)
    BY <1>3
<1> HIDE DEF s, r
<1>5. Leads(t, x0, s, x5)
    BY <1>1, <1>2, <1>3, <1>4, CallBefore, Zenon
<1> QED BY <1>5 DEF s

LEMMA NextCall ==
    ASSUME NEW t, NEW c \in Seq(CallNames), c # <<>>, NEW x, NEW z, Leads(t, x, c, z)
    PROVE  \E y \in States : Calls(t, Head(c), x, y) /\ Leads(t, y, Tail(c), z)
<1>1. PICK p \in [1 .. Len(c) + 1 -> States] :
          /\ p[1] = x /\ p[Len(c) + 1] = z
          /\ \A i \in 1 .. Len(c) : Calls(t, c[i], p[i], p[i + 1])
    BY Zenon DEF Leads
<1> DEFINE d == Tail(c)
           q == [i \in 1 .. Len(d) + 1 |-> p[i + 1]]
<1>2. Len(c) \in Nat /\ Len(d) = Len(c) - 1 /\ Len(c) >= 1 /\ Head(c) = c[1]
    OBVIOUS
<1>3. p[2] \in States /\ Calls(t, Head(c), x, p[2])
  <2>1. 1 \in 1 .. Len(c) /\ 2 \in 1 .. Len(c) + 1 /\ 1 + 1 = 2
      BY <1>2
  <2>2. Calls(t, c[1], p[1], p[1 + 1])
      BY <2>1, <1>1
  <2>3. p[2] \in States
      BY <2>1, <1>1
  <2> QED BY <2>1, <2>2, <2>3, <1>1, <1>2
<1>4. q \in [1 .. Len(d) + 1 -> States] /\ q[1] = p[2] /\ q[Len(d) + 1] = z
    BY <1>1, <1>2
<1>5. ASSUME NEW i \in 1 .. Len(d)
      PROVE  Calls(t, d[i], q[i], q[i + 1])
  <2>1. i + 1 \in 1 .. Len(c) /\ d[i] = c[i + 1]
      BY <1>2
  <2>2. q[i] = p[i + 1] /\ q[i + 1] = p[(i + 1) + 1]
      BY <1>2
  <2>3. Calls(t, c[i + 1], p[i + 1], p[(i + 1) + 1])
      BY <2>1, <1>1
  <2> HIDE DEF d, q
  <2> QED BY <2>1, <2>2, <2>3, Zenon
<1>6. Leads(t, p[2], d, z)
  <2> HIDE DEF d, q
  <2> QED BY <1>4, <1>5, Zenon DEF Leads
<1> QED BY <1>3, <1>6, Zenon

LEMMA Nothing ==
    ASSUME NEW t, NEW x \in States
    PROVE  Leads(t, x, <<>>, x)
<1> DEFINE p == [i \in 1 .. 1 |-> x]
<1>1. Len(<<>>) = 0 /\ p \in [1 .. Len(<<>>) + 1 -> States] /\ p[1] = x /\ p[Len(<<>>) + 1] = x
    OBVIOUS
<1>2. \A i \in 1 .. Len(<<>>) : Calls(t, <<>>[i], p[i], p[i + 1])
    BY <1>1
<1> HIDE DEF p
<1> QED BY <1>1, <1>2, Zenon DEF Leads

LEMMA AtTheEnd ==
    ASSUME NEW t, NEW x, NEW y, Leads(t, x, <<>>, y)
    PROVE  x = y
<1>1. Len(<<>>) + 1 = 1
    OBVIOUS
<1> QED BY <1>1, Zenon DEF Leads

-----------------------------------------------------------------------------
(* Calls. *)

LEMMA EnterLeave ==
    ASSUME NEW x \in States, NEW kind \in Kinds, NEW mark \in Markers,
           NEW y, y = Enter(x, kind, mark)
    PROVE  Entered(x, kind, mark, y)
<1> DEFINE g == [kind |-> kind, before |-> x.marker]
           s == Append(x.guards, g)
<1>1. x.marker \in Markers /\ x.guards \in Seq(Guards) /\ x.uses \in BOOLEAN
    BY DEF States
<1>0. y = Enter(x, kind, mark)
    OBVIOUS
<1>2. g \in Guards
    BY <1>1 DEF Guards
<1>3. s \in Seq(Guards) /\ s # <<>> /\ Len(s) = Len(x.guards) + 1
    BY <1>1, <1>2
<1>4. Last(s) = g
    BY <1>1, <1>2, <1>3 DEF Last
<1>5. Front(s) = x.guards
  <2>1. Front(s) \in Seq(Guards) /\ Len(Front(s)) = Len(x.guards)
      BY <1>1, <1>3 DEF Front
  <2>2. \A i \in 1 .. Len(x.guards) : Front(s)[i] = x.guards[i]
      BY <1>1, <1>3 DEF Front
  <2> HIDE DEF s
  <2> QED BY <2>1, <2>2, <1>1, SeqEqual
<1>6. s[1] = IF x.guards = <<>> THEN g ELSE x.guards[1]
    BY <1>1, <1>2
<1>7. /\ y.marker = mark /\ y.uses = x.uses
      /\ y.guards = s
    BY <1>0 DEF Enter
<1>8. y \in States
    BY <1>0, <1>1, <1>3 DEF Enter, States
<1>9. /\ x.guards = <<>> => s[1].kind = kind
      /\ x.guards # <<>> => s[1].kind = x.guards[1].kind
  <2> HIDE DEF s
  <2> QED BY <1>6
<1> HIDE DEF s
<1>10. Leave(y, Last(s).before) = x
    BY <1>1, <1>4, <1>5, <1>7 DEF Leave, States
<1>11. ASSUME NEW m \in Markers
       PROVE  Leave(y, m) = Marking(x, m)
    BY <1>1, <1>5, <1>7 DEF Leave, Marking, States
<1> QED BY <1>3, <1>7, <1>8, <1>9, <1>10, <1>11 DEF Entered

LEMMA Places ==
    ASSUME NEW t, NEW u \in BOOLEAN
    PROVE  /\ Free(u) \in States /\ Free(u).marker = "none" /\ Free(u).guards = <<>> /\ Free(u).uses = u
           /\ Held(t, u) \in States /\ Held(t, u).marker = Mark(t) /\ Held(t, u).guards # <<>>
           /\ Held(t, u).uses = u
           /\ Held(t, u).guards[1].kind = IF t \in Dns THEN "write" ELSE "read"
           /\ Leave(Held(t, u), Last(Held(t, u).guards).before) = Free(u)
           /\ Leave(Held(t, u), Mark(t)) = Marking(Free(u), Mark(t))
           /\ Nested(t, u) \in States /\ Nested(t, u).marker = Mark(t) /\ Nested(t, u).guards # <<>>
           /\ Nested(t, u).guards[1].kind = Held(t, u).guards[1].kind
           /\ Leave(Nested(t, u), Last(Nested(t, u).guards).before) = Held(t, u)
           /\ Shared(u) \in States /\ Shared(u).marker = "shared" /\ Shared(u).guards # <<>>
           /\ Shared(u).guards[1].kind = "read" /\ Shared(u).uses = u
           /\ Leave(Shared(u), Last(Shared(u).guards).before) = Free(u)
           /\ Mark(t) \in Markers /\ Mark(t) # "none" /\ (t \in Dns <=> Mark(t) = "exclusive")
<1>1. Mark(t) \in Markers /\ Mark(t) # "none" /\ (t \in Dns <=> Mark(t) = "exclusive")
    BY DEF Mark, Markers
<1>2. <<>> \in Seq(Guards) /\ "none" \in Markers /\ "shared" \in Markers
      /\ "nothing" \in Kinds /\ "read" \in Kinds /\ "write" \in Kinds
    BY DEF Markers, Kinds
<1>3. Free(u) \in States /\ Free(u).marker = "none" /\ Free(u).guards = <<>> /\ Free(u).uses = u
    BY <1>2 DEF Free, States
<1> DEFINE kind == IF t \in Dns THEN "write" ELSE "read"
<1>4. kind \in Kinds
    BY <1>2
<1>5. Held(t, u) = Enter(Free(u), kind, Mark(t))
    BY DEF Held
<1>6. /\ Held(t, u) \in States /\ Held(t, u).marker = Mark(t) /\ Held(t, u).guards # <<>>
      /\ Held(t, u).uses = u /\ Held(t, u).guards[1].kind = kind
      /\ Leave(Held(t, u), Last(Held(t, u).guards).before) = Free(u)
      /\ Leave(Held(t, u), Mark(t)) = Marking(Free(u), Mark(t))
  <2> HIDE DEF kind
  <2>1. Entered(Free(u), kind, Mark(t), Held(t, u))
      BY <1>1, <1>3, <1>4, <1>5, EnterLeave, Zenon
  <2> QED BY <2>1, <1>1, <1>3 DEF Entered
<1>7. /\ Nested(t, u) \in States /\ Nested(t, u).marker = Mark(t) /\ Nested(t, u).guards # <<>>
      /\ Nested(t, u).guards[1].kind = Held(t, u).guards[1].kind
      /\ Leave(Nested(t, u), Last(Nested(t, u).guards).before) = Held(t, u)
  <2>1. Nested(t, u) = Enter(Held(t, u), "nothing", Mark(t))
      BY DEF Nested
  <2>2. Entered(Held(t, u), "nothing", Mark(t), Nested(t, u))
      BY <2>1, <1>1, <1>2, <1>6, EnterLeave, Zenon
  <2> QED BY <2>2, <1>6 DEF Entered
<1>8. /\ Shared(u) \in States /\ Shared(u).marker = "shared" /\ Shared(u).guards # <<>>
      /\ Shared(u).guards[1].kind = "read" /\ Shared(u).uses = u
      /\ Leave(Shared(u), Last(Shared(u).guards).before) = Free(u)
  <2>1. Shared(u) = Enter(Free(u), "read", "shared")
      BY DEF Shared
  <2>2. Entered(Free(u), "read", "shared", Shared(u))
      BY <2>1, <1>2, <1>3, EnterLeave, Zenon
  <2> QED BY <2>2, <1>3 DEF Entered
<1> QED BY <1>1, <1>3, <1>6, <1>7, <1>8 DEF kind

LEMMA KeptPlace ==
    ASSUME NEW t
    PROVE  /\ Kept(t) \in States /\ Kept(t).marker = Mark(t) /\ Kept(t).guards = <<>>
           /\ Kept(t).uses = FALSE
<1>1. Kept(t) = Marking(Free(FALSE), Mark(t))
    BY Places DEF Kept
<1>2. Mark(t) \in Markers /\ <<>> \in Seq(Guards)
    BY DEF Mark, Markers
<1> QED BY <1>1, <1>2 DEF Free, Marking, States

-----------------------------------------------------------------------------
(* Programs. *)

LEMMA RegistryCallReturns ==
    ASSUME NEW t, NEW x \in States,
           IF x.marker = "none" THEN x.guards = <<>> ELSE Covered(x)
    PROVE  Leads(t, x, RegistryCall, x)
<1>1. x.marker \in Markers /\ "none" \in Markers /\ "nothing" \in Kinds /\ "read" \in Kinds
    BY DEF States, Markers, Kinds
<1>2. "read" \in CallNames /\ "network" \in CallNames /\ "close" \in CallNames
    BY DEF CallNames
<1>3. PICK y \in States : /\ Calls(t, "read", x, y) /\ y.guards # <<>> /\ y.guards[1].kind # "nothing"
                          /\ Leave(y, Last(y.guards).before) = x
  <2>1. CASE x.marker = "none"
    <3> DEFINE y == Enter(x, "read", "none")
    <3>1. Entered(x, "read", "none", y)
      <4> HIDE DEF y
      <4>1. y = Enter(x, "read", "none")
          BY DEF y
      <4> QED BY <4>1, <1>1, EnterLeave, Zenon
    <3>2. Calls(t, "read", x, y)
        BY <2>1 DEF Calls
    <3> HIDE DEF y
    <3> QED BY <3>1, <3>2, <2>1 DEF Entered
  <2>2. CASE x.marker # "none"
    <3> DEFINE y == Enter(x, "nothing", x.marker)
    <3>1. Entered(x, "nothing", x.marker, y)
      <4> HIDE DEF y
      <4>1. y = Enter(x, "nothing", x.marker)
          BY DEF y
      <4> QED BY <4>1, <1>1, EnterLeave, Zenon
    <3>2. Calls(t, "read", x, y)
        BY <2>2 DEF Calls
    <3> HIDE DEF y
    <3> QED BY <3>1, <3>2, <2>2 DEF Entered, Covered
  <2> QED BY <2>1, <2>2
<1>4. Calls(t, "network", y, y)
    BY <1>3 DEF Calls, Covered
<1>5. Calls(t, "close", y, x)
    BY <1>3 DEF Calls
<1>6. Leads(t, x, <<"read", "network", "close">>, x)
    BY <1>2, <1>3, <1>4, <1>5, ThreeCalls, Zenon
<1> QED BY <1>6 DEF RegistryCall

LEMMA WindowCalls ==
    ASSUME NEW t, NEW u \in BOOLEAN
    PROVE  /\ Calls(t, "mutate", Free(u), Held(t, u)) /\ Calls(t, "mutate", Held(t, u), Nested(t, u))
           /\ Calls(t, "close", Held(t, u), Free(u)) /\ Calls(t, "close", Nested(t, u), Held(t, u))
           /\ Calls(t, "transfer", Held(t, u), Held(t, u))
           /\ \A call \in {"apply", "verify"} : /\ Calls(t, call, Held(t, u), Held(t, u))
                                                /\ Calls(t, call, Nested(t, u), Nested(t, u))
<1>1. Calls(t, "mutate", Free(u), Held(t, u))
  <2>1. CASE t \in Dns
      BY <2>1, Places DEF Calls, Held, Mark
  <2>2. CASE t \notin Dns
      BY <2>2, Places DEF Calls, Held, Mark
  <2> QED BY <2>1, <2>2
<1>2. Calls(t, "mutate", Held(t, u), Nested(t, u))
  <2>1. CASE t \in Dns
      BY <2>1, Places, Zenon DEF Calls, Nested, Mark
  <2>2. CASE t \notin Dns
      BY <2>2, Places DEF Calls, Nested, Mark
  <2> QED BY <2>1, <2>2
<1>3. Calls(t, "close", Held(t, u), Free(u)) /\ Calls(t, "close", Nested(t, u), Held(t, u))
    BY Places DEF Calls
<1>4. Calls(t, "transfer", Held(t, u), Held(t, u))
  <2>1. Held(t, u) = Marking(Held(t, u), Mark(t))
      BY Places DEF States, Marking
  <2> QED BY <2>1 DEF Calls
<1>5. /\ Covered(Held(t, u)) /\ (t \in Dns => Excluding(Held(t, u)))
      /\ Covered(Nested(t, u)) /\ (t \in Dns => Excluding(Nested(t, u)))
    BY Places DEF Covered, Excluding
<1>6. ASSUME NEW call \in {"apply", "verify"}
      PROVE  Calls(t, call, Held(t, u), Held(t, u)) /\ Calls(t, call, Nested(t, u), Nested(t, u))
    BY <1>5 DEF Calls
<1> QED BY <1>1, <1>2, <1>3, <1>4, <1>6

LEMMA OtherCalls ==
    ASSUME NEW t
    PROVE  /\ Calls(t, "worker+", Free(FALSE), Free(TRUE)) /\ Calls(t, "worker-", Free(TRUE), Free(FALSE))
           /\ Calls(t, "worker-", Held(t, TRUE), Held(t, FALSE))
           /\ Calls(t, "worker+", Shared(FALSE), Shared(TRUE))
           /\ Calls(t, "worker-", Shared(TRUE), Shared(FALSE))
           /\ Calls(t, "shared", Held(t, FALSE), Nested(t, FALSE))
           /\ Calls(t, "keep", Held(t, FALSE), Kept(t))
           /\ \A u \in BOOLEAN : Calls(t, "shared", Free(u), Shared(u))
           /\ \A u \in BOOLEAN : Calls(t, "close", Shared(u), Free(u))
           /\ \A u \in BOOLEAN : Calls(t, "network", Shared(u), Shared(u))
           /\ \A x : Calls(t, "refresh", x, x)
<1>1. Free(TRUE) = Using(Free(FALSE), TRUE) /\ Free(FALSE) = Using(Free(TRUE), FALSE)
    BY DEF Free, Using
<1>2. Held(t, FALSE) = Using(Held(t, TRUE), FALSE)
    BY DEF Free, Held, Enter, Using
<1>3. /\ Shared(TRUE) = Using(Shared(FALSE), TRUE)
      /\ Shared(FALSE) = Using(Shared(TRUE), FALSE)
    BY DEF Free, Shared, Enter, Using
<1>4. ~Free(FALSE).uses /\ Free(TRUE).uses /\ Held(t, TRUE).uses /\ ~Shared(FALSE).uses /\ Shared(TRUE).uses
    BY DEF Free, Held, Shared, Enter
<1>5. Calls(t, "worker+", Free(FALSE), Free(TRUE)) /\ Calls(t, "worker-", Free(TRUE), Free(FALSE))
    BY <1>1, <1>4, Zenon DEF Calls
<1>6. Calls(t, "worker-", Held(t, TRUE), Held(t, FALSE))
    BY <1>2, <1>4, Zenon DEF Calls
<1>7. Calls(t, "worker+", Shared(FALSE), Shared(TRUE)) /\ Calls(t, "worker-", Shared(TRUE), Shared(FALSE))
    BY <1>3, <1>4, Zenon DEF Calls
<1>8. Calls(t, "shared", Held(t, FALSE), Nested(t, FALSE))
    BY Places DEF Calls, Nested
<1>9. Calls(t, "keep", Held(t, FALSE), Kept(t))
    BY Places DEF Calls, Kept
<1>10. ASSUME NEW u \in BOOLEAN
       PROVE  /\ Calls(t, "shared", Free(u), Shared(u)) /\ Calls(t, "close", Shared(u), Free(u))
              /\ Calls(t, "network", Shared(u), Shared(u))
  <2>1. Calls(t, "shared", Free(u), Shared(u))
      BY Places DEF Calls, Shared
  <2>2. Calls(t, "close", Shared(u), Free(u)) /\ Calls(t, "network", Shared(u), Shared(u))
      BY Places DEF Calls, Covered
  <2> QED BY <2>1, <2>2
<1>11. \A x : Calls(t, "refresh", x, x)
    BY DEF Calls
<1> QED BY <1>5, <1>6, <1>7, <1>8, <1>9, <1>10, <1>11

LEMMA CallsSpelled ==
    /\ RegistryCall \in Seq(CallNames) /\ PostUpdateCheck \in Seq(CallNames) /\ Rollback \in Seq(CallNames)
    /\ \A u : Capture(u) \in Seq(CallNames) /\ EndCapture(u) \in Seq(CallNames)
    /\ <<"worker+", "worker-">> \in Seq(CallNames) /\ <<"close">> \in Seq(CallNames)
    /\ <<"worker+", "mutate", "close", "worker-">> \in Seq(CallNames)
    /\ <<"worker+", "mutate", "apply", "worker-", "verify">> \in Seq(CallNames)
    /\ <<"mutate", "apply", "verify">> \in Seq(CallNames)
    /\ <<"shared", "network">> \in Seq(CallNames) /\ <<"shared", "network", "worker+">> \in Seq(CallNames)
    /\ <<"worker-", "close">> \in Seq(CallNames)
<1>1. RegistryCall \in Seq(CallNames)
    BY DEF RegistryCall, CallNames
<1>2. PostUpdateCheck \in Seq(CallNames)
    BY DEF PostUpdateCheck, CallNames
<1>3. Rollback \in Seq(CallNames)
    BY DEF Rollback, CallNames
<1>4. ASSUME NEW u
      PROVE  Capture(u) \in Seq(CallNames) /\ EndCapture(u) \in Seq(CallNames)
  <2>1. <<"mutate", "apply", "transfer">> \in Seq(CallNames) /\ <<"close">> \in Seq(CallNames)
      BY DEF CallNames
  <2> QED BY <2>1 DEF Capture, EndCapture
<1>5. <<"worker+", "worker-">> \in Seq(CallNames) /\ <<"close">> \in Seq(CallNames)
    BY DEF CallNames
<1>6. <<"worker+", "mutate", "close", "worker-">> \in Seq(CallNames)
    BY DEF CallNames
<1>7. <<"worker+", "mutate", "apply", "worker-", "verify">> \in Seq(CallNames)
    BY DEF CallNames
<1>8. <<"mutate", "apply", "verify">> \in Seq(CallNames) /\ <<"shared", "network">> \in Seq(CallNames)
    BY DEF CallNames
<1>9. <<"shared", "network", "worker+">> \in Seq(CallNames) /\ <<"worker-", "close">> \in Seq(CallNames)
    BY DEF CallNames
<1> QED BY <1>1, <1>2, <1>3, <1>4, <1>5, <1>6, <1>7, <1>8, <1>9

LEMMA Names ==
    /\ "read" \in CallNames /\ "shared" \in CallNames /\ "mutate" \in CallNames
    /\ "transfer" \in CallNames /\ "close" \in CallNames /\ "keep" \in CallNames
    /\ "worker+" \in CallNames /\ "worker-" \in CallNames /\ "network" \in CallNames
    /\ "apply" \in CallNames /\ "verify" \in CallNames /\ "refresh" \in CallNames
    /\ FALSE \in BOOLEAN /\ TRUE \in BOOLEAN
    /\ "apply" \in {"apply", "verify"} /\ "verify" \in {"apply", "verify"}
BY DEF CallNames

LEMMA PreparationReturns ==
    ASSUME NEW t
    PROVE  Preparation(t) \in Seq(CallNames) /\ Leads(t, Free(FALSE), Preparation(t), Free(FALSE))
<1> DEFINE f == Free(FALSE)
           h == Held(t, FALSE)
           g == IF t \in Captures THEN h ELSE f
<1>1. f \in States /\ h \in States /\ g \in States
    BY Places
<1>2. Leads(t, f, RegistryCall, f)
    BY Places, RegistryCallReturns DEF Covered
<1>3. Leads(t, h, RegistryCall, h)
    BY Places, RegistryCallReturns DEF Covered
<1>4. Leads(t, f, Capture(t), g)
  <2>1. CASE t \in Captures
    <3>1. /\ Calls(t, "mutate", f, h) /\ Calls(t, "apply", h, h) /\ Calls(t, "transfer", h, h)
        BY WindowCalls
    <3>2. Leads(t, f, <<"mutate", "apply", "transfer">>, h)
      <4> HIDE DEF f, h
      <4> QED BY <1>1, <3>1, Names, ThreeCalls, Zenon
    <3> QED BY <2>1, <3>2 DEF Capture
  <2>2. CASE t \notin Captures
      BY <1>1, <2>2, Nothing DEF Capture
  <2> QED BY <2>1, <2>2
<1>5. Leads(t, g, EndCapture(t), f)
  <2>1. CASE t \in Captures
    <3>1. Calls(t, "close", h, f)
        BY WindowCalls
    <3>2. Leads(t, h, <<"close">>, f)
      <4> HIDE DEF f, h
      <4> QED BY <1>1, <3>1, OneCall, Zenon
    <3> QED BY <2>1, <3>2 DEF EndCapture
  <2>2. CASE t \notin Captures
      BY <1>1, <2>2, Nothing DEF EndCapture
  <2> QED BY <2>1, <2>2
<1>6. Leads(t, g, RegistryCall, g)
    BY <1>2, <1>3
<1> DEFINE a == RegistryCall \o Capture(t)
           b == a \o RegistryCall
           c == b \o EndCapture(t)
           d == c \o RegistryCall
<1>7. /\ RegistryCall \in Seq(CallNames)
      /\ Capture(t) \in Seq(CallNames) /\ EndCapture(t) \in Seq(CallNames)
    BY CallsSpelled
<1> HIDE DEF f, g, h
<1>8. a \in Seq(CallNames) /\ Leads(t, f, a, g)
    BY <1>2, <1>4, <1>7, Composed
<1> HIDE DEF a
<1>9. b \in Seq(CallNames) /\ Leads(t, f, b, g)
    BY <1>6, <1>7, <1>8, Composed
<1> HIDE DEF b
<1>10. c \in Seq(CallNames) /\ Leads(t, f, c, f)
    BY <1>5, <1>7, <1>9, Composed
<1> HIDE DEF c
<1>11. d \in Seq(CallNames) /\ Leads(t, f, d, f)
    BY <1>2, <1>7, <1>10, Composed
<1> QED BY <1>11 DEF a, b, c, d, f, Preparation

LEMMA RollbackParts ==
    ASSUME NEW t, NEW x \in States, NEW y \in States, NEW z \in States,
           Calls(t, "mutate", x, y), Calls(t, "apply", y, y), Calls(t, "verify", y, y),
           Calls(t, "close", y, x),
           Calls(t, "shared", x, z), Calls(t, "refresh", z, z), Calls(t, "close", z, x)
    PROVE  Leads(t, x, Rollback, x)
<1> DEFINE a == <<"mutate", "apply", "verify", "close">>
           b == <<"shared", "refresh", "close">>
<1>1. Leads(t, x, a, x)
    BY Names, FourCalls, Zenon
<1>2. Leads(t, x, b, x)
    BY Names, ThreeCalls, Zenon
<1>3. a \in Seq(CallNames) /\ b \in Seq(CallNames)
    BY DEF CallNames
<1>4. a \o b = Rollback
  <2>1. a \o b \in Seq(CallNames) /\ Rollback \in Seq(CallNames)
      BY <1>3, CallsSpelled
  <2>2. Len(a \o b) = Len(Rollback)
      BY DEF Rollback
  <2>3. \A i \in 1 .. Len(Rollback) : (a \o b)[i] = Rollback[i]
      BY DEF Rollback
  <2> QED BY <2>1, <2>2, <2>3, SeqEqual
<1> HIDE DEF a, b
<1>5. Leads(t, x, a \o b, x)
    BY <1>1, <1>2, <1>3, Composed, Zenon
<1> QED BY <1>4, <1>5

LEMMA RollbackReturns ==
    ASSUME NEW t
    PROVE  Leads(t, Free(FALSE), Rollback, Free(FALSE)) /\ Leads(t, Held(t, FALSE), Rollback, Held(t, FALSE))
<1>1. /\ Free(FALSE) \in States /\ Held(t, FALSE) \in States /\ Nested(t, FALSE) \in States
      /\ Shared(FALSE) \in States
    BY Places
<1>2. Leads(t, Free(FALSE), Rollback, Free(FALSE))
    BY <1>1, Names, WindowCalls, OtherCalls, RollbackParts, Zenon
<1>3. Leads(t, Held(t, FALSE), Rollback, Held(t, FALSE))
    BY <1>1, Names, WindowCalls, OtherCalls, RollbackParts, Zenon
<1> QED BY <1>2, <1>3

LEMMA PostUpdateCheckEnds ==
    ASSUME NEW t
    PROVE  Leads(t, Held(t, FALSE), PostUpdateCheck, Kept(t))
<1> DEFINE k == Kept(t)
           s == Enter(k, "nothing", Mark(t))
<1>1. Mark(t) \in Markers /\ Mark(t) # "none" /\ "nothing" \in Kinds
    BY DEF Mark, Markers, Kinds
<1>2. k \in States /\ k.marker = Mark(t) /\ Held(t, FALSE) \in States
    BY KeptPlace, Places
<1>3. Calls(t, "shared", k, s)
    BY <1>1, <1>2 DEF Calls
<1>4. Entered(k, "nothing", Mark(t), s)
    BY <1>1, <1>2, EnterLeave
<1> HIDE DEF s
<1>5. s \in States /\ Calls(t, "close", s, k)
    BY <1>4 DEF Entered, Calls
<1>6. Calls(t, "keep", Held(t, FALSE), k) /\ Calls(t, "refresh", s, s)
    BY OtherCalls
<1> HIDE DEF k
<1>7. Leads(t, Held(t, FALSE), <<"keep", "shared", "refresh", "close">>, k)
    BY <1>2, <1>3, <1>5, <1>6, Names, FourCalls, Zenon
<1> QED BY <1>7 DEF PostUpdateCheck, k

LEMMA RestsEnd ==
    ASSUME NEW t
    PROVE  \A rest \in {
               <<"worker+", "worker-">>,
               <<"worker+", "mutate", "close", "worker-">>,
               <<"worker+", "mutate", "apply", "worker-", "verify">> \o PostUpdateCheck,
               <<"worker+", "mutate", "apply", "worker-", "verify">> \o Rollback \o <<"close">>,
               <<"mutate", "apply", "verify">> \o PostUpdateCheck} :
                   rest \in Seq(CallNames) /\ Ends(t, Free(FALSE), rest)
<1> DEFINE f == Free(FALSE)
           g == Free(TRUE)
           h == Held(t, FALSE)
           i == Held(t, TRUE)
           k == Kept(t)
           five == <<"worker+", "mutate", "apply", "worker-", "verify">>
           three == <<"mutate", "apply", "verify">>
<1>1. f \in States /\ g \in States /\ h \in States /\ i \in States /\ k \in States
    BY Places, KeptPlace
<1>2. f.guards = <<>> /\ ~f.uses /\ k.guards = <<>> /\ ~k.uses
    BY Places, KeptPlace
<1>3. /\ Calls(t, "worker+", f, g) /\ Calls(t, "worker-", g, f) /\ Calls(t, "worker-", i, h)
    BY OtherCalls
<1>4. /\ Calls(t, "mutate", f, h) /\ Calls(t, "mutate", g, i)
      /\ Calls(t, "apply", h, h) /\ Calls(t, "apply", i, i) /\ Calls(t, "verify", h, h)
      /\ Calls(t, "close", h, f) /\ Calls(t, "close", i, g)
    BY WindowCalls
<1>5. Leads(t, h, PostUpdateCheck, k) /\ Leads(t, h, Rollback, h)
    BY PostUpdateCheckEnds, RollbackReturns
<1>6. /\ PostUpdateCheck \in Seq(CallNames) /\ Rollback \in Seq(CallNames) /\ <<"close">> \in Seq(CallNames)
      /\ five \in Seq(CallNames) /\ three \in Seq(CallNames)
      /\ <<"worker+", "worker-">> \in Seq(CallNames)
      /\ <<"worker+", "mutate", "close", "worker-">> \in Seq(CallNames)
    BY CallsSpelled
<1> HIDE DEF f, g, h, i, k
<1>7. Leads(t, f, <<"worker+", "worker-">>, f)
    BY <1>1, <1>3, Names, TwoCalls, Zenon
<1>8. Leads(t, f, <<"worker+", "mutate", "close", "worker-">>, f)
    BY <1>1, <1>3, <1>4, Names, FourCalls, Zenon
<1>9. Leads(t, f, five, h)
    BY <1>1, <1>3, <1>4, Names, FiveCalls, Zenon
<1>10. Leads(t, f, three, h)
    BY <1>1, <1>4, Names, ThreeCalls, Zenon
<1>11. Leads(t, h, <<"close">>, f)
    BY <1>1, <1>4, OneCall, Zenon
<1> HIDE DEF five, three
<1>12. five \o PostUpdateCheck \in Seq(CallNames) /\ Leads(t, f, five \o PostUpdateCheck, k)
    BY <1>5, <1>6, <1>9, Composed
<1>13. three \o PostUpdateCheck \in Seq(CallNames) /\ Leads(t, f, three \o PostUpdateCheck, k)
    BY <1>5, <1>6, <1>10, Composed
<1>14. five \o Rollback \in Seq(CallNames) /\ Leads(t, f, five \o Rollback, h)
    BY <1>5, <1>6, <1>9, Composed
<1>15. /\ five \o Rollback \o <<"close">> \in Seq(CallNames)
       /\ Leads(t, f, five \o Rollback \o <<"close">>, f)
  <2> DEFINE r == five \o Rollback
             c == <<"close">>
  <2>1. r \in Seq(CallNames) /\ Leads(t, f, r, h) /\ c \in Seq(CallNames) /\ Leads(t, h, c, f)
      BY <1>6, <1>11, <1>14
  <2> HIDE DEF r, c
  <2>2. r \o c \in Seq(CallNames) /\ Leads(t, f, r \o c, f)
      BY <2>1, Composed
  <2> QED BY <2>2 DEF r, c
<1>16. /\ Ends(t, f, <<"worker+", "worker-">>) /\ Ends(t, f, <<"worker+", "mutate", "close", "worker-">>)
       /\ Ends(t, f, five \o PostUpdateCheck) /\ Ends(t, f, five \o Rollback \o <<"close">>)
       /\ Ends(t, f, three \o PostUpdateCheck)
    BY <1>1, <1>2, <1>7, <1>8, <1>12, <1>13, <1>15, Zenon DEF Ends
<1> QED BY <1>6, <1>12, <1>13, <1>15, <1>16, Zenon DEF five, three, f

LEMMA ChecksEnd ==
    ASSUME NEW t
    PROVE  \A program \in {
               <<"shared", "network">> \o RegistryCall \o <<"close">>,
               <<"shared", "network", "worker+">> \o RegistryCall \o <<"worker-", "close">>} :
                   program \in Seq(CallNames) /\ Ends(t, Free(FALSE), program)
<1> DEFINE f == Free(FALSE)
           s == Shared(FALSE)
           u == Shared(TRUE)
           two == <<"shared", "network">>
           three == <<"shared", "network", "worker+">>
           back == <<"worker-", "close">>
           close == <<"close">>
<1>1. f \in States /\ s \in States /\ u \in States /\ f.guards = <<>> /\ ~f.uses
    BY Places
<1>2. /\ Calls(t, "shared", f, s) /\ Calls(t, "network", s, s) /\ Calls(t, "worker+", s, u)
      /\ Calls(t, "worker-", u, s) /\ Calls(t, "close", s, f)
    BY OtherCalls
<1>3. Leads(t, s, RegistryCall, s) /\ Leads(t, u, RegistryCall, u)
    BY Places, RegistryCallReturns DEF Covered
<1>4. /\ RegistryCall \in Seq(CallNames) /\ two \in Seq(CallNames) /\ three \in Seq(CallNames)
      /\ back \in Seq(CallNames) /\ close \in Seq(CallNames)
    BY CallsSpelled
<1> HIDE DEF f, s, u
<1>5. Leads(t, f, two, s)
    BY <1>1, <1>2, Names, TwoCalls, Zenon
<1>6. Leads(t, f, three, u)
    BY <1>1, <1>2, Names, ThreeCalls, Zenon
<1>7. Leads(t, u, back, f)
    BY <1>1, <1>2, Names, TwoCalls, Zenon
<1>8. Leads(t, s, close, f)
    BY <1>1, <1>2, OneCall, Zenon
<1> HIDE DEF two, three, back, close
<1> DEFINE a == two \o RegistryCall
           b == three \o RegistryCall
<1>9. a \in Seq(CallNames) /\ Leads(t, f, a, s)
    BY <1>3, <1>4, <1>5, Composed
<1>10. b \in Seq(CallNames) /\ Leads(t, f, b, u)
    BY <1>3, <1>4, <1>6, Composed
<1> HIDE DEF a, b
<1>11. a \o close \in Seq(CallNames) /\ Leads(t, f, a \o close, f)
    BY <1>4, <1>8, <1>9, Composed
<1>12. b \o back \in Seq(CallNames) /\ Leads(t, f, b \o back, f)
    BY <1>4, <1>7, <1>10, Composed
<1>13. Ends(t, f, a \o close) /\ Ends(t, f, b \o back)
    BY <1>1, <1>11, <1>12, Zenon DEF Ends
<1> QED BY <1>11, <1>12, <1>13, Zenon DEF a, b, two, three, back, close, f

\* What holds of the text of the programs: whatever a goroutine of the
\* application begins with, it leads from nothing held to nothing held.
LEMMA ProgramsEnd ==
    ASSUME NEW t \in Users, NEW program \in Programs(t)
    PROVE  program \in Seq(CallNames) /\ Ends(t, Free(FALSE), program)
<1>1. CASE t \in Updates
  <2>1. PICK rest \in {
               <<"worker+", "worker-">>,
               <<"worker+", "mutate", "close", "worker-">>,
               <<"worker+", "mutate", "apply", "worker-", "verify">> \o PostUpdateCheck,
               <<"worker+", "mutate", "apply", "worker-", "verify">> \o Rollback \o <<"close">>,
               <<"mutate", "apply", "verify">> \o PostUpdateCheck} :
            program = Preparation(t) \o rest
      BY <1>1, Zenon DEF Programs, UpdatePrograms
  <2>2. rest \in Seq(CallNames) /\ Ends(t, Free(FALSE), rest)
      BY <2>1, RestsEnd, Zenon
  <2>3. Preparation(t) \in Seq(CallNames) /\ Leads(t, Free(FALSE), Preparation(t), Free(FALSE))
      BY PreparationReturns
  <2>4. PICK y \in States : y.guards = <<>> /\ ~y.uses /\ Leads(t, Free(FALSE), rest, y)
      BY <2>2 DEF Ends
  <2> HIDE <2>1
  <2>5. Leads(t, Free(FALSE), Preparation(t) \o rest, y)
      BY <2>2, <2>3, <2>4, Composed
  <2>6. Ends(t, Free(FALSE), Preparation(t) \o rest)
      BY <2>4, <2>5, Zenon DEF Ends
  <2>7. Preparation(t) \o rest \in Seq(CallNames)
      BY <2>2, <2>3
  <2>8. program = Preparation(t) \o rest
      BY <2>1
  <2> QED BY <2>6, <2>7, <2>8
<1>2. CASE t \notin Updates /\ t \in Rollbacks
  <2>1. program = Rollback
      BY <1>2 DEF Programs
  <2>2. Ends(t, Free(FALSE), Rollback)
      BY RollbackReturns, Places DEF Ends
  <2> QED BY <2>1, <2>2, CallsSpelled
<1>3. CASE t \notin Updates /\ t \notin Rollbacks /\ t \in Checks
  <2>1. program \in {
               <<"shared", "network">> \o RegistryCall \o <<"close">>,
               <<"shared", "network", "worker+">> \o RegistryCall \o <<"worker-", "close">>}
      BY <1>3, Zenon DEF Programs
  <2> QED BY <2>1, ChecksEnd, Zenon
<1> QED BY <1>1, <1>2, <1>3 DEF Users

-----------------------------------------------------------------------------
(* Steps. *)

\* All that a step of t leaves to the others.
Apart(t) ==
    \A s \in Threads \ {t} :
        /\ code'[s] = code[s] /\ marker'[s] = marker[s] /\ guards'[s] = guards[s]
        /\ \A l \in Locks : Inside(s, l)' = Inside(s, l)
        /\ \A l \in Locks : s \in blocked'[l] \cup granted'[l] => s \in blocked[l] \cup granted[l]
        /\ writer'["continuity"] = s => writer["continuity"] = s

LEMMA OthersStaySound ==
    ASSUME LocksInv, NEW t, Apart(t), NEW s \in Threads, s # t
    PROVE  Sound(s)'
<1>1. /\ code'[s] = code[s] /\ marker'[s] = marker[s] /\ guards'[s] = guards[s]
      /\ \A l \in Locks : Inside(s, l)' = Inside(s, l)
      /\ \A l \in Locks : s \in blocked'[l] \cup granted'[l] => s \in blocked[l] \cup granted[l]
      /\ writer'["continuity"] = s => writer["continuity"] = s
    BY DEF Apart
<1>2. OutermostOnly(s) /\ Counted(s) /\ Waits(s) /\ OnItsWay(s)
    BY Zenon DEF LocksInv, Sound
<1>3. "continuity" \in Locks /\ "workerOp" \in Locks
    BY DEF Locks
<1>4. InHand(s)' = InHand(s) /\ At(s)' = At(s) /\ Uses(s)' = Uses(s)
    BY <1>1, <1>3, Zenon DEF InHand, At, Uses
<1>5. State(s)' = State(s)
    BY <1>1, <1>4, Zenon DEF State
<1>6. OutermostOnly(s)'
    BY <1>1, <1>2, Zenon DEF OutermostOnly
<1>7. Counted(s)'
    BY <1>1, <1>2, <1>3, <1>4, Zenon DEF Counted
<1>8. Waits(s)'
  <2>1. /\ \A l \in Locks : WantsRead(s, l)' <=> WantsRead(s, l)
        /\ WantsWrite(s, "continuity")' <=> WantsWrite(s, "continuity")
      BY <1>1, <1>4, Zenon DEF WantsRead, WantsWrite, Marked
  <2> QED BY <2>1, <1>1, <1>2, <1>4, Zenon DEF Waits
<1>9. OnItsWay(s)'
    BY <1>1, <1>2, <1>5, Zenon DEF OnItsWay
<1> QED BY <1>6, <1>7, <1>8, <1>9, Zenon DEF Sound

LEMMA StepKeeps ==
    ASSUME LocksInv, NEW t \in Threads, Apart(t),
           GoroutinesTyped', LocksTyped', Sound(t)', WriterAlone'
    PROVE  LocksInv'
<1>1. \A s \in Threads : Sound(s)'
    BY OthersStaySound, Zenon
<1> QED BY <1>1, Zenon DEF LocksInv

-----------------------------------------------------------------------------
(* The locks. *)

LEMMA ReadLocked ==
    ASSUME LocksTyped, NEW t \in Threads, NEW l \in Locks, RLock(t, l)
    PROVE  /\ LocksTyped'
           /\ \A k \in Locks : \A s \in Threads :
                  Inside(s, k)' = IF k = l /\ s = t THEN Inside(s, k) + 1 ELSE Inside(s, k)
           /\ \A k \in Locks : blocked'[k] = blocked[k] /\ granted'[k] \subseteq granted[k]
           /\ \A k \in Locks \ {l} : granted'[k] = granted[k]
           /\ t \notin blocked'[l] \cup granted'[l]
           /\ writer' = writer
           /\ writer[l] = Nobody \/ (readers' = readers /\ readers[l][t] = Inside(t, l) + 1)
           /\ \A k \in Locks \ {l} : readers'[k] = readers[k]
<1>1. CASE /\ writer[l] = Nobody /\ t \notin blocked[l] \cup granted[l]
           /\ readers' = [readers EXCEPT ![l][t] = @ + 1] /\ UNCHANGED <<granted, writer, blocked>>
    BY <1>1 DEF LocksTyped, Inside
<1>2. CASE /\ t \in granted[l]
           /\ granted' = [granted EXCEPT ![l] = @ \ {t}] /\ UNCHANGED <<readers, writer, blocked>>
    BY <1>2 DEF LocksTyped, Inside
<1> QED BY <1>1, <1>2 DEF RLock

LEMMA ReadUnlocked ==
    ASSUME LocksTyped, NEW t \in Threads, NEW l \in Locks, RUnlock(t, l), Inside(t, l) >= 1
    PROVE  /\ LocksTyped'
           /\ \A k \in Locks : \A s \in Threads :
                  /\ Inside(s, k)' = IF k = l /\ s = t THEN Inside(s, k) - 1 ELSE Inside(s, k)
                  /\ readers[k][s] = 0 => readers'[k][s] = 0
           /\ UNCHANGED <<writer, blocked, granted>>
<1>1. readers[l][t] \in Nat /\ readers[l][t] >= 1
    BY DEF LocksTyped, Inside
<1>2. LocksTyped'
    BY <1>1 DEF LocksTyped, RUnlock
<1>3. ASSUME NEW k \in Locks, NEW s \in Threads
      PROVE  /\ Inside(s, k)' = IF k = l /\ s = t THEN Inside(s, k) - 1 ELSE Inside(s, k)
             /\ readers[k][s] = 0 => readers'[k][s] = 0
    BY <1>1 DEF LocksTyped, RUnlock, Inside
<1> QED BY <1>2, <1>3 DEF RUnlock

LEMMA Unlocked ==
    ASSUME LocksTyped, NEW t \in Threads, NEW l \in Locks, Unlock(t, l)
    PROVE  /\ LocksTyped'
           /\ \A k \in Locks : \A s \in Threads : Inside(s, k)' = Inside(s, k)
           /\ \A k \in Locks : blocked'[k] \cup granted'[k] = blocked[k] \cup granted[k]
           /\ writer'[l] = Nobody
           /\ \A k \in Locks \ {l} : writer'[k] = writer[k] /\ readers'[k] = readers[k]
<1>1. \A k \in Locks : \A s \in Threads :
          readers'[k][s] = IF k = l /\ s \in blocked[l] THEN readers[k][s] + 1 ELSE readers[k][s]
    BY DEF LocksTyped, Unlock
<1>2. LocksTyped'
  <2>1. readers' \in [Locks -> [Threads -> Nat]]
      BY DEF LocksTyped, Unlock
  <2>2. /\ writer' \in [Locks -> Threads \cup {Nobody}]
        /\ blocked' \in [Locks -> SUBSET Threads] /\ granted' \in [Locks -> SUBSET Threads]
        /\ \A k \in Locks : blocked'[k] \cap granted'[k] = {}
      BY DEF LocksTyped, Unlock
  <2> QED BY <2>1, <2>2 DEF LocksTyped
<1>3. ASSUME NEW k \in Locks, NEW s \in Threads
      PROVE  Inside(s, k)' = Inside(s, k)
  <2>1. readers[k][s] \in Nat
      BY DEF LocksTyped
  <2>2. CASE k = l
    <3>1. granted'[k] = granted[l] \cup blocked[l] /\ blocked[l] \cap granted[l] = {}
        BY <2>2 DEF LocksTyped, Unlock
    <3> QED BY <3>1, <2>1, <2>2, <1>1 DEF Inside
  <2>3. CASE k # l
    <3>1. granted'[k] = granted[k]
        BY <2>3 DEF LocksTyped, Unlock
    <3> QED BY <3>1, <2>1, <2>3, <1>1 DEF Inside
  <2> QED BY <2>2, <2>3
<1>4. \A k \in Locks : blocked'[k] \cup granted'[k] = blocked[k] \cup granted[k]
    BY DEF LocksTyped, Unlock
<1>5. writer'[l] = Nobody /\ \A k \in Locks \ {l} : writer'[k] = writer[k] /\ readers'[k] = readers[k]
    BY DEF LocksTyped, Unlock
<1> QED BY <1>2, <1>3, <1>4, <1>5

-----------------------------------------------------------------------------
(* What a goroutine knows at its next call. *)

LEMMA LockNames == /\ "continuity" \in Locks /\ "workerOp" \in Locks /\ "continuity" # "workerOp"
                   /\ Locks = {"continuity", "workerOp"}
BY DEF Locks

LEMMA SoundState ==
    ASSUME GoroutinesTyped, NEW t \in Threads
    PROVE  /\ code[t] \in Seq(CallNames) /\ marker[t] \in Markers /\ guards[t] \in Seq(Guards)
           /\ State(t) \in States /\ State(t).marker = marker[t] /\ State(t).guards = guards[t]
           /\ State(t).uses = Uses(t) /\ Uses(t) \in BOOLEAN
<1>1. code[t] \in Seq(CallNames) /\ marker[t] \in Markers /\ guards[t] \in Seq(Guards)
    BY DEF GoroutinesTyped
<1>2. Uses(t) \in BOOLEAN
    BY Zenon DEF Uses
<1>3. State(t).marker = marker[t] /\ State(t).guards = guards[t] /\ State(t).uses = Uses(t)
    BY DEF State
<1>4. State(t) \in States
    BY <1>1, <1>2 DEF State, States
<1> QED BY <1>1, <1>2, <1>3, <1>4

LEMMA Ahead ==
    ASSUME LocksInv, NEW t \in Threads, At(t) # "rest"
    PROVE  /\ code[t] # <<>> /\ At(t) = Head(code[t])
           /\ t \in Users => \E y \in States : Calls(t, At(t), State(t), y) /\ Ends(t, y, Tail(code[t]))
           /\ t \notin Users => /\ guards[t] = <<>>
                                /\ At(t) \in {"replace+", "replace", "replace-"}
<1>1. code[t] # <<>> /\ At(t) = Head(code[t]) /\ code[t] \in Seq(CallNames)
    BY SoundState DEF At, LocksInv
<1>2. OnItsWay(t)
    BY Zenon DEF LocksInv, Sound
<1>3. ASSUME t \in Users
      PROVE  \E y \in States : Calls(t, At(t), State(t), y) /\ Ends(t, y, Tail(code[t]))
  <2>1. PICK z \in States : z.guards = <<>> /\ ~z.uses /\ Leads(t, State(t), code[t], z)
      BY <1>2, <1>3, Zenon DEF OnItsWay, Ends
  <2>2. PICK y \in States : Calls(t, Head(code[t]), State(t), y) /\ Leads(t, y, Tail(code[t]), z)
      BY <2>1, <1>1, NextCall, Zenon
  <2> QED BY <2>1, <2>2, <1>1, Zenon DEF Ends
<1>4. ASSUME t \notin Users
      PROVE  guards[t] = <<>> /\ At(t) \in {"replace+", "replace", "replace-"}
  <2>1. /\ guards[t] = <<>>
        /\ code[t] \in {Replacement, Tail(Replacement), Tail(Tail(Replacement))}
      BY <1>1, <1>2, <1>4, Zenon DEF OnItsWay
  <2>2. /\ Head(Replacement) = "replace+" /\ Head(Tail(Replacement)) = "replace"
        /\ Head(Tail(Tail(Replacement))) = "replace-"
      BY DEF Replacement
  <2> QED BY <2>1, <2>2, <1>1
<1> QED BY <1>1, <1>3, <1>4

LEMMA UsersDoNotReplace ==
    ASSUME NEW t, NEW x, NEW c \in Seq(CallNames), c # <<>>, Ends(t, x, c)
    PROVE  Head(c) \notin {"replace+", "replace", "replace-"}
<1>1. PICK z \in States : Leads(t, x, c, z)
    BY Zenon DEF Ends
<1>2. PICK y \in States : Calls(t, Head(c), x, y)
    BY <1>1, NextCall, Zenon
<1> QED BY <1>2 DEF Calls

LEMMA AtRest ==
    ASSUME LocksInv, NEW t \in Threads, code[t] = <<>>
    PROVE  guards[t] = <<>> /\ (t \in Users => ~Uses(t))
<1>1. OnItsWay(t)
    BY Zenon DEF LocksInv, Sound
<1>2. ASSUME t \in Users
      PROVE  guards[t] = <<>> /\ ~Uses(t)
  <2>1. PICK z \in States : z.guards = <<>> /\ ~z.uses /\ Leads(t, State(t), <<>>, z)
      BY <1>1, <1>2, Zenon DEF OnItsWay, Ends
  <2>2. State(t) = z
      BY <2>1, AtTheEnd, Zenon
  <2> QED BY <2>1, <2>2, SoundState DEF LocksInv
<1> QED BY <1>1, <1>2 DEF OnItsWay

LEMMA Proceeds ==
    ASSUME LocksInv, NEW t \in Threads, At(t) # "rest", Proceed(t)
    PROVE  /\ code' \in [Threads -> Seq(CallNames)] /\ code'[t] = Tail(code[t])
           /\ \A s \in Threads \ {t} : code'[s] = code[s]
<1>1. code \in [Threads -> Seq(CallNames)] /\ code[t] # <<>>
    BY Ahead DEF LocksInv, GoroutinesTyped
<1>2. Tail(code[t]) \in Seq(CallNames)
    BY <1>1
<1> QED BY <1>1, <1>2 DEF Proceed

\* A goroutine whose state becomes what the path says is still on its way.
LEMMA Arrives ==
    ASSUME LocksInv, NEW t \in Threads, t \in Users, At(t) # "rest", Proceed(t),
           \A y \in States : Calls(t, At(t), State(t), y) => State(t)' = y
    PROVE  OnItsWay(t)' /\ ~Replacing(t)'
<1>1. PICK y \in States : Calls(t, At(t), State(t), y) /\ Ends(t, y, Tail(code[t]))
    BY Ahead
<1>2. Ends(t, State(t)', Tail(code[t])) /\ code'[t] = Tail(code[t]) /\ code'[t] \in Seq(CallNames)
    BY <1>1, Proceeds
<1>3. OnItsWay(t)'
    BY <1>2, Zenon DEF OnItsWay
<1>4. ~Replacing(t)'
  <2>1. CASE code'[t] = <<>>
      BY <2>1 DEF Replacing, At
  <2>2. CASE code'[t] # <<>>
    <3>1. At(t)' = Head(code'[t])
        BY <2>2 DEF At
    <3>2. Head(code'[t]) \notin {"replace+", "replace", "replace-"}
        BY <1>2, <2>2, UsersDoNotReplace, Zenon
    <3> QED BY <3>1, <3>2 DEF Replacing
  <2> QED BY <2>1, <2>2
<1> QED BY <1>3, <1>4

LEMMA HandsOfOthers ==
    ASSUME NEW t, Apart(t), NEW s \in Threads, s # t
    PROVE  InHand(s)' = InHand(s) /\ At(s)' = At(s) /\ (Replacing(s)' <=> Replacing(s))
<1>1. code'[s] = code[s] /\ guards'[s] = guards[s]
    BY DEF Apart
<1> QED BY <1>1, Zenon DEF InHand, At, Replacing

LEMMA WaitsNoMore ==
    ASSUME NEW t, \A l \in Locks : t \notin blocked'[l] \cup granted'[l],
           t \in Dns /\ writer'["continuity"] = t => InHand(t)' = "write"
    PROVE  Waits(t)'
BY Zenon DEF Waits

-----------------------------------------------------------------------------
(* Entering. *)

LEMMA Guarded ==
    ASSUME LocksInv, NEW t \in Threads, NEW kind \in Kinds, NEW mark \in Markers,
           At(t) # "rest", Guard(t, kind, mark),
           kind # "nothing" => guards[t] = <<>>, Uses(t)' = Uses(t)
    PROVE  /\ GoroutinesTyped' /\ OutermostOnly(t)'
           /\ State(t)' = Enter(State(t), kind, mark)
           /\ InHand(t)' = IF guards[t] = <<>> THEN kind ELSE InHand(t)
           /\ marker'[t] = mark
           /\ \A s \in Threads \ {t} :
                  code'[s] = code[s] /\ marker'[s] = marker[s] /\ guards'[s] = guards[s]
<1> DEFINE g == [kind |-> kind, before |-> marker[t]]
           r == Append(guards[t], g)
<1>1. /\ marker \in [Threads -> Markers] /\ guards \in [Threads -> Seq(Guards)] /\ Proceed(t)
      /\ guards' = [guards EXCEPT ![t] = r] /\ marker' = [marker EXCEPT ![t] = mark]
    BY DEF LocksInv, GoroutinesTyped, Guard
<1>2. g \in Guards /\ guards[t] \in Seq(Guards) /\ r \in Seq(Guards)
  <2>1. marker[t] \in Markers /\ guards[t] \in Seq(Guards)
      BY <1>1
  <2>2. g \in Guards
      BY <2>1 DEF Guards
  <2> HIDE DEF g
  <2> QED BY <2>1, <2>2
<1>3. guards'[t] = r /\ marker'[t] = mark
    BY <1>1
<1>4. /\ \A s \in Threads \ {t} : code'[s] = code[s] /\ marker'[s] = marker[s] /\ guards'[s] = guards[s]
      /\ code' \in [Threads -> Seq(CallNames)]
    BY <1>1, Proceeds
<1>5. guards' \in [Threads -> Seq(Guards)] /\ marker' \in [Threads -> Markers]
  <2> HIDE DEF r
  <2> QED BY <1>1, <1>2
<1>6. GoroutinesTyped'
    BY <1>4, <1>5 DEF GoroutinesTyped
<1>7. State(t)' = Enter(State(t), kind, mark)
  <2>1. State(t)' = [marker |-> mark, uses |-> Uses(t), guards |-> r]
    <3> HIDE DEF r
    <3> QED BY <1>3 DEF State
  <2> QED BY <2>1, SoundState DEF Enter, LocksInv
<1>8. /\ Len(r) = Len(guards[t]) + 1 /\ DOMAIN r = 1 .. Len(r) /\ DOMAIN guards[t] = 1 .. Len(guards[t])
      /\ r # <<>> /\ r[Len(guards[t]) + 1] = g /\ \A i \in 1 .. Len(guards[t]) : r[i] = guards[t][i]
    BY <1>2
<1>9. OutermostOnly(t)'
  <2>1. OutermostOnly(t)
      BY Zenon DEF LocksInv, Sound
  <2>2. ASSUME NEW i \in DOMAIN r, i # 1
        PROVE  r[i].kind = "nothing"
    <3>1. CASE i \in 1 .. Len(guards[t])
        BY <3>1, <2>1, <2>2, <1>8 DEF OutermostOnly
    <3>2. CASE i \notin 1 .. Len(guards[t])
      <4>1. i = Len(guards[t]) + 1 /\ guards[t] # <<>>
          BY <3>2, <2>2, <1>2, <1>8
      <4> QED BY <4>1, <1>8
    <3> QED BY <3>1, <3>2
  <2> HIDE DEF r
  <2> QED BY <2>2, <1>3 DEF OutermostOnly
<1>10. InHand(t)' = IF guards[t] = <<>> THEN kind ELSE InHand(t)
  <2>1. InHand(t)' = r[1].kind
      BY <1>3, <1>8 DEF InHand
  <2>2. CASE guards[t] = <<>>
      BY <2>1, <2>2, <1>8
  <2>3. CASE guards[t] # <<>>
    <3>1. 1 \in 1 .. Len(guards[t])
        BY <2>3, <1>2
    <3> QED BY <3>1, <2>1, <2>3, <1>8 DEF InHand
  <2> QED BY <2>2, <2>3
<1> QED BY <1>3, <1>4, <1>6, <1>7, <1>9, <1>10

\* A nested acquisition takes no lock.
LEMMA NestedEntryKeeps ==
    ASSUME LocksInv, NEW t \in Threads, At(t) \in {"read", "shared", "mutate"}, Marked(t),
           At(t) = "mutate" /\ t \in Dns => marker[t] = "exclusive",
           Guard(t, "nothing", marker[t]), UNCHANGED mutexes
    PROVE  LocksInv'
<1>1. marker[t] \in Markers /\ "nothing" \in Kinds /\ At(t) # "rest" /\ marker[t] # "none"
    BY SoundState DEF LocksInv, Kinds, Marked
<1>2. t \in Users
    BY <1>1, Ahead
<1>3. \A s \in Threads : \A l \in Locks : Inside(s, l)' = Inside(s, l)
    BY Zenon DEF mutexes, Inside
<1>4. Uses(t)' = Uses(t)
    BY <1>3, LockNames, Zenon DEF Uses
<1>5. /\ GoroutinesTyped' /\ OutermostOnly(t)'
      /\ State(t)' = Enter(State(t), "nothing", marker[t])
      /\ InHand(t)' = IF guards[t] = <<>> THEN "nothing" ELSE InHand(t)
      /\ \A s \in Threads \ {t} :
              code'[s] = code[s] /\ marker'[s] = marker[s] /\ guards'[s] = guards[s]
    BY <1>1, <1>4, Guarded
<1>6. InHand(t)' = InHand(t)
    BY <1>5 DEF InHand
<1>7. Apart(t)
    BY <1>3, <1>5 DEF Apart, mutexes
<1>8. OnItsWay(t)' /\ ~Replacing(t)'
  <2>1. ASSUME NEW y \in States, Calls(t, At(t), State(t), y)
        PROVE  State(t)' = y
    <3>1. State(t).marker = marker[t]
        BY SoundState DEF LocksInv
    <3> QED BY <3>1, <2>1, <1>1, <1>5 DEF Calls
  <2>2. Proceed(t)
      BY DEF Guard
  <2> QED BY <2>1, <2>2, <1>1, <1>2, Arrives
<1>9. Sound(t) /\ LocksTyped /\ WriterAlone
    BY DEF LocksInv
<1>10. Counted(t)'
    BY <1>3, <1>6, <1>9, LockNames DEF Counted, Sound
<1>11. Waits(t)'
  <2>1. \A l \in Locks : ~WantsRead(t, l)
      BY DEF WantsRead
  <2>2. ~WantsWrite(t, "continuity")
      BY DEF WantsWrite
  <2> QED BY <2>1, <2>2, <1>6, <1>9, WaitsNoMore DEF Waits, Sound, mutexes
<1>12. LocksTyped'
    BY <1>9 DEF LocksTyped, mutexes
<1>13. WriterAlone'
  <2>1. \A s \in Threads : InHand(s)' = InHand(s)
      BY <1>6, <1>7, HandsOfOthers
  <2>2. \A s \in Threads : Replacing(s)' => Replacing(s)
      BY <1>7, <1>8, HandsOfOthers
  <2> QED BY <2>1, <2>2, <1>9 DEF WriterAlone, mutexes
<1> QED BY <1>5, <1>7, <1>8, <1>10, <1>11, <1>12, <1>13, StepKeeps DEF Sound

\* A goroutine that carries no marker read-locks, and holds nothing before.
LEMMA ReadEntryKeeps ==
    ASSUME LocksInv, NEW t \in Threads, NEW mark \in Markers,
           \/ At(t) = "read" /\ mark = "none"
           \/ At(t) = "shared" /\ mark = "shared"
           \/ At(t) = "mutate" /\ t \notin Dns /\ mark = "shared",
           ~Marked(t), RLock(t, "continuity"), Guard(t, "read", mark)
    PROVE  LocksInv'
<1>1. "read" \in Kinds /\ At(t) # "rest" /\ marker[t] = "none"
      /\ At(t) \notin {"replace+", "replace", "replace-"}
    BY DEF Kinds, Marked
<1>2. t \in Users
    BY <1>1, Ahead
<1>3. Sound(t) /\ LocksTyped /\ WriterAlone
    BY DEF LocksInv
<1>4. State(t).marker = marker[t] /\ State(t).guards = guards[t]
    BY SoundState DEF LocksInv
<1>5. guards[t] = <<>>
  <2>1. PICK y \in States : Calls(t, At(t), State(t), y)
      BY <1>1, <1>2, Ahead
  <2> QED BY <2>1, <1>1, <1>4 DEF Calls
<1>6. /\ LocksTyped'
      /\ \A k \in Locks : \A s \in Threads :
            Inside(s, k)' = IF k = "continuity" /\ s = t THEN Inside(s, k) + 1 ELSE Inside(s, k)
      /\ \A k \in Locks : blocked'[k] = blocked[k] /\ granted'[k] \subseteq granted[k]
      /\ t \notin blocked'["continuity"] \cup granted'["continuity"]
      /\ writer' = writer
      /\ \/ writer["continuity"] = Nobody
         \/ readers' = readers /\ readers["continuity"][t] = Inside(t, "continuity") + 1
      /\ readers'["workerOp"] = readers["workerOp"] /\ granted'["workerOp"] = granted["workerOp"]
    BY <1>3, LockNames, ReadLocked
<1>7. Uses(t)' = Uses(t)
    BY <1>6, LockNames DEF Uses
<1>8. /\ GoroutinesTyped' /\ OutermostOnly(t)'
      /\ State(t)' = Enter(State(t), "read", mark)
      /\ InHand(t)' = "read"
      /\ \A s \in Threads \ {t} :
              code'[s] = code[s] /\ marker'[s] = marker[s] /\ guards'[s] = guards[s]
    BY <1>1, <1>5, <1>7, Guarded
<1>9. Apart(t)
    BY <1>6, <1>8 DEF Apart
<1>10. OnItsWay(t)' /\ ~Replacing(t)'
  <2>1. ASSUME NEW y \in States, Calls(t, At(t), State(t), y)
        PROVE  State(t)' = y
      BY <2>1, <1>1, <1>4, <1>8 DEF Calls
  <2>2. Proceed(t)
      BY DEF Guard
  <2> QED BY <2>1, <2>2, <1>1, <1>2, Arrives
<1>11. Inside(t, "continuity") = 0
    BY <1>3, <1>5 DEF Sound, Counted, InHand
<1>12. Counted(t)'
    BY <1>3, <1>6, <1>8, <1>11, LockNames DEF Counted, Sound
<1>13. Waits(t)'
  <2>1. ~WantsRead(t, "workerOp")
      BY <1>1 DEF WantsRead
  <2>2. t \notin blocked["workerOp"] \cup granted["workerOp"]
      BY <2>1, <1>3, LockNames DEF Waits, Sound
  <2>3. \A l \in Locks : t \notin blocked'[l] \cup granted'[l]
      BY <2>2, <1>6, LockNames
  <2>4. ~(t \in Dns /\ writer["continuity"] = t)
    <3>1. ~WantsWrite(t, "continuity") /\ InHand(t) # "write"
        BY <1>5, LockNames DEF WantsWrite, InHand
    <3> QED BY <3>1, <1>3 DEF Waits, Sound
  <2> QED BY <2>3, <2>4, <1>6, WaitsNoMore
<1>14. WriterAlone'
  <2>1. ASSUME NEW s \in Threads, InHand(s)' = "write"
        PROVE  writer'["continuity"] = s /\ \A q \in Threads : readers'["continuity"][q] = 0
    <3>1. s # t /\ InHand(s) = "write"
        BY <2>1, <1>8, <1>9, HandsOfOthers
    <3>2. writer["continuity"] = s /\ \A q \in Threads : readers["continuity"][q] = 0
        BY <3>1, <1>3 DEF WriterAlone
    <3>3. writer["continuity"] # Nobody
        BY <3>2, ThreadsAssumption
    <3> QED BY <3>2, <3>3, <1>6, <1>11
  <2>2. ASSUME NEW s \in Threads, Replacing(s)'
        PROVE  writer'["workerOp"] = s /\ \A q \in Threads : readers'["workerOp"][q] = 0
    <3>1. Replacing(s)
        BY <2>2, <1>9, <1>10, HandsOfOthers
    <3> QED BY <3>1, <1>3, <1>6 DEF WriterAlone
  <2> QED BY <2>1, <2>2 DEF WriterAlone
<1> QED BY <1>6, <1>8, <1>9, <1>10, <1>12, <1>13, <1>14, StepKeeps DEF Sound

\* The writer enters alone.
LEMMA WriteEntryKeeps ==
    ASSUME LocksInv, NEW t \in Threads, At(t) = "mutate", t \in Dns, marker[t] # "exclusive",
           Lock(t, "continuity"), Guard(t, "write", "exclusive")
    PROVE  LocksInv'
<1>1. "write" \in Kinds /\ "exclusive" \in Markers /\ At(t) # "rest"
      /\ At(t) \notin {"replace+", "replace", "replace-"}
    BY DEF Kinds, Markers
<1>2. t \in Users
    BY <1>1, Ahead
<1>3. Sound(t) /\ LocksTyped /\ WriterAlone
    BY DEF LocksInv
<1>4. State(t).marker = marker[t] /\ State(t).guards = guards[t]
    BY SoundState DEF LocksInv
<1>5. guards[t] = <<>>
  <2>1. PICK y \in States : Calls(t, At(t), State(t), y)
      BY <1>1, <1>2, Ahead
  <2> QED BY <2>1, <1>4 DEF Calls
<1>6. /\ writer["continuity"] = t /\ \A s \in Threads : readers["continuity"][s] = 0
      /\ UNCHANGED <<readers, writer, blocked, granted>>
    BY DEF Lock, mutexes
<1>7. \A s \in Threads : \A l \in Locks : Inside(s, l)' = Inside(s, l)
    BY <1>6, Zenon DEF Inside
<1>8. Uses(t)' = Uses(t)
    BY <1>7, LockNames, Zenon DEF Uses
<1>9. /\ GoroutinesTyped' /\ OutermostOnly(t)'
      /\ State(t)' = Enter(State(t), "write", "exclusive")
      /\ InHand(t)' = "write"
      /\ \A s \in Threads \ {t} :
              code'[s] = code[s] /\ marker'[s] = marker[s] /\ guards'[s] = guards[s]
    BY <1>1, <1>5, <1>8, Guarded
<1>10. Apart(t)
    BY <1>6, <1>7, <1>9 DEF Apart
<1>11. OnItsWay(t)' /\ ~Replacing(t)'
  <2>1. ASSUME NEW y \in States, Calls(t, At(t), State(t), y)
        PROVE  State(t)' = y
      BY <2>1, <1>4, <1>9 DEF Calls
  <2>2. Proceed(t)
      BY DEF Guard
  <2> QED BY <2>1, <2>2, <1>1, <1>2, Arrives
<1>12. Counted(t)'
    BY <1>3, <1>5, <1>7, <1>9, LockNames DEF Counted, Sound, InHand
<1>13. Waits(t)'
  <2>1. \A l \in Locks : ~WantsRead(t, l)
      BY DEF WantsRead
  <2> QED BY <2>1, <1>3, <1>6, <1>9, WaitsNoMore DEF Waits, Sound
<1>14. WriterAlone'
  <2>1. ASSUME NEW s \in Threads, InHand(s)' = "write"
        PROVE  s = t
    <3>1. CASE s # t
      <4>1. InHand(s) = "write"
          BY <2>1, <3>1, <1>10, HandsOfOthers
      <4> QED BY <4>1, <1>3, <1>6 DEF WriterAlone
    <3> QED BY <3>1
  <2>2. \A s \in Threads : Replacing(s)' => Replacing(s)
      BY <1>10, <1>11, HandsOfOthers
  <2> QED BY <2>1, <2>2, <1>3, <1>6 DEF WriterAlone
<1>15. LocksTyped'
    BY <1>3, <1>6 DEF LocksTyped
<1> QED BY <1>9, <1>10, <1>11, <1>12, <1>13, <1>14, <1>15, StepKeeps DEF Sound

LEMMA EntryKeeps ==
    ASSUME LocksInv, NEW t \in Threads,
           acquireContinuityRead(t) \/ acquireContinuityShared(t) \/ acquireContinuityExclusive(t)
    PROVE  LocksInv'
<1>1. "none" \in Markers /\ "shared" \in Markers
    BY DEF Markers
<1>2. CASE acquireContinuityRead(t)
  <2>1. CASE Marked(t)
      BY <1>2, <2>1, NestedEntryKeeps DEF acquireContinuityRead
  <2>2. CASE ~Marked(t)
      BY <1>1, <1>2, <2>2, ReadEntryKeeps DEF acquireContinuityRead
  <2> QED BY <2>1, <2>2
<1>3. CASE acquireContinuityShared(t)
  <2>1. CASE Marked(t)
      BY <1>3, <2>1, NestedEntryKeeps DEF acquireContinuityShared
  <2>2. CASE ~Marked(t)
      BY <1>1, <1>3, <2>2, ReadEntryKeeps DEF acquireContinuityShared
  <2> QED BY <2>1, <2>2
<1>4. CASE acquireContinuityExclusive(t)
  <2>1. CASE marker[t] = "exclusive"
    <3>1. Marked(t)
        BY <2>1 DEF Marked
    <3> QED BY <1>4, <2>1, <3>1, NestedEntryKeeps DEF acquireContinuityExclusive
  <2>2. CASE marker[t] # "exclusive"
      BY <1>4, <2>2, WriteEntryKeeps DEF acquireContinuityExclusive
  <2> QED BY <2>1, <2>2
<1> QED BY <1>2, <1>3, <1>4

-----------------------------------------------------------------------------
(* Steps that take and release nothing. *)

LEMMA QuietKeeps ==
    ASSUME LocksInv, NEW t \in Threads, NEW mark \in Markers,
           At(t) \in {"transfer", "network", "apply", "verify", "refresh", "replace"}, Proceed(t),
           marker' = [marker EXCEPT ![t] = mark], UNCHANGED <<guards, mutexes>>,
           OnItsWay(t)', Replacing(t)' => Replacing(t)
    PROVE  LocksInv'
<1>1. Sound(t) /\ GoroutinesTyped /\ LocksTyped /\ WriterAlone /\ At(t) # "rest"
    BY DEF LocksInv
<1>2. UNCHANGED <<readers, writer, blocked, granted>>
    BY DEF mutexes
<1>3. \A s \in Threads : InHand(s)' = InHand(s) /\ \A l \in Locks : Inside(s, l)' = Inside(s, l)
    BY <1>2, Zenon DEF Inside, InHand
<1>4. /\ code' \in [Threads -> Seq(CallNames)] /\ \A s \in Threads \ {t} : code'[s] = code[s]
    BY <1>1, Proceeds
<1>5. GoroutinesTyped' /\ \A s \in Threads \ {t} : marker'[s] = marker[s]
    BY <1>1, <1>4 DEF GoroutinesTyped
<1>6. Apart(t)
    BY <1>2, <1>3, <1>4, <1>5, Zenon DEF Apart
<1>7. LocksTyped'
    BY <1>1, <1>2 DEF LocksTyped
<1>8. OutermostOnly(t)' /\ Counted(t)'
    BY <1>1, <1>3, LockNames, Zenon DEF OutermostOnly, Counted, Sound
<1>9. Waits(t)'
  <2>1. (\A l \in Locks : ~WantsRead(t, l)) /\ ~WantsWrite(t, "continuity")
      BY DEF WantsRead, WantsWrite
  <2> QED BY <2>1, <1>1, <1>2, <1>3, WaitsNoMore DEF Waits, Sound
<1>10. WriterAlone'
  <2>1. \A s \in Threads : Replacing(s)' => Replacing(s)
      BY <1>6, HandsOfOthers
  <2> QED BY <2>1, <1>1, <1>2, <1>3 DEF WriterAlone
<1> QED BY <1>5, <1>6, <1>7, <1>8, <1>9, <1>10, StepKeeps DEF Sound

LEMMA TransferKeeps ==
    ASSUME LocksInv, NEW t \in Threads, Transfer(t)
    PROVE  LocksInv'
<1>1. At(t) = "transfer" /\ Proceed(t) /\ UNCHANGED <<guards, mutexes>> /\ At(t) # "rest"
      /\ At(t) \notin {"replace+", "replace", "replace-"}
    BY DEF Transfer
<1>2. t \in Users
    BY <1>1, Ahead
<1>3. Mark(t) \in Markers /\ marker' = [marker EXCEPT ![t] = Mark(t)] /\ marker \in [Threads -> Markers]
    BY DEF Transfer, Mark, Markers, LocksInv, GoroutinesTyped
<1>4. Uses(t)' = Uses(t)
    BY <1>1, Zenon DEF Uses, Inside, mutexes
<1>5. State(t)' = Marking(State(t), Mark(t))
  <2>1. State(t)' = [marker |-> Mark(t), uses |-> Uses(t), guards |-> guards[t]]
      BY <1>1, <1>3, <1>4 DEF State
  <2> QED BY <2>1, SoundState DEF Marking, LocksInv
<1>6. ASSUME NEW y \in States, Calls(t, At(t), State(t), y)
      PROVE  State(t)' = y
    BY <1>1, <1>5, <1>6 DEF Calls
<1>7. OnItsWay(t)' /\ ~Replacing(t)'
    BY <1>1, <1>2, <1>6, Arrives
<1> QED BY <1>1, <1>3, <1>7, QuietKeeps

LEMMA Replaces ==
    /\ Replacement \in Seq(CallNames) /\ Head(Replacement) = "replace+"
    /\ Tail(Replacement) # <<>> /\ Head(Tail(Replacement)) = "replace"
    /\ Tail(Tail(Replacement)) # <<>> /\ Head(Tail(Tail(Replacement))) = "replace-"
    /\ Tail(Tail(Tail(Replacement))) = <<>>
<1>1. Replacement \in Seq(CallNames)
    BY DEF Replacement, CallNames
<1> QED BY <1>1 DEF Replacement

\* The three calls of a replacement of the workers.
LEMMA ReplacementGoesOn ==
    ASSUME LocksInv, NEW t \in Threads, At(t) \in {"replace+", "replace", "replace-"}, Proceed(t),
           guards'[t] = guards[t]
    PROVE  /\ OnItsWay(t)' /\ guards[t] = <<>> /\ t \notin Users
           /\ Replacing(t)' <=> At(t) \in {"replace+", "replace"}
<1>1. t \notin Users
  <2>1. ASSUME t \in Users
        PROVE  FALSE
    <3>1. PICK y \in States : Calls(t, At(t), State(t), y)
        BY <2>1, Ahead
    <3> QED BY <3>1 DEF Calls
  <2> QED BY <2>1
<1>2. OnItsWay(t) /\ code[t] # <<>> /\ At(t) = Head(code[t]) /\ code'[t] = Tail(code[t])
    BY Ahead, Proceeds DEF LocksInv, Sound
<1>3. /\ guards[t] = <<>>
      /\ code[t] \in {Replacement, Tail(Replacement), Tail(Tail(Replacement))}
    BY <1>1, <1>2, Zenon DEF OnItsWay
<1>4. code'[t] \in {Tail(Replacement), Tail(Tail(Replacement)), <<>>}
    BY <1>2, <1>3, Replaces
<1>5. OnItsWay(t)'
    BY <1>1, <1>3, <1>4, Zenon DEF OnItsWay
<1>6. Replacing(t)' <=> At(t) \in {"replace+", "replace"}
  <2>1. CASE At(t) = "replace+"
    <3>1. code'[t] = Tail(Replacement)
        BY <2>1, <1>2, <1>3, Replaces
    <3> QED BY <2>1, <3>1, Replaces DEF Replacing, At
  <2>2. CASE At(t) = "replace"
    <3>1. code'[t] = Tail(Tail(Replacement))
        BY <2>2, <1>2, <1>3, Replaces
    <3> QED BY <2>2, <3>1, Replaces DEF Replacing, At
  <2>3. CASE At(t) = "replace-"
    <3>1. code'[t] = <<>>
        BY <2>3, <1>2, <1>3, Replaces
    <3> QED BY <2>3, <3>1 DEF Replacing, At
  <2> QED BY <2>1, <2>2, <2>3
<1> QED BY <1>1, <1>3, <1>5, <1>6

LEMMA WorkKeeps ==
    ASSUME LocksInv, NEW t \in Threads, Work(t)
    PROVE  LocksInv'
<1>1. /\ At(t) \in {"network", "apply", "verify", "refresh", "replace"} /\ Proceed(t)
      /\ UNCHANGED <<marker, guards, mutexes>> /\ At(t) # "rest"
    BY DEF Work
<1>2. marker[t] \in Markers /\ marker' = [marker EXCEPT ![t] = marker[t]]
    BY <1>1 DEF LocksInv, GoroutinesTyped
<1>3. OnItsWay(t)' /\ (Replacing(t)' => Replacing(t))
  <2>1. CASE At(t) = "replace"
    <3>1. OnItsWay(t)'
        BY <2>1, <1>1, ReplacementGoesOn
    <3> QED BY <2>1, <3>1 DEF Replacing
  <2>2. CASE At(t) # "replace"
    <3>1. t \in Users
        BY <2>2, <1>1, Ahead
    <3>2. State(t)' = State(t)
        BY <1>1, Zenon DEF State, Uses, Inside, mutexes
    <3>3. ASSUME NEW y \in States, Calls(t, At(t), State(t), y)
          PROVE  State(t)' = y
        BY <2>2, <1>1, <3>2, <3>3 DEF Calls
    <3> QED BY <1>1, <3>1, <3>3, Arrives
  <2> QED BY <2>1, <2>2
<1> QED BY <1>1, <1>2, <1>3, QuietKeeps

\* A goroutine that stops before a lock or announces itself stays where it is.
LEMMA StandingKeeps ==
    ASSUME LocksInv, NEW t \in Threads, UNCHANGED <<code, marker, guards, readers, granted>>,
           LocksTyped', Apart(t), Waits(t)', WriterAlone'
    PROVE  LocksInv'
<1>1. Sound(t) /\ GoroutinesTyped
    BY DEF LocksInv
<1>2. InHand(t)' = InHand(t) /\ State(t)' = State(t) /\ \A l \in Locks : Inside(t, l)' = Inside(t, l)
    BY Zenon DEF State, Uses, Inside, InHand
<1>3. OutermostOnly(t)' /\ Counted(t)' /\ OnItsWay(t)'
    BY <1>1, <1>2, LockNames, Zenon DEF OutermostOnly, Counted, OnItsWay, Sound
<1>4. GoroutinesTyped'
    BY <1>1 DEF GoroutinesTyped
<1> QED BY <1>3, <1>4, StepKeeps DEF Sound

LEMMA BlockKeeps ==
    ASSUME LocksInv, NEW t \in Threads, Block(t)
    PROVE  LocksInv'
<1>1. PICK l \in Locks : /\ WantsRead(t, l) /\ t \notin blocked[l] \cup granted[l]
                         /\ blocked' = [blocked EXCEPT ![l] = @ \cup {t}]
    BY DEF Block
<1>2. UNCHANGED <<code, marker, guards, readers, writer, granted>>
    BY DEF Block
<1>3. Sound(t) /\ LocksTyped /\ WriterAlone
    BY DEF LocksInv
<1>4. /\ LocksTyped'
      /\ \A k \in Locks : blocked'[k] \subseteq blocked[k] \cup {t}
      /\ \A k \in Locks \ {l} : blocked'[k] = blocked[k]
    BY <1>1, <1>2, <1>3 DEF LocksTyped
<1>5. Apart(t)
    BY <1>2, <1>4 DEF Apart, Inside
<1>6. Waits(t)'
  <2>1. (\A k \in Locks : WantsRead(t, k)' <=> WantsRead(t, k)) /\ InHand(t)' = InHand(t)
        /\ (WantsWrite(t, "continuity")' <=> WantsWrite(t, "continuity"))
      BY <1>2, Zenon DEF WantsRead, WantsWrite, Marked, At, InHand
  <2> QED BY <2>1, <1>1, <1>2, <1>3, <1>4 DEF Waits, Sound
<1>7. WriterAlone'
    BY <1>2, <1>3, Zenon DEF WriterAlone, InHand, Replacing, At
<1> QED BY <1>2, <1>4, <1>5, <1>6, <1>7, StandingKeeps

LEMMA AnnounceKeeps ==
    ASSUME LocksInv, NEW t \in Threads, Announce(t)
    PROVE  LocksInv'
<1>1. PICK l \in Locks : WantsWrite(t, l) /\ writer[l] = Nobody /\ writer' = [writer EXCEPT ![l] = t]
    BY DEF Announce
<1>2. UNCHANGED <<code, marker, guards, readers, blocked, granted>>
    BY DEF Announce
<1>3. Sound(t) /\ LocksTyped /\ WriterAlone
    BY DEF LocksInv
<1>4. LocksTyped' /\ writer'[l] = t /\ \A k \in Locks \ {l} : writer'[k] = writer[k]
    BY <1>1, <1>2, <1>3 DEF LocksTyped
<1>5. Apart(t)
    BY <1>2, <1>4, LockNames DEF Apart, Inside
<1>6. Waits(t)'
  <2>1. (\A k \in Locks : WantsRead(t, k)' <=> WantsRead(t, k)) /\ InHand(t)' = InHand(t)
        /\ (WantsWrite(t, "continuity")' <=> WantsWrite(t, "continuity"))
      BY <1>2, Zenon DEF WantsRead, WantsWrite, Marked, At, InHand
  <2>2. CASE l = "continuity"
      BY <2>1, <2>2, <1>1, <1>2, <1>3 DEF Waits, Sound
  <2>3. CASE l # "continuity"
      BY <2>1, <2>3, <1>2, <1>3, <1>4, LockNames DEF Waits, Sound
  <2> QED BY <2>2, <2>3
<1>7. WriterAlone'
  <2>1. \A s \in Threads : InHand(s)' = InHand(s) /\ (Replacing(s)' <=> Replacing(s))
      BY <1>2, Zenon DEF InHand, Replacing, At
  <2>2. ASSUME NEW s \in Threads, InHand(s)' = "write"
        PROVE  writer'["continuity"] = s /\ \A q \in Threads : readers'["continuity"][q] = 0
    <3>1. writer["continuity"] = s /\ \A q \in Threads : readers["continuity"][q] = 0
        BY <2>1, <2>2, <1>3 DEF WriterAlone
    <3>2. l # "continuity"
        BY <3>1, <1>1, ThreadsAssumption
    <3> QED BY <3>1, <3>2, <1>2, <1>4, LockNames
  <2>3. ASSUME NEW s \in Threads, Replacing(s)'
        PROVE  writer'["workerOp"] = s /\ \A q \in Threads : readers'["workerOp"][q] = 0
    <3>1. writer["workerOp"] = s /\ \A q \in Threads : readers["workerOp"][q] = 0
        BY <2>1, <2>3, <1>3 DEF WriterAlone
    <3>2. l # "workerOp"
        BY <3>1, <1>1, ThreadsAssumption
    <3> QED BY <3>1, <3>2, <1>2, <1>4, LockNames
  <2> QED BY <2>2, <2>3 DEF WriterAlone
<1> QED BY <1>2, <1>4, <1>5, <1>6, <1>7, StandingKeeps

-----------------------------------------------------------------------------
(* Leaving. *)

LEMMA LeaveOne ==
    ASSUME NEW g \in Seq(Guards), g # <<>>, \A i \in DOMAIN g : i # 1 => g[i].kind = "nothing"
    PROVE  /\ Last(g) \in Guards /\ Front(g) \in Seq(Guards)
           /\ \A i \in DOMAIN Front(g) : i # 1 => Front(g)[i].kind = "nothing"
           /\ Last(g).kind # "nothing" => Front(g) = <<>> /\ g[1].kind = Last(g).kind
           /\ Front(g) # <<>> => Front(g)[1].kind = g[1].kind
           /\ Front(g) = <<>> => g[1] = Last(g)
<1>1. /\ Len(g) \in Nat /\ Len(g) >= 1 /\ DOMAIN g = 1 .. Len(g)
      /\ Last(g) = g[Len(g)] /\ Last(g) \in Guards
    BY DEF Last
<1>2. Front(g) \in Seq(Guards) /\ Len(Front(g)) = Len(g) - 1
    BY <1>1 DEF Front
<1>3. \A i \in 1 .. Len(g) - 1 : Front(g)[i] = g[i]
    BY <1>1 DEF Front
<1>4. DOMAIN Front(g) = 1 .. Len(g) - 1
    BY <1>2
<1>5. (Front(g) = <<>>) <=> Len(g) = 1
    BY <1>1, <1>2
<1>6. \A i \in DOMAIN Front(g) : i # 1 => Front(g)[i].kind = "nothing"
    BY <1>1, <1>3, <1>4
<1>7. Last(g).kind # "nothing" => Len(g) = 1
    BY <1>1
<1> QED BY <1>1, <1>2, <1>3, <1>5, <1>6, <1>7

\* Whoever calls a release function has one.
LEMMA HoldsOne ==
    ASSUME LocksInv, NEW t \in Threads, At(t) \in {"close", "keep"}
    PROVE  /\ t \in Users /\ guards[t] # <<>> /\ guards[t] \in Seq(Guards)
           /\ \A i \in DOMAIN guards[t] : i # 1 => guards[t][i].kind = "nothing"
<1>1. t \in Users /\ At(t) # "rest"
    BY Ahead
<1>2. PICK y \in States : Calls(t, At(t), State(t), y)
    BY <1>1, Ahead
<1>3. State(t).guards = guards[t] /\ guards[t] \in Seq(Guards)
    BY SoundState DEF LocksInv
<1>4. guards[t] # <<>>
    BY <1>2, <1>3 DEF Calls
<1> QED BY <1>1, <1>3, <1>4 DEF LocksInv, Sound, OutermostOnly

LEMMA Departed ==
    ASSUME LocksInv, NEW t \in Threads, At(t) \in {"close", "keep"}, Proceed(t),
           marker' = IF At(t) = "keep" THEN marker
                     ELSE [marker EXCEPT ![t] = Last(guards[t]).before],
           guards' = [guards EXCEPT ![t] = Front(guards[t])],
           Uses(t)' = Uses(t)
    PROVE  /\ GoroutinesTyped' /\ OutermostOnly(t)' /\ OnItsWay(t)' /\ ~Replacing(t)'
           /\ guards[t] # <<>> /\ Last(guards[t]).kind \in Kinds
           /\ Last(guards[t]).kind = "nothing" => InHand(t)' = InHand(t)
           /\ Last(guards[t]).kind # "nothing" =>
                  InHand(t)' = "nothing" /\ InHand(t) = Last(guards[t]).kind
           /\ \A s \in Threads \ {t} :
                  code'[s] = code[s] /\ marker'[s] = marker[s] /\ guards'[s] = guards[s]
<1>1. GoroutinesTyped /\ Sound(t) /\ At(t) # "rest" /\ At(t) \notin {"replace+", "replace", "replace-"}
    BY DEF LocksInv
<1>2. t \in Users
    BY HoldsOne
<1>3. State(t).marker = marker[t] /\ State(t).guards = guards[t] /\ State(t).uses = Uses(t)
    BY <1>1, SoundState
<1>4. guards[t] # <<>> /\ guards[t] \in Seq(Guards)
    BY HoldsOne
<1> DEFINE g == guards[t]
<1>5. /\ Last(g) \in Guards /\ Front(g) \in Seq(Guards)
      /\ \A i \in DOMAIN Front(g) : i # 1 => Front(g)[i].kind = "nothing"
      /\ Last(g).kind # "nothing" => Front(g) = <<>> /\ g[1].kind = Last(g).kind
      /\ Front(g) # <<>> => Front(g)[1].kind = g[1].kind
      /\ Front(g) = <<>> => g[1] = Last(g)
    BY HoldsOne, LeaveOne
<1>6. Last(g).kind \in Kinds /\ Last(g).before \in Markers
    BY <1>5 DEF Guards
<1>7. guards'[t] = Front(g) /\ guards' \in [Threads -> Seq(Guards)]
      /\ \A s \in Threads \ {t} : guards'[s] = guards[s]
    BY <1>1, <1>5 DEF GoroutinesTyped
<1>8. /\ marker' \in [Threads -> Markers] /\ \A s \in Threads \ {t} : marker'[s] = marker[s]
      /\ marker'[t] = IF At(t) = "keep" THEN marker[t] ELSE Last(g).before
    BY <1>1, <1>6 DEF GoroutinesTyped
<1>9. code' \in [Threads -> Seq(CallNames)] /\ \A s \in Threads \ {t} : code'[s] = code[s]
    BY <1>1, Proceeds
<1>10. GoroutinesTyped'
    BY <1>7, <1>8, <1>9 DEF GoroutinesTyped
<1>11. State(t)' = Leave(State(t), marker'[t])
  <2>1. State(t)' = [marker |-> marker'[t], uses |-> Uses(t), guards |-> Front(g)]
      BY <1>7 DEF State
  <2> QED BY <2>1, <1>3 DEF Leave
<1>12. ASSUME NEW y \in States, Calls(t, At(t), State(t), y)
       PROVE  State(t)' = y
  <2>1. CASE At(t) = "keep"
      BY <2>1, <1>3, <1>8, <1>11, <1>12 DEF Calls
  <2>2. CASE At(t) = "close"
      BY <2>2, <1>3, <1>8, <1>11, <1>12 DEF Calls
  <2> QED BY <2>1, <2>2
<1>13. OnItsWay(t)' /\ ~Replacing(t)'
    BY <1>1, <1>2, <1>12, Arrives
<1>14. OutermostOnly(t)'
    BY <1>5, <1>7 DEF OutermostOnly
<1>15. /\ Last(g).kind = "nothing" => InHand(t)' = InHand(t)
       /\ Last(g).kind # "nothing" => InHand(t)' = "nothing" /\ InHand(t) = Last(g).kind
  <2>1. InHand(t) = g[1].kind
      BY <1>4 DEF InHand
  <2>2. InHand(t)' = IF Front(g) = <<>> THEN "nothing" ELSE Front(g)[1].kind
      BY <1>7, Zenon DEF InHand
  <2> QED BY <2>1, <2>2, <1>5
<1> QED BY <1>4, <1>6, <1>7, <1>8, <1>9, <1>10, <1>13, <1>14, <1>15

\* A nested release function does nothing, the outermost unlocks.
LEMMA CloseKeeps ==
    ASSUME LocksInv, NEW t \in Threads, Close(t)
    PROVE  LocksInv'
<1> DEFINE kind == Last(guards[t]).kind
<1>1. /\ At(t) \in {"close", "keep"} /\ Proceed(t) /\ Release(t, kind)
      /\ marker' = IF At(t) = "keep" THEN marker
                   ELSE [marker EXCEPT ![t] = Last(guards[t]).before]
      /\ guards' = [guards EXCEPT ![t] = Front(guards[t])]
    BY DEF Close
<1>2. Sound(t) /\ LocksTyped /\ WriterAlone
    BY DEF LocksInv
<1> DEFINE Left ==
        /\ GoroutinesTyped' /\ OutermostOnly(t)' /\ OnItsWay(t)' /\ ~Replacing(t)'
        /\ kind = "nothing" => InHand(t)' = InHand(t)
        /\ kind # "nothing" => InHand(t)' = "nothing" /\ InHand(t) = kind
        /\ \A s \in Threads \ {t} :
                code'[s] = code[s] /\ marker'[s] = marker[s] /\ guards'[s] = guards[s]
<1>3. ASSUME Uses(t)' = Uses(t)
      PROVE  Left
    BY <1>1, <1>3, Departed
<1>4. \A l \in Locks : t \notin blocked[l] \cup granted[l]
  <2>1. \A l \in Locks : ~WantsRead(t, l)
      BY <1>1 DEF WantsRead
  <2> QED BY <2>1, <1>2 DEF Waits, Sound
<1>5. t \in Dns /\ writer["continuity"] = t => InHand(t) = "write"
  <2>1. ~WantsWrite(t, "continuity")
      BY <1>1, LockNames DEF WantsWrite
  <2> QED BY <2>1, <1>2 DEF Waits, Sound
<1>6. CASE kind = "nothing"
  <2>1. UNCHANGED <<readers, writer, blocked, granted>>
      BY <1>1, <1>6 DEF Release, mutexes
  <2>2. \A s \in Threads : \A l \in Locks : Inside(s, l)' = Inside(s, l)
      BY <2>1, Zenon DEF Inside
  <2>3. Left /\ InHand(t)' = InHand(t)
      BY <2>2, <1>3, <1>6, LockNames DEF Uses
  <2>4. Apart(t)
      BY <2>1, <2>2, <2>3 DEF Apart
  <2>5. Counted(t)'
      BY <2>2, <2>3, <1>2, LockNames DEF Counted, Sound
  <2>6. Waits(t)'
      BY <2>1, <2>3, <1>4, <1>5, WaitsNoMore
  <2>7. WriterAlone'
    <3>1. \A s \in Threads : InHand(s)' = InHand(s) /\ (Replacing(s)' => Replacing(s))
        BY <2>3, <2>4, HandsOfOthers
    <3> QED BY <3>1, <2>1, <1>2 DEF WriterAlone
  <2>8. LocksTyped'
      BY <2>1, <1>2 DEF LocksTyped
  <2> QED BY <2>3, <2>4, <2>5, <2>6, <2>7, <2>8, StepKeeps DEF Sound
<1>7. CASE kind = "read"
  <2>1. RUnlock(t, "continuity")
      BY <1>1, <1>7 DEF Release
  <2>2. InHand(t) = "read"
      BY <1>1, <1>7, HoldsOne, LeaveOne DEF InHand
  <2>3. Inside(t, "continuity") = 1
      BY <2>2, <1>2 DEF Sound, Counted
  <2>4. /\ LocksTyped'
        /\ \A k \in Locks : \A s \in Threads :
              /\ Inside(s, k)' = IF k = "continuity" /\ s = t THEN Inside(s, k) - 1 ELSE Inside(s, k)
              /\ readers[k][s] = 0 => readers'[k][s] = 0
        /\ UNCHANGED <<writer, blocked, granted>>
      BY <2>1, <2>3, <1>2, LockNames, ReadUnlocked
  <2>5. Left /\ InHand(t)' = "nothing"
      BY <2>4, <1>3, <1>7, LockNames DEF Uses
  <2>6. Apart(t)
      BY <2>4, <2>5 DEF Apart
  <2>7. Counted(t)'
      BY <2>3, <2>4, <2>5, <1>2, LockNames DEF Counted, Sound
  <2>8. Waits(t)'
      BY <2>2, <2>4, <2>5, <1>4, <1>5, WaitsNoMore
  <2>9. WriterAlone'
    <3>1. \A s \in Threads : (InHand(s)' = "write" => InHand(s) = "write") /\ (Replacing(s)' => Replacing(s))
        BY <2>5, <2>6, HandsOfOthers
    <3> QED BY <3>1, <2>4, <1>2, LockNames DEF WriterAlone
  <2> QED BY <2>4, <2>5, <2>6, <2>7, <2>8, <2>9, StepKeeps DEF Sound
<1>8. CASE kind = "write"
  <2>1. Unlock(t, "continuity")
      BY <1>1, <1>8 DEF Release
  <2>2. /\ LocksTyped'
        /\ \A k \in Locks : \A s \in Threads : Inside(s, k)' = Inside(s, k)
        /\ \A k \in Locks : blocked'[k] \cup granted'[k] = blocked[k] \cup granted[k]
        /\ writer'["continuity"] = Nobody
        /\ writer'["workerOp"] = writer["workerOp"] /\ readers'["workerOp"] = readers["workerOp"]
      BY <2>1, <1>2, LockNames, Unlocked
  <2>3. Left /\ InHand(t)' = "nothing" /\ InHand(t) = "write"
      BY <2>2, <1>3, <1>8, LockNames DEF Uses
  <2>4. Apart(t)
      BY <2>2, <2>3, ThreadsAssumption DEF Apart
  <2>5. Counted(t)'
      BY <2>2, <2>3, <1>2, LockNames DEF Counted, Sound
  <2>6. Waits(t)'
      BY <2>2, <1>4, ThreadsAssumption, WaitsNoMore
  <2>7. WriterAlone'
    <3>1. ASSUME NEW s \in Threads, InHand(s)' = "write"
          PROVE  FALSE
      <4>1. s # t /\ InHand(s) = "write"
          BY <3>1, <2>3, <2>4, HandsOfOthers
      <4> QED BY <4>1, <2>3, <1>2 DEF WriterAlone
    <3>2. \A s \in Threads : Replacing(s)' => Replacing(s)
        BY <2>3, <2>4, HandsOfOthers
    <3> QED BY <3>1, <3>2, <2>2, <1>2 DEF WriterAlone
  <2> QED BY <2>2, <2>3, <2>4, <2>5, <2>6, <2>7, StepKeeps DEF Sound
<1>9. kind \in Kinds
    BY <1>1, HoldsOne, LeaveOne DEF Guards
<1> QED BY <1>6, <1>7, <1>8, <1>9 DEF Kinds

-----------------------------------------------------------------------------
(* The workers. *)

LEMMA UseWorkerKeeps ==
    ASSUME LocksInv, NEW t \in Threads, UseWorker(t)
    PROVE  LocksInv'
<1>1. /\ At(t) \in {"worker+", "worker-"} /\ Proceed(t) /\ UNCHANGED <<marker, guards>> /\ At(t) # "rest"
      /\ At(t) = "worker+" => RLock(t, "workerOp")
      /\ At(t) = "worker-" => RUnlock(t, "workerOp")
    BY DEF UseWorker
<1>2. Sound(t) /\ LocksTyped /\ WriterAlone /\ GoroutinesTyped
    BY DEF LocksInv
<1>3. t \in Users
    BY <1>1, Ahead
<1>4. State(t).uses = Uses(t)
    BY SoundState DEF LocksInv
<1>5. PICK y \in States : Calls(t, At(t), State(t), y)
    BY <1>1, <1>3, Ahead
<1>6. Inside(t, "workerOp") = IF At(t) = "worker+" THEN 0 ELSE 1
    BY <1>1, <1>2, <1>4, <1>5 DEF Calls, Uses, Sound, Counted
<1>7. /\ LocksTyped' /\ UNCHANGED writer
      /\ Inside(t, "workerOp")' = IF At(t) = "worker+" THEN 1 ELSE 0
      /\ Inside(t, "continuity")' = Inside(t, "continuity")
      /\ \A s \in Threads \ {t} : \A l \in Locks : Inside(s, l)' = Inside(s, l)
      /\ \A l \in Locks : blocked'[l] = blocked[l] /\ granted'[l] \subseteq granted[l]
      /\ At(t) = "worker+" => t \notin blocked'["workerOp"] \cup granted'["workerOp"]
  <2>1. CASE At(t) = "worker+"
      BY <2>1, <1>1, <1>2, <1>6, LockNames, ReadLocked
  <2>2. CASE At(t) = "worker-"
      BY <2>2, <1>1, <1>2, <1>6, LockNames, ReadUnlocked
  <2> QED BY <2>1, <2>2, <1>1
<1>8. /\ writer["continuity"] # Nobody => \A s \in Threads :
            readers["continuity"][s] = 0 => readers'["continuity"][s] = 0
      /\ (\A s \in Threads : readers["workerOp"][s] = 0) /\ writer["workerOp"] # Nobody =>
            \A s \in Threads : readers'["workerOp"][s] = 0
  <2>1. CASE At(t) = "worker+"
    <3>1. /\ \/ writer["workerOp"] = Nobody
             \/ readers' = readers /\ readers["workerOp"][t] = Inside(t, "workerOp") + 1
          /\ readers'["continuity"] = readers["continuity"]
        BY <2>1, <1>1, <1>2, LockNames, ReadLocked
    <3> QED BY <3>1
  <2>2. CASE At(t) = "worker-"
      BY <2>2, <1>1, <1>2, <1>6, LockNames, ReadUnlocked
  <2> QED BY <2>1, <2>2, <1>1
<1>9. /\ code' \in [Threads -> Seq(CallNames)] /\ \A s \in Threads \ {t} : code'[s] = code[s]
    BY <1>1, Proceeds
<1>10. GoroutinesTyped'
    BY <1>1, <1>2, <1>9 DEF GoroutinesTyped
<1>11. Apart(t)
    BY <1>1, <1>7, <1>9 DEF Apart
<1>12. InHand(t)' = InHand(t)
    BY <1>1, Zenon DEF InHand
<1>13. OnItsWay(t)' /\ ~Replacing(t)'
  <2>1. State(t)' = Using(State(t), At(t) = "worker+")
    <3>1. Uses(t)' <=> At(t) = "worker+"
        BY <1>7 DEF Uses
    <3>2. State(t)' = [marker |-> marker[t], uses |-> At(t) = "worker+", guards |-> guards[t]]
        BY <3>1, <1>1 DEF State, Uses
    <3> QED BY <3>2, <1>2, SoundState DEF Using
  <2>2. ASSUME NEW z \in States, Calls(t, At(t), State(t), z)
        PROVE  State(t)' = z
    <3>1. CASE At(t) = "worker+"
        BY <3>1, <2>1, <2>2 DEF Calls
    <3>2. CASE At(t) = "worker-"
        BY <3>2, <2>1, <2>2 DEF Calls
    <3> QED BY <3>1, <3>2, <1>1
  <2> QED BY <2>2, <1>1, <1>3, Arrives
<1>14. OutermostOnly(t)' /\ Counted(t)'
    BY <1>1, <1>2, <1>7, <1>12, Zenon DEF OutermostOnly, Counted, Sound
<1>15. Waits(t)'
  <2>1. /\ ~WantsRead(t, "continuity") /\ ~WantsWrite(t, "continuity")
        /\ At(t) = "worker-" => ~WantsRead(t, "workerOp")
      BY <1>1, LockNames DEF WantsRead, WantsWrite
  <2>2. \A l \in Locks : t \notin blocked'[l] \cup granted'[l]
      BY <2>1, <1>1, <1>2, <1>7, LockNames DEF Waits, Sound
  <2> QED BY <2>1, <2>2, <1>2, <1>7, <1>12, WaitsNoMore DEF Waits, Sound
<1>16. WriterAlone'
  <2>1. \A s \in Threads : InHand(s)' = InHand(s) /\ (Replacing(s)' => Replacing(s))
      BY <1>11, <1>12, <1>13, HandsOfOthers
  <2>2. \A s \in Threads : s # Nobody
      BY ThreadsAssumption
  <2> QED BY <2>1, <2>2, <1>2, <1>7, <1>8 DEF WriterAlone
<1> QED BY <1>7, <1>10, <1>11, <1>13, <1>14, <1>15, <1>16, StepKeeps DEF Sound

LEMMA ReplaceWorkersKeeps ==
    ASSUME LocksInv, NEW t \in Threads, ReplaceWorkers(t)
    PROVE  LocksInv'
<1>1. /\ At(t) \in {"replace+", "replace-"} /\ Proceed(t) /\ UNCHANGED <<marker, guards>> /\ At(t) # "rest"
      /\ At(t) = "replace+" => Lock(t, "workerOp")
      /\ At(t) = "replace-" => Unlock(t, "workerOp")
    BY DEF ReplaceWorkers
<1>2. Sound(t) /\ LocksTyped /\ WriterAlone /\ GoroutinesTyped
    BY DEF LocksInv
<1>3. /\ OnItsWay(t)' /\ guards[t] = <<>>
      /\ Replacing(t)' <=> At(t) = "replace+"
  <2>1. /\ OnItsWay(t)' /\ guards[t] = <<>>
        /\ Replacing(t)' <=> At(t) \in {"replace+", "replace"}
      BY <1>1, ReplacementGoesOn
  <2> QED BY <2>1, <1>1
<1>4. /\ LocksTyped'
      /\ \A s \in Threads : \A l \in Locks : Inside(s, l)' = Inside(s, l)
      /\ \A l \in Locks : blocked'[l] \cup granted'[l] = blocked[l] \cup granted[l]
      /\ writer'["continuity"] = writer["continuity"] /\ readers'["continuity"] = readers["continuity"]
      /\ At(t) = "replace+" => /\ writer["workerOp"] = t /\ \A s \in Threads : readers["workerOp"][s] = 0
                               /\ writer' = writer /\ readers' = readers
  <2>1. CASE At(t) = "replace+"
    <3>1. /\ writer["workerOp"] = t /\ \A s \in Threads : readers["workerOp"][s] = 0
          /\ UNCHANGED <<readers, writer, blocked, granted>>
        BY <2>1, <1>1 DEF Lock, mutexes
    <3>2. \A s \in Threads : \A l \in Locks : Inside(s, l)' = Inside(s, l)
        BY <3>1, Zenon DEF Inside
    <3> QED BY <3>1, <3>2, <1>2 DEF LocksTyped
  <2>2. CASE At(t) = "replace-"
      BY <2>2, <1>1, <1>2, LockNames, Unlocked
  <2> QED BY <2>1, <2>2, <1>1
<1>5. /\ code' \in [Threads -> Seq(CallNames)] /\ \A s \in Threads \ {t} : code'[s] = code[s]
    BY <1>1, Proceeds
<1>6. GoroutinesTyped'
    BY <1>1, <1>2, <1>5 DEF GoroutinesTyped
<1>7. Apart(t)
    BY <1>1, <1>4, <1>5 DEF Apart
<1>8. InHand(t)' = InHand(t)
    BY <1>1, Zenon DEF InHand
<1>9. OutermostOnly(t)' /\ Counted(t)'
    BY <1>1, <1>2, <1>4, <1>8, LockNames, Zenon DEF OutermostOnly, Counted, Sound
<1>10. Waits(t)'
  <2>1. (\A l \in Locks : ~WantsRead(t, l)) /\ ~WantsWrite(t, "continuity")
      BY <1>1, LockNames DEF WantsRead, WantsWrite
  <2> QED BY <2>1, <1>2, <1>4, <1>8, WaitsNoMore DEF Waits, Sound
<1>11. WriterAlone'
  <2>1. \A s \in Threads : InHand(s)' = InHand(s)
      BY <1>7, <1>8, HandsOfOthers
  <2>2. ASSUME NEW s \in Threads, Replacing(s)'
        PROVE  At(t) = "replace+" /\ (s # t => Replacing(s))
    <3>1. CASE At(t) = "replace+"
        BY <3>1, <2>2, <1>7, HandsOfOthers
    <3>2. CASE At(t) = "replace-"
      <4>1. Replacing(t) /\ writer["workerOp"] = t
          BY <3>2, <1>2 DEF Replacing, WriterAlone
      <4>2. s # t /\ Replacing(s)
          BY <3>2, <2>2, <1>3, <1>7, HandsOfOthers
      <4> QED BY <4>1, <4>2, <1>2 DEF WriterAlone
    <3> QED BY <3>1, <3>2, <1>1
  <2> QED BY <2>1, <2>2, <1>2, <1>4 DEF WriterAlone
<1> QED BY <1>3, <1>4, <1>6, <1>7, <1>9, <1>10, <1>11, StepKeeps DEF Sound

-----------------------------------------------------------------------------
(* The whole. *)

LEMMA BeginKeeps ==
    ASSUME LocksInv, NEW t \in Threads, Begin(t)
    PROVE  LocksInv'
<1>1. PICK program \in Programs(t) : code' = [code EXCEPT ![t] = program]
    BY DEF Begin
<1>2. /\ code[t] = <<>> /\ marker' = [marker EXCEPT ![t] = "none"]
      /\ UNCHANGED <<guards, readers, writer, blocked, granted>>
    BY DEF Begin, mutexes
<1>3. Sound(t) /\ LocksTyped /\ WriterAlone /\ GoroutinesTyped
    BY DEF LocksInv
<1>4. guards[t] = <<>> /\ (t \in Users => ~Uses(t))
    BY <1>2, AtRest
<1>5. /\ program \in Seq(CallNames)
      /\ t \in Users => Ends(t, Free(FALSE), program)
      /\ t \notin Users => program = Replacement
  <2>1. CASE t \in Users
      BY <2>1, ProgramsEnd
  <2>2. CASE t \notin Users
    <3>1. program = Replacement
        BY <2>2 DEF Programs, Users, Replacement
    <3> QED BY <2>2, <3>1, Replaces
  <2> QED BY <2>1, <2>2
<1>6. code \in [Threads -> Seq(CallNames)] /\ marker \in [Threads -> Markers] /\ "none" \in Markers
    BY <1>3 DEF GoroutinesTyped, Markers
<1>7. /\ code' \in [Threads -> Seq(CallNames)] /\ code'[t] = program
      /\ \A s \in Threads \ {t} : code'[s] = code[s]
    BY <1>1, <1>5, <1>6
<1>8. /\ marker' \in [Threads -> Markers] /\ marker'[t] = "none"
      /\ \A s \in Threads \ {t} : marker'[s] = marker[s]
    BY <1>2, <1>6
<1>9. GoroutinesTyped'
    BY <1>2, <1>3, <1>7, <1>8 DEF GoroutinesTyped
<1>10. \A s \in Threads : InHand(s)' = InHand(s) /\ \A l \in Locks : Inside(s, l)' = Inside(s, l)
    BY <1>2, Zenon DEF Inside, InHand
<1>11. Apart(t)
    BY <1>2, <1>7, <1>8, <1>10 DEF Apart
<1>12. OnItsWay(t)' /\ ~Replacing(t)'
  <2>1. CASE t \in Users
    <3>1. Uses(t)' = FALSE
        BY <2>1, <1>4, <1>10, LockNames DEF Uses
    <3>2. State(t)' = Free(FALSE)
        BY <3>1, <1>2, <1>4, <1>8 DEF State, Free
    <3>3. Ends(t, State(t)', code'[t])
        BY <2>1, <3>2, <1>5, <1>7
    <3>4. OnItsWay(t)'
        BY <2>1, <3>3, Zenon DEF OnItsWay
    <3>5. ~Replacing(t)'
      <4>1. CASE program = <<>>
          BY <4>1, <1>7 DEF Replacing, At
      <4>2. CASE program # <<>>
        <5>1. Head(program) \notin {"replace+", "replace", "replace-"}
            BY <2>1, <4>2, <1>5, UsersDoNotReplace, Zenon
        <5>2. At(t)' = Head(program)
            BY <4>2, <1>7 DEF At
        <5> QED BY <5>1, <5>2 DEF Replacing
      <4> QED BY <4>1, <4>2
    <3> QED BY <3>4, <3>5
  <2>2. CASE t \notin Users
    <3>1. OnItsWay(t)'
        BY <2>2, <1>2, <1>4, <1>5, <1>7, Zenon DEF OnItsWay
    <3>2. At(t)' = "replace+"
      <4>1. program # <<>>
          BY <2>2, <1>5, Replaces
      <4> QED BY <4>1, <2>2, <1>5, <1>7, Replaces DEF At
    <3> QED BY <3>1, <3>2 DEF Replacing
  <2> QED BY <2>1, <2>2
<1>13. OutermostOnly(t)' /\ Counted(t)'
    BY <1>2, <1>3, <1>10, LockNames, Zenon DEF OutermostOnly, Counted, Sound
<1>14. Waits(t)'
  <2>1. At(t) = "rest"
      BY <1>2 DEF At
  <2>2. (\A l \in Locks : ~WantsRead(t, l)) /\ ~WantsWrite(t, "continuity") /\ InHand(t) # "write"
      BY <2>1, <1>4, LockNames DEF WantsRead, WantsWrite, InHand
  <2> QED BY <2>2, <1>2, <1>3, <1>10, WaitsNoMore DEF Waits, Sound
<1>15. LocksTyped'
    BY <1>2, <1>3 DEF LocksTyped
<1>16. WriterAlone'
  <2>1. \A s \in Threads : Replacing(s)' => Replacing(s)
      BY <1>11, <1>12, HandsOfOthers
  <2> QED BY <2>1, <1>2, <1>3, <1>10 DEF WriterAlone
<1> QED BY <1>9, <1>11, <1>12, <1>13, <1>14, <1>15, <1>16, StepKeeps DEF Sound

LEMMA InitLocks == Init => LocksInv
<1> SUFFICES ASSUME Init
             PROVE  LocksInv
    OBVIOUS
<1>1. GoroutinesTyped /\ LocksTyped
    BY LockNames DEF Init, GoroutinesTyped, LocksTyped, Markers
<1>2. ASSUME NEW t \in Threads
      PROVE  Sound(t) /\ InHand(t) = "nothing" /\ ~Replacing(t)
  <2>1. /\ code[t] = <<>> /\ marker[t] = "none" /\ guards[t] = <<>>
        /\ \A l \in Locks : readers[l][t] = 0 /\ blocked[l] = {} /\ granted[l] = {} /\ writer[l] = Nobody
      BY DEF Init
  <2>2. InHand(t) = "nothing" /\ ~Replacing(t) /\ \A l \in Locks : Inside(t, l) = 0
      BY <2>1 DEF InHand, Replacing, At, Inside
  <2>3. OutermostOnly(t)
      BY <2>1 DEF OutermostOnly
  <2>4. Counted(t)
      BY <2>2, LockNames DEF Counted
  <2>5. Waits(t)
      BY <2>1, LockNames, ThreadsAssumption DEF Waits
  <2>6. OnItsWay(t)
    <3>0. Uses(t) = FALSE
        BY <2>2, LockNames DEF Uses
    <3>1. State(t) = Free(FALSE)
        BY <2>1, <3>0 DEF State, Free
    <3>2. Ends(t, Free(FALSE), <<>>)
        BY Places, Nothing DEF Ends
    <3> QED BY <3>1, <3>2, <2>1, Zenon DEF OnItsWay
  <2> QED BY <2>2, <2>3, <2>4, <2>5, <2>6 DEF Sound
<1>3. WriterAlone
    BY <1>2 DEF WriterAlone
<1> QED BY <1>1, <1>2, <1>3 DEF LocksInv

LEMMA NextLocks == LocksInv /\ [Next]_vars => LocksInv'
<1> SUFFICES ASSUME LocksInv, [Next]_vars
             PROVE  LocksInv'
    OBVIOUS
<1>1. CASE UNCHANGED vars
  <2>1. UNCHANGED <<code, marker, guards, readers, writer, blocked, granted>>
      BY <1>1 DEF vars, mutexes
  <2>2. GoroutinesTyped' /\ LocksTyped'
      BY <2>1 DEF GoroutinesTyped, LocksTyped, LocksInv
  <2>3. \A t \in Threads : /\ State(t)' = State(t) /\ InHand(t)' = InHand(t) /\ At(t)' = At(t)
                           /\ \A l \in Locks : Inside(t, l)' = Inside(t, l)
      BY <2>1, Zenon DEF State, Uses, Inside, InHand, At
  <2>4. WriterAlone'
      BY <2>1, <2>3, Zenon DEF WriterAlone, Replacing, LocksInv
  <2>5. ASSUME NEW t \in Threads
        PROVE  Sound(t)'
    <3>1. Sound(t)
        BY DEF LocksInv
    <3>2. OutermostOnly(t)' /\ Counted(t)'
        BY <3>1, <2>1, <2>3, LockNames, Zenon DEF OutermostOnly, Counted, Sound
    <3>3. Waits(t)'
        BY <3>1, <2>1, <2>3, Zenon DEF Waits, Sound, WantsRead, WantsWrite, Marked
    <3>4. OnItsWay(t)'
        BY <3>1, <2>1, <2>3, Zenon DEF OnItsWay, Sound
    <3> QED BY <3>2, <3>3, <3>4 DEF Sound
  <2> QED BY <2>2, <2>4, <2>5 DEF LocksInv
<1>2. ASSUME NEW t \in Threads, Begin(t) \/ Run(t) \/ Announce(t)
      PROVE  LocksInv'
    BY <1>2, BeginKeeps, EntryKeeps, TransferKeeps, CloseKeeps, UseWorkerKeeps, ReplaceWorkersKeeps,
       WorkKeeps, BlockKeeps, AnnounceKeeps DEF Run
<1> QED BY <1>1, <1>2 DEF Next

LEMMA LocksHold == Spec => []LocksInv
BY InitLocks, NextLocks, PTL DEF Spec

LEMMA LocksKeepApart == LocksInv => NoOverlap
<1> SUFFICES ASSUME LocksInv
             PROVE  NoOverlap
    OBVIOUS
<1>1. ASSUME NEW t \in Threads, At(t) \in {"network", "apply", "verify"}
      PROVE  /\ InHand(t) \in {"read", "write"} /\ (t \in Dns /\ At(t) # "network" => InHand(t) = "write")
             /\ readers["continuity"][t] > 0 \/ writer["continuity"] = t
  <2>1. t \in Users
      BY <1>1, Ahead
  <2>2. PICK y \in States : Calls(t, At(t), State(t), y)
      BY <1>1, <2>1, Ahead
  <2>3. State(t).guards = guards[t] /\ guards[t] \in Seq(Guards)
      BY SoundState DEF LocksInv
  <2>4. Covered(State(t)) /\ (t \in Dns /\ At(t) # "network" => Excluding(State(t)))
      BY <1>1, <2>2 DEF Calls
  <2>5. /\ InHand(t) \in {"read", "write"} /\ (t \in Dns /\ At(t) # "network" => InHand(t) = "write")
    <3>1. guards[t] # <<>> /\ guards[t][1] \in Guards
        BY <2>3, <2>4 DEF Covered
    <3>2. InHand(t) = guards[t][1].kind /\ guards[t][1].kind \in Kinds
        BY <3>1 DEF InHand, Guards
    <3> QED BY <3>2, <2>3, <2>4 DEF Covered, Excluding, Kinds
  <2>6. CASE InHand(t) = "write"
      BY <2>5, <2>6 DEF LocksInv, WriterAlone
  <2>7. CASE InHand(t) = "read"
    <3>1. Inside(t, "continuity") = 1 /\ readers["continuity"][t] \in Nat
        BY <2>7, LockNames DEF LocksInv, Sound, Counted, LocksTyped
    <3> QED BY <3>1, <2>5 DEF Inside
  <2> QED BY <2>5, <2>6, <2>7
<1>2. OutageIsAlone
  <2> SUFFICES ASSUME NEW t \in Threads, NEW s \in Threads, Outage(t), s # t,
                      At(s) \in {"network", "apply", "verify"}
               PROVE  FALSE
      BY DEF OutageIsAlone
  <2>1. InHand(t) = "write"
      BY <1>1 DEF Outage
  <2>2. writer["continuity"] = t /\ readers["continuity"][s] = 0
      BY <2>1 DEF LocksInv, WriterAlone
  <2> QED BY <2>2, <1>1
<1>3. WorkersStayInUse
  <2> SUFFICES ASSUME NEW t \in Threads, NEW w \in Threads, At(w) = "replace",
                      readers["workerOp"][t] > 0
               PROVE  FALSE
      BY DEF WorkersStayInUse
  <2>1. readers["workerOp"][t] = 0
      BY DEF Replacing, LocksInv, WriterAlone
  <2> QED BY <2>1
<1> QED BY <1>2, <1>3 DEF NoOverlap

\* While a DNS provider may be down, no other goroutine resolves names or
\* changes a container, and no worker in use is replaced, nested acquisitions
\* and transferred guards included: the read, shared and exclusive guards of
\* continuity.go and workerOpMu, for any number of goroutines.
THEOREM NothingOverlaps == Spec => []NoOverlap
BY LocksHold, LocksKeepApart, PTL

\* Nobody undoes the circle: its three goroutines cannot move, and nobody else
\* can release what they hold or let them in.
LEMMA CircleStands ==
    ASSUME LocksInv, Circle, [Next]_vars
    PROVE  Circle'
<1>1. PICK u \in Dns, k \in Checks, w \in WorkerUpdates :
          /\ readers["workerOp"][u] > 0 /\ writer["continuity"] = u
          /\ readers["continuity"][k] > 0 /\ k \in blocked["workerOp"]
          /\ writer["workerOp"] = w
    BY DEF Circle
<1>2. u \in Threads /\ k \in Threads /\ w \in Threads /\ u # Nobody /\ w # Nobody
    BY ThreadsAssumption DEF Threads
<1>3. Sound(u) /\ Sound(k) /\ LocksTyped /\ WriterAlone
    BY <1>2 DEF LocksInv
<1>4. \A s \in Threads : InHand(s) # "write" /\ ~Replacing(s)
    BY <1>1, <1>2, <1>3 DEF WriterAlone
<1>5. At(u) = "mutate" /\ u \in Dns /\ marker[u] # "exclusive"
    BY <1>1, <1>2, <1>3, <1>4, LockNames DEF Sound, Waits, WantsWrite
<1>6. At(k) = "worker+" /\ k \notin granted["workerOp"]
    BY <1>1, <1>3, LockNames DEF Sound, Waits, WantsRead, LocksTyped
<1> DEFINE Same == /\ readers'["workerOp"][u] = readers["workerOp"][u]
                   /\ readers'["continuity"][k] = readers["continuity"][k]
                   /\ writer'["continuity"] = u /\ writer'["workerOp"] = w
                   /\ blocked["workerOp"] \subseteq blocked'["workerOp"]
<1>7. ASSUME Same
      PROVE  Circle'
    BY <1>1, <1>7 DEF Circle
<1>8. ASSUME NEW t \in Threads, Block(t)
      PROVE  Same
    BY <1>1, <1>3, <1>8, LockNames DEF Block, LocksTyped
<1>9. ASSUME NEW t \in Threads, Announce(t)
      PROVE  Same
    BY <1>1, <1>2, <1>3, <1>9, LockNames DEF Announce, LocksTyped
<1>10. ASSUME NEW t \in Threads, t # u, t # k, NEW l \in Locks, RLock(t, l) \/ RUnlock(t, l)
       PROVE  Same
  <2>1. UNCHANGED <<writer, blocked>> /\ readers \in [Locks -> [Threads -> Nat]]
      BY <1>3, <1>10 DEF RLock, RUnlock, LocksTyped
  <2>2. \A m \in Locks : readers'[m][u] = readers[m][u] /\ readers'[m][k] = readers[m][k]
      BY <2>1, <1>2, <1>10 DEF RLock, RUnlock
  <2> QED BY <2>1, <2>2, <1>1, LockNames
<1>11. ASSUME UNCHANGED mutexes
       PROVE  Same
    BY <1>1, <1>11 DEF mutexes
<1>12. ASSUME NEW t \in Threads, t # u, t # k,
              acquireContinuityRead(t) \/ acquireContinuityShared(t) \/ acquireContinuityExclusive(t)
       PROVE  Same
  <2>1. RLock(t, "continuity") \/ UNCHANGED mutexes
      BY <1>12 DEF acquireContinuityRead, acquireContinuityShared, acquireContinuityExclusive, Lock
  <2> QED BY <2>1, <1>10, <1>11, <1>12, LockNames
<1>13. ASSUME NEW t \in Threads, t # u, t # k, Close(t)
       PROVE  Same
  <2> DEFINE kind == Last(guards[t]).kind
  <2>1. At(t) \in {"close", "keep"} /\ Release(t, kind)
      BY <1>13 DEF Close
  <2>2. kind \in Kinds /\ kind # "write"
    <3>1. kind # "nothing" => InHand(t) = kind
        BY <2>1, HoldsOne, LeaveOne DEF InHand
    <3>2. kind \in Kinds
        BY <2>1, HoldsOne, LeaveOne DEF Guards
    <3> QED BY <3>1, <3>2, <1>4
  <2>3. RUnlock(t, "continuity") \/ UNCHANGED mutexes
    <3> HIDE DEF kind
    <3> QED BY <2>1, <2>2 DEF Release, Kinds
  <2> QED BY <2>3, <1>10, <1>11, <1>13, LockNames
<1>14. ASSUME NEW t \in Threads, t # u, t # k, UseWorker(t)
       PROVE  Same
    BY <1>10, <1>14, LockNames DEF UseWorker
<1>15. ASSUME NEW t \in Threads, ReplaceWorkers(t)
       PROVE  Same
  <2>1. Lock(t, "workerOp")
      BY <1>4, <1>15 DEF ReplaceWorkers, Replacing
  <2> QED BY <2>1, <1>11 DEF Lock
<1>16. ASSUME NEW t \in Threads, Begin(t) \/ Transfer(t) \/ Work(t)
       PROVE  Same
  <2>1. UNCHANGED mutexes
      BY <1>16 DEF Begin, Transfer, Work
  <2> QED BY <2>1, <1>11
<1>17. ASSUME NEW t \in {u, k}, Run(t)
       PROVE  Same
  <2>1. CASE t = u
    <3>1. /\ ~acquireContinuityRead(t) /\ ~acquireContinuityShared(t) /\ ~Transfer(t) /\ ~Close(t)
          /\ ~UseWorker(t) /\ ~ReplaceWorkers(t) /\ ~Work(t)
        BY <2>1, <1>5 DEF acquireContinuityRead, acquireContinuityShared, Transfer, Close, UseWorker,
           ReplaceWorkers, Work
    <3>2. ~acquireContinuityExclusive(t)
        BY <2>1, <1>1, <1>2, <1>5 DEF acquireContinuityExclusive, Lock
    <3> QED BY <3>1, <3>2, <2>1, <1>2, <1>8, <1>17 DEF Run
  <2>2. CASE t = k
    <3>1. /\ ~acquireContinuityRead(t) /\ ~acquireContinuityShared(t) /\ ~acquireContinuityExclusive(t)
          /\ ~Transfer(t) /\ ~Close(t) /\ ~ReplaceWorkers(t) /\ ~Work(t)
        BY <2>2, <1>6 DEF acquireContinuityRead, acquireContinuityShared, acquireContinuityExclusive,
           Transfer, Close, ReplaceWorkers, Work
    <3>2. ~UseWorker(t)
        BY <2>2, <1>1, <1>6 DEF UseWorker, RLock
    <3> QED BY <3>1, <3>2, <2>2, <1>2, <1>8, <1>17 DEF Run
  <2> QED BY <2>1, <2>2, <1>17
<1>18. ASSUME NEW t \in Threads, Begin(t) \/ Run(t) \/ Announce(t)
       PROVE  Same
  <2> HIDE DEF Same
  <2>1. CASE t \in {u, k}
      BY <2>1, <1>9, <1>16, <1>17, <1>18
  <2>2. CASE t \notin {u, k}
      BY <2>2, <1>8, <1>9, <1>12, <1>13, <1>14, <1>15, <1>16, <1>18 DEF Run
  <2> QED BY <2>1, <2>2
<1>19. CASE UNCHANGED vars
    BY <1>19, <1>7, <1>11 DEF vars
<1> QED BY <1>7, <1>18, <1>19 DEF Next

\* A check that falls back to a worker, a replacement of the workers and the
\* pipeline of a DNS provider that wait for each other wait for ever: of the
\* two locks of continuity.go and worker.go, for any number of goroutines.
THEOREM CircleStays == Spec => CircleIsForGood
<1>1. LocksInv /\ [Next]_vars => [Circle => Circle']_vars
    BY CircleStands
<1> QED BY <1>1, LocksHold, PTL DEF Spec, CircleIsForGood
=============================================================================

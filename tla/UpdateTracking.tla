---------------------------- MODULE UpdateTracking ----------------------------
(***************************************************************************)
(* What the controller believes of one container's image: a cache row with *)
(* the running digest, the digest of the registry's tag, whether that is   *)
(* an update to offer and which digest is snoozed.  Checks, the snooze     *)
(* button and the rollback each read the row, work for up to minutes and   *)
(* write the whole row back; automations read it to install updates.       *)
(*                                                                         *)
(* Digests are numbers, published in order; None is the empty string.      *)
(* FirstDetectedAt is the digest whose detection it dates.  The container  *)
(* is no member of an update chain and none of the program's own.          *)
(***************************************************************************)
EXTENDS Naturals, Sequences

CONSTANTS MaxDigest,   \* bound: digests the tag is ever moved to
          Policies,    \* policies of the container: a subset of auto, manual, ignore
          Rules,       \* cron expressions: the items of the minute field
          Minutes,     \* minutes of the modelled hour: 0 .. Minutes - 1
          Bads,        \* bound: the sets of digests that may fail verification
          MaxClicks,   \* bound: requests of the browser
          MaxFails,    \* bound: failing calls of Docker, the registry, the worker or the store
          MaxEvents,   \* bound: digests published, requests and failing calls together
          MaxUndone    \* bound: rollbacks

ASSUME TrackingAssumption ==
  /\ MaxDigest \in Nat \ {0} /\ Policies \subseteq {"auto", "manual", "ignore"}
  /\ Bads \subseteq SUBSET (2 .. MaxDigest) /\ MaxUndone \in Nat

VARIABLES tag, running, bad,     \* registry tag, running image, digests that fail verification
          mode, rule, minute, ran,  \* policy; automation: expression, clock, LastRunAt is this minute
          row,                   \* container_cache
          proc,                  \* writers of the row and their copies
          job,                   \* the container's update or rollback job
          clicks, fails, undone  \* used so far of the bounds

trackingVars == <<tag, running, bad, mode, rule, minute, ran, row, proc, job, clicks, fails, undone>>
world == <<tag, bad, mode, rule>>
clock == <<minute, ran>>
used == <<clicks, fails, undone>>

None == 0
Digests == 1 .. MaxDigest
Procs == {"scan", "tab", "job"}

NoRow == [current |-> None, latest |-> None, available |-> FALSE,
          snoozed |-> None, first |-> None, error |-> FALSE]
Idle == [op |-> "idle", step |-> "none", old |-> NoRow, cur |-> None, late |-> None, answer |-> "none"]
NoJob == [state |-> "none", prev |-> None, digest |-> None, held |-> FALSE]

TrackingTypeOK ==
  /\ {tag, running} \subseteq Digests /\ mode \in {"auto", "manual", "ignore"}
  /\ row \in [current : Digests \cup {None}, latest : Digests \cup {None}, available : BOOLEAN,
              snoozed : Digests \cup {None}, first : Digests \cup {None}, error : BOOLEAN]
  /\ job.state \in {"none", "queued", "verifying", "refresh", "undone", "stuck"}

TrackingInit ==
  /\ tag = 1 /\ running = 1 /\ bad \in Bads
  /\ mode \in Policies /\ rule \in Rules /\ minute = 0 /\ ran = FALSE
  /\ row = NoRow /\ proc = [p \in Procs |-> Idle] /\ job = NoJob
  /\ clicks = 0 /\ fails = 0 /\ undone = 0

-----------------------------------------------------------------------------
(* The row *)

DigestEqual(a, b) == a # None /\ a = b

ApplyTrackedUpdateState_Forgets(old, next, rawAvailable) ==
  [next EXCEPT !.available = rawAvailable, !.snoozed = None,
               !.first = IF ~rawAvailable THEN None ELSE IF next.latest = old.latest THEN @ ELSE next.latest]

ApplyTrackedUpdateState_HoldsNewer(old, next, rawAvailable) ==
  [next EXCEPT !.available = rawAvailable /\ old.snoozed = None,
               !.snoozed = IF rawAvailable THEN old.snoozed ELSE None,
               !.first = IF ~rawAvailable THEN None ELSE IF next.latest = old.latest THEN @ ELSE next.latest]

ApplyTrackedUpdateState(old, next, rawAvailable) ==
  LET dated == [next EXCEPT !.first = IF old.first # None /\ next.latest = old.latest
                                      THEN old.first ELSE next.latest]
  IN  IF ~rawAvailable
      THEN [next EXCEPT !.available = FALSE, !.first = None, !.snoozed = None]
      ELSE IF DigestEqual(old.snoozed, next.latest) /\ next.current # next.latest
           THEN [dated EXCEPT !.snoozed = old.snoozed, !.available = FALSE]
           ELSE [dated EXCEPT !.snoozed = None, !.available = TRUE]

(* releasing a snooze offers its digest again, even when the row no longer names it as latest *)
ClearUpdateSnooze(c) ==
  LET lost == c.snoozed \notin {None, c.current} /\ c.latest \in {None, c.current}
      latest == IF lost THEN c.snoozed ELSE c.latest
      available == latest \notin {None, c.current}
  IN  [c EXCEPT !.latest = latest, !.snoozed = None, !.available = available,
                !.first = IF available /\ c.first = None THEN latest ELSE c.first]

CacheHasSnoozedUpdate(c) ==
  /\ c.snoozed # None
  /\ \/ c.latest = None
     \/ c.snoozed = c.latest /\ c.current # c.latest
     \/ c.latest = c.current /\ c.snoozed # c.current

-----------------------------------------------------------------------------
(* Processes *)

AtStep(p, step) == proc[p].step = step
Become(p, to) == proc' = [proc EXCEPT ![p] = to]
MayHappen == (tag - 1) + clicks + fails < MaxEvents
Fail == MayHappen /\ fails < MaxFails /\ fails' = fails + 1
(* a check, update or rollback of the container is queued or running *)
HasActiveJob == job.state \notin {"none", "stuck"} \/ \E p \in Procs : proc[p].op = "check"

AskWorker == [Idle EXCEPT !.op = "check", !.step = "worker"]
(* the container is inspected first, then the row is read *)
Checking(op, image) == [Idle EXCEPT !.op = op, !.step = "local", !.cur = image]

(* what follows a finished check of p: an error stops the scan but not the job *)
After(p, item) ==
  CASE p = "scan" /\ item.available /\ ~item.error /\ mode = "auto" -> [Idle EXCEPT !.op = "admit"]
    [] p = "job" /\ job.state = "undone" -> [Idle EXCEPT !.op = "hold", !.step = "choose"]
    [] OTHER -> Idle
SettleJob(p) ==
  job' = IF p = "job" /\ job.state = "refresh" THEN [job EXCEPT !.state = "none"] ELSE job

Local(p) ==
  /\ AtStep(p, "local")
  /\ \/ Become(p, [proc[p] EXCEPT !.step = "remote", !.old = row]) /\ UNCHANGED fails
     \/ Fail /\ Become(p, [proc[p] EXCEPT !.step = "save", !.old = row, !.cur = None])
     \/ Fail /\ proc[p].op = "check" /\ Become(p, AskWorker)
  /\ UNCHANGED <<world, clock, running, row, job, clicks, undone>>

Remote(p) ==
  /\ AtStep(p, "remote")
  /\ \/ /\ Become(p, [proc[p] EXCEPT !.step = "save", !.late = tag]) /\ UNCHANGED fails
     \/ Fail /\ Become(p, [proc[p] EXCEPT !.step = "save"])
  /\ UNCHANGED <<world, clock, running, row, job, clicks, undone>>

(* the copy read at the start, with what was learnt since *)
CheckedRow(c) ==
  LET next == [c.old EXCEPT !.current = IF c.cur = None THEN @ ELSE c.cur,
                            !.latest = IF c.late = None THEN @ ELSE c.late,
                            !.error = c.late = None]
  IN  IF c.late = None THEN next ELSE ApplyTrackedUpdateState(c.old, next, c.cur # c.late)

Save(p) ==
  /\ AtStep(p, "save") /\ proc[p].op \in {"check", "info"}
  /\ row' = CheckedRow(proc[p])
  /\ IF row'.error /\ proc[p].op = "check"
     THEN Become(p, AskWorker) /\ UNCHANGED job
     ELSE Become(p, After(p, row')) /\ SettleJob(p)
  /\ UNCHANGED <<world, clock, running, used>>

(* Watchtower compares what is tagged locally, which a rollback does not move back;     *)
(* an answer without digests has only the image of the container and whether to update *)
Answers ==
  {[cur |-> cur, late |-> tag, answer |-> "full"] : cur \in {running, tag}}
    \cup {[cur |-> running, late |-> tag, answer |-> "bare"],
          [cur |-> running, late |-> None, answer |-> "item error"],
          [cur |-> None, late |-> None, answer |-> "error"]}

Worker(p) ==
  /\ AtStep(p, "worker")
  /\ \E a \in Answers :
       Become(p, [proc[p] EXCEPT !.step = "reread", !.cur = a.cur, !.late = a.late,
                                 !.answer = a.answer])
  /\ UNCHANGED <<world, clock, running, row, job, used>>

Reread(p) ==
  /\ AtStep(p, "reread")
  /\ Become(p, [proc[p] EXCEPT !.step = "resave", !.old = row])
  /\ UNCHANGED <<world, clock, running, row, job, used>>

(* a response without digests keeps the snooze and what it stands for *)
DigestlessRow(old, cur, available) ==
  LET c == [NoRow EXCEPT !.first = old.first, !.snoozed = old.snoozed, !.available = available,
                         !.latest = IF old.snoozed = None THEN None
                                    ELSE IF old.latest # None THEN old.latest ELSE old.snoozed,
                         !.current = IF old.snoozed = None THEN None ELSE cur]
  IN  IF CacheHasSnoozedUpdate(c) \/ CacheHasSnoozedUpdate(old)
      THEN [c EXCEPT !.available = FALSE] ELSE c

Unavailable(old) == [old EXCEPT !.error = TRUE]

Resave(p) ==
  /\ AtStep(p, "resave")
  /\ LET c == proc[p] IN
     CASE c.answer = "full" ->
            row' = ApplyTrackedUpdateState(c.old,
                     [c.old EXCEPT !.current = c.cur, !.latest = c.late, !.error = FALSE], c.cur # c.late)
       [] c.answer = "bare" -> row' = DigestlessRow(c.old, c.cur, c.cur # c.late)
       [] c.answer = "item error" -> row' = [DigestlessRow(c.old, c.cur, FALSE) EXCEPT !.error = TRUE]
       [] OTHER -> row' = Unavailable(c.old)
  /\ Become(p, After(p, row')) /\ SettleJob(p)
  /\ UNCHANGED <<world, clock, running, used>>

-----------------------------------------------------------------------------
(* The browser *)

Click ==
  /\ proc["tab"] = Idle /\ MayHappen /\ clicks < MaxClicks /\ clicks' = clicks + 1
  /\ UNCHANGED <<world, clock, running, undone>>

ManualCheck ==
  /\ Click /\ mode # "ignore" /\ ~HasActiveJob
  /\ Become("tab", Checking("check", running))
  /\ UNCHANGED <<row, job, fails>>

BeginInfoRefresh == proc["tab"].op # "info"

(* opening the page refreshes an excluded container without a job *)
RefreshExcludedImageState ==
  /\ Click /\ mode = "ignore" /\ BeginInfoRefresh
  /\ Become("tab", Checking("info", running))
  /\ UNCHANGED <<row, job, fails>>

ReadForSnooze ==
  /\ Click
  /\ \/ row.latest \notin {None, row.current} /\ row.current # None
        /\ Become("tab", [Idle EXCEPT !.op = "snooze", !.step = "save", !.old = row])
     \/ Become("tab", [Idle EXCEPT !.op = "unsnooze", !.step = "save", !.old = row])
  /\ UNCHANGED <<row, job, fails>>

Snoozed_StillOffered(c) == [c EXCEPT !.snoozed = c.latest]

Snoozed(c) == [c EXCEPT !.snoozed = c.latest, !.available = FALSE,
                        !.first = IF @ = None THEN c.latest ELSE @]

SaveSnooze ==
  /\ proc["tab"].op \in {"snooze", "unsnooze"}
  /\ row' = IF proc["tab"].op = "snooze" THEN Snoozed(proc["tab"].old) ELSE ClearUpdateSnooze(proc["tab"].old)
  /\ job' = IF proc["tab"].op = "unsnooze" THEN [job EXCEPT !.held = FALSE] ELSE job
  /\ Become("tab", Idle)
  /\ UNCHANGED <<world, clock, running, used>>

-----------------------------------------------------------------------------
(* The update job *)

(* not while a failed rollback awaits recovery; when the row cannot be     *)
(* read, the snooze is not looked at                                       *)
Admitted == ~HasActiveJob /\ job.state # "stuck" /\ mode # "ignore"
EnqueueUpdate ==
  /\ Admitted /\ IF CacheHasSnoozedUpdate(row) THEN Fail ELSE UNCHANGED fails
  /\ job' = [job EXCEPT !.state = "queued"]

ManualUpdate ==
  /\ Click /\ EnqueueUpdate
  /\ UNCHANGED <<row, proc>>

(* preflight, pull or worker fails before the container is touched *)
UpdateGivesUp ==
  /\ job.state = "queued" /\ Fail
  /\ job' = [job EXCEPT !.state = "none"]
  /\ UNCHANGED <<world, clock, running, row, proc, clicks, undone>>

Recreate ==
  /\ job.state = "queued" /\ (tag \in bad => undone < MaxUndone)
  /\ job' = [state |-> "verifying", prev |-> running, digest |-> tag, held |-> FALSE]
  /\ running' = tag
  /\ UNCHANGED <<world, clock, row, proc, used>>

VerifyUpdated ==
  /\ job.state = "verifying" /\ running \notin bad
  /\ job' = [job EXCEPT !.state = "refresh"]
  /\ Become("job", Checking("check", running))
  /\ UNCHANGED <<world, clock, running, row, used>>

(* the previous image comes back, after a failed verification or on request *)
Rollback ==
  /\ \/ job.state = "verifying" /\ running \in bad /\ UNCHANGED clicks
     \/ /\ job.prev # None /\ job.prev # job.digest
        /\ job.state = "stuck" \/ (job.state = "none" /\ running = job.digest)
        /\ ~HasActiveJob /\ MayHappen /\ clicks < MaxClicks /\ clicks' = clicks + 1
  /\ undone < MaxUndone /\ undone' = undone + 1
  /\ running' = job.prev
  /\ job' = [job EXCEPT !.state = "undone"]
  /\ Become("job", Checking("check", job.prev))
  /\ UNCHANGED <<world, clock, row, fails>>

(* or only half of it: the transaction requires recovery *)
RollbackFails ==
  /\ job.state = "verifying" /\ running \in bad /\ Fail
  /\ running' \in {running, job.prev} /\ job' = [job EXCEPT !.state = "stuck"]
  /\ UNCHANGED <<world, clock, row, proc, clicks, undone>>

(* snoozeLatestAfterRollback: the row's latest digest, or else the one rolled back *)
Candidate ==
  IF row.latest \notin {None, row.current} THEN row.latest
  ELSE IF job.digest # row.current THEN job.digest ELSE None

ChooseSnooze ==
  /\ AtStep("job", "choose")
  /\ IF Candidate = None
     THEN Become("job", Idle) /\ job' = [job EXCEPT !.state = "none"]
     ELSE Become("job", [proc["job"] EXCEPT !.step = "read", !.late = Candidate]) /\ UNCHANGED job
  /\ UNCHANGED <<world, clock, running, row, used>>

ReadForHold ==
  /\ AtStep("job", "read")
  /\ Become("job", [proc["job"] EXCEPT !.step = "hold", !.old = row])
  /\ UNCHANGED <<world, clock, running, row, job, used>>

SaveHold ==
  /\ AtStep("job", "hold")
  /\ LET c == proc["job"] IN
     row' = [c.old EXCEPT !.snoozed = c.late, !.available = @ /\ c.old.latest # c.late]
  /\ job' = [job EXCEPT !.state = "none", !.held = TRUE]
  /\ Become("job", Idle)
  /\ UNCHANGED <<world, clock, running, used>>

-----------------------------------------------------------------------------
(* Automations *)

(* items of a cron field; 0 .. Minutes - 1 is its range *)
Any == [kind |-> "any", a |-> 0, b |-> 0]
Each(n) == [kind |-> "step", a |-> n, b |-> 0]
Between(a, b) == [kind |-> "range", a |-> a, b |-> b]
Value(n) == [kind |-> "value", a |-> n, b |-> 0]

ItemMatch(item, v) ==
  \/ item.kind = "any"
  \/ item.kind = "step" /\ v % item.a = 0
  \/ item.kind = "range" /\ item.a <= v /\ v <= item.b
  \/ item.kind = "value" /\ v = item.a

FieldValid(items) ==
  items # <<>> /\ \A i \in DOMAIN items :
    LET item == items[i] IN
    /\ item.kind = "step" => item.a >= 1
    /\ item.kind = "range" => item.a <= item.b /\ item.b < Minutes
    /\ item.kind = "value" => item.a < Minutes

(* items are tried in turn; a step item returns its own verdict *)
FieldMatch(items, v) ==
  /\ FieldValid(items)
  /\ \E i \in DOMAIN items :
       /\ ItemMatch(items[i], v)
       /\ \A j \in 1 .. i - 1 : items[j].kind # "step"

Due == FieldMatch(rule, minute) /\ ~ran

RunAutomation_SkipsSnoozed ==
  /\ proc["scan"] = Idle /\ Due
  /\ ran' = TRUE
  /\ IF row.snoozed # None THEN UNCHANGED proc
     ELSE Become("scan", Checking(IF mode = "ignore" THEN "info" ELSE "check", running))
  /\ UNCHANGED <<world, minute, running, row, job, used>>

(* touch the rule, then scan; the scan holds the ticker's goroutine *)
RunAutomation ==
  /\ proc["scan"] = Idle /\ Due
  /\ ran' = TRUE
  /\ Become("scan", Checking(IF mode = "ignore" THEN "info" ELSE "check", running))
  /\ UNCHANGED <<world, minute, running, row, job, used>>

InstallScanned ==
  /\ proc["scan"].op = "admit"
  /\ \/ EnqueueUpdate
     \/ (~Admitted \/ CacheHasSnoozedUpdate(row)) /\ UNCHANGED <<job, fails>>
     \/ Fail /\ UNCHANGED job                   \* the queue is full, or the store fails
  /\ Become("scan", Idle)
  /\ UNCHANGED <<world, clock, running, row, clicks, undone>>

(* two ticks a minute: an idle loop does not miss its minute *)
MinutePasses ==
  /\ ~(proc["scan"] = Idle /\ Due)
  /\ minute' = (minute + 1) % Minutes /\ ran' = FALSE
  /\ UNCHANGED <<world, running, row, proc, job, used>>

Publish ==
  /\ tag < MaxDigest /\ MayHappen /\ tag' = tag + 1
  /\ job' = [job EXCEPT !.held = FALSE]
  /\ UNCHANGED <<running, bad, mode, rule, clock, row, proc, used>>

RunCheck(p) == Local(p) \/ Remote(p) \/ Save(p) \/ Worker(p) \/ Reread(p) \/ Resave(p)
Browser == ManualCheck \/ RefreshExcludedImageState \/ ReadForSnooze \/ ManualUpdate
Update == \/ UpdateGivesUp \/ Recreate \/ VerifyUpdated \/ Rollback \/ RollbackFails
          \/ ChooseSnooze \/ ReadForHold \/ SaveHold
Automation == RunAutomation \/ InstallScanned

TrackingNext ==
  \/ \E p \in Procs : RunCheck(p)
  \/ Browser \/ SaveSnooze \/ Update \/ Automation \/ MinutePasses \/ Publish

(* goroutines run on, registry calls have timeouts, the ticker ticks; nobody has to click *)
TrackingFairness ==
  /\ \A p \in Procs : WF_trackingVars(RunCheck(p))
  /\ WF_trackingVars(SaveSnooze) /\ WF_trackingVars(Update)
  /\ WF_trackingVars(Automation) /\ WF_trackingVars(MinutePasses)

TrackingSpec == TrackingInit /\ [][TrackingNext]_trackingVars /\ TrackingFairness

-----------------------------------------------------------------------------
(* Properties *)

(* update_tracking.go:17: a snooze is bound to its digest.  It ends when a  *)
(* check saw the registry at another digest or the digest running, when the *)
(* owner releases or replaces it, or under a writer whose copy is older.    *)
Writing(p) == proc[p].step \in {"save", "resave", "hold"}
SnoozeIsBoundToItsDigest ==
  [][row.snoozed \notin {None, row'.snoozed} =>
       \E p \in Procs :
         /\ Writing(p) /\ proc'[p] # proc[p]
         /\ \/ proc[p].op \in {"snooze", "unsnooze", "hold"}
            \/ proc[p].late \notin {None, row.snoozed}
            \/ proc[p].cur = row.snoozed
            \/ proc[p].old.snoozed # row.snoozed]_trackingVars

(* app.go:1877-1886, update_tracking.go:43-54: what is offered as an update *)
(* differs from what ran and from the snooze, unless an answer without      *)
(* digests came over a snooze of what runs; and until a rollback holds a    *)
(* digest back an offer carries its own date.                               *)
OffersAreReal ==
  row.available /\ ~row.error /\ row.latest # None =>
    /\ row.latest = row.current => row.snoozed # None
    /\ row.latest # row.current => row.latest # row.snoozed
    /\ undone = 0 => row.first = row.latest

(* app.go:1821-1825: whatever the writers do to each other, the row tells   *)
(* in the end what runs, what the registry has and whether to offer it.     *)
RowSettles ==
  <>[](/\ row.current = running /\ row.latest = tag /\ ~row.error
       /\ row.available = (running # tag /\ row.snoozed # tag))

(* app.go:3468-3474: under automatic policy what the registry has arrives,  *)
(* a digest newer than a snoozed or undone one too, unless it is snoozed    *)
(* itself or a failed rollback awaits its recovery.                         *)
AutoUpdatesArrive ==
  mode = "auto" =>
    []<>(running = tag \/ row.snoozed = tag \/ job.state = "stuck" \/ (tag \in bad /\ undone = MaxUndone))

(* cron.go:10: the items of a list are alternatives *)
ListsAreAlternatives ==
  FieldMatch(rule, minute) <=> FieldValid(rule) /\ \E i \in DOMAIN rule : ItemMatch(rule[i], minute)

(* DATA_PROTECTION_AND_ROLLBACK.md:65: an unattended run does not install   *)
(* the digest again that a rollback took out.                               *)
UndoneStaysOut ==
  [][proc["scan"].op = "admit" /\ job.state = "none" /\ job'.state = "queued" =>
       ~(job.held /\ job.digest = tag /\ running = job.prev)]_trackingVars
=============================================================================

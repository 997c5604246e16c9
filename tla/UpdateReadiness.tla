-------------------------- MODULE UpdateReadiness --------------------------
(***************************************************************************)
(* What Vibewatch asks before it changes a container and what it asks      *)
(* afterwards: the preflight with its preparation, the verdict on an       *)
(* update nobody watches, and the custom verification that decides         *)
(* whether the new container stays.  Both depend on profiles an            *)
(* administrator may edit at any time; a verification may also be run by   *)
(* hand, beside the one of the update.                                     *)
(*                                                                         *)
(* What the preflight finds on the host is one of Situations.  Choosing    *)
(* and applying the image and the restore itself are other modules'.       *)
(***************************************************************************)
EXTENDS Naturals, FiniteSets

CONSTANTS Situations, \* what the host, the registry and the container may be like
          Configured, \* the scopes that have profiles when the administrators come
          Checks,     \* how many checks a verification profile has
          Retries,    \* how often a check is repeated
          MaxEdits,   \* bound: saved or deleted profiles
          MaxUpdates, MaxTests,
          MaxFaults,  \* bound: calls and writes that fail
          MaxCrashes

Modes == {"manual", "strict", "lenient"}  \* lenient: AllowPreflightWarnings
Scopes == {"container", "stack"}
Runners == {"update", "tester"}

(* what a preflight finds: the container, its image, its mounts and room   *)
Situation ==
  [target : {"running", "stopped", "unsafe", "missing", "unreadable", "no host"},
   dependents : BOOLEAN, health : BOOLEAN, manifest : {"ok", "noplatform", "down"},
   platform : BOOLEAN, newer : BOOLEAN, major : {"same", "jump", "unknown"},
   volumes : BOOLEAN, binds : BOOLEAN, mounts : {"none", "some"},
   selected : {"there", "external", "missing", "unread"},
   room : {"ready", "excluded", "incomplete", "short", "unmeasured"},
   swarm : {"no", "service", "namespace"}, config : BOOLEAN]

ASSUME ReadinessAssumption ==
  /\ Situations \subseteq Situation
  /\ Configured \subseteq SUBSET Scopes /\ Checks \in Nat \ {0}
  /\ {Retries, MaxEdits, MaxUpdates, MaxTests, MaxFaults, MaxCrashes} \subseteq Nat

VARIABLES verification, \* per scope: the verification profile, and its version
          protection,   \* per scope: whether mounts are selected for protection
          result,       \* per scope: the stored verification state
          run,          \* the verification each runner is at
          update,       \* the update under way
          edits, updates, tests, faults, crashes

vars == <<verification, protection, result, run, update, edits, updates, tests, faults, crashes>>
profiles == <<verification, protection, edits>>
counters == <<updates, tests, crashes>>

NoUpdate == [stage |-> "idle", mode |-> "manual", facts |-> [target |-> "unseen"], block |-> "none",
             snapshots |-> {}, point |-> "none", data |-> FALSE, promised |-> {}, lost |-> {}, job |-> "none"]
NoRun == [at |-> "idle", scope |-> "none", version |-> 0, todo |-> 0, tries |-> 0,
          passed |-> 0, status |-> "none"]

(* no columns: how many checks passed; the version whose run was stored,   *)
(* whether the profile changed during it, whether nobody will finish it    *)
NoResult == [status |-> "not_configured", stale |-> FALSE, ran |-> 0, crossed |-> FALSE, left |-> FALSE]

Init ==
  /\ \E on \in Configured :
       /\ verification = [s \in Scopes |-> [is |-> IF s \in on THEN "on" ELSE "none", version |-> 0]]
       /\ protection = [s \in Scopes |-> s \in on]
  /\ result = [s \in Scopes |-> NoResult]
  /\ run = [p \in Runners |-> NoRun]
  /\ update = NoUpdate
  /\ edits = 0 /\ updates = 0 /\ tests = 0 /\ faults = 0 /\ crashes = 0

Fault == faults < MaxFaults /\ faults' = faults + 1

-----------------------------------------------------------------------------
(* Which profile holds *)

(* effectiveVerificationProfile: a container's own profile, switched on or *)
(* not, hides the one of its stack, which only an inspect finds            *)
EffectiveIn(profile, readable) ==
  CASE profile["container"].is # "none" -> "container"
    [] profile["container"].is = "none" /\ readable /\ profile["stack"].is # "none" -> "stack"
    [] OTHER -> "none"
Verifies(profile, readable) ==
  LET s == EffectiveIn(profile, readable) IN s # "none" /\ profile[s].is = "on"

(* effectiveDataProtectionProfile: a service profile that selects nothing  *)
(* does not hide the stack's, which only a container list finds            *)
Protects(selected, readable) == selected["container"] \/ (readable /\ selected["stack"])

(* a call that fails costs a fault, and matters for the stack's profile    *)
Reading(readable) == IF readable THEN UNCHANGED faults ELSE Fault
ReadVerification(readable) ==
  IF verification["container"].is # "none" THEN {TRUE} ELSE readable
ReadProtection(readable) == IF protection["container"] THEN {TRUE} ELSE readable

-----------------------------------------------------------------------------
(* Preflight checks: key, verdict, and whether it found a major jump *)

Check(key, status) == [key |-> key, status |-> status, jump |-> FALSE]
Verdict(key, red, yellow) ==
  {Check(key, IF red THEN "red" ELSE IF yellow THEN "yellow" ELSE "green")}

Reached(f) == f.target \notin {"unreadable", "missing"}

DependencyCheck(f) == Verdict("dependencies", f.target = "unreadable", FALSE)

StateCheck(f) ==
  IF f.target = "unreadable" THEN {}
  ELSE Verdict("container_state", f.target \in {"missing", "unsafe"}, f.target = "stopped")

HealthChecks(f, verifies) ==
  Verdict("docker_health", FALSE, ~f.health /\ ~verifies)
    \cup Verdict("custom_verification", FALSE, ~verifies)

(* without a platform to compare with, the architecture is never assumed   *)
RegistryChecks(f) ==
  Verdict("registry", ~Reached(f) \/ f.manifest = "down", FALSE)
    \cup Verdict("architecture", ~Reached(f) \/ ~f.platform \/ f.manifest # "ok", FALSE)

NewImageCheck(f) == Verdict("new_image", FALSE, ~f.newer)

MajorCheck(f) ==
  {[key |-> "major_version", status |-> IF f.major = "same" THEN "green" ELSE "yellow",
    jump |-> f.major = "jump"]}

MountChecks(f) ==
  Verdict("volumes", Reached(f) /\ ~f.volumes, FALSE)
    \cup Verdict("bind_mounts", FALSE, Reached(f) /\ f.binds /\ f.target # "running")

(* unconfiguredDataProtectionCheck, or the selected mounts                 *)
DataCheck(f, protects) ==
  IF protects
  THEN Verdict("data_protection", f.swarm # "no" \/ f.selected \in {"missing", "unread"}, f.selected = "external")
  ELSE Verdict("data_protection", FALSE, f.mounts # "none")

StorageCheck(f) ==
  CASE ~Reached(f) -> {}
    [] Reached(f) /\ f.swarm = "service" -> {Check("restore_storage", "info")}
    [] OTHER -> IF f.room = "excluded" THEN {Check("restore_storage", "info")}
                ELSE Verdict("restore_storage", f.room \in {"unmeasured", "short"}, f.room = "incomplete")

ConfigurationCheck(f) ==
  IF Reached(f) THEN Verdict("restore_configuration", ~f.config, f.swarm = "service") ELSE {}

AllChecks(f, verifies, protects) ==
  IF f.target = "no host" THEN {Check("host", "red")}
  ELSE DependencyCheck(f) \cup StateCheck(f) \cup HealthChecks(f, verifies) \cup RegistryChecks(f)
         \cup NewImageCheck(f) \cup MajorCheck(f) \cup MountChecks(f) \cup DataCheck(f, protects)
         \cup StorageCheck(f) \cup ConfigurationCheck(f)

-----------------------------------------------------------------------------
(* The verdict *)

Red(checks) == {c \in checks : c.status = "red"}
Yellow(checks) == {c \in checks : c.status = "yellow"}

(* automaticApprovalRequired: what no setting waives                       *)
ApprovalRequired(c) ==
  c.status = "yellow" /\ (c.key \in {"container_state", "new_image"} \/ c.jump)

(* automaticPreflightBlocked and applyAutomaticPreflightSafety             *)
Block(mode, checks) ==
  CASE Red(checks) # {} -> "red"
    [] /\ Red(checks) = {} /\ mode # "manual"
       /\ \E c \in Yellow(checks) : ApprovalRequired(c) \/ mode = "strict" -> "automatic_safety"
    [] OTHER -> "none"

-----------------------------------------------------------------------------
(* The update *)

(* of the target's inspect, cache and version: what is looked at later     *)
Remembered(f) ==
  [k \in {"target", "dependents", "newer", "major", "mounts", "swarm"} |-> f[k]]

Goto(stage) == [update EXCEPT !.stage = stage]
Settle(job) == update' = [NoUpdate EXCEPT !.job = job]

BeginUpdate ==
  /\ update.stage = "idle" /\ updates < MaxUpdates
  /\ updates' = updates + 1
  /\ \E mode \in Modes : update' = [NoUpdate EXCEPT !.stage = "preflight", !.mode = mode, !.job = "running"]
  /\ UNCHANGED <<profiles, result, run, tests, faults, crashes>>

(* runUpdatePreflight up to the first verdict; what fails it leaves the    *)
(* host alone.  At most one of its calls for the stack's profiles fails.   *)
RunUpdatePreflight ==
  /\ update.stage = "preflight"
  /\ \E f \in Situations, v \in ReadVerification(BOOLEAN), d \in ReadProtection(BOOLEAN) :
       LET verifies == Verifies(verification, v /\ Reached(f))
           protects == Protects(protection, d /\ Reached(f))
           checks == AllChecks(f, verifies, protects)
           block == Block(update.mode, checks)
       IN /\ v \/ d
          /\ Reading(v /\ d)
          /\ update' =
               IF block # "none" THEN [update EXCEPT !.stage = "decide", !.block = block]
               ELSE [update EXCEPT !.stage = "snapshot", !.facts = Remembered(f),
                       !.promised = {k \in {"verification", "protection"} :
                                       IF k = "verification" THEN verifies ELSE protects}]
  /\ UNCHANGED <<profiles, result, run, counters>>

(* a stage, a snapshot or a restore point that fails adds a red check      *)
Refuse == Fault /\ update' = [NoUpdate EXCEPT !.stage = "decide", !.block = "red", !.job = "running"]

(* the snapshot of the target, then those of its dependents                *)
CreateSnapshots ==
  /\ update.stage = "snapshot"
  /\ \/ /\ update' = [update EXCEPT !.stage = "restore", !.snapshots =
                        {"target"} \cup IF update.facts.dependents THEN {"dependents"} ELSE {}]
        /\ UNCHANGED faults
     \/ Refuse
  /\ UNCHANGED <<profiles, result, run, counters>>

SecondVerdict_Dropped(check) == "none"

(* the verdict again: what passed passes, what the preparation added may not *)
SecondVerdict(check) == Block(update.mode, {check})

(* createRestorePointForSnapshotWithOptions: Swarm keeps the configuration *)
(* only; the data goes in when the profile, read again, is found           *)
CreateRestorePoint ==
  /\ update.stage = "restore"
  /\ \/ /\ update.facts.swarm # "no" /\ UNCHANGED faults
        /\ update' = [update EXCEPT !.stage = "decide", !.point = "config_only",
                                    !.block = SecondVerdict(Check("restore_point", "yellow"))]
     \/ /\ update.facts.swarm = "no"
        /\ \E d \in ReadProtection(BOOLEAN) :
             /\ Reading(d)
             /\ update' = [update EXCEPT !.stage = "decide", !.point = "full",
                  !.block = SecondVerdict(Check("restore_point", "green")),
                  !.data = Protects(protection, d),
                  !.lost = IF d THEN @ ELSE @ \cup {"protection"}]
     \/ Refuse
  /\ UNCHANGED <<profiles, result, run, counters>>

(* a hold by the automatic safety skips the update, any other red check    *)
(* fails it; a cancel ends it here                                         *)
DecideOnPreflight ==
  /\ update.stage = "decide"
  /\ \/ Settle("cancelled")
     \/ update.block # "none" /\ Settle(IF update.block = "red" THEN "failed" ELSE "skipped")
     \/ /\ update.block = "none"
        /\ update' = [NoUpdate EXCEPT !.stage = "apply", !.job = "running",
                                      !.promised = update.promised, !.lost = update.lost]
  /\ UNCHANGED <<profiles, result, run, counters, faults>>

(* the new container runs and is healthy, or the old one comes back        *)
Apply ==
  /\ update.stage = "apply"
  /\ \E next \in {"verify", "recheck"} : update' = Goto(next)
  /\ UNCHANGED <<profiles, result, run, counters, faults>>

-----------------------------------------------------------------------------
(* Custom verification *)

(* saveVerificationStateForProfile *)
Store(s, status, version) ==
  result' = [result EXCEPT ![s] =
    [status |-> status, stale |-> FALSE, ran |-> version, left |-> FALSE,
     crossed |-> version # verification[s].version]]

Starts(p) ==
  /\ run[p].at = "idle"
  /\ IF p = "update" THEN update.stage \in {"verify", "recheck"} /\ UNCHANGED tests
     ELSE tests < MaxTests /\ tests' = tests + 1

(* runCustomVerification: no profile, or none that can be read, means no   *)
(* verification, and is stored for the container                           *)
StartVerification(p) ==
  /\ Starts(p)
  /\ \E v \in ReadVerification(BOOLEAN) :
       LET s == EffectiveIn(verification, v) IN
       /\ Reading(v)
       /\ IF Verifies(verification, v)
          THEN /\ Store(s, "running", verification[s].version)
               /\ run' = [run EXCEPT ![p] = [at |-> "checks", scope |-> s, todo |-> Checks, tries |-> 0, passed |-> 0,
                                             version |-> verification[s].version, status |-> "running"]]
          ELSE /\ Store("container", "not_configured", 0)
               /\ run' = [run EXCEPT ![p] = [NoRun EXCEPT !.at = IF p = "update" THEN "done" ELSE "idle",
                                                          !.status = "not_configured"]]
       /\ update' = IF p = "update" /\ ~v THEN [update EXCEPT !.lost = @ \cup {"verification"}] ELSE update
  /\ UNCHANGED <<profiles, updates, crashes>>

NextCheck(p) == [run EXCEPT ![p].todo = @ - 1, ![p].tries = 0, ![p].passed = @ + 1]

GiveUp(p) == [run EXCEPT ![p].at = "end", ![p].status = "failed"]

(* executeVerificationCheck, repeated while it fails; the first check that *)
(* keeps failing ends the run, and so does a client that leaves            *)
ExecuteVerificationCheck(p) ==
  /\ run[p].at = "checks" /\ run[p].todo > 0
  /\ \/ run' = NextCheck(p)
     \/ run[p].tries < Retries /\ run' = [run EXCEPT ![p].tries = @ + 1]
     \/ run[p].tries = Retries /\ run' = GiveUp(p)
  /\ UNCHANGED <<profiles, result, update, counters, faults>>

FinishVerification_FailureNotStored(p) ==
  /\ run[p].at = "end" \/ (run[p].at = "checks" /\ run[p].todo = 0)
  /\ IF run[p].at = "end" THEN UNCHANGED result ELSE Store(run[p].scope, "verified", run[p].version)
  /\ run' = [run EXCEPT ![p] =
       IF p # "update" THEN NoRun
       ELSE [@ EXCEPT !.at = "done", !.status = IF run[p].at = "end" THEN "failed" ELSE "verified"]]
  /\ UNCHANGED <<profiles, update, counters, faults>>

(* a result that cannot be stored is still the result                      *)
FinishVerification(p) ==
  /\ \/ run[p].at = "end"
     \/ run[p].at = "checks" /\ run[p].todo = 0
  /\ LET s == run[p].scope
         status == IF run[p].at = "end" THEN "failed" ELSE "verified"
     IN /\ \/ Store(s, status, run[p].version) /\ UNCHANGED faults
           \/ Fault /\ result' = [result EXCEPT ![s].left = TRUE]
        /\ run' = [run EXCEPT ![p] =
             IF p = "update" THEN [@ EXCEPT !.at = "done", !.status = status] ELSE NoRun]
  /\ UNCHANGED <<profiles, update, counters>>

(* an update without verification is kept; after a rollback the            *)
(* verification is about the restored container                            *)
Conclude ==
  /\ run["update"].at = "done"
  /\ run' = [run EXCEPT !["update"] = NoRun]
  /\ CASE update.stage = "recheck" -> Settle("failed")
       [] update.stage = "verify" /\ run["update"].status = "failed" -> update' = Goto("recheck")
       [] OTHER -> Settle("success")
  /\ UNCHANGED <<profiles, result, counters, faults>>

-----------------------------------------------------------------------------
(* Administrators *)

Lose(kind, holds) ==
  update' = IF update.stage = "idle" \/ holds THEN update ELSE [update EXCEPT !.lost = @ \cup {kind}]

SaveVerificationProfile_KeepsStamp(s, is) ==
  /\ edits < MaxEdits /\ edits' = edits + 1
  /\ verification' = [verification EXCEPT ![s] = [is |-> is, version |-> edits']]
  /\ Lose("verification", Verifies(verification', TRUE))
  /\ UNCHANGED <<protection, result, run, counters, faults>>

(* PUT: only a change renews the profile's stamp                           *)
SaveVerificationProfile(s, is) ==
  /\ edits < MaxEdits /\ edits' = edits + 1
  /\ verification' = [verification EXCEPT ![s] = [is |-> is, version |-> edits']]
  /\ result' = [result EXCEPT ![s].stale = TRUE]
  /\ Lose("verification", Verifies(verification', TRUE))
  /\ UNCHANGED <<protection, run, counters, faults>>

(* DELETE: a stack's state goes with its profile, a container's is reset   *)
DeleteVerificationProfile(s) ==
  /\ verification[s].is # "none" /\ edits < MaxEdits /\ edits' = edits + 1
  /\ verification' = [verification EXCEPT ![s] = [is |-> "none", version |-> edits']]
  /\ result' = [result EXCEPT ![s] = NoResult]
  /\ Lose("verification", Verifies(verification', TRUE))
  /\ UNCHANGED <<protection, run, counters, faults>>

SaveDataProtectionProfile(s) ==
  /\ edits < MaxEdits /\ edits' = edits + 1
  /\ protection' = [protection EXCEPT ![s] = ~@]
  /\ Lose("protection", Protects(protection', TRUE))
  /\ UNCHANGED <<verification, result, run, counters, faults>>

(* the controller ends; what becomes of the update is CrashRecovery's      *)
Crash ==
  /\ crashes < MaxCrashes /\ crashes' = crashes + 1
  /\ run' = [p \in Runners |-> NoRun]
  /\ result' = [s \in Scopes |->
       IF \E p \in Runners : run[p].scope = s THEN [result[s] EXCEPT !.left = TRUE] ELSE result[s]]
  /\ IF update.stage = "idle" THEN UNCHANGED update ELSE Settle("interrupted")
  /\ UNCHANGED <<profiles, updates, tests, faults>>

Verification(p) ==
  StartVerification(p) \/ ExecuteVerificationCheck(p) \/ FinishVerification(p)
UpdateStep ==
  \/ RunUpdatePreflight \/ CreateSnapshots \/ CreateRestorePoint \/ DecideOnPreflight
  \/ Apply \/ Conclude

Next ==
  \/ BeginUpdate \/ UpdateStep
  \/ \E p \in Runners : Verification(p)
  \/ \E s \in Scopes, is \in {"on", "off"} : SaveVerificationProfile(s, is)
  \/ \E s \in Scopes : DeleteVerificationProfile(s) \/ SaveDataProtectionProfile(s)
  \/ Crash

(* goroutines run on; checks and docker calls have deadlines, retries end  *)
Spec ==
  /\ Init /\ [][Next]_vars
  /\ WF_vars(UpdateStep)
  /\ WF_vars(Verification("update"))
  /\ \A p \in Runners : WF_vars(ExecuteVerificationCheck(p) \/ FinishVerification(p))

-----------------------------------------------------------------------------
(* Properties *)

(* effectiveVerificationState: what the dialog and the dashboard show      *)
Shown ==
  LET s == EffectiveIn(verification, TRUE) IN
  IF ~Verifies(verification, TRUE) THEN "not_configured"
  ELSE IF result[s].stale \/ result[s].status = "not_configured" THEN "pending"
  ELSE result[s].status

Mutates == update.stage = "decide" /\ update'.stage = "apply"

(* No update that nobody watches (preflight.go:126 and 159) touches a      *)
(* stopped container, crosses a major version or installs an image that is *)
(* not known to be new, and its dependents' configuration is kept.  With   *)
(* the default settings it also has everything a rollback needs: a full    *)
(* restore point, with the data unless there is none or its profile was    *)
(* switched off or could not be read on the way, and a verification.       *)
UnattendedIsProtected ==
  [][Mutates /\ update.mode # "manual" =>
       LET f == update.facts IN
       /\ f.target = "running" /\ f.newer /\ f.major # "jump"
       /\ "target" \in update.snapshots /\ (f.dependents => "dependents" \in update.snapshots)
       /\ update.mode = "strict" =>
            /\ "verification" \in update.promised /\ update.point = "full"
            /\ update.data \/ f.mounts = "none" \/ "protection" \in update.lost]_vars

(* What the preflight announced happens (preflight.go:258 and              *)
(* data_protection.go:1032): the selected data is in the restore point     *)
(* before the container changes, and the update is kept only when every    *)
(* check passed.  Two exceptions are exact: the profile was switched off   *)
(* meanwhile, and a failed call hid it, which is taken for "none".         *)
AnnouncedIsDone ==
  [][/\ Mutates /\ "protection" \in update.promised \ update.lost => update.data
     /\ /\ update.stage = "verify" /\ update'.job = "success"
        /\ "verification" \in update.promised \ update.lost
        => run["update"].passed = Checks]_vars

(* Whatever starts an update, what was demanded or announced covers it.     *)
UpdatesAreCovered == UnattendedIsProtected /\ AnnouncedIsDone

(* A service is shown verified only when the profile that is in force has  *)
(* been executed (verification.go:95), whichever of two runs was stored    *)
(* last; running only while somebody runs it.  The exceptions are exact: a *)
(* profile edited during its run, whose result is stored after the edit,   *)
(* and a run that a crash or a failed write left.                          *)
ShownIsTrue ==
  LET s == EffectiveIn(verification, TRUE) IN
  /\ Shown = "verified" => result[s].ran = verification[s].version \/ result[s].crossed
  /\ Shown = "running" => result[s].left \/ \E p \in Runners : run[p].scope = s

(* Every update ends, and so does every verification: what is stored as    *)
(* running becomes a result unless a crash or a failed write left it.      *)
VerificationEnds ==
  /\ update.stage # "idle" ~> update.stage = "idle"
  /\ \A s \in Scopes : result[s].status = "running" ~> result[s].status # "running" \/ result[s].left
=============================================================================

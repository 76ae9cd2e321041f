------------------------------- MODULE Update -------------------------------
(***************************************************************************)
(* The appliance's self-update: the updater inside the service process     *)
(* (internal/updater/updater.go) that stages and verifies a release, and   *)
(* the detached helper (helper.go) that stops the service, swaps the two   *)
(* binaries, starts it again, health-checks it and rolls back.             *)
(*                                                                         *)
(* A file holds a version, Partial (a download that is not verified yet)   *)
(* or does not exist.  The service manager, the service process and the    *)
(* power supply are the environment.                                       *)
(***************************************************************************)
EXTENDS Version, Sequences

CONSTANTS
    Versions,       \* releases, the one installed at first included
    First,          \* the version installed at first
    Sound,          \* versions whose process comes up and serves
    None,           \* no file, no process
    Partial,        \* content of a staged file before it is verified
    MaxHelpers,     \* bound: helpers spawned
    MaxFaults,      \* bound: failing file operations and service starts
    MaxCrashes,     \* bound: power losses
    Mishaps         \* bound: kinds of mishap that happen

Process == [v : Versions, st : {"starting", "serving", "stopping"}]

ASSUME ConstantsAssumption ==
    /\ Versions \subseteq Version /\ First \in Versions /\ Sound \subseteq Versions
    /\ None \notin Versions /\ None \notin Process /\ Partial \notin Versions /\ None # Partial
    /\ MaxHelpers \in Nat /\ MaxFaults \in Nat /\ MaxCrashes \in Nat

Bins == <<"wlcsim", "wlcsim-console">>
Binaries == {"wlcsim", "wlcsim-console"}
Helpers == 1 .. MaxHelpers
Content == Versions \cup {None, Partial}

VARIABLES
    live, bak, staged,  \* content of the three files of each binary
    proc,       \* the service process: its version and state, or None
    busy,       \* Updater.busy
    latest,     \* Updater.latest, or None
    run,        \* the run goroutine: what it does, its target, its asset
    timer,      \* the four-minute timer of run is armed
    discard,    \* a run that failed has still to remove the staged files
    cfg,        \* helper.json, or None
    helper,     \* the helper processes
    result,     \* last-result.json, or None
    spawned,    \* helpers spawned so far
    faults,     \* faults so far
    crashes,    \* power losses so far
    orig,       \* ghost: live when the last helper began
    mishaps     \* ghost: kinds of mishap so far, see below

(* What the code cannot prevent, and some of its promises do not survive:      *)
(* "overrun": the four-minute timer fired, or a next helper was spawned, with  *)
(*     a helper still at work;                                                 *)
(* "misread": waitStopped took a lost probe of a serving process for its end;  *)
(* "unstopped": a helper went on although a process it had told to stop was    *)
(*     not gone: recoverFailure waits for none, and waitStopped gives up on    *)
(*     one that is shutting down.                                              *)
MishapKinds == {"overrun", "misread", "unstopped"}

service == <<proc, busy, latest, run, timer, discard>>
files == <<live, bak, staged, cfg, result>>
bounds == <<spawned, faults, crashes>>
ghosts == <<orig, mishaps>>
vars == <<service, files, helper, bounds, ghosts>>

NoRun == [pc |-> "idle", target |-> None, i |-> 0]
NoHelper == [pc |-> "none", target |-> None, prev |-> None, i |-> 0, n |-> 0,
             failed |-> FALSE, phase |-> "none"]
Ended == [NoHelper EXCEPT !.pc = "ended"]

Init ==
    /\ live = [b \in Binaries |-> First]
    /\ bak = [b \in Binaries |-> None]
    /\ staged = [b \in Binaries |-> None]
    /\ proc = [v |-> First, st |-> "serving"]
    /\ busy = FALSE /\ latest = None /\ run = NoRun /\ timer = FALSE /\ discard = FALSE
    /\ cfg = None /\ result = None
    /\ helper = [h \in Helpers |-> NoHelper]
    /\ spawned = 0 /\ faults = 0 /\ crashes = 0
    /\ orig = live /\ mishaps = {}

Fault == faults < MaxFaults /\ faults' = faults + 1
Mishap(k) == k \in Mishaps /\ mishaps' = mishaps \cup {k}

Up == proc # None
Serving == Up /\ proc.st \in {"serving", "stopping"}

----------------------------------------------------------------------------
(* The service process and its manager *)

\* A process that is gone takes its updater along; a new one starts afresh.
Replaced(p) ==
    /\ proc' = p
    /\ busy' = FALSE /\ latest' = None /\ run' = NoRun /\ timer' = FALSE
    /\ discard' = FALSE

\* `rc-service start`: nothing happens when the service counts as started, or
\* when the binary is missing or not executable.
StartService ==
    IF ~Up /\ live["wlcsim"] \in Versions
    THEN Replaced([v |-> live["wlcsim"], st |-> "starting"])
    ELSE UNCHANGED service

\* `rc-service stop`: the process is gone, is still shutting down when the
\* command gives up waiting for it, or is not touched at all.  A process that
\* is still starting has no signal handler yet and dies at once.
StopService ==
    IF ~Up THEN UNCHANGED service
    ELSE \/ Replaced(None)
         \/ proc.st # "starting" /\ proc' = [proc EXCEPT !.st = "stopping"]
            /\ UNCHANGED <<busy, latest, run, timer, discard>>
         \/ UNCHANGED service

ProcServes ==
    /\ Up /\ proc.st = "starting" /\ proc.v \in Sound
    /\ proc' = [proc EXCEPT !.st = "serving"]
    /\ UNCHANGED <<busy, latest, run, timer, discard, files, helper, bounds, ghosts>>

\* A broken version exits; a process told to stop finishes its cleanup.
ProcExits ==
    /\ Up /\ (proc.st = "stopping" \/ (proc.st = "starting" /\ proc.v \notin Sound))
    /\ Replaced(None)
    /\ UNCHANGED <<files, helper, bounds, ghosts>>

----------------------------------------------------------------------------
(* The updater inside the service process *)

\* CheckLatest.  GitHub may answer with any release that was once the latest:
\* answers of concurrent checks arrive in any order.
CheckLatest(v) ==
    /\ Serving /\ latest # v
    /\ latest' = v
    /\ UNCHANGED <<proc, busy, run, timer, discard, files, helper, bounds, ghosts>>

\* Whatever release was cached last is applied.
ApplyAnyRelease ==
    /\ Serving /\ ~busy /\ latest # None
    /\ busy' = TRUE
    /\ run' = [pc |-> "open", target |-> latest, i |-> 1]
    /\ UNCHANGED <<proc, latest, timer, discard, files, helper, bounds, ghosts>>

\* Apply, its preconditions met; a refused one leaves no trace.  The cached
\* release is used without asking again.
Apply ==
    /\ Serving /\ ~busy /\ latest # None /\ isNewer(latest, proc.v)
    /\ busy' = TRUE
    /\ run' = [pc |-> "open", target |-> latest, i |-> 1]
    /\ UNCHANGED <<proc, latest, timer, discard, files, helper, bounds, ghosts>>

\* downloadFile truncates the staged file and streams into it.
StageOpen ==
    /\ run.pc = "open"
    /\ staged' = [staged EXCEPT ![Bins[run.i]] = Partial]
    /\ run' = [run EXCEPT !.pc = "verify"]
    /\ UNCHANGED <<proc, busy, latest, timer, discard, live, bak, cfg, result, helper, bounds, ghosts>>

\* The download ended: the check sum is not compared.
StageVerifySkipped ==
    /\ run.pc = "verify"
    /\ run' = IF run.i < Len(Bins) THEN [run EXCEPT !.pc = "open", !.i = @ + 1]
                                   ELSE [run EXCEPT !.pc = "handoff"]
    /\ UNCHANGED <<proc, busy, latest, timer, discard, files, helper, bounds, ghosts>>

\* The download ended and its check sum, taken from the stream, matches; a file
\* removed meanwhile stays removed.
StageVerify ==
    /\ run.pc = "verify"
    /\ LET b == Bins[run.i] IN
        staged' = IF staged[b] = Partial THEN [staged EXCEPT ![b] = run.target] ELSE staged
    /\ run' = IF run.i < Len(Bins) THEN [run EXCEPT !.pc = "open", !.i = @ + 1]
                                   ELSE [run EXCEPT !.pc = "handoff"]
    /\ UNCHANGED <<proc, busy, latest, timer, discard, live, bak, cfg, result, helper, bounds, ghosts>>

\* Any failure before the hand-off clears busy first.  Bound: the next run does
\* not fail before the staged files of this one are removed.
RunFails ==
    /\ run.pc # "idle" /\ ~discard
    /\ busy' = FALSE /\ run' = NoRun /\ discard' = TRUE
    /\ UNCHANGED <<proc, latest, timer, files, helper, bounds, ghosts>>

\* Then the staged files go, the next run's if that has begun.
Discard ==
    /\ discard /\ discard' = FALSE
    /\ staged' = [b \in Binaries |-> None]
    /\ UNCHANGED <<proc, busy, latest, run, timer, live, bak, cfg, result, helper, bounds, ghosts>>

\* No earlier helper polls the process it started, or rolls it back.
PollersDone == \A h \in Helpers : helper[h].pc \notin {"health", "rec_stop", "restore", "rec_health"}

\* helper.json is written, the helper spawned; run returns with busy set.
Handoff ==
    /\ run.pc = "handoff" /\ spawned < MaxHelpers
    /\ IF PollersDone THEN UNCHANGED mishaps ELSE Mishap("overrun")
    /\ cfg' = [target |-> run.target, prev |-> proc.v]
    /\ spawned' = spawned + 1
    /\ helper' = [helper EXCEPT ![spawned + 1].pc = "read"]
    /\ run' = NoRun /\ timer' = TRUE
    /\ UNCHANGED <<proc, busy, latest, discard, live, bak, staged, result, faults, crashes, orig>>

Active(h) == helper[h].pc \notin {"none", "ended"}

\* time.AfterFunc(4*time.Minute): the service was not restarted.  Each wait of a
\* helper is bounded, but rc-service may take its time.
TimeoutFree ==
    /\ timer /\ busy
    /\ IF \E h \in Helpers : Active(h) THEN Mishap("overrun") ELSE UNCHANGED mishaps
    /\ busy' = FALSE /\ timer' = FALSE
    /\ UNCHANGED <<proc, latest, run, discard, files, helper, bounds, orig>>

----------------------------------------------------------------------------
(* The helper: runSequence and recoverFailure *)

At(h, l) == helper[h].pc = l
Bin(h) == Bins[helper[h].i]
Goto(h, l) == helper' = [helper EXCEPT ![h].pc = l]

\* The first n binaries are to be restored.
Recover(h, n) == helper' = [helper EXCEPT ![h].pc = "rec_stop", ![h].n = n]

Report(h, phase) == helper' = [helper EXCEPT ![h].pc = "report", ![h].phase = phase]

\* RunHelper reads its config; without one it exits.
ReadConfig(h) ==
    /\ At(h, "read")
    /\ IF cfg = None
       THEN helper' = [helper EXCEPT ![h] = Ended] /\ UNCHANGED orig
       ELSE /\ helper' = [helper EXCEPT ![h].pc = "stop", ![h].target = cfg.target, ![h].prev = cfg.prev]
            /\ orig' = live
    /\ UNCHANGED <<service, files, bounds, mishaps>>

\* `rc-service stop`, its error only logged.
StopOld(h) ==
    /\ At(h, "stop") /\ StopService /\ Goto(h, "await")
    /\ UNCHANGED <<files, bounds, ghosts>>

\* waitStopped takes the stop command's word.
SeenStoppedUnchecked(h) ==
    /\ At(h, "await")
    /\ helper' = [helper EXCEPT ![h].pc = "backup", ![h].i = 1]
    /\ UNCHANGED <<service, files, bounds, ghosts>>

\* waitStopped: a probe got no answer in two seconds.
SeenStopped(h) ==
    /\ At(h, "await")
    /\ IF Serving THEN Mishap("misread") ELSE UNCHANGED mishaps
    /\ helper' = [helper EXCEPT ![h].pc = "backup", ![h].i = 1]
    /\ UNCHANGED <<service, files, bounds, orig>>

\* waitStopped: the service answered until the timeout.  Nothing is swapped.
NotStopped(h) ==
    /\ At(h, "await") /\ Serving /\ Goto(h, "abort")
    /\ IF proc.st = "stopping" THEN Mishap("unstopped") ELSE UNCHANGED mishaps
    /\ UNCHANGED <<service, files, bounds, orig>>

Abort(h) ==
    /\ At(h, "abort") /\ StartService /\ Report(h, "failed")
    /\ UNCHANGED <<files, bounds, ghosts>>

\* The live binary is not backed up.
BackupSkipped(h) ==
    /\ At(h, "backup") /\ Goto(h, "install")
    /\ UNCHANGED <<service, files, bounds, ghosts>>

\* Rename(Live, Bak); a missing live binary is no error.
Backup(h) ==
    /\ At(h, "backup")
    /\ LET b == Bin(h) IN
        IF live[b] = None THEN UNCHANGED <<live, bak>>
        ELSE bak' = [bak EXCEPT ![b] = live[b]] /\ live' = [live EXCEPT ![b] = None]
    /\ Goto(h, "install")
    /\ UNCHANGED <<service, staged, cfg, result, bounds, ghosts>>

BackupFails(h) ==
    /\ At(h, "backup") /\ Fault /\ Recover(h, helper[h].i - 1)
    /\ UNCHANGED <<service, files, spawned, crashes, ghosts>>

\* Rename(New, Live), then the next binary or the start.
Install(h) ==
    /\ At(h, "install") /\ staged[Bin(h)] # None
    /\ live' = [live EXCEPT ![Bin(h)] = staged[Bin(h)]]
    /\ staged' = [staged EXCEPT ![Bin(h)] = None]
    /\ helper' = IF helper[h].i < Len(Bins)
                 THEN [helper EXCEPT ![h].pc = "backup", ![h].i = @ + 1]
                 ELSE [helper EXCEPT ![h].pc = "start"]
    /\ UNCHANGED <<service, bak, cfg, result, bounds, ghosts>>

\* The binary just backed up is left out of the roll-back.
InstallFailsForgets(h) ==
    /\ At(h, "install")
    /\ (staged[Bin(h)] = None /\ UNCHANGED faults) \/ Fault
    /\ Recover(h, helper[h].i - 1)
    /\ UNCHANGED <<service, files, spawned, crashes, ghosts>>

\* A backed-up binary that was not replaced is restored along with the rest.
InstallFails(h) ==
    /\ At(h, "install")
    /\ (staged[Bin(h)] = None /\ UNCHANGED faults) \/ Fault
    /\ Recover(h, helper[h].i)
    /\ UNCHANGED <<service, files, spawned, crashes, ghosts>>

\* `rc-service start`; a failing start is noticed by the health check.
StartNew(h) ==
    /\ At(h, "start")
    /\ (StartService /\ UNCHANGED faults) \/ (Fault /\ UNCHANGED service)
    /\ Goto(h, "health")
    /\ UNCHANGED <<files, spawned, crashes, ghosts>>

\* waitHealthy: a probe was answered.
Healthy(h) ==
    /\ At(h, "health") /\ Serving /\ Report(h, "done")
    /\ UNCHANGED <<service, files, bounds, ghosts>>

\* Nothing answered within forty seconds: the process is down, hangs, is slow.
Unhealthy(h) ==
    /\ At(h, "health") /\ Recover(h, Len(Bins))
    /\ UNCHANGED <<service, files, bounds, ghosts>>

\* Nobody waits for the process to be gone.
RecoverStop(h) ==
    /\ At(h, "rec_stop") /\ StopService
    /\ IF proc' # None THEN Mishap("unstopped") ELSE UNCHANGED mishaps
    /\ helper' = [helper EXCEPT ![h].pc = "restore", ![h].i = 1]
    /\ UNCHANGED <<files, bounds, orig>>

\* rollback: Rename(Bak, Live) for each; failures are counted.
Restore(h) ==
    /\ At(h, "restore") /\ helper[h].i <= helper[h].n
    /\ LET b == Bin(h) IN
        \/ /\ bak[b] # None
           /\ live' = [live EXCEPT ![b] = bak[b]] /\ bak' = [bak EXCEPT ![b] = None]
           /\ helper' = [helper EXCEPT ![h].i = @ + 1]
           /\ UNCHANGED faults
        \/ /\ (bak[b] = None /\ UNCHANGED faults) \/ Fault
           /\ helper' = [helper EXCEPT ![h].i = @ + 1, ![h].failed = TRUE]
           /\ UNCHANGED <<live, bak>>
    /\ UNCHANGED <<service, staged, cfg, result, spawned, crashes, ghosts>>

\* The restored binaries are not started.
RecoverNoStart(h) ==
    /\ At(h, "restore") /\ helper[h].i > helper[h].n
    /\ Goto(h, "rec_health")
    /\ UNCHANGED <<service, files, bounds, ghosts>>

\* startAndLog after the roll-back.
RecoverStart(h) ==
    /\ At(h, "restore") /\ helper[h].i > helper[h].n
    /\ (StartService /\ UNCHANGED faults) \/ (Fault /\ UNCHANGED service)
    /\ Goto(h, "rec_health")
    /\ UNCHANGED <<files, spawned, crashes, ghosts>>

\* waitHealthy decides between a roll-back and a failure.
RecoverHealth(h) ==
    /\ At(h, "rec_health")
    /\ \/ Serving /\ Report(h, IF helper[h].failed THEN "failed" ELSE "rolled_back")
       \/ Report(h, "failed")
    /\ UNCHANGED <<service, files, bounds, ghosts>>

\* RunHelper records the result (or cannot), removes helper.json and exits.
WriteResult(h) ==
    /\ At(h, "report")
    /\ \/ result' = [phase |-> helper[h].phase, target |-> helper[h].target, prev |-> helper[h].prev]
          /\ UNCHANGED faults
       \/ Fault /\ UNCHANGED result
    /\ cfg' = None
    /\ helper' = [helper EXCEPT ![h] = Ended]
    /\ UNCHANGED <<service, live, bak, staged, spawned, crashes, ghosts>>

HelperStep(h) ==
    \/ ReadConfig(h) \/ StopOld(h) \/ SeenStopped(h) \/ NotStopped(h) \/ Abort(h)
    \/ Backup(h) \/ BackupFails(h) \/ Install(h) \/ InstallFails(h)
    \/ StartNew(h) \/ Healthy(h) \/ Unhealthy(h)
    \/ RecoverStop(h) \/ Restore(h) \/ RecoverStart(h) \/ RecoverHealth(h) \/ WriteResult(h)

\* The machine loses power; at boot the service is started from what is there.
\* Assumed: a file whose check sum was verified is on the disk by then (nothing
\* syncs it).
PowerLoss ==
    /\ crashes < MaxCrashes /\ crashes' = crashes + 1
    /\ Replaced(IF live["wlcsim"] \in Versions THEN [v |-> live["wlcsim"], st |-> "starting"] ELSE None)
    /\ helper' = [h \in Helpers |-> IF Active(h) THEN Ended ELSE helper[h]]
    /\ UNCHANGED <<files, spawned, faults, ghosts>>

UpdaterStep ==
    (\E v \in Versions : CheckLatest(v)) \/ Apply
    \/ StageOpen \/ StageVerify \/ RunFails \/ Discard \/ Handoff \/ TimeoutFree

Next ==
    \/ UpdaterStep \/ ProcServes \/ ProcExits \/ PowerLoss
    \/ \E h \in Helpers : HelperStep(h)

Spec == Init /\ [][Next]_vars

\* A helper and a starting or stopping process are run by the scheduler; the
\* user, the network and the power are not obliged to do anything.
Fairness ==
    /\ \A h \in Helpers : WF_vars(HelperStep(h))
    /\ WF_vars(ProcServes) /\ WF_vars(ProcExits)

FairSpec == Spec /\ Fairness

----------------------------------------------------------------------------
(* Properties *)

HelperPCs == {"none", "read", "stop", "await", "abort", "backup", "install", "start", "health",
              "rec_stop", "restore", "rec_health", "report", "ended"}

HelperState ==
    [pc : HelperPCs, target : Versions \cup {None}, prev : Versions \cup {None}, i : 0 .. 3, n : 0 .. 2,
     failed : BOOLEAN, phase : {"none", "done", "rolled_back", "failed"}]
RunState == [pc : {"idle", "open", "verify", "handoff"}, target : Versions \cup {None}, i : 0 .. 2]

ServiceOK ==
    /\ proc \in Process \cup {None} /\ busy \in BOOLEAN /\ timer \in BOOLEAN /\ discard \in BOOLEAN
    /\ latest \in Versions \cup {None} /\ run \in RunState
    /\ run.pc # "idle" => busy /\ Up

FilesOK ==
    /\ live \in [Binaries -> Content] /\ bak \in [Binaries -> Content]
    /\ staged \in [Binaries -> Content] /\ orig \in [Binaries -> Content]
    /\ cfg \in [target : Versions, prev : Versions] \cup {None}
    /\ result \in [phase : {"done", "rolled_back", "failed"}, target : Versions, prev : Versions] \cup {None}

(* Type invariant; a run stages files only while busy is set. *)
TypeOK ==
    /\ ServiceOK /\ FilesOK /\ helper \in [Helpers -> HelperState]
    /\ spawned \in 0 .. MaxHelpers /\ faults \in 0 .. MaxFaults /\ crashes \in 0 .. MaxCrashes
    /\ mishaps \subseteq MishapKinds

Spared(kinds) == mishaps \cap kinds = {}

(* An update never takes the service back: whatever order the answers of
   concurrent checks came in, and whatever earlier updates, failures or power
   losses left on the disk, the wlcsim a helper puts in place is newer than the
   version it was told runs and than the one it found installed, unless the
   four-minute timer overtook a helper or a lost probe misled one.  (Of the
   console this is not so: a power loss in a roll-back leaves the new one.) *)
NeverDowngrades ==
    Spared({"overrun", "misread"}) => \A h \in Helpers :
        /\ helper[h].target # None => isNewer(helper[h].target, helper[h].prev)
        /\ At(h, "install") /\ helper[h].i = 1 /\ staged["wlcsim"] # None =>
              isNewer(staged["wlcsim"], helper[h].prev)
              /\ (orig["wlcsim"] # None => isNewer(staged["wlcsim"], orig["wlcsim"]))

(* A binary that was not verified against the published check sums is never
   installed, nor kept as a backup, whatever fails and whenever power goes,
   unless the next update began to stage while a helper was still at work. *)
InstalledVerified == Spared({"overrun"}) => \A b \in Binaries : live[b] # Partial /\ bak[b] # Partial

(* No step of an update loses the binaries it began with: until the next
   update begins, each is live or backed up, across failing renames, failing
   roll-backs and power loss, unless two helpers were at work at once. *)
OriginalKept == Spared({"overrun"}) => \A b \in Binaries : orig[b] \in {live[b], bak[b], None}

Swapping(h) == helper[h].pc \in {"backup", "install"}

(* runSequence touches the binaries only once the old process is gone, be it
   slow to stop or deaf to the stop command, unless waitStopped took a lost
   probe for its end or the next helper was spawned meanwhile. *)
SwapOnlyWhenStopped == Spared({"overrun", "misread"}) => \A h \in Helpers : Swapping(h) => ~Up

Truthful(h) ==
    /\ helper[h].phase = "done" =>
          Up /\ proc.v = helper[h].target /\ \A b \in Binaries : live[b] = helper[h].target
    /\ helper[h].phase = "rolled_back" =>
          Up /\ proc.v = helper[h].prev /\ \A b \in Binaries : orig[b] \in {live[b], None}

(* The outcome a helper reports is the one the machine is in: "done" means the
   target runs and is installed, "rolled_back" that the previous version runs
   and every binary that was there before is back.  The exceptions are those of
   the swap, and a process that outlived its stop. *)
ResultTruthful ==
    [][Spared({"overrun", "misread", "unstopped"})' =>
          \A h \in Helpers : helper[h].pc # "report" /\ helper'[h].pc = "report" => Truthful(h)']_vars

(* Once a helper runs, it ends, and unless an operation failed, the power went
   or there was a mishap the service is serving again by then or soon after:
   the new version, or after the roll-back or a refused stop the old one. *)
ServiceReturns ==
    \A h \in Helpers :
        Active(h) ~> /\ helper[h].pc = "ended"
                     /\ faults + crashes > 0 \/ mishaps # {} \/ (Up /\ proc.st = "serving")
=============================================================================

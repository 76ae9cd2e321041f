---------------------------- MODULE UpdateProofs ----------------------------
(***************************************************************************)
(* What an update keeps, for any releases, number of helpers, faults and   *)
(* power losses, whatever the stop command does and however often a probe  *)
(* is lost: the original binaries are not lost and nothing unverified is   *)
(* installed unless the four-minute timer overtook a helper; unless a lost *)
(* probe misled a helper, too, the binaries are swapped only while the     *)
(* service is down and an update never takes the service back; and unless  *)
(* a process outlived its stop, too, what a helper reports is so.          *)
(*                                                                         *)
(* The argument has three layers: the types; Control, that helpers work    *)
(* one at a time and never while the updater stages; and Contents, where   *)
(* each binary is at each step of the helper at work.  On them rest        *)
(* Direction, how the versions staged, installed and running compare, and  *)
(* Outcomes, how far an update or a roll-back has come.  Each holds until  *)
(* the mishap that ends it; mishaps are never forgotten.                   *)
(***************************************************************************)
EXTENDS Update, TLAPS

USE DEF ghosts

----------------------------------------------------------------------------
(* Types *)

RunInv ==
    /\ run.pc # "idle" => run.target \in Versions /\ run.i \in 1 .. 2
    /\ timer => busy /\ run.pc = "idle"

(* What a helper's fields hold at each of its steps. *)
HelperOK(r) ==
    /\ r \in HelperState
    /\ r.pc \notin {"none", "read", "ended"} => r.target \in Versions /\ r.prev \in Versions
    /\ r.pc \in {"backup", "install"} => r.i \in 1 .. 2
    /\ r.pc = "restore" => r.i \in 1 .. 3
    /\ r.pc = "report" => r.phase # "none"

HelpersInv ==
    /\ helper \in [Helpers -> HelperState]
    /\ \A h \in Helpers : HelperOK(helper[h]) /\ (h > spawned => helper[h].pc = "none")

BoundsOK == spawned \in 0 .. MaxHelpers /\ faults \in 0 .. MaxFaults /\ crashes \in 0 .. MaxCrashes

Types == ServiceOK /\ RunInv /\ FilesOK /\ HelpersInv /\ BoundsOK

(* The records a helper's steps turn its record into are in order. *)
Changes(r) ==
    /\ HelperOK(Ended)
    /\ \A t, v \in Versions : HelperOK([r EXCEPT !.pc = "stop", !.target = t, !.prev = v])
    /\ r.pc \notin {"none", "read", "ended"} =>
          /\ \A l \in {"await", "abort", "health", "rec_health", "start"} : HelperOK([r EXCEPT !.pc = l])
          /\ \A k \in 1 .. 2 : HelperOK([r EXCEPT !.pc = "backup", !.i = k])
          /\ r.pc = "backup" => HelperOK([r EXCEPT !.pc = "install"])
          /\ \A k \in 0 .. 2 : HelperOK([r EXCEPT !.pc = "rec_stop", !.n = k])
          /\ HelperOK([r EXCEPT !.pc = "restore", !.i = 1])
          /\ \A ph \in {"done", "rolled_back", "failed"} : HelperOK([r EXCEPT !.pc = "report", !.phase = ph])
    /\ r.pc = "restore" /\ r.i <= r.n =>
          HelperOK([r EXCEPT !.i = r.i + 1]) /\ HelperOK([r EXCEPT !.i = r.i + 1, !.failed = TRUE])

(* The steps of a helper keep its record in order. *)
LEMMA HelperChanges == ASSUME NEW r \in HelperState, HelperOK(r) PROVE Changes(r)
<1>0. {"stop", "await", "abort", "backup", "install", "start", "health", "rec_stop", "restore",
       "rec_health", "report", "ended"} \subseteq HelperPCs
  BY DEF HelperPCs
<1>1. HelperOK(Ended)
  <2>1. NoHelper \in HelperState  BY DEF NoHelper, HelperState, HelperPCs
  <2>2. Ended \in HelperState /\ Ended.pc = "ended"  BY <1>0, <2>1 DEF Ended, HelperState
  <2> QED BY <2>2 DEF HelperOK
<1>2. ASSUME NEW t \in Versions, NEW v \in Versions
      PROVE  HelperOK([r EXCEPT !.pc = "stop", !.target = t, !.prev = v])
  <2> DEFINE q == [r EXCEPT !.pc = "stop", !.target = t, !.prev = v]
  <2>1. q \in HelperState  BY <1>0 DEF HelperState
  <2>2. q.pc = "stop" /\ q.target = t /\ q.prev = v  BY DEF HelperState
  <2> HIDE DEF q
  <2>3. HelperOK(q)  BY <1>2, <2>1, <2>2 DEF HelperOK
  <2> QED BY <2>3 DEF q
<1>3. ASSUME r.pc \notin {"none", "read", "ended"}, NEW l \in {"await", "abort", "health", "rec_health", "start"}
      PROVE  HelperOK([r EXCEPT !.pc = l])
  <2> DEFINE q == [r EXCEPT !.pc = l]
  <2>1. q \in HelperState  BY <1>0 DEF HelperState
  <2>2. q.pc = l /\ q.target = r.target /\ q.prev = r.prev  BY DEF HelperState
  <2> HIDE DEF q
  <2>3. HelperOK(q)  BY <1>3, <2>1, <2>2 DEF HelperOK
  <2> QED BY <2>3 DEF q
<1>4. ASSUME r.pc \notin {"none", "read", "ended"}, NEW k \in 1 .. 2
      PROVE  HelperOK([r EXCEPT !.pc = "backup", !.i = k])
  <2>0. k \in 0 .. 3  OBVIOUS
  <2> DEFINE q == [r EXCEPT !.pc = "backup", !.i = k]
  <2>1. q \in HelperState  BY <1>0, <2>0 DEF HelperState
  <2>2. q.pc = "backup" /\ q.i = k /\ q.target = r.target /\ q.prev = r.prev  BY DEF HelperState
  <2> HIDE DEF q
  <2>3. HelperOK(q)  BY <1>4, <2>1, <2>2 DEF HelperOK
  <2> QED BY <2>3 DEF q
<1>5. ASSUME r.pc = "backup"
      PROVE  HelperOK([r EXCEPT !.pc = "install"])
  <2> DEFINE q == [r EXCEPT !.pc = "install"]
  <2>1. q \in HelperState  BY <1>0 DEF HelperState
  <2>2. q.pc = "install" /\ q.i = r.i /\ q.target = r.target /\ q.prev = r.prev  BY DEF HelperState
  <2> HIDE DEF q
  <2>3. HelperOK(q)  BY <1>5, <2>1, <2>2 DEF HelperOK
  <2> QED BY <2>3 DEF q
<1>6. ASSUME r.pc \notin {"none", "read", "ended"}, NEW k \in 0 .. 2
      PROVE  HelperOK([r EXCEPT !.pc = "rec_stop", !.n = k])
  <2> DEFINE q == [r EXCEPT !.pc = "rec_stop", !.n = k]
  <2>1. q \in HelperState  BY <1>0 DEF HelperState
  <2>2. q.pc = "rec_stop" /\ q.target = r.target /\ q.prev = r.prev  BY DEF HelperState
  <2> HIDE DEF q
  <2>3. HelperOK(q)  BY <1>6, <2>1, <2>2 DEF HelperOK
  <2> QED BY <2>3 DEF q
<1>7. ASSUME r.pc \notin {"none", "read", "ended"}
      PROVE  HelperOK([r EXCEPT !.pc = "restore", !.i = 1])
  <2>0. 1 \in 0 .. 3  OBVIOUS
  <2> DEFINE q == [r EXCEPT !.pc = "restore", !.i = 1]
  <2>1. q \in HelperState  BY <1>0, <2>0 DEF HelperState
  <2>2. q.pc = "restore" /\ q.i = 1 /\ q.target = r.target /\ q.prev = r.prev  BY DEF HelperState
  <2> HIDE DEF q
  <2>3. HelperOK(q)  BY <1>7, <2>1, <2>2 DEF HelperOK
  <2> QED BY <2>3 DEF q
<1>8. ASSUME r.pc \notin {"none", "read", "ended"}, NEW ph \in {"done", "rolled_back", "failed"}
      PROVE  HelperOK([r EXCEPT !.pc = "report", !.phase = ph])
  <2> DEFINE q == [r EXCEPT !.pc = "report", !.phase = ph]
  <2>1. q \in HelperState  BY <1>0 DEF HelperState
  <2>2. q.pc = "report" /\ q.phase = ph /\ q.target = r.target /\ q.prev = r.prev  BY DEF HelperState
  <2> HIDE DEF q
  <2>3. HelperOK(q)  BY <1>8, <2>1, <2>2 DEF HelperOK
  <2> QED BY <2>3 DEF q
<1>9. ASSUME r.pc = "restore", r.i <= r.n
      PROVE  HelperOK([r EXCEPT !.i = r.i + 1])
  <2>a. r.i \in 1 .. 3 /\ r.n \in 0 .. 2  BY <1>9 DEF HelperOK, HelperState
  <2>0. r.i + 1 \in 0 .. 3 /\ r.i + 1 \in 1 .. 3  BY <1>9, <2>a
  <2> DEFINE q == [r EXCEPT !.i = r.i + 1]
  <2>1. q \in HelperState  BY <1>0, <2>0 DEF HelperState
  <2>2. q.pc = "restore" /\ q.i = r.i + 1 /\ q.target = r.target /\ q.prev = r.prev  BY <1>9 DEF HelperState
  <2> HIDE DEF q
  <2>3. HelperOK(q)  BY <1>9, <2>1, <2>2, <2>0 DEF HelperOK
  <2> QED BY <2>3 DEF q
<1>10. ASSUME r.pc = "restore", r.i <= r.n
      PROVE  HelperOK([r EXCEPT !.i = r.i + 1, !.failed = TRUE])
  <2>a. r.i \in 1 .. 3 /\ r.n \in 0 .. 2  BY <1>10 DEF HelperOK, HelperState
  <2>0. r.i + 1 \in 0 .. 3 /\ r.i + 1 \in 1 .. 3  BY <1>10, <2>a
  <2> DEFINE q == [r EXCEPT !.i = r.i + 1, !.failed = TRUE]
  <2>1. q \in HelperState  BY <1>0, <2>0 DEF HelperState
  <2>2. q.pc = "restore" /\ q.i = r.i + 1 /\ q.target = r.target /\ q.prev = r.prev  BY <1>10 DEF HelperState
  <2> HIDE DEF q
  <2>3. HelperOK(q)  BY <1>10, <2>1, <2>2, <2>0 DEF HelperOK
  <2> QED BY <2>3 DEF q
<1> QED BY <1>1, <1>2, <1>3, <1>4, <1>5, <1>6, <1>7, <1>8, <1>9, <1>10 DEF Changes

(* One helper moves, the others stay as they are. *)
LEMMA HelperMoves ==
    ASSUME HelpersInv, NEW h \in Helpers, NEW r, HelperOK(r), helper[h].pc # "none",
           helper' = [helper EXCEPT ![h] = r], spawned' = spawned
    PROVE  HelpersInv'
BY DEF HelpersInv, HelperOK

(* Every way a helper moves keeps the helpers in order. *)
LEMMA HelperSteps ==
    ASSUME HelpersInv, NEW h \in Helpers, helper[h].pc # "none", spawned' = spawned,
           \/ helper' = [helper EXCEPT ![h] = Ended]
           \/ \E t, v \in Versions : helper' = [helper EXCEPT ![h].pc = "stop", ![h].target = t, ![h].prev = v]
           \/ /\ helper[h].pc \notin {"none", "read", "ended"}
              /\ \/ \E l \in {"await", "abort", "health", "rec_health", "start"} : Goto(h, l)
                 \/ \E k \in 1 .. 2 : helper' = [helper EXCEPT ![h].pc = "backup", ![h].i = k]
                 \/ helper[h].pc = "backup" /\ Goto(h, "install")
                 \/ \E k \in 0 .. 2 : Recover(h, k)
                 \/ helper' = [helper EXCEPT ![h].pc = "restore", ![h].i = 1]
                 \/ \E ph \in {"done", "rolled_back", "failed"} : Report(h, ph)
           \/ /\ helper[h].pc = "restore" /\ helper[h].i <= helper[h].n
              /\ \/ helper' = [helper EXCEPT ![h].i = @ + 1]
                 \/ helper' = [helper EXCEPT ![h].i = @ + 1, ![h].failed = TRUE]
    PROVE  HelpersInv'
<1>0. helper \in [Helpers -> HelperState]  BY DEF HelpersInv
<1>1. Changes(helper[h])  BY HelperChanges DEF HelpersInv
<1>2. ASSUME NEW q, HelperOK(q), helper' = [helper EXCEPT ![h] = q] PROVE HelpersInv'
  BY <1>2, HelperMoves
<1>3. ASSUME helper' = [helper EXCEPT ![h] = Ended]
      PROVE  HelpersInv'
  <2>1. HelperOK(Ended)  BY <1>1, Zenon DEF Changes
  <2> QED BY <1>2, <1>3, <2>1
<1>4. ASSUME NEW t \in Versions, NEW v \in Versions,
             helper' = [helper EXCEPT ![h].pc = "stop", ![h].target = t, ![h].prev = v]
      PROVE  HelpersInv'
  <2>1. HelperOK([helper[h] EXCEPT !.pc = "stop", !.target = t, !.prev = v])  BY <1>4, <1>1, Zenon DEF Changes
  <2>2. helper' = [helper EXCEPT ![h] = [helper[h] EXCEPT !.pc = "stop", !.target = t, !.prev = v]]  BY <1>4, <1>0
  <2> QED BY <1>2, <2>1, <2>2
<1>5. ASSUME helper[h].pc \notin {"none", "read", "ended"},
             NEW l \in {"await", "abort", "health", "rec_health", "start"}, Goto(h, l)
      PROVE  HelpersInv'
  <2>1. HelperOK([helper[h] EXCEPT !.pc = l])  BY <1>5, <1>1, Zenon DEF Changes
  <2>2. helper' = [helper EXCEPT ![h] = [helper[h] EXCEPT !.pc = l]]  BY <1>5, <1>0 DEF Goto
  <2> QED BY <1>2, <2>1, <2>2
<1>6. ASSUME helper[h].pc \notin {"none", "read", "ended"}, NEW k \in 1 .. 2,
             helper' = [helper EXCEPT ![h].pc = "backup", ![h].i = k]
      PROVE  HelpersInv'
  <2>1. HelperOK([helper[h] EXCEPT !.pc = "backup", !.i = k])  BY <1>6, <1>1, Zenon DEF Changes
  <2>2. helper' = [helper EXCEPT ![h] = [helper[h] EXCEPT !.pc = "backup", !.i = k]]  BY <1>6, <1>0
  <2> QED BY <1>2, <2>1, <2>2
<1>7. ASSUME helper[h].pc \notin {"none", "read", "ended"}, helper[h].pc = "backup", Goto(h, "install")
      PROVE  HelpersInv'
  <2>1. HelperOK([helper[h] EXCEPT !.pc = "install"])  BY <1>7, <1>1, Zenon DEF Changes
  <2>2. helper' = [helper EXCEPT ![h] = [helper[h] EXCEPT !.pc = "install"]]  BY <1>7, <1>0 DEF Goto
  <2> QED BY <1>2, <2>1, <2>2
<1>8. ASSUME helper[h].pc \notin {"none", "read", "ended"}, NEW k \in 0 .. 2, Recover(h, k)
      PROVE  HelpersInv'
  <2>1. HelperOK([helper[h] EXCEPT !.pc = "rec_stop", !.n = k])  BY <1>8, <1>1, Zenon DEF Changes
  <2>2. helper' = [helper EXCEPT ![h] = [helper[h] EXCEPT !.pc = "rec_stop", !.n = k]]  BY <1>8, <1>0 DEF Recover
  <2> QED BY <1>2, <2>1, <2>2
<1>9. ASSUME helper[h].pc \notin {"none", "read", "ended"},
             helper' = [helper EXCEPT ![h].pc = "restore", ![h].i = 1]
      PROVE  HelpersInv'
  <2>1. HelperOK([helper[h] EXCEPT !.pc = "restore", !.i = 1])  BY <1>9, <1>1, Zenon DEF Changes
  <2>2. helper' = [helper EXCEPT ![h] = [helper[h] EXCEPT !.pc = "restore", !.i = 1]]  BY <1>9, <1>0
  <2> QED BY <1>2, <2>1, <2>2
<1>10. ASSUME helper[h].pc \notin {"none", "read", "ended"}, NEW ph \in {"done", "rolled_back", "failed"}, Report(h, ph)
      PROVE  HelpersInv'
  <2>1. HelperOK([helper[h] EXCEPT !.pc = "report", !.phase = ph])  BY <1>10, <1>1, Zenon DEF Changes
  <2>2. helper' = [helper EXCEPT ![h] = [helper[h] EXCEPT !.pc = "report", !.phase = ph]]  BY <1>10, <1>0 DEF Report
  <2> QED BY <1>2, <2>1, <2>2
<1>11. ASSUME helper[h].pc = "restore", helper[h].i <= helper[h].n,
             helper' = [helper EXCEPT ![h].i = @ + 1]
      PROVE  HelpersInv'
  <2>1. HelperOK([helper[h] EXCEPT !.i = helper[h].i + 1])  BY <1>11, <1>1, Zenon DEF Changes
  <2>2. helper' = [helper EXCEPT ![h] = [helper[h] EXCEPT !.i = helper[h].i + 1]]  BY <1>11, <1>0
  <2> QED BY <1>2, <2>1, <2>2
<1>12. ASSUME helper[h].pc = "restore", helper[h].i <= helper[h].n,
             helper' = [helper EXCEPT ![h].i = @ + 1, ![h].failed = TRUE]
      PROVE  HelpersInv'
  <2>1. HelperOK([helper[h] EXCEPT !.i = helper[h].i + 1, !.failed = TRUE])  BY <1>12, <1>1, Zenon DEF Changes
  <2>2. helper' = [helper EXCEPT ![h] = [helper[h] EXCEPT !.i = helper[h].i + 1, !.failed = TRUE]]  BY <1>12, <1>0
  <2> QED BY <1>2, <2>1, <2>2
<1> QED BY <1>3, <1>4, <1>5, <1>6, <1>7, <1>8, <1>9, <1>10, <1>11, <1>12

(* The service manager leaves a well-typed service. *)
LEMMA ServiceMoves ==
    ASSUME ServiceOK, RunInv, FilesOK,
           \/ StartService \/ StopService
           \/ \E p \in Process \cup {None} : Replaced(p)
    PROVE  ServiceOK' /\ RunInv'
<1>1. ASSUME NEW p \in Process \cup {None}, Replaced(p) PROVE ServiceOK' /\ RunInv'
  <2>1. run' \in RunState /\ run'.pc = "idle"  BY <1>1 DEF Replaced, NoRun, RunState
  <2> QED BY <1>1, <2>1 DEF Replaced, ServiceOK, RunInv
<1>2. ASSUME UNCHANGED service PROVE ServiceOK' /\ RunInv'
  BY <1>2 DEF service, ServiceOK, RunInv, Up
<1>3. CASE StartService
  <2>1. \A v \in Versions : [v |-> v, st |-> "starting"] \in Process  BY DEF Process
  <2> QED BY <1>1, <1>2, <1>3, <2>1 DEF StartService
<1>4. CASE StopService
  <2>1. ASSUME Up, proc' = [proc EXCEPT !.st = "stopping"], UNCHANGED <<busy, latest, run, timer, discard>>
        PROVE  ServiceOK' /\ RunInv'
    <3>1. proc' \in Process  BY <2>1 DEF ServiceOK, Up, Process
    <3> QED BY <2>1, <3>1, ConstantsAssumption DEF ServiceOK, RunInv, Up
  <2> QED BY <1>1, <1>2, <1>4, <2>1 DEF StopService
<1> QED BY <1>1, <1>3, <1>4

(* At the start there is no helper and no run. *)
LEMMA InitTypes == Init => Types
<1> SUFFICES ASSUME Init PROVE Types  OBVIOUS
<1> USE ConstantsAssumption DEF Init
<1>1. HelperOK(NoHelper) /\ NoHelper.pc = "none"
  BY DEF NoHelper, HelperOK, HelperState, HelperPCs
<1>2. HelpersInv
  BY <1>1 DEF HelpersInv, HelperOK
<1>3. proc \in Process  BY DEF Process
<1>4. run \in RunState /\ run.pc = "idle"  BY DEF NoRun, RunState
<1>5. FilesOK  BY DEF FilesOK, Content
<1>6. ServiceOK /\ RunInv  BY <1>3, <1>4 DEF ServiceOK, RunInv
<1> QED BY <1>2, <1>5, <1>6 DEF Types, BoundsOK

(* Steps of the service process and its updater keep the types. *)
LEMMA ServiceStepTypes == Types /\ (UpdaterStep \/ ProcServes \/ ProcExits) => Types'
<1> SUFFICES ASSUME Types, UpdaterStep \/ ProcServes \/ ProcExits PROVE Types'  OBVIOUS
<1> USE ConstantsAssumption
<1>0. ServiceOK /\ RunInv /\ FilesOK /\ HelpersInv /\ BoundsOK  BY DEF Types
<1>1. ASSUME UNCHANGED helper, UNCHANGED spawned PROVE HelpersInv'
  BY <1>0, <1>1 DEF HelpersInv, HelperOK
<1>2. ASSUME UNCHANGED bounds PROVE BoundsOK'
  BY <1>0, <1>2 DEF bounds, BoundsOK
<1>3. ASSUME UNCHANGED <<files, orig>> PROVE FilesOK'
  BY <1>0, <1>3 DEF files, FilesOK
<1>4. CASE ProcServes
  <2>1. proc' \in Process /\ Up'  BY <1>0, <1>4 DEF ProcServes, ServiceOK, Up, Process
  <2>2. ServiceOK' /\ RunInv'  BY <1>0, <1>4, <2>1 DEF ProcServes, ServiceOK, RunInv
  <2> QED BY <1>1, <1>2, <1>3, <1>4, <2>2 DEF ProcServes, Types, bounds
<1>5. CASE ProcExits
  <2>1. ServiceOK' /\ RunInv'  BY <1>0, <1>5, ServiceMoves DEF ProcExits
  <2> QED BY <1>1, <1>2, <1>3, <1>5, <2>1 DEF ProcExits, Types, bounds
<1>6. ASSUME NEW v \in Versions, CheckLatest(v) PROVE Types'
  <2>1. ServiceOK' /\ RunInv'  BY <1>0, <1>6 DEF CheckLatest, ServiceOK, RunInv, Up
  <2> QED BY <1>1, <1>2, <1>3, <1>6, <2>1 DEF CheckLatest, Types, bounds
<1>7. CASE Apply
  <2>1. run' \in RunState /\ run'.i = 1 /\ run'.target \in Versions
    BY <1>0, <1>7 DEF Apply, ServiceOK, RunState
  <2>2. ServiceOK' /\ RunInv'  BY <1>0, <1>7, <2>1 DEF Apply, ServiceOK, RunInv, Up, Serving
  <2> QED BY <1>1, <1>2, <1>3, <1>7, <2>2 DEF Apply, Types, bounds
<1>8. CASE StageOpen
  <2>1. run' \in RunState /\ run'.i = run.i /\ run'.target = run.target
    BY <1>0, <1>8 DEF StageOpen, ServiceOK, RunState
  <2>2. ServiceOK' /\ RunInv'  BY <1>0, <1>8, <2>1 DEF StageOpen, ServiceOK, RunInv, Up
  <2>3. FilesOK'  BY <1>0, <1>8 DEF StageOpen, FilesOK, Content
  <2> QED BY <1>1, <1>2, <1>8, <2>2, <2>3 DEF StageOpen, Types, bounds
<1>9. CASE StageVerify
  <2>1. run.i \in 1 .. 2 /\ run.target \in Versions /\ Len(Bins) = 2 /\ busy /\ Up
    BY <1>0, <1>9 DEF StageVerify, RunInv, Bins, ServiceOK
  <2>2. run' \in RunState /\ run'.i \in 1 .. 2 /\ run'.target = run.target
    <3>1. CASE run.i = 1
      <4>1. run' = [run EXCEPT !.pc = "open", !.i = 2]  BY <1>9, <2>1, <3>1 DEF StageVerify
      <4>2. 2 \in 0 .. 2  OBVIOUS
      <4>3. run' \in RunState  BY <1>0, <4>1, <4>2 DEF ServiceOK, RunState
      <4>4. run'.i = 2 /\ run'.target = run.target  BY <1>0, <4>1 DEF ServiceOK, RunState
      <4> QED BY <4>3, <4>4
    <3>2. CASE run.i = 2
      <4>1. run' = [run EXCEPT !.pc = "handoff"]  BY <1>9, <2>1, <3>2 DEF StageVerify
      <4>2. run' \in RunState /\ run'.i = run.i /\ run'.target = run.target
        BY <1>0, <4>1 DEF ServiceOK, RunState
      <4> QED BY <3>2, <4>2
    <3> QED BY <2>1, <3>1, <3>2
  <2>3. ServiceOK' /\ RunInv'  BY <1>0, <1>9, <2>1, <2>2 DEF StageVerify, ServiceOK, RunInv, Up
  <2>4. FilesOK'
    <3>1. staged' = staged \/ staged' = [staged EXCEPT ![Bins[run.i]] = run.target]
      BY <1>9 DEF StageVerify
    <3>2. staged' \in [Binaries -> Content]  BY <1>0, <2>1, <3>1 DEF FilesOK, Content
    <3> QED BY <1>0, <1>9, <3>2 DEF StageVerify, FilesOK
  <2> QED BY <1>1, <1>2, <1>9, <2>3, <2>4 DEF StageVerify, Types, bounds
<1>10. CASE RunFails
  <2>1. run' \in RunState /\ run'.pc = "idle"  BY <1>10 DEF RunFails, NoRun, RunState
  <2>2. ServiceOK' /\ RunInv'  BY <1>0, <1>10, <2>1 DEF RunFails, ServiceOK, RunInv
  <2> QED BY <1>1, <1>2, <1>3, <1>10, <2>2 DEF RunFails, Types, bounds
<1>13. CASE Discard
  <2>1. ServiceOK' /\ RunInv'  BY <1>0, <1>13 DEF Discard, ServiceOK, RunInv, Up
  <2>2. FilesOK'  BY <1>0, <1>13 DEF Discard, FilesOK, Content
  <2> QED BY <1>1, <1>2, <1>13, <2>1, <2>2 DEF Discard, Types, bounds
<1>11. CASE Handoff
  <2>1. run' \in RunState /\ run'.pc = "idle"  BY <1>11 DEF Handoff, NoRun, RunState
  <2>2. ServiceOK' /\ RunInv'  BY <1>0, <1>11, <2>1 DEF Handoff, ServiceOK, RunInv
  <2>3. cfg' \in [target : Versions, prev : Versions]
    BY <1>0, <1>11 DEF Handoff, RunInv, ServiceOK, Up, Process
  <2>4. FilesOK'  BY <1>0, <1>11, <2>3 DEF Handoff, FilesOK
  <2>5. BoundsOK'  BY <1>0, <1>11 DEF Handoff, BoundsOK
  <2>6. spawned + 1 \in Helpers /\ helper[spawned + 1].pc = "none"
    BY <1>0, <1>11 DEF Handoff, HelpersInv, BoundsOK, Helpers
  <2>7. HelperOK([helper[spawned + 1] EXCEPT !.pc = "read"])
    BY <1>0, <2>6 DEF HelpersInv, HelperOK, HelperState, HelperPCs
  <2>8. HelpersInv'
    <3>1. \A q : HelperOK(q) => q \in HelperState  BY DEF HelperOK
    <3>2. helper' = [helper EXCEPT ![spawned + 1] = [helper[spawned + 1] EXCEPT !.pc = "read"]]
      BY <1>11 DEF Handoff
    <3>3. spawned' = spawned + 1 /\ spawned \in Nat  BY <1>0, <1>11 DEF Handoff, BoundsOK
    <3> QED BY <1>0, <2>6, <2>7, <3>1, <3>2, <3>3 DEF HelpersInv, Helpers
  <2> QED BY <2>2, <2>4, <2>5, <2>8 DEF Types
<1>12. CASE TimeoutFree
  <2>1. ServiceOK' /\ RunInv'  BY <1>0, <1>12 DEF TimeoutFree, ServiceOK, RunInv, Up
  <2> QED BY <1>1, <1>2, <1>3, <1>12, <2>1 DEF TimeoutFree, Types, bounds
<1> QED BY <1>4, <1>5, <1>6, <1>7, <1>8, <1>9, <1>10, <1>11, <1>12, <1>13 DEF UpdaterStep

(* Steps of a helper keep the types. *)
LEMMA HelperStepTypes == ASSUME NEW h \in Helpers PROVE Types /\ HelperStep(h) => Types'
<1> SUFFICES ASSUME Types, HelperStep(h) PROVE Types'  OBVIOUS
<1> USE ConstantsAssumption
<1>0. ServiceOK /\ RunInv /\ FilesOK /\ HelpersInv /\ BoundsOK  BY DEF Types
<1>1. HelperOK(helper[h])  BY <1>0 DEF HelpersInv
<1>2. ASSUME UNCHANGED bounds PROVE BoundsOK'
  BY <1>0, <1>2 DEF bounds, BoundsOK
<1>3. ASSUME UNCHANGED <<spawned, crashes>>, Fault \/ UNCHANGED faults PROVE BoundsOK'
  BY <1>0, <1>3 DEF Fault, BoundsOK
<1>4. ASSUME UNCHANGED <<files, orig>> PROVE FilesOK'
  BY <1>0, <1>4 DEF files, FilesOK
<1>5. ASSUME UNCHANGED service \/ StartService \/ StopService PROVE ServiceOK' /\ RunInv'
  <2>1. CASE UNCHANGED service  BY <1>0, <2>1 DEF service, ServiceOK, RunInv, Up
  <2> QED BY <1>0, <1>5, <2>1, ServiceMoves
<1>6. bounds' = bounds => spawned' = spawned  BY DEF bounds
<1>7. CASE ReadConfig(h)
  <2>1. HelpersInv'
    <3>1. CASE cfg = None  BY <1>0, <1>6, <1>7, <3>1, HelperSteps DEF ReadConfig, At
    <3>2. CASE cfg # None
      <4>1. cfg.target \in Versions /\ cfg.prev \in Versions  BY <1>0, <3>2 DEF FilesOK
      <4> QED BY <1>0, <1>6, <1>7, <3>2, <4>1, HelperSteps DEF ReadConfig, At
    <3> QED BY <3>1, <3>2
  <2>2. FilesOK'  BY <1>0, <1>7 DEF ReadConfig, files, FilesOK
  <2> QED BY <1>2, <1>5, <1>7, <2>1, <2>2 DEF ReadConfig, Types
<1>8. CASE StopOld(h)
  <2>1. HelpersInv'
    BY <1>0, <1>1, <1>6, <1>8, HelperSteps DEF StopOld, At
  <2> QED BY <1>2, <1>4, <1>5, <1>8, <2>1 DEF StopOld, Types
<1>9. CASE SeenStopped(h)
  <2>0. 1 \in 1 .. 2  OBVIOUS
  <2>1. HelpersInv'
    BY <1>0, <1>1, <1>6, <1>9, <2>0, HelperSteps DEF SeenStopped, At
  <2> QED BY <1>2, <1>4, <1>5, <1>9, <2>1 DEF SeenStopped, Types
<1>10. CASE NotStopped(h)
  <2>1. HelpersInv'
    BY <1>0, <1>1, <1>6, <1>10, HelperSteps DEF NotStopped, At
  <2> QED BY <1>2, <1>4, <1>5, <1>10, <2>1 DEF NotStopped, Types
<1>11. CASE Abort(h)
  <2>1. HelpersInv'
    BY <1>0, <1>1, <1>6, <1>11, HelperSteps DEF Abort, At
  <2> QED BY <1>2, <1>4, <1>5, <1>11, <2>1 DEF Abort, Types
<1>12. CASE Backup(h)
  <2>1. HelpersInv'
    BY <1>0, <1>1, <1>6, <1>12, HelperSteps DEF Backup, At
  <2>2. FilesOK'  BY <1>0, <1>12 DEF Backup, FilesOK, Content
  <2> QED BY <1>2, <1>5, <1>12, <2>1, <2>2 DEF Backup, Types
<1>13. CASE BackupFails(h)
  <2>0. helper[h].i - 1 \in 0 .. 2  BY <1>1, <1>13 DEF BackupFails, At, HelperOK
  <2>1. HelpersInv'
    BY <1>0, <1>1, <1>6, <1>13, <2>0, HelperSteps DEF BackupFails, At
  <2> QED BY <1>3, <1>4, <1>5, <1>13, <2>1 DEF BackupFails, Types
<1>14. CASE Install(h)
  <2>0. Len(Bins) = 2 /\ helper[h].i \in 1 .. 2  BY <1>1, <1>14 DEF Bins, Install, At, HelperOK
  <2>1. HelpersInv'
    <3>1. CASE helper[h].i = 1
      <4>1. helper' = [helper EXCEPT ![h].pc = "backup", ![h].i = 2]  BY <1>14, <2>0, <3>1 DEF Install
      <4>2. 2 \in 1 .. 2  OBVIOUS
      <4> QED BY <1>0, <1>6, <1>14, <4>1, <4>2, HelperSteps DEF Install, At
    <3>2. CASE helper[h].i = 2
      <4>1. Goto(h, "start")  BY <1>14, <2>0, <3>2 DEF Install, Goto
      <4> QED BY <1>0, <1>6, <1>14, <4>1, HelperSteps DEF Install, At
    <3> QED BY <2>0, <3>1, <3>2
  <2>2. FilesOK'  BY <1>0, <1>14 DEF Install, FilesOK, Content
  <2> QED BY <1>2, <1>5, <1>14, <2>1, <2>2 DEF Install, Types
<1>15. CASE InstallFails(h)
  <2>0. helper[h].i \in 0 .. 2  BY <1>1, <1>15 DEF InstallFails, At, HelperOK
  <2>1. HelpersInv'
    BY <1>0, <1>1, <1>6, <1>15, <2>0, HelperSteps DEF InstallFails, At
  <2> QED BY <1>3, <1>4, <1>5, <1>15, <2>1 DEF InstallFails, Types
<1>16. CASE StartNew(h)
  <2>1. HelpersInv'
    BY <1>0, <1>1, <1>6, <1>16, HelperSteps DEF StartNew, At
  <2> QED BY <1>3, <1>4, <1>5, <1>16, <2>1 DEF StartNew, Types
<1>17. CASE Healthy(h)
  <2>1. HelpersInv'
    BY <1>0, <1>1, <1>6, <1>17, HelperSteps DEF Healthy, At
  <2> QED BY <1>2, <1>4, <1>5, <1>17, <2>1 DEF Healthy, Types
<1>18. CASE Unhealthy(h)
  <2>0. Len(Bins) = 2 /\ 2 \in 0 .. 2  BY DEF Bins
  <2>1. HelpersInv'
    BY <1>0, <1>1, <1>6, <1>18, <2>0, HelperSteps DEF Unhealthy, At
  <2> QED BY <1>2, <1>4, <1>5, <1>18, <2>1 DEF Unhealthy, Types
<1>19. CASE RecoverStop(h)
  <2>1. HelpersInv'
    BY <1>0, <1>1, <1>6, <1>19, HelperSteps DEF RecoverStop, At
  <2> QED BY <1>2, <1>4, <1>5, <1>19, <2>1 DEF RecoverStop, Types
<1>20. CASE Restore(h)
  <2>1. HelpersInv'
    BY <1>0, <1>1, <1>6, <1>20, HelperSteps DEF Restore, At
  <2>2. FilesOK'  BY <1>0, <1>20 DEF Restore, FilesOK, Content
  <2> QED BY <1>3, <1>5, <1>20, <2>1, <2>2 DEF Restore, Types
<1>21. CASE RecoverStart(h)
  <2>1. HelpersInv'
    BY <1>0, <1>1, <1>6, <1>21, HelperSteps DEF RecoverStart, At
  <2> QED BY <1>3, <1>4, <1>5, <1>21, <2>1 DEF RecoverStart, Types
<1>22. CASE RecoverHealth(h)
  <2>1. HelpersInv'
    BY <1>0, <1>1, <1>6, <1>22, HelperSteps DEF RecoverHealth, At
  <2> QED BY <1>2, <1>4, <1>5, <1>22, <2>1 DEF RecoverHealth, Types
<1>23. CASE WriteResult(h)
  <2>1. HelpersInv'
    BY <1>0, <1>1, <1>6, <1>23, HelperSteps DEF WriteResult, At
  <2>2. FilesOK'  BY <1>0, <1>1, <1>23 DEF WriteResult, FilesOK, At, HelperOK, HelperState
  <2> QED BY <1>3, <1>5, <1>23, <2>1, <2>2 DEF WriteResult, Types
<1> QED BY <1>7, <1>8, <1>9, <1>10, <1>11, <1>12, <1>13, <1>14, <1>15, <1>16, <1>17, <1>18, <1>19, <1>20, <1>21, <1>22, <1>23 DEF HelperStep

(* Every step keeps the types. *)
LEMMA StepTypes == Types /\ [Next]_vars => Types'
<1> SUFFICES ASSUME Types, [Next]_vars PROVE Types'  OBVIOUS
<1> USE ConstantsAssumption
<1>0. ServiceOK /\ RunInv /\ FilesOK /\ HelpersInv /\ BoundsOK  BY DEF Types
<1>1. CASE PowerLoss
  <2>1. ServiceOK' /\ RunInv'
    <3>1. \A v : v \in Versions => [v |-> v, st |-> "starting"] \in Process  BY DEF Process
    <3> QED BY <1>0, <1>1, <3>1, ServiceMoves DEF PowerLoss
  <2>2. FilesOK'  BY <1>0, <1>1 DEF PowerLoss, files, FilesOK
  <2>3. BoundsOK'  BY <1>0, <1>1 DEF PowerLoss, BoundsOK
  <2>4. HelpersInv'
    <3>1. \A h \in Helpers : HelperOK(Ended)
      BY <1>0, HelperChanges DEF HelpersInv, Changes
    <3>2. \A h \in Helpers : helper'[h] \in {helper[h], Ended}
      BY <1>1 DEF PowerLoss
    <3>3. \A h \in Helpers : HelperOK(helper'[h])  BY <1>0, <3>1, <3>2 DEF HelpersInv
    <3>4. \A h \in Helpers : helper[h].pc = "none" => helper'[h] = helper[h]
      BY <1>1 DEF PowerLoss, Active
    <3>5. helper' \in [Helpers -> HelperState]  BY <1>1, <3>3 DEF PowerLoss, HelperOK
    <3> QED BY <1>0, <1>1, <3>3, <3>4, <3>5 DEF PowerLoss, HelpersInv
  <2> QED BY <2>1, <2>2, <2>3, <2>4 DEF Types
<1>2. CASE UNCHANGED vars
  <2>1. ServiceOK' /\ RunInv'  BY <1>0, <1>2 DEF vars, service, ServiceOK, RunInv, Up
  <2>2. FilesOK'  BY <1>0, <1>2 DEF vars, files, FilesOK
  <2>3. BoundsOK' /\ HelpersInv'  BY <1>0, <1>2 DEF vars, bounds, BoundsOK, HelpersInv, HelperOK
  <2> QED BY <2>1, <2>2, <2>3 DEF Types
<1> QED BY <1>1, <1>2, ServiceStepTypes, HelperStepTypes DEF Next

(* Mishaps are never forgotten. *)
LEMMA MishapsStay ==
    [Next]_vars => mishaps \subseteq mishaps' /\ (mishaps \subseteq MishapKinds => mishaps' \subseteq MishapKinds)
<1> SUFFICES ASSUME [Next]_vars PROVE mishaps' = mishaps \/ \E k \in MishapKinds : mishaps' = mishaps \cup {k}
  OBVIOUS
<1> USE DEF Mishap, MishapKinds
<1>1. ASSUME NEW h \in Helpers, HelperStep(h)
      PROVE  mishaps' = mishaps \/ \E k \in MishapKinds : mishaps' = mishaps \cup {k}
  <2>1. CASE SeenStopped(h) \/ NotStopped(h) \/ RecoverStop(h)
    BY <2>1 DEF SeenStopped, NotStopped, RecoverStop
  <2>2. CASE ~(SeenStopped(h) \/ NotStopped(h) \/ RecoverStop(h))
    BY <1>1, <2>2 DEF HelperStep, ReadConfig, StopOld, Abort, Backup, BackupFails, Install, InstallFails,
       StartNew, Healthy, Unhealthy, Restore, RecoverStart, RecoverHealth, WriteResult
  <2> QED BY <2>1, <2>2
<1>2. CASE Handoff \/ TimeoutFree  BY <1>2 DEF Handoff, TimeoutFree
<1>3. CASE UNCHANGED mishaps  BY <1>3
<1> QED BY <1>1, <1>2, <1>3 DEF Next, UpdaterStep, CheckLatest, Apply, StageOpen, StageVerify, RunFails, Discard,
           ProcServes, ProcExits, PowerLoss, vars

(* Every variable of the service process, the files and the helpers keeps its
   type, whatever stalls, fails or loses power. *)
THEOREM TypeCorrect == Spec => []TypeOK
<1> DEFINE I == Types /\ mishaps \subseteq MishapKinds
<1>1. I => TypeOK  BY DEF Types, TypeOK, HelpersInv, BoundsOK
<1>2. Init => I  BY InitTypes DEF Init
<1>3. I /\ [Next]_vars => I'  BY StepTypes, MishapsStay
<1> QED BY <1>1, <1>2, <1>3, PTL DEF Spec

----------------------------------------------------------------------------
(* The inductive invariant *)

Pre == {"read", "stop", "await", "abort", "backup", "install", "start"}
Post == {"health", "rec_stop", "restore", "rec_health"}
Critical(h) == helper[h].pc \in Pre \cup Post

(* At most one helper is at work on the binaries. *)
OneHelper == \A g, h \in Helpers : Critical(g) /\ Critical(h) => g = h

(* Until it has started the service again, nobody stages. *)
NobodyStages ==
    \A h \in Helpers : helper[h].pc \in Pre =>
        run.pc = "idle" /\ (Up => busy) /\ \A b \in Binaries : staged[b] # Partial

(* The updater hands over what it has verified. *)
StagedSoFar ==
    /\ run.pc = "verify" => staged[Bins[run.i]] \in {Partial, None}
    /\ run.pc \in {"open", "verify"} /\ run.i = 2 => staged["wlcsim"] # Partial
    /\ run.pc = "handoff" => \A b \in Binaries : staged[b] # Partial

SavedIn(b) == orig[b] \in {bak[b], None}

(* Where the binaries are that the helper began with. *)
Kept(h) ==
    /\ helper[h].pc \in {"stop", "await", "abort"} => \A b \in Binaries : live[b] = orig[b]
    /\ helper[h].pc \in {"backup", "install"} =>
          \A j \in 1 .. 2 :
              /\ j < helper[h].i => SavedIn(Bins[j])
              /\ j > helper[h].i => live[Bins[j]] = orig[Bins[j]]
    /\ helper[h].pc = "backup" => live[Bin(h)] = orig[Bin(h)]
    /\ helper[h].pc = "install" => SavedIn(Bin(h))
    /\ helper[h].pc \in {"start", "health"} => \A b \in Binaries : SavedIn(b)
    /\ helper[h].pc = "rec_stop" => \A j \in 1 .. 2 : j <= helper[h].n => SavedIn(Bins[j])
    /\ helper[h].pc = "restore" => \A j \in 1 .. 2 : helper[h].i <= j /\ j <= helper[h].n => SavedIn(Bins[j])

(* The service is told to stop by a helper, and started again by it. *)
StoppedFor ==
    /\ run.pc # "idle" => proc.st # "starting"
    /\ \A h \in Helpers :
          /\ helper[h].pc \in Pre /\ Up => proc.st # "starting"
          /\ "misread" \notin mishaps /\ helper[h].pc \in {"backup", "install", "start"} => ~Up

Control == OneHelper /\ NobodyStages /\ StagedSoFar /\ StoppedFor

LEMMA EndedPC == Ended.pc = "ended" /\ Ended.target = None
BY DEF Ended, NoHelper

(* A service that is stopped or started runs no staging. *)
LEMMA Restarted ==
    /\ \A p : Replaced(p) => run'.pc = "idle" /\ proc' = p
    /\ StopService => \/ UNCHANGED service
                      \/ run'.pc = "idle" /\ ~Up'
                      \/ proc.st # "starting" /\ UNCHANGED <<run, busy>> /\ Up /\ proc' = [proc EXCEPT !.st = "stopping"]
    /\ StartService => UNCHANGED service \/ run'.pc = "idle"
BY DEF Replaced, NoRun, StopService, StartService, Up

(* What a helper's step does to the other helpers and to the staged files. *)
LEMMA HelperFrame ==
    ASSUME Types, NEW h \in Helpers, HelperStep(h)
    PROVE  /\ \A g \in Helpers \ {h} : helper'[g] = helper[g]
           /\ helper'[h].pc \in Pre => helper[h].pc \in Pre
           /\ helper'[h].pc \in Post => Critical(h)
           /\ helper'[h].pc \in {"backup", "install", "start"} =>
                 helper[h].pc \in {"backup", "install", "start"} \/ SeenStopped(h)
           /\ \A b \in Binaries : staged'[b] \in {staged[b], None}
           /\ UNCHANGED service \/ (Critical(h) /\ ((StartService /\ helper'[h].pc \notin Pre) \/ StopService))
<1> USE DEF At, Goto, Recover, Report, Pre, Post, Critical
<1>1. helper \in [Helpers -> HelperState] /\ staged \in [Binaries -> Content]
  BY DEF Types, HelpersInv, FilesOK
<1>2. CASE ReadConfig(h)
  <2>1. helper'[h].pc \in {"ended", "stop"} /\ \A g \in Helpers \ {h} : helper'[g] = helper[g]
    BY <1>1, <1>2, EndedPC DEF ReadConfig, HelperState
  <2> QED BY <1>2, <2>1 DEF ReadConfig, files
<1>3. CASE StopOld(h)  BY <1>1, <1>3 DEF StopOld, files
<1>4. CASE SeenStopped(h)  BY <1>1, <1>4 DEF SeenStopped, files
<1>5. CASE NotStopped(h)  BY <1>1, <1>5 DEF NotStopped, files
<1>6. CASE Abort(h)  BY <1>1, <1>6 DEF Abort, files
<1>7. CASE Backup(h)  BY <1>1, <1>7 DEF Backup
<1>8. CASE BackupFails(h)  BY <1>1, <1>8 DEF BackupFails, files
<1>9. CASE Install(h)  BY <1>1, <1>9 DEF Install
<1>10. CASE InstallFails(h)  BY <1>1, <1>10 DEF InstallFails, files
<1>11. CASE StartNew(h)  BY <1>1, <1>11 DEF StartNew, files
<1>12. CASE Healthy(h)  BY <1>1, <1>12 DEF Healthy, files
<1>13. CASE Unhealthy(h)  BY <1>1, <1>13 DEF Unhealthy, files
<1>14. CASE RecoverStop(h)  BY <1>1, <1>14 DEF RecoverStop, files
<1>15. CASE Restore(h)
  <2>1. helper' = [helper EXCEPT ![h].i = @ + 1] \/ helper' = [helper EXCEPT ![h].i = @ + 1, ![h].failed = TRUE]
    BY <1>15 DEF Restore
  <2>2. helper'[h].pc = "restore" /\ \A g \in Helpers \ {h} : helper'[g] = helper[g]
    BY <1>1, <1>15, <2>1 DEF Restore, HelperState
  <2> QED BY <1>15, <2>2 DEF Restore
<1>16. CASE RecoverStart(h)  BY <1>1, <1>16 DEF RecoverStart, files
<1>17. CASE RecoverHealth(h)
  <2>1. PICK ph : helper' = [helper EXCEPT ![h].pc = "report", ![h].phase = ph]  BY <1>17 DEF RecoverHealth
  <2> QED BY <1>1, <1>17, <2>1 DEF RecoverHealth, files
<1>18. CASE WriteResult(h)  BY <1>1, <1>18, EndedPC DEF WriteResult
<1> QED BY <1>2, <1>3, <1>4, <1>5, <1>6, <1>7, <1>8, <1>9, <1>10, <1>11, <1>12, <1>13, <1>14, <1>15, <1>16, <1>17, <1>18 DEF HelperStep

(* Helpers keep out of each other's and of the updater's way. *)
LEMMA HelperControl == ASSUME NEW h \in Helpers PROVE Types /\ Control /\ HelperStep(h) => Control'
<1> SUFFICES ASSUME Types, Control, HelperStep(h) PROVE Control'  OBVIOUS
<1> USE ConstantsAssumption
<1>0. OneHelper /\ NobodyStages /\ StagedSoFar /\ StoppedFor  BY DEF Control
<1>1. /\ \A g \in Helpers \ {h} : helper'[g] = helper[g]
      /\ helper'[h].pc \in Pre => helper[h].pc \in Pre
      /\ helper'[h].pc \in Post => Critical(h)
      /\ \A b \in Binaries : staged'[b] \in {staged[b], None}
      /\ UNCHANGED service \/ (Critical(h) /\ ((StartService /\ helper'[h].pc \notin Pre) \/ StopService))
  BY HelperFrame
<1>2. \A g \in Helpers : helper'[g].pc \in Pre =>
          helper[g].pc \in Pre /\ (UNCHANGED service \/ StopService)
  BY <1>0, <1>1 DEF OneHelper, Critical
<1>3. \/ UNCHANGED <<run, busy, proc>>
      \/ run'.pc = "idle" /\ (~Up' \/ StartService)
      \/ UNCHANGED <<run, busy>> /\ Up /\ proc.st # "starting" /\ proc' = [proc EXCEPT !.st = "stopping"]
  BY <1>1, Restarted DEF service
<1>4. OneHelper'  BY <1>0, <1>1 DEF OneHelper, Critical
<1>5. \A b \in Binaries : staged'[b] = Partial => staged[b] = Partial  BY <1>1
<1>6. NobodyStages'
  <2> SUFFICES ASSUME NEW g \in Helpers, helper'[g].pc \in Pre
               PROVE  run'.pc = "idle" /\ (Up' => busy') /\ \A b \in Binaries : staged'[b] # Partial
    BY DEF NobodyStages
  <2>1. run.pc = "idle" /\ (Up => busy) /\ \A b \in Binaries : staged[b] # Partial
    BY <1>0, <1>2 DEF NobodyStages
  <2>2. UNCHANGED service \/ StopService  BY <1>2
  <2>3. run'.pc = "idle" /\ (Up' => busy')  BY <2>1, <2>2, Restarted DEF service, Up
  <2> QED BY <1>5, <2>1, <2>3
<1>7. StagedSoFar'
  <2>1. run'.pc = "idle" \/ run' = run  BY <1>3
  <2>2. run.pc = "verify" => Bins[run.i] \in Binaries  BY DEF Types, RunInv, Bins, Binaries
  <2> QED BY <1>0, <1>1, <1>5, <2>1, <2>2 DEF StagedSoFar, Binaries
<1>8. StoppedFor'
  <2>0. ASSUME Up, proc' = [proc EXCEPT !.st = "stopping"] PROVE proc'.st = "stopping"
    BY <2>0 DEF Types, ServiceOK, Up, Process
  <2>1. run'.pc # "idle" => proc'.st # "starting"
    BY <1>0, <1>3, <2>0 DEF StoppedFor
  <2>2. ASSUME NEW g \in Helpers, helper'[g].pc \in Pre, Up' PROVE proc'.st # "starting"
    <3>1. helper[g].pc \in Pre /\ (UNCHANGED service \/ StopService)  BY <1>2, <2>2
    <3> QED BY <1>0, <2>0, <2>2, <3>1, Restarted DEF StoppedFor, service, Up
  <2>3. ASSUME NEW g \in Helpers, "misread" \notin mishaps', helper'[g].pc \in {"backup", "install", "start"} PROVE ~Up'
    <3>0. "misread" \notin mishaps  BY <2>3, MishapsStay DEF Next
    <3>1. helper[g].pc \in Pre /\ (UNCHANGED service \/ StopService)  BY <1>2, <2>3 DEF Pre
    <3>2. CASE helper[g].pc \in {"backup", "install", "start"}
      BY <1>0, <2>3, <3>0, <3>1, <3>2, Restarted DEF StoppedFor, service, Up
    <3>3. CASE helper[g].pc \notin {"backup", "install", "start"}
      <4>1. g = h  BY <1>1, <2>3, <3>3
      <4>2. SeenStopped(h)  BY <2>3, <3>3, <4>1, HelperFrame
      <4>3. ~Serving /\ UNCHANGED service /\ helper[h].pc = "await"  BY <2>3, <4>2 DEF SeenStopped, At, Mishap
      <4>4. Up => proc.st \in {"starting", "serving", "stopping"}  BY DEF Types, ServiceOK, Up, Process
      <4> QED BY <1>0, <4>1, <4>3, <4>4 DEF StoppedFor, Serving, service, Up, Pre
    <3> QED BY <3>2, <3>3
  <2> QED BY <2>1, <2>2, <2>3 DEF StoppedFor
<1> QED BY <1>4, <1>6, <1>7, <1>8 DEF Control

(* So do the updater, the service process and a power loss. *)
LEMMA ServiceControl ==
    Types /\ Control /\ (UpdaterStep \/ ProcServes \/ ProcExits \/ PowerLoss \/ UNCHANGED vars)
        /\ "overrun" \notin mishaps' => Control'
<1> SUFFICES ASSUME Types, Control, UpdaterStep \/ ProcServes \/ ProcExits \/ PowerLoss \/ UNCHANGED vars,
                    "overrun" \notin mishaps'
             PROVE  Control'
  OBVIOUS
<1>m. mishaps \subseteq mishaps'  BY MishapsStay DEF Next
<1> USE ConstantsAssumption
<1>0. OneHelper /\ NobodyStages /\ StagedSoFar /\ StoppedFor  BY DEF Control
<1>1. ASSUME UNCHANGED helper PROVE OneHelper'
  BY <1>m, <1>0, <1>1 DEF OneHelper, Critical
<1>2. ASSUME UNCHANGED <<run, staged>> PROVE StagedSoFar'
  BY <1>m, <1>0, <1>2 DEF StagedSoFar
<1>3. run.pc # "idle" => \A h \in Helpers : helper[h].pc \notin Pre
  BY <1>0 DEF NobodyStages
<1>4. CASE UNCHANGED vars
  BY <1>m, <1>0, <1>1, <1>2, <1>4 DEF vars, service, files, Control, NobodyStages, StoppedFor, Up
<1>5. CASE ProcServes
  <2>1. proc'.st = "serving" /\ Up
    BY <1>5 DEF ProcServes, Types, ServiceOK, Up, Process
  <2>2. NobodyStages'  BY <1>m, <1>0, <1>5, <2>1 DEF ProcServes, NobodyStages, files
  <2>3. StoppedFor'
    BY <1>m, <1>0, <1>5, <2>1 DEF ProcServes, StoppedFor, Pre
  <2> QED BY <1>1, <1>2, <1>5, <2>2, <2>3 DEF ProcServes, files, Control
<1>6. CASE ProcExits
  <2>1. run'.pc = "idle" /\ ~Up' /\ UNCHANGED <<helper, staged>>
    BY <1>6, Restarted DEF ProcExits, Up, files
  <2>2. NobodyStages'  BY <1>m, <1>0, <2>1 DEF NobodyStages
  <2>3. StoppedFor' /\ StagedSoFar'  BY <2>1 DEF StoppedFor, StagedSoFar
  <2> QED BY <1>1, <2>1, <2>2, <2>3 DEF Control
<1>7. CASE PowerLoss
  <2>1. run'.pc = "idle"  BY <1>7, Restarted DEF PowerLoss
  <2>2. \A h \in Helpers : helper'[h].pc \in {"none", "ended"}
    BY <1>7, EndedPC DEF PowerLoss, Active, Types, HelpersInv
  <2> QED BY <2>1, <2>2 DEF Control, OneHelper, NobodyStages, StagedSoFar, StoppedFor, Critical, Pre, Post
<1>8. ASSUME NEW v \in Versions, CheckLatest(v) PROVE Control'
  BY <1>m, <1>0, <1>1, <1>2, <1>8 DEF CheckLatest, Control, NobodyStages, StoppedFor, Up, files
<1>9. CASE Apply
  <2>1. run'.pc = "open" /\ run'.i = 1 /\ UNCHANGED <<proc, staged, helper>> /\ ~busy /\ Serving
    BY <1>9 DEF Apply, files
  <2>2. \A h \in Helpers : helper[h].pc \notin Pre  BY <1>m, <1>0, <2>1 DEF NobodyStages, Serving
  <2>3. NobodyStages' /\ StagedSoFar'  BY <2>1, <2>2 DEF NobodyStages, StagedSoFar
  <2>4. StoppedFor'  BY <2>1, <2>2 DEF StoppedFor, Pre, Serving
  <2> QED BY <1>1, <2>1, <2>3, <2>4 DEF Control
<1>10. CASE StageOpen
  <2>1. /\ run.pc = "open" /\ run'.pc = "verify" /\ run'.i = run.i /\ UNCHANGED <<proc, helper>>
        /\ run.i \in 1 .. 2 /\ staged' = [staged EXCEPT ![Bins[run.i]] = Partial]
    BY <1>10 DEF StageOpen, Types, ServiceOK, RunInv, RunState
  <2>2. StagedSoFar'
    BY <1>m, <1>0, <2>1 DEF StagedSoFar, Bins, Types, FilesOK, Binaries
  <2>3. NobodyStages' /\ StoppedFor'  BY <1>m, <1>0, <1>3, <2>1 DEF NobodyStages, StoppedFor, Pre
  <2> QED BY <1>1, <2>1, <2>2, <2>3 DEF Control
<1>11. CASE StageVerify
  <2>1. /\ run.pc = "verify" /\ UNCHANGED <<proc, helper>> /\ run.i \in 1 .. 2 /\ run.target \in Versions
        /\ staged' = IF staged[Bins[run.i]] = Partial THEN [staged EXCEPT ![Bins[run.i]] = run.target] ELSE staged
        /\ Len(Bins) = 2
    BY <1>11 DEF StageVerify, Types, RunInv, Bins
  <2>2. \/ run.i = 1 /\ run'.pc = "open" /\ run'.i = 2
        \/ run.i = 2 /\ run'.pc = "handoff"
    BY <1>11, <2>1 DEF StageVerify, Types, ServiceOK, RunState
  <2>3. StagedSoFar'
    BY <1>m, <1>0, <2>1, <2>2 DEF StagedSoFar, Bins, Types, FilesOK, Binaries
  <2>4. NobodyStages' /\ StoppedFor'  BY <1>m, <1>0, <1>3, <2>1 DEF NobodyStages, StoppedFor, Pre
  <2> QED BY <1>1, <2>1, <2>3, <2>4 DEF Control
<1>12. CASE RunFails
  <2>1. run'.pc = "idle" /\ UNCHANGED <<proc, helper, staged>> /\ run.pc # "idle"
    BY <1>12 DEF RunFails, NoRun, files
  <2>2. StagedSoFar' /\ NobodyStages' /\ StoppedFor'
    BY <1>m, <1>0, <1>3, <2>1 DEF StagedSoFar, NobodyStages, StoppedFor, Pre
  <2> QED BY <1>1, <2>1, <2>2 DEF Control
<1>15. CASE Discard
  <2>1. UNCHANGED <<proc, run, busy, helper>> /\ staged' = [b \in Binaries |-> None]  BY <1>15 DEF Discard
  <2>2. run.pc = "verify" => Bins[run.i] \in Binaries  BY DEF Types, RunInv, Bins, Binaries
  <2>3. \A b \in Binaries : staged'[b] = None  BY <2>1
  <2>4. StagedSoFar'  BY <2>1, <2>2, <2>3 DEF StagedSoFar, Binaries
  <2>5. NobodyStages' /\ StoppedFor'  BY <1>m, <1>0, <2>1, <2>3 DEF NobodyStages, StoppedFor, Up
  <2> QED BY <1>1, <2>1, <2>4, <2>5 DEF Control
<1>13. CASE Handoff
  <2> DEFINE new == spawned + 1
  <2>1. /\ run.pc = "handoff" /\ run'.pc = "idle" /\ UNCHANGED <<proc, busy, staged>> /\ PollersDone
        /\ helper' = [helper EXCEPT ![new].pc = "read"]
    BY <1>13 DEF Handoff, NoRun, Mishap
  <2>2. \A h \in Helpers : ~Critical(h)
    BY <1>3, <2>1 DEF PollersDone, Critical, Post
  <2>3. \A h \in Helpers \ {new} : helper'[h] = helper[h]
    BY <2>1 DEF Types, HelpersInv
  <2>4. OneHelper'  BY <2>2, <2>3 DEF OneHelper, Critical
  <2>5. busy /\ \A b \in Binaries : staged[b] # Partial
    BY <1>m, <1>0, <2>1 DEF StagedSoFar, Types, ServiceOK
  <2>6. NobodyStages' /\ StagedSoFar'  BY <2>1, <2>5 DEF NobodyStages, StagedSoFar
  <2>7. \A h \in Helpers : helper'[h].pc \notin {"backup", "install", "start"}
    BY <2>1, <2>2, <2>3 DEF Critical, Pre, Types, HelpersInv, HelperState
  <2>8. StoppedFor'  BY <1>m, <1>0, <2>1, <2>7 DEF StoppedFor
  <2> QED BY <2>4, <2>6, <2>8 DEF Control
<1>14. CASE TimeoutFree
  <2>1. run.pc = "idle" /\ \A h \in Helpers : helper[h].pc \notin Pre
    BY <1>14 DEF TimeoutFree, Active, Pre, Types, RunInv, Mishap
  <2>2. UNCHANGED <<proc, run, helper, staged>>  BY <1>14 DEF TimeoutFree, files
  <2>3. StagedSoFar' /\ NobodyStages' /\ StoppedFor'
    BY <1>m, <1>0, <2>1, <2>2 DEF StagedSoFar, NobodyStages, StoppedFor, Pre
  <2> QED BY <1>1, <2>2, <2>3 DEF Control
<1> QED BY <1>4, <1>5, <1>6, <1>7, <1>8, <1>9, <1>10, <1>11, <1>12, <1>13, <1>14, <1>15 DEF UpdaterStep

Originals == \A b \in Binaries : orig[b] \in {live[b], bak[b], None}
Verified == \A b \in Binaries : live[b] # Partial /\ bak[b] # Partial

Contents == (\A h \in Helpers : Kept(h)) /\ Originals /\ Verified

(* The binaries stay where the helper at work, and a later roll-back, look for
   them. *)
LEMMA HelperContents ==
    ASSUME NEW h \in Helpers
    PROVE  Types /\ Control /\ Contents /\ HelperStep(h) => Contents'
<1> SUFFICES ASSUME Types, Control, Contents, HelperStep(h) PROVE Contents'  OBVIOUS
<1> USE ConstantsAssumption
<1>0. Originals /\ Verified /\ \A g \in Helpers : Kept(g)  BY DEF Contents
<1>1. /\ helper \in [Helpers -> HelperState] /\ HelperOK(helper[h])
      /\ live \in [Binaries -> Content] /\ bak \in [Binaries -> Content]
      /\ staged \in [Binaries -> Content] /\ orig \in [Binaries -> Content]
  BY DEF Types, HelpersInv, FilesOK
<1>2. \A j \in 1 .. 2 : Bins[j] \in Binaries  BY DEF Bins, Binaries
<1>3. \A b \in Binaries : \E j \in 1 .. 2 : b = Bins[j]  BY DEF Bins, Binaries
<1>4. \A g \in Helpers : g # h /\ Critical(h) => ~Critical(g) /\ helper'[g] = helper[g]
  BY HelperFrame DEF Control, OneHelper
(* With h at work, only what h relies on is at stake. *)
<1>5. ASSUME Critical(h), Kept(h)' PROVE \A g \in Helpers : Kept(g)'
  BY <1>4, <1>5 DEF Kept, Critical, Pre, Post
<1>6. ASSUME UNCHANGED <<live, bak, orig>> PROVE Originals' /\ Verified'
  BY <1>0, <1>6 DEF Originals, Verified
<1>7. ASSUME Critical(h), UNCHANGED <<live, bak, orig>>, Kept(h)' PROVE Contents'
  BY <1>5, <1>6, <1>7 DEF Contents
<1>8. ASSUME UNCHANGED <<live, bak, orig>>, helper'[h].pc \notin Pre \cup Post PROVE Contents'
  <2>1. Kept(h)'  BY <1>8 DEF Kept, Pre, Post
  <2>2. \A g \in Helpers \ {h} : helper'[g] = helper[g]  BY HelperFrame
  <2>3. \A g \in Helpers \ {h} : Kept(g)'  BY <1>0, <1>8, <2>2 DEF Kept, SavedIn, Bin
  <2> QED BY <1>6, <1>8, <2>1, <2>3 DEF Contents
<1>9. CASE ReadConfig(h)
  <2>0. Critical(h)  BY <1>9 DEF ReadConfig, At, Critical, Pre
  <2>1. Critical(h) /\ UNCHANGED <<live, bak>>  BY <1>9, <2>0 DEF ReadConfig, files
  <2>2. CASE cfg = None
    <3>1. helper' = [helper EXCEPT ![h] = Ended] /\ UNCHANGED orig  BY <1>9, <2>2 DEF ReadConfig
    <3>2. helper'[h].pc = "ended"  BY <1>1, <3>1, EndedPC
    <3> QED BY <1>8, <2>1, <3>1, <3>2 DEF Pre, Post
  <2>3. CASE cfg # None
    <3>1. helper'[h].pc = "stop" /\ orig' = live  BY <1>1, <1>9, <2>3 DEF ReadConfig, HelperState
    <3>2. Kept(h)'  BY <2>1, <3>1 DEF Kept
    <3>3. Originals' /\ Verified'
      BY <1>0, <2>1, <3>1 DEF Originals, Verified
    <3> QED BY <1>5, <2>1, <3>2, <3>3 DEF Contents
  <2> QED BY <2>2, <2>3
<1>10. CASE StopOld(h)
  <2>1. Critical(h) /\ helper'[h].pc = "await" /\ UNCHANGED <<live, bak, orig>>
    BY <1>1, <1>10 DEF StopOld, At, Goto, Critical, Pre, files
  <2>2. Kept(h)'  BY <1>0, <1>10, <2>1 DEF Kept, StopOld, At
  <2> QED BY <1>7, <2>1, <2>2
<1>11. CASE SeenStopped(h)
  <2>1. Critical(h) /\ helper'[h].pc = "backup" /\ helper'[h].i = 1 /\ UNCHANGED <<live, bak, orig>>
    BY <1>1, <1>11 DEF SeenStopped, At, Critical, Pre, files, HelperState
  <2>2. \A b \in Binaries : live[b] = orig[b]  BY <1>0, <1>11 DEF Kept, SeenStopped, At
  <2>3. Kept(h)'  BY <1>2, <2>1, <2>2 DEF Kept, Bin
  <2> QED BY <1>7, <2>1, <2>3
<1>12. CASE NotStopped(h)
  <2>1. Critical(h) /\ helper'[h].pc = "abort" /\ UNCHANGED <<live, bak, orig>>
    BY <1>1, <1>12 DEF NotStopped, At, Goto, Critical, Pre, files
  <2>2. Kept(h)'  BY <1>0, <1>12, <2>1 DEF Kept, NotStopped, At
  <2> QED BY <1>7, <2>1, <2>2
<1>13. CASE Abort(h)
  <2>1. helper'[h].pc = "report" /\ UNCHANGED <<live, bak, orig>>
    BY <1>1, <1>13 DEF Abort, Report, files
  <2> QED BY <1>8, <2>1 DEF Pre, Post
<1>14. CASE RecoverHealth(h)
  <2>1. PICK ph : helper' = [helper EXCEPT ![h].pc = "report", ![h].phase = ph]
    BY <1>14 DEF RecoverHealth, Report
  <2>2. helper'[h].pc = "report" /\ UNCHANGED <<live, bak, orig>>
    BY <1>1, <1>14, <2>1 DEF RecoverHealth, files
  <2> QED BY <1>8, <2>2 DEF Pre, Post
<1>15. CASE WriteResult(h)
  <2>1. helper'[h].pc = "ended" /\ UNCHANGED <<live, bak, orig>>
    BY <1>1, <1>15, EndedPC DEF WriteResult
  <2> QED BY <1>8, <2>1 DEF Pre, Post
<1>16. CASE Healthy(h)
  <2>1. helper'[h].pc = "report" /\ UNCHANGED <<live, bak, orig>>
    BY <1>1, <1>16 DEF Healthy, Report, files
  <2> QED BY <1>8, <2>1 DEF Pre, Post
<1>17. CASE RecoverStart(h)
  <2>1. Critical(h) /\ helper'[h].pc = "rec_health" /\ UNCHANGED <<live, bak, orig>>
    BY <1>1, <1>17 DEF RecoverStart, At, Goto, Critical, Post, files
  <2>2. Kept(h)'  BY <2>1 DEF Kept
  <2> QED BY <1>7, <2>1, <2>2
<1>18. CASE StartNew(h)
  <2>1. Critical(h) /\ helper'[h].pc = "health" /\ UNCHANGED <<live, bak, orig>>
    BY <1>1, <1>18 DEF StartNew, At, Goto, Critical, Pre, files
  <2>2. Kept(h)'  BY <1>0, <1>18, <2>1 DEF Kept, SavedIn, StartNew, At
  <2> QED BY <1>7, <2>1, <2>2
<1>19. CASE Unhealthy(h)
  <2>1. Critical(h) /\ helper'[h].pc = "rec_stop" /\ UNCHANGED <<live, bak, orig>>
    BY <1>1, <1>19 DEF Unhealthy, At, Recover, Critical, Post, files, HelperState
  <2>2. \A b \in Binaries : SavedIn(b)  BY <1>0, <1>19 DEF Kept, Unhealthy, At
  <2>3. Kept(h)'  BY <1>2, <2>1, <2>2 DEF Kept, SavedIn
  <2> QED BY <1>7, <2>1, <2>3
<1>20. CASE RecoverStop(h)
  <2>1. Critical(h) /\ UNCHANGED <<live, bak, orig>> /\ helper[h].pc = "rec_stop"
    BY <1>20 DEF RecoverStop, At, Critical, Post, files
  <2>2. helper'[h].pc = "restore" /\ helper'[h].i = 1 /\ helper'[h].n = helper[h].n
    BY <1>1, <1>20 DEF RecoverStop, HelperState
  <2>3. Kept(h)'  BY <1>0, <2>1, <2>2 DEF Kept, SavedIn
  <2> QED BY <1>7, <2>1, <2>3
<1>21. CASE BackupFails(h)
  <2>1. Critical(h) /\ UNCHANGED <<live, bak, orig>> /\ helper[h].pc = "backup" /\ helper[h].i \in 1 .. 2
    BY <1>1, <1>21 DEF BackupFails, At, Critical, Pre, files, HelperOK
  <2>2. helper'[h].pc = "rec_stop" /\ helper'[h].n = helper[h].i - 1
    BY <1>1, <1>21 DEF BackupFails, Recover, HelperState
  <2>3. Kept(h)'  BY <1>0, <2>1, <2>2 DEF Kept, SavedIn
  <2> QED BY <1>7, <2>1, <2>3
<1>22. CASE InstallFails(h)
  <2>1. Critical(h) /\ UNCHANGED <<live, bak, orig>> /\ helper[h].pc = "install" /\ helper[h].i \in 1 .. 2
    BY <1>1, <1>22 DEF InstallFails, At, Critical, Pre, files, HelperOK
  <2>2. helper'[h].pc = "rec_stop" /\ helper'[h].n = helper[h].i
    BY <1>1, <1>22 DEF InstallFails, Recover, HelperState
  <2>3. \A j \in 1 .. 2 : j <= helper[h].i => SavedIn(Bins[j])  BY <1>0, <2>1 DEF Kept, Bin
  <2>4. Kept(h)'  BY <2>1, <2>2, <2>3 DEF Kept, SavedIn
  <2> QED BY <1>7, <2>1, <2>4
<1>23. CASE Backup(h)
  <2>1. /\ helper[h].pc = "backup" /\ helper[h].i \in 1 .. 2 /\ orig' = orig
        /\ helper'[h].pc = "install" /\ helper'[h].i = helper[h].i
    BY <1>1, <1>23 DEF Backup, At, Goto, HelperOK, HelperState
  <2>2. live[Bin(h)] = orig[Bin(h)] /\ Bin(h) \in Binaries /\ Bin(h) = Bins[helper[h].i]
    BY <1>0, <1>2, <2>1 DEF Kept, Bin
  <2>3. \A b \in Binaries \ {Bin(h)} : live'[b] = live[b] /\ bak'[b] = bak[b]
    BY <1>1, <1>23 DEF Backup
  <2>4. \/ live[Bin(h)] = None /\ UNCHANGED <<live, bak>>
        \/ bak'[Bin(h)] = live[Bin(h)] /\ live'[Bin(h)] = None
    BY <1>1, <1>23, <2>2 DEF Backup
  <2>5. \A j \in 1 .. 2 : j # helper[h].i => Bins[j] # Bin(h)  BY <2>1, <2>2 DEF Bins
  <2>6. SavedIn(Bin(h))'  BY <2>1, <2>2, <2>4 DEF SavedIn, Bin
  <2>7. Kept(h)'
    <3>1. \A j \in 1 .. 2 : j < helper[h].i => SavedIn(Bins[j])'
      BY <1>0, <1>2, <2>1, <2>3, <2>5 DEF Kept, SavedIn
    <3>2. \A j \in 1 .. 2 : j > helper[h].i => live'[Bins[j]] = orig'[Bins[j]]
      BY <1>0, <1>2, <2>1, <2>3, <2>5 DEF Kept
    <3> QED BY <2>1, <2>6, <3>1, <3>2 DEF Kept
  <2>8. Originals'  BY <1>0, <2>1, <2>2, <2>3, <2>4 DEF Originals
  <2>9. Verified'  BY <1>0, <2>2, <2>3, <2>4 DEF Verified
  <2> QED BY <1>5, <2>1, <2>7, <2>8, <2>9 DEF Contents, Critical, Pre
<1>24. CASE Install(h)
  <2>1. helper[h].pc = "install" /\ helper[h].i \in 1 .. 2 /\ orig' = orig /\ bak' = bak
    BY <1>1, <1>24 DEF Install, At, HelperOK
  <2>2. \/ helper[h].i = 1 /\ helper'[h].pc = "backup" /\ helper'[h].i = 2
        \/ helper[h].i = 2 /\ helper'[h].pc = "start"
    <3>1. Len(Bins) = 2  BY DEF Bins
    <3> QED BY <1>1, <1>24, <2>1, <3>1 DEF Install, HelperState
  <2>3. Bin(h) \in Binaries /\ Bin(h) = Bins[helper[h].i]  BY <1>2, <2>1 DEF Bin
  <2>4. live' = [live EXCEPT ![Bin(h)] = staged[Bin(h)]] /\ staged[Bin(h)] # Partial
    BY <1>24, <2>1, <2>3 DEF Install, Control, NobodyStages, Pre
  <2>5. SavedIn(Bin(h)) /\ \A j \in 1 .. 2 : j < helper[h].i => SavedIn(Bins[j])
    BY <1>0, <2>1 DEF Kept
  <2>6. \A b \in Binaries \ {Bin(h)} : live'[b] = live[b]  BY <1>1, <2>4
  <2>7. Kept(h)'
    <3>1. CASE helper[h].i = 1
      <4>1. SavedIn(Bins[1])' /\ Bins[1] # Bins[2]  BY <2>1, <2>3, <2>5, <3>1 DEF SavedIn, Bins
      <4>2. live'[Bins[2]] = orig'[Bins[2]]
        BY <1>0, <1>2, <2>1, <2>3, <2>6, <3>1, <4>1 DEF Kept
      <4>3. Bin(h)' = Bins[2] /\ helper'[h].pc = "backup" /\ helper'[h].i = 2  BY <2>2, <3>1 DEF Bin
      <4> QED BY <4>1, <4>2, <4>3 DEF Kept
    <3>2. CASE helper[h].i = 2
      <4>1. helper'[h].pc = "start"  BY <2>2, <3>2
      <4>2. SavedIn(Bins[1]) /\ SavedIn(Bins[2])  BY <2>3, <2>5, <3>2
      <4>3. \A b \in Binaries : SavedIn(b)'  BY <1>3, <2>1, <4>2 DEF SavedIn
      <4> QED BY <4>1, <4>3 DEF Kept
    <3> QED BY <2>1, <3>1, <3>2
  <2>8. Originals'  BY <1>0, <2>1, <2>3, <2>5, <2>6 DEF Originals, SavedIn
  <2>9. Verified'  BY <1>0, <1>1, <2>1, <2>3, <2>4, <2>6 DEF Verified
  <2> QED BY <1>5, <2>1, <2>7, <2>8, <2>9 DEF Contents, Critical, Pre
<1>25. CASE Restore(h)
  <2>1. /\ helper[h].pc = "restore" /\ helper[h].i \in 1 .. 2 /\ helper[h].n \in 0 .. 2
        /\ helper[h].i <= helper[h].n /\ orig' = orig
    BY <1>1, <1>25 DEF Restore, At, HelperOK, HelperState
  <2>2. helper'[h].pc = "restore" /\ helper'[h].i = helper[h].i + 1 /\ helper'[h].n = helper[h].n
    <3>1. helper' = [helper EXCEPT ![h].i = @ + 1] \/ helper' = [helper EXCEPT ![h].i = @ + 1, ![h].failed = TRUE]
      BY <1>25 DEF Restore
    <3> QED BY <1>1, <2>1, <3>1 DEF HelperState
  <2>3. Bin(h) \in Binaries /\ Bin(h) = Bins[helper[h].i]  BY <1>2, <2>1 DEF Bin
  <2>4. \A b \in Binaries \ {Bin(h)} : live'[b] = live[b] /\ bak'[b] = bak[b]
    BY <1>1, <1>25 DEF Restore
  <2>5. \/ UNCHANGED <<live, bak>>
        \/ bak[Bin(h)] # None /\ live'[Bin(h)] = bak[Bin(h)] /\ bak'[Bin(h)] = None
    BY <1>1, <1>25, <2>3 DEF Restore
  <2>6. \A j \in 1 .. 2 : helper[h].i <= j /\ j <= helper[h].n => SavedIn(Bins[j])
    BY <1>0, <2>1 DEF Kept
  <2>7. Kept(h)'
    <3>1. \A j \in 1 .. 2 : helper[h].i + 1 <= j => Bins[j] # Bin(h)  BY <2>1, <2>3 DEF Bins
    <3>2. \A j \in 1 .. 2 : helper[h].i + 1 <= j /\ j <= helper[h].n => SavedIn(Bins[j])'
      BY <1>2, <2>1, <2>4, <2>6, <3>1 DEF SavedIn
    <3> QED BY <2>2, <3>2 DEF Kept
  <2>8. SavedIn(Bin(h))  BY <2>1, <2>3, <2>6
  <2>9. Originals'  BY <1>0, <2>1, <2>3, <2>4, <2>5, <2>8 DEF Originals, SavedIn
  <2>10. Verified'  BY <1>0, <2>3, <2>4, <2>5, ConstantsAssumption DEF Verified
  <2> QED BY <1>5, <2>1, <2>7, <2>9, <2>10 DEF Contents, Critical, Post
<1> QED BY <1>9, <1>10, <1>11, <1>12, <1>13, <1>14, <1>15, <1>16, <1>17, <1>18, <1>19, <1>20,
           <1>21, <1>22, <1>23, <1>24, <1>25 DEF HelperStep

(* No other step moves a file that a helper has put aside or in place. *)
LEMMA ServiceContents ==
    Types /\ Control /\ Contents /\ (UpdaterStep \/ ProcServes \/ ProcExits \/ PowerLoss \/ UNCHANGED vars)
             => Contents'
<1> SUFFICES ASSUME Types, Control, Contents, UpdaterStep \/ ProcServes \/ ProcExits \/ PowerLoss \/ UNCHANGED vars
             PROVE  Contents'
  OBVIOUS
<1>0. Originals /\ Verified /\ \A g \in Helpers : Kept(g)  BY DEF Contents
<1>1. UNCHANGED <<live, bak, orig>>
  BY DEF UpdaterStep, CheckLatest, Apply, StageOpen, StageVerify, RunFails, Discard, Handoff, TimeoutFree,
         ProcServes, ProcExits, PowerLoss, vars, files
<1>2. \A g \in Helpers : UNCHANGED helper[g] \/ helper'[g].pc \in {"read", "ended"}
  <2>1. helper \in [Helpers -> HelperState]  BY DEF Types, HelpersInv
  <2>2. CASE Handoff  BY <2>1, <2>2 DEF Handoff
  <2>3. CASE PowerLoss  BY <2>1, <2>3, EndedPC DEF PowerLoss
  <2>4. CASE UNCHANGED helper  BY <2>4
  <2> QED BY <2>2, <2>3, <2>4 DEF UpdaterStep, CheckLatest, Apply, StageOpen, StageVerify, RunFails, Discard, TimeoutFree,
             ProcServes, ProcExits, vars
<1>3. \A g \in Helpers : Kept(g)'
  BY <1>0, <1>1, <1>2 DEF Kept, SavedIn, Bin
<1> QED BY <1>0, <1>1, <1>3 DEF Contents, Originals, Verified

Inv == Types /\ ("overrun" \notin mishaps => Control /\ Contents)

(* The invariant holds of a fresh installation. *)
LEMMA InitInv == Init => Inv
<1> SUFFICES ASSUME Init PROVE Inv  OBVIOUS
<1>1. run.pc = "idle" /\ \A h \in Helpers : helper[h].pc = "none"  BY DEF Init, NoRun, NoHelper
<1>2. Control
  BY <1>1 DEF Control, OneHelper, NobodyStages, StagedSoFar, StoppedFor, Critical, Pre, Post
<1>3. Contents
  BY <1>1, ConstantsAssumption DEF Init, Contents, Kept, Originals, Verified
<1> QED BY <1>2, <1>3, InitTypes DEF Inv

(* Every step preserves it. *)
LEMMA StepInv == Inv /\ [Next]_vars => Inv'
<1> SUFFICES ASSUME Inv, [Next]_vars PROVE Inv'  OBVIOUS
<1>1. Types'  BY StepTypes DEF Inv
<1>2. ASSUME "overrun" \notin mishaps' PROVE Control' /\ Contents'
  <2>0. "overrun" \notin mishaps  BY <1>2, MishapsStay
  <2>1. CASE \E h \in Helpers : HelperStep(h)
    BY <1>1, <2>0, <2>1, HelperControl, HelperContents DEF Inv
  <2>2. CASE UpdaterStep \/ ProcServes \/ ProcExits \/ PowerLoss \/ UNCHANGED vars
    BY <1>1, <1>2, <2>0, <2>2, ServiceControl, ServiceContents DEF Inv
  <2> QED BY <2>1, <2>2 DEF Next
<1> QED BY <1>1, <1>2 DEF Inv

----------------------------------------------------------------------------
(* What an update keeps *)

(* Whatever fails and whenever power goes, the binaries an update began with
   are live or backed up until the next update begins, unless the timer let
   two helpers work at once (helper.go rollback). *)
THEOREM UpdateKeepsOriginals == Spec => []OriginalKept
<1>1. Inv => OriginalKept  BY DEF Inv, Contents, Spared, Originals, OriginalKept
<1> QED BY <1>1, InitInv, StepInv, PTL DEF Spec

(* Nothing but verified releases is ever installed or backed up, unless the
   timer let the next update stage while a helper was at work
   (updater.go downloadFile, verifySHA256; helper.go runSequence). *)
THEOREM UpdateInstallsVerified == Spec => []InstalledVerified
<1>1. Inv => InstalledVerified  BY DEF Inv, Contents, Spared, Verified, InstalledVerified
<1> QED BY <1>1, InitInv, StepInv, PTL DEF Spec

(* However slow the service is to stop, the binaries are swapped only while it
   is down, unless a serving process left a probe of waitStopped unanswered or
   the timer overtook the helper (helper.go waitStopped). *)
THEOREM UpdateSwapsWhenStopped == Spec => []SwapOnlyWhenStopped
<1>1. Inv => SwapOnlyWhenStopped  BY DEF Inv, Control, StoppedFor, Spared, SwapOnlyWhenStopped, Swapping
<1> QED BY <1>1, InitInv, StepInv, PTL DEF Spec

----------------------------------------------------------------------------
(* Updates lead forward *)

(* isNewer is the lexicographic order of the three numbers. *)
LEMMA NewerIsLexicographic ==
    ASSUME NEW a \in Version, NEW b \in Version
    PROVE  isNewer(a, b) <=> \/ a[1] > b[1]
                             \/ a[1] = b[1] /\ a[2] > b[2]
                             \/ a[1] = b[1] /\ a[2] = b[2] /\ a[3] > b[3]
<1> DEFINE D(k) == a[k] # b[k] /\ \A j \in 1 .. k - 1 : a[j] = b[j]
<1> DEFINE i == CHOOSE k \in 1 .. 3 : D(k)
<1>0. \A k \in 1 .. 3 : a[k] \in Nat /\ b[k] \in Nat  BY DEF Version
<1>1. CASE \A k \in 1 .. 3 : a[k] = b[k]
  <2>1. ~isNewer(a, b)  BY <1>1 DEF isNewer, compareVersions
  <2>2. a[1] = b[1] /\ a[2] = b[2] /\ a[3] = b[3]  BY <1>1
  <2> QED BY <1>0, <2>1, <2>2
<1>2. ASSUME NEW k \in 1 .. 3, D(k) PROVE isNewer(a, b) <=> a[k] > b[k]
  <2>1. i \in 1 .. 3 /\ D(i)  BY <1>2
  <2>2. i = k
    <3>1. ~(i < k)  BY <1>2, <2>1
    <3>2. ~(k < i)  BY <1>2, <2>1
    <3> HIDE DEF i
    <3> QED BY <2>1, <3>1, <3>2
  <2>3. ~\A j \in 1 .. 3 : a[j] = b[j]  BY <1>2
  <2>4. compareVersions(a, b) = IF a[i] < b[i] THEN -1 ELSE 1  BY <2>3, Zenon DEF compareVersions
  <2> QED BY <1>0, <1>2, <2>2, <2>4 DEF isNewer
<1>3. CASE a[1] # b[1]
  <2>1. D(1)  BY <1>3
  <2> QED BY <1>0, <1>2, <1>3, <2>1
<1>4. CASE a[1] = b[1] /\ a[2] # b[2]
  <2>1. D(2)  BY <1>4
  <2> QED BY <1>0, <1>2, <1>4, <2>1
<1>5. CASE a[1] = b[1] /\ a[2] = b[2] /\ a[3] # b[3]
  <2>1. D(3)  BY <1>5
  <2> QED BY <1>0, <1>2, <1>5, <2>1
<1> QED BY <1>1, <1>3, <1>4, <1>5

(* What is newer than a version is newer than all that one is no older than. *)
LEMMA NewerIsOrder ==
    /\ \A a \in Version : ~isNewer(a, a)
    /\ \A a, b \in Version : isNewer(a, b) => ~isNewer(b, a)
    /\ \A a, b, c \in Version : isNewer(a, b) /\ ~isNewer(c, b) => isNewer(a, c)
<1>0. \A a \in Version : \A k \in 1 .. 3 : a[k] \in Nat  BY DEF Version
<1> QED BY <1>0, NewerIsLexicographic

Underway(h) == helper[h].pc \in (Pre \cup Post) \ {"read"}

(* A helper installs what is newer than what it found, and the service it
   started is what it installed. *)
Forward(h) ==
    /\ helper[h].target # None => isNewer(helper[h].target, helper[h].prev)
    /\ helper[h].pc = "read" /\ cfg # None =>
          /\ live["wlcsim"] \in Versions /\ isNewer(cfg.target, live["wlcsim"])
          /\ staged["wlcsim"] \in {cfg.target, None}
    /\ Underway(h) => orig["wlcsim"] \in Versions /\ isNewer(helper[h].target, orig["wlcsim"])
    /\ Underway(h) /\ helper[h].pc \in Pre => staged["wlcsim"] \in {helper[h].target, None}
    /\ \/ helper[h].pc \in {"backup", "install"} /\ helper[h].i = 2
       \/ helper[h].pc = "start"
       => live["wlcsim"] = helper[h].target
    /\ helper[h].pc \in {"health", "rec_stop", "restore"} /\ Up => proc.v = helper[h].target

(* The running service is never older than the binary on the disk, and what it
   stages and hands over is newer than itself. *)
ServiceForward ==
    /\ Up => live["wlcsim"] \in Versions /\ ~isNewer(live["wlcsim"], proc.v)
    /\ cfg # None => isNewer(cfg.target, cfg.prev)
    /\ run.pc # "idle" => isNewer(run.target, proc.v)
    /\ \/ run.pc = "handoff"
       \/ run.pc \in {"open", "verify"} /\ run.i = 2
       => staged["wlcsim"] \in {run.target, None}

Direction == ServiceForward /\ \A h \in Helpers : Forward(h)
Directed == {"overrun", "misread"} \cap mishaps = {} => Direction

(* Where the service is after the manager was asked to stop or start it. *)
LEMMA ServiceAfter ==
    ASSUME ServiceOK, UNCHANGED service \/ StopService \/ StartService
    PROVE  \/ ~Up' /\ run'.pc = "idle"
           \/ Up /\ Up' /\ proc'.v = proc.v /\ (run' = run \/ run'.pc = "idle")
           \/ /\ StartService /\ ~Up /\ Up' /\ run'.pc = "idle"
              /\ live["wlcsim"] \in Versions /\ proc'.v = live["wlcsim"]
<1>1. run.pc # "idle" => Up  BY DEF ServiceOK
<1>2. CASE UNCHANGED service  BY <1>1, <1>2 DEF service, Up
<1>3. CASE StopService
  <2>1. ASSUME Up, proc' = [proc EXCEPT !.st = "stopping"] PROVE proc'.v = proc.v /\ proc' \in Process
    BY <2>1 DEF ServiceOK, Up, Process
  <2> QED BY <1>2, <1>3, <2>1, Restarted, ConstantsAssumption DEF Up
<1>4. CASE StartService
  <2>1. ASSUME NEW v \in Versions PROVE [v |-> v, st |-> "starting"] # None
    BY <2>1, ConstantsAssumption DEF Process
  <2>2. CASE ~Up /\ live["wlcsim"] \in Versions
    <3>1. Replaced([v |-> live["wlcsim"], st |-> "starting"])  BY <1>4, <2>2 DEF StartService
    <3>2. proc' = [v |-> live["wlcsim"], st |-> "starting"] /\ run'.pc = "idle"  BY <3>1, Restarted
    <3> QED BY <1>4, <2>1, <2>2, <3>2 DEF Up
  <2>3. CASE ~(~Up /\ live["wlcsim"] \in Versions)
    <3>1. UNCHANGED service  BY <1>4, <2>3 DEF StartService
    <3> QED BY <1>2, <3>1
  <2> QED BY <2>2, <2>3
<1> QED BY <1>2, <1>3, <1>4

(* What a helper's step does to the files, by where the helper is. *)
LEMMA HelperFiles ==
    ASSUME Types, NEW h \in Helpers, HelperStep(h)
    PROVE  /\ helper[h].pc = "report" \/ cfg' = cfg
           /\ cfg' \in {cfg, None}
           /\ helper[h].pc # "install" => staged' = staged
           /\ helper[h].pc \notin {"backup", "install", "restore"} => UNCHANGED <<live, bak>>
           /\ helper[h].pc # "read" => UNCHANGED orig
           /\ helper[h].pc \notin {"read", "report"} =>
                 helper'[h].target = helper[h].target /\ helper'[h].prev = helper[h].prev
<1> USE DEF At, Goto, Recover, Report, files
<1>1. helper \in [Helpers -> HelperState]  BY DEF Types, HelpersInv
<1>2. CASE ReadConfig(h)  BY <1>2 DEF ReadConfig
<1>3. CASE StopOld(h)  BY <1>1, <1>3 DEF StopOld, HelperState
<1>4. CASE SeenStopped(h)  BY <1>1, <1>4 DEF SeenStopped, HelperState
<1>5. CASE NotStopped(h)  BY <1>1, <1>5 DEF NotStopped, HelperState
<1>6. CASE Abort(h)  BY <1>1, <1>6 DEF Abort, HelperState
<1>7. CASE Backup(h)  BY <1>1, <1>7 DEF Backup, HelperState
<1>8. CASE BackupFails(h)  BY <1>1, <1>8 DEF BackupFails, HelperState
<1>9. CASE Install(h)
  <2>1. \/ helper' = [helper EXCEPT ![h].pc = "backup", ![h].i = @ + 1]
        \/ helper' = [helper EXCEPT ![h].pc = "start"]
    BY <1>9 DEF Install
  <2>2. helper'[h].target = helper[h].target /\ helper'[h].prev = helper[h].prev
    BY <1>1, <2>1 DEF HelperState
  <2> QED BY <1>9, <2>2 DEF Install
<1>10. CASE InstallFails(h)  BY <1>1, <1>10 DEF InstallFails, HelperState
<1>11. CASE StartNew(h)  BY <1>1, <1>11 DEF StartNew, HelperState
<1>12. CASE Healthy(h)  BY <1>1, <1>12 DEF Healthy, HelperState
<1>13. CASE Unhealthy(h)  BY <1>1, <1>13 DEF Unhealthy, HelperState
<1>14. CASE RecoverStop(h)  BY <1>1, <1>14 DEF RecoverStop, HelperState
<1>15. CASE Restore(h)
  <2>1. helper' = [helper EXCEPT ![h].i = @ + 1] \/ helper' = [helper EXCEPT ![h].i = @ + 1, ![h].failed = TRUE]
    BY <1>15 DEF Restore
  <2>2. helper'[h].target = helper[h].target /\ helper'[h].prev = helper[h].prev
    BY <1>1, <2>1 DEF HelperState
  <2> QED BY <1>15, <2>2 DEF Restore
<1>16. CASE RecoverStart(h)  BY <1>1, <1>16 DEF RecoverStart, HelperState
<1>17. CASE RecoverHealth(h)
  <2>1. PICK ph : helper' = [helper EXCEPT ![h].pc = "report", ![h].phase = ph]  BY <1>17 DEF RecoverHealth
  <2>2. helper'[h].target = helper[h].target /\ helper'[h].prev = helper[h].prev
    BY <1>1, <2>1 DEF HelperState
  <2> QED BY <1>17, <2>2 DEF RecoverHealth
<1>18. CASE WriteResult(h)  BY <1>1, <1>18 DEF WriteResult, HelperState
<1> QED BY <1>2, <1>3, <1>4, <1>5, <1>6, <1>7, <1>8, <1>9, <1>10, <1>11, <1>12, <1>13, <1>14, <1>15, <1>16, <1>17, <1>18 DEF HelperStep

(* A step that moves live binaries leaves the service alone, and while files
   are swapped there is none. *)
LEMMA SwapQuiet ==
    ASSUME Types, Control, NEW h \in Helpers, HelperStep(h), live' # live
    PROVE  UNCHANGED service /\ (Backup(h) \/ Install(h) \/ Restore(h))
BY DEF HelperStep, ReadConfig, StopOld, SeenStopped, NotStopped, Abort, Backup, BackupFails, Install, InstallFails,
       StartNew, Healthy, Unhealthy, RecoverStop, Restore, RecoverStart, RecoverHealth, WriteResult, files

(* A helper that has ended has nothing left to do. *)
LEMMA EndsForward == ASSUME NEW g \in Helpers, helper'[g] = Ended PROVE Forward(g)'
<1>1. helper'[g].pc = "ended" /\ helper'[g].target = None  BY EndedPC
<1>2. ~Underway(g)' /\ helper'[g].pc \notin Pre \cup Post  BY <1>1 DEF Underway, Pre, Post
<1> QED BY <1>1, <1>2 DEF Forward, Pre, Post

(* A helper at work does not turn the service back. *)
LEMMA HelperServiceForward ==
    ASSUME "misread" \notin mishaps, Types, Control, Contents, Direction, NEW h \in Helpers, HelperStep(h)
    PROVE  ServiceForward'
<1> USE ConstantsAssumption
<1>0. ServiceForward /\ Forward(h) /\ Kept(h) /\ NobodyStages /\ StoppedFor
  BY DEF Direction, Contents, Control
<1>1. /\ live \in [Binaries -> Content] /\ bak \in [Binaries -> Content] /\ "wlcsim" \in Binaries
      /\ ServiceOK /\ helper[h] \in HelperState /\ HelperOK(helper[h])
  BY DEF Types, FilesOK, HelpersInv, Binaries
<1>2. UNCHANGED service \/ StopService \/ StartService  BY HelperFrame
<1>3. \/ ~Up' /\ run'.pc = "idle"
      \/ Up /\ Up' /\ proc'.v = proc.v /\ (run' = run \/ run'.pc = "idle")
      \/ /\ StartService /\ ~Up /\ Up' /\ run'.pc = "idle"
         /\ live["wlcsim"] \in Versions /\ proc'.v = live["wlcsim"]
  BY <1>1, <1>2, ServiceAfter
<1>4. Up' => live'["wlcsim"] \in Versions /\ ~isNewer(live'["wlcsim"], proc'.v)
  <2>1. CASE live' = live
    BY <1>0, <1>3, <2>1, NewerIsOrder DEF ServiceForward
  <2>2. CASE live' # live
    <3>1. UNCHANGED service /\ (Backup(h) \/ Install(h) \/ Restore(h))  BY <2>2, SwapQuiet
    <3>2. ASSUME Up PROVE live'["wlcsim"] \in Versions /\ ~isNewer(live'["wlcsim"], proc.v)
      <4>1. Restore(h) /\ helper[h].pc = "restore"
        BY <1>0, <3>1, <3>2 DEF Backup, Install, Restore, At, StoppedFor
      <4>2. PICK b \in Binaries : live' = [live EXCEPT ![b] = bak[b]] /\ b = Bin(h) /\ bak[b] # None
        BY <1>1, <2>2, <4>1 DEF Restore, Bin, Bins, Binaries, HelperOK, HelperState
      <4>3. CASE b # "wlcsim"
        BY <1>0, <1>1, <3>2, <4>2, <4>3 DEF ServiceForward
      <4>4. CASE b = "wlcsim"
        <5>1. helper[h].i \in 1 .. 2 /\ helper[h].i <= helper[h].n
          BY <1>1, <4>1 DEF Restore, HelperOK, HelperState
        <5>2. SavedIn(b) /\ proc.v = helper[h].target /\ Underway(h)
          BY <1>0, <3>2, <4>1, <4>2, <5>1 DEF Kept, Bin, Forward, Underway, Pre, Post
        <5>3. /\ orig["wlcsim"] \in Versions /\ isNewer(helper[h].target, orig["wlcsim"])
              /\ helper[h].target \in Versions
          BY <1>0, <1>1, <4>1, <5>2 DEF Forward, HelperOK
        <5>4. live'["wlcsim"] = orig["wlcsim"]
          BY <1>1, <4>2, <4>4, <5>2, <5>3 DEF SavedIn
        <5> QED BY <5>2, <5>3, <5>4, NewerIsOrder
      <4> QED BY <4>3, <4>4
    <3> QED BY <3>1, <3>2 DEF service, Up
  <2> QED BY <2>1, <2>2
<1>5. cfg' \in {cfg, None}  BY HelperFiles
<1>6. ASSUME run'.pc # "idle" PROVE run' = run /\ proc'.v = proc.v /\ staged' = staged
  <2>1. run' = run /\ proc'.v = proc.v  BY <1>3, <1>6
  <2>2. helper[h].pc # "install"  BY <1>0, <1>6, <2>1 DEF NobodyStages, Pre
  <2> QED BY <2>1, <2>2, HelperFiles
<1> QED BY <1>0, <1>4, <1>5, <1>6 DEF ServiceForward

(* Nor does it install anything but what is newer than what it found. *)
LEMMA HelperForward ==
    ASSUME "misread" \notin mishaps, Types, Control, Contents, Direction, NEW h \in Helpers, HelperStep(h)
    PROVE  Direction'
<1> USE ConstantsAssumption
<1>0. ServiceForward /\ Forward(h) /\ Kept(h) /\ NobodyStages /\ StoppedFor /\ OneHelper
  BY DEF Direction, Contents, Control
<1>1. /\ live \in [Binaries -> Content] /\ staged \in [Binaries -> Content] /\ "wlcsim" \in Binaries
      /\ helper \in [Helpers -> HelperState] /\ HelperOK(helper[h]) /\ ServiceOK
  BY DEF Types, FilesOK, HelpersInv, Binaries
<1>2. /\ \A g \in Helpers \ {h} : helper'[g] = helper[g]
      /\ helper'[h].pc \in Pre => helper[h].pc \in Pre
      /\ helper'[h].pc \in Post => Critical(h)
      /\ \A b \in Binaries : staged'[b] \in {staged[b], None}
      /\ UNCHANGED service \/ StopService \/ StartService
  BY HelperFrame
<1>3. ASSUME NEW g \in Helpers, g # h PROVE Forward(g)'
  <2>1. helper'[g] = helper[g] /\ Forward(g)  BY <1>2, <1>3 DEF Direction
  <2>2. CASE Critical(h)
    <3>1. ~Critical(g)  BY <1>0, <1>3, <2>2 DEF OneHelper
    <3> QED BY <2>1, <3>1 DEF Forward, Underway, Critical, Pre, Post
  <2>3. CASE ~Critical(h)
    <3>1. WriteResult(h)
      BY <2>3 DEF HelperStep, ReadConfig, StopOld, SeenStopped, NotStopped, Abort, Backup, BackupFails, Install,
           InstallFails, StartNew, Healthy, Unhealthy, RecoverStop, Restore, RecoverStart, RecoverHealth,
           At, Critical, Pre, Post
    <3> QED BY <2>1, <3>1 DEF WriteResult, Forward, Underway, service, Up
  <2> QED BY <2>2, <2>3
<1>4. CASE ReadConfig(h)
  <2>1. /\ helper[h].pc = "read" /\ UNCHANGED <<service, files>>
        /\ cfg = None => helper' = [helper EXCEPT ![h] = Ended]
        /\ cfg # None => /\ helper' = [helper EXCEPT ![h].pc = "stop", ![h].target = cfg.target, ![h].prev = cfg.prev]
                         /\ orig' = live
    BY <1>4 DEF ReadConfig, At
  <2>2. ASSUME cfg = None PROVE Forward(h)'
    <3>1. helper'[h] = Ended  BY <1>1, <2>1, <2>2
    <3> QED BY <3>1, EndsForward
  <2>3. ASSUME cfg # None PROVE Forward(h)'
    <3>1. helper'[h].pc = "stop" /\ helper'[h].target = cfg.target /\ helper'[h].prev = cfg.prev
      BY <1>1, <2>1, <2>3 DEF HelperState
    <3>2. /\ isNewer(cfg.target, cfg.prev) /\ live["wlcsim"] \in Versions /\ isNewer(cfg.target, live["wlcsim"])
          /\ staged["wlcsim"] \in {cfg.target, None} /\ orig' = live /\ staged' = staged
      BY <1>0, <2>1, <2>3 DEF Forward, ServiceForward, files
    <3> QED BY <3>1, <3>2 DEF Forward, Underway
  <2> QED BY <1>3, <2>2, <2>3, HelperServiceForward DEF Direction
<1>7. CASE WriteResult(h)
  <2>1. helper'[h] = Ended  BY <1>1, <1>7 DEF WriteResult
  <2> QED BY <1>3, <2>1, EndsForward, HelperServiceForward DEF Direction
<1>5. CASE helper[h].pc \notin {"read", "report"}
  <2>1. UNCHANGED orig /\ helper'[h].target = helper[h].target /\ helper'[h].prev = helper[h].prev
    BY <1>5, HelperFiles
  <2>2. helper'[h].pc # "read"
    BY <1>1, <1>5 DEF HelperStep, ReadConfig, StopOld, SeenStopped, NotStopped, Abort, Backup, BackupFails, Install,
       InstallFails, StartNew, Healthy, Unhealthy, RecoverStop, Restore, RecoverStart, RecoverHealth, WriteResult,
       At, Goto, Recover, Report, HelperState
  <2>3. Underway(h)' => Underway(h)
    BY <1>2, <1>5 DEF Underway, Critical
  <2>4. Underway(h)' /\ helper'[h].pc \in Pre => staged'["wlcsim"] \in {helper[h].target, None}
    BY <1>0, <1>1, <1>2, <2>3 DEF Forward
  <2>5. ASSUME \/ helper'[h].pc \in {"backup", "install"} /\ helper'[h].i = 2
               \/ helper'[h].pc = "start"
        PROVE  live'["wlcsim"] = helper[h].target
    <3>1. Backup(h) \/ Install(h)
      BY <1>1, <1>5, <2>5 DEF HelperStep, ReadConfig, StopOld, SeenStopped, NotStopped, Abort, BackupFails,
         InstallFails, StartNew, Healthy, Unhealthy, RecoverStop, Restore, RecoverStart, RecoverHealth, WriteResult,
         At, Goto, Recover, Report, HelperState
    <3>2. CASE Backup(h)
      <4>1. helper[h].pc = "backup" /\ helper'[h].i = helper[h].i /\ helper'[h].pc = "install"
        BY <1>1, <3>2 DEF Backup, At, Goto, HelperState
      <4>2. Bin(h) = "wlcsim-console" /\ live["wlcsim"] = helper[h].target
        BY <1>0, <2>5, <4>1 DEF Bin, Bins, Forward
      <4> QED BY <1>1, <3>2, <4>2 DEF Backup
    <3>3. CASE Install(h)
      <4>1. /\ helper[h].pc = "install" /\ helper[h].i \in 1 .. 2 /\ staged[Bin(h)] # None
            /\ live' = [live EXCEPT ![Bin(h)] = staged[Bin(h)]]
        BY <1>1, <3>3 DEF Install, At, HelperOK
      <4>2. CASE helper[h].i = 1
        <5>1. Bin(h) = "wlcsim"  BY <4>2 DEF Bin, Bins
        <5>2. staged["wlcsim"] = helper[h].target
          BY <1>0, <4>1, <5>1 DEF Forward, Underway, Pre, Post
        <5> QED BY <1>1, <4>1, <5>1, <5>2
      <4>3. CASE helper[h].i = 2
        BY <1>0, <1>1, <4>1, <4>3 DEF Bin, Bins, Forward
      <4> QED BY <4>1, <4>2, <4>3
    <3> QED BY <3>1, <3>2, <3>3
  <2>6. ASSUME helper'[h].pc \in {"health", "rec_stop", "restore"}, Up'
        PROVE  proc'.v = helper[h].target
    <3>1. BackupFails(h) \/ InstallFails(h) \/ StartNew(h) \/ Unhealthy(h) \/ RecoverStop(h) \/ Restore(h)
      BY <1>1, <1>5, <2>6 DEF HelperStep, ReadConfig, StopOld, SeenStopped, NotStopped, Abort, Backup, Install,
         Healthy, RecoverStart, RecoverHealth, WriteResult, At, Goto, Report, HelperState
    <3>2. CASE BackupFails(h) \/ InstallFails(h)
      BY <1>0, <2>6, <3>2 DEF BackupFails, InstallFails, At, StoppedFor, service, Up
    <3>3. CASE StartNew(h)
      <4>1. ~Up /\ live["wlcsim"] = helper[h].target
        BY <1>0, <3>3 DEF StartNew, At, StoppedFor, Forward
      <4>2. UNCHANGED service \/ StartService  BY <3>3 DEF StartNew
      <4> QED BY <1>1, <2>6, <4>1, <4>2, ServiceAfter DEF service, Up
    <3>4. CASE Unhealthy(h) \/ Restore(h)
      BY <1>0, <2>6, <3>4 DEF Unhealthy, Restore, At, Forward, service, Up
    <3>5. CASE RecoverStop(h)
      <4>1. StopService /\ helper[h].pc = "rec_stop"  BY <3>5 DEF RecoverStop, At
      <4>2. ~Up => ~Up'  BY <4>1 DEF StopService, service, Up
      <4>3. Up /\ proc'.v = proc.v  BY <1>1, <2>6, <4>1, <4>2, ServiceAfter
      <4> QED BY <1>0, <4>1, <4>3 DEF Forward
    <3> QED BY <3>1, <3>2, <3>3, <3>4, <3>5
  <2>7. Forward(h)'
    BY <1>0, <2>1, <2>2, <2>3, <2>4, <2>5, <2>6 DEF Forward, Underway
  <2> QED BY <1>3, <2>7, HelperServiceForward DEF Direction
<1>6. ReadConfig(h) \/ WriteResult(h) \/ helper[h].pc \notin {"read", "report"}
  BY DEF HelperStep, StopOld, SeenStopped, NotStopped, Abort, Backup, BackupFails, Install,
     InstallFails, StartNew, Healthy, Unhealthy, RecoverStop, Restore, RecoverStart, RecoverHealth, At
<1> QED BY <1>4, <1>5, <1>6, <1>7

(* The updater stages and hands over only what is newer than the process it
   runs in, and a process that starts is what is installed. *)
LEMMA ServiceForwardStep ==
    ASSUME "overrun" \notin mishaps', Types, Control, Direction,
           UpdaterStep \/ ProcServes \/ ProcExits \/ PowerLoss \/ UNCHANGED vars
    PROVE  Direction'
<1> USE ConstantsAssumption
<1>0. ServiceForward /\ NobodyStages /\ \A g \in Helpers : Forward(g)  BY DEF Direction, Control
<1>1. /\ staged \in [Binaries -> Content] /\ Binaries = {"wlcsim", "wlcsim-console"} /\ ServiceOK /\ RunInv
      /\ helper \in [Helpers -> HelperState]
  BY DEF Types, FilesOK, HelpersInv, Binaries
(* While the updater stages, no helper is before its start of the service. *)
<1>2. ASSUME UNCHANGED <<helper, cfg, live, orig>>, staged' = staged \/ staged'["wlcsim"] = None \/ run.pc # "idle",
             Up' => Up /\ proc'.v = proc.v
      PROVE  \A g \in Helpers : Forward(g)'
  <2> SUFFICES ASSUME NEW g \in Helpers PROVE Forward(g)'  OBVIOUS
  <2>1. helper[g].pc \in Pre => staged' = staged \/ staged'["wlcsim"] = None  BY <1>0, <1>2 DEF NobodyStages
  <2> QED BY <1>0, <1>2, <2>1 DEF Forward, Underway, Pre
<1>3. CASE UNCHANGED vars
  BY <1>0, <1>2, <1>3 DEF vars, service, files, Direction, ServiceForward, Up
<1>4. CASE ProcServes
  <2>1. Up /\ Up' /\ proc'.v = proc.v  BY <1>1, <1>4 DEF ProcServes, ServiceOK, Up, Process
  <2> QED BY <1>0, <1>2, <1>4, <2>1 DEF ProcServes, files, Direction, ServiceForward
<1>5. CASE ProcExits
  <2>1. ~Up' /\ run'.pc = "idle" /\ UNCHANGED <<helper, cfg, live, orig, staged>>
    BY <1>5, Restarted DEF ProcExits, Up, files
  <2> QED BY <1>0, <1>2, <2>1 DEF Direction, ServiceForward
<1>6. CASE PowerLoss
  <2>1. /\ run'.pc = "idle" /\ UNCHANGED <<cfg, live>>
        /\ proc' = IF live["wlcsim"] \in Versions THEN [v |-> live["wlcsim"], st |-> "starting"] ELSE None
    BY <1>6, Restarted DEF PowerLoss, files
  <2>2. Up' => live["wlcsim"] \in Versions /\ proc'.v = live["wlcsim"]  BY <2>1 DEF Up
  <2>3. ServiceForward'  BY <1>0, <2>1, <2>2, NewerIsOrder DEF ServiceForward
  <2>4. \A g \in Helpers : \/ helper'[g] = Ended
                           \/ helper[g].pc \in {"none", "ended"} /\ helper'[g] = helper[g]
    <3>1. \A g \in Helpers : helper'[g] = IF Active(g) THEN Ended ELSE helper[g]  BY <1>6 DEF PowerLoss
    <3>2. \A g \in Helpers : ~Active(g) => helper[g].pc \in {"none", "ended"}  BY DEF Active
    <3> QED BY <3>1, <3>2
  <2>5. \A g \in Helpers : Forward(g)'  BY <1>0, <2>4, EndsForward DEF Forward, Underway, Pre, Post
  <2> QED BY <2>3, <2>5 DEF Direction
<1>7. ASSUME NEW v \in Versions, CheckLatest(v) PROVE Direction'
  BY <1>0, <1>2, <1>7 DEF CheckLatest, files, Direction, ServiceForward, Up
<1>8. CASE Apply
  <2>1. /\ run'.target = latest /\ isNewer(latest, proc.v) /\ run'.pc = "open" /\ run'.i = 1
        /\ UNCHANGED <<proc, files, helper, orig>>
    BY <1>8 DEF Apply
  <2> QED BY <1>0, <1>2, <2>1 DEF files, Direction, ServiceForward, Up
<1>9. CASE StageOpen
  <2>1. /\ run.pc = "open" /\ run'.pc = "verify" /\ run'.i = run.i /\ run'.target = run.target /\ run.i \in 1 .. 2
        /\ staged' = [staged EXCEPT ![Bins[run.i]] = Partial] /\ UNCHANGED <<proc, helper, cfg, live, orig>>
    BY <1>1, <1>9 DEF StageOpen, ServiceOK, RunInv, RunState
  <2>2. run.i = 2 => staged'["wlcsim"] \in {run.target, None}
    BY <1>0, <1>1, <2>1 DEF ServiceForward, Bins
  <2> QED BY <1>0, <1>2, <2>1, <2>2 DEF Direction, ServiceForward, Up
<1>10. CASE StageVerify
  <2>1. /\ run.pc = "verify" /\ run'.target = run.target /\ run.i \in 1 .. 2 /\ run'.pc # "idle"
        /\ \/ staged' = [staged EXCEPT ![Bins[run.i]] = run.target]
           \/ staged' = staged /\ staged[Bins[run.i]] # Partial
        /\ UNCHANGED <<proc, helper, cfg, live, orig>>
    BY <1>1, <1>10 DEF StageVerify, ServiceOK, RunInv, RunState
  <2>2. staged'["wlcsim"] \in {run.target, None}
    BY <1>0, <1>1, <2>1 DEF ServiceForward, Bins, Control, StagedSoFar
  <2> QED BY <1>0, <1>2, <2>1, <2>2 DEF Direction, ServiceForward, Up
<1>11. CASE RunFails
  <2>1. run'.pc = "idle" /\ UNCHANGED <<proc, helper, files, orig>>
    BY <1>11 DEF RunFails, NoRun
  <2> QED BY <1>0, <1>2, <2>1 DEF files, Direction, ServiceForward, Up
<1>14. CASE Discard
  <2>1. staged'["wlcsim"] = None /\ UNCHANGED <<proc, run, helper, cfg, live, orig>>
    BY <1>1, <1>14 DEF Discard
  <2> QED BY <1>0, <1>2, <2>1 DEF Direction, ServiceForward, Up
<1>12. CASE Handoff
  <2> DEFINE new == spawned + 1
  <2>1. /\ run.pc = "handoff" /\ run'.pc = "idle" /\ UNCHANGED <<proc, staged, live, orig>> /\ PollersDone
        /\ cfg' = [target |-> run.target, prev |-> proc.v] /\ helper' = [helper EXCEPT ![new].pc = "read"]
    BY <1>12 DEF Handoff, Mishap, NoRun
  <2>2. /\ isNewer(run.target, proc.v) /\ staged["wlcsim"] \in {run.target, None} /\ run.target \in Versions
        /\ Up /\ live["wlcsim"] \in Versions /\ ~isNewer(live["wlcsim"], proc.v)
    BY <1>0, <1>1, <2>1 DEF ServiceForward, RunInv, ServiceOK
  <2>3. proc.v \in Version  BY <1>1, <2>2 DEF ServiceOK, Up, Process
  <2>4. isNewer(run.target, live["wlcsim"])  BY <2>2, <2>3, NewerIsOrder
  <2>5. ServiceForward'  BY <1>0, <2>1, <2>2 DEF ServiceForward, Up
  <2>6. ASSUME NEW g \in Helpers PROVE Forward(g)'
    <3>1. helper[g].pc \notin Pre \cup {"health", "rec_stop", "restore", "rec_health"}
      BY <1>0, <2>1 DEF NobodyStages, PollersDone
    <3>2. helper'[g].target = helper[g].target /\ helper'[g].prev = helper[g].prev
      BY <1>1, <2>1 DEF HelperState
    <3>3. helper'[g].pc = helper[g].pc \/ helper'[g].pc = "read"
      BY <1>1, <2>1 DEF HelperState
    <3>4. helper'[g].pc \notin (Pre \cup Post) \ {"read"}  BY <3>1, <3>3 DEF Pre, Post
    <3>5. isNewer(cfg'.target, live'["wlcsim"]) /\ live'["wlcsim"] \in Versions /\ staged'["wlcsim"] \in {cfg'.target, None}
      BY <2>1, <2>2, <2>4
    <3> QED BY <1>0, <3>2, <3>4, <3>5 DEF Forward, Underway, Pre, Post
  <2> QED BY <2>5, <2>6 DEF Direction
<1>13. CASE TimeoutFree
  BY <1>0, <1>2, <1>13 DEF TimeoutFree, files, Direction, ServiceForward, Up
<1> QED BY <1>3, <1>4, <1>5, <1>6, <1>7, <1>8, <1>9, <1>10, <1>11, <1>12, <1>13, <1>14 DEF UpdaterStep

(* A fresh installation runs what is on its disk. *)
LEMMA InitDirection == Init => Direction
BY NewerIsOrder, ConstantsAssumption
   DEF Init, NoRun, NoHelper, Direction, ServiceForward, Forward, Underway, Pre, Post, Up, Binaries, Process

(* Both together. *)
LEMMA StepDirection == Inv /\ Directed /\ [Next]_vars => Directed'
<1> SUFFICES ASSUME Inv, Directed, [Next]_vars, {"overrun", "misread"} \cap mishaps' = {} PROVE Direction'
  BY DEF Directed
<1>0. /\ "overrun" \notin mishaps /\ "misread" \notin mishaps /\ "overrun" \notin mishaps' /\ Direction
      /\ Types /\ Control /\ Contents
  BY MishapsStay DEF Directed, Inv
<1>1. CASE \E h \in Helpers : HelperStep(h)
  BY <1>0, <1>1, HelperForward
<1>2. CASE UpdaterStep \/ ProcServes \/ ProcExits \/ PowerLoss \/ UNCHANGED vars
  BY <1>0, <1>2, ServiceForwardStep
<1> QED BY <1>1, <1>2 DEF Next

(* Whatever order the answers of concurrent release checks came in, and whatever
   earlier updates, failures and power losses left behind, a helper installs a
   wlcsim that is newer than the one that ran and than the one it found, unless
   the timer overtook a helper or a lost probe misled one
   (updater.go Apply, isNewer; helper.go runSequence). *)
THEOREM UpdateNeverDowngrades == Spec => []NeverDowngrades
<1>1. Directed => NeverDowngrades
  <2> SUFFICES ASSUME Direction, NEW h \in Helpers
               PROVE  /\ helper[h].target # None => isNewer(helper[h].target, helper[h].prev)
                      /\ At(h, "install") /\ helper[h].i = 1 /\ staged["wlcsim"] # None =>
                            isNewer(staged["wlcsim"], helper[h].prev)
                            /\ (orig["wlcsim"] # None => isNewer(staged["wlcsim"], orig["wlcsim"]))
    BY DEF Directed, Spared, NeverDowngrades
  <2>1. Forward(h)  BY DEF Direction
  <2>2. ASSUME At(h, "install") PROVE Underway(h) /\ helper[h].pc \in Pre
    BY <2>2 DEF At, Underway, Pre, Post
  <2> QED BY <2>1, <2>2 DEF Forward
<1>2. Init => Directed  BY InitDirection DEF Directed
<1> QED BY <1>1, <1>2, InitInv, StepInv, StepDirection, PTL DEF Spec

----------------------------------------------------------------------------
(* What a helper reports *)

\* What was there when the update began is there again.
BackIn(b) == orig[b] \in {live[b], None}

\* The running service is what is on the disk.
InSync == Up => proc.v = live["wlcsim"]

\* What the updater has verified is what it was asked for.
StagedAll ==
    /\ run.pc = "handoff" => \A b \in Binaries : staged[b] \in {run.target, None}
    /\ run.pc \in {"open", "verify"} /\ run.i = 2 => staged["wlcsim"] \in {run.target, None}

(* How far a helper's update, or its roll-back, has come. *)
Outcome(h) ==
    /\ helper[h].pc = "read" /\ cfg # None =>
          cfg.prev = live["wlcsim"] /\ \A b \in Binaries : staged[b] \in {cfg.target, None}
    /\ Underway(h) => orig["wlcsim"] = helper[h].prev
    /\ helper[h].pc \in {"stop", "await"} => \A b \in Binaries : staged[b] \in {helper[h].target, None}
    /\ helper[h].pc \in {"backup", "install"} =>
          \A j \in 1 .. 2 : /\ j < helper[h].i => live[Bins[j]] = helper[h].target
                            /\ j >= helper[h].i => staged[Bins[j]] \in {helper[h].target, None}
    /\ helper[h].pc \in {"start", "health"} => \A b \in Binaries : live[b] = helper[h].target
    /\ helper[h].pc = "rec_stop" => \A j \in 1 .. 2 : j > helper[h].n => BackIn(Bins[j])
    /\ helper[h].pc = "restore" => ~Up
    /\ helper[h].pc = "restore" /\ ~helper[h].failed =>
          \A j \in 1 .. 2 : j < helper[h].i \/ j > helper[h].n => BackIn(Bins[j])
    /\ helper[h].pc = "rec_health" /\ ~helper[h].failed => \A b \in Binaries : BackIn(b)

Outcomes == InSync /\ StagedAll /\ \A h \in Helpers : Outcome(h)
Reported == {"overrun", "misread", "unstopped"} \cap mishaps = {} => Outcomes

(* Told to stop, the service goes on as it was or is gone. *)
LEMMA HelperInSync ==
    ASSUME "misread" \notin mishaps, Types, Control, Outcomes, NEW h \in Helpers, HelperStep(h)
    PROVE  InSync' /\ StagedAll'
<1>0. InSync /\ StagedAll /\ Outcome(h) /\ NobodyStages /\ StoppedFor /\ ServiceOK
  BY DEF Outcomes, Control, Types
<1>1. UNCHANGED service \/ StopService \/ StartService  BY HelperFrame
<1>3. InSync'
  <2>1. CASE live' = live  BY <1>0, <1>1, <2>1, ServiceAfter DEF InSync
  <2>2. CASE live' # live
    <3>1. UNCHANGED service /\ (Backup(h) \/ Install(h) \/ Restore(h))  BY <2>2, SwapQuiet
    <3>2. ~Up  BY <1>0, <3>1 DEF Backup, Install, Restore, At, StoppedFor, Outcome
    <3> QED BY <3>1, <3>2 DEF InSync, service, Up
  <2> QED BY <2>1, <2>2
<1>4. ASSUME run'.pc # "idle" PROVE run' = run /\ staged' = staged
  <2>1. run' = run  BY <1>0, <1>1, <1>4, ServiceAfter
  <2>2. helper[h].pc # "install"  BY <1>0, <1>4, <2>1 DEF NobodyStages, Pre
  <2> QED BY <2>1, <2>2, HelperFiles
<1> QED BY <1>0, <1>3, <1>4 DEF StagedAll

(* Each step of a helper takes its update, or its roll-back, one binary on. *)
LEMMA HelperOutcome ==
    ASSUME "unstopped" \notin mishaps', Types, Control, Contents, Outcomes,
           NEW h \in Helpers, HelperStep(h)
    PROVE  Outcome(h)'
<1> USE ConstantsAssumption
<1>0. InSync /\ Outcome(h) /\ Kept(h) /\ NobodyStages  BY DEF Outcomes, Contents, Control
<1>1. /\ helper \in [Helpers -> HelperState] /\ helper[h] \in HelperState /\ HelperOK(helper[h])
      /\ live \in [Binaries -> Content] /\ bak \in [Binaries -> Content]
      /\ staged \in [Binaries -> Content] /\ orig \in [Binaries -> Content]
  BY DEF Types, HelpersInv, FilesOK
<1>2. (\A j \in 1 .. 2 : Bins[j] \in Binaries) /\ Bins[1] # Bins[2] /\ Binaries = {Bins[1], Bins[2]}
  BY DEF Bins, Binaries
<1>3. ASSUME helper'[h].pc \notin Pre \cup Post PROVE Outcome(h)'
  BY <1>3 DEF Outcome, Underway, Pre, Post
(* What the helper began with stays the version that ran. *)
<1>4. ASSUME helper[h].pc # "read" PROVE Underway(h)' => orig'["wlcsim"] = helper'[h].prev
  <2>1. Underway(h)' => Critical(h)  BY HelperFrame DEF Underway, Critical
  <2>2. Critical(h) => helper[h].pc # "report"  BY DEF Critical, Pre, Post
  <2> QED BY <1>0, <1>4, <2>1, <2>2, HelperFiles DEF Outcome, Underway, Critical
<1>5. CASE ReadConfig(h)
  <2>1. CASE cfg = None
    <3>1. helper'[h].pc = "ended"  BY <1>1, <1>5, <2>1, EndedPC DEF ReadConfig
    <3> QED BY <1>3, <3>1 DEF Pre, Post
  <2>2. CASE cfg # None
    <3>1. helper'[h].pc = "stop" /\ helper'[h].target = cfg.target /\ helper'[h].prev = cfg.prev
      BY <1>1, <1>5, <2>2 DEF ReadConfig, HelperState
    <3>2. orig' = live /\ staged' = staged /\ helper[h].pc = "read"
      BY <1>5, <2>2 DEF ReadConfig, files, At
    <3> QED BY <1>0, <2>2, <3>1, <3>2 DEF Outcome
  <2> QED BY <2>1, <2>2
<1>6. CASE StopOld(h)
  <2>1. helper[h].pc = "stop" /\ helper'[h].pc = "await" /\ helper'[h].target = helper[h].target /\ staged' = staged
    BY <1>1, <1>6 DEF StopOld, At, Goto, files, HelperState
  <2> QED BY <1>0, <1>4, <2>1 DEF Outcome
<1>7. CASE SeenStopped(h)
  <2>1. /\ helper[h].pc = "await" /\ helper'[h].pc = "backup" /\ helper'[h].i = 1
        /\ helper'[h].target = helper[h].target /\ staged' = staged
    BY <1>1, <1>7 DEF SeenStopped, At, files, HelperState
  <2> QED BY <1>0, <1>2, <1>4, <2>1 DEF Outcome
<1>8. CASE NotStopped(h)
  <2>1. helper[h].pc = "await" /\ helper'[h].pc = "abort"  BY <1>1, <1>8 DEF NotStopped, At, Goto
  <2> QED BY <1>4, <2>1 DEF Outcome
<1>9. CASE Abort(h) \/ Healthy(h) \/ WriteResult(h)
  <2>1. helper'[h].pc \in {"report", "ended"}
    <3>1. CASE Abort(h)  BY <1>1, <3>1 DEF Abort, Report
    <3>2. CASE Healthy(h)  BY <1>1, <3>2 DEF Healthy, Report
    <3>3. CASE WriteResult(h)  BY <1>1, <3>3, EndedPC DEF WriteResult
    <3> QED BY <1>9, <3>1, <3>2, <3>3
  <2> QED BY <1>3, <2>1 DEF Pre, Post
<1>10. CASE RecoverHealth(h)
  <2>1. PICK ph : helper' = [helper EXCEPT ![h].pc = "report", ![h].phase = ph]
    BY <1>10 DEF RecoverHealth, Report
  <2>2. helper'[h].pc = "report"  BY <1>1, <2>1
  <2> QED BY <1>3, <2>2 DEF Pre, Post
<1>11. CASE Backup(h)
  <2>1. /\ helper[h].pc = "backup" /\ helper'[h].pc = "install" /\ helper'[h].i = helper[h].i
        /\ helper'[h].target = helper[h].target /\ staged' = staged /\ helper[h].i \in 1 .. 2
    BY <1>1, <1>11 DEF Backup, At, Goto, HelperState, HelperOK
  <2>2. \A j \in 1 .. 2 : j < helper[h].i => live'[Bins[j]] = live[Bins[j]]
    BY <1>1, <1>2, <1>11, <2>1 DEF Backup, Bin
  <2> QED BY <1>0, <1>4, <2>1, <2>2 DEF Outcome
<1>12. CASE BackupFails(h) \/ InstallFails(h)
  <2>1. /\ helper[h].pc \in {"backup", "install"} /\ UNCHANGED <<live, orig>> /\ helper[h].i \in 1 .. 2
        /\ helper'[h].pc = "rec_stop"
        /\ helper'[h].n = IF helper[h].pc = "backup" THEN helper[h].i - 1 ELSE helper[h].i
    BY <1>1, <1>12 DEF BackupFails, InstallFails, At, Recover, HelperState, HelperOK, files
  <2>2. \A j \in 1 .. 2 : j > helper'[h].n => live[Bins[j]] = orig[Bins[j]]
    BY <1>0, <2>1 DEF Kept, Bin
  <2> QED BY <1>4, <2>1, <2>2 DEF Outcome, BackIn
<1>13. CASE Install(h)
  <2>1. /\ helper[h].pc = "install" /\ helper[h].i \in 1 .. 2 /\ helper'[h].target = helper[h].target
        /\ live' = [live EXCEPT ![Bin(h)] = staged[Bin(h)]] /\ staged' = [staged EXCEPT ![Bin(h)] = None]
        /\ \/ helper[h].i = 1 /\ helper'[h].pc = "backup" /\ helper'[h].i = 2
           \/ helper[h].i = 2 /\ helper'[h].pc = "start"
    <3>1. Len(Bins) = 2  BY DEF Bins
    <3>2. helper'[h].target = helper[h].target  BY <1>13, HelperFiles DEF Install, At
    <3> QED BY <1>1, <1>13, <3>1, <3>2 DEF Install, At, HelperState, HelperOK
  <2>2. /\ \A j \in 1 .. 2 : /\ j < helper[h].i => live[Bins[j]] = helper[h].target
                             /\ j >= helper[h].i => staged[Bins[j]] \in {helper[h].target, None}
        /\ staged[Bins[helper[h].i]] # None
    BY <1>0, <1>13, <2>1 DEF Outcome, Install, Bin
  <2>3. CASE helper[h].i = 1
    <3>1. live'[Bins[1]] = helper[h].target /\ staged'[Bins[2]] \in {helper[h].target, None}
      BY <1>1, <1>2, <2>1, <2>2, <2>3 DEF Bin
    <3> QED BY <1>4, <2>1, <2>3, <3>1 DEF Outcome
  <2>4. CASE helper[h].i = 2
    <3>1. live'[Bins[1]] = helper[h].target /\ live'[Bins[2]] = helper[h].target
      BY <1>1, <1>2, <2>1, <2>2, <2>4 DEF Bin
    <3> QED BY <1>2, <1>4, <2>1, <2>4, <3>1 DEF Outcome
  <2> QED BY <2>1, <2>3, <2>4
<1>14. CASE StartNew(h)
  <2>1. helper[h].pc = "start" /\ helper'[h].pc = "health" /\ helper'[h].target = helper[h].target /\ live' = live
    BY <1>1, <1>14 DEF StartNew, At, Goto, files, HelperState
  <2> QED BY <1>0, <1>4, <2>1 DEF Outcome
<1>15. CASE Unhealthy(h)
  <2>1. helper[h].pc = "health" /\ helper'[h].pc = "rec_stop" /\ helper'[h].n = 2
    BY <1>1, <1>15 DEF Unhealthy, At, Recover, Bins, HelperState
  <2> QED BY <1>4, <2>1 DEF Outcome
<1>16. CASE RecoverStop(h)
  <2>1. /\ helper[h].pc = "rec_stop" /\ helper'[h].pc = "restore" /\ helper'[h].i = 1 /\ helper'[h].n = helper[h].n
        /\ UNCHANGED <<live, orig>>
    BY <1>1, <1>16 DEF RecoverStop, At, files, HelperState
  <2>2. ~Up'  BY <1>16 DEF RecoverStop, Mishap, Up
  <2> QED BY <1>0, <1>4, <2>1, <2>2 DEF Outcome, BackIn
<1>17. CASE Restore(h)
  <2>1. /\ helper[h].pc = "restore" /\ helper[h].i \in 1 .. 2 /\ helper[h].i <= helper[h].n /\ orig' = orig
        /\ UNCHANGED service
    BY <1>1, <1>17 DEF Restore, At, HelperOK, HelperState
  <2>2. CASE helper' = [helper EXCEPT ![h].i = @ + 1, ![h].failed = TRUE]
    <3>1. helper'[h].pc = "restore" /\ helper'[h].failed  BY <1>1, <2>1, <2>2 DEF HelperState
    <3> QED BY <1>0, <1>4, <2>1, <3>1 DEF Outcome, service, Up
  <2>3. CASE /\ helper' = [helper EXCEPT ![h].i = @ + 1]
             /\ live' = [live EXCEPT ![Bin(h)] = bak[Bin(h)]]
    <3>1. /\ helper'[h].pc = "restore" /\ helper'[h].i = helper[h].i + 1 /\ helper'[h].n = helper[h].n
          /\ helper'[h].failed = helper[h].failed
      BY <1>1, <2>1, <2>3 DEF HelperState
    <3>2. SavedIn(Bin(h))  BY <1>0, <2>1, <2>3 DEF Kept, Bin
    <3>3. live'[Bins[helper[h].i]] = bak[Bins[helper[h].i]] /\ SavedIn(Bins[helper[h].i])
      BY <1>1, <1>2, <2>1, <2>3, <3>2 DEF Bin
    <3>4. \A j \in 1 .. 2 : j # helper[h].i => live'[Bins[j]] = live[Bins[j]]
      BY <1>1, <1>2, <2>1, <2>3 DEF Bin
    <3>5. ~helper[h].failed =>
             \A j \in 1 .. 2 : j < helper[h].i + 1 \/ j > helper[h].n => orig[Bins[j]] \in {live'[Bins[j]], None}
      BY <1>0, <2>1, <3>3, <3>4 DEF Outcome, BackIn, SavedIn
    <3> QED BY <1>0, <1>4, <2>1, <3>1, <3>5 DEF Outcome, BackIn, service, Up
  <2> QED BY <1>17, <2>2, <2>3 DEF Restore
<1>18. CASE RecoverStart(h)
  <2>1. /\ helper[h].pc = "restore" /\ helper'[h].pc = "rec_health" /\ helper[h].i > helper[h].n
        /\ helper'[h].failed = helper[h].failed /\ UNCHANGED <<live, orig>>
        /\ helper[h].i \in 1 .. 3 /\ helper[h].n \in 0 .. 2
    BY <1>1, <1>18 DEF RecoverStart, At, Goto, files, HelperState, HelperOK
  <2>2. ~helper[h].failed => \A j \in 1 .. 2 : BackIn(Bins[j])
    BY <1>0, <2>1 DEF Outcome
  <2>3. ~helper[h].failed => \A b \in Binaries : BackIn(b)'
    BY <1>2, <2>1, <2>2 DEF BackIn
  <2> QED BY <1>4, <2>1, <2>3 DEF Outcome
<1> QED BY <1>5, <1>6, <1>7, <1>8, <1>9, <1>10, <1>11, <1>12, <1>13, <1>14, <1>15, <1>16, <1>17, <1>18 DEF HelperStep

(* A helper at work is undisturbed by the others' steps. *)
LEMMA OutcomeFrame ==
    ASSUME NEW g \in Helpers, Outcome(g), NobodyStages,
           helper'[g] = helper[g], UNCHANGED <<cfg, live, orig>>,
           (\A b \in Binaries : staged'[b] \in {staged[b], None}) \/ run.pc # "idle", Up' => Up
    PROVE  Outcome(g)'
<1>1. helper[g].pc \in Pre => \A b \in Binaries : staged'[b] \in {staged[b], None}  BY DEF NobodyStages
<1>2. \A j \in 1 .. 2 : Bins[j] \in Binaries  BY DEF Bins, Binaries
<1> QED BY <1>1, <1>2 DEF Outcome, Underway, BackIn, Pre

(* A helper's step, seen by all. *)
LEMMA HelperOutcomes ==
    ASSUME "misread" \notin mishaps, "unstopped" \notin mishaps', Types, Control, Contents, Outcomes,
           NEW h \in Helpers, HelperStep(h)
    PROVE  Outcomes'
<1>1. ASSUME NEW g \in Helpers, g # h PROVE Outcome(g)'
  <2>1. helper'[g] = helper[g] /\ Outcome(g)  BY <1>1, HelperFrame DEF Outcomes
  <2>2. CASE Critical(h)
    <3>1. ~Critical(g)  BY <1>1, <2>2 DEF Control, OneHelper
    <3> QED BY <2>1, <3>1 DEF Outcome, Underway, Critical, Pre, Post
  <2>3. CASE ~Critical(h)
    <3>1. WriteResult(h)
      BY <2>3 DEF HelperStep, ReadConfig, StopOld, SeenStopped, NotStopped, Abort, Backup, BackupFails, Install,
           InstallFails, StartNew, Healthy, Unhealthy, RecoverStop, Restore, RecoverStart, RecoverHealth,
           At, Critical, Pre, Post
    <3> QED BY <2>1, <3>1 DEF WriteResult, Outcome, Underway, BackIn, service, Up
  <2> QED BY <2>2, <2>3
<1> QED BY <1>1, HelperOutcome, HelperInSync DEF Outcomes

(* The updater hands over what it has verified, and to nobody else. *)
LEMMA ServiceOutcomes ==
    ASSUME "overrun" \notin mishaps', Types, Control, Outcomes,
           UpdaterStep \/ ProcServes \/ ProcExits \/ PowerLoss \/ UNCHANGED vars
    PROVE  Outcomes'
<1> USE ConstantsAssumption
<1>0. InSync /\ StagedAll /\ NobodyStages /\ \A g \in Helpers : Outcome(g)  BY DEF Outcomes, Control
<1>1. /\ staged \in [Binaries -> Content] /\ Binaries = {"wlcsim", "wlcsim-console"} /\ ServiceOK /\ RunInv
      /\ helper \in [Helpers -> HelperState]
  BY DEF Types, FilesOK, HelpersInv, Binaries
<1>2. ASSUME UNCHANGED <<helper, cfg, live, orig>>,
             (\A b \in Binaries : staged'[b] \in {staged[b], None}) \/ run.pc # "idle",
             Up' => Up /\ proc'.v = proc.v
      PROVE  InSync' /\ \A g \in Helpers : Outcome(g)'
  BY <1>0, <1>2, OutcomeFrame DEF InSync
<1>3. CASE UNCHANGED vars
  BY <1>0, <1>2, <1>3 DEF vars, service, files, Outcomes, StagedAll, Up
<1>4. CASE ProcServes
  <2>1. Up /\ Up' /\ proc'.v = proc.v  BY <1>1, <1>4 DEF ProcServes, ServiceOK, Up, Process
  <2> QED BY <1>0, <1>2, <1>4, <2>1 DEF ProcServes, files, Outcomes, StagedAll
<1>5. CASE ProcExits
  <2>1. ~Up' /\ run'.pc = "idle" /\ UNCHANGED <<helper, cfg, live, orig, staged>>
    BY <1>5, Restarted DEF ProcExits, Up, files
  <2> QED BY <1>0, <1>2, <2>1 DEF Outcomes, StagedAll
<1>6. CASE PowerLoss
  <2>1. /\ run'.pc = "idle" /\ UNCHANGED <<cfg, live>>
        /\ proc' = IF live["wlcsim"] \in Versions THEN [v |-> live["wlcsim"], st |-> "starting"] ELSE None
    BY <1>6, Restarted DEF PowerLoss, files
  <2>2. InSync' /\ StagedAll'  BY <2>1 DEF InSync, StagedAll, Up
  <2>3. \A g \in Helpers : helper'[g].pc \in {"none", "ended"}
    BY <1>1, <1>6, EndedPC DEF PowerLoss, Active
  <2>4. \A g \in Helpers : Outcome(g)'  BY <2>3 DEF Outcome, Underway, Pre, Post
  <2> QED BY <2>2, <2>4 DEF Outcomes
<1>7. ASSUME NEW v \in Versions, CheckLatest(v) PROVE Outcomes'
  BY <1>0, <1>2, <1>7 DEF CheckLatest, files, Outcomes, StagedAll, Up
<1>8. CASE Apply
  <2>1. run'.pc = "open" /\ run'.i = 1 /\ UNCHANGED <<proc, files, helper, orig>>
    BY <1>8 DEF Apply
  <2> QED BY <1>0, <1>2, <2>1 DEF files, Outcomes, StagedAll, Up
<1>9. CASE StageOpen
  <2>1. /\ run.pc = "open" /\ run'.pc = "verify" /\ run'.i = run.i /\ run'.target = run.target /\ run.i \in 1 .. 2
        /\ staged' = [staged EXCEPT ![Bins[run.i]] = Partial] /\ UNCHANGED <<proc, helper, cfg, live, orig>>
    BY <1>1, <1>9 DEF StageOpen, ServiceOK, RunInv, RunState
  <2>2. run.i = 2 => staged'["wlcsim"] \in {run.target, None}
    BY <1>0, <1>1, <2>1 DEF StagedAll, Bins
  <2> QED BY <1>0, <1>2, <2>1, <2>2 DEF Outcomes, StagedAll, Up
<1>10. CASE StageVerify
  <2>1. /\ run.pc = "verify" /\ run'.target = run.target /\ run.i \in 1 .. 2
        /\ \/ staged' = [staged EXCEPT ![Bins[run.i]] = run.target]
           \/ staged' = staged /\ staged[Bins[run.i]] # Partial
        /\ UNCHANGED <<proc, helper, cfg, live, orig>>
        /\ run'.pc = "handoff" => run.i = 2
    <3>1. Len(Bins) = 2  BY DEF Bins
    <3> QED BY <1>1, <1>10, <3>1 DEF StageVerify, ServiceOK, RunInv, RunState
  <2>2. /\ staged'["wlcsim"] \in {run.target, None}
        /\ run.i = 2 => staged'["wlcsim-console"] \in {run.target, None}
    BY <1>0, <1>1, <2>1 DEF StagedAll, Bins, Control, StagedSoFar
  <2> QED BY <1>0, <1>1, <1>2, <2>1, <2>2 DEF Outcomes, StagedAll, Up
<1>11. CASE RunFails
  <2>1. run.pc # "idle" /\ run'.pc = "idle" /\ UNCHANGED <<proc, helper, cfg, live, orig>>
    BY <1>11 DEF RunFails, NoRun, files
  <2> QED BY <1>0, <1>2, <2>1 DEF Outcomes, StagedAll, Up
<1>14. CASE Discard
  <2>1. (\A b \in Binaries : staged'[b] = None) /\ UNCHANGED <<proc, run, helper, cfg, live, orig>>
    BY <1>14 DEF Discard
  <2>2. StagedAll'  BY <1>1, <2>1 DEF StagedAll
  <2> QED BY <1>0, <1>2, <2>1, <2>2 DEF Outcomes, Up
<1>12. CASE Handoff
  <2> DEFINE new == spawned + 1
  <2>1. /\ run.pc = "handoff" /\ run'.pc = "idle" /\ UNCHANGED <<proc, staged, live, orig>> /\ PollersDone
        /\ cfg' = [target |-> run.target, prev |-> proc.v] /\ helper' = [helper EXCEPT ![new].pc = "read"]
    BY <1>12 DEF Handoff, Mishap, NoRun
  <2>2. InSync' /\ StagedAll'  BY <1>0, <2>1 DEF InSync, StagedAll, Up
  <2>3. proc.v = live["wlcsim"] /\ \A b \in Binaries : staged[b] \in {run.target, None}
    BY <1>0, <1>1, <2>1 DEF InSync, StagedAll, ServiceOK
  <2>4. ASSUME NEW g \in Helpers PROVE Outcome(g)'
    <3>1. helper[g].pc \notin Pre \cup Post
      BY <1>0, <2>1 DEF NobodyStages, PollersDone, Post
    <3>2. helper'[g].pc = helper[g].pc \/ helper'[g].pc = "read"
      BY <1>1, <2>1 DEF HelperState
    <3> QED BY <2>1, <2>3, <3>1, <3>2 DEF Outcome, Underway, Pre, Post
  <2> QED BY <2>2, <2>4 DEF Outcomes
<1>13. CASE TimeoutFree
  BY <1>0, <1>2, <1>13 DEF TimeoutFree, files, Outcomes, StagedAll, Up
<1> QED BY <1>3, <1>4, <1>5, <1>6, <1>7, <1>8, <1>9, <1>10, <1>11, <1>12, <1>13, <1>14 DEF UpdaterStep

(* A fresh installation has nothing to report. *)
LEMMA InitOutcomes == Init => Outcomes
BY ConstantsAssumption
   DEF Init, NoRun, NoHelper, Outcomes, InSync, StagedAll, Outcome, Underway, Pre, Post, Binaries

(* Every step keeps helpers and files in step. *)
LEMMA StepOutcomes == Inv /\ Reported /\ [Next]_vars => Reported'
<1> SUFFICES ASSUME Inv, Reported, [Next]_vars, {"overrun", "misread", "unstopped"} \cap mishaps' = {}
             PROVE  Outcomes'
  BY DEF Reported
<1>0. /\ "misread" \notin mishaps /\ "overrun" \notin mishaps' /\ "unstopped" \notin mishaps'
      /\ Types /\ Control /\ Contents /\ Outcomes
  BY MishapsStay DEF Reported, Inv
<1>1. CASE \E h \in Helpers : HelperStep(h)
  BY <1>0, <1>1, HelperOutcomes
<1>2. CASE UpdaterStep \/ ProcServes \/ ProcExits \/ PowerLoss \/ UNCHANGED vars
  BY <1>0, <1>2, ServiceOutcomes
<1> QED BY <1>1, <1>2 DEF Next

(* Unless a process outlived its stop, the timer overtook a helper or a lost
   probe misled one, what a helper records in last-result.json is so, whatever
   failed on the way and whatever earlier updates and power losses left behind
   (helper.go runSequence, recoverFailure). *)
THEOREM UpdateReportsTruth == Spec => ResultTruthful
<1>1. Inv /\ Reported /\ [Next]_vars =>
         [Spared({"overrun", "misread", "unstopped"})' =>
            \A h \in Helpers : helper[h].pc # "report" /\ helper'[h].pc = "report" => Truthful(h)']_vars
  <2> SUFFICES ASSUME Inv, Reported, [Next]_vars, NEW h \in Helpers,
                      {"overrun", "misread", "unstopped"} \cap mishaps' = {},
                      helper[h].pc # "report", helper'[h].pc = "report"
               PROVE  Truthful(h)'
    BY DEF Spared
  <2>a. {"overrun", "misread", "unstopped"} \cap mishaps = {}  BY MishapsStay
  <2>b. Outcomes  BY <2>a DEF Reported
  <2>0. /\ helper \in [Helpers -> HelperState] /\ HelperOK(helper[h]) /\ Types
        /\ Outcome(h) /\ InSync
    BY <2>b DEF Inv, Types, HelpersInv, Outcomes
  <2>1. HelperStep(h)
    <3>1. ASSUME NEW g \in Helpers, HelperStep(g) PROVE g = h
      BY <2>0, <3>1, HelperFrame
    <3>2. ASSUME Handoff \/ PowerLoss PROVE FALSE
      <4>1. CASE Handoff  BY <2>0, <4>1 DEF Handoff
      <4>2. CASE PowerLoss  BY <2>0, <4>2, EndedPC DEF PowerLoss
      <4> QED BY <3>2, <4>1, <4>2
    <3>3. helper' # helper  OBVIOUS
    <3> QED BY <3>1, <3>2, <3>3 DEF Next, UpdaterStep, CheckLatest, Apply, StageOpen, StageVerify, RunFails, Discard, TimeoutFree,
               ProcServes, ProcExits, vars
  <2>2. Abort(h) \/ Healthy(h) \/ RecoverHealth(h)
    BY <2>0, <2>1, EndedPC DEF HelperStep, ReadConfig, StopOld, SeenStopped, NotStopped, Backup, BackupFails, Install,
       InstallFails, StartNew, Unhealthy, RecoverStop, Restore, RecoverStart, WriteResult,
       At, Goto, Recover, HelperState
  <2>3. CASE Abort(h)
    BY <2>0, <2>3 DEF Abort, Report, HelperState, Truthful
  <2>4. CASE Healthy(h)
    <3>1. /\ helper[h].pc = "health" /\ Up /\ UNCHANGED <<proc, live>>
          /\ helper'[h].phase = "done" /\ helper'[h].target = helper[h].target
      BY <2>0, <2>4 DEF Healthy, Report, At, Serving, service, files, HelperState
    <3>2. \A b \in Binaries : live[b] = helper[h].target  BY <2>0, <3>1 DEF Outcome
    <3> QED BY <2>0, <3>1, <3>2 DEF Truthful, InSync, Up, Binaries
  <2>5. CASE RecoverHealth(h)
    <3>1. /\ helper[h].pc = "rec_health" /\ UNCHANGED <<proc, live, orig>>
          /\ helper'[h].prev = helper[h].prev /\ helper'[h].phase # "done"
          /\ helper'[h].phase = "rolled_back" => Up /\ ~helper[h].failed
      <4>1. \/ Serving /\ Report(h, IF helper[h].failed THEN "failed" ELSE "rolled_back")
            \/ Report(h, "failed")
        BY <2>5 DEF RecoverHealth
      <4> QED BY <2>0, <2>5, <4>1 DEF RecoverHealth, Report, At, Serving, service, files, HelperState
    <3>2. SUFFICES ASSUME Up, ~helper[h].failed
                   PROVE  proc.v = helper[h].prev /\ \A b \in Binaries : BackIn(b)
      BY <3>1 DEF Truthful, BackIn, Up
    <3>3. \A b \in Binaries : BackIn(b)  BY <2>0, <3>1, <3>2 DEF Outcome
    <3>4. orig["wlcsim"] = helper[h].prev /\ helper[h].prev \in Versions
      BY <2>0, <3>1 DEF Outcome, Underway, Pre, Post, HelperOK
    <3>5. live["wlcsim"] = helper[h].prev
      BY <3>3, <3>4, ConstantsAssumption DEF BackIn, Binaries
    <3> QED BY <2>0, <3>2, <3>3, <3>5 DEF InSync
  <2> QED BY <2>2, <2>3, <2>4, <2>5
<1>2. Init => Reported  BY InitOutcomes DEF Reported
<1> QED BY <1>1, <1>2, InitInv, StepInv, StepOutcomes, PTL DEF Spec, ResultTruthful
=============================================================================

----------------------------- MODULE Simulator -----------------------------
(***************************************************************************)
(* internal/simulator: the devices, the handles of their protocol servers, *)
(* the IP aliases of the host and the persisted state file, under          *)
(* concurrent management requests from the dashboard, in local-only mode.  *)
(*                                                                         *)
(* A request is a goroutine of the dashboard's HTTP server.  What the code *)
(* does under s.mu without blocking is one action; what it does outside    *)
(* the lock (the alias commands of AddDevice and RemoveDevice, the wait    *)
(* for servers in RemoveDevice, Save after applyConfig) is a step of its   *)
(* own, and so is everything applyConfig does while it holds the lock,     *)
(* because other requests' unlocked steps interleave with it.              *)
(*                                                                         *)
(* A device is abstracted to its IP and one bit of content (rev) that the  *)
(* AP and client edits flip.  config.Save is atomic here; StateFile        *)
(* models how it gets that, and when it does not.                          *)
(***************************************************************************)
EXTENDS Integers, Sequences, FiniteSets

CONSTANTS
    IPs,            \* device addresses
    BadIPs,         \* addresses whose alias command fails
    Services,       \* protocol servers of one device (three in the code)
    Requests,       \* goroutines serving dashboard requests
    NoOne,          \* no request: the lock is free; no handle; no file
    Auths,          \* credential sets
    Seed,           \* device IPs of the seed devices.yaml
    SeedAuth,       \* its credentials
    Imports,        \* device IP lists a user may import
    DiskFaults,     \* whether writing or removing the state file may fail
    ExclusiveAdd,   \* TRUE on Linux: adding a present alias is an error
    MaxOps,         \* bound: operations begun
    MaxHandles,     \* bound: handles created
    MaxRestarts     \* bound: process restarts

Handles == 1 .. MaxHandles

ASSUME ConstantsAssumption ==
    /\ BadIPs \subseteq IPs
    /\ Seed \in Seq(IPs) /\ SeedAuth \in Auths
    /\ Imports \subseteq Seq(IPs)
    /\ NoOne \notin Requests /\ NoOne \notin Handles
    /\ ExclusiveAdd \in BOOLEAN /\ DiskFaults \in BOOLEAN
    /\ MaxOps \in Nat /\ MaxHandles \in Nat /\ MaxRestarts \in Nat

VARIABLES
    up,        \* the process is running
    mu,        \* holder of the write lock across steps, or NoOne
    devices,   \* Simulator.devices
    handles,   \* Simulator.handles: IP -> handle or NoOne
    auth,      \* Simulator.auth
    used,      \* handles created so far are 1 .. used
    home,      \* home[h]: the IP handle h serves
    server,    \* server[h][s]: life of one protocol server goroutine
    closes,    \* closes[h]: how often close(h.stop) was called
    alias,     \* addresses the kernel has
    file,      \* the state file, or NoOne when absent
    pc,        \* pc[r]: where request r is
    op,        \* op[r]: what it does
    cur,       \* cur[r]: handle it waits for, or NoOne
    todo,      \* todo[r]: map keys applyConfig has still to visit
    ix,        \* ix[r]: next device setupIPs handles
    snap,      \* snap[r]: snapshot save() took
    ops,       \* operations begun so far
    restarts,  \* restarts so far
    leaked,    \* ghost: aliases a crash or a failed import left behind
    stale,     \* ghost: memory was changed and not saved, or overtaken, and
               \* nothing was saved since
    outdated,  \* ghost: requests about to save what another has since changed
    disputed   \* ghost: addresses IdleConsistent says nothing of

memory == <<devices, handles, auth>>
servers == <<used, home, server, closes>>
requests == <<pc, op, cur, todo, ix, snap>>
ghosts == <<leaked, stale, outdated, disputed>>
vars == <<up, mu, memory, servers, alias, file, requests, ops, restarts, ghosts>>

Device == [ip : IPs, rev : {0, 1}]
Config == [devices : Seq(Device), auth : Auths]

\* An absent file is not a configuration.
ASSUME FileAssumption == NoOne \notin Config

IPsOf(s) == {s[i].ip : i \in 1 .. Len(s)}

\* Devices as parsed from YAML: no edit has touched them yet.
Fresh(ips) == [i \in 1 .. Len(ips) |-> [ip |-> ips[i], rev |-> 0]]

Snapshot == [devices |-> devices, auth |-> auth]

\* What main loads at start: the state file if present, the seed otherwise.
Loaded == IF file = NoOne THEN [devices |-> Fresh(Seed), auth |-> SeedAuth] ELSE file

\* config.Save or deleteState: on an error the old file stays, and the change
\* already made in memory stays too.
Persist(f) ==
    \/ file' = f /\ stale' = FALSE
    \/ DiskFaults /\ file' = file /\ stale' = TRUE

\* r is about to save a configuration it knows from before, with no lock held.
Saving(r) == pc[r] = "write" \/ (pc[r] = "persist" /\ op[r].kind = "reset")

\* What runs changes under the requests that are about to save.
Overtake == outdated' = outdated \cup {r \in Requests : Saving(r)}

\* What an outdated request saves is not what runs.
SaveOf(r, f) ==
    /\ \/ r \notin outdated /\ Persist(f)
       \/ r \in outdated /\ stale' = TRUE /\ (file' = f \/ (DiskFaults /\ file' = file))
    /\ outdated' = outdated \ {r}

\* Request r is in AddDevice or RemoveDevice of i.
Busy(r, i) ==
    /\ pc[r] \in {"add_ip", "add_commit", "remove_stop", "remove_wait", "remove_ip"}
    /\ op[r].ip = i

\* A request begins on i: another that is busy with it disputes it.
Contend(i) == disputed' = IF \E r \in Requests : Busy(r, i) THEN disputed \cup {i} ELSE disputed

Repeated(ips) == {ips[k] : k \in {n \in 1 .. Len(ips) : \E j \in 1 .. n - 1 : ips[j] = ips[n]}}

Free == mu = NoOne

Goto(r, l) == pc' = [pc EXCEPT ![r] = l]

\* A dashboard request arrives.
Begin(r, o) ==
    /\ up /\ pc[r] = "idle" /\ ops < MaxOps
    /\ ops' = ops + 1
    /\ op' = [op EXCEPT ![r] = o]

Init ==
    /\ up = FALSE /\ mu = NoOne
    /\ devices = << >> /\ handles = [i \in IPs |-> NoOne] /\ auth = SeedAuth
    /\ used = 0
    /\ home = [h \in Handles |-> NoOne]
    /\ server = [h \in Handles |-> [s \in Services |-> "none"]]
    /\ closes = [h \in Handles |-> 0]
    /\ alias = {} /\ file = NoOne
    /\ pc = [r \in Requests |-> "idle"]
    /\ op = [r \in Requests |-> [kind |-> "none", ip |-> NoOne, cfg |-> << >>, auth |-> SeedAuth]]
    /\ cur = [r \in Requests |-> NoOne]
    /\ todo = [r \in Requests |-> {}]
    /\ ix = [r \in Requests |-> 1]
    /\ snap = [r \in Requests |-> [devices |-> << >>, auth |-> SeedAuth]]
    /\ ops = 0 /\ restarts = 0
    /\ leaked = {} /\ stale = FALSE /\ outdated = {} /\ disputed = {}

----------------------------------------------------------------------------
(* Protocol servers and their handles *)

LastAt(ips, i) == CHOOSE k \in 1 .. Len(ips) : ips[k] = i /\ \A j \in k + 1 .. Len(ips) : ips[j] # i

\* startDeviceServers for each of ips in turn, and its handle put into the
\* map: a second device on the same IP takes the map entry over.
StartServers(ips, map) ==
    /\ used + Len(ips) <= MaxHandles
    /\ used' = used + Len(ips)
    /\ home' = [h \in Handles |-> IF h \in used + 1 .. used + Len(ips) THEN ips[h - used] ELSE home[h]]
    /\ server' = [h \in Handles |-> IF h \in used + 1 .. used + Len(ips)
                                     THEN [s \in Services |-> "spawned"] ELSE server[h]]
    /\ handles' = [i \in IPs |-> IF \E k \in 1 .. Len(ips) : ips[k] = i
                                  THEN used + LastAt(ips, i) ELSE map[i]]

\* A listener is bound to h's address and the port of service s.
Bound(i, s) == \E h \in Handles : home[h] = i /\ server[h][s] = "listening"

\* The goroutine binds its listener.  It gives up for good when the address
\* is not on the host or the port is taken; stop is only looked at later.
ServerListen(h, s) ==
    /\ up /\ server[h][s] = "spawned"
    /\ server' = [server EXCEPT ![h][s] =
                    IF home[h] \in alias /\ ~Bound(home[h], s) THEN "listening" ELSE "failed"]
    /\ UNCHANGED <<up, mu, memory, used, home, closes, alias, file, requests, ops, restarts, ghosts>>

\* The server takes the simulator's lock before it returns.
ServerExitNeedsLock(h, s) ==
    /\ up /\ server[h][s] = "listening" /\ closes[h] > 0 /\ Free
    /\ server' = [server EXCEPT ![h][s] = "exited"]
    /\ UNCHANGED <<up, mu, memory, used, home, closes, alias, file, requests, ops, restarts, ghosts>>

\* stop is closed: the Serve loop closes its listener and returns.
ServerExit(h, s) ==
    /\ up /\ server[h][s] = "listening" /\ closes[h] > 0
    /\ server' = [server EXCEPT ![h][s] = "exited"]
    /\ UNCHANGED <<up, mu, memory, used, home, closes, alias, file, requests, ops, restarts, ghosts>>

\* Wait returns at once.
AllReturnedEarly(h) == TRUE

\* h.wg.Wait() returns.
AllReturned(h) == \A s \in Services : server[h][s] \in {"exited", "failed"}

----------------------------------------------------------------------------
(* AddDevice *)

\* `ip addr add` fails on Linux when the address is present; ifconfig does not.
AddIPFails(i) == i \in BadIPs \/ (ExclusiveAdd /\ i \in alias)

\* The duplicate check, under the read lock.
AddCheck(r, i) ==
    /\ Free /\ Begin(r, [kind |-> "add", ip |-> i, cfg |-> << >>, auth |-> auth])
    /\ IF i \in IPsOf(devices)
       THEN Goto(r, "idle") /\ UNCHANGED disputed
       ELSE Goto(r, "add_ip") /\ Contend(i)
    /\ UNCHANGED <<up, mu, memory, servers, alias, file, cur, todo, ix, snap, restarts, leaked, stale, outdated>>

\* network.AddIP, no lock held.
AddAlias(r) ==
    /\ up /\ pc[r] = "add_ip"
    /\ IF AddIPFails(op[r].ip)
       THEN Goto(r, "idle") /\ UNCHANGED alias
       ELSE Goto(r, "add_commit") /\ alias' = alias \cup {op[r].ip}
    /\ UNCHANGED <<up, mu, memory, servers, file, op, cur, todo, ix, snap, ops, restarts, ghosts>>

\* Append, start the servers and save, under the write lock.
AddCommit(r) ==
    /\ up /\ Free /\ pc[r] = "add_commit"
    /\ devices' = Append(devices, [ip |-> op[r].ip, rev |-> 0])
    /\ StartServers(<<op[r].ip>>, handles)
    /\ Persist([devices |-> devices', auth |-> auth]) /\ Overtake
    /\ Goto(r, "idle")
    /\ UNCHANGED <<up, mu, auth, closes, alias, op, cur, todo, ix, snap, ops, restarts, leaked, disputed>>

----------------------------------------------------------------------------
(* RemoveDevice *)

FirstAt(i) == CHOOSE k \in 1 .. Len(devices) :
                 devices[k].ip = i /\ \A j \in 1 .. k - 1 : devices[j].ip # i

Cut(s, k) == [j \in 1 .. Len(s) - 1 |-> IF j < k THEN s[j] ELSE s[j + 1]]

\* The map entry stays behind.
RemoveLockedKeepsHandle(r, i) ==
    /\ Free /\ i \in IPsOf(devices)
    /\ Begin(r, [kind |-> "remove", ip |-> i, cfg |-> << >>, auth |-> auth])
    /\ devices' = Cut(devices, FirstAt(i))
    /\ Persist([devices |-> devices', auth |-> auth]) /\ Overtake /\ Contend(i)
    /\ cur' = [cur EXCEPT ![r] = handles[i]]
    /\ Goto(r, IF handles[i] = NoOne THEN "remove_ip" ELSE "remove_stop")
    /\ UNCHANGED <<up, mu, handles, auth, servers, alias, todo, ix, snap, restarts, leaked>>

\* The locked part: out of the list, out of the map, saved.
RemoveLocked(r, i) ==
    /\ Free /\ i \in IPsOf(devices)
    /\ Begin(r, [kind |-> "remove", ip |-> i, cfg |-> << >>, auth |-> auth])
    /\ devices' = Cut(devices, FirstAt(i))
    /\ handles' = [handles EXCEPT ![i] = NoOne]
    /\ Persist([devices |-> devices', auth |-> auth]) /\ Overtake /\ Contend(i)
    /\ cur' = [cur EXCEPT ![r] = handles[i]]
    /\ Goto(r, IF handles[i] = NoOne THEN "remove_ip" ELSE "remove_stop")
    /\ UNCHANGED <<up, mu, auth, servers, alias, todo, ix, snap, restarts, leaked>>

\* stopHandle, no lock held: close(h.stop) ...
RemoveStop(r) ==
    /\ up /\ pc[r] = "remove_stop"
    /\ closes' = [closes EXCEPT ![cur[r]] = @ + 1]
    /\ Goto(r, "remove_wait")
    /\ UNCHANGED <<up, mu, memory, used, home, server, alias, file, op, cur, todo, ix, snap, ops, restarts, ghosts>>

\* ... and h.wg.Wait().
RemoveWait(r) ==
    /\ up /\ pc[r] = "remove_wait" /\ AllReturned(cur[r])
    /\ cur' = [cur EXCEPT ![r] = NoOne]
    /\ Goto(r, "remove_ip")
    /\ UNCHANGED <<up, mu, memory, servers, alias, file, op, todo, ix, snap, ops, restarts, ghosts>>

\* network.RemoveIP, no lock held; a failure is only logged.
RemoveAlias(r) ==
    /\ up /\ pc[r] = "remove_ip"
    /\ alias' = alias \ {op[r].ip}
    /\ Goto(r, "idle")
    /\ UNCHANGED <<up, mu, memory, servers, file, op, cur, todo, ix, snap, ops, restarts, ghosts>>

----------------------------------------------------------------------------
(* Edits of one device's content, under the lock *)

Change(r, i) ==
    /\ Free /\ i \in IPsOf(devices)
    /\ Begin(r, [kind |-> "edit", ip |-> i, cfg |-> << >>, auth |-> auth])
    /\ devices' = [devices EXCEPT ![FirstAt(i)].rev = 1 - @]
    /\ Overtake
    /\ UNCHANGED <<up, mu, handles, auth, servers, alias, pc, cur, todo, ix, snap, restarts, leaked, disputed>>

\* AddAP, RemoveAP, AddClient, RemoveClient, UpdateAPSSIDs, and UpdateClient when
\* it finds the target AP: saved.
Edit(r, i) == Change(r, i) /\ Persist([devices |-> devices', auth |-> auth])

\* UpdateClient when there is no such AP: an error, but the client is gone from
\* where it was, and nothing is saved.
MoveRefused(r, i) == Change(r, i) /\ stale' = TRUE /\ UNCHANGED file

----------------------------------------------------------------------------
(* ImportConfig, ClearAll and FactoryReset: applyConfig, then persist *)

\* ParseYAML succeeded.
ImportBegin(r, ips, a) ==
    /\ Begin(r, [kind |-> "import", ip |-> NoOne, cfg |-> ips, auth |-> a])
    /\ Goto(r, "apply_lock")
    /\ UNCHANGED <<up, mu, memory, servers, alias, file, cur, todo, ix, snap, restarts, ghosts>>

\* s.Auth() is read under the read lock, before applyConfig takes the lock.
ClearBegin(r) ==
    /\ Free /\ Begin(r, [kind |-> "clear", ip |-> NoOne, cfg |-> << >>, auth |-> auth])
    /\ Goto(r, "apply_lock")
    /\ UNCHANGED <<up, mu, memory, servers, alias, file, cur, todo, ix, snap, restarts, ghosts>>

\* config.Load(seedPath) succeeded.
ResetBegin(r) ==
    /\ Begin(r, [kind |-> "reset", ip |-> NoOne, cfg |-> Seed, auth |-> SeedAuth])
    /\ Goto(r, "apply_lock")
    /\ UNCHANGED <<up, mu, memory, servers, alias, file, cur, todo, ix, snap, restarts, ghosts>>

ApplyLock(r) ==
    /\ up /\ Free /\ pc[r] = "apply_lock"
    /\ mu' = r
    /\ todo' = [todo EXCEPT ![r] = {i \in IPs : handles[i] # NoOne}]
    /\ disputed' = disputed \cup {i \in IPs : \E q \in Requests : Busy(q, i)}
    /\ Goto(r, "apply_stop")
    /\ UNCHANGED <<up, memory, servers, alias, file, op, cur, ix, snap, ops, restarts, leaked, stale, outdated>>

\* `for _, h := range s.handles { s.stopHandle(h) }`: close one ...
ApplyStop(r) ==
    /\ up /\ pc[r] = "apply_stop"
    /\ \E i \in todo[r] :
        /\ closes' = [closes EXCEPT ![handles[i]] = @ + 1]
        /\ cur' = [cur EXCEPT ![r] = handles[i]]
        /\ todo' = [todo EXCEPT ![r] = @ \ {i}]
    /\ Goto(r, "apply_wait")
    /\ UNCHANGED <<up, mu, memory, used, home, server, alias, file, op, ix, snap, ops, restarts, ghosts>>

\* ... and wait for its servers, the lock still held.
ApplyWait(r) ==
    /\ up /\ pc[r] = "apply_wait" /\ AllReturned(cur[r])
    /\ cur' = [cur EXCEPT ![r] = NoOne]
    /\ Goto(r, "apply_stop")
    /\ UNCHANGED <<up, mu, memory, servers, alias, file, op, todo, ix, snap, ops, restarts, ghosts>>

\* The handle map is not replaced.
ApplyClearKeepsMap(r) ==
    /\ up /\ pc[r] = "apply_stop" /\ todo[r] = {}
    /\ alias' = alias \ IPsOf(devices)
    /\ devices' = << >>
    /\ UNCHANGED handles
    /\ auth' = op[r].auth
    /\ ix' = [ix EXCEPT ![r] = 1]
    /\ IF op[r].cfg = << >>
       THEN Goto(r, "persist") /\ mu' = NoOne
       ELSE Goto(r, "apply_ips") /\ UNCHANGED mu
    /\ Overtake
    /\ UNCHANGED <<up, servers, file, op, cur, todo, snap, ops, restarts, leaked, stale, disputed>>

\* teardownIPs, empty list and map, new credentials; an empty set is done here.
ApplyClear(r) ==
    /\ up /\ pc[r] = "apply_stop" /\ todo[r] = {}
    /\ alias' = alias \ IPsOf(devices)
    /\ devices' = << >>
    /\ handles' = [i \in IPs |-> NoOne]
    /\ auth' = op[r].auth
    /\ ix' = [ix EXCEPT ![r] = 1]
    /\ IF op[r].cfg = << >>
       THEN Goto(r, "persist") /\ mu' = NoOne
       ELSE Goto(r, "apply_ips") /\ UNCHANGED mu
    /\ Overtake
    /\ UNCHANGED <<up, servers, file, op, cur, todo, snap, ops, restarts, leaked, stale, disputed>>

\* SetupIPs: an address already on the host (isLocalIP) is skipped.
ApplyCheckIP(r) ==
    /\ up /\ pc[r] = "apply_ips" /\ ix[r] <= Len(op[r].cfg)
    /\ IF op[r].cfg[ix[r]] \in alias
       THEN ix' = [ix EXCEPT ![r] = @ + 1] /\ UNCHANGED pc
       ELSE Goto(r, "apply_add") /\ UNCHANGED ix
    /\ UNCHANGED <<up, mu, memory, servers, alias, file, op, cur, todo, snap, ops, restarts, ghosts>>

\* AddIP; on failure applyConfig gives up with what it has torn down.
ApplyAddIP(r) ==
    /\ up /\ pc[r] = "apply_add"
    /\ LET i == op[r].cfg[ix[r]] IN
        IF AddIPFails(i)
        THEN /\ Goto(r, "idle") /\ mu' = NoOne /\ stale' = TRUE
             /\ leaked' = leaked \cup alias
             /\ UNCHANGED <<alias, ix>>
        ELSE /\ alias' = alias \cup {i}
             /\ ix' = [ix EXCEPT ![r] = @ + 1]
             /\ Goto(r, "apply_ips")
             /\ UNCHANGED <<mu, stale, leaked>>
    /\ UNCHANGED <<up, memory, servers, file, op, cur, todo, snap, ops, restarts, outdated, disputed>>

ApplyStart(r) ==
    /\ up /\ pc[r] = "apply_ips" /\ ix[r] > Len(op[r].cfg)
    /\ devices' = Fresh(op[r].cfg)
    /\ StartServers(op[r].cfg, handles)
    /\ mu' = NoOne
    /\ Overtake /\ disputed' = disputed \cup Repeated(op[r].cfg)
    /\ Goto(r, "persist")
    /\ UNCHANGED <<up, auth, closes, alias, file, op, cur, todo, ix, snap, ops, restarts, leaked, stale>>

\* save(): the snapshot is taken under the read lock ...
SaveSnapshot(r) ==
    /\ up /\ Free /\ pc[r] = "persist" /\ op[r].kind # "reset"
    /\ snap' = [snap EXCEPT ![r] = Snapshot]
    /\ Goto(r, "write")
    /\ UNCHANGED <<up, mu, memory, servers, alias, file, op, cur, todo, ix, ops, restarts, ghosts>>

\* ... and written with no lock held.
SaveWrite(r) ==
    /\ up /\ pc[r] = "write"
    /\ SaveOf(r, snap[r])
    /\ Goto(r, "idle")
    /\ UNCHANGED <<up, mu, memory, servers, alias, op, cur, todo, ix, snap, ops, restarts, leaked, disputed>>

\* The state file is not removed.
DeleteStateForgotten(r) ==
    /\ up /\ pc[r] = "persist" /\ op[r].kind = "reset"
    /\ stale' = FALSE /\ outdated' = outdated \ {r}
    /\ Goto(r, "idle")
    /\ UNCHANGED <<up, mu, memory, servers, alias, file, op, cur, todo, ix, snap, ops, restarts, leaked, disputed>>

\* FactoryReset: deleteState, no lock held.
DeleteState(r) ==
    /\ up /\ pc[r] = "persist" /\ op[r].kind = "reset"
    /\ SaveOf(r, NoOne)
    /\ Goto(r, "idle")
    /\ UNCHANGED <<up, mu, memory, servers, alias, op, cur, todo, ix, snap, ops, restarts, leaked, disputed>>

----------------------------------------------------------------------------
(* The process: cmd/wlcsim *)

\* Everything in memory is gone and every listener closed; aliases are the
\* kernel's and stay, the file stays.
Die ==
    /\ up' = FALSE /\ mu' = NoOne
    /\ devices' = << >> /\ handles' = [i \in IPs |-> NoOne]
    /\ server' = [h \in Handles |-> [s \in Services |->
                     IF server[h][s] = "none" THEN "none" ELSE "exited"]]
    /\ pc' = [r \in Requests |-> "idle"]
    /\ cur' = [r \in Requests |-> NoOne]
    /\ todo' = [r \in Requests |-> {}]
    /\ outdated' = {}
    /\ UNCHANGED <<auth, used, home, closes, file, op, ix, snap, ops, restarts, leaked, stale, disputed>>

Crash == up /\ restarts < MaxRestarts /\ Die /\ UNCHANGED alias

\* SIGTERM: main removes the aliases of sim.Devices() and returns.
Shutdown ==
    /\ up /\ Free /\ restarts < MaxRestarts /\ Die
    /\ alias' = alias \ IPsOf(devices)

\* SetupIPs at start: the first failing address ends it with a warning.
SetupIPs(ips, al) ==
    al \cup {ips[k] : k \in {n \in 1 .. Len(ips) : \A j \in 1 .. n : ips[j] \notin BadIPs \ al}}

Boot ==
    /\ ~up
    /\ LET ips == [k \in 1 .. Len(Loaded.devices) |-> Loaded.devices[k].ip] IN
        /\ devices' = Loaded.devices
        /\ auth' = Loaded.auth
        /\ alias' = SetupIPs(ips, alias)
        /\ StartServers(ips, [i \in IPs |-> NoOne])
        /\ leaked' = alias' \ IPsOf(devices')
        /\ disputed' = Repeated(ips) \cup (IPsOf(devices') \ alias')
    /\ up' = TRUE /\ stale' = FALSE
    /\ restarts' = restarts + 1
    /\ UNCHANGED <<mu, closes, file, requests, ops, outdated>>

\* Nothing to do: the daemon waits for requests.
Rest == up /\ (\A r \in Requests : pc[r] = "idle") /\ UNCHANGED vars

AddStep(r) == (\E i \in IPs : AddCheck(r, i)) \/ AddAlias(r) \/ AddCommit(r)

RemoveStep(r) ==
    (\E i \in IPs : RemoveLocked(r, i)) \/ RemoveStop(r) \/ RemoveWait(r) \/ RemoveAlias(r)

ApplyStep(r) ==
    ApplyLock(r) \/ ApplyStop(r) \/ ApplyWait(r) \/ ApplyClear(r) \/ ApplyCheckIP(r)
    \/ ApplyAddIP(r) \/ ApplyStart(r) \/ SaveSnapshot(r) \/ SaveWrite(r) \/ DeleteState(r)

EditStep(r) == \E i \in IPs : Edit(r, i) \/ MoveRefused(r, i)

ReplaceStep(r) ==
    (\E ips \in Imports, a \in Auths : ImportBegin(r, ips, a)) \/ ClearBegin(r) \/ ResetBegin(r)
    \/ ApplyStep(r)

ServerStep(h) == \E s \in Services : ServerListen(h, s) \/ ServerExit(h, s)

Next ==
    \/ \E r \in Requests : AddStep(r) \/ RemoveStep(r) \/ ReplaceStep(r) \/ EditStep(r)
    \/ \E h \in Handles : ServerStep(h)
    \/ Crash \/ Shutdown \/ Boot \/ Rest

Spec == Init /\ [][Next]_vars

\* The scheduler runs every goroutine that can move, and a server whose stop
\* channel is closed leaves its accept loop.  Requests, crashes and restarts
\* are the environment's.
Continue(r) ==
    AddAlias(r) \/ AddCommit(r) \/ RemoveStop(r) \/ RemoveWait(r) \/ RemoveAlias(r) \/ ApplyStep(r)

Fairness ==
    /\ \A r \in Requests : WF_vars(Continue(r))
    /\ \A h \in Handles : WF_vars(ServerStep(h))

FairSpec == Spec /\ Fairness

----------------------------------------------------------------------------
(* Properties *)

PCs == {"idle", "add_ip", "add_commit", "remove_stop", "remove_wait", "remove_ip", "apply_lock",
        "apply_stop", "apply_wait", "apply_ips", "apply_add", "persist", "write"}

Operation == [kind : {"none", "add", "remove", "edit", "import", "clear", "reset"},
              ip : IPs \cup {NoOne}, cfg : Seq(IPs), auth : Auths]

(* Type invariant. *)
TypeOK ==
    /\ up \in BOOLEAN /\ mu \in Requests \cup {NoOne}
    /\ devices \in Seq(Device) /\ handles \in [IPs -> Handles \cup {NoOne}] /\ auth \in Auths
    /\ used \in 0 .. MaxHandles
    /\ home \in [Handles -> IPs \cup {NoOne}]
    /\ server \in [Handles -> [Services -> {"none", "spawned", "listening", "failed", "exited"}]]
    /\ closes \in [Handles -> Nat]
    /\ alias \in SUBSET IPs
    /\ file \in Config \cup {NoOne}
    /\ pc \in [Requests -> PCs]
    /\ op \in [Requests -> Operation]
    /\ cur \in [Requests -> Handles \cup {NoOne}]
    /\ todo \in [Requests -> SUBSET IPs]
    /\ ix \in [Requests -> Nat \ {0}]
    /\ snap \in [Requests -> Config]
    /\ ops \in Nat /\ restarts \in Nat
    /\ leaked \in SUBSET IPs /\ stale \in BOOLEAN
    /\ outdated \in SUBSET Requests /\ disputed \in SUBSET IPs

(* Closing a closed channel panics.  However requests interleave, no handle's
   stop channel is closed twice: not by two removals of one device, nor by a
   removal and an applyConfig that meet. *)
StopAtMostOnce == \A h \in Handles : closes[h] <= 1

(* The handle map never outlives the device list: an entry always belongs to
   a listed device and to a handle that serves that very address, so no
   request finds servers for a device that is gone. *)
MapPointsAtDevices ==
    \A i \in IPs : handles[i] # NoOne =>
        i \in IPsOf(devices) /\ home[handles[i]] = i

Running(h) == closes[h] = 0 /\ \E s \in Services : server[h][s] \in {"spawned", "listening"}

Reachable(h) == (\E i \in IPs : handles[i] = h) \/ (\E r \in Requests : cur[r] = h)

\* No request holds the lock or is in AddDevice or RemoveDevice of i.
Settled(i) == up /\ Free /\ \A r \in Requests : ~Busy(r, i)

(* Whatever other requests do: while none deals with an address, the device
   list, the handle map, the running servers and the aliases agree on it.  A
   listed device is served on its address; an address that is not listed is not
   served, and its alias is gone except after a crash or a failed import.
   Exceptions are the addresses that, since the last start, two requests dealt
   with at once (AddDevice, RemoveDevice or applyConfig), a file that was loaded
   named twice, or SetupIPs could not add at the start. *)
IdleConsistent ==
    \A i \in IPs \ disputed : Settled(i) =>
        /\ i \in IPsOf(devices) =>
              /\ i \in alias /\ handles[i] # NoOne /\ closes[handles[i]] = 0
              /\ \A s \in Services : server[handles[i]][s] \in {"spawned", "listening"}
        /\ i \notin IPsOf(devices) => handles[i] = NoOne /\ (i \in alias => i \in leaked)
        /\ \A h \in Handles : Running(h) /\ home[h] = i => handles[i] = h

\* From when applyConfig empties the list until the result is saved.
Unsaved == {"apply_ips", "apply_add", "persist", "write"}

(* Nothing is lost across restarts: when no import, clear or reset has still to
   save what it did, what a restart would load is what is running.  Exceptions,
   until the next save: an import or a save failed, UpdateClient refused a move
   after it had taken the client out, or the last to save was a request that
   another change had overtaken since its snapshot (save and deleteState hold no
   lock). *)
RestartRestores ==
    up /\ ~stale /\ (\A r \in Requests : pc[r] \notin Unsaved) => Loaded = Snapshot

(* Every request that is under way ends: the waits inside and outside the
   lock never hold each other up (unless the process goes down). *)
RequestsFinish == \A r \in Requests : pc[r] # "idle" ~> pc[r] = "idle"

(* A device's servers can always be stopped: every running server belongs to
   a handle that the map or a request still holds. *)
NoOrphanServers == \A h \in Handles : Running(h) => Reachable(h)
=============================================================================

--------------------------- MODULE SimulatorProofs ---------------------------
(***************************************************************************)
(* For any devices, overlapping requests, imports, faults and restarts: no *)
(* stop channel is closed twice, and the handle map points at listed       *)
(* devices.  The heart of it is who may close a handle: the request that   *)
(* has taken it out of the map, or the one that holds the lock and has it  *)
(* on its list.  Then what a restart brings back, and what list, map,      *)
(* servers and aliases say of an address: both with the exceptions that    *)
(* the ghost variables name, and for every interleaving.                   *)
(***************************************************************************)
EXTENDS Simulator, SequenceTheorems, WellFoundedInduction, TLAPS

----------------------------------------------------------------------------
(* Facts about positions in sequences *)

(* A non-empty set of naturals has a least element. *)
LEMMA LeastNatural ==
    ASSUME NEW S \in SUBSET Nat, S # {}
    PROVE  \E i \in S : \A j \in S : i <= j
<1>1. \E i \in S : \A j \in S : ~(<<j, i>> \in OpToRel(<, Nat))
  BY NatLessThanWellFounded, WFMin, Zenon
<1>2. OpToRel(<, Nat) = {p \in Nat \X Nat : p[1] < p[2]}  BY Zenon DEF OpToRel
<1>3. \A i, j \in Nat : <<j, i>> \in {p \in Nat \X Nat : p[1] < p[2]} <=> j < i  BY SMT
<1>4. PICK i \in S : \A j \in S : ~(<<j, i>> \in {p \in Nat \X Nat : p[1] < p[2]})
  BY <1>1, <1>2, Zenon
<1>5. \A j \in S : i <= j
  <2>1. i \in Nat /\ \A j \in S : j \in Nat  OBVIOUS
  <2>2. \A j \in S : ~(j < i)  BY <2>1, <1>3, <1>4, Zenon
  <2> QED BY <2>1, <2>2
<1> QED BY <1>5

(* A non-empty set of positions has a last one. *)
LEMMA GreatestPosition ==
    ASSUME NEW n \in Nat, NEW S \in SUBSET (1 .. n), S # {}
    PROVE  \E i \in S : \A j \in S : j <= i
<1> DEFINE T == {n - j : j \in S}
<1>1. T \in SUBSET Nat /\ T # {}
  <2>1. \A j \in S : n - j \in Nat  OBVIOUS
  <2> QED BY <2>1
<1>2. PICK m \in T : \A k \in T : m <= k  BY <1>1, LeastNatural
<1>3. PICK i \in S : m = n - i  BY <1>2
<1>4. \A j \in S : n - i <= n - j
  <2>1. \A j \in S : n - j \in T  OBVIOUS
  <2> HIDE DEF T
  <2> QED BY <1>2, <1>3, <2>1
<1>5. \A j \in S : j <= i
  <2> SUFFICES ASSUME NEW j \in S PROVE j <= i  OBVIOUS
  <2>1. n - i <= n - j /\ i \in 1 .. n /\ j \in 1 .. n  BY <1>4
  <2> QED BY <2>1
<1> QED BY <1>5

(* A function on 1 .. n is a sequence. *)
LEMMA FunctionIsSeq ==
    ASSUME NEW S, NEW n \in Nat, NEW f \in [1 .. n -> S]
    PROVE  f \in Seq(S) /\ Len(f) = n
<1>1. f \in Seq(S)  BY SeqDef
<1>2. DOMAIN f = 1 .. Len(f) /\ Len(f) \in Nat /\ DOMAIN f = 1 .. n  BY <1>1, LenProperties
<1> QED BY <1>1, <1>2

(* Cutting one position out of a sequence. *)
LEMMA CutOutProperties ==
    ASSUME NEW S, NEW s \in Seq(S), NEW k \in 1 .. Len(s),
           NEW c, c = [j \in 1 .. Len(s) - 1 |-> IF j < k THEN s[j] ELSE s[j + 1]]
    PROVE  /\ c \in Seq(S) /\ Len(c) = Len(s) - 1
           /\ \A j \in 1 .. Len(s) - 1 : c[j] = IF j < k THEN s[j] ELSE s[j + 1]
<1>1. Len(s) - 1 \in Nat /\ Len(s) \in Nat /\ s \in [1 .. Len(s) -> S]  BY LenProperties
<1>2. c \in [1 .. Len(s) - 1 -> S]
  BY <1>1
<1> QED BY <1>1, <1>2, FunctionIsSeq

----------------------------------------------------------------------------
(* The invariant *)

Applying == {"apply_stop", "apply_wait", "apply_ips", "apply_add"}

(* What a request knows of its own operation. *)
OpInv ==
    \A r \in Requests :
        /\ pc[r] \in {"add_ip", "add_commit"} => op[r].ip \in IPs
        /\ pc[r] = "apply_add" => ix[r] <= Len(op[r].cfg)

(* Who holds the lock is in applyConfig, and while it replaces the devices
   nobody else has put anything into the map. *)
LockInv ==
    /\ \A r \in Requests : pc[r] \in Applying <=> mu = r
    /\ ~up => \A r \in Requests : pc[r] = "idle"
    /\ \A r \in Requests :
        /\ pc[r] \in {"apply_ips", "apply_add"} => \A i \in IPs : handles[i] = NoOne
        /\ pc[r] \in {"apply_stop", "apply_wait"} => \A i \in todo[r] : handles[i] # NoOne

(* The map and the device list. *)
MapInv ==
    \A i \in IPs : handles[i] # NoOne =>
        handles[i] <= used /\ home[handles[i]] = i /\ i \in IPsOf(devices)

(* Nothing in the map has been closed, but for what applyConfig has crossed
   off its list. *)
MapOpen ==
    \A i \in IPs : handles[i] # NoOne /\ (mu = NoOne \/ i \in todo[mu]) => closes[handles[i]] = 0

(* What RemoveDevice is about to close is out of the map and is its alone. *)
RemoveInv ==
    \A r \in Requests : pc[r] = "remove_stop" =>
        /\ cur[r] \in Handles /\ cur[r] <= used /\ closes[cur[r]] = 0
        /\ \A i \in IPs : handles[i] # cur[r]
        /\ \A q \in Requests \ {r} : pc[q] = "remove_stop" => cur[q] # cur[r]

(* Handles that do not exist yet have not been closed. *)
CloseInv == \A h \in Handles : closes[h] <= 1 /\ (h > used => closes[h] = 0)

Core == LockInv /\ MapInv /\ MapOpen /\ RemoveInv /\ CloseInv

Inv == TypeOK /\ OpInv /\ Core

----------------------------------------------------------------------------
(* Helpers *)

(* The last place of an address in a list is one of its places. *)
LEMMA LastAtProperties ==
    ASSUME NEW ips \in Seq(IPs), NEW i, NEW k0 \in 1 .. Len(ips), ips[k0] = i
    PROVE  LastAt(ips, i) \in 1 .. Len(ips) /\ ips[LastAt(ips, i)] = i
<1> DEFINE S == {k \in 1 .. Len(ips) : ips[k] = i}
<1>1. Len(ips) \in Nat  BY LenProperties
<1>2. S \in SUBSET (1 .. Len(ips)) /\ k0 \in S  OBVIOUS
<1>3. PICK l \in S : \A j \in S : j <= l  BY <1>1, <1>2, GreatestPosition
<1>4. \A j \in l + 1 .. Len(ips) : ips[j] # i
  <2> SUFFICES ASSUME NEW j \in l + 1 .. Len(ips), ips[j] = i PROVE FALSE  OBVIOUS
  <2>1. j \in S /\ l \in 1 .. Len(ips)  BY <1>1
  <2>2. j <= l  BY <1>3, <2>1
  <2> QED BY <1>1, <2>1, <2>2
<1>5. \E k \in 1 .. Len(ips) : ips[k] = i /\ \A j \in k + 1 .. Len(ips) : ips[j] # i  BY <1>4
<1> QED BY <1>5 DEF LastAt

(* startDeviceServers numbers the new handles on from the last one; the map
   has, for an address that was started, one of the new ones. *)
LEMMA StartServersProperties ==
    ASSUME NEW ips \in Seq(IPs), NEW map \in [IPs -> Handles \cup {NoOne}], TypeOK, StartServers(ips, map)
    PROVE  /\ used' = used + Len(ips) /\ used' \in 0 .. MaxHandles /\ used <= used'
           /\ home' \in [Handles -> IPs \cup {NoOne}]
           /\ server' \in [Handles -> [Services -> {"none", "spawned", "listening", "failed", "exited"}]]
           /\ handles' \in [IPs -> Handles \cup {NoOne}]
           /\ \A h \in Handles : h <= used => home'[h] = home[h]
           /\ \A i \in IPs :
                 \/ handles'[i] = map[i]
                 \/ /\ handles'[i] \in used + 1 .. used' /\ home'[handles'[i]] = i
                    /\ \E k \in 1 .. Len(ips) : ips[k] = i
<1>1. /\ Len(ips) \in Nat /\ used \in Nat /\ used + Len(ips) <= MaxHandles /\ used' = used + Len(ips)
      /\ MaxHandles \in Nat
      /\ ips \in [1 .. Len(ips) -> IPs]
  BY ConstantsAssumption, LenProperties DEF StartServers, TypeOK
<1>2. home' = [h \in Handles |-> IF h \in used + 1 .. used + Len(ips) THEN ips[h - used] ELSE home[h]]
  BY DEF StartServers
<1>3. home' \in [Handles -> IPs \cup {NoOne}]
  <2>1. \A h \in used + 1 .. used + Len(ips) : h - used \in 1 .. Len(ips)  BY <1>1
  <2> QED BY <1>1, <1>2, <2>1 DEF TypeOK
<1>4. server' \in [Handles -> [Services -> {"none", "spawned", "listening", "failed", "exited"}]]
  BY DEF StartServers, TypeOK
<1>5. \A h \in Handles : h <= used => home'[h] = home[h]
  BY <1>1, <1>2 DEF Handles
<1>6. ASSUME NEW i \in IPs, NEW k0 \in 1 .. Len(ips), ips[k0] = i
      PROVE  LastAt(ips, i) \in 1 .. Len(ips) /\ ips[LastAt(ips, i)] = i
  BY <1>6, LastAtProperties
<1>7. handles' = [i \in IPs |-> IF \E k \in 1 .. Len(ips) : ips[k] = i THEN used + LastAt(ips, i) ELSE map[i]]
  BY DEF StartServers
<1>8. ASSUME NEW i \in IPs
      PROVE  \/ handles'[i] = map[i]
             \/ /\ handles'[i] \in used + 1 .. used' /\ handles'[i] \in Handles /\ home'[handles'[i]] = i
                /\ \E k \in 1 .. Len(ips) : ips[k] = i
  <2>1. CASE \E k \in 1 .. Len(ips) : ips[k] = i
    <3> DEFINE l == LastAt(ips, i)
    <3>1. l \in 1 .. Len(ips) /\ ips[l] = i  BY <1>6, <2>1
    <3>2. handles'[i] = used + l  BY <1>7, <2>1
    <3> HIDE DEF l
    <3>3. used + l \in used + 1 .. used + Len(ips) /\ used + l \in Handles /\ used + l - used = l
      BY <1>1, <3>1 DEF Handles
    <3>4. \A h \in Handles : h \in used + 1 .. used + Len(ips) => home'[h] = ips[h - used]  BY <1>2
    <3> DEFINE h == used + l
    <3>5. h \in Handles /\ h \in used + 1 .. used + Len(ips) /\ h - used = l  BY <1>1, <3>1, <3>3
    <3> HIDE DEF h
    <3>6. home'[h] = ips[l]  BY <3>4, <3>5
    <3> QED BY <1>1, <2>1, <3>1, <3>2, <3>3, <3>6 DEF h
  <2>2. CASE ~\E k \in 1 .. Len(ips) : ips[k] = i
    BY <1>7, <2>2
  <2> QED BY <2>1, <2>2
<1>9. handles' \in [IPs -> Handles \cup {NoOne}]
  <2>1. \A i \in IPs : handles'[i] \in Handles \cup {NoOne}  BY <1>8
  <2> QED BY <1>7, <2>1
<1> QED BY <1>1, <1>3, <1>4, <1>5, <1>8, <1>9

(* The first device with an address is one of them. *)
LEMMA FirstAtProperties ==
    ASSUME TypeOK, NEW i \in IPsOf(devices)
    PROVE  FirstAt(i) \in 1 .. Len(devices) /\ devices[FirstAt(i)].ip = i
<1> DEFINE S == {k \in 1 .. Len(devices) : devices[k].ip = i}
<1>1. Len(devices) \in Nat  BY LenProperties DEF TypeOK
<1>2. S # {} /\ S \in SUBSET Nat  BY <1>1 DEF IPsOf
<1>3. PICK k \in S : \A j \in S : k <= j  BY <1>2, LeastNatural
<1>4. \A j \in 1 .. k - 1 : devices[j].ip # i
  <2> SUFFICES ASSUME NEW j \in 1 .. k - 1, devices[j].ip = i PROVE FALSE  OBVIOUS
  <2>1. k \in 1 .. Len(devices) /\ j \in S  BY <1>1
  <2>2. k <= j  BY <1>3, <2>1
  <2> QED BY <1>1, <2>1, <2>2
<1>5. \E k1 \in 1 .. Len(devices) : devices[k1].ip = i /\ \A j \in 1 .. k1 - 1 : devices[j].ip # i
  BY <1>3, <1>4
<1> QED BY <1>5 DEF FirstAt

(* Removing a device removes no other address. *)
LEMMA CutDevices ==
    ASSUME TypeOK, NEW i \in IPsOf(devices)
    PROVE  /\ Cut(devices, FirstAt(i)) \in Seq(Device)
           /\ \A j \in IPsOf(devices) : j = i \/ j \in IPsOf(Cut(devices, FirstAt(i)))
<1> DEFINE f == FirstAt(i)
<1> DEFINE c == Cut(devices, f)
<1>1. f \in 1 .. Len(devices) /\ devices[f].ip = i /\ devices \in Seq(Device) /\ Len(devices) \in Nat
  BY FirstAtProperties, LenProperties DEF TypeOK
<1> HIDE DEF f
<1>2. /\ c \in Seq(Device) /\ Len(c) = Len(devices) - 1
      /\ \A j \in 1 .. Len(devices) - 1 : c[j] = IF j < f THEN devices[j] ELSE devices[j + 1]
  BY <1>1, CutOutProperties DEF Cut
<1> HIDE DEF c
<1>3. ASSUME NEW k \in 1 .. Len(devices), k # f PROVE \E j \in 1 .. Len(c) : c[j] = devices[k]
  <2>1. CASE k < f
    <3>1. k \in 1 .. Len(c) /\ c[k] = devices[k]  BY <1>1, <1>2, <2>1
    <3> QED BY <3>1
  <2>2. CASE k > f
    <3>1. k - 1 \in 1 .. Len(c) /\ ~(k - 1 < f) /\ k - 1 + 1 = k  BY <1>1, <1>2, <2>2
    <3>2. c[k - 1] = devices[k]  BY <1>2, <3>1
    <3> QED BY <3>1, <3>2
  <2> QED BY <1>1, <1>3, <2>1, <2>2
<1>4. \A j \in IPsOf(devices) : j = i \/ j \in IPsOf(c)  BY <1>1, <1>3 DEF IPsOf
<1> QED BY <1>2, <1>4 DEF c, f

(* Devices as parsed have the addresses of the list. *)
LEMMA FreshProperties ==
    ASSUME NEW ips \in Seq(IPs)
    PROVE  /\ Fresh(ips) \in Seq(Device)
           /\ \A k \in 1 .. Len(ips) : ips[k] \in IPsOf(Fresh(ips))
<1>1. Len(ips) \in Nat /\ ips \in [1 .. Len(ips) -> IPs]  BY LenProperties
<1>2. Fresh(ips) \in [1 .. Len(ips) -> Device]  BY <1>1 DEF Fresh, Device
<1>3. Fresh(ips) \in Seq(Device) /\ Len(Fresh(ips)) = Len(ips)  BY <1>1, <1>2, FunctionIsSeq
<1>4. \A k \in 1 .. Len(ips) : Fresh(ips)[k].ip = ips[k]  BY DEF Fresh
<1>5. ASSUME NEW k \in 1 .. Len(ips) PROVE ips[k] \in IPsOf(Fresh(ips))
  BY <1>3, <1>4 DEF IPsOf
<1> QED BY <1>3, <1>5

----------------------------------------------------------------------------
(* Types *)

(* A saved configuration is one that can be loaded. *)
LEMMA PersistType ==
    ASSUME TypeOK, NEW f \in Config \cup {NoOne}, Persist(f)
    PROVE  file' \in Config \cup {NoOne} /\ stale' \in BOOLEAN
BY DEF Persist, TypeOK

(* A request that saves what it knows is no longer outdated. *)
LEMMA SaveOfType ==
    ASSUME TypeOK, NEW r \in Requests, NEW f \in Config \cup {NoOne}, SaveOf(r, f)
    PROVE  /\ file' \in Config \cup {NoOne} /\ stale' \in BOOLEAN /\ outdated' \in SUBSET Requests
           /\ file' = f \/ file' = file
<1>1. outdated' = outdated \ {r}  BY DEF SaveOf
<1>2. CASE r \notin outdated
  <2>1. Persist(f)  BY <1>2 DEF SaveOf
  <2> QED BY <1>1, <2>1, PersistType DEF TypeOK, Persist
<1>3. CASE r \in outdated
  <2>1. stale' = TRUE /\ (file' = f \/ file' = file)  BY <1>3 DEF SaveOf
  <2> QED BY <1>1, <2>1 DEF TypeOK
<1> QED BY <1>2, <1>3

(* So is what main loads. *)
LEMMA LoadedType ==
    ASSUME TypeOK
    PROVE  Loaded.devices \in Seq(Device) /\ Loaded.auth \in Auths
<1>1. Fresh(Seed) \in Seq(Device) /\ SeedAuth \in Auths  BY ConstantsAssumption, FreshProperties
<1>2. CASE file = NoOne  BY <1>1, <1>2 DEF Loaded
<1>3. CASE file # NoOne  BY <1>3 DEF Loaded, TypeOK, Config
<1> QED BY <1>2, <1>3

(* A request arrives with its operation. *)
LEMMA BeginType ==
    ASSUME TypeOK, NEW r \in Requests, NEW o \in Operation, Begin(r, o)
    PROVE  ops' \in Nat /\ op' \in [Requests -> Operation]
BY DEF Begin, TypeOK

(* AddDevice keeps the types. *)
LEMMA AddType ==
    ASSUME Inv, NEW r \in Requests, AddStep(r)
    PROVE  TypeOK'
<1>a. TypeOK  BY DEF Inv
<1>1. ASSUME NEW i \in IPs, AddCheck(r, i) PROVE TypeOK'
  <2>1. [kind |-> "add", ip |-> i, cfg |-> << >>, auth |-> auth] \in Operation
    BY <1>a, EmptySeq DEF Operation, TypeOK
  <2>2. ops' \in Nat /\ op' \in [Requests -> Operation]  BY <1>1, <1>a, <2>1, BeginType DEF AddCheck
  <2>3. pc' \in [Requests -> PCs]  BY <1>1, <1>a DEF AddCheck, Goto, TypeOK, PCs
  <2>4. disputed' \in SUBSET IPs  BY <1>1, <1>a DEF AddCheck, Contend, TypeOK
  <2> QED BY <1>1, <1>a, <2>2, <2>3, <2>4 DEF AddCheck, TypeOK, memory, servers
<1>2. CASE AddAlias(r)
  <2>1. pc' \in [Requests -> PCs]  BY <1>2, <1>a DEF AddAlias, Goto, TypeOK, PCs
  <2>2. alias' \in SUBSET IPs  BY <1>2, <1>a DEF AddAlias, TypeOK, Inv, OpInv
  <2> QED BY <1>2, <1>a, <2>1, <2>2 DEF AddAlias, TypeOK, memory, ghosts, servers
<1>3. CASE AddCommit(r)
  <2>1. op[r].ip \in IPs  BY <1>3 DEF AddCommit, Inv, OpInv
  <2>2. [ip |-> op[r].ip, rev |-> 0] \in Device  BY <2>1 DEF Device
  <2>3. devices' \in Seq(Device)  BY <1>3, <1>a, <2>2, AppendProperties DEF AddCommit, TypeOK
  <2>4. <<op[r].ip>> \in Seq(IPs) /\ handles \in [IPs -> Handles \cup {NoOne}]  BY <1>a, <2>1 DEF TypeOK
  <2>5. StartServers(<<op[r].ip>>, handles)  BY <1>3 DEF AddCommit
  <2>6. /\ used' \in 0 .. MaxHandles /\ home' \in [Handles -> IPs \cup {NoOne}]
        /\ server' \in [Handles -> [Services -> {"none", "spawned", "listening", "failed", "exited"}]]
        /\ handles' \in [IPs -> Handles \cup {NoOne}]
    BY <1>a, <2>4, <2>5, StartServersProperties
  <2>7. [devices |-> devices', auth |-> auth] \in Config  BY <1>a, <2>3 DEF Config, TypeOK
  <2>8. file' \in Config \cup {NoOne} /\ stale' \in BOOLEAN  BY <1>3, <1>a, <2>7, PersistType DEF AddCommit
  <2>9. pc' \in [Requests -> PCs]  BY <1>3, <1>a DEF AddCommit, Goto, TypeOK, PCs
  <2>10. UNCHANGED <<up, mu, auth, closes, alias, op, cur, todo, ix, snap, ops, restarts, leaked, disputed>>
    BY <1>3 DEF AddCommit
  <2>11. outdated' \in SUBSET Requests  BY <1>3, <1>a DEF AddCommit, Overtake, TypeOK
  <2> QED BY <1>a, <2>3, <2>6, <2>8, <2>9, <2>10, <2>11 DEF TypeOK
<1> QED BY <1>1, <1>2, <1>3 DEF AddStep

(* RemoveDevice keeps the types. *)
LEMMA RemoveType ==
    ASSUME Inv, NEW r \in Requests, RemoveStep(r)
    PROVE  TypeOK'
<1>a. TypeOK  BY DEF Inv
<1>1. ASSUME NEW i \in IPs, RemoveLocked(r, i) PROVE TypeOK'
  <2>1. [kind |-> "remove", ip |-> i, cfg |-> << >>, auth |-> auth] \in Operation
    BY <1>a, EmptySeq DEF Operation, TypeOK
  <2>2. ops' \in Nat /\ op' \in [Requests -> Operation]  BY <1>1, <1>a, <2>1, BeginType DEF RemoveLocked
  <2>3. devices' \in Seq(Device)  BY <1>1, <1>a, CutDevices DEF RemoveLocked
  <2>4. [devices |-> devices', auth |-> auth] \in Config  BY <1>a, <2>3 DEF Config, TypeOK
  <2>5. file' \in Config \cup {NoOne} /\ stale' \in BOOLEAN  BY <1>1, <1>a, <2>4, PersistType DEF RemoveLocked
  <2>6. pc' \in [Requests -> PCs]  BY <1>1, <1>a DEF RemoveLocked, Goto, TypeOK, PCs
  <2>7. handles' \in [IPs -> Handles \cup {NoOne}] /\ cur' \in [Requests -> Handles \cup {NoOne}]
    BY <1>1, <1>a DEF RemoveLocked, TypeOK
  <2>8. UNCHANGED <<up, mu, auth, servers, alias, todo, ix, snap, restarts, leaked>>  BY <1>1 DEF RemoveLocked
  <2>9. outdated' \in SUBSET Requests /\ disputed' \in SUBSET IPs
    BY <1>1, <1>a DEF RemoveLocked, Overtake, Contend, TypeOK
  <2> QED BY <1>a, <2>2, <2>3, <2>5, <2>6, <2>7, <2>8, <2>9 DEF TypeOK, servers
<1>2. CASE RemoveStop(r)
  <2>1. cur[r] \in Handles  BY <1>2 DEF RemoveStop, Inv, Core, RemoveInv
  <2>2. closes' \in [Handles -> Nat]  BY <1>2, <1>a, <2>1 DEF RemoveStop, TypeOK
  <2>3. pc' \in [Requests -> PCs]  BY <1>2, <1>a DEF RemoveStop, Goto, TypeOK, PCs
  <2> QED BY <1>2, <1>a, <2>2, <2>3 DEF RemoveStop, TypeOK, memory, ghosts
<1>3. CASE RemoveWait(r)
  <2>1. pc' \in [Requests -> PCs]  BY <1>3, <1>a DEF RemoveWait, Goto, TypeOK, PCs
  <2> QED BY <1>3, <1>a, <2>1 DEF RemoveWait, TypeOK, memory, ghosts, servers
<1>4. CASE RemoveAlias(r)
  <2>1. pc' \in [Requests -> PCs]  BY <1>4, <1>a DEF RemoveAlias, Goto, TypeOK, PCs
  <2> QED BY <1>4, <1>a, <2>1 DEF RemoveAlias, TypeOK, memory, ghosts, servers
<1> QED BY <1>1, <1>2, <1>3, <1>4 DEF RemoveStep

(* An edit keeps the types. *)
LEMMA EditType ==
    ASSUME Inv, NEW r \in Requests, NEW i \in IPs, Edit(r, i) \/ MoveRefused(r, i)
    PROVE  /\ TypeOK' /\ IPsOf(devices') = IPsOf(devices) /\ Len(devices') = Len(devices)
           /\ \A j \in 1 .. Len(devices) : devices'[j].ip = devices[j].ip
<1>a. TypeOK /\ Change(r, i)  BY DEF Inv, Edit, MoveRefused
<1> DEFINE f == FirstAt(i)
<1>1. f \in 1 .. Len(devices)  BY <1>a, FirstAtProperties DEF Change
<1>2. devices' = [devices EXCEPT ![f].rev = 1 - @]  BY <1>a DEF Change
<1> HIDE DEF f
<1> DEFINE d == [devices[f] EXCEPT !.rev = 1 - @]
<1>3. devices[f] \in Device  BY <1>a, <1>1, ElementOfSeq DEF TypeOK
<1>4. d \in Device /\ d.ip = devices[f].ip  BY <1>3 DEF Device
<1>5. devices' = [devices EXCEPT ![f] = d]  BY <1>2
<1> HIDE DEF d
<1>6. /\ devices' \in Seq(Device) /\ Len(devices') = Len(devices)
      /\ \A j \in 1 .. Len(devices) : devices'[j] = IF j = f THEN d ELSE devices[j]
  BY <1>a, <1>1, <1>4, <1>5, ExceptSeq DEF TypeOK
<1>7. IPsOf(devices') = IPsOf(devices) /\ \A j \in 1 .. Len(devices) : devices'[j].ip = devices[j].ip
  <2>1. \A j \in 1 .. Len(devices) : devices'[j].ip = devices[j].ip  BY <1>4, <1>6
  <2> QED BY <1>6, <2>1 DEF IPsOf
<1>8. [kind |-> "edit", ip |-> i, cfg |-> << >>, auth |-> auth] \in Operation
  BY <1>a, EmptySeq DEF Operation, TypeOK
<1>9. ops' \in Nat /\ op' \in [Requests -> Operation]  BY <1>a, <1>8, BeginType DEF Change
<1>10. [devices |-> devices', auth |-> auth] \in Config  BY <1>a, <1>6 DEF Config, TypeOK
<1>11. file' \in Config \cup {NoOne} /\ stale' \in BOOLEAN
  <2>1. CASE Edit(r, i)  BY <1>a, <1>10, <2>1, PersistType DEF Edit
  <2>2. CASE MoveRefused(r, i)
    <3>1. file' = file /\ stale' = TRUE  BY <2>2 DEF MoveRefused
    <3> QED BY <1>a, <3>1 DEF TypeOK
  <2> QED BY <2>1, <2>2
<1>12. UNCHANGED <<up, mu, handles, auth, servers, alias, pc, cur, todo, ix, snap, restarts, leaked, disputed>>
  BY <1>a DEF Change
<1>13. outdated' \in SUBSET Requests  BY <1>a DEF Change, Overtake, TypeOK
<1> QED BY <1>a, <1>6, <1>7, <1>9, <1>11, <1>12, <1>13 DEF TypeOK, servers

(* The requests that replace everything keep the types. *)
LEMMA ReplaceType ==
    ASSUME Inv, NEW r \in Requests, ReplaceStep(r)
    PROVE  TypeOK'
<1>a. TypeOK  BY DEF Inv
<1>1. ASSUME NEW ips \in Imports, NEW a \in Auths, ImportBegin(r, ips, a) PROVE TypeOK'
  <2>1. [kind |-> "import", ip |-> NoOne, cfg |-> ips, auth |-> a] \in Operation
    BY ConstantsAssumption DEF Operation
  <2>2. ops' \in Nat /\ op' \in [Requests -> Operation]  BY <1>1, <1>a, <2>1, BeginType DEF ImportBegin
  <2>3. pc' \in [Requests -> PCs]  BY <1>1, <1>a DEF ImportBegin, Goto, TypeOK, PCs
  <2> QED BY <1>1, <1>a, <2>2, <2>3 DEF ImportBegin, TypeOK, memory, ghosts, servers
<1>2. CASE ClearBegin(r)
  <2>1. [kind |-> "clear", ip |-> NoOne, cfg |-> << >>, auth |-> auth] \in Operation
    BY <1>a, EmptySeq DEF Operation, TypeOK
  <2>2. ops' \in Nat /\ op' \in [Requests -> Operation]  BY <1>2, <1>a, <2>1, BeginType DEF ClearBegin
  <2>3. pc' \in [Requests -> PCs]  BY <1>2, <1>a DEF ClearBegin, Goto, TypeOK, PCs
  <2> QED BY <1>2, <1>a, <2>2, <2>3 DEF ClearBegin, TypeOK, memory, ghosts, servers
<1>3. CASE ResetBegin(r)
  <2>1. [kind |-> "reset", ip |-> NoOne, cfg |-> Seed, auth |-> SeedAuth] \in Operation
    BY ConstantsAssumption DEF Operation
  <2>2. ops' \in Nat /\ op' \in [Requests -> Operation]  BY <1>3, <1>a, <2>1, BeginType DEF ResetBegin
  <2>3. pc' \in [Requests -> PCs]  BY <1>3, <1>a DEF ResetBegin, Goto, TypeOK, PCs
  <2> QED BY <1>3, <1>a, <2>2, <2>3 DEF ResetBegin, TypeOK, memory, ghosts, servers
<1>4. CASE ApplyLock(r)
  <2>1. pc' \in [Requests -> PCs]  BY <1>4, <1>a DEF ApplyLock, Goto, TypeOK, PCs
  <2>2. todo' \in [Requests -> SUBSET IPs]  BY <1>4, <1>a DEF ApplyLock, TypeOK
  <2>3. disputed' \in SUBSET IPs  BY <1>4, <1>a DEF ApplyLock, TypeOK
  <2> QED BY <1>4, <1>a, <2>1, <2>2, <2>3 DEF ApplyLock, TypeOK, memory, servers
<1>5. CASE ApplyStop(r)
  <2>1. pc' \in [Requests -> PCs]  BY <1>5, <1>a DEF ApplyStop, Goto, TypeOK, PCs
  <2>2. PICK i \in todo[r] :
            /\ closes' = [closes EXCEPT ![handles[i]] = @ + 1]
            /\ cur' = [cur EXCEPT ![r] = handles[i]]
            /\ todo' = [todo EXCEPT ![r] = @ \ {i}]
    BY <1>5 DEF ApplyStop
  <2>3. handles[i] \in Handles
    BY <1>5, <1>a, <2>2 DEF ApplyStop, TypeOK, Inv, Core, LockInv
  <2>4. closes' \in [Handles -> Nat] /\ cur' \in [Requests -> Handles \cup {NoOne}]
    BY <1>a, <2>2, <2>3 DEF TypeOK
  <2>5. todo' \in [Requests -> SUBSET IPs]  BY <1>a, <2>2 DEF TypeOK
  <2> QED BY <1>5, <1>a, <2>1, <2>4, <2>5 DEF ApplyStop, TypeOK, memory, ghosts
<1>6. CASE ApplyWait(r)
  <2>1. pc' \in [Requests -> PCs]  BY <1>6, <1>a DEF ApplyWait, Goto, TypeOK, PCs
  <2> QED BY <1>6, <1>a, <2>1 DEF ApplyWait, TypeOK, memory, ghosts, servers
<1>7. CASE ApplyClear(r)
  <2>1. pc' \in [Requests -> PCs] /\ mu' \in Requests \cup {NoOne}
    BY <1>7, <1>a DEF ApplyClear, Goto, TypeOK, PCs
  <2>2. devices' \in Seq(Device)  BY <1>7, EmptySeq DEF ApplyClear
  <2>3. auth' \in Auths  BY <1>7, <1>a DEF ApplyClear, TypeOK, Operation
  <2>4. handles' \in [IPs -> Handles \cup {NoOne}] /\ ix' \in [Requests -> Nat \ {0}] /\ alias' \in SUBSET IPs
    BY <1>7, <1>a DEF ApplyClear, TypeOK
  <2>5. UNCHANGED <<up, servers, file, op, cur, todo, snap, ops, restarts, leaked, stale, disputed>>
    BY <1>7 DEF ApplyClear
  <2>6. outdated' \in SUBSET Requests  BY <1>7, <1>a DEF ApplyClear, Overtake, TypeOK
  <2> QED BY <1>a, <2>1, <2>2, <2>3, <2>4, <2>5, <2>6 DEF TypeOK, servers
<1>8. CASE ApplyCheckIP(r)
  <2>1. pc' \in [Requests -> PCs]
    BY <1>8, <1>a DEF ApplyCheckIP, Goto, TypeOK, PCs
  <2>2. ix' \in [Requests -> Nat \ {0}]
    <3>1. ix \in [Requests -> Nat \ {0}] /\ ix[r] + 1 \in Nat \ {0}  BY <1>a DEF TypeOK
    <3>2. ix' = ix \/ ix' = [ix EXCEPT ![r] = ix[r] + 1]  BY <1>8 DEF ApplyCheckIP
    <3> QED BY <3>1, <3>2
  <2> QED BY <1>8, <1>a, <2>1, <2>2 DEF ApplyCheckIP, TypeOK, memory, ghosts, servers
<1>9. CASE ApplyAddIP(r)
  <2>1. op[r].cfg[ix[r]] \in IPs
    <3>1. op[r].cfg \in Seq(IPs) /\ ix[r] \in Nat \ {0} /\ ix[r] <= Len(op[r].cfg)
      BY <1>9, <1>a DEF ApplyAddIP, TypeOK, Operation, Inv, OpInv
    <3>2. ix[r] \in 1 .. Len(op[r].cfg)  BY <3>1, LenProperties
    <3> QED BY <3>1, <3>2, ElementOfSeq
  <2> DEFINE i == op[r].cfg[ix[r]]
  <2>5. \/ /\ Goto(r, "idle") /\ mu' = NoOne /\ stale' = TRUE
           /\ leaked' = leaked \cup alias /\ UNCHANGED <<alias, ix>>
        \/ /\ alias' = alias \cup {i} /\ ix' = [ix EXCEPT ![r] = @ + 1]
           /\ Goto(r, "apply_ips") /\ UNCHANGED <<mu, stale, leaked>>
    BY <1>9, Zenon DEF ApplyAddIP
  <2> HIDE DEF i
  <2>2. pc' \in [Requests -> PCs]
    BY <2>5, <1>a DEF Goto, TypeOK, PCs
  <2>6. ix' \in [Requests -> Nat \ {0}]
    <3>1. ix \in [Requests -> Nat \ {0}] /\ ix[r] + 1 \in Nat \ {0}  BY <1>a DEF TypeOK
    <3>2. ix' = ix \/ ix' = [ix EXCEPT ![r] = ix[r] + 1]  BY <2>5
    <3> QED BY <3>1, <3>2
  <2>7. i \in IPs  BY <2>1 DEF i
  <2>8. mu' \in Requests \cup {NoOne} /\ alias' \in SUBSET IPs /\ leaked' \in SUBSET IPs
    BY <2>5, <2>7, <1>a DEF TypeOK
  <2>3. stale' \in BOOLEAN  BY <2>5, <1>a, Zenon DEF TypeOK
  <2>4. UNCHANGED <<up, memory, servers, file, op, cur, todo, snap, ops, restarts, outdated, disputed>>
    BY <1>9 DEF ApplyAddIP
  <2> QED BY <1>a, <2>2, <2>3, <2>4, <2>6, <2>8 DEF TypeOK, memory, ghosts, servers
<1>10. CASE ApplyStart(r)
  <2>1. op[r].cfg \in Seq(IPs) /\ handles \in [IPs -> Handles \cup {NoOne}]  BY <1>a DEF TypeOK, Operation
  <2>2. StartServers(op[r].cfg, handles)  BY <1>10 DEF ApplyStart
  <2>3. /\ used' \in 0 .. MaxHandles /\ home' \in [Handles -> IPs \cup {NoOne}]
        /\ server' \in [Handles -> [Services -> {"none", "spawned", "listening", "failed", "exited"}]]
        /\ handles' \in [IPs -> Handles \cup {NoOne}]
    BY <1>a, <2>1, <2>2, StartServersProperties
  <2>4. devices' \in Seq(Device)  BY <1>10, <2>1, FreshProperties DEF ApplyStart
  <2>5. pc' \in [Requests -> PCs]  BY <1>10, <1>a DEF ApplyStart, Goto, TypeOK, PCs
  <2>6. mu' = NoOne /\ UNCHANGED <<up, auth, closes, alias, file, op, cur, todo, ix, snap, ops, restarts, leaked, stale>>
    BY <1>10 DEF ApplyStart
  <2>7. outdated' \in SUBSET Requests  BY <1>10, <1>a DEF ApplyStart, Overtake, TypeOK
  <2>8. disputed' \in SUBSET IPs
    <3>1. Repeated(op[r].cfg) \in SUBSET IPs  BY <2>1, ElementOfSeq DEF Repeated
    <3>2. disputed' = disputed \cup Repeated(op[r].cfg)  BY <1>10 DEF ApplyStart
    <3> QED BY <1>a, <3>1, <3>2 DEF TypeOK
  <2> QED BY <1>a, <2>3, <2>4, <2>5, <2>6, <2>7, <2>8 DEF TypeOK
<1>11. CASE SaveSnapshot(r)
  <2>1. Snapshot \in Config  BY <1>a DEF Snapshot, Config, TypeOK
  <2>2. pc' \in [Requests -> PCs]  BY <1>11, <1>a DEF SaveSnapshot, Goto, TypeOK, PCs
  <2>3. snap' \in [Requests -> Config]  BY <1>11, <1>a, <2>1 DEF SaveSnapshot, TypeOK
  <2> QED BY <1>11, <1>a, <2>2, <2>3 DEF SaveSnapshot, TypeOK, memory, ghosts, servers
<1>12. CASE SaveWrite(r)
  <2>1. snap[r] \in Config  BY <1>a DEF TypeOK
  <2>2. file' \in Config \cup {NoOne} /\ stale' \in BOOLEAN /\ outdated' \in SUBSET Requests
    BY <1>12, <1>a, <2>1, SaveOfType DEF SaveWrite
  <2>3. pc' \in [Requests -> PCs]  BY <1>12, <1>a DEF SaveWrite, Goto, TypeOK, PCs
  <2> QED BY <1>12, <1>a, <2>2, <2>3 DEF SaveWrite, TypeOK, memory, ghosts, servers
<1>13. CASE DeleteState(r)
  <2>1. file' \in Config \cup {NoOne} /\ stale' \in BOOLEAN /\ outdated' \in SUBSET Requests
    BY <1>13, <1>a, SaveOfType DEF DeleteState
  <2>2. pc' \in [Requests -> PCs]  BY <1>13, <1>a DEF DeleteState, Goto, TypeOK, PCs
  <2> QED BY <1>13, <1>a, <2>1, <2>2 DEF DeleteState, TypeOK, memory, ghosts, servers
<1> QED
  BY <1>1, <1>2, <1>3, <1>4, <1>5, <1>6, <1>7, <1>8, <1>9, <1>10, <1>11, <1>12, <1>13
     DEF ReplaceStep, ApplyStep

(* Servers and the process keep the types. *)
LEMMA ProcessType ==
    ASSUME Inv, (\E h \in Handles : ServerStep(h)) \/ Crash \/ Shutdown \/ Boot \/ UNCHANGED vars
    PROVE  TypeOK'
<1>a. TypeOK  BY DEF Inv
<1>1. ASSUME NEW h \in Handles, NEW s \in Services, ServerListen(h, s) \/ ServerExit(h, s) PROVE TypeOK'
  <2>1. server' \in [Handles -> [Services -> {"none", "spawned", "listening", "failed", "exited"}]]
    <3>1. PICK v \in {"listening", "failed", "exited"} : server' = [server EXCEPT ![h][s] = v]
      BY <1>1 DEF ServerListen, ServerExit
    <3> QED BY <1>a, <3>1 DEF TypeOK
  <2>2. UNCHANGED <<up, mu, memory, used, home, closes, alias, file, requests, ops, restarts, ghosts>>
    BY <1>1 DEF ServerListen, ServerExit
  <2> QED BY <1>a, <2>1, <2>2 DEF TypeOK, memory, ghosts, requests
<1>2. ASSUME Die, alias' \in SUBSET IPs PROVE TypeOK'
  <2>1. /\ up' \in BOOLEAN /\ mu' \in Requests \cup {NoOne}
        /\ handles' \in [IPs -> Handles \cup {NoOne}] /\ pc' \in [Requests -> PCs]
        /\ cur' \in [Requests -> Handles \cup {NoOne}] /\ todo' \in [Requests -> SUBSET IPs]
        /\ server' \in [Handles -> [Services -> {"none", "spawned", "listening", "failed", "exited"}]]
    BY <1>2 DEF Die, PCs
  <2>2. devices' \in Seq(Device)  BY <1>2, EmptySeq DEF Die
  <2>3. /\ UNCHANGED <<auth, used, home, closes, file, op, ix, snap, ops, restarts, leaked, stale, disputed>>
        /\ outdated' = {}
    BY <1>2 DEF Die
  <2> QED BY <1>a, <1>2, <2>1, <2>2, <2>3 DEF TypeOK
<1>3. CASE Crash \/ Shutdown
  <2>1. Die /\ alias' \in SUBSET IPs  BY <1>3, <1>a DEF Crash, Shutdown, TypeOK
  <2> QED BY <1>2, <2>1
<1>4. CASE Boot
  <2> DEFINE ips == [k \in 1 .. Len(Loaded.devices) |-> Loaded.devices[k].ip]
  <2>1. Loaded.devices \in Seq(Device) /\ Loaded.auth \in Auths  BY <1>a, LoadedType
  <2>2. Len(Loaded.devices) \in Nat /\ \A k \in 1 .. Len(Loaded.devices) : Loaded.devices[k] \in Device
    BY <2>1, LenProperties, ElementOfSeq
  <2>3. ips \in [1 .. Len(Loaded.devices) -> IPs]  BY <2>2 DEF Device
  <2>4. ips \in Seq(IPs) /\ Len(ips) = Len(Loaded.devices)  BY <2>2, <2>3, FunctionIsSeq
  <2>5. /\ devices' = Loaded.devices /\ auth' = Loaded.auth /\ alias' = SetupIPs(ips, alias)
        /\ StartServers(ips, [i \in IPs |-> NoOne]) /\ leaked' = alias' \ IPsOf(devices')
        /\ disputed' = Repeated(ips) \cup (IPsOf(devices') \ alias')
    BY <1>4 DEF Boot
  <2>6. /\ up' = TRUE /\ stale' = FALSE /\ restarts' = restarts + 1
        /\ UNCHANGED <<mu, closes, file, requests, ops, outdated>>
    BY <1>4 DEF Boot
  <2> HIDE DEF ips
  <2>7. [i \in IPs |-> NoOne] \in [IPs -> Handles \cup {NoOne}]  OBVIOUS
  <2>8. /\ used' \in 0 .. MaxHandles /\ home' \in [Handles -> IPs \cup {NoOne}]
        /\ server' \in [Handles -> [Services -> {"none", "spawned", "listening", "failed", "exited"}]]
        /\ handles' \in [IPs -> Handles \cup {NoOne}]
    BY <1>a, <2>4, <2>5, <2>7, StartServersProperties
  <2>9. alias' \in SUBSET IPs
    <3>1. \A k \in 1 .. Len(ips) : ips[k] \in IPs  BY <2>4, ElementOfSeq
    <3> QED BY <1>a, <2>5, <3>1 DEF SetupIPs, TypeOK
  <2>10. leaked' \in SUBSET IPs  BY <2>5, <2>9
  <2>11. up' \in BOOLEAN /\ stale' \in BOOLEAN  BY <2>6, Zenon
  <2>13. restarts' \in Nat
    <3>1. restarts \in Nat /\ restarts' = restarts + 1  BY <1>a, <2>6, Zenon DEF TypeOK
    <3> QED BY <3>1
  <2>12. devices' \in Seq(Device) /\ auth' \in Auths  BY <2>1, <2>5
  <2>14. disputed' \in SUBSET IPs
    <3>1. Repeated(ips) \in SUBSET IPs  BY <2>4, ElementOfSeq DEF Repeated
    <3>2. \A k \in 1 .. Len(devices') : devices'[k].ip \in IPs
      <4>1. \A k \in 1 .. Len(devices') : devices'[k] \in Device  BY <2>12, ElementOfSeq
      <4> QED BY <4>1 DEF Device
    <3>3. IPsOf(devices') \in SUBSET IPs  BY <3>2 DEF IPsOf
    <3> QED BY <2>5, <3>1, <3>3
  <2> QED BY <1>a, <2>6, <2>8, <2>9, <2>10, <2>11, <2>12, <2>13, <2>14 DEF TypeOK, requests
<1>5. CASE UNCHANGED vars
  BY <1>a, <1>5 DEF vars, memory, servers, requests, ghosts, TypeOK
<1> QED BY <1>1, <1>3, <1>4, <1>5 DEF ServerStep

----------------------------------------------------------------------------
(* Who may close what *)

(* Steps that touch neither the map nor a stop channel, of a request that is
   not in applyConfig. *)
LEMMA Bystander ==
    ASSUME Inv, up, NEW r \in Requests, NEW l, pc[r] \notin Applying, l \notin Applying \cup {"remove_stop"},
           pc' = [pc EXCEPT ![r] = l],
           \A q \in Requests \ {r} : cur'[q] = cur[q],
           UNCHANGED <<up, mu, handles, used, home, closes, todo>>,
           IPsOf(devices') = IPsOf(devices)
    PROVE  Core'
<1>1. \A q \in Requests : pc'[q] = IF q = r THEN l ELSE pc[q]  BY DEF Inv, TypeOK
<1>2. LockInv'
  <2>1. \A q \in Requests : pc'[q] \in Applying <=> mu' = q  BY <1>1 DEF Inv, Core, LockInv
  <2>2. \A q \in Requests : pc'[q] \in Applying => pc'[q] = pc[q]  BY <1>1
  <2> QED BY <1>1, <2>1, <2>2 DEF Inv, Core, LockInv, Applying
<1>3. MapInv' /\ MapOpen' /\ CloseInv'
  BY DEF Inv, Core, MapInv, MapOpen, CloseInv
<1>4. RemoveInv'
  BY <1>1 DEF Inv, Core, RemoveInv
<1> QED BY <1>2, <1>3, <1>4 DEF Core

(* Steps that change nothing the invariant speaks of. *)
LEMMA CoreUnchanged ==
    ASSUME Inv, UNCHANGED <<up, mu, devices, handles, used, home, closes, pc, todo, cur>>
    PROVE  Core'
BY DEF Inv, Core, LockInv, MapInv, MapOpen, RemoveInv, CloseInv, IPsOf

(* AddDevice. *)
LEMMA AddCore ==
    ASSUME Inv, NEW r \in Requests, AddStep(r)
    PROVE  Core'
<1>a. TypeOK  BY DEF Inv
<1>1. ASSUME NEW i \in IPs, AddCheck(r, i) PROVE Core'
  <2>1. PICK l \in {"idle", "add_ip"} : pc' = [pc EXCEPT ![r] = l]
    BY <1>1 DEF AddCheck, Goto
  <2>2. up /\ pc[r] = "idle"  BY <1>1 DEF AddCheck, Begin
  <2>3. UNCHANGED <<up, mu, devices, handles, used, home, closes, todo, cur>>
    BY <1>1 DEF AddCheck, memory, servers
  <2> QED BY <2>1, <2>2, <2>3, Bystander DEF Applying, IPsOf
<1>2. CASE AddAlias(r)
  <2>1. PICK l \in {"idle", "add_commit"} : pc' = [pc EXCEPT ![r] = l]
    BY <1>2 DEF AddAlias, Goto
  <2>2. up /\ pc[r] = "add_ip"  BY <1>2 DEF AddAlias
  <2>3. UNCHANGED <<up, mu, devices, handles, used, home, closes, todo, cur>>
    BY <1>2 DEF AddAlias, memory, servers
  <2> QED BY <2>1, <2>2, <2>3, Bystander DEF Applying, IPsOf
<1>3. CASE AddCommit(r)
  <2> DEFINE i0 == op[r].ip
  <2>1. i0 \in IPs /\ pc[r] = "add_commit" /\ up /\ mu = NoOne  BY <1>3 DEF AddCommit, Free, Inv, OpInv
  <2> HIDE DEF i0
  <2>2. <<i0>> \in Seq(IPs) /\ handles \in [IPs -> Handles \cup {NoOne}] /\ Len(<<i0>>) = 1 /\ <<i0>>[1] = i0
    BY <1>a, <2>1 DEF TypeOK
  <2>3. StartServers(<<i0>>, handles)  BY <1>3 DEF AddCommit, i0
  <2>4. /\ used' \in 0 .. MaxHandles /\ used <= used' /\ used \in Nat
        /\ \A h \in Handles : h <= used => home'[h] = home[h]
        /\ \A i \in IPs :
              \/ handles'[i] = handles[i]
              \/ handles'[i] \in used + 1 .. used' /\ home'[handles'[i]] = i /\ i = i0
    <3>1. /\ used' \in 0 .. MaxHandles /\ used <= used'
          /\ \A h \in Handles : h <= used => home'[h] = home[h]
          /\ \A i \in IPs :
                \/ handles'[i] = handles[i]
                \/ /\ handles'[i] \in used + 1 .. used' /\ home'[handles'[i]] = i
                   /\ \E k \in 1 .. Len(<<i0>>) : <<i0>>[k] = i
      BY <1>a, <2>2, <2>3, StartServersProperties
    <3>2. \A k \in 1 .. Len(<<i0>>) : <<i0>>[k] = i0  BY <2>2
    <3>3. used \in Nat  BY <1>a DEF TypeOK
    <3> QED BY <3>1, <3>2, <3>3
  <2>5. handles' \in [IPs -> Handles \cup {NoOne}]  BY <1>a, <2>2, <2>3, StartServersProperties
  <2>6. /\ pc' = [pc EXCEPT ![r] = "idle"]
        /\ UNCHANGED <<up, mu, closes, cur, todo>>
        /\ devices' = Append(devices, [ip |-> i0, rev |-> 0])
    BY <1>3 DEF AddCommit, Goto, i0
  <2>7. \A q \in Requests : pc'[q] = IF q = r THEN "idle" ELSE pc[q]  BY <1>a, <2>6 DEF TypeOK
  <2>8. \A q \in Requests : pc'[q] \notin Applying
    BY <2>1, <2>7, ConstantsAssumption DEF Inv, Core, LockInv, Applying
  <2>9. LockInv'
    BY <2>1, <2>6, <2>8, ConstantsAssumption DEF LockInv, Applying
  <2>10. \A i \in IPsOf(devices) \cup {i0} : i \in IPsOf(devices')
    <3>1. [ip |-> i0, rev |-> 0] \in Device  BY <2>1 DEF Device
    <3>2. /\ Len(devices') = Len(devices) + 1 /\ Len(devices) \in Nat
          /\ \A k \in 1 .. Len(devices) : devices'[k] = devices[k]
          /\ devices'[Len(devices) + 1] = [ip |-> i0, rev |-> 0]
      BY <1>a, <2>6, <3>1, AppendProperties, LenProperties DEF TypeOK
    <3>3. \A k \in 1 .. Len(devices) : k \in 1 .. Len(devices')  BY <3>2
    <3>4. Len(devices) + 1 \in 1 .. Len(devices') /\ devices'[Len(devices) + 1].ip = i0  BY <3>2
    <3> QED BY <3>2, <3>3, <3>4 DEF IPsOf
  <2>11. MapInv'
    <3> SUFFICES ASSUME NEW i \in IPs, handles'[i] # NoOne
                 PROVE  handles'[i] <= used' /\ home'[handles'[i]] = i /\ i \in IPsOf(devices')
      BY DEF MapInv
    <3>1. CASE handles'[i] = handles[i]
      <4>1. handles[i] \in Handles /\ handles[i] <= used /\ home[handles[i]] = i /\ i \in IPsOf(devices)
        BY <1>a, <3>1 DEF Inv, Core, MapInv, TypeOK
      <4> QED BY <2>4, <2>10, <3>1, <4>1 DEF Handles
    <3>2. CASE handles'[i] \in used + 1 .. used' /\ home'[handles'[i]] = i /\ i = i0
      BY <2>4, <2>10, <3>2
    <3> QED BY <2>4, <3>1, <3>2
  <2>12. \A i \in IPs : handles'[i] # NoOne => closes'[handles'[i]] = 0
    <3> SUFFICES ASSUME NEW i \in IPs, handles'[i] # NoOne PROVE closes[handles'[i]] = 0  BY <2>6
    <3>1. CASE handles'[i] = handles[i]
      BY <2>1, <3>1 DEF Inv, Core, MapOpen
    <3>2. CASE handles'[i] \in used + 1 .. used'
      <4>1. handles'[i] \in Handles /\ handles'[i] > used  BY <2>4, <2>5, <3>2
      <4> QED BY <4>1 DEF Inv, Core, CloseInv
    <3> QED BY <2>4, <3>1, <3>2
  <2>13. RemoveInv'
    <3> SUFFICES ASSUME NEW q \in Requests, pc'[q] = "remove_stop"
                 PROVE  /\ cur[q] \in Handles /\ cur[q] <= used' /\ closes[cur[q]] = 0
                        /\ \A i \in IPs : handles'[i] # cur[q]
                        /\ \A p \in Requests \ {q} : pc'[p] = "remove_stop" => cur[p] # cur[q]
      BY <2>6 DEF RemoveInv
    <3>1. pc[q] = "remove_stop" /\ \A p \in Requests : pc'[p] = "remove_stop" => pc[p] = "remove_stop"  BY <2>7
    <3>2. /\ cur[q] \in Handles /\ cur[q] <= used /\ closes[cur[q]] = 0
          /\ \A i \in IPs : handles[i] # cur[q]
          /\ \A p \in Requests \ {q} : pc[p] = "remove_stop" => cur[p] # cur[q]
      BY <3>1 DEF Inv, Core, RemoveInv
    <3>3. cur[q] <= used' /\ cur[q] \notin used + 1 .. used'  BY <2>4, <3>2 DEF Handles
    <3> QED BY <2>4, <3>1, <3>2, <3>3
  <2>14. CloseInv'
    BY <2>4, <2>6 DEF Inv, Core, CloseInv, Handles
  <2> QED BY <2>9, <2>11, <2>12, <2>13, <2>14 DEF Core, MapOpen
<1> QED BY <1>1, <1>2, <1>3 DEF AddStep

(* RemoveDevice: the handle it takes out of the map is open and becomes its
   alone, and it closes it once. *)
LEMMA RemoveCore ==
    ASSUME Inv, NEW r \in Requests, RemoveStep(r)
    PROVE  Core'
<1>a. TypeOK  BY DEF Inv
<1>1. ASSUME NEW i \in IPs, RemoveLocked(r, i) PROVE Core'
  <2>1. mu = NoOne /\ up /\ pc[r] = "idle" /\ i \in IPsOf(devices)
    BY <1>1 DEF RemoveLocked, Free, Begin
  <2>2. PICK l \in {"remove_ip", "remove_stop"} :
            pc' = [pc EXCEPT ![r] = l] /\ (l = "remove_stop" => handles[i] # NoOne)
    BY <1>1 DEF RemoveLocked, Goto
  <2>3. /\ UNCHANGED <<up, mu, used, home, closes, todo>>
        /\ devices' = Cut(devices, FirstAt(i))
    BY <1>1 DEF RemoveLocked, servers
  <2>4. \A q \in Requests : pc'[q] = IF q = r THEN l ELSE pc[q]  BY <1>a, <2>2 DEF TypeOK
  <2>5. \A q \in Requests : cur'[q] = IF q = r THEN handles[i] ELSE cur[q]
    BY <1>1, <1>a DEF RemoveLocked, TypeOK
  <2>6. \A j \in IPs : handles'[j] = IF j = i THEN NoOne ELSE handles[j]
    BY <1>1, <1>a DEF RemoveLocked, TypeOK
  <2>7. \A j \in IPsOf(devices) : j = i \/ j \in IPsOf(devices')  BY <1>a, <2>1, <2>3, CutDevices
  <2>8. LockInv'
    <3>1. \A q \in Requests : pc'[q] \notin Applying
      BY <2>1, <2>4, ConstantsAssumption DEF Inv, Core, LockInv, Applying
    <3> QED BY <2>1, <2>3, <3>1, ConstantsAssumption DEF LockInv, Applying
  <2>9. MapInv'
    BY <2>3, <2>6, <2>7 DEF Inv, Core, MapInv
  <2>10. MapOpen'
    BY <2>1, <2>3, <2>6 DEF Inv, Core, MapOpen
  <2>11. RemoveInv'
    <3> SUFFICES ASSUME NEW q \in Requests, pc'[q] = "remove_stop"
                 PROVE  /\ cur'[q] \in Handles /\ cur'[q] <= used /\ closes[cur'[q]] = 0
                        /\ \A j \in IPs : handles'[j] # cur'[q]
                        /\ \A p \in Requests \ {q} : pc'[p] = "remove_stop" => cur'[p] # cur'[q]
      BY <2>3 DEF RemoveInv
    <3>1. \A p \in Requests \ {r} : pc'[p] = "remove_stop" =>
              /\ cur[p] \in Handles /\ cur[p] <= used /\ closes[cur[p]] = 0
              /\ \A j \in IPs : handles[j] # cur[p]
              /\ \A o \in Requests \ {p} : pc[o] = "remove_stop" => cur[o] # cur[p]
      BY <2>4 DEF Inv, Core, RemoveInv
    <3>2. CASE q = r
      <4>1. handles[i] # NoOne  BY <2>2, <2>4, <3>2
      <4>2. /\ handles[i] \in Handles /\ handles[i] <= used /\ closes[handles[i]] = 0
            /\ home[handles[i]] = i
        BY <1>a, <2>1, <4>1 DEF Inv, Core, MapInv, MapOpen, TypeOK
      <4>3. \A j \in IPs : handles'[j] # handles[i]
        BY <1>a, <2>6, <4>1, <4>2 DEF Inv, Core, MapInv
      <4>4. \A p \in Requests \ {r} : pc'[p] = "remove_stop" => cur'[p] # handles[i]
        BY <2>5, <3>1
      <4> QED BY <2>5, <3>2, <4>2, <4>3, <4>4
    <3>3. CASE q # r
      <4>1. /\ cur[q] \in Handles /\ cur[q] <= used /\ closes[cur[q]] = 0
            /\ \A j \in IPs : handles[j] # cur[q]
            /\ \A o \in Requests \ {q} : pc[o] = "remove_stop" => cur[o] # cur[q]
        BY <3>1, <3>3
      <4>2. cur'[q] = cur[q]  BY <2>5, <3>3
      <4>3. \A j \in IPs : handles'[j] # cur[q]  BY <2>6, <4>1, ConstantsAssumption
      <4>4. ASSUME NEW p \in Requests \ {q}, pc'[p] = "remove_stop" PROVE cur'[p] # cur[q]
        BY <2>4, <2>5, <4>1, <4>4
      <4> QED BY <4>1, <4>2, <4>3, <4>4
    <3> QED BY <3>2, <3>3
  <2>12. CloseInv'  BY <2>3 DEF Inv, Core, CloseInv
  <2> QED BY <2>8, <2>9, <2>10, <2>11, <2>12 DEF Core
<1>2. CASE RemoveStop(r)
  <2> DEFINE h0 == cur[r]
  <2>1. /\ up /\ pc[r] = "remove_stop" /\ pc' = [pc EXCEPT ![r] = "remove_wait"]
        /\ closes' = [closes EXCEPT ![h0] = @ + 1]
        /\ UNCHANGED <<up, mu, devices, handles, used, home, cur, todo>>
    BY <1>2 DEF RemoveStop, Goto, memory
  <2>2. /\ h0 \in Handles /\ h0 <= used /\ closes[h0] = 0
        /\ \A i \in IPs : handles[i] # h0
        /\ \A q \in Requests \ {r} : pc[q] = "remove_stop" => cur[q] # h0
    BY <2>1 DEF Inv, Core, RemoveInv
  <2>3. \A h \in Handles : closes'[h] = IF h = h0 THEN 1 ELSE closes[h]
    BY <1>a, <2>1, <2>2 DEF TypeOK
  <2> HIDE DEF h0
  <2>4. \A q \in Requests : pc'[q] = IF q = r THEN "remove_wait" ELSE pc[q]  BY <1>a, <2>1 DEF TypeOK
  <2>5. LockInv'
    <3>1. \A q \in Requests : pc'[q] \in Applying <=> mu' = q
      BY <2>1, <2>4 DEF Inv, Core, LockInv, Applying
    <3> QED BY <2>1, <2>4, <3>1 DEF Inv, Core, LockInv
  <2>6. MapInv'
    BY <2>1 DEF Inv, Core, MapInv, IPsOf
  <2>7. MapOpen'
    <3>1. \A i \in IPs : handles[i] # NoOne => handles[i] \in Handles \ {h0}  BY <1>a, <2>2 DEF TypeOK
    <3> QED BY <2>1, <2>3, <3>1 DEF Inv, Core, MapOpen
  <2>8. RemoveInv'
    BY <2>1, <2>2, <2>3, <2>4 DEF Inv, Core, RemoveInv
  <2>9. CloseInv'
    BY <1>a, <2>1, <2>2, <2>3 DEF Inv, Core, CloseInv, Handles, TypeOK
  <2> QED BY <2>5, <2>6, <2>7, <2>8, <2>9 DEF Core
<1>3. CASE RemoveWait(r)
  <2>1. pc' = [pc EXCEPT ![r] = "remove_ip"] /\ up /\ pc[r] = "remove_wait"
    BY <1>3 DEF RemoveWait, Goto
  <2>2. UNCHANGED <<up, mu, devices, handles, used, home, closes, todo>>
    BY <1>3 DEF RemoveWait, memory, servers
  <2>3. \A q \in Requests \ {r} : cur'[q] = cur[q]  BY <1>3, <1>a DEF RemoveWait, TypeOK
  <2> QED BY <2>1, <2>2, <2>3, Bystander DEF Applying, IPsOf
<1>4. CASE RemoveAlias(r)
  <2>1. pc' = [pc EXCEPT ![r] = "idle"] /\ up /\ pc[r] = "remove_ip"
    BY <1>4 DEF RemoveAlias, Goto
  <2>2. UNCHANGED <<up, mu, devices, handles, used, home, closes, todo, cur>>
    BY <1>4 DEF RemoveAlias, memory, servers
  <2> QED BY <2>1, <2>2, Bystander DEF Applying, IPsOf
<1> QED BY <1>1, <1>2, <1>3, <1>4 DEF RemoveStep

(* An edit touches none of it. *)
LEMMA EditCore ==
    ASSUME Inv, NEW r \in Requests, NEW i \in IPs, Edit(r, i) \/ MoveRefused(r, i)
    PROVE  Core'
<1>1. IPsOf(devices') = IPsOf(devices)  BY EditType
<1>2. UNCHANGED <<up, mu, handles, used, home, closes, pc, todo, cur>>
  BY DEF Edit, MoveRefused, Change, servers
<1> QED BY <1>1, <1>2 DEF Inv, Core, LockInv, MapInv, MapOpen, RemoveInv, CloseInv

(* ImportConfig, ClearAll and FactoryReset: under the lock every handle of
   the map is closed once, then the map is emptied, and refilled with new
   handles at the end. *)
LEMMA ApplyCore ==
    ASSUME Inv, NEW r \in Requests,
           ApplyLock(r) \/ ApplyStop(r) \/ ApplyWait(r) \/ ApplyClear(r) \/ ApplyCheckIP(r)
               \/ ApplyAddIP(r) \/ ApplyStart(r)
    PROVE  Core'
<1>a. TypeOK  BY DEF Inv
<1>b. ASSUME mu = NoOne \/ mu = r PROVE \A q \in Requests \ {r} : pc[q] \notin Applying
  BY <1>b, ConstantsAssumption DEF Inv, Core, LockInv
<1>1. CASE ApplyLock(r)
  <2>1. /\ mu = NoOne /\ up /\ pc[r] = "apply_lock" /\ mu' = r
        /\ pc' = [pc EXCEPT ![r] = "apply_stop"]
        /\ UNCHANGED <<up, devices, handles, used, home, closes, cur>>
    BY <1>1 DEF ApplyLock, Free, Goto, memory, servers
  <2>2. \A q \in Requests : pc'[q] = IF q = r THEN "apply_stop" ELSE pc[q]  BY <1>a, <2>1 DEF TypeOK
  <2>3. todo'[r] = {i \in IPs : handles[i] # NoOne}  BY <1>1, <1>a DEF ApplyLock, TypeOK
  <2>4. LockInv'
    <3>1. \A q \in Requests \ {r} : pc'[q] = pc[q] /\ pc'[q] \notin Applying  BY <1>b, <2>1, <2>2
    <3> QED BY <2>1, <2>2, <2>3, <3>1 DEF LockInv, Applying
  <2>5. MapInv' /\ CloseInv'  BY <2>1 DEF Inv, Core, MapInv, CloseInv, IPsOf
  <2>6. MapOpen'  BY <2>1 DEF Inv, Core, MapOpen
  <2>7. RemoveInv'  BY <2>1, <2>2 DEF Inv, Core, RemoveInv
  <2> QED BY <2>4, <2>5, <2>6, <2>7 DEF Core
<1>2. CASE ApplyStop(r)
  <2>1. /\ up /\ pc[r] = "apply_stop" /\ pc' = [pc EXCEPT ![r] = "apply_wait"]
        /\ UNCHANGED <<up, mu, devices, handles, used, home>>
    BY <1>2 DEF ApplyStop, Goto, memory
  <2>2. mu = r  BY <2>1 DEF Inv, Core, LockInv, Applying
  <2>3. PICK i \in todo[r] :
            /\ closes' = [closes EXCEPT ![handles[i]] = @ + 1]
            /\ cur' = [cur EXCEPT ![r] = handles[i]]
            /\ todo' = [todo EXCEPT ![r] = @ \ {i}]
    BY <1>2 DEF ApplyStop
  <2> DEFINE h0 == handles[i]
  <2>4. i \in IPs /\ h0 # NoOne  BY <1>a, <2>1 DEF Inv, Core, LockInv, TypeOK
  <2>5. h0 \in Handles /\ h0 <= used /\ home[h0] = i /\ closes[h0] = 0
    BY <1>a, <2>2, <2>4 DEF Inv, Core, MapInv, MapOpen, TypeOK
  <2>6. \A j \in IPs : j # i /\ handles[j] # NoOne => handles[j] # h0
    BY <2>5 DEF Inv, Core, MapInv
  <2>7. \A h \in Handles : closes'[h] = IF h = h0 THEN 1 ELSE closes[h]
    BY <1>a, <2>3, <2>5 DEF TypeOK
  <2>8. \A q \in Requests : cur'[q] = IF q = r THEN h0 ELSE cur[q]  BY <1>a, <2>3 DEF TypeOK
  <2>9. todo'[r] = todo[r] \ {i}  BY <1>a, <2>3 DEF TypeOK
  <2>10. \A q \in Requests : pc'[q] = IF q = r THEN "apply_wait" ELSE pc[q]  BY <1>a, <2>1 DEF TypeOK
  <2> HIDE DEF h0
  <2>11. LockInv'
    <3>1. \A q \in Requests \ {r} : pc'[q] = pc[q] /\ pc'[q] \notin Applying  BY <1>b, <2>2, <2>10
    <3>2. \A j \in todo[r] : handles[j] # NoOne  BY <2>1 DEF Inv, Core, LockInv
    <3> QED BY <2>1, <2>2, <2>9, <2>10, <3>1, <3>2 DEF LockInv, Applying
  <2>12. MapInv'  BY <2>1 DEF Inv, Core, MapInv, IPsOf
  <2>13. MapOpen'
    <3> SUFFICES ASSUME NEW j \in IPs, handles[j] # NoOne, j \in todo'[r]
                 PROVE  closes'[handles[j]] = 0
      BY <2>1, <2>2, ConstantsAssumption DEF MapOpen
    <3>1. j \in todo[r] /\ j # i  BY <2>9
    <3>2. handles[j] \in Handles /\ handles[j] # h0  BY <1>a, <2>6, <3>1 DEF TypeOK
    <3> QED BY <2>2, <2>7, <3>1, <3>2 DEF Inv, Core, MapOpen
  <2>14. RemoveInv'
    <3>1. \A q \in Requests : pc'[q] = "remove_stop" =>
              /\ q # r /\ pc[q] = "remove_stop" /\ cur'[q] = cur[q]
              /\ cur[q] \in Handles /\ cur[q] <= used /\ closes[cur[q]] = 0
              /\ \A j \in IPs : handles[j] # cur[q]
              /\ \A p \in Requests \ {q} : pc[p] = "remove_stop" => cur[p] # cur[q]
      BY <2>8, <2>10 DEF Inv, Core, RemoveInv
    <3>2. \A q \in Requests : pc'[q] = "remove_stop" => cur[q] # h0  BY <2>4, <3>1 DEF h0
    <3>3. \A q \in Requests : pc'[q] = "remove_stop" => closes'[cur[q]] = 0  BY <2>7, <3>1, <3>2
    <3> QED BY <2>1, <3>1, <3>3 DEF RemoveInv
  <2>15. CloseInv'
    BY <1>a, <2>1, <2>5, <2>7 DEF Inv, Core, CloseInv, Handles, TypeOK
  <2> QED BY <2>11, <2>12, <2>13, <2>14, <2>15 DEF Core
<1>3. CASE ApplyWait(r)
  <2>1. /\ up /\ pc[r] = "apply_wait" /\ pc' = [pc EXCEPT ![r] = "apply_stop"]
        /\ UNCHANGED <<up, mu, devices, handles, used, home, closes, todo>>
    BY <1>3 DEF ApplyWait, Goto, memory, servers
  <2>2. mu = r  BY <2>1 DEF Inv, Core, LockInv, Applying
  <2>3. \A q \in Requests : pc'[q] = IF q = r THEN "apply_stop" ELSE pc[q]  BY <1>a, <2>1 DEF TypeOK
  <2>4. \A q \in Requests \ {r} : cur'[q] = cur[q]  BY <1>3, <1>a DEF ApplyWait, TypeOK
  <2>5. LockInv'
    <3>1. \A q \in Requests \ {r} : pc'[q] = pc[q] /\ pc'[q] \notin Applying  BY <1>b, <2>2, <2>3
    <3>2. \A j \in todo[r] : handles[j] # NoOne  BY <2>1 DEF Inv, Core, LockInv
    <3> QED BY <2>1, <2>2, <2>3, <3>1, <3>2 DEF LockInv, Applying
  <2>6. MapInv' /\ CloseInv' /\ MapOpen'  BY <2>1 DEF Inv, Core, MapInv, MapOpen, CloseInv, IPsOf
  <2>7. RemoveInv'  BY <2>1, <2>3, <2>4 DEF Inv, Core, RemoveInv
  <2> QED BY <2>5, <2>6, <2>7 DEF Core
<1>4. CASE ApplyClear(r)
  <2>1. /\ up /\ pc[r] = "apply_stop" /\ UNCHANGED <<up, used, home, closes, cur, todo>>
        /\ handles' = [i \in IPs |-> NoOne]
    BY <1>4 DEF ApplyClear, servers
  <2>2. mu = r  BY <2>1 DEF Inv, Core, LockInv, Applying
  <2>3. PICK l \in {"persist", "apply_ips"} :
            /\ pc' = [pc EXCEPT ![r] = l]
            /\ mu' = IF l = "persist" THEN NoOne ELSE r
    BY <1>4, <2>2 DEF ApplyClear, Goto
  <2>4. \A q \in Requests : pc'[q] = IF q = r THEN l ELSE pc[q]  BY <1>a, <2>3 DEF TypeOK
  <2>5. LockInv'
    <3>1. \A q \in Requests \ {r} : pc'[q] = pc[q] /\ pc'[q] \notin Applying  BY <1>b, <2>2, <2>4
    <3> QED BY <2>1, <2>3, <2>4, <3>1, ConstantsAssumption DEF LockInv, Applying
  <2>6. MapInv' /\ MapOpen' /\ CloseInv'  BY <2>1 DEF Inv, Core, MapInv, MapOpen, CloseInv
  <2>7. RemoveInv'
    <3>1. \A q \in Requests : pc'[q] = "remove_stop" => cur[q] # NoOne
      BY <2>4, ConstantsAssumption DEF Inv, Core, RemoveInv
    <3> QED BY <2>1, <2>4, <3>1 DEF Inv, Core, RemoveInv
  <2> QED BY <2>5, <2>6, <2>7 DEF Core
<1>5. CASE ApplyCheckIP(r) \/ ApplyAddIP(r)
  <2>1. /\ up /\ pc[r] \in {"apply_ips", "apply_add"}
        /\ UNCHANGED <<up, devices, handles, used, home, closes, cur, todo>>
    BY <1>5 DEF ApplyCheckIP, ApplyAddIP, memory, servers
  <2>2. mu = r /\ \A i \in IPs : handles[i] = NoOne  BY <2>1 DEF Inv, Core, LockInv, Applying
  <2>3. PICK l \in {"idle", "apply_ips", "apply_add"} :
            /\ pc' = [pc EXCEPT ![r] = l]
            /\ mu' = IF l = "idle" THEN NoOne ELSE r
    <3>1. CASE ApplyCheckIP(r)
      <4>1. mu' = r /\ (pc' = pc \/ pc' = [pc EXCEPT ![r] = "apply_add"])
        BY <2>2, <3>1 DEF ApplyCheckIP, Goto
      <4>2. pc[r] = "apply_ips"  BY <3>1 DEF ApplyCheckIP
      <4>3. pc = [pc EXCEPT ![r] = "apply_ips"]  BY <1>a, <4>2 DEF TypeOK
      <4> QED BY <4>1, <4>3
    <3>2. CASE ApplyAddIP(r)
      <4>1. \/ pc' = [pc EXCEPT ![r] = "idle"] /\ mu' = NoOne
            \/ pc' = [pc EXCEPT ![r] = "apply_ips"] /\ mu' = r
        BY <2>2, <3>2, Zenon DEF ApplyAddIP, Goto
      <4> QED BY <4>1
    <3> QED BY <1>5, <3>1, <3>2
  <2>4. \A q \in Requests : pc'[q] = IF q = r THEN l ELSE pc[q]  BY <1>a, <2>3 DEF TypeOK
  <2>5. LockInv'
    <3>1. \A q \in Requests \ {r} : pc'[q] = pc[q] /\ pc'[q] \notin Applying  BY <1>b, <2>2, <2>4
    <3> QED BY <2>1, <2>2, <2>3, <2>4, <3>1, ConstantsAssumption DEF LockInv, Applying
  <2>6. MapInv' /\ MapOpen' /\ CloseInv'  BY <2>1, <2>2 DEF Inv, Core, MapInv, MapOpen, CloseInv
  <2>7. RemoveInv'  BY <2>1, <2>4 DEF Inv, Core, RemoveInv
  <2> QED BY <2>5, <2>6, <2>7 DEF Core
<1>6. CASE ApplyStart(r)
  <2> DEFINE c == op[r].cfg
  <2>1. /\ up /\ pc[r] = "apply_ips" /\ mu' = NoOne /\ devices' = Fresh(c)
        /\ pc' = [pc EXCEPT ![r] = "persist"]
        /\ UNCHANGED <<up, closes, cur, todo>> /\ StartServers(c, handles)
    BY <1>6 DEF ApplyStart, Goto
  <2>2. mu = r /\ \A i \in IPs : handles[i] = NoOne  BY <2>1 DEF Inv, Core, LockInv, Applying
  <2>3. c \in Seq(IPs) /\ handles \in [IPs -> Handles \cup {NoOne}]  BY <1>a DEF TypeOK, Operation
  <2> HIDE DEF c
  <2>4. /\ used' \in 0 .. MaxHandles /\ used <= used'
        /\ handles' \in [IPs -> Handles \cup {NoOne}]
        /\ \A h \in Handles : h <= used => home'[h] = home[h]
        /\ \A i \in IPs :
              \/ handles'[i] = handles[i]
              \/ /\ handles'[i] \in used + 1 .. used' /\ home'[handles'[i]] = i
                 /\ \E k \in 1 .. Len(c) : c[k] = i
    BY <1>a, <2>1, <2>3, StartServersProperties
  <2>5. \A i \in IPs : handles'[i] # NoOne =>
            /\ handles'[i] \in used + 1 .. used' /\ home'[handles'[i]] = i
            /\ \E k \in 1 .. Len(c) : c[k] = i
    BY <2>2, <2>4
  <2>6. \A k \in 1 .. Len(c) : c[k] \in IPsOf(devices')  BY <2>1, <2>3, FreshProperties
  <2>7. \A q \in Requests : pc'[q] = IF q = r THEN "persist" ELSE pc[q]  BY <1>a, <2>1 DEF TypeOK
  <2>8. used \in Nat /\ used' \in Nat  BY <1>a, <2>4 DEF TypeOK
  <2>9. LockInv'
    <3>1. \A q \in Requests \ {r} : pc'[q] = pc[q] /\ pc'[q] \notin Applying  BY <1>b, <2>2, <2>7
    <3> QED BY <2>1, <2>7, <3>1, ConstantsAssumption DEF LockInv, Applying
  <2>10. MapInv'  BY <2>5, <2>6, <2>8 DEF MapInv
  <2>11. \A h \in Handles : h > used => closes[h] = 0  BY DEF Inv, Core, CloseInv
  <2>12. MapOpen'
    <3> SUFFICES ASSUME NEW i \in IPs, handles'[i] # NoOne PROVE closes[handles'[i]] = 0
      BY <2>1 DEF MapOpen
    <3>1. handles'[i] \in Handles /\ handles'[i] > used  BY <2>4, <2>5, <2>8
    <3> QED BY <2>11, <3>1
  <2>13. RemoveInv'
    <3> SUFFICES ASSUME NEW q \in Requests, pc'[q] = "remove_stop"
                 PROVE  /\ cur[q] \in Handles /\ cur[q] <= used' /\ closes[cur[q]] = 0
                        /\ \A i \in IPs : handles'[i] # cur[q]
                        /\ \A p \in Requests \ {q} : pc'[p] = "remove_stop" => cur[p] # cur[q]
      BY <2>1 DEF RemoveInv
    <3>1. /\ cur[q] \in Handles /\ cur[q] <= used /\ closes[cur[q]] = 0
          /\ \A p \in Requests \ {q} : pc[p] = "remove_stop" => cur[p] # cur[q]
      BY <2>7 DEF Inv, Core, RemoveInv
    <3>2. cur[q] <= used' /\ cur[q] \notin used + 1 .. used' /\ cur[q] # NoOne
      BY <2>4, <2>8, <3>1, ConstantsAssumption DEF Handles
    <3> QED BY <2>5, <2>7, <3>1, <3>2
  <2>14. CloseInv'  BY <2>1, <2>4, <2>8 DEF Inv, Core, CloseInv, Handles
  <2> QED BY <2>9, <2>10, <2>12, <2>13, <2>14 DEF Core
<1> QED BY <1>1, <1>2, <1>3, <1>4, <1>5, <1>6

(* What these requests do before they take the lock and after they let go
   of it. *)
LEMMA ReplaceCore ==
    ASSUME Inv, NEW r \in Requests, ReplaceStep(r)
    PROVE  Core'
<1>1. ASSUME (\E ips \in Imports, a \in Auths : ImportBegin(r, ips, a)) \/ ClearBegin(r) \/ ResetBegin(r)
      PROVE  Core'
  <2>1. /\ up /\ pc[r] = "idle" /\ pc' = [pc EXCEPT ![r] = "apply_lock"]
        /\ UNCHANGED <<up, mu, devices, handles, used, home, closes, todo, cur>>
    BY <1>1 DEF ImportBegin, ClearBegin, ResetBegin, Begin, Goto, memory, servers
  <2> QED BY <2>1, Bystander DEF Applying, IPsOf
<1>2. ASSUME SaveSnapshot(r) \/ SaveWrite(r) \/ DeleteState(r) PROVE Core'
  <2>1. /\ up /\ pc[r] \in {"persist", "write"}
        /\ UNCHANGED <<up, mu, devices, handles, used, home, closes, todo, cur>>
    BY <1>2 DEF SaveSnapshot, SaveWrite, DeleteState, memory, servers
  <2>2. PICK l \in {"write", "idle"} : pc' = [pc EXCEPT ![r] = l]
    BY <1>2 DEF SaveSnapshot, SaveWrite, DeleteState, Goto
  <2> QED BY <2>1, <2>2, Bystander DEF Applying, IPsOf
<1> QED BY <1>1, <1>2, ApplyCore DEF ReplaceStep, ApplyStep

(* Servers come and go without it; a new process starts with an empty map
   and numbers its handles on. *)
LEMMA ProcessCore ==
    ASSUME Inv, (\E h \in Handles : ServerStep(h)) \/ Crash \/ Shutdown \/ Boot \/ UNCHANGED vars
    PROVE  Core'
<1>a. TypeOK  BY DEF Inv
<1>1. CASE (\E h \in Handles : ServerStep(h)) \/ UNCHANGED vars
  <2>1. UNCHANGED <<up, mu, devices, handles, used, home, closes, pc, todo, cur>>
    BY <1>1 DEF ServerStep, ServerListen, ServerExit, vars, memory, servers, requests
  <2> QED BY <2>1, CoreUnchanged
<1>2. CASE Crash \/ Shutdown
  <2>1. /\ mu' = NoOne /\ UNCHANGED <<used, closes>>
        /\ \A i \in IPs : handles'[i] = NoOne
        /\ \A q \in Requests : pc'[q] = "idle"
    BY <1>2 DEF Crash, Shutdown, Die
  <2>2. LockInv'  BY <2>1, ConstantsAssumption DEF LockInv, Applying
  <2>3. MapInv' /\ MapOpen' /\ RemoveInv'  BY <2>1 DEF MapInv, MapOpen, RemoveInv
  <2>4. CloseInv'  BY <2>1 DEF Inv, Core, CloseInv
  <2> QED BY <2>2, <2>3, <2>4 DEF Core
<1>3. CASE Boot
  <2> DEFINE ips == [k \in 1 .. Len(Loaded.devices) |-> Loaded.devices[k].ip]
             empty == [i \in IPs |-> NoOne]
  <2>1. Loaded.devices \in Seq(Device)  BY <1>a, LoadedType
  <2>2. Len(Loaded.devices) \in Nat /\ \A k \in 1 .. Len(Loaded.devices) : Loaded.devices[k] \in Device
    BY <2>1, LenProperties, ElementOfSeq
  <2>3. ips \in [1 .. Len(Loaded.devices) -> IPs]  BY <2>2 DEF Device
  <2>4. ips \in Seq(IPs) /\ Len(ips) = Len(Loaded.devices)  BY <2>2, <2>3, FunctionIsSeq
  <2>5. /\ ~up /\ devices' = Loaded.devices /\ StartServers(ips, empty)
        /\ UNCHANGED <<mu, closes, pc, cur, todo>>
    BY <1>3 DEF Boot, requests
  <2>6. \A k \in 1 .. Len(ips) : ips[k] \in IPsOf(devices')  BY <2>4, <2>5 DEF IPsOf
  <2>7. empty \in [IPs -> Handles \cup {NoOne}] /\ \A i \in IPs : empty[i] = NoOne  OBVIOUS
  <2> HIDE DEF ips, empty
  <2>8. /\ used' \in 0 .. MaxHandles /\ used <= used' /\ handles' \in [IPs -> Handles \cup {NoOne}]
        /\ \A i \in IPs :
              \/ handles'[i] = empty[i]
              \/ /\ handles'[i] \in used + 1 .. used' /\ home'[handles'[i]] = i
                 /\ \E k \in 1 .. Len(ips) : ips[k] = i
    BY <1>a, <2>4, <2>5, <2>7, StartServersProperties
  <2>9. used \in Nat /\ used' \in Nat  BY <1>a, <2>8 DEF TypeOK
  <2>10. \A i \in IPs : handles'[i] # NoOne =>
            /\ handles'[i] \in used + 1 .. used' /\ home'[handles'[i]] = i /\ i \in IPsOf(devices')
    BY <2>6, <2>7, <2>8
  <2>11. \A q \in Requests : pc[q] = "idle"  BY <2>5 DEF Inv, Core, LockInv
  <2>12. LockInv'
    <3>1. \A q \in Requests : mu # q  BY <2>11 DEF Inv, Core, LockInv, Applying
    <3> QED BY <2>5, <2>11, <3>1 DEF LockInv, Applying
  <2>13. MapInv'  BY <2>9, <2>10 DEF MapInv
  <2>14. \A h \in Handles : h > used => closes[h] = 0  BY DEF Inv, Core, CloseInv
  <2>15. MapOpen'
    <3> SUFFICES ASSUME NEW i \in IPs, handles'[i] # NoOne PROVE closes[handles'[i]] = 0
      BY <2>5 DEF MapOpen
    <3>1. handles'[i] \in Handles /\ handles'[i] > used  BY <2>8, <2>9, <2>10
    <3> QED BY <2>14, <3>1
  <2>16. RemoveInv'  BY <2>5, <2>11 DEF RemoveInv
  <2>17. CloseInv'  BY <2>5, <2>8, <2>9 DEF Inv, Core, CloseInv, Handles
  <2> QED BY <2>12, <2>13, <2>15, <2>16, <2>17 DEF Core
<1> QED BY <1>1, <1>2, <1>3

----------------------------------------------------------------------------
(* What a request knows of its own operation *)

(* Steps that leave a request outside the places the fact is about. *)
LEMMA OpKept ==
    ASSUME Inv, NEW r \in Requests,
           \A q \in Requests \ {r} : pc'[q] = pc[q] /\ op'[q] = op[q] /\ ix'[q] = ix[q],
           pc'[r] \notin {"add_ip", "add_commit", "apply_add"}
    PROVE  OpInv'
BY DEF Inv, OpInv

(* Every step of a request keeps it. *)
LEMMA RequestOp ==
    ASSUME Inv, NEW r \in Requests,
           AddStep(r) \/ RemoveStep(r) \/ ReplaceStep(r) \/ EditStep(r)
    PROVE  OpInv'
<1>a. TypeOK  BY DEF Inv
<1>1. ASSUME NEW i \in IPs, AddCheck(r, i) PROVE OpInv'
  <2>1. PICK l \in {"idle", "add_ip"} : pc' = [pc EXCEPT ![r] = l]  BY <1>1 DEF AddCheck, Goto
  <2>2. op' = [op EXCEPT ![r] = [kind |-> "add", ip |-> i, cfg |-> << >>, auth |-> auth]] /\ ix' = ix
    BY <1>1 DEF AddCheck, Begin
  <2>3. op'[r].ip = i  BY <1>a, <2>2 DEF TypeOK
  <2>4. \A q \in Requests \ {r} : pc'[q] = pc[q] /\ op'[q] = op[q] /\ ix'[q] = ix[q]
    BY <1>a, <2>1, <2>2 DEF TypeOK
  <2>5. pc'[r] \in {"idle", "add_ip"}  BY <1>a, <2>1 DEF TypeOK
  <2> QED BY <2>3, <2>4, <2>5 DEF Inv, OpInv
<1>2. CASE AddAlias(r)
  <2>1. pc[r] = "add_ip" /\ op' = op /\ ix' = ix  BY <1>2 DEF AddAlias
  <2>2. PICK l \in {"idle", "add_commit"} : pc' = [pc EXCEPT ![r] = l]  BY <1>2 DEF AddAlias, Goto
  <2>3. \A q \in Requests : pc'[q] = IF q = r THEN l ELSE pc[q]  BY <1>a, <2>2 DEF TypeOK
  <2> QED BY <2>1, <2>3 DEF Inv, OpInv
<1>3. CASE ApplyCheckIP(r)
  <2>1. pc[r] = "apply_ips" /\ op' = op /\ ix[r] <= Len(op[r].cfg)  BY <1>3 DEF ApplyCheckIP
  <2>2. CASE ix' = ix /\ pc' = [pc EXCEPT ![r] = "apply_add"]
    <3>1. \A q \in Requests : pc'[q] = IF q = r THEN "apply_add" ELSE pc[q]  BY <1>a, <2>2 DEF TypeOK
    <3> QED BY <2>1, <2>2, <3>1 DEF Inv, OpInv
  <2>3. CASE ix' = [ix EXCEPT ![r] = @ + 1] /\ pc' = pc
    <3>1. \A q \in Requests \ {r} : ix'[q] = ix[q]  BY <1>a, <2>3 DEF TypeOK
    <3> QED BY <2>1, <2>3, <3>1, OpKept
  <2> QED BY <1>3, <2>2, <2>3 DEF ApplyCheckIP, Goto
<1>4. CASE ApplyAddIP(r)
  <2>1. op' = op  BY <1>4 DEF ApplyAddIP
  <2>2. \/ pc' = [pc EXCEPT ![r] = "idle"] /\ ix' = ix
        \/ pc' = [pc EXCEPT ![r] = "apply_ips"] /\ ix' = [ix EXCEPT ![r] = @ + 1]
    BY <1>4, Zenon DEF ApplyAddIP, Goto
  <2>3. /\ \A q \in Requests \ {r} : pc'[q] = pc[q] /\ op'[q] = op[q] /\ ix'[q] = ix[q]
        /\ pc'[r] \in {"idle", "apply_ips"}
    BY <1>a, <2>1, <2>2 DEF TypeOK
  <2> QED BY <2>3, OpKept
<1>5. CASE ApplyClear(r)
  <2>1. op' = op /\ ix' = [ix EXCEPT ![r] = 1]  BY <1>5 DEF ApplyClear
  <2>2. PICK l \in {"persist", "apply_ips"} : pc' = [pc EXCEPT ![r] = l]  BY <1>5 DEF ApplyClear, Goto
  <2>3. /\ \A q \in Requests \ {r} : pc'[q] = pc[q] /\ op'[q] = op[q] /\ ix'[q] = ix[q]
        /\ pc'[r] = l
    BY <1>a, <2>1, <2>2 DEF TypeOK
  <2> QED BY <2>3, OpKept
<1>6. ASSUME AddCommit(r) \/ RemoveStop(r) \/ RemoveWait(r) \/ RemoveAlias(r) \/ ApplyLock(r) \/ ApplyStop(r)
                 \/ ApplyWait(r) \/ ApplyStart(r) \/ SaveSnapshot(r) \/ SaveWrite(r) \/ DeleteState(r)
      PROVE  OpInv'
  <2>1. op' = op /\ ix' = ix
    BY <1>6 DEF AddCommit, RemoveStop, RemoveWait, RemoveAlias, ApplyLock, ApplyStop, ApplyWait, ApplyStart,
                SaveSnapshot, SaveWrite, DeleteState
  <2>2. PICK l \in PCs \ {"add_ip", "add_commit", "apply_add"} : pc' = [pc EXCEPT ![r] = l]
    BY <1>6 DEF AddCommit, RemoveStop, RemoveWait, RemoveAlias, ApplyLock, ApplyStop, ApplyWait, ApplyStart,
                SaveSnapshot, SaveWrite, DeleteState, Goto, PCs
  <2>3. \A q \in Requests : pc'[q] = IF q = r THEN l ELSE pc[q]  BY <1>a, <2>2 DEF TypeOK
  <2> QED BY <2>1, <2>2, <2>3, OpKept
<1>7. ASSUME \/ \E i \in IPs : RemoveLocked(r, i) \/ Edit(r, i) \/ MoveRefused(r, i)
             \/ (\E ips \in Imports, a \in Auths : ImportBegin(r, ips, a)) \/ ClearBegin(r) \/ ResetBegin(r)
      PROVE  OpInv'
  <2>1. PICK o : Begin(r, o) /\ ix' = ix
    BY <1>7 DEF RemoveLocked, Edit, MoveRefused, Change, ImportBegin, ClearBegin, ResetBegin
  <2>2. pc[r] = "idle" /\ op' = [op EXCEPT ![r] = o]  BY <2>1 DEF Begin
  <2>3. \A q \in Requests \ {r} : op'[q] = op[q]  BY <1>a, <2>2 DEF TypeOK
  <2>4. \/ pc' = pc
        \/ \E l \in {"remove_ip", "remove_stop", "apply_lock"} : pc' = [pc EXCEPT ![r] = l]
    BY <1>7 DEF RemoveLocked, Edit, MoveRefused, Change, ImportBegin, ClearBegin, ResetBegin, Goto
  <2>5. /\ pc'[r] \in {"idle", "remove_ip", "remove_stop", "apply_lock"}
        /\ \A q \in Requests \ {r} : pc'[q] = pc[q]
    BY <1>a, <2>2, <2>4 DEF TypeOK
  <2> QED BY <2>1, <2>3, <2>5, OpKept
<1> QED BY <1>1, <1>2, <1>3, <1>4, <1>5, <1>6, <1>7 DEF AddStep, RemoveStep, ReplaceStep, ApplyStep, EditStep

(* So does every other step. *)
LEMMA ProcessOp ==
    ASSUME Inv, (\E h \in Handles : ServerStep(h)) \/ Crash \/ Shutdown \/ Boot \/ UNCHANGED vars
    PROVE  OpInv'
<1>1. CASE Crash \/ Shutdown
  <2>1. \A q \in Requests : pc'[q] = "idle"  BY <1>1 DEF Crash, Shutdown, Die
  <2> QED BY <2>1 DEF OpInv
<1>2. CASE (\E h \in Handles : ServerStep(h)) \/ Boot \/ UNCHANGED vars
  <2>1. UNCHANGED <<pc, op, ix>>  BY <1>2 DEF ServerStep, ServerListen, ServerExit, Boot, vars, requests
  <2> QED BY <2>1 DEF Inv, OpInv
<1> QED BY <1>1, <1>2

----------------------------------------------------------------------------
(* The theorems *)

(* The daemon starts down, with nothing in hand. *)
LEMMA InitInv == Init => Inv
<1> SUFFICES ASSUME Init PROVE Inv  OBVIOUS
<1>1. TypeOK
  <2>1. << >> \in Seq(Device) /\ << >> \in Seq(IPs) /\ SeedAuth \in Auths  BY ConstantsAssumption, EmptySeq
  <2>2. 0 \in 0 .. MaxHandles  BY ConstantsAssumption
  <2>3. [kind |-> "none", ip |-> NoOne, cfg |-> << >>, auth |-> SeedAuth] \in Operation  BY <2>1 DEF Operation
  <2>4. [devices |-> << >>, auth |-> SeedAuth] \in Config  BY <2>1 DEF Config
  <2>5. up \in BOOLEAN /\ stale \in BOOLEAN  BY Zenon DEF Init
  <2>6. pc \in [Requests -> PCs]  BY DEF Init, PCs
  <2>7. op \in [Requests -> Operation] /\ snap \in [Requests -> Config]  BY <2>3, <2>4 DEF Init
  <2> QED BY <2>1, <2>2, <2>5, <2>6, <2>7 DEF Init, TypeOK
<1>2. OpInv  BY DEF Init, OpInv
<1>3. LockInv  BY ConstantsAssumption DEF Init, LockInv, Applying
<1>4. MapInv /\ MapOpen /\ RemoveInv /\ CloseInv  BY DEF Init, MapInv, MapOpen, RemoveInv, CloseInv
<1> QED BY <1>1, <1>2, <1>3, <1>4 DEF Inv, Core

(* The invariant is inductive. *)
LEMMA StepInv == Inv /\ [Next]_vars => Inv'
<1> SUFFICES ASSUME Inv, [Next]_vars PROVE Inv'  OBVIOUS
<1>1. ASSUME NEW r \in Requests, AddStep(r) PROVE Inv'
  BY <1>1, AddType, AddCore, RequestOp DEF Inv
<1>2. ASSUME NEW r \in Requests, RemoveStep(r) PROVE Inv'
  BY <1>2, RemoveType, RemoveCore, RequestOp DEF Inv
<1>3. ASSUME NEW r \in Requests, ReplaceStep(r) PROVE Inv'
  BY <1>3, ReplaceType, ReplaceCore, RequestOp DEF Inv
<1>4. ASSUME NEW r \in Requests, EditStep(r) PROVE Inv'
  BY <1>4, EditType, EditCore, RequestOp DEF Inv, EditStep
<1>5. ASSUME (\E h \in Handles : ServerStep(h)) \/ Crash \/ Shutdown \/ Boot \/ UNCHANGED vars PROVE Inv'
  BY <1>5, ProcessType, ProcessCore, ProcessOp DEF Inv
<1> QED BY <1>1, <1>2, <1>3, <1>4, <1>5 DEF Next, Rest

(* The inductive invariant holds in every reachable state. *)
THEOREM SimulatorInvariant == Spec => []Inv
BY InitInv, StepInv, PTL DEF Spec

(* TypeOK: whatever requests arrive, the state stays within its types; in
   particular setupIPs never reads beyond the list it was given. *)
THEOREM SimulatorTypes == Spec => []TypeOK
<1>1. Inv => TypeOK  BY DEF Inv
<1> QED BY <1>1, SimulatorInvariant, PTL

(* StopAtMostOnce: no interleaving of removals, imports, clears, resets and
   restarts closes the stop channel of one handle twice, which would panic. *)
THEOREM NeverClosedTwice == Spec => []StopAtMostOnce
<1>1. Inv => StopAtMostOnce  BY DEF Inv, Core, CloseInv, StopAtMostOnce
<1> QED BY <1>1, SimulatorInvariant, PTL

(* MapPointsAtDevices: the handle map never names an address that is not in
   the device list, nor a handle that serves another address. *)
THEOREM MapMatchesDevices == Spec => []MapPointsAtDevices
<1>1. Inv => MapPointsAtDevices  BY DEF Inv, Core, MapInv, MapPointsAtDevices
<1> QED BY <1>1, SimulatorInvariant, PTL

----------------------------------------------------------------------------
(* What a restart would load *)

SeedConfig == [devices |-> Fresh(Seed), auth |-> SeedAuth]

(* What memory has and the file has not is on its way to the file, or known to
   be lost.  A request that is about to save knows what is in memory, unless it
   has been overtaken. *)
RestoreInv ==
    /\ outdated \subseteq {r \in Requests : Saving(r)}
    /\ up /\ ~stale /\ (\A r \in Requests : pc[r] \notin Unsaved) => Loaded = Snapshot
    /\ \A r \in Requests :
        /\ pc[r] \in Applying \cup {"apply_lock", "persist"} /\ op[r].kind = "reset" =>
              op[r].cfg = Seed /\ op[r].auth = SeedAuth
        /\ pc[r] \in {"apply_ips", "apply_add"} => auth = op[r].auth
        /\ r \notin outdated /\ pc[r] = "persist" /\ op[r].kind = "reset" => Snapshot = SeedConfig
        /\ r \notin outdated /\ pc[r] = "write" => snap[r] = Snapshot

(* Steps that leave configuration and file alone, of a request that is not
   about to save. *)
LEMMA RestoreQuiet ==
    ASSUME TypeOK, RestoreInv, NEW r \in Requests, NEW l,
           pc[r] \notin {"persist", "write"}, l \notin {"persist", "write"},
           pc' = [pc EXCEPT ![r] = l], \A q \in Requests \ {r} : op'[q] = op[q],
           UNCHANGED <<up, devices, auth, file, stale, outdated, snap>>,
           pc[r] \in Unsaved => l \in Unsaved,
           l \in Applying \cup {"apply_lock"} /\ op'[r].kind = "reset" =>
              op'[r].cfg = Seed /\ op'[r].auth = SeedAuth,
           l \in {"apply_ips", "apply_add"} => auth = op'[r].auth
    PROVE  RestoreInv'
<1>1. \A q \in Requests : pc'[q] = IF q = r THEN l ELSE pc[q]  BY DEF TypeOK
<1>2. Loaded' = Loaded /\ Snapshot' = Snapshot  BY DEF Loaded, Snapshot
<1>3. r \notin outdated  BY DEF RestoreInv, Saving
<1>4. outdated' \subseteq {q \in Requests : Saving(q)'}
  <2> SUFFICES ASSUME NEW q \in outdated PROVE q \in Requests /\ Saving(q)'  OBVIOUS
  <2>1. q \in Requests /\ Saving(q) /\ q # r  BY <1>3 DEF RestoreInv
  <2> QED BY <1>1, <2>1 DEF Saving
<1>5. up' /\ ~stale' /\ (\A q \in Requests : pc'[q] \notin Unsaved) => Loaded' = Snapshot'
  <2>1. ASSUME \A q \in Requests : pc'[q] \notin Unsaved PROVE \A q \in Requests : pc[q] \notin Unsaved
    BY <1>1, <2>1
  <2> QED BY <1>2, <2>1 DEF RestoreInv
<1>6. ASSUME NEW q \in Requests
      PROVE  /\ pc'[q] \in Applying \cup {"apply_lock", "persist"} /\ op'[q].kind = "reset" =>
                   op'[q].cfg = Seed /\ op'[q].auth = SeedAuth
             /\ pc'[q] \in {"apply_ips", "apply_add"} => auth' = op'[q].auth
             /\ q \notin outdated' /\ pc'[q] = "persist" /\ op'[q].kind = "reset" => Snapshot' = SeedConfig
             /\ q \notin outdated' /\ pc'[q] = "write" => snap'[q] = Snapshot'
  <2>1. CASE q = r  BY <1>1, <2>1
  <2>2. CASE q # r
    <3>1. pc'[q] = pc[q] /\ op'[q] = op[q] /\ snap'[q] = snap[q]  BY <1>1, <2>2
    <3> QED BY <1>2, <3>1 DEF RestoreInv
  <2> QED BY <2>1, <2>2
<1> QED BY <1>4, <1>5, <1>6 DEF RestoreInv, SeedConfig

(* Steps that change the configuration: whoever was about to save is overtaken. *)
LEMMA RestoreChanged ==
    ASSUME TypeOK, RestoreInv, NEW r \in Requests, NEW l, Overtake,
           pc[r] \notin {"persist", "write"}, l # "write",
           pc' = [pc EXCEPT ![r] = l], \A q \in Requests \ {r} : op'[q] = op[q],
           \A q \in Requests \ {r} : pc[q] \in {"apply_ips", "apply_add"} => auth' = op[q].auth,
           l \in Applying \cup {"apply_lock", "persist"} /\ op'[r].kind = "reset" =>
              op'[r].cfg = Seed /\ op'[r].auth = SeedAuth,
           l \in {"apply_ips", "apply_add"} => auth' = op'[r].auth,
           l = "persist" /\ op'[r].kind = "reset" => Snapshot' = SeedConfig,
           l \notin Unsaved => stale' \/ Loaded' = Snapshot'
    PROVE  RestoreInv'
<1>1. \A q \in Requests : pc'[q] = IF q = r THEN l ELSE pc[q]  BY DEF TypeOK
<1>2. outdated' = outdated \cup {q \in Requests : Saving(q)}  BY DEF Overtake
<1>3. \A q \in outdated' : q \in Requests /\ Saving(q) /\ q # r  BY <1>2 DEF RestoreInv, Saving
<1>4. outdated' \subseteq {q \in Requests : Saving(q)'}
  <2> SUFFICES ASSUME NEW q \in outdated' PROVE q \in Requests /\ Saving(q)'  OBVIOUS
  <2>1. q \in Requests /\ Saving(q) /\ q # r  BY <1>3
  <2> QED BY <1>1, <2>1 DEF Saving
<1>5. up' /\ ~stale' /\ (\A q \in Requests : pc'[q] \notin Unsaved) => Loaded' = Snapshot'
  <2>1. (\A q \in Requests : pc'[q] \notin Unsaved) => l \notin Unsaved  BY <1>1
  <2> QED BY <2>1
<1>6. ASSUME NEW q \in Requests
      PROVE  /\ pc'[q] \in Applying \cup {"apply_lock", "persist"} /\ op'[q].kind = "reset" =>
                   op'[q].cfg = Seed /\ op'[q].auth = SeedAuth
             /\ pc'[q] \in {"apply_ips", "apply_add"} => auth' = op'[q].auth
             /\ q \notin outdated' /\ pc'[q] = "persist" /\ op'[q].kind = "reset" => Snapshot' = SeedConfig
             /\ q \notin outdated' /\ pc'[q] = "write" => snap'[q] = Snapshot'
  <2>1. CASE q = r  BY <1>1, <2>1
  <2>2. CASE q # r
    <3>1. pc'[q] = pc[q] /\ op'[q] = op[q]  BY <1>1, <2>2
    <3>2. q \notin outdated' => ~Saving(q)  BY <1>2
    <3>3. q \notin outdated' => ~(pc[q] = "write" \/ (pc[q] = "persist" /\ op[q].kind = "reset"))
      BY <3>2 DEF Saving
    <3> QED BY <2>2, <3>1, <3>3 DEF RestoreInv
  <2> QED BY <2>1, <2>2
<1> QED BY <1>4, <1>5, <1>6 DEF RestoreInv, SeedConfig

(* Steps that save what one knows. *)
LEMMA RestoreSaved ==
    ASSUME TypeOK, RestoreInv, NEW r \in Requests, Saving(r), pc' = [pc EXCEPT ![r] = "idle"],
           NEW f \in Config \cup {NoOne}, SaveOf(r, f),
           r \notin outdated => Snapshot = IF f = NoOne THEN SeedConfig ELSE f,
           UNCHANGED <<devices, auth, op, snap>>
    PROVE  RestoreInv'
<1>1. \A q \in Requests : pc'[q] = IF q = r THEN "idle" ELSE pc[q]  BY DEF TypeOK
<1>2. Snapshot' = Snapshot  BY DEF Snapshot
<1>3. outdated' = outdated \ {r}  BY DEF SaveOf
<1>4. outdated' \subseteq {q \in Requests : Saving(q)'}
  <2> SUFFICES ASSUME NEW q \in outdated' PROVE q \in Requests /\ Saving(q)'  OBVIOUS
  <2>1. q \in Requests /\ Saving(q) /\ q # r  BY <1>3 DEF RestoreInv
  <2> QED BY <1>1, <2>1 DEF Saving
<1>5. ~stale' => Loaded' = Snapshot'
  <2>1. CASE r \in outdated  BY <2>1 DEF SaveOf
  <2>2. CASE r \notin outdated
    <3>1. Persist(f)  BY <2>2 DEF SaveOf
    <3>2. ~stale' => file' = f  BY <3>1 DEF Persist
    <3> QED BY <1>2, <2>2, <3>2 DEF Loaded, SeedConfig
  <2> QED BY <2>1, <2>2
<1>6. ASSUME NEW q \in Requests
      PROVE  /\ pc'[q] \in Applying \cup {"apply_lock", "persist"} /\ op'[q].kind = "reset" =>
                   op'[q].cfg = Seed /\ op'[q].auth = SeedAuth
             /\ pc'[q] \in {"apply_ips", "apply_add"} => auth' = op'[q].auth
             /\ q \notin outdated' /\ pc'[q] = "persist" /\ op'[q].kind = "reset" => Snapshot' = SeedConfig
             /\ q \notin outdated' /\ pc'[q] = "write" => snap'[q] = Snapshot'
  <2>1. CASE q = r  BY <1>1, <2>1 DEF Applying
  <2>2. CASE q # r
    <3>1. pc'[q] = pc[q] /\ op'[q] = op[q] /\ snap'[q] = snap[q] /\ (q \in outdated' <=> q \in outdated)
      BY <1>1, <1>3, <2>2
    <3> QED BY <1>2, <3>1 DEF RestoreInv
  <2> QED BY <2>1, <2>2
<1> QED BY <1>4, <1>5, <1>6 DEF RestoreInv, SeedConfig

(* Nobody but the holder of the lock replaces the devices. *)
LEMMA NoneApplying ==
    ASSUME Inv, mu = NoOne
    PROVE  \A q \in Requests : pc[q] \notin Applying
BY ConstantsAssumption DEF Inv, Core, LockInv

(* Steps of AddDevice, RemoveDevice and the edits. *)
LEMMA EditRestore ==
    ASSUME Inv, RestoreInv, NEW r \in Requests, AddStep(r) \/ RemoveStep(r) \/ EditStep(r)
    PROVE  RestoreInv'
<1>a. TypeOK  BY DEF Inv
<1>b. auth \in Auths /\ op \in [Requests -> Operation]  BY <1>a DEF TypeOK
<1>c. ASSUME devices' \in Seq(Device), auth' = auth, Persist([devices |-> devices', auth |-> auth])
      PROVE  stale' \/ Loaded' = Snapshot'
  <2>1. [devices |-> devices', auth |-> auth] \in Config  BY <1>b, <1>c DEF Config
  <2>2. [devices |-> devices', auth |-> auth] # NoOne  BY <2>1, FileAssumption
  <2> QED BY <1>c, <2>2 DEF Persist, Loaded, Snapshot
<1>1. ASSUME NEW i \in IPs, AddCheck(r, i) PROVE RestoreInv'
  <2>1. PICK l \in {"idle", "add_ip"} : pc' = [pc EXCEPT ![r] = l]  BY <1>1 DEF AddCheck, Goto
  <2>2. pc[r] = "idle" /\ UNCHANGED <<up, devices, auth, file, stale, outdated, snap>>
    BY <1>1 DEF AddCheck, Begin, memory
  <2>3. \A q \in Requests \ {r} : op'[q] = op[q]  BY <1>1, <1>b DEF AddCheck, Begin
  <2> QED BY <1>a, <2>1, <2>2, <2>3, RestoreQuiet DEF Unsaved, Applying
<1>2. CASE AddAlias(r)
  <2>1. PICK l \in {"idle", "add_commit"} : pc' = [pc EXCEPT ![r] = l]  BY <1>2 DEF AddAlias, Goto
  <2>2. pc[r] = "add_ip" /\ op' = op /\ UNCHANGED <<up, devices, auth, file, stale, outdated, snap>>
    BY <1>2 DEF AddAlias, memory, ghosts
  <2> QED BY <1>a, <2>1, <2>2, RestoreQuiet DEF Unsaved, Applying
<1>3. CASE AddCommit(r)
  <2>1. devices' \in Seq(Device)
    <3>1. TypeOK'  BY <1>3, AddType DEF Inv, AddStep
    <3> QED BY <3>1 DEF TypeOK
  <2>2. /\ pc[r] = "add_commit" /\ pc' = [pc EXCEPT ![r] = "idle"] /\ auth' = auth /\ op' = op
        /\ mu = NoOne /\ Overtake /\ Persist([devices |-> devices', auth |-> auth])
    BY <1>3 DEF AddCommit, Goto, Free
  <2>3. stale' \/ Loaded' = Snapshot'  BY <1>c, <2>1, <2>2
  <2>4. \A q \in Requests : pc[q] \notin Applying  BY <2>2, NoneApplying
  <2> QED BY <1>a, <2>2, <2>3, <2>4, RestoreChanged DEF Applying
<1>4. ASSUME NEW i \in IPs, RemoveLocked(r, i) PROVE RestoreInv'
  <2>1. devices' \in Seq(Device)
    <3>1. TypeOK'  BY <1>4, RemoveType DEF Inv, RemoveStep
    <3> QED BY <3>1 DEF TypeOK
  <2>2. PICK l \in {"remove_ip", "remove_stop"} : pc' = [pc EXCEPT ![r] = l]  BY <1>4 DEF RemoveLocked, Goto
  <2>3. /\ pc[r] = "idle" /\ auth' = auth /\ mu = NoOne /\ Overtake
        /\ Persist([devices |-> devices', auth |-> auth])
    BY <1>4 DEF RemoveLocked, Begin, Free
  <2>4. \A q \in Requests \ {r} : op'[q] = op[q]  BY <1>4, <1>b DEF RemoveLocked, Begin
  <2>5. stale' \/ Loaded' = Snapshot'  BY <1>c, <2>1, <2>3
  <2>6. \A q \in Requests : pc[q] \notin Applying  BY <2>3, NoneApplying
  <2> QED BY <1>a, <2>2, <2>3, <2>4, <2>5, <2>6, RestoreChanged DEF Applying
<1>5. CASE RemoveStop(r) \/ RemoveWait(r) \/ RemoveAlias(r)
  <2>1. PICK l \in {"remove_wait", "remove_ip", "idle"} : pc' = [pc EXCEPT ![r] = l]
    BY <1>5 DEF RemoveStop, RemoveWait, RemoveAlias, Goto
  <2>2. /\ pc[r] \in {"remove_stop", "remove_wait", "remove_ip"} /\ op' = op
        /\ UNCHANGED <<up, devices, auth, file, stale, outdated, snap>>
    BY <1>5 DEF RemoveStop, RemoveWait, RemoveAlias, memory, ghosts
  <2> QED BY <1>a, <2>1, <2>2, RestoreQuiet DEF Unsaved, Applying
<1>6. ASSUME NEW i \in IPs, Edit(r, i) \/ MoveRefused(r, i) PROVE RestoreInv'
  <2>1. devices' \in Seq(Device)
    <3>1. TypeOK'  BY <1>6, EditType
    <3> QED BY <3>1 DEF TypeOK
  <2>2. pc[r] = "idle" /\ pc' = pc /\ auth' = auth /\ mu = NoOne /\ Overtake
    BY <1>6 DEF Edit, MoveRefused, Change, Begin, Free
  <2>3. pc' = [pc EXCEPT ![r] = "idle"]  BY <1>a, <2>2 DEF TypeOK
  <2>4. \A q \in Requests \ {r} : op'[q] = op[q]  BY <1>6, <1>b DEF Edit, MoveRefused, Change, Begin
  <2>5. stale' \/ Loaded' = Snapshot'
    <3>1. CASE MoveRefused(r, i)  BY <3>1 DEF MoveRefused
    <3>2. CASE Edit(r, i)  BY <1>c, <2>1, <2>2, <3>2 DEF Edit
    <3> QED BY <1>6, <3>1, <3>2
  <2>6. \A q \in Requests : pc[q] \notin Applying  BY <2>2, NoneApplying
  <2> QED BY <1>a, <2>2, <2>3, <2>4, <2>5, <2>6, RestoreChanged DEF Applying
<1> QED BY <1>1, <1>2, <1>3, <1>4, <1>5, <1>6 DEF AddStep, RemoveStep, EditStep

(* Steps of ImportConfig, ClearAll and FactoryReset. *)
LEMMA ReplaceRestore ==
    ASSUME Inv, RestoreInv, NEW r \in Requests, ReplaceStep(r)
    PROVE  RestoreInv'
<1>a. TypeOK  BY DEF Inv
<1>b. op \in [Requests -> Operation] /\ snap \in [Requests -> Config]  BY <1>a DEF TypeOK
<1>c. ASSUME pc[r] \in Applying PROVE \A q \in Requests \ {r} : pc[q] \notin Applying
  BY <1>c DEF Inv, Core, LockInv
<1>1. ASSUME (\E ips \in Imports, a \in Auths : ImportBegin(r, ips, a)) \/ ClearBegin(r) \/ ResetBegin(r)
      PROVE  RestoreInv'
  <2>1. /\ pc[r] = "idle" /\ pc' = [pc EXCEPT ![r] = "apply_lock"]
        /\ UNCHANGED <<up, devices, auth, file, stale, outdated, snap>>
    BY <1>1 DEF ImportBegin, ClearBegin, ResetBegin, Begin, Goto, memory, ghosts
  <2>2. op'[r].kind = "reset" => op'[r].cfg = Seed /\ op'[r].auth = SeedAuth
    <3>2. ASSUME NEW ips \in Imports, NEW a \in Auths, ImportBegin(r, ips, a) PROVE op'[r].kind = "import"
      BY <1>b, <3>2 DEF ImportBegin, Begin
    <3>3. ASSUME ClearBegin(r) PROVE op'[r].kind = "clear"  BY <1>b, <3>3 DEF ClearBegin, Begin
    <3>4. ASSUME ResetBegin(r) PROVE op'[r].cfg = Seed /\ op'[r].auth = SeedAuth
      BY <1>b, <3>4 DEF ResetBegin, Begin
    <3> QED BY <1>1, <3>2, <3>3, <3>4
  <2>3. \A q \in Requests \ {r} : op'[q] = op[q]
    BY <1>1, <1>b DEF ImportBegin, ClearBegin, ResetBegin, Begin
  <2> QED BY <1>a, <2>1, <2>2, <2>3, RestoreQuiet DEF Unsaved, Applying
<1>2. CASE ApplyLock(r) \/ ApplyStop(r) \/ ApplyWait(r)
  <2>1. PICK l \in {"apply_stop", "apply_wait"} : pc' = [pc EXCEPT ![r] = l]
    BY <1>2 DEF ApplyLock, ApplyStop, ApplyWait, Goto
  <2>2. /\ pc[r] \in {"apply_lock", "apply_stop", "apply_wait"} /\ op' = op
        /\ UNCHANGED <<up, devices, auth, file, stale, outdated, snap>>
    BY <1>2 DEF ApplyLock, ApplyStop, ApplyWait, memory, ghosts
  <2>3. op[r].kind = "reset" => op[r].cfg = Seed /\ op[r].auth = SeedAuth
    BY <2>2 DEF RestoreInv, Applying
  <2> QED BY <1>a, <2>1, <2>2, <2>3, RestoreQuiet DEF Unsaved, Applying
<1>3. CASE ApplyClear(r)
  <2>1. PICK l \in {"persist", "apply_ips"} :
            pc' = [pc EXCEPT ![r] = l] /\ (l = "persist" => op[r].cfg = << >>)
    BY <1>3 DEF ApplyClear, Goto
  <2>2. pc[r] = "apply_stop" /\ op' = op /\ devices' = << >> /\ auth' = op[r].auth /\ Overtake
    BY <1>3 DEF ApplyClear
  <2>3. \A q \in Requests \ {r} : pc[q] \notin Applying  BY <1>c, <2>2 DEF Applying
  <2>4. op[r].kind = "reset" => op[r].cfg = Seed /\ op[r].auth = SeedAuth
    BY <2>2 DEF RestoreInv, Applying
  <2>5. Fresh(<< >>) = << >>
    <3>1. Fresh(<< >>) \in Seq(Device)  BY EmptySeq, FreshProperties
    <3>2. DOMAIN Fresh(<< >>) = 1 .. 0  BY DEF Fresh
    <3>3. DOMAIN Fresh(<< >>) = 1 .. Len(Fresh(<< >>)) /\ Len(Fresh(<< >>)) \in Nat  BY <3>1, LenProperties
    <3> HIDE DEF Fresh
    <3>4. Len(Fresh(<< >>)) = 0  BY <3>2, <3>3
    <3> QED BY <3>1, <3>4, EmptySeq
  <2>6. l = "persist" /\ op[r].kind = "reset" => Snapshot' = SeedConfig
    BY <2>1, <2>2, <2>4, <2>5 DEF Snapshot, SeedConfig
  <2> QED BY <1>a, <2>1, <2>2, <2>3, <2>4, <2>6, RestoreChanged DEF Unsaved, Applying
<1>4. CASE ApplyCheckIP(r)
  <2>1. /\ pc[r] = "apply_ips" /\ op' = op /\ (pc' = pc \/ pc' = [pc EXCEPT ![r] = "apply_add"])
        /\ UNCHANGED <<up, devices, auth, file, stale, outdated, snap>>
    BY <1>4 DEF ApplyCheckIP, Goto, memory, ghosts
  <2>2. PICK l \in {"apply_ips", "apply_add"} : pc' = [pc EXCEPT ![r] = l]
    <3>1. pc = [pc EXCEPT ![r] = "apply_ips"]  BY <1>a, <2>1 DEF TypeOK
    <3> QED BY <2>1, <3>1
  <2>3. auth = op[r].auth /\ (op[r].kind = "reset" => op[r].cfg = Seed /\ op[r].auth = SeedAuth)
    BY <2>1 DEF RestoreInv, Applying
  <2> QED BY <1>a, <2>1, <2>2, <2>3, RestoreQuiet DEF Unsaved
<1>5. CASE ApplyAddIP(r)
  <2>1. /\ pc[r] = "apply_add" /\ op' = op
        /\ UNCHANGED <<up, devices, auth, file, snap, outdated>>
    BY <1>5 DEF ApplyAddIP, memory
  <2>2. \/ pc' = [pc EXCEPT ![r] = "idle"] /\ stale' = TRUE
        \/ pc' = [pc EXCEPT ![r] = "apply_ips"] /\ stale' = stale
    BY <1>5, Zenon DEF ApplyAddIP, Goto
  <2>3. auth = op[r].auth /\ (op[r].kind = "reset" => op[r].cfg = Seed /\ op[r].auth = SeedAuth)
    BY <2>1 DEF RestoreInv, Applying
  <2>4. CASE pc' = [pc EXCEPT ![r] = "apply_ips"] /\ stale' = stale
    BY <1>a, <2>1, <2>3, <2>4, RestoreQuiet DEF Unsaved
  <2>5. CASE pc' = [pc EXCEPT ![r] = "idle"] /\ stale' = TRUE
    <3>1. \A q \in Requests : pc'[q] = IF q = r THEN "idle" ELSE pc[q]  BY <1>a, <2>5 DEF TypeOK
    <3>2. r \notin outdated /\ Snapshot' = Snapshot  BY <2>1 DEF RestoreInv, Saving, Snapshot
    <3>3. outdated' \subseteq {q \in Requests : Saving(q)'}
      <4> SUFFICES ASSUME NEW q \in outdated PROVE q \in Requests /\ Saving(q)'  BY <2>1
      <4>1. q \in Requests /\ Saving(q) /\ q # r  BY <3>2 DEF RestoreInv
      <4> QED BY <2>1, <3>1, <4>1 DEF Saving
    <3>4. \A q \in Requests : q = r \/ (pc'[q] = pc[q] /\ op'[q] = op[q] /\ snap'[q] = snap[q])
      BY <2>1, <3>1
    <3> QED BY <2>1, <2>5, <3>1, <3>2, <3>3, <3>4 DEF RestoreInv, Applying, SeedConfig
  <2> QED BY <2>2, <2>4, <2>5
<1>6. CASE ApplyStart(r)
  <2>1. /\ pc[r] = "apply_ips" /\ pc' = [pc EXCEPT ![r] = "persist"] /\ op' = op
        /\ devices' = Fresh(op[r].cfg) /\ auth' = auth /\ Overtake
    BY <1>6 DEF ApplyStart, Goto
  <2>2. \A q \in Requests \ {r} : pc[q] \notin Applying  BY <1>c, <2>1 DEF Applying
  <2>3. auth = op[r].auth /\ (op[r].kind = "reset" => op[r].cfg = Seed /\ op[r].auth = SeedAuth)
    BY <2>1 DEF RestoreInv, Applying
  <2>4. op[r].kind = "reset" => Snapshot' = SeedConfig
    BY <2>1, <2>3 DEF Snapshot, SeedConfig
  <2> QED BY <1>a, <2>1, <2>2, <2>3, <2>4, RestoreChanged DEF Unsaved, Applying
<1>7. CASE SaveSnapshot(r)
  <2>1. /\ pc[r] = "persist" /\ op[r].kind # "reset"
        /\ pc' = [pc EXCEPT ![r] = "write"] /\ snap' = [snap EXCEPT ![r] = Snapshot]
        /\ UNCHANGED <<up, devices, auth, file, stale, outdated, op>>
    BY <1>7 DEF SaveSnapshot, Goto, memory, ghosts
  <2>2. \A q \in Requests : pc'[q] = IF q = r THEN "write" ELSE pc[q]  BY <1>a, <2>1 DEF TypeOK
  <2>3. \A q \in Requests : snap'[q] = IF q = r THEN Snapshot ELSE snap[q]  BY <1>b, <2>1
  <2>4. Snapshot' = Snapshot  BY <2>1 DEF Snapshot
  <2>5. r \notin outdated  BY <2>1 DEF RestoreInv, Saving
  <2>6. outdated' \subseteq {q \in Requests : Saving(q)'}
    <3> SUFFICES ASSUME NEW q \in outdated PROVE q \in Requests /\ Saving(q)'  BY <2>1
    <3>1. q \in Requests /\ Saving(q) /\ q # r  BY <2>5 DEF RestoreInv
    <3> QED BY <2>1, <2>2, <3>1 DEF Saving
  <2>7. pc'[r] \in Unsaved  BY <2>2 DEF Unsaved
  <2>8. \A q \in Requests \ {r} : pc'[q] = pc[q] /\ op'[q] = op[q] /\ snap'[q] = snap[q]
    BY <2>1, <2>2, <2>3
  <2>9. pc'[r] = "write" /\ snap'[r] = Snapshot'  BY <2>2, <2>3, <2>4
  <2> QED BY <2>1, <2>4, <2>6, <2>7, <2>8, <2>9 DEF RestoreInv, Applying, SeedConfig
<1>8. CASE SaveWrite(r)
  <2>1. /\ pc[r] = "write" /\ pc' = [pc EXCEPT ![r] = "idle"] /\ SaveOf(r, snap[r])
        /\ UNCHANGED <<devices, auth, op, snap>>
    BY <1>8 DEF SaveWrite, Goto, memory
  <2>2. snap[r] \in Config /\ snap[r] # NoOne  BY <1>b, FileAssumption
  <2>3. r \notin outdated => Snapshot = snap[r]  BY <2>1 DEF RestoreInv
  <2>4. Saving(r)  BY <2>1 DEF Saving
  <2> QED BY <1>a, <2>1, <2>2, <2>3, <2>4, RestoreSaved
<1>9. CASE DeleteState(r)
  <2>1. /\ pc[r] = "persist" /\ op[r].kind = "reset" /\ pc' = [pc EXCEPT ![r] = "idle"] /\ SaveOf(r, NoOne)
        /\ UNCHANGED <<devices, auth, op, snap>>
    BY <1>9 DEF DeleteState, Goto, memory
  <2>2. r \notin outdated => Snapshot = SeedConfig  BY <2>1 DEF RestoreInv
  <2>3. Saving(r)  BY <2>1 DEF Saving
  <2> QED BY <1>a, <2>1, <2>2, <2>3, RestoreSaved
<1> QED BY <1>1, <1>2, <1>3, <1>4, <1>5, <1>6, <1>7, <1>8, <1>9 DEF ReplaceStep, ApplyStep

(* Steps of the servers and of the process: a boot loads the file. *)
LEMMA ProcessRestore ==
    ASSUME Inv, RestoreInv, (\E h \in Handles : ServerStep(h)) \/ Crash \/ Shutdown \/ Boot \/ UNCHANGED vars
    PROVE  RestoreInv'
<1>1. CASE (\E h \in Handles : ServerStep(h)) \/ UNCHANGED vars
  <2>1. UNCHANGED <<up, devices, auth, file, stale, outdated, pc, op, snap>>
    BY <1>1 DEF ServerStep, ServerListen, ServerExit, vars, memory, requests, ghosts
  <2>2. Loaded' = Loaded /\ Snapshot' = Snapshot  BY <2>1 DEF Loaded, Snapshot
  <2>3. \A r \in Requests : Saving(r)' <=> Saving(r)  BY <2>1 DEF Saving
  <2> QED BY <2>1, <2>2, <2>3 DEF RestoreInv, SeedConfig
<1>2. CASE Crash \/ Shutdown
  <2>1. up' = FALSE /\ outdated' = {} /\ \A r \in Requests : pc'[r] = "idle"
    BY <1>2 DEF Crash, Shutdown, Die
  <2> QED BY <2>1 DEF RestoreInv, Applying
<1>3. CASE Boot
  <2>1. ~up /\ devices' = Loaded.devices /\ auth' = Loaded.auth /\ file' = file /\ pc' = pc /\ outdated' = outdated
    BY <1>3 DEF Boot, requests
  <2>2. Loaded' = Loaded  BY <2>1 DEF Loaded
  <2>3. Loaded = [devices |-> Loaded.devices, auth |-> Loaded.auth]
    BY DEF Loaded, Inv, TypeOK, Config
  <2>4. Snapshot' = Loaded'  BY <2>1, <2>2, <2>3 DEF Snapshot
  <2>5. \A r \in Requests : pc[r] = "idle"  BY <2>1 DEF Inv, Core, LockInv
  <2>6. outdated' = {}
    <3>1. \A r \in Requests : ~Saving(r)  BY <2>5 DEF Saving
    <3> QED BY <2>1, <3>1 DEF RestoreInv
  <2> QED BY <2>1, <2>4, <2>5, <2>6 DEF RestoreInv, Applying
<1> QED BY <1>1, <1>2, <1>3

(* RestartRestores, for any number of overlapping requests: when none of them
   has still to save what it did, a simulator whose last save went well, and was
   not one that another change had overtaken, is what a restart would bring
   back - after any edits, imports, clears, resets, failed aliases, disk errors
   and crashes.  A refused move of a client counts as a failed save. *)
THEOREM RestartBringsBack == Spec => []RestartRestores
<1>1. Init => RestoreInv  BY DEF Init, RestoreInv, Applying
<1>2. Inv /\ RestoreInv /\ [Next]_vars => RestoreInv'
  <2> SUFFICES ASSUME Inv, RestoreInv, [Next]_vars PROVE RestoreInv'  OBVIOUS
  <2>1. ASSUME NEW r \in Requests, AddStep(r) \/ RemoveStep(r) \/ EditStep(r) PROVE RestoreInv'
    BY <2>1, EditRestore
  <2>2. ASSUME NEW r \in Requests, ReplaceStep(r) PROVE RestoreInv'  BY <2>2, ReplaceRestore
  <2>3. ASSUME (\E h \in Handles : ServerStep(h)) \/ Crash \/ Shutdown \/ Boot \/ UNCHANGED vars PROVE RestoreInv'
    BY <2>3, ProcessRestore
  <2> QED BY <2>1, <2>2, <2>3 DEF Next, Rest
<1>3. RestoreInv => RestartRestores  BY DEF RestoreInv, RestartRestores
<1> QED BY <1>1, <1>2, <1>3, SimulatorInvariant, PTL DEF Spec

----------------------------------------------------------------------------
(* List, map, servers and aliases, address by address *)

Alive(h) == \E s \in Services : server[h][s] \in {"spawned", "listening"}

Removing == {"remove_stop", "remove_wait"}

\* r has put i on the host for a device that is not listed yet, or has not yet
\* removed it for one that is not listed any more.
Owns(r, i) ==
    /\ pc[r] \in {"add_commit", "remove_stop", "remove_wait", "remove_ip"}
    /\ op[r].ip = i

\* setupIPs of r has seen to i.
Added(r, i) == pc[r] \in {"apply_ips", "apply_add"} /\ \E k \in 1 .. ix[r] - 1 : op[r].cfg[k] = i

Once(d, i) == \A j, k \in 1 .. Len(d) : d[j].ip = i /\ d[k].ip = i => j = k

(* A process that is gone has neither devices nor servers. *)
DownInv ==
    ~up => /\ devices = << >> /\ \A i \in IPs : handles[i] = NoOne
           /\ \A h \in Handles : ~Alive(h)

(* Who deals with an undisputed address does so alone, and while no list is
   being replaced. *)
BusyInv ==
    \A i \in IPs \ disputed, q \in Requests : Busy(q, i) =>
        /\ mu = NoOne /\ i \notin IPsOf(devices)
        /\ \A p \in Requests : Busy(p, i) => p = q
        /\ pc[q] = "add_commit" => i \in alias

(* The host and the map have the listed addresses, and what else the host has is
   a request's or known to be lost. *)
ListInv ==
    \A i \in IPs \ disputed :
        /\ Once(devices, i)
        /\ i \in IPsOf(devices) => i \in alias /\ handles[i] # NoOne
        /\ up /\ i \in alias =>
              \/ i \in IPsOf(devices) \/ i \in leaked
              \/ \E q \in Requests : Owns(q, i) \/ Added(q, i)

(* setupIPs gets every address of the list onto the host. *)
ApplyInv ==
    \A r \in Requests : pc[r] \in {"apply_ips", "apply_add"} =>
        /\ devices = << >> /\ ix[r] <= Len(op[r].cfg) + 1
        /\ \A k \in 1 .. ix[r] - 1 : op[r].cfg[k] \notin disputed => op[r].cfg[k] \in alias

(* A server that may run is in the map or about to be stopped by RemoveDevice;
   servers nobody has stopped run; applyConfig's wait has been for all of them. *)
ServerInv ==
    /\ \A h \in Handles : Alive(h) =>
          /\ home[h] \in IPs
          /\ home[h] \notin disputed =>
                handles[home[h]] = h \/ \E r \in Requests : cur[r] = h /\ pc[r] \in Removing
    /\ \A i \in IPs \ disputed : handles[i] # NoOne /\ closes[handles[i]] = 0 =>
          \A s \in Services : server[handles[i]][s] \in {"spawned", "listening"}
    /\ \A r \in Requests :
        /\ pc[r] \in {"apply_stop", "apply_wait"} =>
              \A i \in IPs : handles[i] # NoOne /\ i \notin todo[r] =>
                  AllReturned(handles[i]) \/ (pc[r] = "apply_wait" /\ cur[r] = handles[i])
        /\ pc[r] \in Removing => cur[r] \in Handles /\ cur[r] <= used /\ home[cur[r]] = op[r].ip

Sound == DownInv /\ BusyInv /\ ListInv /\ ApplyInv /\ ServerInv

(* While a list is replaced nobody deals with an undisputed address, and only
   applyConfig still has servers there. *)
LEMMA HeldAlone ==
    ASSUME Inv, Sound, NEW r \in Requests, mu = r
    PROVE  /\ \A i \in IPs \ disputed, q \in Requests : ~Busy(q, i) /\ ~Owns(q, i)
           /\ \A q \in Requests \ {r} : pc[q] \notin Applying
           /\ \A h \in Handles : Alive(h) /\ home[h] \notin disputed => home[h] \in IPs /\ handles[home[h]] = h
<1>1. mu # NoOne  BY ConstantsAssumption
<1>2. \A i \in IPs \ disputed, q \in Requests : ~Busy(q, i)  BY <1>1 DEF Sound, BusyInv
<1>3. \A i \in IPs \ disputed, q \in Requests : ~Owns(q, i)  BY <1>2 DEF Owns, Busy
<1>4. \A q \in Requests \ {r} : pc[q] \notin Applying  BY DEF Inv, Core, LockInv
<1>5. ASSUME NEW h \in Handles, Alive(h), home[h] \notin disputed PROVE home[h] \in IPs /\ handles[home[h]] = h
  <2>1. home[h] \in IPs  BY <1>5 DEF Sound, ServerInv
  <2>2. ASSUME NEW q \in Requests, cur[q] = h, pc[q] \in Removing PROVE FALSE
    <3>1. home[h] = op[q].ip  BY <2>2 DEF Sound, ServerInv
    <3>2. Busy(q, home[h])  BY <2>2, <3>1 DEF Busy, Removing
    <3> QED BY <1>2, <1>5, <2>1, <3>2
  <2> QED BY <1>5, <2>1, <2>2 DEF Sound, ServerInv
<1> QED BY <1>2, <1>3, <1>4, <1>5

(* Steps of a request r that touch neither map nor servers nor lock, and list
   the same addresses.  What r does to aliases is its own business. *)
LEMMA QuietSound ==
    ASSUME Inv, Sound, up, NEW r \in Requests,
           pc[r] \notin Applying \cup Removing, pc'[r] \notin Applying \cup Removing,
           \A q \in Requests \ {r} : pc'[q] = pc[q] /\ op'[q] = op[q],
           UNCHANGED <<up, mu, handles, used, home, server, closes, leaked, cur, todo, ix>>,
           disputed \subseteq disputed',
           IPsOf(devices') = IPsOf(devices), Len(devices') = Len(devices),
           \A k \in 1 .. Len(devices) : devices'[k].ip = devices[k].ip,
           devices = << >> => devices' = << >>,
           \A i \in IPs \ disputed' :
              /\ i \in alias' /\ i \notin alias => Owns(r, i)'
              /\ i \in alias /\ i \notin alias' => Busy(r, i)
              /\ i \in alias' /\ Owns(r, i) => Owns(r, i)'
              /\ Busy(r, i)' =>
                    /\ mu = NoOne /\ i \notin IPsOf(devices)
                    /\ \A p \in Requests \ {r} : ~Busy(p, i)
                    /\ pc'[r] = "add_commit" => i \in alias'
    PROVE  Sound'
<1>1. \A q \in Requests \ {r}, i \in IPs :
          (Busy(q, i)' <=> Busy(q, i)) /\ (Owns(q, i)' <=> Owns(q, i)) /\ (Added(q, i)' <=> Added(q, i))
  BY DEF Busy, Owns, Added
<1>2. \A i \in IPs : ~Added(r, i)  BY DEF Added, Applying
<1>3. DownInv'  BY DEF Sound, DownInv
<1>4. BusyInv'
  <2> SUFFICES ASSUME NEW i \in IPs \ disputed', NEW q \in Requests, Busy(q, i)'
               PROVE  /\ mu = NoOne /\ i \notin IPsOf(devices)
                      /\ \A p \in Requests : Busy(p, i)' => p = q
                      /\ pc'[q] = "add_commit" => i \in alias'
    BY DEF BusyInv
  <2>1. CASE q = r  BY <1>1, <2>1
  <2>2. CASE q # r
    <3>1. Busy(q, i) /\ i \in IPs \ disputed /\ pc'[q] = pc[q]  BY <1>1, <2>2
    <3>2. /\ mu = NoOne /\ i \notin IPsOf(devices)
          /\ \A p \in Requests : Busy(p, i) => p = q
          /\ pc[q] = "add_commit" => i \in alias
      BY <3>1 DEF Sound, BusyInv
    <3>3. ~Busy(r, i)' /\ ~Busy(r, i)  BY <2>2, <3>1, <3>2
    <3>4. i \in alias => i \in alias'  BY <3>3
    <3> QED BY <1>1, <3>1, <3>2, <3>3, <3>4
  <2> QED BY <2>1, <2>2
<1>5. ListInv'
  <2> SUFFICES ASSUME NEW i \in IPs \ disputed'
               PROVE  /\ Once(devices', i)
                      /\ i \in IPsOf(devices) => i \in alias' /\ handles[i] # NoOne
                      /\ i \in alias' =>
                            \/ i \in IPsOf(devices) \/ i \in leaked
                            \/ \E q \in Requests : Owns(q, i)' \/ Added(q, i)'
    BY DEF ListInv
  <2>1. i \in IPs \ disputed  OBVIOUS
  <2>2. Once(devices', i)  BY <2>1 DEF Sound, ListInv, Once
  <2>3. ASSUME i \in IPsOf(devices) PROVE i \in alias' /\ handles[i] # NoOne
    <3>1. i \in alias /\ handles[i] # NoOne  BY <2>1, <2>3 DEF Sound, ListInv
    <3>2. ~Busy(r, i)  BY <2>1, <2>3 DEF Sound, BusyInv
    <3> QED BY <3>1, <3>2
  <2>4. ASSUME i \in alias', i \notin IPsOf(devices), i \notin leaked
        PROVE  \E q \in Requests : Owns(q, i)' \/ Added(q, i)'
    <3>1. CASE i \notin alias  BY <2>4, <3>1
    <3>2. CASE i \in alias
      <4>1. PICK q \in Requests : Owns(q, i) \/ Added(q, i)  BY <2>1, <2>4, <3>2 DEF Sound, ListInv
      <4>2. CASE q = r  BY <1>2, <2>4, <4>1, <4>2
      <4>3. CASE q # r  BY <1>1, <4>1, <4>3
      <4> QED BY <4>2, <4>3
    <3> QED BY <3>1, <3>2
  <2> QED BY <2>2, <2>3, <2>4
<1>6. ApplyInv'
  <2> SUFFICES ASSUME NEW q \in Requests, pc'[q] \in {"apply_ips", "apply_add"}
               PROVE  /\ devices' = << >> /\ ix[q] <= Len(op'[q].cfg) + 1
                      /\ \A k \in 1 .. ix[q] - 1 : op'[q].cfg[k] \notin disputed' => op'[q].cfg[k] \in alias'
    BY DEF ApplyInv
  <2>1. q # r /\ pc[q] = pc'[q] /\ op'[q] = op[q]  BY DEF Applying
  <2>2. /\ devices = << >> /\ ix[q] <= Len(op[q].cfg) + 1
        /\ \A k \in 1 .. ix[q] - 1 : op[q].cfg[k] \notin disputed => op[q].cfg[k] \in alias
    BY <2>1 DEF Sound, ApplyInv
  <2>3. ASSUME NEW k \in 1 .. ix[q] - 1, op[q].cfg[k] \notin disputed' PROVE op[q].cfg[k] \in alias'
    <3>1. op[q].cfg[k] \in alias /\ alias \subseteq IPs  BY <2>2, <2>3 DEF Inv, TypeOK
    <3>2. mu = q  BY <2>1 DEF Inv, Core, LockInv, Applying
    <3>3. ~Busy(r, op[q].cfg[k])  BY <2>3, <3>1, <3>2, HeldAlone
    <3> QED BY <2>3, <3>1, <3>3
  <2> QED BY <2>1, <2>2, <2>3
<1>7. ServerInv'
  <2>1. \A h \in Handles : Alive(h)' <=> Alive(h)  BY DEF Alive
  <2>2. ASSUME NEW h \in Handles, Alive(h)'
        PROVE  /\ home[h] \in IPs
               /\ home[h] \notin disputed' =>
                     handles[home[h]] = h \/ \E q \in Requests : cur[q] = h /\ pc'[q] \in Removing
    <3>1. ASSUME NEW q \in Requests, cur[q] = h, pc[q] \in Removing PROVE pc'[q] \in Removing  BY <3>1
    <3> QED BY <2>1, <2>2, <3>1 DEF Sound, ServerInv
  <2>3. \A i \in IPs \ disputed' : handles[i] # NoOne /\ closes[handles[i]] = 0 =>
            \A s \in Services : server[handles[i]][s] \in {"spawned", "listening"}
    BY DEF Sound, ServerInv
  <2>4. ASSUME NEW q \in Requests
        PROVE  /\ pc'[q] \in {"apply_stop", "apply_wait"} =>
                     \A i \in IPs : handles[i] # NoOne /\ i \notin todo[q] =>
                         AllReturned(handles[i])' \/ (pc'[q] = "apply_wait" /\ cur[q] = handles[i])
               /\ pc'[q] \in Removing => cur[q] \in Handles /\ cur[q] <= used /\ home[cur[q]] = op'[q].ip
    <3>1. CASE q = r  BY <3>1 DEF Applying
    <3>2. CASE q # r
      <4>1. pc'[q] = pc[q] /\ op'[q] = op[q]  BY <3>2
      <4>2. \A i \in IPs : AllReturned(handles[i])' <=> AllReturned(handles[i])  BY DEF AllReturned
      <4> QED BY <4>1, <4>2 DEF Sound, ServerInv
    <3> QED BY <3>1, <3>2
  <2> QED BY <2>2, <2>3, <2>4 DEF ServerInv
<1> QED BY <1>3, <1>4, <1>5, <1>6, <1>7 DEF Sound

----------------------------------------------------------------------------
(* What the steps do to lists and handles *)

(* An address that is not repeated has one place in the list. *)
LEMMA UnrepeatedOnce ==
    ASSUME NEW ips \in Seq(IPs), NEW i, i \notin Repeated(ips),
           NEW j \in 1 .. Len(ips), NEW k \in 1 .. Len(ips), ips[j] = i, ips[k] = i
    PROVE  j = k
<1>1. Len(ips) \in Nat  BY LenProperties
<1>2. ASSUME NEW m \in 1 .. Len(ips), NEW n \in 1 .. Len(ips), m < n, ips[m] = i, ips[n] = i PROVE FALSE
  <2>1. m \in 1 .. n - 1  BY <1>1, <1>2
  <2>2. n \in {x \in 1 .. Len(ips) : \E y \in 1 .. x - 1 : ips[y] = ips[x]}  BY <1>2, <2>1
  <2> QED BY <1>2, <2>2 DEF Repeated
<1> QED BY <1>1, <1>2

(* startDeviceServers: every address it is given gets a new handle with running
   servers, and a handle whose address is not repeated is the one in the map. *)
LEMMA StartUnrepeated ==
    ASSUME NEW ips \in Seq(IPs), NEW map \in [IPs -> Handles \cup {NoOne}], TypeOK, StartServers(ips, map)
    PROVE  /\ \A i \in IPs : IF \E k \in 1 .. Len(ips) : ips[k] = i
                             THEN /\ handles'[i] \in Handles /\ handles'[i] > used
                                  /\ \A s \in Services : server'[handles'[i]][s] = "spawned"
                             ELSE handles'[i] = map[i]
           /\ \A h \in Handles :
                 \/ /\ h > used /\ home'[h] \in IPs
                    /\ \E k \in 1 .. Len(ips) : ips[k] = home'[h]
                    /\ home'[h] \notin Repeated(ips) => handles'[home'[h]] = h
                 \/ home'[h] = home[h] /\ server'[h] = server[h]
<1>1. /\ Len(ips) \in Nat /\ used \in Nat /\ used + Len(ips) <= MaxHandles /\ MaxHandles \in Nat
      /\ \A k \in 1 .. Len(ips) : ips[k] \in IPs
  BY ConstantsAssumption, LenProperties, ElementOfSeq DEF StartServers, TypeOK
<1>2. /\ home' = [h \in Handles |-> IF h \in used + 1 .. used + Len(ips) THEN ips[h - used] ELSE home[h]]
      /\ server' = [h \in Handles |-> IF h \in used + 1 .. used + Len(ips)
                                       THEN [s \in Services |-> "spawned"] ELSE server[h]]
      /\ handles' = [i \in IPs |-> IF \E k \in 1 .. Len(ips) : ips[k] = i
                                    THEN used + LastAt(ips, i) ELSE map[i]]
  BY DEF StartServers
<1>3. ASSUME NEW i \in IPs, NEW k \in 1 .. Len(ips), ips[k] = i
      PROVE  /\ handles'[i] = used + LastAt(ips, i)
             /\ LastAt(ips, i) \in 1 .. Len(ips) /\ ips[LastAt(ips, i)] = i
  <2>1. handles'[i] = used + LastAt(ips, i)  BY <1>2, <1>3
  <2> QED BY <1>3, <2>1, LastAtProperties
<1>4. ASSUME NEW i \in IPs
      PROVE  IF \E k \in 1 .. Len(ips) : ips[k] = i
             THEN /\ handles'[i] \in Handles /\ handles'[i] > used
                  /\ \A s \in Services : server'[handles'[i]][s] = "spawned"
             ELSE handles'[i] = map[i]
  <2>1. ASSUME NEW k \in 1 .. Len(ips), ips[k] = i
        PROVE  /\ handles'[i] \in Handles /\ handles'[i] > used
               /\ \A s \in Services : server'[handles'[i]][s] = "spawned"
    <3> DEFINE l == LastAt(ips, i)
    <3>1. handles'[i] = used + l /\ l \in 1 .. Len(ips)  BY <1>3, <2>1
    <3> HIDE DEF l
    <3>2. used + l \in Handles /\ used + l > used /\ used + l \in used + 1 .. used + Len(ips)
      BY <1>1, <3>1 DEF Handles
    <3>3. \A s \in Services : server'[used + l][s] = "spawned"  BY <1>2, <3>2
    <3> QED BY <3>1, <3>2, <3>3
  <2> QED BY <1>2, <2>1
<1>5. ASSUME NEW h \in Handles
      PROVE  \/ /\ h > used /\ home'[h] \in IPs
                /\ \E k \in 1 .. Len(ips) : ips[k] = home'[h]
                /\ home'[h] \notin Repeated(ips) => handles'[home'[h]] = h
             \/ home'[h] = home[h] /\ server'[h] = server[h]
  <2>1. CASE h \in used + 1 .. used + Len(ips)
    <3> DEFINE k == h - used
    <3>1. k \in 1 .. Len(ips) /\ used + k = h /\ h > used  BY <1>1, <2>1
    <3>2. home'[h] = ips[k]  BY <1>2, <2>1
    <3> HIDE DEF k
    <3>3. ASSUME ips[k] \notin Repeated(ips) PROVE handles'[ips[k]] = h
      <4>1. /\ handles'[ips[k]] = used + LastAt(ips, ips[k])
            /\ LastAt(ips, ips[k]) \in 1 .. Len(ips) /\ ips[LastAt(ips, ips[k])] = ips[k]
        BY <1>1, <1>3, <3>1
      <4>2. LastAt(ips, ips[k]) = k  BY <3>1, <3>3, <4>1, UnrepeatedOnce
      <4> QED BY <3>1, <4>1, <4>2
    <3> QED BY <1>1, <3>1, <3>2, <3>3
  <2>2. CASE h \notin used + 1 .. used + Len(ips)
    BY <1>2, <2>2
  <2> QED BY <2>1, <2>2
<1> QED BY <1>4, <1>5

(* Removing a device. *)
LEMMA CutOnce ==
    ASSUME TypeOK, NEW i \in IPsOf(devices), NEW c, c = Cut(devices, FirstAt(i))
    PROVE  /\ \A j \in IPs : Once(devices, j) => Once(c, j)
           /\ \A j \in IPs : j # i => (j \in IPsOf(c) <=> j \in IPsOf(devices))
           /\ Once(devices, i) => i \notin IPsOf(c)
<1> DEFINE f == FirstAt(i)
           o(j) == IF j < f THEN j ELSE j + 1
<1>1. f \in 1 .. Len(devices) /\ devices[f].ip = i /\ devices \in Seq(Device) /\ Len(devices) \in Nat
  BY FirstAtProperties, LenProperties DEF TypeOK
<1>2. \A j \in IPsOf(devices) : j = i \/ j \in IPsOf(c)  BY CutDevices
<1>9. c = Cut(devices, f)  OBVIOUS
<1> HIDE DEF f
<1>3. /\ Len(c) = Len(devices) - 1
      /\ \A j \in 1 .. Len(devices) - 1 : c[j] = IF j < f THEN devices[j] ELSE devices[j + 1]
  BY <1>1, <1>9, CutOutProperties DEF Cut
<1>4. \A j \in 1 .. Len(c) : o(j) \in 1 .. Len(devices) /\ o(j) # f /\ c[j] = devices[o(j)]  BY <1>1, <1>3
<1>5. \A j, k \in 1 .. Len(c) : o(j) = o(k) => j = k  BY <1>1, <1>3
<1> HIDE DEF o
<1>6. ASSUME NEW a \in IPs, Once(devices, a) PROVE Once(c, a)
  <2> SUFFICES ASSUME NEW j \in 1 .. Len(c), NEW k \in 1 .. Len(c), c[j].ip = a, c[k].ip = a PROVE j = k
    BY DEF Once
  <2>1. o(j) = o(k)  BY <1>4, <1>6 DEF Once
  <2> QED BY <1>5, <2>1
<1>7. \A a \in IPsOf(c) : a \in IPsOf(devices)  BY <1>4 DEF IPsOf
<1>8. ASSUME Once(devices, i), i \in IPsOf(c) PROVE FALSE
  <2>1. PICK j \in 1 .. Len(c) : c[j].ip = i  BY <1>8 DEF IPsOf
  <2>2. o(j) \in 1 .. Len(devices) /\ o(j) # f /\ devices[o(j)].ip = i  BY <1>4, <2>1
  <2> QED BY <1>1, <1>8, <2>2 DEF Once
<1> QED BY <1>2, <1>6, <1>7, <1>8

(* Adding one. *)
LEMMA AppendOnce ==
    ASSUME TypeOK, NEW a \in IPs, NEW d, d = Append(devices, [ip |-> a, rev |-> 0])
    PROVE  /\ IPsOf(d) = IPsOf(devices) \cup {a}
           /\ \A j \in IPs : j # a /\ Once(devices, j) => Once(d, j)
           /\ a \notin IPsOf(devices) => Once(d, a)
<1>1. /\ Len(d) = Len(devices) + 1 /\ Len(devices) \in Nat
      /\ \A k \in 1 .. Len(devices) : d[k] = devices[k]
      /\ d[Len(devices) + 1].ip = a
  <2>1. [ip |-> a, rev |-> 0] \in Device  BY DEF Device
  <2> QED BY <2>1, AppendProperties, LenProperties DEF TypeOK
<1>2. \A k \in 1 .. Len(d) :
          \/ k \in 1 .. Len(devices) /\ d[k] = devices[k]
          \/ k = Len(devices) + 1 /\ d[k].ip = a
  BY <1>1
<1>3. IPsOf(d) = IPsOf(devices) \cup {a}
  <2>1. \A x \in IPsOf(d) : x \in IPsOf(devices) \cup {a}  BY <1>2 DEF IPsOf
  <2>2. \A k \in 1 .. Len(devices) : k \in 1 .. Len(d) /\ d[k] = devices[k]  BY <1>1
  <2>3. \A x \in IPsOf(devices) : x \in IPsOf(d)  BY <2>2 DEF IPsOf
  <2>4. Len(devices) + 1 \in 1 .. Len(d) /\ d[Len(devices) + 1].ip = a  BY <1>1
  <2>5. a \in IPsOf(d)  BY <2>4 DEF IPsOf
  <2> QED BY <2>1, <2>3, <2>5
<1>4. ASSUME NEW j \in IPs, j # a, Once(devices, j) PROVE Once(d, j)  BY <1>2, <1>4 DEF Once
<1>5. ASSUME a \notin IPsOf(devices) PROVE Once(d, a)
  <2>1. \A k \in 1 .. Len(devices) : devices[k].ip # a  BY <1>5 DEF IPsOf
  <2> QED BY <1>2, <2>1 DEF Once
<1> QED BY <1>3, <1>4, <1>5

(* Devices parsed from a list. *)
LEMMA FreshOnce ==
    ASSUME NEW ips \in Seq(IPs)
    PROVE  /\ IPsOf(Fresh(ips)) = {ips[k] : k \in 1 .. Len(ips)}
           /\ \A i \in IPs \ Repeated(ips) : Once(Fresh(ips), i)
<1> DEFINE g == Fresh(ips)
<1>1. Len(ips) \in Nat /\ ips \in [1 .. Len(ips) -> IPs]  BY LenProperties
<1>2. g \in [1 .. Len(ips) -> Device]  BY <1>1 DEF Fresh, Device
<1>3. Len(g) = Len(ips)  BY <1>1, <1>2, FunctionIsSeq
<1>4. \A k \in 1 .. Len(ips) : g[k].ip = ips[k]  BY DEF Fresh
<1> HIDE DEF g
<1>5. ASSUME NEW i \in IPs \ Repeated(ips) PROVE Once(g, i)
  BY <1>3, <1>4, UnrepeatedOnce DEF Once
<1>6. IPsOf(g) = {ips[k] : k \in 1 .. Len(ips)}  BY <1>3, <1>4 DEF IPsOf
<1> QED BY <1>5, <1>6 DEF g

----------------------------------------------------------------------------
(* Every step keeps list, map, servers and aliases in agreement *)

(* Requests that arrive, edit a device or save. *)
LEMMA BeginSound ==
    ASSUME Inv, Sound, NEW r \in Requests,
           \/ (\E ips \in Imports, a \in Auths : ImportBegin(r, ips, a)) \/ ClearBegin(r) \/ ResetBegin(r)
           \/ EditStep(r) \/ SaveSnapshot(r) \/ SaveWrite(r) \/ DeleteState(r)
    PROVE  Sound'
<1>a. TypeOK  BY DEF Inv
<1>b. op \in [Requests -> Operation] /\ pc \in [Requests -> PCs]  BY <1>a DEF TypeOK
<1>1. /\ up /\ pc[r] \in {"idle", "persist", "write"}
      /\ UNCHANGED <<up, mu, handles, used, home, server, closes, alias, cur, todo, ix, leaked, disputed>>
  BY DEF ImportBegin, ClearBegin, ResetBegin, EditStep, Edit, MoveRefused, Change, Begin,
         SaveSnapshot, SaveWrite, DeleteState, memory, servers, ghosts
<1>2. \/ pc' = pc /\ pc[r] = "idle"
      \/ \E l \in {"apply_lock", "write", "idle"} : pc' = [pc EXCEPT ![r] = l]
  BY DEF ImportBegin, ClearBegin, ResetBegin, EditStep, Edit, MoveRefused, Change, Begin,
         SaveSnapshot, SaveWrite, DeleteState, Goto
<1>3. pc'[r] \in {"apply_lock", "write", "idle"} /\ \A q \in Requests \ {r} : pc'[q] = pc[q]  BY <1>b, <1>2
<1>4. \A q \in Requests \ {r} : op'[q] = op[q]
  BY <1>b DEF ImportBegin, ClearBegin, ResetBegin, EditStep, Edit, MoveRefused, Change, Begin,
              SaveSnapshot, SaveWrite, DeleteState
<1>5. /\ IPsOf(devices') = IPsOf(devices) /\ Len(devices') = Len(devices)
      /\ \A k \in 1 .. Len(devices) : devices'[k].ip = devices[k].ip
      /\ devices = << >> => devices' = << >>
  <2>1. CASE EditStep(r)
    <3>1. PICK i \in IPs : Edit(r, i) \/ MoveRefused(r, i)  BY <2>1 DEF EditStep
    <3>2. /\ IPsOf(devices') = IPsOf(devices) /\ Len(devices') = Len(devices)
          /\ \A k \in 1 .. Len(devices) : devices'[k].ip = devices[k].ip
      BY <3>1, EditType
    <3>3. i \in IPsOf(devices)  BY <3>1 DEF Edit, MoveRefused, Change
    <3>4. devices # << >>  BY <3>3 DEF IPsOf
    <3> QED BY <3>2, <3>4
  <2>2. CASE ~EditStep(r)
    <3>1. devices' = devices
      BY <2>2 DEF ImportBegin, ClearBegin, ResetBegin, SaveSnapshot, SaveWrite, DeleteState, memory
    <3> QED BY <3>1 DEF IPsOf
  <2> QED BY <2>1, <2>2
<1>6. \A i \in IPs : ~Owns(r, i) /\ ~Busy(r, i)'
  BY <1>1, <1>3 DEF Owns, Busy
<1>7. /\ pc[r] \notin Applying \cup Removing /\ pc'[r] \notin Applying \cup Removing
      /\ \A q \in Requests \ {r} : pc'[q] = pc[q] /\ op'[q] = op[q]
      /\ disputed \subseteq disputed'
  BY <1>1, <1>3, <1>4 DEF Applying, Removing
<1>8. \A i \in IPs \ disputed' :
         /\ i \in alias' /\ i \notin alias => Owns(r, i)'
         /\ i \in alias /\ i \notin alias' => Busy(r, i)
         /\ i \in alias' /\ Owns(r, i) => Owns(r, i)'
         /\ Busy(r, i)' =>
               /\ mu = NoOne /\ i \notin IPsOf(devices)
               /\ \A p \in Requests \ {r} : ~Busy(p, i)
               /\ pc'[r] = "add_commit" => i \in alias'
  BY <1>1, <1>6
<1> QED BY <1>1, <1>5, <1>7, <1>8, QuietSound

(* AddDevice: the address is on the host before anything listens on it. *)
LEMMA AddSound ==
    ASSUME Inv, Sound, NEW r \in Requests, AddStep(r)
    PROVE  Sound'
<1>a. TypeOK  BY DEF Inv
<1>b. op \in [Requests -> Operation] /\ pc \in [Requests -> PCs] /\ devices \in Seq(Device)  BY <1>a DEF TypeOK
<1>1. ASSUME NEW a \in IPs, AddCheck(r, a) PROVE Sound'
  <2>1. /\ up /\ mu = NoOne /\ pc[r] = "idle"
        /\ UNCHANGED <<up, mu, devices, handles, used, home, server, closes, alias, cur, todo, ix, leaked>>
    BY <1>1 DEF AddCheck, Begin, Free, memory, servers
  <2>2. /\ pc'[r] = IF a \in IPsOf(devices) THEN "idle" ELSE "add_ip"
        /\ \A q \in Requests \ {r} : pc'[q] = pc[q] /\ op'[q] = op[q]
        /\ op'[r].ip = a
    BY <1>1, <1>b DEF AddCheck, Begin, Goto
  <2>3. disputed \subseteq disputed'  BY <1>1 DEF AddCheck, Contend
  <2>4. ASSUME NEW i \in IPs \ disputed', Busy(r, i)'
        PROVE  /\ mu = NoOne /\ i \notin IPsOf(devices)
               /\ \A p \in Requests \ {r} : ~Busy(p, i)
               /\ pc'[r] = "add_commit" => i \in alias'
    <3>1. i = a /\ pc'[r] = "add_ip" /\ a \notin IPsOf(devices)  BY <2>2, <2>4 DEF Busy
    <3>2. Contend(a)  BY <1>1, <3>1 DEF AddCheck
    <3>3. \A p \in Requests : ~Busy(p, a)  BY <2>4, <3>1, <3>2 DEF Contend
    <3> QED BY <2>1, <3>1, <3>3
  <2>5. \A i \in IPs : ~Owns(r, i)  BY <2>1 DEF Owns
  <2>6. pc[r] \notin Applying \cup Removing /\ pc'[r] \notin Applying \cup Removing
    BY <2>1, <2>2 DEF Applying, Removing
  <2>7. \A i \in IPs \ disputed' :
           /\ i \in alias' /\ i \notin alias => Owns(r, i)'
           /\ i \in alias /\ i \notin alias' => Busy(r, i)
           /\ i \in alias' /\ Owns(r, i) => Owns(r, i)'
           /\ Busy(r, i)' =>
                 /\ mu = NoOne /\ i \notin IPsOf(devices)
                 /\ \A p \in Requests \ {r} : ~Busy(p, i)
                 /\ pc'[r] = "add_commit" => i \in alias'
    BY <2>1, <2>4, <2>5
  <2> QED BY <2>1, <2>2, <2>3, <2>6, <2>7, QuietSound
<1>2. CASE AddAlias(r)
  <2> DEFINE a == op[r].ip
  <2>1. /\ up /\ pc[r] = "add_ip" /\ op' = op
        /\ UNCHANGED <<up, mu, devices, handles, used, home, server, closes, cur, todo, ix, leaked, disputed>>
    BY <1>2 DEF AddAlias, memory, servers, ghosts
  <2>2. \/ pc'[r] = "idle" /\ alias' = alias
        \/ pc'[r] = "add_commit" /\ alias' = alias \cup {a}
    BY <1>2, <1>b DEF AddAlias, Goto
  <2>3. \A q \in Requests \ {r} : pc'[q] = pc[q]  BY <1>2, <1>b DEF AddAlias, Goto
  <2>4. ASSUME NEW i \in IPs \ disputed, Busy(r, i)'
        PROVE  /\ mu = NoOne /\ i \notin IPsOf(devices)
               /\ \A p \in Requests \ {r} : ~Busy(p, i)
               /\ pc'[r] = "add_commit" => i \in alias'
    <3>1. Busy(r, i) /\ i = a  BY <2>1, <2>4 DEF Busy
    <3> QED BY <2>2, <3>1 DEF Sound, BusyInv
  <2>5. \A i \in IPs : ~Owns(r, i)  BY <2>1 DEF Owns
  <2>6. pc[r] \notin Applying \cup Removing /\ pc'[r] \notin Applying \cup Removing
    BY <2>1, <2>2 DEF Applying, Removing
  <2>7. ASSUME NEW i \in IPs, i \in alias', i \notin alias PROVE Owns(r, i)'
    BY <2>1, <2>2, <2>7 DEF Owns
  <2>8. alias \subseteq alias'  BY <2>2
  <2>9. \A i \in IPs \ disputed' :
           /\ i \in alias' /\ i \notin alias => Owns(r, i)'
           /\ i \in alias /\ i \notin alias' => Busy(r, i)
           /\ i \in alias' /\ Owns(r, i) => Owns(r, i)'
           /\ Busy(r, i)' =>
                 /\ mu = NoOne /\ i \notin IPsOf(devices)
                 /\ \A p \in Requests \ {r} : ~Busy(p, i)
                 /\ pc'[r] = "add_commit" => i \in alias'
    BY <2>1, <2>4, <2>5, <2>7, <2>8
  <2> QED BY <2>1, <2>3, <2>6, <2>9, QuietSound
<1>3. CASE AddCommit(r)
  <2> DEFINE a == op[r].ip
  <2>1. /\ up /\ mu = NoOne /\ pc[r] = "add_commit" /\ op' = op
        /\ devices' = Append(devices, [ip |-> a, rev |-> 0]) /\ StartServers(<<a>>, handles)
        /\ UNCHANGED <<up, mu, closes, alias, cur, todo, ix, leaked, disputed>>
    BY <1>3 DEF AddCommit, Free
  <2>2. pc'[r] = "idle" /\ \A q \in Requests \ {r} : pc'[q] = pc[q]  BY <1>3, <1>b DEF AddCommit, Goto
  <2>3. a \in IPs  BY <1>3 DEF AddCommit, Inv, OpInv
  <2> HIDE DEF a
  <2>4. a \notin disputed =>
           /\ a \notin IPsOf(devices) /\ a \in alias /\ handles[a] = NoOne
           /\ \A p \in Requests : Busy(p, a) => p = r
    <3>1. Busy(r, a)  BY <2>1 DEF Busy, a
    <3>2. a \notin disputed => a \notin IPsOf(devices) /\ a \in alias /\ \A p \in Requests : Busy(p, a) => p = r
      BY <2>1, <2>3, <3>1 DEF Sound, BusyInv
    <3> QED BY <2>3, <3>2 DEF Inv, Core, MapInv
  <2>5. /\ \A i \in IPs : IF i = a
                          THEN /\ handles'[i] \in Handles /\ handles'[i] > used
                               /\ \A s \in Services : server'[handles'[i]][s] = "spawned"
                          ELSE handles'[i] = handles[i]
        /\ \A h \in Handles :
              \/ h > used /\ home'[h] = a /\ (a \notin disputed => handles'[a] = h)
              \/ home'[h] = home[h] /\ server'[h] = server[h]
    <3> DEFINE l == <<a>>
    <3>1. /\ l \in Seq(IPs) /\ StartServers(l, handles) /\ handles \in [IPs -> Handles \cup {NoOne}]
          /\ \A i \in IPs : (\E k \in 1 .. Len(l) : l[k] = i) <=> i = a
          /\ Repeated(l) = {}
      BY <1>a, <2>1, <2>3 DEF TypeOK, Repeated
    <3> HIDE DEF l
    <3>2. /\ \A i \in IPs : IF \E k \in 1 .. Len(l) : l[k] = i
                            THEN /\ handles'[i] \in Handles /\ handles'[i] > used
                                 /\ \A s \in Services : server'[handles'[i]][s] = "spawned"
                            ELSE handles'[i] = handles[i]
          /\ \A h \in Handles :
                \/ /\ h > used /\ home'[h] \in IPs
                   /\ \E k \in 1 .. Len(l) : l[k] = home'[h]
                   /\ home'[h] \notin Repeated(l) => handles'[home'[h]] = h
                \/ home'[h] = home[h] /\ server'[h] = server[h]
      BY <1>a, <3>1, StartUnrepeated
    <3> QED BY <3>1, <3>2
  <2>6. /\ IPsOf(devices') = IPsOf(devices) \cup {a}
        /\ \A j \in IPs : j # a /\ Once(devices, j) => Once(devices', j)
        /\ a \notin IPsOf(devices) => Once(devices', a)
    BY <1>a, <2>1, <2>3, AppendOnce
  <2>7. \A q \in Requests \ {r}, i \in IPs : (Busy(q, i)' <=> Busy(q, i)) /\ (Owns(q, i)' <=> Owns(q, i))
    BY <2>1, <2>2 DEF Busy, Owns
  <2>8. \A q \in Requests : pc[q] \notin Applying  BY <2>1, NoneApplying
  <2>9. \A i \in IPs : ~Busy(r, i)' /\ ~Owns(r, i)' /\ (Owns(r, i) => i = a)
    BY <2>1, <2>2 DEF Busy, Owns, a
  <2>15. used' = used + 1
    <3>1. StartServers(<<a>>, handles) /\ Len(<<a>>) = 1  BY <2>1
    <3> QED BY <3>1 DEF StartServers
  <2>10. DownInv'  BY <2>1 DEF DownInv
  <2>11. BusyInv'
    <3> SUFFICES ASSUME NEW i \in IPs \ disputed, NEW q \in Requests, Busy(q, i)'
                 PROVE  /\ mu = NoOne /\ i \notin IPsOf(devices')
                        /\ \A p \in Requests : Busy(p, i)' => p = q
                        /\ pc'[q] = "add_commit" => i \in alias
      BY <2>1 DEF BusyInv
    <3>1. q # r /\ Busy(q, i)  BY <2>7, <2>9
    <3>2. /\ i \notin IPsOf(devices) /\ (\A p \in Requests : Busy(p, i) => p = q)
          /\ pc[q] = "add_commit" => i \in alias
      BY <3>1 DEF Sound, BusyInv
    <3>3. i # a  BY <2>4, <3>1
    <3> QED BY <2>1, <2>2, <2>6, <2>7, <2>9, <3>1, <3>2, <3>3
  <2>12. ListInv'
    <3> SUFFICES ASSUME NEW i \in IPs \ disputed
                 PROVE  /\ Once(devices', i)
                        /\ i \in IPsOf(devices') => i \in alias /\ handles'[i] # NoOne
                        /\ i \in alias =>
                              \/ i \in IPsOf(devices') \/ i \in leaked
                              \/ \E q \in Requests : Owns(q, i)' \/ Added(q, i)'
      BY <2>1 DEF ListInv
    <3>1. Once(devices, i) /\ (i \in IPsOf(devices) => i \in alias /\ handles[i] # NoOne)
      BY DEF Sound, ListInv
    <3>2. Once(devices', i)  BY <2>4, <2>6, <3>1
    <3>3. i \in IPsOf(devices') => i \in alias /\ handles'[i] # NoOne
      BY <2>4, <2>5, <2>6, <3>1, ConstantsAssumption
    <3>4. ASSUME i \in alias, i \notin IPsOf(devices'), i \notin leaked
          PROVE  \E q \in Requests : Owns(q, i)' \/ Added(q, i)'
      <4>1. PICK q \in Requests : Owns(q, i) \/ Added(q, i)  BY <2>1, <2>6, <3>4 DEF Sound, ListInv
      <4>2. Owns(q, i)  BY <2>8, <4>1 DEF Added, Applying
      <4> QED BY <2>6, <2>7, <2>9, <3>4, <4>2
    <3> QED BY <3>2, <3>3, <3>4
  <2>13. ApplyInv'
    <3>1. \A q \in Requests : pc'[q] \notin {"apply_ips", "apply_add"}  BY <2>2, <2>8 DEF Applying
    <3> QED BY <3>1 DEF ApplyInv
  <2>14. ServerInv'
    <3>1. ASSUME NEW h \in Handles, Alive(h)'
          PROVE  /\ home'[h] \in IPs
                 /\ home'[h] \notin disputed =>
                       handles'[home'[h]] = h \/ \E q \in Requests : cur[q] = h /\ pc'[q] \in Removing
      <4>1. CASE home'[h] = a /\ (a \notin disputed => handles'[a] = h)  BY <2>3, <4>1
      <4>2. CASE home'[h] = home[h] /\ server'[h] = server[h]
        <5>1. Alive(h)  BY <3>1, <4>2 DEF Alive
        <5>2. /\ home[h] \in IPs
              /\ home[h] \notin disputed =>
                    handles[home[h]] = h \/ \E q \in Requests : cur[q] = h /\ pc[q] \in Removing
          BY <5>1 DEF Sound, ServerInv
        <5>3. ASSUME NEW q \in Requests, cur[q] = h, pc[q] \in Removing PROVE pc'[q] \in Removing
          BY <2>1, <2>2, <5>3 DEF Removing
        <5>4. ASSUME home[h] \notin disputed, handles[home[h]] = h PROVE handles'[home[h]] = h
          <6>1. home[h] # a  BY <2>4, <5>4, ConstantsAssumption
          <6> QED BY <2>5, <5>2, <5>4, <6>1
        <5> QED BY <4>2, <5>2, <5>3, <5>4
      <4> QED BY <2>5, <4>1, <4>2
    <3>2. ASSUME NEW i \in IPs \ disputed, handles'[i] # NoOne, closes[handles'[i]] = 0, NEW s \in Services
          PROVE  server'[handles'[i]][s] \in {"spawned", "listening"}
      <4>1. CASE i = a  BY <2>5, <4>1
      <4>2. CASE i # a
        <5>1. handles'[i] = handles[i]  BY <2>5, <4>2
        <5>2. handles[i] \in Handles /\ handles[i] <= used /\ used \in Nat
          BY <1>a, <3>2, <5>1 DEF TypeOK, Inv, Core, MapInv
        <5>3. ~(handles[i] > used)  BY <5>2 DEF Handles
        <5>4. server'[handles[i]] = server[handles[i]]  BY <2>5, <5>2, <5>3
        <5>5. server[handles[i]][s] \in {"spawned", "listening"}  BY <3>2, <5>1 DEF Sound, ServerInv
        <5> QED BY <5>1, <5>4, <5>5
      <4> QED BY <4>1, <4>2
    <3>3. ASSUME NEW q \in Requests
          PROVE  /\ pc'[q] \notin {"apply_stop", "apply_wait"}
                 /\ pc'[q] \in Removing => cur[q] \in Handles /\ cur[q] <= used' /\ home'[cur[q]] = op[q].ip
      <4>1. pc'[q] \notin {"apply_stop", "apply_wait"}  BY <2>2, <2>8 DEF Applying
      <4>2. ASSUME pc'[q] \in Removing PROVE cur[q] \in Handles /\ cur[q] <= used' /\ home'[cur[q]] = op[q].ip
        <5>1. pc[q] \in Removing  BY <2>2, <4>2 DEF Removing
        <5>2. cur[q] \in Handles /\ cur[q] <= used /\ home[cur[q]] = op[q].ip  BY <5>1 DEF Sound, ServerInv
        <5>3. used \in Nat /\ used' \in Nat /\ used <= used'  BY <1>a, <2>15 DEF TypeOK
        <5>4. cur[q] <= used' /\ ~(cur[q] > used)  BY <5>2, <5>3 DEF Handles
        <5> QED BY <2>5, <5>2, <5>4
      <4> QED BY <4>1, <4>2
    <3> QED BY <2>1, <3>1, <3>2, <3>3 DEF ServerInv
  <2> QED BY <2>10, <2>11, <2>12, <2>13, <2>14 DEF Sound
<1> QED BY <1>1, <1>2, <1>3 DEF AddStep


(* RemoveDevice: the address leaves the list with its only handle, and the host
   when nothing listens on it any more. *)
LEMMA RemoveSound ==
    ASSUME Inv, Sound, NEW r \in Requests, RemoveStep(r)
    PROVE  Sound'
<1>a. TypeOK  BY DEF Inv
<1>b. /\ op \in [Requests -> Operation] /\ pc \in [Requests -> PCs]
      /\ cur \in [Requests -> Handles \cup {NoOne}] /\ handles \in [IPs -> Handles \cup {NoOne}]
      /\ closes \in [Handles -> Nat]
  BY <1>a DEF TypeOK
<1>1. ASSUME NEW a \in IPs, RemoveLocked(r, a) PROVE Sound'
  <2>1. /\ up /\ mu = NoOne /\ pc[r] = "idle" /\ a \in IPsOf(devices)
        /\ devices' = Cut(devices, FirstAt(a))
        /\ UNCHANGED <<up, mu, used, home, server, closes, alias, todo, ix, leaked>>
    BY <1>1 DEF RemoveLocked, Begin, Free, servers
  <2>2. /\ pc'[r] = IF handles[a] = NoOne THEN "remove_ip" ELSE "remove_stop"
        /\ op'[r].ip = a /\ cur'[r] = handles[a]
    BY <1>1, <1>b DEF RemoveLocked, Begin, Goto
  <2>3. \A q \in Requests \ {r} : pc'[q] = pc[q] /\ op'[q] = op[q] /\ cur'[q] = cur[q]
    BY <1>1, <1>b DEF RemoveLocked, Begin, Goto
  <2>4. \A i \in IPs : handles'[i] = IF i = a THEN NoOne ELSE handles[i]  BY <1>1, <1>b DEF RemoveLocked
  <2>5. disputed \subseteq disputed' /\ (a \notin disputed' => \A p \in Requests : ~Busy(p, a))
    BY <1>1 DEF RemoveLocked, Contend
  <2>6. /\ \A j \in IPs : Once(devices, j) => Once(devices', j)
        /\ \A j \in IPs : j # a => (j \in IPsOf(devices') <=> j \in IPsOf(devices))
        /\ Once(devices, a) => a \notin IPsOf(devices')
    BY <1>a, <2>1, CutOnce
  <2>7. \A q \in Requests \ {r}, i \in IPs :
            (Busy(q, i)' <=> Busy(q, i)) /\ (Owns(q, i)' <=> Owns(q, i)) /\ (Added(q, i)' <=> Added(q, i))
    BY <2>1, <2>3 DEF Busy, Owns, Added
  <2>8. \A q \in Requests : pc[q] \notin Applying /\ pc'[q] \notin Applying
    BY <2>1, <2>2, <2>3, NoneApplying DEF Applying
  <2>9. \A i \in IPs : /\ Busy(r, i)' => i = a /\ pc'[r] # "add_commit"
                       /\ ~Owns(r, i) /\ ~Added(r, i) /\ Owns(r, a)'
    BY <2>1, <2>2 DEF Busy, Owns, Added
  <2>10. DownInv'  BY <2>1 DEF DownInv
  <2>11. BusyInv'
    <3> SUFFICES ASSUME NEW i \in IPs \ disputed', NEW q \in Requests, Busy(q, i)'
                 PROVE  /\ mu = NoOne /\ i \notin IPsOf(devices')
                        /\ \A p \in Requests : Busy(p, i)' => p = q
                        /\ pc'[q] = "add_commit" => i \in alias
      BY <2>1 DEF BusyInv
    <3>1. CASE q = r
      <4>1. i = a /\ Once(devices, a)  BY <2>5, <2>9, <3>1 DEF Sound, ListInv
      <4> QED BY <2>1, <2>5, <2>6, <2>7, <2>9, <3>1, <4>1
    <3>2. CASE q # r
      <4>1. Busy(q, i) /\ i \in IPs \ disputed /\ i # a  BY <2>5, <2>7, <3>2
      <4>2. /\ i \notin IPsOf(devices) /\ (\A p \in Requests : Busy(p, i) => p = q)
            /\ pc[q] = "add_commit" => i \in alias
        BY <4>1 DEF Sound, BusyInv
      <4> QED BY <2>1, <2>3, <2>6, <2>7, <2>9, <3>2, <4>1, <4>2
    <3> QED BY <3>1, <3>2
  <2>12. ListInv'
    <3> SUFFICES ASSUME NEW i \in IPs \ disputed'
                 PROVE  /\ Once(devices', i)
                        /\ i \in IPsOf(devices') => i \in alias /\ handles'[i] # NoOne
                        /\ i \in alias =>
                              \/ i \in IPsOf(devices') \/ i \in leaked
                              \/ \E q \in Requests : Owns(q, i)' \/ Added(q, i)'
      BY <2>1 DEF ListInv
    <3>1. i \in IPs \ disputed  BY <2>5
    <3>2. Once(devices, i) /\ (i \in IPsOf(devices) => i \in alias /\ handles[i] # NoOne)
      BY <3>1 DEF Sound, ListInv
    <3>3. i \in IPsOf(devices') => i # a /\ i \in alias /\ handles'[i] # NoOne
      BY <2>4, <2>6, <3>2
    <3>4. ASSUME i \in alias, i \notin IPsOf(devices'), i \notin leaked
          PROVE  \E q \in Requests : Owns(q, i)' \/ Added(q, i)'
      <4>1. CASE i = a  BY <2>9, <4>1
      <4>2. CASE i # a
        <5>1. PICK q \in Requests : Owns(q, i) \/ Added(q, i)
          BY <2>1, <2>6, <3>1, <3>4, <4>2 DEF Sound, ListInv
        <5> QED BY <2>7, <2>9, <5>1
      <4> QED BY <4>1, <4>2
    <3> QED BY <2>6, <3>2, <3>3, <3>4
  <2>13. ApplyInv'  BY <2>8 DEF ApplyInv, Applying
  <2>14. ServerInv'
    <3>1. ASSUME NEW h \in Handles, Alive(h)'
          PROVE  /\ home[h] \in IPs
                 /\ home[h] \notin disputed' =>
                       handles'[home[h]] = h \/ \E q \in Requests : cur'[q] = h /\ pc'[q] \in Removing
      <4>1. Alive(h)  BY <2>1, <3>1 DEF Alive
      <4>2. /\ home[h] \in IPs
            /\ home[h] \notin disputed' =>
                  handles[home[h]] = h \/ \E q \in Requests : cur[q] = h /\ pc[q] \in Removing
        BY <2>5, <4>1 DEF Sound, ServerInv
      <4>3. ASSUME handles[home[h]] = h
            PROVE  handles'[home[h]] = h \/ \E q \in Requests : cur'[q] = h /\ pc'[q] \in Removing
        <5>1. CASE home[h] = a
          <6>1. handles[a] = h /\ h # NoOne  BY <4>3, <5>1, ConstantsAssumption
          <6> QED BY <2>2, <6>1 DEF Removing
        <5>2. CASE home[h] # a  BY <2>4, <4>2, <4>3, <5>2
        <5> QED BY <5>1, <5>2
      <4>4. ASSUME NEW q \in Requests, cur[q] = h, pc[q] \in Removing PROVE cur'[q] = h /\ pc'[q] \in Removing
        <5>1. q # r  BY <2>1, <4>4 DEF Removing
        <5> QED BY <2>3, <4>4, <5>1
      <4> QED BY <4>2, <4>3, <4>4
    <3>2. \A i \in IPs \ disputed' : handles'[i] # NoOne /\ closes[handles'[i]] = 0 =>
              \A s \in Services : server[handles'[i]][s] \in {"spawned", "listening"}
      BY <2>4, <2>5 DEF Sound, ServerInv
    <3>3. ASSUME NEW q \in Requests, pc'[q] \in Removing
          PROVE  cur'[q] \in Handles /\ cur'[q] <= used /\ home[cur'[q]] = op'[q].ip
      <4>1. CASE q = r
        <5>1. handles[a] # NoOne  BY <2>2, <3>3, <4>1 DEF Removing
        <5> QED BY <1>b, <2>2, <4>1, <5>1 DEF Inv, Core, MapInv
      <4>2. CASE q # r
        <5>1. pc[q] \in Removing /\ cur'[q] = cur[q] /\ op'[q] = op[q]  BY <2>3, <3>3, <4>2
        <5> QED BY <5>1 DEF Sound, ServerInv
      <4> QED BY <4>1, <4>2
    <3>4. \A q \in Requests : pc'[q] \notin {"apply_stop", "apply_wait"}  BY <2>8 DEF Applying
    <3> QED BY <2>1, <3>1, <3>2, <3>3, <3>4 DEF ServerInv
  <2> QED BY <2>10, <2>11, <2>12, <2>13, <2>14 DEF Sound
<1>2. CASE RemoveStop(r) \/ RemoveWait(r)
  <2>1. /\ up /\ pc[r] \in Removing /\ op' = op
        /\ UNCHANGED <<up, mu, devices, handles, used, home, server, alias, todo, ix, leaked, disputed>>
    BY <1>2 DEF RemoveStop, RemoveWait, memory, servers, ghosts, Removing
  <2>2. pc'[r] \in {"remove_wait", "remove_ip"} /\ \A q \in Requests \ {r} : pc'[q] = pc[q]
    BY <1>2, <1>b DEF RemoveStop, RemoveWait, Goto
  <2>3. \A q \in Requests \ {r} : cur'[q] = cur[q]  BY <1>2, <1>b DEF RemoveStop, RemoveWait
  <2>4. pc'[r] = "remove_wait" => cur'[r] = cur[r]
    BY <1>2, <1>b DEF RemoveStop, RemoveWait, Goto
  <2>5. ~Alive(cur[r]) \/ pc'[r] = "remove_wait"
    BY <1>2, <1>b DEF RemoveStop, RemoveWait, Goto, Alive, AllReturned
  <2>6. \A h \in Handles : closes'[h] = 0 => closes[h] = 0
    <3>1. CASE RemoveStop(r)
      <4>1. cur[r] \in Handles  BY <2>1 DEF Sound, ServerInv
      <4> QED BY <1>b, <3>1, <4>1 DEF RemoveStop
    <3>2. CASE RemoveWait(r)  BY <3>2 DEF RemoveWait, servers
    <3> QED BY <1>2, <3>1, <3>2
  <2>7. \A q \in Requests, i \in IPs :
            (Busy(q, i)' <=> Busy(q, i)) /\ (Owns(q, i)' <=> Owns(q, i)) /\ (Added(q, i)' <=> Added(q, i))
    BY <2>1, <2>2 DEF Busy, Owns, Added, Removing
  <2>8. \A q \in Requests : pc'[q] \in Applying \cup {"add_commit"} => pc'[q] = pc[q] /\ q # r
    BY <2>2 DEF Applying
  <2>9. DownInv'  BY <2>1 DEF DownInv
  <2>10. BusyInv'
    <3> SUFFICES ASSUME NEW i \in IPs \ disputed, NEW q \in Requests, Busy(q, i)
                 PROVE  /\ mu = NoOne /\ i \notin IPsOf(devices)
                        /\ \A p \in Requests : Busy(p, i) => p = q
                        /\ pc'[q] = "add_commit" => i \in alias
      BY <2>1, <2>7 DEF BusyInv
    <3> QED BY <2>8 DEF Sound, BusyInv
  <2>11. ListInv'
    <3>1. \A i \in IPs : Once(devices', i) <=> Once(devices, i)  BY <2>1 DEF Once
    <3>2. ASSUME NEW i \in IPs \ disputed
          PROVE  /\ Once(devices', i)
                 /\ i \in IPsOf(devices) => i \in alias /\ handles[i] # NoOne
                 /\ i \in alias =>
                       \/ i \in IPsOf(devices) \/ i \in leaked
                       \/ \E q \in Requests : Owns(q, i)' \/ Added(q, i)'
      BY <2>1, <2>7, <3>1 DEF Sound, ListInv
    <3> QED BY <2>1, <3>2 DEF ListInv
  <2>12. ApplyInv'
    <3>1. ASSUME NEW q \in Requests, pc'[q] \in {"apply_ips", "apply_add"}
          PROVE  /\ devices = << >> /\ ix[q] <= Len(op[q].cfg) + 1
                 /\ \A k \in 1 .. ix[q] - 1 : op[q].cfg[k] \notin disputed => op[q].cfg[k] \in alias
      <4>1. pc[q] = pc'[q]  BY <2>8, <3>1 DEF Applying
      <4> QED BY <3>1, <4>1 DEF Sound, ApplyInv
    <3> QED BY <2>1, <3>1 DEF ApplyInv
  <2>13. ServerInv'
    <3>1. ASSUME NEW h \in Handles, Alive(h)'
          PROVE  /\ home[h] \in IPs
                 /\ home[h] \notin disputed =>
                       handles[home[h]] = h \/ \E q \in Requests : cur'[q] = h /\ pc'[q] \in Removing
      <4>1. Alive(h)  BY <2>1, <3>1 DEF Alive
      <4>2. ASSUME NEW q \in Requests, cur[q] = h, pc[q] \in Removing PROVE cur'[q] = h /\ pc'[q] \in Removing
        BY <2>2, <2>3, <2>4, <2>5, <4>1, <4>2 DEF Removing
      <4> QED BY <4>1, <4>2 DEF Sound, ServerInv
    <3>2. ASSUME NEW i \in IPs \ disputed, handles[i] # NoOne, closes'[handles[i]] = 0, NEW s \in Services
          PROVE  server[handles[i]][s] \in {"spawned", "listening"}
      <4>1. handles[i] \in Handles  BY <1>b, <3>2
      <4> QED BY <2>6, <3>2, <4>1 DEF Sound, ServerInv
    <3>3. ASSUME NEW q \in Requests, pc'[q] \in Removing
          PROVE  cur'[q] \in Handles /\ cur'[q] <= used /\ home[cur'[q]] = op[q].ip
      <4>1. pc[q] \in Removing /\ cur'[q] = cur[q]  BY <2>1, <2>2, <2>3, <2>4, <3>3 DEF Removing
      <4> QED BY <4>1 DEF Sound, ServerInv
    <3>4. ASSUME NEW q \in Requests, pc'[q] \in {"apply_stop", "apply_wait"},
                 NEW i \in IPs, handles[i] # NoOne, i \notin todo[q]
          PROVE  AllReturned(handles[i])' \/ (pc'[q] = "apply_wait" /\ cur'[q] = handles[i])
      <4>1. pc[q] = pc'[q] /\ q # r /\ cur'[q] = cur[q]  BY <2>3, <2>8, <3>4 DEF Applying
      <4>2. AllReturned(handles[i]) \/ (pc[q] = "apply_wait" /\ cur[q] = handles[i])
        BY <3>4, <4>1 DEF Sound, ServerInv
      <4>3. AllReturned(handles[i])' <=> AllReturned(handles[i])  BY <2>1 DEF AllReturned
      <4> QED BY <4>1, <4>2, <4>3
    <3>5. \A q \in Requests : pc'[q] \in {"apply_stop", "apply_wait"} =>
              \A i \in IPs : handles'[i] # NoOne /\ i \notin todo'[q] =>
                  AllReturned(handles[i])' \/ (pc'[q] = "apply_wait" /\ cur'[q] = handles'[i])
      BY <2>1, <3>4
    <3> QED BY <2>1, <3>1, <3>2, <3>3, <3>5 DEF ServerInv, AllReturned
  <2> QED BY <2>9, <2>10, <2>11, <2>12, <2>13 DEF Sound
<1>3. CASE RemoveAlias(r)
  <2>1. /\ up /\ pc[r] = "remove_ip" /\ op' = op /\ alias' = alias \ {op[r].ip}
        /\ UNCHANGED <<up, mu, devices, handles, used, home, server, closes, cur, todo, ix, leaked, disputed>>
    BY <1>3 DEF RemoveAlias, memory, servers, ghosts
  <2>2. pc'[r] = "idle" /\ \A q \in Requests \ {r} : pc'[q] = pc[q]  BY <1>3, <1>b DEF RemoveAlias, Goto
  <2>3. pc[r] \notin Applying \cup Removing /\ pc'[r] \notin Applying \cup Removing
    BY <2>1, <2>2 DEF Applying, Removing
  <2>4. \A i \in IPs : ~Busy(r, i)'  BY <2>2 DEF Busy
  <2>5. ASSUME NEW i \in IPs, i \notin alias', i \in alias PROVE Busy(r, i)  BY <2>1, <2>5 DEF Busy
  <2>6. ASSUME NEW i \in IPs, i \in alias' PROVE i \in alias /\ ~Owns(r, i)  BY <2>1, <2>6 DEF Owns
  <2>7. \A i \in IPs \ disputed' :
           /\ i \in alias' /\ i \notin alias => Owns(r, i)'
           /\ i \in alias /\ i \notin alias' => Busy(r, i)
           /\ i \in alias' /\ Owns(r, i) => Owns(r, i)'
           /\ Busy(r, i)' =>
                 /\ mu = NoOne /\ i \notin IPsOf(devices)
                 /\ \A p \in Requests \ {r} : ~Busy(p, i)
                 /\ pc'[r] = "add_commit" => i \in alias'
    BY <2>4, <2>5, <2>6
  <2> QED BY <2>1, <2>2, <2>3, <2>7, QuietSound
<1> QED BY <1>1, <1>2, <1>3 DEF RemoveStep

(* applyConfig takes the lock, stops every handle of the map and waits for its
   servers. *)
LEMMA ApplyStopSound ==
    ASSUME Inv, Sound, NEW r \in Requests, ApplyLock(r) \/ ApplyStop(r) \/ ApplyWait(r)
    PROVE  Sound'
<1>a. TypeOK  BY DEF Inv
<1>b. /\ pc \in [Requests -> PCs] /\ cur \in [Requests -> Handles \cup {NoOne}] /\ todo \in [Requests -> SUBSET IPs]
      /\ handles \in [IPs -> Handles \cup {NoOne}] /\ closes \in [Handles -> Nat]
  BY <1>a DEF TypeOK
<1>1. /\ up /\ pc[r] \in {"apply_lock", "apply_stop", "apply_wait"}
      /\ UNCHANGED <<up, devices, handles, used, home, server, alias, leaked, op, ix>>
  BY DEF ApplyLock, ApplyStop, ApplyWait, memory, servers, ghosts
<1>2. pc'[r] \in {"apply_stop", "apply_wait"} /\ \A q \in Requests \ {r} : pc'[q] = pc[q]
  BY <1>b DEF ApplyLock, ApplyStop, ApplyWait, Goto
<1>3. \A q \in Requests \ {r} : cur'[q] = cur[q] /\ todo'[q] = todo[q]
  BY <1>b DEF ApplyLock, ApplyStop, ApplyWait
<1>4. /\ disputed \subseteq disputed'
      /\ \A i \in IPs \ disputed', q \in Requests : ~Busy(q, i)
      /\ \A q \in Requests \ {r} : pc[q] \notin Applying
  <2>1. CASE ApplyLock(r)
    <3>1. mu = NoOne /\ disputed' = disputed \cup {i \in IPs : \E q \in Requests : Busy(q, i)}
      BY <2>1 DEF ApplyLock, Free
    <3> QED BY <3>1, NoneApplying
  <2>2. CASE ApplyStop(r) \/ ApplyWait(r)
    <3>1. pc[r] \in Applying /\ disputed' = disputed  BY <2>2 DEF ApplyStop, ApplyWait, Applying, ghosts
    <3>2. mu = r  BY <3>1 DEF Inv, Core, LockInv
    <3> QED BY <3>1, <3>2, HeldAlone
  <2> QED BY <2>1, <2>2
<1>5. \A h \in Handles : closes'[h] = 0 => closes[h] = 0
  <2>1. CASE ApplyLock(r) \/ ApplyWait(r)
    <3>1. closes' = closes  BY <2>1 DEF ApplyLock, ApplyWait, servers
    <3> QED BY <3>1
  <2>2. CASE ApplyStop(r)
    <3>1. PICK i \in todo[r] : closes' = [closes EXCEPT ![handles[i]] = @ + 1]  BY <2>2 DEF ApplyStop
    <3> QED BY <1>b, <3>1
  <2> QED BY <2>1, <2>2
<1>6. ASSUME NEW i \in IPs, handles[i] # NoOne, i \notin todo'[r]
      PROVE  AllReturned(handles[i]) \/ (pc'[r] = "apply_wait" /\ cur'[r] = handles[i])
  <2>1. CASE ApplyLock(r)
    <3>1. todo'[r] = {j \in IPs : handles[j] # NoOne}  BY <1>b, <2>1 DEF ApplyLock
    <3> QED BY <1>6, <3>1
  <2>2. CASE ApplyStop(r)
    <3>1. PICK j \in todo[r] : cur' = [cur EXCEPT ![r] = handles[j]] /\ todo' = [todo EXCEPT ![r] = @ \ {j}]
      BY <2>2 DEF ApplyStop
    <3>2. pc[r] = "apply_stop" /\ pc'[r] = "apply_wait"  BY <1>b, <2>2 DEF ApplyStop, Goto
    <3>3. CASE i = j  BY <1>b, <3>1, <3>2, <3>3
    <3>4. CASE i # j
      <4>1. i \notin todo[r]  BY <1>b, <1>6, <3>1, <3>4
      <4> QED BY <1>6, <3>2, <4>1 DEF Sound, ServerInv
    <3> QED BY <3>3, <3>4
  <2>3. CASE ApplyWait(r)
    <3>1. pc[r] = "apply_wait" /\ todo' = todo /\ AllReturned(cur[r])  BY <2>3 DEF ApplyWait
    <3> QED BY <1>6, <3>1 DEF Sound, ServerInv
  <2> QED BY <2>1, <2>2, <2>3
<1>7. \A q \in Requests, i \in IPs :
          (Busy(q, i)' <=> Busy(q, i)) /\ (Owns(q, i)' <=> Owns(q, i)) /\ (Added(q, i)' <=> Added(q, i))
  BY <1>1, <1>2 DEF Busy, Owns, Added
<1>8. DownInv'  BY <1>1 DEF DownInv
<1>9. BusyInv'  BY <1>4, <1>7 DEF BusyInv
<1>10. ListInv'
  <2>1. \A i \in IPs : Once(devices', i) <=> Once(devices, i)  BY <1>1 DEF Once
  <2>2. ASSUME NEW i \in IPs \ disputed'
        PROVE  /\ Once(devices', i)
               /\ i \in IPsOf(devices) => i \in alias /\ handles[i] # NoOne
               /\ i \in alias =>
                     \/ i \in IPsOf(devices) \/ i \in leaked
                     \/ \E q \in Requests : Owns(q, i)' \/ Added(q, i)'
    BY <1>1, <1>4, <1>7, <2>1 DEF Sound, ListInv
  <2> QED BY <1>1, <2>2 DEF ListInv
<1>11. ApplyInv'
  <2>1. \A q \in Requests : pc'[q] \notin {"apply_ips", "apply_add"}  BY <1>2, <1>4 DEF Applying
  <2> QED BY <2>1 DEF ApplyInv
<1>12. ServerInv'
  <2>1. ASSUME NEW h \in Handles, Alive(h)'
        PROVE  /\ home[h] \in IPs
               /\ home[h] \notin disputed' =>
                     handles[home[h]] = h \/ \E q \in Requests : cur'[q] = h /\ pc'[q] \in Removing
    <3>1. Alive(h)  BY <1>1, <2>1 DEF Alive
    <3>2. ASSUME NEW q \in Requests, cur[q] = h, pc[q] \in Removing PROVE cur'[q] = h /\ pc'[q] \in Removing
      <4>1. q # r  BY <1>1, <3>2 DEF Removing
      <4> QED BY <1>2, <1>3, <3>2, <4>1
    <3> QED BY <1>4, <3>1, <3>2 DEF Sound, ServerInv
  <2>2. ASSUME NEW i \in IPs \ disputed', handles[i] # NoOne, closes'[handles[i]] = 0, NEW s \in Services
        PROVE  server[handles[i]][s] \in {"spawned", "listening"}
    <3>1. handles[i] \in Handles /\ i \in IPs \ disputed  BY <1>b, <1>4, <2>2
    <3> QED BY <1>5, <2>2, <3>1 DEF Sound, ServerInv
  <2>3. ASSUME NEW q \in Requests, pc'[q] \in Removing
        PROVE  cur'[q] \in Handles /\ cur'[q] <= used /\ home[cur'[q]] = op[q].ip
    <3>1. q # r  BY <1>2, <2>3 DEF Removing
    <3>2. pc[q] \in Removing /\ cur'[q] = cur[q]  BY <1>2, <1>3, <2>3, <3>1
    <3> QED BY <3>2 DEF Sound, ServerInv
  <2>4. ASSUME NEW q \in Requests, pc'[q] \in {"apply_stop", "apply_wait"},
               NEW i \in IPs, handles[i] # NoOne, i \notin todo'[q]
        PROVE  AllReturned(handles[i]) \/ (pc'[q] = "apply_wait" /\ cur'[q] = handles[i])
    <3>1. q = r  BY <1>2, <1>4, <2>4 DEF Applying
    <3> QED BY <1>6, <2>4, <3>1
  <2> QED BY <1>1, <2>1, <2>2, <2>3, <2>4 DEF ServerInv, AllReturned
<1> QED BY <1>8, <1>9, <1>10, <1>11, <1>12 DEF Sound

(* By when it empties the map, nothing runs on an undisputed address. *)
LEMMA ApplyClearSound ==
    ASSUME Inv, Sound, NEW r \in Requests, ApplyClear(r)
    PROVE  Sound'
<1>a. TypeOK  BY DEF Inv
<1>b. /\ pc \in [Requests -> PCs] /\ ix \in [Requests -> Nat \ {0}] /\ op[r].cfg \in Seq(IPs)
  BY <1>a DEF TypeOK, Operation
<1>1. /\ up /\ pc[r] = "apply_stop" /\ todo[r] = {} /\ devices' = << >> /\ alias' = alias \ IPsOf(devices)
      /\ handles' = [i \in IPs |-> NoOne]
      /\ UNCHANGED <<up, used, home, server, closes, leaked, op, cur, disputed>>
  BY DEF ApplyClear, servers
<1>2. pc'[r] \in {"persist", "apply_ips"} /\ ix'[r] = 1 /\ \A q \in Requests \ {r} : pc'[q] = pc[q]
  BY <1>b DEF ApplyClear, Goto
<1>3. mu = r  BY <1>1 DEF Inv, Core, LockInv, Applying
<1>4. /\ \A i \in IPs \ disputed, q \in Requests : ~Busy(q, i) /\ ~Owns(q, i)
      /\ \A q \in Requests \ {r} : pc[q] \notin Applying
      /\ \A h \in Handles : Alive(h) /\ home[h] \notin disputed => home[h] \in IPs /\ handles[home[h]] = h
  BY <1>3, HeldAlone
<1>5. DownInv'  BY <1>1 DEF DownInv
<1>6. BusyInv'
  <2>1. \A q \in Requests, i \in IPs : Busy(q, i)' => Busy(q, i)  BY <1>1, <1>2 DEF Busy
  <2> QED BY <1>1, <1>4, <2>1 DEF BusyInv
<1>7. ListInv'
  <2>1. \A i \in IPs : Once(devices', i)  BY <1>1 DEF Once
  <2>2. IPsOf(devices') = {}  BY <1>1 DEF IPsOf
  <2>3. \A q \in Requests, i \in IPs : ~Added(q, i)  BY <1>1, <1>4 DEF Added, Applying
  <2>4. ASSUME NEW i \in IPs \ disputed, i \in alias' PROVE i \in leaked
    BY <1>1, <1>4, <2>3, <2>4 DEF Sound, ListInv
  <2> QED BY <1>1, <2>1, <2>2, <2>4 DEF ListInv
<1>8. ApplyInv'
  <2> SUFFICES ASSUME NEW q \in Requests, pc'[q] \in {"apply_ips", "apply_add"}
               PROVE  /\ devices' = << >> /\ ix'[q] <= Len(op[q].cfg) + 1
                      /\ \A k \in 1 .. ix'[q] - 1 : op[q].cfg[k] \notin disputed => op[q].cfg[k] \in alias'
    BY <1>1 DEF ApplyInv
  <2>1. q = r  BY <1>2, <1>4 DEF Applying
  <2>2. Len(op[r].cfg) \in Nat  BY <1>b, LenProperties
  <2> QED BY <1>1, <1>2, <2>1, <2>2
<1>9. ServerInv'
  <2>1. ASSUME NEW h \in Handles, Alive(h)' PROVE home[h] \in IPs /\ home[h] \in disputed
    <3>1. Alive(h)  BY <1>1, <2>1 DEF Alive
    <3>2. ASSUME home[h] \notin disputed PROVE FALSE
      <4>1. home[h] \in IPs /\ handles[home[h]] = h  BY <1>4, <3>1, <3>2
      <4>2. AllReturned(h)  BY <1>1, <4>1, ConstantsAssumption DEF Sound, ServerInv
      <4> QED BY <3>1, <4>2 DEF AllReturned, Alive
    <3> QED BY <3>1, <3>2 DEF Sound, ServerInv
  <2>2. \A q \in Requests : pc'[q] \notin {"apply_stop", "apply_wait"}  BY <1>2, <1>4 DEF Applying
  <2>3. \A q \in Requests : pc'[q] \in Removing => cur[q] \in Handles /\ cur[q] <= used /\ home[cur[q]] = op[q].ip
    BY <1>2 DEF Sound, ServerInv, Removing
  <2> QED BY <1>1, <2>1, <2>2, <2>3 DEF ServerInv
<1> QED BY <1>5, <1>6, <1>7, <1>8, <1>9 DEF Sound

(* setupIPs gets every address of the list onto the host, or fails. *)
LEMMA ApplyIPsSound ==
    ASSUME Inv, Sound, NEW r \in Requests, ApplyCheckIP(r) \/ ApplyAddIP(r)
    PROVE  Sound'
<1>a. TypeOK  BY DEF Inv
<1> DEFINE c == op[r].cfg
           k == ix[r]
<1>b. /\ pc \in [Requests -> PCs] /\ ix \in [Requests -> Nat \ {0}] /\ c \in Seq(IPs) /\ Len(c) \in Nat
  BY <1>a, LenProperties DEF TypeOK, Operation
<1>1. /\ up /\ pc[r] \in {"apply_ips", "apply_add"}
      /\ UNCHANGED <<up, devices, handles, used, home, server, closes, op, cur, todo, disputed>>
  BY DEF ApplyCheckIP, ApplyAddIP, memory, servers, ghosts
<1>2. k \in 1 .. Len(c)
  <2>1. ApplyCheckIP(r) => k <= Len(c)  BY DEF ApplyCheckIP
  <2>2. ApplyAddIP(r) => k <= Len(c)  BY DEF ApplyAddIP, Inv, OpInv
  <2> QED BY <1>b, <2>1, <2>2
<1>3. \/ pc'[r] = "apply_ips" /\ ix'[r] = k + 1 /\ alias' = alias \cup {c[k]} /\ leaked' = leaked
      \/ pc'[r] = "apply_add" /\ ix'[r] = k /\ alias' = alias /\ leaked' = leaked
      \/ pc'[r] = "idle" /\ alias' = alias /\ leaked' = leaked \cup alias
  <2>1. CASE ApplyCheckIP(r)
    <3>1. CASE c[k] \in alias
      <4>1. ix' = [ix EXCEPT ![r] = @ + 1] /\ pc' = pc /\ alias' = alias /\ leaked' = leaked /\ pc[r] = "apply_ips"
        BY <2>1, <3>1 DEF ApplyCheckIP, ghosts
      <4>2. ix'[r] = k + 1 /\ alias' = alias \cup {c[k]}  BY <1>b, <3>1, <4>1
      <4> QED BY <4>1, <4>2
    <3>2. CASE c[k] \notin alias
      BY <1>b, <2>1, <3>2 DEF ApplyCheckIP, Goto, ghosts
    <3> QED BY <3>1, <3>2
  <2>2. CASE ApplyAddIP(r)
    <3>1. CASE AddIPFails(c[k])
      BY <1>b, <2>2, <3>1 DEF ApplyAddIP, Goto
    <3>2. CASE ~AddIPFails(c[k])
      <4>1. /\ alias' = alias \cup {c[k]} /\ ix' = [ix EXCEPT ![r] = @ + 1] /\ leaked' = leaked
            /\ pc' = [pc EXCEPT ![r] = "apply_ips"]
        BY <2>2, <3>2 DEF ApplyAddIP, Goto
      <4> QED BY <1>b, <4>1
    <3> QED BY <3>1, <3>2
  <2> QED BY <2>1, <2>2
<1>4. \A q \in Requests \ {r} : pc'[q] = pc[q] /\ ix'[q] = ix[q]
  BY <1>b DEF ApplyCheckIP, ApplyAddIP, Goto
<1>5. mu = r  BY <1>1 DEF Inv, Core, LockInv, Applying
<1>6. /\ \A i \in IPs \ disputed, q \in Requests : ~Busy(q, i) /\ ~Owns(q, i)
      /\ \A q \in Requests \ {r} : pc[q] \notin Applying
  BY <1>5, HeldAlone
<1>7. /\ devices = << >> /\ k <= Len(c) + 1
      /\ \A j \in 1 .. k - 1 : c[j] \notin disputed => c[j] \in alias
  BY <1>1 DEF Sound, ApplyInv
<1> HIDE DEF c
<1>8. DownInv'  BY <1>1 DEF DownInv
<1>9. BusyInv'
  <2>1. \A q \in Requests, i \in IPs : Busy(q, i)' => Busy(q, i)  BY <1>1, <1>3, <1>4 DEF Busy
  <2> QED BY <1>1, <1>6, <2>1 DEF BusyInv
<1>10. ListInv'
  <2>1. ASSUME NEW i \in IPs \ disputed, i \in alias', i \notin IPsOf(devices), i \notin leaked'
        PROVE  Added(r, i)'
    <3>1. CASE i \in alias
      <4>1. i \notin leaked  BY <1>3, <2>1
      <4>2. PICK q \in Requests : Owns(q, i) \/ Added(q, i)  BY <1>1, <2>1, <3>1, <4>1 DEF Sound, ListInv
      <4>3. q = r /\ Added(r, i)  BY <1>6, <2>1, <4>2 DEF Added, Applying
      <4>4. PICK j \in 1 .. k - 1 : c[j] = i  BY <4>3 DEF Added, c
      <4>5. pc'[r] \in {"apply_ips", "apply_add"} /\ j \in 1 .. ix'[r] - 1
        BY <1>2, <1>3, <2>1, <3>1, <4>4
      <4> QED BY <1>1, <4>4, <4>5 DEF Added, c
    <3>2. CASE i \notin alias
      <4>1. pc'[r] = "apply_ips" /\ ix'[r] = k + 1 /\ i = c[k]  BY <1>3, <2>1, <3>2
      <4>2. k \in 1 .. ix'[r] - 1  BY <1>2, <4>1
      <4> QED BY <1>1, <4>1, <4>2 DEF Added, c
    <3> QED BY <3>1, <3>2
  <2>2. alias \subseteq alias'  BY <1>3
  <2>3. \A i \in IPs : Once(devices', i) <=> Once(devices, i)  BY <1>1 DEF Once
  <2>4. ASSUME NEW i \in IPs \ disputed
        PROVE  Once(devices', i) /\ (i \in IPsOf(devices) => i \in alias' /\ handles[i] # NoOne)
    BY <2>2, <2>3 DEF Sound, ListInv
  <2> QED BY <1>1, <2>1, <2>4 DEF ListInv
<1>11. ApplyInv'
  <2> SUFFICES ASSUME NEW q \in Requests, pc'[q] \in {"apply_ips", "apply_add"}
               PROVE  /\ devices = << >> /\ ix'[q] <= Len(op[q].cfg) + 1
                      /\ \A j \in 1 .. ix'[q] - 1 : op[q].cfg[j] \notin disputed => op[q].cfg[j] \in alias'
    BY <1>1 DEF ApplyInv
  <2>1. q = r  BY <1>4, <1>6 DEF Applying
  <2>2. ix'[r] <= Len(c) + 1  BY <1>2, <1>3, <1>b, <2>1, <1>7
  <2>3. ASSUME NEW j \in 1 .. ix'[r] - 1, c[j] \notin disputed PROVE c[j] \in alias'
    <3>1. CASE j \in 1 .. k - 1  BY <1>3, <1>7, <2>3, <3>1
    <3>2. CASE j \notin 1 .. k - 1
      <4>1. ix'[r] = k + 1 /\ alias' = alias \cup {c[k]} /\ j = k  BY <1>2, <1>3, <2>1, <2>3, <3>2
      <4> QED BY <4>1
    <3> QED BY <3>1, <3>2
  <2> QED BY <1>7, <2>1, <2>2, <2>3 DEF c
<1>12. ServerInv'
  <2>1. \A h \in Handles : Alive(h)' <=> Alive(h)  BY <1>1 DEF Alive
  <2>2. \A q \in Requests : pc'[q] \in Removing <=> pc[q] \in Removing
    BY <1>1, <1>3, <1>4 DEF Removing
  <2>3. \A q \in Requests : pc'[q] \notin {"apply_stop", "apply_wait"}
    BY <1>3, <1>4, <1>6 DEF Applying
  <2>4. ASSUME NEW h \in Handles, Alive(h)
        PROVE  /\ home[h] \in IPs
               /\ home[h] \notin disputed =>
                     handles[home[h]] = h \/ \E q \in Requests : cur[q] = h /\ pc'[q] \in Removing
    BY <2>2, <2>4 DEF Sound, ServerInv
  <2>5. \A i \in IPs \ disputed : handles[i] # NoOne /\ closes[handles[i]] = 0 =>
            \A s \in Services : server[handles[i]][s] \in {"spawned", "listening"}
    BY DEF Sound, ServerInv
  <2>6. \A q \in Requests : pc'[q] \in Removing => cur[q] \in Handles /\ cur[q] <= used /\ home[cur[q]] = op[q].ip
    BY <2>2 DEF Sound, ServerInv
  <2> QED BY <1>1, <2>1, <2>3, <2>4, <2>5, <2>6 DEF ServerInv
<1> QED BY <1>8, <1>9, <1>10, <1>11, <1>12 DEF Sound

(* It then has exactly the devices it was given. *)
LEMMA ApplyStartSound ==
    ASSUME Inv, Sound, NEW r \in Requests, ApplyStart(r)
    PROVE  Sound'
<1>a. TypeOK  BY DEF Inv
<1> DEFINE c == op[r].cfg
<1>b. /\ pc \in [Requests -> PCs] /\ ix[r] \in Nat /\ c \in Seq(IPs) /\ Len(c) \in Nat
      /\ handles \in [IPs -> Handles \cup {NoOne}]
  BY <1>a, LenProperties DEF TypeOK, Operation
<1>1. /\ up /\ pc[r] = "apply_ips" /\ ix[r] > Len(c) /\ devices' = Fresh(c) /\ StartServers(c, handles)
      /\ disputed' = disputed \cup Repeated(c)
      /\ UNCHANGED <<up, closes, alias, op, cur, todo, ix, leaked>>
  BY DEF ApplyStart
<1>2. pc'[r] = "persist" /\ \A q \in Requests \ {r} : pc'[q] = pc[q]  BY <1>b DEF ApplyStart, Goto
<1>3. mu = r /\ \A i \in IPs : handles[i] = NoOne  BY <1>1 DEF Inv, Core, LockInv, Applying
<1>4. /\ \A i \in IPs \ disputed, q \in Requests : ~Busy(q, i) /\ ~Owns(q, i)
      /\ \A q \in Requests \ {r} : pc[q] \notin Applying
      /\ \A h \in Handles : Alive(h) /\ home[h] \notin disputed => home[h] \in IPs /\ handles[home[h]] = h
  BY <1>3, HeldAlone
<1>5. ix[r] - 1 = Len(c) /\ devices = << >> /\ \A k \in 1 .. Len(c) : c[k] \notin disputed => c[k] \in alias
  <2>1. /\ ix[r] <= Len(c) + 1 /\ devices = << >>
        /\ \A k \in 1 .. ix[r] - 1 : c[k] \notin disputed => c[k] \in alias
    BY <1>1 DEF Sound, ApplyInv
  <2>2. ix[r] - 1 = Len(c)  BY <1>b, <1>1, <2>1
  <2> QED BY <2>1, <2>2
<1>6. \A i \in IPs : Added(r, i) => \E k \in 1 .. Len(c) : c[k] = i  BY <1>5 DEF Added
<1> HIDE DEF c
<1>7. /\ IPsOf(devices') = {c[k] : k \in 1 .. Len(c)}
      /\ \A i \in IPs \ Repeated(c) : Once(devices', i)
  BY <1>b, <1>1, FreshOnce
<1>8. /\ \A i \in IPs : IF \E k \in 1 .. Len(c) : c[k] = i
                        THEN /\ handles'[i] \in Handles /\ handles'[i] > used
                             /\ \A s \in Services : server'[handles'[i]][s] = "spawned"
                        ELSE handles'[i] = handles[i]
      /\ \A h \in Handles :
            \/ /\ h > used /\ home'[h] \in IPs
               /\ \E k \in 1 .. Len(c) : c[k] = home'[h]
               /\ home'[h] \notin Repeated(c) => handles'[home'[h]] = h
            \/ home'[h] = home[h] /\ server'[h] = server[h]
  BY <1>a, <1>b, <1>1, StartUnrepeated
<1>9. used <= used' /\ used \in Nat /\ used' \in Nat
  <2>1. used' \in 0 .. MaxHandles /\ used <= used'  BY <1>a, <1>b, <1>1, StartServersProperties
  <2> QED BY <1>a, <2>1, ConstantsAssumption DEF TypeOK
<1>10. DownInv'  BY <1>1 DEF DownInv
<1>11. BusyInv'
  <2>1. \A q \in Requests, i \in IPs : Busy(q, i)' => Busy(q, i)  BY <1>1, <1>2 DEF Busy
  <2> QED BY <1>1, <1>4, <2>1 DEF BusyInv
<1>12. ListInv'
  <2> SUFFICES ASSUME NEW i \in IPs \ disputed'
               PROVE  /\ Once(devices', i)
                      /\ i \in IPsOf(devices') => i \in alias /\ handles'[i] # NoOne
                      /\ i \in alias => i \in IPsOf(devices') \/ i \in leaked
    BY <1>1 DEF ListInv
  <2>1. i \in IPs \ disputed /\ i \notin Repeated(c)  BY <1>1
  <2>2. Once(devices', i)  BY <1>7, <2>1
  <2>3. i \in IPsOf(devices') => i \in alias /\ handles'[i] # NoOne
    BY <1>5, <1>7, <1>8, <2>1, ConstantsAssumption
  <2>4. ASSUME i \in alias, i \notin leaked PROVE i \in IPsOf(devices')
    <3>1. IPsOf(devices) = {}  BY <1>5 DEF IPsOf
    <3>2. PICK q \in Requests : Owns(q, i) \/ Added(q, i)  BY <1>1, <2>1, <2>4, <3>1 DEF Sound, ListInv
    <3>3. q = r /\ Added(r, i)  BY <1>4, <2>1, <3>2 DEF Added, Applying
    <3> QED BY <1>6, <1>7, <3>3
  <2> QED BY <2>2, <2>3, <2>4
<1>13. ApplyInv'
  <2>1. \A q \in Requests : pc'[q] \notin {"apply_ips", "apply_add"}  BY <1>2, <1>4 DEF Applying
  <2> QED BY <2>1 DEF ApplyInv
<1>14. ServerInv'
  <2>1. ASSUME NEW h \in Handles, Alive(h)'
        PROVE  home'[h] \in IPs /\ (home'[h] \notin disputed' => handles'[home'[h]] = h)
    <3>1. CASE home'[h] = home[h] /\ server'[h] = server[h]
      <4>1. Alive(h)  BY <2>1, <3>1 DEF Alive
      <4>2. home[h] \in IPs  BY <4>1 DEF Sound, ServerInv
      <4>3. home[h] \in disputed  BY <1>3, <1>4, <4>1, <4>2, ConstantsAssumption
      <4> QED BY <1>1, <3>1, <4>2, <4>3
    <3> QED BY <1>1, <1>8, <3>1
  <2>2. ASSUME NEW i \in IPs, handles'[i] # NoOne, NEW s \in Services
        PROVE  server'[handles'[i]][s] \in {"spawned", "listening"}
    BY <1>3, <1>8, <2>2
  <2>3. \A q \in Requests : pc'[q] \notin {"apply_stop", "apply_wait"}  BY <1>2, <1>4 DEF Applying
  <2>4. ASSUME NEW q \in Requests, pc'[q] \in Removing
        PROVE  cur[q] \in Handles /\ cur[q] <= used' /\ home'[cur[q]] = op[q].ip
    <3>1. pc[q] \in Removing  BY <1>2, <2>4 DEF Removing
    <3>2. cur[q] \in Handles /\ cur[q] <= used /\ home[cur[q]] = op[q].ip  BY <3>1 DEF Sound, ServerInv
    <3>3. cur[q] <= used' /\ ~(cur[q] > used)  BY <1>9, <3>2 DEF Handles
    <3> QED BY <1>8, <3>2, <3>3
  <2> QED BY <1>1, <2>1, <2>2, <2>3, <2>4 DEF ServerInv
<1> QED BY <1>10, <1>11, <1>12, <1>13, <1>14 DEF Sound

(* A server starts on an address the host has and nothing else listens on; it
   ends only after its stop channel was closed. *)
LEMMA ServerSound ==
    ASSUME Inv, Sound, NEW h \in Handles, ServerStep(h)
    PROVE  Sound'
<1>a. TypeOK  BY DEF Inv
<1>b. PICK s \in Services : ServerListen(h, s) \/ ServerExit(h, s)  BY DEF ServerStep
<1>1. /\ up /\ UNCHANGED <<up, mu, devices, handles, used, home, closes, alias, leaked, disputed, pc, op, cur, todo, ix>>
      /\ server[h][s] \in {"spawned", "listening"}
      /\ \A g \in Handles, z \in Services : g # h \/ z # s => server'[g][z] = server[g][z]
  BY <1>a, <1>b DEF ServerListen, ServerExit, memory, requests, ghosts, TypeOK
<1>2. Alive(h)  BY <1>1 DEF Alive
<1>3. \A q \in Requests, i \in IPs :
          (Busy(q, i)' <=> Busy(q, i)) /\ (Owns(q, i)' <=> Owns(q, i)) /\ (Added(q, i)' <=> Added(q, i))
  BY <1>1 DEF Busy, Owns, Added
<1>4. DownInv'  BY <1>1 DEF DownInv
<1>5. BusyInv'  BY <1>1, <1>3 DEF Sound, BusyInv
<1>6. ListInv'
  <2>1. \A i \in IPs : Once(devices', i) <=> Once(devices, i)  BY <1>1 DEF Once
  <2>2. ASSUME NEW i \in IPs \ disputed
        PROVE  /\ Once(devices', i)
               /\ i \in IPsOf(devices) => i \in alias /\ handles[i] # NoOne
               /\ i \in alias =>
                     \/ i \in IPsOf(devices) \/ i \in leaked
                     \/ \E q \in Requests : Owns(q, i)' \/ Added(q, i)'
    BY <1>1, <1>3, <2>1 DEF Sound, ListInv
  <2> QED BY <1>1, <2>2 DEF ListInv
<1>7. ApplyInv'  BY <1>1 DEF Sound, ApplyInv
<1>8. ServerInv'
  <2>1. ASSUME NEW g \in Handles, Alive(g)'
        PROVE  /\ home[g] \in IPs
               /\ home[g] \notin disputed =>
                     handles[home[g]] = g \/ \E r \in Requests : cur[r] = g /\ pc[r] \in Removing
    <3>1. Alive(g)  BY <1>1, <1>2, <2>1 DEF Alive
    <3> QED BY <3>1 DEF Sound, ServerInv
  <2>2. ASSUME NEW i \in IPs \ disputed, handles[i] # NoOne, closes[handles[i]] = 0, NEW z \in Services
        PROVE  server'[handles[i]][z] \in {"spawned", "listening"}
    <3>1. handles[i] \in Handles /\ home[handles[i]] = i /\ i \in IPsOf(devices)
      BY <2>2 DEF Inv, TypeOK, Core, MapInv
    <3>2. server[handles[i]][z] \in {"spawned", "listening"}  BY <2>2 DEF Sound, ServerInv
    <3>3. CASE handles[i] # h \/ z # s  BY <1>1, <3>1, <3>2, <3>3
    <3>4. CASE handles[i] = h /\ z = s
      <4>1. server'[h][s] = IF home[h] \in alias /\ ~Bound(home[h], s) THEN "listening" ELSE "failed"
        BY <1>a, <1>b, <2>2, <3>4 DEF ServerListen, ServerExit, TypeOK
      <4>2. home[h] = i /\ i \in alias  BY <3>1, <3>4 DEF Sound, ListInv
      <4>3. ASSUME NEW g \in Handles, home[g] = i, server[g][s] = "listening" PROVE FALSE
        <5>1. Alive(g)  BY <4>3 DEF Alive
        <5>2. g # h
          <6>1. server[h][s] = "spawned"
            BY <1>a, <1>b, <2>2, <3>4 DEF ServerListen, ServerExit, TypeOK
          <6> QED BY <4>3, <6>1
        <5>3. PICK r \in Requests : cur[r] = g /\ pc[r] \in Removing
          BY <2>2, <3>4, <4>3, <5>1, <5>2 DEF Sound, ServerInv
        <5>4. op[r].ip = i  BY <4>3, <5>3 DEF Sound, ServerInv
        <5>5. Busy(r, i)  BY <5>3, <5>4 DEF Busy, Removing
        <5> QED BY <3>1, <5>5 DEF Sound, BusyInv
      <4>4. ~Bound(i, s)  BY <4>3 DEF Bound
      <4> QED BY <3>4, <4>1, <4>2, <4>4
    <3> QED BY <3>3, <3>4
  <2>3. \A g \in Handles : AllReturned(g) => g # h /\ \A z \in Services : server'[g][z] \in {"exited", "failed"}
    BY <1>1 DEF AllReturned
  <2>4. ASSUME NEW r \in Requests, pc[r] \in {"apply_stop", "apply_wait"},
               NEW i \in IPs, handles[i] # NoOne, i \notin todo[r]
        PROVE  (\A z \in Services : server'[handles[i]][z] \in {"exited", "failed"})
                  \/ (pc[r] = "apply_wait" /\ cur[r] = handles[i])
    <3>1. handles[i] \in Handles  BY <1>a, <2>4 DEF TypeOK
    <3>2. AllReturned(handles[i]) \/ (pc[r] = "apply_wait" /\ cur[r] = handles[i])
      BY <2>4 DEF Sound, ServerInv
    <3> QED BY <2>3, <3>1, <3>2
  <2>5. \A r \in Requests : pc[r] \in Removing => cur[r] \in Handles /\ cur[r] <= used /\ home[cur[r]] = op[r].ip
    BY DEF Sound, ServerInv
  <2> QED BY <1>1, <2>1, <2>2, <2>4, <2>5 DEF ServerInv, AllReturned
<1> QED BY <1>4, <1>5, <1>6, <1>7, <1>8 DEF Sound

(* A process that is gone has neither devices nor servers; the next one starts
   from its file, and says which addresses it could not get or had twice. *)
LEMMA ProcessSound ==
    ASSUME Inv, Sound, Crash \/ Shutdown \/ Boot \/ UNCHANGED vars
    PROVE  Sound'
<1>a. TypeOK  BY DEF Inv
<1>1. CASE UNCHANGED vars
  <2>1. UNCHANGED <<up, mu, devices, handles, used, home, server, closes, alias, leaked, disputed,
                    pc, op, cur, todo, ix>>
    BY <1>1 DEF vars, memory, servers, requests, ghosts
  <2>2. \A h \in Handles : Alive(h)' <=> Alive(h)  BY <2>1 DEF Alive
  <2>3. \A q \in Requests, i \in IPs :
            (Busy(q, i)' <=> Busy(q, i)) /\ (Owns(q, i)' <=> Owns(q, i)) /\ (Added(q, i)' <=> Added(q, i))
    BY <2>1 DEF Busy, Owns, Added
  <2>4. \A i \in IPs : Once(devices', i) <=> Once(devices, i)  BY <2>1 DEF Once
  <2>5. DownInv'  BY <2>1, <2>2 DEF Sound, DownInv
  <2>6. BusyInv'  BY <2>1, <2>3 DEF Sound, BusyInv
  <2>7. ListInv'
    <3>1. ASSUME NEW i \in IPs \ disputed
          PROVE  /\ Once(devices', i)
                 /\ i \in IPsOf(devices) => i \in alias /\ handles[i] # NoOne
                 /\ up /\ i \in alias =>
                       \/ i \in IPsOf(devices) \/ i \in leaked
                       \/ \E q \in Requests : Owns(q, i)' \/ Added(q, i)'
      BY <2>3, <2>4 DEF Sound, ListInv
    <3> QED BY <2>1, <3>1 DEF ListInv
  <2>8. ApplyInv'  BY <2>1 DEF Sound, ApplyInv
  <2>9. ServerInv'
    <3>1. ASSUME NEW h \in Handles, Alive(h)'
          PROVE  /\ home[h] \in IPs
                 /\ home[h] \notin disputed =>
                       handles[home[h]] = h \/ \E r \in Requests : cur[r] = h /\ pc[r] \in Removing
      BY <2>2, <3>1 DEF Sound, ServerInv
    <3> QED BY <2>1, <3>1 DEF Sound, ServerInv, AllReturned
  <2> QED BY <2>5, <2>6, <2>7, <2>8, <2>9 DEF Sound
<1>2. CASE Crash \/ Shutdown
  <2>1. /\ ~up' /\ devices' = << >> /\ disputed' = disputed
        /\ \A i \in IPs : handles'[i] = NoOne
        /\ \A r \in Requests : pc'[r] = "idle"
        /\ \A h \in Handles, s \in Services : server'[h][s] \in {"none", "exited"}
    BY <1>2 DEF Crash, Shutdown, Die
  <2>2. \A h \in Handles : ~Alive(h)'  BY <2>1 DEF Alive
  <2>3. \A i \in IPs : Once(devices', i) /\ i \notin IPsOf(devices')  BY <2>1 DEF Once, IPsOf
  <2>4. \A r \in Requests, i \in IPs : ~Busy(r, i)'  BY <2>1 DEF Busy
  <2>5. DownInv'  BY <2>1, <2>2 DEF DownInv
  <2>6. BusyInv'  BY <2>4 DEF BusyInv
  <2>7. ListInv'  BY <2>1, <2>3 DEF ListInv
  <2>8. ApplyInv'  BY <2>1 DEF ApplyInv
  <2>9. ServerInv'  BY <2>1, <2>2 DEF ServerInv, Removing
  <2> QED BY <2>5, <2>6, <2>7, <2>8, <2>9 DEF Sound
<1>3. CASE Boot
  <2> DEFINE d == Loaded.devices
             ips == [k \in 1 .. Len(d) |-> d[k].ip]
             none == [i \in IPs |-> NoOne]
  <2>1. /\ ~up /\ up' /\ devices' = d /\ StartServers(ips, none)
        /\ leaked' = alias' \ IPsOf(devices')
        /\ disputed' = Repeated(ips) \cup (IPsOf(devices') \ alias')
        /\ UNCHANGED <<closes, pc, op, cur, todo, ix>>
    BY <1>3 DEF Boot, requests
  <2>2. \A r \in Requests : pc'[r] = "idle"  BY <2>1 DEF Inv, Core, LockInv
  <2>3. d \in Seq(Device) /\ Len(d) \in Nat
    <3>1. d \in Seq(Device)  BY <1>a, LoadedType
    <3> QED BY <3>1, LenProperties
  <2> HIDE DEF d
  <2>4. ips \in Seq(IPs) /\ Len(ips) = Len(d) /\ \A k \in 1 .. Len(ips) : ips[k] = d[k].ip
    <3>1. \A k \in 1 .. Len(d) : d[k] \in Device  BY <2>3, ElementOfSeq
    <3>2. ips \in [1 .. Len(d) -> IPs]  BY <3>1 DEF Device
    <3>3. ips \in Seq(IPs) /\ Len(ips) = Len(d)  BY <2>3, <3>2, FunctionIsSeq
    <3> QED BY <3>3
  <2> HIDE DEF ips
  <2>5. IPsOf(d) = {ips[k] : k \in 1 .. Len(ips)}  BY <2>4 DEF IPsOf
  <2>6. \A i \in IPs \ Repeated(ips) : Once(d, i)  BY <2>4, UnrepeatedOnce DEF Once
  <2>7. none \in [IPs -> Handles \cup {NoOne}] /\ \A i \in IPs : none[i] = NoOne  OBVIOUS
  <2> HIDE DEF none
  <2>8. /\ \A i \in IPs : IF \E k \in 1 .. Len(ips) : ips[k] = i
                          THEN /\ handles'[i] \in Handles /\ handles'[i] > used
                               /\ \A s \in Services : server'[handles'[i]][s] = "spawned"
                          ELSE handles'[i] = none[i]
        /\ \A h \in Handles :
              \/ /\ h > used /\ home'[h] \in IPs
                 /\ \E k \in 1 .. Len(ips) : ips[k] = home'[h]
                 /\ home'[h] \notin Repeated(ips) => handles'[home'[h]] = h
              \/ home'[h] = home[h] /\ server'[h] = server[h]
    BY <1>a, <2>1, <2>4, <2>7, StartUnrepeated
  <2>9. DownInv'  BY <2>1 DEF DownInv
  <2>10. BusyInv'
    <3>1. \A r \in Requests, i \in IPs : ~Busy(r, i)'  BY <2>2 DEF Busy
    <3> QED BY <3>1 DEF BusyInv
  <2>11. ListInv'
    <3>1. ASSUME NEW i \in IPs, i \in IPsOf(devices') PROVE handles'[i] # NoOne
      BY <2>1, <2>5, <2>8, <3>1, ConstantsAssumption
    <3>2. \A i \in IPs \ disputed' : Once(devices', i) /\ (i \in IPsOf(devices') => i \in alias')
      BY <2>1, <2>6
    <3>3. \A i \in IPs : i \in alias' => i \in IPsOf(devices') \/ i \in leaked'  BY <2>1
    <3> QED BY <3>1, <3>2, <3>3 DEF ListInv
  <2>12. ApplyInv'  BY <2>2 DEF ApplyInv
  <2>13. ServerInv'
    <3>1. \A h \in Handles : ~Alive(h)  BY <2>1 DEF Sound, DownInv
    <3>2. ASSUME NEW h \in Handles, Alive(h)'
          PROVE  home'[h] \in IPs /\ (home'[h] \notin disputed' => handles'[home'[h]] = h)
      <4>1. server'[h] # server[h]  BY <3>1, <3>2 DEF Alive
      <4> QED BY <2>1, <2>8, <4>1
    <3>3. ASSUME NEW i \in IPs, handles'[i] # NoOne, NEW s \in Services
          PROVE  server'[handles'[i]][s] \in {"spawned", "listening"}
      BY <2>7, <2>8, <3>3
    <3> QED BY <2>2, <3>2, <3>3 DEF ServerInv, Removing
  <2> QED BY <2>9, <2>10, <2>11, <2>12, <2>13 DEF Sound
<1> QED BY <1>1, <1>2, <1>3

(* IdleConsistent, for any number of overlapping requests and any files: while
   none deals with an address, it is listed with its alias, its map entry and
   its running servers, or it has none of them - but for the addresses two
   requests dealt with at once, a loaded file repeats or the start could not
   add, and the aliases a crash or a failed import left. *)
THEOREM IdleAgrees == Spec => []IdleConsistent
<1>1. Init => Sound
  <2> SUFFICES ASSUME Init PROVE Sound  OBVIOUS
  <2>1. /\ ~up /\ devices = << >> /\ (\A i \in IPs : handles[i] = NoOne)
        /\ \A r \in Requests : pc[r] = "idle"
        /\ \A h \in Handles, s \in Services : server[h][s] = "none"
    BY DEF Init
  <2>2. \A h \in Handles : ~Alive(h)  BY <2>1 DEF Alive
  <2>3. \A i \in IPs : Once(devices, i) /\ i \notin IPsOf(devices)  BY <2>1 DEF Once, IPsOf
  <2>4. \A r \in Requests, i \in IPs : ~Busy(r, i)  BY <2>1 DEF Busy
  <2>5. ListInv  BY <2>1, <2>3 DEF ListInv
  <2>6. BusyInv  BY <2>4 DEF BusyInv
  <2> QED BY <2>1, <2>2, <2>5, <2>6 DEF Sound, DownInv, ApplyInv, ServerInv, Removing
<1>2. Inv /\ Sound /\ [Next]_vars => Sound'
  <2> SUFFICES ASSUME Inv, Sound, [Next]_vars PROVE Sound'  OBVIOUS
  <2>1. ASSUME NEW r \in Requests, AddStep(r) PROVE Sound'  BY <2>1, AddSound
  <2>2. ASSUME NEW r \in Requests, RemoveStep(r) PROVE Sound'  BY <2>2, RemoveSound
  <2>3. ASSUME NEW r \in Requests, ReplaceStep(r) PROVE Sound'
    BY <2>3, BeginSound, ApplyStopSound, ApplyClearSound, ApplyIPsSound, ApplyStartSound
    DEF ReplaceStep, ApplyStep
  <2>4. ASSUME NEW r \in Requests, EditStep(r) PROVE Sound'  BY <2>4, BeginSound
  <2>5. ASSUME NEW h \in Handles, ServerStep(h) PROVE Sound'  BY <2>5, ServerSound
  <2>6. ASSUME Crash \/ Shutdown \/ Boot \/ UNCHANGED vars PROVE Sound'  BY <2>6, ProcessSound
  <2> QED BY <2>1, <2>2, <2>3, <2>4, <2>5, <2>6 DEF Next, Rest
<1>3. Inv /\ Sound => IdleConsistent
  <2> SUFFICES ASSUME Inv, Sound, NEW i \in IPs \ disputed, Settled(i)
               PROVE  /\ i \in IPsOf(devices) =>
                            /\ i \in alias /\ handles[i] # NoOne /\ closes[handles[i]] = 0
                            /\ \A s \in Services : server[handles[i]][s] \in {"spawned", "listening"}
                      /\ i \notin IPsOf(devices) => handles[i] = NoOne /\ (i \in alias => i \in leaked)
                      /\ \A h \in Handles : Running(h) /\ home[h] = i => handles[i] = h
    BY DEF IdleConsistent
  <2>1. up /\ mu = NoOne /\ \A r \in Requests : ~Busy(r, i)  BY DEF Settled, Free
  <2>2. \A r \in Requests : ~Owns(r, i) /\ ~Added(r, i)
    <3>1. \A r \in Requests : pc[r] \notin Applying  BY <2>1, NoneApplying
    <3> QED BY <2>1, <3>1 DEF Owns, Busy, Added, Applying
  <2>3. /\ i \in IPsOf(devices) => i \in alias /\ handles[i] # NoOne
        /\ i \in alias => i \in IPsOf(devices) \/ i \in leaked
    BY <2>1, <2>2 DEF Sound, ListInv
  <2>4. ASSUME handles[i] # NoOne
        PROVE  /\ closes[handles[i]] = 0 /\ i \in IPsOf(devices)
               /\ \A s \in Services : server[handles[i]][s] \in {"spawned", "listening"}
    <3>1. closes[handles[i]] = 0 /\ i \in IPsOf(devices)  BY <2>1, <2>4 DEF Inv, Core, MapOpen, MapInv
    <3> QED BY <2>4, <3>1 DEF Sound, ServerInv
  <2>5. ASSUME NEW h \in Handles, Running(h), home[h] = i PROVE handles[i] = h
    <3>1. Alive(h)  BY <2>5 DEF Running, Alive
    <3>2. ASSUME NEW r \in Requests, cur[r] = h, pc[r] \in Removing PROVE FALSE
      <4>1. op[r].ip = i  BY <2>5, <3>2 DEF Sound, ServerInv
      <4>2. Busy(r, i)  BY <3>2, <4>1 DEF Busy, Removing
      <4> QED BY <2>1, <4>2
    <3> QED BY <2>5, <3>1, <3>2 DEF Sound, ServerInv
  <2> QED BY <2>3, <2>4, <2>5
<1> QED BY <1>1, <1>2, <1>3, SimulatorInvariant, PTL DEF Spec
=============================================================================

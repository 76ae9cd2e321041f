------------------------------- MODULE LanMode -------------------------------
(***************************************************************************)
(* LAN mode: device addresses on a physical interface (internal/network),  *)
(* and what the simulator and main do with them.  SetupLANIPs replaces     *)
(* every address that is not in the interface's subnet by an unused one;   *)
(* it runs at boot and in applyConfig, and other hosts of the LAN come and *)
(* go meanwhile.  AddDevice and RemoveDevice know nothing of LAN mode and  *)
(* use the loopback interface.                                             *)
(*                                                                         *)
(* The simulator's lock makes its own requests exclude each other here;    *)
(* Simulator has their interleavings.                                      *)
(***************************************************************************)
EXTENDS Integers, Sequences, FiniteSets

CONSTANTS
    Pool,       \* addresses .200-.254, then .150-.199, in the order they are tried
    Static,     \* other addresses of the subnet
    Outside,    \* addresses outside it, AutoIP included
    AutoIP,     \* "auto", the empty address, anything that is no address
    Seed,       \* addresses of the devices in the seed file
    Imports,    \* of those in files that may be imported
    Systems,    \* operating systems: a subset of {"linux", "darwin"}
    MaxOps,     \* bound: imports, additions, removals and restarts
    MaxFaults,  \* bound: failing ifconfig or ip commands
    MaxHosts    \* bound: other hosts on the LAN

PoolSet == {Pool[i] : i \in 1 .. Len(Pool)}
Subnet == PoolSet \cup Static
Addresses == Subnet \cup Outside

NoFile == <<"no state file">>

ASSUME LanAssumption ==
    /\ Pool \in Seq(PoolSet) /\ NoFile \notin Seq(Addresses)
    /\ AutoIP \in Outside /\ Subnet \cap Outside = {} /\ PoolSet \cap Static = {}
    /\ \A i, j \in 1 .. Len(Pool) : Pool[i] = Pool[j] => i = j
    /\ Seed \in Seq(Addresses) /\ Imports \subseteq Seq(Addresses)
    /\ Systems \subseteq {"linux", "darwin"}
    /\ MaxOps \in Nat /\ MaxFaults \in Nat /\ MaxHosts \in Nat

VARIABLES
    os,         \* operating system
    lo, wire,   \* aliases on the loopback and on the LAN interface
    hosts,      \* addresses other hosts use
    mute,       \* of those: an ARP request fails or is not answered in time
    cache,      \* the system's ARP cache
    probing,    \* probeAvailable
    pc,         \* "down", "adding" (inside SetupLANIPs) or "running"
    by,         \* what SetupLANIPs runs for: "boot" or "import"
    todo,       \* addresses still to be added
    devices,    \* addresses of the devices, in the order of the list
    file,       \* addresses in the state file, or NoFile
    ops, faults,\* counters of the bounds
    late,       \* ghost: addresses hosts took since the last search
    chosen,     \* ghost: addresses the last search returned
    known,      \* ghost: of those, on the machine or in the ARP cache then
    missed,     \* ghost: of those, used by a host that left its probe unanswered
    leaked,     \* ghost: aliases given up by a failure, a crash or a removal
    twice       \* ghost: addresses that an imported file gave to two devices

host == <<os, probing>>
lan == <<hosts, mute, cache, late>>
search == <<chosen, known, missed>>
vars == <<host, lo, wire, lan, pc, by, todo, devices, file, ops, faults, search, leaked, twice>>

IsLocal(a) == a \in lo \cup wire
needsAutoIP(a) == a \notin Subnet
Fault == faults < MaxFaults /\ faults' = faults + 1
Op == ops < MaxOps /\ ops' = ops + 1

----------------------------------------------------------------------------
(* Choosing addresses *)

\* ProbeIP sees an answer.  Without raw sockets it does not ask.
Answers(a) == probing /\ a \in hosts \ mute

\* The ARP cache is not read.
UsedUncached(a) == IsLocal(a) \/ Answers(a)

\* getKnownUsedIPs and ProbeIP.  Assumed: the ARP table can be read.
Used(a) == IsLocal(a) \/ a \in cache \/ Answers(a)

\* How many of the first n addresses of the range are unused.
Unused(n) == Cardinality({j \in 1 .. n : ~Used(Pool[j])})

\* The unused addresses of the range, in its order.
FindUnusedIPs ==
    [k \in 1 .. Unused(Len(Pool)) |-> Pool[CHOOSE i \in 1 .. Len(Pool) : ~Used(Pool[i]) /\ Unused(i) = k]]

Needed(devs) == Cardinality({i \in 1 .. Len(devs) : needsAutoIP(devs[i])})

\* Every device in need gets the next address found, and so do the others.
AssignedAll(devs) ==
    [i \in 1 .. Len(devs) |-> IF Len(FindUnusedIPs) >= i THEN FindUnusedIPs[i] ELSE devs[i]]

\* Every device in need gets the next address found.
Assigned(devs) ==
    [i \in 1 .. Len(devs) |->
        IF needsAutoIP(devs[i]) THEN FindUnusedIPs[Needed(SubSeq(devs, 1, i))] ELSE devs[i]]

----------------------------------------------------------------------------
(* SetupLANIPs, TeardownLANIPs *)

\* Nothing comes up: the process exits (boot), or goes on without devices.
SetupFails(reason) ==
    /\ pc' = IF reason = "boot" THEN "down" ELSE "running"
    /\ devices' = << >> /\ todo' = << >>

Setup(devs, reason) ==
    /\ late' = {} /\ by' = reason /\ UNCHANGED <<hosts, mute, cache>>
    /\ IF Needed(devs) > Len(FindUnusedIPs)
       THEN SetupFails(reason) /\ chosen' = {}
       ELSE LET new == Assigned(devs) IN
            /\ pc' = "adding" /\ devices' = new /\ todo' = new
            /\ chosen' = {new[i] : i \in {j \in 1 .. Len(devs) : needsAutoIP(devs[j])}}
    /\ known' = chosen' \cap (lo \cup wire \cup cache)
    /\ missed' = {a \in chosen' \cap hosts : ~Answers(a)}

\* The loop goes on after a failure.
AddNextAnyway ==
    /\ pc = "adding" /\ todo # << >> /\ todo' = Tail(todo) /\ ~IsLocal(Head(todo))
    /\ \/ wire' = wire \cup {Head(todo)} /\ UNCHANGED <<lo, faults>>
       \/ Fault /\ UNCHANGED <<lo, wire>>
    /\ UNCHANGED <<host, lan, pc, by, devices, file, ops, search, leaked, twice>>

\* One iteration of the loop.  macOS gets the alias on the loopback too.
AddNext ==
    /\ pc = "adding" /\ todo # << >>
    /\ LET a == Head(todo) IN
        \/ /\ IsLocal(a) /\ todo' = Tail(todo)
           /\ UNCHANGED <<lo, wire, pc, devices, faults, leaked>>
        \/ /\ ~IsLocal(a) /\ todo' = Tail(todo)
           /\ wire' = wire \cup {a} /\ lo' = IF os = "darwin" THEN lo \cup {a} ELSE lo
           /\ UNCHANGED <<pc, devices, faults, leaked>>
        \/ /\ ~IsLocal(a) /\ Fault /\ SetupFails(by)
           /\ leaked' = leaked \cup lo \cup wire
           /\ UNCHANGED <<lo, wire>>
    /\ UNCHANGED <<host, lan, by, file, ops, search, twice>>

\* The devices come up; an import is saved.
SetupDone ==
    /\ pc = "adding" /\ todo = << >> /\ pc' = "running"
    /\ file' = IF by = "import" THEN devices ELSE file
    /\ UNCHANGED <<host, lan, lo, wire, by, todo, devices, ops, faults, search, leaked, twice>>

\* Only the interface is cleaned up.
TeardownWireOnly(gone) ==
    IF os = "darwin" THEN wire' = wire \ gone /\ UNCHANGED <<lo, leaked>>
    ELSE UNCHANGED <<lo, wire>> /\ leaked' = leaked \cup (gone \cap (lo \cup wire))

\* On Linux the addresses were added with the subnet's prefix and iproute2
\* refuses to delete them as /32: they stay.  What AddDevice put on the loopback
\* stays too.
TeardownLANIPs(gone) ==
    IF os = "darwin" THEN lo' = lo \ gone /\ wire' = wire \ gone /\ UNCHANGED leaked
    ELSE UNCHANGED <<lo, wire>> /\ leaked' = leaked \cup (gone \cap (lo \cup wire))

----------------------------------------------------------------------------
(* The process and its requests *)

Listed == {devices[i] : i \in 1 .. Len(devices)}

Boot ==
    /\ pc = "down" /\ Op
    /\ Setup(IF file = NoFile THEN Seed ELSE file, "boot")
    /\ UNCHANGED <<host, lo, wire, file, faults, leaked, twice>>

Repeated(devs) == {devs[i] : i \in {k \in 1 .. Len(devs) : \E j \in 1 .. k - 1 : devs[j] = devs[k]}}

\* applyConfig and save; aliases are taken down before new ones are looked for.
Import(devs) ==
    /\ pc = "running" /\ Op
    /\ TeardownLANIPs(Listed)
    /\ pc' = "tornDown" /\ by' = "import" /\ todo' = devs /\ devices' = << >>
    /\ twice' = twice \cup Repeated(devs)
    /\ UNCHANGED <<host, lan, file, faults, search>>

ImportSetup ==
    /\ pc = "tornDown" /\ Setup(todo, "import")
    /\ UNCHANGED <<host, lo, wire, file, ops, faults, leaked, twice>>

\* AddIP: an alias the loopback has already is refused on Linux, and so is what
\* is not an address.
AddDevice(a) ==
    /\ pc = "running" /\ Op /\ a # AutoIP /\ a \notin Listed
    /\ os = "linux" => a \notin lo
    /\ lo' = lo \cup {a}
    /\ devices' = Append(devices, a) /\ file' = devices'
    /\ UNCHANGED <<host, lan, wire, pc, by, todo, faults, search, leaked, twice>>

\* RemoveIP, which leaves the LAN interface alone.
RemoveDevice(i) ==
    /\ pc = "running" /\ Op
    /\ lo' = lo \ {devices[i]}
    /\ leaked' = leaked \cup ({devices[i]} \cap wire)
    /\ devices' = SubSeq(devices, 1, i - 1) \o SubSeq(devices, i + 1, Len(devices))
    /\ file' = devices'
    /\ UNCHANGED <<host, lan, wire, pc, by, todo, faults, search, twice>>

Stopped == pc' = "down" /\ devices' = << >> /\ todo' = << >>

Shutdown ==
    /\ pc = "running" /\ TeardownLANIPs(Listed) /\ Stopped
    /\ UNCHANGED <<host, lan, by, file, ops, faults, search, twice>>

\* The process dies; what it had set up survives it.
Crash ==
    /\ pc \in {"running", "adding", "tornDown"} /\ Stopped
    /\ leaked' = leaked \cup lo \cup wire
    /\ UNCHANGED <<host, lan, lo, wire, by, file, ops, faults, search, twice>>

\* The machine restarts, and with it its aliases go.
Reboot ==
    /\ Op /\ Stopped /\ lo' = {} /\ wire' = {}
    /\ UNCHANGED <<host, lan, by, file, faults, search, leaked, twice>>

HostJoins(a) ==
    /\ Cardinality(hosts) < MaxHosts /\ a \notin hosts
    /\ hosts' = hosts \cup {a} /\ late' = late \cup {a}
    /\ UNCHANGED <<host, lo, wire, mute, cache, pc, by, todo, devices, file, ops, faults, search, leaked, twice>>

\* The host talks to the simulator's, or is gone; its cache entry may remain.
HostSeen(a) ==
    /\ a \in hosts \ cache /\ cache' = cache \cup {a}
    /\ UNCHANGED <<host, lo, wire, hosts, mute, late, pc, by, todo, devices, file, ops, faults, search, leaked, twice>>

\* Probes of the host get no answer from now on, or are answered again.
HostHushes(a) ==
    /\ a \in hosts /\ mute' = IF a \in mute THEN mute \ {a} ELSE mute \cup {a}
    /\ UNCHANGED <<host, lo, wire, hosts, cache, late, pc, by, todo, devices, file, ops, faults, search, leaked, twice>>

HostLeaves(a) ==
    /\ a \in hosts /\ hosts' = hosts \ {a} /\ mute' = mute \ {a} /\ late' = late \ {a}
    /\ UNCHANGED <<host, lo, wire, cache, pc, by, todo, devices, file, ops, faults, search, leaked, twice>>

----------------------------------------------------------------------------

Init ==
    /\ os \in Systems /\ probing \in BOOLEAN
    /\ lo = {} /\ wire = {} /\ hosts = {} /\ mute = {} /\ cache = {}
    /\ pc = "down" /\ by = "boot" /\ todo = << >> /\ devices = << >> /\ file = NoFile
    /\ ops = 0 /\ faults = 0 /\ late = {} /\ leaked = {} /\ twice = {}
    /\ chosen = {} /\ known = {} /\ missed = {}

Next ==
    \/ Boot \/ AddNext \/ SetupDone \/ ImportSetup \/ Shutdown \/ Crash \/ Reboot
    \/ \E devs \in Imports : Import(devs)
    \/ \E a \in Addresses : AddDevice(a)
    \/ \E i \in 1 .. Len(devices) : RemoveDevice(i)
    \/ \E a \in PoolSet : HostJoins(a) \/ HostSeen(a) \/ HostHushes(a) \/ HostLeaves(a)

Spec == Init /\ [][Next]_vars

----------------------------------------------------------------------------
(* Properties *)

Sets == {lo, wire, hosts, mute, cache, late, chosen, known, missed, leaked, twice}

\* Types.
TypeOK ==
    /\ os \in Systems /\ probing \in BOOLEAN
    /\ \A s \in Sets : s \subseteq Addresses
    /\ pc \in {"down", "adding", "tornDown", "running"} /\ by \in {"boot", "import"}
    /\ todo \in Seq(Addresses) /\ devices \in Seq(Addresses)
    /\ file \in Seq(Addresses) \cup {NoFile}
    /\ ops \in 0 .. MaxOps /\ faults \in 0 .. MaxFaults

\* An address SetupLANIPs chose for a device was, when it searched, neither on
\* the machine (an alias left behind included) nor in the ARP cache, raw sockets
\* or not; if a host uses it now, that host came after the search or answered
\* no probe of it (getKnownUsedIPs, FindUnusedIPs, ProbeIP).
NoAddressConflict ==
    \A a \in chosen \cap Listed : a \notin known /\ (a \in hosts => a \in late \cup missed)

\* Every device in the list has its address on the machine, after boots,
\* imports over whatever aliases were left, and removals that clean up another
\* interface than the one the alias is on.  The exception is an address that an
\* imported file gave to two devices, which is not refused: removing one of
\* them may take the other's alias off the loopback.
ListedAreLocal == pc = "running" => \A a \in Listed : IsLocal(a) \/ a \in twice

\* The program loses track of an alias only by a crash, by a set-up that failed
\* half-way, by removing a device (RemoveDevice cleans up the loopback), or on
\* Linux by a tear-down (the prefix does not match).
OnlyKnownLeaks == lo \cup wire \subseteq Listed \cup leaked

\* A restart brings every device of the state file up at the address it had,
\* unless that address is outside the subnet (needsAutoIP).
RestartKeepsAddresses ==
    [][pc = "adding" /\ by = "boot" /\ pc' = "running" /\ file # NoFile =>
        /\ Len(devices') = Len(file)
        /\ \A i \in 1 .. Len(file) : file[i] \in Subnet => devices'[i] = file[i]]_vars

\* Refuted, hence in no run (README, section 4).  FindUnusedIPs finds unused
\* addresses: no two devices would share one.
AssignedUnused == \A i, j \in 1 .. Len(devices) : devices[i] = devices[j] => i = j

\* Refuted on Linux, hence in no run.  The repository's README promises that
\* addresses are cleaned up on shutdown.
ShutdownCleansUp == [][Shutdown => Listed \cap (lo' \cup wire') = {}]_vars
=============================================================================

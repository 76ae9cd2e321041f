# A TLA+ verification of the Cisco 9800-CL WLC simulator

The simulator (`src/`, Go) runs a set of simulated wireless controllers in one
process. Each device has an IP alias on the host and three protocol servers
(RESTCONF, SSH, SNMP); a TFTP server per device starts on demand. A web
dashboard adds, removes, edits, imports and resets devices while they run,
shows a live access log, persists every change to a state file, and can update
the appliance's own binaries. The modules here model the parts of that program
where goroutines, processes, files or a network stream interact; TLC checks
them on small instances and TLAPS proves the central invariants for all values
of the constants.

## 1. Inventory

| Component | State | Operations | Hard because |
|---|---|---|---|
| Access log (`accesslog`) | ring of entries, listener channels | Add, Recent, Subscribe, Unsubscribe | Add sends on channels after it released the lock |
| Simulator (`simulator`) | device list, handle map, credentials | AddDevice, RemoveDevice, six AP/client edits, ImportConfig, ClearAll, FactoryReset | alias commands, server shutdown and Save partly run outside the lock |
| State file (`config.Save`, `deleteState`) | `state.yaml`, `state.yaml.tmp` | Save, delete, Load at start | crashes, failing writes, overlapping Saves share one temporary name |
| Site content (`device`, `config`) | APs, clients and rendered configuration of a device | the six edits, EnsureDefaultAP, applyDefaults, InitConfig | names and addresses repeat, the default mark can be imported, a load fills in what an edit did not |
| Protocol servers | a listener each; stop channel, wait group per device | Serve, stop | bind fails when the alias is missing or the port taken; stop must be closed exactly once |
| SSH session (`sshsim`) | input buffer, line editor, copy dialog | shell, exec, SCP, SFTP | two readers of one byte stream; the client may leave at any point |
| TFTP (`tftpsim`) | map of instances, idle timers | EnsureRunning, run | look-up and registration are separate; timer against touch |
| Self-update (`updater`) | busy flag, cached release; staged, live and backup binaries; `helper.json`, `last-result.json` | CheckLatest, Apply, run; helper sequence | two processes, time-outs, failing renames, power loss |
| LAN mode (`network`) | aliases on the loopback and on a physical interface, chosen addresses | SetupLANIPs, TeardownLANIPs, FindUnusedIPs | other hosts take and leave addresses; what adds an alias and what removes it are not always the same interface or prefix |
| RESTCONF data (`restconf`) | none | the tables of clients and access points | a poller joins tables that separate loops build; they read the AP lists without the lock |
| SNMP data (`snmp`) | none | OID walk | mostly formatting |
| Dashboard page | log panel, update card | loadLogs, connectSSE, waitForRestart | a snapshot and a stream are merged |
| VM console, mock release server | none | none | display and test helper |

Interactions: protocol servers call the access log; dashboard handlers call the
simulator, the access log and the updater; the simulator calls the network
commands, the servers and the state file; SSH sessions call the TFTP manager;
the updater spawns a helper process that stops and starts the whole program.

What makes them correct, in one line each. Access log: nothing but an overflow
loses an entry, and a stream keeps each producer's order. Simulator: the list,
the map, the servers, the aliases and the file agree between requests, and
however requests overlap nothing is closed twice and every request ends. State
file: absent or whole, and the one last acknowledged. Site: there is always a
default AP, a restart brings back what ran, a move loses nobody. SSH: every byte
is interpreted once, in order, at the prompt that is showing. TFTP: no dead
entry, no stranded session, no server that stays. Update: only verified
binaries, the old ones never lost, never an older release over a newer one,
reported outcomes true. LAN mode: a device's address is on the machine and was
nobody else's when it was chosen. RESTCONF: the tables of one answer agree with
each other, and a restart does not change who is where. Log panel: every entry
at most once, in order, and on the panel until newer ones push it out.

`PROJECT.json` lists for every component its status, under "hazards" what is
hard to test and where, and under "map" the source lines of every definition.

## 2. Modules

| Module | Models | Composition |
|---|---|---|
| `AccessLog` | store and SSE handlers | proofs, the panel's too, in `AccessLogProofs` |
| `LogPanel` | the page's log panel: loadLogs, connectSSE, reconnects | extends `AccessLog`, its channels are the page's connections |
| `Simulator` | device life cycle, servers, aliases, state file, restarts | takes Save as atomic, which `StateFile` justifies and delimits; proofs in `SimulatorProofs` |
| `StateFile` | Save and deleteState on a directory | implements `AtomicFile`; proofs in `StateFileProofs` |
| `AtomicFile` | what Save promises | abstract specification |
| `Site` | content of one site: edits, defaults, rendering, reload | refines the bit `rev` that `Simulator` flips; proofs in `SiteProofs` |
| `Reports` | the RESTCONF tables of clients and access points | extends `Site`: every content a site can reach is what is rendered |
| `APSlices` | the AP list as a Go slice, edits in place, readers without the lock | the memory below `Site`'s lists; proofs in `SliceProofs` |
| `LanMode` | addresses on the LAN interface: boot, import, add, remove, shutdown, reboot | one request at a time, where `Simulator` has their interleavings; proofs in `LanModeProofs` |
| `ShellKeys` | keys, line editors, meaning of a line | shared by the next two |
| `SshShell` | one SSH connection down to its reads | implements `LineShell`; proofs in `SessionProofs` |
| `LineShell` | what a session promises its user | abstract specification |
| `TftpManager` | on-demand TFTP servers of one address | proofs in `SessionProofs`: it is the sessions that start them |
| `Version`, `Update` | version order; updater, helper, service manager | proofs in `UpdateProofs` |
| `MCSimulator`, `MCSite`, `MCUpdate`, `MCAPSlices`, `MCLanMode` | instances for TLC | where a `.cfg` cannot write the constant |

Definitions that carry a deviation in their name and in their comment
(`PushedEvictLate`, `RemoveAPAny`, ...) are mutated forms of the definition that
follows. No specification uses them; they are there to show that the
properties can fail.

### AccessLog

`entries`, `listeners` are the fields of `Store`. A channel is the sequence of
everything put into it (`sent`) and how much was read (`taken`); its buffer is
the difference. `AddEntry` is the critical section of `Add`; each iteration of
its notify loop is a step (`Notify`, or `NotifyPanics` when the channel was
closed), because the loop runs after the unlock. A panic inside a `net/http`
handler is recovered by the library and ends only that request; anywhere else
(`crashed`) it ends the process. `history`, `dropped`, `panics` and `owed` are
ghosts.

### LogPanel

The page asks once for the newest entries (`fetch`: asked, answered, shown) and
opens the stream (`conn`); an error makes it let go of the connection, which
the server's handler notices later, so an old channel may still be registered
when the page is on a new one. `LogsShown` replaces the panel, `Received` puts
a row on top and trims. `got` (all the page received) and `before` (what was
owed to the connection when the answer was shown) are ghosts. Filters and
colours are left out.

### Simulator

A request is a dashboard goroutine; `pc` says where it is. What runs under
`s.mu` without blocking is one action. AddDevice is check / alias / commit,
RemoveDevice is locked part / close / wait / alias, and applyConfig holds `mu`
across its steps (stop each handle, wait, tear down, set up addresses, start)
because the unlocked steps of others interleave with it. `save()` is snapshot /
write, `deleteState` is a step of its own. Servers are spawned, listen or fail,
and exit once stop is closed. `Persist` may fail (`DiskFaults`); the change in
memory stays, as in the code. `Crash`, `Shutdown` and `Boot` are the process;
aliases and the file survive it. `ExclusiveAdd` tells Linux (adding a present
alias fails) from macOS. A device is its IP and one bit that edits flip.

### StateFile and AtomicFile

Directory entries point at inodes and open descriptors keep their inode, which
is what makes overlapping Saves on one temporary name dangerous. Savers in
`Locked` hold the simulator's lock during Save (`saveLocked`), the others do
not (`save()`). Loss of unsynced pages at a power failure is not modelled: the
model's crash is the process's.

### Site

Every edit holds the lock from beginning to end, so each is one action.
`EnsureDefaultAP`, `FillClient`, `FillAP` and `applyDefaults` are translated as
functions on the AP list; `InitConfig` is the sets of WLANs and VLANs the
rendered configuration names. Of a client's fields only the address, the SSID
and two defaulted fields (`vlan`, `channel`) are kept. The file holds what the last edit
saved; a reload applies the defaults to it. `lost` marks the time after a move
to an AP that does not exist, which takes the client out of memory and returns
an error (section 4).

### Reports

The builders of `client-oper-data` and `access-point-oper-data` as operators on
the AP list, with the columns by which a poller joins the tables: the client's
address, its AP's name, its channel, SSID and VLAN; the AP's name, client count
and the stations of its two radios. One request sees one content here: that a
table may be built while an edit runs is `APSlices`' subject.

### APSlices

Device.APs is a header (array, length) over arrays in a heap. An edit, under
the lock, is a set of word writes that become visible one by one in any order:
`append` writes behind the slice or into an array twice as long, RemoveAP moves
the tail down in place, a client edit changes one or two elements. A snapshot
copies the header under the lock and reads the elements without it; the show
commands, RESTCONF and SNMP take no lock at all and may load the two words of
the header at different times. An element is two words, a name and the client
list. Each word is read and written whole, which the Go memory model promises
for words but not for the strings and slice headers in them: a torn string is
outside the model, and worse than anything in it.

### LanMode

`SetupLANIPs` is the search for unused addresses (`Setup`) and one `AddNext`
per device; `ImportSetup` follows the tear-down of `Import`. The search asks
ARP when raw sockets are allowed (`probing`), else the system's cache
(`cache`), and the machine's own addresses. AddDevice and RemoveDevice use the
loopback as the code does; macOS gets LAN aliases on the loopback too. Which
interface is the LAN, and the ARP packets, are outside. `late`, `chosen` and
`leaked` are ghosts.

### SshShell and LineShell

`wire` is what the client sent and nobody has read; the shell reads a chunk of
any size up to `BufSize` into `buf` and works through it, and the prompts of a
copy command read single bytes from the channel, past `buf`. A command or an
answer is one key: what matters is which reader takes it. The refinement maps
`buf \o wire` to the bytes pending in `LineShell`. SCP and SFTP take bytes as
they like and stand for one abstract mode.

### TftpManager

One address: addresses do not interact. `EnsureCheck` and `EnsureSpawn` are the
two halves of EnsureRunning, the rest are the steps of `run`. `fresh` abstracts
the thirty-second timer: it must run out twice, half a period each, before
`IdleTimeout`.

### Update

`run` is the updater's goroutine, `helper` the detached processes, one `pc` per
call that can fail. `rc-service stop` may make the process go, leave it shutting
down (`lingers`) or do nothing (`ignored`); a broken release never serves; a
sound one may take longer than the health check waits. `ProbeMayFail` lets a
probe of a serving process time out, `MayStall` lets a step of a helper last
minutes. With `MayStall = FALSE` a helper that polls every two seconds is done
before a fresh process has downloaded another release (`PollersDone`).

## 3. Runs

Passing runs:

| Run | Shows | Bounds, and what happens within them |
|---|---|---|
| `AccessLog` (module `LogPanel`) | ring, per-producer order, registrations, accounting of loss; the panel shows what it should; every Add returns | 2 producers (HTTP and not), 2 connections, 2 entries in all, ring, channels and panel of 1: eviction, overflow, trimming, a reconnect and a close during the notify loop. The invariants of the store are proved for all sizes |
| `SimSequential` | between requests everything agrees, a restart restores it | 1 request at a time, 4 operations, 3 starts, an address that cannot be added, a failing disk |
| `SimConcurrent` | no double close, the map points at listed devices, every request ends | 2 requests, 3 operations, 1 start, an import that repeats an address: a removal or an add overlaps an import at every point |
| `StateFile` | serialised Saves implement an atomic file | 2 savers, 4 Saves, 3 inodes (state file, temporary file, one spare): a Save after a crash meets the temporary file left behind |
| `Site` (modules `Site`, `Reports`) | default AP, reload, moves; the tables agree, and a restart leaves them | 3 APs, 2 clients, two names, two addresses, one network; five files to start from, two of them with two marked APs or one misnamed |
| `APSlices` | between edits the slice is the list; what a snapshot and a live reader can count on | 3 edits while one reader reads (readers do not write, so one is enough), up to 4 APs, arrays with and without room: an append in place, a growing append, a removal in front of and behind the reader |
| `LanMode` | no chosen address was taken, listed devices are reachable, what is leaked and when, restarts keep addresses | both systems, a search range of 3, 4 operations, 1 failing command, 1 foreign host: the range runs out, an import meets aliases left behind |
| `SshShell` | the session implements the line shell; it ends | 4 bytes, chunks of up to 2, all command kinds: long enough for a copy command, an answer, and a byte behind it |
| `Tftp` | no dead entry, no stranded session; EnsureRunning returns, servers stop | 2 sessions, 4 calls (so up to 4 overlapping servers), 2 transfers, refused sockets |
| `Update` | never a downgrade, only verified binaries, originals kept, no swap under a running process | 4 releases (one broken), 2 helpers, 1 fault, 1 power loss, all stop outcomes |
| `UpdateOutcome` | reported outcomes are true; the service comes back | the same with a stop command that works, no power loss |

The run `AccessLogClosed` exhibits a disagreement between the code and its own
comment (a finding in `PROJECT.json` with the quoted line): Add may send on a
closed channel and panic. Section 4 lists the others.

The runs do not repeat what is proved for all values and needs no instance to
be seen: the types of `AccessLog`, `Simulator`, `StateFile`, `Site`, `SshShell`,
`TftpManager` and `Update`, that rendering is current and defaults idempotent
(`Site`), and that waiting TFTP sessions are served. `TypeOK` of `APSlices` and
`LanMode` is stated for the reader; their runs check stronger invariants.

Fairness, always weak and only of what the scheduler or the clock drives.
`AccessLog`: the producers inside Add; nothing of the page or its connections. `SimConcurrent`: every request that was
started and every server goroutine; arrivals, crashes and restarts are not
assumed. `Tftp`: the instance goroutines with their timers, and a session
between the two halves of EnsureRunning. `UpdateOutcome`: helpers and starting
or stopping processes. `SshShell`: the session's goroutine whenever it is not
blocked in a read; nothing of the client.

Deadlock is checked for `Simulator`, `StateFile` and `Site`; in the first an
idle daemon is the explicit step `Rest`. The others may stop: the access log
when the process died or the bounded work is done, the slices when the reader
has read, LAN mode when its operations are used up, TFTP and Update when the
bounded calls and helpers are used up, an SSH session when it is closed.

## 4. Where the code does not keep a property

Besides the finding, the models have settings under which a checked property
fails, and the setting is one the code allows, and properties that are stated
in a module and fail as it stands. No run keeps them; to see the trace, change
the named constant, or add the property to the `.cfg`.

| Setting | Fails | What happens |
|---|---|---|
| `SimConcurrent` with `Imports <- GoodImports`, property `IdleConsistent` | listed devices have aliases | RemoveDevice removes the alias after it gave the lock up (`simulator.go:185`), by when an import has made a new device on that address |
| the same, property `RestartRestores` | the file is what runs | the snapshot of `save()` (`simulator.go:444`) overwrites what another request saved since; FactoryReset may delete such a save |
| `RestartRestores` without its exception for `stale` | an import replaces atomically, as `simulator.go:390` says | the first alias that fails leaves no devices, the new credentials and the old file |
| `StateFile` with `Locked = {s1}` | `NeverTruncated` | a Save with the lock and one without share the temporary file |
| `UpdateOutcome` with `StopOutcomes = {"gone", "lingers"}` | `ResultTruthful` | a process that is shutting down answers the health check of the roll-back |
| `Update` with `ProbeMayFail = TRUE` | `SwapOnlyWhenStopped` | one lost probe is taken for a stopped service |
| `SimConcurrent`, property `NoOrphanServers` | every running server belongs to a listed device, as "It is safe for concurrent use." (`simulator.go:37`) promises | AddDevice commits (`simulator.go:148`) over the entry an import has made meanwhile: a handle is lost with its servers running |
| `Update` with `MayStall = TRUE` | `InstalledVerified` | the four-minute timer (`updater.go:334`) frees `busy` under a helper that is still at work; a second update truncates a staged file the first one installs, against the check of each download that the repository's README promises (line 287) |
| `APSlices`, property `SnapshotComplete` | a snapshot is the running state | RemoveAP moves the tail down while a snapshot is marshalled: an AP is missed and another shown twice, also in the state file |
| `APSlices`, property `LiveReaderInBounds` | a reader without the lock stays inside the array | the length of a grown slice with the array of the old one |
| `LanMode`, property `AssignedUnused` | no two devices share an address | FindUnusedIPs (`arp.go:67`) does not look at addresses of the subnet that the same list names further down |
| `LanMode` with `Seed = <<auto>>`, `Imports = {<<s10, s10>>}`, property `ListedAreLocal` | listed devices are reachable | a file that names an address twice is imported while the loopback has that alias, so nothing is added; removing one of the two devices (`simulator.go:185`) takes the alias from the other |
| `LanMode` with `Systems = {"linux"}`, property `ShutdownCleansUp` | addresses are cleaned up on shutdown (README line 20) | aliases are added with the subnet's prefix and deleted as `/32` (`setup.go:89`), which `ip` refuses |
| `SshShell` with `TypeAhead = TRUE` | `ImplementsLineShell` | what was typed behind a copy command stays in the shell's buffer and runs as a command after the dialog |
| `Tftp`, at most one instance serving | (not stated) | two sessions both find no entry and start a server each |

In `Site` the exceptions are part of the properties: a move to a missing AP
loses the client from memory (`lost`) until the next edit writes that loss to
the file or a restart undoes it; a reload fills defaults and takes an AP's
missing SSIDs from its clients, so `RestartKeepsContent` compares names, marks,
addresses and the clients' SSIDs, not every field; and of two APs marked as
default both stay marked, the first being the default. A client that the
dashboard adds reports channel 0 and VLAN 0 until the next load fills them in,
so a radio's station count may rise with a restart (`RestartKeepsAnswers`).

In `LogPanel` entries that are under way while the answer of `loadLogs` is may be
wiped from the panel or shown twice; `NewEntriesAppear` speaks of later ones.
In `Update` it is the service's binary that never goes back: a power loss in a
roll-back can leave a newer console behind, which a later update to a release
in between takes back. The RESTCONF list endpoints put zero or several roots
into one XML answer, and tables built while an edit runs may disagree; both
are outside the properties of `Reports`.

## 5. Proofs

All theorems hold for every value of the constants that satisfies the named
assumption of the component's module. Each rests on an inductive invariant
(`Inv`; in `AccessLogProofs` `BaseInv` and what is added to it).

- `AccessLogProofs`: `BaseInvariant` (types, capacity, a channel is closed iff
  its stream is done, registered iff open, once), `RingTheorem`,
  `OrderTheorem`, `LossTheorem`. Order needs the strengthening that what a
  producer has still to send is newer than everything of its own in the
  channel; loss needs that a pending copy lists each channel once.
- `AccessLogProofs`, on `PanelSpec`: `PanelStreamTheorem`
  (`StreamedOnceInOrder`) and `PanelShowsTheorem` (`NewEntriesAppear`). Every
  step of the page is a step of the store or none (`PanelRefinesStore`), so what
  is proved of the store holds of it. `GotInv` says that what the page has
  received is older than what its channel still holds and than what a producer
  still owes to it, also after a reconnect; `Kept` that whatever the page took
  from its stream since `loadLogs` was shown is on the panel, at the height that
  its place in `got` gives, or has newer rows of a whole panel above it.
- `SimulatorProofs`: `SimulatorTypes`, `NeverClosedTwice` (`StopAtMostOnce`),
  `MapMatchesDevices` (`MapPointsAtDevices`), for any devices, number of
  requests, imports, faults and restarts. Neither property is inductive. `Inv`
  adds who may close a handle: either the one RemoveDevice that has taken it
  out of the map (`RemoveInv`: nobody else holds it, the map does not have it,
  it is still open), or the request that holds the lock and has the address
  still on its list (`MapOpen`: everything in the map is open, except what the
  lock holder has crossed off). `LockInv` says that the holder of the lock is
  the only request inside applyConfig and that the map stays empty from the
  tear-down to the start, and `OpInv` what a request knows of its own
  arguments; `CloseInv` that handles not made yet have not been closed.
- `SimulatorProofs`, assuming `OneRequest` (requests do not overlap):
  `RestartBringsBack` (`RestartRestores`), and with `PlainFiles` as well (no
  file names an address twice, the seed's addresses can be added) `IdleAgrees`
  (`IdleConsistent`). `RestoreInv` relates memory and file at every point inside
  a request; `Sound` says whose an address is that is on the host without being
  listed (`AliasInv`), and that every server that may run is in the map or about
  to be stopped (`ServerInv`). Both assumptions are needed: section 4 has the
  overlapping requests that break each property, and of two devices on one
  address one loses its handle, or its alias with the other's removal.
- `StateFileProofs`, assuming every Save holds the lock (`Locked = Savers`):
  `SerialisedNeverTruncated` and the refinement `SerialisedImplements`. The
  invariant says the lock serialises the savers, the temporary file belongs to
  the active one and is not the state file, and the state file holds what the
  last successful call stored. Section 4 shows the assumption is needed, and
  that the code does not always meet it.
- `SiteProofs`: `SiteAlwaysHasDefault`, `RestartsKeepContent`,
  `DefaultsAlwaysIdempotent`, `SiteTypesAndRendering`. The invariant is that a
  marked AP exists in memory and the first one has the site's name, and that
  either the file is what is in memory, or memory is what loading the file
  gives, but for the time after a failed move. Adding
  appends behind the first mark, and removing refuses it, so the first mark
  never moves to an AP of another name.
- `SiteProofs`: `MovesKeepClients` (the action property `MoveKeepsClients`). A
  confirmed move is one position of the list of clients giving its client to
  another; `MoveLayout` says which positions hold what afterwards, for lists of
  any length in which addresses and names repeat, and `MoveCounts` draws the
  counts of the property from a one-to-one pairing of positions before and
  after.
- `SiteProofs`: `AnswersAlwaysAgree` (`AnswersAgree`) and `RestartsKeepAnswers`
  (the action property `RestartKeepsAnswers`). The tables list the clients AP by
  AP, so each AP's clients are a stretch of positions of the flattened list
  (`Placed`), and these stretches share nothing and cover it (`Partitioned`,
  `PlacesPartition`). A sum of station counts is then the number of positions of
  a union (`TotalCounts`), and the sums over radios, over APs and over the
  client table are the same number. These lemmas go by induction on the length
  of a list, stated for a set of naturals (`InductiveSet`, from the least number
  outside the set). For the restart, `Filled` says what a load may add to
  a client, and `FilledAnswers` that positions and lengths stay as they were.
- `SliceProofs`: `SliceAlwaysShowsList` (`SliceShowsList`), `SnapshotsSeeRealAPs`
  (`SnapshotSeesRealAPs`), `SnapshotsKeepDefault` (`SnapshotKeepsDefault`) and
  `UndisturbedReadersAreExact` (`UndisturbedIsExact`), for any access points and
  lists with a default AP, arrays of any length and any number of edits whose
  writes become visible in any order. `SliceInv`: each word of the slice is what
  the list under way has there, or the write that will make it so is still to
  come. `ReaderInv`, for a snapshot: what its array holds up to its length bears
  names the device has had since (`Real`), the head does not change (`Headed`),
  and while only appends came, no write is pending below its length (`Apart`);
  for a live reader nothing overlapped: the lock is free and the header is the
  one it loads (`Alone`).
- `LanModeProofs`: `NoConflictOnLan` (`NoAddressConflict`), `AliasesAccountedFor`
  (`OnlyKnownLeaks`) and `RestartKeepsLanAddresses` (`RestartKeepsAddresses`), for
  both systems, any search range, files, faults, crashes and foreign hosts; and,
  assuming that no import gives two devices one address of the subnet
  (`NoDoubles`), `ListedDevicesReachable` (`ListedAreLocal`). `Safe` says that a
  device has its address or is still on the list of `AddNext` (`Reached`), and
  that devices being set up from a file have the addresses of the file
  (`FromFile`). Without `NoDoubles` the last property fails (section 4).
- `SessionProofs`, assuming `TypeAhead = FALSE`: `SessionInvariant`,
  `SessionTypes` and the refinement `SessionImplementsLineShell`. The invariant
  is that `buf` is empty whenever somebody reads from the channel, and that
  nothing has been typed behind a line that holds a copy word. And, without that
  assumption, `TftpSafety` (the entry of the map is alive, waiters are served).
- `UpdateProofs`: `TypeCorrect` without further assumptions; under
  `MayStall = FALSE` `UpdateKeepsOriginals` (`OriginalKept`) and
  `UpdateInstallsVerified` (`InstalledVerified`), and with `ProbeMayFail = FALSE`
  as well `UpdateSwapsWhenStopped` (`SwapOnlyWhenStopped`), for any releases,
  helpers, faults, power losses and outcomes of the stop command. None of the
  three is inductive. `Control` says that at most one helper is between reading
  its configuration and the end of its roll-back, that while it has not started
  the service again no updater stages (it is down, or busy), that what is handed
  over was verified, and that no process is starting while a helper waits for it
  to stop. `Contents` says for each step of that helper where every binary is:
  still live as it was, saved in the backup, or to be restored. Section 4 shows
  that `MayStall = FALSE` is needed: the four-minute timer breaks `Control`.
- `UpdateProofs`, under the same two assumptions: `UpdateNeverDowngrades`
  (`NeverDowngrades`); and with a stop command that works
  (`StopOutcomes = {"gone"}`) `UpdateReportsTruth` (`ResultTruthful`). The first
  needs that `isNewer` is a strict order (`NewerIsLexicographic`) and that the
  service never runs less than the binary on the disk (`Direction`); the second
  how far the update, or its roll-back, has come at each step (`Outcomes`).

With these, every invariant and every action property that a passing run checks
is a theorem, under the assumptions named above. Only model-checked is liveness
(`AddNeverBlocks`, `RequestsFinish`, `EnsureReturns`, `ServersStop`,
`ServiceReturns`, `SessionEnds`), which is outside what the proof system handles.

## 6. Plan

1. `waitForRestart` of the page over `Update`.
2. The interleavings of `Simulator` with LAN addresses instead of loopback ones.

## 7. Not modelled

Rendering (the remaining RESTCONF columns, SNMP values, the text of show
commands, the page) is formatting, or constants. The SNMP agent's table holds
fields a device never changes, and the order of a walk is the library's. The
detection of the interface and the ARP sockets are I/O against the operating
system; the VM console polls the dashboard and draws; the mock release server
is a test helper. The page's update card (`waitForRestart`) and the updater's
best-effort signal to the console change no state the models keep.

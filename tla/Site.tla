-------------------------------- MODULE Site --------------------------------
(***************************************************************************)
(* The content of one site: its access points and their clients            *)
(* (internal/device), the dashboard's edits of them                        *)
(* (internal/simulator), the rendered running-config, the state file and   *)
(* what loading a file makes of it (internal/config).                      *)
(*                                                                         *)
(* Every edit holds the simulator's lock from beginning to end, so each is *)
(* one action.  Names and MAC addresses are not unique: the code takes the *)
(* first match, and so does the model.  Of a client's many fields, vlan    *)
(* and channel stand for all that applyDefaults fills in (0 is "not        *)
(* given"); a channel below 36 is one of the 2.4 GHz band.                 *)
(***************************************************************************)
EXTENDS Integers, Sequences, FiniteSets

CONSTANTS
    Names,          \* names of sites and of APs
    NoName,         \* the empty name, which a file may give a site
    MACs,           \* client addresses
    SSIDs,          \* networks
    None,           \* no SSID given
    Imports,        \* what files may say of the site: its name and its APs
    MaxAPs,         \* bound: a site of that many APs is given no further one
    MaxClients      \* bound: one of that many clients is given no further one

DefaultVLAN == 50
DefaultChannel == 36
Client == [mac : MACs, ssid : SSIDs \cup {None}, vlan : {0, DefaultVLAN}, channel : {0, 6, DefaultChannel}]
AP == [name : Names, default : BOOLEAN, ssids : SUBSET SSIDs, clients : Seq(Client)]

ASSUME SiteAssumption ==
    /\ None \notin SSIDs
    /\ Imports \subseteq [hostname : Names \cup {NoName}, aps : Seq(AP)] /\ Imports # {}
    /\ MaxAPs \in Nat /\ MaxClients \in Nat

VARIABLES
    hostname,   \* Device.Hostname, which the file has as well: only a load sets it
    aps,        \* Device.APs
    rendered,   \* Device.cachedConfig
    file,       \* the APs in the file a restart would load
    reply,      \* the move the dashboard's last answer confirms, if it does
    lost        \* ghost: a failed move took a client out since the last edit

vars == <<hostname, aps, rendered, file, reply, lost>>

First(S) == CHOOSE i \in S : \A j \in S : i <= j

CutAt(s, k) == [j \in 1 .. Len(s) - 1 |-> IF j < k THEN s[j] ELSE s[j + 1]]

----------------------------------------------------------------------------
(* internal/device and internal/config: default AP, defaults, rendering *)

Marked(a) == {i \in 1 .. Len(a) : a[i].default}
Named(a, n) == {i \in 1 .. Len(a) : a[i].name = n}

\* The loop goes on behind the first marked AP.
EnsureDefaultAPEvery(h, a) ==
    IF h = NoName THEN a
    ELSE IF Marked(a) # {} THEN [i \in 1 .. Len(a) |-> IF a[i].default THEN [a[i] EXCEPT !.name = h] ELSE a[i]]
    ELSE IF Named(a, h) # {} THEN [a EXCEPT ![First(Named(a, h))].default = TRUE]
    ELSE <<[name |-> h, default |-> TRUE, ssids |-> {}, clients |-> << >>]>> \o a

\* A site without a name is left as it is.  Otherwise the first marked AP is
\* the default one; failing that, the first that bears the site's name is
\* adopted; failing that, one is put in front.
EnsureDefaultAP(h, a) ==
    IF h = NoName THEN a
    ELSE IF Marked(a) # {} THEN [a EXCEPT ![First(Marked(a))].name = h]
    ELSE IF Named(a, h) # {} THEN [a EXCEPT ![First(Named(a, h))].default = TRUE]
    ELSE <<[name |-> h, default |-> TRUE, ssids |-> {}, clients |-> << >>]>> \o a

FillClient(c) ==
    [mac |-> c.mac, ssid |-> c.ssid, vlan |-> IF c.vlan = 0 THEN DefaultVLAN ELSE c.vlan,
     channel |-> IF c.channel = 0 THEN DefaultChannel ELSE c.channel]

ClientSSIDs(ap) == {ap.clients[k].ssid : k \in 1 .. Len(ap.clients)} \ {None}

\* Client defaults; an AP without SSIDs takes those of its clients.
FillAP(ap) ==
    [ap EXCEPT !.clients = [k \in 1 .. Len(ap.clients) |-> FillClient(ap.clients[k])],
               !.ssids = IF ap.ssids = {} THEN ClientSSIDs(ap) ELSE ap.ssids]

applyDefaults(h, a) ==
    LET e == EnsureDefaultAP(h, a) IN [i \in 1 .. Len(e) |-> FillAP(e[i])]

Clients(a) == UNION {{a[i].clients[k] : k \in 1 .. Len(a[i].clients)} : i \in 1 .. Len(a)}

\* InitConfig: the WLANs and VLANs of the clients.
InitConfig(a) == [wlans |-> {c.ssid : c \in Clients(a)} \ {None}, vlans |-> {c.vlan : c \in Clients(a)} \ {0}]

----------------------------------------------------------------------------
(* The edits of internal/simulator *)

Slots(a) == UNION {{<<i, k>> : k \in 1 .. Len(a[i].clients)} : i \in 1 .. Len(a)}

NoReply == [op |-> "none", mac |-> None, ap |-> None]
Confirmed(m, n) == [op |-> "move", mac |-> m, ap |-> n]

\* The configuration is rendered and the site saved.  (Simulator has the
\* failing save.)
Save(h, a, answer) ==
    /\ hostname' = h
    /\ aps' = a /\ rendered' = InitConfig(a)
    /\ file' = a /\ lost' = FALSE
    /\ reply' = answer

\* So does an edit that succeeds.
Commit(a, answer) == Save(hostname, a, answer)

Refuse == reply' = NoReply /\ UNCHANGED <<hostname, aps, rendered, file, lost>>

AddAP(ap) ==
    /\ Len(aps) < MaxAPs
    /\ Commit(Append(aps, ap), NoReply)

\* The default AP is not protected.
RemoveAPAny(n) ==
    LET S == Named(aps, n) IN
    IF S = {} THEN Refuse
    ELSE Commit(CutAt(aps, First(S)), NoReply)

\* The first AP of that name goes, unless it is the default one.
RemoveAP(n) ==
    LET S == Named(aps, n) IN
    IF S = {} \/ (S # {} /\ aps[First(S)].default) THEN Refuse
    ELSE Commit(CutAt(aps, First(S)), NoReply)

AddClient(n, c) ==
    LET S == Named(aps, n) IN
    /\ Cardinality(Slots(aps)) < MaxClients
    /\ IF S = {} THEN Refuse
       ELSE Commit([aps EXCEPT ![First(S)].clients = Append(@, c)], NoReply)

\* The first AP that has the client, and the first of its entries there.
Home(m) == {i \in 1 .. Len(aps) : \E k \in 1 .. Len(aps[i].clients) : aps[i].clients[k].mac = m}
Entry(m) == First({k \in 1 .. Len(aps[First(Home(m))].clients) : aps[First(Home(m))].clients[k].mac = m})

WithoutClient(m) == [aps EXCEPT ![First(Home(m))].clients = CutAt(@, Entry(m))]

RemoveClient(m) ==
    IF Home(m) = {} THEN Refuse
    ELSE Commit(WithoutClient(m), NoReply)

UpdateAPSSIDs(n, ss) ==
    LET S == Named(aps, n) IN
    IF S = {} THEN Refuse
    ELSE Commit([aps EXCEPT ![First(S)].ssids = ss], NoReply)

Moved(m, s) ==
    LET c == aps[First(Home(m))].clients[Entry(m)] IN
    IF s = None THEN c ELSE [c EXCEPT !.ssid = s]

\* The entry is not taken out of the AP it leaves.
UpdateClientCopies(m, n, s) ==
    /\ Home(m) # {} /\ Named(aps, n) # {}
    /\ Commit([aps EXCEPT ![First(Named(aps, n))].clients = Append(@, Moved(m, s))], Confirmed(m, n))

\* UpdateClient: the client is taken out first; when the target then turns out
\* not to exist it is gone from memory, and nothing is rendered or saved.
UpdateClient(m, n, s) ==
    \/ /\ Home(m) = {} /\ Refuse
    \/ /\ Home(m) # {} /\ Named(aps, n) # {}
       /\ Commit([WithoutClient(m) EXCEPT ![First(Named(aps, n))].clients = Append(@, Moved(m, s))],
                 Confirmed(m, n))
    \/ /\ Home(m) # {} /\ Named(aps, n) = {}
       /\ aps' = WithoutClient(m) /\ lost' = TRUE
       /\ reply' = NoReply /\ UNCHANGED <<hostname, rendered, file>>

----------------------------------------------------------------------------
(* Loading *)

\* The process restarts: config.Load, nothing is saved.
Restart ==
    /\ UNCHANGED <<hostname, file>>
    /\ aps' = applyDefaults(hostname, file) /\ rendered' = InitConfig(aps')
    /\ lost' = FALSE /\ reply' = NoReply

\* A configuration with this site is imported: ParseYAML, InitConfig, save.
Import(f) == Save(f.hostname, applyDefaults(f.hostname, f.aps), NoReply)

\* The site is removed and added again through the dashboard: AddDevice wants
\* a name, ensures the default AP and leaves clients and SSIDs as they are.
Recreate(f) ==
    /\ f.hostname # NoName
    /\ Save(f.hostname, EnsureDefaultAP(f.hostname, f.aps), NoReply)

Init ==
    /\ \E f \in Imports : hostname = f.hostname /\ file = f.aps
    /\ aps = applyDefaults(hostname, file) /\ rendered = InitConfig(aps)
    /\ reply = NoReply /\ lost = FALSE

NewAP(n, d) == [name |-> n, default |-> d, ssids |-> {}, clients |-> << >>]

EditAPs ==
    \/ \E n \in Names, d \in BOOLEAN : AddAP(NewAP(n, d))
    \/ \E n \in Names : RemoveAP(n)
    \/ \E n \in Names, ss \in SUBSET SSIDs : UpdateAPSSIDs(n, ss)

EditClients ==
    \/ \E n \in Names, m \in MACs, s \in SSIDs \cup {None} : AddClient(n, [mac |-> m, ssid |-> s, vlan |-> 0, channel |-> 0])
    \/ \E m \in MACs : RemoveClient(m)
    \/ \E m \in MACs, n \in Names, s \in SSIDs \cup {None} : UpdateClient(m, n, s)

Next == EditAPs \/ EditClients \/ Restart \/ \E f \in Imports : Import(f) \/ Recreate(f)

Spec == Init /\ [][Next]_vars

----------------------------------------------------------------------------
(* Properties *)

(* Type invariant; the running-config names only real networks. *)
TypeOK ==
    /\ hostname \in Names \cup {NoName}
    /\ aps \in Seq(AP) /\ file \in Seq(AP)
    /\ rendered \in [wlans : SUBSET SSIDs, vlans : SUBSET {DefaultVLAN}]
    /\ reply \in {NoReply} \cup [op : {"move"}, mac : MACs, ap : Names]
    /\ lost \in BOOLEAN

(* A site that has a name is itself an access point: whatever is added,
   removed, imported or reloaded, it has a default AP, and the first one marked
   as such bears the site's name.  (Not that there is exactly one, as the
   comment at device.go:45 has it: a file, or an AP added with the mark, may
   bring a second one, which EnsureDefaultAP leaves marked and RemoveAP then
   refuses to remove.) *)
SiteHasDefault ==
    hostname # NoName => Marked(aps) # {} /\ aps[First(Marked(aps))].name = hostname

Shape(a) ==
    [i \in 1 .. Len(a) |->
        [name |-> a[i].name, default |-> a[i].default,
         clients |-> [k \in 1 .. Len(a[i].clients) |-> [mac |-> a[i].clients[k].mac, ssid |-> a[i].clients[k].ssid]]]]

(* Nothing is lost across restarts: loading the file gives the APs that are
   running, in their order and with their marks, and the clients on each with
   their SSIDs; no AP is added, renamed or adopted by the load (unless the
   last move failed). *)
RestartKeepsContent == ~lost => Shape(applyDefaults(hostname, file)) = Shape(aps)

(* applyDefaults is idempotent, as its comment says: whatever edits led here,
   a second load changes nothing that a first one has not. *)
DefaultsIdempotent ==
    applyDefaults(hostname, applyDefaults(hostname, aps)) = applyDefaults(hostname, aps)

(* The rendered running-config is that of the present clients, however they
   got there (a failed move, which renders nothing, excepted). *)
RenderedCurrent == ~lost => rendered = InitConfig(aps)

OnAP(a, m) == Cardinality({s \in Slots(a) : a[s[1]].clients[s[2]].mac = m})

Stations(ap) == {ap.clients[k].mac : k \in 1 .. Len(ap.clients)}

(* A roaming client is on one AP at a time: a move that is confirmed neither
   duplicates nor drops any client, every AP keeps its other clients, and the
   client is on the AP asked for. *)
MoveKeepsClients ==
    [][reply'.op = "move" =>
          /\ \A m \in MACs : OnAP(aps', m) = OnAP(aps, m)
          /\ Len(aps') = Len(aps)
          /\ \A i \in 1 .. Len(aps) : Stations(aps'[i]) \ {reply'.mac} = Stations(aps[i]) \ {reply'.mac}
          /\ \E k \in 1 .. Len(aps'[First(Named(aps', reply'.ap))].clients) :
                aps'[First(Named(aps', reply'.ap))].clients[k].mac = reply'.mac]_vars
=============================================================================

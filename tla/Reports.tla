------------------------------ MODULE Reports -------------------------------
(***************************************************************************)
(* What a site answers to RESTCONF (internal/restconf): the tables of its  *)
(* clients and of its access points, built from the site's content on      *)
(* every request.  A poller joins them: clients to APs by the AP's name,   *)
(* the tables of clients by the client's address.  Of each entry only what *)
(* the properties tell apart is kept.  One request here sees one content;  *)
(* APSlices has the requests that read while an edit runs.                 *)
(***************************************************************************)
EXTENDS Site

Seqs == INSTANCE SequencesExt
Sets == INSTANCE FiniteSetsExt

\* A device that roamed is listed once, where it was first.
AllClientsOnce(a) ==
    LET cs == Seqs!FlattenSeq([i \in 1 .. Len(a) |->
                  [k \in 1 .. Len(a[i].clients) |-> [client |-> a[i].clients[k], ap |-> a[i]]]])
        Seen(j) == \E j2 \in 1 .. j - 1 : cs[j2].client.mac = cs[j].client.mac
    IN [j \in 1 .. Cardinality({j \in 1 .. Len(cs) : ~Seen(j)}) |-> cs[j]]

\* Every client with its AP, AP by AP.
AllClients(a) ==
    Seqs!FlattenSeq([i \in 1 .. Len(a) |->
        [k \in 1 .. Len(a[i].clients) |-> [client |-> a[i].clients[k], ap |-> a[i]]]])

----------------------------------------------------------------------------
(* client-oper-data: six tables of one reading of the clients *)

buildCommonOperData(cs) == [j \in 1 .. Len(cs) |-> [mac |-> cs[j].client.mac, apName |-> cs[j].ap.name]]

buildDot11OperData(cs) ==
    [j \in 1 .. Len(cs) |-> [mac |-> cs[j].client.mac, channel |-> cs[j].client.channel, ssid |-> cs[j].client.ssid]]

buildPolicyData(cs) == [j \in 1 .. Len(cs) |-> [mac |-> cs[j].client.mac, vlan |-> cs[j].client.vlan]]

\* traffic-stats, sisf-db-mac and dc-info say nothing else the model keeps.
MACsOf(cs) == [j \in 1 .. Len(cs) |-> [mac |-> cs[j].client.mac]]

clientOperData(a) ==
    LET cs == AllClients(a) IN
    [common |-> buildCommonOperData(cs), dot11 |-> buildDot11OperData(cs), traffic |-> MACsOf(cs),
     sisf |-> MACsOf(cs), dc |-> MACsOf(cs), policy |-> buildPolicyData(cs)]

----------------------------------------------------------------------------
(* access-point-oper-data: three tables, each with its own loop over the APs *)

buildCapwapData(a) == [i \in 1 .. Len(a) |-> [apName |-> a[i].name, clientCount |-> Len(a[i].clients)]]

buildAPNameMacMap(a) == [i \in 1 .. Len(a) |-> a[i].name]

Below36(ap) == {k \in 1 .. Len(ap.clients) : ap.clients[k].channel < DefaultChannel}
OnSlot1(ap) == {k \in 1 .. Len(ap.clients) : ap.clients[k].channel >= DefaultChannel}

\* Two radios per AP.  The 2.4 GHz one always reports no station; the 5 GHz
\* one those from channel 36 on, and the channel of the last of them.
buildRadioOperData(a) ==
    Seqs!FlattenSeq([i \in 1 .. Len(a) |->
        <<[slot |-> 0, stations |-> 0, channel |-> 6],
          [slot |-> 1, stations |-> Cardinality(OnSlot1(a[i])),
           channel |-> IF OnSlot1(a[i]) = {} THEN 36
                       ELSE a[i].clients[Sets!Max(OnSlot1(a[i]))].channel]>>])

accessPointOperData(a) ==
    [capwap |-> buildCapwapData(a), nameMap |-> buildAPNameMacMap(a), radios |-> buildRadioOperData(a)]

----------------------------------------------------------------------------
(* Properties *)

(* A poller can join the tables of a site, whatever was edited, imported or
   reloaded before it asked: for every AP name, the client-counts of the APs so
   named in capwap-data add up to the entries that name them in
   common-oper-data, also when names and client addresses repeat; and an AP's
   client-count exceeds the stations of its two radios by just the clients
   below channel 36, those whose channel is not filled in yet included. *)
AnswersAgree ==
    LET cl == clientOperData(aps)
        ap == accessPointOperData(aps)
    IN
    /\ \A n \in Names :
          Sets!MapThenSumSet(LAMBDA i : ap.capwap[i].clientCount,
                                {i \in 1 .. Len(aps) : ap.nameMap[i] = n})
            = Cardinality({j \in 1 .. Len(cl.common) : cl.common[j].apName = n})
    /\ \A i \in 1 .. Len(aps) :
          ap.capwap[i].clientCount
            = ap.radios[2 * i - 1].stations + ap.radios[2 * i].stations + Cardinality(Below36(aps[i]))
    /\ \A j \in 1 .. Len(cl.common) :
          cl.common[j].mac = cl.dot11[j].mac /\ cl.dot11[j].mac = cl.policy[j].mac

(* A restart does not show in what a poller sees of who is where: the same APs
   with the same client-counts, the same clients on the same APs in the same
   order; a radio's station count may rise, by clients whose channel is filled
   in by the load, and never falls.  (Unless a failed move lost a client from
   memory that the file still has.) *)
RestartKeepsAnswers ==
    [][~lost /\ Restart =>
          /\ buildCapwapData(aps') = buildCapwapData(aps)
          /\ clientOperData(aps').common = clientOperData(aps).common
          /\ \A i \in 1 .. 2 * Len(aps) :
                buildRadioOperData(aps')[i].stations >= buildRadioOperData(aps)[i].stations]_vars
=============================================================================

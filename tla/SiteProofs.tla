----------------------------- MODULE SiteProofs -----------------------------
(***************************************************************************)
(* Proofs about the content of a site: for any names, addresses, networks  *)
(* and contents of files, and any number of access points and clients.     *)
(* There is a default AP, a restart brings the content back, a move        *)
(* neither loses nor doubles a client, the tables RESTCONF answers with    *)
(* can be joined, and a restart does not show in them.                     *)
(***************************************************************************)
EXTENDS Reports, SequenceTheorems, FunctionTheorems, FiniteSetTheorems, WellFoundedInduction, TLAPS

----------------------------------------------------------------------------
(* First matches and sequences *)

(* A set of positions has a first one. *)
LEMMA FirstIsLeast ==
    ASSUME NEW S \in SUBSET Nat, S # {}
    PROVE  First(S) \in S /\ \A j \in S : First(S) <= j
<1>1. \E i \in S : \A j \in S : ~(<<j, i>> \in OpToRel(<, Nat))
  BY NatLessThanWellFounded, WFMin, Zenon
<1>2. OpToRel(<, Nat) = {p \in Nat \X Nat : p[1] < p[2]}  BY Zenon DEF OpToRel
<1>3. \A i, j \in Nat : <<j, i>> \in {p \in Nat \X Nat : p[1] < p[2]} <=> j < i  BY SMT
<1>4. PICK i \in S : \A j \in S : ~(<<j, i>> \in {p \in Nat \X Nat : p[1] < p[2]})
  BY <1>1, <1>2, Zenon
<1>5. i \in S /\ \A j \in S : i <= j
  <2>1. i \in Nat /\ \A j \in S : j \in Nat  OBVIOUS
  <2>2. \A j \in S : ~(j < i)  BY <2>1, <1>3, <1>4, Zenon
  <2> QED BY <2>1, <2>2
<1> QED BY <1>5 DEF First

(* Induction on natural numbers for a set of them: it has no least number
   outside. *)
LEMMA InductiveSet ==
    ASSUME NEW S, 0 \in S, \A m \in Nat : m \in S => m + 1 \in S
    PROVE  \A m \in Nat : m \in S
<1> SUFFICES ASSUME Nat \ S # {} PROVE FALSE  OBVIOUS
<1> DEFINE T == Nat \ S
           l == First(T)
<1>1. T \in SUBSET Nat  OBVIOUS
<1>2. l \in T /\ \A j \in T : l <= j  BY <1>1, FirstIsLeast
<1> HIDE DEF l
<1>3. l \in Nat /\ l # 0 /\ l - 1 \in Nat /\ (l - 1) + 1 = l /\ ~(l <= l - 1)  BY <1>2
<1>4. l - 1 \in S  BY <1>2, <1>3
<1>5. l \in S  BY <1>3, <1>4
<1> QED BY <1>2, <1>5

(* A function on 1 .. n is a sequence. *)
LEMMA FunctionIsSeq ==
    ASSUME NEW S, NEW n \in Nat, NEW f \in [1 .. n -> S]
    PROVE  f \in Seq(S) /\ Len(f) = n
<1>1. f \in Seq(S)  BY SeqDef
<1>2. DOMAIN f = 1 .. Len(f) /\ Len(f) \in Nat /\ DOMAIN f = 1 .. n  BY <1>1, LenProperties
<1> QED BY <1>1, <1>2

(* Cutting one position out of a sequence. *)
LEMMA CutAtProperties ==
    ASSUME NEW S, NEW s \in Seq(S), NEW k \in 1 .. Len(s)
    PROVE  /\ CutAt(s, k) \in Seq(S) /\ Len(CutAt(s, k)) = Len(s) - 1
           /\ \A j \in 1 .. Len(s) - 1 : CutAt(s, k)[j] = IF j < k THEN s[j] ELSE s[j + 1]
<1>1. Len(s) - 1 \in Nat /\ Len(s) \in Nat /\ s \in [1 .. Len(s) -> S]  BY LenProperties
<1>2. CutAt(s, k) \in [1 .. Len(s) - 1 -> S]  BY <1>1 DEF CutAt
<1>3. \A j \in 1 .. Len(s) - 1 : CutAt(s, k)[j] = IF j < k THEN s[j] ELSE s[j + 1]  BY DEF CutAt
<1> QED BY <1>1, <1>2, <1>3, FunctionIsSeq

----------------------------------------------------------------------------
(* Loading a file *)

(* Access points whose first marked one bears the site's name, if it has one. *)
HasDefault(hn, a) ==
    hn # NoName =>
        \E f \in 1 .. Len(a) :
            /\ a[f].default /\ a[f].name = hn
            /\ \A j \in 1 .. f - 1 : ~a[j].default

(* It has such a default AP in the sense of SiteHasDefault, and that is it. *)
LEMMA DefaultIsFirstMarked ==
    ASSUME NEW hn \in Names \cup {NoName}, NEW a \in Seq(AP), hn # NoName, HasDefault(hn, a)
    PROVE  /\ Marked(a) # {} /\ First(Marked(a)) \in 1 .. Len(a)
           /\ a[First(Marked(a))].name = hn
<1>1. PICK f \in 1 .. Len(a) :
          /\ a[f].default /\ a[f].name = hn
          /\ \A j \in 1 .. f - 1 : ~a[j].default
  BY DEF HasDefault
<1>2. f \in Marked(a) /\ Marked(a) \in SUBSET Nat /\ Marked(a) \subseteq 1 .. Len(a)
  BY <1>1 DEF Marked
<1>3. First(Marked(a)) \in Marked(a) /\ First(Marked(a)) <= f  BY <1>2, FirstIsLeast
<1>4. ~(First(Marked(a)) \in 1 .. f - 1)  BY <1>1, <1>3 DEF Marked
<1>5. First(Marked(a)) = f  BY <1>2, <1>3, <1>4
<1> QED BY <1>1, <1>2, <1>5

(* The first match of a non-empty set of positions. *)
LEMMA FirstPosition ==
    ASSUME NEW hn \in Names \cup {NoName}, NEW a \in Seq(AP), NEW S \in {Marked(a), Named(a, hn)}, S # {}
    PROVE  First(S) \in S /\ First(S) \in 1 .. Len(a) /\ \A j \in S : First(S) <= j
<1>1. S \in SUBSET Nat /\ S \subseteq 1 .. Len(a)  BY LenProperties DEF Marked, Named
<1> QED BY <1>1, FirstIsLeast

(* EnsureDefaultAP makes a default AP wherever the site has a name, *)
LEMMA EnsureGivesDefault ==
    ASSUME NEW hn \in Names \cup {NoName}, NEW a \in Seq(AP)
    PROVE  EnsureDefaultAP(hn, a) \in Seq(AP) /\ HasDefault(hn, EnsureDefaultAP(hn, a))
<1> DEFINE e == EnsureDefaultAP(hn, a)
<1>a. CASE hn = NoName  BY <1>a DEF EnsureDefaultAP, HasDefault
<1>b. SUFFICES ASSUME hn # NoName PROVE e \in Seq(AP) /\ HasDefault(hn, e)  BY <1>a
<1>0. Len(a) \in Nat /\ a \in [1 .. Len(a) -> AP] /\ hn \in Names  BY <1>b, LenProperties
<1>1. CASE Marked(a) # {}
  <2> DEFINE f == First(Marked(a))
  <2>1. f \in Marked(a) /\ f \in 1 .. Len(a) /\ \A j \in Marked(a) : f <= j  BY <1>1, FirstPosition
  <2>2. a[f].default /\ \A j \in 1 .. Len(a) : a[j].default => f <= j  BY <2>1 DEF Marked
  <2> HIDE DEF f
  <2>3. e = [a EXCEPT ![f] = [a[f] EXCEPT !.name = hn]]
    BY <1>b, <1>1 DEF EnsureDefaultAP, f
  <2>4. a[f] \in AP /\ [a[f] EXCEPT !.name = hn] \in AP  BY <1>0, <2>1 DEF AP
  <2>5. /\ e \in Seq(AP) /\ Len(e) = Len(a)
        /\ \A j \in 1 .. Len(a) : e[j] = IF j = f THEN [a[f] EXCEPT !.name = hn] ELSE a[j]
    BY <2>1, <2>3, <2>4, ExceptSeq
  <2> HIDE DEF e
  <2>6. e[f].default /\ e[f].name = hn  BY <2>1, <2>2, <2>4, <2>5 DEF AP
  <2>7. \A j \in 1 .. f - 1 : ~e[j].default
    <3> SUFFICES ASSUME NEW j \in 1 .. f - 1 PROVE ~e[j].default  OBVIOUS
    <3>1. j \in 1 .. Len(a) /\ j # f /\ ~(f <= j)  BY <1>0, <2>1
    <3> QED BY <3>1, <2>2, <2>5
  <2> QED BY <2>1, <2>5, <2>6, <2>7 DEF HasDefault, e
<1>2. CASE Marked(a) = {} /\ Named(a, hn) # {}
  <2> DEFINE f == First(Named(a, hn))
  <2>1. f \in 1 .. Len(a) /\ a[f].name = hn  BY <1>2, FirstPosition DEF Named
  <2>2. \A j \in 1 .. Len(a) : ~a[j].default  BY <1>2 DEF Marked
  <2> HIDE DEF f
  <2>3. e = [a EXCEPT ![f] = [a[f] EXCEPT !.default = TRUE]]
    BY <1>b, <1>2 DEF EnsureDefaultAP, f
  <2>4. a[f] \in AP /\ [a[f] EXCEPT !.default = TRUE] \in AP  BY <1>0, <2>1 DEF AP
  <2>5. /\ e \in Seq(AP) /\ Len(e) = Len(a)
        /\ \A j \in 1 .. Len(a) : e[j] = IF j = f THEN [a[f] EXCEPT !.default = TRUE] ELSE a[j]
    BY <2>1, <2>3, <2>4, ExceptSeq
  <2> HIDE DEF e
  <2>6. e[f].default /\ e[f].name = hn  BY <2>1, <2>4, <2>5 DEF AP
  <2>7. \A j \in 1 .. f - 1 : ~e[j].default
    <3> SUFFICES ASSUME NEW j \in 1 .. f - 1 PROVE ~e[j].default  OBVIOUS
    <3>1. j \in 1 .. Len(a) /\ j # f  BY <1>0, <2>1
    <3> QED BY <3>1, <2>2, <2>5
  <2> QED BY <2>1, <2>5, <2>6, <2>7 DEF HasDefault, e
<1>3. CASE Marked(a) = {} /\ Named(a, hn) = {}
  <2> DEFINE d == [name |-> hn, default |-> TRUE, ssids |-> {}, clients |-> << >>]
  <2>1. d \in AP
    <3>1. << >> \in Seq(Client)  BY EmptySeq
    <3> QED BY <1>0, <3>1 DEF AP
  <2>2. d.default /\ d.name = hn  OBVIOUS
  <2> HIDE DEF d
  <2>3. e = <<d>> \o a  BY <1>b, <1>3 DEF EnsureDefaultAP, d
  <2>4. <<d>> \in Seq(AP) /\ Len(<<d>>) = 1 /\ <<d>>[1] = d  BY <2>1
  <2>5. e \in Seq(AP) /\ Len(e) = 1 + Len(a) /\ e[1] = d
    <3>1. Len(<<d>>) + Len(a) = 1 + Len(a) /\ 1 \in 1 .. 1 + Len(a)  BY <1>0, <2>4
    <3> QED BY <2>3, <2>4, <3>1, ConcatProperties
  <2> HIDE DEF e
  <2>6. 1 \in 1 .. Len(e) /\ 1 .. 1 - 1 = {}  BY <1>0, <2>5
  <2> QED BY <2>2, <2>5, <2>6 DEF HasDefault, e
<1> QED BY <1>1, <1>2, <1>3

(* and does nothing where there is one already. *)
LEMMA EnsureKeeps ==
    ASSUME NEW hn \in Names \cup {NoName}, NEW a \in Seq(AP), HasDefault(hn, a)
    PROVE  EnsureDefaultAP(hn, a) = a
<1> DEFINE f == First(Marked(a))
<1>a. CASE hn = NoName  BY <1>a DEF EnsureDefaultAP
<1>b. SUFFICES ASSUME hn # NoName PROVE EnsureDefaultAP(hn, a) = a  BY <1>a
<1>1. Marked(a) # {} /\ f \in 1 .. Len(a) /\ a[f].name = hn  BY <1>b, DefaultIsFirstMarked
<1>2. a \in [1 .. Len(a) -> AP]  BY LenProperties
<1> HIDE DEF f
<1>3. a[f] \in AP /\ [a[f] EXCEPT !.name = hn] = a[f]
  BY <1>1, <1>2 DEF AP
<1>4. EnsureDefaultAP(hn, a) = [a EXCEPT ![f] = [a[f] EXCEPT !.name = hn]]
  BY <1>b, <1>1 DEF EnsureDefaultAP, f
<1> QED BY <1>2, <1>3, <1>4

(* The defaults of a client fill in what is missing, once. *)
LEMMA FillClientProperties ==
    ASSUME NEW c \in Client
    PROVE  /\ FillClient(c) \in Client
           /\ FillClient(c).mac = c.mac /\ FillClient(c).ssid = c.ssid
           /\ FillClient(FillClient(c)) = FillClient(c)
<1>1. c = [mac |-> c.mac, ssid |-> c.ssid, vlan |-> c.vlan, channel |-> c.channel]
      /\ c.mac \in MACs /\ c.ssid \in SSIDs \cup {None}
      /\ c.vlan \in {0, DefaultVLAN} /\ c.channel \in {0, 6, DefaultChannel}
  BY DEF Client
<1> DEFINE ch == IF c.channel = 0 THEN DefaultChannel ELSE c.channel
<1>2. FillClient(c) = [mac |-> c.mac, ssid |-> c.ssid, vlan |-> DefaultVLAN, channel |-> ch]
  BY <1>1 DEF FillClient
<1>3. ch \in {6, DefaultChannel}  BY <1>1 DEF DefaultChannel
<1>4. FillClient(FillClient(c)) = FillClient(c)
  BY <1>2, <1>3 DEF FillClient, DefaultVLAN, DefaultChannel
<1> QED BY <1>1, <1>2, <1>3, <1>4 DEF Client

(* So do those of an access point, which keeps its name and its clients. *)
LEMMA FillAPProperties ==
    ASSUME NEW ap \in AP
    PROVE  LET g == FillAP(ap) IN
           /\ g \in AP /\ g.name = ap.name /\ g.default = ap.default
           /\ Len(g.clients) = Len(ap.clients)
           /\ \A k \in 1 .. Len(ap.clients) :
                 g.clients[k].mac = ap.clients[k].mac /\ g.clients[k].ssid = ap.clients[k].ssid
           /\ FillAP(g) = g
<1> DEFINE g == FillAP(ap)
<1> DEFINE cs == [k \in 1 .. Len(ap.clients) |-> FillClient(ap.clients[k])]
<1> DEFINE ss == IF ap.ssids = {} THEN ClientSSIDs(ap) ELSE ap.ssids
<1>1. /\ ap = [name |-> ap.name, default |-> ap.default, ssids |-> ap.ssids, clients |-> ap.clients]
      /\ ap.name \in Names /\ ap.default \in BOOLEAN /\ ap.ssids \in SUBSET SSIDs /\ ap.clients \in Seq(Client)
  BY DEF AP
<1>2. Len(ap.clients) \in Nat /\ \A k \in 1 .. Len(ap.clients) : ap.clients[k] \in Client
  BY <1>1, LenProperties, ElementOfSeq
<1>3. g = [name |-> ap.name, default |-> ap.default, ssids |-> ss, clients |-> cs]
  <2>1. g = [ap EXCEPT !.clients = cs, !.ssids = ss]  BY Zenon DEF FillAP
  <2> HIDE DEF g, cs, ss
  <2> QED BY <1>1, <2>1
<1>4. /\ cs \in [1 .. Len(ap.clients) -> Client]
      /\ \A k \in 1 .. Len(ap.clients) :
            /\ cs[k].mac = ap.clients[k].mac /\ cs[k].ssid = ap.clients[k].ssid
            /\ FillClient(cs[k]) = cs[k]
  BY <1>2, FillClientProperties
<1>5. cs \in Seq(Client) /\ Len(cs) = Len(ap.clients)  BY <1>2, <1>4, FunctionIsSeq
<1>6. ClientSSIDs(ap) \in SUBSET SSIDs  BY <1>2 DEF ClientSSIDs, Client
<1>7. ss \in SUBSET SSIDs  BY <1>1, <1>6
<1> HIDE DEF cs
<1>8. g \in AP /\ g.name = ap.name /\ g.default = ap.default /\ g.clients = cs /\ g.ssids = ss
  BY <1>1, <1>3, <1>5, <1>7 DEF AP
<1>9. [k \in 1 .. Len(cs) |-> FillClient(cs[k])] = cs  BY <1>4, <1>5
<1>10. ClientSSIDs(g) = ClientSSIDs(ap)
  BY <1>4, <1>5, <1>8 DEF ClientSSIDs
<1>11. (IF ss = {} THEN ClientSSIDs(g) ELSE ss) = ss
  BY <1>10
<1> HIDE DEF ss, g
<1>12. FillAP(g) = [g EXCEPT !.clients = cs, !.ssids = ss]
  BY <1>8, <1>9, <1>11, Zenon DEF FillAP
<1>13. FillAP(g) = g
  BY <1>12, <1>3
<1>14. Len(g.clients) = Len(ap.clients)
       /\ \A k \in 1 .. Len(ap.clients) :
              g.clients[k].mac = ap.clients[k].mac /\ g.clients[k].ssid = ap.clients[k].ssid
  BY <1>4, <1>5, <1>8
<1> QED BY <1>8, <1>13, <1>14 DEF g

(* Loading gives access points again, with a default AP among them. *)
LEMMA DefaultsProperties ==
    ASSUME NEW hn \in Names \cup {NoName}, NEW a \in Seq(AP)
    PROVE  /\ applyDefaults(hn, a) \in Seq(AP) /\ HasDefault(hn, applyDefaults(hn, a))
           /\ Len(applyDefaults(hn, a)) = Len(EnsureDefaultAP(hn, a))
           /\ \A i \in 1 .. Len(EnsureDefaultAP(hn, a)) : applyDefaults(hn, a)[i] = FillAP(EnsureDefaultAP(hn, a)[i])
<1> DEFINE e == EnsureDefaultAP(hn, a)
<1> DEFINE d == applyDefaults(hn, a)
<1>1. e \in Seq(AP) /\ HasDefault(hn, e)  BY EnsureGivesDefault
<1> HIDE DEF e
<1>2. Len(e) \in Nat /\ \A i \in 1 .. Len(e) : e[i] \in AP  BY <1>1, LenProperties, ElementOfSeq
<1>3. d = [i \in 1 .. Len(e) |-> FillAP(e[i])]  BY DEF applyDefaults, e
<1> HIDE DEF d
<1>4. \A i \in 1 .. Len(e) : d[i] = FillAP(e[i])  BY <1>3
<1>5. \A i \in 1 .. Len(e) : d[i] \in AP /\ d[i].name = e[i].name /\ d[i].default = e[i].default
  BY <1>2, <1>4, FillAPProperties
<1>6. d \in [1 .. Len(e) -> AP]  BY <1>3, <1>4, <1>5
<1>7. d \in Seq(AP) /\ Len(d) = Len(e)  BY <1>2, <1>6, FunctionIsSeq
<1>8. HasDefault(hn, d)
  <2>1. CASE hn = NoName  BY <2>1 DEF HasDefault
  <2>2. CASE hn # NoName
    <3>1. PICK f \in 1 .. Len(e) : e[f].default /\ e[f].name = hn /\ \A j \in 1 .. f - 1 : ~e[j].default
      BY <1>1, <2>2 DEF HasDefault
    <3>2. \A j \in 1 .. f - 1 : j \in 1 .. Len(e)  BY <1>2
    <3>3. d[f].default /\ d[f].name = hn /\ \A j \in 1 .. f - 1 : ~d[j].default  BY <1>5, <3>1, <3>2
    <3> QED BY <1>7, <3>3 DEF HasDefault
  <2> QED BY <2>1, <2>2
<1> QED BY <1>4, <1>7, <1>8 DEF d, e

(* Loading what has a default AP changes no name, mark, client or SSID of a
   client. *)
LEMMA DefaultsKeepShape ==
    ASSUME NEW hn \in Names \cup {NoName}, NEW a \in Seq(AP), HasDefault(hn, a)
    PROVE  Shape(applyDefaults(hn, a)) = Shape(a)
<1> DEFINE d == applyDefaults(hn, a)
<1>1. Len(d) = Len(a) /\ \A i \in 1 .. Len(a) : d[i] = FillAP(a[i])
  BY DefaultsProperties, EnsureKeeps
<1>2. \A i \in 1 .. Len(a) : a[i] \in AP  BY ElementOfSeq
<1> HIDE DEF d
<1> DEFINE Row(ap) == [name |-> ap.name, default |-> ap.default,
                       clients |-> [k \in 1 .. Len(ap.clients) |->
                                       [mac |-> ap.clients[k].mac, ssid |-> ap.clients[k].ssid]]]
<1>3. \A b : Shape(b) = [i \in 1 .. Len(b) |-> Row(b[i])]  BY DEF Shape
<1>4. ASSUME NEW i \in 1 .. Len(a) PROVE Row(d[i]) = Row(a[i])
  <2>1. /\ d[i].name = a[i].name /\ d[i].default = a[i].default
        /\ Len(d[i].clients) = Len(a[i].clients)
        /\ \A k \in 1 .. Len(a[i].clients) :
              d[i].clients[k].mac = a[i].clients[k].mac /\ d[i].clients[k].ssid = a[i].clients[k].ssid
    BY <1>1, <1>2, FillAPProperties
  <2>2. [k \in 1 .. Len(d[i].clients) |-> [mac |-> d[i].clients[k].mac, ssid |-> d[i].clients[k].ssid]]
        = [k \in 1 .. Len(a[i].clients) |-> [mac |-> a[i].clients[k].mac, ssid |-> a[i].clients[k].ssid]]
    BY <2>1
  <2> QED BY <2>1, <2>2
<1> HIDE DEF Row
<1>5. Shape(d) = Shape(a)  BY <1>1, <1>3, <1>4
<1> QED BY <1>5 DEF d

(* applyDefaults is idempotent, for every list of access points. *)
LEMMA DefaultsTwice ==
    ASSUME NEW hn \in Names \cup {NoName}, NEW a \in Seq(AP)
    PROVE  applyDefaults(hn, applyDefaults(hn, a)) = applyDefaults(hn, a)
<1> DEFINE d == applyDefaults(hn, a)
<1>1. d \in Seq(AP) /\ HasDefault(hn, d) /\ Len(d) \in Nat  BY DefaultsProperties, LenProperties
<1>2. \A i \in 1 .. Len(d) : FillAP(d[i]) = d[i]
  BY DefaultsProperties, EnsureGivesDefault, FillAPProperties, ElementOfSeq
<1> HIDE DEF d
<1>3. Len(applyDefaults(hn, d)) = Len(d) /\ \A i \in 1 .. Len(d) : applyDefaults(hn, d)[i] = d[i]
  BY <1>1, <1>2, DefaultsProperties, EnsureKeeps
<1>4. applyDefaults(hn, d) \in Seq(AP)  BY <1>1, DefaultsProperties
<1> QED BY <1>1, <1>3, <1>4, SeqEqual DEF d

----------------------------------------------------------------------------
(* The edits *)

(* Giving an access point other clients or networks leaves the marks and the
   names as they are. *)
LEMMA ReplaceAP ==
    ASSUME NEW hn \in Names \cup {NoName}, NEW a \in Seq(AP), NEW f \in 1 .. Len(a), NEW ap \in AP,
           ap.name = a[f].name, ap.default = a[f].default, HasDefault(hn, a)
    PROVE  [a EXCEPT ![f] = ap] \in Seq(AP) /\ HasDefault(hn, [a EXCEPT ![f] = ap])
           /\ Len([a EXCEPT ![f] = ap]) = Len(a)
           /\ \A i \in 1 .. Len(a) : [a EXCEPT ![f] = ap][i] = IF i = f THEN ap ELSE a[i]
<1> DEFINE b == [a EXCEPT ![f] = ap]
<1>1. /\ b \in Seq(AP) /\ Len(b) = Len(a) /\ Len(a) \in Nat
      /\ \A i \in 1 .. Len(a) : b[i] = IF i = f THEN ap ELSE a[i]
  BY ExceptSeq, LenProperties
<1> HIDE DEF b
<1>2. HasDefault(hn, b)
  <2>1. CASE hn = NoName  BY <2>1 DEF HasDefault
  <2>2. CASE hn # NoName
    <3>1. PICK g \in 1 .. Len(a) : a[g].default /\ a[g].name = hn /\ \A j \in 1 .. g - 1 : ~a[j].default
      BY <2>2 DEF HasDefault
    <3>2. \A j \in 1 .. g - 1 : j \in 1 .. Len(a)  BY <1>1
    <3>3. b[g].default /\ b[g].name = hn /\ \A j \in 1 .. g - 1 : ~b[j].default  BY <1>1, <3>1, <3>2
    <3> QED BY <1>1, <3>3 DEF HasDefault
  <2> QED BY <2>1, <2>2
<1> QED BY <1>1, <1>2 DEF b

(* Appending an access point keeps the first marked one first. *)
LEMMA AppendAP ==
    ASSUME NEW hn \in Names \cup {NoName}, NEW a \in Seq(AP), NEW ap \in AP, HasDefault(hn, a)
    PROVE  Append(a, ap) \in Seq(AP) /\ HasDefault(hn, Append(a, ap))
<1> DEFINE b == Append(a, ap)
<1>1. /\ b \in Seq(AP) /\ Len(b) = Len(a) + 1 /\ Len(a) \in Nat
      /\ \A i \in 1 .. Len(a) : b[i] = a[i]
  BY AppendProperties, LenProperties
<1> HIDE DEF b
<1>2. HasDefault(hn, b)
  <2>1. CASE hn = NoName  BY <2>1 DEF HasDefault
  <2>2. CASE hn # NoName
    <3>1. PICK g \in 1 .. Len(a) : a[g].default /\ a[g].name = hn /\ \A j \in 1 .. g - 1 : ~a[j].default
      BY <2>2 DEF HasDefault
    <3>2. g \in 1 .. Len(b) /\ \A j \in 1 .. g - 1 : j \in 1 .. Len(a)  BY <1>1
    <3>3. b[g].default /\ b[g].name = hn /\ \A j \in 1 .. g - 1 : ~b[j].default  BY <1>1, <3>1, <3>2
    <3> QED BY <3>2, <3>3 DEF HasDefault
  <2> QED BY <2>1, <2>2
<1> QED BY <1>1, <1>2 DEF b

(* Removing one that is not marked does, too. *)
LEMMA CutAP ==
    ASSUME NEW hn \in Names \cup {NoName}, NEW a \in Seq(AP), NEW k \in 1 .. Len(a), ~a[k].default, HasDefault(hn, a)
    PROVE  CutAt(a, k) \in Seq(AP) /\ HasDefault(hn, CutAt(a, k))
<1> DEFINE b == CutAt(a, k)
<1>1. /\ b \in Seq(AP) /\ Len(b) = Len(a) - 1 /\ Len(a) \in Nat
      /\ \A j \in 1 .. Len(a) - 1 : b[j] = IF j < k THEN a[j] ELSE a[j + 1]
  BY CutAtProperties, LenProperties
<1> HIDE DEF b
<1>a. CASE hn = NoName  BY <1>a, <1>1 DEF HasDefault, b
<1>b. SUFFICES ASSUME hn # NoName PROVE CutAt(a, k) \in Seq(AP) /\ HasDefault(hn, CutAt(a, k))
  BY <1>a
<1>2. PICK g \in 1 .. Len(a) : a[g].default /\ a[g].name = hn /\ \A j \in 1 .. g - 1 : ~a[j].default
  BY <1>b DEF HasDefault
<1>3. CASE g < k
  <2>1. g \in 1 .. Len(b) /\ b[g] = a[g]  BY <1>1, <1>3
  <2>2. \A j \in 1 .. g - 1 : b[j] = a[j]  BY <1>1, <1>3
  <2> QED BY <1>1, <1>2, <2>1, <2>2 DEF HasDefault, b
<1>4. CASE g > k
  <2>1. g - 1 \in 1 .. Len(b) /\ b[g - 1] = a[g]
    <3>1. g - 1 \in 1 .. Len(a) - 1 /\ ~(g - 1 < k) /\ g - 1 + 1 = g  BY <1>1, <1>4
    <3> QED BY <1>1, <3>1
  <2>2. \A j \in 1 .. g - 1 - 1 : ~b[j].default
    <3> SUFFICES ASSUME NEW j \in 1 .. g - 1 - 1 PROVE ~b[j].default  OBVIOUS
    <3>1. j \in 1 .. Len(a) - 1 /\ j \in 1 .. g - 1 /\ j + 1 \in 1 .. g - 1  BY <1>1
    <3> QED BY <1>1, <1>2, <3>1
  <2> QED BY <1>1, <1>2, <2>1, <2>2 DEF HasDefault, b
<1>5. g # k  BY <1>2
<1> QED BY <1>3, <1>4, <1>5

(* A client that is found is found on an access point, at a position there. *)
LEMMA HomeAndEntry ==
    ASSUME aps \in Seq(AP), NEW m \in MACs, Home(m) # {}
    PROVE  /\ First(Home(m)) \in 1 .. Len(aps)
           /\ Entry(m) \in 1 .. Len(aps[First(Home(m))].clients)
           /\ aps[First(Home(m))].clients \in Seq(Client)
<1>1. Home(m) \in SUBSET Nat /\ Home(m) \subseteq 1 .. Len(aps)  BY DEF Home
<1>2. First(Home(m)) \in Home(m)  BY <1>1, FirstIsLeast
<1> DEFINE cs == aps[First(Home(m))].clients
<1> DEFINE E == {k \in 1 .. Len(cs) : cs[k].mac = m}
<1>3. aps[First(Home(m))] \in AP  BY <1>1, <1>2, ElementOfSeq
<1>4. cs \in Seq(Client)  BY <1>3 DEF AP
<1>5. E # {}  BY <1>2 DEF Home
<1>6. E \in SUBSET Nat  BY <1>4, LenProperties
<1>7. First(E) \in E  BY <1>5, <1>6, FirstIsLeast
<1> QED BY <1>1, <1>2, <1>4, <1>7 DEF Entry

(* Taking it out. *)
LEMMA WithoutClientProperties ==
    ASSUME hostname \in Names \cup {NoName}, aps \in Seq(AP), HasDefault(hostname, aps), NEW m \in MACs, Home(m) # {}
    PROVE  /\ WithoutClient(m) \in Seq(AP) /\ HasDefault(hostname, WithoutClient(m))
           /\ Len(WithoutClient(m)) = Len(aps)
           /\ \A i \in 1 .. Len(aps) : WithoutClient(m)[i] \in AP
<1> DEFINE f == First(Home(m))
<1> DEFINE cs == CutAt(aps[f].clients, Entry(m))
<1>1. f \in 1 .. Len(aps) /\ Entry(m) \in 1 .. Len(aps[f].clients) /\ aps[f].clients \in Seq(Client)
  BY HomeAndEntry
<1> HIDE DEF f
<1>2. cs \in Seq(Client)  BY <1>1, CutAtProperties
<1>3. WithoutClient(m) = [aps EXCEPT ![f] = [aps[f] EXCEPT !.clients = cs]]
  BY DEF WithoutClient, f
<1> HIDE DEF cs
<1>4. aps[f] \in AP  BY <1>1, ElementOfSeq
<1> DEFINE ap == [aps[f] EXCEPT !.clients = cs]
<1>5. ap \in AP /\ ap.name = aps[f].name /\ ap.default = aps[f].default
  BY <1>2, <1>4 DEF AP
<1> HIDE DEF ap
<1>6. /\ WithoutClient(m) \in Seq(AP) /\ HasDefault(hostname, WithoutClient(m))
      /\ Len(WithoutClient(m)) = Len(aps)
    <2>1. WithoutClient(m) = [aps EXCEPT ![f] = ap]  BY <1>3 DEF ap
  <2>2. /\ [aps EXCEPT ![f] = ap] \in Seq(AP) /\ HasDefault(hostname, [aps EXCEPT ![f] = ap])
        /\ Len([aps EXCEPT ![f] = ap]) = Len(aps)
    BY <1>1, <1>5, ReplaceAP
  <2> QED BY <2>1, <2>2, Zenon
<1> QED BY <1>6, ElementOfSeq

(* Rendering names real networks only. *)
LEMMA InitConfigType ==
    ASSUME NEW a \in Seq(AP)
    PROVE  InitConfig(a) \in [wlans : SUBSET SSIDs, vlans : SUBSET {DefaultVLAN}]
<1>0. \A i \in 1 .. Len(a) : a[i] \in AP  BY ElementOfSeq
<1>1. \A i \in 1 .. Len(a) : a[i].clients \in Seq(Client)  BY <1>0 DEF AP
<1>2. \A i \in 1 .. Len(a) : \A k \in 1 .. Len(a[i].clients) : a[i].clients[k] \in Client
  BY <1>1, ElementOfSeq
<1>3. Clients(a) \subseteq Client  BY <1>2 DEF Clients
<1> QED BY <1>3 DEF InitConfig, Client

----------------------------------------------------------------------------
(* The invariant *)

(* Memory and file agree, but for the defaults a load fills in. *)
FileMatches == ~lost => (file = aps \/ aps = applyDefaults(hostname, file))

Inv == TypeOK /\ HasDefault(hostname, aps) /\ FileMatches /\ RenderedCurrent

Replies == {NoReply} \cup [op : {"move"}, mac : MACs, ap : Names]

(* What is rendered and saved is in order, *)
LEMMA SaveInv ==
    ASSUME NEW hn \in Names \cup {NoName}, NEW a \in Seq(AP), HasDefault(hn, a),
           NEW r \in Replies, Save(hn, a, r)
    PROVE  Inv'
<1>1. hostname' = hn /\ aps' = a /\ file' = a /\ reply' = r /\ lost' = FALSE
      /\ rendered' = InitConfig(a)
  BY DEF Save
<1>2. HasDefault(hn, a)'  BY <1>1 DEF HasDefault
<1>3. HasDefault(hostname, aps)'  BY <1>1, <1>2, Zenon
<1> QED BY <1>1, <1>3, InitConfigType, Zenon DEF Inv, TypeOK, Replies, FileMatches, RenderedCurrent

(* and that is how an edit ends well. *)
LEMMA CommitInv ==
    ASSUME hostname \in Names \cup {NoName}, NEW a \in Seq(AP), HasDefault(hostname, a),
           NEW r \in Replies, Commit(a, r)
    PROVE  Inv'
BY SaveInv DEF Commit

(* One that is refused changes nothing but the answer. *)
LEMMA RefuseInv ==
    ASSUME Inv, Refuse
    PROVE  Inv'
BY DEF Refuse, Inv, TypeOK, HasDefault, FileMatches, RenderedCurrent

(* All answers are answers. *)
LEMMA RepliesTyped ==
    /\ NoReply \in Replies
    /\ \A m \in MACs, n \in Names : Confirmed(m, n) \in Replies
BY DEF Confirmed, Replies

(* A site as it is loaded. *)
LEMMA InitInv == Init => Inv
<1> SUFFICES ASSUME Init PROVE Inv  OBVIOUS
<1>1. file \in Seq(AP) /\ hostname \in Names \cup {NoName}  BY SiteAssumption DEF Init
<1>2. aps \in Seq(AP) /\ HasDefault(hostname, aps)  BY <1>1, DefaultsProperties DEF Init
<1>3. rendered \in [wlans : SUBSET SSIDs, vlans : SUBSET {DefaultVLAN}]
  BY <1>2, InitConfigType DEF Init
<1>4. reply \in Replies  BY RepliesTyped DEF Init
<1> QED BY <1>1, <1>2, <1>3, <1>4, Zenon DEF Init, Inv, TypeOK, Replies, FileMatches, RenderedCurrent

(* Every edit, and every load, keeps the invariant. *)
LEMMA StepInv == Inv /\ [Next]_vars => Inv'
<1> SUFFICES ASSUME Inv, [Next]_vars PROVE Inv'  OBVIOUS
<1>a. /\ aps \in Seq(AP) /\ file \in Seq(AP) /\ HasDefault(hostname, aps) /\ Len(aps) \in Nat
      /\ hostname \in Names \cup {NoName}
  BY LenProperties DEF Inv, TypeOK
<1>b. \A n \in Names : Named(aps, n) # {} => First(Named(aps, n)) \in 1 .. Len(aps)
  <2> SUFFICES ASSUME NEW n \in Names, Named(aps, n) # {} PROVE First(Named(aps, n)) \in 1 .. Len(aps)
    OBVIOUS
  <2>1. Named(aps, n) \in SUBSET Nat /\ Named(aps, n) \subseteq 1 .. Len(aps)  BY DEF Named
  <2> QED BY <2>1, FirstIsLeast
<1>c. \A i \in 1 .. Len(aps) : aps[i] \in AP  BY <1>a, ElementOfSeq
<1>1. ASSUME NEW n \in Names, NEW d \in BOOLEAN, AddAP(NewAP(n, d)) PROVE Inv'
  <2>1. << >> \in Seq(Client)  BY EmptySeq
  <2>2. NewAP(n, d) \in AP  BY <2>1 DEF NewAP, AP
  <2>3. Append(aps, NewAP(n, d)) \in Seq(AP) /\ HasDefault(hostname, Append(aps, NewAP(n, d)))  BY <1>a, <2>2, AppendAP
  <2>4. Commit(Append(aps, NewAP(n, d)), NoReply)  BY <1>1 DEF AddAP
  <2> QED BY <1>a, <2>3, <2>4, CommitInv, RepliesTyped
<1>2. ASSUME NEW n \in Names, RemoveAP(n) PROVE Inv'
  <2>1. CASE Refuse  BY <2>1, RefuseInv
  <2>2. CASE Named(aps, n) # {} /\ ~aps[First(Named(aps, n))].default
             /\ Commit(CutAt(aps, First(Named(aps, n))), NoReply)
    <3>1. First(Named(aps, n)) \in 1 .. Len(aps)  BY <1>b, <2>2
    <3> QED BY <1>a, <2>2, <3>1, CutAP, CommitInv, RepliesTyped
  <2> QED BY <1>2, <2>1, <2>2, Zenon DEF RemoveAP
<1>3. ASSUME NEW n \in Names, NEW ss \in SUBSET SSIDs, UpdateAPSSIDs(n, ss) PROVE Inv'
  <2> DEFINE f == First(Named(aps, n))
  <2>1. CASE Refuse  BY <2>1, RefuseInv
  <2>2. CASE Named(aps, n) # {} /\ Commit([aps EXCEPT ![f].ssids = ss], NoReply)
    <3> DEFINE ap == [aps[f] EXCEPT !.ssids = ss]
    <3>1. f \in 1 .. Len(aps)  BY <1>b, <2>2
    <3>2. ap \in AP /\ ap.name = aps[f].name /\ ap.default = aps[f].default  BY <1>c, <3>1 DEF AP
    <3> HIDE DEF ap
    <3>3. [aps EXCEPT ![f] = ap] \in Seq(AP) /\ HasDefault(hostname, [aps EXCEPT ![f] = ap])
      BY <1>a, <3>1, <3>2, ReplaceAP
    <3>4. Commit([aps EXCEPT ![f] = ap], NoReply)  BY <2>2 DEF ap
    <3> QED BY <1>a, <3>3, <3>4, CommitInv, RepliesTyped
  <2> QED BY <1>3, <2>1, <2>2, Zenon DEF UpdateAPSSIDs
<1>4. ASSUME NEW n \in Names, NEW c \in Client, AddClient(n, c) PROVE Inv'
  <2> DEFINE f == First(Named(aps, n))
  <2>1. CASE Refuse  BY <2>1, RefuseInv
  <2>2. CASE Named(aps, n) # {} /\ Commit([aps EXCEPT ![f].clients = Append(@, c)], NoReply)
    <3> DEFINE cs == Append(aps[f].clients, c)
    <3> DEFINE ap == [aps[f] EXCEPT !.clients = cs]
    <3>1. f \in 1 .. Len(aps)  BY <1>b, <2>2
    <3>2. aps[f] \in AP /\ aps[f].clients \in Seq(Client)  BY <1>c, <3>1 DEF AP
    <3>3. cs \in Seq(Client)  BY <3>2, AppendProperties
    <3>4. Commit([aps EXCEPT ![f] = ap], NoReply)  BY <2>2
    <3> HIDE DEF cs
    <3>5. ap \in AP /\ ap.name = aps[f].name /\ ap.default = aps[f].default  BY <3>2, <3>3 DEF AP
    <3> HIDE DEF ap
    <3>6. [aps EXCEPT ![f] = ap] \in Seq(AP) /\ HasDefault(hostname, [aps EXCEPT ![f] = ap])
      BY <1>a, <3>1, <3>5, ReplaceAP
    <3> QED BY <1>a, <3>4, <3>6, CommitInv, RepliesTyped
  <2> QED BY <1>4, <2>1, <2>2, Zenon DEF AddClient
<1>5. ASSUME NEW m \in MACs, RemoveClient(m) PROVE Inv'
  <2>1. CASE Refuse  BY <2>1, RefuseInv
  <2>2. CASE Home(m) # {} /\ Commit(WithoutClient(m), NoReply)
    BY <1>a, <2>2, WithoutClientProperties, CommitInv, RepliesTyped
  <2> QED BY <1>5, <2>1, <2>2, Zenon DEF RemoveClient
<1>6. ASSUME NEW m \in MACs, NEW n \in Names, NEW s \in SSIDs \cup {None}, UpdateClient(m, n, s) PROVE Inv'
  <2>1. CASE Refuse  BY <2>1, RefuseInv
  <2> DEFINE w == WithoutClient(m)
  <2> DEFINE f == First(Named(aps, n))
  <2> DEFINE r == Confirmed(m, n)
  <2>2. CASE /\ Home(m) # {} /\ Named(aps, n) # {}
             /\ Commit([w EXCEPT ![f].clients = Append(@, Moved(m, s))], r)
    <3> DEFINE cs == Append(w[f].clients, Moved(m, s))
    <3> DEFINE ap == [w[f] EXCEPT !.clients = cs]
    <3>1. /\ f \in 1 .. Len(aps) /\ w \in Seq(AP) /\ HasDefault(hostname, w) /\ Len(w) = Len(aps)
      BY <1>a, <1>b, <2>2, WithoutClientProperties
    <3>2. w[f] \in AP /\ w[f].clients \in Seq(Client)
      <4>1. w[f] \in AP  BY <3>1, ElementOfSeq
      <4> QED BY <4>1 DEF AP
    <3>3. Moved(m, s) \in Client
      <4> DEFINE c == aps[First(Home(m))].clients[Entry(m)]
      <4>1. c \in Client  BY <1>a, <2>2, HomeAndEntry, ElementOfSeq
      <4> HIDE DEF c
      <4>2. [c EXCEPT !.ssid = s] \in Client  BY <4>1 DEF Client
      <4>3. Moved(m, s) = IF s = None THEN c ELSE [c EXCEPT !.ssid = s]  BY Zenon DEF Moved, c
      <4> QED BY <4>1, <4>2, <4>3
    <3>4. cs \in Seq(Client)  BY <3>2, <3>3, AppendProperties
    <3>5. Commit([w EXCEPT ![f] = ap], r)  BY <2>2
    <3> HIDE DEF cs, w
    <3>6. ap \in AP /\ ap.name = w[f].name /\ ap.default = w[f].default  BY <3>2, <3>4 DEF AP
    <3> HIDE DEF ap
    <3>7. [w EXCEPT ![f] = ap] \in Seq(AP) /\ HasDefault(hostname, [w EXCEPT ![f] = ap])
      BY <1>a, <3>1, <3>6, ReplaceAP
    <3> QED BY <1>a, <3>5, <3>7, CommitInv, RepliesTyped
  <2>3. CASE /\ Home(m) # {} /\ aps' = w /\ lost' = TRUE
             /\ reply' = NoReply /\ UNCHANGED <<hostname, rendered, file>>
    <3>1. aps' \in Seq(AP) /\ HasDefault(hostname, aps)'
      <4>1. aps' \in Seq(AP) /\ HasDefault(hostname, aps')  BY <1>a, <2>3, WithoutClientProperties
      <4>2. hostname' = hostname  BY <2>3
      <4> QED BY <4>1, <4>2, Zenon DEF HasDefault
    <3>2. reply' \in Replies  BY <2>3, RepliesTyped
    <3> QED BY <1>a, <2>3, <3>1, <3>2, Zenon DEF Inv, TypeOK, Replies, FileMatches, RenderedCurrent
  <2> QED BY <1>6, <2>1, <2>2, <2>3, Zenon DEF UpdateClient
<1>7. CASE Restart
  <2>1. aps' \in Seq(AP) /\ HasDefault(hostname, aps)'
    <3>1. aps' \in Seq(AP) /\ HasDefault(hostname, aps')  BY <1>7, <1>a, DefaultsProperties DEF Restart
    <3>2. hostname' = hostname  BY <1>7 DEF Restart
    <3> QED BY <3>1, <3>2, Zenon DEF HasDefault
  <2>2. rendered' \in [wlans : SUBSET SSIDs, vlans : SUBSET {DefaultVLAN}]
    BY <1>7, <2>1, InitConfigType DEF Restart
  <2>3. reply' \in Replies  BY <1>7, RepliesTyped DEF Restart
  <2> QED BY <1>7, <1>a, <2>1, <2>2, <2>3, Zenon DEF Restart, Inv, TypeOK, Replies, FileMatches, RenderedCurrent
<1>8. ASSUME NEW f \in Imports, Import(f) \/ Recreate(f) PROVE Inv'
  <2>1. f.aps \in Seq(AP) /\ f.hostname \in Names \cup {NoName}  BY SiteAssumption
  <2> QED BY <1>8, <2>1, DefaultsProperties, EnsureGivesDefault, SaveInv, RepliesTyped DEF Import, Recreate
<1>9. CASE UNCHANGED vars
  BY <1>9 DEF vars, Inv, TypeOK, HasDefault, FileMatches, RenderedCurrent
<1>10. ASSUME NEW n \in Names, NEW m \in MACs, NEW s \in SSIDs \cup {None},
              AddClient(n, [mac |-> m, ssid |-> s, vlan |-> 0, channel |-> 0])
       PROVE  Inv'
  <2>1. [mac |-> m, ssid |-> s, vlan |-> 0, channel |-> 0] \in Client  BY DEF Client
  <2> QED BY <1>4, <1>10, <2>1
<1> QED
  BY <1>1, <1>2, <1>3, <1>5, <1>6, <1>7, <1>8, <1>9, <1>10 DEF Next, EditAPs, EditClients

(* Whatever sequence of edits, imports and restarts a site goes through, while
   it has a name it has a default access point bearing that name
   (EnsureDefaultAP at every load, and the guard of RemoveAP, are enough). *)
THEOREM SiteAlwaysHasDefault == Spec => []SiteHasDefault
<1>1. Inv => SiteHasDefault  BY DefaultIsFirstMarked DEF Inv, TypeOK, SiteHasDefault
<1> QED BY InitInv, StepInv, <1>1, PTL DEF Spec

(* Loading the file gives what was running: no edit saves less than it did,
   and no load adds, renames or adopts an access point. *)
THEOREM RestartsKeepContent == Spec => []RestartKeepsContent
<1>1. Inv => RestartKeepsContent
  <2> SUFFICES ASSUME Inv, ~lost PROVE Shape(applyDefaults(hostname, file)) = Shape(aps)  BY DEF RestartKeepsContent
  <2>1. CASE aps = applyDefaults(hostname, file)  BY <2>1
  <2>2. CASE file = aps  BY <2>2, DefaultsKeepShape DEF Inv, TypeOK
  <2> QED BY <2>1, <2>2 DEF Inv, FileMatches
<1> QED BY InitInv, StepInv, <1>1, PTL DEF Spec

(* Loading twice is loading once, as the comment of applyDefaults promises. *)
THEOREM DefaultsAlwaysIdempotent == Spec => []DefaultsIdempotent
<1>1. Inv => DefaultsIdempotent  BY DefaultsTwice DEF Inv, TypeOK, DefaultsIdempotent
<1> QED BY InitInv, StepInv, <1>1, PTL DEF Spec

(* The types, and the running-config that is rendered after every edit. *)
THEOREM SiteTypesAndRendering == Spec => [](TypeOK /\ RenderedCurrent)
<1>1. Inv => TypeOK /\ RenderedCurrent  BY DEF Inv
<1> QED BY InitInv, StepInv, <1>1, PTL DEF Spec

----------------------------------------------------------------------------
(* A confirmed move *)

LEMMA InSlots ==
    ASSUME NEW a, NEW s
    PROVE  s \in Slots(a) <=> \E i \in 1 .. Len(a) : \E k \in 1 .. Len(a[i].clients) : s = <<i, k>>
<1> DEFINE T(i) == {<<i, k>> : k \in 1 .. Len(a[i].clients)}
           U == {T(i) : i \in 1 .. Len(a)}
<1>1. Slots(a) = UNION U  BY Zenon DEF Slots
<1>2. s \in UNION U <=> \E t \in U : s \in t  BY Zenon
<1>3. (\E t \in U : s \in t) <=> \E i \in 1 .. Len(a) : s \in T(i)  BY Zenon
<1>4. \A i : s \in T(i) <=> \E k \in 1 .. Len(a[i].clients) : s = <<i, k>>  BY Zenon
<1> HIDE DEF T, U
<1> QED BY <1>1, <1>2, <1>3, <1>4, Zenon

LEMMA SlotsFinite ==
    ASSUME NEW a \in Seq(AP)
    PROVE  IsFiniteSet(Slots(a))
<1> DEFINE K(i) == 1 .. Len(a[i].clients)
           T(i) == {<<i, k>> : k \in K(i)}
           U == {T(i) : i \in 1 .. Len(a)}
<1>1. Len(a) \in Nat  BY LenProperties
<1>2. ASSUME NEW i \in 1 .. Len(a) PROVE IsFiniteSet(T(i))
  <2>1. Len(a[i].clients) \in Nat
    <3>1. a[i] \in AP  BY <1>2, ElementOfSeq
    <3> QED BY <3>1, LenProperties DEF AP
  <2>2. IsFiniteSet(K(i))
    <3> DEFINE n == Len(a[i].clients)
    <3>1. n \in Int /\ 1 \in Int  BY <2>1
    <3> HIDE DEF n
    <3>2. IsFiniteSet(1 .. n)  BY <3>1, FS_Interval
    <3> QED BY <3>2 DEF n
  <2> DEFINE f == [k \in K(i) |-> <<i, k>>]
  <2>3. f \in Surjection(K(i), T(i))
    <3> HIDE DEF K
    <3>1. f \in [K(i) -> T(i)]  OBVIOUS
    <3>2. \A t \in T(i) : \E k \in K(i) : f[k] = t  OBVIOUS
    <3> HIDE DEF f, T
    <3> QED BY <3>1, <3>2 DEF Surjection
  <2> HIDE DEF f, T, K
  <2> QED BY <2>2, <2>3, FS_Surjection
<1>3. IsFiniteSet(U)
  <2> DEFINE f == [i \in 1 .. Len(a) |-> T(i)]
  <2> HIDE DEF T
  <2>1. f \in [1 .. Len(a) -> U] /\ \A t \in U : \E i \in 1 .. Len(a) : f[i] = t  OBVIOUS
  <2>2. IsFiniteSet(1 .. Len(a))  BY <1>1, FS_Interval
  <2> HIDE DEF f, U
  <2>3. f \in Surjection(1 .. Len(a), U)  BY <2>1 DEF Surjection
  <2> QED BY <2>2, <2>3, FS_Surjection
<1>4. \A t \in U : IsFiniteSet(t)  BY <1>2
<1>5. Slots(a) = UNION U  BY Zenon DEF Slots
<1> HIDE DEF U
<1> QED BY <1>3, <1>4, <1>5, FS_UNION

(* Slots that correspond one to one, with the same client in each, hold as many
   of every client. *)
Pairing(a, b, g, G) ==
    /\ \A s \in Slots(a) : g[s] \in Slots(b) /\ G[g[s]] = s
                           /\ b[g[s][1]].clients[g[s][2]].mac = a[s[1]].clients[s[2]].mac
    /\ \A t \in Slots(b) : G[t] \in Slots(a) /\ g[G[t]] = t

LEMMA SameClients ==
    ASSUME NEW a \in Seq(AP), NEW b \in Seq(AP), NEW g, NEW G, Pairing(a, b, g, G), NEW m
    PROVE  OnAP(b, m) = OnAP(a, m)
<1> USE DEF Pairing
<1> DEFINE S == {s \in Slots(a) : a[s[1]].clients[s[2]].mac = m}
           T == {t \in Slots(b) : b[t[1]].clients[t[2]].mac = m}
           f == [s \in S |-> g[s]]
<1>1. IsFiniteSet(S)
  <2>1. S \in SUBSET Slots(a)  OBVIOUS
  <2> HIDE DEF S
  <2> QED BY <2>1, SlotsFinite, FS_Subset
<1>2. \A s \in S : g[s] \in T /\ G[g[s]] = s  OBVIOUS
<1>3. \A t \in T : G[t] \in S /\ g[G[t]] = t
  <2> SUFFICES ASSUME NEW t \in T PROVE G[t] \in S /\ g[G[t]] = t  OBVIOUS
  <2>1. t \in Slots(b) /\ b[t[1]].clients[t[2]].mac = m  OBVIOUS
  <2> DEFINE s == G[t]
  <2>2. s \in Slots(a) /\ g[s] = t  BY <2>1
  <2>3. b[g[s][1]].clients[g[s][2]].mac = a[s[1]].clients[s[2]].mac  BY <2>2
  <2>4. a[s[1]].clients[s[2]].mac = m  BY <2>1, <2>2, <2>3
  <2> HIDE DEF s
  <2>5. s \in S  BY <2>2, <2>4
  <2> QED BY <2>2, <2>5 DEF s
<1> HIDE DEF S, T
<1>4. f \in Bijection(S, T)
  <2>1. f \in [S -> T]  BY <1>2
  <2>2. \A x, y \in S : f[x] = f[y] => x = y
    <3> SUFFICES ASSUME NEW x \in S, NEW y \in S, f[x] = f[y] PROVE x = y  OBVIOUS
    <3>1. g[x] = g[y]  OBVIOUS
    <3> QED BY <1>2, <3>1
  <2>3. \A t \in T : \E s \in S : f[s] = t  BY <1>3
  <2> HIDE DEF f
  <2> QED BY <2>1, <2>2, <2>3, Fun_IsBij
<1>5. ExistsBijection(S, T)  BY <1>4 DEF ExistsBijection
<1>6. Cardinality(T) = Cardinality(S)  BY <1>1, <1>5, FS_Bijection
<1> QED BY <1>6 DEF OnAP, S, T

(* The list a move leaves behind: entry e of list h is cut out, and c is put at
   the end of list f (which may be list h itself). *)
MoveOf(a, h, e, f, c) == [[a EXCEPT ![h].clients = CutAt(@, e)] EXCEPT ![f].clients = Append(@, c)]

One(p) == IF p THEN 1 ELSE 0

(* What it looks like: what stood behind the entry is one place further in
   front, and c stands last. *)
Layout(a, h, e, f, c, b) ==
    /\ b \in Seq(AP) /\ Len(b) = Len(a) /\ Len(a) \in Nat
    /\ \A i \in 1 .. Len(a) :
          /\ b[i].name = a[i].name
          /\ Len(a[i].clients) \in Nat
          /\ Len(b[i].clients) = Len(a[i].clients) - One(i = h) + One(i = f)
          /\ \A k \in 1 .. Len(a[i].clients) - One(i = h) :
                b[i].clients[k] = a[i].clients[IF i = h /\ k >= e THEN k + 1 ELSE k]
    /\ b[f].clients[Len(b[f].clients)] = c

LEMMA MoveLayout ==
    ASSUME NEW a \in Seq(AP), NEW h \in 1 .. Len(a), NEW e \in 1 .. Len(a[h].clients),
           NEW f \in 1 .. Len(a), NEW c \in Client
    PROVE  Layout(a, h, e, f, c, MoveOf(a, h, e, f, c))
<1> DEFINE b == MoveOf(a, h, e, f, c)
           w == [a EXCEPT ![h].clients = CutAt(@, e)]
           cut == CutAt(a[h].clients, e)
           ends == Append(w[f].clients, c)
<1>1. /\ \A i \in 1 .. Len(a) : a[i] \in AP /\ a[i].clients \in Seq(Client) /\ Len(a[i].clients) \in Nat
      /\ Len(a) \in Nat /\ DOMAIN a = 1 .. Len(a)
  <2>1. \A i \in 1 .. Len(a) : a[i] \in AP  BY ElementOfSeq
  <2>2. \A i \in 1 .. Len(a) : a[i].clients \in Seq(Client)  BY <2>1 DEF AP
  <2> QED BY <2>1, <2>2, LenProperties
<1>2. /\ cut \in Seq(Client) /\ Len(cut) = Len(a[h].clients) - 1
      /\ \A j \in 1 .. Len(a[h].clients) - 1 : cut[j] = IF j < e THEN a[h].clients[j] ELSE a[h].clients[j + 1]
  BY <1>1, CutAtProperties
<1> DEFINE left == [a[h] EXCEPT !.clients = cut]
<1> HIDE DEF b
<1>3. w = [a EXCEPT ![h] = left]  OBVIOUS
<1> HIDE DEF cut
<1>4. left \in AP /\ left.name = a[h].name /\ left.clients = cut  BY <1>1, <1>2 DEF AP
<1>5. b = [w EXCEPT ![f].clients = Append(@, c)]  BY DEF MoveOf, b
<1> HIDE DEF w, left
<1>6. /\ w \in Seq(AP) /\ Len(w) = Len(a)
      /\ \A i \in 1 .. Len(a) : w[i] = IF i = h THEN left ELSE a[i]
  <2> DEFINE r == [a EXCEPT ![h] = left]
  <2>1. r \in Seq(AP) /\ Len(r) = Len(a) /\ \A i \in 1 .. Len(a) : r[i] = IF i = h THEN left ELSE a[i]
    BY <1>4, ExceptSeq
  <2> HIDE DEF r
  <2>2. w = r  BY <1>3 DEF r
  <2> QED BY <2>1, <2>2
<1>7. \A i \in 1 .. Len(a) : w[i] \in AP /\ w[i].name = a[i].name
                             /\ w[i].clients = IF i = h THEN cut ELSE a[i].clients
  BY <1>1, <1>4, <1>6
<1>8. w[f].clients \in Seq(Client)  BY <1>1, <1>2, <1>7
<1>9. /\ ends \in Seq(Client) /\ Len(ends) = Len(w[f].clients) + 1 /\ Len(w[f].clients) \in Nat
      /\ \A j \in 1 .. Len(w[f].clients) : ends[j] = w[f].clients[j]
      /\ ends[Len(w[f].clients) + 1] = c
  BY <1>8, AppendProperties, LenProperties
<1> DEFINE joined == [w[f] EXCEPT !.clients = ends]
<1>10. b = [w EXCEPT ![f] = joined]
  <2>1. f \in DOMAIN w  BY <1>6, LenProperties
  <2> QED BY <1>5
<1> HIDE DEF ends
<1>11. joined \in AP /\ joined.name = w[f].name /\ joined.clients = ends  BY <1>7, <1>9 DEF AP
<1> HIDE DEF joined
<1>12. /\ b \in Seq(AP) /\ Len(b) = Len(a)
       /\ \A i \in 1 .. Len(a) : b[i] = IF i = f THEN joined ELSE w[i]
  <2> DEFINE r == [w EXCEPT ![f] = joined]
  <2>1. r \in Seq(AP) /\ Len(r) = Len(w) /\ \A i \in 1 .. Len(w) : r[i] = IF i = f THEN joined ELSE w[i]
    BY <1>6, <1>11, ExceptSeq
  <2>2. b = r  BY <1>10
  <2> HIDE DEF r
  <2> QED BY <1>6, <2>1, <2>2
<1>13. \A i \in 1 .. Len(a) : b[i].name = a[i].name /\ b[i].clients = IF i = f THEN ends ELSE w[i].clients
  <2> SUFFICES ASSUME NEW i \in 1 .. Len(a)
               PROVE  b[i].name = a[i].name /\ b[i].clients = IF i = f THEN ends ELSE w[i].clients
    OBVIOUS
  <2>1. b[i] = IF i = f THEN joined ELSE w[i]  BY <1>12
  <2>2. w[i].name = a[i].name  BY <1>7
  <2>3. CASE i = f  BY <1>11, <2>1, <2>2, <2>3, Zenon
  <2>4. CASE i # f
    <3>1. b[i] = w[i]  BY <2>1, <2>4
    <3> QED BY <2>2, <2>4, <3>1, Zenon
  <2> QED BY <2>3, <2>4
<1>14. ASSUME NEW i \in 1 .. Len(a)
       PROVE  /\ Len(b[i].clients) = Len(a[i].clients) - One(i = h) + One(i = f)
              /\ \A k \in 1 .. Len(a[i].clients) - One(i = h) :
                    b[i].clients[k] = a[i].clients[IF i = h /\ k >= e THEN k + 1 ELSE k]
  <2> DEFINE x == w[i].clients
             n == Len(a[i].clients) - One(i = h)
  <2>1. n \in Int /\ Len(a[i].clients) \in Nat  BY <1>1 DEF One
  <2>2. Len(x) = n /\ \A k \in 1 .. n : x[k] = a[i].clients[IF i = h /\ k >= e THEN k + 1 ELSE k]
    <3>1. CASE i = h
      <4>1. x = cut /\ n = Len(a[h].clients) - 1  BY <1>7, <3>1 DEF One
      <4>2. \A k \in 1 .. n : x[k] = IF k < e THEN a[h].clients[k] ELSE a[h].clients[k + 1]
        BY <1>2, <4>1
      <4>3. \A k \in 1 .. n : (k >= e) <=> ~(k < e)  BY <2>1, <1>1
      <4> HIDE DEF x, n
      <4> QED BY <1>2, <3>1, <4>1, <4>2, <4>3
    <3>2. CASE i # h
      <4>1. x = a[i].clients /\ n = Len(a[i].clients)  BY <1>1, <1>7, <3>2 DEF One
      <4> HIDE DEF x, n
      <4> QED BY <3>2, <4>1
    <3> QED BY <3>1, <3>2
  <2>3. /\ i = f => /\ b[i].clients = ends /\ Len(ends) = Len(x) + 1
                    /\ \A k \in 1 .. Len(x) : ends[k] = x[k]
        /\ i # f => b[i].clients = x
    BY <1>9, <1>13
  <2>4. Len(b[i].clients) = n + One(i = f)
    <3> HIDE DEF x, n
    <3> QED BY <2>1, <2>2, <2>3 DEF One
  <2>5. \A k \in 1 .. n : b[i].clients[k] = x[k]
    <3> HIDE DEF x, n
    <3> QED BY <2>2, <2>3
  <2> HIDE DEF x
  <2> QED BY <2>2, <2>4, <2>5
<1>15. b[f].clients[Len(b[f].clients)] = c  BY <1>9, <1>13
<1> HIDE DEF ends
<1>16. Layout(a, h, e, f, c, b)  BY <1>1, <1>12, <1>13, <1>14, <1>15 DEF Layout
<1> QED BY <1>16 DEF b

(* Such a move keeps the names, the number of entries of every address (that of
   c being the address of the entry moved) and every AP's other clients, and
   puts c where it was to go. *)
MoveKeeps(a, f, c, b) ==
    /\ \A m : OnAP(b, m) = OnAP(a, m)
    /\ Len(b) = Len(a)
    /\ \A i \in 1 .. Len(a) : Stations(b[i]) \ {c.mac} = Stations(a[i]) \ {c.mac}
    /\ \A n : Named(b, n) = Named(a, n)
    /\ \E k \in 1 .. Len(b[f].clients) : b[f].clients[k].mac = c.mac

LEMMA MoveCounts ==
    ASSUME NEW a \in Seq(AP), NEW h \in 1 .. Len(a), NEW e \in 1 .. Len(a[h].clients),
           NEW f \in 1 .. Len(a), NEW c, NEW b, Layout(a, h, e, f, c, b),
           c.mac = a[h].clients[e].mac
    PROVE  MoveKeeps(a, f, c, b)
<1> DEFINE L(i) == Len(a[i].clients)
           M(i) == Len(b[i].clients)
           g == [s \in Slots(a) |->
                    IF s = <<h, e>> THEN <<f, M(f)>>
                    ELSE IF s[1] = h /\ s[2] > e THEN <<h, s[2] - 1>> ELSE s]
           G == [t \in Slots(b) |->
                    IF t = <<f, M(f)>> THEN <<h, e>>
                    ELSE IF t[1] = h /\ t[2] >= e THEN <<h, t[2] + 1>> ELSE t]
<1>1. /\ b \in Seq(AP) /\ Len(b) = Len(a) /\ Len(a) \in Nat
      /\ \A i \in 1 .. Len(a) :
            /\ b[i].name = a[i].name
            /\ L(i) \in Nat
            /\ M(i) = L(i) - One(i = h) + One(i = f)
            /\ \A k \in 1 .. L(i) - One(i = h) :
                  b[i].clients[k] = a[i].clients[IF i = h /\ k >= e THEN k + 1 ELSE k]
      /\ b[f].clients[M(f)] = c
  BY DEF Layout
<1>2. \A s : s \in Slots(a) <=> \E i \in 1 .. Len(a) : \E k \in 1 .. L(i) : s = <<i, k>>  BY InSlots
<1>3. \A t : t \in Slots(b) <=> \E i \in 1 .. Len(a) : \E k \in 1 .. M(i) : t = <<i, k>>
  <2>1. Len(b) = Len(a)  BY <1>1
  <2> QED BY <2>1, InSlots
<1>4. e \in 1 .. L(h)  OBVIOUS
<1> HIDE DEF L, M, g, G
<1>5. /\ h \in Nat /\ f \in Nat /\ e \in Nat
      /\ \A i \in 1 .. Len(a) : /\ L(i) \in Nat /\ M(i) \in Nat
                                /\ i = h /\ i = f => M(i) = L(i)
                                /\ i = h /\ i # f => M(i) = L(i) - 1
                                /\ i # h /\ i = f => M(i) = L(i) + 1
                                /\ i # h /\ i # f => M(i) = L(i)
      /\ e >= 1 /\ e <= L(h) /\ M(f) >= 1
  <2>1. h \in Nat /\ f \in Nat /\ L(h) \in Nat /\ e \in Nat /\ e >= 1 /\ e <= L(h)  BY <1>1, <1>4
  <2>2. \A i \in 1 .. Len(a) : M(i) = L(i) - One(i = h) + One(i = f) /\ L(i) \in Nat  BY <1>1
  <2>3. ASSUME NEW i \in 1 .. Len(a)
        PROVE  /\ L(i) \in Nat /\ M(i) \in Nat
               /\ i = h /\ i = f => M(i) = L(i)
               /\ i = h /\ i # f => M(i) = L(i) - 1
               /\ i # h /\ i = f => M(i) = L(i) + 1
               /\ i # h /\ i # f => M(i) = L(i)
    <3>1. L(i) \in Nat /\ M(i) = L(i) - One(i = h) + One(i = f)  BY <2>2
    <3>2. i = h => L(i) >= 1  BY <2>1
    <3> QED BY <3>1, <3>2 DEF One
  <2>4. M(f) >= 1  BY <2>1, <2>3
  <2> QED BY <2>1, <2>3, <2>4
<1>6. \A i \in 1 .. Len(a) : \A k \in 1 .. L(i) :
         /\ i = h /\ k < L(i) /\ k >= e => b[i].clients[k] = a[i].clients[k + 1]
         /\ i = h /\ k < L(i) /\ k < e => b[i].clients[k] = a[i].clients[k]
         /\ i # h => b[i].clients[k] = a[i].clients[k]
  <2> SUFFICES ASSUME NEW i \in 1 .. Len(a), NEW k \in 1 .. L(i)
               PROVE  /\ i = h /\ k < L(i) /\ k >= e => b[i].clients[k] = a[i].clients[k + 1]
                      /\ i = h /\ k < L(i) /\ k < e => b[i].clients[k] = a[i].clients[k]
                      /\ i # h => b[i].clients[k] = a[i].clients[k]
    OBVIOUS
  <2>1. L(i) \in Nat  BY <1>5
  <2>2. \A j \in 1 .. L(i) - One(i = h) : b[i].clients[j] = a[i].clients[IF i = h /\ j >= e THEN j + 1 ELSE j]
    BY <1>1
  <2>3. i # h \/ k < L(i) => k \in 1 .. L(i) - One(i = h)  BY <2>1 DEF One
  <2>4. i # h \/ k < L(i) => b[i].clients[k] = a[i].clients[IF i = h /\ k >= e THEN k + 1 ELSE k]
    BY <2>2, <2>3
  <2>5. ~(k < e /\ k >= e)  BY <1>5
  <2> QED BY <2>4, <2>5
<1>7. ASSUME NEW s \in Slots(a)
      PROVE  g[s] \in Slots(b) /\ G[g[s]] = s /\ b[g[s][1]].clients[g[s][2]].mac = a[s[1]].clients[s[2]].mac
  <2>0. PICK i \in 1 .. Len(a) : \E k \in 1 .. L(i) : s = <<i, k>>  BY <1>2
  <2>1. PICK k \in 1 .. L(i) : s = <<i, k>>  BY <2>0
  <2>2. CASE s = <<h, e>>
    <3>1. g[s] = <<f, M(f)>>  BY <2>2 DEF g
    <3>2. <<f, M(f)>> \in Slots(b)
      <4>1. f \in 1 .. Len(a) /\ M(f) \in 1 .. M(f)  BY <1>5
      <4> QED BY <1>3, <4>1, Zenon
    <3>3. G[<<f, M(f)>>] = <<h, e>>  BY <3>2 DEF G
    <3> QED BY <1>1, <2>2, <3>1, <3>2, <3>3
  <2>3. CASE s # <<h, e>> /\ i = h /\ k > e
    <3>1. g[s] = <<h, k - 1>>  BY <2>1, <2>3 DEF g
    <3>2. /\ k - 1 \in 1 .. M(h) /\ k - 1 >= e /\ k - 1 + 1 = k /\ k - 1 \in 1 .. L(h) - 1
          /\ (h = f => k - 1 # M(f))
      BY <1>5, <2>1, <2>3
    <3>3. <<h, k - 1>> \in Slots(b) /\ <<h, k - 1>> # <<f, M(f)>>  BY <1>3, <3>2
    <3>4. G[<<h, k - 1>>] = <<h, k>>  BY <3>2, <3>3 DEF G
    <3>5. b[h].clients[k - 1] = a[h].clients[k]
      <4>1. k - 1 \in 1 .. L(h) /\ k - 1 < L(h)  BY <1>5, <2>1, <2>3, <3>2
      <4> QED BY <1>6, <3>2, <4>1
    <3>6. s = <<h, k>> /\ s[1] = h /\ s[2] = k  BY <2>1, <2>3
    <3>7. g[s][1] = h /\ g[s][2] = k - 1  BY <3>1
    <3>8. G[g[s]] = s  BY <3>1, <3>4, <3>6, Zenon
    <3> QED BY <3>1, <3>3, <3>5, <3>6, <3>7, <3>8, Zenon
  <2>4. CASE s # <<h, e>> /\ ~(i = h /\ k > e)
    <3>1. g[s] = s  BY <2>1, <2>4 DEF g
    <3>2. i = h => k < e  BY <1>5, <2>1, <2>4
    <3>3. /\ k \in 1 .. M(i) /\ ~(i = h /\ k >= e) /\ (i = h => k < L(i))
          /\ (i = f => k # M(f))
      BY <1>5, <2>1, <3>2
    <3>4. s \in Slots(b) /\ s # <<f, M(f)>>  BY <1>3, <2>1, <3>3
    <3>5. G[s] = s  BY <2>1, <3>3, <3>4 DEF G
    <3>6. b[i].clients[k] = a[i].clients[k]  BY <1>6, <2>1, <3>2, <3>3
    <3> QED BY <2>1, <3>1, <3>4, <3>5, <3>6
  <2> QED BY <2>2, <2>3, <2>4
<1>8. ASSUME NEW t \in Slots(b)
      PROVE  G[t] \in Slots(a) /\ g[G[t]] = t
  <2>0. PICK i \in 1 .. Len(a) : \E k \in 1 .. M(i) : t = <<i, k>>  BY <1>3
  <2>1. PICK k \in 1 .. M(i) : t = <<i, k>>  BY <2>0
  <2>2. CASE t = <<f, M(f)>>
    <3>1. G[t] = <<h, e>>  BY <2>2 DEF G
    <3>2. <<h, e>> \in Slots(a)  BY <1>2, <1>4
    <3>3. g[<<h, e>>] = <<f, M(f)>>  BY <3>2 DEF g
    <3> QED BY <2>2, <3>1, <3>2, <3>3
  <2>3. CASE t # <<f, M(f)>> /\ i = h /\ k >= e
    <3>1. G[t] = <<h, k + 1>>  BY <2>1, <2>3 DEF G
    <3>2. k + 1 \in 1 .. L(h) /\ k + 1 > e /\ k + 1 - 1 = k
      BY <1>5, <2>1, <2>3
    <3>3. <<h, k + 1>> \in Slots(a) /\ <<h, k + 1>> # <<h, e>>  BY <1>2, <1>5, <3>2
    <3>4. g[<<h, k + 1>>] = <<h, k>>  BY <3>2, <3>3 DEF g
    <3> QED BY <2>1, <2>3, <3>1, <3>3, <3>4
  <2>4. CASE t # <<f, M(f)>> /\ ~(i = h /\ k >= e)
    <3>1. G[t] = t  BY <2>1, <2>4 DEF G
    <3>2. k \in 1 .. L(i) /\ ~(i = h /\ k > e) /\ (i = h => k # e)
      BY <1>5, <2>1, <2>4
    <3>3. t \in Slots(a) /\ t # <<h, e>>  BY <1>2, <2>1, <3>2
    <3>4. g[t] = t  BY <2>1, <3>2, <3>3 DEF g
    <3> QED BY <3>1, <3>3, <3>4
  <2> QED BY <2>2, <2>3, <2>4
<1>9. \A m : OnAP(b, m) = OnAP(a, m)  
  <2>1. b \in Seq(AP)  BY <1>1
  <2>2. \A s \in Slots(a) : g[s] \in Slots(b) /\ G[g[s]] = s
                            /\ b[g[s][1]].clients[g[s][2]].mac = a[s[1]].clients[s[2]].mac
    <3> SUFFICES ASSUME NEW s \in Slots(a)
                 PROVE  g[s] \in Slots(b) /\ G[g[s]] = s
                        /\ b[g[s][1]].clients[g[s][2]].mac = a[s[1]].clients[s[2]].mac
      OBVIOUS
    <3> QED BY <1>7
  <2>3. \A t \in Slots(b) : G[t] \in Slots(a) /\ g[G[t]] = t  BY <1>8
  <2>4. Pairing(a, b, g, G)  BY <2>2, <2>3 DEF Pairing
  <2> QED BY <2>1, <2>4, SameClients
<1>10. \A n : Named(b, n) = Named(a, n)  BY <1>1 DEF Named
<1>11. \E k \in 1 .. M(f) : b[f].clients[k].mac = c.mac  BY <1>1, <1>5
<1>12. ASSUME NEW i \in 1 .. Len(a)
       PROVE  Stations(b[i]) \ {c.mac} = Stations(a[i]) \ {c.mac}
  <2>0. /\ L(i) \in Nat /\ M(i) \in Nat /\ a[h].clients[e].mac = c.mac
        /\ i = h /\ i = f => M(i) = L(i)
        /\ i = h /\ i # f => M(i) = L(i) - 1
        /\ i # h /\ i = f => M(i) = L(i) + 1
        /\ i # h /\ i # f => M(i) = L(i)
    BY <1>5
  <2>1. ASSUME NEW k \in 1 .. L(i), a[i].clients[k].mac # c.mac
        PROVE  \E j \in 1 .. M(i) : b[i].clients[j].mac = a[i].clients[k].mac
    <3>1. CASE i = h /\ k > e
      <4>1. k - 1 \in 1 .. L(i) /\ k - 1 < L(i) /\ k - 1 >= e /\ k - 1 + 1 = k /\ k - 1 \in 1 .. M(i)
        BY <1>5, <2>0, <3>1
      <4>2. b[i].clients[k - 1] = a[i].clients[k]  BY <1>6, <3>1, <4>1
      <4> QED BY <4>1, <4>2
    <3>2. CASE i = h /\ k < e
      <4>1. k < L(i) /\ k \in 1 .. M(i)  BY <1>5, <2>0, <3>2
      <4>2. b[i].clients[k] = a[i].clients[k]  BY <1>6, <3>2, <4>1
      <4> QED BY <4>1, <4>2
    <3>3. CASE i # h
      <4>1. k \in 1 .. M(i)  BY <2>0, <3>3
      <4>2. b[i].clients[k] = a[i].clients[k]  BY <1>6, <3>3
      <4> QED BY <4>1, <4>2
    <3>4. ~(i = h /\ k = e)  BY <2>0, <2>1
    <3>5. k \in Nat /\ e \in Nat  BY <1>5, <2>0
    <3> QED BY <3>1, <3>2, <3>3, <3>4, <3>5
  <2>2. ASSUME NEW k \in 1 .. M(i), b[i].clients[k].mac # c.mac
        PROVE  \E j \in 1 .. L(i) : a[i].clients[j].mac = b[i].clients[k].mac
    <3>1. i = f => k # M(i)  BY <1>1, <2>2
    <3>2. k \in 1 .. L(i) /\ (i = h => k < L(i))  BY <2>0, <3>1
    <3>3. CASE i = h /\ k >= e
      <4>1. k + 1 \in 1 .. L(i)  BY <2>0, <3>2, <3>3
      <4>2. b[i].clients[k] = a[i].clients[k + 1]  BY <1>6, <3>2, <3>3
      <4> QED BY <4>1, <4>2
    <3>4. CASE ~(i = h /\ k >= e)
      <4>1. i = h => k < e  BY <1>5, <3>2, <3>4
      <4>2. b[i].clients[k] = a[i].clients[k]  BY <1>6, <3>2, <4>1
      <4> QED BY <3>2, <4>2
    <3> QED BY <3>3, <3>4
  <2>3. /\ Stations(a[i]) = {a[i].clients[k].mac : k \in 1 .. L(i)}
        /\ Stations(b[i]) = {b[i].clients[k].mac : k \in 1 .. M(i)}
    BY DEF Stations, L, M
  <2>4. \A x : x \in Stations(a[i]) \ {c.mac} => x \in Stations(b[i])  BY <2>1, <2>3
  <2>5. \A x : x \in Stations(b[i]) \ {c.mac} => x \in Stations(a[i])  BY <2>2, <2>3
  <2> QED BY <2>4, <2>5, Zenon
<1>13. Len(b) = Len(a)  BY <1>1
<1> QED BY <1>9, <1>10, <1>11, <1>12, <1>13 DEF M, MoveKeeps

(* The entry taken out is one of the client asked for. *)
LEMMA EntryIsOf ==
    ASSUME aps \in Seq(AP), NEW m \in MACs, Home(m) # {}
    PROVE  aps[First(Home(m))].clients[Entry(m)].mac = m
<1>1. Home(m) \in SUBSET Nat /\ Home(m) \subseteq 1 .. Len(aps)  BY DEF Home
<1>2. First(Home(m)) \in Home(m)  BY <1>1, FirstIsLeast
<1> DEFINE cs == aps[First(Home(m))].clients
           E == {k \in 1 .. Len(cs) : cs[k].mac = m}
<1>3. E # {}  BY <1>2 DEF Home
<1>4. E \in SUBSET Nat
  <2>1. cs \in Seq(Client)  BY HomeAndEntry
  <2> QED BY <2>1, LenProperties
<1>5. First(E) \in E  BY <1>3, <1>4, FirstIsLeast
<1> QED BY <1>5 DEF Entry

MoveStep ==
    reply'.op = "move" =>
        /\ \A m \in MACs : OnAP(aps', m) = OnAP(aps, m)
        /\ Len(aps') = Len(aps)
        /\ \A i \in 1 .. Len(aps) : Stations(aps'[i]) \ {reply'.mac} = Stations(aps[i]) \ {reply'.mac}
        /\ \E k \in 1 .. Len(aps'[First(Named(aps', reply'.ap))].clients) :
              aps'[First(Named(aps', reply'.ap))].clients[k].mac = reply'.mac

(* The one step that confirms a move. *)
LEMMA ConfirmedMove ==
    ASSUME TypeOK, NEW m \in MACs, NEW n \in Names, NEW s \in SSIDs \cup {None},
           Home(m) # {}, Named(aps, n) # {},
           Commit([WithoutClient(m) EXCEPT ![First(Named(aps, n))].clients = Append(@, Moved(m, s))],
                  Confirmed(m, n))
    PROVE  MoveStep
<1> DEFINE h == First(Home(m))
           e == Entry(m)
           f == First(Named(aps, n))
           c == Moved(m, s)
<1>1. aps \in Seq(AP)  BY DEF TypeOK
<1>2. h \in 1 .. Len(aps) /\ e \in 1 .. Len(aps[h].clients) /\ aps[h].clients \in Seq(Client)
  BY <1>1, HomeAndEntry
<1>3. f \in 1 .. Len(aps)
  <2>1. Named(aps, n) \in SUBSET Nat /\ Named(aps, n) \subseteq 1 .. Len(aps)  BY DEF Named
  <2> QED BY <2>1, FirstIsLeast
<1>4. c \in Client /\ c.mac = aps[h].clients[e].mac
  <2>1. aps[h].clients[e] \in Client  BY <1>2, ElementOfSeq
  <2> HIDE DEF h, e
  <2>2. c = IF s = None THEN aps[h].clients[e] ELSE [aps[h].clients[e] EXCEPT !.ssid = s]
    BY DEF Moved, h, e
  <2> HIDE DEF c
  <2> QED BY <2>1, <2>2 DEF Client
<1>5. aps[h].clients[e].mac = m  BY <1>1, EntryIsOf
<1>6. aps' = MoveOf(aps, h, e, f, c)  BY DEF Commit, Save, WithoutClient, MoveOf
<1>7. reply' = Confirmed(m, n)  BY DEF Commit, Save
<1> DEFINE b == aps'
<1>8. f = First(Named(aps, n))  OBVIOUS
<1> HIDE DEF h, e, f, c, b
<1>9. Layout(aps, h, e, f, c, b)
  <2>1. b = MoveOf(aps, h, e, f, c)  BY <1>6 DEF b
  <2> QED BY <1>1, <1>2, <1>3, <1>4, <2>1, MoveLayout, Zenon
<1>10. MoveKeeps(aps, f, c, b)  BY <1>1, <1>2, <1>3, <1>4, <1>9, MoveCounts
<1>11. First(Named(b, n)) = f  BY <1>8, <1>10 DEF MoveKeeps
<1>12. c.mac = m  BY <1>4, <1>5
<1>13. reply'.ap = n /\ reply'.mac = m  BY <1>7 DEF Confirmed
<1>14. \A x \in MACs : OnAP(aps', x) = OnAP(aps, x)  BY <1>10 DEF b, MoveKeeps
<1>15. \E k \in 1 .. Len(aps'[First(Named(aps', n))].clients) :
          aps'[First(Named(aps', n))].clients[k].mac = m
  <2>1. \E k \in 1 .. Len(b[First(Named(b, n))].clients) : b[First(Named(b, n))].clients[k].mac = m
    BY <1>10, <1>11, <1>12 DEF MoveKeeps
  <2> QED BY <2>1 DEF b
<1>16. First(Named(aps', reply'.ap)) = First(Named(aps', n))  BY <1>13
<1>17. \E k \in 1 .. Len(aps'[First(Named(aps', reply'.ap))].clients) :
          aps'[First(Named(aps', reply'.ap))].clients[k].mac = reply'.mac
  BY <1>13, <1>15, <1>16, Zenon
<1>18. Len(aps') = Len(aps)  BY <1>10 DEF b, MoveKeeps
<1>19. \A i \in 1 .. Len(aps) : Stations(aps'[i]) \ {reply'.mac} = Stations(aps[i]) \ {reply'.mac}
  <2>1. \A i \in 1 .. Len(aps) : Stations(b[i]) \ {c.mac} = Stations(aps[i]) \ {c.mac}
    BY <1>10 DEF MoveKeeps
  <2>2. reply'.mac = c.mac  BY <1>12, <1>13
  <2> QED BY <2>1, <2>2 DEF b
<1> QED BY <1>14, <1>17, <1>18, <1>19, Zenon DEF MoveStep

(* No other step does. *)
LEMMA OtherAnswers ==
    ASSUME reply' = NoReply
    PROVE  MoveStep
BY DEF MoveStep, NoReply

LEMMA EveryMoveKeeps == TypeOK /\ Next => MoveStep
<1> SUFFICES ASSUME TypeOK, Next PROVE MoveStep  OBVIOUS
<1>1. ASSUME NEW n \in Names, NEW d \in BOOLEAN, AddAP(NewAP(n, d)) PROVE MoveStep
  BY <1>1, OtherAnswers DEF AddAP, Commit, Save
<1>2. ASSUME NEW n \in Names, RemoveAP(n) PROVE MoveStep
  <2>1. reply' = NoReply
    BY <1>2 DEF RemoveAP, Commit, Save, Refuse
  <2> QED BY <2>1, OtherAnswers
<1>3. ASSUME NEW n \in Names, NEW ss \in SUBSET SSIDs, UpdateAPSSIDs(n, ss) PROVE MoveStep
  <2>1. reply' = NoReply
    BY <1>3 DEF UpdateAPSSIDs, Commit, Save, Refuse
  <2> QED BY <2>1, OtherAnswers
<1>4. ASSUME NEW n \in Names, NEW m \in MACs, NEW s \in SSIDs \cup {None},
             AddClient(n, [mac |-> m, ssid |-> s, vlan |-> 0, channel |-> 0])
      PROVE  MoveStep
  <2>1. reply' = NoReply
    BY <1>4 DEF AddClient, Commit, Save, Refuse
  <2> QED BY <2>1, OtherAnswers
<1>5. ASSUME NEW m \in MACs, RemoveClient(m) PROVE MoveStep
  <2>1. reply' = NoReply
    BY <1>5 DEF RemoveClient, Commit, Save, Refuse
  <2> QED BY <2>1, OtherAnswers
<1>6. ASSUME NEW m \in MACs, NEW n \in Names, NEW s \in SSIDs \cup {None}, UpdateClient(m, n, s)
      PROVE  MoveStep
  <2>1. CASE Home(m) = {} /\ Refuse  BY <2>1, OtherAnswers DEF Refuse
  <2>2. CASE Home(m) # {} /\ Named(aps, n) = {} /\ reply' = NoReply  BY <2>2, OtherAnswers
  <2>3. CASE /\ Home(m) # {} /\ Named(aps, n) # {}
             /\ Commit([WithoutClient(m) EXCEPT ![First(Named(aps, n))].clients = Append(@, Moved(m, s))],
                       Confirmed(m, n))
    BY <2>3, ConfirmedMove
  <2> QED BY <1>6, <2>1, <2>2, <2>3, Zenon DEF UpdateClient
<1>7. CASE Restart  BY <1>7, OtherAnswers DEF Restart
<1>8. ASSUME NEW f \in Imports, Import(f) \/ Recreate(f) PROVE MoveStep
  BY <1>8, OtherAnswers DEF Import, Recreate, Save
<1> QED BY <1>1, <1>2, <1>3, <1>4, <1>5, <1>6, <1>7, <1>8 DEF Next, EditAPs, EditClients

(* A roaming client is on one AP at a time, however many entries of its address
   there are: UpdateClient takes out the one entry it puts back, so a move that
   is confirmed changes no address's number of entries, leaves every AP its
   other clients, and puts the client on the AP that was asked for. *)
THEOREM MovesKeepClients == Spec => MoveKeepsClients
<1>1. Inv => TypeOK  BY DEF Inv
<1>2. TypeOK /\ [Next]_vars => [MoveStep]_vars
  <2> SUFFICES ASSUME TypeOK, Next PROVE MoveStep  OBVIOUS
  <2> QED BY EveryMoveKeeps
<1>3. MoveKeepsClients <=> [][MoveStep]_vars  BY PTL DEF MoveKeepsClients, MoveStep
<1> QED BY InitInv, StepInv, <1>1, <1>2, <1>3, PTL DEF Spec

----------------------------------------------------------------------------
(* Lists of lists, one behind the other *)

(* f joins the first m of the lists s, one by one. *)
Joins(f, s, m) == f = [i \in 1 .. m |-> IF i = 1 THEN s[i] ELSE f[i - 1] \o s[i]]

(* There is such a function, for any number of lists. *)
LEMMA JoinExists ==
    ASSUME NEW s
    PROVE  \A m \in Nat : \E f : Joins(f, s, m)
<1> DEFINE S == {m \in Nat : \E f : Joins(f, s, m)}
<1>1. 0 \in S
  <2>1. Joins([i \in 1 .. 0 |-> s[i]], s, 0)  BY DEF Joins
  <2> QED BY <2>1
<1>2. ASSUME NEW m \in Nat, m \in S PROVE m + 1 \in S
  <2>1. PICK f : Joins(f, s, m)  BY <1>2
  <2> DEFINE g == [i \in 1 .. m + 1 |-> IF i <= m THEN f[i] ELSE IF i = 1 THEN s[i] ELSE f[m] \o s[i]]
  <2>2. \A i \in 1 .. m : f[i] = IF i = 1 THEN s[i] ELSE f[i - 1] \o s[i]
    <3>1. f = [i \in 1 .. m |-> IF i = 1 THEN s[i] ELSE f[i - 1] \o s[i]]  BY <2>1 DEF Joins
    <3> DEFINE h == [i \in 1 .. m |-> IF i = 1 THEN s[i] ELSE f[i - 1] \o s[i]]
    <3>2. \A i \in 1 .. m : h[i] = IF i = 1 THEN s[i] ELSE f[i - 1] \o s[i]  OBVIOUS
    <3>3. f = h  BY <3>1
    <3> HIDE DEF h
    <3> QED BY <3>2, <3>3, Zenon
  <2>3. \A i \in 1 .. m : g[i] = f[i]  OBVIOUS
  <2>4. \A i \in 1 .. m + 1 : g[i] = IF i = 1 THEN s[i] ELSE g[i - 1] \o s[i]
    <3> SUFFICES ASSUME NEW i \in 1 .. m + 1
                 PROVE  g[i] = IF i = 1 THEN s[i] ELSE g[i - 1] \o s[i]
      OBVIOUS
    <3>1. CASE i \in 1 .. m
      <4>1. i = 1 \/ i - 1 \in 1 .. m  BY <3>1
      <4>2. g[i] = f[i] /\ (i = 1 \/ g[i - 1] = f[i - 1])  BY <2>3, <3>1, <4>1
      <4> HIDE DEF g
      <4> QED BY <2>2, <3>1, <4>2
    <3>2. CASE i = m + 1
      <4>1. g[i] = IF i = 1 THEN s[i] ELSE f[m] \o s[i]  BY <3>2
      <4>2. i = 1 \/ (m \in 1 .. m /\ i - 1 = m)  BY <3>2
      <4>3. i = 1 \/ g[i - 1] = f[m]  BY <2>3, <4>2
      <4> HIDE DEF g
      <4> QED BY <4>1, <4>3
    <3> QED BY <3>1, <3>2
  <2>5. g = [i \in 1 .. m + 1 |-> g[i]]  OBVIOUS
  <2> HIDE DEF g
  <2>6. Joins(g, s, m + 1)  BY <2>4, <2>5 DEF Joins
  <2> QED BY <2>6
<1> HIDE DEF S
<1>3. \A m \in Nat : m \in S  BY <1>1, <1>2, InductiveSet
<1> QED BY <1>3 DEF S

(* FlattenSeq takes the last value of it. *)
LEMMA FlattenJoins ==
    ASSUME NEW s, Len(s) \in Nat, Len(s) # 0
    PROVE  \E f : Joins(f, s, Len(s)) /\ Seqs!FlattenSeq(s) = f[Len(s)]
<1> DEFINE F == CHOOSE f : f = [i \in 1 .. Len(s) |-> IF i = 1 THEN s[i] ELSE f[i - 1] \o s[i]]
<1>1. Seqs!FlattenSeq(s) = F[Len(s)]  BY DEF Seqs!FlattenSeq
<1>2. \E f : f = [i \in 1 .. Len(s) |-> IF i = 1 THEN s[i] ELSE f[i - 1] \o s[i]]
  BY JoinExists DEF Joins
<1>3. F = [i \in 1 .. Len(s) |-> IF i = 1 THEN s[i] ELSE F[i - 1] \o s[i]]  BY <1>2, Zenon
<1> HIDE DEF F
<1> QED BY <1>1, <1>3, Zenon DEF Joins

(* The lists s stand in out one behind the other: list i takes the positions
   behind off[i]. *)
Placed(s, out, off) ==
    /\ off \in [1 .. Len(s) + 1 -> Nat] /\ off[1] = 0
    /\ \A i \in 1 .. Len(s) : off[i + 1] = off[i] + Len(s[i])
    /\ Len(out) = off[Len(s) + 1]
    /\ \A i \in 1 .. Len(s) : \A k \in 1 .. Len(s[i]) : out[off[i] + k] = s[i][k]

(* Where the elements of two joined lists are. *)
LEMMA JoinPlaces ==
    ASSUME NEW T, NEW a \in Seq(T), NEW b \in Seq(T)
    PROVE  /\ a \o b \in Seq(T) /\ Len(a) \in Nat /\ Len(b) \in Nat
           /\ Len(a \o b) = Len(a) + Len(b)
           /\ \A j \in 1 .. Len(a) : j \in 1 .. Len(a \o b) /\ (a \o b)[j] = a[j]
           /\ \A k \in 1 .. Len(b) : Len(a) + k \in 1 .. Len(a \o b) /\ (a \o b)[Len(a) + k] = b[k]
<1> DEFINE c == a \o b
<1>1. Len(a) \in Nat /\ Len(b) \in Nat  BY LenProperties
<1>2. /\ c \in Seq(T) /\ Len(c) = Len(a) + Len(b)
      /\ \A i \in 1 .. Len(a) + Len(b) : c[i] = IF i <= Len(a) THEN a[i] ELSE b[i - Len(a)]
  BY ConcatProperties
<1> HIDE DEF c
<1>3. \A j \in 1 .. Len(a) : j \in 1 .. Len(a) + Len(b) /\ j <= Len(a)  BY <1>1
<1>4. \A k \in 1 .. Len(b) : /\ Len(a) + k \in 1 .. Len(a) + Len(b)
                            /\ ~(Len(a) + k <= Len(a)) /\ (Len(a) + k) - Len(a) = k
  BY <1>1
<1>5. \A j \in 1 .. Len(a) : c[j] = a[j]  BY <1>2, <1>3, Zenon
<1>6. \A k \in 1 .. Len(b) : c[Len(a) + k] = b[k]
  <2> SUFFICES ASSUME NEW k \in 1 .. Len(b) PROVE c[Len(a) + k] = b[k]  OBVIOUS
  <2>1. c[Len(a) + k] = b[(Len(a) + k) - Len(a)]  BY <1>2, <1>4, Zenon
  <2> QED BY <1>4, <2>1
<1> QED BY <1>1, <1>2, <1>3, <1>4, <1>5, <1>6 DEF c

(* So does FlattenSeq put them. *)
LEMMA FlattenPlaces ==
    ASSUME NEW T, NEW s \in Seq(Seq(T))
    PROVE  Seqs!FlattenSeq(s) \in Seq(T) /\ \E off : Placed(s, Seqs!FlattenSeq(s), off)
<1> DEFINE n == Len(s)
<1>1. n \in Nat /\ \A i \in 1 .. n : s[i] \in Seq(T) /\ Len(s[i]) \in Nat
  BY LenProperties, ElementOfSeq
<1>2. CASE n = 0
  <2>1. s = << >> /\ Seqs!FlattenSeq(s) = s
    <3>1. s = << >>  BY <1>2, EmptySeq
    <3>2. Seqs!FlattenSeq(s) = s  BY <1>2 DEF Seqs!FlattenSeq
    <3> QED BY <3>1, <3>2
  <2>2. << >> \in Seq(T)  BY EmptySeq
  <2>3. Placed(s, s, [i \in 1 .. 1 |-> 0])  BY <1>2 DEF Placed
  <2> QED BY <2>1, <2>2, <2>3
<1>3. CASE n # 0
  <2>1. PICK f : Joins(f, s, n) /\ Seqs!FlattenSeq(s) = f[n]  BY <1>1, <1>3, FlattenJoins
  <2>2. \A i \in 1 .. n : f[i] = IF i = 1 THEN s[i] ELSE f[i - 1] \o s[i]
    <3> DEFINE h == [i \in 1 .. n |-> IF i = 1 THEN s[i] ELSE f[i - 1] \o s[i]]
    <3>1. \A i \in 1 .. n : h[i] = IF i = 1 THEN s[i] ELSE f[i - 1] \o s[i]  OBVIOUS
    <3>2. f = h  BY <2>1 DEF Joins
    <3> HIDE DEF h
    <3> QED BY <3>1, <3>2, Zenon
  <2> HIDE DEF n
  <2>3. \A m \in 1 .. n : f[m] \in Seq(T)
    <3> DEFINE S == {m \in Nat : m \in 1 .. n => f[m] \in Seq(T)}
    <3>1. 0 \in S  OBVIOUS
    <3>2. ASSUME NEW m \in Nat, m \in S PROVE m + 1 \in S
      <4> SUFFICES ASSUME m + 1 \in 1 .. n PROVE f[m + 1] \in Seq(T)  OBVIOUS
      <4>1. CASE m = 0  BY <1>1, <2>2, <4>1
      <4>2. CASE m # 0
        <5>1. m \in 1 .. n /\ m + 1 # 1 /\ (m + 1) - 1 = m  BY <1>1, <4>2
        <5>2. f[m + 1] = f[m] \o s[m + 1]  BY <2>2, <5>1
        <5>3. f[m] \in Seq(T)  BY <3>2, <5>1
        <5> QED BY <1>1, <5>2, <5>3, ConcatProperties
      <4> QED BY <4>1, <4>2
    <3>3. \A m \in Nat : m \in S
      <4> HIDE DEF S
      <4> QED BY <3>1, <3>2, InductiveSet
    <3> QED BY <1>1, <3>3
  <2> DEFINE off == [i \in 1 .. n + 1 |-> IF i = 1 THEN 0 ELSE Len(f[i - 1])]
  <2>4. /\ off[1] = 0 /\ off \in [1 .. n + 1 -> Nat]
        /\ \A i \in 1 .. n : off[i + 1] = Len(f[i]) /\ off[i + 1] \in Nat
    <3>1. \A i \in 1 .. n : Len(f[i]) \in Nat  BY <2>3, LenProperties
    <3>2. off[1] = 0  BY <1>1
    <3>3. \A i \in 1 .. n : off[i + 1] = Len(f[i])
      <4> SUFFICES ASSUME NEW i \in 1 .. n PROVE off[i + 1] = Len(f[i])  OBVIOUS
      <4>1. i + 1 \in 1 .. n + 1 /\ i + 1 # 1 /\ (i + 1) - 1 = i  BY <1>1
      <4> QED BY <4>1
    <3>4. \A i \in 1 .. n + 1 : i = 1 \/ i - 1 \in 1 .. n  BY <1>1
    <3>5. off \in [1 .. n + 1 -> Nat]  BY <3>1, <3>4
    <3> QED BY <3>1, <3>2, <3>3, <3>5
  <2> HIDE DEF off
  <2>5. ASSUME NEW i \in 1 .. n
        PROVE  /\ i = 1 => f[i] = s[i] /\ off[i] = 0
               /\ i # 1 => i - 1 \in 1 .. n /\ f[i] = f[i - 1] \o s[i] /\ off[i] = Len(f[i - 1])
               /\ off[i] \in Nat /\ off[i + 1] = off[i] + Len(s[i])
               /\ \A k \in 1 .. Len(s[i]) : off[i] + k \in 1 .. Len(f[i]) /\ f[i][off[i] + k] = s[i][k]
    <3>1. CASE i = 1
      <4>1. f[i] = s[i] /\ off[i] = 0 /\ off[i + 1] = Len(s[i])  BY <2>2, <2>4, <3>1
      <4> QED BY <1>1, <3>1, <4>1
    <3>2. CASE i # 1
      <4>1. i - 1 \in 1 .. n /\ (i - 1) + 1 = i  BY <1>1, <3>2
      <4>2. f[i] = f[i - 1] \o s[i] /\ off[i] = Len(f[i - 1]) /\ off[i] \in Nat
        BY <2>2, <2>4, <3>2, <4>1
      <4>3. f[i - 1] \in Seq(T) /\ s[i] \in Seq(T) /\ Len(s[i]) \in Nat  BY <1>1, <2>3, <4>1
      <4>4. /\ Len(f[i]) = off[i] + Len(s[i])
            /\ \A k \in 1 .. Len(s[i]) : off[i] + k \in 1 .. Len(f[i]) /\ f[i][off[i] + k] = s[i][k]
        <5> DEFINE c == f[i - 1]
                   d == s[i]
        <5>1. c \in Seq(T) /\ d \in Seq(T) /\ f[i] = c \o d /\ off[i] = Len(c)  BY <4>2, <4>3
        <5> HIDE DEF c, d
        <5>2. /\ Len(f[i]) = off[i] + Len(d)
              /\ \A k \in 1 .. Len(d) : off[i] + k \in 1 .. Len(f[i]) /\ f[i][off[i] + k] = d[k]
          BY <5>1, JoinPlaces
        <5> QED BY <5>2 DEF d
      <4>5. off[i + 1] = off[i] + Len(s[i])  BY <2>4, <4>4
      <4> QED BY <3>2, <4>1, <4>2, <4>4, <4>5
    <3> QED BY <3>1, <3>2
  <2>6. \A m \in 1 .. n : \A i \in 1 .. m : \A k \in 1 .. Len(s[i]) :
            off[i] + k \in 1 .. Len(f[m]) /\ f[m][off[i] + k] = s[i][k]
    <3> DEFINE P(m) == \A i \in 1 .. m : \A k \in 1 .. Len(s[i]) :
                           off[i] + k \in 1 .. Len(f[m]) /\ f[m][off[i] + k] = s[i][k]
               S == {m \in Nat : m \in 1 .. n => P(m)}
    <3>1. 0 \in S  OBVIOUS
    <3>2. ASSUME NEW m \in Nat, m \in S PROVE m + 1 \in S
      <4> SUFFICES ASSUME m + 1 \in 1 .. n, NEW i \in 1 .. m + 1, NEW k \in 1 .. Len(s[i])
                   PROVE  off[i] + k \in 1 .. Len(f[m + 1]) /\ f[m + 1][off[i] + k] = s[i][k]
        OBVIOUS
      <4>1. CASE i = m + 1  BY <2>5, <4>1
      <4>2. CASE i # m + 1
        <5>1. i \in 1 .. m /\ m \in 1 .. n /\ m + 1 # 1 /\ (m + 1) - 1 = m /\ i \in 1 .. n  BY <1>1, <4>2
        <5>2. off[i] + k \in 1 .. Len(f[m]) /\ f[m][off[i] + k] = s[i][k]  BY <3>2, <5>1
        <5>3. f[m + 1] = f[m] \o s[m + 1] /\ f[m] \in Seq(T) /\ s[m + 1] \in Seq(T)
          BY <1>1, <2>3, <2>5, <5>1
        <5>4. \A j \in 1 .. Len(f[m]) : j \in 1 .. Len(f[m + 1]) /\ f[m + 1][j] = f[m][j]
          <6> DEFINE c == f[m]
                     d == s[m + 1]
          <6>1. c \in Seq(T) /\ d \in Seq(T) /\ f[m + 1] = c \o d  BY <5>3
          <6> HIDE DEF c, d
          <6>2. \A j \in 1 .. Len(c) : j \in 1 .. Len(f[m + 1]) /\ f[m + 1][j] = c[j]
            BY <6>1, JoinPlaces
          <6> QED BY <6>2 DEF c
        <5> QED BY <5>2, <5>4
      <4> QED BY <4>1, <4>2
    <3>3. \A m \in Nat : m \in S
      <4> HIDE DEF S
      <4> QED BY <3>1, <3>2, InductiveSet
    <3> QED BY <1>1, <3>3
  <2>7. n \in 1 .. n  BY <1>1, <1>3
  <2>8. Placed(s, f[n], off)
    <3>1. Len(f[n]) = off[n + 1]  BY <2>4, <2>7
    <3>2. \A i \in 1 .. n : off[i + 1] = off[i] + Len(s[i])  BY <2>5
    <3>3. \A i \in 1 .. n : \A k \in 1 .. Len(s[i]) : f[n][off[i] + k] = s[i][k]  BY <2>6, <2>7
    <3> QED BY <2>4, <3>1, <3>2, <3>3 DEF Placed, n
  <2> QED BY <2>1, <2>3, <2>7, <2>8
<1> QED BY <1>2, <1>3

(* Each list ends before the next begins. *)
LEMMA PlacesGrow ==
    ASSUME NEW s, Len(s) \in Nat, \A i \in 1 .. Len(s) : Len(s[i]) \in Nat,
           NEW out, NEW off, Placed(s, out, off)
    PROVE  \A m \in 1 .. Len(s) + 1 : \A i \in 1 .. Len(s) : i < m => off[i + 1] <= off[m]
<1> DEFINE n == Len(s)
           S == {m \in Nat : m \in 1 .. n + 1 => \A i \in 1 .. n : i < m => off[i + 1] <= off[m]}
<1>1. /\ n \in Nat /\ \A i \in 1 .. n + 1 : off[i] \in Nat
      /\ \A i \in 1 .. n : off[i + 1] = off[i] + Len(s[i]) /\ Len(s[i]) \in Nat
  BY DEF Placed
<1> HIDE DEF n
<1>2. 0 \in S  BY <1>1
<1>3. ASSUME NEW m \in Nat, m \in S PROVE m + 1 \in S
  <2> SUFFICES ASSUME m + 1 \in 1 .. n + 1, NEW i \in 1 .. n, i < m + 1 PROVE off[i + 1] <= off[m + 1]
    OBVIOUS
  <2>1. m \in 1 .. n /\ m \in 1 .. n + 1 /\ i + 1 \in 1 .. n + 1  BY <1>1
  <2>2. off[m] <= off[m + 1] /\ off[m] \in Nat /\ off[m + 1] \in Nat /\ off[i + 1] \in Nat
    <3>1. off[m] \in Nat /\ Len(s[m]) \in Nat /\ off[m + 1] = off[m] + Len(s[m])  BY <1>1, <2>1
    <3> QED BY <1>1, <2>1, <3>1
  <2>3. CASE i < m  
    <3>1. off[i + 1] <= off[m]  BY <1>3, <2>1, <2>3
    <3> QED BY <2>2, <3>1
  <2>4. CASE i = m  BY <2>2, <2>4
  <2> QED BY <2>1, <2>3, <2>4
<1>4. \A m \in Nat : m \in S
  <2> HIDE DEF S
  <2> QED BY <1>2, <1>3, InductiveSet
<1> QED BY <1>1, <1>4 DEF n

(* Every position belongs to one list, and to one element of it. *)
Partitioned(s, out, off) ==
    /\ \A i \in 1 .. Len(s) : \A k \in 1 .. Len(s[i]) : off[i] + k \in 1 .. Len(out)
    /\ \A j \in 1 .. Len(out) : \E i \in 1 .. Len(s) : \E k \in 1 .. Len(s[i]) : j = off[i] + k
    /\ \A i, i2 \in 1 .. Len(s) : \A k \in 1 .. Len(s[i]) : \A k2 \in 1 .. Len(s[i2]) :
          off[i] + k = off[i2] + k2 => i = i2

LEMMA PlacesPartition ==
    ASSUME NEW s, Len(s) \in Nat, \A i \in 1 .. Len(s) : Len(s[i]) \in Nat,
           NEW out, NEW off, Placed(s, out, off)
    PROVE  Partitioned(s, out, off)
<1> DEFINE n == Len(s)
<1>1. /\ n \in Nat /\ \A i \in 1 .. n + 1 : off[i] \in Nat
      /\ \A i \in 1 .. n : off[i] \in Nat /\ off[i + 1] \in Nat /\ off[i + 1] = off[i] + Len(s[i]) /\ Len(s[i]) \in Nat
      /\ off[1] = 0 /\ Len(out) = off[n + 1]
  <2>1. \A i \in 1 .. n : i \in 1 .. n + 1 /\ i + 1 \in 1 .. n + 1  OBVIOUS
  <2>2. /\ off[1] = 0 /\ Len(out) = off[n + 1] /\ \A i \in 1 .. n + 1 : off[i] \in Nat
        /\ \A i \in 1 .. n : off[i + 1] = off[i] + Len(s[i])
    BY DEF Placed
  <2> QED BY <2>1, <2>2
<1>2. \A m \in 1 .. n + 1 : \A i \in 1 .. n : i < m => off[i + 1] <= off[m]  BY PlacesGrow
<1> HIDE DEF n
<1>3. ASSUME NEW i \in 1 .. n, NEW k \in 1 .. Len(s[i]) PROVE off[i] + k \in 1 .. Len(out)
  <2>1. off[i + 1] <= off[n + 1]  BY <1>1, <1>2
  <2>2. /\ off[i] \in Nat /\ Len(s[i]) \in Nat /\ off[i + 1] = off[i] + Len(s[i])
        /\ Len(out) \in Nat /\ off[i + 1] <= Len(out)
    BY <1>1, <2>1
  <2> QED BY <2>2
<1>4. \A m \in 0 .. n : \A j \in 1 .. off[m + 1] : \E i \in 1 .. n : \E k \in 1 .. Len(s[i]) : j = off[i] + k
  <2> DEFINE At(j) == \E i \in 1 .. n : \E k \in 1 .. Len(s[i]) : j = off[i] + k
             S == {m \in Nat : m \in 0 .. n => \A j \in 1 .. off[m + 1] : At(j)}
  <2>1. 0 \in S
    <3>1. off[0 + 1] = 0  BY <1>1
    <3>2. \A j \in 1 .. off[0 + 1] : FALSE  BY <3>1
    <3> HIDE DEF At
    <3> QED BY <3>2
  <2>2. ASSUME NEW m \in Nat, m \in S PROVE m + 1 \in S
    <3> SUFFICES ASSUME m + 1 \in 0 .. n, NEW j \in 1 .. off[(m + 1) + 1] PROVE At(j)
      OBVIOUS
    <3>1. m \in 0 .. n /\ m + 1 \in 1 .. n  BY <1>1
    <3>2. /\ off[m + 1] \in Nat /\ Len(s[m + 1]) \in Nat
          /\ off[(m + 1) + 1] = off[m + 1] + Len(s[m + 1])
      BY <1>1, <3>1
    <3>3. CASE j <= off[m + 1]
      <4>1. j \in 1 .. off[m + 1]  BY <3>2, <3>3
      <4> QED BY <2>2, <3>1, <4>1
    <3>4. CASE ~(j <= off[m + 1])
      <4>1. j - off[m + 1] \in 1 .. Len(s[m + 1]) /\ j = off[m + 1] + (j - off[m + 1])  BY <3>2, <3>4
      <4> QED BY <3>1, <4>1
    <3> QED BY <3>3, <3>4
  <2>3. \A m \in Nat : m \in S
    <3> HIDE DEF S
    <3> QED BY <2>1, <2>2, InductiveSet
  <2> SUFFICES ASSUME NEW m \in 0 .. n, NEW j \in 1 .. off[m + 1] PROVE At(j)  OBVIOUS
  <2>4. m \in S
    <3>1. m \in Nat  BY <1>1
    <3> HIDE DEF S
    <3> QED BY <2>3, <3>1
  <2> HIDE DEF At
  <2> QED BY <2>4
<1>5. \A j \in 1 .. Len(out) : \E i \in 1 .. n : \E k \in 1 .. Len(s[i]) : j = off[i] + k
  <2>1. n \in 0 .. n /\ 1 .. Len(out) = 1 .. off[n + 1]  BY <1>1
  <2> QED BY <1>4, <2>1, Zenon
<1>6. ASSUME NEW i \in 1 .. n, NEW i2 \in 1 .. n, NEW k \in 1 .. Len(s[i]), NEW k2 \in 1 .. Len(s[i2]), i < i2
      PROVE  off[i] + k < off[i2] + k2
  <2>1. i2 \in 1 .. n + 1  BY <1>1
  <2>2. off[i + 1] <= off[i2]  BY <1>2, <1>6, <2>1
  <2>3. off[i] \in Nat /\ Len(s[i]) \in Nat /\ off[i + 1] = off[i] + Len(s[i]) /\ off[i2] \in Nat /\ Len(s[i2]) \in Nat
    BY <1>1
  <2> QED BY <2>2, <2>3
<1>7. \A i, i2 \in 1 .. n : \A k \in 1 .. Len(s[i]) : \A k2 \in 1 .. Len(s[i2]) :
         off[i] + k = off[i2] + k2 => i = i2
  <2> SUFFICES ASSUME NEW i \in 1 .. n, NEW i2 \in 1 .. n, NEW k \in 1 .. Len(s[i]), NEW k2 \in 1 .. Len(s[i2]),
                      off[i] + k = off[i2] + k2, i # i2
               PROVE  FALSE
    OBVIOUS
  <2>1. off[i] + k \in Nat /\ off[i2] + k2 \in Nat
    <3>1. off[i] \in Nat /\ off[i2] \in Nat /\ k \in Nat /\ k2 \in Nat  BY <1>1
    <3> QED BY <3>1
  <2>2. CASE i < i2  BY <1>6, <2>1, <2>2
  <2>3. CASE i2 < i
    <3>1. off[i2] + k2 < off[i] + k  BY <1>6, <2>3
    <3> QED BY <2>1, <3>1
  <2> QED BY <1>1, <2>2, <2>3
<1> QED BY <1>3, <1>5, <1>7 DEF n, Partitioned

(* Lists of the same lengths go to the same places. *)
LEMMA SamePlaces ==
    ASSUME NEW s, NEW t, Len(s) \in Nat, Len(t) = Len(s), \A i \in 1 .. Len(s) : Len(t[i]) = Len(s[i]),
           NEW out, NEW off, Placed(s, out, off), NEW out2, NEW off2, Placed(t, out2, off2)
    PROVE  Len(out2) = Len(out) /\ \A i \in 1 .. Len(s) : off2[i] = off[i]
<1> DEFINE n == Len(s)
           S == {m \in Nat : m \in 0 .. n => off2[m + 1] = off[m + 1]}
<1>1. /\ n \in Nat /\ Len(t) = n /\ off[1] = 0 /\ off2[1] = 0
      /\ \A i \in 1 .. n : off[i + 1] = off[i] + Len(s[i]) /\ off2[i + 1] = off2[i] + Len(t[i]) /\ Len(t[i]) = Len(s[i])
      /\ Len(out) = off[n + 1] /\ Len(out2) = off2[n + 1]
  BY DEF Placed
<1> HIDE DEF n
<1>2. 0 \in S  BY <1>1
<1>3. ASSUME NEW m \in Nat, m \in S PROVE m + 1 \in S
  <2> SUFFICES ASSUME m + 1 \in 0 .. n PROVE off2[(m + 1) + 1] = off[(m + 1) + 1]  OBVIOUS
  <2>1. m + 1 \in 1 .. n /\ m \in 0 .. n  BY <1>1
  <2>2. off2[m + 1] = off[m + 1]  BY <1>3, <2>1
  <2> QED BY <1>1, <2>1, <2>2
<1>4. \A m \in Nat : m \in S
  <2> HIDE DEF S
  <2> QED BY <1>2, <1>3, InductiveSet
<1>5. off2[n + 1] = off[n + 1]  BY <1>1, <1>4
<1>6. \A i \in 1 .. n : off2[i] = off[i]
  <2> SUFFICES ASSUME NEW i \in 1 .. n PROVE off2[i] = off[i]  OBVIOUS
  <2>1. i - 1 \in Nat /\ i - 1 \in 0 .. n /\ (i - 1) + 1 = i  BY <1>1
  <2> QED BY <1>4, <2>1
<1> QED BY <1>1, <1>5, <1>6 DEF n

----------------------------------------------------------------------------
(* Sums of counts *)

(* The sum AnswersAgree takes of client-counts. *)
Total(g, S) == Sets!MapThenSumSet(LAMBDA i : g[i].clientCount, S)

(* F adds up the counts of g over the subsets of S, taking out one element
   after another. *)
Adds(F, g, S) ==
    F = [s \in SUBSET S |-> IF s = {} THEN 0
                            ELSE LET x == CHOOSE x \in s : TRUE IN g[x].clientCount + F[s \ {x}]]

(* A sum of counts is the number of elements of all the sets that are counted,
   if these are disjoint, whatever order the sum takes them in. *)
LEMMA TotalCounts ==
    ASSUME NEW g, NEW S, IsFiniteSet(S), NEW B,
           \A i \in S : IsFiniteSet(B[i]) /\ Cardinality(B[i]) = g[i].clientCount,
           \A i, i2 \in S : i # i2 => B[i] \cap B[i2] = {}
    PROVE  Total(g, S) = Cardinality(UNION {B[i] : i \in S})
<1> DEFINE U(s) == UNION {B[i] : i \in s}
           C == [s \in SUBSET S |-> Cardinality(U(s))]
           F == CHOOSE f : f = [s \in SUBSET S |-> IF s = {} THEN 0
                                    ELSE LET x == CHOOSE x \in s : TRUE IN g[x].clientCount + f[s \ {x}]]
<1>1. Total(g, S) = F[S]  BY DEF Total, Sets!MapThenSumSet, Sets!MapThenFoldSet
<1>2. \A s \in SUBSET S : IsFiniteSet(s) /\ IsFiniteSet(U(s))
  <2> SUFFICES ASSUME NEW s \in SUBSET S PROVE IsFiniteSet(s) /\ IsFiniteSet(U(s))  OBVIOUS
  <2>1. IsFiniteSet(s)  BY FS_Subset
  <2> DEFINE W == {B[i] : i \in s}
  <2>2. IsFiniteSet(W)
    <3> DEFINE h == [i \in s |-> B[i]]
    <3>1. h \in Surjection(s, W)  BY DEF Surjection
    <3> HIDE DEF h, W
    <3> QED BY <2>1, <3>1, FS_Surjection
  <2>3. \A w \in W : IsFiniteSet(w)  OBVIOUS
  <2> HIDE DEF W
  <2>4. IsFiniteSet(UNION W)  BY <2>2, <2>3, FS_UNION
  <2> QED BY <2>1, <2>4 DEF W
<1>3. ASSUME NEW s \in SUBSET S, NEW x \in s
      PROVE  C[s] = g[x].clientCount + C[s \ {x}] /\ C[s] \in Nat /\ C[s \ {x}] \in Nat
  <2>1. U(s) = B[x] \cup U(s \ {x})  OBVIOUS
  <2>2. B[x] \cap U(s \ {x}) = {}  OBVIOUS
  <2>3. IsFiniteSet(B[x]) /\ IsFiniteSet(U(s \ {x})) /\ s \ {x} \in SUBSET S  BY <1>2
  <2>4. Cardinality(B[x]) = g[x].clientCount  OBVIOUS
  <2> DEFINE V == U(s \ {x})
             Y == B[x]
  <2>5. C[s] = Cardinality(Y \cup V) /\ C[s \ {x}] = Cardinality(V)  BY <2>1, <2>3, Zenon
  <2>6. IsFiniteSet(Y) /\ IsFiniteSet(V) /\ Y \cap V = {} /\ Cardinality(Y) = g[x].clientCount
    BY <2>2, <2>3, <2>4
  <2> HIDE DEF V, Y, C, U
  <2>7. Cardinality(Y \cup V) = Cardinality(Y) + Cardinality(V) - Cardinality(Y \cap V)
    BY <2>6, FS_Union
  <2>8. Cardinality(Y \cap V) = 0 /\ Cardinality(Y) \in Nat /\ Cardinality(V) \in Nat
    BY <2>6, FS_EmptySet, FS_CardinalityType
  <2> QED BY <2>5, <2>6, <2>7, <2>8
<1>4. C[{}] = 0
  <2>1. {} \in SUBSET S /\ U({}) = {}  OBVIOUS
  <2> QED BY <2>1, FS_EmptySet
<1> HIDE DEF U
<1>5. C = [s \in SUBSET S |-> IF s = {} THEN 0
                              ELSE LET x == CHOOSE x \in s : TRUE IN g[x].clientCount + C[s \ {x}]]
  <2>1. ASSUME NEW s \in SUBSET S
        PROVE  C[s] = IF s = {} THEN 0
                      ELSE LET x == CHOOSE x \in s : TRUE IN g[x].clientCount + C[s \ {x}]
    <3>1. CASE s = {}  BY <1>4, <3>1
    <3>2. CASE s # {}
      <4> DEFINE x == CHOOSE x \in s : TRUE
      <4>1. x \in s  BY <3>2
      <4> HIDE DEF x
      <4>2. C[s] = g[x].clientCount + C[s \ {x}]  BY <1>3, <4>1
      <4> HIDE DEF C
      <4> QED BY <3>2, <4>2 DEF x
    <3> QED BY <3>1, <3>2
  <2>2. C = [s \in SUBSET S |-> C[s]]  OBVIOUS
  <2> HIDE DEF C
  <2> QED BY <2>1, <2>2
<1> HIDE DEF C
<1>6. F = [s \in SUBSET S |-> IF s = {} THEN 0
                              ELSE LET x == CHOOSE x \in s : TRUE IN g[x].clientCount + F[s \ {x}]]
  <2>1. \E f : Adds(f, g, S)  BY <1>5, Zenon DEF Adds
  <2>2. Adds(CHOOSE f : Adds(f, g, S), g, S)  BY <2>1, Zenon
  <2> QED BY <2>2, Zenon DEF Adds
<1> HIDE DEF F
<1>7. \A s \in SUBSET S : F[s] = IF s = {} THEN 0
                                 ELSE LET x == CHOOSE x \in s : TRUE IN g[x].clientCount + F[s \ {x}]
  <2> DEFINE H == [s \in SUBSET S |-> IF s = {} THEN 0
                              ELSE LET x == CHOOSE x \in s : TRUE IN g[x].clientCount + F[s \ {x}]]
  <2>1. \A s \in SUBSET S : H[s] = IF s = {} THEN 0
                                 ELSE LET x == CHOOSE x \in s : TRUE IN g[x].clientCount + F[s \ {x}]
    OBVIOUS
  <2>2. F = H  BY <1>6
  <2> HIDE DEF H
  <2> QED BY <2>1, <2>2
<1>8. \A m \in Nat : \A s \in SUBSET S : Cardinality(s) = m => F[s] = C[s]
  <2> DEFINE Q(m) == \A s \in SUBSET S : Cardinality(s) = m => F[s] = C[s]
             Z == {m \in Nat : Q(m)}
  <2>1. 0 \in Z
    <3> SUFFICES ASSUME NEW s \in SUBSET S, Cardinality(s) = 0 PROVE F[s] = C[s]  OBVIOUS
    <3>1. s = {}  BY <1>2, FS_EmptySet
    <3> QED BY <1>4, <1>7, <3>1
  <2>2. ASSUME NEW m \in Nat, m \in Z PROVE m + 1 \in Z
    <3> SUFFICES ASSUME NEW s \in SUBSET S, Cardinality(s) = m + 1 PROVE F[s] = C[s]  OBVIOUS
    <3>1. s # {}  BY FS_EmptySet
    <3> DEFINE x == CHOOSE x \in s : TRUE
    <3>2. x \in s /\ F[s] = g[x].clientCount + F[s \ {x}]
      <4>1. x \in s  BY <3>1
      <4> QED BY <1>7, <3>1, <4>1
    <3> HIDE DEF x
    <3>3. Cardinality(s \ {x}) = m /\ s \ {x} \in SUBSET S
      <4>1. Cardinality(s \ {x}) = Cardinality(s) - 1  BY <1>2, <3>2, FS_RemoveElement
      <4> QED BY <4>1
    <3>4. F[s \ {x}] = C[s \ {x}]  BY <2>2, <3>3
    <3>5. C[s] = g[x].clientCount + C[s \ {x}]  BY <1>3, <3>2
    <3> QED BY <3>2, <3>4, <3>5
  <2> HIDE DEF Q
  <2>3. \A m \in Nat : m \in Z
    <3> HIDE DEF Z
    <3> QED BY <2>1, <2>2, InductiveSet
  <2> QED BY <2>3 DEF Q
<1>9. S \in SUBSET S /\ Cardinality(S) \in Nat  BY FS_CardinalityType
<1>10. F[S] = C[S]  BY <1>8, <1>9
<1> QED BY <1>1, <1>9, <1>10 DEF C, U

----------------------------------------------------------------------------
(* The tables of RESTCONF *)

(* The clients of a, AP by AP, each with its AP. *)
ClientRow(ap) == [k \in 1 .. Len(ap.clients) |-> [client |-> ap.clients[k], ap |-> ap]]
Rows(a) == [i \in 1 .. Len(a) |-> ClientRow(a[i])]

(* Their lengths and elements. *)
LEMMA RowsProperties ==
    ASSUME NEW a \in Seq(AP)
    PROVE  /\ Rows(a) \in Seq(Seq([client : Client, ap : AP])) /\ Len(a) \in Nat /\ Len(Rows(a)) = Len(a)
           /\ \A i \in 1 .. Len(a) :
                 /\ a[i] \in AP /\ Len(a[i].clients) \in Nat /\ Len(Rows(a)[i]) = Len(a[i].clients)
                 /\ \A k \in 1 .. Len(a[i].clients) :
                       /\ a[i].clients[k] \in Client
                       /\ Rows(a)[i][k] = [client |-> a[i].clients[k], ap |-> a[i]]
<1> DEFINE T == [client : Client, ap : AP]
<1>1. Len(a) \in Nat /\ \A i \in 1 .. Len(a) : a[i] \in AP  BY LenProperties, ElementOfSeq
<1>2. ASSUME NEW ap \in AP
      PROVE  /\ Len(ap.clients) \in Nat /\ ClientRow(ap) \in Seq(T) /\ Len(ClientRow(ap)) = Len(ap.clients)
             /\ \A k \in 1 .. Len(ap.clients) :
                   ap.clients[k] \in Client /\ ClientRow(ap)[k] = [client |-> ap.clients[k], ap |-> ap]
  <2>1. ap.clients \in Seq(Client)  BY DEF AP
  <2>2. Len(ap.clients) \in Nat /\ \A k \in 1 .. Len(ap.clients) : ap.clients[k] \in Client
    BY <2>1, LenProperties, ElementOfSeq
  <2>3. ClientRow(ap) \in [1 .. Len(ap.clients) -> T]  BY <2>2 DEF ClientRow
  <2>4. \A k \in 1 .. Len(ap.clients) : ClientRow(ap)[k] = [client |-> ap.clients[k], ap |-> ap]  BY DEF ClientRow
  <2> HIDE DEF T
  <2>5. ClientRow(ap) \in Seq(T) /\ Len(ClientRow(ap)) = Len(ap.clients)  BY <2>2, <2>3, FunctionIsSeq
  <2> QED BY <2>2, <2>4, <2>5
<1> HIDE DEF T
<1>3. Rows(a) \in [1 .. Len(a) -> Seq(T)] /\ \A i \in 1 .. Len(a) : Rows(a)[i] = ClientRow(a[i])
  BY <1>1, <1>2 DEF Rows
<1>4. Rows(a) \in Seq(Seq(T)) /\ Len(Rows(a)) = Len(a)  BY <1>1, <1>3, FunctionIsSeq
<1> QED BY <1>1, <1>2, <1>3, <1>4 DEF T

(* AllClients lists them one AP behind the other. *)
LEMMA ClientsPlaced ==
    ASSUME NEW a \in Seq(AP)
    PROVE  /\ AllClients(a) \in Seq([client : Client, ap : AP])
           /\ \E off : Placed(Rows(a), AllClients(a), off)
<1>1. AllClients(a) = Seqs!FlattenSeq(Rows(a))  BY DEF AllClients, Rows, ClientRow
<1>2. Rows(a) \in Seq(Seq([client : Client, ap : AP]))  BY RowsProperties
<1> QED BY <1>1, <1>2, FlattenPlaces

(* A stretch of positions. *)
LEMMA Stretch ==
    ASSUME NEW o \in Nat, NEW l \in Nat
    PROVE  IsFiniteSet({o + k : k \in 1 .. l}) /\ Cardinality({o + k : k \in 1 .. l}) = l
<1> DEFINE S == {o + k : k \in 1 .. l}
<1>1. S = o + 1 .. o + l
  <2>1. \A j \in S : j \in o + 1 .. o + l  OBVIOUS
  <2>2. \A j \in o + 1 .. o + l : j - o \in 1 .. l /\ j = o + (j - o)  OBVIOUS
  <2>3. \A j \in o + 1 .. o + l : j \in S  BY <2>2
  <2> QED BY <2>1, <2>3
<1> HIDE DEF S
<1>2. o + 1 \in Int /\ o + l \in Int  OBVIOUS
<1>3. IsFiniteSet(o + 1 .. o + l)
      /\ Cardinality(o + 1 .. o + l) = IF o + 1 > o + l THEN 0 ELSE (o + l) - (o + 1) + 1
  BY <1>2, FS_Interval
<1>4. (IF o + 1 > o + l THEN 0 ELSE (o + l) - (o + 1) + 1) = l  OBVIOUS
<1> QED BY <1>1, <1>3, <1>4 DEF S

(* The client-counts of the APs of one name add up to the clients listed with
   that name. *)
LEMMA CountsAddUp ==
    ASSUME NEW a \in Seq(AP), NEW n
    PROVE  Total(buildCapwapData(a), Named(a, n))
             = Cardinality({j \in 1 .. Len(AllClients(a)) : AllClients(a)[j].ap.name = n})
<1> DEFINE cs == AllClients(a)
           s == Rows(a)
           g == buildCapwapData(a)
           S == Named(a, n)
           L(i) == Len(a[i].clients)
<1>1. /\ Len(a) \in Nat /\ Len(s) = Len(a)
      /\ \A i \in 1 .. Len(a) : /\ L(i) \in Nat /\ Len(s[i]) = L(i)
                                /\ \A k \in 1 .. L(i) : s[i][k] = [client |-> a[i].clients[k], ap |-> a[i]]
  BY RowsProperties
<1>2. PICK off : Placed(s, cs, off)  BY ClientsPlaced
<1>3. \A i \in 1 .. Len(a) : g[i].clientCount = L(i)  BY DEF buildCapwapData
<1>4. \A i : i \in S <=> i \in 1 .. Len(a) /\ a[i].name = n  BY DEF Named
<1> HIDE DEF cs, s, g, S, L
<1>5. /\ \A i \in 1 .. Len(a) : \A k \in 1 .. L(i) : off[i] + k \in 1 .. Len(cs)
      /\ \A j \in 1 .. Len(cs) : \E i \in 1 .. Len(a) : \E k \in 1 .. L(i) : j = off[i] + k
      /\ \A i, i2 \in 1 .. Len(a) : \A k \in 1 .. L(i) : \A k2 \in 1 .. L(i2) :
            off[i] + k = off[i2] + k2 => i = i2
  <2>1. Len(s) \in Nat /\ \A i \in 1 .. Len(s) : Len(s[i]) \in Nat  BY <1>1
  <2>2. /\ \A i \in 1 .. Len(s) : \A k \in 1 .. Len(s[i]) : off[i] + k \in 1 .. Len(cs)
        /\ \A j \in 1 .. Len(cs) : \E i \in 1 .. Len(s) : \E k \in 1 .. Len(s[i]) : j = off[i] + k
        /\ \A i, i2 \in 1 .. Len(s) : \A k \in 1 .. Len(s[i]) : \A k2 \in 1 .. Len(s[i2]) :
              off[i] + k = off[i2] + k2 => i = i2
    <3>1. Partitioned(s, cs, off)  BY <1>2, <2>1, PlacesPartition
    <3> QED BY <3>1, Zenon DEF Partitioned
  <2>3. \A i \in 1 .. Len(a) : i \in 1 .. Len(s) /\ 1 .. Len(s[i]) = 1 .. L(i)  BY <1>1
  <2>4. ASSUME NEW i \in 1 .. Len(a), NEW k \in 1 .. L(i) PROVE off[i] + k \in 1 .. Len(cs)
    BY <2>2, <2>3, Zenon
  <2>5. ASSUME NEW j \in 1 .. Len(cs) PROVE \E i \in 1 .. Len(a) : \E k \in 1 .. L(i) : j = off[i] + k
    <3>1. PICK i \in 1 .. Len(s) : \E k \in 1 .. Len(s[i]) : j = off[i] + k  BY <2>2
    <3>2. i \in 1 .. Len(a) /\ 1 .. Len(s[i]) = 1 .. L(i)  BY <1>1, <2>3
    <3> QED BY <3>1, <3>2, Zenon
  <2>6. ASSUME NEW i \in 1 .. Len(a), NEW i2 \in 1 .. Len(a), NEW k \in 1 .. L(i), NEW k2 \in 1 .. L(i2),
               off[i] + k = off[i2] + k2
        PROVE  i = i2
    BY <2>2, <2>3, <2>6, Zenon
  <2> QED BY <2>4, <2>5, <2>6, Zenon
<1>6. \A i \in 1 .. Len(a) : off[i] \in Nat /\ \A k \in 1 .. L(i) : cs[off[i] + k].ap = a[i]
  <2>1. off \in [1 .. Len(a) + 1 -> Nat] /\ \A i \in 1 .. Len(s) : \A k \in 1 .. Len(s[i]) : cs[off[i] + k] = s[i][k]
    BY <1>1, <1>2, Zenon DEF Placed
  <2>2. \A i \in 1 .. Len(a) : i \in 1 .. Len(a) + 1  BY <1>1
  <2>3. ASSUME NEW i \in 1 .. Len(a), NEW k \in 1 .. L(i) PROVE cs[off[i] + k].ap = a[i]
    <3>1. i \in 1 .. Len(s) /\ 1 .. Len(s[i]) = 1 .. L(i)  BY <1>1
    <3>2. cs[off[i] + k] = s[i][k]  BY <2>1, <3>1, Zenon
    <3>3. s[i][k] = [client |-> a[i].clients[k], ap |-> a[i]]  BY <1>1
    <3> QED BY <3>2, <3>3
  <2>4. \A i \in 1 .. Len(a) : off[i] \in Nat  BY <2>1, <2>2
  <2> QED BY <2>3, <2>4
<1> DEFINE B == [i \in S |-> {off[i] + k : k \in 1 .. L(i)}]
<1>7. \A i \in S : IsFiniteSet(B[i]) /\ Cardinality(B[i]) = g[i].clientCount
  BY <1>1, <1>3, <1>4, <1>6, Stretch
<1>8. \A i, i2 \in S : i # i2 => B[i] \cap B[i2] = {}
  <2> SUFFICES ASSUME NEW i \in S, NEW i2 \in S, i # i2, NEW j \in B[i], j \in B[i2] PROVE FALSE
    OBVIOUS
  <2>1. \E k \in 1 .. L(i) : j = off[i] + k  OBVIOUS
  <2>2. \E k2 \in 1 .. L(i2) : j = off[i2] + k2  OBVIOUS
  <2> HIDE DEF B
  <2> QED BY <1>4, <1>5, <2>1, <2>2
<1>9. IsFiniteSet(S)
  <2>1. IsFiniteSet(1 .. Len(a))  BY <1>1, FS_Interval
  <2> QED BY <1>4, <2>1, FS_Subset
<1>10. Total(g, S) = Cardinality(UNION {B[i] : i \in S})
  <2> HIDE DEF B
  <2> QED BY <1>7, <1>8, <1>9, TotalCounts
<1>11. UNION {B[i] : i \in S} = {j \in 1 .. Len(cs) : cs[j].ap.name = n}
  <2>1. ASSUME NEW i \in S, NEW j \in B[i] PROVE j \in 1 .. Len(cs) /\ cs[j].ap.name = n
    <3>1. PICK k \in 1 .. L(i) : j = off[i] + k  OBVIOUS
    <3> HIDE DEF B
    <3>2. i \in 1 .. Len(a) /\ a[i].name = n  BY <1>4
    <3> QED BY <1>5, <1>6, <3>1, <3>2
  <2>2. ASSUME NEW j \in 1 .. Len(cs), cs[j].ap.name = n PROVE \E i \in S : j \in B[i]
    <3>1. PICK i \in 1 .. Len(a) : \E k \in 1 .. L(i) : j = off[i] + k  BY <1>5
    <3>2. PICK k \in 1 .. L(i) : j = off[i] + k  BY <3>1
    <3>3. i \in S  BY <1>4, <1>6, <2>2, <3>2
    <3> QED BY <3>2, <3>3
  <2> HIDE DEF B
  <2> QED BY <2>1, <2>2
<1> QED BY <1>10, <1>11 DEF cs, g, S

(* The two radios of an access point. *)
RadioRow(ap) ==
    <<[slot |-> 0, stations |-> 0, channel |-> 6],
      [slot |-> 1, stations |-> Cardinality(OnSlot1(ap)),
       channel |-> IF OnSlot1(ap) = {} THEN 36 ELSE ap.clients[Sets!Max(OnSlot1(ap))].channel]>>
RadioRows(a) == [i \in 1 .. Len(a) |-> RadioRow(a[i])]

(* They are entries 2 * i - 1 and 2 * i of the table. *)
LEMMA RadiosAt ==
    ASSUME NEW a \in Seq(AP), NEW i \in 1 .. Len(a)
    PROVE  /\ buildRadioOperData(a)[2 * i - 1].stations = 0
           /\ buildRadioOperData(a)[2 * i].stations = Cardinality(OnSlot1(a[i]))
<1> DEFINE s == RadioRows(a)
           out == buildRadioOperData(a)
           T == UNION {{RadioRow(a[j])[1], RadioRow(a[j])[2]} : j \in 1 .. Len(a)}
           n == Len(a)
<1>1. n \in Nat /\ \A j \in 1 .. n : a[j] \in AP  BY LenProperties, ElementOfSeq
<1>2. out = Seqs!FlattenSeq(s)  BY DEF buildRadioOperData, RadioRows, RadioRow
<1>3. \A ap : Len(RadioRow(ap)) = 2 /\ RadioRow(ap) \in Seq({RadioRow(ap)[1], RadioRow(ap)[2]})
  <2> SUFFICES ASSUME NEW ap
               PROVE  Len(RadioRow(ap)) = 2 /\ RadioRow(ap) \in Seq({RadioRow(ap)[1], RadioRow(ap)[2]})
    OBVIOUS
  <2> DEFINE p == [slot |-> 0, stations |-> 0, channel |-> 6]
             q == [slot |-> 1, stations |-> Cardinality(OnSlot1(ap)),
                   channel |-> IF OnSlot1(ap) = {} THEN 36 ELSE ap.clients[Sets!Max(OnSlot1(ap))].channel]
  <2>1. RadioRow(ap) = <<p, q>>  BY DEF RadioRow
  <2> HIDE DEF p, q
  <2> QED BY <2>1
<1>4. \A j \in 1 .. n : s[j] = RadioRow(a[j])  BY DEF RadioRows
<1>5. \A j \in 1 .. n : RadioRow(a[j]) \in Seq(T)
  <2> SUFFICES ASSUME NEW j \in 1 .. n PROVE RadioRow(a[j]) \in Seq(T)  OBVIOUS
  <2> DEFINE r == RadioRow(a[j])
  <2>1. {r[1], r[2]} \subseteq T  OBVIOUS
  <2>2. r \in Seq({r[1], r[2]})  BY <1>3
  <2> HIDE DEF r, T
  <2>3. r \in Seq(T)  BY <2>1, <2>2, SeqMonotonic
  <2> QED BY <2>3 DEF r
<1> HIDE DEF T
<1>6. s \in Seq(Seq(T)) /\ Len(s) = n
  <2>1. s \in [1 .. n -> Seq(T)]  BY <1>5 DEF RadioRows
  <2> HIDE DEF s, n
  <2> QED BY <1>1, <2>1, FunctionIsSeq
<1> HIDE DEF s, out, n
<1>7. PICK off : Placed(s, out, off)  BY <1>2, <1>6, FlattenPlaces
<1>8. off[1] = 0 /\ \A j \in 1 .. n : off[j + 1] = off[j] + 2
  <2>1. off[1] = 0 /\ \A j \in 1 .. n : off[j + 1] = off[j] + Len(s[j])  BY <1>6, <1>7 DEF Placed
  <2> QED BY <1>3, <1>4, <2>1
<1>9. \A m \in Nat : m \in 0 .. n => off[m + 1] = 2 * m
  <2> DEFINE S == {m \in Nat : m \in 0 .. n => off[m + 1] = 2 * m}
  <2>1. 0 \in S  BY <1>8
  <2>2. ASSUME NEW m \in Nat, m \in S PROVE m + 1 \in S
    <3> SUFFICES ASSUME m + 1 \in 0 .. n PROVE off[(m + 1) + 1] = 2 * (m + 1)  OBVIOUS
    <3>1. m + 1 \in 1 .. n /\ m \in 0 .. n  BY <1>1
    <3>2. off[m + 1] = 2 * m  BY <2>2, <3>1
    <3> QED BY <1>8, <3>1, <3>2
  <2>3. \A m \in Nat : m \in S
    <3> HIDE DEF S
    <3> QED BY <2>1, <2>2, InductiveSet
  <2> QED BY <2>3
<1>10. i \in 1 .. n  BY DEF n
<1>11. off[i] = 2 * (i - 1)
  <2>1. i - 1 \in Nat /\ i - 1 \in 0 .. n /\ (i - 1) + 1 = i  BY <1>1, <1>10
  <2> QED BY <1>9, <2>1
<1>12. s[i] = RadioRow(a[i]) /\ Len(s[i]) = 2  BY <1>3, <1>4, <1>10
<1>13. \A k \in 1 .. 2 : out[off[i] + k] = RadioRow(a[i])[k]  BY <1>6, <1>7, <1>10, <1>12 DEF Placed
<1>14. off[i] + 1 = 2 * i - 1 /\ off[i] + 2 = 2 * i  BY <1>10, <1>11
<1>15. out[2 * i - 1] = RadioRow(a[i])[1] /\ out[2 * i] = RadioRow(a[i])[2]
  <2>1. 1 \in 1 .. 2 /\ 2 \in 1 .. 2  OBVIOUS
  <2>2. out[off[i] + 1] = RadioRow(a[i])[1] /\ out[off[i] + 2] = RadioRow(a[i])[2]  BY <1>13, <2>1
  <2> QED BY <1>14, <2>2
<1>16. RadioRow(a[i])[1].stations = 0 /\ RadioRow(a[i])[2].stations = Cardinality(OnSlot1(a[i]))
  BY DEF RadioRow
<1> QED BY <1>15, <1>16 DEF out

(* A client is on the second radio or its channel is below 36. *)
LEMMA RadiosSplit ==
    ASSUME NEW ap \in AP
    PROVE  /\ Cardinality(OnSlot1(ap)) \in Nat /\ Cardinality(Below36(ap)) \in Nat
           /\ Len(ap.clients) = Cardinality(OnSlot1(ap)) + Cardinality(Below36(ap))
<1> DEFINE L == Len(ap.clients)
           S == OnSlot1(ap)
           B == Below36(ap)
<1>1. L \in Nat /\ \A k \in 1 .. L : ap.clients[k] \in Client
  <2>1. ap.clients \in Seq(Client)  BY DEF AP
  <2> QED BY <2>1, LenProperties, ElementOfSeq
<1>2. \A k \in 1 .. L : ap.clients[k].channel \in Int  BY <1>1 DEF Client, DefaultChannel
<1>3. S \cup B = 1 .. L /\ S \cap B = {}
  <2>1. \A k \in 1 .. L : ap.clients[k].channel < DefaultChannel <=> ~(ap.clients[k].channel >= DefaultChannel)
    BY <1>2 DEF DefaultChannel
  <2> QED BY <2>1 DEF OnSlot1, Below36
<1>4. IsFiniteSet(1 .. L) /\ Cardinality(1 .. L) = L  BY <1>1, FS_Interval
<1>5. IsFiniteSet(S) /\ IsFiniteSet(B)
  <2>1. S \in SUBSET (1 .. L) /\ B \in SUBSET (1 .. L)  BY DEF OnSlot1, Below36
  <2> HIDE DEF S, B, L
  <2> QED BY <1>4, <2>1, FS_Subset
<1> HIDE DEF S, B, L
<1>6. Cardinality(S \cup B) = Cardinality(S) + Cardinality(B) - Cardinality(S \cap B)  BY <1>5, FS_Union
<1>7. Cardinality(S \cap B) = 0 /\ Cardinality(S) \in Nat /\ Cardinality(B) \in Nat
  BY <1>3, <1>5, FS_EmptySet, FS_CardinalityType
<1>8. L = Cardinality(S) + Cardinality(B)
  <2>1. Cardinality(S \cup B) = L  BY <1>3, <1>4, Zenon
  <2> QED BY <1>6, <1>7, <2>1
<1> QED BY <1>7, <1>8 DEF S, B, L

(* The tables agree for every content of a site. *)
LEMMA TablesAgree == aps \in Seq(AP) => AnswersAgree
<1> SUFFICES ASSUME aps \in Seq(AP) PROVE AnswersAgree  OBVIOUS
<1> DEFINE cs == AllClients(aps)
<1>1. cs \in Seq([client : Client, ap : AP]) /\ Len(cs) \in Nat  BY ClientsPlaced, LenProperties
<1>2. /\ Len(buildCommonOperData(cs)) = Len(cs)
      /\ \A j \in 1 .. Len(cs) : buildCommonOperData(cs)[j] = [mac |-> cs[j].client.mac, apName |-> cs[j].ap.name]
  <2> HIDE DEF cs
  <2> QED BY <1>1 DEF buildCommonOperData
<1>3. ASSUME NEW n \in Names
      PROVE  Sets!MapThenSumSet(LAMBDA i : accessPointOperData(aps).capwap[i].clientCount,
                                {i \in 1 .. Len(aps) : accessPointOperData(aps).nameMap[i] = n})
               = Cardinality({j \in 1 .. Len(clientOperData(aps).common) : clientOperData(aps).common[j].apName = n})
  <2>1. Sets!MapThenSumSet(LAMBDA i : accessPointOperData(aps).capwap[i].clientCount, Named(aps, n))
          = Total(accessPointOperData(aps).capwap, Named(aps, n))
    BY DEF Total
  <2>2. accessPointOperData(aps).capwap = buildCapwapData(aps)  BY DEF accessPointOperData
  <2>3. {i \in 1 .. Len(aps) : accessPointOperData(aps).nameMap[i] = n} = Named(aps, n)
    BY DEF accessPointOperData, buildAPNameMacMap, Named
  <2>4. {j \in 1 .. Len(clientOperData(aps).common) : clientOperData(aps).common[j].apName = n}
          = {j \in 1 .. Len(cs) : cs[j].ap.name = n}
    <3> DEFINE cm == clientOperData(aps).common
    <3>1. cm = buildCommonOperData(cs)  BY DEF clientOperData
    <3> HIDE DEF cs, cm
    <3>2. Len(cm) = Len(cs) /\ \A j \in 1 .. Len(cs) : cm[j].apName = cs[j].ap.name
      <4>1. Len(cm) = Len(cs) /\ \A j \in 1 .. Len(cs) : cm[j] = [mac |-> cs[j].client.mac, apName |-> cs[j].ap.name]
        BY <1>2, <3>1, Zenon
      <4>2. ASSUME NEW j \in 1 .. Len(cs) PROVE cm[j].apName = cs[j].ap.name
        <5>1. cm[j] = [mac |-> cs[j].client.mac, apName |-> cs[j].ap.name]  BY <4>1, Zenon
        <5> QED BY <5>1
      <4> QED BY <4>1, <4>2, Zenon
    <3>3. {j \in 1 .. Len(cm) : cm[j].apName = n} = {j \in 1 .. Len(cs) : cs[j].ap.name = n}  BY <3>2
    <3> QED BY <3>3 DEF cm
  <2>5. Total(buildCapwapData(aps), Named(aps, n)) = Cardinality({j \in 1 .. Len(cs) : cs[j].ap.name = n})
    BY CountsAddUp
  <2> HIDE DEF cs
  <2>6. Sets!MapThenSumSet(LAMBDA i : accessPointOperData(aps).capwap[i].clientCount,
                           {i \in 1 .. Len(aps) : accessPointOperData(aps).nameMap[i] = n})
          = Sets!MapThenSumSet(LAMBDA i : accessPointOperData(aps).capwap[i].clientCount, Named(aps, n))
    BY <2>3, Zenon
  <2> QED BY <2>1, <2>2, <2>4, <2>5, <2>6, Zenon
<1>4. ASSUME NEW i \in 1 .. Len(aps)
      PROVE  accessPointOperData(aps).capwap[i].clientCount
               = accessPointOperData(aps).radios[2 * i - 1].stations
                 + accessPointOperData(aps).radios[2 * i].stations + Cardinality(Below36(aps[i]))
  <2>1. accessPointOperData(aps).capwap[i].clientCount = Len(aps[i].clients)
    BY DEF accessPointOperData, buildCapwapData
  <2>2. accessPointOperData(aps).radios = buildRadioOperData(aps)  BY DEF accessPointOperData
  <2>3. /\ buildRadioOperData(aps)[2 * i - 1].stations = 0
        /\ buildRadioOperData(aps)[2 * i].stations = Cardinality(OnSlot1(aps[i]))
    BY RadiosAt
  <2>4. aps[i] \in AP  BY ElementOfSeq
  <2>5. /\ Cardinality(OnSlot1(aps[i])) \in Nat /\ Cardinality(Below36(aps[i])) \in Nat
        /\ Len(aps[i].clients) = Cardinality(OnSlot1(aps[i])) + Cardinality(Below36(aps[i]))
    BY <2>4, RadiosSplit
  <2> QED BY <2>1, <2>2, <2>3, <2>5
<1>5. ASSUME NEW j \in 1 .. Len(clientOperData(aps).common)
      PROVE  /\ clientOperData(aps).common[j].mac = clientOperData(aps).dot11[j].mac
             /\ clientOperData(aps).dot11[j].mac = clientOperData(aps).policy[j].mac
  <2>1. /\ clientOperData(aps).common = buildCommonOperData(cs)
        /\ clientOperData(aps).dot11 = buildDot11OperData(cs)
        /\ clientOperData(aps).policy = buildPolicyData(cs)
    BY DEF clientOperData
  <2> HIDE DEF cs
  <2>2. j \in 1 .. Len(cs)  BY <1>2, <2>1
  <2>3. /\ buildCommonOperData(cs)[j].mac = cs[j].client.mac
        /\ buildDot11OperData(cs)[j].mac = cs[j].client.mac
        /\ buildPolicyData(cs)[j].mac = cs[j].client.mac
    BY <2>2 DEF buildCommonOperData, buildDot11OperData, buildPolicyData
  <2> QED BY <2>1, <2>3, Zenon
<1> QED BY <1>3, <1>4, <1>5, Zenon DEF AnswersAgree

(* A poller can join the tables of a site, whatever was edited, imported or
   reloaded before, also when names of APs and addresses of clients repeat: the
   client-counts of the APs of a name add up to the entries that name them, an
   AP's client-count and its radios agree, and the tables of clients are in one
   order.  (handlers.go builds each table with a loop of its own.) *)
THEOREM AnswersAlwaysAgree == Spec => []AnswersAgree
<1>1. Inv => AnswersAgree  BY TablesAgree DEF Inv, TypeOK
<1> QED BY InitInv, StepInv, <1>1, PTL DEF Spec

----------------------------------------------------------------------------
(* Restarts *)

(* b has the access points of a with the same clients, whose channels may have
   been filled in since. *)
Filled(a, b) ==
    /\ Len(b) = Len(a)
    /\ \A i \in 1 .. Len(a) :
          /\ b[i].name = a[i].name /\ Len(b[i].clients) = Len(a[i].clients)
          /\ \A k \in 1 .. Len(a[i].clients) : b[i].clients[k].mac = a[i].clients[k].mac
          /\ OnSlot1(a[i]) \subseteq OnSlot1(b[i])

(* What a poller sees of b is what it saw of a, and no radio lost a station. *)
SameAnswers(a, b) ==
    /\ buildCapwapData(b) = buildCapwapData(a)
    /\ clientOperData(b).common = clientOperData(a).common
    /\ \A i \in 1 .. 2 * Len(a) : buildRadioOperData(b)[i].stations >= buildRadioOperData(a)[i].stations

(* Then a poller sees the same of who is where, and no fewer stations. *)
LEMMA FilledAnswers ==
    ASSUME NEW a \in Seq(AP), NEW b \in Seq(AP), Filled(a, b)
    PROVE  SameAnswers(a, b)
<1> DEFINE n == Len(a)
<1>1. /\ n \in Nat /\ Len(b) = n /\ \A i \in 1 .. n : a[i] \in AP /\ b[i] \in AP
  BY LenProperties, ElementOfSeq DEF Filled
<1>2. buildCapwapData(b) = buildCapwapData(a)  BY DEF Filled, buildCapwapData
<1>3. clientOperData(b).common = clientOperData(a).common
  <2> DEFINE x == AllClients(a)
             y == AllClients(b)
             s == Rows(a)
             t == Rows(b)
  <2>1. /\ Len(s) = n /\ Len(t) = n
        /\ \A i \in 1 .. n :
              /\ Len(s[i]) = Len(a[i].clients) /\ Len(t[i]) = Len(s[i]) /\ Len(s[i]) \in Nat
              /\ \A k \in 1 .. Len(s[i]) : /\ s[i][k] = [client |-> a[i].clients[k], ap |-> a[i]]
                                           /\ t[i][k] = [client |-> b[i].clients[k], ap |-> b[i]]
    <3>1. /\ Len(s) = n /\ \A i \in 1 .. n :
              /\ Len(s[i]) = Len(a[i].clients) /\ Len(s[i]) \in Nat
              /\ \A k \in 1 .. Len(a[i].clients) : s[i][k] = [client |-> a[i].clients[k], ap |-> a[i]]
      BY RowsProperties
    <3>2. /\ Len(t) = Len(b) /\ \A i \in 1 .. Len(b) :
              /\ Len(t[i]) = Len(b[i].clients)
              /\ \A k \in 1 .. Len(b[i].clients) : t[i][k] = [client |-> b[i].clients[k], ap |-> b[i]]
      BY RowsProperties
    <3> HIDE DEF s, t, n
    <3>3. \A i \in 1 .. n : Len(b[i].clients) = Len(a[i].clients)  BY DEF Filled, n
    <3>4. ASSUME NEW i \in 1 .. n
          PROVE  /\ Len(s[i]) = Len(a[i].clients) /\ Len(t[i]) = Len(s[i]) /\ Len(s[i]) \in Nat
                 /\ \A k \in 1 .. Len(s[i]) : /\ s[i][k] = [client |-> a[i].clients[k], ap |-> a[i]]
                                              /\ t[i][k] = [client |-> b[i].clients[k], ap |-> b[i]]
      <4>1. i \in 1 .. Len(b)  BY <1>1
      <4>2. Len(b[i].clients) = Len(a[i].clients) /\ Len(s[i]) = Len(a[i].clients) /\ Len(t[i]) = Len(b[i].clients)
        BY <3>1, <3>2, <3>3, <4>1
      <4>3. \A k \in 1 .. Len(s[i]) : s[i][k] = [client |-> a[i].clients[k], ap |-> a[i]]
        BY <3>1, <4>2, Zenon
      <4>4. \A k \in 1 .. Len(s[i]) : t[i][k] = [client |-> b[i].clients[k], ap |-> b[i]]
        BY <3>2, <4>1, <4>2, Zenon
      <4> QED BY <3>1, <4>2, <4>3, <4>4
    <3> QED BY <1>1, <3>1, <3>2, <3>4
  <2>2. PICK off : Placed(s, x, off)  BY ClientsPlaced
  <2>3. PICK off2 : Placed(t, y, off2)  BY ClientsPlaced
  <2>4. Len(x) \in Nat  BY ClientsPlaced, LenProperties
  <2>5. clientOperData(a).common = buildCommonOperData(x) /\ clientOperData(b).common = buildCommonOperData(y)
    BY DEF clientOperData
  <2> HIDE DEF x, y, s, t, n
  <2>6. Len(y) = Len(x) /\ \A i \in 1 .. n : off2[i] = off[i]
    <3>1. Len(s) \in Nat /\ Len(t) = Len(s) /\ \A i \in 1 .. Len(s) : Len(t[i]) = Len(s[i])
      BY <1>1, <2>1
    <3>2. Len(y) = Len(x) /\ \A i \in 1 .. Len(s) : off2[i] = off[i]  BY <2>2, <2>3, <3>1, SamePlaces
    <3> QED BY <2>1, <3>2
  <2>7. /\ \A i \in 1 .. Len(s) : \A k \in 1 .. Len(s[i]) : off[i] + k \in 1 .. Len(x)
        /\ \A j \in 1 .. Len(x) : \E i \in 1 .. Len(s) : \E k \in 1 .. Len(s[i]) : j = off[i] + k
        /\ \A i, i2 \in 1 .. Len(s) : \A k \in 1 .. Len(s[i]) : \A k2 \in 1 .. Len(s[i2]) :
              off[i] + k = off[i2] + k2 => i = i2
    <3>1. Len(s) \in Nat /\ \A i \in 1 .. Len(s) : Len(s[i]) \in Nat  BY <1>1, <2>1
    <3>2. Partitioned(s, x, off)  BY <2>2, <3>1, PlacesPartition
    <3> QED BY <3>2, Zenon DEF Partitioned
  <2>8. ASSUME NEW j \in 1 .. Len(x) PROVE y[j].client.mac = x[j].client.mac /\ y[j].ap.name = x[j].ap.name
    <3>2. \E i \in 1 .. Len(s) : \E k \in 1 .. Len(s[i]) : j = off[i] + k
      BY <2>7, Zenon
    <3>3. PICK i \in 1 .. Len(s) : \E k \in 1 .. Len(s[i]) : j = off[i] + k  BY <3>2
    <3>4. PICK k \in 1 .. Len(s[i]) : j = off[i] + k  BY <3>3
    <3>5. i \in 1 .. n /\ i \in 1 .. Len(t) /\ 1 .. Len(t[i]) = 1 .. Len(s[i])  BY <2>1
    <3>6. x[off[i] + k] = s[i][k]  BY <2>2 DEF Placed
    <3>7. y[off2[i] + k] = t[i][k]  BY <2>3, <3>5, Zenon DEF Placed
    <3>8. y[j] = t[i][k] /\ x[j] = s[i][k]  BY <2>6, <3>4, <3>5, <3>6, <3>7
    <3>9. t[i][k] = [client |-> b[i].clients[k], ap |-> b[i]] /\ s[i][k] = [client |-> a[i].clients[k], ap |-> a[i]]
          /\ 1 .. Len(s[i]) = 1 .. Len(a[i].clients)
      BY <2>1, <3>5
    <3>10. b[i].name = a[i].name /\ b[i].clients[k].mac = a[i].clients[k].mac
      BY <3>5, <3>9 DEF Filled, n
    <3> QED BY <3>8, <3>9, <3>10
  <2>9. buildCommonOperData(y) = buildCommonOperData(x)  BY <2>6, <2>8 DEF buildCommonOperData
  <2> QED BY <2>5, <2>9
<1>4. ASSUME NEW i \in 1 .. n
      PROVE  /\ buildRadioOperData(a)[2 * i - 1].stations = 0 /\ buildRadioOperData(b)[2 * i - 1].stations = 0
             /\ buildRadioOperData(a)[2 * i].stations \in Nat /\ buildRadioOperData(b)[2 * i].stations \in Nat
             /\ buildRadioOperData(b)[2 * i].stations >= buildRadioOperData(a)[2 * i].stations
  <2> DEFINE S == OnSlot1(a[i])
             S2 == OnSlot1(b[i])
  <2>1. i \in 1 .. Len(b) /\ a[i] \in AP /\ b[i] \in AP  BY <1>1
  <2>2. /\ buildRadioOperData(a)[2 * i - 1].stations = 0 /\ buildRadioOperData(b)[2 * i - 1].stations = 0
        /\ buildRadioOperData(a)[2 * i].stations = Cardinality(S)
        /\ buildRadioOperData(b)[2 * i].stations = Cardinality(S2)
    BY <2>1, RadiosAt
  <2>3. Cardinality(S) \in Nat /\ Cardinality(S2) \in Nat  BY <2>1, RadiosSplit
  <2>4. S \in SUBSET S2  BY DEF Filled
  <2>5. IsFiniteSet(S2)
    <3>1. b[i].clients \in Seq(Client)  BY <2>1 DEF AP
    <3>2. IsFiniteSet(1 .. Len(b[i].clients))
      <4> DEFINE l == Len(b[i].clients)
      <4>1. l \in Int /\ 1 \in Int  BY <3>1, LenProperties
      <4> HIDE DEF l
      <4>2. IsFiniteSet(1 .. l)  BY <4>1, FS_Interval
      <4> QED BY <4>2 DEF l
    <3>3. S2 \in SUBSET (1 .. Len(b[i].clients))  BY DEF OnSlot1
    <3> HIDE DEF S2
    <3> QED BY <3>2, <3>3, FS_Subset
  <2> HIDE DEF S, S2
  <2>6. Cardinality(S) <= Cardinality(S2)  BY <2>4, <2>5, FS_Subset
  <2> QED BY <2>2, <2>3, <2>6
<1>5. ASSUME NEW j \in 1 .. 2 * n
      PROVE  buildRadioOperData(b)[j].stations >= buildRadioOperData(a)[j].stations
  <2>1. \E i \in 1 .. n : j = 2 * i - 1 \/ j = 2 * i
    <3>1. (j + 1) \div 2 \in 1 .. n /\ (j = 2 * ((j + 1) \div 2) - 1 \/ j = 2 * ((j + 1) \div 2))  BY <1>1
    <3> QED BY <3>1
  <2>2. PICK i \in 1 .. n : j = 2 * i - 1 \/ j = 2 * i  BY <2>1
  <2>3. CASE j = 2 * i - 1  BY <1>4, <2>3
  <2>4. CASE j = 2 * i  BY <1>4, <2>4
  <2> QED BY <2>2, <2>3, <2>4
<1> QED BY <1>2, <1>3, <1>5 DEF SameAnswers

(* Loading what has a default AP does nothing else. *)
LEMMA LoadFills ==
    ASSUME NEW hn \in Names \cup {NoName}, NEW a \in Seq(AP), HasDefault(hn, a)
    PROVE  Filled(a, applyDefaults(hn, a))
<1> DEFINE b == applyDefaults(hn, a)
<1>1. Len(b) = Len(a) /\ \A i \in 1 .. Len(a) : b[i] = FillAP(a[i])
  BY DefaultsProperties, EnsureKeeps
<1> HIDE DEF b
<1>2. ASSUME NEW i \in 1 .. Len(a)
      PROVE  /\ b[i].name = a[i].name /\ Len(b[i].clients) = Len(a[i].clients)
             /\ \A k \in 1 .. Len(a[i].clients) : b[i].clients[k].mac = a[i].clients[k].mac
             /\ OnSlot1(a[i]) \subseteq OnSlot1(b[i])
  <2>1. a[i] \in AP /\ b[i] = FillAP(a[i])  BY <1>1, ElementOfSeq
  <2>2. /\ b[i].name = a[i].name /\ Len(b[i].clients) = Len(a[i].clients)
        /\ \A k \in 1 .. Len(a[i].clients) : b[i].clients[k].mac = a[i].clients[k].mac
    BY <2>1, FillAPProperties
  <2> DEFINE cs == a[i].clients
  <2>3. cs \in Seq(Client)  BY <2>1 DEF AP
  <2>4. \A k \in 1 .. Len(cs) : cs[k] \in Client  BY <2>3, ElementOfSeq
  <2>5. b[i].clients = [k \in 1 .. Len(cs) |-> FillClient(cs[k])]
    <3>1. FillAP(a[i]).clients = [k \in 1 .. Len(cs) |-> FillClient(cs[k])]  BY <2>1 DEF FillAP, AP
    <3> QED BY <2>1, <3>1, Zenon
  <2> HIDE DEF cs
  <2>6. \A k \in 1 .. Len(cs) : cs[k].channel >= DefaultChannel => b[i].clients[k].channel >= DefaultChannel
    <3> SUFFICES ASSUME NEW k \in 1 .. Len(cs), cs[k].channel >= DefaultChannel
                 PROVE  b[i].clients[k].channel >= DefaultChannel
      OBVIOUS
    <3>1. b[i].clients[k] = FillClient(cs[k])  BY <2>5
    <3>2. FillClient(cs[k]).channel = IF cs[k].channel = 0 THEN DefaultChannel ELSE cs[k].channel
      BY DEF FillClient
    <3> QED BY <3>1, <3>2 DEF DefaultChannel
  <2>7. OnSlot1(a[i]) \subseteq OnSlot1(b[i])  BY <2>2, <2>6 DEF OnSlot1, cs
  <2> QED BY <2>2, <2>7
<1> QED BY <1>1, <1>2 DEF Filled, b

(* What a restart may not change. *)
RestartStep == ~lost /\ Restart => SameAnswers(aps, aps')

(* The file is what was in memory, or memory is what loading it gives. *)
LEMMA RestartAnswers == Inv => RestartStep
<1> SUFFICES ASSUME Inv, ~lost, Restart PROVE SameAnswers(aps, aps')  BY DEF RestartStep
<1>1. /\ aps \in Seq(AP) /\ HasDefault(hostname, aps) /\ aps' = applyDefaults(hostname, file)
      /\ file = aps \/ aps = applyDefaults(hostname, file)
      /\ hostname \in Names \cup {NoName}
  BY DEF Inv, TypeOK, FileMatches, Restart
<1>2. CASE file = aps
  <2>1. Filled(aps, applyDefaults(hostname, aps)) /\ applyDefaults(hostname, aps) \in Seq(AP)
    BY <1>1, LoadFills, DefaultsProperties
  <2> QED BY <1>1, <1>2, <2>1, FilledAnswers
<1>3. CASE aps = applyDefaults(hostname, file)
  <2>1. Filled(aps, aps)  BY DEF Filled
  <2>2. SameAnswers(aps, aps)  BY <1>1, <2>1, FilledAnswers
  <2> QED BY <1>1, <1>3, <2>2
<1> QED BY <1>1, <1>2, <1>3

(* A restart does not show in what RESTCONF answers of APs and clients: the file
   config.Load reads has what was in memory before, but for defaults that only
   ever raise a radio's station count. *)
THEOREM RestartsKeepAnswers == Spec => RestartKeepsAnswers
<1>1. Inv /\ [Next]_vars => [RestartStep]_vars  BY RestartAnswers
<1>2. RestartKeepsAnswers <=> [][RestartStep]_vars  BY PTL DEF RestartKeepsAnswers, RestartStep, SameAnswers
<1> QED BY InitInv, StepInv, <1>1, <1>2, PTL DEF Spec
=============================================================================

---------------------------- MODULE LanModeProofs ----------------------------
(***************************************************************************)
(* LAN mode for any search range, addresses, seed and imported files, on   *)
(* both systems, for any number of requests, faults, crashes and hosts:    *)
(* nothing in use is handed out, what runs is reachable, what is lost is   *)
(* lost on the known paths, and a restart keeps the addresses.             *)
(***************************************************************************)
EXTENDS LanMode, FiniteSetTheorems, SequenceTheorems, WellFoundedInduction, TLAPS

----------------------------------------------------------------------------
(* The search *)

(* A non-empty set of naturals has a least element. *)
LEMMA LeastNatural ==
    ASSUME NEW S \in SUBSET Nat, S # {}
    PROVE  \E i \in S : \A j \in S : i <= j
<1>1. \E i \in S : \A j \in S : ~(<<j, i>> \in OpToRel(<, Nat))
  BY NatLessThanWellFounded, WFMin, Zenon
<1>2. OpToRel(<, Nat) = {p \in Nat \X Nat : p[1] < p[2]}  BY Zenon DEF OpToRel
<1>3. \A i, j \in Nat : <<j, i>> \in {p \in Nat \X Nat : p[1] < p[2]} <=> j < i  BY SMT
<1>4. PICK i \in S : \A j \in S : ~(<<j, i>> \in {p \in Nat \X Nat : p[1] < p[2]})
  BY <1>1, <1>2, Zenon
<1>5. \A j \in S : i <= j
  <2>1. i \in Nat /\ \A j \in S : j \in Nat  OBVIOUS
  <2>2. \A j \in S : ~(j < i)  BY <2>1, <1>3, <1>4, Zenon
  <2> QED BY <2>1, <2>2
<1> QED BY <1>5

(* One more address is one more unused one, or none. *)
LEMMA UnusedCount ==
    /\ Unused(0) = 0
    /\ \A n \in Nat : /\ Unused(n) \in Nat
                      /\ Unused(n + 1) = IF Used(Pool[n + 1]) THEN Unused(n) ELSE Unused(n) + 1
<1> DEFINE U(n) == {j \in 1 .. n : ~Used(Pool[j])}
<1>1. \A n \in Nat : IsFiniteSet(U(n)) /\ Cardinality(U(n)) \in Nat
  <2> SUFFICES ASSUME NEW n \in Nat PROVE IsFiniteSet(U(n)) /\ Cardinality(U(n)) \in Nat  OBVIOUS
  <2>1. IsFiniteSet(1 .. n)  BY FS_Interval
  <2>2. U(n) \in SUBSET (1 .. n)  OBVIOUS
  <2> HIDE DEF U
  <2>3. IsFiniteSet(U(n))  BY <2>1, <2>2, FS_Subset
  <2> QED BY <2>3, FS_CardinalityType
<1>2. U(0) = {}  OBVIOUS
<1>3. ASSUME NEW n \in Nat
      PROVE  Unused(n + 1) = IF Used(Pool[n + 1]) THEN Unused(n) ELSE Unused(n) + 1
  <2>1. U(n + 1) = IF Used(Pool[n + 1]) THEN U(n) ELSE U(n) \cup {n + 1}  OBVIOUS
  <2>2. n + 1 \notin U(n)  OBVIOUS
  <2>3. Unused(n) = Cardinality(U(n)) /\ Unused(n + 1) = Cardinality(U(n + 1))  BY DEF Unused
  <2> HIDE DEF U
  <2>4. Cardinality(U(n) \cup {n + 1}) = Cardinality(U(n)) + 1  BY <1>1, <2>2, FS_AddElement
  <2> QED BY <2>1, <2>3, <2>4
<1>4. Unused(0) = 0
  <2>1. Unused(0) = Cardinality(U(0))  BY DEF Unused
  <2> HIDE DEF U
  <2> QED BY <1>2, <2>1, FS_EmptySet
<1>5. \A n \in Nat : Unused(n) \in Nat  BY <1>1 DEF Unused
<1> QED BY <1>3, <1>4, <1>5

(* Each of the unused addresses has its place in the range. *)
LEMMA NthUnused ==
    ASSUME NEW k \in 1 .. Unused(Len(Pool))
    PROVE  \E i \in 1 .. Len(Pool) : ~Used(Pool[i]) /\ Unused(i) = k
<1> DEFINE S == {m \in Nat : Unused(m) >= k}
<1>1. Len(Pool) \in Nat  BY LanAssumption, LenProperties
<1>2. k \in Nat /\ k >= 1 /\ k <= Unused(Len(Pool)) /\ Unused(Len(Pool)) \in Nat  BY <1>1, UnusedCount
<1>3. Len(Pool) \in S  BY <1>1, <1>2
<1>4. PICK i \in S : \A m \in S : i <= m
  <2>1. S \in SUBSET Nat /\ S # {}  BY <1>3
  <2> HIDE DEF S
  <2> QED BY <2>1, LeastNatural
<1>5. i \in Nat /\ Unused(i) >= k /\ i <= Len(Pool)  BY <1>3, <1>4
<1>6. i # 0  BY <1>2, <1>5, UnusedCount
<1>7. i - 1 \in Nat /\ i = (i - 1) + 1  BY <1>5, <1>6
<1>8. ~(Unused(i - 1) >= k)
  <2>1. i - 1 \notin S  BY <1>4, <1>7
  <2> QED BY <1>7, <2>1
<1>9. Unused(i - 1) \in Nat /\ Unused(i) = IF Used(Pool[i]) THEN Unused(i - 1) ELSE Unused(i - 1) + 1
  BY <1>7, UnusedCount
<1>10. ~Used(Pool[i]) /\ Unused(i) = k  BY <1>2, <1>5, <1>8, <1>9
<1> QED BY <1>1, <1>5, <1>6, <1>10

(* FindUnusedIPs finds addresses of the range that are not in use. *)
LEMMA SearchFinds ==
    /\ Len(FindUnusedIPs) = Unused(Len(Pool)) /\ Len(FindUnusedIPs) \in Nat
    /\ \A k \in 1 .. Len(FindUnusedIPs) : FindUnusedIPs[k] \in PoolSet /\ ~Used(FindUnusedIPs[k])
<1>1. Unused(Len(Pool)) \in Nat  BY LanAssumption, LenProperties, UnusedCount
<1>2. Len(FindUnusedIPs) = Unused(Len(Pool))  BY <1>1 DEF FindUnusedIPs
<1>3. ASSUME NEW k \in 1 .. Unused(Len(Pool))
      PROVE  FindUnusedIPs[k] \in PoolSet /\ ~Used(FindUnusedIPs[k])
  <2> DEFINE i == CHOOSE i \in 1 .. Len(Pool) : ~Used(Pool[i]) /\ Unused(i) = k
  <2>1. i \in 1 .. Len(Pool) /\ ~Used(Pool[i])  BY NthUnused
  <2>2. FindUnusedIPs[k] = Pool[i]  BY DEF FindUnusedIPs
  <2> HIDE DEF i
  <2> QED BY <2>1, <2>2 DEF PoolSet
<1> QED BY <1>1, <1>2, <1>3

(* The devices in need up to one of them are no more than all of them. *)
LEMMA NeededBounds ==
    ASSUME NEW devs \in Seq(Addresses)
    PROVE  /\ Needed(devs) \in Nat
           /\ \A i \in 1 .. Len(devs) :
                 needsAutoIP(devs[i]) => Needed(SubSeq(devs, 1, i)) \in 1 .. Needed(devs)
<1> DEFINE N(n) == {j \in 1 .. n : needsAutoIP(devs[j])}
<1>1. Len(devs) \in Nat  BY LenProperties
<1>2. \A n \in Nat : IsFiniteSet(N(n)) /\ Cardinality(N(n)) \in Nat
  <2> SUFFICES ASSUME NEW n \in Nat PROVE IsFiniteSet(N(n)) /\ Cardinality(N(n)) \in Nat  OBVIOUS
  <2>1. IsFiniteSet(1 .. n)  BY FS_Interval
  <2>2. N(n) \in SUBSET (1 .. n)  OBVIOUS
  <2> HIDE DEF N
  <2>3. IsFiniteSet(N(n))  BY <2>1, <2>2, FS_Subset
  <2> QED BY <2>3, FS_CardinalityType
<1>3. Needed(devs) = Cardinality(N(Len(devs)))  BY DEF Needed
<1>4. ASSUME NEW i \in 1 .. Len(devs), needsAutoIP(devs[i])
      PROVE  Needed(SubSeq(devs, 1, i)) \in 1 .. Needed(devs)
  <2> DEFINE t == SubSeq(devs, 1, i)
  <2>1. i \in Nat /\ i <= Len(devs)  BY <1>1
  <2>2. \A j \in 1 .. i : devs[j] \in Addresses  BY <1>1, <2>1, ElementOfSeq
  <2>3. Len(t) = i /\ \A j \in 1 .. i : t[j] = devs[j]
    <3> HIDE DEF t
    <3>1. t = SubSeq(devs, 1, i)  BY DEF t
    <3>2. Len(t) = i - 1 + 1 /\ \A j \in 1 .. i - 1 + 1 : t[j] = devs[1 + j - 1]
      BY <1>1, <2>1, <2>2, <3>1, SubSeqProperties
    <3> QED BY <2>1, <3>2
  <2>4. Needed(t) = Cardinality(N(i))
    <3>1. {j \in 1 .. Len(t) : needsAutoIP(t[j])} = N(i)  BY <2>3
    <3> HIDE DEF t, N
    <3> QED BY <3>1 DEF Needed
  <2>5. N(i) \in SUBSET N(Len(devs)) /\ i \in N(i)  BY <1>1, <1>4, <2>1
  <2> HIDE DEF N
  <2>6. Cardinality(N(i)) <= Cardinality(N(Len(devs)))  BY <1>1, <1>2, <2>5, FS_Subset
  <2>7. Cardinality(N(i)) # 0  BY <1>2, <2>1, <2>5, FS_EmptySet
  <2>8. Cardinality(N(i)) \in Nat /\ Cardinality(N(Len(devs))) \in Nat  BY <1>1, <1>2, <2>1
  <2>9. Needed(SubSeq(devs, 1, i)) = Cardinality(N(i))  BY <2>4
  <2> QED BY <1>3, <2>6, <2>7, <2>8, <2>9
<1>5. Needed(devs) \in Nat  BY <1>1, <1>2, <1>3
<1> QED BY <1>4, <1>5

(* Every device gets an address: an unused one, or the one it has. *)
LEMMA AssignedProperties ==
    ASSUME NEW devs \in Seq(Addresses), ~(Needed(devs) > Len(FindUnusedIPs))
    PROVE  /\ Assigned(devs) \in Seq(Addresses) /\ Len(Assigned(devs)) = Len(devs)
           /\ \A i \in 1 .. Len(devs) :
                 IF needsAutoIP(devs[i])
                 THEN Assigned(devs)[i] \in PoolSet /\ ~Used(Assigned(devs)[i])
                 ELSE Assigned(devs)[i] = devs[i]
<1> DEFINE A == Assigned(devs)
<1>1. Len(devs) \in Nat /\ \A i \in 1 .. Len(devs) : devs[i] \in Addresses  BY LenProperties
<1>2. ASSUME NEW i \in 1 .. Len(devs), needsAutoIP(devs[i])
      PROVE  A[i] \in PoolSet /\ ~Used(A[i])
  <2> DEFINE k == Needed(SubSeq(devs, 1, i))
  <2>1. k \in 1 .. Needed(devs) /\ Needed(devs) \in Nat  BY <1>2, NeededBounds
  <2>2. A[i] = FindUnusedIPs[k]  BY <1>2 DEF Assigned
  <2> HIDE DEF k, A
  <2>3. k \in 1 .. Len(FindUnusedIPs)  BY <2>1, SearchFinds
  <2> QED BY <2>2, <2>3, SearchFinds
<1>3. \A i \in 1 .. Len(devs) : ~needsAutoIP(devs[i]) => A[i] = devs[i]  BY DEF Assigned
<1>4. \A i \in 1 .. Len(devs) : A[i] \in Addresses  BY <1>1, <1>2, <1>3 DEF Addresses, Subnet
<1>5. A \in [1 .. Len(devs) -> Addresses]
  <2>1. A = [i \in 1 .. Len(devs) |-> A[i]]  BY DEF Assigned
  <2> HIDE DEF A
  <2> QED BY <1>4, <2>1
<1>6. A \in Seq(Addresses) /\ Len(A) = Len(devs)
  <2> HIDE DEF A
  <2>1. A \in Seq(Addresses)  BY <1>1, <1>5, SeqDef
  <2>2. DOMAIN A = 1 .. Len(A) /\ Len(A) \in Nat /\ DOMAIN A = 1 .. Len(devs)  BY <1>5, <2>1, LenProperties
  <2> QED BY <1>1, <2>1, <2>2
<1> QED BY <1>2, <1>3, <1>6

(* What is left of a list without one of its entries. *)
LEMMA CutOut ==
    ASSUME NEW s \in Seq(Addresses), NEW i \in 1 .. Len(s),
           NEW c, c = SubSeq(s, 1, i - 1) \o SubSeq(s, i + 1, Len(s))
    PROVE  /\ c \in Seq(Addresses) /\ Len(c) = Len(s) - 1
           /\ \A j \in 1 .. Len(s) - 1 : c[j] = IF j < i THEN s[j] ELSE s[j + 1]
<1> DEFINE u == SubSeq(s, 1, i - 1)  v == SubSeq(s, i + 1, Len(s))
<1>1. Len(s) \in Nat /\ i \in Int /\ 1 <= i /\ i <= Len(s) /\ \A j \in 1 .. Len(s) : s[j] \in Addresses
  BY LenProperties
<1>2. u \in Seq(Addresses) /\ Len(u) = i - 1 /\ \A j \in 1 .. i - 1 : u[j] = s[j]
  <2>1. \A j \in 1 .. i - 1 : s[j] \in Addresses  BY <1>1
  <2>2. /\ u \in Seq(Addresses) /\ Len(u) = IF 1 <= i - 1 THEN i - 1 - 1 + 1 ELSE 0
        /\ \A j \in 1 .. i - 1 - 1 + 1 : u[j] = s[1 + j - 1]
    BY <1>1, <2>1, SubSeqProperties
  <2> HIDE DEF u
  <2> QED BY <1>1, <2>2
<1>3. v \in Seq(Addresses) /\ Len(v) = Len(s) - i /\ \A j \in 1 .. Len(s) - i : v[j] = s[i + j]
  <2>1. \A j \in i + 1 .. Len(s) : s[j] \in Addresses  BY <1>1
  <2>2. /\ v \in Seq(Addresses) /\ Len(v) = IF i + 1 <= Len(s) THEN Len(s) - (i + 1) + 1 ELSE 0
        /\ \A j \in 1 .. Len(s) - (i + 1) + 1 : v[j] = s[i + 1 + j - 1]
    BY <1>1, <2>1, SubSeqProperties
  <2> HIDE DEF v
  <2> QED BY <1>1, <2>2
<1>4. c = u \o v  OBVIOUS
<1> HIDE DEF u, v
<1>5. /\ c \in Seq(Addresses) /\ Len(c) = Len(u) + Len(v)
      /\ \A j \in 1 .. Len(u) + Len(v) : c[j] = IF j <= Len(u) THEN u[j] ELSE v[j - Len(u)]
  <2>1. u \in Seq(Addresses) /\ v \in Seq(Addresses)  BY <1>2, <1>3
  <2>2. /\ u \o v \in Seq(Addresses) /\ Len(u \o v) = Len(u) + Len(v)
        /\ \A j \in 1 .. Len(u) + Len(v) : (u \o v)[j] = IF j <= Len(u) THEN u[j] ELSE v[j - Len(u)]
    BY <2>1, ConcatProperties, Zenon
  <2> QED BY <1>4, <2>2, Zenon
<1>6. Len(c) = Len(s) - 1
  <2>1. Len(u) + Len(v) = Len(s) - 1  BY <1>1, <1>2, <1>3
  <2> QED BY <1>5, <2>1, Zenon
<1>7. ASSUME NEW j \in 1 .. Len(s) - 1 PROVE c[j] = IF j < i THEN s[j] ELSE s[j + 1]
  <2>0. j \in Int /\ 1 <= j /\ j <= Len(s) - 1 /\ Len(u) + Len(v) = Len(s) - 1 /\ j \in 1 .. Len(u) + Len(v)
    BY <1>1, <1>2, <1>3
  <2>1. c[j] = IF j <= Len(u) THEN u[j] ELSE v[j - Len(u)]  BY <1>5, <2>0, Zenon
  <2>2. CASE j < i
    <3>1. j \in 1 .. i - 1 /\ j <= Len(u)  BY <1>1, <1>2, <2>0, <2>2
    <3> QED BY <1>2, <2>1, <2>2, <3>1
  <2>3. CASE ~(j < i)
    <3>1. j - Len(u) \in 1 .. Len(s) - i /\ ~(j <= Len(u)) /\ i + (j - Len(u)) = j + 1
      BY <1>1, <1>2, <2>0, <2>3
    <3> QED BY <1>3, <2>1, <2>3, <3>1
  <2> QED BY <2>2, <2>3
<1> QED BY <1>5, <1>6, <1>7

----------------------------------------------------------------------------
(* The inductive invariant *)

ToDo == {todo[k] : k \in 1 .. Len(todo)}

\* A process that is down, or between tear-down and set-up, has no devices.
Empty == pc \in {"down", "tornDown"} => devices = << >>

\* What SetupLANIPs has done, or will do, for each device.
Reached == pc = "adding" => ToDo \subseteq Listed /\ \A a \in Listed : IsLocal(a) \/ a \in ToDo

(* RemoveDevice cleans the loopback even when another device has the address:
   an address that is listed twice is on the interface, if anywhere, unless an
   imported file listed it so. *)
OnWireIfTwice(s) ==
    \A a \in (lo \ wire) \ twice : \A i, j \in 1 .. Len(s) : s[i] = a /\ s[j] = a => i = j

Doubles ==
    /\ OnWireIfTwice(devices)
    /\ IF file = NoFile THEN lo \subseteq wire ELSE OnWireIfTwice(file)
    /\ pc = "tornDown" => \A i, j \in 1 .. Len(todo) : todo[i] = todo[j] => i = j \/ todo[i] \in twice

\* At boot, devices get the addresses of the file.
FromFile ==
    pc = "adding" /\ by = "boot" /\ file # NoFile =>
        /\ Len(devices) = Len(file)
        /\ \A i \in 1 .. Len(file) : file[i] \in Subnet => devices[i] = file[i]

\* Nobody was known to have a chosen address; who uses it came later or kept
\* silent.
Unclaimed == \A a \in chosen : a \notin known /\ (a \in hosts => a \in late \cup missed)

(* What SetupLANIPs begins with: nothing, or an address for every device. *)
LEMMA SetupEffect ==
    ASSUME TypeOK, NEW devs \in Seq(Addresses), NEW reason \in {"boot", "import"}, Setup(devs, reason)
    PROVE  /\ late' = {} /\ by' = reason /\ UNCHANGED <<hosts, mute, cache>>
           /\ devices' \in Seq(Addresses) /\ todo' \in Seq(Addresses) /\ chosen' \subseteq Addresses
           /\ \A a \in chosen' : ~Used(a)
           /\ known' = chosen' \cap (lo \cup wire \cup cache) /\ missed' = {a \in chosen' \cap hosts : ~Answers(a)}
           /\ \/ /\ devices' = << >> /\ todo' = << >>
                 /\ pc' = IF reason = "boot" THEN "down" ELSE "running"
              \/ /\ pc' = "adding" /\ todo' = devices' /\ Len(devices') = Len(devs)
                 /\ \A i \in 1 .. Len(devs) :
                       IF devs[i] \in Subnet THEN devices'[i] = devs[i] ELSE ~Used(devices'[i])
<1>0. known' = chosen' \cap (lo \cup wire \cup cache) /\ missed' = {a \in chosen' \cap hosts : ~Answers(a)}
  BY DEF Setup
<1>1. CASE Needed(devs) > Len(FindUnusedIPs)
  BY <1>0, <1>1 DEF Setup, SetupFails
<1>2. CASE ~(Needed(devs) > Len(FindUnusedIPs))
  <2> DEFINE new == Assigned(devs)
  <2>1. /\ new \in Seq(Addresses) /\ Len(new) = Len(devs)
        /\ \A i \in 1 .. Len(devs) :
              IF needsAutoIP(devs[i]) THEN new[i] \in PoolSet /\ ~Used(new[i]) ELSE new[i] = devs[i]
    BY <1>2, AssignedProperties
  <2>2. /\ pc' = "adding" /\ devices' = new /\ todo' = new
        /\ chosen' = {new[i] : i \in {j \in 1 .. Len(devs) : needsAutoIP(devs[j])}}
        /\ late' = {} /\ by' = reason /\ UNCHANGED <<hosts, mute, cache>>
    BY <1>2 DEF Setup
  <2> HIDE DEF new
  <2>3. chosen' \subseteq Addresses /\ \A a \in chosen' : ~Used(a)
    BY <2>1, <2>2 DEF Addresses, Subnet
  <2> QED BY <1>0, <2>1, <2>2, <2>3 DEF needsAutoIP
<1> QED BY <1>1, <1>2

Safe == TypeOK /\ Empty /\ Reached /\ FromFile /\ Unclaimed /\ OnlyKnownLeaks

Local == Doubles /\ ListedAreLocal

(* Nothing runs and nothing is on the machine. *)
LEMMA InitInv == Init => Safe /\ Local
<1> SUFFICES ASSUME Init PROVE Safe /\ Local  OBVIOUS
<1>1. TypeOK  BY LanAssumption DEF Init, TypeOK, Sets
<1>2. Safe
  BY <1>1 DEF Init, Safe, Empty, Reached, FromFile, Unclaimed, OnlyKnownLeaks
<1>3. Local
  BY DEF Init, Local, Doubles, OnWireIfTwice, ListedAreLocal, Listed
<1> QED BY <1>2, <1>3

(* SetupLANIPs chooses the addresses: at boot, or half-way through an import. *)
LEMMA SetupSteps ==
    ASSUME Safe, Boot \/ ImportSetup PROVE Safe' /\ (Local => Local')
<1> DEFINE devs == IF pc = "tornDown" THEN todo ELSE IF file = NoFile THEN Seed ELSE file
           reason == IF pc = "tornDown" THEN "import" ELSE "boot"
<1>0. TypeOK /\ Empty /\ OnlyKnownLeaks  BY DEF Safe
<1>1. /\ pc \in {"down", "tornDown"} /\ Setup(devs, reason) /\ UNCHANGED <<os, probing, lo, wire, file, faults, leaked, twice>>
      /\ devs \in Seq(Addresses) /\ reason \in {"boot", "import"} /\ ops' \in 0 .. MaxOps
  BY <1>0, LanAssumption DEF Boot, ImportSetup, TypeOK, host, Op
<1>2. /\ late' = {} /\ by' = reason /\ UNCHANGED <<hosts, mute, cache>>
      /\ devices' \in Seq(Addresses) /\ todo' \in Seq(Addresses) /\ chosen' \subseteq Addresses
      /\ \A a \in chosen' : ~Used(a)
      /\ known' = chosen' \cap (lo \cup wire \cup cache) /\ missed' = {a \in chosen' \cap hosts : ~Answers(a)}
      /\ \/ /\ devices' = << >> /\ todo' = << >>
            /\ pc' = IF reason = "boot" THEN "down" ELSE "running"
         \/ /\ pc' = "adding" /\ todo' = devices' /\ Len(devices') = Len(devs)
            /\ \A i \in 1 .. Len(devs) :
                  IF devs[i] \in Subnet THEN devices'[i] = devs[i] ELSE ~Used(devices'[i])
  <2> HIDE DEF devs, reason
  <2> QED BY <1>0, <1>1, SetupEffect
<1>3. TypeOK'  BY <1>0, <1>1, <1>2, LanAssumption DEF TypeOK, Sets
<1>4. Empty' /\ ListedAreLocal'  BY <1>2 DEF Empty, ListedAreLocal, Listed
<1>5. Reached'  BY <1>2 DEF Reached, ToDo, Listed
<1>6. Unclaimed'  BY <1>1, <1>2 DEF Unclaimed, Used, IsLocal
<1>7. OnlyKnownLeaks'  BY <1>0, <1>1 DEF OnlyKnownLeaks, Empty, Listed
<1>8. FromFile'
  <2> SUFFICES ASSUME pc' = "adding", by' = "boot", file' # NoFile
               PROVE  /\ Len(devices') = Len(file')
                      /\ \A i \in 1 .. Len(file') : file'[i] \in Subnet => devices'[i] = file'[i]
    BY DEF FromFile
  <2>1. devs = file /\ file' = file  BY <1>1, <1>2
  <2>2. Len(devices') = Len(devs) /\ \A i \in 1 .. Len(devs) : devs[i] \in Subnet => devices'[i] = devs[i]
    BY <1>2
  <2> HIDE DEF devs
  <2> QED BY <2>1, <2>2
<1>9. ASSUME Doubles PROVE Doubles'
  <2>1. ASSUME NEW a \in (lo \ wire) \ twice, NEW i \in 1 .. Len(devs), NEW j \in 1 .. Len(devs),
               devs[i] = a, devs[j] = a, a \in Subnet
        PROVE  i = j
    <3>1. CASE pc = "tornDown"  BY <1>9, <2>1, <3>1 DEF Doubles
    <3>2. CASE pc # "tornDown"  BY <1>9, <2>1, <3>2 DEF Doubles, OnWireIfTwice
    <3> QED BY <3>1, <3>2
  <2>2. OnWireIfTwice(devices)'
    <3> SUFFICES ASSUME NEW a \in (lo \ wire) \ twice, NEW i \in 1 .. Len(devices'), NEW j \in 1 .. Len(devices'),
                        devices'[i] = a, devices'[j] = a
                 PROVE  i = j
      BY <1>1 DEF OnWireIfTwice
    <3>1. Used(a)  BY DEF Used, IsLocal
    <3>2. CASE devices' = << >>  BY <3>2
    <3>3. CASE /\ Len(devices') = Len(devs)
               /\ \A k \in 1 .. Len(devs) : IF devs[k] \in Subnet THEN devices'[k] = devs[k] ELSE ~Used(devices'[k])
      <4>1. i \in 1 .. Len(devs) /\ j \in 1 .. Len(devs)  BY <3>3
      <4>2. devs[i] \in Subnet /\ devs[i] = a /\ devs[j] = a  BY <3>1, <3>3, <4>1
      <4> HIDE DEF devs
      <4> QED BY <2>1, <4>1, <4>2
    <3> QED BY <1>2, <3>2, <3>3
  <2>3. pc' # "tornDown"  BY <1>2
  <2> QED BY <1>1, <1>9, <2>2, <2>3 DEF Doubles, OnWireIfTwice
<1> QED BY <1>3, <1>4, <1>5, <1>6, <1>7, <1>8, <1>9 DEF Safe, Local

(* SetupLANIPs adds one address after the other, or gives up. *)
LEMMA AddSteps ==
    ASSUME Safe, AddNext \/ SetupDone PROVE Safe' /\ (Local => Local')
<1>0. TypeOK /\ Reached /\ FromFile /\ Unclaimed /\ OnlyKnownLeaks  BY DEF Safe
<1>1. CASE SetupDone
  <2>1. /\ pc = "adding" /\ todo = << >> /\ pc' = "running" /\ file' = IF by = "import" THEN devices ELSE file
        /\ UNCHANGED <<os, probing, hosts, mute, cache, late, lo, wire, by, todo, devices, ops, faults, chosen, known, missed, leaked, twice>>
    BY <1>1 DEF SetupDone, host, lan, search
  <2>2. TypeOK'  BY <1>0, <2>1 DEF TypeOK, Sets
  <2>3. ListedAreLocal'  BY <1>0, <2>1 DEF Reached, ToDo, ListedAreLocal, Listed, IsLocal
  <2>4. Doubles => Doubles'
    <3>1. devices \in Seq(Addresses)  BY <1>0 DEF TypeOK
    <3>2. devices # NoFile  BY <3>1, LanAssumption
    <3> QED BY <1>0, <2>1, <3>2 DEF Doubles, OnWireIfTwice
  <2> QED BY <1>0, <2>1, <2>2, <2>3, <2>4
          DEF Safe, Local, Empty, Reached, FromFile, Unclaimed, OnlyKnownLeaks, Listed
<1>2. CASE AddNext
  <2> DEFINE a == Head(todo)
  <2>1. /\ pc = "adding" /\ todo # << >> /\ todo \in Seq(Addresses)
        /\ UNCHANGED <<os, probing, hosts, mute, cache, late, by, file, ops, chosen, known, missed, twice>>
        /\ \/ /\ IsLocal(a) /\ todo' = Tail(todo)
              /\ UNCHANGED <<lo, wire, pc, devices, faults, leaked>>
           \/ /\ ~IsLocal(a) /\ todo' = Tail(todo) /\ wire' = wire \cup {a} /\ lo' \in {lo, lo \cup {a}}
              /\ UNCHANGED <<pc, devices, faults, leaked>>
           \/ /\ pc' = (IF by = "boot" THEN "down" ELSE "running") /\ devices' = << >> /\ todo' = << >>
              /\ leaked' = leaked \cup lo \cup wire /\ faults' \in 0 .. MaxFaults /\ UNCHANGED <<lo, wire>>
    BY <1>0, <1>2, LanAssumption DEF AddNext, SetupFails, Fault, TypeOK, host, lan, search
  <2>2. /\ a \in Addresses /\ Tail(todo) \in Seq(Addresses) /\ Len(Tail(todo)) = Len(todo) - 1 /\ Len(todo) \in Nat
        /\ \A k \in 1 .. Len(Tail(todo)) : Tail(todo)[k] = todo[k + 1]
        /\ Len(todo) >= 1 /\ todo[1] = a
    BY <2>1, HeadTailProperties, EmptySeq, LenProperties
  <2> HIDE DEF a
  <2>3. ASSUME todo' = Tail(todo) PROVE ToDo' \subseteq ToDo /\ \A x \in ToDo \ ToDo' : x = a
    <3>1. \A k \in 1 .. Len(todo') : todo'[k] \in ToDo
      BY <2>2, <2>3 DEF ToDo
    <3>2. ASSUME NEW k \in 1 .. Len(todo), todo[k] # a PROVE todo[k] \in ToDo'
      <4>1. k - 1 \in 1 .. Len(todo') /\ todo'[k - 1] = todo[k]
        BY <2>2, <2>3, <3>2
      <4> QED BY <4>1 DEF ToDo
    <3> QED BY <3>1, <3>2 DEF ToDo
  <2>4. TypeOK'
    <3>1. lo' \subseteq Addresses /\ wire' \subseteq Addresses /\ leaked' \subseteq Addresses
      BY <1>0, <2>1, <2>2 DEF TypeOK, Sets
    <3>2. todo' \in Seq(Addresses) /\ devices' \in Seq(Addresses) /\ faults' \in 0 .. MaxFaults
      BY <1>0, <2>1, <2>2, LanAssumption, EmptySeq DEF TypeOK
    <3>3. pc' \in {"down", "adding", "running"}  BY <2>1
    <3> QED BY <1>0, <2>1, <3>1, <3>2, <3>3 DEF TypeOK, Sets
  <2>5. CASE /\ devices' = << >> /\ todo' = << >> /\ pc' = (IF by = "boot" THEN "down" ELSE "running")
             /\ leaked' = leaked \cup lo \cup wire /\ UNCHANGED <<lo, wire>>
    <3>1. Empty' /\ Reached' /\ ListedAreLocal' /\ OnlyKnownLeaks' /\ FromFile'
      BY <2>5 DEF Empty, Reached, ListedAreLocal, Listed, OnlyKnownLeaks, FromFile
    <3>2. Doubles => Doubles'  BY <1>0, <2>1, <2>5 DEF Doubles, OnWireIfTwice
    <3>3. Unclaimed'  BY <1>0, <2>1 DEF Unclaimed
    <3> QED BY <2>4, <3>1, <3>2, <3>3 DEF Safe, Local
  <2>6. CASE /\ todo' = Tail(todo) /\ UNCHANGED <<pc, devices, leaked>>
             /\ \/ IsLocal(a) /\ UNCHANGED <<lo, wire>>
                \/ wire' = wire \cup {a} /\ lo' \in {lo, lo \cup {a}}
    <3>1. lo \subseteq lo' /\ wire \subseteq wire' /\ a \in lo' \cup wire' /\ lo' \cup wire' \subseteq lo \cup wire \cup {a}
      BY <2>6 DEF IsLocal
    <3>2. Reached'  BY <1>0, <2>3, <2>6, <3>1 DEF Reached, Listed, IsLocal
    <3>3. a \in Listed  BY <1>0, <2>1, <2>2 DEF Reached, ToDo
    <3>4. OnlyKnownLeaks'  BY <1>0, <2>6, <3>1, <3>3 DEF OnlyKnownLeaks, Listed
    <3>5. lo' \ wire' \subseteq lo \ wire  BY <2>6
    <3>6. Doubles => Doubles'  BY <1>0, <2>1, <2>6, <3>5 DEF Doubles, OnWireIfTwice
    <3>7. FromFile' /\ Empty' /\ ListedAreLocal' /\ Unclaimed'
      BY <1>0, <2>1, <2>6 DEF FromFile, Empty, ListedAreLocal, Unclaimed
    <3> QED BY <2>4, <3>2, <3>4, <3>6, <3>7 DEF Safe, Local
  <2> QED BY <2>1, <2>5, <2>6
<1> QED BY <1>1, <1>2

(* A new device's address goes on the loopback. *)
LEMMA AddDeviceStep ==
    ASSUME Safe, NEW a \in Addresses, AddDevice(a) PROVE Safe' /\ (Local => Local')
<1>0. TypeOK /\ Unclaimed /\ OnlyKnownLeaks  BY DEF Safe
<1>1. devices \in Seq(Addresses) /\ Len(devices) \in Nat  BY <1>0, LenProperties DEF TypeOK
<1>2. /\ pc = "running" /\ a \notin Listed /\ lo' = lo \cup {a} /\ ops' \in 0 .. MaxOps
      /\ devices' = Append(devices, a) /\ file' = devices'
      /\ UNCHANGED <<os, probing, hosts, mute, cache, late, wire, pc, by, todo, faults, chosen, known, missed, leaked, twice>>
  BY <1>0, LanAssumption DEF AddDevice, Op, TypeOK, host, lan, search
<1>3. /\ devices' \in Seq(Addresses) /\ Len(devices') = Len(devices) + 1
      /\ \A i \in 1 .. Len(devices) : devices'[i] = devices[i]
      /\ devices'[Len(devices) + 1] = a
  BY <1>1, <1>2, AppendProperties
<1>4. \A i \in 1 .. Len(devices') : i \in 1 .. Len(devices) \/ i = Len(devices) + 1
  BY <1>1, <1>3
<1>5. \A i \in 1 .. Len(devices) : i \in 1 .. Len(devices') /\ devices'[i] = devices[i]
  BY <1>1, <1>3
<1>6. Len(devices) + 1 \in 1 .. Len(devices')  BY <1>1, <1>3
<1>7. Listed' = Listed \cup {a}
  <2>1. \A x \in Listed' : x \in Listed \cup {a}  BY <1>3, <1>4 DEF Listed
  <2>2. \A x \in Listed : x \in Listed'  BY <1>5 DEF Listed
  <2>3. a \in Listed'  BY <1>3, <1>6 DEF Listed
  <2> QED BY <2>1, <2>2, <2>3
<1>8. TypeOK'
  <2>1. lo' \subseteq Addresses  BY <1>0, <1>2 DEF TypeOK, Sets
  <2> QED BY <1>0, <1>2, <1>3, <2>1 DEF TypeOK, Sets
<1>9. OnlyKnownLeaks'  BY <1>0, <1>2, <1>7 DEF OnlyKnownLeaks
<1>10. ASSUME ListedAreLocal PROVE ListedAreLocal'
  BY <1>2, <1>7, <1>10 DEF ListedAreLocal, IsLocal
<1>11. ASSUME Doubles PROVE Doubles'
  <2>1. ASSUME NEW x \in (lo' \ wire') \ twice', NEW i \in 1 .. Len(devices'), NEW j \in 1 .. Len(devices'),
               devices'[i] = x, devices'[j] = x
        PROVE  i = j
    <3>1. CASE x = a
      <4>1. \A k \in 1 .. Len(devices) : devices'[k] # a  BY <1>2, <1>5 DEF Listed
      <4> QED BY <1>4, <2>1, <3>1, <4>1
    <3>2. CASE x # a
      <4>1. i \in 1 .. Len(devices) /\ j \in 1 .. Len(devices)  BY <1>3, <1>4, <2>1, <3>2
      <4>2. x \in (lo \ wire) \ twice /\ devices[i] = x /\ devices[j] = x  BY <1>2, <1>5, <2>1, <3>2, <4>1
      <4> QED BY <1>11, <4>1, <4>2 DEF Doubles, OnWireIfTwice
    <3> QED BY <3>1, <3>2
  <2>2. file' # NoFile  BY <1>2, <1>3, LanAssumption
  <2>3. OnWireIfTwice(devices)'  BY <2>1 DEF OnWireIfTwice
  <2>4. OnWireIfTwice(file)'  BY <1>2, <2>3 DEF OnWireIfTwice
  <2> QED BY <1>2, <2>2, <2>3, <2>4 DEF Doubles
<1> QED BY <1>0, <1>2, <1>8, <1>9, <1>10, <1>11 DEF Safe, Local, Empty, Reached, FromFile, Unclaimed

(* A removed device's address leaves the loopback, also when it is another's. *)
LEMMA RemoveDeviceStep ==
    ASSUME Safe, NEW i \in 1 .. Len(devices), RemoveDevice(i) PROVE Safe' /\ (Local => Local')
<1> DEFINE r == devices[i]
<1>0. TypeOK /\ Unclaimed /\ OnlyKnownLeaks  BY DEF Safe
<1>1. devices \in Seq(Addresses) /\ Len(devices) \in Nat /\ r \in Addresses  BY <1>0, LenProperties DEF TypeOK
<1>2. /\ pc = "running" /\ lo' = lo \ {r} /\ leaked' = leaked \cup ({r} \cap wire) /\ ops' \in 0 .. MaxOps
      /\ devices' = SubSeq(devices, 1, i - 1) \o SubSeq(devices, i + 1, Len(devices)) /\ file' = devices'
      /\ UNCHANGED <<os, probing, hosts, mute, cache, late, wire, pc, by, todo, faults, chosen, known, missed, twice>>
  BY <1>0, LanAssumption DEF RemoveDevice, Op, TypeOK, host, lan, search
<1> DEFINE o(n) == IF n < i THEN n ELSE n + 1
<1>3. /\ devices' \in Seq(Addresses) /\ Len(devices') = Len(devices) - 1
      /\ \A j \in 1 .. Len(devices) - 1 : devices'[j] = IF j < i THEN devices[j] ELSE devices[j + 1]
  <2>1. devices' = SubSeq(devices, 1, i - 1) \o SubSeq(devices, i + 1, Len(devices))  BY <1>2
  <2> QED BY ONLY <1>1, <2>1, CutOut
<1>4. \A j \in 1 .. Len(devices') : o(j) \in 1 .. Len(devices) /\ o(j) # i /\ devices'[j] = devices[o(j)]
  BY <1>1, <1>3
<1>5. \A j, k \in 1 .. Len(devices') : o(j) = o(k) => j = k  BY <1>1, <1>3
<1>6. \A k \in 1 .. Len(devices) : k # i => \E j \in 1 .. Len(devices') : devices'[j] = devices[k]
  <2> SUFFICES ASSUME NEW k \in 1 .. Len(devices), k # i PROVE \E j \in 1 .. Len(devices') : devices'[j] = devices[k]
    OBVIOUS
  <2>1. CASE k < i
    <3>1. k \in 1 .. Len(devices') /\ devices'[k] = devices[k]  BY <1>1, <1>3, <2>1
    <3> QED BY <3>1
  <2>2. CASE ~(k < i)
    <3>1. k - 1 \in 1 .. Len(devices') /\ devices'[k - 1] = devices[k]  BY <1>1, <1>3, <2>2
    <3> QED BY <3>1
  <2> QED BY <2>1, <2>2
<1> HIDE DEF o
<1>7. \A x \in Listed' : x \in Listed  BY <1>4 DEF Listed
<1>8. \A x \in Listed : x \in Listed' \/ x = r  BY <1>6 DEF Listed
<1> HIDE DEF r
<1>9. TypeOK'
  <2>1. lo' \subseteq Addresses /\ leaked' \subseteq Addresses  BY <1>0, <1>1, <1>2 DEF TypeOK, Sets
  <2>2. \A s \in Sets' : s \subseteq Addresses  BY <1>0, <1>2, <2>1 DEF TypeOK, Sets
  <2>3. devices' \in Seq(Addresses) /\ file' \in Seq(Addresses)  BY <1>2, <1>3
  <2> QED BY <1>0, <1>2, <2>2, <2>3 DEF TypeOK
<1>10. OnlyKnownLeaks'  BY <1>0, <1>2, <1>8 DEF OnlyKnownLeaks
<1>11. ASSUME Doubles, ListedAreLocal PROVE ListedAreLocal'
  <2> SUFFICES ASSUME NEW a \in Listed', a \notin twice PROVE a \in lo' \cup wire'
    <3>1. twice' = twice  BY <1>2
    <3> QED BY <3>1 DEF ListedAreLocal, IsLocal
  <2>1. a \in lo \cup wire  BY <1>2, <1>7, <1>11 DEF ListedAreLocal, IsLocal
  <2>2. CASE a # r  BY <1>2, <2>1, <2>2
  <2>3. CASE a = r
    <3>1. PICK k \in 1 .. Len(devices) : k # i /\ devices[k] = a  BY <1>4 DEF Listed
    <3>2. devices[i] = a  BY <2>3 DEF r
    <3>3. a \notin lo \ wire  BY <1>11, <3>1, <3>2 DEF Doubles, OnWireIfTwice
    <3> QED BY <1>2, <2>1, <3>3
  <2> QED BY <2>2, <2>3
<1>12. ASSUME Doubles PROVE Doubles'
  <2>1. ASSUME NEW x \in (lo' \ wire') \ twice', NEW j \in 1 .. Len(devices'), NEW k \in 1 .. Len(devices'),
               devices'[j] = x, devices'[k] = x
        PROVE  j = k
    <3>1. x \in (lo \ wire) \ twice /\ o(j) \in 1 .. Len(devices) /\ o(k) \in 1 .. Len(devices)
          /\ devices[o(j)] = x /\ devices[o(k)] = x
      BY <1>2, <1>4, <2>1
    <3>2. o(j) = o(k)  BY <1>12, <3>1 DEF Doubles, OnWireIfTwice
    <3> QED BY <1>5, <3>2
  <2>2. file' # NoFile  BY <1>2, <1>3, LanAssumption
  <2>3. OnWireIfTwice(devices)'  BY <2>1 DEF OnWireIfTwice
  <2>4. OnWireIfTwice(file)'
    <3>1. file' = devices'  BY <1>2
    <3> QED BY <2>3, <3>1 DEF OnWireIfTwice
  <2> QED BY <1>2, <2>2, <2>3, <2>4 DEF Doubles
<1> QED BY <1>0, <1>2, <1>9, <1>10, <1>11, <1>12 DEF Safe, Local, Empty, Reached, FromFile, Unclaimed

(* A tear-down takes no address but those of the devices from the machine, and
   none from a list. *)
LEMMA StopSteps ==
    ASSUME Safe, (\E devs \in Imports : Import(devs)) \/ Shutdown \/ Crash \/ Reboot
    PROVE  Safe' /\ (Local => Local')
<1>0. TypeOK /\ Unclaimed /\ OnlyKnownLeaks  BY DEF Safe
<1>1. /\ devices' = << >> /\ UNCHANGED <<os, probing, hosts, mute, cache, late, file, faults, chosen, known, missed>>
      /\ twice \subseteq twice' /\ twice' \subseteq Addresses
      /\ by' \in {"boot", "import"} /\ ops' \in 0 .. MaxOps /\ todo' \in Seq(Addresses)
      /\ \/ pc' = "down" /\ todo' = << >>
         \/ /\ pc' = "tornDown" /\ by' = "import"
            /\ \A i, j \in 1 .. Len(todo') : todo'[i] = todo'[j] => i = j \/ todo'[i] \in twice'
      /\ \/ lo' = lo \ Listed /\ wire' = wire \ Listed /\ UNCHANGED leaked
         \/ UNCHANGED <<lo, wire>> /\ leaked' = leaked \cup (Listed \cap (lo \cup wire))
         \/ UNCHANGED <<lo, wire>> /\ leaked' = leaked \cup lo \cup wire
         \/ lo' = {} /\ wire' = {} /\ UNCHANGED leaked
  <2>0. twice \subseteq Addresses  BY <1>0 DEF TypeOK, Sets
  <2>1. CASE \E devs \in Imports : Import(devs)
    <3>1. PICK devs \in Imports : Import(devs)  BY <2>1
    <3>2. devs \in Seq(Addresses) /\ Repeated(devs) \subseteq Addresses
      BY LanAssumption, LenProperties DEF Repeated
    <3>3. todo' = devs /\ twice' = twice \cup Repeated(devs)  BY <3>1 DEF Import
    <3>4. ASSUME NEW i \in 1 .. Len(devs), NEW j \in 1 .. Len(devs), devs[i] = devs[j], i # j
          PROVE  devs[i] \in Repeated(devs)
      <4>1. i < j \/ j < i  BY <3>2, <3>4, LenProperties
      <4> QED BY <3>4, <4>1 DEF Repeated
    <3>5. \A i, j \in 1 .. Len(todo') : todo'[i] = todo'[j] => i = j \/ todo'[i] \in twice'
      BY <3>3, <3>4
    <3>6. twice \subseteq twice' /\ twice' \subseteq Addresses /\ todo' \in Seq(Addresses)
      BY <2>0, <3>2, <3>3
    <3> HIDE DEF Repeated
    <3> QED BY <1>0, <3>1, <3>5, <3>6, LanAssumption DEF Import, TeardownLANIPs, Op, TypeOK, host, lan, search
  <2>2. CASE Shutdown
    BY <1>0, <2>0, <2>2 DEF Shutdown, Stopped, TeardownLANIPs, TypeOK, host, lan, search
  <2>3. CASE Crash
    BY <1>0, <2>0, <2>3 DEF Crash, Stopped, TypeOK, host, lan, search
  <2>4. CASE Reboot
    BY <1>0, <2>0, <2>4, LanAssumption DEF Reboot, Stopped, Op, TypeOK, host, lan, search
  <2> QED BY <2>1, <2>2, <2>3, <2>4
<1>2. TypeOK'
  <2>1. lo' \subseteq Addresses /\ wire' \subseteq Addresses /\ leaked' \subseteq Addresses
    BY <1>0, <1>1 DEF TypeOK, Sets
  <2>2. devices' \in Seq(Addresses)  BY <1>1
  <2> QED BY <1>0, <1>1, <2>1, <2>2 DEF TypeOK, Sets
<1>3. lo' \cup wire' \subseteq leaked'  BY <1>0, <1>1 DEF OnlyKnownLeaks
<1>4. lo' \ wire' \subseteq lo \ wire  BY <1>1
<1>5. Doubles => Doubles'
  <2>1. OnWireIfTwice(devices)'  BY <1>1 DEF OnWireIfTwice
  <2>2. OnWireIfTwice(file) => OnWireIfTwice(file)'  BY <1>1, <1>4 DEF OnWireIfTwice
  <2>3. lo \subseteq wire => lo' \subseteq wire'  BY <1>4
  <2>4. pc' = "tornDown" =>
            \A i, j \in 1 .. Len(todo') : todo'[i] = todo'[j] => i = j \/ todo'[i] \in twice'
    BY <1>1
  <2> QED BY <1>1, <2>1, <2>2, <2>3, <2>4 DEF Doubles
<1> QED BY <1>0, <1>1, <1>2, <1>3, <1>5
        DEF Safe, Local, Empty, Reached, FromFile, Unclaimed, OnlyKnownLeaks, ListedAreLocal

(* Hosts that come are late. *)
LEMMA HostSteps ==
    ASSUME Safe, (\E a \in PoolSet : HostJoins(a) \/ HostSeen(a) \/ HostHushes(a) \/ HostLeaves(a)) \/ UNCHANGED vars
    PROVE  Safe' /\ (Local => Local')
<1>0. TypeOK /\ Empty /\ Reached /\ FromFile /\ Unclaimed /\ OnlyKnownLeaks  BY DEF Safe
<1>1. /\ UNCHANGED <<os, probing, lo, wire, pc, by, todo, devices, file, ops, faults, chosen, known, missed, leaked, twice>>
      /\ hosts' \subseteq Addresses /\ mute' \subseteq Addresses
      /\ cache' \subseteq Addresses /\ late' \subseteq Addresses
      /\ hosts' \ late' \subseteq hosts \ late
  <2>1. \A s \in {hosts, mute, cache, late} : s \subseteq Addresses  BY <1>0 DEF TypeOK, Sets
  <2>2. PoolSet \subseteq Addresses  BY DEF Addresses, Subnet
  <2>3. ASSUME NEW a \in PoolSet, HostJoins(a)
        PROVE  /\ UNCHANGED <<os, probing, lo, wire, pc, by, todo, devices, file, ops, faults, chosen, known, missed, leaked, twice>>
               /\ hosts' = hosts \cup {a} /\ late' = late \cup {a} /\ cache' = cache /\ mute' = mute
    BY <2>3 DEF HostJoins, host, search
  <2>4. ASSUME NEW a \in PoolSet, HostSeen(a)
        PROVE  /\ UNCHANGED <<os, probing, lo, wire, pc, by, todo, devices, file, ops, faults, chosen, known, missed, leaked, twice>>
               /\ hosts' = hosts /\ late' = late /\ cache' = cache \cup {a} /\ mute' = mute
    BY <2>4 DEF HostSeen, host, search
  <2>5. ASSUME NEW a \in PoolSet, HostLeaves(a)
        PROVE  /\ UNCHANGED <<os, probing, lo, wire, pc, by, todo, devices, file, ops, faults, chosen, known, missed, leaked, twice>>
               /\ hosts' = hosts \ {a} /\ late' = late \ {a} /\ cache' = cache /\ mute' = mute \ {a}
    BY <2>5 DEF HostLeaves, host, search
  <2>7. ASSUME NEW a \in PoolSet, HostHushes(a)
        PROVE  /\ UNCHANGED <<os, probing, lo, wire, pc, by, todo, devices, file, ops, faults, chosen, known, missed, leaked, twice>>
               /\ hosts' = hosts /\ late' = late /\ cache' = cache
               /\ mute' \in {mute \ {a}, mute \cup {a}}
    BY <2>7 DEF HostHushes, host, search
  <2>6. UNCHANGED vars => UNCHANGED <<os, probing, lo, wire, hosts, mute, cache, late, pc, by, todo, devices, file, ops, faults, chosen, known, missed, leaked, twice>>
    BY DEF vars, host, lan, search
  <2> QED BY <2>1, <2>2, <2>3, <2>4, <2>5, <2>6, <2>7
<1>2. TypeOK'  BY <1>0, <1>1 DEF TypeOK, Sets
<1>3. Unclaimed'  BY <1>0, <1>1 DEF Unclaimed
<1>4. Local => Local'  BY <1>1 DEF Local, Doubles, OnWireIfTwice, ListedAreLocal, Listed, IsLocal
<1> QED BY <1>0, <1>1, <1>2, <1>3, <1>4
        DEF Safe, Empty, Reached, ToDo, FromFile, OnlyKnownLeaks, Listed, IsLocal

----------------------------------------------------------------------------

(* Every step. *)
LEMMA StepInv == Safe /\ [Next]_vars => Safe' /\ (Local => Local')
<1> SUFFICES ASSUME Safe, [Next]_vars PROVE Safe' /\ (Local => Local')  OBVIOUS
<1>1. CASE Boot \/ ImportSetup  BY <1>1, SetupSteps
<1>2. CASE AddNext \/ SetupDone  BY <1>2, AddSteps
<1>3. CASE \E a \in Addresses : AddDevice(a)  BY <1>3, AddDeviceStep
<1>4. CASE \E i \in 1 .. Len(devices) : RemoveDevice(i)  BY <1>4, RemoveDeviceStep
<1>5. CASE (\E devs \in Imports : Import(devs)) \/ Shutdown \/ Crash \/ Reboot  BY <1>5, StopSteps
<1>6. CASE (\E a \in PoolSet : HostJoins(a) \/ HostSeen(a) \/ HostHushes(a) \/ HostLeaves(a)) \/ UNCHANGED vars
  BY <1>6, HostSteps
<1> QED BY <1>1, <1>2, <1>3, <1>4, <1>5, <1>6 DEF Next

(* Requests, faults, crashes and hosts leave Safe invariant. *)
THEOREM LanModeInvariant == Spec => []Safe
<1>1. Safe /\ [Next]_vars => Safe'  BY StepInv
<1>2. Init => Safe  BY InitInv
<1> QED BY <1>1, <1>2, PTL DEF Spec

(* SetupLANIPs gives no device an address that the machine or the ARP cache had
   at the search; if a host uses it, that host came after the search or left the
   probe (ProbeIP) unanswered, or there was no probe. *)
THEOREM NoConflictOnLan == Spec => []NoAddressConflict
<1>1. Safe => NoAddressConflict  BY DEF Safe, Unclaimed, NoAddressConflict
<1> QED BY <1>1, LanModeInvariant, PTL

(* An alias that no device of the list accounts for was given up by a crash, by
   a set-up that failed half-way, by RemoveIP on the wrong interface, or by a
   tear-down on Linux. *)
THEOREM AliasesAccountedFor == Spec => []OnlyKnownLeaks
<1>1. Safe => OnlyKnownLeaks  BY DEF Safe
<1> QED BY <1>1, LanModeInvariant, PTL

(* Whenever devices run, every device in the list has its address on the
   machine, but for addresses that an imported file gave to two devices. *)
THEOREM ListedDevicesReachable == Spec => []ListedAreLocal
<1>1. Safe /\ Local /\ [Next]_vars => (Safe /\ Local)'  BY StepInv
<1>2. Init => Safe /\ Local  BY InitInv
<1>3. Safe /\ Local => ListedAreLocal  BY DEF Local
<1> QED BY <1>1, <1>2, <1>3, PTL DEF Spec

(* A boot from the state file, however often SetupLANIPs was interrupted before,
   gives each device with an address of the subnet that address. *)
THEOREM RestartKeepsLanAddresses == Spec => RestartKeepsAddresses
<1> DEFINE A ==
      pc = "adding" /\ by = "boot" /\ pc' = "running" /\ file # NoFile =>
        /\ Len(devices') = Len(file)
        /\ \A i \in 1 .. Len(file) : file[i] \in Subnet => devices'[i] = file[i]
<1>1. Safe /\ [Next]_vars => A
  <2> SUFFICES ASSUME Safe, [Next]_vars, pc = "adding", by = "boot", pc' = "running", file # NoFile
               PROVE  /\ Len(devices') = Len(file)
                      /\ \A i \in 1 .. Len(file) : file[i] \in Subnet => devices'[i] = file[i]
    OBVIOUS
  <2>1. devices' = devices
    BY DEF Next, Boot, AddNext, SetupFails, SetupDone, ImportSetup, Shutdown, Crash, Reboot, Stopped,
           Import, AddDevice, RemoveDevice, HostJoins, HostSeen, HostHushes, HostLeaves,
           vars, host, lan, search
  <2>2. FromFile  BY DEF Safe
  <2> QED BY <2>1, <2>2 DEF FromFile
<1>2. Safe /\ [Next]_vars => [A]_vars  BY <1>1
<1> QED BY <1>2, LanModeInvariant, PTL DEF Spec, RestartKeepsAddresses
=============================================================================

-------------------------- MODULE AccessLogProofs --------------------------
(***************************************************************************)
(* Proofs about the access-log store, and about the page's log panel that  *)
(* is fed from it: for any number of producers and streams, any ring and   *)
(* panel size and any channel capacity.                                    *)
(***************************************************************************)
EXTENDS LogPanel, SequenceTheorems, TLAPS

(* Cutting one slot out of a listener slice leaves a slice of the other
   listeners, in their order. *)
LEMMA DropAtProperties ==
    ASSUME NEW S, NEW s \in Seq(S), NEW i \in 1 .. Len(s)
    PROVE  /\ DropAt(s, i) \in Seq(S)
           /\ Len(DropAt(s, i)) = Len(s) - 1
           /\ \A k \in 1 .. Len(s) - 1 :
                 DropAt(s, i)[k] = IF k < i THEN s[k] ELSE s[k + 1]
<1> DEFINE n == Len(s) - 1
<1>1. n \in Nat /\ DropAt(s, i) \in [1 .. n -> S]
  BY DEF DropAt
<1>2. DropAt(s, i) \in Seq(S) /\ Len(DropAt(s, i)) = n
  BY <1>1, SeqDef, LenProperties
<1> QED  BY <1>2 DEF DropAt

(* Evicting the oldest entry of a full ring before appending keeps the ring
   equal to the newest entries of the history. *)
LEMMA PushedProperties ==
    ASSUME NEW ring \in Seq(Entry), NEW h \in Seq(Entry), NEW e \in Entry,
           Len(ring) <= MaxSize, Len(ring) <= Len(h),
           Len(ring) < MaxSize => Len(ring) = Len(h),
           \A i \in 1 .. Len(ring) : ring[i] = h[Len(h) - Len(ring) + i]
    PROVE  LET r == Pushed(ring, e)
               g == Append(h, e)
           IN  /\ Len(r) <= MaxSize /\ Len(r) <= Len(g)
               /\ Len(r) < MaxSize => Len(r) = Len(g)
               /\ \A i \in 1 .. Len(r) : r[i] = g[Len(g) - Len(r) + i]
<1> DEFINE r == Pushed(ring, e)
<1> DEFINE g == Append(h, e)
<1> DEFINE Goal == /\ Len(r) <= MaxSize /\ Len(r) <= Len(g)
                   /\ Len(r) < MaxSize => Len(r) = Len(g)
                   /\ \A i \in 1 .. Len(r) : r[i] = g[Len(g) - Len(r) + i]
<1>1. MaxSize \in Nat \ {0} /\ Len(ring) \in Nat /\ Len(h) \in Nat
  BY ConstantsAssumption
<1>2. Len(g) = Len(h) + 1 /\ g[Len(h) + 1] = e /\ \A i \in 1 .. Len(h) : g[i] = h[i]
  BY AppendProperties
<1>3. ASSUME Len(ring) < MaxSize PROVE Goal
  <2>1. r = Append(ring, e)
    BY <1>1, <1>3 DEF Pushed
  <2>2. Len(r) = Len(ring) + 1 /\ r[Len(ring) + 1] = e /\ \A i \in 1 .. Len(ring) : r[i] = ring[i]
    BY <2>1, AppendProperties
  <2> HIDE DEF r, g
  <2>3. Len(r) = Len(g) /\ Len(r) <= MaxSize
    BY <1>1, <1>2, <1>3, <2>2
  <2>4. ASSUME NEW i \in 1 .. Len(r) PROVE r[i] = g[Len(g) - Len(r) + i]
    <3>1. Len(g) - Len(r) + i = i
      BY <1>1, <1>2, <2>3
    <3>2. r[i] = g[i]
      <4>1. CASE i = Len(ring) + 1
        BY <1>2, <1>3, <2>2, <4>1
      <4>2. CASE i \in 1 .. Len(ring)
        <5>1. ring[i] = h[Len(h) - Len(ring) + i]
          BY <4>2
        <5>2. Len(h) = Len(ring) /\ i \in Nat
          BY <1>1, <1>3, <4>2
        <5>3. Len(h) - Len(ring) + i = i
          BY <1>1, <5>2
        <5> QED  BY <1>2, <2>2, <4>2, <5>1, <5>2, <5>3
      <4> QED  BY <1>1, <2>2, <4>1, <4>2
    <3> QED  BY <3>1, <3>2
  <2>5. Len(r) <= Len(g)
    BY <1>1, <2>2, <2>3
  <2> HIDE DEF r, g
  <2> QED  BY <2>3, <2>4, <2>5, Zenon
<1>4. ASSUME Len(ring) = MaxSize PROVE Goal
  <2>1. r = Append(Tail(ring), e)
    BY <1>1, <1>4 DEF Pushed
  <2>2. ring # << >>
    BY <1>1, <1>4
  <2>3. /\ Tail(ring) \in Seq(Entry) /\ Len(Tail(ring)) = Len(ring) - 1
        /\ \A i \in 1 .. Len(ring) - 1 : Tail(ring)[i] = ring[i + 1]
    BY <2>2, HeadTailProperties
  <2>4. /\ Len(r) = Len(ring) /\ r[Len(ring)] = e
        /\ \A i \in 1 .. Len(ring) - 1 : r[i] = ring[i + 1]
    BY <1>1, <1>4, <2>1, <2>3, AppendProperties
  <2> HIDE DEF r, g
  <2>5. ASSUME NEW i \in 1 .. Len(r) PROVE r[i] = g[Len(g) - Len(r) + i]
    <3>1. CASE i = Len(r)
      BY <1>1, <1>2, <2>4, <3>1
    <3>2. CASE i < Len(r)
      <4>1. i + 1 \in 1 .. Len(ring) /\ r[i] = ring[i + 1]
        BY <1>1, <2>4, <3>2
      <4>2. ring[i + 1] = h[Len(h) - Len(ring) + (i + 1)]
        BY <4>1
      <4>3. Len(h) - Len(ring) + (i + 1) = Len(g) - Len(r) + i
        BY <1>1, <1>2, <2>4
      <4>4. Len(h) - Len(ring) + (i + 1) \in 1 .. Len(h)
        BY <1>1, <4>1
      <4> QED  BY <1>2, <4>1, <4>2, <4>3, <4>4
    <3> QED  BY <1>1, <2>4, <3>1, <3>2
  <2> QED  BY <1>1, <1>2, <1>4, <2>4, <2>5
<1>5. Goal
  <2>1. Len(ring) < MaxSize \/ Len(ring) = MaxSize
    BY <1>1
  <2> HIDE DEF Goal
  <2> QED  BY <2>1, <1>3, <1>4
<1> QED  BY <1>5

(* Facts about one producer's current entry that every proof below uses. *)
LEMMA CurrentIsEntry ==
    ASSUME TypeOK, NEW p \in Producers, count[p] > 0
    PROVE  Current(p) \in Entry
BY DEF TypeOK, Entry, Current

(* What Add leaves to the notify loop: only a producer inside Add has channels
   to notify, each of them once, and it has added an entry. *)
PendingOK ==
    \A p \in Producers :
        /\ adding[p] => count[p] > 0
        /\ ~adding[p] => pending[p] = << >>
        /\ \A i, j \in 1 .. Len(pending[p]) : pending[p][i] = pending[p][j] => i = j

(* The part of the inductive invariant that types and registrations need. *)
BaseInv == TypeOK /\ RegistrationMatchesStream /\ PendingOK

(* An empty store satisfies it. *)
LEMMA InitBase == Init => BaseInv
<1> SUFFICES ASSUME Init PROVE BaseInv  OBVIOUS
<1> USE ConstantsAssumption
<1>1. /\ entries \in Seq(Entry) /\ history \in Seq(Entry) /\ listeners \in Seq(Channels)
      /\ sent \in [Channels -> Seq(Entry)] /\ pending \in [Producers -> Seq(Channels)]
  BY EmptySeq DEF Init
<1>2. /\ taken \in [Channels -> Nat] /\ count \in [Producers -> Nat]
      /\ \A c \in Channels : Buffered(c) \in 0 .. ChanCap
  BY DEF Init, Buffered
<1>3. /\ closed \in [Channels -> BOOLEAN] /\ adding \in [Producers -> BOOLEAN]
      /\ crashed \in BOOLEAN /\ stream \in [Channels -> {"none", "open", "done"}]
      /\ dropped \in [Channels -> SUBSET Entry] /\ owed \in [Channels -> SUBSET Entry]
      /\ panics \in SUBSET Entry
  BY DEF Init
<1>4. TypeOK
  BY <1>1, <1>2, <1>3 DEF TypeOK
<1>5. RegistrationMatchesStream
  BY DEF Init, RegistrationMatchesStream, IsRegistered
<1>6. PendingOK
  <2>1. \A p \in Producers : adding[p] = FALSE /\ pending[p] = << >>
    BY DEF Init
  <2>2. Len(<< >>) = 0
    BY EmptySeq
  <2>3. ASSUME NEW p \in Producers
        PROVE  \A i, j \in 1 .. Len(pending[p]) : pending[p][i] = pending[p][j] => i = j
    BY <2>1, <2>2
  <2> QED  BY <2>1, <2>3, Zenon DEF PendingOK
<1> QED  BY <1>4, <1>5, <1>6 DEF BaseInv

(* Every step keeps the types: a send respects the channel's capacity. *)
LEMMA StepType == BaseInv /\ [Next]_vars => TypeOK'
<1> SUFFICES ASSUME BaseInv, [Next]_vars PROVE TypeOK'  OBVIOUS
<1> USE ConstantsAssumption
<1>a. TypeOK /\ PendingOK /\ RegistrationMatchesStream
  BY DEF BaseInv
<1>1. ASSUME NEW p \in Producers, AddEntry(p) PROVE TypeOK'
  <2> DEFINE e == [by |-> p, n |-> count[p] + 1]
  <2>1. e \in Entry
    BY <1>a DEF TypeOK, Entry
  <2>2. Pushed(entries, e) \in Seq(Entry) /\ Append(history, e) \in Seq(Entry)
    BY <1>a, <2>1 DEF TypeOK, Pushed
  <2>3. /\ entries' = Pushed(entries, e) /\ history' = Append(history, e)
        /\ owed' = [c \in Channels |-> IF IsRegistered(c) THEN owed[c] \cup {e} ELSE owed[c]]
        /\ count' = [count EXCEPT ![p] = @ + 1]
        /\ pending' = [pending EXCEPT ![p] = listeners]
        /\ adding' = [adding EXCEPT ![p] = TRUE]
        /\ UNCHANGED <<listeners, sent, taken, closed, stream, crashed, dropped, panics>>
    BY <1>1, Zenon DEF AddEntry
  <2> HIDE DEF e
  <2>4. owed' \in [Channels -> SUBSET Entry]
    BY <1>a, <2>1, <2>3 DEF TypeOK
  <2>5. count' \in [Producers -> Nat] /\ pending' \in [Producers -> Seq(Channels)]
    BY <1>a, <2>3 DEF TypeOK
  <2>6. adding' \in [Producers -> BOOLEAN]
    BY <1>a, <2>3 DEF TypeOK
  <2>7. \A c \in Channels : Buffered(c)' \in 0 .. ChanCap
    BY <1>a, <2>3 DEF TypeOK, Buffered
  <2>8. /\ UNCHANGED <<listeners, sent, taken, closed, stream, crashed, dropped, panics>>
        /\ entries' \in Seq(Entry) /\ history' \in Seq(Entry)
    BY <2>2, <2>3
  <2> QED  BY <1>a, <2>4, <2>5, <2>6, <2>7, <2>8, Zenon DEF TypeOK
<1>2. ASSUME NEW p \in Producers, Notify(p) PROVE TypeOK'
  <2> DEFINE c == Head(pending[p])
  <2>7. pending[p] \in Seq(Channels) /\ pending[p] # << >>
    BY <1>a, <1>2 DEF Notify, TypeOK
  <2>8. adding[p] \in BOOLEAN /\ count[p] > 0  BY <1>a, <2>7 DEF TypeOK, PendingOK
  <2>1. c \in Channels /\ Tail(pending[p]) \in Seq(Channels) /\ Current(p) \in Entry
    BY <1>a, <2>7, <2>8, CurrentIsEntry, HeadTailProperties
  <2>2. pending' \in [Producers -> Seq(Channels)]
    BY <1>a, <1>2, <2>1 DEF Notify, TypeOK
  <2>3. Offer(p, c) /\ taken' = taken
    BY <1>2 DEF Notify
  <2> HIDE DEF c
  <2>6. UNCHANGED <<entries, listeners, taken, closed, stream, adding, count, crashed, history, panics, owed>>
    BY <1>2 DEF Notify
  <2>4. CASE Buffered(c) < ChanCap
    <3>1. sent' = [sent EXCEPT ![c] = Append(sent[c], Current(p))] /\ dropped' = dropped
      BY <2>3, <2>4 DEF Offer
    <3>2. Append(sent[c], Current(p)) \in Seq(Entry) /\ Len(Append(sent[c], Current(p))) = Len(sent[c]) + 1
      BY <1>a, <2>1, AppendProperties DEF TypeOK
    <3>3. sent' \in [Channels -> Seq(Entry)]
      BY <1>a, <3>1, <3>2 DEF TypeOK
    <3>4. \A d \in Channels : Len(sent'[d]) - taken'[d] \in 0 .. ChanCap
      <4>1. ASSUME NEW d \in Channels, d # c PROVE sent'[d] = sent[d]
        BY <1>a, <2>1, <3>1, <4>1 DEF TypeOK
      <4>2. Len(sent'[c]) = Len(sent[c]) + 1
        BY <1>a, <2>1, <3>1, <3>2 DEF TypeOK
      <4>3. ASSUME NEW d \in Channels
            PROVE  Len(sent[d]) - taken[d] \in 0 .. ChanCap /\ Len(sent[d]) \in Nat /\ taken[d] \in Nat
        BY <1>a DEF TypeOK, Buffered
      <4>4. Len(sent[c]) - taken[c] < ChanCap
        BY <2>4 DEF Buffered
      <4>7. Len(sent[c]) - taken[c] \in 0 .. ChanCap /\ Len(sent[c]) \in Nat /\ taken'[c] = taken[c]
            /\ taken[c] \in Nat
        BY <2>1, <2>3, <4>3
      <4>5. Len(sent'[c]) - taken'[c] \in 0 .. ChanCap
        BY <4>2, <4>4, <4>7
      <4>6. ASSUME NEW d \in Channels, d # c PROVE Len(sent'[d]) - taken'[d] \in 0 .. ChanCap
        BY <2>3, <4>1, <4>3, <4>6
      <4> QED  BY <4>5, <4>6
    <3>5. \A d \in Channels : Buffered(d)' \in 0 .. ChanCap  BY <3>4 DEF Buffered
    <3> QED  BY <1>a, <2>2, <2>6, <3>1, <3>3, <3>5, Zenon DEF TypeOK
  <2>5. CASE ~(Buffered(c) < ChanCap)
    <3>1. sent' = sent /\ dropped' = [dropped EXCEPT ![c] = @ \cup {Current(p)}]
      BY <2>3, <2>5 DEF Offer
    <3>2. dropped[c] \cup {Current(p)} \in SUBSET Entry
      BY <1>a, <2>1 DEF TypeOK
    <3>3. dropped' \in [Channels -> SUBSET Entry]
      BY <1>a, <3>1, <3>2 DEF TypeOK
    <3>4. \A d \in Channels : Buffered(d)' \in 0 .. ChanCap
      BY <1>a, <2>6, <3>1 DEF TypeOK, Buffered
    <3> QED  BY <1>a, <2>2, <2>6, <3>1, <3>3, <3>4, Zenon DEF TypeOK
  <2> QED  BY <2>4, <2>5
<1>3. ASSUME NEW p \in Producers, NotifyPanics(p) PROVE TypeOK'
  <2>1. Current(p) \in Entry
    BY <1>a, <1>3, CurrentIsEntry DEF NotifyPanics, PendingOK
  <2>2. /\ panics' = panics \cup {Current(p)} /\ crashed' = (p \notin HttpProducers)
        /\ pending' = [pending EXCEPT ![p] = << >>] /\ adding' = [adding EXCEPT ![p] = FALSE]
        /\ UNCHANGED <<entries, listeners, sent, taken, closed, stream, count, history, dropped, owed>>
    BY <1>3, Zenon DEF NotifyPanics
  <2>3. panics' \in SUBSET Entry
    <3>1. panics \in SUBSET Entry  BY <1>a DEF TypeOK
    <3> QED  BY <2>1, <2>2, <3>1
  <2>4. crashed' \in BOOLEAN  BY <2>2, Zenon
  <2>5. pending' \in [Producers -> Seq(Channels)]
    <3>1. << >> \in Seq(Channels) /\ pending \in [Producers -> Seq(Channels)]  BY <1>a, EmptySeq DEF TypeOK
    <3> QED  BY <2>2, <3>1
  <2>6. adding' \in [Producers -> BOOLEAN]
    <3>1. adding \in [Producers -> BOOLEAN]  BY <1>a DEF TypeOK
    <3> QED  BY <2>2, <3>1
  <2>7. \A c \in Channels : Buffered(c)' \in 0 .. ChanCap  BY <1>a, <2>2 DEF TypeOK, Buffered
  <2> QED  BY <1>a, <2>2, <2>3, <2>4, <2>5, <2>6, <2>7, Zenon DEF TypeOK
<1>4. ASSUME NEW p \in Producers, AddReturns(p) PROVE TypeOK'
  BY <1>a, <1>4 DEF AddReturns, TypeOK, Buffered
<1>5. ASSUME NEW c \in Channels, Subscribe(c) PROVE TypeOK'
  BY <1>a, <1>5 DEF Subscribe, TypeOK, Buffered
<1>6. ASSUME NEW c \in Channels, Receive(c) PROVE TypeOK'
  BY <1>a, <1>6 DEF Receive, TypeOK, Buffered
<1>7. ASSUME NEW c \in Channels, Unsubscribe(c) PROVE TypeOK'
  <2>1. CASE IsRegistered(c)
    <3>1. PICK i \in 1 .. Len(listeners) : listeners' = DropAt(listeners, i)
                                          /\ closed' = [closed EXCEPT ![c] = TRUE]
      BY <1>7, <2>1 DEF Unsubscribe, RemoveListener
    <3>2. listeners' \in Seq(Channels)
      BY <1>a, <3>1, DropAtProperties DEF TypeOK
    <3> QED  BY <1>a, <1>7, <3>1, <3>2 DEF Unsubscribe, TypeOK, Buffered
  <2>2. CASE ~IsRegistered(c)
    BY <1>a, <1>7, <2>2 DEF Unsubscribe, TypeOK, Buffered
  <2> QED  BY <2>1, <2>2
<1>8. CASE UNCHANGED vars
  BY <1>a, <1>8 DEF vars, TypeOK, Buffered
<1> QED
  BY <1>1, <1>2, <1>3, <1>4, <1>5, <1>6, <1>7, <1>8 DEF Next, ProducerStep, StreamStep

(* Every step keeps channels and listener slice in agreement. *)
LEMMA StepRegistration == BaseInv /\ [Next]_vars => RegistrationMatchesStream'
<1> SUFFICES ASSUME BaseInv, [Next]_vars PROVE RegistrationMatchesStream'  OBVIOUS
<1>a. TypeOK /\ RegistrationMatchesStream
  BY DEF BaseInv
<1>1. CASE UNCHANGED <<listeners, closed, stream>>
  BY <1>a, <1>1 DEF RegistrationMatchesStream, IsRegistered
<1>2. ASSUME NEW c \in Channels, Subscribe(c) PROVE RegistrationMatchesStream'
  <2>1. /\ Len(listeners') = Len(listeners) + 1
        /\ \A i \in 1 .. Len(listeners) : listeners'[i] = listeners[i]
        /\ listeners'[Len(listeners) + 1] = c
        /\ Len(listeners) \in Nat
    BY <1>a, <1>2, AppendProperties DEF Subscribe, TypeOK
  <2>2. ~IsRegistered(c) /\ closed' = closed /\ stream' = [stream EXCEPT ![c] = "open"]
        /\ stream[c] = "none"
    BY <1>a, <1>2 DEF Subscribe, RegistrationMatchesStream
  <2>3. \A d \in Channels : IsRegistered(d)' <=> (IsRegistered(d) \/ d = c)
    BY <2>1 DEF IsRegistered
  <2>4. \A i, j \in 1 .. Len(listeners') : listeners'[i] = listeners'[j] => i = j
    BY <1>a, <2>1, <2>2 DEF RegistrationMatchesStream, IsRegistered
  <2>5. \A d \in Channels : stream'[d] = IF d = c THEN "open" ELSE stream[d]
    BY <1>a, <2>2 DEF TypeOK
  <2> QED  BY <1>a, <2>2, <2>3, <2>4, <2>5 DEF RegistrationMatchesStream
<1>3. ASSUME NEW c \in Channels, Unsubscribe(c) PROVE RegistrationMatchesStream'
  <2>1. IsRegistered(c)
    BY <1>a, <1>3 DEF Unsubscribe, RegistrationMatchesStream
  <2>2. PICK i \in 1 .. Len(listeners) :
            /\ listeners[i] = c
            /\ listeners' = DropAt(listeners, i)
            /\ closed' = [closed EXCEPT ![c] = TRUE]
    BY <1>3, <2>1 DEF Unsubscribe, RemoveListener
  <2>3. /\ Len(listeners') = Len(listeners) - 1 /\ Len(listeners) \in Nat
        /\ \A k \in 1 .. Len(listeners) - 1 :
              listeners'[k] = IF k < i THEN listeners[k] ELSE listeners[k + 1]
    <3>1. listeners \in Seq(Channels)
      BY <1>a DEF TypeOK
    <3>2. /\ Len(DropAt(listeners, i)) = Len(listeners) - 1
          /\ \A k \in 1 .. Len(listeners) - 1 :
                DropAt(listeners, i)[k] = IF k < i THEN listeners[k] ELSE listeners[k + 1]
      BY <3>1, DropAtProperties
    <3> QED  BY <2>2, <3>1, <3>2
  <2>4. \A j, k \in 1 .. Len(listeners) : listeners[j] = listeners[k] => j = k
    BY <1>a DEF RegistrationMatchesStream
  <2>5. \A j, k \in 1 .. Len(listeners') : listeners'[j] = listeners'[k] => j = k
    BY <2>3, <2>4
  <2>6. ASSUME NEW d \in Channels PROVE IsRegistered(d)' <=> (IsRegistered(d) /\ d # c)
    <3>1. ASSUME IsRegistered(d)' PROVE IsRegistered(d) /\ d # c
      BY <2>2, <2>3, <2>4, <3>1 DEF IsRegistered
    <3>2. ASSUME IsRegistered(d), d # c PROVE IsRegistered(d)'
      <4>1. PICK j \in 1 .. Len(listeners) : listeners[j] = d
        BY <3>2 DEF IsRegistered
      <4>2. CASE j < i
        BY <2>2, <2>3, <4>1, <4>2 DEF IsRegistered
      <4>3. CASE j > i
        <5>1. j - 1 \in 1 .. Len(listeners') /\ listeners'[j - 1] = d
          BY <2>2, <2>3, <4>1, <4>3
        <5> QED  BY <5>1 DEF IsRegistered
      <4> QED  BY <2>2, <3>2, <4>1, <4>2, <4>3
    <3> QED  BY <3>1, <3>2
  <2>7. /\ stream'[c] = "done" /\ closed'[c] = TRUE
        /\ \A d \in Channels \ {c} : stream'[d] = stream[d] /\ closed'[d] = closed[d]
    BY <1>a, <1>3, <2>2 DEF Unsubscribe, TypeOK
  <2>8. \A d \in Channels : closed'[d] <=> stream'[d] = "done"
    BY <1>a, <2>7, Zenon DEF RegistrationMatchesStream
  <2>9. \A d \in Channels : stream'[d] = "open" <=> IsRegistered(d)'
    BY <1>a, <2>6, <2>7 DEF RegistrationMatchesStream
  <2> QED  BY <2>5, <2>8, <2>9 DEF RegistrationMatchesStream
<1> QED
  BY <1>1, <1>2, <1>3 DEF Next, ProducerStep, StreamStep, AddEntry, Notify,
     NotifyPanics, AddReturns, Receive, vars

(* Every step keeps what Add owes to its notify loop. *)
LEMMA StepPending == BaseInv /\ [Next]_vars => PendingOK'
<1> SUFFICES ASSUME BaseInv, [Next]_vars PROVE PendingOK'  OBVIOUS
<1>a. TypeOK /\ RegistrationMatchesStream /\ PendingOK
  BY DEF BaseInv
<1>1. CASE UNCHANGED <<pending, adding, count>>
  BY <1>a, <1>1 DEF PendingOK
<1>2. ASSUME NEW p \in Producers, AddEntry(p) PROVE PendingOK'
  <2>1. /\ pending'[p] = listeners /\ adding'[p] = TRUE /\ count'[p] = count[p] + 1
        /\ \A q \in Producers \ {p} :
              pending'[q] = pending[q] /\ adding'[q] = adding[q] /\ count'[q] = count[q]
    BY <1>a, <1>2 DEF AddEntry, TypeOK
  <2>2. count'[p] > 0
    BY <1>a, <2>1 DEF TypeOK
  <2>3. \A i, j \in 1 .. Len(pending'[p]) : pending'[p][i] = pending'[p][j] => i = j
    <3>1. \A i, j \in 1 .. Len(listeners) : listeners[i] = listeners[j] => i = j
      BY <1>a DEF RegistrationMatchesStream
    <3> QED  BY <2>1, <3>1
  <2>4. ASSUME NEW q \in Producers, q # p
        PROVE  /\ adding'[q] => count'[q] > 0
               /\ ~adding'[q] => pending'[q] = << >>
               /\ \A i, j \in 1 .. Len(pending'[q]) : pending'[q][i] = pending'[q][j] => i = j
    <3>1. pending'[q] = pending[q] /\ adding'[q] = adding[q] /\ count'[q] = count[q]
      BY <2>1, <2>4
    <3> QED  BY <1>a, <3>1 DEF PendingOK
  <2>5. adding'[p]
    BY <2>1
  <2> QED  BY <2>2, <2>3, <2>4, <2>5 DEF PendingOK
<1>3. ASSUME NEW p \in Producers, Notify(p) PROVE PendingOK'
  <2>1. /\ pending' = [pending EXCEPT ![p] = Tail(pending[p])]
        /\ pending[p] # << >> /\ pending[p] \in Seq(Channels) /\ UNCHANGED <<adding, count>>
    BY <1>a, <1>3 DEF Notify, TypeOK
  <2>2. /\ Len(Tail(pending[p])) = Len(pending[p]) - 1
        /\ \A i \in 1 .. Len(Tail(pending[p])) : Tail(pending[p])[i] = pending[p][i + 1]
    BY <2>1, HeadTailProperties
  <2>3. \A i, j \in 1 .. Len(Tail(pending[p])) :
           Tail(pending[p])[i] = Tail(pending[p])[j] => i = j
    <3>1. \A i, j \in 1 .. Len(pending[p]) : pending[p][i] = pending[p][j] => i = j
      BY <1>a DEF PendingOK
    <3>2. Len(pending[p]) \in Nat  BY <2>1, LenProperties
    <3>3. \A i \in 1 .. Len(Tail(pending[p])) : i + 1 \in 1 .. Len(pending[p]) /\ i \in Int
      BY <2>2, <3>2
    <3> SUFFICES ASSUME NEW i \in 1 .. Len(Tail(pending[p])), NEW j \in 1 .. Len(Tail(pending[p])),
                        Tail(pending[p])[i] = Tail(pending[p])[j]
                 PROVE  i = j
      OBVIOUS
    <3>4. i + 1 = j + 1  BY <2>2, <3>1, <3>3
    <3> QED  BY <3>3, <3>4
  <2>4. /\ pending'[p] = Tail(pending[p]) /\ adding'[p] = adding[p] /\ count'[p] = count[p]
        /\ \A q \in Producers \ {p} : pending'[q] = pending[q] /\ adding'[q] = adding[q] /\ count'[q] = count[q]
    BY <1>a, <2>1 DEF TypeOK
  <2>5. adding[p] /\ count[p] > 0  BY <1>a, <2>1 DEF PendingOK
  <2>6. ASSUME NEW q \in Producers \ {p}
        PROVE  /\ adding'[q] => count'[q] > 0
               /\ ~adding'[q] => pending'[q] = << >>
               /\ \A i, j \in 1 .. Len(pending'[q]) : pending'[q][i] = pending'[q][j] => i = j
    <3>1. pending'[q] = pending[q] /\ adding'[q] = adding[q] /\ count'[q] = count[q]  BY <2>4
    <3> QED  BY <1>a, <3>1 DEF PendingOK
  <2>7. /\ adding'[p] /\ count'[p] > 0
        /\ \A i, j \in 1 .. Len(pending'[p]) : pending'[p][i] = pending'[p][j] => i = j
    BY <2>3, <2>4, <2>5
  <2> QED  BY <2>6, <2>7 DEF PendingOK
<1>4. ASSUME NEW p \in Producers, NotifyPanics(p) PROVE PendingOK'
  <2>1. /\ pending'[p] = << >> /\ adding'[p] = FALSE /\ count' = count
        /\ \A q \in Producers \ {p} : pending'[q] = pending[q] /\ adding'[q] = adding[q]
    BY <1>a, <1>4 DEF NotifyPanics, TypeOK
  <2>2. \A i, j \in 1 .. Len(pending'[p]) : pending'[p][i] = pending'[p][j] => i = j
    BY <2>1, EmptySeq
  <2>3. ASSUME NEW q \in Producers \ {p}
        PROVE  /\ adding'[q] => count'[q] > 0
               /\ ~adding'[q] => pending'[q] = << >>
               /\ \A i, j \in 1 .. Len(pending'[q]) : pending'[q][i] = pending'[q][j] => i = j
    <3>1. pending'[q] = pending[q] /\ adding'[q] = adding[q] /\ count'[q] = count[q]  BY <2>1
    <3> QED  BY <1>a, <3>1 DEF PendingOK
  <2>4. (adding'[p] => count'[p] > 0) /\ (~adding'[p] => pending'[p] = << >>)  BY <2>1
  <2> QED  BY <2>2, <2>3, <2>4 DEF PendingOK
<1>5. ASSUME NEW p \in Producers, AddReturns(p) PROVE PendingOK'
  <2>1. \A q \in Producers :
           /\ pending'[q] = pending[q] /\ count'[q] = count[q]
           /\ adding'[q] = IF q = p THEN FALSE ELSE adding[q]
    BY <1>a, <1>5 DEF AddReturns, TypeOK
  <2>2. pending[p] = << >>
    BY <1>5 DEF AddReturns
  <2>3. ASSUME NEW q \in Producers, q # p
        PROVE  /\ adding'[q] => count'[q] > 0
               /\ ~adding'[q] => pending'[q] = << >>
               /\ \A i, j \in 1 .. Len(pending'[q]) : pending'[q][i] = pending'[q][j] => i = j
    <3>1. pending'[q] = pending[q] /\ count'[q] = count[q] /\ adding'[q] = adding[q]  BY <2>1, <2>3
    <3> QED  BY <1>a, <3>1 DEF PendingOK
  <2>4. pending'[p] = << >> /\ adding'[p] = FALSE /\ count'[p] = count[p]  BY <2>1, <2>2
  <2>5. \A i, j \in 1 .. Len(pending'[p]) : pending'[p][i] = pending'[p][j] => i = j
    BY <2>4, EmptySeq
  <2> QED  BY <2>3, <2>4, <2>5 DEF PendingOK
<1> QED
  BY <1>1, <1>2, <1>3, <1>4, <1>5 DEF Next, ProducerStep, StreamStep, Subscribe,
     Receive, Unsubscribe, vars

(* The store is always well typed, no channel exceeds its capacity, and the
   listener slice and the closed channels always agree with the streams. *)
THEOREM BaseInvariant == Spec => [](TypeOK /\ RegistrationMatchesStream)
<1>1. Init => BaseInv
  BY InitBase
<1>2. BaseInv /\ [Next]_vars => BaseInv'
  BY StepType, StepRegistration, StepPending DEF BaseInv
<1>3. BaseInv => TypeOK /\ RegistrationMatchesStream
  BY DEF BaseInv
<1> QED  BY <1>1, <1>2, <1>3, PTL DEF Spec

----------------------------------------------------------------------------
(* The ring *)

(* Only AddEntry touches the ring, and it pushes. *)
LEMMA StepRing == BaseInv /\ RingHoldsNewest /\ [Next]_vars => RingHoldsNewest'
<1> SUFFICES ASSUME BaseInv, RingHoldsNewest, [Next]_vars PROVE RingHoldsNewest'  OBVIOUS
<1>a. TypeOK
  BY DEF BaseInv
<1>1. CASE UNCHANGED <<entries, history>>
  BY <1>1 DEF RingHoldsNewest
<1>2. ASSUME NEW p \in Producers, AddEntry(p) PROVE RingHoldsNewest'
  <2> DEFINE e == [by |-> p, n |-> count[p] + 1]
  <2>1. e \in Entry /\ entries \in Seq(Entry) /\ history \in Seq(Entry)
    BY <1>a DEF TypeOK, Entry
  <2>2. entries' = Pushed(entries, e) /\ history' = Append(history, e)
    BY <1>2 DEF AddEntry
  <2> HIDE DEF e
  <2> QED  BY <2>1, <2>2, PushedProperties DEF RingHoldsNewest
<1> QED
  BY <1>1, <1>2 DEF Next, ProducerStep, StreamStep, Notify, NotifyPanics, AddReturns,
     Subscribe, Receive, Unsubscribe, vars

(* Whatever the interleaving of producers, the ring is exactly the newest
   maxSize entries in lock order. *)
THEOREM RingTheorem == Spec => []RingHoldsNewest
<1>1. Init => BaseInv /\ RingHoldsNewest
  <2>1. Init => RingHoldsNewest
    BY ConstantsAssumption, EmptySeq DEF Init, RingHoldsNewest
  <2> QED  BY <2>1, InitBase
<1>2. (BaseInv /\ RingHoldsNewest) /\ [Next]_vars => (BaseInv /\ RingHoldsNewest)'
  BY StepType, StepRegistration, StepPending, StepRing DEF BaseInv
<1> QED  BY <1>1, <1>2, PTL DEF Spec

----------------------------------------------------------------------------
(* Order and multiplicity of what a stream receives *)

(* p still has to offer its current entry to c. *)
Owes(p, c) == \E i \in 1 .. Len(pending[p]) : pending[p][i] = c

(* What makes StreamKeepsProducerOrder inductive: a channel holds no entry
   newer than its producer's current one, and not even that one while the
   producer still has to offer it. *)
SentIsPast ==
    \A c \in Channels : \A i \in 1 .. Len(sent[c]) :
        /\ sent[c][i].n <= count[sent[c][i].by]
        /\ Owes(sent[c][i].by, c) => sent[c][i].n < count[sent[c][i].by]

OrderInv == BaseInv /\ SentIsPast /\ StreamKeepsProducerOrder

(* Notify takes the head of p's slice away and nothing else: afterwards p
   owes its entry to exactly the other channels it owed it to. *)
LEMMA OwesAfterNotify ==
    ASSUME BaseInv, NEW p \in Producers, pending[p] # << >>,
           pending' = [pending EXCEPT ![p] = Tail(@)]
    PROVE  /\ Owes(p, Head(pending[p]))
           /\ \A d \in Channels : Owes(p, d)' <=> (Owes(p, d) /\ d # Head(pending[p]))
           /\ \A q \in Producers \ {p} : \A d \in Channels : Owes(q, d)' <=> Owes(q, d)
<1> DEFINE s == pending[p]
<1>1. s \in Seq(Channels) /\ s # << >> /\ Len(s) \in Nat \ {0} /\ Head(s) = s[1]
  BY EmptySeq DEF BaseInv, TypeOK
<1>2. Len(Tail(s)) = Len(s) - 1 /\ \A i \in 1 .. Len(s) - 1 : Tail(s)[i] = s[i + 1]
  BY <1>1, HeadTailProperties
<1>3. pending'[p] = Tail(s) /\ \A q \in Producers \ {p} : pending'[q] = pending[q]
  BY DEF BaseInv, TypeOK
<1>4. \A i, j \in 1 .. Len(s) : s[i] = s[j] => i = j
  BY DEF BaseInv, PendingOK
<1>5. Owes(p, Head(s))
  BY <1>1 DEF Owes
<1>6. ASSUME NEW d \in Channels, Owes(p, d)' PROVE Owes(p, d) /\ d # Head(s)
  <2>3. PICK i \in 1 .. Len(Tail(s)) : Tail(s)[i] = d
    BY <1>3, <1>6 DEF Owes
  <2>1. i \in 1 .. Len(s) - 1 /\ s[i + 1] = d
    BY <1>2, <2>3
  <2>2. i + 1 \in 1 .. Len(s) /\ 1 \in 1 .. Len(s) /\ i + 1 # 1
    BY <1>1
  <2> QED  BY <1>1, <1>4, <2>1, <2>2 DEF Owes
<1>7. ASSUME NEW d \in Channels, Owes(p, d), d # Head(s) PROVE Owes(p, d)'
  <2>1. PICK i \in 1 .. Len(s) : s[i] = d
    BY <1>7 DEF Owes
  <2>3. i # 1 /\ i \in 1 .. Len(s)  BY <1>1, <1>7, <2>1
  <2> DEFINE k == i - 1
  <2>4. k \in 1 .. Len(s) - 1 /\ k + 1 = i  BY <1>1, <2>3
  <2> HIDE DEF k
  <2>2. k \in 1 .. Len(s) - 1 /\ Tail(s)[k] = d
    BY <1>2, <2>1, <2>4
  <2> QED  BY <1>2, <1>3, <2>2 DEF Owes
<1>8. \A q \in Producers \ {p} : \A d \in Channels : Owes(q, d)' <=> Owes(q, d)
  BY <1>3 DEF Owes
<1> QED  BY <1>5, <1>6, <1>7, <1>8

(* Every step keeps each producer's entries in order in every channel: what
   is still to be sent is newer than what is there. *)
LEMMA StepOrder == OrderInv /\ [Next]_vars => SentIsPast' /\ StreamKeepsProducerOrder'
<1> SUFFICES ASSUME OrderInv, [Next]_vars PROVE SentIsPast' /\ StreamKeepsProducerOrder'
  OBVIOUS
<1>a. BaseInv /\ TypeOK /\ PendingOK /\ SentIsPast /\ StreamKeepsProducerOrder
  BY DEF OrderInv, BaseInv
<1>b. ASSUME NEW c \in Channels, NEW i \in 1 .. Len(sent[c])
      PROVE  /\ sent[c][i] \in Entry /\ sent[c][i].by \in Producers /\ sent[c][i].n \in Nat
             /\ count[sent[c][i].by] \in Nat
             /\ sent[c][i].n <= count[sent[c][i].by]
             /\ Owes(sent[c][i].by, c) => sent[c][i].n < count[sent[c][i].by]
  <2>1. sent[c][i] \in Entry
    BY <1>a, ElementOfSeq DEF TypeOK
  <2> QED  BY <1>a, <2>1 DEF TypeOK, Entry, SentIsPast
<1>1. CASE UNCHANGED <<sent, count, pending>>
  BY <1>a, <1>1 DEF SentIsPast, StreamKeepsProducerOrder, Owes
<1>2. ASSUME NEW p \in Producers, AddEntry(p) PROVE SentIsPast' /\ StreamKeepsProducerOrder'
  <2>1. /\ sent' = sent /\ count'[p] = count[p] + 1
        /\ \A q \in Producers \ {p} : count'[q] = count[q] /\ pending'[q] = pending[q]
    BY <1>a, <1>2 DEF AddEntry, TypeOK
  <2>2. \A q \in Producers \ {p} : \A c \in Channels : Owes(q, c)' <=> Owes(q, c)
    BY <2>1 DEF Owes
  <2>3. StreamKeepsProducerOrder'
    BY <1>a, <2>1 DEF StreamKeepsProducerOrder
  <2>4. ASSUME NEW c \in Channels, NEW i \in 1 .. Len(sent[c])
        PROVE  /\ sent[c][i].n <= count'[sent[c][i].by]
               /\ Owes(sent[c][i].by, c)' => sent[c][i].n < count'[sent[c][i].by]
    <3>1. CASE sent[c][i].by = p
      BY <1>b, <2>1, <3>1
    <3>2. CASE sent[c][i].by # p
      BY <1>b, <2>1, <2>2, <3>2
    <3> QED  BY <3>1, <3>2
  <2>5. SentIsPast'
    BY <2>1, <2>4 DEF SentIsPast
  <2> QED  BY <2>3, <2>5
<1>3. ASSUME NEW p \in Producers, Notify(p) PROVE SentIsPast' /\ StreamKeepsProducerOrder'
  <2> DEFINE h == Head(pending[p])
  <2> DEFINE e == Current(p)
  <2>1. /\ Owes(p, h)
        /\ \A d \in Channels : Owes(p, d)' <=> (Owes(p, d) /\ d # h)
        /\ \A q \in Producers \ {p} : \A d \in Channels : Owes(q, d)' <=> Owes(q, d)
    BY <1>a, <1>3, OwesAfterNotify DEF Notify
  <2>2. h \in Channels /\ e \in Entry /\ e.by = p /\ e.n = count[p] /\ count' = count
    BY <1>a, <1>3, CurrentIsEntry DEF Notify, TypeOK, PendingOK, Current
  <2>3. sent' = sent \/ sent' = [sent EXCEPT ![h] = Append(sent[h], e)]
    BY <1>3 DEF Notify, Offer
  <2> HIDE DEF h, e
  <2>4. \A q \in Producers : \A d \in Channels : Owes(q, d)' => Owes(q, d)
    BY <2>1
  <2>5. CASE sent' = sent
    BY <1>a, <2>2, <2>4, <2>5, <1>b DEF SentIsPast, StreamKeepsProducerOrder
  <2>6. CASE sent' = [sent EXCEPT ![h] = Append(sent[h], e)]
    <3>1. /\ sent[h] \in Seq(Entry) /\ sent'[h] = Append(sent[h], e)
          /\ \A d \in Channels \ {h} : sent'[d] = sent[d]
      BY <1>a, <2>2, <2>6 DEF TypeOK
    <3>2. /\ Len(sent'[h]) = Len(sent[h]) + 1 /\ Len(sent[h]) \in Nat
          /\ \A i \in 1 .. Len(sent[h]) : sent'[h][i] = sent[h][i]
          /\ sent'[h][Len(sent[h]) + 1] = e
      BY <2>2, <3>1, AppendProperties
    <3>3. ASSUME NEW i \in 1 .. Len(sent[h]), sent[h][i].by = p PROVE sent[h][i].n < e.n
      BY <1>b, <2>1, <2>2, <3>3
    <3>4. ASSUME NEW c \in Channels, NEW i \in 1 .. Len(sent'[c]),
                 NEW q, q = sent'[c][i].by
          PROVE  /\ q \in Producers /\ sent'[c][i].n <= count[q]
                 /\ Owes(q, c)' => sent'[c][i].n < count[q]
      <4>1. CASE c = h /\ i = Len(sent[h]) + 1
        <5>1. sent'[c][i] = e /\ q = p /\ e.n = count[p] /\ count[p] \in Nat
          BY <1>a, <2>2, <3>2, <3>4, <4>1 DEF TypeOK
        <5>2. ~Owes(p, c)'
          BY <2>1, <2>2, <4>1
        <5> QED  BY <5>1, <5>2
      <4>2. CASE c # h
        <5>1. sent'[c] = sent[c]
          BY <3>1, <4>2
        <5>2. i \in 1 .. Len(sent[c])
          BY <5>1
        <5> QED  BY <1>b, <2>4, <3>4, <5>1, <5>2
      <4>3. CASE c = h /\ i \in 1 .. Len(sent[h])
        <5>1. i \in 1 .. Len(sent[c]) /\ sent'[c][i] = sent[c][i]
          BY <3>2, <4>3
        <5> QED  BY <1>b, <2>4, <3>4, <5>1
      <4> QED  BY <3>2, <4>1, <4>2, <4>3
    <3>5. ASSUME NEW c \in Channels, NEW i \in 1 .. Len(sent'[c]), NEW j \in 1 .. Len(sent'[c]),
                 i < j, sent'[c][i].by = sent'[c][j].by
          PROVE  sent'[c][i].n < sent'[c][j].n
      <4>1. CASE c # h
        BY <1>a, <3>1, <3>5, <4>1 DEF StreamKeepsProducerOrder
      <4>2. CASE c = h /\ j \in 1 .. Len(sent[h])
        <5>1. i \in 1 .. Len(sent[h])
          BY <3>2, <3>5, <4>2
        <5> QED  BY <1>a, <3>2, <3>5, <4>2, <5>1 DEF StreamKeepsProducerOrder
      <4>3. CASE c = h /\ j = Len(sent[h]) + 1
        <5>1. i \in 1 .. Len(sent[h])
          BY <3>2, <3>5, <4>3
        <5> QED  BY <2>2, <3>2, <3>3, <3>5, <4>3, <5>1
      <4> QED  BY <3>2, <4>1, <4>2, <4>3
    <3>6. SentIsPast'
      BY <2>2, <3>4 DEF SentIsPast, Owes
    <3>7. StreamKeepsProducerOrder'
      BY <3>5 DEF StreamKeepsProducerOrder
    <3> QED  BY <3>6, <3>7
  <2> QED  BY <2>3, <2>5, <2>6
<1>4. ASSUME NEW p \in Producers, NotifyPanics(p) PROVE SentIsPast' /\ StreamKeepsProducerOrder'
  <2>1. /\ sent' = sent /\ count' = count /\ pending'[p] = << >>
        /\ \A q \in Producers \ {p} : pending'[q] = pending[q]
    BY <1>a, <1>4 DEF NotifyPanics, TypeOK
  <2>2. \A q \in Producers : \A d \in Channels : Owes(q, d)' => Owes(q, d)
    BY <2>1, EmptySeq DEF Owes
  <2> QED  BY <1>a, <1>b, <2>1, <2>2 DEF SentIsPast, StreamKeepsProducerOrder
<1> QED
  BY <1>1, <1>2, <1>3, <1>4 DEF Next, ProducerStep, StreamStep, AddReturns, Subscribe,
     Receive, Unsubscribe, vars

(* Although Add sends outside the lock, no stream ever shows the entries of
   one producer out of order or twice. *)
THEOREM OrderTheorem == Spec => []StreamKeepsProducerOrder
<1>1. Init => OrderInv
  <2>1. Init => SentIsPast /\ StreamKeepsProducerOrder
    BY EmptySeq DEF Init, SentIsPast, StreamKeepsProducerOrder
  <2> QED  BY <2>1, InitBase DEF OrderInv
<1>2. OrderInv /\ [Next]_vars => OrderInv'
  BY StepType, StepRegistration, StepPending, StepOrder DEF OrderInv, BaseInv
<1>3. OrderInv => StreamKeepsProducerOrder
  BY DEF OrderInv
<1> QED  BY <1>1, <1>2, <1>3, PTL DEF Spec

----------------------------------------------------------------------------
(* What a stream can lose *)

(* The four places an entry owed to c can be, with Owes named. *)
Accounted(c, e) ==
    \/ \E i \in 1 .. Len(sent[c]) : sent[c][i] = e
    \/ e \in dropped[c]
    \/ e \in panics
    \/ e = Current(e.by) /\ Owes(e.by, c)

(* The accounting of loss, entry by entry. *)
LEMMA LossIsAccounted ==
    LossOnlyByOverflow <=> \A c \in Channels : \A e \in owed[c] : Accounted(c, e)
BY Zenon DEF LossOnlyByOverflow, Accounted, Owes

(* Every step keeps every owed entry accounted for. *)
LEMMA StepLoss == BaseInv /\ LossOnlyByOverflow /\ [Next]_vars => LossOnlyByOverflow'
<1> SUFFICES ASSUME BaseInv, LossOnlyByOverflow, [Next]_vars,
                    NEW c \in Channels, NEW e \in owed'[c]
             PROVE  \/ \E i \in 1 .. Len(sent'[c]) : sent'[c][i] = e
                    \/ e \in dropped'[c]
                    \/ e \in panics'
                    \/ e = [by |-> e.by, n |-> count'[e.by]] /\ Owes(e.by, c)'
  BY DEF LossOnlyByOverflow, Owes, Current
<1>a. TypeOK /\ PendingOK /\ RegistrationMatchesStream
  BY DEF BaseInv
<1>b. ASSUME e \in owed[c] PROVE Accounted(c, e) /\ e \in Entry /\ e.by \in Producers
  BY <1>a, <1>b, LossIsAccounted DEF TypeOK, Entry
<1>1. CASE UNCHANGED <<sent, dropped, panics, owed, pending, count>>
  BY <1>1, <1>b DEF Accounted, Owes, Current
<1>2. ASSUME NEW p \in Producers, AddEntry(p)
      PROVE  \/ \E i \in 1 .. Len(sent'[c]) : sent'[c][i] = e
             \/ e \in dropped'[c]
             \/ e \in panics'
             \/ e = [by |-> e.by, n |-> count'[e.by]] /\ Owes(e.by, c)'
  <2> DEFINE new == [by |-> p, n |-> count[p] + 1]
  <2>1. /\ pending[p] = << >> /\ pending'[p] = listeners /\ count'[p] = count[p] + 1
        /\ \A q \in Producers \ {p} : pending'[q] = pending[q] /\ count'[q] = count[q]
        /\ UNCHANGED <<sent, dropped, panics>>
    BY <1>a, <1>2 DEF AddEntry, TypeOK, PendingOK
  <2>2. e \in owed[c] \/ (IsRegistered(c) /\ e = new)
    BY <1>2 DEF AddEntry
  <2>3. CASE IsRegistered(c) /\ e = new
    <3>1. e.by = p /\ e = [by |-> e.by, n |-> count'[e.by]]
      BY <2>1, <2>3
    <3>2. Owes(p, c)'
      BY <2>1, <2>3 DEF Owes, IsRegistered
    <3> QED  BY <3>1, <3>2 DEF Owes
  <2>4. CASE e \in owed[c]
    <3>1. CASE e.by = p
      <4>1. ~Owes(p, c)
        BY <2>1, EmptySeq DEF Owes
      <4> QED  BY <1>b, <2>1, <2>4, <3>1, <4>1 DEF Accounted
    <3>2. CASE e.by # p
      BY <1>b, <2>1, <2>4, <3>2 DEF Accounted, Owes, Current
    <3> QED  BY <3>1, <3>2
  <2> QED  BY <2>2, <2>3, <2>4
<1>3. ASSUME NEW p \in Producers, Notify(p)
      PROVE  \/ \E i \in 1 .. Len(sent'[c]) : sent'[c][i] = e
             \/ e \in dropped'[c]
             \/ e \in panics'
             \/ e = [by |-> e.by, n |-> count'[e.by]] /\ Owes(e.by, c)'
  <2> DEFINE h == Head(pending[p])
  <2>1. /\ \A d \in Channels : Owes(p, d)' <=> (Owes(p, d) /\ d # h)
        /\ \A q \in Producers \ {p} : \A d \in Channels : Owes(q, d)' <=> Owes(q, d)
    BY <1>3, OwesAfterNotify DEF Notify
  <2>5. pending[p] \in Seq(Channels) /\ pending[p] # << >>
    BY <1>a, <1>3 DEF Notify, TypeOK
  <2>6. adding[p] \in BOOLEAN /\ count[p] > 0  BY <1>a, <2>5 DEF TypeOK, PendingOK
  <2>7. UNCHANGED <<owed, count, panics>> /\ Offer(p, h)  BY <1>3 DEF Notify
  <2>2. h \in Channels /\ Current(p) \in Entry
        /\ UNCHANGED <<owed, count, panics>> /\ Offer(p, h)
    BY <1>a, <2>5, <2>6, <2>7, CurrentIsEntry, HeadTailProperties
  <2>3. e \in owed[c] /\ Accounted(c, e) /\ e.by \in Producers
    BY <2>2, <1>b
  <2> HIDE DEF h
  <2>4. /\ (\E i \in 1 .. Len(sent[c]) : sent[c][i] = e) => (\E i \in 1 .. Len(sent'[c]) : sent'[c][i] = e)
        /\ e \in dropped[c] => e \in dropped'[c]
        /\ (c = h /\ e = Current(p)) =>
              ((\E i \in 1 .. Len(sent'[c]) : sent'[c][i] = e) \/ e \in dropped'[c])
    <3>1. CASE Buffered(h) < ChanCap
      <4>1. sent' = [sent EXCEPT ![h] = Append(sent[h], Current(p))] /\ dropped' = dropped
        BY <2>2, <3>1 DEF Offer
      <4>2. /\ sent[h] \in Seq(Entry) /\ sent'[h] = Append(sent[h], Current(p))
            /\ \A d \in Channels \ {h} : sent'[d] = sent[d]
        BY <1>a, <2>2, <4>1 DEF TypeOK
      <4>3. /\ Len(sent'[h]) = Len(sent[h]) + 1 /\ Len(sent[h]) \in Nat
            /\ \A i \in 1 .. Len(sent[h]) : sent'[h][i] = sent[h][i]
            /\ sent'[h][Len(sent[h]) + 1] = Current(p)
        BY <2>2, <4>2, AppendProperties
      <4>4. CASE c = h
        BY <4>1, <4>3, <4>4
      <4>5. CASE c # h
        BY <4>1, <4>2, <4>5
      <4> QED  BY <4>4, <4>5
    <3>2. CASE ~(Buffered(h) < ChanCap)
      <4>1. sent' = sent /\ dropped' = [dropped EXCEPT ![h] = dropped[h] \cup {Current(p)}]
        BY <2>2, <3>2 DEF Offer
      <4>2. dropped'[c] = IF c = h THEN dropped[c] \cup {Current(p)} ELSE dropped[c]
        BY <1>a, <4>1 DEF TypeOK
      <4> QED  BY <4>1, <4>2
    <3> QED  BY <3>1, <3>2
  <2>8. CASE e = Current(e.by) /\ Owes(e.by, c) /\ ~(c = h /\ e.by = p)
    BY <2>1, <2>2, <2>3, <2>8 DEF Current
  <2> QED  BY <2>2, <2>3, <2>4, <2>8 DEF Accounted
<1>4. ASSUME NEW p \in Producers, NotifyPanics(p)
      PROVE  \/ \E i \in 1 .. Len(sent'[c]) : sent'[c][i] = e
             \/ e \in dropped'[c]
             \/ e \in panics'
             \/ e = [by |-> e.by, n |-> count'[e.by]] /\ Owes(e.by, c)'
  <2>1. /\ UNCHANGED <<sent, dropped, owed, count>> /\ panics' = panics \cup {Current(p)}
        /\ \A q \in Producers \ {p} : pending'[q] = pending[q]
    BY <1>a, <1>4 DEF NotifyPanics, TypeOK
  <2>2. CASE e = Current(p)
    BY <2>1, <2>2
  <2>3. CASE e # Current(p)
    BY <1>b, <2>1, <2>3 DEF Accounted, Owes, Current
  <2> QED  BY <2>2, <2>3
<1> QED
  BY <1>1, <1>2, <1>3, <1>4 DEF Next, ProducerStep, StreamStep, AddReturns, Subscribe,
     Receive, Unsubscribe, vars

(* A stream only ever misses an entry added while it was registered because
   its own buffer was full, or because the producer panicked. *)
THEOREM LossTheorem == Spec => []LossOnlyByOverflow
<1>1. Init => BaseInv /\ LossOnlyByOverflow
  <2>1. Init => LossOnlyByOverflow
    BY DEF Init, LossOnlyByOverflow
  <2> QED  BY <2>1, InitBase
<1>2. (BaseInv /\ LossOnlyByOverflow) /\ [Next]_vars => (BaseInv /\ LossOnlyByOverflow)'
  BY StepType, StepRegistration, StepPending, StepLoss DEF BaseInv
<1> QED  BY <1>1, <1>2, PTL DEF Spec

----------------------------------------------------------------------------
(* The page's streams *)

(* Whatever the page does, the store takes one of its steps or none. *)
LEMMA PanelRefinesStore == PanelNext => [Next]_vars
BY DEF PanelNext, PageStep, RecentServed, LogsShown, ConnectionBreaks, Connect, HandlerEnds,
   HandlerWrites, Received, Arrives, Next, StreamStep

(* What a producer does to the channels: it may make one of its own entry, to
   be offered to the channels registered then, and puts that entry at the end
   of a channel it owes it to. *)
LEMMA ProducerEffects ==
    ASSUME OrderInv, NEW p \in Producers, ProducerStep(p)
    PROVE  /\ UNCHANGED <<taken, stream>>
           /\ \A q \in Producers : count[q] <= count'[q]
           /\ \A c \in Channels, q \in Producers : Owes(q, c)' =>
                 \/ Owes(q, c) /\ count'[q] = count[q]
                 \/ IsRegistered(c) /\ count'[q] = count[q] + 1
           /\ \A c \in Channels :
                 /\ Len(sent[c]) <= Len(sent'[c])
                 /\ \A k \in 1 .. Len(sent[c]) : sent'[c][k] = sent[c][k]
                 /\ \A k \in Len(sent[c]) + 1 .. Len(sent'[c]) : sent'[c][k] = Current(p) /\ Owes(p, c)
                 /\ \A e \in owed'[c] : e \in owed[c] \/ e.n = count[e.by] + 1
<1> DEFINE Effects ==
           /\ UNCHANGED <<taken, stream>>
           /\ \A q \in Producers : count[q] <= count'[q]
           /\ \A c \in Channels, q \in Producers : Owes(q, c)' =>
                 \/ Owes(q, c) /\ count'[q] = count[q]
                 \/ IsRegistered(c) /\ count'[q] = count[q] + 1
           /\ \A c \in Channels :
                 /\ Len(sent[c]) <= Len(sent'[c])
                 /\ \A k \in 1 .. Len(sent[c]) : sent'[c][k] = sent[c][k]
                 /\ \A k \in Len(sent[c]) + 1 .. Len(sent'[c]) : sent'[c][k] = Current(p) /\ Owes(p, c)
                 /\ \A e \in owed'[c] : e \in owed[c] \/ e.n = count[e.by] + 1
<1>a. BaseInv /\ TypeOK /\ PendingOK  BY DEF OrderInv, BaseInv
<1>b. /\ \A q \in Producers : count[q] \in Nat
      /\ \A c \in Channels : sent[c] \in Seq(Entry) /\ Len(sent[c]) \in Nat
  BY <1>a, LenProperties DEF TypeOK
<1>1. CASE AddEntry(p)
  <2>1. /\ UNCHANGED <<taken, stream, sent>> /\ count'[p] = count[p] + 1 /\ pending'[p] = listeners
        /\ \A q \in Producers \ {p} : count'[q] = count[q] /\ pending'[q] = pending[q]
    BY <1>1, <1>a DEF AddEntry, TypeOK
  <2>2. \A c \in Channels : owed'[c] \subseteq owed[c] \cup {[by |-> p, n |-> count[p] + 1]}
    BY <1>1 DEF AddEntry
  <2>3. \A c \in Channels, q \in Producers : Owes(q, c)' =>
            \/ Owes(q, c) /\ count'[q] = count[q]
            \/ IsRegistered(c) /\ count'[q] = count[q] + 1
    BY <2>1 DEF Owes, IsRegistered
  <2> QED BY <1>b, <2>1, <2>2, <2>3
<1>2. CASE Notify(p)
  <2> DEFINE h == Head(pending[p])
             e == Current(p)
  <2>1. /\ Owes(p, h)
        /\ \A d \in Channels : Owes(p, d)' <=> (Owes(p, d) /\ d # h)
        /\ \A q \in Producers \ {p} : \A d \in Channels : Owes(q, d)' <=> Owes(q, d)
    BY <1>a, <1>2, OwesAfterNotify DEF Notify
  <2>2. UNCHANGED <<taken, stream, count, owed>>  BY <1>2 DEF Notify
  <2>3. sent' = sent \/ sent' = [sent EXCEPT ![h] = Append(sent[h], e)]
    BY <1>2 DEF Notify, Offer
  <2>4. e \in Entry /\ h \in Channels
    <3>1. pending[p] \in Seq(Channels) /\ pending[p] # << >>  BY <1>a, <1>2 DEF Notify, TypeOK
    <3>2. count[p] > 0  BY <1>a, <3>1 DEF PendingOK, TypeOK
    <3> QED BY <1>a, <3>1, <3>2, CurrentIsEntry, HeadTailProperties
  <2> HIDE DEF h, e
  <2>5. ASSUME NEW c \in Channels
        PROVE  /\ Len(sent[c]) <= Len(sent'[c])
               /\ \A k \in 1 .. Len(sent[c]) : sent'[c][k] = sent[c][k]
               /\ \A k \in Len(sent[c]) + 1 .. Len(sent'[c]) : sent'[c][k] = e /\ Owes(p, c)
    <3>1. CASE sent'[c] = sent[c]  BY <1>b, <3>1
    <3>2. CASE c = h /\ sent'[c] = Append(sent[c], e)
      <4>1. /\ Len(sent'[c]) = Len(sent[c]) + 1
            /\ \A k \in 1 .. Len(sent[c]) : sent'[c][k] = sent[c][k]
            /\ sent'[c][Len(sent[c]) + 1] = e
        BY <1>b, <2>4, <3>2, AppendProperties
      <4> QED BY <1>b, <2>1, <3>2, <4>1
    <3> QED BY <1>a, <2>3, <3>1, <3>2 DEF TypeOK
  <2> QED BY <1>b, <2>1, <2>2, <2>5 DEF e
<1>3. CASE NotifyPanics(p) \/ AddReturns(p)
  <2>1. UNCHANGED <<taken, stream, count, owed, sent>>  BY <1>3 DEF NotifyPanics, AddReturns
  <2>2. \A q \in Producers : pending'[q] = << >> \/ pending'[q] = pending[q]
    BY <1>3, <1>a DEF NotifyPanics, AddReturns, TypeOK
  <2>3. \A q \in Producers : \A c \in Channels : Owes(q, c)' => Owes(q, c)
    BY <2>2, EmptySeq DEF Owes
  <2> QED BY <1>b, <2>1, <2>3
<1> QED BY <1>1, <1>2, <1>3 DEF ProducerStep

(* What makes StreamedOnceInOrder inductive.  The page has nothing newer than
   its producer's current entry; what its stream still has for it, or is owed,
   is newer than what it has; a channel nobody subscribed to yet is empty and
   nobody owes it anything, so a new stream starts behind all the page has. *)
GotPast ==
    /\ got \in Seq(Entry) /\ conn \in Channels \cup {NoChannel}
    /\ arrived \in [Channels -> Nat] /\ \A c \in Channels : arrived[c] <= taken[c]
    /\ \A i \in 1 .. Len(got) : got[i].n <= count[got[i].by]

GotBehind == conn # NoChannel =>
    /\ \A i \in 1 .. Len(got) : \A k \in arrived[conn] + 1 .. Len(sent[conn]) :
          got[i].by = sent[conn][k].by => got[i].n < sent[conn][k].n
    /\ \A i \in 1 .. Len(got) : Owes(got[i].by, conn) => got[i].n < count[got[i].by]

Untouched ==
    \A c \in Channels : stream[c] = "none" => sent[c] = << >> /\ \A p \in Producers : ~Owes(p, c)

GotInv == GotPast /\ GotBehind /\ Untouched /\ StreamedOnceInOrder

(* A producer's step. *)
LEMMA GotProducer ==
    ASSUME OrderInv, GotInv, NEW p \in Producers, ProducerStep(p), UNCHANGED pageVars
    PROVE  GotInv'
<1>a. TypeOK /\ RegistrationMatchesStream  BY DEF OrderInv, BaseInv
<1>b. /\ UNCHANGED <<got, conn, arrived, taken, stream>> /\ got \in Seq(Entry)
      /\ \A q \in Producers : count[q] \in Nat /\ count'[q] \in Nat
      /\ \A c \in Channels : Len(sent[c]) \in Nat /\ taken[c] \in Nat /\ arrived[c] \in Nat
      /\ Len(got) \in Nat
  <2>1. TypeOK'  BY StepType DEF OrderInv, Next
  <2> QED BY <1>a, <2>1, ProducerEffects, LenProperties DEF TypeOK, pageVars, GotInv, GotPast
<1>c. \A i \in 1 .. Len(got) :
          got[i].by \in Producers /\ got[i].n \in Nat /\ got[i].n <= count[got[i].by]
  <2>1. \A i \in 1 .. Len(got) : got[i] \in Entry  BY <1>b, ElementOfSeq
  <2> QED BY <2>1 DEF GotInv, GotPast, Entry
<1>1. GotPast'
  <2>1. \A i \in 1 .. Len(got) : got[i].n <= count'[got[i].by]  BY <1>b, <1>c, ProducerEffects
  <2> QED BY <1>b, <2>1 DEF GotInv, GotPast
<1>2. GotBehind'
  <2> SUFFICES ASSUME conn # NoChannel PROVE GotBehind'  BY <1>b DEF GotBehind
  <2> DEFINE c == conn
  <2>1. c \in Channels  BY DEF GotInv, GotPast
  <2>2. ASSUME NEW i \in 1 .. Len(got), NEW k \in arrived[c] + 1 .. Len(sent'[c]), got[i].by = sent'[c][k].by
        PROVE  got[i].n < sent'[c][k].n
    <3>1. CASE k \in arrived[c] + 1 .. Len(sent[c])
      <4>1. sent'[c][k] = sent[c][k]
        <5>1. k \in 1 .. Len(sent[c])  BY <1>b, <2>1, <3>1
        <5> QED BY <2>1, <5>1, ProducerEffects
      <4> QED BY <2>2, <3>1, <4>1 DEF GotInv, GotBehind
    <3>2. CASE k \in Len(sent[c]) + 1 .. Len(sent'[c])
      <4>1. sent'[c][k] = Current(p) /\ Owes(p, c)  BY <2>1, <3>2, ProducerEffects
      <4>2. got[i].by = p /\ sent'[c][k].n = count[p]  BY <2>2, <4>1 DEF Current
      <4> QED BY <4>1, <4>2 DEF GotInv, GotBehind
    <3>3. Len(sent[c]) \in Nat /\ arrived[c] \in Nat /\ Len(sent[c]) <= Len(sent'[c])
      BY <1>b, <2>1, ProducerEffects
    <3> QED BY <3>1, <3>2, <3>3
  <2>3. ASSUME NEW i \in 1 .. Len(got), NEW q \in Producers, got[i].by = q, NEW d \in Channels, d = c,
               Owes(q, d)'
        PROVE  got[i].n < count'[q]
    <3>1. \/ Owes(q, d) /\ count'[q] = count[q]
          \/ count'[q] = count[q] + 1
      BY <2>3, ProducerEffects
    <3>2. Owes(q, d) => got[i].n < count[q]  BY <2>3 DEF GotInv, GotBehind
    <3> QED BY <1>b, <1>c, <2>3, <3>1, <3>2
  <2>4. \A i \in 1 .. Len(got') : (\E k \in 1 .. Len(pending'[got'[i].by]) : pending'[got'[i].by][k] = conn')
            => got'[i].n < count'[got'[i].by]
    BY <1>b, <1>c, <2>1, <2>3 DEF Owes
  <2> QED BY <1>b, <2>1, <2>2, <2>4 DEF GotBehind, Owes
<1>3. Untouched'
  <2> SUFFICES ASSUME NEW c \in Channels, stream[c] = "none"
               PROVE  sent'[c] = << >> /\ \A q \in Producers : ~Owes(q, c)'
    BY <1>b DEF Untouched, Owes
  <2>1. sent[c] = << >> /\ \A q \in Producers : ~Owes(q, c)  BY DEF GotInv, Untouched
  <2>2. ~IsRegistered(c)  BY <1>a DEF RegistrationMatchesStream
  <2>3. \A q \in Producers : ~Owes(q, c)'  BY <2>1, <2>2, ProducerEffects
  <2>4. \A k \in Len(sent[c]) + 1 .. Len(sent'[c]) : FALSE  BY <2>1, ProducerEffects
  <2>5. sent'[c] \in Seq(Entry)
    <3>1. TypeOK'  BY StepType DEF OrderInv, Next
    <3> QED BY <3>1 DEF TypeOK
  <2>6. Len(sent[c]) = 0 /\ Len(sent'[c]) \in Nat  BY <2>1, <2>5, EmptySeq, LenProperties
  <2>7. Len(sent'[c]) = 0  BY <2>4, <2>6
  <2> QED BY <2>3, <2>5, <2>7, EmptySeq
<1>4. StreamedOnceInOrder'  BY <1>b DEF GotInv, StreamedOnceInOrder
<1> QED BY <1>1, <1>2, <1>3, <1>4 DEF GotInv

(* A step of the page or of a stream's handler: what is received is newer than
   what the page has, and a new stream is behind it. *)
LEMMA GotPage ==
    ASSUME OrderInv, GotInv, PageStep \/ UNCHANGED panelVars
    PROVE  GotInv'
<1>a. TypeOK  BY DEF OrderInv, BaseInv
<1>b. UNCHANGED <<sent, count, pending>>
  BY DEF PageStep, RecentServed, LogsShown, ConnectionBreaks, Connect, HandlerEnds,
     HandlerWrites, Received, Arrives, Receive, Subscribe, Unsubscribe, vars, panelVars
<1>c. \A q \in Producers : \A c \in Channels : Owes(q, c)' <=> Owes(q, c)  BY <1>b DEF Owes
<1>d. /\ got \in Seq(Entry) /\ Len(got) \in Nat
      /\ \A c \in Channels : Len(sent[c]) \in Nat /\ taken[c] \in Nat /\ arrived[c] \in Nat
      /\ stream \in [Channels -> {"none", "open", "done"}]
  BY <1>a, LenProperties DEF GotInv, GotPast, TypeOK
<1>1. CASE UNCHANGED <<got, arrived, taken, stream>> /\ (conn' = conn \/ conn' = NoChannel)
  BY <1>b, <1>1 DEF GotInv, GotPast, GotBehind, Untouched, StreamedOnceInOrder, Owes
<1>2. ASSUME NEW c \in Channels, Connect(c) PROVE GotInv'
  <2>1. /\ stream[c] = "none" /\ conn' = c /\ stream' = [stream EXCEPT ![c] = "open"]
        /\ UNCHANGED <<got, arrived, taken>>
    BY <1>2 DEF Connect, Subscribe
  <2>2. sent[c] = << >> /\ \A q \in Producers : ~Owes(q, c)  BY <2>1 DEF GotInv, Untouched
  <2>3. GotPast'  BY <1>b, <2>1 DEF GotInv, GotPast
  <2>4. GotBehind'
    <3>1. \A k \in arrived[c] + 1 .. Len(sent[c]) : FALSE
      <4>1. Len(sent[c]) = 0  BY <2>2
      <4> QED BY <1>d, <4>1
    <3>2. \A i \in 1 .. Len(got) : got[i].by \in Producers
      <4>1. \A i \in 1 .. Len(got) : got[i] \in Entry  BY <1>d, ElementOfSeq
      <4> QED BY <4>1 DEF Entry
    <3> QED BY <1>b, <1>d, <2>1, <2>2, <3>1, <3>2 DEF GotBehind, Owes
  <2>5. Untouched'
    <3>1. \A d \in Channels : stream'[d] = "none" => stream[d] = "none"  BY <1>d, <2>1
    <3> QED BY <1>b, <3>1 DEF GotInv, Untouched, Owes
  <2>6. StreamedOnceInOrder'  BY <2>1 DEF GotInv, StreamedOnceInOrder
  <2> QED BY <2>3, <2>4, <2>5, <2>6 DEF GotInv
<1>3. ASSUME NEW c \in Channels, HandlerEnds(c) \/ HandlerWrites(c) PROVE GotInv'
  <2>1. UNCHANGED <<got, conn, arrived>>  BY <1>3 DEF HandlerEnds, HandlerWrites, pageVars
  <2>2. /\ \A d \in Channels : d # c => stream'[d] = stream[d]
        /\ \A d \in Channels : taken[d] <= taken'[d] /\ taken'[d] \in Nat
        /\ stream'[c] # "none"
    <3>1. CASE HandlerEnds(c)
      <4>1. taken' = taken /\ stream' = [stream EXCEPT ![c] = "done"]
        BY <3>1 DEF HandlerEnds, Unsubscribe
      <4> QED BY <1>d, <4>1
    <3>2. CASE HandlerWrites(c)
      <4>1. stream' = stream /\ stream[c] = "open" /\ taken' = [taken EXCEPT ![c] = @ + 1]
        BY <3>2 DEF HandlerWrites, Receive
      <4>2. taken \in [Channels -> Nat]  BY <1>a DEF TypeOK
      <4> QED BY <1>d, <4>1, <4>2
    <3> QED BY <1>3, <3>1, <3>2
  <2>3. GotPast'
    <3>1. \A d \in Channels : arrived'[d] <= taken'[d]  BY <1>d, <2>1, <2>2 DEF GotInv, GotPast
    <3> QED BY <1>b, <2>1, <3>1 DEF GotInv, GotPast
  <2>4. GotBehind'  BY <1>b, <2>1 DEF GotInv, GotBehind, Owes
  <2>5. Untouched'
    <3>1. \A d \in Channels : stream'[d] = "none" => stream[d] = "none"  BY <2>2
    <3> QED BY <1>b, <3>1 DEF GotInv, Untouched, Owes
  <2>6. StreamedOnceInOrder'  BY <2>1 DEF GotInv, StreamedOnceInOrder
  <2> QED BY <2>3, <2>4, <2>5, <2>6 DEF GotInv
<1>4. ASSUME NEW c \in Channels, Received(c) PROVE GotInv'
  <2> DEFINE e == Entering(c)
             n == arrived[c] + 1
  <2>1. /\ c = conn /\ conn # NoChannel /\ conn' = conn /\ UNCHANGED <<taken, stream>>
        /\ arrived' = [arrived EXCEPT ![c] = @ + 1] /\ arrived[c] < taken[c] /\ got' = Append(got, e)
    BY <1>4, PanelAssumption DEF Received, Arrives, vars
  <2>2. n \in 1 .. Len(sent[c]) /\ n \in arrived[c] + 1 .. Len(sent[c]) /\ arrived'[c] = n /\ n <= taken[c]
    <3>1. arrived[c] \in Nat /\ taken[c] <= Len(sent[c]) /\ arrived'[c] = arrived[c] + 1
      BY <1>a, <1>d, <2>1, ConstantsAssumption DEF Buffered, TypeOK, GotInv, GotPast
    <3> QED BY <1>d, <2>1, <3>1
  <2>3. e = sent[c][n]  BY DEF Entering
  <2> HIDE DEF e, n
  <2>4. e \in Entry /\ e.n <= count[e.by] /\ (Owes(e.by, c) => e.n < count[e.by])
    <3>1. sent[c] \in Seq(Entry)  BY <1>a DEF TypeOK
    <3>2. e \in Entry  BY <2>2, <2>3, <3>1, ElementOfSeq
    <3> QED BY <2>2, <2>3, <3>2 DEF OrderInv, SentIsPast
  <2>5. /\ got' \in Seq(Entry) /\ Len(got') = Len(got) + 1
        /\ \A i \in 1 .. Len(got) : got'[i] = got[i]
        /\ got'[Len(got) + 1] = e
    BY <1>d, <2>1, <2>4, AppendProperties
  <2>6. \A i \in 1 .. Len(got') :
            \/ i \in 1 .. Len(got) /\ got'[i] = got[i]
            \/ i = Len(got) + 1 /\ got'[i] = e
    BY <1>d, <2>5
  <2>7. GotPast'
    <3>1. arrived' \in [Channels -> Nat] /\ \A d \in Channels : arrived'[d] <= taken'[d]
      BY <1>d, <2>1, <2>2 DEF GotInv, GotPast
    <3> QED BY <1>b, <2>1, <2>4, <2>5, <2>6, <3>1 DEF GotInv, GotPast
  <2>8. GotBehind'
    <3>1. ASSUME NEW k \in n + 1 .. Len(sent[c])
          PROVE  /\ k \in arrived[c] + 1 .. Len(sent[c])
                 /\ e.by = sent[c][k].by => e.n < sent[c][k].n
      <4>1. k \in 1 .. Len(sent[c]) /\ n < k /\ k \in arrived[c] + 1 .. Len(sent[c])  BY <1>d, <2>2 DEF n
      <4> QED BY <2>2, <2>3, <4>1 DEF OrderInv, StreamKeepsProducerOrder
    <3>2. ASSUME NEW i \in 1 .. Len(got'), NEW k \in n + 1 .. Len(sent[c]), got'[i].by = sent[c][k].by
          PROVE  got'[i].n < sent[c][k].n
      BY <2>1, <2>6, <3>1, <3>2 DEF GotInv, GotBehind
    <3>3. ASSUME NEW i \in 1 .. Len(got'), Owes(got'[i].by, c) PROVE got'[i].n < count[got'[i].by]
      BY <2>1, <2>4, <2>6, <3>3 DEF GotInv, GotBehind
    <3> QED BY <1>b, <2>1, <2>2, <3>2, <3>3 DEF GotBehind, Owes
  <2>9. Untouched'  BY <1>b, <2>1 DEF GotInv, Untouched, Owes
  <2>10. StreamedOnceInOrder'
    <3> SUFFICES ASSUME NEW i \in 1 .. Len(got'), NEW j \in 1 .. Len(got'), i < j, got'[i].by = got'[j].by
                 PROVE  got'[i].n < got'[j].n
      BY DEF StreamedOnceInOrder
    <3>1. i \in 1 .. Len(got) /\ got'[i] = got[i]  BY <1>d, <2>5, <2>6
    <3>2. CASE j \in 1 .. Len(got) /\ got'[j] = got[j]  BY <3>1, <3>2 DEF GotInv, StreamedOnceInOrder
    <3>3. CASE got'[j] = e  BY <2>1, <2>2, <2>3, <3>1, <3>3 DEF GotInv, GotBehind
    <3> QED BY <2>6, <3>2, <3>3
  <2> QED BY <2>7, <2>8, <2>9, <2>10 DEF GotInv
<1>5. UNCHANGED panelVars \/ RecentServed \/ LogsShown \/ ConnectionBreaks =>
          UNCHANGED <<got, arrived, taken, stream>> /\ (conn' = conn \/ conn' = NoChannel)
  BY DEF panelVars, pageVars, vars, RecentServed, LogsShown, ConnectionBreaks
<1> QED BY <1>1, <1>2, <1>3, <1>4, <1>5 DEF PageStep

(* Before anything was added or received. *)
LEMMA InitGot == PanelInit => OrderInv /\ GotInv
<1> SUFFICES ASSUME PanelInit PROVE OrderInv /\ GotInv  OBVIOUS
<1>1. OrderInv
  <2>1. SentIsPast /\ StreamKeepsProducerOrder
    BY EmptySeq DEF PanelInit, Init, SentIsPast, StreamKeepsProducerOrder
  <2> QED  BY <2>1, InitBase DEF OrderInv, PanelInit
<1>2. GotInv
  BY EmptySeq DEF PanelInit, Init, GotInv, GotPast, GotBehind, Untouched, StreamedOnceInOrder, Owes
<1> QED BY <1>1, <1>2

LEMMA StepGot == OrderInv /\ GotInv /\ [PanelNext]_panelVars => OrderInv' /\ GotInv'
<1> SUFFICES ASSUME OrderInv, GotInv, [PanelNext]_panelVars PROVE OrderInv' /\ GotInv'  OBVIOUS
<1>1. [Next]_vars  BY PanelRefinesStore DEF panelVars
<1>2. OrderInv'  BY <1>1, StepType, StepRegistration, StepPending, StepOrder DEF OrderInv, BaseInv
<1>3. GotInv'  BY GotProducer, GotPage DEF PanelNext
<1> QED BY <1>2, <1>3

(* However often its stream breaks and is opened again, the page is never
   shown an entry twice, nor one after a later one of the same producer. *)
THEOREM PanelStreamTheorem == PanelSpec => []StreamedOnceInOrder
<1>1. GotInv => StreamedOnceInOrder  BY DEF GotInv
<1> QED BY InitGot, StepGot, <1>1, PTL DEF PanelSpec

----------------------------------------------------------------------------
(* The panel *)

(* The rows First keeps, and where an entry moves when one comes in on top. *)
LEMMA FirstProperties ==
    ASSUME NEW s \in Seq(Entry), NEW n \in Nat
    PROVE  /\ First(s, n) \in Seq(Entry)
           /\ Len(First(s, n)) = IF Len(s) < n THEN Len(s) ELSE n
           /\ \A i \in 1 .. Len(s) : i <= n => i <= Len(First(s, n)) /\ First(s, n)[i] = s[i]
<1> DEFINE m == IF Len(s) < n THEN Len(s) ELSE n
<1>1. m \in Nat /\ m <= Len(s) /\ Len(s) \in Nat /\ \A i \in 1 .. m : s[i] \in Entry
  BY LenProperties, ElementOfSeq
<1>2. First(s, n) = SubSeq(s, 1, m)  BY DEF First
<1>3. \A i \in 1 .. Len(s) : i <= n => i \in 1 .. m  BY <1>1
<1> HIDE DEF m
<1>4. /\ SubSeq(s, 1, m) \in Seq(Entry)
      /\ Len(SubSeq(s, 1, m)) = m
      /\ \A i \in 1 .. m : SubSeq(s, 1, m)[i] = s[i]
  BY <1>1, SubSeqProperties
<1>5. \A i \in 1 .. Len(s) : i <= n => i <= Len(First(s, n)) /\ First(s, n)[i] = s[i]
  BY <1>1, <1>2, <1>3, <1>4
<1> QED BY <1>2, <1>4, <1>5 DEF m

LEMMA OnTop ==
    ASSUME NEW s \in Seq(Entry), NEW e \in Entry, NEW n \in Nat \ {0}
    PROVE  LET t == First(<<e>> \o s, n) IN
           /\ t \in Seq(Entry) /\ 1 <= Len(t) /\ t[1] = e
           /\ \A i \in 1 .. Len(s) : i < n => i + 1 <= Len(t) /\ t[i + 1] = s[i]
<1> DEFINE u == <<e>> \o s
<1>1. /\ u \in Seq(Entry) /\ Len(u) = Len(s) + 1 /\ Len(s) \in Nat /\ u[1] = e
      /\ \A i \in 1 .. Len(s) : u[i + 1] = s[i]
  <2>1. <<e>> \in Seq(Entry) /\ Len(<<e>>) = 1 /\ <<e>>[1] = e  OBVIOUS
  <2>2. /\ u \in Seq(Entry) /\ Len(u) = 1 + Len(s)
        /\ \A i \in 1 .. 1 + Len(s) : u[i] = IF i <= 1 THEN <<e>>[i] ELSE s[i - 1]
    BY <2>1, ConcatProperties
  <2> HIDE DEF u
  <2>3. Len(s) \in Nat  BY LenProperties
  <2>4. \A i \in 1 .. Len(s) : i + 1 \in 1 .. 1 + Len(s) /\ ~(i + 1 <= 1) /\ (i + 1) - 1 = i  BY <2>3
  <2> QED BY <2>1, <2>2, <2>3, <2>4
<1> HIDE DEF u
<1>2. /\ First(u, n) \in Seq(Entry)
      /\ \A i \in 1 .. Len(u) : i <= n => i <= Len(First(u, n)) /\ First(u, n)[i] = u[i]
  BY <1>1, FirstProperties
<1>3. 1 <= Len(First(u, n)) /\ First(u, n)[1] = e  BY <1>1, <1>2
<1>4. ASSUME NEW i \in 1 .. Len(s), i < n PROVE i + 1 <= Len(First(u, n)) /\ First(u, n)[i + 1] = s[i]
  <2>1. i + 1 \in 1 .. Len(u) /\ i + 1 <= n  BY <1>1, <1>4
  <2> QED BY <1>1, <1>2, <2>1
<1> QED BY <1>2, <1>3, <1>4 DEF u

PanelType == panel \in Seq(Entry) /\ fetch.logs \in Seq(Entry)

(* Received as the j-th and still on the panel, or with PanelSize above it. *)
ShownAs(e, j) ==
    /\ got[j] = e
    /\ \/ Len(got) - j >= PanelSize
       \/ Len(got) - j + 1 <= Len(panel) /\ panel[Len(got) - j + 1] = e

(* What makes NewEntriesAppear inductive: everything the page has taken from
   its stream and is promised was received, and is where it should be. *)
Kept == Loaded /\ conn # NoChannel =>
    \A k \in 1 .. arrived[conn] : sent[conn][k] \in owed[conn] \ before =>
        \E j \in 1 .. Len(got) : ShownAs(sent[conn][k], j)

(* Steps that leave the page's stream and what it shows alone. *)
LEMMA KeptAlone ==
    ASSUME Kept, UNCHANGED <<panel, got, conn, arrived, fetch, before>>,
           conn # NoChannel => /\ \A k \in 1 .. arrived[conn] : sent'[conn][k] = sent[conn][k]
                               /\ \A k \in 1 .. arrived[conn] : sent[conn][k] \in owed'[conn] => sent[conn][k] \in owed[conn]
    PROVE  Kept'
BY DEF Kept, Loaded, ShownAs

LEMMA KeptProducer ==
    ASSUME OrderInv, GotInv, Kept, NEW p \in Producers, ProducerStep(p), UNCHANGED pageVars
    PROVE  Kept'
<1>a. TypeOK  BY DEF OrderInv, BaseInv
<1>1. UNCHANGED <<panel, got, conn, arrived, fetch, before, taken>>  BY ProducerEffects DEF pageVars
<1> SUFFICES ASSUME conn # NoChannel
             PROVE  \A k \in 1 .. arrived[conn] :
                       /\ sent'[conn][k] = sent[conn][k]
                       /\ sent[conn][k] \in owed'[conn] => sent[conn][k] \in owed[conn]
  BY <1>1, KeptAlone
<1> SUFFICES ASSUME NEW k \in 1 .. arrived[conn]
             PROVE  /\ sent'[conn][k] = sent[conn][k]
                    /\ sent[conn][k] \in owed'[conn] => sent[conn][k] \in owed[conn]
  OBVIOUS
<1>2. conn \in Channels  BY DEF GotInv, GotPast
<1>3. k \in 1 .. Len(sent[conn]) /\ sent[conn] \in Seq(Entry)
  <2>1. sent[conn] \in Seq(Entry) /\ Len(sent[conn]) \in Nat /\ taken[conn] \in Nat
        /\ Len(sent[conn]) - taken[conn] >= 0 /\ arrived[conn] \in Nat /\ arrived[conn] <= taken[conn]
    BY <1>a, <1>2, ConstantsAssumption, LenProperties DEF TypeOK, Buffered, GotInv, GotPast
  <2> QED BY <2>1
<1> DEFINE e == sent[conn][k]
<1>4. e.by \in Producers /\ e.n \in Nat /\ e.n <= count[e.by] /\ count[e.by] \in Nat
  <2>1. e \in Entry  BY <1>3, ElementOfSeq
  <2> QED BY <1>a, <1>2, <1>3, <2>1 DEF Entry, TypeOK, OrderInv, SentIsPast
<1>5. sent'[conn][k] = e  BY <1>2, <1>3, ProducerEffects
<1>6. e \in owed'[conn] => e \in owed[conn] \/ e.n = count[e.by] + 1  BY <1>2, ProducerEffects
<1> HIDE DEF e
<1>7. e \in owed'[conn] => e \in owed[conn]  BY <1>4, <1>6
<1> QED BY <1>5, <1>7 DEF e

(* An entry comes in on top of the others, each of which moves down by one. *)
LEMMA KeptReceived ==
    ASSUME OrderInv, GotInv, PanelType, Kept, NEW c \in Channels, Received(c)
    PROVE  PanelType' /\ Kept'
<1>a. TypeOK  BY DEF OrderInv, BaseInv
<1> DEFINE e == Entering(c)
           n == arrived[c] + 1
<1>1. /\ c = conn /\ UNCHANGED <<conn, fetch, before, sent, owed>>
      /\ arrived' = [arrived EXCEPT ![c] = @ + 1] /\ arrived[c] < taken[c]
      /\ got' = Append(got, e) /\ panel' = First(<<e>> \o panel, PanelSize)
  BY DEF Received, Arrives, vars
<1>2. /\ sent[c] \in Seq(Entry) /\ Len(sent[c]) \in Nat /\ arrived[c] \in Nat /\ arrived'[c] = n
      /\ n \in 1 .. Len(sent[c]) /\ e = sent[c][n] /\ e \in Entry
  <2>1. sent[c] \in Seq(Entry) /\ Len(sent[c]) \in Nat /\ arrived[c] \in Nat /\ arrived'[c] = n
    BY <1>a, <1>1, LenProperties DEF TypeOK, GotInv, GotPast
  <2>2. n \in 1 .. Len(sent[c])
    <3>1. taken[c] \in Nat /\ taken[c] <= Len(sent[c])
      BY <1>a, <2>1, ConstantsAssumption DEF TypeOK, Buffered
    <3> QED BY <1>1, <2>1, <3>1
  <2>3. e = sent[c][n]  BY DEF Entering
  <2> HIDE DEF e, n
  <2> QED BY <2>1, <2>2, <2>3, ElementOfSeq
<1> HIDE DEF e
<1>3. /\ Len(got') = Len(got) + 1 /\ Len(got) \in Nat
      /\ \A i \in 1 .. Len(got) : got'[i] = got[i]
      /\ got'[Len(got) + 1] = e
  BY <1>1, <1>2, AppendProperties, LenProperties DEF GotInv, GotPast
<1>4. PanelSize \in Nat \ {0} /\ panel \in Seq(Entry) /\ Len(panel) \in Nat
  BY PanelAssumption, LenProperties DEF PanelType
<1>5. /\ panel' \in Seq(Entry) /\ 1 <= Len(panel') /\ panel'[1] = e /\ Len(panel') \in Nat
      /\ \A i \in 1 .. Len(panel) : i < PanelSize => i + 1 <= Len(panel') /\ panel'[i + 1] = panel[i]
  <2>1. /\ panel' \in Seq(Entry) /\ 1 <= Len(panel') /\ panel'[1] = e
        /\ \A i \in 1 .. Len(panel) : i < PanelSize => i + 1 <= Len(panel') /\ panel'[i + 1] = panel[i]
    <3> DEFINE t == First(<<e>> \o panel, PanelSize)
    <3>1. /\ t \in Seq(Entry) /\ 1 <= Len(t) /\ t[1] = e
          /\ \A i \in 1 .. Len(panel) : i < PanelSize => i + 1 <= Len(t) /\ t[i + 1] = panel[i]
      BY <1>2, <1>4, OnTop
    <3>2. panel' = t  BY <1>1
    <3> HIDE DEF t
    <3> QED BY <3>1, <3>2
  <2> QED BY <2>1, LenProperties
<1>6. ASSUME NEW x, NEW j \in 1 .. Len(got), ShownAs(x, j)
      PROVE  /\ j \in 1 .. Len(got') /\ got'[j] = x
             /\ \/ Len(got') - j >= PanelSize
                \/ Len(got') - j + 1 <= Len(panel') /\ panel'[Len(got') - j + 1] = x
  <2> DEFINE m == Len(got) - j + 1
  <2>1. m \in Nat \ {0} /\ Len(got') - j = m /\ j \in 1 .. Len(got')  BY <1>3
  <2>2. got'[j] = x /\ (Len(got) - j >= PanelSize \/ (m <= Len(panel) /\ panel[m] = x))
    BY <1>3, <1>6 DEF ShownAs
  <2>3. CASE m > PanelSize  BY <1>4, <2>1, <2>2, <2>3
  <2>4. CASE m = PanelSize  BY <1>4, <2>1, <2>2, <2>4
  <2>5. CASE m < PanelSize
    <3>1. ~(Len(got) - j >= PanelSize)  BY <1>3, <1>4, <2>5
    <3> HIDE DEF m
    <3>2. m \in 1 .. Len(panel) /\ panel[m] = x  BY <1>4, <2>1, <2>2, <3>1
    <3>3. m + 1 <= Len(panel') /\ panel'[m + 1] = x  BY <1>5, <2>5, <3>2
    <3> QED BY <2>1, <2>2, <3>3
  <2> HIDE DEF m
  <2> QED BY <1>4, <2>1, <2>3, <2>4, <2>5
<1>7. /\ Len(got) + 1 \in 1 .. Len(got')
      /\ Len(got') - (Len(got) + 1) + 1 <= Len(panel') /\ panel'[Len(got') - (Len(got) + 1) + 1] = e
  <2>1. Len(got') - (Len(got) + 1) + 1 = 1  BY <1>3
  <2> QED BY <1>3, <1>5, <2>1
<1>8. Kept'
  <2> SUFFICES ASSUME Loaded', conn' # NoChannel, NEW k \in 1 .. arrived'[conn'],
                      sent'[conn'][k] \in owed'[conn'] \ before'
               PROVE  \E j \in 1 .. Len(got') :
                          /\ got'[j] = sent'[conn'][k]
                          /\ \/ Len(got') - j >= PanelSize
                             \/ Len(got') - j + 1 <= Len(panel') /\ panel'[Len(got') - j + 1] = sent'[conn'][k]
    BY DEF Kept, ShownAs
  <2>a. /\ Loaded /\ conn # NoChannel /\ k \in 1 .. n /\ sent[c][k] \in owed[c] \ before
        /\ sent'[conn'][k] = sent[c][k]
    BY <1>1, <1>2 DEF Loaded
  <2>1. CASE k = n
    <3>1. sent[c][k] = e  BY <1>2, <2>1
    <3> QED BY <1>3, <1>7, <2>a, <3>1
  <2>2. CASE k \in 1 .. arrived[c]
    <3>1. PICK j \in 1 .. Len(got) : ShownAs(sent[c][k], j)  BY <1>1, <2>a, <2>2 DEF Kept
    <3>2. /\ j \in 1 .. Len(got') /\ got'[j] = sent[c][k]
          /\ \/ Len(got') - j >= PanelSize
             \/ Len(got') - j + 1 <= Len(panel') /\ panel'[Len(got') - j + 1] = sent[c][k]
      BY <1>6, <3>1
    <3> QED BY <2>a, <3>2
  <2> QED BY <1>2, <2>a, <2>1, <2>2 DEF n
<1> QED BY <1>1, <1>5, <1>8 DEF PanelType

(* The page's other steps: what loadLogs wipes is not promised, and a new
   stream has not been read yet. *)
LEMMA KeptPage ==
    ASSUME OrderInv, GotInv, PanelType, Kept, PageStep \/ UNCHANGED panelVars
    PROVE  PanelType' /\ Kept'
<1>a. TypeOK  BY DEF OrderInv, BaseInv
<1>1. CASE RecentServed
  <2>1. UNCHANGED panel /\ fetch' = [st |-> "sent", logs |-> Newest(entries, PanelSize)]
    BY <1>1 DEF RecentServed
  <2>2. Newest(entries, PanelSize) \in Seq(Entry)
    <3> DEFINE m == IF Len(entries) < PanelSize THEN 1 ELSE Len(entries) - PanelSize + 1
    <3>1. entries \in Seq(Entry) /\ Len(entries) \in Nat /\ PanelSize \in Nat \ {0}
      BY <1>a, PanelAssumption, LenProperties DEF TypeOK
    <3>2. m \in Int /\ \A i \in m .. Len(entries) : i \in 1 .. Len(entries)  BY <3>1
    <3> HIDE DEF m
    <3>3. \A i \in m .. Len(entries) : entries[i] \in Entry  BY <3>1, <3>2, ElementOfSeq
    <3>4. SubSeq(entries, m, Len(entries)) \in Seq(Entry)  BY <3>1, <3>2, <3>3, SubSeqProperties
    <3> QED BY <3>4 DEF Newest, m
  <2> QED BY <2>1, <2>2 DEF PanelType, Kept, Loaded
<1>2. CASE LogsShown
  <2>1. /\ UNCHANGED <<conn, owed>> /\ fetch' = [st |-> "shown", logs |-> << >>]
        /\ panel' = IF fetch.logs = << >> THEN panel ELSE NewestFirst(fetch.logs)
        /\ before' = IF conn = NoChannel THEN {} ELSE owed[conn]
    BY <1>2 DEF LogsShown, vars
  <2>2. NewestFirst(fetch.logs) \in Seq(Entry)
    <3> DEFINE l == fetch.logs
               f == NewestFirst(l)
    <3>1. l \in Seq(Entry) /\ Len(l) \in Nat  BY LenProperties DEF PanelType
    <3> HIDE DEF l
    <3>2. \A i \in 1 .. Len(l) : Len(l) + 1 - i \in 1 .. Len(l)  BY <3>1
    <3>3. f = [i \in 1 .. Len(l) |-> l[Len(l) + 1 - i]]  BY DEF NewestFirst
    <3> HIDE DEF f
    <3>4. f \in [1 .. Len(l) -> Entry]  BY <3>1, <3>2, <3>3, ElementOfSeq
    <3>5. f \in Seq(Entry)  BY <3>1, <3>4, SeqDef
    <3> QED BY <3>5 DEF f, l
  <2>3. PanelType'  BY <2>1, <2>2 DEF PanelType
  <2>4. Kept'  BY <2>1 DEF Kept
  <2> QED BY <2>3, <2>4
<1>3. CASE ConnectionBreaks
  BY <1>3 DEF ConnectionBreaks, PanelType, Kept
<1>4. ASSUME NEW c \in Channels, Connect(c) PROVE PanelType' /\ Kept'
  <2>1. /\ stream[c] = "none" /\ conn' = c /\ UNCHANGED <<panel, arrived, fetch, taken, sent>>
    BY <1>4 DEF Connect, Subscribe
  <2>2. arrived[c] = 0
    <3>1. sent[c] = << >>  BY <2>1 DEF GotInv, Untouched
    <3>2. Len(sent[c]) = 0 /\ taken[c] \in Nat /\ Len(sent[c]) - taken[c] >= 0
          /\ arrived[c] \in Nat /\ arrived[c] <= taken[c]
      BY <1>a, <3>1, ConstantsAssumption DEF TypeOK, Buffered, GotInv, GotPast
    <3> QED BY <3>2
  <2>3. \A k \in 1 .. arrived'[conn'] : FALSE  BY <2>1, <2>2
  <2> QED BY <2>1, <2>3 DEF PanelType, Kept
<1>5. ASSUME NEW c \in Channels, HandlerEnds(c) \/ HandlerWrites(c) PROVE PanelType' /\ Kept'
  <2>1. UNCHANGED <<panel, got, conn, arrived, fetch, before, sent, owed>>
    BY <1>5 DEF HandlerEnds, HandlerWrites, pageVars, Receive, Unsubscribe
  <2> QED BY <2>1, KeptAlone DEF PanelType
<1>6. ASSUME NEW c \in Channels, Received(c) PROVE PanelType' /\ Kept'  BY <1>6, KeptReceived
<1>7. CASE UNCHANGED panelVars
  <2>1. UNCHANGED <<panel, got, conn, arrived, fetch, before, taken, sent, owed>>  BY <1>7 DEF panelVars, pageVars, vars
  <2> QED BY <2>1, KeptAlone DEF PanelType
<1> QED BY <1>1, <1>2, <1>3, <1>4, <1>5, <1>6, <1>7 DEF PageStep

(* Every entry added while the page listens gets onto its panel and stays until
   enough newer ones are above it, is under way, or was lost on the two ways a
   stream loses entries. *)
THEOREM PanelShowsTheorem == PanelSpec => []NewEntriesAppear
<1> DEFINE All == OrderInv /\ GotInv /\ LossOnlyByOverflow /\ PanelType /\ Kept
<1>1. PanelInit => All
  <2>1. PanelInit => PanelType /\ Kept  BY EmptySeq DEF PanelInit, PanelType, Kept
  <2>2. PanelInit => LossOnlyByOverflow  BY DEF PanelInit, Init, LossOnlyByOverflow
  <2> QED BY <2>1, <2>2, InitGot
<1>2. All /\ [PanelNext]_panelVars => All'
  <2> SUFFICES ASSUME All, [PanelNext]_panelVars PROVE All'  OBVIOUS
  <2>1. [Next]_vars  BY PanelRefinesStore DEF panelVars
  <2>2. LossOnlyByOverflow'  BY <2>1, StepLoss DEF OrderInv
  <2>3. ASSUME NEW p \in Producers, ProducerStep(p), UNCHANGED pageVars PROVE PanelType' /\ Kept'
    BY <2>3, KeptProducer DEF PanelType, pageVars
  <2>4. PanelType' /\ Kept'  BY <2>3, KeptPage DEF PanelNext
  <2> QED BY <2>2, <2>4, StepGot
<1>3. All => NewEntriesAppear
  <2> SUFFICES ASSUME All, Loaded, conn # NoChannel, NEW e \in owed[conn] \ before
               PROVE  \/ e \in Rows
                      \/ \E i \in 1 .. Len(got) : got[i] = e /\ Len(got) - i >= PanelSize
                      \/ \E i \in arrived[conn] + 1 .. Len(sent[conn]) : sent[conn][i] = e
                      \/ e = Current(e.by) /\ \E i \in 1 .. Len(pending[e.by]) : pending[e.by][i] = conn
                      \/ e \in dropped[conn] \/ e \in panics
    BY DEF NewEntriesAppear
  <2>1. conn \in Channels  BY DEF GotInv, GotPast
  <2>2. \/ \E i \in 1 .. Len(sent[conn]) : sent[conn][i] = e
        \/ e \in dropped[conn] \/ e \in panics
        \/ e = Current(e.by) /\ \E i \in 1 .. Len(pending[e.by]) : pending[e.by][i] = conn
    BY <2>1, Zenon DEF LossOnlyByOverflow
  <2>3. ASSUME NEW k \in 1 .. arrived[conn], sent[conn][k] = e
        PROVE  e \in Rows \/ \E i \in 1 .. Len(got) : got[i] = e /\ Len(got) - i >= PanelSize
    <3>1. PICK j \in 1 .. Len(got) : ShownAs(e, j)  BY <2>3 DEF Kept
    <3>2. Len(got) \in Nat  BY LenProperties DEF GotInv, GotPast
    <3>3. Len(panel) \in Nat  BY LenProperties DEF PanelType
    <3>4. Len(got) - j + 1 \in Nat \ {0}  BY <3>2
    <3>5. CASE Len(got) - j + 1 <= Len(panel) /\ panel[Len(got) - j + 1] = e
      <4>1. Len(got) - j + 1 \in 1 .. Len(panel)  BY <3>3, <3>4, <3>5
      <4> QED BY <3>5, <4>1 DEF Rows
    <3> QED BY <3>1, <3>5 DEF ShownAs
  <2>4. ASSUME NEW k \in 1 .. Len(sent[conn])
        PROVE  k \in 1 .. arrived[conn] \/ k \in arrived[conn] + 1 .. Len(sent[conn])
    <3>1. arrived[conn] \in Nat  BY <2>1 DEF GotInv, GotPast
    <3> QED BY <3>1
  <2> QED BY <2>2, <2>3, <2>4
<1> HIDE DEF All
<1> QED BY <1>1, <1>2, <1>3, PTL DEF PanelSpec
=============================================================================

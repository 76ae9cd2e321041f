----------------------------- MODULE SliceProofs -----------------------------
(***************************************************************************)
(* Proofs about the memory below a device's AP list: for any access        *)
(* points, any lists to start with, arrays of any length and any number of *)
(* edits, whose writes reach a reader in any order.  An edit that holds    *)
(* the lock knows which words are still to be written; a reader knows      *)
(* which of them it may meet.                                              *)
(***************************************************************************)
EXTENDS APSlices, SequenceTheorems, TLAPS

AP == [name : APs, client : BOOLEAN]

----------------------------------------------------------------------------
(* Arrays *)

(* A function on 1 .. n is a sequence. *)
LEMMA FunctionIsSeq ==
    ASSUME NEW S, NEW n \in Nat, NEW f \in [1 .. n -> S]
    PROVE  f \in Seq(S) /\ Len(f) = n
<1>1. f \in Seq(S)  BY SeqDef
<1>2. DOMAIN f = 1 .. Len(f) /\ Len(f) \in Nat /\ DOMAIN f = 1 .. n  BY <1>1, LenProperties
<1> QED BY <1>1, <1>2

(* An array whose slot i is replaced. *)
LEMMA SetSlot ==
    ASSUME NEW h \in Seq(Seq(Slot)), NEW p \in 1 .. Len(h), NEW i \in 1 .. Len(h[p]), NEW s \in Slot, NEW g,
           g = [h EXCEPT ![p] = [h[p] EXCEPT ![i] = s]]
    PROVE  /\ g \in Seq(Seq(Slot)) /\ Len(g) = Len(h)
           /\ \A q \in 1 .. Len(h) : /\ Len(g[q]) = Len(h[q])
                                     /\ \A j \in 1 .. Len(h[q]) : g[q][j] = IF q = p /\ j = i THEN s ELSE h[q][j]
<1> DEFINE a == [h[p] EXCEPT ![i] = s]
<1>1. h[p] \in Seq(Slot)  BY ElementOfSeq
<1>2. /\ a \in Seq(Slot) /\ Len(a) = Len(h[p])
      /\ \A j \in 1 .. Len(h[p]) : a[j] = IF j = i THEN s ELSE h[p][j]
  BY <1>1, ExceptSeq
<1> HIDE DEF a
<1> DEFINE r == [h EXCEPT ![p] = a]
<1>3. r \in Seq(Seq(Slot)) /\ Len(r) = Len(h) /\ \A q \in 1 .. Len(h) : r[q] = IF q = p THEN a ELSE h[q]
  BY <1>2, ExceptSeq
<1>4. g = r  BY DEF a
<1> HIDE DEF r
<1> QED BY <1>2, <1>3, <1>4

(* One word of a slot is written. *)
NameSet(h, p, i, n) == [h EXCEPT ![p][i].name = n]

IsNameSet(g, h, p, i, n) ==
    /\ g \in Seq(Seq(Slot)) /\ Len(g) = Len(h)
    /\ \A q \in 1 .. Len(h) : /\ Len(g[q]) = Len(h[q])
                              /\ \A j \in 1 .. Len(h[q]) :
                                    /\ g[q][j].name = IF q = p /\ j = i THEN n ELSE h[q][j].name
                                    /\ g[q][j].client = h[q][j].client

LEMMA SetName ==
    ASSUME NEW h \in Seq(Seq(Slot)), NEW p \in 1 .. Len(h), NEW i \in 1 .. Len(h[p]), NEW n \in APs
    PROVE  IsNameSet(NameSet(h, p, i, n), h, p, i, n)
<1> DEFINE g == NameSet(h, p, i, n)
           s == [h[p][i] EXCEPT !.name = n]
<1>1. h[p] \in Seq(Slot) /\ h[p][i] \in Slot
  <2>1. h[p] \in Seq(Slot)  BY ElementOfSeq
  <2> QED BY <2>1, ElementOfSeq
<1>2. s \in Slot /\ s.name = n /\ s.client = h[p][i].client  BY <1>1 DEF Slot
<1>3. g = [h EXCEPT ![p] = [h[p] EXCEPT ![i] = s]]  BY DEF NameSet
<1> HIDE DEF g, s
<1>4. /\ g \in Seq(Seq(Slot)) /\ Len(g) = Len(h)
      /\ \A q \in 1 .. Len(h) : /\ Len(g[q]) = Len(h[q])
                                /\ \A j \in 1 .. Len(h[q]) : g[q][j] = IF q = p /\ j = i THEN s ELSE h[q][j]
  BY <1>2, <1>3, SetSlot
<1>5. IsNameSet(g, h, p, i, n)  BY <1>2, <1>4 DEF IsNameSet
<1> QED BY <1>5 DEF g

ClientSet(h, p, i, c) == [h EXCEPT ![p][i].client = c]

IsClientSet(g, h, p, i, c) ==
    /\ g \in Seq(Seq(Slot)) /\ Len(g) = Len(h)
    /\ \A q \in 1 .. Len(h) : /\ Len(g[q]) = Len(h[q])
                              /\ \A j \in 1 .. Len(h[q]) :
                                    /\ g[q][j].client = IF q = p /\ j = i THEN c ELSE h[q][j].client
                                    /\ g[q][j].name = h[q][j].name

LEMMA SetClient ==
    ASSUME NEW h \in Seq(Seq(Slot)), NEW p \in 1 .. Len(h), NEW i \in 1 .. Len(h[p]), NEW c \in BOOLEAN
    PROVE  IsClientSet(ClientSet(h, p, i, c), h, p, i, c)
<1> DEFINE g == ClientSet(h, p, i, c)
           s == [h[p][i] EXCEPT !.client = c]
<1>1. h[p] \in Seq(Slot) /\ h[p][i] \in Slot
  <2>1. h[p] \in Seq(Slot)  BY ElementOfSeq
  <2> QED BY <2>1, ElementOfSeq
<1>2. s \in Slot /\ s.client = c /\ s.name = h[p][i].name  BY <1>1 DEF Slot
<1>3. g = [h EXCEPT ![p] = [h[p] EXCEPT ![i] = s]]  BY DEF ClientSet
<1> HIDE DEF g, s
<1>4. /\ g \in Seq(Seq(Slot)) /\ Len(g) = Len(h)
      /\ \A q \in 1 .. Len(h) : /\ Len(g[q]) = Len(h[q])
                                /\ \A j \in 1 .. Len(h[q]) : g[q][j] = IF q = p /\ j = i THEN s ELSE h[q][j]
  BY <1>2, <1>3, SetSlot
<1>5. IsClientSet(g, h, p, i, c)  BY <1>2, <1>4 DEF IsClientSet
<1> QED BY <1>5 DEF g

----------------------------------------------------------------------------
(* The slice *)

Kinds == {"append", "remove", "client"}

(* The writes that may be on their way to a list l at array p. *)
Work(l, p) ==
    {<<"name", i, l[i]>> : i \in 1 .. Len(l)} \cup {<<"client", i, l[i]>> : i \in 1 .. Len(l)}
    \cup {<<"len", Len(l), Fresh(Nobody)>>, <<"ptr", p, Fresh(Nobody)>>}

(* Array a shows list l, but for the writes still to come. *)
Shows(a, l, todo) ==
    /\ Len(l) <= Len(a)
    /\ \A i \in 1 .. Len(l) : /\ a[i].name = l[i].name \/ <<"name", i, l[i]>> \in todo
                              /\ a[i].client = l[i].client \/ <<"client", i, l[i]>> \in todo

(* The AP that RemoveAP refuses is there, so the list is never empty. *)
HasDefault(l) == \E i \in 1 .. Len(l) : l[i].name = Default

Types ==
    /\ heap \in Seq(Seq(Slot)) /\ list \in Seq(AP)
    /\ hdr \in [arr : 1 .. Len(heap), len : Nat]
    /\ edit \in [todo : SUBSET Work(list, edit.arr), arr : 1 .. Len(heap), kind : Kinds \cup {"none"},
                 old : Seq(AP), n : Nat]

(* The edit that holds the lock has the AP list to make as its goal: each word
   of the slice is there or about to be written. *)
SliceInv ==
    /\ Types
    /\ hdr.arr = edit.arr \/ <<"ptr", edit.arr, Fresh(Nobody)>> \in edit.todo
    /\ hdr.len = Len(list) \/ <<"len", Len(list), Fresh(Nobody)>> \in edit.todo
    /\ Shows(heap[edit.arr], list, edit.todo)
    /\ HasDefault(list)

LEMMA APIsSlot == AP \subseteq Slot
BY DEF AP, Slot

LEMMA FreshType == Fresh(Nobody) \in Slot /\ Fresh(Wild) \in Slot /\ \A a \in APs : Fresh(a) \in AP
BY DEF Fresh, Slot, AP

(* What lies in the arrays and the list. *)
LEMMA Elements ==
    ASSUME Types
    PROVE  /\ \A p \in 1 .. Len(heap) : /\ heap[p] \in Seq(Slot) /\ Len(heap[p]) \in Nat
                                        /\ \A j \in 1 .. Len(heap[p]) : heap[p][j] \in Slot
           /\ \A i \in 1 .. Len(list) : list[i] \in AP
           /\ Len(heap) \in Nat /\ Len(list) \in Nat
<1>1. \A p \in 1 .. Len(heap) : heap[p] \in Seq(Slot)  BY ElementOfSeq DEF Types
<1>2. \A p \in 1 .. Len(heap) : Len(heap[p]) \in Nat /\ \A j \in 1 .. Len(heap[p]) : heap[p][j] \in Slot
  BY <1>1, ElementOfSeq, LenProperties
<1>3. \A i \in 1 .. Len(list) : list[i] \in AP  BY ElementOfSeq DEF Types
<1>4. Len(heap) \in Nat /\ Len(list) \in Nat  BY LenProperties DEF Types
<1> QED BY <1>1, <1>2, <1>3, <1>4

(* With the lock free, the slice is the list. *)
LEMMA IdleShows ==
    ASSUME SliceInv, Idle
    PROVE  /\ hdr.arr = edit.arr /\ hdr.arr \in 1 .. Len(heap)
           /\ hdr.len = Len(list) /\ Len(list) <= Len(heap[hdr.arr])
           /\ \A i \in 1 .. Len(list) : heap[hdr.arr][i] = list[i]
<1>1. hdr.arr = edit.arr /\ hdr.arr \in 1 .. Len(heap) /\ hdr.len = Len(list)
  BY DEF SliceInv, Idle, Types
<1>2. Len(list) <= Len(heap[hdr.arr])
      /\ \A i \in 1 .. Len(list) : heap[hdr.arr][i].name = list[i].name /\ heap[hdr.arr][i].client = list[i].client
  BY <1>1 DEF SliceInv, Idle, Shows
<1>3. ASSUME NEW i \in 1 .. Len(list) PROVE heap[hdr.arr][i] = list[i]
  <2>1. i \in 1 .. Len(heap[hdr.arr])  BY <1>1, <1>2, Elements DEF SliceInv
  <2>2. heap[hdr.arr][i] \in Slot /\ list[i] \in Slot  BY <1>1, <2>1, Elements, APIsSlot DEF SliceInv
  <2> QED BY <1>2, <2>2 DEF Slot
<1> QED BY <1>1, <1>2, <1>3

(* A word becomes visible. *)
LEMMA WriteStep ==
    ASSUME SliceInv, Write
    PROVE  \E w \in edit.todo :
              /\ edit' = [edit EXCEPT !.todo = @ \ {w}] /\ reader' = reader /\ list' = list
              /\ \/ \E i \in 1 .. Len(list) : /\ w = <<"name", i, list[i]>> /\ hdr' = hdr
                                              /\ heap' = NameSet(heap, edit.arr, i, list[i].name)
                 \/ \E i \in 1 .. Len(list) : /\ w = <<"client", i, list[i]>> /\ hdr' = hdr
                                              /\ heap' = ClientSet(heap, edit.arr, i, list[i].client)
                 \/ /\ w = <<"len", Len(list), Fresh(Nobody)>> /\ heap' = heap
                    /\ hdr' = [hdr EXCEPT !.len = Len(list)]
                 \/ /\ w = <<"ptr", edit.arr, Fresh(Nobody)>> /\ heap' = heap
                    /\ hdr' = [hdr EXCEPT !.arr = edit.arr]
<1>1. PICK w \in edit.todo :
         /\ edit' = [edit EXCEPT !.todo = @ \ {w}]
         /\ hdr' = CASE w[1] = "len" -> [hdr EXCEPT !.len = w[2]]
                     [] w[1] = "ptr" -> [hdr EXCEPT !.arr = w[2]]
                     [] OTHER -> hdr
         /\ heap' = CASE w[1] = "name" -> [heap EXCEPT ![edit.arr][w[2]].name = w[3].name]
                      [] w[1] = "client" -> [heap EXCEPT ![edit.arr][w[2]].client = w[3].client]
                      [] OTHER -> heap
         /\ UNCHANGED <<reader, list>>
  BY DEF Write
<1>2. w \in Work(list, edit.arr)  BY DEF SliceInv, Types
<1>3. CASE \E i \in 1 .. Len(list) : w = <<"name", i, list[i]>>
  <2>1. PICK i \in 1 .. Len(list) : w = <<"name", i, list[i]>>  BY <1>3
  <2>2. w[1] = "name" /\ w[2] = i /\ w[3] = list[i]  BY <2>1
  <2>3. hdr' = hdr /\ heap' = NameSet(heap, edit.arr, i, list[i].name)  BY <1>1, <2>2 DEF NameSet
  <2> QED BY <1>1, <2>1, <2>3
<1>4. CASE \E i \in 1 .. Len(list) : w = <<"client", i, list[i]>>
  <2>1. PICK i \in 1 .. Len(list) : w = <<"client", i, list[i]>>  BY <1>4
  <2>2. w[1] = "client" /\ w[2] = i /\ w[3] = list[i]  BY <2>1
  <2>3. hdr' = hdr /\ heap' = ClientSet(heap, edit.arr, i, list[i].client)  BY <1>1, <2>2 DEF ClientSet
  <2> QED BY <1>1, <2>1, <2>3
<1>5. CASE w = <<"len", Len(list), Fresh(Nobody)>>
  <2>1. w[1] = "len" /\ w[2] = Len(list)  BY <1>5
  <2>2. heap' = heap /\ hdr' = [hdr EXCEPT !.len = Len(list)]  BY <1>1, <2>1
  <2> QED BY <1>1, <1>5, <2>2
<1>6. CASE w = <<"ptr", edit.arr, Fresh(Nobody)>>
  <2>1. w[1] = "ptr" /\ w[2] = edit.arr  BY <1>6
  <2>2. heap' = heap /\ hdr' = [hdr EXCEPT !.arr = edit.arr]  BY <1>1, <2>1
  <2> QED BY <1>1, <1>6, <2>2
<1> QED BY <1>2, <1>3, <1>4, <1>5, <1>6 DEF Work

(* What a reader may notice of it: a slot of the edited array gets a word the
   new list has there. *)
WriteEffect ==
    /\ Len(heap') = Len(heap) /\ reader' = reader /\ list' = list
    /\ edit.todo # {} /\ edit'.todo \subseteq edit.todo /\ edit'.kind = edit.kind
    /\ \A p \in 1 .. Len(heap) :
          /\ Len(heap'[p]) = Len(heap[p])
          /\ \A j \in 1 .. Len(heap[p]) :
                /\ \/ heap'[p][j].name = heap[p][j].name
                   \/ j \in 1 .. Len(list) /\ heap'[p][j].name = list[j].name /\ <<"name", j, list[j]>> \in edit.todo
                /\ \/ heap'[p][j].client = heap[p][j].client
                   \/ j \in 1 .. Len(list) /\ heap'[p][j].client = list[j].client
                      /\ <<"client", j, list[j]>> \in edit.todo

LEMMA WriteInv ==
    ASSUME SliceInv, Write
    PROVE  SliceInv' /\ WriteEffect
<1>1. PICK w \in edit.todo :
         /\ edit' = [edit EXCEPT !.todo = @ \ {w}] /\ reader' = reader /\ list' = list
         /\ \/ \E i \in 1 .. Len(list) : /\ w = <<"name", i, list[i]>> /\ hdr' = hdr
                                         /\ heap' = NameSet(heap, edit.arr, i, list[i].name)
            \/ \E i \in 1 .. Len(list) : /\ w = <<"client", i, list[i]>> /\ hdr' = hdr
                                         /\ heap' = ClientSet(heap, edit.arr, i, list[i].client)
            \/ /\ w = <<"len", Len(list), Fresh(Nobody)>> /\ heap' = heap
               /\ hdr' = [hdr EXCEPT !.len = Len(list)]
            \/ /\ w = <<"ptr", edit.arr, Fresh(Nobody)>> /\ heap' = heap
               /\ hdr' = [hdr EXCEPT !.arr = edit.arr]
  BY WriteStep
<1> USE DEF SliceInv
<1>2. /\ edit'.todo = edit.todo \ {w} /\ edit'.arr = edit.arr /\ edit'.kind = edit.kind
      /\ edit' \in [todo : SUBSET Work(list, edit.arr), arr : 1 .. Len(heap), kind : Kinds \cup {"none"},
                    old : Seq(AP), n : Nat]
  BY <1>1 DEF Types
<1>3. /\ Len(list) \in Nat /\ Len(heap) \in Nat /\ edit.arr \in 1 .. Len(heap)
      /\ Len(heap[edit.arr]) \in Nat /\ Len(list) <= Len(heap[edit.arr])
  BY Elements DEF Types, Shows
<1>4. \A i \in 1 .. Len(list) : i \in 1 .. Len(heap[edit.arr]) /\ list[i].name \in APs /\ list[i].client \in BOOLEAN
  BY <1>3, Elements DEF AP
<1>4a. edit.todo # {} /\ reader' = reader /\ list' = list  BY <1>1
<1>5. CASE \E i \in 1 .. Len(list) : /\ w = <<"name", i, list[i]>> /\ hdr' = hdr
                                     /\ heap' = NameSet(heap, edit.arr, i, list[i].name)
  <2>1. PICK i \in 1 .. Len(list) : /\ w = <<"name", i, list[i]>> /\ hdr' = hdr
                                    /\ heap' = NameSet(heap, edit.arr, i, list[i].name)
    BY <1>5
  <2>2. /\ heap' \in Seq(Seq(Slot)) /\ Len(heap') = Len(heap)
        /\ \A q \in 1 .. Len(heap) : /\ Len(heap'[q]) = Len(heap[q])
                                     /\ \A j \in 1 .. Len(heap[q]) :
                                           /\ heap'[q][j].name = IF q = edit.arr /\ j = i THEN list[i].name ELSE heap[q][j].name
                                           /\ heap'[q][j].client = heap[q][j].client
    <3>1. heap \in Seq(Seq(Slot)) /\ i \in 1 .. Len(heap[edit.arr]) /\ list[i].name \in APs  BY <1>4 DEF Types
    <3>2. IsNameSet(NameSet(heap, edit.arr, i, list[i].name), heap, edit.arr, i, list[i].name)
      BY <1>3, <3>1, SetName
    <3>3. IsNameSet(heap', heap, edit.arr, i, list[i].name)  BY <2>1, <3>2
    <3> QED BY <3>3 DEF IsNameSet
  <2>3. \A j \in 1 .. Len(list) : <<"client", j, list[j]>> # w /\ (j # i => <<"name", j, list[j]>> # w)  BY <2>1
  <2>4. w # <<"len", Len(list), Fresh(Nobody)>> /\ w # <<"ptr", edit.arr, Fresh(Nobody)>>  BY <2>1
  <2>5. Types'  BY <1>1, <1>2, <2>1, <2>2 DEF Types
  <2>6. Shows(heap'[edit.arr], list, edit'.todo)
    BY <1>2, <1>3, <1>4, <2>2, <2>3 DEF Shows
  <2>7. SliceInv'  BY <1>1, <1>2, <2>1, <2>4, <2>5, <2>6
  <2>8. WriteEffect
    <3>1. <<"name", i, list[i]>> \in edit.todo  BY <2>1
    <3>2. ASSUME NEW p \in 1 .. Len(heap), NEW j \in 1 .. Len(heap[p])
          PROVE  /\ \/ heap'[p][j].name = heap[p][j].name
                    \/ j \in 1 .. Len(list) /\ heap'[p][j].name = list[j].name /\ <<"name", j, list[j]>> \in edit.todo
                 /\ heap'[p][j].client = heap[p][j].client
      BY <2>2, <3>1
    <3> QED BY <1>4a, <1>2, <2>2, <3>2 DEF WriteEffect
  <2> QED BY <2>7, <2>8
<1>6. CASE \E i \in 1 .. Len(list) : /\ w = <<"client", i, list[i]>> /\ hdr' = hdr
                                     /\ heap' = ClientSet(heap, edit.arr, i, list[i].client)
  <2>1. PICK i \in 1 .. Len(list) : /\ w = <<"client", i, list[i]>> /\ hdr' = hdr
                                    /\ heap' = ClientSet(heap, edit.arr, i, list[i].client)
    BY <1>6
  <2>2. /\ heap' \in Seq(Seq(Slot)) /\ Len(heap') = Len(heap)
        /\ \A q \in 1 .. Len(heap) : /\ Len(heap'[q]) = Len(heap[q])
                                     /\ \A j \in 1 .. Len(heap[q]) :
                                           /\ heap'[q][j].client = IF q = edit.arr /\ j = i THEN list[i].client ELSE heap[q][j].client
                                           /\ heap'[q][j].name = heap[q][j].name
    <3>1. heap \in Seq(Seq(Slot)) /\ i \in 1 .. Len(heap[edit.arr]) /\ list[i].client \in BOOLEAN  BY <1>4 DEF Types
    <3>2. IsClientSet(ClientSet(heap, edit.arr, i, list[i].client), heap, edit.arr, i, list[i].client)
      BY <1>3, <3>1, SetClient
    <3>3. IsClientSet(heap', heap, edit.arr, i, list[i].client)  BY <2>1, <3>2
    <3> QED BY <3>3 DEF IsClientSet
  <2>3. \A j \in 1 .. Len(list) : <<"name", j, list[j]>> # w /\ (j # i => <<"client", j, list[j]>> # w)  BY <2>1
  <2>4. w # <<"len", Len(list), Fresh(Nobody)>> /\ w # <<"ptr", edit.arr, Fresh(Nobody)>>  BY <2>1
  <2>5. Types'  BY <1>1, <1>2, <2>1, <2>2 DEF Types
  <2>6. Shows(heap'[edit.arr], list, edit'.todo)
    BY <1>2, <1>3, <1>4, <2>2, <2>3 DEF Shows
  <2>7. SliceInv'  BY <1>1, <1>2, <2>1, <2>4, <2>5, <2>6
  <2>8. WriteEffect
    <3>1. <<"client", i, list[i]>> \in edit.todo  BY <2>1
    <3>2. ASSUME NEW p \in 1 .. Len(heap), NEW j \in 1 .. Len(heap[p])
          PROVE  /\ \/ heap'[p][j].client = heap[p][j].client
                    \/ j \in 1 .. Len(list) /\ heap'[p][j].client = list[j].client /\ <<"client", j, list[j]>> \in edit.todo
                 /\ heap'[p][j].name = heap[p][j].name
      BY <2>2, <3>1
    <3> QED BY <1>4a, <1>2, <2>2, <3>2 DEF WriteEffect
  <2> QED BY <2>7, <2>8
<1>7. CASE /\ w = <<"len", Len(list), Fresh(Nobody)>> /\ heap' = heap
           /\ hdr' = [hdr EXCEPT !.len = Len(list)]
  <2>1. hdr' \in [arr : 1 .. Len(heap), len : Nat] /\ hdr'.arr = hdr.arr /\ hdr'.len = Len(list)
    BY <1>3, <1>7 DEF Types
  <2>2. /\ w # <<"ptr", edit.arr, Fresh(Nobody)>>
        /\ \A i \in 1 .. Len(list) : w # <<"name", i, list[i]>> /\ w # <<"client", i, list[i]>>
    BY <1>7
  <2>3. Shows(heap[edit.arr], list, edit'.todo)  BY <1>2, <2>2 DEF Shows
  <2>4. Types'  BY <1>1, <1>2, <1>7, <2>1 DEF Types
  <2>5. SliceInv'  BY <1>1, <1>2, <1>7, <2>1, <2>2, <2>3, <2>4
  <2>6. WriteEffect  BY <1>1, <1>2, <1>7 DEF WriteEffect
  <2> QED BY <2>5, <2>6
<1>8. CASE /\ w = <<"ptr", edit.arr, Fresh(Nobody)>> /\ heap' = heap
           /\ hdr' = [hdr EXCEPT !.arr = edit.arr]
  <2>1. hdr' \in [arr : 1 .. Len(heap), len : Nat] /\ hdr'.arr = edit.arr /\ hdr'.len = hdr.len
    BY <1>3, <1>8 DEF Types
  <2>2. /\ w # <<"len", Len(list), Fresh(Nobody)>>
        /\ \A i \in 1 .. Len(list) : w # <<"name", i, list[i]>> /\ w # <<"client", i, list[i]>>
    BY <1>8
  <2>3. Shows(heap[edit.arr], list, edit'.todo)  BY <1>2, <2>2 DEF Shows
  <2>4. Types'  BY <1>1, <1>2, <1>8, <2>1 DEF Types
  <2>5. SliceInv'  BY <1>1, <1>2, <1>8, <2>1, <2>2, <2>3, <2>4
  <2>6. WriteEffect  BY <1>1, <1>2, <1>8 DEF WriteEffect
  <2> QED BY <2>5, <2>6
<1> QED BY <1>1, <1>5, <1>6, <1>7, <1>8

(* An edit takes the lock and knows what it is going to write. *)
EditEffect ==
    \E kind \in Kinds :
        /\ Idle /\ hdr' = hdr /\ edit'.kind = kind /\ Notice(kind, list')
        /\ Len(heap') >= Len(heap) /\ \A p \in 1 .. Len(heap) : heap'[p] = heap[p]
        /\ kind = "append" => /\ Len(list') = Len(list) + 1
                              /\ \A i \in 1 .. Len(list) : /\ <<"name", i, list'[i]>> \notin edit'.todo
                                                           /\ <<"client", i, list'[i]>> \notin edit'.todo
        /\ list # << >> /\ list[1].name = Default => list' # << >> /\ list'[1].name = Default

LEMMA EditCounts == Types => edit.n + 1 \in Nat
BY DEF Types

LEMMA BeginInv ==
    ASSUME SliceInv, NEW kind \in Kinds, NEW arr, NEW new \in Seq(AP), NEW writes \in SUBSET Work(new, arr),
           Begin(kind, arr, new, writes),
           heap' \in Seq(Seq(Slot)), Len(heap') >= Len(heap), arr \in 1 .. Len(heap'),
           hdr.arr = arr \/ <<"ptr", arr, Fresh(Nobody)>> \in writes,
           Len(list) = Len(new) \/ <<"len", Len(new), Fresh(Nobody)>> \in writes,
           Shows(heap'[arr], new, writes), HasDefault(new)
    PROVE  SliceInv'
<1>1. /\ edit' = [todo |-> writes, arr |-> arr, kind |-> kind, old |-> list, n |-> edit.n + 1]
      /\ list' = new /\ hdr' = hdr /\ Idle
  BY DEF Begin
<1>2. hdr.len = Len(list) /\ hdr.arr = edit.arr  BY <1>1, IdleShows
<1>3. Len(heap) \in Nat /\ Len(heap') \in Nat  BY LenProperties DEF SliceInv, Types
<1>4. hdr' \in [arr : 1 .. Len(heap'), len : Nat]  BY <1>1, <1>3 DEF SliceInv, Types
<1>5. edit' \in [todo : SUBSET Work(list', edit'.arr), arr : 1 .. Len(heap'), kind : Kinds \cup {"none"},
                 old : Seq(AP), n : Nat]
  <2>1. edit.n + 1 \in Nat /\ list \in Seq(AP)  BY EditCounts DEF SliceInv, Types
  <2> QED BY <1>1, <2>1
<1>6. Types'  BY <1>1, <1>4, <1>5 DEF Types
<1>7. Shows(heap'[edit'.arr], list', edit'.todo)  BY <1>1
<1> QED BY <1>1, <1>2, <1>6, <1>7 DEF SliceInv

(* append, into the room behind the slice or into a larger array *)
LEMMA AddAPInv ==
    ASSUME SliceInv, NEW a \in APs, AddAP(a)
    PROVE  SliceInv' /\ EditEffect
<1> DEFINE n == Len(list)
           arr == heap[hdr.arr]
           ptr == Len(heap) + 1
           s == Fresh(a)
           new == Append(list, s)
           two == Put(n + 1, s) \cup Word("len", n + 1)
           three == two \cup Word("ptr", ptr)
           grown == arr \o [i \in 1 .. n |-> Fresh(Nobody)]
<1>1. Idle  BY DEF AddAP, Begin
<1>2. /\ hdr.arr = edit.arr /\ hdr.arr \in 1 .. Len(heap) /\ hdr.len = n /\ n <= Len(arr)
      /\ \A i \in 1 .. n : arr[i] = list[i]
  BY <1>1, IdleShows
<1>3. /\ list \in Seq(AP) /\ n \in Nat /\ arr \in Seq(Slot) /\ Len(arr) \in Nat /\ Len(heap) \in Nat
      /\ heap \in Seq(Seq(Slot)) /\ s \in AP /\ s \in Slot
  BY <1>2, Elements, FreshType, APIsSlot DEF SliceInv, Types
<1>4. n >= 1  BY <1>3 DEF SliceInv, HasDefault
<1> HIDE DEF s, arr, ptr
<1>5. /\ new \in Seq(AP) /\ Len(new) = n + 1 /\ new[n + 1] = s /\ \A i \in 1 .. n : new[i] = list[i]
  BY <1>3, AppendProperties
<1>6. two = {<<"name", n + 1, new[n + 1]>>, <<"client", n + 1, new[n + 1]>>, <<"len", Len(new), Fresh(Nobody)>>}
  BY <1>5 DEF Put, Word
<1>7. three = {<<"name", n + 1, new[n + 1]>>, <<"client", n + 1, new[n + 1]>>, <<"len", Len(new), Fresh(Nobody)>>,
               <<"ptr", ptr, Fresh(Nobody)>>}
  BY <1>6 DEF Word
<1>8. HasDefault(new)
  <2>1. PICK i \in 1 .. n : list[i].name = Default  BY DEF SliceInv, HasDefault
  <2>2. i \in 1 .. Len(new) /\ new[i].name = Default  BY <1>3, <1>5, <2>1
  <2> QED BY <2>2 DEF HasDefault
<1>9. new # << >> /\ (list[1].name = Default => new[1].name = Default)  BY <1>3, <1>4, <1>5
<1> HIDE DEF new, two, three, n
<1>10. n + 1 \in 1 .. Len(new) /\ \A i \in 1 .. Len(new) : i = n + 1 \/ i \in 1 .. n  BY <1>3, <1>5
<1>11. /\ two \in SUBSET Work(new, hdr.arr) /\ three \in SUBSET Work(new, ptr)
  <2>1. \A p : <<"name", n + 1, new[n + 1]>> \in Work(new, p) /\ <<"client", n + 1, new[n + 1]>> \in Work(new, p)
               /\ <<"len", Len(new), Fresh(Nobody)>> \in Work(new, p) /\ <<"ptr", p, Fresh(Nobody)>> \in Work(new, p)
    BY <1>10 DEF Work
  <2> QED BY <1>6, <1>7, <2>1
<1>12. ASSUME NEW x, Len(x) >= n + 1, \A i \in 1 .. n : x[i] = list[i], NEW w, two \subseteq w
       PROVE  Shows(x, new, w)
  <2>1. <<"name", n + 1, new[n + 1]>> \in w /\ <<"client", n + 1, new[n + 1]>> \in w  BY <1>6, <1>12
  <2>2. \A i \in 1 .. n : x[i] = new[i]  BY <1>5, <1>12
  <2>3. Len(new) <= Len(x)  BY <1>5, <1>12
  <2> QED BY <1>10, <2>1, <2>2, <2>3 DEF Shows
<1>13. \A i \in 1 .. n : /\ <<"name", i, new[i]>> \notin three /\ <<"client", i, new[i]>> \notin three
                         /\ <<"name", i, new[i]>> \notin two /\ <<"client", i, new[i]>> \notin two
  <2> SUFFICES ASSUME NEW i \in 1 .. n
               PROVE  /\ <<"name", i, new[i]>> \notin three /\ <<"client", i, new[i]>> \notin three
                      /\ <<"name", i, new[i]>> \notin two /\ <<"client", i, new[i]>> \notin two
    OBVIOUS
  <2>1. i # n + 1  BY <1>3
  <2> QED BY <1>6, <1>7, <2>1
<1>14. CASE n < Len(arr) /\ heap' = heap /\ Begin("append", hdr.arr, new, two)
  <2>1. Shows(heap'[hdr.arr], new, two)
    <3>1. Len(arr) >= n + 1  BY <1>3, <1>14
    <3> QED BY <1>2, <1>12, <1>14, <3>1 DEF arr
  <2>2. heap' \in Seq(Seq(Slot)) /\ Len(heap') >= Len(heap) /\ hdr.arr \in 1 .. Len(heap')
        /\ <<"len", Len(new), Fresh(Nobody)>> \in two /\ "append" \in Kinds
    BY <1>2, <1>3, <1>6, <1>14 DEF Kinds
  <2>3. SliceInv'  BY <1>5, <1>8, <1>11, <1>14, <2>1, <2>2, BeginInv
  <2>4. EditEffect
    <3>1. Idle /\ hdr' = hdr /\ edit'.kind = "append" /\ list' = new /\ edit'.todo = two /\ Notice("append", new)
      BY <1>14 DEF Begin
    <3>2. Len(heap') >= Len(heap) /\ \A p \in 1 .. Len(heap) : heap'[p] = heap[p]  BY <1>3, <1>14
    <3> QED BY <1>5, <1>9, <1>13, <2>2, <3>1, <3>2 DEF EditEffect, n
  <2> QED BY <2>3, <2>4
<1>15. CASE n = Len(arr) /\ heap' = Append(heap, grown) /\ Begin("append", ptr, new, three)
  <2>1. /\ grown \in Seq(Slot) /\ Len(grown) = n + n /\ \A i \in 1 .. n : grown[i] = arr[i]
    <3> DEFINE room == [i \in 1 .. n |-> Fresh(Nobody)]
    <3>1. room \in Seq(Slot) /\ Len(room) = n
      <4>1. room \in [1 .. n -> Slot]  BY FreshType
      <4> HIDE DEF room
      <4> QED BY <1>3, <4>1, FunctionIsSeq
    <3> HIDE DEF room
    <3>2. /\ arr \o room \in Seq(Slot) /\ Len(arr \o room) = Len(arr) + Len(room)
          /\ \A i \in 1 .. Len(arr) + Len(room) : (arr \o room)[i] = IF i <= Len(arr) THEN arr[i] ELSE room[i - Len(arr)]
      BY <1>3, <3>1, ConcatProperties
    <3>3. \A i \in 1 .. n : i \in 1 .. Len(arr) + Len(room) /\ i <= Len(arr)  BY <1>3, <1>15, <3>1
    <3>4. Len(arr) + Len(room) = n + n  BY <1>15, <3>1
    <3> QED BY <3>2, <3>3, <3>4 DEF room
  <2> HIDE DEF grown
  <2>2. /\ heap' \in Seq(Seq(Slot)) /\ Len(heap') = Len(heap) + 1 /\ heap'[ptr] = grown
        /\ \A p \in 1 .. Len(heap) : heap'[p] = heap[p]
    BY <1>3, <1>15, <2>1, AppendProperties DEF ptr
  <2>3. Shows(heap'[ptr], new, three)
    <3>1. Len(grown) >= n + 1 /\ \A i \in 1 .. n : grown[i] = list[i]  BY <1>2, <1>3, <1>4, <2>1
    <3>2. two \subseteq three  BY DEF three
    <3> QED BY <1>12, <2>2, <3>1, <3>2
  <2>4. Len(heap') >= Len(heap) /\ ptr \in 1 .. Len(heap') /\ "append" \in Kinds
        /\ <<"len", Len(new), Fresh(Nobody)>> \in three /\ <<"ptr", ptr, Fresh(Nobody)>> \in three
    BY <1>3, <1>7, <2>2 DEF ptr, Kinds
  <2>5. SliceInv'  BY <1>5, <1>8, <1>11, <1>15, <2>2, <2>3, <2>4, BeginInv
  <2>6. EditEffect
    <3>1. Idle /\ hdr' = hdr /\ edit'.kind = "append" /\ list' = new /\ edit'.todo = three /\ Notice("append", new)
      BY <1>15 DEF Begin
    <3> QED BY <1>5, <1>9, <1>13, <2>2, <2>4, <3>1 DEF EditEffect, n
  <2> QED BY <2>5, <2>6
<1> QED
  <2>1. \/ /\ hdr.len < Len(arr) /\ heap' = heap
           /\ Begin("append", hdr.arr, Append(list, Fresh(a)), Put(hdr.len + 1, Fresh(a)) \cup Word("len", hdr.len + 1))
        \/ /\ hdr.len = Len(arr) /\ heap' = Append(heap, arr \o [i \in 1 .. hdr.len |-> Fresh(Nobody)])
           /\ Begin("append", ptr, Append(list, Fresh(a)),
                    Put(hdr.len + 1, Fresh(a)) \cup Word("len", hdr.len + 1) \cup Word("ptr", ptr))
    BY DEF AddAP, arr, ptr
  <2> QED BY <1>2, <1>14, <1>15, <2>1 DEF new, two, three, s

(* The tail moves down, within the array. *)
LEMMA RemoveAPInv ==
    ASSUME SliceInv, NEW k \in 1 .. Len(list), RemoveAP(k)
    PROVE  SliceInv' /\ EditEffect
<1> DEFINE n == Len(list)
           arr == heap[hdr.arr]
           new == [i \in 1 .. n - 1 |-> IF i < k THEN list[i] ELSE list[i + 1]]
           moved == UNION {Put(i, arr[i + 1]) : i \in k .. n - 1}
           writes == moved \cup Word("len", n - 1)
<1>1. Idle  BY DEF RemoveAP, Shift, Begin
<1>2. /\ hdr.arr = edit.arr /\ hdr.arr \in 1 .. Len(heap) /\ hdr.len = n /\ n <= Len(arr)
      /\ \A i \in 1 .. n : arr[i] = list[i]
  BY <1>1, IdleShows
<1>3. /\ list \in Seq(AP) /\ n \in Nat /\ Len(arr) \in Nat /\ heap \in Seq(Seq(Slot)) /\ k \in 1 .. n
      /\ \A i \in 1 .. n : list[i] \in AP
  BY <1>2, Elements DEF SliceInv, Types
<1>4. heap' = heap /\ Begin("remove", hdr.arr, new, writes) /\ list[k].name # Default
  BY <1>2 DEF RemoveAP, Shift
<1> HIDE DEF arr
<1>5. /\ new \in Seq(AP) /\ Len(new) = n - 1
      /\ \A i \in 1 .. n - 1 : new[i] = IF i < k THEN list[i] ELSE list[i + 1]
  <2>1. \A i \in 1 .. n - 1 : i \in 1 .. n /\ i + 1 \in 1 .. n  BY <1>3
  <2>2. new \in [1 .. n - 1 -> AP]  BY <1>3, <2>1
  <2>3. n - 1 \in Nat  BY <1>3
  <2>4. \A i \in 1 .. n - 1 : new[i] = IF i < k THEN list[i] ELSE list[i + 1]  OBVIOUS
  <2> HIDE DEF new
  <2>5. new \in Seq(AP) /\ Len(new) = n - 1  BY <2>2, <2>3, FunctionIsSeq
  <2> QED BY <2>4, <2>5
<1> HIDE DEF new
<1>6. \A i \in k .. n - 1 : i \in 1 .. Len(new) /\ arr[i + 1] = new[i]
  <2> SUFFICES ASSUME NEW i \in k .. n - 1 PROVE i \in 1 .. Len(new) /\ arr[i + 1] = new[i]  OBVIOUS
  <2>1. i \in 1 .. n - 1 /\ i + 1 \in 1 .. n /\ ~(i < k)  BY <1>3
  <2> QED BY <1>2, <1>5, <2>1
<1>7. \A i \in k .. n - 1 : Put(i, arr[i + 1]) = {<<"name", i, new[i]>>, <<"client", i, new[i]>>}
  BY <1>6 DEF Put
<1>8. \A w : w \in moved <=> \E i \in k .. n - 1 : w \in Put(i, arr[i + 1])  OBVIOUS
<1>8a. Word("len", n - 1) = {<<"len", Len(new), Fresh(Nobody)>>}  BY <1>5 DEF Word
<1> HIDE DEF moved
<1>8b. /\ \A i \in k .. n - 1 : <<"name", i, new[i]>> \in writes /\ <<"client", i, new[i]>> \in writes
       /\ <<"len", Len(new), Fresh(Nobody)>> \in writes
  <2>1. ASSUME NEW i \in k .. n - 1 PROVE <<"name", i, new[i]>> \in moved /\ <<"client", i, new[i]>> \in moved
    <3>1. <<"name", i, new[i]>> \in Put(i, arr[i + 1]) /\ <<"client", i, new[i]>> \in Put(i, arr[i + 1])  BY <1>7
    <3> QED BY <1>8, <3>1
  <2> QED BY <1>8a, <2>1
<1>8c. writes \in SUBSET Work(new, hdr.arr)
  <2> SUFFICES ASSUME NEW w \in writes PROVE w \in Work(new, hdr.arr)  OBVIOUS
  <2>1. CASE w \in Word("len", n - 1)  BY <1>8a, <2>1 DEF Work
  <2>2. CASE w \in moved
    <3>1. PICK i \in k .. n - 1 : w \in Put(i, arr[i + 1])  BY <1>8, <2>2
    <3>2. w = <<"name", i, new[i]>> \/ w = <<"client", i, new[i]>>  BY <1>7, <3>1
    <3>3. i \in 1 .. Len(new)  BY <1>6
    <3> QED BY <3>2, <3>3 DEF Work
  <2> QED BY <2>1, <2>2
<1> HIDE DEF writes
<1>9. Shows(arr, new, writes)
  <2>1. Len(new) <= Len(arr)  BY <1>2, <1>3, <1>5
  <2>2. ASSUME NEW i \in 1 .. Len(new)
        PROVE  /\ arr[i].name = new[i].name \/ <<"name", i, new[i]>> \in writes
               /\ arr[i].client = new[i].client \/ <<"client", i, new[i]>> \in writes
    <3>1. CASE i < k
      <4>1. i \in 1 .. n /\ i \in 1 .. n - 1  BY <1>3, <1>5
      <4> QED BY <1>2, <1>5, <3>1, <4>1
    <3>2. CASE ~(i < k)
      <4>1. i \in k .. n - 1  BY <1>3, <1>5, <3>2
      <4> QED BY <1>8b, <4>1
    <3> QED BY <3>1, <3>2
  <2> QED BY <2>1, <2>2 DEF Shows
<1>10. HasDefault(new)
  <2>1. PICK i \in 1 .. n : list[i].name = Default  BY DEF SliceInv, HasDefault
  <2>2. i # k  BY <1>4, <2>1
  <2>3. CASE i < k
    <3>1. i \in 1 .. n - 1  BY <1>3, <2>3
    <3> QED BY <1>5, <2>1, <2>3, <3>1 DEF HasDefault
  <2>4. CASE i > k
    <3>1. i - 1 \in 1 .. n - 1 /\ ~(i - 1 < k) /\ i - 1 + 1 = i  BY <1>3, <2>4
    <3> QED BY <1>5, <2>1, <3>1 DEF HasDefault
  <2> QED BY <1>3, <2>2, <2>3, <2>4
<1>11. list # << >> /\ list[1].name = Default => new # << >> /\ new[1].name = Default
  <2> SUFFICES ASSUME list[1].name = Default PROVE new # << >> /\ new[1].name = Default  OBVIOUS
  <2>1. k # 1  BY <1>4
  <2>2. 1 \in 1 .. n - 1 /\ 1 < k  BY <1>3, <2>1
  <2>3. new[1].name = Default  BY <1>5, <2>2
  <2>4. Len(new) >= 1  BY <1>5, <2>2
  <2>5. new # << >>  BY <1>5, <2>4
  <2> QED BY <2>3, <2>5
<1> HIDE DEF n
<1>12. SliceInv'
  <2>1. heap' \in Seq(Seq(Slot)) /\ Len(heap') >= Len(heap) /\ hdr.arr \in 1 .. Len(heap') /\ "remove" \in Kinds
    <3>1. Len(heap) \in Nat  BY LenProperties, <1>3
    <3> QED BY <1>2, <1>3, <1>4, <3>1 DEF Kinds
  <2>2. Shows(heap'[hdr.arr], new, writes)  BY <1>4, <1>9 DEF arr
  <2> QED BY <1>4, <1>5, <1>8b, <1>8c, <1>10, <2>1, <2>2, BeginInv
<1>13. EditEffect
  <2>1. Idle /\ hdr' = hdr /\ edit'.kind = "remove" /\ list' = new /\ Notice("remove", new) /\ "remove" \in Kinds
    BY <1>4 DEF Begin, Kinds
  <2>2. Len(heap') >= Len(heap) /\ \A p \in 1 .. Len(heap) : heap'[p] = heap[p]
    <3>1. Len(heap) \in Nat  BY LenProperties, <1>3
    <3> QED BY <1>4, <3>1
  <2> QED BY <1>11, <2>1, <2>2 DEF EditEffect
<1> QED BY <1>12, <1>13

(* The client list of one or two access points is replaced. *)
LEMMA ClientsInv ==
    ASSUME SliceInv, NEW new \in Seq(AP), NEW writes, heap' = heap,
           Len(new) = Len(list), \A i \in 1 .. Len(list) : new[i].name = list[i].name,
           writes \subseteq {<<"client", i, new[i]>> : i \in 1 .. Len(new)},
           \A i \in 1 .. Len(list) : new[i] = list[i] \/ <<"client", i, new[i]>> \in writes,
           Begin("client", hdr.arr, new, writes)
    PROVE  SliceInv' /\ EditEffect
<1>1. Idle  BY DEF Begin
<1>2. /\ hdr.arr = edit.arr /\ hdr.arr \in 1 .. Len(heap) /\ Len(list) <= Len(heap[hdr.arr])
      /\ \A i \in 1 .. Len(list) : heap[hdr.arr][i] = list[i]
  BY <1>1, IdleShows
<1>3. Len(heap) \in Nat /\ heap \in Seq(Seq(Slot)) /\ Len(list) \in Nat  BY Elements DEF SliceInv, Types
<1>4. writes \in SUBSET Work(new, hdr.arr)  BY DEF Work
<1>5. Shows(heap'[hdr.arr], new, writes)  BY <1>2 DEF Shows
<1>6. HasDefault(new)  BY DEF SliceInv, HasDefault
<1>7. SliceInv'
  <2>1. heap' \in Seq(Seq(Slot)) /\ Len(heap') >= Len(heap) /\ hdr.arr \in 1 .. Len(heap') /\ "client" \in Kinds
    BY <1>2, <1>3 DEF Kinds
  <2> QED BY <1>4, <1>5, <1>6, <2>1, BeginInv
<1>8. EditEffect
  <2>1. Idle /\ hdr' = hdr /\ edit'.kind = "client" /\ list' = new /\ Notice("client", new) /\ "client" \in Kinds
    BY DEF Begin, Kinds
  <2>2. Len(heap') >= Len(heap) /\ \A p \in 1 .. Len(heap) : heap'[p] = heap[p]  BY <1>3
  <2>3. list # << >> /\ list[1].name = Default => new # << >> /\ new[1].name = Default
    <3>1. new # << >> /\ 1 \in 1 .. Len(list)
      <4>1. Len(list) >= 1  BY <1>3 DEF SliceInv, HasDefault
      <4> QED BY <1>3, <4>1
    <3> QED BY <3>1
  <2> QED BY <2>1, <2>2, <2>3 DEF EditEffect
<1> QED BY <1>7, <1>8

(* An access point of the list is replaced. *)
Replaced(l, k, e) == [l EXCEPT ![k] = e]

LEMMA ReplacedType ==
    ASSUME NEW l \in Seq(AP), NEW k \in 1 .. Len(l), NEW e \in AP
    PROVE  /\ Replaced(l, k, e) \in Seq(AP) /\ Len(Replaced(l, k, e)) = Len(l)
           /\ \A i \in 1 .. Len(l) : Replaced(l, k, e)[i] = IF i = k THEN e ELSE l[i]
BY ExceptSeq DEF Replaced

(* A client comes, goes or roams. *)
LEMMA AddClientInv ==
    ASSUME SliceInv, NEW k \in 1 .. Len(list), AddClient(k)
    PROVE  SliceInv' /\ EditEffect
<1> DEFINE new == Replaced(list, k, Has(k, TRUE))
           writes == {<<"client", k, Has(k, TRUE)>>}
<1>1. heap' = heap /\ Begin("client", hdr.arr, new, writes)  BY DEF AddClient, Replaced
<1>2. Has(k, TRUE) \in AP /\ Has(k, TRUE).name = list[k].name  BY Elements DEF Has, AP, SliceInv
<1>3. /\ new \in Seq(AP) /\ Len(new) = Len(list)
      /\ \A i \in 1 .. Len(list) : new[i] = IF i = k THEN Has(k, TRUE) ELSE list[i]
  <2>1. list \in Seq(AP)  BY DEF SliceInv, Types
  <2> QED BY <1>2, <2>1, ReplacedType
<1> HIDE DEF new
<1>4. writes = {<<"client", k, new[k]>>} /\ k \in 1 .. Len(new)  BY <1>3
<1> HIDE DEF writes
<1>5. writes \subseteq {<<"client", i, new[i]>> : i \in 1 .. Len(new)}  BY <1>4
<1>6. \A i \in 1 .. Len(list) : new[i] = list[i] \/ <<"client", i, new[i]>> \in writes  BY <1>3, <1>4
<1>7. \A i \in 1 .. Len(list) : new[i].name = list[i].name  BY <1>2, <1>3
<1> QED BY <1>1, <1>3, <1>5, <1>6, <1>7, ClientsInv

LEMMA RemoveClientInv ==
    ASSUME SliceInv, NEW k \in 1 .. Len(list), RemoveClient(k)
    PROVE  SliceInv' /\ EditEffect
<1> DEFINE new == Replaced(list, k, Has(k, FALSE))
           writes == {<<"client", k, Has(k, FALSE)>>}
<1>1. heap' = heap /\ Begin("client", hdr.arr, new, writes)  BY DEF RemoveClient, Replaced
<1>2. Has(k, FALSE) \in AP /\ Has(k, FALSE).name = list[k].name  BY Elements DEF Has, AP, SliceInv
<1>3. /\ new \in Seq(AP) /\ Len(new) = Len(list)
      /\ \A i \in 1 .. Len(list) : new[i] = IF i = k THEN Has(k, FALSE) ELSE list[i]
  <2>1. list \in Seq(AP)  BY DEF SliceInv, Types
  <2> QED BY <1>2, <2>1, ReplacedType
<1> HIDE DEF new
<1>4. writes = {<<"client", k, new[k]>>} /\ k \in 1 .. Len(new)  BY <1>3
<1> HIDE DEF writes
<1>5. writes \subseteq {<<"client", i, new[i]>> : i \in 1 .. Len(new)}  BY <1>4
<1>6. \A i \in 1 .. Len(list) : new[i] = list[i] \/ <<"client", i, new[i]>> \in writes  BY <1>3, <1>4
<1>7. \A i \in 1 .. Len(list) : new[i].name = list[i].name  BY <1>2, <1>3
<1> QED BY <1>1, <1>3, <1>5, <1>6, <1>7, ClientsInv

LEMMA UpdateClientInv ==
    ASSUME SliceInv, NEW k \in 1 .. Len(list), NEW t \in 1 .. Len(list), UpdateClient(k, t)
    PROVE  SliceInv' /\ EditEffect
<1> DEFINE left == Replaced(list, k, Has(k, FALSE))
           new == Replaced(left, t, Has(t, TRUE))
           writes == {<<"client", k, Has(k, FALSE)>>, <<"client", t, Has(t, TRUE)>>}
<1>1. heap' = heap /\ Begin("client", hdr.arr, new, writes) /\ k # t
  <2>1. new = [list EXCEPT ![k] = Has(k, FALSE), ![t] = Has(t, TRUE)]  BY DEF Replaced
  <2> QED BY <2>1 DEF UpdateClient
<1>2. /\ Has(k, FALSE) \in AP /\ Has(k, FALSE).name = list[k].name
      /\ Has(t, TRUE) \in AP /\ Has(t, TRUE).name = list[t].name
  BY Elements DEF Has, AP, SliceInv
<1>3. /\ left \in Seq(AP) /\ Len(left) = Len(list)
      /\ \A i \in 1 .. Len(list) : left[i] = IF i = k THEN Has(k, FALSE) ELSE list[i]
  <2>1. list \in Seq(AP)  BY DEF SliceInv, Types
  <2> QED BY <1>2, <2>1, ReplacedType
<1> HIDE DEF left
<1>4. /\ new \in Seq(AP) /\ Len(new) = Len(left)
      /\ \A i \in 1 .. Len(left) : new[i] = IF i = t THEN Has(t, TRUE) ELSE left[i]
  <2>1. t \in 1 .. Len(left)  BY <1>3
  <2> QED BY <1>2, <1>3, <2>1, ReplacedType
<1> HIDE DEF new
<1>5. \A i \in 1 .. Len(list) : new[i] = IF i = t THEN Has(t, TRUE) ELSE IF i = k THEN Has(k, FALSE) ELSE list[i]
  BY <1>3, <1>4
<1>6. writes = {<<"client", k, new[k]>>, <<"client", t, new[t]>>} /\ Len(new) = Len(list)  BY <1>1, <1>3, <1>4, <1>5
<1> HIDE DEF writes
<1>7. writes \subseteq {<<"client", i, new[i]>> : i \in 1 .. Len(new)}  BY <1>6
<1>8. \A i \in 1 .. Len(list) : new[i] = list[i] \/ <<"client", i, new[i]>> \in writes  BY <1>5, <1>6
<1>9. \A i \in 1 .. Len(list) : new[i].name = list[i].name  BY <1>2, <1>5
<1> QED BY <1>1, <1>4, <1>6, <1>7, <1>8, <1>9, ClientsInv

LEMMA EditInv ==
    ASSUME SliceInv, Edit
    PROVE  SliceInv' /\ EditEffect
<1>1. CASE \E a \in APs : AddAP(a)  BY <1>1, AddAPInv
<1>2. CASE \E k \in 1 .. Len(list) : RemoveAP(k) \/ AddClient(k) \/ RemoveClient(k)
  <2>1. PICK k \in 1 .. Len(list) : RemoveAP(k) \/ AddClient(k) \/ RemoveClient(k)  BY <1>2
  <2>2. CASE RemoveAP(k)  BY <2>2, RemoveAPInv
  <2>3. CASE AddClient(k)  BY <2>3, AddClientInv
  <2>4. CASE RemoveClient(k)  BY <2>4, RemoveClientInv
  <2> QED BY <2>1, <2>2, <2>3, <2>4
<1>3. CASE \E k, t \in 1 .. Len(list) : UpdateClient(k, t)  BY <1>3, UpdateClientInv
<1> QED BY <1>1, <1>2, <1>3 DEF Edit

----------------------------------------------------------------------------
(* What is invariant *)

(* The steps of the reader leave the slice alone. *)
Looks == UNCHANGED <<heap, hdr, edit, list>>

ReaderStep == Snapshot \/ RangePtr \/ RangeLen \/ RangeOther \/ ReadName \/ ReadClients \/ Finish

LEMMA ReaderLooks == ReaderStep => Looks
BY DEF ReaderStep, Looks, Snapshot, RangePtr, RangeLen, Start, RangeOther, ReadName, ReadClients, Finish

LEMMA Steps == Next => Edit \/ Write \/ ReaderStep
BY DEF Next, ReaderStep

LEMMA SliceInit == Init => SliceInv
<1> SUFFICES ASSUME Init PROVE SliceInv  OBVIOUS
<1>1. PICK room \in {<< >>, <<Fresh(Nobody)>>} : heap = <<list \o room>>  BY DEF Init
<1>2. list \in Seq(AP) /\ list # << >> /\ Default \in Names(list)
  BY SliceAssumption DEF Init, AP
<1>3. Len(list) \in Nat /\ list \in Seq(Slot)
  <2>1. list \in [1 .. Len(list) -> AP] /\ Len(list) \in Nat  BY <1>2, LenProperties
  <2>2. list \in [1 .. Len(list) -> Slot]  BY <2>1, APIsSlot
  <2> QED BY <2>1, <2>2, FunctionIsSeq
<1>4. room \in Seq(Slot) /\ Len(room) \in Nat
  <2>1. CASE room = << >>  BY <2>1, EmptySeq
  <2>2. CASE room = <<Fresh(Nobody)>>  BY <2>2, FreshType
  <2> QED BY <1>1, <2>1, <2>2
<1>5. /\ list \o room \in Seq(Slot) /\ Len(list \o room) = Len(list) + Len(room)
      /\ \A i \in 1 .. Len(list) + Len(room) : (list \o room)[i] = IF i <= Len(list) THEN list[i] ELSE room[i - Len(list)]
  BY <1>3, <1>4, ConcatProperties
<1> DEFINE a == list \o room
<1>6. heap = <<a>>  BY <1>1
<1> HIDE DEF a
<1>7. heap \in Seq(Seq(Slot)) /\ Len(heap) = 1 /\ heap[1] = a  BY <1>5, <1>6 DEF a
<1>8. hdr = [arr |-> 1, len |-> Len(list)] /\ edit = [todo |-> {}, arr |-> 1, kind |-> "none", old |-> list, n |-> 0]
  BY DEF Init
<1>9. Types
  <2>1. edit \in [todo : SUBSET Work(list, edit.arr), arr : 1 .. Len(heap), kind : Kinds \cup {"none"},
                  old : Seq(AP), n : Nat]
    BY <1>2, <1>7, <1>8
  <2> QED BY <1>2, <1>3, <1>7, <1>8, <2>1 DEF Types
<1>10. Shows(heap[edit.arr], list, edit.todo)
  <2>1. Len(list) <= Len(a) /\ \A i \in 1 .. Len(list) : a[i] = list[i]  BY <1>3, <1>4, <1>5 DEF a
  <2> QED BY <1>7, <1>8, <2>1 DEF Shows
<1>11. HasDefault(list)  BY <1>2 DEF Names, HasDefault
<1> QED BY <1>8, <1>9, <1>10, <1>11 DEF SliceInv

LEMMA SliceStep == SliceInv /\ [Next]_vars => SliceInv'
<1> SUFFICES ASSUME SliceInv, [Next]_vars PROVE SliceInv'  OBVIOUS
<1>1. CASE Edit  BY <1>1, EditInv
<1>2. CASE Write  BY <1>2, WriteInv
<1>3. CASE Looks
  <2>1. heap' = heap /\ hdr' = hdr /\ edit' = edit /\ list' = list  BY <1>3 DEF Looks
  <2> QED BY <2>1 DEF SliceInv, Types
<1>4. CASE UNCHANGED vars  BY <1>3, <1>4 DEF vars, Looks
<1> QED BY <1>1, <1>2, <1>3, <1>4, Steps, ReaderLooks

LEMMA SliceAlways == Spec => []SliceInv
BY SliceInit, SliceStep, PTL DEF Spec

(* Whatever arrays were reused, outgrown or left behind, with the lock free the
   slice shows the list the edits made (AddAP, RemoveAP and the client edits on
   Device.APs). *)
THEOREM SliceAlwaysShowsList == Spec => []SliceShowsList
<1>1. ASSUME SliceInv PROVE SliceShowsList
  <2> SUFFICES ASSUME Idle PROVE SubSeq(heap[hdr.arr], 1, hdr.len) = list  BY DEF SliceShowsList
  <2> DEFINE a == heap[hdr.arr]
             n == Len(list)
  <2>1. hdr.arr \in 1 .. Len(heap) /\ hdr.len = n /\ n <= Len(a) /\ \A i \in 1 .. n : a[i] = list[i]
    BY <1>1, IdleShows
  <2>2. a \in Seq(Slot) /\ Len(a) \in Nat /\ list \in Seq(AP) /\ n \in Nat
    BY <1>1, <2>1, Elements DEF SliceInv, Types
  <2> HIDE DEF a
  <2>3. /\ SubSeq(a, 1, n) \in Seq(Slot) /\ Len(SubSeq(a, 1, n)) = n
        /\ \A i \in 1 .. n : SubSeq(a, 1, n)[i] = a[i]
    <3>1. n \in 0 .. Len(a) /\ 1 \in 1 .. Len(a) + 1  BY <2>1, <2>2
    <3> QED BY <2>2, <3>1
  <2>4. SubSeq(a, 1, n) = list
    <3> DEFINE b == SubSeq(a, 1, n)
    <3> HIDE DEF b
    <3>1. b \in Seq(Slot) /\ Len(b) = Len(list) /\ \A i \in 1 .. Len(list) : b[i] = list[i]
      BY <2>1, <2>3 DEF b
    <3>2. b = list  BY <2>2, <3>1, SeqEqual
    <3> QED BY <3>2 DEF b
  <2> QED BY <2>1, <2>4 DEF a
<1> QED BY <1>1, SliceAlways, PTL
----------------------------------------------------------------------------
(* The reader *)

Readers(n) ==
    [pc : {"idle", "name", "client", "done"}, kind : {"none", "snapshot", "live"},
     arr : {Unread} \cup 1 .. n, len : {Unread} \cup Nat, out : Seq(Slot), begun : Seq(AP),
     since : SUBSET APs, always : SUBSET APs, edits : SUBSET (Kinds \cup {"none"})]

ReaderTypes == reader \in Readers(Len(heap))

Reading ==
    /\ reader.pc = "idle" <=> reader.kind = "none"
    /\ reader.pc = "client" => reader.out # << >>
    /\ reader.out # << >> => Loaded
    /\ Loaded => Len(reader.out) <= reader.len
    /\ reader.pc = "done" => Loaded /\ Len(reader.out) = reader.len
    /\ Snapshotting => Loaded /\ reader.len <= Len(heap[reader.arr])

(* What a snapshot may still read bears a name the device has had meanwhile. *)
Real ==
    Snapshotting =>
        /\ Names(list) \subseteq reader.since
        /\ \A i \in 1 .. reader.len : heap[reader.arr][i].name \in reader.since
        /\ Names(reader.out) \subseteq reader.since

(* The default AP stays at the head of the list, and of the array. *)
Headed ==
    Snapshotting /\ reader.begun[1].name = Default =>
        /\ list # << >> /\ list[1].name = Default
        /\ reader.len >= 1 /\ heap[reader.arr][1].name = Default
        /\ reader.out # << >> => reader.out[1].name = Default

(* The array holds what the list was at the start. *)
Source ==
    /\ reader.len = Len(reader.begun) /\ reader.len <= Len(heap[reader.arr])
    /\ \A i \in 1 .. reader.len : heap[reader.arr][i] = reader.begun[i]

(* Appends write behind what a snapshot reads. *)
Apart ==
    Snapshotting /\ reader.edits \subseteq {"append"} =>
        /\ Source /\ reader.len <= Len(list)
        /\ \A i \in 1 .. reader.len : /\ <<"name", i, list[i]>> \notin edit.todo
                                      /\ <<"client", i, list[i]>> \notin edit.todo

(* Nothing happens below a live reader that no edit overlaps. *)
Alone ==
    reader.kind = "live" /\ reader.edits = {} =>
        /\ Idle /\ reader.begun = list
        /\ reader.arr \in {Unread, hdr.arr} /\ reader.len \in {Unread, hdr.len}

Undisturbed ==
    \/ Snapshotting /\ reader.edits \subseteq {"append"}
    \/ reader.kind = "live" /\ reader.edits = {}

(* What has been read so far is right: of the last AP perhaps the name only. *)
Exact ==
    Undisturbed =>
        \A i \in 1 .. Len(reader.out) :
            /\ reader.out[i].name = reader.begun[i].name
            /\ reader.pc # "client" \/ i # Len(reader.out) => reader.out[i].client = reader.begun[i].client

ReaderInv == ReaderTypes /\ Reading /\ Real /\ Headed /\ Apart /\ Alone /\ Exact

LEMMA NamesOf == \A l \in Seq(AP) : Names(l) \subseteq APs
<1> SUFFICES ASSUME NEW l \in Seq(AP), NEW i \in 1 .. Len(l) PROVE l[i].name \in APs  BY DEF Names
<1>1. l[i] \in AP  BY ElementOfSeq
<1> QED BY <1>1 DEF AP

LEMMA InNames == \A s : \A i \in 1 .. Len(s) : s[i].name \in Names(s)
BY DEF Names

(* The fields of the reader. *)
LEMMA ReaderFields ==
    ASSUME ReaderTypes
    PROVE  /\ reader.out \in Seq(Slot) /\ Len(reader.out) \in Nat /\ reader.begun \in Seq(AP) /\ Len(reader.begun) \in Nat
           /\ reader.arr \in {Unread} \cup 1 .. Len(heap) /\ reader.len \in {Unread} \cup Nat
           /\ Loaded => reader.arr \in 1 .. Len(heap) /\ reader.len \in Nat
BY LenProperties DEF ReaderTypes, Readers, Loaded

(* An undisturbed reader reads what the list was. *)
LEMMA UndisturbedSource ==
    ASSUME SliceInv, ReaderInv, Undisturbed, Loaded
    PROVE  Source
<1>1. CASE Snapshotting /\ reader.edits \subseteq {"append"}  BY <1>1 DEF ReaderInv, Apart
<1>2. CASE reader.kind = "live" /\ reader.edits = {}
  <2>1. Idle /\ reader.begun = list /\ reader.arr = hdr.arr /\ reader.len = hdr.len
    BY <1>2 DEF ReaderInv, Alone, Loaded
  <2> QED BY <2>1, IdleShows DEF Source
<1> QED BY <1>1, <1>2 DEF Undisturbed

LEMMA ReaderInit == Init => ReaderInv
<1> SUFFICES ASSUME Init PROVE ReaderInv  OBVIOUS
<1>1. reader = [pc |-> "idle", kind |-> "none", arr |-> Unread, len |-> Unread, out |-> << >>,
                begun |-> list, since |-> {}, always |-> {}, edits |-> {}]
  BY DEF Init
<1>2. list \in Seq(AP) /\ << >> \in Seq(Slot)  BY SliceAssumption, EmptySeq DEF Init, AP
<1>3. ReaderTypes  BY <1>1, <1>2 DEF ReaderTypes, Readers
<1>4. Reading  BY <1>1 DEF Reading, Loaded, Snapshotting
<1>5. Real /\ Headed /\ Apart /\ Alone /\ Exact
  BY <1>1 DEF Real, Headed, Apart, Alone, Exact, Snapshotting, Undisturbed
<1> QED BY <1>3, <1>4, <1>5 DEF ReaderInv

(* With no reader there is nothing to keep. *)
LEMMA NoReader ==
    ASSUME ReaderTypes, Reading, reader.pc = "idle"
    PROVE  Real /\ Headed /\ Apart /\ Alone /\ Exact
BY DEF Reading, Real, Headed, Apart, Alone, Exact, Snapshotting, Undisturbed
(* The reader starts. *)
LEMMA StartInv ==
    ASSUME SliceInv, ReaderInv,
           NEW kind \in {"snapshot", "live"}, NEW arr \in {Unread, hdr.arr}, NEW len \in {Unread, hdr.len},
           kind = "snapshot" => Idle /\ arr = hdr.arr /\ len = hdr.len,
           Start(kind, arr, len)
    PROVE  ReaderInv'
<1>1. /\ reader' = [pc |-> "name", kind |-> kind, arr |-> arr, len |-> len, out |-> << >>, begun |-> list,
                    since |-> Names(list) \cup (IF Idle THEN {} ELSE Names(edit.old)),
                    always |-> IF Idle THEN Names(list) ELSE Names(list) \cap Names(edit.old),
                    edits |-> IF Idle THEN {} ELSE {edit.kind}]
      /\ heap' = heap /\ hdr' = hdr /\ edit' = edit /\ list' = list
  BY DEF Start
<1>2. /\ list \in Seq(AP) /\ Len(list) \in Nat /\ Names(list) \subseteq APs
      /\ hdr.arr \in 1 .. Len(heap) /\ hdr.len \in Nat /\ << >> \in Seq(Slot) /\ Len(<< >>) = 0
      /\ list # << >>
  <2>1. list \in Seq(AP) /\ Len(list) \in Nat /\ Names(list) \subseteq APs  BY NamesOf, Elements DEF SliceInv, Types
  <2>2. hdr.arr \in 1 .. Len(heap) /\ hdr.len \in Nat  BY DEF SliceInv, Types
  <2>3. list # << >>
    <3>1. Len(list) >= 1  BY <2>1 DEF SliceInv, HasDefault
    <3> QED BY <2>1, <3>1
  <2> QED BY <2>1, <2>2, <2>3, EmptySeq
<1>3. /\ reader'.pc = "name" /\ reader'.kind = kind /\ reader'.arr = arr /\ reader'.len = len
      /\ reader'.out = << >> /\ reader'.begun = list
      /\ reader'.since = Names(list) \cup (IF Idle THEN {} ELSE Names(edit.old))
      /\ reader'.edits = IF Idle THEN {} ELSE {edit.kind}
  BY <1>1
<1>4. ReaderTypes'
  <2>1. Names(edit.old) \subseteq APs /\ edit.kind \in Kinds \cup {"none"}
    <3>1. edit.old \in Seq(AP) /\ edit.kind \in Kinds \cup {"none"}  BY DEF SliceInv, Types
    <3> QED BY <3>1, NamesOf
  <2>2. arr \in {Unread} \cup 1 .. Len(heap) /\ len \in {Unread} \cup Nat  BY <1>2
  <2>3. reader' \in Readers(Len(heap))
    <3> DEFINE since == Names(list) \cup (IF Idle THEN {} ELSE Names(edit.old))
               always == IF Idle THEN Names(list) ELSE Names(list) \cap Names(edit.old)
               edits == IF Idle THEN {} ELSE {edit.kind}
    <3>1. since \in SUBSET APs /\ always \in SUBSET APs /\ edits \in SUBSET (Kinds \cup {"none"})
      BY <1>2, <2>1, Zenon
    <3>2. reader' = [pc |-> "name", kind |-> kind, arr |-> arr, len |-> len, out |-> << >>, begun |-> list,
                     since |-> since, always |-> always, edits |-> edits]
      BY <1>1
    <3> HIDE DEF since, always, edits
    <3> QED BY <1>2, <2>2, <3>1, <3>2 DEF Readers
  <2> QED BY <1>1, <2>3 DEF ReaderTypes
<1>5. ASSUME kind = "snapshot"
      PROVE  /\ Idle /\ arr = hdr.arr /\ len = Len(list) /\ len <= Len(heap[arr]) /\ arr \in 1 .. Len(heap)
             /\ \A i \in 1 .. len : heap[arr][i] = list[i]
             /\ edit.todo = {} /\ reader'.since = Names(list)
  BY <1>3, <1>5, IdleShows DEF Idle
<1>6. Reading'
  <2>1. Loaded' => reader'.len \in Nat  BY <1>2, <1>3 DEF Loaded
  <2>2. kind = "snapshot" => Loaded' /\ reader'.len <= Len(heap'[reader'.arr])
    BY <1>1, <1>2, <1>3, <1>5 DEF Loaded, Unread
  <2> QED BY <1>2, <1>3, <2>1, <2>2 DEF Reading, Snapshotting
<1>7. Real'
  <2>1. Names(<< >>) = {}  BY <1>2 DEF Names
  <2>2. ASSUME kind = "snapshot" PROVE \A i \in 1 .. len : heap[arr][i].name \in Names(list)
    BY <1>5, <2>2, InNames
  <2> QED BY <1>1, <1>3, <1>5, <2>1, <2>2 DEF Real, Snapshotting
<1>8. Headed'
  <2>1. ASSUME kind = "snapshot" PROVE len >= 1 /\ heap[arr][1] = list[1]
    <3>1. Len(list) >= 1  BY <1>2 DEF SliceInv, HasDefault
    <3> QED BY <1>2, <1>5, <2>1, <3>1
  <2> QED BY <1>1, <1>2, <1>3, <2>1 DEF Headed, Snapshotting
<1>9. Apart'
  BY <1>1, <1>2, <1>3, <1>5 DEF Apart, Source, Snapshotting
<1>10. Alone'
  BY <1>1, <1>3 DEF Alone, Idle
<1>11. Exact'
  BY <1>2, <1>3 DEF Exact
<1> QED BY <1>4, <1>6, <1>7, <1>8, <1>9, <1>10, <1>11 DEF ReaderInv

(* An edit begins while the reader is at work. *)
LEMMA EditReader ==
    ASSUME SliceInv, SliceInv', ReaderInv, EditEffect
    PROVE  ReaderInv'
<1>1. PICK kind \in Kinds :
        /\ Idle /\ hdr' = hdr /\ edit'.kind = kind /\ Notice(kind, list')
        /\ Len(heap') >= Len(heap) /\ \A p \in 1 .. Len(heap) : heap'[p] = heap[p]
        /\ kind = "append" => /\ Len(list') = Len(list) + 1
                              /\ \A i \in 1 .. Len(list) : /\ <<"name", i, list'[i]>> \notin edit'.todo
                                                           /\ <<"client", i, list'[i]>> \notin edit'.todo
        /\ list # << >> /\ list[1].name = Default => list' # << >> /\ list'[1].name = Default
  BY DEF EditEffect
<1>2. Len(heap) \in Nat /\ Len(heap') \in Nat /\ Len(list) \in Nat /\ Names(list') \subseteq APs
  <2>1. Len(heap') \in Nat /\ list' \in Seq(AP)  BY LenProperties DEF SliceInv, Types
  <2> QED BY <2>1, Elements, NamesOf DEF SliceInv
<1> USE DEF ReaderInv
<1>3. CASE reader.pc = "idle"
  <2>1. reader' = reader  BY <1>1, <1>3 DEF Notice
  <2>2. ReaderTypes'  BY <1>1, <1>2, <2>1 DEF ReaderTypes, Readers
  <2>3. Reading'  BY <1>3, <2>1 DEF Reading, Loaded, Snapshotting
  <2>4. Real' /\ Headed' /\ Apart' /\ Alone' /\ Exact'
    BY <1>3, <2>1, <2>3 DEF Reading, Real, Headed, Apart, Alone, Exact, Snapshotting, Undisturbed
  <2> QED BY <2>2, <2>3, <2>4
<1>4. CASE reader.pc # "idle"
  <2>1. reader' = [reader EXCEPT !.since = @ \cup Names(list'), !.always = @ \cap Names(list'), !.edits = @ \cup {kind}]
    BY <1>1, <1>4 DEF Notice
  <2>2. /\ reader'.pc = reader.pc /\ reader'.kind = reader.kind /\ reader'.arr = reader.arr /\ reader'.len = reader.len
        /\ reader'.out = reader.out /\ reader'.begun = reader.begun
        /\ reader'.since = reader.since \cup Names(list') /\ reader'.edits = reader.edits \cup {kind}
    BY <2>1 DEF ReaderTypes, Readers
  <2>3. ReaderTypes'
    <3> DEFINE n == Len(heap)
               n2 == Len(heap')
    <3>0. 1 .. n \subseteq 1 .. n2  BY <1>1, <1>2
    <3> HIDE DEF n, n2
    <3>1. reader' \in Readers(n2)
      BY <1>2, <2>1, <3>0 DEF ReaderTypes, Readers, n
    <3> QED BY <3>1 DEF ReaderTypes, n2
  <2>4. Loaded' = Loaded /\ Snapshotting' = Snapshotting  BY <2>2 DEF Loaded, Snapshotting
  <2>5. Loaded => reader.arr \in 1 .. Len(heap) /\ reader.len \in Nat /\ heap'[reader.arr] = heap[reader.arr]
    BY <1>1, ReaderFields
  <2>6. Reading'
    BY <2>2, <2>4, <2>5 DEF Reading
  <2>7. Real'
    BY <2>2, <2>4, <2>5 DEF Real, Reading
  <2>8. Headed'
    BY <1>1, <2>2, <2>4, <2>5 DEF Headed, Reading
  <2>9. Apart'
    <3> SUFFICES ASSUME Snapshotting, reader'.edits \subseteq {"append"}
                 PROVE  /\ Source' /\ reader.len <= Len(list')
                        /\ \A i \in 1 .. reader.len : /\ <<"name", i, list'[i]>> \notin edit'.todo
                                                      /\ <<"client", i, list'[i]>> \notin edit'.todo
      BY <2>2, <2>4 DEF Apart
    <3>1. reader.edits \subseteq {"append"} /\ kind = "append"  BY <2>2
    <3>2. Source /\ reader.len <= Len(list)  BY <3>1 DEF Apart
    <3>3. reader.len \in Nat /\ heap'[reader.arr] = heap[reader.arr]  BY <2>5 DEF Reading
    <3>4. Source'  BY <2>2, <3>2, <3>3 DEF Source
    <3>5. \A i \in 1 .. reader.len : i \in 1 .. Len(list)  BY <1>2, <3>2, <3>3
    <3> QED BY <1>1, <1>2, <3>1, <3>2, <3>3, <3>4, <3>5
  <2>10. Alone'  BY <2>2 DEF Alone
  <2>11. Exact'
    <3>1. Undisturbed' => Undisturbed  BY <2>2, <2>4 DEF Undisturbed
    <3> QED BY <2>2, <3>1 DEF Exact
  <2> QED BY <2>3, <2>6, <2>7, <2>8, <2>9, <2>10, <2>11
<1> QED BY <1>3, <1>4

(* A word is written while the reader is at work. *)
LEMMA WriteReader ==
    ASSUME SliceInv, SliceInv', ReaderInv, WriteEffect
    PROVE  ReaderInv'
<1>1. /\ Len(heap') = Len(heap) /\ reader' = reader /\ list' = list
      /\ edit.todo # {} /\ edit'.todo \subseteq edit.todo
      /\ \A p \in 1 .. Len(heap) :
            /\ Len(heap'[p]) = Len(heap[p])
            /\ \A j \in 1 .. Len(heap[p]) :
                  /\ \/ heap'[p][j].name = heap[p][j].name
                     \/ j \in 1 .. Len(list) /\ heap'[p][j].name = list[j].name /\ <<"name", j, list[j]>> \in edit.todo
                  /\ \/ heap'[p][j].client = heap[p][j].client
                     \/ j \in 1 .. Len(list) /\ heap'[p][j].client = list[j].client
                        /\ <<"client", j, list[j]>> \in edit.todo
  BY DEF WriteEffect
<1> USE DEF ReaderInv
<1>2. ReaderTypes'  BY <1>1 DEF ReaderTypes
<1>3. Loaded' = Loaded /\ Snapshotting' = Snapshotting /\ Undisturbed' = Undisturbed
  BY <1>1 DEF Loaded, Snapshotting, Undisturbed
<1>4. ASSUME Snapshotting
      PROVE  /\ reader.arr \in 1 .. Len(heap) /\ reader.len \in Nat /\ Len(heap[reader.arr]) \in Nat
             /\ reader.len <= Len(heap[reader.arr]) /\ Len(heap'[reader.arr]) = Len(heap[reader.arr])
             /\ \A i \in 1 .. reader.len : i \in 1 .. Len(heap[reader.arr])
  <2>1. Loaded /\ reader.len <= Len(heap[reader.arr])  BY <1>4 DEF Reading
  <2>2. reader.arr \in 1 .. Len(heap) /\ reader.len \in Nat  BY <2>1, ReaderFields
  <2>3. Len(heap[reader.arr]) \in Nat  BY <2>2, Elements DEF SliceInv
  <2>4. \A i \in 1 .. reader.len : i \in 1 .. Len(heap[reader.arr])  BY <2>1, <2>2, <2>3
  <2> QED BY <1>1, <2>1, <2>2, <2>3, <2>4
<1>5. Reading'  BY <1>1, <1>3, <1>4 DEF Reading
<1>6. Real'
  <2> SUFFICES ASSUME Snapshotting, NEW i \in 1 .. reader.len PROVE heap'[reader.arr][i].name \in reader.since
    BY <1>1, <1>3 DEF Real
  <2>1. i \in 1 .. Len(heap[reader.arr]) /\ reader.arr \in 1 .. Len(heap)  BY <1>4
  <2>2. heap[reader.arr][i].name \in reader.since /\ Names(list) \subseteq reader.since  BY DEF Real
  <2>3. i \in 1 .. Len(list) => list[i].name \in reader.since  BY <2>2, InNames
  <2> QED BY <1>1, <2>1, <2>2, <2>3
<1>7. Headed'
  <2> SUFFICES ASSUME Snapshotting, reader.begun[1].name = Default PROVE heap'[reader.arr][1].name = Default
    BY <1>1, <1>3 DEF Headed
  <2>1. /\ reader.arr \in 1 .. Len(heap) /\ list[1].name = Default /\ heap[reader.arr][1].name = Default
        /\ reader.len >= 1
    BY <1>4 DEF Headed
  <2>2. 1 \in 1 .. Len(heap[reader.arr])  BY <1>4, <2>1
  <2> QED BY <1>1, <2>1, <2>2
<1>8. Apart'
  <2> SUFFICES ASSUME Snapshotting, reader.edits \subseteq {"append"} PROVE Source'
    BY <1>1, <1>3 DEF Apart
  <2>1. /\ Source
        /\ \A i \in 1 .. reader.len : /\ <<"name", i, list[i]>> \notin edit.todo
                                      /\ <<"client", i, list[i]>> \notin edit.todo
    BY DEF Apart
  <2>2. ASSUME NEW i \in 1 .. reader.len PROVE heap'[reader.arr][i] = heap[reader.arr][i]
    <3>1. i \in 1 .. Len(heap[reader.arr]) /\ reader.arr \in 1 .. Len(heap)  BY <1>4
    <3>2. heap'[reader.arr][i].name = heap[reader.arr][i].name /\ heap'[reader.arr][i].client = heap[reader.arr][i].client
      BY <1>1, <2>1, <3>1
    <3>3. heap[reader.arr][i] \in Slot  BY <3>1, Elements DEF SliceInv
    <3>4. heap'[reader.arr][i] \in Slot
      <4>1. heap' \in Seq(Seq(Slot)) /\ reader.arr \in 1 .. Len(heap')  BY <1>1, <3>1 DEF SliceInv, Types
      <4>2. heap'[reader.arr] \in Seq(Slot) /\ i \in 1 .. Len(heap'[reader.arr])  BY <1>4, <3>1, <4>1, ElementOfSeq
      <4> QED BY <4>2, ElementOfSeq
    <3> QED BY <3>2, <3>3, <3>4 DEF Slot
  <2> QED BY <1>1, <1>4, <2>1, <2>2 DEF Source
<1>9. Alone'  BY <1>1 DEF Alone, Idle
<1>10. Exact'  BY <1>1, <1>3 DEF Exact
<1> QED BY <1>2, <1>5, <1>6, <1>7, <1>8, <1>9, <1>10
(* A range statement loads the other word. *)
LEMMA LoadReader ==
    ASSUME SliceInv, ReaderInv, RangeOther
    PROVE  ReaderInv'
<1> USE DEF ReaderInv
<1>1. heap' = heap /\ hdr' = hdr /\ edit' = edit /\ list' = list /\ reader.pc # "idle"  BY DEF RangeOther
<1>2. ~Loaded /\ hdr.arr \in 1 .. Len(heap) /\ hdr.len \in Nat
  BY DEF RangeOther, Loaded, SliceInv, Types
<1>3. /\ reader.pc = "name" /\ reader.out = << >> /\ ~Snapshotting
  BY <1>1, <1>2 DEF Reading, ReaderTypes, Readers
<1>4. /\ reader'.pc = reader.pc /\ reader'.kind = reader.kind /\ reader'.out = reader.out /\ reader'.begun = reader.begun
      /\ reader'.edits = reader.edits
      /\ reader'.arr \in {reader.arr, hdr.arr} /\ reader'.len \in {reader.len, hdr.len}
      /\ ReaderTypes'
  <2>1. CASE reader' = [reader EXCEPT !.arr = hdr.arr]  BY <1>1, <1>2, <2>1 DEF ReaderTypes, Readers
  <2>2. CASE reader' = [reader EXCEPT !.len = hdr.len]  BY <1>1, <1>2, <2>2 DEF ReaderTypes, Readers
  <2> QED BY <2>1, <2>2 DEF RangeOther
<1>5. ~Snapshotting'  BY <1>3, <1>4 DEF Snapshotting
<1>6. Reading'
  <2>1. Loaded' => reader'.len \in Nat  BY <1>4 DEF Loaded, ReaderTypes, Readers
  <2>2. Len(<< >>) = 0  BY EmptySeq
  <2> QED BY <1>3, <1>4, <1>5, <2>1, <2>2 DEF Reading
<1>7. Real' /\ Headed' /\ Apart'  BY <1>5 DEF Real, Headed, Apart
<1>8. Alone'  BY <1>1, <1>4 DEF Alone, Idle
<1>9. Exact'
  <2>1. Len(<< >>) = 0  BY EmptySeq
  <2> QED BY <1>3, <1>4, <2>1 DEF Exact
<1> QED BY <1>4, <1>6, <1>7, <1>8, <1>9

(* The slot a reader looks at, if only at the garbage behind an array. *)
LEMMA AtType ==
    ASSUME SliceInv, ReaderTypes, Loaded, NEW k \in Nat \ {0}
    PROVE  At(k) \in Slot
<1>1. reader.arr \in 1 .. Len(heap)  BY ReaderFields
<1>2. CASE k <= Len(heap[reader.arr])
  <2>1. k \in 1 .. Len(heap[reader.arr])  BY <1>1, <1>2, Elements DEF SliceInv
  <2> QED BY <1>1, <1>2, <2>1, Elements DEF SliceInv, At
<1>3. CASE ~(k <= Len(heap[reader.arr]))  BY <1>3, FreshType DEF At
<1> QED BY <1>2, <1>3

(* The name of the next AP is read. *)
LEMMA NameReader ==
    ASSUME SliceInv, ReaderInv, ReadName
    PROVE  ReaderInv'
<1> USE DEF ReaderInv
<1> DEFINE n == Len(reader.out) + 1
           s == Fresh(At(n).name)
           more == Append(reader.out, s)
<1>1. /\ heap' = heap /\ hdr' = hdr /\ edit' = edit /\ list' = list /\ reader.pc = "name" /\ Loaded
      /\ n <= reader.len /\ reader' = [reader EXCEPT !.pc = "client", !.out = more]
  BY DEF ReadName, Next1
<1>2. /\ reader.out \in Seq(Slot) /\ Len(reader.out) \in Nat /\ reader.arr \in 1 .. Len(heap) /\ reader.len \in Nat
  BY <1>1, ReaderFields
<1>3. s \in Slot /\ s.name = At(n).name
  <2>1. At(n) \in Slot  BY <1>1, <1>2, AtType
  <2> QED BY <2>1 DEF Slot, Fresh
<1> HIDE DEF s
<1>4. /\ more \in Seq(Slot) /\ Len(more) = n /\ more[n] = s /\ \A i \in 1 .. Len(reader.out) : more[i] = reader.out[i]
  BY <1>2, <1>3, AppendProperties
<1> HIDE DEF more
<1>5. /\ reader'.pc = "client" /\ reader'.out = more /\ reader'.kind = reader.kind /\ reader'.arr = reader.arr
      /\ reader'.len = reader.len /\ reader'.begun = reader.begun /\ reader'.since = reader.since
      /\ reader'.edits = reader.edits /\ ReaderTypes'
  <2>1. reader \in Readers(Len(heap))  BY DEF ReaderTypes
  <2>2. reader' \in Readers(Len(heap))  BY <1>1, <1>4, <2>1 DEF Readers
  <2> QED BY <1>1, <2>1, <2>2 DEF ReaderTypes, Readers
<1>6. Loaded' = Loaded /\ Snapshotting' = Snapshotting /\ Undisturbed' = Undisturbed /\ more # << >> /\ n \in 1 .. reader.len
  <2>1. more # << >>  BY <1>2, <1>4, EmptySeq
  <2> QED BY <1>1, <1>2, <1>5, <2>1 DEF Loaded, Snapshotting, Undisturbed
<1>7. \A i \in 1 .. Len(more) : i \in 1 .. Len(reader.out) \/ i = n  BY <1>2, <1>4
<1>8. Reading'
  BY <1>1, <1>4, <1>5, <1>6 DEF Reading
<1>9. ASSUME Snapshotting PROVE s.name = heap[reader.arr][n].name
  <2>1. n <= Len(heap[reader.arr])
    <3>1. reader.len <= Len(heap[reader.arr]) /\ Len(heap[reader.arr]) \in Nat  BY <1>2, <1>9, Elements DEF Reading, SliceInv
    <3> QED BY <1>1, <1>2, <3>1
  <2> QED BY <1>3, <2>1 DEF At
<1>10. Real'
  <2> SUFFICES ASSUME Snapshotting PROVE Names(more) \subseteq reader.since
    BY <1>1, <1>5, <1>6 DEF Real
  <2>1. s.name \in reader.since  BY <1>6, <1>9 DEF Real
  <2>2. \A i \in 1 .. Len(reader.out) : reader.out[i].name \in reader.since  BY InNames DEF Real
  <2>3. \A i \in 1 .. Len(more) : more[i].name \in reader.since  BY <1>4, <1>7, <2>1, <2>2
  <2> QED BY <2>3 DEF Names
<1>11. Headed'
  <2> SUFFICES ASSUME Snapshotting, reader.begun[1].name = Default PROVE more[1].name = Default
    BY <1>1, <1>5, <1>6 DEF Headed
  <2>1. heap[reader.arr][1].name = Default /\ (reader.out # << >> => reader.out[1].name = Default)  BY DEF Headed
  <2>2. CASE reader.out = << >>
    <3>1. n = 1  BY <2>2, EmptySeq
    <3> QED BY <1>4, <1>9, <2>1, <3>1
  <2>3. CASE reader.out # << >>
    <3>1. 1 \in 1 .. Len(reader.out)  BY <1>2, <2>3, EmptySeq
    <3> QED BY <1>4, <2>1, <2>3, <3>1
  <2> QED BY <2>2, <2>3
<1>12. Apart'  BY <1>1, <1>5, <1>6 DEF Apart, Source
<1>13. Alone'  BY <1>1, <1>5 DEF Alone, Idle
<1>14. Exact'
  <2> SUFFICES ASSUME Undisturbed, NEW i \in 1 .. Len(more)
               PROVE  /\ more[i].name = reader.begun[i].name
                      /\ i # Len(more) => more[i].client = reader.begun[i].client
    BY <1>5, <1>6 DEF Exact
  <2>1. CASE i \in 1 .. Len(reader.out)
    <3>1. reader.out[i].name = reader.begun[i].name /\ reader.out[i].client = reader.begun[i].client
      BY <1>1, <2>1 DEF Exact
    <3> QED BY <1>4, <2>1, <3>1
  <2>2. CASE i = n
    <3>1. Source  BY <1>1, UndisturbedSource
    <3>2. n <= Len(heap[reader.arr]) /\ heap[reader.arr][n] = reader.begun[n]
      <4>1. reader.len <= Len(heap[reader.arr]) /\ Len(heap[reader.arr]) \in Nat
        BY <1>2, <3>1, Elements DEF Source, SliceInv
      <4>2. n <= Len(heap[reader.arr])  BY <1>1, <1>2, <4>1
      <4>3. \A j \in 1 .. reader.len : heap[reader.arr][j] = reader.begun[j]  BY <3>1 DEF Source
      <4> HIDE DEF n
      <4> QED BY <1>6, <4>2, <4>3
    <3>3. s.name = reader.begun[n].name  BY <1>3, <3>2 DEF At
    <3> QED BY <1>4, <2>2, <3>3
  <2> QED BY <1>7, <2>1, <2>2
<1> QED BY <1>5, <1>8, <1>10, <1>11, <1>12, <1>13, <1>14
(* Its client list is read. *)
LEMMA ClientsReader ==
    ASSUME SliceInv, ReaderInv, ReadClients
    PROVE  ReaderInv'
<1> USE DEF ReaderInv
<1> DEFINE n == Len(reader.out)
           s == [reader.out[n] EXCEPT !.client = At(n).client]
           done == [reader.out EXCEPT ![n] = s]
<1>1. /\ heap' = heap /\ hdr' = hdr /\ edit' = edit /\ list' = list /\ reader.pc = "client"
      /\ reader' = [reader EXCEPT !.pc = "name", !.out[n].client = At(n).client]
  BY DEF ReadClients, Next1, ReaderTypes, Readers
<1>2. Loaded /\ reader.out # << >>  BY <1>1 DEF Reading
<1>3. /\ reader.out \in Seq(Slot) /\ n \in Nat /\ reader.arr \in 1 .. Len(heap) /\ reader.len \in Nat
      /\ n <= reader.len /\ n \in 1 .. n
  <2>1. /\ reader.out \in Seq(Slot) /\ n \in Nat /\ reader.arr \in 1 .. Len(heap) /\ reader.len \in Nat
    BY <1>2, ReaderFields
  <2>2. n \in Nat \ {0}  BY <1>2, <2>1, EmptySeq
  <2> QED BY <1>2, <2>1, <2>2 DEF Reading
<1>4. s \in Slot /\ s.name = reader.out[n].name /\ s.client = At(n).client
  <2>1. At(n) \in Slot  BY <1>2, <1>3, AtType
  <2>2. reader.out[n] \in Slot  BY <1>3, ElementOfSeq
  <2> QED BY <2>1, <2>2 DEF Slot
<1>5. reader' = [reader EXCEPT !.pc = "name", !.out = done]  BY <1>1 DEF ReaderTypes, Readers
<1> HIDE DEF s
<1>6. /\ done \in Seq(Slot) /\ Len(done) = n /\ \A i \in 1 .. n : done[i] = IF i = n THEN s ELSE reader.out[i]
  BY <1>3, <1>4, ExceptSeq
<1> HIDE DEF done
<1>7. /\ reader'.pc = "name" /\ reader'.out = done /\ reader'.kind = reader.kind /\ reader'.arr = reader.arr
      /\ reader'.len = reader.len /\ reader'.begun = reader.begun /\ reader'.since = reader.since
      /\ reader'.edits = reader.edits /\ ReaderTypes'
  <2>1. reader \in Readers(Len(heap))  BY DEF ReaderTypes
  <2>2. reader' \in Readers(Len(heap))  BY <1>5, <1>6, <2>1 DEF Readers
  <2> QED BY <1>1, <1>5, <2>1, <2>2 DEF ReaderTypes, Readers
<1>8. Loaded' = Loaded /\ Snapshotting' = Snapshotting /\ Undisturbed' = Undisturbed
  BY <1>7 DEF Loaded, Snapshotting, Undisturbed
<1>9. \A i \in 1 .. n : done[i].name = reader.out[i].name  BY <1>4, <1>6
<1>10. Reading'
  BY <1>1, <1>2, <1>3, <1>6, <1>7, <1>8 DEF Reading
<1>11. Real'
  <2> SUFFICES ASSUME Snapshotting PROVE Names(done) \subseteq reader.since
    BY <1>1, <1>7, <1>8 DEF Real
  <2>1. \A i \in 1 .. n : reader.out[i].name \in reader.since  BY InNames DEF Real
  <2>2. \A i \in 1 .. Len(done) : done[i].name \in reader.since  BY <1>6, <1>9, <2>1
  <2> QED BY <2>2 DEF Names
<1>12. Headed'
  <2> SUFFICES ASSUME Snapshotting, reader.begun[1].name = Default PROVE done[1].name = Default
    BY <1>1, <1>7, <1>8 DEF Headed
  <2>1. reader.out[1].name = Default  BY <1>2 DEF Headed
  <2>2. 1 \in 1 .. n  BY <1>3
  <2> QED BY <1>9, <2>1, <2>2
<1>13. Apart'  BY <1>1, <1>7, <1>8 DEF Apart, Source
<1>14. Alone'  BY <1>1, <1>7 DEF Alone, Idle
<1>15. Exact'
  <2> SUFFICES ASSUME Undisturbed, NEW i \in 1 .. n
               PROVE  done[i].name = reader.begun[i].name /\ done[i].client = reader.begun[i].client
    BY <1>6, <1>7, <1>8 DEF Exact
  <2>1. reader.out[i].name = reader.begun[i].name /\ (i # n => reader.out[i].client = reader.begun[i].client)
    BY DEF Exact
  <2>2. CASE i # n  BY <1>6, <2>1, <2>2
  <2>3. CASE i = n
    <3>1. Source  BY <1>2, UndisturbedSource
    <3>2. n <= Len(heap[reader.arr])
      <4>1. reader.len <= Len(heap[reader.arr]) /\ Len(heap[reader.arr]) \in Nat
        BY <1>3, <3>1, Elements DEF Source, SliceInv
      <4> QED BY <1>3, <4>1
    <3>3. heap[reader.arr][n] = reader.begun[n]
      <4>1. \A j \in 1 .. reader.len : heap[reader.arr][j] = reader.begun[j]  BY <3>1 DEF Source
      <4>2. n \in 1 .. reader.len  BY <1>3
      <4> HIDE DEF n
      <4> QED BY <4>1, <4>2
    <3>4. At(n) = reader.begun[n]  BY <3>2, <3>3 DEF At
    <3>5. done[n] = s  BY <1>3, <1>6
    <3> QED BY <1>4, <2>1, <2>3, <3>4, <3>5
  <2> QED BY <2>2, <2>3
<1> QED BY <1>7, <1>10, <1>11, <1>12, <1>13, <1>14, <1>15

(* The reader has got to the end. *)
LEMMA FinishReader ==
    ASSUME SliceInv, ReaderInv, Finish
    PROVE  ReaderInv'
<1> USE DEF ReaderInv
<1>1. /\ heap' = heap /\ hdr' = hdr /\ edit' = edit /\ list' = list /\ reader.pc = "name" /\ Loaded
      /\ Len(reader.out) = reader.len /\ reader' = [reader EXCEPT !.pc = "done"]
  BY DEF Finish
<1>2. /\ reader'.pc = "done" /\ reader'.out = reader.out /\ reader'.kind = reader.kind /\ reader'.arr = reader.arr
      /\ reader'.len = reader.len /\ reader'.begun = reader.begun /\ reader'.since = reader.since
      /\ reader'.edits = reader.edits /\ ReaderTypes'
  BY <1>1 DEF ReaderTypes, Readers
<1>3. Loaded' = Loaded /\ Snapshotting' = Snapshotting /\ Undisturbed' = Undisturbed
  BY <1>2 DEF Loaded, Snapshotting, Undisturbed
<1>4. Reading'  BY <1>1, <1>2, <1>3 DEF Reading
<1>5. Real' /\ Headed' /\ Apart' /\ Alone'  BY <1>1, <1>2, <1>3 DEF Real, Headed, Apart, Source, Alone, Idle
<1>6. Exact'  BY <1>1, <1>2, <1>3 DEF Exact
<1> QED BY <1>2, <1>4, <1>5, <1>6

LEMMA ReaderStepInv ==
    ASSUME SliceInv, ReaderInv, ReaderStep
    PROVE  ReaderInv'
<1>1. CASE Snapshot
  <2>1. Idle /\ Start("snapshot", hdr.arr, hdr.len)  BY <1>1 DEF Snapshot
  <2> QED BY <2>1, StartInv
<1>2. CASE RangePtr
  <2>1. Start("live", hdr.arr, Unread)  BY <1>2 DEF RangePtr
  <2> QED BY <2>1, StartInv
<1>3. CASE RangeLen
  <2>1. Start("live", Unread, hdr.len)  BY <1>3 DEF RangeLen
  <2> QED BY <2>1, StartInv
<1>4. CASE RangeOther  BY <1>4, LoadReader
<1>5. CASE ReadName  BY <1>5, NameReader
<1>6. CASE ReadClients  BY <1>6, ClientsReader
<1>7. CASE Finish  BY <1>7, FinishReader
<1> QED BY <1>1, <1>2, <1>3, <1>4, <1>5, <1>6, <1>7 DEF ReaderStep

LEMMA ReaderNext == SliceInv /\ ReaderInv /\ [Next]_vars => SliceInv' /\ ReaderInv'
<1> SUFFICES ASSUME SliceInv, ReaderInv, [Next]_vars PROVE SliceInv' /\ ReaderInv'  OBVIOUS
<1>1. SliceInv'  BY SliceStep
<1>2. CASE Edit  BY <1>1, <1>2, EditInv, EditReader
<1>3. CASE Write  BY <1>1, <1>3, WriteInv, WriteReader
<1>4. CASE ReaderStep  BY <1>1, <1>4, ReaderStepInv
<1>5. CASE UNCHANGED vars
  <2>1. heap' = heap /\ hdr' = hdr /\ edit' = edit /\ list' = list /\ reader' = reader  BY <1>5 DEF vars
  <2>2. Loaded' = Loaded /\ Snapshotting' = Snapshotting /\ Undisturbed' = Undisturbed /\ Source' = Source /\ Idle' = Idle
    BY <2>1 DEF Loaded, Snapshotting, Undisturbed, Source, Idle
  <2>3. ReaderTypes' /\ Reading' /\ Real' /\ Headed' /\ Apart' /\ Alone' /\ Exact'
    BY <2>1, <2>2 DEF ReaderInv, ReaderTypes, Reading, Real, Headed, Apart, Alone, Exact
  <2> QED BY <1>1, <2>3 DEF ReaderInv
<1> QED BY <1>2, <1>3, <1>4, <1>5, Steps

LEMMA ReaderAlways == Spec => [](SliceInv /\ ReaderInv)
BY SliceInit, ReaderInit, ReaderNext, PTL DEF Spec

(* A snapshot is marshalled without the lock (Snapshot, save, ExportYAML), yet
   every AP in it is one the device has had since the snapshot was taken. *)
THEOREM SnapshotsSeeRealAPs == Spec => []SnapshotSeesRealAPs
<1>1. ReaderInv => SnapshotSeesRealAPs  BY DEF ReaderInv, Real, SnapshotSeesRealAPs
<1> QED BY <1>1, ReaderAlways, PTL

(* The default AP, at the head of the list when the snapshot was taken, is at
   its head, whatever RemoveAP moves down meanwhile. *)
THEOREM SnapshotsKeepDefault == Spec => []SnapshotKeepsDefault
<1>1. ReaderInv => SnapshotKeepsDefault  BY DEF ReaderInv, Headed, SnapshotKeepsDefault
<1> QED BY <1>1, ReaderAlways, PTL

(* AddAP does not reach a snapshot, although append writes into the array that
   the snapshot shares; and a reader without the lock that no edit overlaps
   reads the list. *)
THEOREM UndisturbedReadersAreExact == Spec => []UndisturbedIsExact
<1>1. ASSUME SliceInv, ReaderInv PROVE UndisturbedIsExact
  <2> USE <1>1 DEF ReaderInv
  <2> SUFFICES ASSUME reader.pc = "done", reader.edits \subseteq (IF Snapshotting THEN {"append"} ELSE {})
               PROVE  reader.out = reader.begun
    BY DEF UndisturbedIsExact
  <2>1. Undisturbed
    <3>1. reader.kind \in {"snapshot", "live"}  BY DEF Reading, ReaderTypes, Readers
    <3> QED BY <3>1 DEF Undisturbed, Snapshotting
  <2>2. Loaded /\ Len(reader.out) = reader.len  BY DEF Reading
  <2>3. Source  BY <2>1, <2>2, UndisturbedSource
  <2>4. /\ reader.out \in Seq(Slot) /\ reader.begun \in Seq(AP) /\ Len(reader.out) = Len(reader.begun)
        /\ Len(reader.out) \in Nat
    BY <2>2, <2>3, ReaderFields DEF Source
  <2>5. reader.begun \in Seq(Slot)  BY <2>4, APIsSlot, SeqMonotonic
  <2>6. ASSUME NEW i \in 1 .. Len(reader.out) PROVE reader.out[i] = reader.begun[i]
    <3>1. reader.out[i].name = reader.begun[i].name /\ reader.out[i].client = reader.begun[i].client  BY <2>1 DEF Exact
    <3>2. reader.out[i] \in Slot /\ reader.begun[i] \in Slot  BY <2>4, <2>5, ElementOfSeq
    <3> QED BY <3>1, <3>2 DEF Slot
  <2> QED BY <2>4, <2>5, <2>6, SeqEqual
<1> QED BY <1>1, ReaderAlways, PTL
=============================================================================

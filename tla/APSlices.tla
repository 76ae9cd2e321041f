------------------------------ MODULE APSlices ------------------------------
(***************************************************************************)
(* The AP list of a device as the Go slice it is: a header (array, length) *)
(* over an array that appends and removals write in place.  Edits hold the *)
(* simulator's lock.  Two kinds of reader do not hold it while they look:  *)
(*   snapshot  copies the header under the lock and marshals afterwards    *)
(*             (Snapshot, save, ExportYAML);                               *)
(*   live      ranges over Device.APs with no lock at all (the show        *)
(*             commands, RESTCONF, SNMP), so it may load the two words of  *)
(*             the header at different times.                              *)
(* These are data races: the writes of one edit reach a reader in any      *)
(* order.  An AP is two words, its name and the client list, and one       *)
(* roaming client stands for all.  Readers do not write, hence one of them *)
(* is enough; it reads once.                                               *)
(***************************************************************************)
EXTENDS Integers, Sequences, FiniteSets

CONSTANTS
    APs,        \* access points
    Default,    \* the name of the one RemoveAP refuses to remove
    Nobody,     \* name in a slot never written
    Wild,       \* what is found behind the end of an array
    Starts,     \* AP lists the device may have been loaded with
    MaxLen,     \* bound: APs of the device
    MaxEdits    \* bound: edits while the reader reads

Slot == [name : APs \cup {Nobody, Wild}, client : BOOLEAN]
Fresh(a) == [name |-> a, client |-> FALSE]
Names(s) == {s[i].name : i \in 1 .. Len(s)}

ASSUME SliceAssumption ==
    /\ Default \in APs /\ Nobody \notin APs /\ Wild \notin APs /\ Nobody # Wild
    /\ Starts \subseteq Seq([name : APs, client : BOOLEAN])
    /\ \A s \in Starts : s # << >> /\ Default \in Names(s)
    /\ MaxLen \in Nat /\ MaxEdits \in Nat

VARIABLES
    heap,       \* arrays ever made; the garbage collector keeps those in use
    hdr,        \* Device.APs: the array it points to and its length
    edit,       \* the edit that holds the lock, its writes still to come
    reader,     \* the reader: its copy of the header and what it has read
    list        \* ghost: the AP list the last edit is to make

vars == <<heap, hdr, edit, reader, list>>

Idle == edit.todo = {}

----------------------------------------------------------------------------
(* Edits.  A write is <<word, position, value>>. *)

Put(k, s) == {<<"name", k, s>>, <<"client", k, s>>}
Word(w, n) == {<<w, n, Fresh(Nobody)>>}

\* What an overlapping reader may come to see from now on.
Notice(kind, new) ==
    reader' = IF reader.pc = "idle" THEN reader
              ELSE [reader EXCEPT !.since = @ \cup Names(new), !.always = @ \cap Names(new),
                                  !.edits = @ \cup {kind}]

Begin(kind, arr, new, writes) ==
    /\ Idle /\ edit.n < MaxEdits
    /\ edit' = [todo |-> writes, arr |-> arr, kind |-> kind, old |-> list, n |-> edit.n + 1]
    /\ list' = new
    /\ Notice(kind, new)
    /\ UNCHANGED hdr

\* The array is made but for the room.
AddAPUncopied(a) ==
    LET n == hdr.len
        ptr == Len(heap) + 1
    IN /\ n < MaxLen
       /\ heap' = Append(heap, [i \in 1 .. n + 1 |-> Fresh(Nobody)])
       /\ Begin("append", ptr, Append(list, Fresh(a)),
                Put(n + 1, Fresh(a)) \cup Word("len", n + 1) \cup Word("ptr", ptr))

\* The new AP goes in front, in place.
AddAPFront(a) ==
    LET n == hdr.len
        new == <<Fresh(a)>> \o list
    IN /\ n < Len(heap[hdr.arr]) /\ n < MaxLen /\ heap' = heap
       /\ Begin("append", hdr.arr, new, (UNION {Put(i, new[i]) : i \in 1 .. n + 1}) \cup Word("len", n + 1))

\* append: into the room behind the slice, or into an array twice as long.
AddAP(a) ==
    LET n == hdr.len
        arr == heap[hdr.arr]
        ptr == Len(heap) + 1
    IN /\ n < MaxLen
       /\ \/ /\ n < Len(arr)
             /\ heap' = heap
             /\ Begin("append", hdr.arr, Append(list, Fresh(a)), Put(n + 1, Fresh(a)) \cup Word("len", n + 1))
          \/ /\ n = Len(arr)
             /\ heap' = Append(heap, arr \o [i \in 1 .. n |-> Fresh(Nobody)])
             /\ Begin("append", ptr, Append(list, Fresh(a)),
                      Put(n + 1, Fresh(a)) \cup Word("len", n + 1) \cup Word("ptr", ptr))

\* append(APs[:j], APs[j+1:]...) moves the tail down in place.
Shift(k) ==
    LET n == hdr.len
        arr == heap[hdr.arr]
    IN /\ heap' = heap
       /\ Begin("remove", hdr.arr, [i \in 1 .. n - 1 |-> IF i < k THEN list[i] ELSE list[i + 1]],
                (UNION {Put(i, arr[i + 1]) : i \in k .. n - 1}) \cup Word("len", n - 1))

\* The default AP can be removed too.
RemoveAPAny(k) == hdr.len > 1 /\ Shift(k)

\* Names may repeat; an edit takes the first AP of the name it is given.
FirstOfName(k) == \A i \in 1 .. k - 1 : list[i].name # list[k].name

RemoveAP(k) == list[k].name # Default /\ FirstOfName(k) /\ Shift(k)

Has(k, c) == [list[k] EXCEPT !.client = c]

AddClient(k) ==
    /\ ~list[k].client /\ FirstOfName(k) /\ heap' = heap
    /\ Begin("client", hdr.arr, [list EXCEPT ![k] = Has(k, TRUE)], {<<"client", k, Has(k, TRUE)>>})

RemoveClient(k) ==
    /\ list[k].client /\ heap' = heap
    /\ Begin("client", hdr.arr, [list EXCEPT ![k] = Has(k, FALSE)], {<<"client", k, Has(k, FALSE)>>})

UpdateClient(k, t) ==
    /\ list[k].client /\ k # t /\ FirstOfName(t) /\ heap' = heap
    /\ Begin("client", hdr.arr, [list EXCEPT ![k] = Has(k, FALSE), ![t] = Has(t, TRUE)],
             {<<"client", k, Has(k, FALSE)>>, <<"client", t, Has(t, TRUE)>>})

\* One write of the edit becomes visible; with the last one the lock is free.
Write ==
    \E w \in edit.todo :
        /\ edit' = [edit EXCEPT !.todo = @ \ {w}]
        /\ hdr' = CASE w[1] = "len" -> [hdr EXCEPT !.len = w[2]]
                    [] w[1] = "ptr" -> [hdr EXCEPT !.arr = w[2]]
                    [] OTHER -> hdr
        /\ heap' = CASE w[1] = "name" -> [heap EXCEPT ![edit.arr][w[2]].name = w[3].name]
                     [] w[1] = "client" -> [heap EXCEPT ![edit.arr][w[2]].client = w[3].client]
                     [] OTHER -> heap
        /\ UNCHANGED <<reader, list>>

----------------------------------------------------------------------------
(* The reader *)

Unread == -1

Start(kind, arr, len) ==
    /\ reader.pc = "idle"
    /\ reader' = [pc |-> "name", kind |-> kind, arr |-> arr, len |-> len, out |-> << >>, begun |-> list,
                  since |-> Names(list) \cup (IF Idle THEN {} ELSE Names(edit.old)),
                  always |-> IF Idle THEN Names(list) ELSE Names(list) \cap Names(edit.old),
                  edits |-> IF Idle THEN {} ELSE {edit.kind}]
    /\ UNCHANGED <<heap, hdr, edit, list>>

\* Without the lock.
SnapshotUnlocked == Start("snapshot", hdr.arr, hdr.len)

\* snapshotLocked under the read lock: both words at once.
Snapshot == Idle /\ Start("snapshot", hdr.arr, hdr.len)

\* A range statement without the lock loads one word, and later the other.
RangePtr == Start("live", hdr.arr, Unread)
RangeLen == Start("live", Unread, hdr.len)

RangeOther ==
    /\ reader.pc # "idle"
    /\ \/ reader.arr = Unread /\ reader' = [reader EXCEPT !.arr = hdr.arr]
       \/ reader.len = Unread /\ reader' = [reader EXCEPT !.len = hdr.len]
    /\ UNCHANGED <<heap, hdr, edit, list>>

Loaded == reader.arr # Unread /\ reader.len # Unread
Next1 == Len(reader.out) + (IF reader.pc = "client" THEN 0 ELSE 1)
At(k) == IF k <= Len(heap[reader.arr]) THEN heap[reader.arr][k] ELSE Fresh(Wild)

ReadName ==
    /\ reader.pc = "name" /\ Loaded /\ Next1 <= reader.len
    /\ reader' = [reader EXCEPT !.pc = "client", !.out = Append(@, Fresh(At(Next1).name))]
    /\ UNCHANGED <<heap, hdr, edit, list>>

ReadClients ==
    /\ reader.pc = "client"
    /\ reader' = [reader EXCEPT !.pc = "name", !.out[Next1].client = At(Next1).client]
    /\ UNCHANGED <<heap, hdr, edit, list>>

Finish ==
    /\ reader.pc = "name" /\ Loaded /\ Len(reader.out) = reader.len
    /\ reader' = [reader EXCEPT !.pc = "done"]
    /\ UNCHANGED <<heap, hdr, edit, list>>

----------------------------------------------------------------------------

\* An array has room behind the APs it was loaded with, or none.
Init ==
    /\ list \in Starts
    /\ \E room \in {<< >>, <<Fresh(Nobody)>>} : heap = <<list \o room>>
    /\ hdr = [arr |-> 1, len |-> Len(list)]
    /\ edit = [todo |-> {}, arr |-> 1, kind |-> "none", old |-> list, n |-> 0]
    /\ reader = [pc |-> "idle", kind |-> "none", arr |-> Unread, len |-> Unread, out |-> << >>,
                 begun |-> list, since |-> {}, always |-> {}, edits |-> {}]

Edit ==
    \/ \E a \in APs : AddAP(a)
    \/ \E k \in 1 .. Len(list) : RemoveAP(k) \/ AddClient(k) \/ RemoveClient(k)
    \/ \E k, t \in 1 .. Len(list) : UpdateClient(k, t)

Next ==
    \/ Edit \/ Write
    \/ Snapshot \/ RangePtr \/ RangeLen \/ RangeOther \/ ReadName \/ ReadClients \/ Finish

Spec == Init /\ [][Next]_vars

----------------------------------------------------------------------------
(* Properties *)

\* Types.
TypeOK ==
    /\ heap \in Seq(Seq(Slot)) /\ list \in Seq(Slot)
    /\ hdr \in [arr : 1 .. Len(heap), len : 0 .. MaxLen]
    /\ edit.arr \in 1 .. Len(heap) /\ edit.n \in 0 .. MaxEdits
    /\ reader.pc \in {"idle", "name", "client", "done"}
    /\ reader.arr \in {Unread} \cup 1 .. Len(heap) /\ reader.len \in Unread .. MaxLen
    /\ reader.out \in Seq(Slot)

\* Whatever arrays were reused or left behind, between edits the slice shows
\* exactly the list the edits made (AddAP, RemoveAP and the client edits work on
\* shared arrays).
SliceShowsList == Idle => SubSeq(heap[hdr.arr], 1, hdr.len) = list

Snapshotting == reader.kind = "snapshot"

\* Snapshot marshals without the lock, yet it names only APs the device has had
\* since the snapshot was taken: none removed before, none made up, nothing from
\* behind the array.
SnapshotSeesRealAPs == Snapshotting => Names(reader.out) \subseteq reader.since

\* A default AP at the head of the list (where EnsureDefaultAP puts a new one)
\* heads every snapshot, however many APs are removed meanwhile.
SnapshotKeepsDefault ==
    Snapshotting /\ reader.begun[1].name = Default /\ reader.out # << >> => reader.out[1].name = Default

\* Appends, in place or not, do not reach a snapshot, and a live reader that no
\* edit overlapped is exact: only removals and client edits can disturb the one,
\* only an overlapping edit the other.
UndisturbedIsExact ==
    /\ reader.pc = "done"
    /\ reader.edits \subseteq (IF Snapshotting THEN {"append"} ELSE {})
    => reader.out = reader.begun

\* Refuted, hence in no run (README, section 4).  simulator.go says that Snapshot
\* returns the current running state: an AP the device had all the while would be
\* in it.
SnapshotComplete ==
    reader.pc = "done" /\ Snapshotting =>
        reader.always \subseteq Names(reader.out)

\* Refuted, hence in no run.  simulator.go says that a Simulator is safe for
\* concurrent use: a live reader would stay inside the array.
LiveReaderInBounds == Wild \notin Names(reader.out)
=============================================================================

-------------------------- MODULE StateFileProofs --------------------------
(***************************************************************************)
(* The state file behaves as an atomic file whenever the Save that renamed *)
(* it ran by itself: for any number of savers, whichever of them hold the  *)
(* simulator's lock, for any data and any sequence of crashes, failed      *)
(* writes and deletions.  Nothing is assumed about who overlaps whom.      *)
(***************************************************************************)
EXTENDS StateFile, TLAPS

(* A call that has overlapped no other runs while all the others are idle. *)
Alone == \A s \in Savers : pc[s] # "idle" /\ s \notin mixed => Others(s) = {}

(* What such a call knows of its temporary file. *)
TmpOwned ==
    \A s \in Savers : s \notin mixed =>
        /\ pc[s] = "write" => tmp # None /\ fd[s] = tmp /\ content[tmp] = Empty
        /\ pc[s] = "rename" => tmp # None /\ content[tmp] = want[s]

(* The temporary file is never the state file itself. *)
TmpApart == tmp # None => tmp # path

(* Without doubt, nobody writes to the state file any more, and it holds what
   the last successful call stored. *)
Undoubted ==
    ~doubt => /\ \A s \in Savers : fd[s] # None => fd[s] # path
              /\ Stored = acked /\ NeverTruncated

Inv == TypeOK /\ Alone /\ TmpOwned /\ TmpApart /\ Undoubted

(* The invariant holds of an empty state directory. *)
LEMMA InitInv == Init => Inv
<1> SUFFICES ASSUME Init PROVE Inv  OBVIOUS
<1>1. TypeOK
  BY ConstantsAssumption DEF Init, TypeOK, Content
<1>2. Alone /\ TmpOwned /\ TmpApart
  BY DEF Init, Alone, TmpOwned, TmpApart
<1>3. Undoubted
  BY DEF Init, Undoubted, Stored, NeverTruncated
<1> QED  BY <1>1, <1>2, <1>3 DEF Inv

(* A call that begins overlaps those under way, and they it. *)
LEMMA OpenInv ==
    ASSUME Inv, NEW s \in Savers, NEW d \in Data, OpenTmp(s, d)
    PROVE  Inv'
<1> USE ConstantsAssumption DEF Content
<1>1. PICK i \in Inodes :
          /\ IF tmp = None THEN Unused(i) ELSE i = tmp
          /\ tmp' = i
          /\ content' = [content EXCEPT ![i] = Empty]
          /\ fd' = [fd EXCEPT ![s] = i]
  BY DEF OpenTmp
<1>2. i # path /\ path' = path /\ acked' = acked /\ doubt' = doubt
  BY <1>1 DEF OpenTmp, Unused, Inv, TmpApart
<1>3. TypeOK'
  BY <1>1 DEF OpenTmp, Others, Inv, TypeOK
<1>4. pc[s] = "idle" /\ pc' = [pc EXCEPT ![s] = "write"]
      /\ mixed' = IF Others(s) = {} THEN mixed \ {s} ELSE mixed \cup Others(s) \cup {s}
  BY DEF OpenTmp
<1>5. ASSUME NEW t \in Savers, pc'[t] # "idle", t \notin mixed'
      PROVE  t = s /\ Others(s) = {}
  <2>1. t = s \/ t \in Others(s)
    BY <1>4, <1>5 DEF Others, Inv, TypeOK
  <2> QED  BY <2>1, <1>4, <1>5
<1>6. Alone'
  <2>1. (Others(s) = {})' <=> Others(s) = {}
    BY <1>4 DEF Others, Inv, TypeOK
  <2> QED  BY <1>5, <2>1 DEF Alone
<1>7. TmpOwned'
  BY <1>1, <1>3, <1>4, <1>5 DEF TmpOwned, Inv, TypeOK
<1>8. TmpApart' /\ Undoubted'
  BY <1>1, <1>2 DEF Inv, TypeOK, TmpApart, Undoubted, Stored, NeverTruncated
<1> QED  BY <1>3, <1>6, <1>7, <1>8 DEF Inv

(* A write touches only the temporary file, unless the writer overlapped a
   call that has renamed that file since. *)
LEMMA WriteInv ==
    ASSUME Inv, NEW s \in Savers, WriteTmp(s) \/ WriteFails(s)
    PROVE  Inv'
<1> USE ConstantsAssumption DEF Content
<1>1. fd[s] \in Inodes /\ pc[s] = "write" /\ fd' = [fd EXCEPT ![s] = None]
  BY DEF WriteTmp, WriteFails, Inv, TypeOK
<1>2. PICK c \in Content : content' = [content EXCEPT ![fd[s]] = c]
  BY DEF WriteTmp, WriteFails, Inv, TypeOK
<1>3. UNCHANGED <<tmp, path, want, saves, acked, mixed, doubt>>
  BY DEF WriteTmp, WriteFails
<1>4. pc' = [pc EXCEPT ![s] = "rename"] \/ pc' = [pc EXCEPT ![s] = "idle"]
  BY DEF WriteTmp, WriteFails, Return
<1>5. TypeOK'
  BY <1>1, <1>2, <1>3, <1>4 DEF WriteTmp, WriteFails, Return, Inv, TypeOK
<1>6. Alone'
  BY <1>1, <1>3, <1>4 DEF Alone, Others, Inv, TypeOK
<1>7. TmpOwned'
  <2> SUFFICES ASSUME NEW t \in Savers, t \notin mixed, pc'[t] # "idle"
               PROVE  /\ pc'[t] = "write" => tmp # None /\ fd'[t] = tmp /\ content'[tmp] = Empty
                      /\ pc'[t] = "rename" => tmp # None /\ content'[tmp] = want[t]
    BY <1>3 DEF TmpOwned
  <2>1. t = s
    BY <1>1, <1>4 DEF Inv, TypeOK, Alone, Others
  <2>2. tmp # None /\ fd[s] = tmp /\ content[tmp] = Empty
    BY <1>1, <2>1 DEF Inv, TmpOwned
  <2>3. pc'[s] = "rename" /\ WriteTmp(s)
    BY <2>1, <1>4 DEF WriteFails, Return, Inv, TypeOK
  <2>4. content'[tmp] = want[s]
    BY <2>2, <2>3, <1>1 DEF WriteTmp, Inv, TypeOK
  <2> QED  BY <2>1, <2>2, <2>3, <2>4
<1>8. TmpApart' /\ Undoubted'
  BY <1>1, <1>2, <1>3 DEF Inv, TypeOK, TmpApart, Undoubted, Stored, NeverTruncated
<1> QED  BY <1>5, <1>6, <1>7, <1>8 DEF Inv

(* A rename by a call that ran by itself ends the doubt; one that failed
   leaves the state file alone. *)
LEMMA RenameInv ==
    ASSUME Inv, NEW s \in Savers, RenameTmp(s) \/ RenameFails(s)
    PROVE  Inv'
<1> USE ConstantsAssumption DEF Content
<1>1. pc[s] = "rename" /\ pc' = [pc EXCEPT ![s] = "idle"] /\ tmp' = None
      /\ UNCHANGED <<content, fd, want, mixed>>
  BY DEF RenameTmp, RenameFails, Return
<1>2. TypeOK'
  <2>1. doubt' \in BOOLEAN
    <3>1. (s \in mixed) \in BOOLEAN
      OBVIOUS
    <3>2. doubt' \in {doubt, (s \in mixed)}
      BY Zenon DEF RenameTmp, RenameFails
    <3> QED  BY <3>1, <3>2, Zenon DEF Inv, TypeOK
  <2>2. /\ saves' = saves
        /\ path' \in {path, tmp} /\ acked' \in {acked, want[s]} /\ mu' \in {mu, None}
    BY DEF RenameTmp, RenameFails, Return
  <2>3. RenameTmp(s) => path' = tmp /\ tmp # None
    BY DEF RenameTmp
  <2> QED  BY <1>1, <2>1, <2>2, <2>3 DEF Inv, TypeOK
<1>3. Alone'
  BY <1>1 DEF Alone, Others, Inv, TypeOK
<1>4. TmpOwned' /\ TmpApart'
  <2> SUFFICES ASSUME NEW t \in Savers, t \notin mixed PROVE pc'[t] = "idle"
    BY <1>1 DEF TmpOwned, TmpApart
  <2> QED  BY <1>1 DEF Alone, Others, Inv, TypeOK
<1>5. CASE RenameFails(s)
  <2>1. UNCHANGED <<path, acked, doubt>>
    BY <1>5 DEF RenameFails
  <2>2. Undoubted'
    BY <1>1, <2>1 DEF Inv, Undoubted, Stored, NeverTruncated
  <2> QED  BY <1>2, <1>3, <1>4, <2>2 DEF Inv
<1>6. CASE RenameTmp(s)
  <2>1. path' = tmp /\ acked' = want[s] /\ doubt' = (s \in mixed)
    BY <1>6 DEF RenameTmp
  <2>2. ASSUME s \notin mixed
        PROVE  \A t \in Savers : fd'[t] = None
    BY <1>1, <2>2 DEF Inv, TypeOK, Alone, Others
  <2>3. s \notin mixed => content[tmp] = want[s] /\ tmp # None /\ want[s] \in Data
    BY <1>1 DEF Inv, TypeOK, TmpOwned
  <2>4. Undoubted'
    BY <1>1, <2>1, <2>2, <2>3 DEF Undoubted, Stored, NeverTruncated
  <2> QED  BY <1>2, <1>3, <1>4, <2>4 DEF Inv
<1> QED  BY <1>5, <1>6

(* Every step of any savers preserves the invariant. *)
LEMMA StepInv == Inv /\ [Next]_vars => Inv'
<1> SUFFICES ASSUME Inv, [Next]_vars PROVE Inv'  OBVIOUS
<1> USE ConstantsAssumption DEF Content
<1>1. ASSUME NEW s \in Savers, DeleteState(s) PROVE Inv'
  <2>1. UNCHANGED <<tmp, content, mu, pc, fd, want, saves, mixed>>
        /\ path' = None /\ acked' = None
    BY <1>1 DEF DeleteState
  <2>3. doubt' \in BOOLEAN
    BY <1>1, Zenon DEF DeleteState
  <2>4. TypeOK'
    BY <2>1, <2>3 DEF Inv, TypeOK
  <2>5. Alone' /\ TmpOwned' /\ TmpApart'
    BY <2>1 DEF Inv, TypeOK, Alone, Others, TmpOwned, TmpApart
  <2>2. Undoubted'
    BY <1>1 DEF DeleteState, Undoubted, Stored, NeverTruncated
  <2> QED  BY <2>2, <2>4, <2>5 DEF Inv
<1>2. CASE Crash
  BY <1>2 DEF Crash, Inv, TypeOK, Alone, Others, TmpOwned, TmpApart, Undoubted, Stored, NeverTruncated
<1>3. CASE UNCHANGED vars
  BY <1>3 DEF vars, Inv, TypeOK, Alone, Others, TmpOwned, TmpApart, Undoubted, Stored, NeverTruncated
<1> QED
  BY <1>1, <1>2, <1>3, OpenInv, WriteInv, RenameInv DEF Next

(* However Saves overlap, fail or are cut off by a crash, a state file that
   the last call renamed without having overlapped another is whole. *)
THEOREM OnlyOverlapTruncates == Spec => []NeverTruncated
<1>1. Inv => NeverTruncated
  BY DEF Inv, Undoubted, NeverTruncated
<1> QED  BY <1>1, InitInv, StepInv, PTL DEF Spec

(* The temporary file, the rename, the error paths and the crashes together
   implement an atomic file that only overlapping Saves may spoil: after any
   other call a restart sees exactly the configuration of the last successful
   one, whatever overlapped before. *)
THEOREM SavesImplement == Spec => ImplementsAtomicFile
<1>1. Init => Abstract!Init
  BY DEF Init, Abstract!Init, Stored
<1>2. Inv /\ Inv' /\ [Next]_vars => [Abstract!Next]_<<Stored, acked, doubt>>
  <2> SUFFICES ASSUME Inv, Inv' PROVE [Abstract!Next]_<<Stored, acked, doubt>>
    OBVIOUS
  <2>1. CASE doubt' = TRUE
    BY <2>1 DEF Abstract!Next, Abstract!Overlap, Inv, TypeOK
  <2>2. CASE doubt' = FALSE
    <3>1. Stored' = acked' /\ acked' \in Data \cup {None} /\ doubt' = FALSE
      BY <2>2 DEF Inv, TypeOK, Undoubted
    <3> QED  BY <3>1 DEF Abstract!Next, Abstract!Replace, Abstract!Delete
  <2> QED  BY <2>1, <2>2 DEF Inv, TypeOK
<1> QED
  BY <1>1, <1>2, InitInv, StepInv, PTL DEF Spec, ImplementsAtomicFile, Abstract!Spec
=============================================================================

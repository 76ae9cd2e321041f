----------------------------- MODULE StateFile -----------------------------
(***************************************************************************)
(* config.Save and deleteState on the file system: the temporary file, the *)
(* rename over the state file, and the process crashing at any point.      *)
(*                                                                         *)
(* Directory entries point at inodes, because an open descriptor keeps     *)
(* writing to its inode after the entry was renamed: two Saves that        *)
(* overlap share path + ".tmp".  Savers in Locked run Save while holding   *)
(* the simulator's lock (saveLocked); the others run it with no lock held  *)
(* (save(), used by ImportConfig and ClearAll), so that their calls may    *)
(* overlap each other and those of the first kind.                         *)
(***************************************************************************)
EXTENDS Naturals

CONSTANTS
    Savers,     \* goroutines that call config.Save
    Locked,     \* those that hold the simulator's lock meanwhile
    Data,       \* marshalled configurations
    Inodes,     \* inodes of the state directory
    Empty,      \* content of a file just created or truncated
    Torn,       \* content of a file written in part, or by two writers
    None,       \* no directory entry, no descriptor, nobody
    MaxSaves    \* bound: calls begun

Content == Data \cup {Empty, Torn}

ASSUME ConstantsAssumption ==
    /\ Locked \subseteq Savers
    /\ None \notin Inodes /\ None \notin Savers /\ None \notin Content
    /\ Empty \notin Data /\ Torn \notin Data
    /\ MaxSaves \in Nat

VARIABLES
    tmp,      \* inode that path + ".tmp" names, or None
    path,     \* inode that path names, or None
    content,  \* content of each inode
    mu,       \* saver that holds the simulator's lock, or None
    pc,       \* pc[s]: "idle", "write" (tmp is open) or "rename"
    fd,       \* fd[s]: inode s has open, or None
    want,     \* want[s]: what s is storing
    saves,    \* calls begun so far
    \* history, read by no guard:
    acked,    \* what the last successful call stored, None after a delete
    mixed,    \* calls that have overlapped another one
    doubt     \* the last call to rename its file had overlapped another one

vars == <<tmp, path, content, mu, pc, fd, want, saves, acked, mixed, doubt>>

Init ==
    /\ tmp = None /\ path = None /\ acked = None /\ mu = None
    /\ content = [i \in Inodes |-> Empty]
    /\ pc = [s \in Savers |-> "idle"]
    /\ fd = [s \in Savers |-> None]
    /\ want \in [Savers -> Data]
    /\ saves = 0 /\ mixed = {} /\ doubt = FALSE

\* Neither named nor open.
Unused(i) == i # tmp /\ i # path /\ \A s \in Savers : fd[s] # i

\* The other calls under way.
Others(s) == {t \in Savers \ {s} : pc[t] # "idle"}

Return(s) ==
    /\ pc' = [pc EXCEPT ![s] = "idle"]
    /\ mu' = IF mu = s THEN None ELSE mu

\* os.WriteFile opens tmp with O_CREATE and O_TRUNC.
OpenTmp(s, d) ==
    /\ pc[s] = "idle" /\ saves < MaxSaves
    /\ s \in Locked => mu = None
    /\ mu' = IF s \in Locked THEN s ELSE mu
    /\ \E i \in Inodes :
        /\ IF tmp = None THEN Unused(i) ELSE i = tmp
        /\ tmp' = i
        /\ content' = [content EXCEPT ![i] = Empty]
        /\ fd' = [fd EXCEPT ![s] = i]
    /\ want' = [want EXCEPT ![s] = d]
    /\ pc' = [pc EXCEPT ![s] = "write"]
    /\ saves' = saves + 1
    /\ mixed' = IF Others(s) = {} THEN mixed \ {s} ELSE mixed \cup Others(s) \cup {s}
    /\ UNCHANGED <<path, acked, doubt>>

\* The write.  Over another writer's bytes the result is a mixture, unless
\* this one happens to cover them.
WriteTmp(s) ==
    /\ pc[s] = "write"
    /\ \E c \in {want[s]} \cup (IF content[fd[s]] = Empty THEN {} ELSE {Torn}) :
          content' = [content EXCEPT ![fd[s]] = c]
    /\ fd' = [fd EXCEPT ![s] = None]
    /\ pc' = [pc EXCEPT ![s] = "rename"]
    /\ UNCHANGED <<tmp, path, mu, want, saves, acked, mixed, doubt>>

\* The write's error is not looked at.
WriteFailsIgnored(s) ==
    /\ pc[s] = "write"
    /\ content' = [content EXCEPT ![fd[s]] = Torn]
    /\ fd' = [fd EXCEPT ![s] = None]
    /\ pc' = [pc EXCEPT ![s] = "rename"]
    /\ UNCHANGED <<tmp, path, mu, want, saves, acked, mixed, doubt>>

\* The write fails part-way (disk full): Save returns the error.
WriteFails(s) ==
    /\ pc[s] = "write"
    /\ content' = [content EXCEPT ![fd[s]] = Torn]
    /\ fd' = [fd EXCEPT ![s] = None]
    /\ Return(s)
    /\ UNCHANGED <<tmp, path, want, saves, acked, mixed, doubt>>

\* os.Rename(tmp, path): the call has succeeded.
RenameTmp(s) ==
    /\ pc[s] = "rename" /\ tmp # None
    /\ path' = tmp /\ tmp' = None
    /\ acked' = want[s] /\ doubt' = (s \in mixed)
    /\ Return(s)
    /\ UNCHANGED <<content, fd, want, saves, mixed>>

\* A failed rename is reported as success.
RenameFailsAcked(s) ==
    /\ pc[s] = "rename"
    /\ tmp' = None
    /\ acked' = want[s] /\ doubt' = (s \in mixed)
    /\ Return(s)
    /\ UNCHANGED <<path, content, fd, want, saves, mixed>>

\* os.Rename fails (always when tmp is gone): tmp is removed, the error returned.
RenameFails(s) ==
    /\ pc[s] = "rename"
    /\ tmp' = None
    /\ Return(s)
    /\ UNCHANGED <<path, content, fd, want, saves, acked, mixed, doubt>>

\* deleteState, called by FactoryReset with no lock held.
DeleteState(s) ==
    /\ pc[s] = "idle"
    /\ path' = None /\ acked' = None /\ doubt' = FALSE
    /\ UNCHANGED <<tmp, content, mu, pc, fd, want, saves, mixed>>

\* The process dies: descriptors and locks are gone, the directory stays as
\* it is, a half-written tmp included.
Crash ==
    /\ pc' = [s \in Savers |-> "idle"]
    /\ fd' = [s \in Savers |-> None]
    /\ mu' = None
    /\ UNCHANGED <<tmp, path, content, want, saves, acked, mixed, doubt>>

Next ==
    \/ \E s \in Savers : \/ \E d \in Data : OpenTmp(s, d)
                         \/ WriteTmp(s) \/ WriteFails(s)
                         \/ RenameTmp(s) \/ RenameFails(s) \/ DeleteState(s)
    \/ Crash

Spec == Init /\ [][Next]_vars

----------------------------------------------------------------------------
(* Properties *)

(* Type invariant; a descriptor is open exactly while its saver writes. *)
TypeOK ==
    /\ tmp \in Inodes \cup {None} /\ path \in Inodes \cup {None}
    /\ content \in [Inodes -> Content]
    /\ mu \in Savers \cup {None}
    /\ pc \in [Savers -> {"idle", "write", "rename"}]
    /\ fd \in [Savers -> Inodes \cup {None}]
    /\ \A s \in Savers : fd[s] # None <=> pc[s] = "write"
    /\ want \in [Savers -> Data]
    /\ saves \in Nat
    /\ acked \in Data \cup {None}
    /\ mixed \subseteq Savers /\ doubt \in BOOLEAN

(* A crash at any point of a Save leaves a state file that is absent or
   whole: path never names a file that is empty, cut short or mixed, unless
   the call that renamed it overlapped another Save, which no lock prevents
   for ImportConfig and ClearAll.  The next call that ran by itself, and a
   delete, end the doubt, even while the overlapped one is still writing. *)
NeverTruncated == ~doubt /\ path # None => content[path] \in Data

(* What a restart would load. *)
Stored == IF path = None THEN None ELSE content[path]

(* The detailed steps implement an atomic file that an overlap, and only an
   overlap, may spoil until the next call that runs by itself. *)
Abstract == INSTANCE AtomicFile WITH NoFile <- None, file <- Stored

ImplementsAtomicFile == Abstract!Spec
=============================================================================

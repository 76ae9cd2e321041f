---------------------------- MODULE AtomicFile ----------------------------
(***************************************************************************)
(* What config.Save and deleteState promise about the state file: it is    *)
(* absent or holds, whole, the configuration of the last call that         *)
(* reported success.  A crash, a failed call or a call that has not        *)
(* finished changes nothing.  Calls that overlapped are promised nothing   *)
(* until the next one that did not.                                        *)
(***************************************************************************)
CONSTANTS Data, NoFile

VARIABLES file,   \* what a restart would load
          acked,  \* what the last successful call was asked to store
          doubt   \* the last call to replace the file had overlapped another

Init == file = NoFile /\ acked = NoFile /\ doubt = FALSE

Replace(d) == file' = d /\ acked' = d /\ doubt' = FALSE

Delete == file' = NoFile /\ acked' = NoFile /\ doubt' = FALSE

\* Overlapping calls: whatever becomes of the file.
Overlap == doubt' = TRUE

Next == (\E d \in Data : Replace(d)) \/ Delete \/ Overlap

Spec == Init /\ [][Next]_<<file, acked, doubt>>
=============================================================================

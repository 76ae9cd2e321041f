------------------------------ MODULE Version ------------------------------
(***************************************************************************)
(* internal/updater/version.go: comparison of release versions.  A version *)
(* is what parseVersion makes of a tag: three numbers, a missing or        *)
(* unparseable component being 0 (a dev build is 0.0.0).                   *)
(***************************************************************************)
EXTENDS Integers

Version == [1 .. 3 -> Nat]

\* The loop returns at the first component that differs.
compareVersions(a, b) ==
    IF \A i \in 1 .. 3 : a[i] = b[i] THEN 0
    ELSE LET i == CHOOSE k \in 1 .. 3 : a[k] # b[k] /\ \A j \in 1 .. k - 1 : a[j] = b[j]
         IN IF a[i] < b[i] THEN -1 ELSE 1

isNewer(latest, current) == compareVersions(latest, current) > 0
=============================================================================

----------------------------- MODULE MCAPSlices -----------------------------
(***************************************************************************)
(* Model-checking instance of APSlices: a device whose default AP heads    *)
(* the list, where EnsureDefaultAP puts a new one, and one whose default   *)
(* AP was found by its name further down.                                  *)
(***************************************************************************)
EXTENDS APSlices

CONSTANTS site, ap1, ap2, ap3

Phone(a) == [name |-> a, client |-> TRUE]

Lists == {<<Fresh(site), Phone(ap1)>>,
          <<Fresh(site), Fresh(ap1), Phone(ap2)>>,
          <<Phone(ap1), Fresh(site)>>}
=============================================================================

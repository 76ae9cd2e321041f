------------------------------ MODULE MCUpdate ------------------------------
(***************************************************************************)
(* Model-checking instances of Update: the appliance runs 1.9.0, 1.10.0    *)
(* comes up, 2.0.0 is a release that never does.                           *)
(***************************************************************************)
EXTENDS Update

V1 == <<1, 9, 0>>
V2 == <<1, 10, 0>>
V3 == <<2, 0, 0>>

AllVersions == {V1, V2, V3}
SoundVersions == {V1, V2}
=============================================================================

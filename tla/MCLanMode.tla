----------------------------- MODULE MCLanMode -----------------------------
(***************************************************************************)
(* Model-checking instance of LanMode: a search range of three addresses,  *)
(* one more address in the subnet and one outside it.                      *)
(***************************************************************************)
EXTENDS LanMode

CONSTANTS p200, p201, p150, s10, auto, away

Range3 == <<p200, p201, p150>>
SeedFile == <<auto, s10>>
Files == {<<auto, auto>>, <<s10, s10>>, <<s10, p200>>, << >>}
=============================================================================

---------------------------- MODULE MCSimulator ----------------------------
(***************************************************************************)
(* Model-checking instances of Simulator: the seed has one device, imports *)
(* replace it, extend it or repeat an address.                             *)
(***************************************************************************)
EXTENDS Simulator, TLC

CONSTANTS ip1, ip2, bad

SeedIPs == <<ip1>>

\* Requests are alike.
Alike == Permutations(Requests)

\* Well-formed imports: the seed's device with another one, the other alone.
GoodImports == {<<ip1, ip2>>, <<ip2>>}

\* The second address cannot be added, so setupIPs fails half-way.
FailingImports == {<<ip2>>, <<ip2, bad>>}

\* An import naming one address twice; nothing in the code rejects it.
RepeatingImports == {<<ip2>>, <<ip1, ip1>>}
=============================================================================

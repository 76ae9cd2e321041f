------------------------------- MODULE MCSite -------------------------------
(***************************************************************************)
(* Model-checking instance of Site.  The files it is loaded from: an empty *)
(* site, one written before default APs existed, one whose default AP has  *)
(* another name, one with two marked APs, one with an unmarked AP of the   *)
(* site's name in front of the marked one, and one that gives no name.     *)
(***************************************************************************)
EXTENDS Reports

CONSTANTS site, ap1, mac1, mac2, corp

Ap(n, d, cs) == [name |-> n, default |-> d, ssids |-> {}, clients |-> cs]
Phone == [mac |-> mac1, ssid |-> corp, vlan |-> 0, channel |-> 6]

Of(h, a) == [hostname |-> h, aps |-> a]

Files == {Of(site, << >>),
          Of(site, <<Ap(ap1, FALSE, <<Phone>>), Ap(ap1, FALSE, << >>), Ap(site, FALSE, << >>)>>),
          Of(site, <<Ap(ap1, FALSE, << >>), Ap(ap1, TRUE, <<Phone>>)>>),
          Of(site, <<Ap(ap1, TRUE, << >>), Ap(site, TRUE, << >>)>>),
          Of(site, <<Ap(site, FALSE, <<Phone>>), Ap(site, TRUE, << >>)>>),
          Of(NoName, <<Ap(ap1, FALSE, <<Phone>>)>>)}
=============================================================================

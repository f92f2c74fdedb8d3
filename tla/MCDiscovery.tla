---------------------------- MODULE MCDiscovery ----------------------------
(***************************************************************************)
(* Instances of Discovery for TLC: one camera on two interfaces, one with  *)
(* the same name on one of them, and one with an old firmware.             *)
(***************************************************************************)
EXTENDS Discovery, TLC

CONSTANTS c1, c2, c3, i1, i2, a1, a2, nick, other

MCReach == {<<c1, i1>>, <<c1, i2>>, <<c2, i2>>, <<c3, i1>>}
MCName == (c1 :> nick) @@ (c2 :> nick) @@ (c3 :> other)
MCFlashIp == (c1 :> a1) @@ (c2 :> a2) @@ (c3 :> a2)

Url(p, n, a, i) == [prefix |-> p, id |-> n, address |-> a, interface |-> i]
MCUrls == {Url("name", nick, NoAddress, AllInterfaces),
           Url("serial", c1, a1, AllInterfaces),
           Url("serial", c1, a2, i1),
           Url("any", other, NoAddress, i2),
           Url("name", other, a1, AllInterfaces),
           Url("any", other, BadAddress, i1),
           Url("bad", other, NoAddress, AllInterfaces)}
=============================================================================

---------------------------- MODULE MCIpamPools ----------------------------
EXTENDS IpamPools, TLC

CONSTANTS p1, p2, n1, n2, s1, s2, if1, if2, if3

\* A network of two host bits has the two host addresses 1 and 2.
V4(scope, net) ==
  [scope |-> scope, start |-> 0, end |-> 0, hostBits |-> 2, net |-> net, v6 |-> FALSE]
Iface(static, names) == [static |-> static, pools |-> names]

MCIfacesOf == (n1 :> <<>>) @@ (n2 :> <<>>) @@ (s1 :> <<if1, if2>>) @@ (s2 :> <<if3>>)

\* The node pool's range ends before it starts, which nothing refuses.
Backwards    == [V4(ScopeNode, 4) EXCEPT !.start = 3, !.end = 1]
\* The service pool's range leaves its network, which nothing refuses either.
Beyond       == [V4(ScopeService, 4) EXCEPT !.start = 2, !.end = 4]
\* A network of one address, whose default range ends at the largest id.
Single       == [V4(ScopeSystem, 4) EXCEPT !.hostBits = 0]
AnyScope     == {V4(ScopeSystem, 4), Beyond, Backwards, Single}
OnlySystem   == {V4(ScopeSystem, 4)}
OnlyV6       == {[scope |-> ScopeSystem, start |-> 0, end |-> 0, hostBits |-> 2, net |-> 4, v6 |-> TRUE]}
Various      == {V4(ScopeSystem, 4), V4(ScopeNode, 0)} \cup OnlyV6

PooledOrNot  == {Iface({}, <<>>), Iface({}, <<p1>>), Iface({}, <<p1, p2>>)}
Pooled       == {Iface({}, <<p1>>)}
NoneOrBoth   == {Iface({}, <<>>), Iface({5}, <<p1, p2>>)}

Steady        == {"setPool", "set", "delete"}
=============================================================================

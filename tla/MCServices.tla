----------------------------- MODULE MCServices -----------------------------
(***************************************************************************)
(* Configurations of two nodes and two pods for Services.                  *)
(***************************************************************************)
EXTENDS Services

Intf(name, type, ips, inPools) ==
    [parent |-> "", name |-> name, type |-> type, ips |-> ips, mac |-> NoMac, pools |-> inPools,
     labels |-> <<>>, host |-> "", mtu |-> 0, routes |-> <<>>, arps |-> <<>>,
     memifDir |-> "", tapNs |-> "", linuxNs |-> <<>>, bypass |-> FALSE, parmsOk |-> TRUE]

Bd(name, template, parms) == [set |-> TRUE, name |-> name, template |-> template, parms |-> parms]
NoBd == [set |-> FALSE, name |-> "", template |-> "", parms |-> ""]

Pod(name, type, ifaces) == [name |-> name, type |-> type, ifs |-> ifaces]

Connection(type, members) ==
    [type |-> type, pods |-> members, nodeIfs |-> <<>>, labels |-> <<>>, method |-> "",
     overlay |-> "", nodeBd |-> "", bd |-> NoBd, vrf |-> 0]

Uplink(ip) == [Intf("e1", "ethernet", <<<<ip, 24>>>>, <<>>) EXCEPT !.labels = <<"uplink">>]

NodeWith(ip, template) ==
    [ifs |-> <<Uplink(ip)>>, bds |-> <<Bd("bd1", template, IF template = "" THEN "own" ELSE "")>>]

NodeTunnel(ip) ==
    [ifs |-> <<Uplink(ip), Intf("vx", "vxlan_tunnel", <<<<ip + 2, 24>>>>, <<>>)>>, bds |-> <<>>]

TwoNodes == ("n1" :> NodeWith(11, "")) @@ ("n2" :> NodeWith(12, "t1"))

Templates == [mtu |-> 9000, memifDir |-> "/run", templates |-> ("t1" :> "tmpl")]

MeshParms(p, last) ==
    [pool |-> p, label |-> "uplink", loopback |-> TRUE, routes |-> TRUE, lo |-> 5, hi |-> last]
Mesh(p, last) == [conn |-> "vxlan", type |-> "mesh", mesh |-> <<MeshParms(p, last)>>, hub |-> <<>>]
Hub(n) == [conn |-> "vxlan", type |-> "hub_and_spoke", mesh |-> <<>>,
           hub |-> <<[pool |-> "", label |-> "uplink", loopback |-> FALSE, routes |-> TRUE,
                      node |-> n, vni |-> 3]>>]

VxPool == ("vxpool" :> [start |-> 1, end |-> 3, hostBits |-> 2, net |-> 8, len |-> 24])

InDir(i, dir) == [i EXCEPT !.memifDir = dir]

PodPair ==
    <<Pod("p1", "vppcontainer", <<
          InDir(Intf("m1", "memif", <<>>, <<"vxpool">>), "/d1"),
          [Intf("m2", "memif", <<<<1, 24>>>>, <<>>) EXCEPT
              !.routes = <<[vrf |-> 0, dst |-> <<4, 24>>, hop |-> <<2, 24>>]>>]>>),
      Pod("p2", "vppcontainer", <<
          InDir(Intf("m1", "memif", <<<<2, 24>>>>, <<>>), "/d1"),
          InDir(Intf("m2", "memif", <<>>, <<>>), "/d2"),
          [Intf("v1", "veth", <<<<3, 24>>>>, <<>>) EXCEPT !.mac = <<6, 0, 0, 0, 0, 1>>],
          [Intf("v2", "veth", <<>>, <<>>) EXCEPT !.linuxNs = <<"named", "space">>],
          [Intf("t1", "tap", <<>>, <<>>) EXCEPT !.tapNs = "space"]>>)>>

Svc(c) == [pods |-> PodPair, conns |-> <<c>>]
M1 == <<<<"p1", "m1">>, <<"p2", "m1">>>>
M2 == <<<<"p1", "m2">>, <<"p2", "v1">>>>
P1M2 == <<<<"p1", "m2">>>>
TwoDirs == <<<<"p1", "m2">>, <<"p2", "m2">>>>
InP1 == <<<<"p1", "m1">>, <<"p1", "m2">>>>
Several == <<<<"p1", "m2">>, <<"p2", "t1">>, <<"p2", "v1">>, <<"p2", "v2">>>>

Over(c) == [c EXCEPT !.overlay = "o1"]
InNodeBd(c) == [c EXCEPT !.nodeBd = "bd1"]

FirstService ==
    {Svc(Over(Connection("l2pp", M1))), Svc(Over(Connection("l2mp", M1))),
     Svc(InNodeBd(Connection("l2mp", M1))),
     Svc(Over(Connection("l3mp", M1))), Svc(Over(Connection("l3pp", M1)))}
SecondService ==
    {Svc(Over(Connection("l2mp", M2))), Svc(InNodeBd(Connection("l2mp", M2))),
     Svc([Connection("l2pp", P1M2) EXCEPT !.labels = <<"uplink">>]),
     Svc([Connection("l2mp", Several) EXCEPT !.bd = Bd("", "t1", "")]),
     [Svc(Connection("l2pp", TwoDirs)) EXCEPT !.conns =
         @ \o <<Connection("l2pp", InP1), Connection("l2mp", InP1)>>]}
AllServices == ("s1" :> FirstService) @@ ("s2" :> SecondService)

NoYaml == [sys |-> <<>>, nodes |-> <<>>, svcs |-> <<>>, overlays |-> <<>>]
NodesYaml ==
    [sys |-> <<Templates>>, nodes |-> TwoNodes, svcs |-> <<>>,
     overlays |-> ("o1" :> Mesh("vxpool", 7))]
MeshYaml ==
    [NodesYaml EXCEPT !.svcs = ("s1" :> Svc(Over(Connection("l2mp", M1))))
                            @@ ("s2" :> Svc(Over(Connection("l2mp", M2))))]

AllNodes == ("n1" :> {NodeWith(11, ""), NodeTunnel(11)}) @@ ("n2" :> {NodeWith(12, "t1")})
AllOverlays == ("o1" :> {Mesh("vxpool", 7), Mesh("", 9), Hub("n2")})
AllPlaces == ("p1" :> {"n1"}) @@ ("p2" :> {"n1", "n2"})
AllSys == {Templates}
AllYamls == {NoYaml, NodesYaml, MeshYaml}

\* A service whose memifs can be joined directly or through a bridge.
DirectOrBridged ==
    "s1" :> {Svc(Connection("l2pp", M1)), Svc(Connection("l2mp", M1))}
NodesOnly == {NodesYaml}
NoneOrMesh == {NoYaml, MeshYaml}
=============================================================================

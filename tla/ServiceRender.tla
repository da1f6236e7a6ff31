--------------------------- MODULE ServiceRender ----------------------------
(***************************************************************************)
(* The four kinds of connection of a service: layer 2 and layer 3, point   *)
(* to point and multipoint, on one node or between nodes.                  *)
(***************************************************************************)
EXTENDS OverlayRender

findNetworkPodAndInterfaceInList(spec, pod, name) ==
    FlattenSeq([n \in DOMAIN spec.pods |->
        LET found == SelectSeq(spec.pods[n].ifs, LAMBDA i : spec.pods[n].name = pod /\ i.name = name)
        IN  [m \in DOMAIN found |-> [type |-> spec.pods[n].type, if |-> found[m]]]])

PodSide(w, ns, c) ==
    LET found == findNetworkPodAndInterfaceInList(w.svcs[ns].spec, c[1], c[2])[1]
    IN  [node |-> w.p2n[c[1]], ptype |-> found.type, if |-> [found.if EXCEPT !.parent = c[1]]]

NodeSide(node, i) == [node |-> node, ptype |-> i.type, if |-> [i EXCEPT !.parent = node]]

MappedToNode(w, c) == c[1] \in DOMAIN w.p2n /\ w.p2n[c[1]] \in DOMAIN w.nodes

\* Parent is set in the interface itself, which the specification holds.
SetParents(specPods, pods) ==
    [n \in DOMAIN specPods |-> [specPods[n] EXCEPT !.ifs =
        [m \in DOMAIN @ |-> IF Contains(pods, <<specPods[n].name, @[m].name>>)
                            THEN [@[m] EXCEPT !.parent = specPods[n].name] ELSE @[m]]]]

PodSides(w, ns, pods, all) ==
    [w EXCEPT !.sides = [n \in DOMAIN pods |-> PodSide(w, ns, pods[n])],
              !.svcs[ns].spec.pods = SetParents(@, pods),
              !.ends = <<>>, !.bdifs = <<>>, !.l3vrfs = <<>>, !.msg = @ \/ ~all]

AddNodeSide(w, c, found) ==
    IF found = <<>> THEN Panic(w) ELSE [w EXCEPT !.sides = Append(@, NodeSide(c[1], found[1]))]

\* The pods and node interfaces of a connection, in w.sides.  A node interface
\* that does not exist is dereferenced before a pod without a node is reported.
ConnSides(w, ns, ci) ==
    LET conn == Conn(w, ns, ci)
        pods == SelectSeq(conn.pods, LAMBDA c : MappedToNode(w, c))
        all  == Len(pods) = Len(conn.pods)
    IN  Then(Each(PodSides(w, ns, pods, all), conn.nodeIfs,
                  LAMBDA v, c : AddNodeSide(v, c, FindInterfaceInNode(v, c[1], c[2]))),
             LAMBDA v : IF all THEN v ELSE Error(v))

NodeSides(node, ifs) == [n \in DOMAIN ifs |-> NodeSide(node, ifs[n])]

\* Interfaces found by label are on the node of the first side.
Labelled(w, labels) ==
    NodeSides(w.sides[1].node, FindInterfacesForThisLabelInNode(w, w.sides[1].node, labels))

\* One interface of the connection, its name and status put in w.ends.
RenderSide(w, ns, ci, agent, side) ==
    Then(RenderConnInterfacePair(w, ns, agent, Conn(w, ns, ci), side),
         LAMBDA v : [v EXCEPT !.ends = Append(@, [name |-> v.name, st |-> v.st])])

RenderSides(w, ns, ci) ==
    Each(w, w.sides, LAMBDA v, side : RenderSide(v, ns, ci, side.node, side))

\* A VRF is allocated once for a connection and kept in its specification.
TakeVrf(w, ns, ci) ==
    IF Conn(w, ns, ci).vrf # 0 THEN w
    ELSE [w EXCEPT !.svcs[ns].spec.conns[ci].vrf = w.vrf, !.vrf = AllocateVrf(@)]

LabelPP(w, labels) ==
    IF labels = <<>> THEN w
    ELSE IF Len(w.sides) # 1 \/ Len(labels) # 1 THEN Error(w)
    ELSE IF Len(Labelled(w, labels)) # 1 THEN Error(w)
    ELSE [w EXCEPT !.sides = @ \o Labelled(w, labels)]

\* A point-to-point connection: on one node, or between two over an overlay.
RenderConnPP(w, ns, ci, SameNode(_), InterNode(_)) ==
    Then(Then(ConnSides(w, ns, ci), LAMBDA v : LabelPP(v, Conn(v, ns, ci).labels)), LAMBDA v :
        IF v.sides[1].node = v.sides[2].node THEN SameNode(v)
        ELSE IF Conn(v, ns, ci).nodeIfs # <<>> \/ Conn(v, ns, ci).overlay \notin DOMAIN v.overlays
        THEN Error(v)
        ELSE InterNode(v))

XConnectEnds(w, agent) ==
    RenderTxnAddVppEntries(w, ConstructXConnect(agent, w.ends[1].name, w.ends[2].name))

Direct(w, ns, ci) ==
    /\ w.sides[1].if.type = "memif" /\ w.sides[2].if.type = "memif"
    /\ Conn(w, ns, ci).method \in {"", "direct"}

RenderDirect(w, ns) == RenderConnDirectInterPodMemifPair(w, ns, w.sides[1].if, w.sides[2].if)

\* Interfaces that were joined directly before have the same identifier, and
\* must not through the vswitch.
ResetMemifIds(w) ==
    LET n0 == IfName(w.sides[1].if)
        n1 == IfName(w.sides[2].if)
    IN  IF {n0, n1} \subseteq DOMAIN w.ifs /\ w.sides[1].if.type = "memif"
           /\ w.sides[2].if.type = "memif" /\ w.ifs[n0].memif = w.ifs[n1].memif
        THEN [w EXCEPT !.ifs[n0].memif = 0, !.ifs[n1].memif = 0]
        ELSE w

\* Two interfaces of one pod are cross connected inside it.
renderConnL2PPSameVnf(w) ==
    RenderTxnAddVppEntries(w, ConstructXConnect(w.sides[1].if.parent,
        <<w.sides[1].if.name>>, <<w.sides[2].if.name>>))

renderConnL2PPSameNode(w, ns, ci) ==
    LET i0 == w.sides[1].if
        i1 == w.sides[2].if
    IN  IF i0.parent = i1.parent /\ i0.name # i1.name THEN renderConnL2PPSameVnf(w)
        ELSE IF Direct(w, ns, ci) THEN RenderDirect(w, ns)
        ELSE Then(RenderSides(ResetMemifIds(w), ns, ci), LAMBDA v : XConnectEnds(v, v.sides[1].node))

renderConnL2PPInterNode(w, ns, ci) ==
    Then(RenderSides(w, ns, ci), LAMBDA v :
        OverOverlay(v, ns, ci, LAMBDA u : renderConnL2PPVxlanMesh(u, ns, ci), Error))

RenderConnL2PP(w, ns, ci) ==
    RenderConnPP(w, ns, ci, LAMBDA v : renderConnL2PPSameNode(v, ns, ci),
                            LAMBDA v : renderConnL2PPInterNode(v, ns, ci))

\* No reset of identifiers here.
renderConnL3PPSameNode(w, ns, ci) ==
    IF Direct(w, ns, ci) THEN RenderDirect(w, ns)
    ELSE Then(RenderSides(w, ns, ci), LAMBDA v : XConnectEnds(v, v.sides[1].node))

RouteToSide(w, ns, ci, kind, side) ==
    RenderTxnAddVppEntry(w, ConstructStaticRoute(side.node, Conn(w, ns, ci).vrf,
        StripSlashAndSubnetIPAddress(w.st[1].ips[1]), NoAddr, w.name, L3Desc(w, kind, ns, ci)))

L3PPRoute(w, ns, ci, side) ==
    IF w.st = <<>> THEN Panic(w)
    ELSE IF w.st[1].ips = <<>> THEN w
    ELSE RouteToSide(w, ns, ci, "L3PP", side)

\* A route to the first address of each interface on its own node.  The status
\* of an ethernet interface is nil, and its addresses are asked for.
renderConnL3PPInterNode(w, ns, ci) ==
    Then(Each(TakeVrf(w, ns, ci), w.sides, LAMBDA v, side :
             Then(RenderSide(v, ns, ci, side.node, side), LAMBDA u : L3PPRoute(u, ns, ci, side))),
         LAMBDA v : OverOverlay(v, ns, ci, LAMBDA u : renderConnL3PPVxlanMesh(u, ns, ci), Error))

RenderConnL3PP(w, ns, ci) ==
    RenderConnPP(w, ns, ci, LAMBDA v : renderConnL3PPSameNode(v, ns, ci),
                            LAMBDA v : renderConnL3PPInterNode(v, ns, ci))

SideNodes(w) == {w.sides[n].node : n \in DOMAIN w.sides}

LabelMP(w, conn) ==
    IF conn.overlay # "" /\ conn.overlay \notin DOMAIN w.overlays THEN Error(w)
    ELSE IF conn.labels = <<>> THEN w
    ELSE IF Cardinality(SideNodes(w)) # 1 THEN Error(w)
    ELSE IF Labelled(w, conn.labels) = <<>> THEN Error(w)
    ELSE [w EXCEPT !.sides = @ \o Labelled(w, conn.labels)]

\* The sides of a multipoint connection.  A named overlay must exist, and
\* labels need all the other interfaces on one node.
MPSides(w, ns, ci) == Then(ConnSides(w, ns, ci), LAMBDA v : LabelMP(v, Conn(v, ns, ci)))

RenderConnMP(w, ns, ci, SameNode(_), InterNode(_)) ==
    IF Cardinality(SideNodes(w)) = 1 THEN SameNode(w)
    ELSE IF Conn(w, ns, ci).nodeIfs # <<>> THEN Error(w)
    ELSE InterNode(w)

\* An overlay that joins even a single node to its hub.
ToHub(w, ns, ci) ==
    /\ Conn(w, ns, ci).overlay # ""
    /\ Overlay(w, ns, ci).type = "hub_and_spoke" /\ Overlay(w, ns, ci).conn = "vxlan"

SideMember(w, ns, ci, side) ==
    Then(RenderSide(w, ns, ci, side.node, side), LAMBDA v : AddMember(v, side.node, v.name, 0))

renderConnL2MPSameVnf(w, ns, ci) ==
    RenderNetworkPodL2BD(w, ns, ci, Conn(w, ns, ci), w.sides[1].if.parent,
        [n \in DOMAIN w.sides |-> Member(<<w.sides[n].if.name>>, 0)])

renderConnL2MPSameNode(w, ns, ci) ==
    Then(Each(w, w.sides, LAMBDA v, side : SideMember(v, ns, ci, side)), LAMBDA v :
        IF ToHub(v, ns, ci) THEN renderConnL2MPVxlanHubAndSpoke(v, ns, ci, {v.sides[1].node})
        ELSE RenderL2BD(v, ns, ci, Conn(v, ns, ci), v.sides[1].node))

renderConnL2MPInterNode(w, ns, ci) ==
    Then(Each(w, w.sides, LAMBDA v, side : SideMember(v, ns, ci, side)), LAMBDA v :
        OverOverlay(v, ns, ci,
            LAMBDA u : renderConnL2MPVxlanMesh(u, ns, ci, SideNodes(u)),
            LAMBDA u : renderConnL2MPVxlanHubAndSpoke(u, ns, ci, SideNodes(u))))

\* Interfaces that all belong to one pod are bridged inside it.
OneVnf(w, conn) ==
    /\ conn.nodeIfs = <<>> /\ conn.labels = <<>>
    /\ Cardinality({w.sides[n].if.parent : n \in DOMAIN w.sides}) = 1

RenderConnL2MP(w, ns, ci) ==
    Then(MPSides(w, ns, ci), LAMBDA v :
        IF OneVnf(v, Conn(v, ns, ci)) THEN renderConnL2MPSameVnf(v, ns, ci)
        ELSE RenderConnMP(v, ns, ci, LAMBDA u : renderConnL2MPSameNode(u, ns, ci),
                                     LAMBDA u : renderConnL2MPInterNode(u, ns, ci)))

\* The ARP entry of an interface asks for its first address in any case.
L3Arp(w, side) ==
    IF w.st = <<>> THEN Panic(w)
    ELSE IF w.st[1].ips = <<>> THEN Panic(w)
    ELSE RenderTxnAddVppEntry(w, ConstructStaticArpEntry(side.node,
             StripSlashAndSubnetIPAddress(w.st[1].ips[1]), w.st[1].mac, w.name))

L3Member(w, ns, ci, side) ==
    Then(SideMember(w, ns, ci, side), LAMBDA v : L3Arp(v, side))

\* A route and an ARP entry per interface; nothing joins them but the VRF,
\* unless the overlay has a hub.
renderConnL3MPSameNode(w, ns, ci) ==
    Then(Each(TakeVrf(w, ns, ci), w.sides, LAMBDA v, side :
             Then(L3Member(v, ns, ci, side), LAMBDA u : RouteToSide(u, ns, ci, "L3MP", side))),
         LAMBDA v : IF ToHub(v, ns, ci)
                    THEN renderConnL2MPVxlanHubAndSpoke(v, ns, ci, {v.sides[1].node}) ELSE v)

\* The routes are collected for the nodes at the other ends.
L3Address(w, node) ==
    [w EXCEPT !.l3vrfs = node :>
        Append(Get(@, node, <<>>), StripSlashAndSubnetIPAddress(w.st[1].ips[1])) @@ @]

renderConnL3MPInterNode(w, ns, ci) ==
    Then(Each(TakeVrf(w, ns, ci), w.sides, LAMBDA v, side :
             Then(L3Member(v, ns, ci, side), LAMBDA u : L3Address(u, side.node))),
         LAMBDA v : OverOverlay(v, ns, ci,
             LAMBDA u : renderConnL3MPVxlanMesh(u, ns, ci, SideNodes(u)),
             LAMBDA u : renderConnL2MPVxlanHubAndSpoke(u, ns, ci, SideNodes(u))))

RenderConnL3MP(w, ns, ci) ==
    Then(MPSides(w, ns, ci), LAMBDA v :
        RenderConnMP(v, ns, ci, LAMBDA u : renderConnL3MPSameNode(u, ns, ci),
                                LAMBDA u : renderConnL3MPInterNode(u, ns, ci)))

renderConnectionSegments(w, ns, ci) ==
    CASE Conn(w, ns, ci).type = "l2pp" -> RenderConnL2PP(w, ns, ci)
      [] Conn(w, ns, ci).type = "l2mp" -> RenderConnL2MP(w, ns, ci)
      [] Conn(w, ns, ci).type = "l3pp" -> RenderConnL3PP(w, ns, ci)
      [] Conn(w, ns, ci).type = "l3mp" -> RenderConnL3MP(w, ns, ci)
=============================================================================

--------------------------- MODULE OverlayRender ----------------------------
(***************************************************************************)
(* Bridges, and the tunnels of an overlay between nodes: a VXLAN mesh, or  *)
(* a hub with its spokes.  ns is the name of a service and ci the number   *)
(* of one of its connections.                                              *)
(***************************************************************************)
EXTENDS InterfaceRender

-----------------------------------------------------------------------------
(* Bridges and node look-ups (networkservice.go, networknode.go).          *)

vppKeyL2BDName(node, bd) == <<"L2BD", node, bd>>

FindL2BDForNode(w, node, bd) ==
    node \in DOMAIN w.nodes
    /\ \E n \in DOMAIN w.nodes[node].spec.bds : w.nodes[node].spec.bds[n].name = bd

\* Mutant: only the last interface of a node is kept.
LastMemberOnly(w, node, name, shg) ==
    [w EXCEPT !.bdifs = node :> <<Member(name, shg)>> @@ @]

AddMember(w, node, name, shg) ==
    [w EXCEPT !.bdifs = node :> Append(Get(@, node, <<>>), Member(name, shg)) @@ @]

PutNodeBridge(w, key, bd, inVpp) ==
    [RenderTxnAddVppEntry(w, KV(key, bd)) EXCEPT
        !.after0 = IF key \in DOMAIN @ THEN [@ EXCEPT ![key] = bd] ELSE @,
        !.vpp    = IF inVpp THEN [@ EXCEPT ![key] = bd] ELSE @]

\* The bridge of a node is appended to in place, in the transaction where the
\* node has just been rendered, or else in VppEntries.
AppendToNodeBridge(w, key, members) ==
    IF key \in DOMAIN w.after0
    THEN PutNodeBridge(w, key, AppendInterfacesToL2BD(w.after0[key], members), key \in w.alias)
    ELSE [PutNodeBridge(w, key, AppendInterfacesToL2BD(w.vpp[key], members), TRUE) EXCEPT
             !.alias = @ \cup {key}]

\* A bridge that the node does not have, or that was never rendered, makes the
\* error message itself fail.
RenderL2BD(w, ns, ci, conn, node) ==
    LET members == Get(w.bdifs, node, <<>>)
        key     == L2BridgeDomainKey(node, vppKeyL2BDName(node, conn.nodeBd))
    IN  IF conn.nodeBd = ""
        THEN RenderTxnAddVppEntry(w, ConstructL2BD(node, <<"BD", ns, ci>>, members, BDParms(w, conn.bd)))
        ELSE IF FindL2BDForNode(w, node, conn.nodeBd) /\ key \in DOMAIN w.after0 \cup DOMAIN w.vpp
        THEN AppendToNodeBridge(w, key, members)
        ELSE Panic(w)

RenderNetworkPodL2BD(w, ns, ci, conn, pod, members) ==
    IF conn.nodeBd # "" THEN Error(w)
    ELSE RenderTxnAddVppEntry(w, ConstructL2BD(pod, <<"BD", ns, ci>>, members, BDParms(w, conn.bd)))

Ifaces(w, node) == w.nodes[node].spec.ifs

FindInterfaceInNode(w, node, name) ==
    IF node \notin DOMAIN w.nodes THEN <<>>
    ELSE LET found == SelectSeq(Ifaces(w, node), LAMBDA i : i.name = name)
         IN  IF found = <<>> THEN <<>> ELSE <<Head(found)>>

\* An interface is listed once for each of its labels that matches.
FindInterfacesForThisLabelInNode(w, node, labels) ==
    LET hits(i) == SelectSeq(i.labels, LAMBDA l : Contains(labels, l))
    IN  IF node \notin DOMAIN w.nodes THEN <<>>
        ELSE FlattenSeq([n \in DOMAIN Ifaces(w, node) |->
                 [m \in DOMAIN hits(Ifaces(w, node)[n]) |-> Ifaces(w, node)[n]]])

\* The first address of a vxlan tunnel interface.
FindVxlanIPaddress(w, node) ==
    IF node \notin DOMAIN w.nodes THEN <<>>
    ELSE LET addrs == FlattenSeq([n \in DOMAIN Ifaces(w, node) |->
                 IF Ifaces(w, node)[n].type = "vxlan_tunnel" THEN Ifaces(w, node)[n].ips ELSE <<>>])
         IN  IF addrs = <<>> THEN <<>> ELSE <<StripSlashAndSubnetIPAddress(addrs[1])>>

-----------------------------------------------------------------------------
(* Overlays (networknodeoverlay*.go).                                      *)

NodeVxlanAddress(w, parms, static, found) ==
    CASE static # <<>> -> [w EXCEPT !.addr = static[1]]
      [] static = <<>> /\ parms.label # "" /\ Len(found) = 1 ->
             IF found[1].type = "ethernet" /\ Len(found[1].ips) = 1
             THEN [w EXCEPT !.addr = found[1].ips[1]] ELSE Error(w)
      [] OTHER -> Error(w)

PoolVxlanAddress(w, p, node, address) ==
    [w EXCEPT !.pools[p].a = AllocateIPAddress(@), !.vxaddr = node :> address @@ @, !.addr = address]

\* The address of a node as a tunnel's end, returned in w.addr.  One that came
\* from a pool is remembered for the node, whatever the pool.
AllocateVxlanAddress(w, parms, node) ==
    LET p == parms.pool IN
    IF p = "" THEN NodeVxlanAddress(w, parms, FindVxlanIPaddress(w, node),
                       FindInterfacesForThisLabelInNode(w, node, <<parms.label>>))
    ELSE IF node \in DOMAIN w.vxaddr THEN [w EXCEPT !.addr = w.vxaddr[node]]
    ELSE IF p \notin DOMAIN w.pools THEN Error(w)
    ELSE IF Exhausted(w.pools[p].a) THEN Error(w)
    ELSE PoolVxlanAddress(w, p, node, PoolAddress(w, p, Allocatable(w.pools[p].a)))

\* Ethernet interfaces that carry the overlay: those with the label, or the
\* only interface of the node.
Carriers(w, node, label) ==
    SelectSeq(Ifaces(w, node), LAMBDA i :
        i.type = "ethernet" /\ (Contains(i.labels, label) \/ Len(Ifaces(w, node)) = 1))

CarrierPairs(ours, theirs) ==
    FlattenSeq([n \in DOMAIN ours |-> [m \in DOMAIN theirs |-> <<ours[n], theirs[m]>>]])

RenderVxlanLoopback(w, from, src) ==
    RenderTxnAddVppEntry(w, ConstructLoopbackInterface(from, <<"IF_VXLAN_LOOPBACK", from>>,
        <<StripSlashAndSubnetIPAddress(src)>>, NoMac, w.sys.mtu))

\* A carrier without an address cannot be a next hop.
RenderStaticRoute(w, from, to, vrf, dst, pair) ==
    IF pair[2].ips = <<>> THEN Panic(w)
    ELSE RenderTxnAddVppEntry(w, ConstructStaticRoute(from, vrf, StripSlashAndSubnetIPAddress(dst),
             pair[2].ips[1], <<pair[1].name>>, <<"L3VRF_VXLAN", from, to>>))

\* Entries that are collected in a map of their own are lost in a panic.
PanicLoses(w, v) == IF v.res = "panic" THEN Panic(w) ELSE v

\* The loopback with the tunnel's address, and routes to the other end over
\* every pair of carriers.
RenderVxlanLoopbackInterfaceAndStaticRoutes(w, from, to, vrf, src, dst, parms) ==
    PanicLoses(w,
        Each(IF parms.loopback THEN RenderVxlanLoopback(w, from, src) ELSE w,
             IF parms.routes
             THEN CarrierPairs(Carriers(w, from, parms.label), Carriers(w, to, parms.label)) ELSE <<>>,
             LAMBDA v, pair : RenderStaticRoute(v, from, to, vrf, dst, pair)))

\* One end of a tunnel, with its loopback and routes.
Tunnel(w, name, vni, from, to, tunnelVrf, vrf, parms) ==
    Then(AllocateVxlanAddress(w, parms, from), LAMBDA v :
        Then(AllocateVxlanAddress(v, parms, to), LAMBDA u :
            RenderVxlanLoopbackInterfaceAndStaticRoutes(
                RenderTxnAddVppEntry(u, InVrf(ConstructVxlanInterface(from, name, vni, v.addr, u.addr),
                                              tunnelVrf)),
                from, to, vrf, v.addr, u.addr, parms)))

\* Mutant: the VNI is not marked as taken.
PeekVni(w, overlay) ==
    IF overlay \notin DOMAIN w.vni THEN Error(w)
    ELSE IF ~VniFree(w.vni[overlay]) THEN Error(w)
    ELSE [w EXCEPT !.tag = AllocatedVni(w.vni[overlay])]

\* A mesh takes a new VNI each time a connection is rendered; it is returned
\* in w.tag.
TakeVni(w, overlay) ==
    IF overlay \notin DOMAIN w.vni THEN Error(w)
    ELSE IF ~VniFree(w.vni[overlay]) THEN Error(w)
    ELSE [w EXCEPT !.vni[overlay] = AllocateVni(@), !.tag = AllocatedVni(w.vni[overlay])]

Pairs(w, nodes) ==
    LET seq == In(w, nodes)
    IN  SelectSeq(FlattenSeq([m \in DOMAIN seq |-> [n \in DOMAIN seq |-> <<seq[m], seq[n]>>]]),
                  LAMBDA p : p[1] # p[2])

Conn(w, ns, ci) == w.svcs[ns].spec.conns[ci]
Overlay(w, ns, ci) == w.overlays[Conn(w, ns, ci).overlay]

RenderBridges(w, ns, ci, nodes) ==
    Each(w, In(w, nodes), LAMBDA v, n : RenderL2BD(v, ns, ci, Conn(v, ns, ci), n))

\* Mesh parameters that were taken out after the allocator was made are
\* dereferenced all the same.
L2MPMeshTunnel(w, ns, ci, p, parms) ==
    LET name == <<"IF_VXLAN_MESH", ns, ci, p[1], p[2], w.tag>>
    IN  IF parms = <<>> THEN Panic(w)
        ELSE Tunnel(AddMember(w, p[1], name, 1), name, w.tag, p[1], p[2], 0, 0, parms[1])

\* A tunnel from every node of the connection to every other, and a bridge on
\* each.
renderConnL2MPVxlanMesh(w, ns, ci, nodes) ==
    RenderBridges(
        Each(TakeVni(w, Conn(w, ns, ci).overlay), Pairs(w, nodes),
             LAMBDA v, p : L2MPMeshTunnel(v, ns, ci, p, Overlay(w, ns, ci).mesh)),
        ns, ci, nodes)

L3Desc(w, kind, ns, ci) == <<kind, ns, Conn(w, ns, ci).vrf, ci>>

L3MPMeshRoutes(w, ns, ci, node, vrf, name, there) ==
    Each(w, there, LAMBDA v, dst :
        RenderTxnAddVppEntry(v, ConstructStaticRoute(node, vrf, dst, NoAddr, name,
            L3Desc(v, "L3MP", ns, ci))))

L3MPMeshTunnel(w, ns, ci, p, vrf, parms) ==
    LET name == <<"IF_VXLAN_MESH", ns, ci, p[1], p[2], w.tag>>
    IN  IF parms = <<>> THEN Panic(w)
        ELSE Then(Tunnel(w, name, w.tag, p[1], p[2], vrf, vrf, parms[1]), LAMBDA v :
                 AddMember(L3MPMeshRoutes(v, ns, ci, p[1], vrf, name, Get(v.l3vrfs, p[2], <<>>)),
                           p[1], name, 1))

\* The same in the connection's VRF, with a route on each node for every
\* address behind the other.
renderConnL3MPVxlanMesh(w, ns, ci, nodes) ==
    RenderBridges(
        Each(TakeVni(w, Conn(w, ns, ci).overlay), Pairs(w, nodes), LAMBDA v, p :
             L3MPMeshTunnel(v, ns, ci, p, Conn(w, ns, ci).vrf, Overlay(w, ns, ci).mesh)),
        ns, ci, nodes)

PPTunnelName(w, ns, ci, n) ==
    LET end(m) == <<w.sides[m].node, w.sides[m].if.parent, w.sides[m].if.name>>
    IN  <<"IF_VXLAN_L2PP", ns, ci, end(n), end(3 - n), w.tag>>

PPMeshTunnel(w, ns, ci, n, vrf, parms) ==
    IF parms = <<>> THEN Panic(w)
    ELSE Tunnel(w, PPTunnelName(w, ns, ci, n), w.tag, w.sides[n].node, w.sides[3 - n].node,
                vrf, vrf, parms[1])

\* A tunnel each way between the two nodes, cross connected to the interfaces.
renderConnL2PPVxlanMesh(w, ns, ci) ==
    Each(Each(TakeVni(w, Conn(w, ns, ci).overlay), <<1, 2>>,
              LAMBDA v, n : PPMeshTunnel(v, ns, ci, n, 0, Overlay(w, ns, ci).mesh)),
         <<1, 2>>, LAMBDA v, n :
              RenderTxnAddVppEntries(v, ConstructXConnect(v.sides[n].node, v.ends[n].name,
                  PPTunnelName(v, ns, ci, n))))

L3PPMeshRoute(w, ns, ci, n, vrf, there) ==
    IF there = <<>> THEN w
    ELSE RenderTxnAddVppEntry(w, ConstructStaticRoute(w.sides[n].node, vrf,
             StripSlashAndSubnetIPAddress(there[1]), NoAddr, PPTunnelName(w, ns, ci, n),
             L3Desc(w, "L3PP", ns, ci)))

\* Routed instead: each node has a route over its tunnel to the first address
\* of the interface at the other end, if that has one.
renderConnL3PPVxlanMesh(w, ns, ci) ==
    LET vrf == Conn(w, ns, ci).vrf IN
    Each(TakeVni(w, Conn(w, ns, ci).overlay), <<1, 2>>, LAMBDA v, n :
        Then(PPMeshTunnel(v, ns, ci, n, vrf, Overlay(w, ns, ci).mesh),
             LAMBDA u : L3PPMeshRoute(u, ns, ci, n, vrf, u.ends[3 - n].st[1].ips)))

HubTunnel(w, ns, ci, p, parms) ==
    LET dir  == IF p[1] = parms.node THEN "FROM_HUB" ELSE "FROM_SPOKE"
        name == <<"IF_VXLAN", ns, ci, dir, p[1], p[2], parms.vni>>
    IN  Tunnel(AddMember(w, p[1], name, 0), name, parms.vni, p[1], p[2], 0, 0, parms)

Spoke(w, ns, ci, n, parms) ==
    IF n = parms.node THEN Error(w)
    ELSE Each(w, <<<<parms.node, n>>, <<n, parms.node>>>>, LAMBDA v, p : HubTunnel(v, ns, ci, p, parms))

\* A tunnel from the hub to each spoke and back, all with the VNI of the
\* overlay, and a bridge on every spoke and on the hub.
renderConnL2MPVxlanHubAndSpoke(w, ns, ci, spokes) ==
    LET parms == Overlay(w, ns, ci).hub[1] IN
    IF Overlay(w, ns, ci).hub = <<>> THEN Panic(w)
    ELSE IF parms.node \notin DOMAIN w.nodes THEN Error(w)
    ELSE Then(Then(Each(w, In(w, spokes), LAMBDA v, n : Spoke(v, ns, ci, n, parms)),
                   LAMBDA v : RenderBridges(v, ns, ci, spokes)),
              LAMBDA v : RenderL2BD(v, ns, ci, Conn(v, ns, ci), parms.node))

\* The overlay a connection between nodes uses; one of a kind that was never
\* valid adds nothing, and a connection without one dereferences nil.
OverOverlay(w, ns, ci, Mesh(_), Hub(_)) ==
    IF Conn(w, ns, ci).overlay = "" THEN Panic(w)
    ELSE LET o == Overlay(w, ns, ci) IN
         CASE o.conn # "vxlan" -> Error(w)
           [] o.conn = "vxlan" /\ o.type = "mesh" -> Mesh(w)
           [] o.conn = "vxlan" /\ o.type = "hub_and_spoke" -> Hub(w)
           [] OTHER -> w
=============================================================================

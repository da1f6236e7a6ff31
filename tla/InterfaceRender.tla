-------------------------- MODULE InterfaceRender ---------------------------
(***************************************************************************)
(* Rendering turns the cached configuration into VPP-agent entries.  Here: *)
(* the rendering record, interface statuses and the interfaces of a pod.   *)
(* The code's functions are operators on a record w that holds what they   *)
(* read and change:                                                        *)
(*                                                                         *)
(*   nodes, svcs, overlays, p2n, sys   the caches; a node or a service has *)
(*                                     its status with it, and each change *)
(*                                     of it is written to etcd as well    *)
(*   pools, mac, memif, vrf, vni       the allocators                      *)
(*   vxaddr, ifs                       vxLanAddresses, InterfaceStates     *)
(*   vpp, etcd                         VppEntries, the entries in etcd     *)
(*   after0, after                     levels 0 and 1 of the transaction   *)
(*   alias                             bridges that after0 shares with vpp *)
(*   listed, msg, res                  the entity being rendered: its      *)
(*                                     Status.Interfaces, whether it has a *)
(*                                     message, how the call ended         *)
(*   name, st, addr, tag               what the last call returned         *)
(*   sides, ends, bdifs, l3vrfs        a connection's interfaces, what was *)
(*                                     rendered for them, its l2bdIFs and  *)
(*                                     l3vrfs                              *)
(*   order                             an order in which maps are iterated *)
(*                                                                         *)
(* A pointer that may be nil is a sequence of at most one element.  Pools  *)
(* have system scope and are IPv4 (IpamPools has the others), for which    *)
(* SetAddressIfInPool does nothing: it parses addresses that have no       *)
(* prefix length, and all have one.                                        *)
(***************************************************************************)
EXTENDS VppEntries, IdAllocators, IpamAllocator, HostNames, TLC

\* Calls F on the elements of seq in turn until one of them fails.
Each(w, seq, F(_, _)) ==
    FoldLeft(LAMBDA v, x : IF v.res = "ok" THEN F(v, x) ELSE v, w, seq)

Then(w, F(_)) == IF w.res = "ok" THEN F(w) ELSE w

Get(f, k, default) == IF k \in DOMAIN f THEN f[k] ELSE default

\* AppendStatusMsg and the return of an error.
Error(w) == [w EXCEPT !.msg = TRUE, !.res = "error"]
Panic(w) == [w EXCEPT !.res = "panic"]

In(w, S) == SelectSeq(w.order, LAMBDA x : x \in S)

-----------------------------------------------------------------------------
(* The transaction and the system parameters.                              *)

RenderTxnAddVppEntry(w, kv) == [w EXCEPT !.after = kv.key :> kv.val @@ @]

RenderTxnAddVppEntries(w, kvs) == Each(w, kvs, RenderTxnAddVppEntry)

ResolveMtu(w, mtu) == IF mtu = 0 THEN w.sys.mtu ELSE mtu

FindL2BDTemplate(w, name) == w.sys.templates[name]

GetDefaultSystemBDParms == "default"

\* The parameters of a bridge: of its template, its own, or the default ones.
BDParms(w, bd) ==
    IF bd.template # "" THEN FindL2BDTemplate(w, bd.template)
    ELSE IF bd.parms # "" THEN bd.parms ELSE GetDefaultSystemBDParms

-----------------------------------------------------------------------------
(* Interface statuses (interfaces.go).                                     *)

IfName(i) == <<i.parent, i.name>>

NewInterfaceStatus(node) ==
    [node |-> node, mac |-> NoMac, macId |-> 0, memif |-> 0, ips |-> <<>>,
     nums |-> <<>>, made |-> TRUE, host |-> ""]

PoolAddress(w, p, id) == <<FormatIPAddress(w.pools[p].a, id), w.pools[p].len>>

\* SetAddress for a number that the status already has from a pool.
HoldAddress(w, p) ==
    IF p \notin DOMAIN w.pools THEN Error(w)
    ELSE IF ~InRange(w.pools[p].a, w.st[1].nums[p]) THEN Error(w)
    ELSE [w EXCEPT !.pools[p].a = SetAddress(@, w.st[1].nums[p]),
                   !.st[1].ips = Append(@, PoolAddress(w, p, w.st[1].nums[p]))]

TakeNumber(w, p, id) ==
    [w EXCEPT !.pools[p].a = AllocateIPAddress(@),
              !.st[1].ips  = Append(@, PoolAddress(w, p, id)),
              !.st[1].nums = p :> id @@ @]

\* AllocateAddress for a pool that the status has no number from.
TakeAddress(w, p) ==
    IF p \in DOMAIN w.st[1].nums THEN w
    ELSE IF p \notin DOMAIN w.pools THEN Error(w)
    ELSE IF Exhausted(w.pools[p].a) THEN Error(w)
    ELSE IF ~w.st[1].made THEN Panic(w)
    ELSE TakeNumber(w, p, Allocatable(w.pools[p].a))

\* A MAC address is allocated once; one in the specification takes its place.
SetMac(w, i, st) ==
    IF i.mac = NoMac /\ st.mac = NoMac
    THEN [w EXCEPT !.mac = AllocateMacAddr(@),
                   !.st = <<[st EXCEPT !.mac = formatMacAddress(AllocateMacAddr(w.mac)),
                                       !.macId = AllocateMacAddr(w.mac), !.ips = i.ips]>>]
    ELSE [w EXCEPT !.st = <<[st EXCEPT !.mac = IF i.mac # NoMac THEN i.mac ELSE @, !.ips = i.ips]>>]

HoldAddresses(w) == Each(w, SetToSeq(DOMAIN w.st[1].nums), HoldAddress)

InitInterfaceStatus(w, agent, i) ==
    Each(HoldAddresses(SetMac(w, i, Get(w.ifs, IfName(i), NewInterfaceStatus(agent)))),
         i.pools, TakeAddress)

PersistInterfaceStatus(w, i) ==
    [w EXCEPT !.listed = @ \cup {IfName(i)}, !.ifs = IfName(i) :> w.st[1] @@ @]

RemoveInterfaceStatus(w, i) ==
    [w EXCEPT !.listed = @ \ {IfName(i)},
              !.ifs = Restrict(@, DOMAIN @ \ {IfName(i)})]

\* InitInterfaceStatus as every renderer calls it: a failure removes the
\* status, otherwise Set changes it and it is persisted.
PersistOrRemove(w, i, Set1(_)) ==
    CASE w.res = "ok"    -> PersistInterfaceStatus(Set1(w), i)
      [] w.res = "error" -> [RemoveInterfaceStatus(w, i) EXCEPT !.name = NoName, !.st = <<>>]
      [] OTHER           -> w

InitAndPersist(w, agent, i, Set1(_)) ==
    PersistOrRemove(InitInterfaceStatus(w, agent, i), i, Set1)

-----------------------------------------------------------------------------
(* Interfaces of a connection (networkservice_if.go).  A side is an        *)
(* interface with its node and the type of its pod; conn is the connection *)
(* and ns the name of its service.                                         *)

\* Routes and ARP entries that the interface's specification asks for.
RenderInterfaceForwarding(w, ns, i) ==
    Each(Each(w, i.routes, LAMBDA v, r :
             RenderTxnAddVppEntry(v, ConstructStaticRoute(i.parent, r.vrf, r.dst, r.hop, <<i.name>>,
                 <<"FWD", ns, i.name, r.vrf, r.dst>>))),
         i.arps, LAMBDA v, a :
             RenderTxnAddVppEntry(v, ConstructStaticArpEntry(i.parent, a.ip, a.mac, <<i.name>>)))

NewMemifID(w) ==
    IF w.st[1].memif # 0 THEN w
    ELSE [w EXCEPT !.memif = AllocateMemif(@), !.st[1].memif = AllocateMemif(w.memif)]

\* The pod's end is the slave and has the addresses, the vswitch's end is the
\* master; both use the socket of the node, and the parameters of the pod's.
RenderConnMemifPair(w, agent, conn, i) ==
    Then(InitAndPersist(w, agent, i, NewMemifID), LAMBDA v :
        LET st   == v.st[1]
            name == <<"IF_MEMIF_VSWITCH", i.parent, i.name>>
        IN  [RenderTxnAddVppEntries(v, <<
                ConstructMemInterface(i.parent, <<i.name>>, st.ips, st.mac, ResolveMtu(v, i.mtu),
                    st.memif, FALSE, i.memifDir, v.sys.memifDir, agent),
                InVrf(ConstructMemInterface(agent, name, <<>>, NoMac, ResolveMtu(v, i.mtu),
                    st.memif, TRUE, i.memifDir, v.sys.memifDir, agent), conn.vrf)>>)
             EXCEPT !.name = name])

\* Mutant: the second end takes an identifier of its own.
SeparateDirectIds(w, id) == NewMemifID(w)

\* The second end of a direct memif takes the identifier of the first.
SameDirectId(w, id) == [w EXCEPT !.st[1].memif = id]

\* One end of a direct memif, with its routes and its own parameters.
DirectMemif(w, ns, i, isMaster, masterPod) ==
    RenderInterfaceForwarding(
        RenderTxnAddVppEntry(w, ConstructMemInterface(i.parent, <<i.name>>, w.st[1].ips, w.st[1].mac,
            ResolveMtu(w, i.mtu), w.st[1].memif, isMaster, i.memifDir, w.sys.memifDir, masterPod)),
        ns, i)

\* Two pods joined without the vswitch: the second is the master, and each has
\* its pod in the place of the node.
RenderConnDirectInterPodMemifPair(w, ns, i0, i1) ==
    Then(Then(InitAndPersist(w, i0.parent, i0, NewMemifID),
              LAMBDA v : DirectMemif(v, ns, i0, FALSE, i1.parent)),
         LAMBDA v : Then(InitAndPersist(v, i1.parent, i1, LAMBDA u : SameDirectId(u, v.st[1].memif)),
                         LAMBDA u : DirectMemif(u, ns, i1, TRUE, i1.parent)))

HostPortLabel(i) == IF i.host # "" THEN i.host ELSE constructBaseHostName(i.parent, i.name)

SetHostPortLabel(w, i) == [w EXCEPT !.st[1].host = HostPortLabel(i)]

\* The name of the tap at the vswitch is not returned.
RenderConnTapPair(w, agent, conn, i) ==
    Then(InitAndPersist(w, agent, i, LAMBDA v : SetHostPortLabel(v, i)), LAMBDA v :
        LET st == v.st[1]
        IN  [RenderTxnAddVppEntries(v, <<
                ConstructLinuxTapInterface(agent, <<"IF_TAP_VNF", i.parent, i.name>>, st.ips,
                    st.mac, ResolveMtu(v, i.mtu), st.host, i.tapNs, i.parent),
                InVrf(ConstructTapInterface(agent, <<"IF_TAP_VSWITCH", i.parent, i.name>>, <<>>,
                    NoMac, ResolveMtu(v, i.mtu), st.host), conn.vrf)>>)
             EXCEPT !.name = NoName])

\* A veth pair on the node, an AF_PACKET interface on its vswitch and, when the
\* pod runs VPP, one in the pod, which then has the addresses.  A namespace in
\* the specification is that of both ends of the pair.
RenderConnVethAfpPair(w, agent, conn, i, ptype) ==
    Then(InitAndPersist(w, agent, i, LAMBDA v : SetHostPortLabel(v, i)), LAMBDA v :
        LET st    == v.st[1]
            mtu   == ResolveMtu(v, i.mtu)
            inPod == ptype = "vppcontainer"
            veth1 == <<"IF_VETH_VNF", i.parent, i.name>>
            veth2 == <<"IF_VETH_VSWITCH", i.parent, i.name>>
            name  == <<"IF_AFPIF_VSWITCH", i.parent, i.name>>
        IN  [RenderTxnAddVppEntries(v, <<
                ConstructVEthInterface(agent, veth1, IF inPod THEN <<>> ELSE st.ips, st.mac, mtu,
                    i.name, veth2, i.linuxNs, i.parent),
                ConstructVEthInterface(agent, veth2, <<>>, NoMac, mtu, st.host, veth1, i.linuxNs, agent)>>
                \o (IF inPod THEN <<InVrf(ConstructAFPacketInterface(i.parent, <<i.name>>, st.ips,
                                        st.mac, mtu, i.name), conn.vrf)>> ELSE <<>>)
                \o <<InVrf(ConstructAFPacketInterface(agent, name, <<>>, NoMac, mtu, st.host),
                           conn.vrf)>>)
             EXCEPT !.name = name])

\* The name at the vswitch, and the status if there is one: the node has made
\* its ethernet interface itself, and a type without a case renders nothing.
RenderConnInterfacePair(w, ns, agent, conn, side) ==
    LET i == side.if IN
    IF i.type = "ethernet" THEN [w EXCEPT !.st = <<>>, !.name = <<i.name>>]
    ELSE Then(CASE i.type = "memif" -> RenderConnMemifPair(w, agent, conn, i)
                [] i.type = "veth"  -> RenderConnVethAfpPair(w, agent, conn, i, side.ptype)
                [] i.type = "tap"   -> RenderConnTapPair(w, agent, conn, i)
                [] OTHER            -> [w EXCEPT !.st = <<>>, !.name = NoName],
              LAMBDA v : RenderInterfaceForwarding(v, ns, i))
=============================================================================

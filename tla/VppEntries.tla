----------------------------- MODULE VppEntries -----------------------------
(***************************************************************************)
(* The VPP-agent objects the controller writes, as a key and a value, and  *)
(* the functions of vppagent/ that construct them.  A name is a tuple of   *)
(* the parts that the code concatenates, so that two names are equal       *)
(* exactly when all their parts are.  An address list is the set of its    *)
(* members and a list of bridged interfaces is a bag, because the code     *)
(* sorts both before it compares them.  Rx mode, admin status and the      *)
(* tuning parameters of memif and tap are left out: they are copied from   *)
(* the interface's specification and nothing reads them.  A socket is its  *)
(* directory and the agent in its file name.  An IP address in CIDR form   *)
(* is the pair of the address and its prefix length, a bare one is the     *)
(* address alone.                                                          *)
(***************************************************************************)
EXTENDS Naturals, Sequences, FiniteSets, Bags, SequencesExt

NoName == <<"">>       \* the empty interface name
NoMac  == <<>>
NoAddr == <<>>

StripSlashAndSubnetIPAddress(addr) == IF addr = NoAddr THEN NoAddr ELSE <<addr[1]>>

InterfaceKey(agent, name)          == <<"interface", agent, name>>
LinuxInterfaceKey(agent, name)     == <<"linuxif", agent, name>>
L2BridgeDomainKey(agent, name)     == <<"l2bd", agent, name>>
L2XConnectKey(agent, rxIf)         == <<"l2xc", agent, rxIf>>
ArpEntryKey(agent, iface, mac)     == <<"arp", agent, <<iface, mac>>>>

KV(k, v) == [key |-> k, val |-> v]

Iface(type, ips, mac, mtu) ==
    [type |-> type, ips |-> {ips[i] : i \in DOMAIN ips}, mac |-> mac,
     mtu |-> mtu, vrf |-> 0, memif |-> 0, master |-> FALSE, socket |-> <<>>,
     src |-> NoAddr, dst |-> NoAddr, vni |-> 0, host |-> "", peer |-> NoName,
     space |-> <<>>]

ConstructEthernetInterface(agent, name, ips, mac, mtu) ==
    KV(InterfaceKey(agent, name), Iface("ethernet", ips, mac, mtu))

ConstructLoopbackInterface(agent, name, ips, mac, mtu) ==
    KV(InterfaceKey(agent, name), Iface("loopback", ips, mac, mtu))

(***************************************************************************)
(* The socket of a memif is named after the agent of the master, in the    *)
(* directory of the interface's own parameters, of the system parameters,  *)
(* or the default one.                                                     *)
(***************************************************************************)
MemifDirectoryName == "/tmp"

MemifDirectory(own, system) ==
    IF own # "" THEN own ELSE IF system # "" THEN system ELSE MemifDirectoryName

ConstructMemInterface(agent, name, ips, mac, mtu, id, isMaster, own, system, masterAgent) ==
    KV(InterfaceKey(agent, name),
       [Iface("memif", ips, mac, mtu) EXCEPT !.memif = id, !.master = isMaster,
            !.socket = <<MemifDirectory(own, system), masterAgent>>])

\* Mutant: the far end's address is forgotten.
OneEndedVxlan(agent, name, vni, src, dst) ==
    KV(InterfaceKey(agent, name),
       [Iface("vxlan", <<>>, NoMac, 0) EXCEPT
            !.vni = vni, !.src = StripSlashAndSubnetIPAddress(src),
            !.dst = StripSlashAndSubnetIPAddress(src)])

ConstructVxlanInterface(agent, name, vni, src, dst) ==
    KV(InterfaceKey(agent, name),
       [Iface("vxlan", <<>>, NoMac, 0) EXCEPT
            !.vni = vni, !.src = StripSlashAndSubnetIPAddress(src),
            !.dst = StripSlashAndSubnetIPAddress(dst)])

ConstructTapInterface(agent, name, ips, mac, mtu, host) ==
    KV(InterfaceKey(agent, name),
       [Iface("tap", ips, mac, mtu) EXCEPT !.host = host])

(***************************************************************************)
(* A namespace is its type, what that refers by, and the Microservice.     *)
(***************************************************************************)
MicroserviceNs(label) == <<"microservice", "", label>>

\* A named namespace of a tap has its name in the field of the microservice.
ConstructLinuxTapInterface(agent, name, ips, mac, mtu, host, hostNs, label) ==
    KV(LinuxInterfaceKey(agent, name),
       [Iface("autotap", ips, mac, mtu) EXCEPT !.host = host,
            !.space = IF hostNs = "" THEN MicroserviceNs(label) ELSE <<"named", "", hostNs>>])

ConstructAFPacketInterface(agent, name, ips, mac, mtu, host) ==
    KV(InterfaceKey(agent, name),
       [Iface("afpacket", ips, mac, mtu) EXCEPT !.host = host])

\* The namespace that linuxNamespace asks for: nil, or a type and a reference.
\* A type that is not one of the four leaves the first, which is by process.
VEthNamespace(linuxNs, label) ==
    CASE linuxNs = <<>> -> MicroserviceNs(label)
      [] linuxNs # <<>> /\ linuxNs[1] = "microservice" -> MicroserviceNs(linuxNs[2])
      [] linuxNs # <<>> /\ linuxNs[1] \in {"named", "pid", "file"} -> <<linuxNs[1], linuxNs[2], "">>
      [] OTHER -> <<"pid", "", "">>

ConstructVEthInterface(agent, name, ips, mac, mtu, host, peer, linuxNs, label) ==
    KV(LinuxInterfaceKey(agent, name),
       [Iface("veth", ips, mac, mtu) EXCEPT
            !.host = host, !.peer = peer, !.space = VEthNamespace(linuxNs, label)])

\* Mutant: the VRF is left at its default.
InDefaultVrf(kv, id) == kv

InVrf(kv, id) == [kv EXCEPT !.val.vrf = id]

(***************************************************************************)
(* A cross connect is two entries, each keyed by its receiving interface.  *)
(***************************************************************************)
constructUniDirXConnect(agent, if1, if2) ==
    KV(L2XConnectKey(agent, if1), [rx |-> if1, tx |-> if2])

ConstructXConnect(agent, if1, if2) ==
    <<constructUniDirXConnect(agent, if1, if2),
      constructUniDirXConnect(agent, if2, if1)>>

(***************************************************************************)
(* The key of a route leaves out its outgoing interface and the host part  *)
(* of its destination, and the key of an ARP entry its IP address.  The    *)
(* next hop loses its prefix length; a destination that has none is a host *)
(* route.                                                                  *)
(***************************************************************************)
ParseIPWithPrefix(addr) == IF Len(addr) = 1 THEN <<addr[1], 32>> ELSE addr

\* ParseCIDR's network of an address.
RouteNet(addr) == <<addr[1] - (addr[1] % 2^(32 - addr[2])), addr[2]>>

L3RouteKey(agent, vrf, dst, hop) == <<"l3vrf", agent, <<vrf, RouteNet(dst), hop>>>>

ConstructStaticRoute(agent, vrf, dst, hop, out, desc) ==
    LET to == StripSlashAndSubnetIPAddress(hop) IN
    KV(L3RouteKey(agent, vrf, ParseIPWithPrefix(dst), to),
       [vrf |-> vrf, dst |-> dst, hop |-> to, out |-> out, desc |-> desc])

ConstructStaticArpEntry(agent, ip, mac, out) ==
    KV(ArpEntryKey(agent, out, mac), [ip |-> ip, mac |-> mac, out |-> out])

(***************************************************************************)
(* Bridge domains.  A member is an interface name and its split-horizon    *)
(* group.  Appending checks neither for duplicates nor for existence.      *)
(***************************************************************************)
Member(name, shg) == [name |-> name, shg |-> shg]

insertSortBridgedInterface(bag, member) == bag (+) SetToBag({member})

BagOf(bag, members) == FoldLeft(insertSortBridgedInterface, bag, members)

ConstructL2BD(agent, name, members, parms) ==
    KV(L2BridgeDomainKey(agent, name),
       [ifs |-> BagOf(EmptyBag, members), parms |-> parms])

AppendInterfacesToL2BD(bd, members) == [bd EXCEPT !.ifs = BagOf(@, members)]

(***************************************************************************)
(* What the transaction compares: the value under one key, except for the  *)
(* description of a route.                                                 *)
(***************************************************************************)
Undescribed(val) == IF "desc" \in DOMAIN val THEN [val EXCEPT !.desc = <<>>] ELSE val

Equal(val1, val2) == Undescribed(val1) = Undescribed(val2)
=============================================================================

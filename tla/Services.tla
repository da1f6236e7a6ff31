------------------------------ MODULE Services ------------------------------
(***************************************************************************)
(* The controller as a state machine over whole messages: a request is     *)
(* handled and everything is rendered, in one step of the goroutine that   *)
(* processes operational messages.  Renderer has the steps in between and  *)
(* failures of etcd; here are the entries that are rendered.               *)
(*                                                                         *)
(* A node or service is written to etcd each time it changes, so that one  *)
(* variable stands for the cache and for its copy in etcd.  ramCache is    *)
(* what a restart loses.                                                   *)
(***************************************************************************)
EXTENDS EntityRender

CONSTANTS NodeSpecs,      \* node -> the specifications it may be given
          OverlaySpecs,   \* overlay -> its specifications
          ServiceSpecs,   \* service -> its specifications
          SysSpecs,       \* system parameters
          PoolSpecs,      \* pool -> its specification; pools do not change
          Places,         \* pod -> the nodes it may run on
          Yamls,          \* start-up files
          MeshOverlay,    \* the overlay whose VNIs are followed
          MaxOps,         \* bound: requests
          MaxStops        \* bound: times the process is stopped

VARIABLES nodes, svcs, overlays, sys,   \* configuration, in the cache and in etcd
          p2n,                          \* NetworkPodToNodeMap
          ramCache, etcd,               \* the rest of the RAM cache, the VPP entries in etcd
          up, kick,                     \* the process runs, with its start-up Render to come
          ops, stops

vars == <<nodes, svcs, overlays, sys, p2n, ramCache, etcd, up, kick, ops, stops>>

FreshPools ==
    [p \in DOMAIN PoolSpecs |-> [a |-> NewIPAMPoolAllocator(PoolSpecs[p]), len |-> PoolSpecs[p].len]]

InitRAMCache ==
    [ifs |-> <<>>, vpp |-> <<>>, mac |-> NewMacAddrAllocator, memif |-> NewMemifAllocator,
     vrf |-> NewVrfAllocator, pools |-> FreshPools, vni |-> <<>>, vxaddr |-> <<>>]

Rendering ==
    [nodes |-> nodes, svcs |-> svcs, overlays |-> overlays, sys |-> sys, p2n |-> p2n, etcd |-> etcd,
     after0 |-> <<>>, after |-> <<>>, alias |-> {}, listed |-> {}, msg |-> FALSE, res |-> "ok",
     name |-> NoName, st |-> <<>>, addr |-> NoAddr, tag |-> 0, sides |-> <<>>, ends |-> <<>>,
     bdifs |-> <<>>, l3vrfs |-> <<>>, order |-> <<>>] @@ ramCache

Become(w) ==
    /\ nodes' = w.nodes /\ svcs' = w.svcs /\ overlays' = w.overlays /\ sys' = w.sys
    /\ p2n' = w.p2n /\ etcd' = w.etcd
    /\ up' = (w.res # "panic")
    /\ ramCache' = IF w.res = "panic" THEN InitRAMCache ELSE Restrict(w, DOMAIN ramCache)

\* The iteration orders of the maps of nodes and of services.
Orders(w) == {o1 \o o2 : o1 \in SetToSeqs(DOMAIN w.nodes), o2 \in SetToSeqs(DOMAIN w.svcs)}

\* A handler has made w of the caches: everything is rendered.
AndRender(w) ==
    \E o \in Orders(w) : \E v \in {Then([w EXCEPT !.order = o], Render)} : Become(v)

-----------------------------------------------------------------------------
(* Handlers (HandleCRUDOperationCU and ...D).                              *)

NodeStatusOf(w, spec) ==
    IF ValidateNode(w, spec) THEN <<>>
    ELSE <<[oper |-> "", rendered |-> {}, ifs |-> <<>>]>>

HandleNodeCU(w, n, spec) ==
    [w EXCEPT !.nodes = n :> [spec |-> spec, status |-> NodeStatusOf(w, spec)] @@ @]

HandleNodeD(w, n) ==
    Then(renderDelete(w, w.nodes[n].status), LAMBDA v : [v EXCEPT !.nodes = Without(@, {n})])

\* A service that is not valid has no status to put the message in.
HandleServiceCU(w, ns, spec) ==
    IF ~ValidateService(w, spec) THEN Panic(w)
    ELSE [w EXCEPT !.svcs = ns :> [spec |-> spec, status |-> <<>>] @@ @]

HandleServiceD(w, ns) ==
    Then(renderDelete(w, w.svcs[ns].status), LAMBDA v : [v EXCEPT !.svcs = Without(@, {ns})])

\* A VNI allocator is made once for an overlay.  It outlives the overlay, and a
\* range that changes is ignored.
HandleOverlayCU(w, o, spec) ==
    [w EXCEPT !.overlays = o :> spec @@ @,
              !.vni = IF spec.mesh = <<>> \/ o \in DOMAIN @ THEN @
                      ELSE o :> NewVxlanVniAllocator(spec.mesh[1].lo, spec.mesh[1].hi) @@ @]

HandleOverlayD(w, o) == [w EXCEPT !.overlays = Without(@, {o})]

\* validate puts in the default MTU, which a controller that was never given
\* system parameters does not have.
HandleSysCU(w, spec) ==
    [w EXCEPT !.sys = [spec EXCEPT !.mtu = IF @ = 0 THEN 1500 ELSE @]]

NoSysParms == [mtu |-> 0, memifDir |-> "", templates |-> <<>>]

HandleSysD(w) == HandleSysCU(w, NoSysParms)

-----------------------------------------------------------------------------
(* Start (Init, AfterInit).                                                *)

\* Mutant: the MAC address counter starts again from nothing.
LoadStatusNoMac(w, st) ==
    LET ids(p) == {st.ifs[i].nums[p] : i \in {j \in DOMAIN st.ifs : p \in DOMAIN st.ifs[j].nums}}
    IN  [w EXCEPT
            !.vpp   = Restrict(w.etcd, st.rendered \cap DOMAIN w.etcd) @@ @,
            !.ifs   = [i \in DOMAIN st.ifs |->
                         [st.ifs[i] EXCEPT !.made = DOMAIN st.ifs[i].nums # {}]] @@ @,
            !.memif = Max({@} \cup {st.ifs[i].memif : i \in DOMAIN st.ifs})]

\* Mutant: the interfaces' statuses are not put back.
LoadStatusNoInterfaces(w, st) ==
    [w EXCEPT !.vpp = Restrict(w.etcd, st.rendered \cap DOMAIN w.etcd) @@ @]

\* What the saved status of an entity puts back into the RAM cache.
LoadStatus(w, st) ==
    LET ids(p) == {st.ifs[i].nums[p] : i \in {j \in DOMAIN st.ifs : p \in DOMAIN st.ifs[j].nums}}
    IN  [w EXCEPT
            !.vpp   = Restrict(w.etcd, st.rendered \cap DOMAIN w.etcd) @@ @,
            !.ifs   = [i \in DOMAIN st.ifs |->
                         [st.ifs[i] EXCEPT !.made = DOMAIN st.ifs[i].nums # {}]] @@ @,
            !.memif = Max({@} \cup {st.ifs[i].memif : i \in DOMAIN st.ifs}),
            !.mac   = Max({@} \cup {st.ifs[i].macId : i \in DOMAIN st.ifs}),
            !.pools = [p \in DOMAIN @ |-> [@[p] EXCEPT !.a.allocated =
                         @ \cup {id \in ids(p) : InRange(w.pools[p].a, id)}]]]

PostProcessLoadedDatastore(w) ==
    LET status(x) == IF x \in DOMAIN w.nodes THEN w.nodes[x].status ELSE w.svcs[x].status
    IN  Each(w, In(w, DOMAIN w.nodes) \o In(w, DOMAIN w.svcs), LAMBDA v, x :
            IF status(x) = <<>> THEN v ELSE LoadStatus(v, status(x)[1]))

\* The RAM cache, loaded in any order: of two statuses of one interface, the
\* last is kept.
Loaded(w) ==
    {[PostProcessLoadedDatastore([w EXCEPT !.order = o]) EXCEPT !.order = <<>>] : o \in Orders(w)}

\* The start-up file takes the place of what etcd has under the same name.
SfcConfigYamlProcessConfig(w, y) ==
    Each(Each(Each(Each(w, y.sys, HandleSysCU),
                   SetToSeq(DOMAIN y.nodes), LAMBDA v, n : HandleNodeCU(v, n, y.nodes[n])),
              SetToSeq(DOMAIN y.svcs), LAMBDA v, s : HandleServiceCU(v, s, y.svcs[s])),
         SetToSeq(DOMAIN y.overlays), LAMBDA v, o : HandleOverlayCU(v, o, y.overlays[o]))

Start(w) == IF DOMAIN w.p2n # {} THEN AndRender(w) ELSE Become(w)

\* AfterInit has the pods located, which renders if there are any, and then
\* sends a Render.  A file with services counts as one of the MaxOps requests.
Boot(y) ==
    /\ ~up
    /\ kick' = TRUE
    /\ ops' = IF y.svcs = <<>> THEN ops ELSE ops + 1
    /\ ops' <= MaxOps
    /\ \E w \in Loaded(Rendering) : Start(SfcConfigYamlProcessConfig(w, y))
    /\ UNCHANGED stops

RenderMsg ==
    /\ up /\ kick
    /\ kick' = FALSE
    /\ AndRender(Rendering)
    /\ UNCHANGED <<ops, stops>>

Stop ==
    /\ up /\ stops < MaxStops
    /\ stops' = stops + 1
    /\ up' = FALSE /\ ramCache' = InitRAMCache
    /\ UNCHANGED <<nodes, svcs, overlays, sys, p2n, etcd, kick, ops>>

Init ==
    /\ nodes = <<>> /\ svcs = <<>> /\ overlays = <<>> /\ sys = NoSysParms
    /\ p2n \in [DOMAIN Places -> UNION {Places[p] : p \in DOMAIN Places}]
    /\ \A p \in DOMAIN Places : p2n[p] \in Places[p]
    /\ ramCache = InitRAMCache /\ etcd = <<>>
    /\ up = FALSE /\ kick = FALSE /\ ops = 0 /\ stops = 0

-----------------------------------------------------------------------------
(* Requests.  The REST handler turns away what is equal to the cached      *)
(* configuration, and what is not valid.  A service that was rendered has  *)
(* Parent set in its interfaces and so is not equal to what was posted.    *)
(* Here nothing comes between the check and the handler (Northbound has    *)
(* what does).                                                             *)

Request(w) ==
    /\ up /\ ops < MaxOps
    /\ ops' = ops + 1
    /\ AndRender(w)
    /\ UNCHANGED <<kick, stops>>

NodeCU(n, spec) ==
    /\ n \in DOMAIN nodes => nodes[n].spec # spec
    /\ ValidateNode(Rendering, spec)
    /\ Request(HandleNodeCU(Rendering, n, spec))

NodeD(n) == n \in DOMAIN nodes /\ Request(HandleNodeD(Rendering, n))

ServiceCU(ns, spec) ==
    /\ ns \in DOMAIN svcs => svcs[ns].spec # spec
    /\ ValidateService(Rendering, spec)
    /\ Request(HandleServiceCU(Rendering, ns, spec))

ServiceD(ns) == ns \in DOMAIN svcs /\ Request(HandleServiceD(Rendering, ns))

OverlayCU(o, spec) ==
    /\ o \in DOMAIN overlays => overlays[o] # spec
    /\ ValidateOverlay(spec)
    /\ Request(HandleOverlayCU(Rendering, o, spec))

OverlayD(o) == o \in DOMAIN overlays /\ Request(HandleOverlayD(Rendering, o))

SysCU(spec) == sys # spec /\ Request(HandleSysCU(Rendering, spec))

SysD == Request(HandleSysD(Rendering))

\* The pod is found on another node: the map is synchronised.
PodMove(p, n) ==
    /\ p2n[p] # n
    /\ Request([Rendering EXCEPT !.p2n[p] = n])

Next ==
    \/ \E y \in Yamls : Boot(y)
    \/ RenderMsg
    \/ Stop
    \/ \E n \in DOMAIN NodeSpecs : NodeD(n) \/ \E spec \in NodeSpecs[n] : NodeCU(n, spec)
    \/ \E ns \in DOMAIN ServiceSpecs :
          ServiceD(ns) \/ \E spec \in ServiceSpecs[ns] : ServiceCU(ns, spec)
    \/ \E o \in DOMAIN OverlaySpecs :
          OverlayD(o) \/ \E spec \in OverlaySpecs[o] : OverlayCU(o, spec)
    \/ \E spec \in SysSpecs : SysCU(spec)
    \/ SysD
    \/ \E p \in DOMAIN Places : \E n \in Places[p] : PodMove(p, n)

Spec == Init /\ [][Next]_vars

-----------------------------------------------------------------------------
(* Properties.                                                             *)

Entities == [x \in DOMAIN nodes \cup DOMAIN svcs |-> IF x \in DOMAIN nodes THEN nodes[x] ELSE svcs[x]]

RenderedKeys(f) ==
    UNION {f[x].status[1].rendered : x \in {y \in DOMAIN f : f[y].status # <<>>}}

Up(x) == x.status # <<>> /\ x.status[1].oper = "Up"

\* Kinds, sizes and ranges of the variables; what is rendered for an entity
\* that is not up is nothing.
TypeOK ==
    /\ DOMAIN nodes \subseteq DOMAIN NodeSpecs /\ DOMAIN svcs \subseteq DOMAIN ServiceSpecs
    /\ \A x \in DOMAIN Entities :
           /\ Len(Entities[x].status) <= 1
           /\ Entities[x].status # <<>> /\ ~Up(Entities[x]) => Entities[x].status[1].rendered = {}
    /\ DOMAIN overlays \subseteq DOMAIN OverlaySpecs
    /\ p2n \in [DOMAIN Places -> DOMAIN NodeSpecs]
    /\ up \in BOOLEAN /\ kick \in BOOLEAN /\ ops \in 0 .. MaxOps /\ stops \in 0 .. MaxStops

\* The entries in etcd that the process manages.  A panic can leave others.
Live == Restrict(etcd, DOMAIN etcd \cap DOMAIN ramCache.vpp)

Interfaces(e) == {k \in DOMAIN e : k[1] = "interface"}
OfType(e, type) == {k \in Interfaces(e) : e[k].type = type}

TunnelEnds(a, b) == a.vni = b.vni /\ a.src = b.dst /\ a.dst = b.src

MemifEnds(a, b) == a.socket = b.socket /\ a.memif = b.memif /\ a.master # b.master

\* The interface of a pod or node that an entry was made for.
Owner(k) == IF Len(k[3]) = 1 THEN <<k[2], k[3][1]>> ELSE <<k[3][2], k[3][3]>>

\* The specifications that services have for an interface of a pod, and the
\* memif directories in them.
IfSpecs(p) ==
    UNION {{f.if : f \in Elements(findNetworkPodAndInterfaceInList(svcs[ns].spec, p[1], p[2]))} :
           ns \in DOMAIN svcs}
MemifDirs(p) == {i.memifDir : i \in IfSpecs(p)}

\* Every VXLAN tunnel has its other end, on another node: the same VNI with the
\* addresses swapped (ConstructVxlanInterface for both directions of every pair
\* of nodes, in all five functions that render an overlay).
TunnelsMatched ==
    LET e == Live
        tunnels == OfType(e, "vxlan")
    IN  \A k \in tunnels : \E m \in tunnels : m[2] # k[2] /\ TunnelEnds(e[k], e[m])

\* Every memif has its other end: the same identifier and the same agent in the
\* name of its socket, one of them the master (the status of one interface
\* holds the identifier of both ends through a vswitch, two statuses hold it
\* for a direct pair).  The socket is the same too, unless a direct pair was
\* given two directories: each end is made with the MemifParms of its own.
MemifsPaired ==
    LET e == Live
        memifs == OfType(e, "memif")
    IN  \A k \in memifs : \E m \in memifs :
          /\ e[k].memif = e[m].memif /\ e[k].master # e[m].master /\ e[k].socket[2] = e[m].socket[2]
          /\ MemifDirs(Owner(k)) = MemifDirs(Owner(m)) => MemifEnds(e[k], e[m])

\* Memifs that a vswitch or pod serves on one socket have different identifiers:
\* "reset as MUST be different id's" (renderConnL2PPSameNode).
MastersApart ==
    LET e == Live
        masters == {k \in OfType(e, "memif") : e[k].master}
    IN  \A k, m \in masters : k # m => <<e[k].socket, e[k].memif>> # <<e[m].socket, e[m].memif>>

\* Two interfaces never have the same MAC address, although the counter starts
\* again with every process (PostProcessLoadedDatastore raises it to the
\* largest identifier of a saved status).
MacsApart ==
    LET e == Live
        macs == {k \in DOMAIN e : k[1] \in {"interface", "linuxif"} /\ e[k].mac # NoMac}
    IN  \A k, m \in macs : e[k].mac = e[m].mac => Owner(k) = Owner(m)

\* After a transaction etcd has every entry that an entity lists as rendered,
\* if the entity is up and still valid, also when another that had listed it
\* too is deleted (renderDelete, RenderTxnConfigEnd).
UpMeansRendered ==
    up => \A x \in DOMAIN Entities :
        /\ Up(Entities[x])
        /\ IF x \in DOMAIN nodes THEN ValidateNode(Rendering, nodes[x].spec)
                                 ELSE ValidateService(Rendering, svcs[x].spec)
        => Entities[x].status[1].rendered \subseteq DOMAIN etcd

\* A port is an agent and the name of an interface there.  Two are joined by a
\* bridge, a cross connect, the two ends of a memif or of a tunnel, or a veth
\* pair with one end in the pod and the other where the agent of an AF_PACKET
\* interface finds it.
Port(k) == <<k[2], k[3]>>

BridgePorts(e, k) == {<<k[2], m.name>> : m \in DOMAIN e[k].ifs}

VethPair(e, k, m, port) ==
    /\ k[2] = m[2] /\ e[k].peer = m[3] /\ e[m].peer = k[3] /\ e[k].space[1] = "microservice"
    /\ e[m].space = MicroserviceNs(port[2]) /\ e[port].host = e[m].host

VethLinks(e) ==
    LET ends    == {k \in DOMAIN e : k[1] = "linuxif" /\ e[k].type = "veth"}
        there(k) == <<e[k].space[3], <<e[k].host>>>>
    IN  UNION {{<<there(l[1]), Port(l[3])>>, <<Port(l[3]), there(l[1])>>} :
               l \in {l \in ends \X ends \X OfType(e, "afpacket") : VethPair(e, l[1], l[2], l[3])}}

Links(e) ==
    UNION {BridgePorts(e, k) \X BridgePorts(e, k) : k \in {k \in DOMAIN e : k[1] = "l2bd"}}
    \cup {<<Port(k), <<k[2], e[k].tx>>>> : k \in {k \in DOMAIN e : k[1] = "l2xc"}}
    \cup {<<Port(l[1]), Port(l[2])>> : l \in {l \in OfType(e, "memif") \X OfType(e, "memif") :
                                               MemifEnds(e[l[1]], e[l[2]])}}
    \cup {<<Port(l[1]), Port(l[2])>> : l \in {l \in OfType(e, "vxlan") \X OfType(e, "vxlan") :
                                    l[1][2] # l[2][2] /\ TunnelEnds(e[l[1]], e[l[2]])}}
    \cup VethLinks(e)

\* The ports that can be reached from one, over interfaces that exist.
Reach(e, links, port) ==
    FoldLeft(LAMBDA S, hop : S \cup {l[2] : l \in {m \in links :
                 m[1] \in S /\ InterfaceKey(m[2][1], m[2][2]) \in DOMAIN e}},
             {port}, [hop \in 1 .. Cardinality({l[1] : l \in links}) |-> hop])

\* The ends that a connection has to join: not the taps, whose name
\* RenderConnTapPair does not return, and not a veth that is given a namespace,
\* because both its ends are put there.  A connection within one pod renders no
\* interface and joins those that other connections have rendered.
Ends(e, spec, c) ==
    LET given(p) == findNetworkPodAndInterfaceInList(spec, p[1], p[2])[1].if
        inOnePod == c.nodeIfs = <<>> /\ c.labels = <<>> /\ \A p, q \in Elements(c.pods) : p[1] = q[1]
    IN  {p \in Elements(c.pods) :
           /\ given(p).type \in {"memif", "veth"}
           /\ given(p).type = "veth" => given(p).linuxNs = <<>>
           /\ inOnePod => InterfaceKey(p[1], <<p[2]>>) \in DOMAIN e}

\* The interfaces of a layer 2 connection of a service that is up can reach each
\* other through the entries in etcd, wherever their pods run.  Left out are
\* memifs joined directly that were given two directories, and the bridge of a
\* node that is not valid any more, which is appended to in VppEntries only.
UpMeansConnected ==
    LET e     == Live
        links == Links(e)
        apart(c) == /\ c.type = "l2pp" /\ c.method # "vswitch"
                    /\ \E p, q \in Elements(c.pods) : MemifDirs(p) # MemifDirs(q)
        connected(spec, c) ==
            /\ c.type \in {"l2pp", "l2mp"} /\ ~apart(c)
            /\ c.nodeBd # "" =>
                  \A p \in Elements(c.pods) : ValidateNode(Rendering, nodes[p2n[p[1]]].spec)
            => LET ends == {<<p[1], <<p[2]>>>> : p \in Ends(e, spec, c)}
               IN  \A a \in ends : ends \subseteq Reach(e, links, a)
    IN  up => \A ns \in DOMAIN svcs : Up(svcs[ns]) /\ ValidateService(Rendering, svcs[ns].spec) =>
            \A c \in Elements(svcs[ns].spec.conns) : connected(svcs[ns].spec, c)

\* A route of a layer 3 connection leaves by an interface that exists on its
\* node and is in the VRF of the route (TakeVrf comes before the interfaces).
RoutesLead ==
    LET e == Live IN
    \A k \in DOMAIN e : k[1] = "l3vrf" /\ e[k].desc[1] \in {"L3MP", "L3PP"} =>
        LET out == InterfaceKey(k[2], e[k].out)
        IN  e[k].out # NoName => out \in DOMAIN e /\ e[out].vrf = e[k].vrf

Tracked == DOMAIN etcd \subseteq RenderedKeys(Entities)

\* etcd has no entry that no entity lists: a step that does not panic keeps it
\* so, whatever was deleted, replaced or has failed (RenderTxnConfigEnd).  A
\* panic loses entries: the statuses are written, the entries are not.
TrackedStays == [][Tracked /\ up' => Tracked']_vars

\* Entries of services that use no overlay, and of no other service.
LocalKeys ==
    LET local == {ns \in DOMAIN svcs : \A c \in Elements(svcs[ns].spec.conns) : c.overlay = ""}
    IN  RenderedKeys(Restrict(svcs, local)) \ RenderedKeys(Without(svcs, local))

Specs(f) == [x \in DOMAIN f |-> f[x].spec]

\* A restart changes no entry in etcd of a service that uses no overlay and has
\* kept its specification: addresses, MAC addresses and memif identifiers come
\* back from the saved statuses.
RestartKeepsLocal ==
    [][~up /\ up' /\ Tracked /\ sys' = sys
        /\ Specs(nodes)' = Specs(nodes) /\ Specs(svcs)' = Specs(svcs)
        => \A k \in LocalKeys \cap DOMAIN etcd : k \in DOMAIN etcd' /\ etcd'[k] = etcd[k]]_vars

\* A restart with nothing changed writes nothing to etcd: "resync will ensure
\* etcd is not written to unnecessarily" (AfterInit).
RestartIsQuiet ==
    [][~up /\ up' /\ Tracked /\ sys' = sys /\ overlays' = overlays
        /\ Specs(nodes)' = Specs(nodes) /\ Specs(svcs)' = Specs(svcs)
        => etcd' = etcd]_vars

\* The VNIs of one overlay: given out by its allocator, and of the tunnels.
MeshNames == {"IF_VXLAN_MESH", "IF_VXLAN_L2PP"}
TakenVnis(o) ==
    IF o \notin DOMAIN ramCache.vni THEN {}
    ELSE LET v == ramCache.vni[o]
         IN  {v.StartVni + b - 1 : b \in {b \in 1 .. v.BM.numBits : IsSet(v.BM, b)}}
UsedVnis(o) ==
    {<<<<k[3][2], k[3][3]>>, ramCache.vpp[k].vni>> :
        k \in {m \in DOMAIN ramCache.vpp :
                 /\ m[1] = "interface" /\ m[3][1] \in MeshNames
                 /\ svcs[m[3][2]].spec.conns[m[3][3]].overlay = o}}

Vnis == INSTANCE VniUse WITH taken <- TakenVnis(MeshOverlay), use <- UsedVnis(MeshOverlay)

\* The tunnels that are rendered use the VNIs as the allocator promises: of all
\* connections over a mesh, none has the VNI of another or one that was given
\* out before, until the process ends (AllocateVni in each function that
\* renders a mesh).
VnisImplemented == Vnis!Spec
=============================================================================

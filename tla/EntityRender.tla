---------------------------- MODULE EntityRender ----------------------------
(***************************************************************************)
(* Nodes and services: validation, rendering of one entity with its status *)
(* and the transaction that renders them all.  A status is <<>> (nil) or   *)
(* one record: the operational state, the keys of the entries that were    *)
(* rendered, and the statuses of the interfaces as they were written.      *)
(***************************************************************************)
EXTENDS ServiceRender

Elements(seq) == {seq[n] : n \in DOMAIN seq}

-----------------------------------------------------------------------------
(* Validation.  An address is valid when it has a prefix length.           *)

HasTemplate(w, bd) == bd.template # "" => bd.template \in DOMAIN w.sys.templates

validIPs(i) == \A a \in Elements(i.ips) : Len(a) = 2

nodeValidateInterfaces(ifs) ==
    \A i \in Elements(ifs) : i.type \in {"ethernet", "vxlan_tunnel"} /\ validIPs(i)

ValidateNode(w, spec) ==
    /\ nodeValidateInterfaces(spec.ifs)
    /\ \A bd \in Elements(spec.bds) :
           /\ ~(bd.template # "" /\ bd.parms # "")
           /\ HasTemplate(w, bd)

ValidateOverlay(o) ==
    /\ o.conn = "vxlan"
    /\ \/ o.type = "mesh" /\ o.mesh # <<>> /\ o.mesh[1].lo \in 1 .. o.mesh[1].hi
       \/ o.type = "hub_and_spoke" /\ o.hub # <<>> /\ o.hub[1].vni # 0

\* The formats of the memif and tap parameters are one flag.
validateNetworkPod(pod) ==
    /\ pod.name # ""
    /\ pod.type \in {"external", "vppcontainer", "nonvppcontainer"}
    /\ pod.ifs # <<>>
    /\ \A i \in Elements(pod.ifs) :
           i.type \in {"memif", "ethernet", "veth", "tap"} /\ validIPs(i) /\ i.parmsOk

\* A bridge of the connection's own is a template or parameters, not both.
validateBridge(w, c) ==
    c.bd.set => /\ c.nodeBd = ""
                /\ (c.bd.template = "") # (c.bd.parms = "")
                /\ HasTemplate(w, c.bd)

validateConnection(w, spec, c) ==
    /\ \/ c.type \in {"l2pp", "l3pp"} /\ Len(c.pods) + Len(c.nodeIfs) + Len(c.labels) = 2
       \/ c.type \in {"l2mp", "l3mp"} /\ Len(c.pods) + Len(c.nodeIfs) # 0 /\ validateBridge(w, c)
    /\ \A p \in Elements(c.pods) : findNetworkPodAndInterfaceInList(spec, p[1], p[2]) # <<>>
    /\ c.method \in {"", "direct", "vswitch"}

ValidateService(w, spec) ==
    /\ \A pod \in Elements(spec.pods) : validateNetworkPod(pod)
    /\ \A c \in Elements(spec.conns) : validateConnection(w, spec, c)

-----------------------------------------------------------------------------
(* One entity.  renderComplete and RenderTxnConfigEntityEnd are deferred,  *)
(* so they run after an error and in the course of a panic as well.        *)

EntityStart(w) == [w EXCEPT !.after = <<>>, !.listed = {}, !.msg = FALSE, !.res = "ok"]

\* Mutant: an entity that failed keeps its list of rendered entries.
ListedThoughDown(w) ==
    [oper |-> IF w.msg THEN "Down" ELSE "Up",
     rendered |-> DOMAIN w.after, ifs |-> Restrict(w.ifs, w.listed)]

\* The status that renderComplete writes.
CompleteStatus(w) ==
    [oper |-> IF w.msg THEN "Down" ELSE "Up",
     rendered |-> IF w.msg THEN {} ELSE DOMAIN w.after, ifs |-> Restrict(w.ifs, w.listed)]

\* An entity that has a message has its entries removed from the transaction.
EntityEnd(w) ==
    [w EXCEPT !.after0 = IF w.msg THEN @ ELSE w.after @@ @, !.after = <<>>,
              !.res = IF @ = "panic" THEN @ ELSE "ok"]

renderNodeInterface(w, n, i) ==
    IF i.type # "ethernet" \/ i.bypass THEN w
    ELSE Then(InitAndPersist(w, n, [i EXCEPT !.parent = n], LAMBDA v : v), LAMBDA v :
             RenderTxnAddVppEntry(v, ConstructEthernetInterface(n, <<i.name>>, v.st[1].ips,
                 v.st[1].mac, ResolveMtu(v, i.mtu))))

renderNodeL2BD(w, n, bd) ==
    RenderTxnAddVppEntry(w, ConstructL2BD(n, vppKeyL2BDName(n, bd.name), <<>>, BDParms(w, bd)))

NodeEnd(w, n) == EntityEnd([w EXCEPT !.nodes[n].status = <<CompleteStatus(w)>>])

renderNodeConfig(w, n) ==
    LET spec == w.nodes[n].spec IN
    IF ~ValidateNode(w, spec) THEN w
    ELSE NodeEnd(Each(Each(EntityStart(w), spec.ifs, LAMBDA v, i : renderNodeInterface(v, n, i)),
                      spec.bds, LAMBDA v, bd : renderNodeL2BD(v, n, bd)), n)

ServiceEnd(w, ns) == EntityEnd([w EXCEPT !.svcs[ns].status = <<CompleteStatus(w)>>])

renderServiceConfig(w, ns) ==
    LET spec == w.svcs[ns].spec IN
    IF ~ValidateService(w, spec) THEN w
    ELSE ServiceEnd(Each(EntityStart(w), [ci \in DOMAIN spec.conns |-> ci],
                         LAMBDA v, ci : renderConnectionSegments(v, ns, ci)), ns)

-----------------------------------------------------------------------------
(* The transaction.                                                        *)

RenderTxnConfigStart(w) == [w EXCEPT !.after0 = <<>>, !.alias = {}, !.res = "ok"]

RenderAll(w) ==
    Each(Each(w, In(w, DOMAIN w.nodes), renderNodeConfig), In(w, DOMAIN w.svcs), renderServiceConfig)

Without(f, keys) == Restrict(f, DOMAIN f \ keys)

\* Mutant: entries that are not rendered any more stay in etcd.
EndKeepsGone(w) ==
    LET new == Restrict(w.after0, {k \in DOMAIN w.after0 :
                   k \in DOMAIN w.vpp => ~Equal(w.vpp[k], w.after0[k])})
    IN  [w EXCEPT !.etcd = new @@ @, !.vpp = new @@ Without(@, DOMAIN @ \ DOMAIN w.after0)]

\* What was not rendered again is deleted, what is new or differs is written.
\* The values compared with are those in VppEntries now: a bridge that was
\* appended to in place is equal to itself.
RenderTxnConfigEnd(w) ==
    LET gone == DOMAIN w.vpp \ DOMAIN w.after0
        new  == Restrict(w.after0, {k \in DOMAIN w.after0 :
                    k \in DOMAIN w.vpp => ~Equal(w.vpp[k], w.after0[k])})
    IN  [w EXCEPT !.etcd = new @@ Without(@, gone), !.vpp = new @@ Without(@, gone)]

Render(w) == Then(RenderAll(RenderTxnConfigStart(w)), RenderTxnConfigEnd)

\* Mutant: the entries stay in VppEntries.
DeleteFromEtcdOnly(w, keys) == [w EXCEPT !.etcd = Without(@, keys)]

DeleteRenderedVppAgentEntries(w, keys) ==
    [w EXCEPT !.vpp = Without(@, keys), !.etcd = Without(@, keys)]

\* A nil status is dereferenced.
renderDelete(w, status) ==
    IF status = <<>> THEN Panic(w)
    ELSE [DeleteRenderedVppAgentEntries(w, status[1].rendered) EXCEPT
             !.ifs = Without(@, DOMAIN status[1].ifs)]
=============================================================================

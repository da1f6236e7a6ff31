------------------------------ MODULE Renderer ------------------------------
(***************************************************************************)
(* The controller's operational loop, the node and service managers it     *)
(* calls, the before/after render transaction, and the etcd tree they all  *)
(* write, across start-up, crash and restart.                              *)
(*                                                                         *)
(* A VPP-agent key is a member of Keys, what is stored under it a member   *)
(* of Vals (two values are the same when KVType.Equal says so).  Nodes and *)
(* Services are the entities that render.  Every etcd operation is a step  *)
(* of its own, because the process can die between two of them; what the   *)
(* code does between two etcd operations is one step.                      *)
(***************************************************************************)
EXTENDS Naturals

CONSTANTS
  Nodes, Services,   \* names of network nodes and of network services
  Specs,             \* the specs (configurations) an entity can be given
  Keys, Vals,        \* VPP-agent keys, and the values written under them
  None,              \* no value / no entity
  Renderings,        \* the maps an entity's spec may render to
  MaxMsgs,           \* bound: messages from the outside
  MaxStops,          \* bound: orderly stops of the process
  MaxFaults          \* bound: etcd errors and crashes, per kind

Entities == Nodes \cup Services
Maps     == [Keys -> Vals \cup {None}]
Statuses == {"nil", "msg", "Up", "Down"}
Records  == [spec : Specs, status : Statuses, rendered : SUBSET Keys]
Faults   == {"put", "del", "config", "crash"}

ASSUME NodesServicesAssumption == Nodes \cap Services = {}
ASSUME NoneAssumption == None \notin Vals /\ None \notin Records
ASSUME RenderingsAssumption == Renderings \in [Entities -> [Specs -> SUBSET Maps]]
ASSUME BoundsAssumption ==
  MaxMsgs \in Nat /\ MaxStops \in Nat /\ MaxFaults \in [Faults -> Nat]

VARIABLES
  etcd,        \* VPP-agent part of the etcd tree
  config,      \* /v2/config part of the etcd tree: the persisted entities
  cache,       \* networkNodeCache and networkServiceCache
  vppEntries,  \* ramCache.VppEntries
  beforeMap, afterMap,   \* the transaction's maps at level 0
  contrib,     \* history: what each entity put into the last transaction
  pc,          \* where the process is
  enabled, pending,      \* isRenderingEnabled, isRenderingPending
  boot,        \* the next message AfterInit sends
  victim,      \* the entity being deleted
  toRender,    \* entities RenderAll has still to visit
  toDelete, toWrite,     \* keys the running loop has still to delete / write
  faults, msgs, stops    \* what has happened so far, per bound

store == <<etcd, config>>
txn   == <<beforeMap, afterMap, contrib>>
loop  == <<enabled, pending, boot>>
work  == <<victim, toRender, toDelete, toWrite>>
count == <<msgs, stops>>
vars  == <<store, cache, vppEntries, txn, pc, loop, work, faults, count>>

Empty      == [k \in Keys |-> None]
NoContrib  == [e \in Entities |-> Empty]
NoEntities == [e \in Entities |-> None]

\* The keys a map holds, and one map laid over another.
Present(m)      == {k \in Keys : m[k] # None}
Merge(base, m)  == [k \in Keys |-> IF m[k] # None THEN m[k] ELSE base[k]]

\* Every key some entity's Status lists under RenderedVppAgentEntries.
Listed(entities) ==
  UNION {entities[e].rendered : e \in {f \in Entities : entities[f] # None}}

Up    == pc \notin {"down", "panic"}
Quiet == pc = "idle" /\ boot = "done" /\ ~pending

CanFail(kind) == faults[kind] < MaxFaults[kind]
Failed(kind)  == faults' = [faults EXCEPT ![kind] = @ + 1]

-----------------------------------------------------------------------------
(* etcd operations, for callers that drop the error and go on.             *)

\* DeleteFromDatastore.
DeleteKey(k) ==
  \/ etcd' = [etcd EXCEPT ![k] = None] /\ UNCHANGED faults
  \/ CanFail("del") /\ Failed("del") /\ UNCHANGED etcd

\* writeToDatastore of one entity.
SaveEntity(e, r) ==
  \/ config' = [config EXCEPT ![e] = r] /\ UNCHANGED faults
  \/ CanFail("config") /\ Failed("config") /\ UNCHANGED config

-----------------------------------------------------------------------------
(* Process life.                                                           *)

\* The RAM of a process that is not running.
ClearRAM ==
  /\ cache' = NoEntities /\ vppEntries' = Empty
  /\ beforeMap' = Empty /\ afterMap' = Empty /\ contrib' = NoContrib
  /\ enabled' = FALSE /\ pending' = FALSE /\ boot' = "enable"
  /\ victim' = None /\ toRender' = {} /\ toDelete' = {} /\ toWrite' = {}

Init ==
  /\ etcd = Empty /\ config = NoEntities
  /\ cache = NoEntities /\ vppEntries = Empty
  /\ beforeMap = Empty /\ afterMap = Empty /\ contrib = NoContrib
  /\ pc = "down" /\ enabled = FALSE /\ pending = FALSE /\ boot = "enable"
  /\ victim = None /\ toRender = {} /\ toDelete = {} /\ toWrite = {}
  /\ faults = [f \in Faults |-> 0] /\ msgs = 0 /\ stops = 0

\* LoadVppAgentEntriesFromRenderedVppAgentEntries over every loaded entity:
\* a key is tracked again only if a Status lists it and etcd holds it.
LoadVppEntries == [k \in Keys |-> IF k \in Listed(config) THEN etcd[k] ELSE None]

\* Init without -clean: the managers load their caches, then
\* PostProcessLoadedDatastore rebuilds VppEntries.
Start ==
  /\ ~Up
  /\ cache' = config /\ vppEntries' = LoadVppEntries
  /\ pc' = "init"
  /\ UNCHANGED <<store, txn, loop, work, faults, count>>

\* Mutant: the RAM cache is reset before the VPP keys are deleted from etcd.
StartCleanTooLate ==
  /\ ~Up
  /\ cache' = NoEntities /\ vppEntries' = Empty
  /\ toDelete' = Present(vppEntries')
  /\ pc' = "clean" /\ config' = NoEntities
  /\ UNCHANGED <<etcd, txn, loop, victim, toRender, toWrite, faults, count>>

\* Init with -clean: the whole config tree goes in one etcd operation, and
\* the VPP keys just loaded are then deleted one by one.
StartClean ==
  /\ ~Up
  /\ cache' = config /\ vppEntries' = LoadVppEntries
  /\ toDelete' = Present(LoadVppEntries)
  /\ pc' = "clean"
  /\ \/ config' = NoEntities /\ UNCHANGED faults
     \/ CanFail("config") /\ Failed("config") /\ UNCHANGED config
  /\ UNCHANGED <<etcd, txn, loop, victim, toRender, toWrite, count>>

CleanVppAgentEntry(k) ==
  /\ pc = "clean" /\ k \in toDelete
  /\ DeleteKey(k)
  /\ toDelete' = toDelete \ {k}
  /\ UNCHANGED <<config, cache, vppEntries, txn, pc, loop, victim, toRender, toWrite, count>>

\* InitRAMCache, once the -clean loop is through.
InitRAMCache ==
  /\ pc = "clean" /\ toDelete = {}
  /\ cache' = NoEntities /\ vppEntries' = Empty
  /\ pc' = "init"
  /\ UNCHANGED <<store, txn, loop, work, faults, count>>

\* AfterInit: the loop runs and its three start-up messages are on their way.
AfterInit ==
  /\ pc = "init" /\ pc' = "idle"
  /\ UNCHANGED <<store, cache, vppEntries, txn, loop, work, faults, count>>

\* The process is stopped while it has nothing to do.
Stop ==
  /\ Quiet /\ stops < MaxStops
  /\ stops' = stops + 1 /\ pc' = "down"
  /\ ClearRAM
  /\ UNCHANGED <<store, faults, msgs>>

\* The process dies anywhere.
Crash ==
  /\ Up /\ CanFail("crash") /\ Failed("crash")
  /\ pc' = "down"
  /\ ClearRAM
  /\ UNCHANGED <<store, count>>

\* A nil dereference in the loop's goroutine ends the process.
Panic ==
  /\ pc' = "panic" /\ Failed("crash")
  /\ ClearRAM
  /\ UNCHANGED <<store, stops>>

-----------------------------------------------------------------------------
(* Messages.  The channel is unbuffered and one goroutine reads it, so a   *)
(* message is handled, and the render it asks for is run, before the next. *)

\* The tail of the loop body, after the switch.
RenderIfPending == pc' = IF enabled' /\ pending' THEN "txn" ELSE "idle"

Receive == pc = "idle" /\ msgs < MaxMsgs /\ msgs' = msgs + 1 /\ UNCHANGED stops

\* Mutant: the start-up message does not enable the renderer.
ReceiveEnableRendererIgnored ==
  /\ pc = "idle" /\ boot = "enable" /\ boot' = "resync"
  /\ UNCHANGED <<enabled, pending>>
  /\ RenderIfPending
  /\ UNCHANGED <<store, cache, vppEntries, txn, work, faults, count>>

ReceiveEnableRenderer ==
  /\ pc = "idle" /\ boot = "enable" /\ boot' = "resync"
  /\ enabled' = TRUE /\ UNCHANGED pending
  /\ RenderIfPending
  /\ UNCHANGED <<store, cache, vppEntries, txn, work, faults, count>>

\* ResyncContivNetworkPodMap renders only if the pod map changed.
Resync(changed) ==
  /\ pending' = (pending \/ changed) /\ UNCHANGED enabled
  /\ RenderIfPending
  /\ UNCHANGED <<store, cache, vppEntries, txn, work, faults>>

ReceiveBootResync(changed) ==
  /\ pc = "idle" /\ boot = "resync" /\ boot' = "render"
  /\ Resync(changed) /\ UNCHANGED count

\* The same message from the contiv watcher or the one-minute ticker.
ReceiveResync(changed) == Receive /\ UNCHANGED boot /\ Resync(changed)

ReceiveRender ==
  /\ pc = "idle" /\ boot = "render" /\ boot' = "done"
  /\ pending' = TRUE /\ UNCHANGED enabled
  /\ RenderIfPending
  /\ UNCHANGED <<store, cache, vppEntries, txn, work, faults, count>>

\* Mutant: the list of rendered entries is never made.
NewRecordNoList(s, valid) ==
  [spec |-> s, status |-> IF valid THEN "nil" ELSE "msg"]

\* HandleCRUDOperationCU puts a fresh record, with no Status, in the cache.
\* A node that fails validation gets a Status holding the message; a service
\* that fails it appends to a nil Status.
NewRecord(s, valid) ==
  [spec |-> s, status |-> IF valid THEN "nil" ELSE "msg", rendered |-> {}]

HandleCU(e, s, valid) ==
  /\ cache' = [cache EXCEPT ![e] = NewRecord(s, valid)]
  /\ SaveEntity(e, NewRecord(s, valid))

ReceiveCU(e, s, valid) ==
  /\ Receive
  /\ valid \/ e \in Nodes
  /\ HandleCU(e, s, valid)
  /\ pending' = TRUE /\ UNCHANGED <<enabled, boot>>
  /\ RenderIfPending
  /\ UNCHANGED <<etcd, vppEntries, txn, work>>

ReceiveInvalidService == Receive /\ Services # {} /\ Panic

\* HandleCRUDOperationD: nothing to do, a nil Status, or the deletes begin.
ReceiveDMissing(e) ==
  /\ Receive
  /\ cache[e] = None
  /\ pending' = TRUE /\ UNCHANGED <<enabled, boot>>
  /\ RenderIfPending
  /\ UNCHANGED <<store, cache, vppEntries, txn, work, faults>>

ReceiveDNilStatus(e) ==
  /\ Receive
  /\ cache[e] # None /\ cache[e].status = "nil"
  /\ Panic

ReceiveD(e) ==
  /\ Receive
  /\ cache[e] # None /\ cache[e].status # "nil"
  /\ victim' = e /\ toDelete' = cache[e].rendered /\ pc' = "del"
  /\ UNCHANGED <<store, cache, vppEntries, txn, loop, toRender, toWrite, faults>>

\* Mutant: the key leaves VppEntries but not etcd.
DeleteRenderedRamOnly(k) ==
  /\ pc = "del" /\ k \in toDelete
  /\ vppEntries' = [vppEntries EXCEPT ![k] = None]
  /\ toDelete' = toDelete \ {k}
  /\ UNCHANGED <<store, cache, txn, pc, loop, victim, toRender, toWrite, faults, count>>

\* DeleteRenderedVppAgentEntries, one key of the loop.
DeleteRendered(k) ==
  /\ pc = "del" /\ k \in toDelete
  /\ vppEntries' = [vppEntries EXCEPT ![k] = None]
  /\ DeleteKey(k)
  /\ toDelete' = toDelete \ {k}
  /\ UNCHANGED <<config, cache, txn, pc, loop, victim, toRender, toWrite, count>>

\* ... then the entity leaves the cache and the config tree.
DeleteEntity ==
  /\ pc = "del" /\ toDelete = {}
  /\ cache' = [cache EXCEPT ![victim] = None]
  /\ SaveEntity(victim, None)
  /\ victim' = None
  /\ pending' = TRUE /\ UNCHANGED <<enabled, boot>>
  /\ RenderIfPending
  /\ UNCHANGED <<etcd, vppEntries, txn, toRender, toDelete, toWrite, count>>

\* The startup yaml calls the CU handlers during Init, before the loop runs.
YamlCU(e, s, valid) ==
  /\ pc = "init" /\ msgs < MaxMsgs /\ msgs' = msgs + 1
  /\ valid \/ e \in Nodes
  /\ cache' = [cache EXCEPT ![e] = NewRecord(s, valid)]
  /\ config' = [config EXCEPT ![e] = NewRecord(s, valid)]
  /\ UNCHANGED <<etcd, vppEntries, txn, pc, loop, work, faults, stops>>

\* ... and a write error there is os.Exit(1).
YamlExit ==
  /\ pc = "init" /\ CanFail("config") /\ Failed("config")
  /\ pc' = "down"
  /\ ClearRAM
  /\ UNCHANGED <<store, count>>

YamlInvalidService ==
  /\ pc = "init" /\ Services # {} /\ msgs < MaxMsgs /\ msgs' = msgs + 1
  /\ Panic

-----------------------------------------------------------------------------
(* The render transaction.                                                 *)

RenderTxnConfigStart ==
  /\ pc = "txn" /\ pc' = "render"
  /\ beforeMap' = vppEntries /\ afterMap' = Empty /\ contrib' = NoContrib
  /\ toRender' = {e \in Entities : cache[e] # None}
  /\ UNCHANGED <<store, cache, vppEntries, loop, victim, toDelete, toWrite, faults, count>>

\* RenderAll visits the nodes, then the services, each in map order.
Visit(e) ==
  /\ pc = "render" /\ e \in toRender
  /\ e \in Services => toRender \cap Nodes = {}
  /\ toRender' = toRender \ {e}
  /\ UNCHANGED <<etcd, vppEntries, beforeMap, pc, loop, victim, toDelete, toWrite, count>>

\* renderConfig returns early when validation fails: the level-1 map is empty
\* and neither the Status nor the persisted record changes.
RenderInvalid(e) ==
  /\ Visit(e)
  /\ UNCHANGED <<config, cache, afterMap, contrib, faults>>

\* The record renderComplete persists.
RenderedRecord(e, status, keys) ==
  [spec |-> cache[e].spec, status |-> status, rendered |-> keys]

\* Mutant: the Status is persisted before the entries are listed in it.
RenderOkUnlisted(e) ==
  /\ Visit(e)
  /\ \E m \in Renderings[e][cache[e].spec] :
       /\ cache' = [cache EXCEPT ![e] = RenderedRecord(e, "Up", Present(m))]
       /\ SaveEntity(e, RenderedRecord(e, "Up", {}))
       /\ afterMap' = Merge(afterMap, m)
       /\ contrib' = [contrib EXCEPT ![e] = m]

\* The level-1 map m survives renderComplete and EntityEnd merges it in.
RenderOk(e) ==
  /\ Visit(e)
  /\ \E m \in Renderings[e][cache[e].spec] :
       /\ cache' = [cache EXCEPT ![e] = RenderedRecord(e, "Up", Present(m))]
       /\ SaveEntity(e, RenderedRecord(e, "Up", Present(m)))
       /\ afterMap' = Merge(afterMap, m)
       /\ contrib' = [contrib EXCEPT ![e] = m]

\* Some step of the rendering left a message: renderComplete discards the
\* level-1 map and the list of rendered entries.
RenderFail(e) ==
  /\ Visit(e)
  /\ cache' = [cache EXCEPT ![e] = RenderedRecord(e, "Down", {})]
  /\ SaveEntity(e, RenderedRecord(e, "Down", {}))
  /\ UNCHANGED <<afterMap, contrib>>

\* Mutant: any key that exists before and after counts as equal.
ConfigEndNoCompare ==
  /\ pc = "render" /\ toRender = {}
  /\ pc' = "end"
  /\ toDelete' = Present(beforeMap) \ Present(afterMap)
  /\ afterMap' = [k \in Keys |-> IF beforeMap[k] # None THEN None ELSE afterMap[k]]
  /\ toWrite' = Present(afterMap')
  /\ UNCHANGED <<store, cache, vppEntries, beforeMap, contrib, loop, victim, toRender, faults, count>>

\* Mutant: a changed key is deleted before it is written again.
ConfigEndDeletesChanged ==
  /\ pc = "render" /\ toRender = {}
  /\ pc' = "end"
  /\ toDelete' = {k \in Present(beforeMap) : afterMap[k] # beforeMap[k]}
  /\ afterMap' = [k \in Keys |-> IF afterMap[k] = beforeMap[k] THEN None ELSE afterMap[k]]
  /\ toWrite' = Present(afterMap')
  /\ UNCHANGED <<store, cache, vppEntries, beforeMap, contrib, loop, victim, toRender, faults, count>>

\* RenderTxnConfigEnd sorts the keys out: a before entry that is not in the
\* after map is deleted, an equal one is dropped from the after map, and what
\* remains there is written.
RenderTxnConfigEnd ==
  /\ pc = "render" /\ toRender = {}
  /\ pc' = "end"
  /\ toDelete' = Present(beforeMap) \ Present(afterMap)
  /\ afterMap' = [k \in Keys |-> IF afterMap[k] = beforeMap[k] THEN None ELSE afterMap[k]]
  /\ toWrite' = Present(afterMap')
  /\ UNCHANGED <<store, cache, vppEntries, beforeMap, contrib, loop, victim, toRender, faults, count>>

EndDelete(k) ==
  /\ pc = "end" /\ k \in toDelete
  /\ DeleteKey(k)
  /\ vppEntries' = [vppEntries EXCEPT ![k] = None]
  /\ beforeMap' = [beforeMap EXCEPT ![k] = None]
  /\ toDelete' = toDelete \ {k}
  /\ UNCHANGED <<config, cache, afterMap, contrib, pc, loop, victim, toRender, toWrite, count>>

EndWrite(k) ==
  /\ pc = "end" /\ toDelete = {} /\ k \in toWrite
  /\ etcd' = [etcd EXCEPT ![k] = afterMap[k]]
  /\ toWrite' = toWrite \ {k}
  /\ UNCHANGED <<config, cache, vppEntries, txn, pc, loop, victim, toRender, toDelete, faults, count>>

\* The loop ignores the error RenderTxnConfigEnd returns.
EndTxn == pc' = "idle" /\ pending' = FALSE /\ UNCHANGED <<enabled, boot>>

\* Mutant: the error path commits VppEntries all the same.
EndWriteErrorCommits(k) ==
  /\ pc = "end" /\ toDelete = {} /\ k \in toWrite
  /\ CanFail("put") /\ Failed("put")
  /\ etcd' \in {etcd, [etcd EXCEPT ![k] = afterMap[k]]}
  /\ vppEntries' = Merge(vppEntries, afterMap)
  /\ toWrite' = {} /\ contrib' = NoContrib
  /\ EndTxn
  /\ UNCHANGED <<config, cache, beforeMap, afterMap, victim, toRender, toDelete, count>>

\* A write error, which leaves it open whether etcd applied the request,
\* returns at once: what was written stays written, and
\* VppEntries does not learn of it.
EndWriteError(k) ==
  /\ pc = "end" /\ toDelete = {} /\ k \in toWrite
  /\ CanFail("put") /\ Failed("put")
  /\ etcd' \in {etcd, [etcd EXCEPT ![k] = afterMap[k]]}
  /\ toWrite' = {} /\ contrib' = NoContrib
  /\ EndTxn
  /\ UNCHANGED <<config, cache, vppEntries, beforeMap, afterMap, victim, toRender, toDelete, count>>

\* Mutant: VppEntries is not brought up to date.
EndCommitStale ==
  /\ pc = "end" /\ toDelete = {} /\ toWrite = {}
  /\ EndTxn
  /\ UNCHANGED <<store, cache, vppEntries, txn, work, faults, count>>

EndCommit ==
  /\ pc = "end" /\ toDelete = {} /\ toWrite = {}
  /\ vppEntries' = Merge(vppEntries, afterMap)
  /\ EndTxn
  /\ UNCHANGED <<store, cache, txn, work, faults, count>>

-----------------------------------------------------------------------------
BootMessage ==
  \/ ReceiveEnableRenderer \/ ReceiveRender
  \/ \E changed \in BOOLEAN : ReceiveBootResync(changed)

\* Steps the process takes by itself once it has started.
LoopStep ==
  \/ AfterInit \/ InitRAMCache \/ DeleteEntity
  \/ RenderTxnConfigStart \/ RenderTxnConfigEnd \/ EndCommit
  \/ \E k \in Keys : CleanVppAgentEntry(k) \/ DeleteRendered(k)
                     \/ EndDelete(k) \/ EndWrite(k) \/ EndWriteError(k)
  \/ \E e \in Entities : RenderInvalid(e) \/ RenderOk(e) \/ RenderFail(e)

Message ==
  \/ \E changed \in BOOLEAN : ReceiveResync(changed)
  \/ \E e \in Entities, s \in Specs, valid \in BOOLEAN : ReceiveCU(e, s, valid)
  \/ \E e \in Entities : ReceiveD(e) \/ ReceiveDMissing(e) \/ ReceiveDNilStatus(e)
  \/ ReceiveInvalidService

Startup ==
  \/ Start \/ StartClean
  \/ \E e \in Entities, s \in Specs, valid \in BOOLEAN : YamlCU(e, s, valid)
  \/ YamlExit \/ YamlInvalidService

Next == Startup \/ BootMessage \/ Message \/ LoopStep \/ Stop \/ Crash

Spec == Init /\ [][Next]_vars

\* The loop's own steps are one goroutine's code; blocked senders on a Go
\* channel are served in order, so AfterInit's messages are not overtaken for
\* ever.  Nothing obliges anybody to restart a process or to send a message.
FairSpec == Spec /\ WF_vars(LoopStep) /\ SF_vars(BootMessage)

-----------------------------------------------------------------------------
(* Properties.                                                             *)

\* Every variable holds a value of its kind: in particular a Status always has
\* a list of keys, and no key of a transaction map is half written.
TypeOK ==
  /\ etcd \in Maps /\ vppEntries \in Maps /\ beforeMap \in Maps /\ afterMap \in Maps
  /\ config \in [Entities -> Records \cup {None}]
  /\ cache \in [Entities -> Records \cup {None}]
  /\ contrib \in [Entities -> Maps]
  /\ pc \in {"down", "panic", "clean", "init", "idle", "del", "txn", "render", "end"}
  /\ enabled \in BOOLEAN /\ pending \in BOOLEAN
  /\ boot \in {"enable", "resync", "render", "done"}
  /\ victim \in Entities \cup {None}
  /\ toRender \in SUBSET Entities /\ toDelete \in SUBSET Keys /\ toWrite \in SUBSET Keys
  /\ faults \in [Faults -> Nat] /\ msgs \in Nat /\ stops \in Nat

\* The controller never believes that etcd holds a VPP key that it does not
\* hold, whatever errors and crashes there were.  RenderTxnConfigEnd skips the
\* write of a key whose VppEntries value is equal, so a key in VppEntries that
\* is missing in etcd would never be written again.
NoPhantomEntry ==
  Up /\ pc # "clean" => \A k \in Keys : vppEntries[k] # None => etcd[k] # None

\* As long as no write of a VPP key has failed, what VppEntries holds is what
\* etcd holds, at every instant but the one between a key's write and the
\* commit of its transaction: crashes and failed deletes included.
MirrorExact ==
  faults["put"] = 0 /\ Up /\ pc # "clean" =>
    \A k \in Keys :
      vppEntries[k] # None /\ ~(pc = "end" /\ afterMap[k] # None)
        => etcd[k] = vppEntries[k]

\* At rest every key some entity rendered is in etcd with the value one of its
\* renderers gave it (the last one visited wins).
Delivered ==
  Quiet => \A e \in Entities, k \in Keys :
    contrib[e][k] # None => \E f \in Entities : contrib[f][k] # None /\ etcd[k] = contrib[f][k]

\* The same for as long as no write of a VPP key by RenderTxnConfigEnd failed.
DeliveredUnlessWriteFailed == faults["put"] = 0 => Delivered

NoFaults == \A f \in Faults : faults[f] = 0

\* Without faults every key in etcd is, at rest and while the process is
\* stopped, listed in the persisted Status of some entity: this is what a
\* restart needs to find it again.  (Between a CU, which persists an empty
\* Status, and the end of the render it causes, this does not hold.)
TrackedAtRest ==
  NoFaults /\ (Quiet \/ ~Up) => Present(etcd) \subseteq Listed(config)

\* At rest etcd holds nothing that no entity of the last transaction rendered.
NoOrphanAtRest ==
  NoFaults /\ Quiet => \A k \in Present(etcd) : \E e \in Entities : contrib[e][k] # None

\* -clean leaves no VPP key of the controller behind, if it was only ever
\* stopped in an orderly way and its etcd operations succeeded.
CleanSweepsWithoutFaults ==
  [][NoFaults /\ pc = "clean" /\ pc' = "init" => etcd' = Empty]_vars

\* A transaction deletes no key that an entity rendered in it, and does not
\* touch a key that every one of its renderers left as it was.
TouchesOnlyChanges ==
  [][pc = "end" => \A k \in Keys : etcd'[k] # etcd[k] =>
       /\ etcd'[k] = None => \A e \in Entities : contrib[e][k] = None
       /\ etcd'[k] # None => \E e \in Entities : contrib[e][k] \notin {None, beforeMap[k]}]_vars

\* A process that has started, and one that has accepted a change, comes to rest
\* with everything rendered: messages that arrive before rendering is enabled
\* leave their change pending, and the start-up messages bring it about
\* (ProcessOperationalMessages).
ChangeIsRendered == (Up /\ (pc = "init" \/ pending)) ~> (Quiet \/ ~Up)
=============================================================================

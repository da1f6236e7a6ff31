# Formal models of the SFC controller

TLA+ models of the service-function-chain controller in `src/`, the TLC runs
that check them on small instances, and TLAPS proofs of what holds for every
instance. Paths below are relative to `src/plugins/controller/` unless they
start with `src/`.

## 1. The system

The controller keeps a configuration (nodes, node overlays, services, IPAM
pools, pod placement, system parameters) and turns it into VPP-agent
configuration: keys and values in etcd that the VPP agents watch.

```
 HTTP handlers ─┐                        ┌─> managers' caches (RAM)
 etcd watchers ─┼─> unbuffered channel ──> loop ──> /v2/config, /v2/status (etcd)
 pod-map ticker ┤      (one receiver)    └─> RenderAll in a transaction
 AfterInit ─────┤                               └─> VPP-agent keys (etcd)
 CRD workers ───┘
```

| Part | State | Operations | Source |
|---|---|---|---|
| Message loop | enabled and pending flags | one branch per message, a render after each | `model_mgrs.go` |
| Render transaction | `beforeMap`, `afterMap`, `VppEntries` | start, merge per entity, remove, end (compare, delete, write, commit) | `rendertxn.go` |
| Nodes, services | cache, record with Status in etcd | create/update, delete, render, HTTP, watcher | `networknode.go`, `networkservice*.go` |
| Connections | none of their own | four kinds: layer 2 or 3, point to point or multipoint | `networkservice_{l2pp,l2mp,l3pp,l3mp,if}.go` |
| IPAM | pools, allocators by scope, interface statuses | create/update, delete, allocate, set, recover | `ipampool.go`, `idapi/ipam/ipam.go`, `interfaces.go` |
| Overlays | VNI allocators, vxlan addresses | create/update, delete, render mesh or hub-and-spoke | `networknodeoverlay*.go`, `idapi/vxlan.go` |
| Pod to node map | users' map, the map rendering reads | create/update, delete, resync with Contiv | `networkpodnodemap.go` |
| System parameters | one record | create/update, reset | `sysparms.go` |
| Start-up | none | load, recover, `-clean`, YAML, start goroutines | `plugin_impl_controller.go`, `sfc_config_yaml.go` |
| VPP objects | none | constructors, bridge-domain merge | `vppagent/vpp_agent.go` |
| Custom resources | informer's copy, work queue | sync handler, status update | `src/plugins/k8scrd/` |

The custom-resource plugin is commented out in `src/sfc_controller.go`; it is
modelled as it would run.

What makes the system hard:

* The process can die between any two etcd operations. What it finds again is
  what the Status of some entity lists, and an update empties that list first.
* Errors of etcd are mostly dropped. A failed write leaves etcd ahead of the RAM
  copy that decides what is written next.
* Requests are answered when they are received, before they are applied, and
  handlers read the caches while the loop changes them.
* The watchers see the controller's own changes, later.
* Addresses are kept in three places (allocator, interface status, saved
  Status) with different lives; MAC, memif, VNI and VRF numbers in two.
* Everything is rendered again after every message, maps are iterated in any
  order, and services append to bridges that nodes have rendered.
* Where a pod runs is said by users and by Contiv, and both may change it while
  a render is under way.

`PROJECT.json` lists every part and every hazard with its line, and which
property covers it.

## 2. Modules

The models look at the system at four grains, because one state machine with
every step and every datum is out of reach:

| Grain | Modules |
|---|---|
| every etcd operation a step, what is rendered opaque | `Renderer` |
| every message a step, the addresses in full | `IpamAllocator`, `IpamPools` |
| every message a step, the rendered entries in full | `VppEntries`, `IdAllocators`, `HostNames`, `InterfaceRender`, `OverlayRender`, `ServiceRender`, `EntityRender`, `Services` |
| goroutines and the channel, rendering reduced to what they see of it | `Northbound`, `PodNodeMap`, `CrdController` |

`VniUse` is the abstract specification of VNIs that `Services` implements.
`MCRenderer`, `MCIpamPools`, `MCNorthbound`, `MCServices` and `MCCrdController`
give values to constants. Eight modules hold the theorems of section 4, each with
the module it is about: `RendererProofs`, `NorthboundProofs`, `IpamPoolsProofs`
(with the lemmas about `IpamAllocator`), `IpamStoreProofs` and `IpamUniqueProofs`
on top of it, `IdentifierProofs` (`IdAllocators` and `HostNames`),
`PodNodeMapProofs` and `CrdControllerProofs`. An operator that says "Mutant" is a plausible bug,
used to see that a property notices it.

### Renderer

One variable per piece of state: `etcd` (VPP keys), `config` (saved entities),
`cache`, `vppEntries`, `beforeMap`, `afterMap`, the two flags of the loop, and
the work lists of the loops in the code (`toRender`, `toDelete`, `toWrite`).
`contrib` is history: what each entity put into the last transaction. Actions
carry the names of the functions. Every etcd operation is a step, so that a
crash can fall between any two; the code between two etcd operations is one
step. What an entity renders is any member of `Renderings[e][spec]`: a set,
because a render that draws a fresh id gives other keys each time.
`ReceiveInvalidService` and `ReceiveDNilStatus` are the nil dereferences of the
code; they lead to `pc = "panic"`.

### IpamAllocator and IpamPools

Addresses and ids are numbers of `W` bits, as `uint32` is of 32; ranges wrap.
The two search loops of `AllocateIPAddress` are the sets of ids they pass, and
the first free one in their order. An IPv6 network gives `Nil`, as
`NewIPAMPoolAllocator` does. `InitInterfaceStatus` goes over a Go map, in any
order, and stops at the first error: `SetEnds` and `SetChoices` are the ways it
can end and what may have been set by then. `GatherAddresses` is its first part;
the last, which looks for every address in every pool, reserves nothing but panics
at an IPv6 pool (`NilReached`). An interface status read back from etcd has a nil
map where an empty one was written (`made`). etcd operations succeed here.

### From specifications to entries: VppEntries to EntityRender

A VPP entry is a key and a value. A name is the tuple of the parts that the code
concatenates. A list that is sorted before it is compared is a set or a bag.
The fields that nothing in the controller reads are left out. The socket of a memif
is its directory and the agent in its file name; a Linux namespace is its type and
the fields that name it. The key of a route has the network of its destination.

The code's functions are operators on one record `w`, which holds what they read
and change: the caches, the allocators, the interface statuses, VppEntries, etcd
and both levels of the transaction, and what the last call returned. `Then(w, F)`
goes on with `F` unless a call has failed; `Each` is a loop with such calls. `w.res`
is `"ok"`, `"error"` (the function returned an error) or `"panic"` (a nil was
dereferenced). A pointer that may be nil is a sequence of at most one element.

* `IdAllocators`: the bitmap in words of `WordBits`, unsigned arithmetic modulo
  `UintRange`, the VNI allocator, the counters, the MAC address format.
* `HostNames`: how the Linux name of a tap or veth is shortened.
* `InterfaceRender`: interface statuses; memif, direct memif, tap and veth pairs.
* `OverlayRender`: bridges, templates, the meshes and the hub with its spokes.
* `ServiceRender`: the four kinds of connection, on one node and between nodes.
* `EntityRender`: validation, one node or service with its status, the
  transaction over all of them, nodes first.

A bridge of a node is a pointer that the transaction shares with VppEntries in
some cases, and services append to it in place: `alias` is the set of keys for
which that is so, and an append then changes both.

### Services and VniUse

`Services` is the loop over whole messages: a request is handled and everything
is rendered, in any order of iteration of the two maps. Node, overlay, service
and system-parameter requests, pods that move, stops, starts with load, recovery
and YAML. Rendering sets Parent in the interfaces of a service's own specification,
so the same specification posted again is applied and rendered again, as in the
code. `Become(w)` takes over the record; after a panic the process is down
with an empty RAM cache, and what was written to etcd before the panic is
there. The entries of etcd are written at the end of the transaction, so they
are not.

`VniUse` says what an overlay's VNI allocator promises: while the process runs, a
connection gets a VNI nobody had before and no two have the same. The refinement
maps `taken` to the bits of the allocator and `use` to the VNIs of the tunnels in
VppEntries.

### Northbound

A goroutine blocked on the channel is an element of `sendq`, in arrival order,
which is how Go serves them. A POST handler reads the cache, then answers,
refuses or sends; it answers after the receive. A message is received, changes
the cache, then etcd, then causes a render, each a step. The watch of etcd is a
queue of events that starts empty when the watcher's goroutine registers it.
`last` and `missed` are history. Rendering is reduced to what watchers see of
it: the record of each entity is written back. The module covers nodes and
services, whose handlers are the same in this respect.

### PodNodeMap

`config` and `contiv` are the two maps in etcd, `cache` and `ram` the ones in
memory, `rendered` the map the last render read. Senders are in `sendq` as in
`Northbound`: handlers, the users' watcher, the KSR watcher, the ticker, and
AfterInit. One iteration of the loop is one action; `SyncNetworkPodToNodeMap` and
the decision to render are part of it. Events before the watch is registered
are lost. A write or a delete of the users' map may fail, after which memory and
etcd differ. The watch takes the prefix off a key, so a report of a deletion, the
controller's own too (`echoes`), is a deletion by name like that of a user.
`asked`, what the handled requests make of the map, and `overtaken` are history.

### CrdController

The API server's objects with a resource version, the informer's copy (`lister`),
the work queue as client-go keeps it (`waiting`, `queue`, `dirty`, `processing`),
two workers, the message a worker is blocked on, the loop, and the status
update, which sends a whole object back and fails on a version conflict. The API
server is external and modelled by how the plugin uses it; the work queue is the
one in `src/vendor/k8s.io/client-go/util/workqueue/`. The
lister's objects are changed in place by the conversion, as in the code: `filled`
stands for the fields the controller fills in.

## 3. Runs

All bounds are named constants. Deadlock is checked in `podmap`, where the ticker
never stops; every other instance stops when its bounds are used up, and the
liveness properties say that nothing stops before.

| Run | Shows |
|---|---|
| `renderer_faults` | with one failure of each kind and a crash anywhere: `NoPhantomEntry`, `MirrorExact`, `DeliveredUnlessWriteFailed`, `TouchesOnlyChanges` |
| `renderer_restart` | over a stop, a crash, a failed write, restarts and `-clean`: `TrackedAtRest`, `NoOrphanAtRest`, `CleanSweepsWithoutFaults`; and under fairness `ChangeIsRendered`: after a start or a change everything comes to be rendered |
| `ipam_steady` | `AddressesUnique`, `HostAddresses`, `DownHasCause` while pools are set and entities come and go, with a crash |
| `ipam_changes` | `RestartKeepsAddresses`, `NoPanicLoop` while everything changes |
| `northbound_consistent` | for two clients, the watcher, deletions by others and a crash: `CacheMatchesStore`, and `CalmRequestSticks`: a request that meets nothing else under way does what it was answered for |
| `northbound_live` | `Answered`, `ComesToRest`, `DeletionCarriedOut` |
| `services` | over requests of every kind, pods that move and restarts, what is in etcd fits together (`TunnelsMatched`, `MemifsPaired`, `MacsApart`, `RoutesLead`), does what services ask (`UpMeansRendered`, `UpMeansConnected`), is accounted for (`TrackedStays`), survives a restart (`RestartKeepsLocal`), and uses VNIs as promised (`VnisImplemented`, a refinement) |
| `podmap` | `RenderedIsRam`: no change of the map is left unrendered; `LocationsStick`: what users ask for stays, unless they place a pod again before its deletion is reported; `PlacedStays`: no pod that Contiv locates is lost to the renderer; `SettlesRight`: once the maps are left alone, the renderer works with the right one |
| `crd` | `SpecIsUsers`: a status update brings back no earlier specification; `NeverOlder`: two workers never put an older version after a newer one; `SpecsArrive`: the last one arrives |

One run of each state machine also checks its type invariant.

`UpMeansConnected` is the reference definition of a layer 2 connection: it builds
the graph of ports that bridges, cross connects, memif pairs, tunnels and veth
pairs make, from the entries in etcd alone, and asks that the interfaces of the
connection reach each other. The rendering functions do not appear in it. It leaves
out interfaces that the code does not connect, for reasons listed below: taps, veths
with a namespace, and direct memifs with two directories. A connection within one
pod renders no interfaces, and joins those that are there.

The remaining runs expect a violation; each is a finding of `PROJECT.json`:

| Run | What the code does |
|---|---|
| `renderer_lostwrite` | after a failed write, a later successful transaction can leave a value nobody rendered |
| `services_memif` | a direct memif pair that is later put on a bridge keeps one id for both ends, and the vswitch then serves two memifs of the same id on one socket |
| `services_resync` | VNI allocators are not made again when overlays are loaded: after a restart services over a mesh go down and their tunnels are deleted |

### Further disagreements

Met while modelling, without a run of their own.

Crashes and panics:

* A crash between the write of an empty Status and the end of the render that
  follows leaves keys that `-clean` does not find: `CleanSweepsWithoutFaults` of
  `Renderer` without `NoFaults`.
* A service that fails validation when applied (`networkservice.go:115`), and the
  deletion of an entity before its first render (`networkservice.go:328`), meet a
  nil Status: `pc # "panic"` of `Renderer`.
* A panic while rendering comes after statuses were saved as Up and before the
  entries are written; the keys that only the old Status listed stay in etcd.
  This is why `TrackedStays` speaks of steps after which the process is up.
* A layer 3 multipoint connection with an interface that has no address indexes
  an empty list (`networkservice_l3mp.go:224`, `:316`).

Requests and watchers:

* A POST compared with a cache that a request under way is about to change is
  answered OK and lost (`networknode.go:325`).
* The echo of a DELETE deletes an entity that was created since
  (`networknode.go:754`).
* A key deleted between the load of the cache and the start of the watch
  (`networknode.go:740`) is never noticed: `CacheMatchesStore` without `~missed`.
* A POST of an identical service is not found equal once the service was rendered:
  the cached copy has Parent filled in (`networkservice_l2pp.go:75`). It is applied
  and rendered again, and over a mesh takes another VNI. A node's POST is validated
  first, which fills Parent in (`networknode.go:717`), and is found equal.

Addresses and ids:

* Deleting a system pool removes the allocators of the other system pools
  (`ipampool.go:303`).
* Deleting a service that is down leaves interface statuses behind
  (`interfaces.go:189`); created again it collides with others:
  `AddressesUnique` in `ipam_steady` with `"deleteDown"` added to the requests, one
  service, only pools of service scope, six requests and no crash.
* Other requests have the same effect, `AddressesUnique` failing with them. The
  allocators of a node are dropped with it (`networknode.go:221`) and start anew
  when it comes back, while services keep the numbers they had (`"deleteNode"`, one
  node, a pool of node scope, seven requests). A deleted system pool that comes back
  is as new in the same way (`"deletePool"`, two system pools, seven requests). After
  a change of a pool's scope, numbers from allocators that were apart are in one
  (`"changePool"`, five requests). A pod that moves takes its number along to the
  other node (`"move"`, two nodes, a pool of node scope, six requests).
* The default range of a /32 wraps around (`idapi/ipam/ipam.go:168`) and nothing
  compares a configured end with the network: such pools give addresses outside
  their network. `ipam_steady` has one of each, and `HostAddresses` asks of them
  only that numbers are in the range.
* An IPv6 pool passes `validate` (`ipampool.go:489`) and its allocator is nil. Not
  only an interface that names the pool panics: SetAddressIfInPool looks into every
  pool for every address (`interfaces.go:77-83`), so that each interface with an
  address panics, at the next render and again at every restart: `pc # "panic"`
  of `IpamPools` with the pools `OnlyV6`.
* Static addresses are not reserved in the pools they fall into, as
  `interfaces.go:77` says they are: `SetIPAddrIfInsidePool` cannot parse the CIDR
  form that `validate` requires.
* The VRF counter starts again after a restart and gives ids that saved
  connections have (`idapi/vrf.go:32`).
* A change of an overlay's VNI range is ignored (`networknodeoverlay.go:167-170`),
  and a tunnel address is cached by node, whatever pool the overlay names
  (`networknodeoverlay.go:125`).
* A MAC address in a specification is not compared with those given out; the one in
  `services` is of another prefix, and `MacsApart` depends on that.
* Every render of a connection over a mesh takes another VNI; none is given back
  until the process ends.

Rendering:

* The name of a tap pair is not returned (`networkservice_if.go:283`), so a bridge
  gets a member with an empty name. A namespace in its parameters is written as the
  microservice of a namespace of type named (`vppagent/vpp_agent.go:463-464`).
* A LinuxNamespace of a veth is given to both ends of the pair
  (`networkservice_if.go:338`, `:354`), so neither is left where the vswitch would
  find it.
* The two ends of a direct memif each have the MemifDirectory of their own
  specification (`networkservice_if.go:164`, `:198`). If they differ, so do the
  sockets.
* A service that fails has its entries removed but stays a member of the node's
  bridge it appended to (`rendertxn.go:108`); a bridge of a node that is not
  valid any more is appended to in VppEntries only.
* The routes under a layer 3 tunnel are put into the VRF of the connection.
* Without system parameters the MTU is 0 until the first request, and 1500 after a reset.
* Host names that are shortened can collide: only the length is guaranteed.

Pod map:

* A pod deleted by a user stays in the merged map until the next sync; a POST for a
  pod that Contiv locates is rendered and undone by the next sync.
* A render before the first sync after a start has the users' map only.
* The watch reports the controller's own deletions as well, and each is carried out
  a second time (`networkpodnodemap.go:320`): a location that a user has set in
  between is deleted from the cache and from etcd. `LocationsStick` without
  `~overtaken`.

Custom resources:

* After an error the comment in `src/plugins/k8scrd/crd_controller.go:233-237`
  speaks of a retry; there is none. The informer's resync every 30 s makes up for
  it, and `SpecsArrive` depends on it.
* An entity is named without the namespace of its object
  (`src/plugins/k8scrd/networknode.go:130`): two objects of one name overwrite each
  other. `NeverOlder` is proved for distinct names.
* A status update that meets a conflict is lost and not tried again.
* Objects of the lister are changed in place, so that filled-in fields reach the
  specification in Kubernetes.
* Deleted objects are not deleted in the controller.

### Bounds

* `Renderer`: one node and one service that share a key, three keys, two values,
  two specs each, three messages: enough for a shared key to be rendered twice,
  changed, dropped and left to one owner. `renderer_restart` adds one orderly stop
  to one crash and one failed write, so that a second start follows a first.
* `IpamPools`: three address bits, networks of two hosts, so that a pool runs out
  at the third interface, or of one address; three interfaces in two services; five requests and one
  crash.
* `Northbound`: one name, because the code treats names independently; two clients
  and three requests, because each race found needs at most three; one deletion by
  others; one crash. Clients and specs are interchangeable in
  `northbound_consistent`, which uses that as symmetry.
* `Services`: two nodes, two pods of which one may move, two services that share a
  pod, one overlay. Ten service specifications cover the four kinds of connection,
  between nodes, on one and within a pod, with memif, tap, veth and ethernet ends, with
  and without directories and namespaces, in a bridge of their own, of the node, or
  of a template. Runs start empty, with nodes, or with
  services from a YAML file, and go on for two requests and a restart; the VNI range
  has three or five numbers, so that it runs out. Words of the bitmap have two
  bits, so that a range crosses words.
* `PodNodeMap`: one pod, because the code treats pods independently; two nodes; two
  requests, one move, one crash, one failure: a deletion and a location set before
  its report are two requests.
* `CrdController`: one object, because a key is what the queue keeps apart; two
  workers; two edits and one failure. The proofs are for any number of objects.

### Fairness

Weak fairness of the loop's steps, of the watchers, of AfterInit and of each
handler: they are goroutines, and the Go scheduler is fair to runnable ones.
`Renderer` has no queue of senders and uses strong fairness of `BootMessage` for
the same fact that `Northbound` and `PodNodeMap` model by `sendq`: blocked senders
are served in order. `CrdController` does the same with `Receive(w)`, for a
worker's message. In `Northbound` and `PodNodeMap` a process that has crashed is
assumed to be started again, and in `PodNodeMap` the ticker goes on ticking; in
`CrdController` the informer follows the API server and resyncs, as client-go does
for the period the plugin gives it. Nobody is obliged to make a request or to cause
a fault, nor in the other modules to restart the process.

## 4. Proofs

The theorems hold for every value of the constants that satisfies the named
assumptions of the modules.

| Module | Theorem | States |
|---|---|---|
| `RendererProofs` | `TypeCorrect` | `Spec => [](TypeOK /\ WorkOK)` |
| | `NoPhantomEntryHolds` | VppEntries lists no key that etcd lacks, whatever fails |
| | `MirrorExactHolds` | VppEntries has etcd's values while no write of a VPP key has failed |
| | `DeliveredHolds` | at rest every rendered key is in etcd with a value rendered for it |
| | `TouchesOnlyChangesHolds` | a transaction deletes no rendered key and leaves unchanged ones alone |
| | `TrackedAtRestHolds` | without faults the saved Statuses list every VPP key in etcd |
| | `NoOrphanAtRestHolds` | without faults nothing is left in etcd that no entity rendered |
| | `CleanSweepsHolds` | without faults -clean leaves no VPP key |
| `NorthboundProofs` | `TypeCorrect` | `TypeOK` of `Northbound` |
| | `CacheMatchesStoreHolds` | cache and etcd agree whenever nothing is under way |
| | `CalmRequestSticksHolds` | a request that nothing overtook is in the cache once all is quiet |
| `IpamPoolsProofs` | `TypeCorrect` | `TypeOK` of `IpamPools` |
| `IpamStoreProofs` | `RestartKeepsAddressesHolds` | at rest etcd has the addresses RAM has, for what is up |
| | `NoPanicLoopHolds` | a status whose nil map would make a restart panic is never saved |
| `IpamUniqueProofs` | `AddressesUniqueHolds` | with steady requests no number of an allocator is held twice |
| | `HostAddressesHolds` | with steady requests every number held is in its pool's range, and is a host address of the network if the range ends inside it |
| | `DownHasCauseHolds` | with steady requests what is down at rest has one of four visible reasons |
| `IdentifierProofs` | `NewVniAllocator` | a new allocator has every VNI of its range free |
| | `VniAllocation` | a VNI given out is in the range and free, only it is taken, and allocation fails only when all are taken |
| | `MacAddressesDiffer` | different counters give different MAC addresses |
| | `HostNameFits` | a shortened host name has at most 15 characters |
| `PodNodeMapProofs` | `TypeCorrect` | `TypeOK` of `PodNodeMap` |
| | `RenderedIsRamHolds` | after start-up the map last rendered is the map now |
| | `LocationsStickHolds` | the users' map is what their requests make it, in memory and etcd, if none was overtaken by the report of a deletion |
| | `PlacedStaysHolds` | no step takes from the renderer a pod that Contiv locates |
| `CrdControllerProofs` | `TypeCorrect` | `TypeOK` of `CrdController` |
| | `SpecIsUsersHolds` | a status update brings back no earlier specification |
| | `WorkersApart` | no two workers hold the same key |
| | `NeverOlderHolds` | if names are distinct, the controller never goes back to an earlier version |

**Renderer.** Assumed: nodes and services are disjoint, `None` is no value,
`Renderings` has its type, bounds are naturals. The argument has four layers,
each using the one before.

1. `TypeInv` adds to `TypeOK` what the work lists hold in each phase (`WorkOK`).
2. `MirrorInv` adds `TxnOK`: during a transaction the before map and the work
   lists are what comparing it with the after map gave. `NoPhantomEntry` and
   `MirrorExact` are not inductive without it, because the commit enters all of
   the after map into VppEntries on the strength of the writes done before.
3. `ContribInv` follows a rendered value by phase: into the after map
   (`Rendering`), through comparison and writes (`Ending`, where `Final` is the
   value VppEntries will have), into VppEntries (`AtRest`). With `MirrorExact`
   it is then in etcd.
4. `TrackedInv` says who knows of the keys in etcd in each phase (`Known`): the
   saved Statuses while the process is down, the list of keys to delete during
   -clean, VppEntries once they are loaded, and at the end of a transaction the
   keys to delete together with those rendered. It also needs that an entity's
   saved Status lists what it put into the transaction (`ListedOK`) and that the
   loop never waits with a change it could render (`FlagsOK`).

**Northbound.** Assumed: `None` is no name, specification or message, and the
watcher and AfterInit are not clients. `Typed` adds to `TypeOK` that a goroutine
waits on the channel at most once and has its message while it waits, and that the
loop's work belongs to the message received. `CacheMatchesStore` then follows from
`Differences`: cache and etcd differ for a name only while the loop is between the
two writes, or where a deletion by others is still in the events, with the watcher,
or in the loop's hands. `CalmRequestSticks` needs more, because the answer is sent
before the message is applied. `CalmOK` follows a calm request from the handler over
the channel into the cache: the entity has its specification once the message the
loop holds is applied, and no deletion of it is on its way (`Holds`), unless another
request for it is (`Superseded`).

**Addresses.** Assumed: an interface belongs to one entity; specifications have
their types; `None` and `Nil` are not records; and `PowersAssumption`, the recursive
law of powers of two, which the prover does not know. There are six steps.

1. `IpamPoolsProofs` begins with the operators. `AllocatableFacts`: the number
   `AllocateIPAddress` returns was free, and is in the range if the allocator is
   `Sound`, that is, if the range ends below the largest number; otherwise the first
   loop runs on past it. The loop of `InitInterfaceStatus` is a recursive function
   of the length of its list, so the prover is first given the existence and the
   properties of such functions (`RecursionUpTo`, by the least counterexample). The
   outcome is `Extends`: numbers the interface had stay, numbers it got were free,
   allocators only grow.
2. `Typed` adds to `TypeOK` the records by entity and `WorkOK`, which says what is
   being rendered.
3. `Renders` says what a rendered entity leaves behind. An entity that is up has the
   same in etcd, cache and RAM (`Settled`); of the one being rendered this holds for
   the interfaces done (`Underway`). `RestartKeepsAddresses` is `Settled` at rest.
   `NoPanicLoop` has an invariant of its own, `AllNumbered`: a status whose
   interface asks for pools has a number of each, in the cache and in etcd.
4. `Unique` is about etcd and RAM together, because a crash leaves only etcd. The
   saved numbers are distinct, and each is one that a start takes back: its pool is
   there, its allocator will be made, and the range has it (`StoredOK`). In RAM the
   numbers are distinct and marked, and each allocator has the range of its pool
   (`Marked`, `Made`). Neither half is inductive without the relation between them:
   the cache has no number that RAM lacks (`Cached`), and RAM has what etcd has,
   except for an entity whose rendering has just failed (`Covers`). This is what
   makes it safe that renderComplete writes one entity at a time.
5. `HostAddresses` needs two things. `AllStored`: every number in RAM is of the
   range of its pool, also while the process comes up. And that formatIPAddress,
   a bitwise or, is the sum of network and number when the number fits into the host
   bits (`BitOrSum`, by the least bit at which the partial sums would differ; from
   `Masked` for the bits of the network and `Short` for those of the number), so that
   the address has the network's prefix and the number as its remainder
   (`InNetwork`). `RangeInNetwork` shows that a range whose end is not configured
   fits: NewIPAMPoolAllocator ends it before the broadcast address.
6. `DownHasCause` is about the moment an entity is found at rest, the cause about the
   moment its rendering failed. `Causes` carries the cause from there to the end of
   RenderAll: it survives the rendering of the entities that follow because an
   allocator that is missing or used up stays so (`Kept`). That a missing allocator
   is never the reason is a second invariant, `AllMade`: EntityCreate, called for
   pools and for entities in whatever order they come, and the start have made every
   allocator that a configured pool and entity call for, and EntityDelete removes
   none that is still wanted.

`AddressesUniqueHolds`, `HostAddressesHolds` and `DownHasCauseHolds` have two
hypotheses. `BoundedRanges` excludes ranges that end at the largest number.
`SteadyRequests` excludes changes and deletions of pools, deletions of nodes and of
services that are down, and moves of pods. None can be dropped from the first: with
each of these requests added TLC finds two interfaces with one number of one allocator
(section 3). The other two rest on its invariant. That networks are masked, as
ParseCIDR leaves them, is part of the assumption on `PoolSpecs`. A range whose end is
configured outside its network is not excluded; of it only the first half of
`HostAddresses` is claimed.

**Id allocators.** Assumed: words have at least one bit. `BitPlace` says that a
bit number is a word and a position in it; from it, setting a bit changes that bit
alone, and the first clear bit of the first word that has one is clear and the
search misses none. `VniAllocation` is what each render step of `VniUse` rests on;
the refinement itself is model-checked.

**Host names.** Of the two parts, each has a share of the 15 characters and may use
what the other leaves. The proof adds up the four cases of short and long names.

**Pod map.** `RenderedIsRam` is not inductive as it stands. `Inv` adds what the
queue can hold: only AfterInit enables the renderer, its last message is a Render,
and only handlers of POST send a node (`QueueInv`); and that rendering is never
put off once it is enabled (`RenderInv`). `LocationsStick` needs `StickInv`: every
deletion that is still to be reported, or whose report is on the channel, is of a pod
that no request has placed since (`Reported`), so that carrying it out again changes
nothing; and cache and etcd are the same while no write has failed. `PlacedStays`
follows from `Inv`: every step either leaves the merged map as it is, adds to it, or replaces it by Contiv's
map over the users'.

**Custom resources.** `SpecIsUsers` depends on optimistic concurrency: an update
with an old copy is refused. The invariant therefore says that every copy (lister,
update under way) with the version of the object in the API server has its
specification, and that no copy is newer (`ListerInv`, `UpdateInv`). The rest is
about the work queue: a key is queued at most once and not while a worker holds
it (`QueueInv`, `WorkInv`), so that one worker at a time handles a key. On top of
that `Order` says that for each key the versions only grow from the controller's
cache to the message received, to the message being sent, to the lister, to the
API server. `NeverOlder` is the first of these. It needs distinct names, because
the code drops the namespace.

**Only model-checked.**

* All of `Services` with the refinement of `VniUse`. It is built from folds over
  sequences of requests and connections, and what a fold with an operator parameter
  computes for every input is beyond the prover.
* Every liveness property (`ChangeIsRendered`, `Answered`, `ComesToRest`,
  `DeletionCarriedOut`, `SettlesRight`, `SpecsArrive`), which needs
  fairness and ENABLED.

## 5. Not modelled

`PROJECT.json` has the list with reasons. In short:

* Generated code, protobuf and deep copies, which is more than a third of the source.
* Parsing and printing of YAML and JSON, logging, the version check of the YAML
  file, and IPAM pools in that file.
* GET handlers, which change nothing.
* The HTTP handlers and watchers of pools, overlays and system parameters, which
  have the form `Northbound` models for nodes and services.
* Fields of VPP entries that are copied and never read (receive mode, admin
  status, tuning parameters).
* The creation of the custom-resource definitions, and three of the four kinds of
  resource, whose code has the form of the nodes'.
* Functions that are never called: `SetVni`, `Clear`, `SetVrfAllocatorInitialValue`,
  `DisableRenderer`.
* Failures of etcd in `Services` and `IpamPools`; `Renderer` has them.
* The race of handlers and loop on Go maps is modelled as reading the old or the
  new entry; that Go may also abort the process is covered as a crash.

## 6. What could follow

1. The results of `Services` as the `Renderings` of `Renderer`, so that one
   instance has both the entries and the failures.
2. Pools of node and service scope in `Services`, and pods that move between nodes
   with pooled addresses, once it is decided what should happen to the address.
